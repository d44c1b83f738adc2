---------------------------- MODULE FetchProofs ----------------------------
(***************************************************************************)
(* What the fetch command asks for, which verdict each report gets and     *)
(* what its exit code says of its directory, for any requests, datalogs,   *)
(* archives, keys and number of commands; that each step of a command is   *)
(* one towards its end; and what is promised of new keys and of downloads, *)
(* which it is composed with.                                              *)
(***************************************************************************)
EXTENDS Fetch, FetcherProofs, FiniteSetTheorems, WellFoundedInduction

\* What create_recipient_key announces is stored, for any number of keys made one
\* after the other.

LEMMA KeygenInitHolds == KeygenInit => KeygenInv
  BY KeygenAssumption
  DEF KeygenInit, KeygenInv, KeygenTypeOK, AnnouncedIsStored, MakingIsNew, Items

\* Every step of a key's making keeps the invariant; Verify is the only one that
\* announces an address, and CreateItem the only one that writes the vault.
LEMMA KeygenStep ==
    ASSUME KeygenInv, [MakeKey]_keygen
    PROVE  KeygenInv'
<1> USE DEF KeygenInv, KeygenTypeOK, AnnouncedIsStored, MakingIsNew
<1>1. CASE Generate
  <2>1. PICK k \in Keys : vault[k] = "none" /\ newKey' = k
    BY <1>1 DEF Generate
  <2>2. k \notin announced
    BY <2>1
  <2> QED
    BY <1>1, <2>1, <2>2 DEF Generate
<1>2. CASE GetTemplate
  BY <1>2 DEF GetTemplate
<1>3. CASE CreateItem
  <2>1. PICK item \in Items : vault' = [vault EXCEPT ![newKey] = item]
    BY <1>3 DEF CreateItem
  <2>2. newKey \notin announced
    BY <1>3 DEF CreateItem
  <2>3. making' \in {"verify", "idle"}
    BY <1>3 DEF CreateItem
  <2> QED
    BY <1>3, <2>1, <2>2, <2>3 DEF CreateItem
<1>4. CASE Verify
  <2>1. PICK answer \in FieldAnswers(newKey, Keys) :
          announced' = IF answer = "good" THEN announced \cup {newKey} ELSE announced
    BY <1>4 DEF Verify
  <2>2. answer = "good" => vault[newKey] = "good"
    BY <2>1 DEF FieldAnswers
  <2> QED
    BY <1>4, <2>1, <2>2 DEF Verify
<1>5. CASE Grant
  BY <1>5 DEF Grant
<1>6. CASE Abandon
  BY <1>6 DEF Abandon
<1>7. CASE UNCHANGED keygen
  BY <1>7 DEF keygen
<1> QED
  BY <1>1, <1>2, <1>3, <1>4, <1>5, <1>6, <1>7 DEF MakeKey

\* Whatever pass-cli stores or answers, an address a person is told to configure
\* has its seed in the vault (create_recipient_key reads it back first).
THEOREM KeysAreRecoverable == KeygenSpec => []AnnouncedIsStored
<1>1. KeygenInv => AnnouncedIsStored
  BY DEF KeygenInv
<1> QED
  BY KeygenInitHolds, KeygenStep, <1>1, PTL DEF KeygenSpec

----------------------------------------------------------------------------
\* The directories of a command and its exit code.

FetchTypes ==
    /\ log \in Logs /\ published \in 0 .. Len(log) /\ unread \in 0 .. published
    /\ requested \in Seq(Targets)
    /\ verdicts \in Seq({"fetched", "download", "decrypt", "read"})
    /\ staging \in [Targets -> BOOLEAN]
    /\ decrypted \in [Targets -> {"none", "partial", "whole"}]

\* The report in hand is the first without a verdict, and there is one.
InTurn ==
    /\ Len(verdicts) <= Len(requested)
    /\ step \in Working => Len(verdicts) < Len(requested)
    /\ step \in Working \cup {"next"} => requested # <<>>
    /\ step \in {"idle", "chain", "walk", "prepare"} => verdicts = <<>>
    /\ step # "idle" => exit = NoCode
    /\ step = "fetch" => get # "off"

\* What was fetched is whole, unless the same report is being fetched again.
FetchedIsWhole ==
    \A n \in DOMAIN verdicts : verdicts[n] = "fetched" =>
        /\ \/ decrypted[requested[n]] = "whole"
           \/ step = "swap" /\ requested[n] = Current
        /\ \/ ~staging[requested[n]]
           \/ step \in {"members", "swap"} /\ requested[n] = Current

FetchInv == FetchTypes /\ InTurn /\ FetchedIsWhole

----------------------------------------------------------------------------

LEMMA FetchInvInit == FetchInit => FetchInv
<1> SUFFICES ASSUME FetchInit PROVE FetchInv
  OBVIOUS
<1>1. /\ log \in Logs /\ published = 0 /\ unread = 0 /\ step = "idle"
      /\ requested = <<>> /\ verdicts = <<>>
      /\ staging = [t \in Targets |-> FALSE] /\ decrypted = [t \in Targets |-> "none"]
  BY DEF FetchInit
<1>2. Len(log) \in Nat
  BY <1>1, FetchAssumption
<1> QED
  BY <1>1, <1>2 DEF FetchInv, FetchTypes, InTurn, FetchedIsWhole, Working

\* The report in hand.
LEMMA CurrentIsRequested ==
    ASSUME FetchInv, Len(verdicts) < Len(requested)
    PROVE  Current \in Targets
  BY DEF FetchInv, FetchTypes, Current

\* A step that leaves lists and directories alone, towards any place in the loop.
LEMMA LoopGoesOn ==
    ASSUME FetchInv, UNCHANGED <<site, files, unread, requested, verdicts, exit>>,
           step \in Working \cup {"next"}, Len(verdicts) < Len(requested),
           step' \in {"next", "fetch", "choose", "key", "stage"},
           step \notin {"members", "swap"}, step' = "fetch" => get' # "off"
    PROVE  FetchInv'
<1>1. step' # "idle" /\ step # "idle" /\ step' \notin {"chain", "walk", "prepare"}
  BY DEF Working
<1>2. InTurn'
  BY <1>1 DEF FetchInv, InTurn, Working
<1> QED
  BY <1>1, <1>2 DEF FetchInv, FetchTypes, FetchedIsWhole, site, files, Current

\* A report that gets a verdict other than "fetched", and leaves no staging.
LEMMA VerdictAdded ==
    ASSUME FetchInv, NEW verdict \in {"download", "decrypt", "read"}, Conclude(verdict),
           step \in Working, step # "swap", UNCHANGED <<site, decrypted>>,
           \/ step \notin {"members", "swap"} /\ staging' = staging
           \/ staging' = [staging EXCEPT ![Current] = FALSE]
    PROVE  FetchInv'
<1>1. /\ verdicts' = Append(verdicts, verdict) /\ step' = "next"
      /\ UNCHANGED <<unread, requested, exit, log, published, decrypted>>
  BY DEF Conclude, walk, site
<1>2. /\ Len(verdicts) < Len(requested) /\ Current \in Targets
      /\ requested \in Seq(Targets) /\ Len(verdicts) \in Nat /\ Len(requested) \in Nat
      /\ verdicts \in Seq({"fetched", "download", "decrypt", "read"})
      /\ staging \in [Targets -> BOOLEAN]
  BY CurrentIsRequested DEF FetchInv, FetchTypes, InTurn
<1>3. /\ Len(verdicts') = Len(verdicts) + 1
      /\ verdicts' \in Seq({"fetched", "download", "decrypt", "read"})
      /\ \A n \in 1 .. Len(verdicts) : verdicts'[n] = verdicts[n]
      /\ verdicts'[Len(verdicts) + 1] = verdict
  BY <1>1, <1>2
<1>4. FetchTypes'
  BY <1>1, <1>2, <1>3 DEF FetchInv, FetchTypes
<1>5. InTurn'
  BY <1>1, <1>2, <1>3 DEF FetchInv, InTurn, Working
<1>6. FetchedIsWhole'
  <2> SUFFICES ASSUME NEW n \in DOMAIN verdicts', verdicts'[n] = "fetched"
               PROVE  decrypted'[requested'[n]] = "whole" /\ ~staging'[requested'[n]]
    BY DEF FetchedIsWhole
  <2>1. n \in DOMAIN verdicts /\ verdicts[n] = "fetched" /\ requested[n] \in Targets
    BY <1>2, <1>3
  <2>2. /\ decrypted[requested[n]] = "whole"
        /\ \/ ~staging[requested[n]]
           \/ step \in {"members", "swap"} /\ requested[n] = Current
    BY <2>1 DEF FetchInv, FetchedIsWhole
  <2> QED
    BY <1>1, <1>2, <2>1, <2>2
<1> QED
  BY <1>4, <1>5, <1>6 DEF FetchInv

\* A command that ends keeps nothing in memory.
LEMMA ExitForgets ==
    ASSUME FetchInv, NEW code, Exit(code), UNCHANGED site,
           staging' \in [Targets -> BOOLEAN], UNCHANGED decrypted
    PROVE  FetchInv'
<1>1. /\ requested' = <<>> /\ verdicts' = <<>> /\ unread' = 0 /\ step' = "idle"
      /\ UNCHANGED <<log, published>>
  BY DEF Exit, site
<1>2. Len(log) \in Nat
  BY FetchAssumption DEF FetchInv, FetchTypes
<1> QED
  BY <1>1, <1>2 DEF FetchInv, FetchTypes, InTurn, FetchedIsWhole, Working

\* Every step of a command, of its download and of the making of a key.
LEMMA FetchInvStep ==
    ASSUME FetchInv, [FetchNext]_fetchVars
    PROVE  FetchInv'
<1>1. /\ FetchTypes /\ InTurn /\ FetchedIsWhole
      /\ log \in Logs /\ published \in 0 .. Len(log) /\ unread \in 0 .. published
      /\ requested \in Seq(Targets)
      /\ Len(verdicts) \in Nat /\ Len(requested) \in Nat
      /\ staging \in [Targets -> BOOLEAN]
  BY DEF FetchInv, FetchTypes
<1>2. Len(log) \in Nat /\ DOMAIN log = 1 .. Len(log) /\ DOMAIN log \subseteq Targets
  BY <1>1, FetchAssumption
<1>3. CASE UNCHANGED <<site, files, unread, requested, verdicts, exit, step, get>>
  BY <1>1, <1>3 DEF FetchInv, FetchTypes, InTurn, FetchedIsWhole, site, files, Current
<1>4. CASE Start /\ requested' \in Seq(Targets) /\ step' \in {"prepare", "chain"}
  <2>1. /\ UNCHANGED <<site, files, unread, verdicts>> /\ exit' = NoCode /\ verdicts = <<>>
    BY <1>1, <1>4 DEF Start, InTurn
  <2>2. Len(verdicts') <= Len(requested') /\ verdicts' = <<>>
    BY <1>4, <2>1
  <2>3. InTurn'
    BY <1>4, <2>1, <2>2 DEF InTurn, Working
  <2> QED
    BY <1>1, <1>4, <2>1, <2>2, <2>3 DEF FetchInv, FetchTypes, FetchedIsWhole, site, files
<1>5. CASE FetchCids
  BY <1>4, <1>5, FetchAssumption DEF FetchCids
<1>6. CASE FetchLast
  BY <1>1, <1>4, <1>6 DEF FetchLast
<1>7. CASE ReadDatalog
  <2>1. /\ UNCHANGED <<log, files, requested, verdicts, exit>>
        /\ published' \in published .. Len(log) /\ unread' = published'
        /\ step = "chain" /\ step' = "walk"
    BY <1>7 DEF ReadDatalog
  <2>2. published' \in 0 .. Len(log) /\ unread' \in 0 .. published'
    BY <1>1, <1>2, <2>1
  <2> QED
    BY <1>1, <2>1, <2>2
    DEF FetchInv, FetchTypes, InTurn, FetchedIsWhole, files, Working
<1>8. CASE ReadFails
  <2>1. CASE reads + 1 < MaxReads
    BY <1>3, <1>8, <2>1 DEF ReadFails, download
  <2>2. CASE ~(reads + 1 < MaxReads)
    BY <1>1, <1>8, <2>2, ExitForgets DEF ReadFails, files
  <2> QED
    BY <2>1, <2>2
<1>9. CASE Walk
  <2>1. /\ UNCHANGED <<site, files, verdicts, exit>> /\ step = "walk" /\ verdicts = <<>>
        /\ step' \in {"walk", "prepare"}
    BY <1>1, <1>9 DEF Walk, InTurn
  <2>2. /\ unread' \in 0 .. published
        /\ requested' \in Seq(Targets)
    <3>1. CASE unread = 0 \/ Len(requested) = last
      BY <1>1, <1>9, <3>1 DEF Walk
    <3>2. CASE ~(unread = 0 \/ Len(requested) = last)
      <4>1. unread \in Targets /\ unread - 1 \in 0 .. published
        BY <1>1, <1>2, <3>2
      <4>2. <<unread>> \o requested \in Seq(Targets)
        BY <1>1, <4>1
      <4> QED
        BY <1>1, <1>9, <3>2, <4>1, <4>2 DEF Walk
    <3> QED
      BY <3>1, <3>2
  <2>3. Len(verdicts') <= Len(requested')
    BY <2>1, <2>2
  <2> QED
    BY <1>1, <2>1, <2>2, <2>3
    DEF FetchInv, FetchTypes, InTurn, FetchedIsWhole, site, files, Working
<1>10. CASE Prepare
  <2>1. CASE requested = <<>>
    BY <1>1, <1>10, <2>1, ExitForgets DEF Prepare, files
  <2>2. CASE requested # <<>>
    <3>1. /\ UNCHANGED <<site, files, requested, verdicts, exit>>
          /\ step = "prepare" /\ step' = "next" /\ unread' = 0
      BY <1>10, <2>2 DEF Prepare
    <3> QED
      BY <1>1, <1>2, <2>2, <3>1
      DEF FetchInv, FetchTypes, InTurn, FetchedIsWhole, site, files, Working
  <2> QED
    BY <2>1, <2>2
<1>11. CASE NextReport
  <2>1. \E next \in {"fetch", "choose"} : Go(next) /\ (next = "fetch" => get' # "off")
    BY <1>11 DEF NextReport, Call
  <2> QED
    BY <1>1, <1>11, <2>1, LoopGoesOn DEF NextReport, Go, walk
<1>12. CASE FetchOn
  <2>1. get' # "off"
    BY <1>12 DEF FetchOn, Get, Open, Complete, Retry, Refuse, TooLarge, Break, GiveUp
  <2>2. UNCHANGED <<site, files, unread, requested, verdicts, exit, step>>
    BY <1>12 DEF FetchOn, command, walk
  <2> QED
    BY <1>1, <2>1, <2>2
    DEF FetchInv, FetchTypes, InTurn, FetchedIsWhole, site, files, Current
<1>13. CASE Downloaded
  <2>1. /\ step = "fetch" /\ Len(verdicts) < Len(requested)
        /\ UNCHANGED <<site, files>>
    BY <1>1, <1>13 DEF Downloaded, InTurn, Working
  <2>2. Go("choose") \/ Conclude("download") \/ Exit(1)
    <3>1. get \in Ended /\ get # "off"
      BY <1>1, <1>13, <2>1 DEF Downloaded, InTurn
    <3> QED
      BY <1>13, <3>1 DEF Downloaded, Ended
  <2>3. CASE Go("choose")
    BY <1>1, <2>1, <2>3, LoopGoesOn DEF Go, walk, Working
  <2>4. CASE Conclude("download")
    BY <1>1, <2>1, <2>4, VerdictAdded DEF files, Working
  <2>5. CASE Exit(1)
    BY <1>1, <2>1, <2>5, ExitForgets DEF files
  <2> QED
    BY <2>2, <2>3, <2>4, <2>5
<1>14. CASE Choose
  <2>1. /\ step = "choose" /\ Len(verdicts) < Len(requested)
        /\ UNCHANGED <<site, files>>
    BY <1>1, <1>14 DEF Choose, InTurn, Working
  <2>2. CASE Go("key")
    BY <1>1, <2>1, <2>2, LoopGoesOn DEF Go, walk, Working
  <2>3. CASE Conclude("decrypt") \/ Conclude("read")
    BY <1>1, <2>1, <2>3, VerdictAdded DEF files, Working
  <2>4. CASE Exit(1)
    BY <1>1, <2>1, <2>4, ExitForgets DEF files
  <2> QED
    BY <1>14, <2>2, <2>3, <2>4 DEF Choose
<1>15. CASE LoadKey
  <2>1. /\ step = "key" /\ Len(verdicts) < Len(requested)
        /\ UNCHANGED <<site, files>>
    BY <1>1, <1>15 DEF LoadKey, InTurn, Working
  <2>2. CASE step' = "stage" /\ UNCHANGED <<walk, requested, verdicts, exit>>
    BY <1>1, <2>1, <2>2, LoopGoesOn DEF walk, Working
  <2>3. CASE Exit(1)
    BY <1>1, <2>1, <2>3, ExitForgets DEF files
  <2> QED
    BY <1>15, <2>2, <2>3 DEF LoadKey
<1>16. CASE Stage
  <2>1. /\ step = "stage" /\ step' = "members" /\ Len(verdicts) < Len(requested)
        /\ UNCHANGED <<site, decrypted, unread, requested, verdicts, exit>>
        /\ staging' = [staging EXCEPT ![Current] = TRUE]
    BY <1>1, <1>16 DEF Stage, Go, walk, InTurn, Working
  <2>2. Current' = Current /\ Current \in Targets
    BY <2>1, CurrentIsRequested DEF Current
  <2>3. InTurn' /\ FetchTypes'
    BY <1>1, <2>1 DEF FetchInv, FetchTypes, InTurn, Working, site
  <2>4. FetchedIsWhole'
    <3> SUFFICES ASSUME NEW n \in DOMAIN verdicts, verdicts[n] = "fetched"
                 PROVE  /\ decrypted[requested[n]] = "whole"
                        /\ ~staging'[requested[n]] \/ requested[n] = Current
      BY <2>1, <2>2 DEF FetchedIsWhole
    <3> QED
      BY <1>1, <2>1, <2>2 DEF FetchedIsWhole
  <2> QED
    BY <2>3, <2>4 DEF FetchInv
<1>17. CASE DecryptMembers
  <2>1. /\ step = "members" /\ Len(verdicts) < Len(requested)
        /\ UNCHANGED <<site, decrypted>>
    BY <1>1, <1>17 DEF DecryptMembers, InTurn, Working
  <2>2. CASE Go("swap") /\ UNCHANGED staging
    <3>1. /\ step' = "swap" /\ UNCHANGED <<unread, requested, verdicts, exit>>
          /\ Current' = Current
      BY <2>2 DEF Go, walk, Current
    <3> QED
      BY <1>1, <2>1, <2>2, <3>1
      DEF FetchInv, FetchTypes, InTurn, FetchedIsWhole, site, Working
  <2>3. CASE /\ Conclude("decrypt") \/ Conclude("read")
             /\ staging' = [staging EXCEPT ![Current] = FALSE]
    BY <1>1, <2>1, <2>3, VerdictAdded DEF Working
  <2> QED
    BY <1>17, <2>2, <2>3 DEF DecryptMembers
<1>18. CASE ClearOutput
  <2>1. /\ step = "swap" /\ Len(verdicts) < Len(requested)
        /\ UNCHANGED <<site, staging, unread, requested, verdicts, exit, step>>
    BY <1>1, <1>18 DEF ClearOutput, InTurn, Working, command, walk
  <2>2. PICK left \in {"partial", "none"} :
          decrypted' = [decrypted EXCEPT ![Current] = left]
    BY <1>18 DEF ClearOutput
  <2>3. Current' = Current /\ Current \in Targets
    BY <2>1, CurrentIsRequested DEF Current
  <2> QED
    BY <1>1, <2>1, <2>2, <2>3
    DEF FetchInv, FetchTypes, InTurn, FetchedIsWhole, site, Working
<1>19. CASE RenameStaging
  <2>1. /\ step = "swap" /\ step' = "next" /\ Len(verdicts) < Len(requested)
        /\ UNCHANGED <<site, unread, requested, exit>>
        /\ verdicts' = Append(verdicts, "fetched")
        /\ decrypted' = [decrypted EXCEPT ![Current] = "whole"]
        /\ staging' = [staging EXCEPT ![Current] = FALSE]
    BY <1>1, <1>19 DEF RenameStaging, Conclude, walk, InTurn, Working
  <2>2. Current \in Targets /\ Current = requested[Len(verdicts) + 1]
    BY <2>1, CurrentIsRequested DEF Current
  <2>3. /\ Len(verdicts') = Len(verdicts) + 1
        /\ verdicts' \in Seq({"fetched", "download", "decrypt", "read"})
        /\ \A n \in 1 .. Len(verdicts) : verdicts'[n] = verdicts[n]
    BY <1>1, <2>1 DEF FetchTypes
  <2>4. FetchTypes' /\ InTurn'
    <3>1. FetchTypes'
      BY <1>1, <2>1, <2>3 DEF FetchTypes, site
    <3>2. /\ Len(verdicts') <= Len(requested') /\ step' \notin Working
          /\ requested' # <<>> /\ exit' = NoCode
      BY <1>1, <2>1, <2>3 DEF InTurn, Working
    <3> QED
      BY <2>1, <3>1, <3>2 DEF InTurn, Working
  <2>5. FetchedIsWhole'
    <3> SUFFICES ASSUME NEW n \in DOMAIN verdicts', verdicts'[n] = "fetched"
                 PROVE  decrypted'[requested[n]] = "whole" /\ ~staging'[requested[n]]
      BY <2>1 DEF FetchedIsWhole
    <3>1. requested[n] \in Targets
      BY <1>1, <2>1, <2>3
    <3>2. CASE requested[n] = Current
      BY <1>1, <2>1, <2>2, <3>2 DEF FetchTypes
    <3>3. CASE requested[n] # Current
      <4>1. n \in DOMAIN verdicts /\ verdicts[n] = "fetched"
        BY <1>1, <2>2, <2>3, <3>3 DEF FetchTypes
      <4> QED
        BY <1>1, <2>1, <3>1, <3>3, <4>1 DEF FetchedIsWhole, FetchTypes
    <3> QED
      BY <3>2, <3>3
  <2> QED
    BY <2>4, <2>5 DEF FetchInv
<1>20. CASE Finish
  BY <1>1, <1>20, ExitForgets DEF Finish, files
<1>21. CASE Fail
  BY <1>1, <1>21, ExitForgets DEF Fail
<1>22. CASE Killed
  BY <1>1, <1>22, ExitForgets DEF Killed, files
<1>23. CASE MakeKeyBetween \/ UNCHANGED fetchVars
  BY <1>3, <1>23 DEF MakeKeyBetween, fetchVars, download, command, walk
<1> QED
  BY <1>5, <1>6, <1>7, <1>8, <1>9, <1>10, <1>11, <1>12, <1>13, <1>14, <1>15, <1>16,
     <1>17, <1>18, <1>19, <1>20, <1>21, <1>22, <1>23
  DEF FetchNext, Command

\* What was fetched is whole, in every state of every command.
THEOREM FetchInvariance == FetchSpec => []FetchInv
  BY FetchInvInit, FetchInvStep, PTL DEF FetchSpec

----------------------------------------------------------------------------

\* The exit code of a command tells what is in its directory, whatever earlier
\* commands left there and however often a report is asked for (fetch,
\* FetchResult.exit_code).
THEOREM ExitCodeTells == FetchSpec => ExitTellsAll
<1> DEFINE Tells ==
        step # "idle" /\ exit' \in {0, 3} =>
            /\ Len(verdicts) = Len(requested)
            /\ \A n \in DOMAIN verdicts : verdicts[n] = "fetched" =>
                   decrypted[requested[n]] = "whole" /\ ~staging[requested[n]]
            /\ exit' = 0 =>
                   requested # <<>> /\ \A n \in DOMAIN verdicts : verdicts[n] = "fetched"
<1>1. ASSUME FetchInv, [FetchNext]_fetchVars
      PROVE  Tells
  <2>1. InTurn /\ FetchedIsWhole
    BY <1>1 DEF FetchInv
  <2>2. CASE Finish
    <3>1. step = "next" /\ Len(verdicts) = Len(requested) /\ exit' = ExitCode
      BY <2>2 DEF Finish, Exit
    <3> QED
      BY <2>1, <3>1 DEF ExitCode, InTurn, FetchedIsWhole
  <2>3. CASE Prepare
    <3>1. CASE requested = <<>>
      <4>1. step = "prepare" /\ verdicts = <<>> /\ exit' = 3
        BY <2>1, <2>3, <3>1 DEF Prepare, Exit, InTurn
      <4>2. Len(verdicts) = Len(requested) /\ DOMAIN verdicts = {}
        BY <3>1, <4>1
      <4> QED
        BY <4>1, <4>2
    <3>2. CASE requested # <<>>
      BY <2>1, <2>3, <3>2 DEF Prepare, InTurn, NoCode
    <3> QED
      BY <3>1, <3>2
  <2>4. CASE step # "idle" /\ (exit' = exit \/ exit' = 1 \/ exit' = NoCode)
    BY <2>1, <2>4 DEF InTurn, NoCode
  <2>5. CASE step = "idle"
    BY <2>5
  <2>6. CASE ReadDatalog \/ ReadFails \/ Walk \/ NextReport \/ FetchOn
    BY <2>4, <2>5, <2>6
    DEF ReadDatalog, ReadFails, Walk, NextReport, FetchOn, Go, Exit, command
  <2>7. CASE Downloaded
    <3>1. step = "fetch" /\ get \in Ended \ {"off"}
      BY <2>1, <2>7 DEF Downloaded, InTurn
    <3>2. exit' = exit \/ exit' = 1
      BY <2>7, <3>1 DEF Downloaded, Ended, Go, Conclude, Exit
    <3> QED
      BY <2>4, <3>1, <3>2
  <2>8. CASE Choose \/ LoadKey \/ Stage \/ DecryptMembers \/ ClearOutput \/ RenameStaging
    BY <2>4, <2>5, <2>8
    DEF Choose, LoadKey, Stage, DecryptMembers, ClearOutput, RenameStaging, Go, Conclude,
        Exit, command
  <2>9. CASE \/ FetchCids \/ FetchLast \/ Fail \/ Killed \/ MakeKeyBetween
             \/ UNCHANGED fetchVars
    BY <2>4, <2>5, <2>9
    DEF FetchCids, FetchLast, Start, Fail, Killed, MakeKeyBetween, Exit, fetchVars, command
  <2> QED
    BY <1>1, <2>2, <2>3, <2>6, <2>8, <2>9, <2>7 DEF FetchNext, Command
<1>2. FetchInv /\ [FetchNext]_fetchVars => [Tells]_fetchVars
  BY <1>1
<1> QED
  BY FetchInvariance, <1>2, PTL DEF FetchSpec, ExitTellsAll

\* Inside the command a download is a download of Fetcher, and a key is made as
\* in Keygen: their theorems hold of it.
THEOREM CommandComposes == FetchSpec => FetcherSpec /\ KeygenSpec
<1>1. FetchInit => FetcherInit /\ KeygenInit
  BY DEF FetchInit
<1>2. ASSUME FetchInv, [FetchNext]_fetchVars
      PROVE  [FetcherNext]_download
  <2>1. CASE NextReport
    <3>1. Current \in Targets
      BY <1>2, <2>1, CurrentIsRequested DEF NextReport
    <3> QED
      BY <2>1, <3>1 DEF NextReport, FetcherNext
  <2>2. CASE FetchOn
    BY <2>2 DEF FetchOn, FetcherNext
  <2>3. CASE Downloaded
    <3>1. get # "off"
      BY <1>2, <2>3 DEF FetchInv, InTurn, Downloaded
    <3> QED
      BY <2>3, <3>1 DEF Downloaded, FetcherNext
  <2>4. CASE Killed
    BY <2>4 DEF Killed, FetcherNext
  <2> QED
    BY <1>2, <2>1, <2>2, <2>3, <2>4
    DEF FetchNext, Command, FetchCids, FetchLast, Start, ReadDatalog, ReadFails, Walk, Prepare,
        Choose, LoadKey, Stage, DecryptMembers, ClearOutput, RenameStaging, Finish, Fail,
        MakeKeyBetween, fetchVars
<1>3. [FetchNext]_fetchVars => [MakeKey]_keygen
  BY DEF FetchNext, Command, FetchCids, FetchLast, Start, ReadDatalog, ReadFails, Walk,
         Prepare, NextReport, FetchOn, Downloaded, Choose, LoadKey, Stage, DecryptMembers,
         ClearOutput, RenameStaging, Finish, Fail, Killed, MakeKeyBetween, fetchVars
<1>4. FetchInv /\ [FetchNext]_fetchVars => [FetcherNext]_download
  BY <1>2
<1> QED
  BY FetchInvariance, <1>1, <1>3, <1>4, PTL DEF FetchSpec, FetcherSpec, KeygenSpec

\* A command announces no key it could not read back, gives up no download before
\* all gateways have failed, and changes an archive only by a complete download.
THEOREM CommandKeepsContracts ==
    FetchSpec => []AnnouncedIsStored /\ []GivesUpAfterAll /\ DownloadsAtOnce
  BY CommandComposes, KeysAreRecoverable, EveryGatewayIsAsked, FetcherImplementsDownload, PTL

----------------------------------------------------------------------------
\* The verdicts: what recipients, keys and members make of an archive.

\* A set of positions that is not empty has a first one.
LEMMA FirstExists ==
    ASSUME NEW S \in SUBSET Nat, S # {}
    PROVE  \E x \in S : \A y \in S : x <= y
<1> DEFINE Below == {ss \in Nat \X Nat : ss[1] < ss[2]}
<1>1. IsWellFoundedOn(Below, Nat)
  BY NatLessThanWellFounded DEF OpToRel
<1>2. \A x, y \in Nat : y < x => <<y, x>> \in Below
  OBVIOUS
<1> HIDE DEF Below
<1>3. PICK x \in S : \A y \in S : ~(<<y, x>> \in Below)
  BY <1>1, WFMin
<1>4. \A y \in S : x <= y
  <2> TAKE y \in S
  <2>1. x \in Nat /\ y \in Nat
    OBVIOUS
  <2>2. ~(y < x)
    BY <1>2, <1>3, <2>1, Zenon
  <2> QED
    BY <2>1, <2>2
<1> QED
  BY <1>4

\* A file of an archive's name is no zip, or the sequence of its members.
IsBody(body) == body # NotZip => Len(body) \in Nat /\ DOMAIN body = 1 .. Len(body)

\* The addresses of ours an archive is sealed for, by their positions.
Ours(body, list) == {n \in DOMAIN list : list[n] \in Recipients(body)}

\* choose takes one of our addresses that every envelope names, or refuses.
LEMMA ChoiceIsOurs ==
    ASSUME NEW body, NEW list \in Seq(Keys), HasMembers(body),
           \A n \in DOMAIN body : IsPackage(body[n])
    PROVE  \/ Ours(body, list) = {} /\ ChosenKey(body, list) = "rejected"
           \/ /\ ChosenKey(body, list) \in Keys
              /\ ChosenKey(body, list) \in ToSet(list)
              /\ ChosenKey(body, list) \in Recipients(body)
<1>1. CASE Ours(body, list) = {}
  BY <1>1 DEF ChosenKey, Ours
<1>2. CASE Ours(body, list) # {}
  <2>1. Ours(body, list) \in SUBSET Nat
    BY DEF Ours
  <2> DEFINE First == CHOOSE n \in Ours(body, list) : \A m \in Ours(body, list) : n <= m
  <2>2. First \in Ours(body, list)
    <3>1. \E n \in Ours(body, list) : \A m \in Ours(body, list) : n <= m
      BY <1>2, <2>1, FirstExists
    <3> QED
      BY <3>1
  <2>3. ChosenKey(body, list) = list[First]
    BY <1>2 DEF ChosenKey, Ours
  <2> HIDE DEF First
  <2> QED
    BY <2>2, <2>3 DEF Ours, ToSet
<1> QED
  BY <1>1, <1>2

\* A key is chosen only if every member is a package sealed for it.
LEMMA ChosenOpens ==
    ASSUME NEW body, NEW list \in Seq(Keys), ChosenKey(body, list) \in Keys
    PROVE  /\ HasMembers(body)
           /\ ChosenKey(body, list) \in ToSet(list)
           /\ ChosenKey(body, list) \in Recipients(body)
<1>1. "rejected" \notin Keys /\ "unexpected" \notin Keys
  BY FetchAssumption
<1>2. HasMembers(body) /\ \A n \in DOMAIN body : IsPackage(body[n])
  BY <1>1 DEF ChosenKey
<1> QED
  BY <1>1, <1>2, ChoiceIsOurs

\* What is refused by its envelopes is sound for none of our keys.
LEMMA RefusedIsUnsound ==
    ASSUME NEW body, IsBody(body), NEW list \in Seq(Keys),
           ChosenKey(body, list) = "rejected", NEW key \in ToSet(list)
    PROVE  ~IsSoundFor(body, key)
<1> SUFFICES ASSUME IsSoundFor(body, key) PROVE FALSE
  OBVIOUS
<1>1. HasMembers(body) /\ \A n \in DOMAIN body : IsPackage(body[n])
  BY DEF IsSoundFor, IsPackage
<1>2. 1 \in DOMAIN body
  BY <1>1 DEF IsBody, HasMembers
<1>3. key \in Recipients(body)
  BY <1>2 DEF IsSoundFor, Recipients
<1>4. Ours(body, list) # {}
  BY <1>3 DEF Ours, ToSet
<1>5. ChosenKey(body, list) \in Keys
  BY <1>1, <1>4, ChoiceIsOurs
<1> QED
  BY <1>5, FetchAssumption

\* A key opens an archive only if the archive is sound for it, and if it is sound
\* for any key, every key the envelopes name opens it.
LEMMA DecryptsIfSound ==
    ASSUME NEW body, IsBody(body), HasMembers(body), NEW chosen \in Recipients(body)
    PROVE  /\ Decrypts(body, chosen) => IsSoundFor(body, chosen)
           /\ \A key : IsSoundFor(body, key) => Decrypts(body, chosen)
<1>1. DOMAIN body = 1 .. Len(body) /\ Len(body) \in Nat
  BY DEF IsBody, HasMembers
<1>2. ASSUME Decrypts(body, chosen) PROVE IsSoundFor(body, chosen)
  <2>1. \A m, n \in DOMAIN body : m < n => body[m].name # body[n].name
    BY <1>1, <1>2 DEF Decrypts
  <2>2. \A m, n \in DOMAIN body : body[m].name = body[n].name => m = n
    <3> TAKE m, n \in DOMAIN body
    <3>1. m < n \/ n < m \/ m = n
      BY <1>1
    <3> QED
      BY <2>1, <3>1
  <2> QED
    BY <1>2, <2>2 DEF Decrypts, IsSoundFor
<1>3. ASSUME NEW key, IsSoundFor(body, key) PROVE Decrypts(body, chosen)
  <2>1. \A n \in DOMAIN body : chosen \in body[n].keys
    BY DEF Recipients
  <2>2. \A n \in DOMAIN body : \A m \in 1 .. n - 1 : body[m].name # body[n].name
    <3> TAKE n \in DOMAIN body
    <3> TAKE m \in 1 .. n - 1
    <3>1. m \in DOMAIN body /\ m # n
      BY <1>1
    <3> QED
      BY <1>3, <3>1 DEF IsSoundFor
  <2> QED
    BY <1>3, <2>1, <2>2 DEF Decrypts, IsSoundFor
<1> QED
  BY <1>2, <1>3

\* What the report in hand has come to, by the step it is at.
InHand ==
    /\ step = "fetch" =>
        /\ target = Current
        /\ get \in {"ask", "receive"} => archive[Current] = None
        /\ get = "done" => archive[Current] # None
    /\ step \in Working \ {"fetch"} => archive[Current] # None
    /\ step \in {"key", "stage", "members", "swap"} =>
        ChosenKey(archive[Current], addresses) \in Keys
    /\ step = "swap" =>
        Decrypts(archive[Current], ChosenKey(archive[Current], addresses))

\* A verdict on the contents has its archive, and is the right one.
Judged(n) ==
    verdicts[n] \in {"fetched", "decrypt"} =>
        /\ archive[requested[n]] # None
        /\ verdicts[n] = "fetched" <=>
               \E key \in ToSet(addresses) : IsSoundFor(archive[requested[n]], key)

VerdictInv ==
    /\ addresses \in Seq(Keys)
    /\ InHand
    /\ \A n \in DOMAIN verdicts : Judged(n)

\* An archive that is there is what some gateway sent.
LEMMA ArchiveIsBody ==
    ASSUME FetcherTypeOK, NEW t \in Targets, archive[t] # None
    PROVE  IsBody(archive[t])
<1>1. archive[t] \in Bodies[t]
  BY DEF FetcherTypeOK
<1> QED
  BY <1>1, FetchAssumption DEF IsBody

\* Outside the loop there are no verdicts.
LEMMA NoVerdicts ==
    ASSUME verdicts' = <<>>, step' \notin Working, addresses' \in Seq(Keys)
    PROVE  VerdictInv'
  BY DEF VerdictInv, InHand, Working

\* A command that ends has none either.
LEMMA ExitJudges ==
    ASSUME NEW code, Exit(code)
    PROVE  VerdictInv'
<1>1. verdicts' = <<>> /\ step' = "idle" /\ addresses' = <<>>
  BY DEF Exit
<1> QED
  BY <1>1, NoVerdicts DEF Working

\* A step of the loop that ends no report.
LEMMA VerdictsStay ==
    ASSUME VerdictInv, InHand', UNCHANGED <<addresses, requested, verdicts>>,
           \A n \in DOMAIN verdicts :
               archive[requested[n]] # None => archive'[requested[n]] = archive[requested[n]]
    PROVE  VerdictInv'
<1>1. ASSUME NEW n \in DOMAIN verdicts PROVE Judged(n)'
  BY <1>1 DEF VerdictInv, Judged
<1> QED
  BY <1>1 DEF VerdictInv

\* A report that ends with a verdict.
LEMMA VerdictIsJudged ==
    ASSUME FetchInv, VerdictInv, NEW verdict, Conclude(verdict), step \in Working,
           UNCHANGED archive,
           verdict \in {"fetched", "decrypt"} =>
               /\ archive[Current] # None
               /\ verdict = "fetched" <=>
                      \E key \in ToSet(addresses) : IsSoundFor(archive[Current], key)
    PROVE  VerdictInv'
<1>1. /\ verdicts' = Append(verdicts, verdict) /\ step' = "next"
      /\ UNCHANGED <<addresses, requested, archive>>
  BY DEF Conclude
<1>2. /\ verdicts \in Seq({"fetched", "download", "decrypt", "read"})
      /\ Len(verdicts) \in Nat
  BY DEF FetchInv, FetchTypes
<1>3. ASSUME NEW n \in DOMAIN verdicts' PROVE Judged(n)'
  <2>1. CASE n \in DOMAIN verdicts
    <3>1. verdicts'[n] = verdicts[n]
      BY <1>1, <1>2, <2>1
    <3> QED
      BY <1>1, <2>1, <3>1 DEF VerdictInv, Judged
  <2>2. CASE n = Len(verdicts) + 1
    <3>1. verdicts'[n] = verdict /\ requested'[n] = Current
      BY <1>1, <1>2, <2>2 DEF Current
    <3> QED
      BY <1>1, <3>1 DEF Judged
  <2> QED
    BY <1>1, <1>2, <1>3, <2>1, <2>2
<1> QED
  BY <1>1, <1>3 DEF VerdictInv, InHand, Working

\* A download that completes brings the only archive that changes, and it is the
\* one of the report in hand.
LEMMA GetJudges ==
    ASSUME FetchInv, FetcherTypeOK, VerdictInv, FetchOn
    PROVE  VerdictInv'
<1>1. /\ step = "fetch" /\ UNCHANGED <<step, addresses, requested, verdicts>>
      /\ Get /\ target' = target /\ target = Current /\ Current' = Current
      /\ get \in {"ask", "receive"} /\ archive[Current] = None
  BY DEF FetchOn, command, walk, VerdictInv, InHand, Current, Get, Open, Complete, Retry,
         Refuse, TooLarge, Break, GiveUp, GetFails, loop
<1>2. /\ Current \in Targets /\ DOMAIN archive = Targets
      /\ \A n \in DOMAIN verdicts : requested[n] \in Targets
  <2>1. Len(verdicts) < Len(requested)
    BY <1>1 DEF FetchInv, InTurn, Working
  <2>2. /\ requested \in Seq(Targets)
        /\ verdicts \in Seq({"fetched", "download", "decrypt", "read"})
    BY DEF FetchInv, FetchTypes
  <2> QED
    BY <2>1, <2>2, CurrentIsRequested DEF FetcherTypeOK
<1>3. CASE Complete
  <2>1. PICK body \in Bodies[target] : archive' = [archive EXCEPT ![target] = body]
    BY <1>3 DEF Complete
  <2>2. get' = "done"
    BY <1>3 DEF Complete
  <2>3. \A n \in DOMAIN verdicts : archive[requested[n]] # None =>
            archive'[requested[n]] = archive[requested[n]]
    BY <1>1, <1>2, <2>1
  <2>4. archive'[Current] # None
    BY <1>1, <1>2, <2>1, FetcherAssumption DEF FetcherTypeOK
  <2>5. InHand'
    BY <1>1, <2>2, <2>4 DEF InHand, Working
  <2> QED
    BY <1>1, <2>3, <2>5, VerdictsStay
<1>4. CASE ~Complete
  <2>1. UNCHANGED archive /\ get' # "done"
    BY <1>1, <1>4 DEF Get, Open, Retry, Refuse, TooLarge, Break, GiveUp, GetFails
  <2>2. InHand'
    BY <1>1, <2>1 DEF InHand, Working
  <2> QED
    BY <1>1, <2>1, <2>2, VerdictsStay
<1> QED
  BY <1>3, <1>4

\* The report in hand is refused by its envelopes, or by its members under the key
\* they chose; or that key opens them all.
LEMMA ContentsJudged ==
    ASSUME FetchInv, FetcherTypeOK, VerdictInv, step \in {"choose", "members", "swap"}
    PROVE  LET body == archive[Current]
               chosen == ChosenKey(body, addresses)
           IN  /\ step = "choose" /\ chosen = "rejected" =>
                      \A key \in ToSet(addresses) : ~IsSoundFor(body, key)
               /\ step = "members" /\ ~Decrypts(body, chosen) =>
                      \A key \in ToSet(addresses) : ~IsSoundFor(body, key)
               /\ step = "swap" =>
                      \E key \in ToSet(addresses) : IsSoundFor(body, key)
<1> DEFINE body == archive[Current]
           chosen == ChosenKey(body, addresses)
<1>1. Current \in Targets
  BY CurrentIsRequested DEF FetchInv, InTurn, Working
<1>2. IsBody(body) /\ addresses \in Seq(Keys)
  BY <1>1, ArchiveIsBody DEF VerdictInv, InHand, Working
<1>3. CASE step = "choose"
  BY <1>2, <1>3, RefusedIsUnsound
<1>4. CASE step \in {"members", "swap"}
  <2>1. chosen \in Keys
    BY <1>4 DEF VerdictInv, InHand
  <2>2. HasMembers(body) /\ chosen \in ToSet(addresses) /\ chosen \in Recipients(body)
    BY <1>2, <2>1, ChosenOpens
  <2>3. /\ Decrypts(body, chosen) => IsSoundFor(body, chosen)
        /\ \A key : IsSoundFor(body, key) => Decrypts(body, chosen)
    BY <1>2, <2>2, DecryptsIfSound
  <2>4. step = "swap" => Decrypts(body, chosen)
    BY DEF VerdictInv, InHand
  <2> QED
    BY <1>4, <2>2, <2>3, <2>4
<1> QED
  BY <1>3, <1>4

\* Every step of a command keeps the verdicts right.
LEMMA VerdictStep ==
    ASSUME FetchInv, FetcherTypeOK, VerdictInv, [FetchNext]_fetchVars
    PROVE  VerdictInv'
<1> DEFINE body == archive[Current]
           chosen == ChosenKey(body, addresses)
<1>1. addresses \in Seq(Keys) /\ InTurn /\ InHand
  BY DEF VerdictInv, FetchInv
<1>2. CASE FetchCids \/ FetchLast
  <2>1. addresses' \in Seq(Keys)
    BY <1>2, FetchAssumption DEF FetchCids, FetchLast, Start
  <2>2. verdicts' = <<>> /\ step' \in {"prepare", "chain"}
    BY <1>1, <1>2 DEF FetchCids, FetchLast, Start, InTurn
  <2> QED
    BY <2>1, <2>2, NoVerdicts DEF Working
<1>3. CASE ReadDatalog \/ Walk
  <2>1. /\ verdicts' = <<>> /\ step' \in {"walk", "prepare"}
        /\ UNCHANGED addresses
    BY <1>1, <1>3 DEF ReadDatalog, Walk, InTurn
  <2> QED
    BY <1>1, <2>1, NoVerdicts DEF Working
<1>4. CASE ReadFails
  <2>1. CASE reads + 1 < MaxReads
    <3>1. step' = "chain" /\ verdicts' = <<>> /\ UNCHANGED addresses
      BY <1>1, <1>4, <2>1 DEF ReadFails, InTurn
    <3> QED
      BY <1>1, <3>1, NoVerdicts DEF Working
  <2>2. CASE ~(reads + 1 < MaxReads)
    BY <1>4, <2>2, ExitJudges DEF ReadFails
  <2> QED
    BY <2>1, <2>2
<1>5. CASE Prepare
  <2>1. CASE requested = <<>>
    BY <1>5, <2>1, ExitJudges DEF Prepare
  <2>2. CASE requested # <<>>
    <3>1. step' = "next" /\ verdicts' = <<>> /\ UNCHANGED addresses
      BY <1>1, <1>5, <2>2 DEF Prepare, InTurn
    <3> QED
      BY <1>1, <3>1, NoVerdicts DEF Working
  <2> QED
    BY <2>1, <2>2
<1>6. CASE NextReport
  <2>1. /\ UNCHANGED <<addresses, requested, verdicts, archive>>
        /\ Current' = Current
        /\ \/ step' = "fetch" /\ target' = Current /\ archive[Current] = None
           \/ step' = "choose" /\ archive[Current] # None
        /\ step' = "fetch" => get' = "ask"
    BY <1>6 DEF NextReport, Go, Call, Current, download
  <2>2. InHand'
    BY <2>1 DEF InHand, Working
  <2> QED
    BY <2>1, <2>2, VerdictsStay
<1>7. CASE FetchOn
  BY <1>7, GetJudges
<1>8. CASE Downloaded
  <2>1. step = "fetch" /\ get \in Ended /\ get # "off" /\ UNCHANGED archive
    BY <1>1, <1>8 DEF Downloaded, Return, InTurn
  <2>2. CASE get = "done"
    <3>1. /\ step' = "choose" /\ UNCHANGED <<addresses, requested, verdicts>>
          /\ Current' = Current
      BY <1>8, <2>2 DEF Downloaded, Go, Current
    <3>2. InHand'
      BY <1>1, <2>1, <2>2, <3>1 DEF InHand
    <3> QED
      BY <2>1, <3>1, <3>2, VerdictsStay
  <2>3. CASE get \in {"unavailable", "toolarge"}
    <3>1. Conclude("download")
      BY <1>8, <2>3 DEF Downloaded
    <3> QED
      BY <2>1, <3>1, VerdictIsJudged DEF Working
  <2>4. CASE get = "error"
    BY <1>8, <2>4, ExitJudges DEF Downloaded
  <2> QED
    BY <2>1, <2>2, <2>3, <2>4 DEF Ended
<1>9. CASE Choose
  <2>1. step = "choose" /\ UNCHANGED archive
    BY <1>9 DEF Choose, download
  <2>2. CASE chosen = "rejected" /\ Conclude("decrypt")
    <3>1. archive[Current] # None /\ \A key \in ToSet(addresses) : ~IsSoundFor(body, key)
      BY <1>1, <2>1, <2>2, ContentsJudged DEF InHand, Working
    <3> QED
      BY <2>1, <2>2, <3>1, VerdictIsJudged DEF Working
  <2>3. CASE Exit(1)
    BY <2>3, ExitJudges
  <2>4. CASE chosen \in Keys /\ Go("key")
    <3>1. /\ step' = "key" /\ UNCHANGED <<addresses, requested, verdicts>>
          /\ Current' = Current
      BY <2>4 DEF Go, Current
    <3>2. InHand'
      BY <1>1, <2>1, <2>4, <3>1 DEF InHand, Working
    <3> QED
      BY <2>1, <3>1, <3>2, VerdictsStay
  <2>5. CASE Conclude("read")
    BY <2>1, <2>5, VerdictIsJudged DEF Working
  <2> QED
    BY <1>9, <2>2, <2>3, <2>4, <2>5 DEF Choose
<1>10. CASE LoadKey \/ Stage
  <2>1. CASE Exit(1)
    BY <2>1, ExitJudges
  <2>2. CASE ~Exit(1)
    <3>1. /\ step \in {"key", "stage"} /\ step' \in {"stage", "members"}
          /\ UNCHANGED <<addresses, requested, verdicts, archive>>
          /\ Current' = Current
      BY <1>10, <2>2 DEF LoadKey, Stage, Go, Current, download
    <3>2. InHand'
      BY <1>1, <3>1 DEF InHand, Working
    <3> QED
      BY <3>1, <3>2, VerdictsStay
  <2> QED
    BY <2>1, <2>2
<1>11. CASE DecryptMembers
  <2>1. step = "members" /\ UNCHANGED archive
    BY <1>11 DEF DecryptMembers, download
  <2>2. CASE Decrypts(body, chosen) /\ Go("swap")
    <3>1. /\ step' = "swap" /\ UNCHANGED <<addresses, requested, verdicts>>
          /\ Current' = Current
      BY <2>2 DEF Go, Current
    <3>2. InHand'
      BY <1>1, <2>1, <2>2, <3>1 DEF InHand, Working
    <3> QED
      BY <2>1, <3>1, <3>2, VerdictsStay
  <2>3. CASE ~Decrypts(body, chosen) /\ Conclude("decrypt")
    <3>1. archive[Current] # None /\ \A key \in ToSet(addresses) : ~IsSoundFor(body, key)
      BY <1>1, <2>1, <2>3, ContentsJudged DEF InHand, Working
    <3> QED
      BY <2>1, <2>3, <3>1, VerdictIsJudged DEF Working
  <2>4. CASE Conclude("read")
    BY <2>1, <2>4, VerdictIsJudged DEF Working
  <2> QED
    BY <1>11, <2>2, <2>3, <2>4 DEF DecryptMembers
<1>12. CASE ClearOutput \/ MakeKeyBetween \/ UNCHANGED fetchVars
  <2>1. /\ UNCHANGED <<step, addresses, requested, verdicts, archive, target, get>>
        /\ Current' = Current
    BY <1>12 DEF ClearOutput, MakeKeyBetween, fetchVars, command, download, loop, Current
  <2>2. InHand'
    BY <1>1, <2>1 DEF InHand
  <2> QED
    BY <2>1, <2>2, VerdictsStay
<1>13. CASE RenameStaging
  <2>1. step = "swap" /\ Conclude("fetched") /\ UNCHANGED archive
    BY <1>13 DEF RenameStaging, download
  <2>2. archive[Current] # None /\ \E key \in ToSet(addresses) : IsSoundFor(body, key)
    BY <1>1, <2>1, ContentsJudged DEF InHand, Working
  <2> QED
    BY <2>1, <2>2, VerdictIsJudged DEF Working
<1>14. CASE Finish \/ Fail \/ Killed
  BY <1>14, ExitJudges DEF Finish, Fail, Killed
<1> QED
  BY <1>2, <1>3, <1>4, <1>5, <1>6, <1>7, <1>8, <1>9, <1>10, <1>11, <1>12, <1>13, <1>14
  DEF FetchNext, Command

\* The command calls a report fetched only if its archive is sound for one of our
\* keys, and undecryptable only if it is for none, whatever the gateways sent,
\* whichever keys are configured and in whatever order (archive_recipients,
\* RecipientKeys.choose, _decrypt_members).
THEOREM VerdictsAreRight == FetchSpec => []VerdictIsRight
<1>1. FetchInit => VerdictInv
  BY DEF FetchInit, VerdictInv, InHand, Working
<1>2. FetchInv /\ FetcherTypeOK /\ VerdictInv /\ [FetchNext]_fetchVars => VerdictInv'
  BY VerdictStep
<1>3. VerdictInv => VerdictIsRight
  BY DEF VerdictInv, Judged, VerdictIsRight
<1>4. FetchSpec => []FetcherTypeOK
  BY CommandComposes, FetcherTypeCorrect, PTL
<1> QED
  BY FetchInvariance, <1>1, <1>2, <1>3, <1>4, PTL DEF FetchSpec

----------------------------------------------------------------------------
\* The kinds of what a command holds, and whose keys it has.

CommandTypes ==
    /\ step \in Working \cup {"idle", "chain", "walk", "prepare", "next"}
    /\ addresses \in {<<>>} \cup Configs
    /\ last \in 0 .. MaxLast /\ reads \in 0 .. MaxReads - 1
    /\ ToSet(addresses) \cup loaded \subseteq announced
    /\ exit \in {NoCode, 0, 1, 3}
    /\ commands \in 0 .. MaxCommands

\* An address that was announced stays announced.
LEMMA AnnouncedStays == [MakeKey]_keygen => announced \subseteq announced'
  BY DEF MakeKey, Generate, GetTemplate, CreateItem, Verify, Grant, Abandon, keygen

\* A command that ends holds nothing.
LEMMA ExitIsTyped ==
    ASSUME CommandTypes, NEW code \in {NoCode, 0, 1, 3}, Exit(code)
    PROVE  CommandTypes'
<1>1. /\ step' = "idle" /\ addresses' = <<>> /\ last' = 0 /\ reads' = 0
      /\ loaded' = {} /\ exit' = code /\ commands' = commands
  BY DEF Exit
<1>2. ToSet(<<>>) = {}
  BY DEF ToSet
<1> QED
  BY <1>1, <1>2, FetchAssumption DEF CommandTypes

\* A step to another place, with what the command holds.
LEMMA GoIsTyped ==
    ASSUME CommandTypes, announced \subseteq announced',
           step' \in Working \cup {"idle", "chain", "walk", "prepare", "next"},
           UNCHANGED <<addresses, last, reads, loaded, exit, commands>>
    PROVE  CommandTypes'
  BY DEF CommandTypes

LEMMA TypesStep ==
    ASSUME FetchInv, VerdictInv, CommandTypes, [FetchNext]_fetchVars
    PROVE  CommandTypes'
<1>1. CASE FetchCids \/ FetchLast
  <2>1. /\ step' \in {"prepare", "chain"}
        /\ addresses' \in Configs /\ ToSet(addresses') \subseteq announced
        /\ last' \in 0 .. MaxLast
        /\ commands < MaxCommands /\ commands' = commands + 1
        /\ exit' = NoCode
        /\ UNCHANGED <<reads, loaded, announced>>
    BY <1>1, FetchAssumption DEF FetchCids, FetchLast, Start, keygen, CommandTypes
  <2>2. commands' \in 0 .. MaxCommands
    BY <2>1, FetchAssumption DEF CommandTypes
  <2> QED
    BY <2>1, <2>2 DEF CommandTypes
<1>2. CASE MakeKeyBetween \/ UNCHANGED fetchVars
  <2>1. announced \subseteq announced' /\ UNCHANGED command
    BY <1>2, AnnouncedStays DEF MakeKeyBetween, fetchVars, keygen
  <2> QED
    BY <2>1 DEF CommandTypes, command, walk
<1>3. CASE Finish \/ Fail \/ Killed
  <2>1. ExitCode \in {0, 3}
    BY DEF ExitCode
  <2> QED
    BY <1>3, <2>1, ExitIsTyped DEF Finish, Fail, Killed
<1>4. CASE ReadDatalog \/ Walk
  <2>1. /\ step' \in {"walk", "prepare"}
        /\ UNCHANGED <<addresses, last, reads, loaded, exit, commands, announced>>
    BY <1>4 DEF ReadDatalog, Walk, keygen
  <2> QED
    BY <2>1, GoIsTyped
<1>5. CASE ReadFails
  <2>1. CASE reads + 1 < MaxReads
    <3>1. /\ reads' = reads + 1
          /\ UNCHANGED <<step, addresses, last, loaded, exit, commands, announced>>
      BY <1>5, <2>1 DEF ReadFails, keygen
    <3>2. reads' \in 0 .. MaxReads - 1
      BY <2>1, <3>1, FetchAssumption DEF CommandTypes
    <3> QED
      BY <3>1, <3>2 DEF CommandTypes
  <2>2. CASE ~(reads + 1 < MaxReads)
    BY <1>5, <2>2, ExitIsTyped DEF ReadFails
  <2> QED
    BY <2>1, <2>2
<1>6. CASE Prepare
  <2>1. CASE requested = <<>>
    BY <1>6, <2>1, ExitIsTyped DEF Prepare
  <2>2. CASE requested # <<>>
    <3>1. /\ step' = "next" /\ last' = 0 /\ reads' = 0
          /\ UNCHANGED <<addresses, loaded, exit, commands, announced>>
      BY <1>6, <2>2 DEF Prepare, keygen
    <3> QED
      BY <3>1, FetchAssumption DEF CommandTypes
  <2> QED
    BY <2>1, <2>2
<1>7. CASE LoadKey
  <2>1. CASE Exit(1)
    BY <2>1, ExitIsTyped
  <2>2. CASE ~Exit(1)
    <3> DEFINE key == ChosenKey(archive[Current], addresses)
    <3>1. /\ step = "key" /\ step' = "stage" /\ loaded' = loaded \cup {key}
          /\ UNCHANGED <<addresses, last, reads, exit, commands, announced>>
      BY <1>7, <2>2 DEF LoadKey, walk, keygen
    <3>2. addresses \in Seq(Keys) /\ key \in Keys
      BY <3>1 DEF VerdictInv, InHand
    <3>3. key \in ToSet(addresses)
      BY <3>2, ChosenOpens
    <3> QED
      BY <3>1, <3>3 DEF CommandTypes, Working
  <2> QED
    BY <2>1, <2>2
<1>8. CASE NextReport \/ FetchOn \/ Downloaded \/ Choose \/ Stage
  <2>1. \/ Exit(1)
        \/ /\ step' \in Working \cup {"next"}
           /\ UNCHANGED <<addresses, last, reads, loaded, exit, commands>>
    BY <1>8
    DEF NextReport, FetchOn, Downloaded, Choose, Stage, Go, Conclude, command, walk,
        Working, FetchInv, InTurn, Ended
  <2>2. UNCHANGED announced
    BY <1>8 DEF NextReport, FetchOn, Downloaded, Choose, Stage, keygen
  <2> QED
    BY <2>1, <2>2, ExitIsTyped, GoIsTyped
<1>9. CASE DecryptMembers \/ ClearOutput \/ RenameStaging
  <2>1. /\ step' \in Working \cup {"next"}
        /\ UNCHANGED <<addresses, last, reads, loaded, exit, commands, announced>>
    BY <1>9
    DEF DecryptMembers, ClearOutput, RenameStaging, Go, Conclude, command, walk, keygen,
        Working
  <2> QED
    BY <2>1, GoIsTyped
<1> QED
  BY <1>1, <1>2, <1>3, <1>4, <1>5, <1>6, <1>7, <1>8, <1>9 DEF FetchNext, Command

\* A command holds what the code gives it: keys it was configured with and that
\* were announced, a report in hand that was asked for, and its archive once that
\* is downloaded.
THEOREM FetchTypeCorrect == FetchSpec => []FetchTypeOK
<1>1. FetchInit => VerdictInv /\ CommandTypes
  <2> SUFFICES ASSUME FetchInit PROVE VerdictInv /\ CommandTypes
    OBVIOUS
  <2>1. ToSet(<<>>) = {}
    BY DEF ToSet
  <2>2. VerdictInv
    BY DEF FetchInit, VerdictInv, InHand, Working
  <2>3. CommandTypes
    BY <2>1, FetchAssumption DEF FetchInit, CommandTypes
  <2> QED
    BY <2>2, <2>3
<1>2. FetchInv /\ FetcherTypeOK /\ VerdictInv /\ CommandTypes /\ [FetchNext]_fetchVars
          => VerdictInv' /\ CommandTypes'
  BY VerdictStep, TypesStep
<1>3. FetchInv /\ FetcherTypeOK /\ KeygenInv /\ VerdictInv /\ CommandTypes => FetchTypeOK
  <2> SUFFICES ASSUME FetchInv, FetcherTypeOK, KeygenInv, VerdictInv, CommandTypes
               PROVE  FetchTypeOK
    OBVIOUS
  <2>1. FetchTypes /\ (step \in Working => Current \in Targets)
    BY CurrentIsRequested DEF FetchInv, InTurn
  <2>2. /\ \A n \in DOMAIN requested : requested[n] \in Targets
        /\ \A n \in DOMAIN verdicts :
              verdicts[n] \in {"fetched", "download", "decrypt", "read"}
    BY <2>1 DEF FetchTypes
  <2>3. step \in Working \ {"fetch"} => archive[Current] # None
    BY DEF VerdictInv, InHand
  <2> QED
    BY <2>1, <2>2, <2>3 DEF FetchTypeOK, FetchTypes, CommandTypes, KeygenInv
<1>4. FetchSpec => []FetcherTypeOK
  BY CommandComposes, FetcherTypeCorrect, PTL
<1>5. KeygenSpec => []KeygenInv
  BY KeygenInitHolds, KeygenStep, PTL DEF KeygenSpec
<1> QED
  BY FetchInvariance, CommandComposes, <1>1, <1>2, <1>3, <1>4, <1>5, PTL DEF FetchSpec

----------------------------------------------------------------------------
\* The walk back through the datalog.

Reports == {i \in 1 .. published : log[i] = "report"}

\* The walk has come to every report after the records it has still to read, and
\* stops when it has enough.
WalkInv ==
    /\ step \in {"idle", "chain"} => requested = <<>>
    /\ step = "idle" => last = 0
    /\ step \in {"chain", "walk"} => last > 0
    /\ step = "walk" \/ (step = "prepare" /\ last > 0) =>
        /\ Len(requested) <= last
        /\ ToSet(requested) = {i \in Reports : i > unread}
        /\ \A m, n \in DOMAIN requested : m < n => requested[m] < requested[n]
    /\ step = "prepare" /\ last > 0 => unread = 0 \/ Len(requested) = last

\* Outside the walk there is nothing to show.
LEMMA NoWalk ==
    ASSUME \/ step' \in Working \cup {"next"}
           \/ step' = "idle" /\ requested' = <<>> /\ last' = 0
           \/ step' = "prepare" /\ last' = 0
           \/ step' = "chain" /\ requested' = <<>> /\ last' > 0
    PROVE  WalkInv'
  BY DEF WalkInv, Working

\* One record back.
LEMMA OneBack ==
    ASSUME FetchInv, WalkInv, CommandTypes, Walk, unread # 0, Len(requested) # last
    PROVE  WalkInv'
<1>1. /\ step = "walk" /\ step' = "walk" /\ last' = last /\ unread' = unread - 1
      /\ UNCHANGED <<log, published>>
      /\ requested' = IF log[unread] = "report" THEN <<unread>> \o requested
                                                ELSE requested
  BY DEF Walk, site
<1>2. /\ unread \in 1 .. published /\ published \in Nat /\ last \in Nat
      /\ requested \in Seq(Targets) /\ Len(requested) < last
  BY <1>1, FetchAssumption DEF FetchInv, FetchTypes, WalkInv, CommandTypes
<1>3. /\ ToSet(requested) = {i \in Reports : i > unread}
      /\ \A m, n \in DOMAIN requested : m < n => requested[m] < requested[n]
      /\ last > 0
  BY <1>1 DEF WalkInv
<1>4. Reports' = Reports
  BY <1>1 DEF Reports
<1>5. CASE log[unread] # "report"
  <2>1. {i \in Reports : i > unread - 1} = {i \in Reports : i > unread}
    BY <1>2, <1>5 DEF Reports
  <2> QED
    BY <1>1, <1>2, <1>3, <1>4, <1>5, <2>1 DEF WalkInv
<1>6. CASE log[unread] = "report"
  <2>1. /\ Len(requested') = Len(requested) + 1
        /\ requested' \in Seq(Targets)
        /\ requested'[1] = unread
        /\ \A n \in 2 .. Len(requested) + 1 : requested'[n] = requested[n - 1]
    <3>1. unread \in Targets
      BY <1>1, <1>2, FetchAssumption DEF FetchInv, FetchTypes
    <3> QED
      BY <1>1, <1>2, <1>6, <3>1
  <2>2. ToSet(requested') = ToSet(requested) \cup {unread}
    <3>1. ASSUME NEW i \in ToSet(requested) PROVE i \in ToSet(requested')
      <4>1. PICK n \in DOMAIN requested : requested[n] = i
        BY <3>1 DEF ToSet
      <4>2. n + 1 \in DOMAIN requested' /\ requested'[n + 1] = i
        BY <1>2, <2>1, <4>1
      <4> QED
        BY <4>2 DEF ToSet
    <3>2. unread \in ToSet(requested')
      BY <1>2, <2>1 DEF ToSet
    <3>3. ASSUME NEW i \in ToSet(requested') PROVE i \in ToSet(requested) \cup {unread}
      <4>1. PICK n \in DOMAIN requested' : requested'[n] = i
        BY <3>3 DEF ToSet
      <4>2. n # 1 => n - 1 \in DOMAIN requested /\ requested[n - 1] = i
        BY <1>2, <2>1, <4>1
      <4> QED
        BY <2>1, <4>1, <4>2 DEF ToSet
    <3> QED
      BY <3>1, <3>2, <3>3
  <2>3. {i \in Reports : i > unread - 1} = {i \in Reports : i > unread} \cup {unread}
    BY <1>2, <1>6 DEF Reports
  <2>4. \A n \in DOMAIN requested : unread < requested[n]
    BY <1>3 DEF ToSet
  <2>5. \A m, n \in DOMAIN requested' : m < n => requested'[m] < requested'[n]
    <3> SUFFICES ASSUME NEW m \in DOMAIN requested', NEW n \in DOMAIN requested', m < n
                 PROVE  requested'[m] < requested'[n]
      OBVIOUS
    <3>1. n - 1 \in DOMAIN requested /\ requested'[n] = requested[n - 1]
      BY <1>2, <2>1
    <3>2. CASE m = 1
      BY <2>1, <2>4, <3>1, <3>2
    <3>3. CASE m # 1
      <4>1. m - 1 \in DOMAIN requested /\ requested'[m] = requested[m - 1]
        BY <1>2, <2>1, <3>3
      <4>2. m - 1 < n - 1
        BY <1>2, <2>1
      <4> QED
        BY <1>3, <3>1, <4>1, <4>2
    <3> QED
      BY <3>2, <3>3
  <2>6. Len(requested') <= last
    BY <1>2, <2>1
  <2> QED
    BY <1>1, <1>3, <1>4, <2>2, <2>3, <2>5, <2>6 DEF WalkInv
<1> QED
  BY <1>5, <1>6

LEMMA WalkStep ==
    ASSUME FetchInv, CommandTypes, WalkInv, [FetchNext]_fetchVars
    PROVE  WalkInv'
<1>1. FetchTypes /\ InTurn
  BY DEF FetchInv
<1>2. CASE FetchCids
  <2>1. step' = "prepare" /\ last' = 0
    BY <1>2 DEF FetchCids, Start, WalkInv
  <2> QED
    BY <2>1, NoWalk
<1>3. CASE FetchLast
  <2>1. step' = "chain" /\ requested' = <<>> /\ last' > 0
    BY <1>3, FetchAssumption DEF FetchLast, Start, WalkInv
  <2> QED
    BY <2>1, NoWalk
<1>4. CASE ReadDatalog
  <2>1. /\ step' = "walk" /\ requested' = <<>> /\ last' = last /\ last > 0
        /\ unread' = published'
    BY <1>4 DEF ReadDatalog, WalkInv
  <2>2. {i \in Reports' : i > unread'} = {}
    <3>1. Len(log) \in Nat /\ published \in Nat
      BY <1>1, FetchAssumption DEF FetchTypes
    <3>2. published' \in Nat
      BY <1>4, <3>1 DEF ReadDatalog
    <3> QED
      BY <2>1, <3>2 DEF Reports
  <2>3. /\ ToSet(requested') = {} /\ Len(requested') = 0 /\ DOMAIN requested' = {}
        /\ last \in Nat
    BY <2>1, FetchAssumption DEF ToSet, CommandTypes
  <2> QED
    BY <2>1, <2>2, <2>3 DEF WalkInv
<1>5. CASE ReadFails
  <2>1. CASE Exit(1)
    BY <2>1, NoWalk DEF Exit
  <2>2. CASE ~Exit(1)
    <3>1. step' = "chain" /\ requested' = <<>> /\ last' > 0
      BY <1>5, <2>2 DEF ReadFails, WalkInv
    <3> QED
      BY <3>1, NoWalk
  <2> QED
    BY <2>1, <2>2
<1>6. CASE Walk
  <2>1. CASE unread = 0 \/ Len(requested) = last
    <3>1. /\ step = "walk" /\ step' = "prepare"
          /\ UNCHANGED <<log, published, last, unread, requested>>
      BY <1>6, <2>1 DEF Walk, site
    <3>2. Reports' = Reports
      BY <3>1 DEF Reports
    <3> QED
      BY <2>1, <3>1, <3>2 DEF WalkInv
  <2>2. CASE ~(unread = 0 \/ Len(requested) = last)
    BY <1>6, <2>2, OneBack
  <2> QED
    BY <2>1, <2>2
<1>7. CASE Prepare
  <2>1. CASE requested = <<>>
    BY <1>7, <2>1, NoWalk DEF Prepare, Exit
  <2>2. CASE requested # <<>>
    BY <1>7, <2>2, NoWalk DEF Prepare
  <2> QED
    BY <2>1, <2>2
<1>8. CASE Finish \/ Fail \/ Killed
  BY <1>8, NoWalk DEF Finish, Fail, Killed, Exit
<1>9. CASE NextReport \/ FetchOn \/ Downloaded \/ Choose \/ LoadKey \/ Stage
  <2>1. step' \in Working \cup {"next"} \/ Exit(1)
    BY <1>1, <1>9
    DEF NextReport, FetchOn, Downloaded, Choose, LoadKey, Stage, Go, Conclude, command,
        Working, InTurn, Ended
  <2> QED
    BY <2>1, NoWalk DEF Exit
<1>10. CASE DecryptMembers \/ ClearOutput \/ RenameStaging
  <2>1. step' \in Working \cup {"next"}
    BY <1>10 DEF DecryptMembers, ClearOutput, RenameStaging, Go, Conclude, command, Working
  <2> QED
    BY <2>1, NoWalk
<1>11. CASE MakeKeyBetween \/ UNCHANGED fetchVars
  <2>1. UNCHANGED <<log, published, step, last, unread, requested>>
    BY <1>11 DEF MakeKeyBetween, fetchVars, site, command, walk
  <2>2. Reports' = Reports
    BY <2>1 DEF Reports
  <2> QED
    BY <2>1, <2>2 DEF WalkInv
<1> QED
  BY <1>2, <1>3, <1>4, <1>5, <1>6, <1>7, <1>8, <1>9, <1>10, <1>11 DEF FetchNext, Command

\* A list of numbers in order has as many elements as it is long.
LEMMA AscendingCounts ==
    ASSUME NEW S \in SUBSET Nat, IsFiniteSet(S), NEW list \in Seq(S), ToSet(list) = S,
           \A m, n \in DOMAIN list : m < n => list[m] < list[n]
    PROVE  Cardinality(S) = Len(list)
<1> DEFINE N == Len(list)
<1>1. list \in [1 .. N -> S] /\ DOMAIN list = 1 .. N /\ N \in Nat
  OBVIOUS
<1> HIDE DEF N
<1>2. IsInjective(list)
  <2> SUFFICES ASSUME NEW m \in DOMAIN list, NEW n \in DOMAIN list, list[m] = list[n]
               PROVE  m = n
    BY DEF IsInjective
  <2>1. list[m] \in Nat /\ list[n] \in Nat
    BY <1>1, Zenon
  <2>2. m \in Nat /\ n \in Nat
    BY <1>1
  <2>3. ~(m < n) /\ ~(n < m)
    BY <2>1
  <2> QED
    BY <2>2, <2>3
<1>3. list \in Injection(1 .. N, S)
  BY <1>1, <1>2 DEF Injection
<1>4. list \in Surjection(1 .. N, S)
  BY <1>1 DEF Surjection, ToSet
<1>5. Cardinality(1 .. N) = N
  <2>1. ~(1 > N) => Cardinality(1 .. N) = N - 1 + 1
    BY <1>1, FS_Interval
  <2>2. 1 > N => Cardinality(1 .. N) = 0
    BY <1>1, FS_Interval
  <2> QED
    BY <1>1, <2>1, <2>2
<1> QED
  BY <1>3, <1>4, <1>5, FS_Injection DEF N

\* What is requested is the newest reports, and as many as were asked for or all.
LEMMA WalkedIsNewest ==
    ASSUME FetchInv, CommandTypes, WalkInv
    PROVE  RequestedAreNewest
<1> SUFFICES ASSUME step = "prepare", last > 0
             PROVE  /\ ToSet(requested) =
                          {i \in Reports : Cardinality({j \in Reports : j >= i}) <= last}
                    /\ \A m, n \in DOMAIN requested : m < n => requested[m] < requested[n]
  BY DEF RequestedAreNewest, Reports
<1> DEFINE Since(i) == {j \in Reports : j >= i}
           Walked == {i \in Reports : i > unread}
<1>1. /\ published \in Nat /\ unread \in 0 .. published /\ last \in Nat
      /\ requested \in Seq(Targets)
  BY FetchAssumption DEF FetchInv, FetchTypes, CommandTypes
<1>2. /\ Len(requested) <= last /\ (unread = 0 \/ Len(requested) = last)
      /\ ToSet(requested) = Walked
      /\ \A m, n \in DOMAIN requested : m < n => requested[m] < requested[n]
  BY DEF WalkInv
<1>3. IsFiniteSet(Reports) /\ \A i \in Reports : i \in Nat
  <2>1. Reports \in SUBSET (1 .. published)
    BY DEF Reports
  <2>2. IsFiniteSet(1 .. published)
    BY <1>1, FS_Interval
  <2>3. IsFiniteSet(Reports)
    BY <2>1, <2>2, FS_Subset
  <2> QED
    BY <2>1, <2>3
<1>4. ASSUME NEW i PROVE IsFiniteSet(Since(i)) /\ Cardinality(Since(i)) \in Nat
  <2>1. Since(i) \in SUBSET Reports
    OBVIOUS
  <2> QED
    BY <1>3, <2>1, FS_Subset, FS_CardinalityType
<1>5. Cardinality(Walked) = Len(requested) /\ IsFiniteSet(Walked)
  <2>1. Walked \in SUBSET Nat /\ IsFiniteSet(Walked)
    BY <1>3, FS_Subset
  <2>2. requested \in Seq(Walked)
    <3>1. \A n \in 1 .. Len(requested) : requested[n] \in Walked
      BY <1>1, <1>2 DEF ToSet
    <3> QED
      BY <1>1, <3>1
  <2> QED
    BY <1>2, <2>1, <2>2, AscendingCounts
<1>6. ASSUME NEW i \in Walked PROVE Since(i) \in SUBSET Walked
  <2> SUFFICES ASSUME NEW j \in Since(i) PROVE j \in Walked
    OBVIOUS
  <2>1. i \in Nat /\ j \in Nat /\ unread \in Nat /\ j >= i /\ i > unread
    BY <1>1, <1>3
  <2> QED
    BY <2>1
<1>7. ASSUME NEW i \in Reports, i \notin Walked
      PROVE  Walked \cup {i} \in SUBSET Since(i) /\ Len(requested) = last
  <2>1. i \in Nat /\ unread \in Nat /\ i <= unread /\ i # 0
    BY <1>1, <1>3, <1>7 DEF Reports
  <2>2. ASSUME NEW j \in Walked PROVE j \in Since(i)
    <3>1. j \in Nat /\ j > unread
      BY <1>3
    <3> QED
      BY <2>1, <3>1
  <2>3. i \in Since(i)
    BY <1>7, <2>1
  <2>4. Len(requested) = last
    BY <1>2, <2>1
  <2> QED
    BY <2>2, <2>3, <2>4
<1>8. Len(requested) \in Nat
  BY <1>1
<1> HIDE DEF Since, Walked
<1>9. ASSUME NEW i \in Walked PROVE Cardinality(Since(i)) <= last
  <2>1. Cardinality(Since(i)) <= Cardinality(Walked)
    BY <1>5, <1>6, <1>9, FS_Subset
  <2> QED
    BY <1>1, <1>2, <1>4, <1>5, <1>8, <2>1
<1>10. ASSUME NEW i \in Reports, i \notin Walked PROVE ~(Cardinality(Since(i)) <= last)
  <2>1. Cardinality(Walked \cup {i}) = last + 1
    BY <1>5, <1>7, <1>10, FS_AddElement
  <2>2. Cardinality(Walked \cup {i}) <= Cardinality(Since(i))
    BY <1>4, <1>7, <1>10, FS_Subset
  <2> QED
    BY <1>1, <1>4, <2>1, <2>2
<1>11. Walked = {i \in Reports : Cardinality(Since(i)) <= last}
  BY <1>9, <1>10 DEF Walked
<1> QED
  BY <1>2, <1>11 DEF Since

\* --last N asks for the newest N reports, oldest first, whatever lies between
\* them and however long the datalog is (requested_from_datalog).
THEOREM LastAreNewest == FetchSpec => []RequestedAreNewest
<1>1. FetchInit => VerdictInv /\ CommandTypes /\ WalkInv
  BY FetchAssumption DEF FetchInit, VerdictInv, CommandTypes, WalkInv, InHand, Working, ToSet
<1>2. FetchInv /\ FetcherTypeOK /\ VerdictInv /\ CommandTypes /\ WalkInv
          /\ [FetchNext]_fetchVars
          => VerdictInv' /\ CommandTypes' /\ WalkInv'
  BY VerdictStep, TypesStep, WalkStep
<1>3. FetchInv /\ CommandTypes /\ WalkInv => RequestedAreNewest
  BY WalkedIsNewest
<1>4. FetchSpec => []FetcherTypeOK
  BY CommandComposes, FetcherTypeCorrect, PTL
<1> QED
  BY FetchInvariance, <1>1, <1>2, <1>3, <1>4, PTL DEF FetchSpec

----------------------------------------------------------------------------
\* Every step of a command is one towards its end.

\* One of the tuple's parts is less and those before it are what they were.
Nearer ==
    \E n \in DOMAIN Ahead :
        /\ Ahead'[n] \in 0 .. Ahead[n] - 1
        /\ \A m \in 1 .. n - 1 : Ahead'[m] = Ahead[m]

LEMMA NearerIf ==
    ASSUME \/ PartsLeft' \in 0 .. PartsLeft - 1
           \/ /\ PartsLeft' = PartsLeft
              /\ \/ ItemsLeft' \in 0 .. ItemsLeft - 1
                 \/ /\ ItemsLeft' = ItemsLeft
                    /\ \/ StepsLeft' \in 0 .. StepsLeft - 1
                       \/ StepsLeft' = StepsLeft /\ TriesLeft' \in 0 .. TriesLeft - 1
    PROVE  Nearer
<1>1. /\ DOMAIN Ahead = 1 .. 6
      /\ Ahead[1] = PartsLeft /\ Ahead[2] = ItemsLeft /\ Ahead[3] = StepsLeft
      /\ Ahead[4] = TriesLeft
      /\ Ahead'[1] = PartsLeft' /\ Ahead'[2] = ItemsLeft' /\ Ahead'[3] = StepsLeft'
      /\ Ahead'[4] = TriesLeft'
  BY DEF Ahead
<1>2. CASE PartsLeft' \in 0 .. PartsLeft - 1
  <2>1. \A m \in 1 .. 1 - 1 : FALSE
    OBVIOUS
  <2> QED
    BY <1>1, <1>2, <2>1 DEF Nearer
<1>3. CASE PartsLeft' = PartsLeft /\ ItemsLeft' \in 0 .. ItemsLeft - 1
  <2>1. \A m \in 1 .. 2 - 1 : m = 1
    OBVIOUS
  <2> QED
    BY <1>1, <1>3, <2>1 DEF Nearer
<1>4. CASE /\ PartsLeft' = PartsLeft /\ ItemsLeft' = ItemsLeft
           /\ StepsLeft' \in 0 .. StepsLeft - 1
  <2>1. \A m \in 1 .. 3 - 1 : m = 1 \/ m = 2
    OBVIOUS
  <2> QED
    BY <1>1, <1>4, <2>1 DEF Nearer
<1>5. CASE /\ PartsLeft' = PartsLeft /\ ItemsLeft' = ItemsLeft /\ StepsLeft' = StepsLeft
           /\ TriesLeft' \in 0 .. TriesLeft - 1
  <2>1. \A m \in 1 .. 4 - 1 : m = 1 \/ m = 2 \/ m = 3
    OBVIOUS
  <2> QED
    BY <1>1, <1>5, <2>1 DEF Nearer
<1> QED
  BY <1>2, <1>3, <1>4, <1>5

LEMMA NearerGet ==
    ASSUME PartsLeft' = PartsLeft, ItemsLeft' = ItemsLeft, StepsLeft' = StepsLeft,
           TriesLeft' = TriesLeft, attempt \in 1 .. MaxAttempts, MaxAttempts \in Nat,
           \/ attempt' = attempt + 1 /\ attempt < MaxAttempts
           \/ attempt' = attempt /\ AnswerLeft' \in 0 .. AnswerLeft - 1
    PROVE  Nearer
<1>1. /\ DOMAIN Ahead = 1 .. 6
      /\ \A m \in 1 .. 4 : Ahead'[m] = Ahead[m]
      /\ Ahead[5] = MaxAttempts - attempt /\ Ahead[6] = AnswerLeft
      /\ Ahead'[5] = MaxAttempts - attempt' /\ Ahead'[6] = AnswerLeft'
  BY DEF Ahead
<1>2. CASE attempt' = attempt + 1 /\ attempt < MaxAttempts
  <2>1. Ahead'[5] \in 0 .. Ahead[5] - 1
    BY <1>1, <1>2
  <2> QED
    BY <1>1, <2>1 DEF Nearer
<1>3. CASE attempt' = attempt /\ AnswerLeft' \in 0 .. AnswerLeft - 1
  <2>1. \A m \in 1 .. 6 - 1 : m \in 1 .. 4 \/ m = 5
    OBVIOUS
  <2> QED
    BY <1>1, <1>3, <2>1 DEF Nearer
<1> QED
  BY <1>2, <1>3

\* A GET that is started, answered or given up.
LEMMA GetAdvances ==
    ASSUME FetcherTypeOK, FetchOn
    PROVE  Nearer
<1>1. /\ gateway \in 1 .. NumGateways + 1 /\ attempt \in 1 .. MaxAttempts
      /\ NumGateways \in Nat /\ MaxAttempts \in Nat
      /\ get \in Ended \cup {"ask", "receive"}
      /\ UNCHANGED <<step, reads, unread, requested, verdicts>> /\ step = "fetch"
  BY FetcherAssumption DEF FetchOn, FetcherTypeOK, command, walk
<1>2. /\ UNCHANGED <<PartsLeft, ItemsLeft, StepsLeft>>
      /\ TriesLeft = NumGateways + 1 - gateway /\ TriesLeft' = NumGateways + 1 - gateway'
  BY <1>1 DEF PartsLeft, ItemsLeft, StepsLeft, TriesLeft
<1>3. CASE gateway \in Gateways /\ gateway' = gateway + 1
  <2>1. TriesLeft' \in 0 .. TriesLeft - 1
    BY <1>1, <1>2, <1>3 DEF Gateways
  <2> QED
    BY <1>2, <2>1, NearerIf
<1>4. CASE UNCHANGED gateway /\ attempt < MaxAttempts /\ attempt' = attempt + 1
  BY <1>1, <1>2, <1>4, NearerGet
<1>5. CASE UNCHANGED <<gateway, attempt>> /\ AnswerLeft' \in 0 .. AnswerLeft - 1
  BY <1>1, <1>2, <1>5, NearerGet
<1>6. CASE Open \/ Complete \/ TooLarge \/ Break \/ GiveUp
  <2>1. UNCHANGED <<gateway, attempt>>
    BY <1>6 DEF Open, Complete, TooLarge, Break, GiveUp, loop
  <2>2. \/ get = "ask" /\ get' \notin {"ask"}
        \/ get = "receive" /\ get' \notin {"ask", "receive"}
    BY <1>6 DEF Open, Complete, TooLarge, Break, GiveUp, GetFails
  <2>3. AnswerLeft' \in 0 .. AnswerLeft - 1
    BY <2>2 DEF AnswerLeft
  <2> QED
    BY <1>5, <2>1, <2>3
<1>7. CASE Retry \/ Refuse
  BY <1>1, <1>3, <1>4, <1>7 DEF Retry, Refuse, GetFails, NextGateway
<1> QED
  BY <1>6, <1>7 DEF FetchOn, Get

\* A report that has its verdict leaves one less.
LEMMA ConcludeAdvances ==
    ASSUME FetchInv, step \in Working, NEW verdict, Conclude(verdict)
    PROVE  Nearer
<1>1. /\ Len(verdicts) \in Nat /\ Len(requested) \in Nat
      /\ Len(verdicts) < Len(requested)
      /\ verdicts \in Seq({"fetched", "download", "decrypt", "read"})
  BY DEF FetchInv, FetchTypes, InTurn
<1>2. Len(verdicts') = Len(verdicts) + 1 /\ requested' = requested /\ step' = "next"
  BY <1>1 DEF Conclude
<1>3. PartsLeft' = PartsLeft /\ ItemsLeft' \in 0 .. ItemsLeft - 1
  BY <1>1, <1>2 DEF PartsLeft, ItemsLeft, Working
<1> QED
  BY <1>3, NearerIf

\* The steps of a report come one after the other.
LEMMA ReportGoesOn ==
    ASSUME UNCHANGED <<requested, verdicts>>,
           <<step, step'>> \in {<<"next", "fetch">>, <<"next", "choose">>, <<"fetch", "choose">>,
               <<"choose", "key">>, <<"key", "stage">>, <<"stage", "members">>,
               <<"members", "swap">>}
    PROVE  Nearer
<1>1. /\ PartsLeft' = PartsLeft /\ ItemsLeft' = ItemsLeft
      /\ StepsLeft' \in 0 .. StepsLeft - 1
  BY DEF PartsLeft, ItemsLeft, StepsLeft
<1> QED
  BY <1>1, NearerIf

\* Each step of a command is one towards its end, whatever gateways, nodes and
\* archives do: with_retries, download_report, requested_from_datalog and fetch
\* repeat nothing without end.
THEOREM CommandsAdvance == FetchSpec => CommandAdvances
<1>1. ASSUME FetchTypeOK, FetchInv, FetchNext, step # "idle", step' # "idle"
      PROVE  Nearer \/ UNCHANGED fetchVars
  <2>1. /\ reads \in 0 .. MaxReads - 1 /\ MaxReads \in Nat /\ unread \in Nat
        /\ Len(verdicts) \in Nat /\ Len(requested) \in Nat
        /\ decrypted \in [Targets -> {"none", "partial", "whole"}]
        /\ FetcherTypeOK
    <3>1. Len(log) \in Nat
      BY <1>1, FetchAssumption DEF FetchTypeOK
    <3> QED
      BY <1>1, <3>1, FetchAssumption DEF FetchTypeOK, FetchInv, FetchTypes
  <2>2. \A code : ~Exit(code)
    BY <1>1 DEF Exit
  <2>3. CASE ReadDatalog \/ Prepare
    <3>1. PartsLeft' \in 0 .. PartsLeft - 1
      BY <2>2, <2>3 DEF ReadDatalog, Prepare, PartsLeft
    <3> QED
      BY <3>1, NearerIf
  <2>4. CASE ReadFails
    <3>1. step = "chain" /\ step' = "chain" /\ reads' = reads + 1 /\ reads + 1 < MaxReads
      BY <2>2, <2>4 DEF ReadFails
    <3>2. PartsLeft' = PartsLeft /\ ItemsLeft' \in 0 .. ItemsLeft - 1
      BY <2>1, <3>1 DEF PartsLeft, ItemsLeft
    <3> QED
      BY <3>2, NearerIf
  <2>5. CASE Walk
    <3>1. /\ step = "walk"
          /\ \/ step' = "prepare"
             \/ step' = "walk" /\ unread # 0 /\ unread' = unread - 1
      BY <2>5 DEF Walk
    <3>2. \/ PartsLeft' \in 0 .. PartsLeft - 1
          \/ PartsLeft' = PartsLeft /\ ItemsLeft' \in 0 .. ItemsLeft - 1
      BY <2>1, <3>1 DEF PartsLeft, ItemsLeft
    <3> QED
      BY <3>2, NearerIf
  <2>6. CASE NextReport \/ Stage
    <3>1. /\ UNCHANGED <<requested, verdicts>>
          /\ <<step, step'>> \in
                {<<"next", "fetch">>, <<"next", "choose">>, <<"stage", "members">>}
      BY <2>6 DEF NextReport, Stage, Go
    <3> QED
      BY <3>1, ReportGoesOn
  <2>7. CASE FetchOn
    BY <2>1, <2>7, GetAdvances
  <2>8. CASE Downloaded
    <3>1. step = "fetch" /\ get \in Ended /\ get # "off"
      BY <1>1, <2>8 DEF Downloaded, FetchInv, InTurn
    <3>2. Go("choose") \/ Conclude("download")
      BY <2>2, <2>8, <3>1 DEF Downloaded, Ended
    <3> QED
      BY <1>1, <3>1, <3>2, ConcludeAdvances, ReportGoesOn DEF Go, Working
  <2>9. CASE Choose
    BY <1>1, <2>2, <2>9, ConcludeAdvances, ReportGoesOn DEF Choose, Go, Working
  <2>10. CASE LoadKey
    BY <2>2, <2>10, ReportGoesOn DEF LoadKey
  <2>11. CASE DecryptMembers
    BY <1>1, <2>11, ConcludeAdvances, ReportGoesOn DEF DecryptMembers, Go, Working
  <2>12. CASE RenameStaging
    BY <1>1, <2>12, ConcludeAdvances DEF RenameStaging, Working
  <2>13. CASE ClearOutput
    <3>1. /\ step = "swap" /\ decrypted[Current] # "none"
          /\ UNCHANGED <<download, keygen, site, staging, command>>
      BY <2>13 DEF ClearOutput
    <3>2. PICK left \in {"partial", "none"} : decrypted' = [decrypted EXCEPT ![Current] = left]
      BY <2>13 DEF ClearOutput
    <3>3. Current \in Targets /\ Current' = Current /\ decrypted'[Current] = left
      BY <1>1, <2>1, <3>1, <3>2 DEF FetchTypeOK, Working, command, Current
    <3>4. CASE decrypted[Current] = left
      <4>1. decrypted' = decrypted
        BY <2>1, <3>2, <3>3, <3>4
      <4> QED
        BY <3>1, <4>1 DEF fetchVars, files
    <3>5. CASE decrypted[Current] # left
      <4>1. UNCHANGED <<step, requested, verdicts, reads, unread>>
        BY <3>1 DEF command, walk
      <4>2. /\ decrypted[Current] \in {"partial", "whole"}
            /\ decrypted[Current] = "whole" \/ left = "none"
        BY <2>1, <3>1, <3>3, <3>5
      <4>3. TriesLeft' \in 0 .. TriesLeft - 1
        BY <3>1, <3>3, <4>1, <4>2 DEF TriesLeft
      <4>4. UNCHANGED <<PartsLeft, ItemsLeft, StepsLeft>>
        BY <4>1 DEF PartsLeft, ItemsLeft, StepsLeft
      <4> QED
        BY <4>3, <4>4, NearerIf
    <3> QED
      BY <3>4, <3>5
  <2>14. ~FetchCids /\ ~FetchLast /\ ~Finish /\ ~Fail /\ ~Killed /\ ~MakeKeyBetween
    BY <1>1, <2>2 DEF FetchCids, FetchLast, Start, Finish, Fail, Killed, MakeKeyBetween
  <2> QED
    BY <1>1, <2>3, <2>4, <2>5, <2>6, <2>7, <2>8, <2>9, <2>10, <2>11, <2>12, <2>13, <2>14
    DEF FetchNext, Command
<1>2. FetchTypeOK /\ FetchInv /\ [FetchNext]_fetchVars
        => [step # "idle" /\ step' # "idle" => Nearer]_fetchVars
  BY <1>1
<1>3. FetchSpec => [][step # "idle" /\ step' # "idle" => Nearer]_fetchVars
  BY <1>2, FetchTypeCorrect, FetchInvariance, PTL DEF FetchSpec
<1> QED
  BY <1>3 DEF CommandAdvances, Nearer

=============================================================================
