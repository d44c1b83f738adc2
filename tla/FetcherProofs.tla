--------------------------- MODULE FetcherProofs ---------------------------
(***************************************************************************)
(* The loop over gateways and attempts, and the download as one change of  *)
(* one file, for every number of gateways and attempts.                    *)
(***************************************************************************)
EXTENDS Fetcher, TLAPS

LoopInv == FetcherTypeOK /\ LoopIsTold

LEMMA LoopInit == FetcherInit => LoopInv
  BY FetcherAssumption
  DEF FetcherInit, LoopInv, FetcherTypeOK, LoopIsTold, Gateways, Ended

\* What any failed or started GET does to the counters.
LEMMA GetCounts ==
    ASSUME LoopInv,
           get \in {"ask", "receive"},
           gateway \in Gateways,
           asked' = IF get = "ask" THEN [asked EXCEPT ![gateway] = @ + 1] ELSE asked
    PROVE  /\ asked' \in [Gateways -> 0 .. MaxAttempts]
           /\ asked'[gateway] = attempt
           /\ \A g \in Gateways : g # gateway => asked'[g] = asked[g]
  BY FetcherAssumption DEF LoopInv, FetcherTypeOK, LoopIsTold, Gateways, Ended

\* The loop invariant without its definitions, for the steps of a failed GET.
LEMMA LoopFacts ==
    ASSUME LoopInv
    PROVE  /\ \A g \in Gateways : g \in Int
           /\ gateway \in Int /\ attempt \in 1 .. MaxAttempts
           /\ \A g \in Gateways : g < gateway => g \in refused \/ asked[g] = MaxAttempts
           /\ \A g \in Gateways : g > gateway => asked[g] = 0
           /\ DOMAIN archive = Targets
           /\ \A t \in Targets : archive[t] \in Bodies[t] \cup {None}
           /\ partial \in [Targets -> BOOLEAN]
           /\ target \in Targets
           /\ refused \in SUBSET Gateways
  BY FetcherAssumption DEF LoopInv, FetcherTypeOK, LoopIsTold, Gateways

\* What a failed GET leaves as it is or changes in every case.
LEMMA FailedGet ==
    ASSUME LoopInv, GetFails
    PROVE  /\ asked' \in [Gateways -> 0 .. MaxAttempts]
           /\ asked'[gateway] = attempt
           /\ \A g \in Gateways : g # gateway => asked'[g] = asked[g]
           /\ gateway \in Gateways
           /\ DOMAIN archive' = Targets
           /\ \A t \in Targets : archive'[t] \in Bodies[t] \cup {None}
           /\ partial' \in [Targets -> BOOLEAN]
           /\ target' \in Targets
<1>1. /\ asked' \in [Gateways -> 0 .. MaxAttempts]
      /\ asked'[gateway] = attempt
      /\ \A g \in Gateways : g # gateway => asked'[g] = asked[g]
  BY GetCounts DEF GetFails
<1> QED
  BY <1>1, LoopFacts DEF GetFails

LEMMA SameGateway ==
    ASSUME LoopInv, GetFails, attempt < MaxAttempts, attempt' = attempt + 1,
           UNCHANGED <<gateway, refused>>, get' = "ask"
    PROVE  LoopInv'
<1>1. \A g \in Gateways : g < gateway' => g \in refused' \/ asked'[g] = MaxAttempts
  BY LoopFacts, FailedGet
<1>2. \A g \in Gateways : g > gateway' => asked'[g] = 0
  BY LoopFacts, FailedGet
<1>3. asked'[gateway'] = attempt' - 1 /\ attempt' \in 1 .. MaxAttempts
  BY LoopFacts, FailedGet, FetcherAssumption
<1> QED
  BY <1>1, <1>2, <1>3, LoopFacts, FailedGet, FetcherAssumption
  DEF LoopInv, FetcherTypeOK, LoopIsTold, Gateways

LEMMA GatewayLeft ==
    ASSUME LoopInv, GetFails, NextGateway, get' = "ask",
           \/ attempt = MaxAttempts /\ refused' = refused
           \/ refused' = refused \cup {gateway}
    PROVE  LoopInv'
<1>1. /\ gateway' \in 1 .. NumGateways + 1 /\ attempt' = 1
      /\ gateway' = gateway + 1
  BY FailedGet, FetcherAssumption DEF NextGateway, Gateways
<1>2. refused' \in SUBSET Gateways
  BY LoopFacts, FailedGet
<1>3. \A g \in Gateways : g < gateway' => g \in refused' \/ asked'[g] = MaxAttempts
  <2> SUFFICES ASSUME NEW g \in Gateways, g < gateway'
               PROVE  g \in refused' \/ asked'[g] = MaxAttempts
    OBVIOUS
  <2>1. CASE g = gateway
    BY <2>1, FailedGet
  <2>2. CASE g # gateway
    BY <2>2, <1>1, LoopFacts, FailedGet
  <2> QED
    BY <2>1, <2>2
<1>4. \A g \in Gateways : g >= gateway' => asked'[g] = 0
  BY <1>1, LoopFacts, FailedGet
<1>5. FetcherTypeOK'
  <2>1. attempt' \in 1 .. MaxAttempts /\ get' \in Ended \cup {"ask", "receive"}
    BY <1>1, FetcherAssumption
  <2> QED
    BY <1>1, <1>2, <2>1, FailedGet DEF FetcherTypeOK
<1>6. LoopIsTold'
  BY <1>1, <1>3, <1>4, LoopFacts DEF LoopIsTold
<1> QED
  BY <1>5, <1>6 DEF LoopInv

LEMMA GetEnds ==
    ASSUME LoopInv, GetFails, UNCHANGED <<gateway, attempt, refused>>,
           get' \in {"toolarge", "error"}
    PROVE  LoopInv'
<1>1. gateway' = gateway /\ attempt' = attempt /\ refused' = refused
  OBVIOUS
<1>2. \A g \in Gateways : g < gateway' => g \in refused' \/ asked'[g] = MaxAttempts
  BY <1>1, LoopFacts, FailedGet
<1>3. \A g \in Gateways : g > gateway' => asked'[g] = 0
  BY <1>1, LoopFacts, FailedGet
<1>4. get' \in Ended /\ get' \notin {"off", "ask", "unavailable"}
  BY DEF Ended
<1>5. gateway' \in 1 .. NumGateways + 1
  BY <1>1 DEF LoopInv, FetcherTypeOK
<1> QED
  BY <1>1, <1>2, <1>3, <1>4, <1>5, LoopFacts, FailedGet
  DEF LoopInv, FetcherTypeOK, LoopIsTold

LEMMA LoopStep ==
    ASSUME LoopInv, [FetcherNext]_download
    PROVE  LoopInv'
<1> USE FetcherAssumption DEF LoopInv, FetcherTypeOK, LoopIsTold, Gateways, Ended
<1>1. ASSUME NEW t \in Targets, Call(t)
      PROVE  LoopInv'
  BY <1>1 DEF Call, tally
<1>2. CASE Open
  <2>1. /\ asked' \in [Gateways -> 0 .. MaxAttempts]
        /\ asked'[gateway] = attempt
        /\ \A g \in Gateways : g # gateway => asked'[g] = asked[g]
    BY <1>2, GetCounts DEF Open
  <2>2. UNCHANGED <<archive, target, gateway, attempt, refused>> /\ get' = "receive"
    BY <1>2 DEF Open, loop
  <2>3. partial' \in [Targets -> BOOLEAN]
    BY <1>2 DEF Open
  <2> QED
    BY <1>2, <2>1, <2>2, <2>3 DEF Open
<1>3. CASE Complete
  BY <1>3 DEF Complete, loop, tally
<1>4. CASE Retry
  <2>1. attempt \in 1 .. MaxAttempts
    OBVIOUS
  <2>2. CASE attempt < MaxAttempts
    BY <1>4, <2>2, SameGateway DEF Retry
  <2>3. CASE attempt = MaxAttempts
    BY <1>4, <2>3, GatewayLeft DEF Retry
  <2> QED
    BY <2>1, <2>2, <2>3
<1>5. CASE Refuse
  BY <1>5, GatewayLeft DEF Refuse
<1>6. CASE TooLarge
  BY <1>6, GetEnds DEF TooLarge
<1>7. CASE Break
  BY <1>7, GetEnds DEF Break
<1>8. CASE GiveUp
  BY <1>8 DEF GiveUp, loop, tally
<1>9. CASE Return
  BY <1>9 DEF Return
<1>10. CASE UNCHANGED download
  BY <1>10 DEF download, loop, tally
<1> QED
  BY <1>1, <1>2, <1>3, <1>4, <1>5, <1>6, <1>7, <1>8, <1>9, <1>10
  DEF FetcherNext, Get, Die

\* The counters of the loop stay what they say, through every call.
THEOREM LoopInvariance == FetcherSpec => []LoopInv
  BY LoopInit, LoopStep, PTL DEF FetcherSpec

\* Files, counters and outcomes keep their kinds.
THEOREM FetcherTypeCorrect == FetcherSpec => []FetcherTypeOK
<1>1. LoopInv => FetcherTypeOK
  BY DEF LoopInv
<1> QED
  BY <1>1, LoopInvariance, PTL

\* However many gateways and attempts are configured, download_report calls a
\* report unavailable only when each gateway has refused it or used up its attempts.
THEOREM EveryGatewayIsAsked == FetcherSpec => []GivesUpAfterAll
<1>1. LoopInv => GivesUpAfterAll
  BY FetcherAssumption DEF LoopInv, FetcherTypeOK, GivesUpAfterAll, LoopIsTold, Gateways
<1> QED
  BY <1>1, LoopInvariance, PTL

LEMMA InitImplements == FetcherInit => Contract!Init
  BY FetcherAssumption DEF FetcherInit, Contract!Init, Progress

\* A failed GET is no step of the archive, whatever it does to the counters.
LEMMA FailedGetIsQuiet ==
    ASSUME GetFails, get' \in {"ask", "receive"}
    PROVE  UNCHANGED Contract!vars
  BY DEF GetFails, Contract!vars, Progress

LEMMA StepImplements ==
    ASSUME [FetcherNext]_download
    PROVE  [Contract!Next]_(Contract!vars)
<1> USE DEF Contract!Next, Contract!vars, Progress
<1>1. ASSUME NEW t \in Targets, Call(t)
      PROVE  Contract!Call
  BY <1>1 DEF Call, Contract!Call
<1>2. CASE Open
  BY <1>2 DEF Open, loop
<1>3. CASE Complete
  BY <1>3 DEF Complete, loop, Contract!Succeed
<1>4. CASE Retry
  BY <1>4, FailedGetIsQuiet DEF Retry
<1>5. CASE Refuse
  BY <1>5, FailedGetIsQuiet DEF Refuse
<1>6. CASE TooLarge
  BY <1>6 DEF TooLarge, GetFails, Contract!Fail
<1>7. CASE Break
  BY <1>7 DEF Break, GetFails, Contract!Fail
<1>8. CASE GiveUp
  BY <1>8 DEF GiveUp, loop, Contract!Fail
<1>9. CASE Return
  BY <1>9 DEF Return, Contract!Return
<1>10. CASE UNCHANGED download
  BY <1>10 DEF download, loop
<1> QED
  BY <1>1, <1>2, <1>3, <1>4, <1>5, <1>6, <1>7, <1>8, <1>9, <1>10
  DEF FetcherNext, Get, Die

\* download_report implements Download: through every order of gateways, attempts
\* and failures, the archive changes once, to a complete body, as it succeeds.
THEOREM FetcherImplementsDownload == FetcherSpec => DownloadsAtOnce
  BY InitImplements, StepImplements, PTL
  DEF FetcherSpec, DownloadsAtOnce, Contract!Spec
=============================================================================
