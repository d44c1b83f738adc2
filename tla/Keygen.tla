------------------------------- MODULE Keygen -------------------------------
(***************************************************************************)
(* Recipient keys in Proton Pass: create_recipient_key, which stores a new *)
(* seed and reads it back before it announces the address, and             *)
(* load_integrator_account, which reads the seed of an announced one.      *)
(* pass-cli and the vault are external; any call of it may fail.           *)
(***************************************************************************)
CONSTANTS
    Keys,        \* addresses keys may have
    OldKeys      \* keys in service already

ASSUME KeygenAssumption == Keys # {} /\ OldKeys \subseteq Keys

VARIABLES
    vault,       \* [Keys -> what the item of an address holds]
    granted,     \* keys whose item the token reaches, by vault or by itself
    making,      \* step of create_recipient_key
    newKey,      \* the address it makes
    announced    \* addresses printed for the person

keygen == <<vault, granted, making, newKey, announced>>

Items == {"none", "good", "mangled"}

KeygenInit ==
    /\ vault = [k \in Keys |-> IF k \in OldKeys THEN "good" ELSE "none"]
    /\ granted = OldKeys
    /\ making = "idle"
    /\ newKey = CHOOSE k \in Keys : TRUE
    /\ announced = OldKeys

\* read_pass_field by vault, then by the item's own share: what is there, or
\* SecretUnavailableError.
FieldAnswers(k, reach) ==
    {"unavailable"} \cup IF vault[k] # "none" /\ k \in reach THEN {vault[k]} ELSE {}

\* load_integrator_account may return the key of this address.
Loads(k) == "good" \in FieldAnswers(k, granted)

\* A new mnemonic gives an address nobody had.
Generate ==
    /\ making = "idle"
    /\ \E k \in Keys : vault[k] = "none" /\ newKey' = k
    /\ making' = "template"
    /\ UNCHANGED <<vault, granted, announced>>

GetTemplate ==
    /\ making = "template"
    /\ making' \in {"create", "idle"}
    /\ UNCHANGED <<vault, granted, newKey, announced>>

\* pass-cli says it created the item, or that it did not, whatever it stored.
CreateItem ==
    /\ making = "create"
    /\ \E item \in Items : vault' = [vault EXCEPT ![newKey] = item]
    /\ making' \in {"verify", "idle"}
    /\ UNCHANGED <<granted, newKey, announced>>

\* Mutant of Verify: an item that can be read is taken for the key.
VerifyRead ==
    /\ making = "verify"
    /\ making' = "idle"
    /\ \E answer \in FieldAnswers(newKey, Keys) :
        announced' = IF answer # "unavailable" THEN announced \cup {newKey} ELSE announced
    /\ UNCHANGED <<vault, granted, newKey>>

\* The stored seed must derive the address; only then is it announced.
Verify ==
    /\ making = "verify"
    /\ making' = "idle"
    /\ \E answer \in FieldAnswers(newKey, Keys) :
        announced' = IF answer = "good" THEN announced \cup {newKey} ELSE announced
    /\ UNCHANGED <<vault, granted, newKey>>

\* The person gives the connector's token access to the item.
Grant ==
    /\ making = "idle"
    /\ \E k \in announced : granted' = granted \cup {k}
    /\ UNCHANGED <<vault, making, newKey, announced>>

\* The process dies.
Abandon ==
    /\ making # "idle"
    /\ making' = "idle"
    /\ UNCHANGED <<vault, granted, newKey, announced>>

MakeKey == Generate \/ GetTemplate \/ CreateItem \/ Verify \/ Grant \/ Abandon

KeygenSpec == KeygenInit /\ [][MakeKey]_keygen
----------------------------------------------------------------------------

KeygenTypeOK ==
    /\ vault \in [Keys -> Items]
    /\ granted \in SUBSET Keys
    /\ making \in {"idle", "template", "create", "verify"}
    /\ newKey \in Keys
    /\ announced \in SUBSET Keys

\* An address a person is told to configure has its seed in the vault, and no
\* other seed: reports sealed for it can be opened by whoever has access to the
\* item, whatever pass-cli did on the way (create_recipient_key).
AnnouncedIsStored == \A k \in announced : vault[k] = "good"

\* While a key is made its address is announced to nobody: what the next item
\* overwrites is no key in service.
MakingIsNew == making # "idle" => newKey \notin announced

KeygenInv == KeygenTypeOK /\ AnnouncedIsStored /\ MakingIsNew
=============================================================================
