----------------------------- MODULE Recipients -----------------------------
(***************************************************************************)
(* What an archive is to the connector: archive_recipients and             *)
(* RecipientKeys.choose, which decide whose key is needed, and             *)
(* _decrypt_members, which decides whether that key opens it.  They are    *)
(* functions of the archive; the steps that use them are in Fetch.         *)
(***************************************************************************)
EXTENDS Integers, Sequences

CONSTANTS
    NotZip,       \* a body that is not a zip file
    NoName,       \* an empty name, "." or ".."
    MaxMembers    \* MAX_ARCHIVE_MEMBERS

ASSUME MembersAssumption == MaxMembers \in Nat \ {0}

\* The body of an archive is the sequence of its members; of a member,
\*   form: "sealed" and "nested" (with a path for a name) are packages; an
\*         "invalid" or "oversize" one is refused, a "damaged" one cannot be read
\*   keys: the addresses its envelope names
\*   opens: the site of the report did seal it, for these keys
\*   name: the file name it has once decrypted

IsPackage(member) == member.form \in {"sealed", "nested"}

HasMembers(body) == body # NotZip /\ Len(body) \in 1 .. MaxMembers

\* Mutant of Recipients: whoever is named by some member.
RecipientsOfAny(body) == UNION {body[n].keys : n \in DOMAIN body}

\* archive_recipients: the addresses every member is sealed for.
Recipients(body) == {a \in body[1].keys : \A n \in DOMAIN body : a \in body[n].keys}

\* The first member that is no package decides how archive_recipients fails.
FirstFault(body) ==
    LET faults == {n \in DOMAIN body : ~IsPackage(body[n])}
    IN  body[CHOOSE n \in faults : \A m \in faults : n <= m].form

\* choose: the first of our addresses among the recipients, "rejected" for a
\* ReportDecryptionError, "unexpected" for any other exception.
ChosenKey(body, addresses) ==
    IF ~HasMembers(body) THEN "rejected"
    ELSE IF \E n \in DOMAIN body : ~IsPackage(body[n])
         THEN IF FirstFault(body) = "damaged" THEN "unexpected" ELSE "rejected"
    ELSE LET ours == {n \in DOMAIN addresses : addresses[n] \in Recipients(body)}
         IN  IF ours = {} THEN "rejected"
             ELSE addresses[CHOOSE n \in ours : \A m \in ours : n <= m]

\* _decrypt_members succeeds: every member opens, under a name of its own.
Decrypts(body, key) ==
    /\ HasMembers(body)
    /\ \A n \in DOMAIN body :
        /\ body[n].form = "sealed"
        /\ key \in body[n].keys /\ body[n].opens
        /\ body[n].name # NoName
        /\ \A m \in 1 .. n - 1 : body[m].name # body[n].name

----------------------------------------------------------------------------
\* Reference: what a reader of the docs would call a report for us.

\* A sound report: members the site sealed, with names of their own, all of them
\* for one of our keys.
IsSoundFor(body, key) ==
    /\ HasMembers(body)
    /\ \A n \in DOMAIN body :
        /\ body[n].form = "sealed" /\ body[n].opens /\ body[n].name # NoName
        /\ key \in body[n].keys
    /\ \A m, n \in DOMAIN body : body[m].name = body[n].name => m = n
=============================================================================
