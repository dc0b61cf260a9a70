---------------------------- MODULE WriteOnceKey ----------------------------
(***************************************************************************)
(* What the audit HMAC key component promises to the rest of the system:   *)
(* the identity of the key is chosen once, and every DataStorage that is   *)
(* ever deployed signs with that key.                                      *)
(***************************************************************************)
CONSTANTS Keys, NoKey

VARIABLES
    committed,      \* the key identity on record, NoKey before the choice
    effective       \* the keys DataStorage has been deployed with

vars == <<committed, effective>>

Init ==
    /\ committed = NoKey
    /\ effective = {}

Commit ==
    /\ committed = NoKey
    /\ committed' \in Keys
    /\ UNCHANGED effective

Deploy ==
    /\ committed # NoKey
    /\ effective' = effective \cup {committed}
    /\ UNCHANGED committed

Next == Commit \/ Deploy

Spec == Init /\ [][Next]_vars
=============================================================================
