----------------------------- MODULE AtomicTxn ------------------------------
(***************************************************************************)
(* What native_transaction promises: a transaction changes the root and    *)
(* the package database in one indivisible step to what its plan says, or  *)
(* it changes nothing (a failed transaction is a stuttering step).         *)
(***************************************************************************)
EXTENDS Grains

VARIABLES
    root,   \* the managed root filesystem
    db      \* the package database

vars == <<root, db>>

Init ==
    /\ root \in [Paths -> {Local, None}]
    /\ db = [q \in Pkgs |-> None]

Transaction(pl) ==
    /\ Accepted(db, pl)
    /\ \A q \in Gone(pl) : db[q] # None
    /\ OneOwner(PlanDb(db, pl))
    /\ db' = PlanDb(db, pl)
    /\ root' = PlanRoot(root, db, pl)

Next == \E pl \in Requests : Transaction(pl)

Spec == Init /\ [][Next]_vars

=============================================================================
