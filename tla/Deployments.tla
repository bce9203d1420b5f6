---------------------------- MODULE Deployments -----------------------------
(***************************************************************************)
(* The history of deployments of a root without Btrfs: the transactions    *)
(* table with the per-transaction state directories, `salt rollback [N]`   *)
(* (rollback_files), `salt pin`, the pruning that ends every transaction   *)
(* (salt_deploy_prune), `salt gc` and `salt history --register-current`.   *)
(*                                                                         *)
(* A transaction is one step here: NativeTxn shows that its steps amount   *)
(* to one, and that its journal reverts the root to what it found          *)
(* (JournalCovers), which is all this module uses of them.                 *)
(***************************************************************************)
EXTENDS Grains, FiniteSets

CONSTANTS
    Keep,       \* deploy.keep: unpinned snapshots that survive pruning
    Histories   \* kinds of histories: plain or not -> the plans, the values
                \* `salt gc --keep` is called with, the contents of the root
                \* before the first command; bounds: rows of the transactions
                \* table, rows pinned at a time

ASSUME DeploymentsAssumption ==
    /\ Keep \in Nat /\ DOMAIN Histories \subseteq BOOLEAN
    /\ \A plain \in DOMAIN Histories :
          /\ Histories[plain].requests \subseteq Requests
          /\ Histories[plain].keeps \subseteq Nat
          /\ Histories[plain].roots \subseteq [Paths -> {Local, None}]
          /\ Histories[plain].txns \in Nat /\ Histories[plain].pinned \in Nat

VARIABLES
    root,       \* the managed root filesystem
    db,         \* tables packages, files, deps and conflicts
    hooks,      \* table hooks: the grain each package's hook bodies are from
    txns,       \* table transactions joined with txn_meta, in id order, and
                \* what state/txn-N holds
    plain,      \* the history has no pins, no explicit rollback targets, no
                \* dead processes and no rollbacks that fail midway
    broken      \* history: target of a rollback that failed midway and is
                \* outstanding, or 0

vars == <<root, db, hooks, txns, plain, broken>>

Atomic == INSTANCE AtomicTxn

Ids == 1..Len(txns)
History == Histories[plain]

\* A row and its state directory.  snapshot: the column is not empty;
\* before: db.before, or None once it is removed; backup, added: the journal.
\* History: pre, the root and the tables when the row was created; lost, the
\* transaction cannot be reverted any more, its journal having been discarded
\* while it was in effect or its process having died.
NewRow(op, status, snapshot, backup, added) ==
    [op |-> op, status |-> status, snapshot |-> snapshot, pinned |-> FALSE,
     before |-> db, backup |-> backup, added |-> added,
     pre |-> [root |-> root, db |-> db], lost |-> status = "started"]

\* The row once its state directory is emptied.
NoJournal(row) ==
    [row EXCEPT !.snapshot = FALSE, !.backup = NoBackup, !.added = {},
                !.lost = row.lost \/ (row.op = "native" /\ row.status = "ok")]

Init ==
    /\ plain \in DOMAIN Histories
    /\ root \in History.roots
    /\ db = [q \in Pkgs |-> None]
    /\ hooks = db
    /\ txns = <<>>
    /\ broken = 0

-----------------------------------------------------------------------------
(* native_transaction                                                      *)

\* The journal a transaction leaves.  added.list also names a path that the
\* same transaction removed and installed again; its backup takes precedence.
Shipped(pl) == UNION {manifest[g] : g \in Items(pl)}
Touched(pl) ==
    Shipped(pl) \cup UNION {FilesOf(db, q) : q \in Gone(pl) \cup Arriving(pl)}
JournalBackup(pl) ==
    [p \in Paths |-> IF p \in Touched(pl) THEN root[p] ELSE None]
JournalAdded(pl) == {p \in Shipped(pl) : root[p] = None}

\* salt_deploy_prune: of the unpinned rows with a snapshot, all but the
\* newest keep lose it, and their journal; db.before and status stay.
Holders(ts) == {i \in DOMAIN ts : ts[i].snapshot /\ ~ts[i].pinned}
NewerThan(ids, i) == {j \in ids : j > i}
AtLeastOne(n) == IF n < 1 THEN 1 ELSE n
\* Mutant: the rows are listed oldest first.
salt_deploy_prune_Ascending(ts) ==
    [i \in DOMAIN ts |->
        IF i \in Holders(ts)
           /\ Cardinality({j \in Holders(ts) : j < i}) >= AtLeastOne(Keep)
        THEN NoJournal(ts[i])
        ELSE ts[i]]

salt_deploy_prune(ts) ==
    [i \in DOMAIN ts |->
        IF i \in Holders(ts)
           /\ Cardinality(NewerThan(Holders(ts), i)) >= AtLeastOne(Keep)
        THEN NoJournal(ts[i])
        ELSE ts[i]]

\* A transaction that commits; deploy_post_txn prunes.
Transaction(pl) ==
    /\ Len(txns) < History.txns
    /\ Atomic!Transaction(pl)
    /\ hooks' = PlanDb(hooks, pl)
    /\ txns' = salt_deploy_prune(Append(txns,
                  NewRow("native", "ok", TRUE, JournalBackup(pl), JournalAdded(pl))))
    /\ UNCHANGED <<plain, broken>>

\* A transaction that fails and reverts itself.  Its journal is never read
\* again; pruning does not run.
TransactionFails ==
    /\ Len(txns) < History.txns
    /\ txns' = Append(txns, NewRow("native", "failed", TRUE, NoBackup, {}))
    /\ UNCHANGED <<root, db, hooks, plain, broken>>

\* A transaction whose process dies with some of its files in place.  Its
\* journal may already list files it has not touched yet: reverting those
\* changes nothing.
TransactionDies(pl) ==
    /\ Len(txns) < History.txns
    /\ Accepted(db, pl)
    /\ OneOwner(PlanDb(db, pl))
    /\ \E S \in SUBSET Touched(pl) :
          root' = [p \in Paths |-> IF p \in S THEN PlanRoot(root, db, pl)[p]
                                              ELSE root[p]]
    /\ txns' = Append(txns, NewRow("native", "started", TRUE,
                                   JournalBackup(pl), JournalAdded(pl)))
    /\ UNCHANGED <<db, hooks, plain, broken>>

\* `salt history --register-current`
RegisterCurrent ==
    /\ Len(txns) < History.txns
    /\ txns' = Append(txns, NewRow("deploy", "ok", TRUE, NoBackup, {}))
    /\ UNCHANGED <<root, db, hooks, plain, broken>>

-----------------------------------------------------------------------------
(* salt_rollback_to and rollback_files                                     *)

\* Mutant: the oldest transaction is reverted first.
RevertedDownTo_Ascending(n) ==
    LET r[i \in (n - 1)..Len(txns)] ==
            IF i < n THEN root
            ELSE IF txns[i].status = "ok"
            THEN Reverted(r[i - 1], txns[i].backup, txns[i].added)
            ELSE r[i - 1]
    IN  r[Len(txns)]

\* Mutant: the loop stops above the target.
RevertedDownTo_Short(n) ==
    LET r[i \in n..(Len(txns) + 1)] ==
            IF i > Len(txns) THEN root
            ELSE IF txns[i].status = "ok"
            THEN Reverted(r[i + 1], txns[i].backup, txns[i].added)
            ELSE r[i + 1]
    IN  r[n + 1]

\* The loop over ids from the newest down to n: rows still "ok" are reverted.
RevertedDownTo(n) ==
    LET r[i \in n..(Len(txns) + 1)] ==
            IF i > Len(txns) THEN root
            ELSE IF txns[i].status = "ok"
            THEN Reverted(r[i + 1], txns[i].backup, txns[i].added)
            ELSE r[i + 1]
    IN  r[n]

\* The rows an explicit `salt rollback N` accepts.
Restorable(n) == txns[n].snapshot /\ txns[n].before # None

\* salt_deploy_pick_rollback: the newest row that is ok and has a snapshot.
IsPick(n) ==
    LET candidates == {i \in Ids : txns[i].status = "ok" /\ txns[i].snapshot}
    IN  n \in candidates /\ NewerThan(candidates, n) = {}

\* mark_undone, then txn_finish of the rollback's own row, which has no
\* snapshot and no journal.
mark_undone(ts, n) ==
    [i \in DOMAIN ts |-> IF i >= n /\ ts[i].status = "ok"
                         THEN [ts[i] EXCEPT !.status = "undone"]
                         ELSE ts[i]]
RollbackRow(status) == NewRow("rollback", status, FALSE, NoBackup, {})

\* salt_db_restore_state_from replaces packages, files, deps and conflicts;
\* the table hooks is left as it is.
RollbackTo(n) ==
    /\ Len(txns) < History.txns
    /\ Restorable(n)
    /\ root' = RevertedDownTo(n)
    /\ db' = txns[n].before
    /\ txns' = Append(mark_undone(txns, n), RollbackRow("ok"))
    /\ broken' = IF n <= broken THEN 0 ELSE broken
    /\ UNCHANGED <<hooks, plain>>

\* `salt rollback` without a number.
Rollback == \E n \in Ids : IsPick(n) /\ RollbackTo(n)

\* The files are reverted but salt_db_txn_new fails (the database is busy).
\* Bound: one rollback that failed midway is outstanding at a time.
RollbackStops(n) ==
    /\ broken = 0
    /\ Restorable(n)
    /\ root' = RevertedDownTo(n)
    /\ broken' = n
    /\ UNCHANGED <<db, hooks, txns, plain>>

\* salt_db_restore_state_from fails; the row is finished "ok" all the same.
RollbackKeepsDb(n) ==
    /\ broken = 0
    /\ Len(txns) < History.txns
    /\ Restorable(n)
    /\ root' = RevertedDownTo(n)
    /\ txns' = Append(mark_undone(txns, n), RollbackRow("ok"))
    /\ broken' = n
    /\ UNCHANGED <<db, hooks, plain>>

-----------------------------------------------------------------------------
(* salt_deploy_pin and salt_gc_run                                         *)

Pin(n, pinned) ==
    /\ txns[n].pinned # pinned
    /\ pinned => Cardinality({i \in Ids : txns[i].pinned}) < History.pinned
    /\ txns' = [txns EXCEPT ![n].pinned = pinned]
    /\ UNCHANGED <<root, db, hooks, plain, broken>>

\* Mutant: the rows are listed oldest first.
Kept_Ascending(keep, i) ==
    LET oks == {j \in Ids : txns[j].status = "ok"} IN
    \/ i \in oks /\ Cardinality({j \in oks : j < i}) < AtLeastOne(keep)
    \/ txns[i].pinned
    \/ txns[i].status = "started" /\ i = Len(txns)

\* Mutant: a transaction that has not ended is collected.
Kept_NotStarted(keep, i) ==
    LET oks == {j \in Ids : txns[j].status = "ok"} IN
    \/ i \in oks /\ Cardinality(NewerThan(oks, i)) < AtLeastOne(keep)
    \/ txns[i].pinned

\* What gc keeps: the newest keep rows that are ok, the pinned ones, and a
\* "started" row that is the newest.  (Without Btrfs no generation is booted;
\* --pin and gc.pinned act like salt pin.)
Kept(keep, i) ==
    LET oks == {j \in Ids : txns[j].status = "ok"} IN
    \/ i \in oks /\ Cardinality(NewerThan(oks, i)) < AtLeastOne(keep)
    \/ txns[i].pinned
    \/ txns[i].status = "started" /\ i = Len(txns)

\* prune_generation
Pruned(row) == [NoJournal(row) EXCEPT !.status = "pruned", !.before = None]

Gc(keep) ==
    /\ txns' = [i \in Ids |-> IF Kept(keep, i) THEN txns[i]
                              ELSE Pruned(txns[i])]
    /\ UNCHANGED <<root, db, hooks, plain, broken>>

-----------------------------------------------------------------------------
Routine ==
    \/ \E pl \in History.requests : Transaction(pl)
    \/ TransactionFails
    \/ RegisterCurrent
    \/ \E keep \in History.keeps : Gc(keep)

\* Every command, run to completion.
Completed ==
    \/ Routine
    \/ \E n \in Ids : RollbackTo(n)
    \/ \E n \in Ids, pinned \in BOOLEAN : Pin(n, pinned)

CompletedSpec == Init /\ [][Completed]_vars

\* Every later transaction can be, or was, reverted.
NoneLost(n) == \A i \in NewerThan(Ids, n) : ~txns[i].lost

\* Deployment n is in effect, and so are the journals above it.
Revertible(n) == txns[n].status = "ok" /\ NoneLost(n)

\* Also processes that die in a transaction, and rollbacks of a revertible
\* deployment that fail midway.
Disturbed ==
    \/ Completed
    \/ \E pl \in History.requests : TransactionDies(pl)
    \/ \E n \in Ids : Revertible(n) /\ RollbackStops(n)
    \/ \E n \in Ids : Revertible(n) /\ RollbackKeepsDb(n)

Next ==
    \/ plain /\ (Routine \/ Rollback)
    \/ ~plain /\ Disturbed

Spec == Init /\ [][Next]_vars

-----------------------------------------------------------------------------
\* The root and the tables are again what they were before deployment n.
Exact(n) == root' = txns[n].pre.root /\ db' = txns[n].pre.db

\* `salt rollback N` of a deployment that is still in effect goes back to the
\* state before it, over any history of transactions, failures, dead
\* processes, rollbacks, pins, pruning and gc, as long as no later journal is
\* lost and no rollback that failed midway is outstanding.
RollbackRestores ==
    [][\A n \in Ids : RollbackTo(n) /\ Revertible(n) /\ broken = 0
            => Exact(n)]_vars

\* Without pins, `salt rollback` always goes back to the state before the
\* deployment it picks: pruning and gc never leave it a gap to step over.
PlainRollbackExact ==
    [][\A n \in Ids : plain /\ IsPick(n) /\ RollbackTo(n) => Exact(n)]_vars

\* Without pins and explicit targets, files and database agree after every
\* sequence of commands.
Consistent == plain => OneOwner(db) /\ FilesInPlace(root, db)

\* A rollback that failed midway, leaving files and database apart, can be
\* repeated, also after further transactions, and then takes full effect.
RollbackRetries ==
    [][\A n \in Ids : n = broken /\ RollbackTo(n) /\ NoneLost(n)
            => Exact(n)]_vars

\* Unless the newest transaction committed, its journal still restores the
\* root it found, whether it failed or its process died, whatever gc collects
\* and as long as no rollback that failed midway is outstanding.
DeadJournalComplete ==
    txns # <<>> /\ broken = 0 =>
        LET t == txns[Len(txns)]
        IN  t.op = "native" /\ t.status # "ok" =>
                Reverted(root, t.backup, t.added) = t.pre.root

-----------------------------------------------------------------------------
(* Statements of the documentation that the code does not meet.            *)

\* docs/rollback.md: a pinned deployment is a known-good generation "kept
\* around indefinitely".
PinnedRestorable ==
    [][\A n \in Ids : txns[n].pinned /\ txns[n].status = "ok" /\ RollbackTo(n)
            => Exact(n)]_vars

\* docs/recipes.md: the hooks recorded in the database "belong to the installed
\* version", also after a rollback.
HooksOfInstalled == \A q \in Pkgs : db[q] # None => hooks[q] = db[q]

=============================================================================
