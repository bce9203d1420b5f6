------------------------------ MODULE NativeTxn -----------------------------
(***************************************************************************)
(* native_transaction (cmd_install.cpp) and the file operations of txn.c   *)
(* it drives, step by step: every file that is saved, written, unlinked or *)
(* restored is a step of its own, any step may fail, and (in CrashSpec)    *)
(* the process may die between any two of them.                            *)
(*                                                                         *)
(* One process works on the root, one transaction after another.  The      *)
(* order of the files within a manifest is arbitrary, so a loop over a     *)
(* manifest takes its paths in any order.  Hooks may fail or succeed; what *)
(* they change on disk outside the manifests is not tracked by the code    *)
(* and not modelled.                                                       *)
(***************************************************************************)
EXTENDS Grains

VARIABLES
    root,       \* the managed root filesystem
    db,         \* committed contents of the package database
    view,       \* the package database inside BEGIN IMMEDIATE ... COMMIT
    backup,     \* state/txn-N/backup: saved content per path
    added,      \* state/txn-N/added.list
    newAdded,   \* salt_install_archive's buffer, not yet in added.list
    plan,       \* the NativePlan being carried out
    ri,         \* index of the loop over plan.remove
    ii,         \* index of the loop over plan.install
    todo,       \* paths the current loop has yet to visit
    pc,         \* where the process is
    status,     \* status of the newest row of transactions
    pre         \* history: root and db when the transaction began

journal == <<backup, added>>
vars == <<root, db, view, backup, added, newAdded, plan, ri, ii, todo, pc,
          status, pre>>

\* The archive install_one is working on, and the package it carries.
cur == plan.install[ii]
pkg == name[cur]

\* backup_file: a missing file needs no backup; an earlier copy of the same
\* path in this transaction is overwritten.
backup_file(p) ==
    backup' = IF root[p] = None THEN backup ELSE [backup EXCEPT ![p] = root[p]]

unlink(p) == root' = [root EXCEPT ![p] = None]

\* The steps at which native_transaction holds the SQL transaction open.
Working == {"next", "remove", "check", "extract", "drop"}

Init ==
    /\ root \in [Paths -> {Local, None}]
    /\ db = [q \in Pkgs |-> None]
    /\ view = db
    /\ backup = NoBackup
    /\ added = {}
    /\ newAdded = {}
    /\ plan = [remove |-> <<>>, install |-> <<>>]
    /\ ri = 1
    /\ ii = 1
    /\ todo = {}
    /\ pc = "idle"
    /\ status = "none"
    /\ pre = [root |-> root, db |-> db]

-----------------------------------------------------------------------------
(* native_transaction: the plan is checked, the row is created (a fresh    *)
(* id, hence a fresh state directory), the snapshot is taken.              *)

TxnNew(pl) ==
    /\ pc = "idle"
    /\ Accepted(db, pl)
    /\ plan' = pl
    /\ ri' = 1
    /\ ii' = 1
    /\ backup' = NoBackup
    /\ added' = {}
    /\ status' = "started"
    /\ pre' = [root |-> root, db |-> db]
    /\ pc' = "snapshot"
    /\ UNCHANGED <<root, db, view, newAdded, todo>>

SnapshotCreate ==
    /\ pc = "snapshot"
    /\ pc' = "begin"
    /\ UNCHANGED <<root, db, view, journal, newAdded, plan, ri, ii, todo,
                   status, pre>>

\* A failed snapshot ends the transaction before any file is touched.
SnapshotFail ==
    /\ pc = "snapshot"
    /\ pc' = "idle"
    /\ status' = "failed"
    /\ UNCHANGED <<root, db, view, journal, newAdded, plan, ri, ii, todo, pre>>

SqlBegin ==
    /\ pc = "begin"
    /\ view' = db
    /\ pc' = "next"
    /\ UNCHANGED <<root, db, journal, newAdded, plan, ri, ii, todo, status, pre>>

-----------------------------------------------------------------------------
(* salt_remove_pkg                                                         *)

RemoveBegin ==
    /\ pc = "next"
    /\ ri <= Len(plan.remove)
    /\ view[plan.remove[ri]] # None
    /\ todo' = FilesOf(view, plan.remove[ri])
    /\ pc' = "remove"
    /\ UNCHANGED <<root, db, view, journal, newAdded, plan, ri, ii, status, pre>>

RemoveFile(p) ==
    /\ pc = "remove"
    /\ p \in todo
    /\ backup_file(p)
    /\ unlink(p)
    /\ todo' = todo \ {p}
    /\ UNCHANGED <<db, view, added, newAdded, plan, ri, ii, pc, status, pre>>

RecordRemove ==
    /\ pc = "remove"
    /\ todo = {}
    /\ view' = [view EXCEPT ![plan.remove[ri]] = None]
    /\ ri' = ri + 1
    /\ pc' = "next"
    /\ UNCHANGED <<root, db, journal, newAdded, plan, ii, todo, status, pre>>

-----------------------------------------------------------------------------
(* install_one and salt_install_archive                                    *)

InstallBegin ==
    /\ pc = "next"
    /\ ri > Len(plan.remove)
    /\ ii <= Len(plan.install)
    /\ todo' = manifest[cur]
    /\ newAdded' = {}
    /\ pc' = "check"
    /\ UNCHANGED <<root, db, view, journal, plan, ri, ii, status, pre>>

\* Mutant: the owner of the file is not looked up.
CheckFile_AnyOwner(p) ==
    /\ pc = "check"
    /\ p \in todo
    /\ backup_file(p)
    /\ newAdded' = IF root[p] = None THEN newAdded \cup {p} ELSE newAdded
    /\ todo' = todo \ {p}
    /\ UNCHANGED <<root, db, view, added, plan, ri, ii, pc, status, pre>>

\* The first loop: refuse another package's file, save what is there, note
\* what is not.
CheckFile(p) ==
    /\ pc = "check"
    /\ p \in todo
    /\ Owners(view, p) = {} \/ pkg \in Owners(view, p)
    /\ backup_file(p)
    /\ newAdded' = IF root[p] = None THEN newAdded \cup {p} ELSE newAdded
    /\ todo' = todo \ {p}
    /\ UNCHANGED <<root, db, view, added, plan, ri, ii, pc, status, pre>>

\* Mutant: added.list is opened for writing instead of appending.
AppendAdded_Truncates ==
    /\ pc = "check"
    /\ todo = {}
    /\ added' = newAdded
    /\ todo' = manifest[cur]
    /\ pc' = "extract"
    /\ UNCHANGED <<root, db, view, backup, newAdded, plan, ri, ii, status, pre>>

AppendAdded ==
    /\ pc = "check"
    /\ todo = {}
    /\ added' = added \cup newAdded
    /\ todo' = manifest[cur]
    /\ pc' = "extract"
    /\ UNCHANGED <<root, db, view, backup, newAdded, plan, ri, ii, status, pre>>

\* salt_archive_extract_payload: each file is renamed into place whole.
ExtractFile(p) ==
    /\ pc = "extract"
    /\ p \in todo
    /\ root' = [root EXCEPT ![p] = cur]
    /\ todo' = todo \ {p}
    /\ UNCHANGED <<db, view, journal, newAdded, plan, ri, ii, pc, status, pre>>

\* Mutant: an upgrade leaves the old version's files behind.
ExtractEnd_KeepsOld ==
    /\ pc = "extract"
    /\ todo = {}
    /\ pc' = "drop"
    /\ UNCHANGED <<root, db, view, journal, newAdded, plan, ri, ii, todo, status,
                   pre>>

\* On an upgrade, the old version's files that the new one lacks are next.
ExtractEnd ==
    /\ pc = "extract"
    /\ todo = {}
    /\ todo' = FilesOf(view, pkg) \ manifest[cur]
    /\ pc' = "drop"
    /\ UNCHANGED <<root, db, view, journal, newAdded, plan, ri, ii, status, pre>>

DropOldFile(p) ==
    /\ pc = "drop"
    /\ p \in todo
    /\ backup_file(p)
    /\ unlink(p)
    /\ todo' = todo \ {p}
    /\ UNCHANGED <<db, view, added, newAdded, plan, ri, ii, pc, status, pre>>

\* The post hook has succeeded; salt_db_record_install and set_pkg_artifact.
RecordInstall ==
    /\ pc = "drop"
    /\ todo = {}
    /\ view' = [view EXCEPT ![pkg] = cur]
    /\ ii' = ii + 1
    /\ pc' = "next"
    /\ UNCHANGED <<root, db, journal, newAdded, plan, ri, todo, status, pre>>

\* txn_finish "ok" inside the SQL transaction, then COMMIT.
Commit ==
    /\ pc = "next"
    /\ ri > Len(plan.remove)
    /\ ii > Len(plan.install)
    /\ db' = view
    /\ status' = "ok"
    /\ pc' = "idle"
    /\ UNCHANGED <<root, view, journal, newAdded, plan, ri, ii, todo, pre>>

-----------------------------------------------------------------------------
(* Failure: a package that is not installed, a file conflict, a failing    *)
(* hook, an I/O or database error at any step.  ROLLBACK, then             *)
(* salt_txn_revert_files, then txn_finish "failed".                        *)

\* Mutant: the revert does not read added.list.
Fail_ForgetsAdded ==
    /\ pc \in Working \cup {"begin"}
    /\ view' = db
    /\ todo' = {}
    /\ pc' = "unlink"
    /\ UNCHANGED <<root, db, journal, newAdded, plan, ri, ii, status, pre>>

Fail ==
    /\ pc \in Working \cup {"begin"}
    /\ view' = db
    /\ todo' = added
    /\ pc' = "unlink"
    /\ UNCHANGED <<root, db, journal, newAdded, plan, ri, ii, status, pre>>

RevertUnlink(p) ==
    /\ pc = "unlink"
    /\ p \in todo
    /\ unlink(p)
    /\ todo' = todo \ {p}
    /\ UNCHANGED <<db, view, journal, newAdded, plan, ri, ii, pc, status, pre>>

RevertUnlinkEnd ==
    /\ pc = "unlink"
    /\ todo = {}
    /\ todo' = {p \in Paths : backup[p] # None}
    /\ pc' = "restore"
    /\ UNCHANGED <<root, db, view, journal, newAdded, plan, ri, ii, status, pre>>

\* Mutant: the walk over the backup tree does not advance.
RevertRestore_Loops(p) ==
    /\ pc = "restore"
    /\ p \in todo
    /\ root' = [root EXCEPT ![p] = backup[p]]
    /\ UNCHANGED <<db, view, journal, newAdded, plan, ri, ii, todo, pc, status, pre>>

\* restore_tree
RevertRestore(p) ==
    /\ pc = "restore"
    /\ p \in todo
    /\ root' = [root EXCEPT ![p] = backup[p]]
    /\ todo' = todo \ {p}
    /\ UNCHANGED <<db, view, journal, newAdded, plan, ri, ii, pc, status, pre>>

Finish ==
    /\ pc = "restore"
    /\ todo = {}
    /\ status' = "failed"
    /\ pc' = "idle"
    /\ UNCHANGED <<root, db, view, journal, newAdded, plan, ri, ii, todo, pre>>

-----------------------------------------------------------------------------
\* The steps of a transaction that has begun.
Step ==
    \/ SnapshotCreate
    \/ SnapshotFail
    \/ SqlBegin
    \/ RemoveBegin
    \/ \E p \in Paths : RemoveFile(p)
    \/ RecordRemove
    \/ InstallBegin
    \/ \E p \in Paths : CheckFile(p)
    \/ AppendAdded
    \/ \E p \in Paths : ExtractFile(p)
    \/ ExtractEnd
    \/ \E p \in Paths : DropOldFile(p)
    \/ RecordInstall
    \/ Commit
    \/ Fail
    \/ \E p \in Paths : RevertUnlink(p)
    \/ RevertUnlinkEnd
    \/ \E p \in Paths : RevertRestore(p)
    \/ Finish

Next == (\E pl \in Requests : TxnNew(pl)) \/ Step

Spec == Init /\ [][Next]_vars

\* A process that is scheduled finishes its transaction.
FairSpec == Spec /\ WF_vars(Step)

\* The process dies: SQLite discards the open SQL transaction, the row keeps
\* the status it had, and no code looks at the state directory again.
Crash ==
    /\ pc # "idle"
    /\ view' = db
    /\ pc' = "idle"
    /\ UNCHANGED <<root, db, journal, newAdded, plan, ri, ii, todo, status, pre>>

CrashSpec == Init /\ [][Next \/ Crash]_vars

-----------------------------------------------------------------------------
TypeOK ==
    /\ root \in Roots
    /\ db \in Dbs
    /\ view \in Dbs
    /\ backup \in Roots
    /\ added \subseteq Paths
    /\ newAdded \subseteq Paths
    /\ plan \in Plans
    /\ ri \in 1..(Len(plan.remove) + 1)
    /\ ii \in 1..(Len(plan.install) + 1)
    /\ todo \subseteq Paths
    /\ pc \in Working \cup {"idle", "snapshot", "begin", "unlink", "restore"}
    /\ status \in {"none", "started", "ok", "failed"}
    /\ pre \in [root : Roots, db : Dbs]

\* The journal of a transaction (backup tree and added.list) is enough to put
\* every file back, at every step, wherever the process stops: what
\* salt_txn_revert_files would restore now is the root the transaction found.
JournalCovers == Reverted(root, backup, added) = pre.root

\* A transaction that fails leaves root and database exactly as they were
\* before it began (the failure branch of native_transaction).
FailureLeavesNoTrace ==
    pc = "idle" /\ status = "failed" => root = pre.root /\ db = pre.db

\* Between transactions, when none has died, the system is never half
\* installed: each recorded file has one owner and its owner's content.
NeverHalfInstalled ==
    pc = "idle" => OneOwner(db) /\ FilesInPlace(root, db)

\* No two packages that conflict are ever installed together, whatever the
\* order of the transactions (check_conflicts sees a plan only once).
NoConflictsInstalled == NoConflicts(db)

\* Every transaction that begins ends: its row does not stay "started".
TransactionEnds == (status = "started") ~> (status \in {"ok", "failed"})

\* The stepwise transaction implements the atomic one: until it commits, its
\* effects do not count.
Settled == IF pc = "idle" THEN root ELSE pre.root

Atomic == INSTANCE AtomicTxn WITH root <- Settled

\* The specification of an indivisible transaction, as a property.
AtomicSpec == Atomic!Spec

=============================================================================
