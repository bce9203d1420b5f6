-------------------------- MODULE NativeTxnProofs ---------------------------
(***************************************************************************)
(* Proofs about NativeTxn, for every repository and every set of plans.    *)
(***************************************************************************)
EXTENDS NativeTxn, GrainsProofs

\* The provers of a step that names none, in this order; 30 is in seconds.
USE SMTT(30), Zenon

USE DEF journal

-----------------------------------------------------------------------------
(* The inductive invariant.                                                *)

\* The packages the transaction has yet to deal with.
Pending ==
    {plan.remove[k] : k \in ri..Len(plan.remove)}
        \cup {name[plan.install[k]] : k \in ii..Len(plan.install)}

\* Where the loops are, and what they have yet to visit, at each step.
PhaseInv ==
    /\ pc = "remove" =>
          /\ ri <= Len(plan.remove)
          /\ todo \subseteq FilesOf(view, plan.remove[ri])
    /\ pc \in {"check", "extract", "drop"} =>
          ri > Len(plan.remove) /\ ii <= Len(plan.install)
    /\ pc \in {"check", "extract"} => todo \subseteq manifest[cur]
    /\ pc = "drop" => todo \subseteq FilesOf(view, pkg) \ manifest[cur]
    /\ pc = "unlink" => todo \subseteq added
    /\ pc = "restore" => todo \subseteq {p \in Paths : backup[p] # None}
    /\ pc \notin Working => view = db
    /\ pc # "idle" => status = "started" /\ db = pre.db
    /\ pc \in {"snapshot", "begin"} => root = pre.root

\* A path has one owner, also in the uncommitted tables; the grain being
\* installed ships no path of another package once its manifest is checked.
OwnerInv ==
    /\ OneOwner(db)
    /\ OneOwner(view)
    /\ pc = "check" =>
          \A p \in manifest[cur] \ todo : Owners(view, p) \subseteq {pkg}
    /\ pc \in {"extract", "drop"} =>
          \A p \in manifest[cur] : Owners(view, p) \subseteq {pkg}

\* What reverting path p now would give is what the transaction found there.
Covered(p) ==
    /\ backup[p] # None => backup[p] = pre.root[p]
    /\ backup[p] = None /\ p \in added => pre.root[p] = None
    /\ backup[p] = None /\ p \notin added => root[p] = pre.root[p]

\* The journal covers every path, and before a grain's files are written
\* every one of them is in the journal.
JournalInv ==
    /\ \A p \in Paths : Covered(p)
    /\ pc = "check" =>
          /\ \A p \in manifest[cur] \ todo : backup[p] # None \/ p \in newAdded
          /\ \A p \in newAdded : root[p] = None
    /\ pc = "extract" => \A p \in manifest[cur] : backup[p] # None \/ p \in added

\* A path whose content is the transaction's own belongs to a package it is
\* done with or to the grain it is installing.  Hence no path is saved a
\* second time once it holds new content, which would spoil its backup.
FreshInv ==
    pc \in Working =>
        \A p \in Paths :
            root[p] = None \/ root[p] = pre.root[p]
            \/ (\E q \in Pkgs : p \in FilesOf(view, q) /\ q \notin Pending)
            \/ (pc \in {"extract", "drop"} /\ p \in manifest[cur])

\* How far the revert has come.
RevertInv ==
    /\ pc = "unlink" => \A p \in added \ todo : root[p] = None
    /\ pc = "restore" =>
          /\ \A p \in added : backup[p] = None => root[p] = None
          /\ \A p \in Paths \ todo : backup[p] # None => root[p] = backup[p]
    /\ FailureLeavesNoTrace

IInv == TypeOK /\ PhaseInv /\ OwnerInv /\ JournalInv /\ FreshInv /\ RevertInv

-----------------------------------------------------------------------------
\* The invariant holds initially.
LEMMA InvInit == Init => IInv
<1> SUFFICES ASSUME Init PROVE IInv
    OBVIOUS
<1>1. plan \in Plans /\ Len(plan.remove) = 0 /\ Len(plan.install) = 0
    BY EmptyPlan DEF Init
<1>2. root \in Roots /\ db \in Dbs /\ backup \in Roots
    BY DEF Init, Roots, Dbs, NoBackup
<1>3. TypeOK
    BY <1>1, <1>2 DEF Init, TypeOK, Working
<1>4. OneOwner(db)
    BY DEF Init, OneOwner, Owners, FilesOf
<1>5. \A p \in Paths : Covered(p)
    BY DEF Init, Covered, NoBackup
<1> QED
    BY <1>3, <1>4, <1>5
       DEF Init, IInv, PhaseInv, OwnerInv, JournalInv, FreshInv, RevertInv,
           FailureLeavesNoTrace, Working

\* backup_file and unlink keep the journal and the root well typed.
LEMMA FileOpTypes ==
    ASSUME NEW p \in Paths, root \in Roots, backup \in Roots
    PROVE  /\ backup_file(p) => backup' \in Roots
           /\ unlink(p) => root' \in Roots
    BY DEF backup_file, unlink, Roots

\* What type correctness says of the plan and of the archive in hand.
LEMMA WorkTypes ==
    ASSUME TypeOK
    PROVE  /\ Len(plan.remove) \in Nat /\ Len(plan.install) \in Nat
           /\ ri <= Len(plan.remove) => plan.remove[ri] \in Pkgs
           /\ ii <= Len(plan.install) =>
                 cur \in Grains /\ pkg \in Pkgs /\ manifest[cur] \subseteq Paths
    BY PlanTypes DEF TypeOK, cur, pkg

\* Every step, and a crash, preserves the types and the loop positions.
LEMMA PhaseStep ==
    TypeOK /\ PhaseInv /\ [Next \/ Crash]_vars => TypeOK' /\ PhaseInv'
<1> SUFFICES ASSUME TypeOK, PhaseInv, [Next \/ Crash]_vars
             PROVE  TypeOK' /\ PhaseInv'
    OBVIOUS
<1> USE WorkTypes DEF TypeOK, PhaseInv, Working
<1>1. CASE UNCHANGED vars
    BY <1>1 DEF vars, cur, pkg
<1>2. CASE \E pl \in Requests : TxnNew(pl)
  <2>1. PICK pl \in Requests : TxnNew(pl)
      BY <1>2
  <2>2. pl \in Plans /\ Len(pl.remove) \in Nat /\ Len(pl.install) \in Nat
      BY RequestsAssumption, PlanTypes
  <2>3. NoBackup \in Roots
      BY DEF NoBackup, Roots
  <2> QED
      BY <2>1, <2>2, <2>3 DEF TxnNew
<1>3. CASE SnapshotCreate \/ SnapshotFail \/ SqlBegin
    BY <1>3 DEF SnapshotCreate, SnapshotFail, SqlBegin
<1>4. CASE RemoveBegin
    BY <1>4, FilesOfType DEF RemoveBegin
<1>5. CASE \E p \in Paths : RemoveFile(p)
    BY <1>5, FileOpTypes DEF RemoveFile
<1>6. CASE RecordRemove
    BY <1>6 DEF RecordRemove, Dbs
<1>7. CASE InstallBegin
    BY <1>7 DEF InstallBegin, cur
<1>8. CASE \E p \in Paths : CheckFile(p)
    BY <1>8, FileOpTypes DEF CheckFile, cur
<1>9. CASE AppendAdded
    BY <1>9 DEF AppendAdded, cur
<1>10. CASE \E p \in Paths : ExtractFile(p)
  <2>1. PICK p \in Paths : ExtractFile(p)
      BY <1>10
  <2>2. root' \in Roots
      BY <2>1 DEF ExtractFile, Roots
  <2> QED
      BY <2>1, <2>2 DEF ExtractFile, cur
<1>11. CASE ExtractEnd
    BY <1>11, FilesOfType DEF ExtractEnd, cur, pkg
<1>12. CASE \E p \in Paths : DropOldFile(p)
    BY <1>12, FileOpTypes DEF DropOldFile, cur, pkg
<1>13. CASE RecordInstall
  <2>1. view' \in Dbs
      BY <1>13 DEF RecordInstall, Dbs
  <2> QED
      BY <1>13, <2>1 DEF RecordInstall
<1>14. CASE Commit \/ Fail \/ Crash
    BY <1>14 DEF Commit, Fail, Crash
<1>15. CASE \E p \in Paths : RevertUnlink(p)
    BY <1>15, FileOpTypes DEF RevertUnlink
<1>16. CASE RevertUnlinkEnd \/ Finish
    BY <1>16 DEF RevertUnlinkEnd, Finish
<1>17. CASE \E p \in Paths : RevertRestore(p)
    BY <1>17 DEF RevertRestore, Roots
<1> QED
    BY <1>1, <1>2, <1>3, <1>4, <1>5, <1>6, <1>7, <1>8, <1>9, <1>10, <1>11,
       <1>12, <1>13, <1>14, <1>15, <1>16, <1>17, Zenon DEF Next, Step

\* Every step, and a crash, preserves the ownership of paths.
LEMMA OwnerStep ==
    TypeOK /\ PhaseInv /\ OwnerInv /\ [Next \/ Crash]_vars => OwnerInv'
<1> SUFFICES ASSUME TypeOK, PhaseInv, OwnerInv, [Next \/ Crash]_vars
             PROVE  OwnerInv'
    OBVIOUS
<1> USE WorkTypes DEF OwnerInv, PhaseInv, Working
<1>1. CASE UNCHANGED vars
    BY <1>1 DEF vars, cur, pkg, OneOwner, Owners, FilesOf
<1>2. CASE \E pl \in Requests : TxnNew(pl)
    BY <1>2 DEF TxnNew, OneOwner, Owners, FilesOf
<1>3. CASE SnapshotCreate \/ SnapshotFail \/ SqlBegin \/ RemoveBegin
    BY <1>3 DEF SnapshotCreate, SnapshotFail, SqlBegin, RemoveBegin,
                OneOwner, Owners, FilesOf
<1>4. CASE \E p \in Paths : RemoveFile(p)
    BY <1>4 DEF RemoveFile, OneOwner, Owners, FilesOf
<1>5. CASE RecordRemove
  <2>1. \A q \in Pkgs : FilesOf(view', q) \subseteq FilesOf(view, q)
      BY <1>5 DEF RecordRemove, TypeOK, Dbs, FilesOf
  <2>2. OneOwner(view')
      BY <2>1 DEF OneOwner, Owners
  <2> QED
      BY <1>5, <2>2 DEF RecordRemove
<1>6. CASE InstallBegin
    BY <1>6 DEF InstallBegin, cur, OneOwner, Owners, FilesOf
<1>7. CASE \E p \in Paths : CheckFile(p)
  <2>1. PICK p \in Paths : CheckFile(p)
      BY <1>7
  <2>2. Owners(view, p) \subseteq {pkg}
      BY <2>1 DEF CheckFile, OneOwner, Owners
  <2>3. UNCHANGED <<db, view, cur, pkg, pc>> /\ pc = "check" /\ todo' = todo \ {p}
      BY <2>1 DEF CheckFile, cur, pkg
  <2>4. \A r \in manifest[cur] \ todo' : Owners(view, r) \subseteq {pkg}
      BY <2>2, <2>3
  <2> QED
      BY <2>3, <2>4
<1>8. CASE AppendAdded \/ ExtractEnd
  <2>1. /\ UNCHANGED <<db, view, cur, pkg>> /\ pc' \in {"extract", "drop"}
        /\ pc = "check" => todo = {}
        /\ pc \in {"check", "extract"}
      BY Zenon, <1>8 DEF AppendAdded, ExtractEnd, cur, pkg
  <2>2. \A p \in manifest[cur] : Owners(view, p) \subseteq {pkg}
      BY <2>1
  <2> QED
      BY <2>1, <2>2
<1>9. CASE \E p \in Paths : ExtractFile(p) \/ DropOldFile(p)
  <2>1. UNCHANGED <<db, view, cur, pkg, pc>> /\ pc \in {"extract", "drop"}
      BY Zenon, <1>9 DEF ExtractFile, DropOldFile, cur, pkg
  <2> QED
      BY <2>1
<1>10. CASE RecordInstall
  <2>1. view' = [view EXCEPT ![pkg] = cur] /\ UNCHANGED db /\ pc' = "next"
      BY <1>10 DEF RecordInstall
  <2>2. pkg \in Pkgs /\ cur \in Grains
      BY <1>10 DEF RecordInstall
  <2>3. \A q \in Pkgs \ {pkg} : FilesOf(view', q) = FilesOf(view, q)
      BY <2>1 DEF FilesOf, TypeOK, Dbs
  <2>4. FilesOf(view', pkg) = manifest[cur]
      BY Zenon, <2>1, <2>2, GrainsAssumption DEF FilesOf, TypeOK, Dbs
  <2>5. \A p \in manifest[cur] : Owners(view, p) \subseteq {pkg}
      BY <1>10 DEF RecordInstall
  <2>6. OneOwner(view')
      BY <2>2, <2>3, <2>4, <2>5 DEF OneOwner, Owners
  <2> QED
      BY Zenon, <2>1, <2>6
<1>11. CASE Commit \/ Fail \/ Crash
    BY <1>11 DEF Commit, Fail, Crash, OneOwner, Owners, FilesOf
<1>12. CASE \E p \in Paths : RevertUnlink(p) \/ RevertRestore(p)
  <2>1. UNCHANGED <<db, view>> /\ pc' \in {"unlink", "restore"}
      BY <1>12 DEF RevertUnlink, RevertRestore
  <2> QED
      BY Zenon, <2>1
<1>13. CASE RevertUnlinkEnd \/ Finish
    BY Zenon, <1>13 DEF RevertUnlinkEnd, Finish, OneOwner, Owners, FilesOf
<1> QED
    BY Zenon, <1>1, <1>2, <1>3, <1>4, <1>5, <1>6, <1>7, <1>8, <1>9, <1>10, <1>11,
       <1>12, <1>13 DEF Next, Step

\* A path that only a package still to be dealt with may own holds what the
\* transaction found there, or nothing.
LEMMA StillOriginal ==
    ASSUME FreshInv, pc \in Working, NEW p \in Paths, NEW q \in Pending,
           Owners(view, p) \subseteq {q},
           ~(pc \in {"extract", "drop"} /\ p \in manifest[cur])
    PROVE  root[p] = None \/ root[p] = pre.root[p]
    BY DEF FreshInv, Owners

\* Saving such a path keeps the journal right.
LEMMA BackupCovers ==
    ASSUME TypeOK, NEW p \in Paths, \A r \in Paths : Covered(r),
           root[p] = None \/ root[p] = pre.root[p],
           backup_file(p), root' = root \/ unlink(p), UNCHANGED <<added, pre>>
    PROVE  /\ \A r \in Paths : Covered(r)'
           /\ \A r \in Paths : backup[r] # None => backup'[r] # None
           /\ root[p] # None => backup'[p] # None
<1>1. \A r \in Paths \ {p} : backup'[r] = backup[r] /\ root'[r] = root[r]
    BY DEF TypeOK, Roots, backup_file, unlink
<1>2. backup'[p] = IF root[p] = None THEN backup[p] ELSE root[p]
    BY DEF TypeOK, Roots, backup_file
<1>3. root'[p] = root[p] \/ root'[p] = None
    BY DEF TypeOK, Roots, unlink
<1>4. Covered(p)'
    BY <1>2, <1>3 DEF Covered
<1>5. \A r \in Paths \ {p} : Covered(r)'
    BY <1>1 DEF Covered
<1> QED
    BY Zenon, <1>1, <1>2, <1>4, <1>5

\* The package the current loop is about has yet to be dealt with, and no
\* other package owns the paths the loop saves.
LEMMA LoopPaths ==
    ASSUME TypeOK, PhaseInv, OwnerInv
    PROVE  /\ pc = "remove" =>
                 /\ plan.remove[ri] \in Pending
                 /\ \A p \in todo : Owners(view, p) \subseteq {plan.remove[ri]}
           /\ pc \in {"check", "extract", "drop"} => pkg \in Pending
           /\ pc = "drop" => \A p \in todo : Owners(view, p) \subseteq {pkg}
<1> USE WorkTypes DEF PhaseInv, OwnerInv
<1>1. ASSUME pc = "remove"
      PROVE  /\ plan.remove[ri] \in Pending
             /\ \A p \in todo : Owners(view, p) \subseteq {plan.remove[ri]}
  <2>1. ri \in ri..Len(plan.remove) /\ plan.remove[ri] \in Pkgs
      BY <1>1 DEF TypeOK
  <2>2. \A p \in todo : p \in Paths /\ plan.remove[ri] \in Owners(view, p)
      BY Zenon, <1>1, <2>1 DEF TypeOK, Owners
  <2> QED
      BY <2>1, <2>2 DEF Pending, OneOwner
<1>2. ASSUME pc \in {"check", "extract", "drop"}
      PROVE  pkg \in Pending
  <2>1. ii \in ii..Len(plan.install)
      BY <1>2 DEF TypeOK
  <2> QED
      BY <2>1 DEF Pending, pkg, cur
<1>3. ASSUME pc = "drop"
      PROVE  \A p \in todo : Owners(view, p) \subseteq {pkg}
  <2>1. \A p \in todo : p \in Paths /\ pkg \in Owners(view, p)
      BY <1>3 DEF TypeOK, Owners
  <2> QED
      BY <2>1 DEF OneOwner
<1> QED
    BY <1>1, <1>2, <1>3

\* Every step, and a crash, keeps the journal complete.
LEMMA JournalStep ==
    /\ TypeOK /\ PhaseInv /\ OwnerInv /\ JournalInv /\ FreshInv
    /\ [Next \/ Crash]_vars
    => JournalInv'
<1> SUFFICES ASSUME TypeOK, PhaseInv, OwnerInv, JournalInv, FreshInv,
                    [Next \/ Crash]_vars
             PROVE  JournalInv'
    OBVIOUS
<1> USE WorkTypes DEF JournalInv
<1>1. CASE UNCHANGED vars
    BY <1>1 DEF vars, cur, Covered
<1>2. CASE \E pl \in Requests : TxnNew(pl)
    BY <1>2 DEF TxnNew, Covered, NoBackup
<1>3. CASE SnapshotCreate \/ SnapshotFail \/ SqlBegin \/ RemoveBegin \/ RecordRemove
    BY Zenon, <1>3 DEF SnapshotCreate, SnapshotFail, SqlBegin, RemoveBegin,
                RecordRemove, Covered
<1>4. CASE \E p \in Paths : RemoveFile(p)
  <2>1. PICK p \in Paths : RemoveFile(p)
      BY Zenon, <1>4
  <2>2. root[p] = None \/ root[p] = pre.root[p]
      BY Zenon, <2>1, LoopPaths, StillOriginal DEF RemoveFile, Working
  <2>3. \A r \in Paths : Covered(r)'
      BY Zenon, <2>1, <2>2, BackupCovers DEF RemoveFile
  <2> QED
      BY Zenon, <2>1, <2>3 DEF RemoveFile
<1>5. CASE InstallBegin
    BY <1>5 DEF InstallBegin, Covered, cur
<1>6. CASE \E p \in Paths : CheckFile(p)
  <2>1. PICK p \in Paths : CheckFile(p)
      BY <1>6
  <2>2. Owners(view, p) \subseteq {pkg}
      BY Zenon, <2>1 DEF CheckFile, OwnerInv, OneOwner, Owners
  <2>3. root[p] = None \/ root[p] = pre.root[p]
      BY Zenon, <2>1, <2>2, LoopPaths, StillOriginal DEF CheckFile, Working
  <2>4. /\ \A r \in Paths : Covered(r)'
        /\ \A r \in Paths : backup[r] # None => backup'[r] # None
        /\ root[p] # None => backup'[p] # None
      BY Zenon, <2>1, <2>3, BackupCovers DEF CheckFile
  <2>5. pc = "check" /\ ii <= Len(plan.install) /\ UNCHANGED <<cur, root, pc>>
      BY Zenon, <2>1 DEF CheckFile, cur, PhaseInv
  <2>6. \A r \in manifest[cur] \ todo' : backup'[r] # None \/ r \in newAdded'
      BY Zenon, <2>1, <2>4, <2>5 DEF CheckFile
  <2>7. \A r \in newAdded' : root[r] = None
      BY <2>1, <2>5 DEF CheckFile
  <2> QED
      BY Zenon, <2>4, <2>5, <2>6, <2>7
<1>7. CASE AppendAdded
  <2>1. pc = "check" /\ todo = {} /\ added' = added \cup newAdded /\ pc' = "extract"
        /\ UNCHANGED <<root, backup, pre, cur>>
      BY <1>7 DEF AppendAdded, cur
  <2>2. \A p \in Paths : Covered(p)'
      BY <2>1 DEF Covered
  <2> QED
      BY <2>1, <2>2
<1>8. CASE \E p \in Paths : ExtractFile(p)
  <2>1. PICK p \in Paths : ExtractFile(p)
      BY Zenon, <1>8
  <2>2. backup[p] # None \/ p \in added
      BY Zenon, <2>1 DEF ExtractFile, PhaseInv
  <2>3. \A r \in Paths \ {p} : root'[r] = root[r]
      BY Zenon, <2>1 DEF ExtractFile, TypeOK, Roots
  <2>4. \A r \in Paths : Covered(r)'
      BY <2>1, <2>2, <2>3 DEF ExtractFile, Covered
  <2> QED
      BY Zenon, <2>1, <2>4 DEF ExtractFile, cur
<1>9. CASE ExtractEnd \/ RecordInstall \/ Commit \/ Fail \/ Crash
    BY Zenon, <1>9 DEF ExtractEnd, RecordInstall, Commit, Fail, Crash, Covered
<1>10. CASE \E p \in Paths : DropOldFile(p)
  <2>1. PICK p \in Paths : DropOldFile(p)
      BY Zenon, <1>10
  <2>2. root[p] = None \/ root[p] = pre.root[p]
      BY <2>1, LoopPaths, StillOriginal, Zenon DEF DropOldFile, Working, PhaseInv
  <2>3. \A r \in Paths : Covered(r)'
      BY <2>1, <2>2, BackupCovers, Zenon DEF DropOldFile
  <2> QED
      BY <2>1, <2>3, Zenon DEF DropOldFile
<1>11. CASE \E p \in Paths : RevertUnlink(p) \/ RevertRestore(p)
  <2>1. PICK p \in Paths : RevertUnlink(p) \/ RevertRestore(p)
      BY Zenon, <1>11
  <2>2. backup[p] # None \/ p \in added
      BY Zenon, <2>1 DEF RevertUnlink, RevertRestore, PhaseInv
  <2>3. \A r \in Paths \ {p} : root'[r] = root[r]
      BY Zenon, <2>1 DEF RevertUnlink, RevertRestore, unlink, TypeOK, Roots
  <2>4. \A r \in Paths : Covered(r)'
      BY Zenon, <2>1, <2>2, <2>3 DEF RevertUnlink, RevertRestore, Covered
  <2> QED
      BY Zenon, <2>1, <2>4 DEF RevertUnlink, RevertRestore
<1>12. CASE RevertUnlinkEnd \/ Finish
    BY Zenon, <1>12 DEF RevertUnlinkEnd, Finish, Covered
<1> QED
    BY <1>1, <1>2, <1>3, <1>4, <1>5, <1>6, <1>7, <1>8, <1>9, <1>10, <1>11,
       <1>12, Zenon DEF Next, Step

\* What is pending only shrinks as the loops advance.
LEMMA PendingShrinks ==
    ASSUME TypeOK, UNCHANGED plan
    PROVE  /\ ri' = ri + 1 /\ ii' = ii => Pending' \subseteq Pending
           /\ ri' = ri /\ ii' = ii + 1 => Pending' \subseteq Pending
           /\ ri' = ri /\ ii' = ii => Pending' = Pending
    BY WorkTypes DEF Pending, TypeOK

\* Once its grain is recorded, a package is no longer pending.
LEMMA InstalledNotPending ==
    ASSUME TypeOK, ri > Len(plan.remove), ii <= Len(plan.install),
           UNCHANGED <<plan, ri>>, ii' = ii + 1
    PROVE  pkg \notin Pending'
<1> USE WorkTypes
<1>1. \A k \in 1..Len(plan.install) : k # ii => name[plan.install[k]] # pkg
  <2>1. ii \in 1..Len(plan.install) /\ plan \in Plans
      BY DEF TypeOK
  <2> QED
      BY <2>1, Zenon DEF Plans, pkg, cur
<1>2. \A k \in (ii + 1)..Len(plan.install) : k \in 1..Len(plan.install) /\ k # ii
    BY DEF TypeOK
<1>3. ri..Len(plan.remove) = {}
    BY DEF TypeOK
<1> QED
    BY <1>1, <1>2, <1>3 DEF Pending

\* A step that records nothing leaves alone what is pending and who owns what.
LEMMA NothingRecorded ==
    ASSUME UNCHANGED <<view, plan, ri, ii>>
    PROVE  /\ UNCHANGED <<Pending, cur>> /\ manifest[cur]' = manifest[cur]
           /\ \A q \in Pkgs : FilesOf(view, q)' = FilesOf(view, q)
    BY DEF Pending, cur, FilesOf

\* Unlinking a path leaves every other path alone.
LEMMA UnlinkAt ==
    ASSUME TypeOK, NEW p \in Paths, unlink(p)
    PROVE  \A x \in Paths : root'[x] = root[x] \/ root'[x] = None
    BY DEF TypeOK, Roots, unlink

\* Every step, and a crash, keeps new content with the packages done with.
LEMMA FreshStep ==
    /\ TypeOK /\ PhaseInv /\ OwnerInv /\ JournalInv /\ FreshInv
    /\ [Next \/ Crash]_vars
    => FreshInv'
<1> SUFFICES ASSUME TypeOK, PhaseInv, OwnerInv, FreshInv, JournalInv,
                    [Next \/ Crash]_vars
             PROVE  FreshInv'
    OBVIOUS
<1> USE WorkTypes DEF FreshInv, Working
<1>1. CASE UNCHANGED vars
  <2>1. UNCHANGED <<root, pc, view, plan, ri, ii, pre>>
      BY Zenon, <1>1 DEF vars
  <2> QED
      BY <2>1, NothingRecorded
<1>2. CASE (\E pl \in Requests : TxnNew(pl)) \/ SnapshotCreate \/ SnapshotFail
    BY Zenon, <1>2 DEF TxnNew, SnapshotCreate, SnapshotFail
<1>3. CASE SqlBegin
    BY Zenon, <1>3 DEF SqlBegin, PhaseInv
<1>4. CASE RemoveBegin \/ InstallBegin
  <2>1. pc = "next" /\ UNCHANGED <<root, view, plan, ri, ii, pre>>
      BY <1>4 DEF RemoveBegin, InstallBegin
  <2> QED
      BY Zenon, <2>1, NothingRecorded
<1>5. CASE \E p \in Paths : RemoveFile(p)
  <2>1. PICK p \in Paths : RemoveFile(p)
      BY <1>5
  <2>2. /\ \A x \in Paths : root'[x] = root[x] \/ root'[x] = None
        /\ pc = "remove" /\ UNCHANGED <<view, plan, ri, ii, pre>>
      BY Zenon, <2>1, UnlinkAt DEF RemoveFile
  <2> QED
      BY Zenon, <2>2, NothingRecorded
<1>6. CASE RecordRemove
  <2>1. plan.remove[ri] \in Pending
      BY <1>6, LoopPaths DEF RecordRemove
  <2>2. Pending' \subseteq Pending
      BY <1>6, PendingShrinks DEF RecordRemove
  <2>3. \A q \in Pkgs : q \notin Pending => FilesOf(view', q) = FilesOf(view, q)
      BY Zenon, <1>6, <2>1 DEF RecordRemove, FilesOf, TypeOK, Dbs
  <2> QED
      BY <1>6, <2>2, <2>3, Zenon DEF RecordRemove
<1>7. CASE (\E p \in Paths : CheckFile(p)) \/ AppendAdded \/ ExtractEnd
  <2>1. /\ pc \in Working /\ UNCHANGED <<root, view, plan, ri, ii, pre>>
        /\ pc = "extract" => pc' = "drop"
        /\ pc # "drop"
      BY Zenon, <1>7 DEF CheckFile, AppendAdded, ExtractEnd
  <2> QED
      BY Zenon, <2>1, NothingRecorded
<1>8. CASE \E p \in Paths : ExtractFile(p)
  <2>1. PICK p \in Paths : ExtractFile(p)
      BY Zenon, <1>8
  <2>2. /\ \A x \in Paths : root'[x] = root[x] \/ x \in manifest[cur]
        /\ pc = "extract" /\ UNCHANGED <<pc, view, plan, ri, ii, pre>>
      BY Zenon, <2>1 DEF ExtractFile, PhaseInv, TypeOK, Roots
  <2> QED
      BY Zenon, <2>2, NothingRecorded
<1>9. CASE \E p \in Paths : DropOldFile(p)
  <2>1. PICK p \in Paths : DropOldFile(p)
      BY Zenon, <1>9
  <2>2. /\ \A x \in Paths : root'[x] = root[x] \/ root'[x] = None
        /\ pc = "drop" /\ UNCHANGED <<pc, view, plan, ri, ii, pre>>
      BY Zenon, <2>1, UnlinkAt DEF DropOldFile
  <2> QED
      BY <2>2, NothingRecorded, Zenon
<1>10. CASE RecordInstall
  <2>1. /\ pc = "drop" /\ pc' = "next" /\ ri > Len(plan.remove)
        /\ ii <= Len(plan.install) /\ ii' = ii + 1 /\ UNCHANGED <<plan, ri, root, pre>>
        /\ view' = [view EXCEPT ![pkg] = cur]
      BY Zenon, <1>10 DEF RecordInstall, PhaseInv
  <2>2. pkg \in Pending /\ pkg \notin Pending' /\ Pending' \subseteq Pending
      BY Zenon, <2>1, LoopPaths, InstalledNotPending, PendingShrinks
  <2>3. \A q \in Pkgs : q \notin Pending => FilesOf(view', q) = FilesOf(view, q)
      BY Zenon, <2>1, <2>2 DEF FilesOf, TypeOK, Dbs
  <2>4. FilesOf(view', pkg) = manifest[cur]
      BY Zenon, <2>1, GrainsAssumption DEF FilesOf, TypeOK, Dbs
  <2> QED
      BY <2>1, <2>2, <2>3, <2>4, Zenon
<1>11. CASE Commit \/ Fail \/ Crash \/ RevertUnlinkEnd \/ Finish
    BY Zenon, <1>11 DEF Commit, Fail, Crash, RevertUnlinkEnd, Finish
<1>12. CASE \E p \in Paths : RevertUnlink(p) \/ RevertRestore(p)
    BY Zenon, <1>12 DEF RevertUnlink, RevertRestore
<1> QED
    BY <1>1, <1>2, <1>3, <1>4, <1>5, <1>6, <1>7, <1>8, <1>9, <1>10, <1>11,
       <1>12, Zenon DEF Next, Step

\* Every step, and a crash, preserves the progress of the revert.
LEMMA RevertStep ==
    /\ TypeOK /\ PhaseInv /\ JournalInv /\ RevertInv
    /\ [Next \/ Crash]_vars
    => RevertInv'
<1> SUFFICES ASSUME TypeOK, PhaseInv, JournalInv, RevertInv,
                    [Next \/ Crash]_vars
             PROVE  RevertInv'
    OBVIOUS
<1> USE DEF RevertInv, FailureLeavesNoTrace, PhaseInv
<1>1. CASE UNCHANGED vars
    BY Zenon, <1>1 DEF vars
<1>2. CASE (\E pl \in Requests : TxnNew(pl)) \/ SnapshotCreate \/ SnapshotFail
    BY Zenon, <1>2 DEF TxnNew, SnapshotCreate, SnapshotFail
<1>3. CASE SqlBegin \/ RemoveBegin \/ RecordRemove \/ InstallBegin
    BY Zenon, <1>3 DEF SqlBegin, RemoveBegin, RecordRemove, InstallBegin
<1>4. CASE \E p \in Paths : \/ RemoveFile(p) \/ CheckFile(p)
                            \/ ExtractFile(p) \/ DropOldFile(p)
    BY Zenon, <1>4 DEF RemoveFile, CheckFile, ExtractFile, DropOldFile
<1>5. CASE AppendAdded \/ ExtractEnd \/ RecordInstall \/ Commit \/ Fail \/ Crash
    BY Zenon, <1>5 DEF AppendAdded, ExtractEnd, RecordInstall, Commit, Fail, Crash, Working
<1>6. CASE \E p \in Paths : RevertUnlink(p)
    BY Zenon, <1>6 DEF RevertUnlink, unlink, TypeOK, Roots
<1>7. CASE RevertUnlinkEnd
    BY Zenon, <1>7 DEF RevertUnlinkEnd
<1>8. CASE \E p \in Paths : RevertRestore(p)
  <2>1. PICK p \in Paths : RevertRestore(p)
      BY Zenon, <1>8
  <2>2. /\ pc = "restore" /\ UNCHANGED <<pc, backup, added, pre, db, status>>
        /\ todo' = todo \ {p}
      BY Zenon, <2>1 DEF RevertRestore
  <2>3. \A x \in Paths : root'[x] = IF x = p THEN backup[x] ELSE root[x]
      BY Zenon, <2>1 DEF RevertRestore, TypeOK, Roots
  <2>4. added \subseteq Paths
      BY Zenon DEF TypeOK
  <2> QED
      BY Zenon, <2>2, <2>3, <2>4
<1>9. CASE Finish
  <2>1. \A p \in Paths : root[p] = pre.root[p]
      BY Zenon, <1>9 DEF Finish, JournalInv, Covered
  <2>2. root = pre.root
    <3>1. root \in Roots /\ pre.root \in Roots
        BY Zenon DEF TypeOK
    <3> QED
        BY Zenon, <2>1, <3>1, RootsEqual
  <2> QED
      BY Zenon, <1>9, <2>2 DEF Finish
<1> QED
    BY <1>1, <1>2, <1>3, <1>4, <1>5, <1>6, <1>7, <1>8, <1>9, Zenon DEF Next, Step

-----------------------------------------------------------------------------
\* The invariant is inductive, crashes included.
THEOREM Invariance == CrashSpec => []IInv
<1>1. IInv /\ [Next \/ Crash]_vars => IInv'
    BY PhaseStep, OwnerStep, JournalStep, FreshStep, RevertStep DEF IInv
<1> QED
    BY InvInit, <1>1, PTL DEF CrashSpec

\* Every variable of native_transaction keeps its type, crashes included.
THEOREM TypeCorrect == CrashSpec => []TypeOK
<1>1. IInv => TypeOK
    BY DEF IInv
<1> QED
    BY Invariance, <1>1, PTL

\* Wherever a transaction stops, its backup tree and its added.list restore
\* the root it found.
THEOREM JournalAlwaysCovers == CrashSpec => []JournalCovers
<1>1. IInv => JournalCovers
  <2> SUFFICES ASSUME IInv PROVE JournalCovers
      OBVIOUS
  <2>1. \A p \in Paths : Reverted(root, backup, added)[p] = pre.root[p]
      BY DEF IInv, JournalInv, Covered, Reverted
  <2>2. pre.root \in [Paths -> Grains \cup {Local, None}]
      BY DEF IInv, TypeOK, Roots
  <2> QED
      BY <2>1, <2>2 DEF JournalCovers, Reverted
<1> QED
    BY Invariance, <1>1, PTL

\* A transaction that fails leaves root and database as it found them, also
\* after earlier transactions died.
THEOREM FailureAtomicity == CrashSpec => []FailureLeavesNoTrace
<1>1. IInv => FailureLeavesNoTrace
    BY DEF IInv, RevertInv
<1> QED
    BY Invariance, <1>1, PTL

-----------------------------------------------------------------------------
(* The stepwise transaction implements the atomic one, for every           *)
(* repository and every set of plans, as long as no process dies.          *)
HIDE DEF journal

-----------------------------------------------------------------------------
(* How far the plan has been carried out.                                  *)

\* The packages removed and the grains installed so far.
DoneOut == {plan.remove[k] : k \in 1..(ri - 1)}
DoneIn == {plan.install[k] : k \in 1..(ii - 1)}
Handled == DoneOut \cup {name[g] : g \in DoneIn}

\* The plan was accepted for the tables as they were.
PlanInv ==
    pc # "idle" =>
        \E pl \in Requests, d \in Dbs : plan = pl /\ pre.db = d /\ Accepted(d, pl)

\* The uncommitted tables show the part of the plan that is done.
ViewInv ==
    /\ pc \in {"snapshot", "begin"} => ri = 1 /\ ii = 1
    /\ pc \in Working =>
        /\ ii > 1 => ri > Len(plan.remove)
        /\ \A q \in DoneOut : pre.db[q] # None
        /\ \A g \in DoneIn : view[name[g]] = g
        /\ \A q \in DoneOut : (\A g \in DoneIn : name[g] # q) => view[q] = None
        /\ \A q \in Pkgs \ Handled : view[q] = pre.db[q]
        /\ pc = "remove" => view[plan.remove[ri]] # None

\* Path p holds what the part of the plan that is done makes of it.
AsPlanned(p) ==
    /\ \A g \in DoneIn : p \in manifest[g] => root[p] = g
    /\ (\A g \in DoneIn : p \notin manifest[g]) =>
          root[p] = IF \E q \in Handled : p \in FilesOf(pre.db, q)
                    THEN None ELSE pre.root[p]

\* The files the loop at hand has removed, and those it has installed.
Leaving == IF pc = "remove" THEN FilesOf(view, plan.remove[ri]) \ todo
           ELSE IF pc = "drop" THEN FilesOf(view, pkg) \ (manifest[cur] \cup todo)
           ELSE {}
Entering == IF pc = "extract" THEN manifest[cur] \ todo
            ELSE IF pc = "drop" THEN manifest[cur]
            ELSE {}

RootInv ==
    pc \in Working =>
        \A p \in Paths :
            /\ p \in Leaving => root[p] = None
            /\ p \in Entering => root[p] = cur
            /\ p \notin Leaving \cup Entering => AsPlanned(p)

PInv == IInv /\ PlanInv /\ ViewInv /\ RootInv

-----------------------------------------------------------------------------
\* What is done grows with the loops, and each package comes up once.
LEMMA DoneGrows ==
    ASSUME TypeOK
    PROVE  /\ DoneOut \subseteq Pkgs /\ DoneIn \subseteq Grains
           /\ Handled \subseteq Pkgs /\ \A g \in DoneIn : name[g] \in Pkgs
           /\ ri <= Len(plan.remove) => plan.remove[ri] \notin DoneOut
           /\ ii <= Len(plan.install) => \A g \in DoneIn : name[g] # pkg
           /\ ii = 1 => DoneIn = {}
           /\ ri > Len(plan.remove) => DoneOut = Gone(plan)
           /\ ii > Len(plan.install) => DoneIn = Items(plan)
<1> USE WorkTypes, PlanTypes
<1>1. /\ ri \in 1..(Len(plan.remove) + 1) /\ ii \in 1..(Len(plan.install) + 1)
      /\ plan \in Plans
    BY Zenon DEF TypeOK
<1>2. DoneOut \subseteq Pkgs /\ DoneIn \subseteq Grains
    BY <1>1 DEF DoneOut, DoneIn
<1>3. \A g \in DoneIn : name[g] \in Pkgs
    BY Zenon, <1>2, GrainsAssumption
<1>4. ri <= Len(plan.remove) => plan.remove[ri] \notin DoneOut
  <2> SUFFICES ASSUME ri <= Len(plan.remove), NEW k \in 1..(ri - 1)
               PROVE  plan.remove[k] # plan.remove[ri]
      BY DEF DoneOut
  <2>1. k \in 1..Len(plan.remove) /\ ri \in 1..Len(plan.remove) /\ k # ri
      BY <1>1
  <2>2. \A i, j \in 1..Len(plan.remove) : i # j => plan.remove[i] # plan.remove[j]
      BY <1>1, Zenon DEF Plans
  <2> QED
      BY <2>1, <2>2, Zenon
<1>5. ii <= Len(plan.install) => \A g \in DoneIn : name[g] # pkg
  <2> SUFFICES ASSUME ii <= Len(plan.install), NEW k \in 1..(ii - 1)
               PROVE  name[plan.install[k]] # name[plan.install[ii]]
      BY Zenon DEF DoneIn, pkg, cur
  <2>1. k \in 1..Len(plan.install) /\ ii \in 1..Len(plan.install) /\ k # ii
      BY <1>1
  <2>2. \A i, j \in 1..Len(plan.install) :
            i # j => name[plan.install[i]] # name[plan.install[j]]
      BY <1>1, Zenon DEF Plans
  <2> QED
      BY <2>1, <2>2, Zenon
<1>6. ii = 1 => DoneIn = {}
    BY <1>1 DEF DoneIn
<1>7. ri > Len(plan.remove) => DoneOut = Gone(plan)
    BY <1>1 DEF DoneOut, Gone
<1>8. ii > Len(plan.install) => DoneIn = Items(plan)
    BY <1>1 DEF DoneIn, Items
<1> QED
    BY <1>2, <1>3, <1>4, <1>5, <1>6, <1>7, <1>8 DEF Handled

\* One more package is removed.
LEMMA OneMoreOut ==
    ASSUME TypeOK, ri <= Len(plan.remove), ri' = ri + 1, UNCHANGED <<plan, ii>>
    PROVE  /\ DoneOut' = DoneOut \cup {plan.remove[ri]}
           /\ DoneIn' = DoneIn
           /\ Handled' = Handled \cup {plan.remove[ri]}
<1>1. ri \in Nat /\ ri >= 1 /\ 1..(ri' - 1) = 1..(ri - 1) \cup {ri}
    BY WorkTypes DEF TypeOK
<1>2. DoneOut' = DoneOut \cup {plan.remove[ri]}
    BY <1>1 DEF DoneOut
<1>3. DoneIn' = DoneIn
    BY DEF DoneIn
<1> QED
    BY <1>2, <1>3 DEF Handled

\* One more grain is installed.
LEMMA OneMoreIn ==
    ASSUME TypeOK, ii <= Len(plan.install), ii' = ii + 1, UNCHANGED <<plan, ri>>
    PROVE  /\ DoneIn' = DoneIn \cup {cur}
           /\ DoneOut' = DoneOut
           /\ Handled' = Handled \cup {pkg}
<1>1. ii \in Nat /\ ii >= 1 /\ 1..(ii' - 1) = 1..(ii - 1) \cup {ii}
    BY WorkTypes DEF TypeOK
<1>2. DoneIn' = DoneIn \cup {cur}
    BY <1>1 DEF DoneIn, cur
<1>3. DoneOut' = DoneOut
    BY DEF DoneOut
<1> QED
    BY <1>2, <1>3 DEF Handled, pkg

\* A step that leaves the loop counters alone leaves what is done alone.
LEMMA NoneMore ==
    ASSUME UNCHANGED <<plan, ri, ii>>
    PROVE  UNCHANGED <<DoneOut, DoneIn, Handled, cur, pkg>>
    BY Zenon DEF DoneOut, DoneIn, Handled, cur, pkg

\* The plan of a transaction stays the one that was accepted.
LEMMA PlanStep == IInv /\ PlanInv /\ [Next]_vars => PlanInv'
<1> SUFFICES ASSUME IInv, PlanInv, [Next]_vars PROVE PlanInv'
    OBVIOUS
<1>1. CASE \E pl \in Requests : TxnNew(pl)
    BY <1>1 DEF TxnNew, PlanInv, IInv, TypeOK
<1>2. ASSUME UNCHANGED <<plan, pre>>, pc' # "idle" => pc # "idle"
      PROVE  PlanInv'
    BY <1>2 DEF PlanInv
<1>3. CASE \/ SnapshotCreate \/ SnapshotFail \/ SqlBegin \/ RemoveBegin
           \/ RecordRemove \/ InstallBegin \/ AppendAdded \/ ExtractEnd
           \/ RecordInstall \/ Commit \/ Fail \/ RevertUnlinkEnd \/ Finish
    BY Zenon, <1>2, <1>3
       DEF SnapshotCreate, SnapshotFail, SqlBegin, RemoveBegin, RecordRemove,
           InstallBegin, AppendAdded, ExtractEnd, RecordInstall, Commit, Fail,
           RevertUnlinkEnd, Finish, Working
<1>4. CASE \E p \in Paths : \/ RemoveFile(p) \/ CheckFile(p) \/ ExtractFile(p)
                            \/ DropOldFile(p) \/ RevertUnlink(p) \/ RevertRestore(p)
    BY <1>2, <1>4, Zenon
       DEF RemoveFile, CheckFile, ExtractFile, DropOldFile, RevertUnlink,
           RevertRestore
<1>5. CASE UNCHANGED vars
    BY <1>2, <1>5 DEF vars
<1> QED
    BY <1>1, <1>3, <1>4, <1>5 DEF Next, Step

\* The steps of the loops that change neither the tables nor the counters.
Quiet ==
    /\ UNCHANGED <<view, plan, ri, ii, pre>>
    /\ pc \in Working /\ pc' \in Working
    /\ pc' = "remove" => pc = "remove" \/ view[plan.remove[ri]] # None

\* Every step keeps the uncommitted tables in step with the plan.
LEMMA ViewStep == IInv /\ ViewInv /\ [Next]_vars => ViewInv'
<1> SUFFICES ASSUME IInv, ViewInv, [Next]_vars PROVE ViewInv'
    OBVIOUS
<1>0. TypeOK /\ PhaseInv
    BY DEF IInv
<1>1. ASSUME Quiet PROVE ViewInv'
    BY Zenon, <1>1, NoneMore DEF Quiet, ViewInv, Working
<1>2. ASSUME pc' \notin Working \cup {"snapshot", "begin"} PROVE ViewInv'
    BY Zenon, <1>2 DEF ViewInv
<1>3. CASE (\E pl \in Requests : TxnNew(pl)) \/ SnapshotCreate
    BY Zenon, <1>3 DEF TxnNew, SnapshotCreate, ViewInv, Working
<1>4. CASE SqlBegin
  <2>1. ri' = 1 /\ ii' = 1 /\ pc' = "next" /\ view' = pre.db /\ UNCHANGED pre
      BY Zenon, <1>0, <1>4 DEF SqlBegin, ViewInv, PhaseInv
  <2>2. DoneOut' = {} /\ DoneIn' = {}
      BY <2>1 DEF DoneOut, DoneIn
  <2>3. Handled' = {}
      BY <2>2 DEF Handled
  <2> QED
      BY <2>1, <2>2, <2>3 DEF ViewInv
<1>5. CASE RecordRemove
  <2> DEFINE q == plan.remove[ri]
  <2>1. /\ pc = "remove" /\ pc' = "next" /\ ri <= Len(plan.remove) /\ ri' = ri + 1
        /\ view' = [view EXCEPT ![q] = None] /\ UNCHANGED <<plan, ii, pre>>
      BY Zenon, <1>0, <1>5 DEF RecordRemove, PhaseInv
  <2>2. ii = 1
      BY <1>0, <2>1, WorkTypes DEF ViewInv, TypeOK, Working
  <2>3. DoneIn = {} /\ q \notin DoneOut /\ q \in Pkgs /\ DoneOut \subseteq Pkgs
      BY Zenon, <1>0, <2>1, <2>2, DoneGrows, WorkTypes
  <2>4. Handled = DoneOut
      BY <2>3 DEF Handled
  <2>5. pre.db[q] # None
      BY Zenon, <2>1, <2>3, <2>4 DEF ViewInv, Working
  <2>6. /\ DoneOut' = DoneOut \cup {q} /\ DoneIn' = {} /\ Handled' = DoneOut'
      BY Zenon, <1>0, <2>1, <2>3, <2>4, OneMoreOut
  <2>7. /\ view'[q] = None
        /\ \A x \in Pkgs \ {q} : view'[x] = view[x]
      BY Zenon, <1>0, <2>1, <2>3 DEF TypeOK, Dbs
  <2>8. /\ \A x \in DoneOut : pre.db[x] # None /\ view[x] = None
        /\ \A x \in Pkgs \ DoneOut : view[x] = pre.db[x]
      BY Zenon, <2>1, <2>3, <2>4 DEF ViewInv, Working
  <2>9. \A x \in DoneOut' : pre'.db[x] # None /\ view'[x] = None
      BY Zenon, <2>1, <2>3, <2>5, <2>6, <2>7, <2>8
  <2>10. \A x \in Pkgs \ DoneOut' : view'[x] = pre'.db[x]
      BY <2>1, <2>6, <2>7, <2>8
  <2>11. pc' \notin {"snapshot", "begin", "remove"} /\ ~(ii' > 1)
      BY <2>1, <2>2
  <2> QED
      BY Zenon, <2>6, <2>9, <2>10, <2>11 DEF ViewInv
<1>6. CASE RecordInstall
  <2>1. /\ pc = "drop" /\ pc' = "next" /\ ri > Len(plan.remove)
        /\ ii <= Len(plan.install) /\ ii' = ii + 1
        /\ view' = [view EXCEPT ![pkg] = cur] /\ UNCHANGED <<plan, ri, pre>>
      BY Zenon, <1>0, <1>6 DEF RecordInstall, PhaseInv
  <2>2. /\ pkg \in Pkgs /\ name[cur] = pkg
        /\ \A g \in DoneIn : name[g] \in Pkgs /\ name[g] # pkg
        /\ DoneOut \subseteq Pkgs
      BY Zenon, <1>0, <2>1, DoneGrows, WorkTypes DEF pkg
  <2>3. DoneIn' = DoneIn \cup {cur} /\ DoneOut' = DoneOut /\ Handled' = Handled \cup {pkg}
      BY <1>0, <2>1, OneMoreIn
  <2>4. /\ view'[pkg] = cur
        /\ \A x \in Pkgs \ {pkg} : view'[x] = view[x]
      BY <1>0, <2>1, <2>2 DEF TypeOK, Dbs
  <2>5. /\ \A x \in DoneOut : pre.db[x] # None
        /\ \A g \in DoneIn : view[name[g]] = g
        /\ \A x \in DoneOut : (\A g \in DoneIn : name[g] # x) => view[x] = None
        /\ \A x \in Pkgs \ Handled : view[x] = pre.db[x]
      BY Zenon, <2>1 DEF ViewInv, Working
  <2> QED
      BY Zenon, <2>1, <2>2, <2>3, <2>4, <2>5 DEF ViewInv
<1>7. CASE RemoveBegin \/ InstallBegin \/ AppendAdded \/ ExtractEnd
    BY Zenon, <1>1, <1>7 DEF RemoveBegin, InstallBegin, AppendAdded, ExtractEnd, Quiet, Working
<1>8. CASE \E p \in Paths : \/ RemoveFile(p) \/ CheckFile(p)
                            \/ ExtractFile(p) \/ DropOldFile(p)
    BY Zenon, <1>1, <1>8 DEF RemoveFile, CheckFile, ExtractFile, DropOldFile, Quiet, Working
<1>9. CASE \/ SnapshotFail \/ Commit \/ Fail \/ RevertUnlinkEnd \/ Finish
           \/ \E p \in Paths : RevertUnlink(p) \/ RevertRestore(p)
    BY Zenon, <1>2, <1>9
       DEF SnapshotFail, Commit, Fail, RevertUnlinkEnd, Finish, RevertUnlink,
           RevertRestore, Working
<1>10. CASE UNCHANGED vars
    BY <1>10, NoneMore, Zenon DEF vars, ViewInv
<1> QED
    BY <1>3, <1>4, <1>5, <1>6, <1>7, <1>8, <1>9, <1>10 DEF Next, Step

\* A path stays as planned while neither it nor what is done changes.
LEMMA PlannedFrame ==
    ASSUME UNCHANGED <<plan, ri, ii, pre>>, NEW p, root'[p] = root[p], AsPlanned(p)
    PROVE  AsPlanned(p)'
    BY Zenon, NoneMore DEF AsPlanned, FilesOf

\* A removed package's files are gone: they count as planned.
LEMMA RootRemove ==
    ASSUME IInv, ViewInv, RootInv, RecordRemove
    PROVE  RootInv'
<1> DEFINE q == plan.remove[ri]
<1>0. TypeOK /\ PhaseInv
    BY DEF IInv
<1>1. /\ pc = "remove" /\ pc' = "next" /\ todo = {} /\ ri <= Len(plan.remove)
      /\ ri' = ri + 1 /\ UNCHANGED <<plan, ii, pre, root>>
    BY Zenon, <1>0 DEF RecordRemove, PhaseInv
<1>2. ii = 1
    BY <1>0, <1>1, WorkTypes DEF ViewInv, TypeOK, Working
<1>3. DoneIn = {} /\ q \notin DoneOut /\ q \in Pkgs
    BY Zenon, <1>0, <1>1, <1>2, DoneGrows, WorkTypes
<1>4. Handled = DoneOut
    BY <1>3 DEF Handled
<1>5. DoneIn' = {} /\ Handled' = Handled \cup {q}
    BY <1>0, <1>1, <1>3, OneMoreOut, Zenon
<1>6. FilesOf(view, q) = FilesOf(pre.db, q)
    BY Zenon, <1>1, <1>3, <1>4 DEF ViewInv, Working, FilesOf
<1>7. Leaving = FilesOf(view, q) /\ Entering = {}
    BY Zenon, <1>1 DEF Leaving, Entering
<1>8. \A p \in Paths :
          root[p] = IF p \in FilesOf(pre.db, q) \/ \E x \in Handled : p \in FilesOf(pre.db, x)
                    THEN None ELSE pre.root[p]
    BY Zenon, <1>1, <1>3, <1>6, <1>7 DEF RootInv, Working, AsPlanned
<1>9. \A p \in Paths : AsPlanned(p)'
    BY <1>1, <1>5, <1>8 DEF AsPlanned, FilesOf
<1> QED
    BY Zenon, <1>1, <1>9 DEF RootInv, Leaving, Entering

\* An installed grain's files are in place, those it replaces are gone.
LEMMA RootInstall ==
    ASSUME IInv, ViewInv, RootInv, RecordInstall
    PROVE  RootInv'
<1>0. TypeOK /\ PhaseInv /\ OwnerInv
    BY DEF IInv
<1>1. /\ pc = "drop" /\ pc' = "next" /\ todo = {} /\ ri > Len(plan.remove)
      /\ ii <= Len(plan.install) /\ ii' = ii + 1 /\ UNCHANGED <<plan, ri, pre, root>>
    BY Zenon, <1>0 DEF RecordInstall, PhaseInv
<1>2. /\ pkg \in Pkgs /\ cur \in Grains /\ manifest[cur] \subseteq Paths
      /\ \A g \in DoneIn : g \in Grains /\ name[g] \in Pkgs /\ name[g] # pkg
    BY Zenon, <1>0, <1>1, DoneGrows, WorkTypes
<1>3. DoneIn' = DoneIn \cup {cur} /\ Handled' = Handled \cup {pkg}
    BY <1>0, <1>1, OneMoreIn
<1>4. Leaving = FilesOf(view, pkg) \ manifest[cur] /\ Entering = manifest[cur]
    BY Zenon, <1>1 DEF Leaving, Entering
<1>5. \A g \in DoneIn : \A p \in manifest[g] : name[g] \in Owners(view, p)
    BY Zenon, <1>1, <1>2, GrainsAssumption DEF ViewInv, Working, Owners, FilesOf
<1>6. \A p \in Paths : p \in manifest[cur] \cup FilesOf(view, pkg) =>
          \A g \in DoneIn : p \notin manifest[g]
  <2> SUFFICES ASSUME NEW p \in Paths, p \in manifest[cur] \cup FilesOf(view, pkg),
                      NEW g \in DoneIn, p \in manifest[g]
               PROVE  FALSE
      OBVIOUS
  <2>1. name[g] \in Owners(view, p) /\ name[g] # pkg
      BY <1>2, <1>5
  <2>2. CASE p \in manifest[cur]
      BY Zenon, <1>0, <1>1, <2>1, <2>2 DEF OwnerInv
  <2>3. CASE p \in FilesOf(view, pkg)
      BY Zenon, <1>0, <1>2, <2>1, <2>3 DEF OwnerInv, OneOwner, Owners
  <2> QED
      BY <2>2, <2>3
<1>7. \/ pkg \notin Handled /\ FilesOf(view, pkg) = FilesOf(pre.db, pkg)
      \/ pkg \in Handled /\ FilesOf(view, pkg) = {}
  <2>1. CASE pkg \in Handled
    <3>1. pkg \in DoneOut
        BY <1>2, <2>1 DEF Handled
    <3> QED
        BY Zenon, <1>1, <1>2, <2>1, <3>1 DEF ViewInv, Working, FilesOf
  <2>2. CASE pkg \notin Handled
      BY Zenon, <1>1, <1>2, <2>2 DEF ViewInv, Working, FilesOf
  <2> QED
      BY <2>1, <2>2
<1>8. ASSUME NEW p \in Paths
      PROVE  /\ \A g \in DoneIn \cup {cur} : p \in manifest[g] => root[p] = g
             /\ (\A g \in DoneIn \cup {cur} : p \notin manifest[g]) =>
                   root[p] = IF \E q \in Handled \cup {pkg} : p \in FilesOf(pre.db, q)
                             THEN None ELSE pre.root[p]
  <2>1. CASE p \in manifest[cur]
      BY Zenon, <1>1, <1>4, <1>6, <2>1 DEF RootInv, Working
  <2>2. CASE p \in FilesOf(view, pkg) \ manifest[cur]
    <3>1. root[p] = None
        BY Zenon, <1>1, <1>4, <2>2 DEF RootInv, Working
    <3>2. p \in FilesOf(pre.db, pkg)
        BY <1>7, <2>2
    <3> QED
        BY Zenon, <1>6, <2>2, <3>1, <3>2
  <2>3. CASE p \notin FilesOf(view, pkg) \cup manifest[cur]
    <3>1. AsPlanned(p)
        BY Zenon, <1>1, <1>4, <2>3 DEF RootInv, Working
    <3>2. pkg \in Handled \/ p \notin FilesOf(pre.db, pkg)
        BY <1>7, <2>3
    <3> QED
        BY Zenon, <2>3, <3>1, <3>2 DEF AsPlanned
  <2> QED
      BY Zenon, <2>1, <2>2, <2>3
<1>9. \A p \in Paths : AsPlanned(p)'
    BY Zenon, <1>1, <1>3, <1>8 DEF AsPlanned, FilesOf
<1> QED
    BY <1>1, <1>9, Zenon DEF RootInv, Leaving, Entering

\* Every step keeps the root in step with the plan.
LEMMA RootStep == IInv /\ ViewInv /\ RootInv /\ [Next]_vars => RootInv'
<1> SUFFICES ASSUME IInv, ViewInv, RootInv, [Next]_vars PROVE RootInv'
    OBVIOUS
<1>0. TypeOK /\ PhaseInv
    BY DEF IInv
<1>1. ASSUME pc \in Working, UNCHANGED <<root, plan, ri, ii, pre>>,
             Leaving' = Leaving, Entering' = Entering
      PROVE  RootInv'
  <2>1. \A p \in Paths : AsPlanned(p) => AsPlanned(p)'
      BY <1>1, PlannedFrame
  <2>2. UNCHANGED cur
      BY <1>1, NoneMore
  <2> QED
      BY <1>1, <2>1, <2>2 DEF RootInv
<1>2. ASSUME NEW p \in Paths, pc \in Working,
             root' = [root EXCEPT ![p] = None], UNCHANGED <<plan, ri, ii, pre>>,
             Leaving' = Leaving \cup {p}, Entering' = Entering, p \notin Entering
      PROVE  RootInv'
  <2>1. root'[p] = None /\ \A x \in Paths \ {p} : root'[x] = root[x]
      BY <1>0, <1>2 DEF TypeOK, Roots
  <2>2. \A x \in Paths \ {p} : AsPlanned(x) => AsPlanned(x)'
      BY <1>2, <2>1, PlannedFrame
  <2>3. UNCHANGED cur
      BY <1>2, NoneMore
  <2> QED
      BY Zenon, <1>2, <2>1, <2>2, <2>3 DEF RootInv
<1>3. CASE SqlBegin
  <2>1. ri' = 1 /\ ii' = 1 /\ pc' = "next" /\ root' = pre.root /\ UNCHANGED pre
      BY Zenon, <1>0, <1>3 DEF SqlBegin, ViewInv, PhaseInv
  <2>2. DoneOut' = {} /\ DoneIn' = {}
      BY <2>1 DEF DoneOut, DoneIn
  <2>3. Handled' = {}
      BY <2>2 DEF Handled
  <2> QED
      BY <2>1, <2>2, <2>3, Zenon DEF RootInv, AsPlanned, Leaving, Entering
<1>4. CASE RemoveBegin
    BY <1>1, <1>4, Zenon DEF RemoveBegin, Leaving, Entering, Working, FilesOf
<1>5. CASE \E p \in Paths : RemoveFile(p)
  <2>1. PICK p \in Paths : RemoveFile(p)
      BY <1>5
  <2>2. p \in FilesOf(view, plan.remove[ri])
      BY Zenon, <1>0, <2>1 DEF RemoveFile, PhaseInv
  <2>3. Leaving' = Leaving \cup {p} /\ Entering = {} /\ Entering' = {}
      BY <2>1, <2>2, Zenon DEF RemoveFile, Leaving, Entering, FilesOf
  <2> QED
      BY <1>2, <2>1, <2>3, Zenon DEF RemoveFile, unlink, Working
<1>6. CASE RecordRemove
    BY <1>6, RootRemove
<1>7. CASE InstallBegin \/ AppendAdded
    BY <1>1, <1>7, Zenon DEF InstallBegin, AppendAdded, Leaving, Entering, Working, cur
<1>8. CASE \E p \in Paths : CheckFile(p)
    BY <1>1, <1>8, Zenon DEF CheckFile, Leaving, Entering, Working
<1>9. CASE \E p \in Paths : ExtractFile(p)
  <2>1. PICK p \in Paths : ExtractFile(p)
      BY <1>9
  <2>2. p \in manifest[cur] /\ UNCHANGED cur
      BY Zenon, <1>0, <2>1, NoneMore DEF ExtractFile, PhaseInv
  <2>3. Entering' = Entering \cup {p} /\ Leaving = {} /\ Leaving' = {}
      BY Zenon, <2>1, <2>2 DEF ExtractFile, Leaving, Entering
  <2>4. root'[p] = cur /\ \A x \in Paths \ {p} : root'[x] = root[x]
      BY Zenon, <1>0, <2>1 DEF ExtractFile, TypeOK, Roots
  <2>5. \A x \in Paths \ {p} : AsPlanned(x) => AsPlanned(x)'
      BY <2>1, <2>4, PlannedFrame DEF ExtractFile
  <2>6. pc \in Working
      BY <2>1 DEF ExtractFile, Working
  <2> QED
      BY <2>2, <2>3, <2>4, <2>5, <2>6, Zenon DEF RootInv
<1>10. CASE ExtractEnd
  <2>1. /\ pc = "extract" /\ pc' = "drop" /\ todo = {} /\ UNCHANGED <<root, view, plan, ri, ii, pre>>
        /\ todo' = FilesOf(view, pkg) \ manifest[cur]
      BY Zenon, <1>10 DEF ExtractEnd
  <2>2. UNCHANGED <<cur, pkg>>
      BY Zenon, <2>1, NoneMore
  <2>3. Leaving = {} /\ Leaving' = {} /\ Entering = manifest[cur] /\ Entering' = manifest[cur]
      BY Zenon, <2>1, <2>2 DEF Leaving, Entering, FilesOf
  <2> QED
      BY Zenon, <1>1, <2>1, <2>3 DEF Working
<1>11. CASE \E p \in Paths : DropOldFile(p)
  <2>1. PICK p \in Paths : DropOldFile(p)
      BY <1>11
  <2>2. p \in FilesOf(view, pkg) \ manifest[cur] /\ UNCHANGED <<cur, pkg>>
      BY <1>0, <2>1, NoneMore, Zenon DEF DropOldFile, PhaseInv
  <2>3. /\ Leaving' = Leaving \cup {p} /\ Entering = manifest[cur]
        /\ Entering' = manifest[cur]
      BY <2>1, <2>2, Zenon DEF DropOldFile, Leaving, Entering, FilesOf
  <2> QED
      BY <1>2, <2>1, <2>2, <2>3, Zenon DEF DropOldFile, unlink, Working
<1>12. CASE RecordInstall
    BY <1>12, RootInstall
<1>13. CASE \/ (\E pl \in Requests : TxnNew(pl)) \/ SnapshotCreate \/ SnapshotFail
            \/ Commit \/ Fail \/ RevertUnlinkEnd \/ Finish
            \/ \E p \in Paths : RevertUnlink(p) \/ RevertRestore(p)
    BY <1>13, Zenon
       DEF TxnNew, SnapshotCreate, SnapshotFail, Commit, Fail, RevertUnlinkEnd,
           Finish, RevertUnlink, RevertRestore, Working, RootInv
<1>14. CASE UNCHANGED vars
  <2>1. UNCHANGED <<root, plan, ri, ii, pre, Leaving, Entering, pc>>
      BY <1>14, Zenon DEF vars, Leaving, Entering, FilesOf, cur, pkg
  <2> QED
      BY Zenon, <1>1, <2>1 DEF RootInv
<1> QED
    BY Zenon, <1>3, <1>4, <1>5, <1>6, <1>7, <1>8, <1>9, <1>10, <1>11, <1>12, <1>13, <1>14
       DEF Next, Step

-----------------------------------------------------------------------------
\* The invariant is inductive as long as no process dies.
THEOREM Progress == Spec => []PInv
<1>1. Init => PInv
    BY Zenon, InvInit DEF Init, PInv, PlanInv, ViewInv, RootInv, Working
<1>2. PInv /\ [Next]_vars => PInv'
  <2>1. IInv /\ [Next]_vars => IInv'
      BY PhaseStep, OwnerStep, JournalStep, FreshStep, RevertStep DEF IInv
  <2> QED
      BY <2>1, PlanStep, ViewStep, RootStep DEF PInv
<1> QED
    BY <1>1, <1>2, PTL DEF Spec

\* When everything is done, the tables are the plan's.
LEMMA CommitsPlanDb ==
    ASSUME PInv, Commit
    PROVE  view = PlanDb(pre.db, plan)
<1>1. TypeOK /\ pc = "next" /\ ri > Len(plan.remove) /\ ii > Len(plan.install)
    BY DEF PInv, IInv, Commit
<1>2. plan \in Plans /\ pre.db \in Dbs /\ view \in Dbs
    BY <1>1 DEF TypeOK
<1>3. DoneOut = Gone(plan) /\ DoneIn = Items(plan)
    BY Zenon, <1>1, DoneGrows
<1>4. Handled = Gone(plan) \cup Arriving(plan)
    BY Zenon, <1>3 DEF Handled, Arriving
<1>5. /\ \A g \in Items(plan) : view[name[g]] = g
      /\ \A q \in Gone(plan) \ Arriving(plan) : view[q] = None
      /\ \A q \in Pkgs \ Handled : view[q] = pre.db[q]
    BY Zenon, <1>1, <1>3 DEF PInv, ViewInv, Working, Arriving
<1>6. \A q \in Pkgs : view[q] = PlanDb(pre.db, plan)[q]
  <2> TAKE q \in Pkgs
  <2>1. CASE q \in Arriving(plan)
      BY <1>2, <1>5, <2>1, PlanDbFacts DEF Arriving
  <2>2. CASE q \in Gone(plan) \ Arriving(plan)
      BY <1>2, <1>5, <2>2, PlanDbFacts
  <2>3. CASE q \notin Gone(plan) \cup Arriving(plan)
      BY <1>2, <1>4, <1>5, <2>3, PlanDbFacts
  <2> QED
      BY <2>1, <2>2, <2>3, Zenon
<1> QED
  <2>1. PlanDb(pre.db, plan) \in Dbs
      BY <1>2, PlanDbFacts, Zenon
  <2> QED
      BY <1>2, <1>6, <2>1, DbsEqual

\* When everything is done, the root is the plan's.
LEMMA CommitsPlanRoot ==
    ASSUME PInv, Commit
    PROVE  /\ OneOwner(PlanDb(pre.db, plan))
           /\ root = PlanRoot(pre.root, pre.db, plan)
<1>1. TypeOK /\ pc = "next" /\ ri > Len(plan.remove) /\ ii > Len(plan.install)
    BY DEF PInv, IInv, Commit
<1>2. plan \in Plans /\ pre.db \in Dbs /\ pre.root \in Roots /\ root \in Roots
    BY <1>1 DEF TypeOK
<1>3. DoneOut = Gone(plan) /\ DoneIn = Items(plan)
    BY Zenon, <1>1, DoneGrows
<1>4. Handled = Gone(plan) \cup Arriving(plan)
    BY Zenon, <1>3 DEF Handled, Arriving
<1>5. OneOwner(PlanDb(pre.db, plan))
    BY Zenon, CommitsPlanDb DEF PInv, IInv, OwnerInv
<1>6. \A p \in Paths : AsPlanned(p)
    BY Zenon, <1>1 DEF PInv, RootInv, Working, Leaving, Entering
<1>7. \A x \in Items(plan) : \A y \in manifest[x] :
          PlanRoot(pre.root, pre.db, plan)[y] = x
    BY <1>2, <1>5, PlanRootFacts
<1>8. \A y \in Paths : (\A x \in Items(plan) : y \notin manifest[x]) =>
          PlanRoot(pre.root, pre.db, plan)[y] =
              IF \E q \in Gone(plan) \cup Arriving(plan) : y \in FilesOf(pre.db, q)
              THEN None ELSE pre.root[y]
    BY Zenon, <1>2, <1>5, PlanRootFacts
<1>9. \A p \in Paths : root[p] = PlanRoot(pre.root, pre.db, plan)[p]
  <2> TAKE p \in Paths
  <2>1. CASE \E g \in Items(plan) : p \in manifest[g]
    <3>1. PICK g \in Items(plan) : p \in manifest[g]
        BY Zenon, <2>1
    <3>2. root[p] = g
        BY <1>3, <1>6, <3>1, Zenon DEF AsPlanned
    <3>3. PlanRoot(pre.root, pre.db, plan)[p] = g
        BY <1>7, <3>1, Zenon
    <3> QED
        BY <3>2, <3>3, Zenon
  <2>2. CASE \A g \in Items(plan) : p \notin manifest[g]
    <3> DEFINE rest == IF \E q \in Gone(plan) \cup Arriving(plan) :
                                p \in FilesOf(pre.db, q)
                       THEN None ELSE pre.root[p]
    <3>1. root[p] = rest
        BY Zenon, <1>3, <1>4, <1>6, <2>2 DEF AsPlanned
    <3>2. PlanRoot(pre.root, pre.db, plan)[p] = rest
        BY <1>8, <2>2, Zenon
    <3> HIDE DEF rest
    <3> QED
        BY <3>1, <3>2, Zenon
  <2> QED
      BY Zenon, <2>1, <2>2
<1>10. PlanRoot(pre.root, pre.db, plan) \in Roots
    BY <1>2, <1>5, PlanRootFacts, Zenon
<1> QED
    BY <1>2, <1>5, <1>9, <1>10, RootsEqual

\* Every step is a step of the atomic transaction or leaves root and tables,
\* as far as they count, alone.
LEMMA StepSettles ==
    ASSUME PInv, PInv', [Next]_vars
    PROVE  \/ UNCHANGED <<Settled, db>>
           \/ \E pl \in Requests :
                 /\ Accepted(db, pl)
                 /\ \A q \in Gone(pl) : db[q] # None
                 /\ OneOwner(PlanDb(db, pl))
                 /\ db' = PlanDb(db, pl)
                 /\ Settled' = PlanRoot(Settled, db, pl)
<1>0. PhaseInv /\ PhaseInv' /\ FailureLeavesNoTrace'
    BY Zenon DEF PInv, IInv, RevertInv
<1>1. ASSUME pc # "idle", pc' # "idle", UNCHANGED <<pre, db>>
      PROVE  UNCHANGED <<Settled, db>>
    BY <1>1 DEF Settled
<1>2. CASE \E pl \in Requests : TxnNew(pl)
    BY <1>2 DEF TxnNew, Settled
<1>3. CASE SnapshotFail
    BY <1>0, <1>3, Zenon DEF SnapshotFail, Settled, PhaseInv
<1>4. CASE Finish
    BY Zenon, <1>0, <1>4 DEF Finish, Settled, FailureLeavesNoTrace
<1>5. CASE Commit
  <2>1. /\ pc = "next" /\ db' = view /\ pc' = "idle" /\ UNCHANGED root /\ db = pre.db
        /\ ri > Len(plan.remove)
      BY Zenon, <1>0, <1>5 DEF Commit, PhaseInv
  <2>2. Settled = pre.root /\ Settled' = root
      BY <2>1 DEF Settled
  <2>3. plan \in Requests /\ Accepted(pre.db, plan)
      BY Zenon, <2>1 DEF PInv, PlanInv
  <2>4. \A q \in Gone(plan) : pre.db[q] # None
      BY <2>1, DoneGrows, Zenon DEF PInv, IInv, ViewInv, Working
  <2> QED
      BY Zenon, <1>5, <2>1, <2>2, <2>3, <2>4, CommitsPlanDb, CommitsPlanRoot
<1>6. CASE \/ SnapshotCreate \/ SqlBegin \/ RemoveBegin \/ RecordRemove
           \/ InstallBegin \/ AppendAdded \/ ExtractEnd \/ RecordInstall
           \/ Fail \/ RevertUnlinkEnd
    BY <1>1, <1>6, Zenon
       DEF SnapshotCreate, SqlBegin, RemoveBegin, RecordRemove, InstallBegin,
           AppendAdded, ExtractEnd, RecordInstall, Fail, RevertUnlinkEnd, Working
<1>7. CASE \E p \in Paths : \/ RemoveFile(p) \/ CheckFile(p) \/ ExtractFile(p)
                            \/ DropOldFile(p) \/ RevertUnlink(p) \/ RevertRestore(p)
    BY <1>1, <1>7, Zenon
       DEF RemoveFile, CheckFile, ExtractFile, DropOldFile, RevertUnlink,
           RevertRestore
<1>8. CASE UNCHANGED vars
    BY Zenon, <1>8 DEF vars, Settled
<1> QED
    BY <1>2, <1>3, <1>4, <1>5, <1>6, <1>7, <1>8, Zenon DEF Next, Step

\* The operators of the instance are those of Grains.
LEMMA SameOperators ==
    /\ \A d, pl : Atomic!Accepted(d, pl) <=> Accepted(d, pl)
    /\ \A d : Atomic!OneOwner(d) <=> OneOwner(d)
    /\ \A d, pl : Atomic!PlanDb(d, pl) = PlanDb(d, pl)
    /\ \A r, d, pl : Atomic!PlanRoot(r, d, pl) = PlanRoot(r, d, pl)
    /\ \A pl : Atomic!Gone(pl) = Gone(pl)
<1> USE DEF Atomic!Gone, Gone, Atomic!Items, Items, Atomic!Arriving, Arriving,
            Atomic!FilesOf, FilesOf
<1>1. \A d, pl : Atomic!Accepted(d, pl) <=> Accepted(d, pl)
    BY Zenon DEF Atomic!Accepted, Accepted, Atomic!check_conflicts, check_conflicts,
           Atomic!check_dangling, check_dangling, Atomic!ConflictsWith,
           ConflictsWith, Atomic!Revdeps, Revdeps
<1>2. \A d : Atomic!OneOwner(d) <=> OneOwner(d)
    BY Zenon DEF Atomic!OneOwner, OneOwner, Atomic!Owners, Owners
<1>3. \A d, pl : Atomic!PlanDb(d, pl) = PlanDb(d, pl)
    BY DEF Atomic!PlanDb, PlanDb
<1>4. \A r, d, pl : Atomic!PlanRoot(r, d, pl) = PlanRoot(r, d, pl)
    BY Zenon DEF Atomic!PlanRoot, PlanRoot
<1> QED
    BY <1>1, <1>2, <1>3, <1>4, Zenon

\* native_transaction implements the indivisible transaction.
THEOREM Atomicity == Spec => AtomicSpec
<1>1. Init => Atomic!Init
    BY Zenon DEF Init, Atomic!Init, Settled
<1>2. PInv /\ PInv' /\ [Next]_vars => [Atomic!Next]_(Atomic!vars)
    BY Zenon, StepSettles, SameOperators DEF Atomic!Next, Atomic!Transaction, Atomic!vars
<1> QED
    BY <1>1, <1>2, Progress, PTL DEF Spec, AtomicSpec, Atomic!Spec

-----------------------------------------------------------------------------
\* Root and tables agree, as far as they count, and nothing conflicts.
SystemInv == PInv /\ FilesInPlace(Settled, db) /\ NoConflicts(db)

\* Every transaction keeps it so.
LEMMA SystemStep ==
    ASSUME SystemInv, PInv', [Next]_vars
    PROVE  FilesInPlace(Settled', db') /\ NoConflicts(db')
<1>1. CASE UNCHANGED <<Settled, db>>
    BY <1>1 DEF SystemInv
<1>2. CASE \E pl \in Requests :
              /\ Accepted(db, pl)
              /\ \A q \in Gone(pl) : db[q] # None
              /\ OneOwner(PlanDb(db, pl))
              /\ db' = PlanDb(db, pl)
              /\ Settled' = PlanRoot(Settled, db, pl)
  <2>1. PICK pl \in Requests :
              /\ Accepted(db, pl)
              /\ OneOwner(PlanDb(db, pl))
              /\ db' = PlanDb(db, pl)
              /\ Settled' = PlanRoot(Settled, db, pl)
      BY <1>2
  <2>2. pl \in Plans /\ db \in Dbs /\ OneOwner(db) /\ Settled \in Roots
      BY RequestsAssumption, Zenon DEF SystemInv, PInv, IInv, TypeOK, OwnerInv, Settled
  <2>3. FilesInPlace(Settled', db')
      BY <2>1, <2>2, PlanKeepsFiles DEF SystemInv
  <2>4. NoConflicts(db')
      BY <2>1, <2>2, PlanKeepsConflictFree, Zenon DEF SystemInv, Accepted
  <2> QED
      BY <2>3, <2>4
<1> QED
    BY Zenon, <1>1, <1>2, StepSettles DEF SystemInv

\* The system is consistent in every reachable state.
THEOREM Consistency == Spec => []SystemInv
<1>1. Init => SystemInv
  <2> SUFFICES ASSUME Init PROVE FilesInPlace(Settled, db) /\ NoConflicts(db) /\ PInv
      BY DEF SystemInv
  <2>1. PInv
      BY InvInit, Zenon DEF Init, PInv, PlanInv, ViewInv, RootInv, Working
  <2> QED
      BY Zenon, <2>1 DEF Init, FilesInPlace, NoConflicts, FilesOf
<1>2. SystemInv /\ PInv' /\ [Next]_vars => SystemInv'
  <2> SUFFICES ASSUME SystemInv, PInv', [Next]_vars PROVE SystemInv'
      OBVIOUS
  <2>1. FilesInPlace(Settled', db') /\ NoConflicts(db')
      BY SystemStep
  <2> QED
      BY <2>1, Zenon DEF SystemInv, FilesInPlace, NoConflicts, FilesOf
<1> QED
    BY <1>1, <1>2, Progress, PTL DEF Spec

\* As long as no process dies, the system is never half installed between two
\* transactions: each recorded file has one owner and its owner's content.
THEOREM HalfInstalledNever == Spec => []NeverHalfInstalled
<1>1. SystemInv => NeverHalfInstalled
    BY Zenon DEF SystemInv, PInv, IInv, OwnerInv, NeverHalfInstalled, Settled
<1> QED
    BY <1>1, Consistency, PTL

\* No sequence of plans installs two packages that conflict.
THEOREM ConflictFree == Spec => []NoConflictsInstalled
<1>1. SystemInv => NoConflictsInstalled
    BY DEF SystemInv, NoConflictsInstalled
<1> QED
    BY <1>1, Consistency, PTL
=============================================================================
