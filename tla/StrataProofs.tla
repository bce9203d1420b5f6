----------------------------- MODULE StrataProofs ---------------------------
(***************************************************************************)
(* Proofs about the strata and their commands: snapshots and rollbacks,    *)
(* then the aliases the strata put on the host.                            *)
(***************************************************************************)
EXTENDS StrataCli, FiniteSetTheorems, TLAPS

\* The provers of a step that names none, in this order; 30 is in seconds.
USE SMTT(30), Zenon

kept == <<snapshots, store, reused, doomed, ids>>
traced == <<exposed, shims, torn, doomed>>

\* What a step may change: only three operations write the snapshot directory
\* or its table, only three write shims or their rows, one the providers, and
\* directories come and go under a fixed set of names.
LEMMA Frame ==
    ASSUME Next
    PROVE  /\ Snapshot \/ Rollback \/ Destroy \/ UNCHANGED kept
           /\ Expose \/ Unexpose \/ Destroy \/ (UNCHANGED traced /\ strata \subseteq strata')
           /\ DOMAIN tree' = DOMAIN tree
           /\ ProviderSet \/ UNCHANGED provVars
  <1>1. CASE \E c \in menu.commands : Start(c)
    BY <1>1 DEF Start, treeVars, hostVars, kept, traced
  <1>2. CASE \E f \in menu.configs : Edit(f)
    BY <1>2 DEF Edit, treeVars, hostVars, kept, traced
  <1>3. CASE Crash
    BY <1>3 DEF Crash, treeVars, hostVars, kept, traced
  <1>4. CASE Library
    <2>1. CASE Bootstrap \/ Keyring
      BY <2>1 DEF Bootstrap, Keyring,
                  hostVars, kept, traced
    <2>2. CASE Snapshot
      BY <2>2 DEF Snapshot,
                  hostVars, traced
    <2>3. CASE Rollback
      BY Zenon, <2>3 DEF Rollback,
                  hostVars, traced
    <2>4. CASE Destroy
      BY Zenon, <2>4 DEF Destroy,
                  hostVars
    <2>5. CASE Pkg \/ InstallExact
      BY <2>5 DEF Pkg, InstallExact,
                  hostVars, kept, traced
    <2>6. CASE Expose \/ Unexpose
      BY <2>6 DEF Expose, Unexpose,
                  treeVars, kept
    <2>7. CASE ExposeAll \/ ExposeDesktop \/ Service
      BY <2>7, Zenon DEF ExposeAll, ExposeDesktop, Service,
                  treeVars, hostVars, kept, traced
    <2>8. CASE ProviderSet \/ ProviderRollback
      BY <2>8 DEF ProviderSet, ProviderRollback,
                  treeVars, hostVars, kept, traced
    <2> QED BY Zenon, <1>4, <2>1, <2>2, <2>3, <2>4, <2>5, <2>6, <2>7, <2>8 DEF Library
  <1>5. CASE Steps
    <2>1. CASE Open \/ Ensure \/ Adopt \/ Disown \/ LockApply \/ Verify \/ Settle
      BY <2>1, Zenon DEF Open, Ensure, Adopt, Disown, LockApply, Verify, Settle,
                  still, treeVars, hostVars, kept, traced
    <2>2. CASE Run
      BY <2>2 DEF Run,
                  hostVars, kept, traced
    <2>3. CASE Retire \/ Disable \/ LockWrite \/ ApplyStratum \/ Compare \/ Unlist
      BY <2>3, Zenon DEF Retire, Disable, LockWrite, ApplyStratum, Compare, Unlist,
                  treeVars, hostVars, kept, traced
    <2>4. CASE ConfigApply \/ DeclareStratum \/ Want \/ Part \/ Unknown
      BY <2>4, Zenon DEF ConfigApply, DeclareStratum, Want, Part, Unknown,
                  still, treeVars, hostVars, kept, traced
    <2> QED BY <1>5, <2>1, <2>2, <2>3, <2>4 DEF Steps
  <1> QED BY <1>1, <1>2, <1>3, <1>4, <1>5 DEF Next

-----------------------------------------------------------------------------
(***************************************************************************)
(* A snapshot stays what it was taken of.  The only addition the invariant *)
(* needs is that a row's path lies in its own stratum's part of .snapshots,*)
(* so that the removal of one stratum leaves the others' snapshots alone.  *)
(***************************************************************************)
SnapInv == /\ \A r \in snapshots : r.path[1] = r.stratum
           /\ SnapshotsFaithful

\* Writing a path nobody uses leaves every faithful snapshot as it is.
LEMMA PutNew ==
    ASSUME NEW f, NEW x, x \notin DOMAIN f, NEW v,
           NEW y \in DOMAIN f
    PROVE  y \in DOMAIN Put(f, x, v) /\ Put(f, x, v)[y] = f[y]
  BY DEF Put

LEMMA SnapSnapshot == SnapInv /\ Snapshot => SnapInv'
  <1> SUFFICES ASSUME SnapInv, Snapshot PROVE SnapInv'
    OBVIOUS
  <1> DEFINE s == job[1][2]
             path == <<s, job[1][3], sec>>
             row == [id |-> ids + 1, stratum |-> s, path |-> path, was |-> tree[s]]
  <1>0. UNCHANGED doomed
    BY DEF Snapshot
  <1>1. CASE UNCHANGED <<snapshots, store, reused>>
    BY <1>0, <1>1 DEF SnapInv, SnapshotsFaithful
  <1>2. ASSUME NEW v, store' = Put(store, path, v),
               reused' = IF path \in DOMAIN store THEN reused \cup {path} ELSE reused,
               \/ UNCHANGED snapshots
               \/ snapshots' = snapshots \cup {row} /\ v = Overlay(path, tree[s])
        PROVE  SnapInv'
    <2>1. \A r \in snapshots' : r \in snapshots \/ r = row
      BY <1>2
    <2>2. \A r \in snapshots' : r.path[1] = r.stratum
      BY <2>1 DEF SnapInv
    <2>3. ASSUME NEW r \in snapshots, r.stratum \notin doomed, r.path \notin reused'
          PROVE  r.path \in DOMAIN store' /\ store'[r.path] = r.was
      <3>1. r.path \in DOMAIN store /\ store[r.path] = r.was
        BY <1>2, <2>3 DEF SnapInv, SnapshotsFaithful
      <3>2. r.path # path
        BY <1>2, <2>3, <3>1
      <3> QED BY <1>2, <3>1, <3>2 DEF Put
    <2>4. ASSUME row \in snapshots' \ snapshots, row.path \notin reused'
          PROVE  row.path \in DOMAIN store' /\ store'[row.path] = row.was
      <3>1. path \notin DOMAIN store
        BY <1>2, <2>4
      <3>2. v = tree[s]
        BY <1>2, <2>4, <3>1 DEF Overlay
      <3> QED BY <1>2, <3>2 DEF Put
    <2> QED BY <1>0, <2>1, <2>2, <2>3, <2>4 DEF SnapInv, SnapshotsFaithful
  <1>3. \/ UNCHANGED <<snapshots, store, reused>>
        \/ \E v : /\ store' = Put(store, path, v)
                  /\ reused' = IF path \in DOMAIN store THEN reused \cup {path} ELSE reused
                  /\ \/ UNCHANGED snapshots
                     \/ snapshots' = snapshots \cup {row} /\ v = Overlay(path, tree[s])
    BY Zenon DEF Snapshot, Arg
  <1> QED BY Zenon, <1>1, <1>2, <1>3

LEMMA SnapRollback == SnapInv /\ Rollback => SnapInv'
  <1> SUFFICES ASSUME SnapInv, Rollback PROVE SnapInv'
    OBVIOUS
  <1> DEFINE s == job[1][2]
             safe == <<s, "prerollback", sec>>
  <1>1. UNCHANGED <<snapshots, reused, doomed>>
    BY Zenon DEF Rollback
  <1>2. \/ UNCHANGED store
        \/ safe \notin DOMAIN store /\ store' = Put(store, safe, tree[s])
    BY Zenon DEF Rollback, Arg
  <1>3. \A y \in DOMAIN store : y \in DOMAIN store' /\ store'[y] = store[y]
    BY <1>2, PutNew
  <1> QED BY <1>1, <1>3 DEF SnapInv, SnapshotsFaithful

LEMMA SnapDestroy == SnapInv /\ Destroy => SnapInv'
  <1> SUFFICES ASSUME SnapInv, Destroy PROVE SnapInv'
    OBVIOUS
  <1> DEFINE s == job[1][2]
  <1>1. UNCHANGED reused
    BY Zenon DEF Destroy
  <1>2. CASE UNCHANGED <<snapshots, store, doomed>>
    BY <1>1, <1>2 DEF SnapInv, SnapshotsFaithful
  <1>3. ASSUME NEW did,
               \A p \in DOMAIN store : p[1] # s => p \in DOMAIN store' /\ store'[p] = store[p],
               snapshots' = IF 5 \in did THEN snapshots \ Rows(s) ELSE snapshots,
               doomed' = IF did = 1..6 THEN doomed \ {s} ELSE doomed \cup {s}
        PROVE  SnapInv'
    <2>1. snapshots' \subseteq snapshots
      BY <1>3
    <2>2. ASSUME NEW r \in snapshots', r.stratum \notin doomed', r.path \notin reused
          PROVE  r.path \in DOMAIN store' /\ store'[r.path] = r.was
      <3>1. r.stratum # s
        BY <1>3, <2>1, <2>2 DEF Rows
      <3>2. r.path[1] # s /\ r.path \in DOMAIN store /\ store[r.path] = r.was
        BY <1>3, <2>1, <2>2, <3>1 DEF SnapInv, SnapshotsFaithful
      <3> QED BY <1>3, <3>2
    <2> QED BY <1>1, <2>1, <2>2 DEF SnapInv, SnapshotsFaithful
  <1>4. \/ UNCHANGED <<snapshots, store, doomed>>
        \/ \E did, hurt :
              /\ \A p \in hurt : p[1] = s
              /\ store' = [p \in {q \in DOMAIN store : 2 \in did => q[1] # s} |->
                             IF p \in hurt THEN Partial ELSE store[p]]
              /\ snapshots' = IF 5 \in did THEN snapshots \ Rows(s) ELSE snapshots
              /\ doomed' = IF did = 1..6 THEN doomed \ {s} ELSE doomed \cup {s}
    BY Zenon DEF Destroy, Arg
  <1>5. ASSUME NEW did, NEW hurt, \A p \in hurt : p[1] = s,
               store' = [p \in {q \in DOMAIN store : 2 \in did => q[1] # s} |->
                           IF p \in hurt THEN Partial ELSE store[p]]
        PROVE  \A p \in DOMAIN store : p[1] # s => p \in DOMAIN store' /\ store'[p] = store[p]
    BY Zenon, <1>5
  <1> QED BY Zenon, <1>2, <1>3, <1>4, <1>5

LEMMA SnapStep == SnapInv /\ [Next]_vars => SnapInv'
  <1> SUFFICES ASSUME SnapInv, [Next]_vars PROVE SnapInv'
    OBVIOUS
  <1>1. CASE UNCHANGED kept
    BY <1>1 DEF kept, SnapInv, SnapshotsFaithful
  <1>2. CASE UNCHANGED vars
    BY <1>1, <1>2 DEF vars, treeVars, kept
  <1> QED BY <1>1, <1>2, Frame, SnapSnapshot, SnapRollback, SnapDestroy

LEMMA SnapInit == Init => SnapInv
  BY Zenon DEF Init, SnapInv, SnapshotsFaithful

\* However many snapshots, rollbacks, removals, failures and crashes there
\* are, a recorded snapshot holds the tree it was taken of, but for a path that
\* was written twice and a stratum whose removal stopped midway.
THEOREM SnapshotsStay == Spec => []SnapshotsFaithful
  <1>1. SnapInv => SnapshotsFaithful
    BY Zenon DEF SnapInv
  <1> QED BY SnapInit, SnapStep, <1>1, PTL DEF Spec

-----------------------------------------------------------------------------
(***************************************************************************)
(* A rollback that reports success put back the chosen snapshot.           *)
(*                                                                         *)
(* The command is a job of one operation, which looks up the row by its    *)
(* id: ids are given out once, so the row found is the row meant, and what *)
(* is at its path is what it was taken of (SnapshotsFaithful).             *)
(***************************************************************************)
IdInv == /\ ids \in Nat
         /\ \A r \in snapshots : r.id \in Nat /\ r.id <= ids
         /\ \A r, q \in snapshots : r.id = q.id => r = q

JobInv == /\ menu \in Menus /\ DOMAIN tree = StratumNames
          /\ cmd[1] = "rollback" =>
                /\ cmd[2] \in StratumNames
                /\ job # <<>> => job = <<<<"rollback", cmd[2], cmd[3]>>>>

RollInv == SnapInv /\ IdInv /\ JobInv /\ RollbackExact

LEMMA IdStep == IdInv /\ [Next]_vars => IdInv'
  <1> SUFFICES ASSUME IdInv, [Next]_vars PROVE IdInv'
    OBVIOUS
  <1>1. CASE UNCHANGED <<snapshots, ids>>
    BY <1>1 DEF IdInv
  <1>2. CASE Snapshot
    <2>1. \/ UNCHANGED <<snapshots, ids>>
          \/ \E st, path, was :
                /\ ids' = ids + 1
                /\ snapshots' = snapshots \cup
                      {[id |-> ids + 1, stratum |-> st, path |-> path, was |-> was]}
      BY Zenon, <1>2 DEF Snapshot
    <2> QED BY <1>1, <2>1 DEF IdInv
  <1>3. CASE Rollback
    BY Zenon, <1>1, <1>3 DEF Rollback
  <1>4. CASE Destroy
    <2>1. snapshots' \subseteq snapshots /\ ids' = ids
      BY Zenon, <1>4 DEF Destroy
    <2> QED BY <2>1 DEF IdInv
  <1>5. CASE UNCHANGED vars
    BY <1>1, <1>5 DEF vars, treeVars
  <1> QED BY <1>1, <1>2, <1>3, <1>4, <1>5, Frame DEF kept

\* Within a command, a step is the operation at the head of its job; it stays
\* the same command unless the process dies.
LEMMA AtHead ==
    ASSUME Library \/ Steps
    PROVE  /\ job # <<>> /\ menu' = menu
           /\ cmd' = cmd \/ cmd' = <<"crashed">>
           /\ Doing("rollback") => Rollback
           /\ Doing("snapshot") => Snapshot
           /\ Doing("pkg") => Pkg
           /\ Doing("expose") => Expose
           /\ Doing("expose_all") => ExposeAll
           /\ Doing("open") => Open
           /\ Doing("run") => Run
           /\ Doing("provider_set") => ProviderSet
           /\ Doing("provider_rollback") => ProviderRollback
  <1>1. CASE Library
    <2>1. CASE Bootstrap \/ Keyring \/ Snapshot
      BY <2>1, Zenon DEF Bootstrap, Keyring, Snapshot,
                  runVars, bounds, Doing
    <2>2. CASE Rollback
      BY <2>2, Zenon DEF Rollback,
                  runVars, bounds, Dead, Doing
    <2>3. CASE Destroy
      BY <2>3, Zenon DEF Destroy,
                  runVars, bounds, Dead, Doing
    <2>4. CASE Pkg \/ InstallExact
      BY Zenon, <2>4 DEF Pkg, InstallExact,
                  runVars, bounds, Doing
    <2>5. CASE Expose \/ ExposeAll \/ Unexpose \/ ExposeDesktop \/ Service
      BY <2>5, Zenon DEF Expose, ExposeAll, Unexpose, ExposeDesktop, Service,
                  runVars, bounds, Doing
    <2>6. CASE ProviderSet \/ ProviderRollback
      BY <2>6, Zenon DEF ProviderSet, ProviderRollback,
                  runVars, bounds, Doing
    <2> QED BY Zenon, <1>1, <2>1, <2>2, <2>3, <2>4, <2>5, <2>6 DEF Library
  <1>2. CASE Steps
    <2>1. CASE Open \/ Ensure \/ Adopt \/ Disown \/ LockApply \/ Verify \/ Settle
      BY <2>1, Zenon DEF Open, Ensure, Adopt, Disown, LockApply, Verify, Settle,
                  still, runVars, bounds, Doing
    <2>2. CASE Run \/ Retire \/ Disable \/ LockWrite \/ ApplyStratum \/ Compare \/ Unlist
      BY <2>2, Zenon DEF Run, Retire, Disable, LockWrite, ApplyStratum, Compare, Unlist,
                  runVars, bounds, Doing
    <2>3. CASE ConfigApply \/ DeclareStratum \/ Want \/ Part \/ Unknown
      BY <2>3, Zenon DEF ConfigApply, DeclareStratum, Want, Part, Unknown,
                  still, runVars, bounds, Doing
    <2> QED BY Zenon, <1>2, <2>1, <2>2, <2>3 DEF Steps
  <1> QED BY <1>1, <1>2

LEMMA JobStep == JobInv /\ [Next]_vars => JobInv'
  <1> SUFFICES ASSUME JobInv, [Next]_vars PROVE JobInv'
    OBVIOUS
  <1>1. CASE UNCHANGED vars
    BY <1>1 DEF vars, treeVars, runVars, bounds, JobInv
  <1>2. CASE \E c \in menu.commands : Start(c)
    <2>1. PICK c \in menu.commands : Start(c)
      BY <1>2
    <2>2. menu' = menu /\ cmd' = c /\ job' = Program(c) /\ DOMAIN tree' = DOMAIN tree
      BY <2>1, Zenon DEF Start, treeVars
    <2>3. c[1] = "rollback" => c[2] \in StratumNames
      BY Zenon, <2>1, MenuAssumption DEF JobInv
    <2>4. c[1] = "rollback" => Program(c) = <<<<"rollback", c[2], c[3]>>>>
      BY DEF Program, stratum_rollback
    <2> QED BY <2>2, <2>3, <2>4 DEF JobInv
  <1>3. CASE (\E f \in menu.configs : Edit(f)) \/ Crash
    <2>1. menu' = menu /\ cmd'[1] \in {"edit", "crashed"} /\ DOMAIN tree' = DOMAIN tree
      BY <1>3 DEF Edit, Crash, Dead, treeVars, bounds
    <2> QED BY <2>1 DEF JobInv
  <1>4. CASE Library \/ Steps
    <2>1. menu' = menu /\ DOMAIN tree' = DOMAIN tree /\ job # <<>>
      BY <1>4, AtHead, Frame DEF Next
    <2>2. CASE cmd'[1] # "rollback"
      BY <2>1, <2>2 DEF JobInv
    <2>3. CASE cmd'[1] = "rollback"
      <3>1. cmd' = cmd
        BY <1>4, <2>3, AtHead
      <3>2. job = <<<<"rollback", cmd[2], cmd[3]>>>> /\ cmd[2] \in StratumNames
        BY <2>1, <2>3, <3>1 DEF JobInv
      <3>3. Rollback
        BY <1>4, <3>2, AtHead DEF Doing
      <3>4. Resume = <<>> /\ Tail(job) = <<>>
        BY <3>2 DEF Resume
      <3>5. job' = <<>>
        BY <3>3, <3>4, Zenon DEF Rollback, Go, Fail, Dead
      <3> QED BY <2>1, <3>1, <3>2, <3>5 DEF JobInv
    <2> QED BY <2>2, <2>3
  <1> QED BY <1>1, <1>2, <1>3, <1>4 DEF Next

LEMMA RollStep == RollInv /\ [Next]_vars => RollbackExact'
  <1> SUFFICES ASSUME RollInv, [Next]_vars, job' = <<>>, cmd'[1] = "rollback", rc' = 0,
                      NEW r \in Rows(cmd[2])',
                      IF cmd'[3] > 0 THEN r.id = cmd'[3] ELSE \A q \in Rows(cmd[2])' : q.id <= r.id
               PROVE  \/ tree'[cmd'[2]] = IF r.path \in reused' \/ cmd'[2] \in doomed'
                                          THEN store'[r.path] ELSE r.was
                      \/ /\ stuck' # Missing
                         /\ tree'[cmd'[2]] = IF use_btrfs' THEN stuck' ELSE Partial
    BY Zenon DEF RollbackExact, Done
  <1>1. CASE UNCHANGED vars
    BY Zenon, <1>1 DEF vars, treeVars, runVars, RollInv, RollbackExact, Done, Rows
  <1>2. CASE \E c \in menu.commands : Start(c)
    BY <1>2 DEF Start, Program, stratum_rollback
  <1>3. CASE (\E f \in menu.configs : Edit(f)) \/ Crash
    BY <1>3 DEF Edit, Crash, Dead
  <1>4. CASE Library \/ Steps
    <2>1. cmd' = cmd /\ job # <<>>
      BY <1>4, AtHead
    <2>2. job = <<<<"rollback", cmd[2], cmd[3]>>>> /\ cmd[2] \in DOMAIN tree
      BY <2>1 DEF RollInv, JobInv
    <2>3. Rollback
      BY <1>4, <2>2, AtHead DEF Doing
    <2>4. UNCHANGED <<snapshots, reused, doomed, use_btrfs>>
      BY <2>3, Zenon DEF Rollback
    <2>5. PICK q \in Chosen(cmd[2], cmd[3]) :
               /\ q.path \in DOMAIN store
               /\ tree' = [tree EXCEPT ![cmd[2]] =
                             IF stuck' \in {Missing, EmptyTree, store[q.path]}
                             THEN store[q.path]
                             ELSE IF use_btrfs THEN stuck' ELSE Partial]
      <3>1. job[1][2] = cmd[2] /\ job[1][3] = cmd[3]
        BY <2>2
      <3>2. cmd' # <<"crashed">> /\ rc' # 1
        BY <2>1
      <3>3. \/ Fail \/ Dead
            \/ \E q \in Chosen(job[1][2], job[1][3]) :
                  /\ q.path \in DOMAIN store
                  /\ tree' = [tree EXCEPT ![job[1][2]] =
                                IF stuck' \in {Missing, EmptyTree, store[q.path]}
                                THEN store[q.path]
                                ELSE IF use_btrfs THEN stuck' ELSE Partial]
        BY Zenon, <2>3 DEF Rollback, Arg
      <3> QED BY Zenon, <3>1, <3>2, <3>3 DEF Fail, Dead
    <2>6. q = r
      <3>1. Rows(cmd[2])' = Rows(cmd[2])
        BY Zenon, <2>1, <2>4 DEF Rows
      <3>2. r \in Rows(cmd[2]) /\ q \in Rows(cmd[2])
        BY Zenon, <2>5, <3>1 DEF Chosen, Newest
      <3>3. q \in snapshots /\ r \in snapshots /\ q.id \in Nat /\ r.id \in Nat
        BY <3>2, Zenon DEF Rows, RollInv, IdInv
      <3>4. CASE cmd[3] > 0
        BY Zenon, <2>1, <2>5, <3>3, <3>4 DEF Chosen, RollInv, IdInv
      <3>5. CASE ~(cmd[3] > 0)
        <4>1. q.id <= r.id
          BY Zenon, <2>1, <3>1, <3>2, <3>5
        <4>2. r.id <= q.id
          BY Zenon, <2>5, <3>2, <3>5 DEF Chosen, Newest
        <4>3. q.id = r.id
          BY <3>3, <4>1, <4>2
        <4> QED BY <3>3, <4>3, Zenon DEF RollInv, IdInv
      <3> QED BY Zenon, <3>4, <3>5
    <2>7. r.path \notin reused /\ cmd[2] \notin doomed => store[r.path] = r.was
      BY Zenon, <2>1, <2>4 DEF RollInv, SnapInv, SnapshotsFaithful, Rows
    <2>8. store'[r.path] = store[r.path]
      <3>1. \/ UNCHANGED store
            \/ \E safe, v : safe \notin DOMAIN store /\ store' = Put(store, safe, v)
        BY Zenon, <2>3 DEF Rollback
      <3>2. ASSUME NEW safe, NEW v, safe \notin DOMAIN store, store' = Put(store, safe, v)
            PROVE  store'[r.path] = store[r.path]
        BY <2>5, <2>6, <3>2, PutNew
      <3> QED BY Zenon, <3>1, <3>2
    <2>9. tree'[cmd[2]] = IF stuck' \in {Missing, EmptyTree, store[r.path]}
                          THEN store[r.path]
                          ELSE IF use_btrfs THEN stuck' ELSE Partial
      BY Zenon, <2>2, <2>5, <2>6
    <2> QED BY Zenon, <2>1, <2>4, <2>7, <2>8, <2>9
  <1> QED BY <1>1, <1>2, <1>3, <1>4 DEF Next

LEMMA RollInit == Init => RollInv
  <1> SUFFICES ASSUME Init PROVE RollInv
    OBVIOUS
  <1>1. IdInv
    BY Zenon DEF Init, IdInv
  <1>2. JobInv
    BY Zenon DEF Init, JobInv
  <1>3. RollbackExact
    BY Zenon DEF Init, RollbackExact
  <1> QED BY <1>1, <1>2, <1>3, SnapInit DEF RollInv

\* salt stratum rollback exits 0 with what the chosen snapshot was taken of in
\* place or, where the snapshot itself was written twice or removed in part,
\* what it holds; unless the live tree could not be removed, and then the
\* stratum has that tree (on Btrfs) or a mixture of the two.
THEOREM RollbackIsExact == Spec => []RollbackExact
  <1>1. RollInv /\ [Next]_vars => RollInv'
    BY SnapStep, IdStep, JobStep, RollStep DEF RollInv
  <1>2. RollInv => RollbackExact
    BY DEF RollInv
  <1> QED BY RollInit, <1>1, <1>2, PTL DEF Spec

-----------------------------------------------------------------------------
(***************************************************************************)
(* salt provider rollback goes back one choice.                            *)
(*                                                                         *)
(* As long as every choice of a component got both its history entry and   *)
(* its row, the row names the last entry but one, and the last two entries *)
(* are the last two choices.  E are the numbers of the component's entries *)
(* in the history h, s its choices, row its row.                           *)
(***************************************************************************)
ChoiceInv(E, h, s, row) ==
    /\ IsFiniteSet(E) /\ E \subseteq 1..Len(h)
    /\ Len(s) <= Cardinality(E)
    /\ Cardinality(E) = Len(s) =>
          /\ Len(s) = 0 => row = None
          /\ Len(s) >= 1 => /\ row = [p |-> s[Len(s)], target |-> Latest(E \ {Latest(E)})]
                            /\ Latest(E) \in E /\ h[Latest(E)].p = s[Len(s)]
          /\ Len(s) >= 2 => /\ Latest(E \ {Latest(E)}) \in E
                            /\ h[Latest(E \ {Latest(E)})].p = s[Len(s) - 1]

ProvInv ==
    /\ DOMAIN providers = Components /\ DOMAIN chosen = Components
    /\ \E H : history \in Seq(H)
    /\ \A c \in Components : /\ \E S : chosen[c] \in Seq(S)
                             /\ ChoiceInv(Entries(c), history, chosen[c], providers[c])

\* What the running rollback is about to choose.
BackInv ==
    cmd[1] = "provider-rollback" =>
        /\ cmd[2] \in Components
        /\ \/ job = <<>>
           \/ job = <<<<"provider_rollback", cmd[2]>>>>
           \/ \E h : /\ job = <<<<"provider_set", cmd[2], h>>>>
                     /\ Cardinality(Entries(cmd[2])) = Len(chosen[cmd[2]]) =>
                           /\ Len(chosen[cmd[2]]) >= 2
                           /\ h = chosen[cmd[2]][Len(chosen[cmd[2]]) - 1]

\* A new entry is the latest.
LEMMA LatestNew ==
    ASSUME NEW n \in Nat, NEW E, E \subseteq 1..n
    PROVE  /\ Latest(E \cup {n + 1}) = n + 1
           /\ (E \cup {n + 1}) \ {n + 1} = E
           /\ n + 1 \notin E
           /\ E \cup {n + 1} \subseteq 1..(n + 1)
  <1>1. \A j \in E : j \in Nat /\ j <= n
    OBVIOUS
  <1>2. n + 1 \notin E
    BY <1>1
  <1>3. \A i \in E \cup {n + 1} : (\A j \in E \cup {n + 1} : j <= i) <=> i = n + 1
    BY <1>1
  <1>4. (CHOOSE i \in E \cup {n + 1} : \A j \in E \cup {n + 1} : j <= i) = n + 1
    BY Zenon, <1>3
  <1>5. 1..n \subseteq 1..(n + 1) /\ n + 1 \in 1..(n + 1)
    OBVIOUS
  <1> QED BY Zenon, <1>2, <1>4, <1>5 DEF Latest

\* Another component's entry.
LEMMA ChoiceOther ==
    ASSUME NEW H, NEW h \in Seq(H), NEW x, NEW E, NEW s, NEW row, ChoiceInv(E, h, s, row)
    PROVE  ChoiceInv(E, Append(h, x), s, row)
  <1>1. /\ Len(h) \in Nat /\ Len(Append(h, x)) = Len(h) + 1
        /\ \A i \in 1..Len(h) : Append(h, x)[i] = h[i]
    OBVIOUS
  <1>2. E \subseteq 1..Len(h) /\ E \subseteq 1..Len(Append(h, x))
    BY <1>1 DEF ChoiceInv
  <1>3. \A i \in E : Append(h, x)[i] = h[i]
    BY <1>1, <1>2
  <1> QED BY Zenon, <1>2, <1>3 DEF ChoiceInv

\* An entry whose row was not written.
LEMMA ChoiceTorn ==
    ASSUME NEW H, NEW h \in Seq(H), NEW x, NEW E, NEW S, NEW s \in Seq(S), NEW row,
           ChoiceInv(E, h, s, row)
    PROVE  ChoiceInv(E \cup {Len(h) + 1}, Append(h, x), s, row)
  <1>1. /\ Len(h) \in Nat /\ Len(Append(h, x)) = Len(h) + 1 /\ Len(s) \in Nat
    OBVIOUS
  <1>2. IsFiniteSet(E) /\ E \subseteq 1..Len(h) /\ Len(s) <= Cardinality(E)
    BY Zenon DEF ChoiceInv
  <1>3. Len(h) + 1 \notin E
    BY <1>1, <1>2, LatestNew
  <1>4. /\ IsFiniteSet(E \cup {Len(h) + 1})
        /\ Cardinality(E \cup {Len(h) + 1}) = Cardinality(E) + 1
    BY <1>2, <1>3, FS_AddElement
  <1>5. Cardinality(E) \in Nat
    BY <1>2, FS_CardinalityType
  <1>6. /\ Len(s) <= Cardinality(E \cup {Len(h) + 1})
        /\ Cardinality(E \cup {Len(h) + 1}) # Len(s)
    BY <1>1, <1>2, <1>4, <1>5
  <1>7. E \cup {Len(h) + 1} \subseteq 1..Len(Append(h, x))
    BY Zenon, <1>1, <1>2, LatestNew
  <1> QED BY Zenon, <1>4, <1>6, <1>7 DEF ChoiceInv

\* A choice with both its writes.
LEMMA ChoiceMade ==
    ASSUME NEW H, NEW h \in Seq(H), NEW c, NEW p, NEW E, NEW S, NEW s \in Seq(S), NEW row,
           ChoiceInv(E, h, s, row)
    PROVE  ChoiceInv(E \cup {Len(h) + 1}, Append(h, [c |-> c, p |-> p]), Append(s, p),
                     [p |-> p, target |-> Latest(E)])
  <1> DEFINE n == Len(h) + 1
             F == E \cup {n}
             k == Append(h, [c |-> c, p |-> p])
             z == Append(s, p)
             new == [p |-> p, target |-> Latest(E)]
  <1>1. /\ Len(h) \in Nat /\ Len(k) = n /\ k[n].p = p
        /\ \A i \in 1..Len(h) : k[i] = h[i]
    OBVIOUS
  <1>2. /\ Len(s) \in Nat /\ Len(z) = Len(s) + 1 /\ z[Len(s) + 1] = p
        /\ \A i \in 1..Len(s) : z[i] = s[i]
    OBVIOUS
  <1>3. IsFiniteSet(E) /\ E \subseteq 1..Len(h) /\ Len(s) <= Cardinality(E)
    BY Zenon DEF ChoiceInv
  <1>4. Latest(F) = n /\ F \ {n} = E /\ n \notin E
    BY Zenon, <1>1, <1>3, LatestNew
  <1>5. IsFiniteSet(F) /\ Cardinality(F) = Cardinality(E) + 1 /\ Cardinality(E) \in Nat
    BY Zenon, <1>3, <1>4, FS_AddElement, FS_CardinalityType
  <1>6. F \subseteq 1..n /\ n \in F
    BY Zenon, <1>1, <1>3, LatestNew
  <1> HIDE DEF n, F, k, z
  <1>7. Len(z) <= Cardinality(F) /\ Len(z) >= 1 /\ Len(z) # 0
    BY <1>2, <1>3, <1>5
  <1>8. ASSUME Cardinality(F) = Len(z)
        PROVE  /\ new = [p |-> z[Len(z)], target |-> Latest(F \ {Latest(F)})]
               /\ Latest(F) \in F /\ k[Latest(F)].p = z[Len(z)]
               /\ Len(z) >= 2 => /\ Latest(F \ {Latest(F)}) \in F
                                 /\ k[Latest(F \ {Latest(F)})].p = z[Len(z) - 1]
    <2>1. Cardinality(E) = Len(s)
      BY <1>2, <1>5, <1>8
    <2>2. new = [p |-> z[Len(z)], target |-> Latest(F \ {Latest(F)})]
      BY Zenon, <1>2, <1>4
    <2>3. Latest(F) \in F /\ k[Latest(F)].p = z[Len(z)]
      BY <1>1, <1>2, <1>4, <1>6
    <2>4. ASSUME Len(z) >= 2
          PROVE  Latest(E) \in F /\ k[Latest(E)].p = z[Len(z) - 1]
      <3>1. Len(s) >= 1 /\ Len(z) - 1 = Len(s) /\ Len(s) \in 1..Len(s)
        BY <1>2, <2>4
      <3>2. Latest(E) \in E /\ h[Latest(E)].p = s[Len(s)]
        BY Zenon, <2>1, <3>1 DEF ChoiceInv
      <3>3. k[Latest(E)] = h[Latest(E)] /\ z[Len(s)] = s[Len(s)]
        BY Zenon, <1>1, <1>2, <1>3, <3>1, <3>2
      <3> QED BY Zenon, <3>1, <3>2, <3>3 DEF F
    <2> QED BY Zenon, <1>4, <2>2, <2>3, <2>4
  <1>9. ChoiceInv(F, k, z, new)
    BY Zenon, <1>1, <1>5, <1>6, <1>7, <1>8 DEF ChoiceInv
  <1> QED BY <1>9 DEF F, k, z, n

LEMMA NewEntry ==
    ASSUME ProvInv, ProviderSet, NEW d \in Components
    PROVE  /\ Entries(d)' = IF d = job[1][2] THEN Entries(d) \cup {Len(history) + 1} ELSE Entries(d)
           /\ Cardinality(Entries(d)) \in Nat
           /\ d = job[1][2] => Cardinality(Entries(d)') = Cardinality(Entries(d)) + 1
  <1> DEFINE x == [c |-> job[1][2], p |-> job[1][3]]
  <1>1. PICK H : history \in Seq(H)
    BY Zenon DEF ProvInv
  <1>2. history' = Append(history, x)
    BY Zenon DEF ProviderSet, Arg
  <1>3. x.c = job[1][2]
    BY Zenon
  <1> HIDE DEF x
  <1>4. /\ Len(history) \in Nat
        /\ DOMAIN history' = 1..(Len(history) + 1) /\ DOMAIN history = 1..Len(history)
        /\ \A i \in 1..Len(history) : history'[i] = history[i]
        /\ history'[Len(history) + 1] = x
    BY <1>1, <1>2
  <1>5. \A i \in 1..(Len(history) + 1) : i \in 1..Len(history) \/ i = Len(history) + 1
    BY <1>4
  <1>6. 1..Len(history) \subseteq 1..(Len(history) + 1) /\ Len(history) + 1 \in 1..(Len(history) + 1)
    BY <1>4
  <1>7. Entries(d)' = IF d = job[1][2] THEN Entries(d) \cup {Len(history) + 1} ELSE Entries(d)
    BY Zenon, <1>3, <1>4, <1>5, <1>6 DEF Entries
  <1>8. IsFiniteSet(Entries(d)) /\ Entries(d) \subseteq 1..Len(history)
    BY Zenon DEF ProvInv, ChoiceInv
  <1>9. Len(history) + 1 \notin Entries(d)
    BY <1>4, <1>8, LatestNew
  <1>10. /\ Cardinality(Entries(d)) \in Nat
         /\ Cardinality(Entries(d) \cup {Len(history) + 1}) = Cardinality(Entries(d)) + 1
    BY Zenon, <1>8, <1>9, FS_AddElement, FS_CardinalityType
  <1> QED BY Zenon, <1>7, <1>10

\* One choice, for the component it is about and for the others.
LEMMA ProvSet == ProvInv /\ ProviderSet => ProvInv'
  <1> SUFFICES ASSUME ProvInv, ProviderSet PROVE ProvInv'
    OBVIOUS
  <1> DEFINE c == job[1][2]
             p == job[1][3]
  <1>1. PICK H : history \in Seq(H)
    BY DEF ProvInv
  <1>2. history' = Append(history, [c |-> c, p |-> p])
    BY Zenon DEF ProviderSet, Arg
  <1>3. \/ /\ providers' = [providers EXCEPT ![c] = [p |-> p, target |-> Latest(Entries(c))]]
           /\ chosen' = [chosen EXCEPT ![c] = Append(chosen[c], p)]
        \/ UNCHANGED <<providers, chosen>>
    BY Zenon DEF ProviderSet, Arg
  <1> HIDE DEF c, p
  <1>4. history' \in Seq(H \cup {[c |-> c, p |-> p]})
    BY <1>1, <1>2
  <1>5. ASSUME NEW d \in Components
        PROVE  Entries(d)' = IF d = c THEN Entries(d) \cup {Len(history) + 1} ELSE Entries(d)
    BY Zenon, NewEntry DEF c
  <1>6. DOMAIN providers' = Components /\ DOMAIN chosen' = Components
    BY <1>3 DEF ProvInv
  <1>7. ASSUME NEW d \in Components
        PROVE  /\ \E S : chosen'[d] \in Seq(S)
               /\ ChoiceInv(Entries(d)', history', chosen'[d], providers'[d])
    <2>1. PICK S : chosen[d] \in Seq(S)
      BY DEF ProvInv
    <2>2. ChoiceInv(Entries(d), history, chosen[d], providers[d])
      BY Zenon DEF ProvInv
    <2>3. CASE d # c
      <3>1. chosen'[d] = chosen[d] /\ providers'[d] = providers[d] /\ Entries(d)' = Entries(d)
        BY Zenon, <1>3, <1>5, <2>3 DEF ProvInv
      <3>2. ChoiceInv(Entries(d), history', chosen[d], providers[d])
        BY Zenon, <1>1, <1>2, <2>2, ChoiceOther
      <3> QED BY Zenon, <2>1, <3>1, <3>2
    <2>4. CASE d = c /\ UNCHANGED <<providers, chosen>>
      <3>1. Entries(d)' = Entries(d) \cup {Len(history) + 1}
        BY <1>5, <2>4
      <3>2. ChoiceInv(Entries(d) \cup {Len(history) + 1}, history', chosen[d], providers[d])
        BY Zenon, <1>1, <1>2, <2>1, <2>2, ChoiceTorn
      <3> QED BY Zenon, <2>1, <2>4, <3>1, <3>2
    <2>5. CASE /\ d = c
               /\ providers' = [providers EXCEPT ![c] = [p |-> p, target |-> Latest(Entries(c))]]
               /\ chosen' = [chosen EXCEPT ![c] = Append(chosen[c], p)]
      <3>1. Entries(d)' = Entries(d) \cup {Len(history) + 1}
        BY <1>5, <2>5
      <3>2. /\ chosen'[d] = Append(chosen[d], p)
            /\ providers'[d] = [p |-> p, target |-> Latest(Entries(d))]
        BY Zenon, <2>5 DEF ProvInv
      <3>3. ChoiceInv(Entries(d) \cup {Len(history) + 1}, history', Append(chosen[d], p),
                      [p |-> p, target |-> Latest(Entries(d))])
        BY Zenon, <1>1, <1>2, <2>1, <2>2, ChoiceMade
      <3>4. Append(chosen[d], p) \in Seq(S \cup {p})
        BY <2>1
      <3> QED BY Zenon, <3>1, <3>2, <3>3, <3>4
    <2> QED BY Zenon, <1>3, <2>3, <2>4, <2>5
  <1> QED BY Zenon, <1>4, <1>6, <1>7 DEF ProvInv

LEMMA ProvInit == Init => ProvInv /\ BackInv /\ ProviderRollbackExact
  <1> SUFFICES ASSUME Init PROVE ProvInv /\ BackInv /\ ProviderRollbackExact
    OBVIOUS
  <1>1. /\ history = <<>> /\ cmd = <<"none">>
        /\ providers = [c \in Components |-> None] /\ chosen = [c \in Components |-> <<>>]
    BY Zenon DEF Init
  <1>2. history \in Seq({}) /\ Len(history) = 0 /\ \A c : Entries(c) = {}
    BY <1>1 DEF Entries
  <1>3. ASSUME NEW c \in Components
        PROVE  /\ \E S : chosen[c] \in Seq(S)
               /\ ChoiceInv(Entries(c), history, chosen[c], providers[c])
    <2>1. chosen[c] \in Seq({}) /\ Len(chosen[c]) = 0 /\ providers[c] = None
      BY <1>1
    <2>2. IsFiniteSet({}) /\ Cardinality({}) = 0
      BY FS_EmptySet
    <2>3. ~(0 >= 1) /\ ~(0 >= 2) /\ 0 <= 0
      OBVIOUS
    <2>4. ChoiceInv({}, history, chosen[c], None)
      BY <2>1, <2>2, <2>3, Zenon DEF ChoiceInv
    <2>5. Entries(c) = {}
      BY <1>2
    <2> QED BY Zenon, <2>1, <2>4, <2>5
  <1> QED BY Zenon, <1>1, <1>2, <1>3 DEF ProvInv, BackInv, ProviderRollbackExact

LEMMA ProvStep == ProvInv /\ [Next]_vars => ProvInv'
  <1> SUFFICES ASSUME ProvInv, [Next]_vars PROVE ProvInv'
    OBVIOUS
  <1>1. CASE UNCHANGED provVars
    BY Zenon, <1>1 DEF provVars, ProvInv, Entries
  <1>2. CASE UNCHANGED vars
    BY <1>1, <1>2 DEF vars
  <1> QED BY <1>1, <1>2, ProvSet, Frame

\* The rollback looks up the entry its row names.
LEMMA BackLooks ==
    ASSUME ProvInv, NEW c \in Components, providers[c] # None, providers[c].target # 0,
           Cardinality(Entries(c)) = Len(chosen[c])
    PROVE  /\ Len(chosen[c]) >= 2
           /\ history[providers[c].target].p = chosen[c][Len(chosen[c]) - 1]
  <1> DEFINE n == Len(chosen[c])
             E == Entries(c)
  <1>1. ChoiceInv(E, history, chosen[c], providers[c]) /\ n \in Nat
    BY DEF ProvInv
  <1>2. Cardinality(E) = n
    BY Zenon
  <1> HIDE DEF E
  <1>3. n >= 1
    <2>1. n # 0
      BY Zenon, <1>1, <1>2 DEF ChoiceInv
    <2> HIDE DEF n
    <2> QED BY <1>1, <2>1
  <1>4. providers[c].target = Latest(E \ {Latest(E)}) /\ Latest(E) \in E /\ IsFiniteSet(E)
    <2>1. /\ providers[c] = [p |-> chosen[c][n], target |-> Latest(E \ {Latest(E)})]
          /\ Latest(E) \in E /\ IsFiniteSet(E)
      BY <1>1, <1>2, <1>3, Zenon DEF ChoiceInv
    <2>2. [p |-> chosen[c][n], target |-> Latest(E \ {Latest(E)})].target
             = Latest(E \ {Latest(E)})
      BY Zenon
    <2> QED BY <2>1, <2>2, Zenon
  <1>5. n # 1
    <2> SUFFICES ASSUME n = 1 PROVE FALSE
      OBVIOUS
    <2>1. IsFiniteSet(E \ {Latest(E)}) /\ Cardinality(E \ {Latest(E)}) = 0
      BY <1>2, <1>4, FS_RemoveElement
    <2>2. E \ {Latest(E)} = {}
      BY Zenon, <2>1, FS_EmptySet
    <2> QED BY Zenon, <1>4, <2>2 DEF Latest
  <1>6. n >= 2
    <2> HIDE DEF n
    <2> QED BY <1>1, <1>3, <1>5
  <1> QED BY Zenon, <1>1, <1>2, <1>4, <1>6 DEF ChoiceInv

\* The choice it makes then.
LEMMA BackSets ==
    ASSUME ProvInv, NEW c \in Components, NEW h, job = <<<<"provider_set", c, h>>>>,
           Cardinality(Entries(c)) = Len(chosen[c]) =>
               Len(chosen[c]) >= 2 /\ h = chosen[c][Len(chosen[c]) - 1],
           ProviderSet
    PROVE  /\ job' = <<>>
           /\ rc' = 0 /\ Cardinality(Entries(c)') = Len(chosen'[c]) =>
                 /\ Len(chosen'[c]) >= 3
                 /\ chosen'[c][Len(chosen'[c])] = chosen'[c][Len(chosen'[c]) - 2]
                 /\ providers'[c].p = chosen'[c][Len(chosen'[c])]
  <1>1. Resume = <<>> /\ Tail(job) = <<>> /\ job[1][2] = c /\ job[1][3] = h
    BY DEF Resume
  <1>2. \/ rc' = 1
        \/ /\ providers' = [providers EXCEPT ![c] = [p |-> h, target |-> Latest(Entries(c))]]
           /\ chosen' = [chosen EXCEPT ![c] = Append(chosen[c], h)]
    BY Zenon, <1>1 DEF ProviderSet, Arg, Fail
  <1>3. job' = <<>>
    BY <1>1, Zenon DEF ProviderSet, Go, Fail
  <1>4. ASSUME rc' = 0, Cardinality(Entries(c)') = Len(chosen'[c])
        PROVE  /\ Len(chosen'[c]) >= 3
               /\ chosen'[c][Len(chosen'[c])] = chosen'[c][Len(chosen'[c]) - 2]
               /\ providers'[c].p = chosen'[c][Len(chosen'[c])]
    <2>1. chosen'[c] = Append(chosen[c], h) /\ providers'[c].p = h
      BY <1>2, <1>4 DEF ProvInv
    <2>2. PICK S : chosen[c] \in Seq(S)
      BY Zenon DEF ProvInv
    <2>3. /\ Len(chosen[c]) \in Nat /\ Len(chosen'[c]) = Len(chosen[c]) + 1
          /\ chosen'[c][Len(chosen[c]) + 1] = h
          /\ \A i \in 1..Len(chosen[c]) : chosen'[c][i] = chosen[c][i]
      BY <2>1, <2>2
    <2>4. /\ Cardinality(Entries(c)) \in Nat
          /\ Cardinality(Entries(c)') = Cardinality(Entries(c)) + 1
      BY Zenon, <1>1, NewEntry
    <2>5. Len(chosen[c]) >= 2 /\ h = chosen[c][Len(chosen[c]) - 1]
      BY <1>4, <2>3, <2>4
    <2>6. /\ Len(chosen[c]) - 1 \in 1..Len(chosen[c])
          /\ Len(chosen'[c]) - 2 = Len(chosen[c]) - 1 /\ Len(chosen'[c]) >= 3
      BY <2>3, <2>5
    <2> QED BY Zenon, <2>1, <2>3, <2>5, <2>6
  <1> QED BY Zenon, <1>3, <1>4

LEMMA BackStep ==
    ASSUME ProvInv, JobInv, BackInv, ProviderRollbackExact, [Next]_vars
    PROVE  BackInv' /\ ProviderRollbackExact'
  <1>1. CASE UNCHANGED vars
    <2>1. UNCHANGED <<cmd, job, rc, providers, history, chosen>>
      BY Zenon, <1>1 DEF vars, provVars, runVars
    <2>2. BackInv'
      BY Zenon, <2>1 DEF BackInv, Entries
    <2> QED BY Zenon, <2>1, <2>2 DEF ProviderRollbackExact, Done, Entries
  <1>2. CASE cmd'[1] # "provider-rollback"
    BY Zenon, <1>2 DEF BackInv, ProviderRollbackExact
  <1>3. CASE \E c \in menu.commands : Start(c) /\ c[1] = "provider-rollback"
    <2>1. PICK c \in menu.commands : Start(c) /\ c[1] = "provider-rollback"
      BY <1>3
    <2>2. cmd' = c /\ job' = Program(c)
      BY Zenon, <2>1 DEF Start
    <2>3. c[2] \in Components
      BY Zenon, <2>1, MenuAssumption DEF JobInv
    <2>4. Program(c) = <<<<"provider_rollback", c[2]>>>>
      BY <2>1 DEF Program, provider_rollback
    <2>5. job' # <<>>
      BY <2>2, <2>4
    <2> QED BY Zenon, <2>2, <2>3, <2>4, <2>5 DEF BackInv, ProviderRollbackExact, Done
  <1>4. CASE (Library \/ Steps) /\ cmd'[1] = "provider-rollback"
    <2>1. cmd' = cmd /\ job # <<>>
      BY <1>4, AtHead
    <2>2. PICK c \in Components : c = cmd[2]
      BY Zenon, <1>4, <2>1 DEF BackInv
    <2>3. CASE job = <<<<"provider_rollback", c>>>>
      <3>1. ProviderRollback
        BY <1>4, <2>3, AtHead DEF Doing
      <3>2. Resume = <<>> /\ Tail(job) = <<>> /\ job[1][2] = c
        BY <2>3 DEF Resume
      <3>3. UNCHANGED provVars
        BY <3>1, Zenon DEF ProviderRollback
      <3>4. \/ job' = <<>> /\ rc' = 1
            \/ /\ providers[c] # None /\ providers[c].target # 0
               /\ job' = <<<<"provider_set", c, history[providers[c].target].p>>>> \o <<>>
        BY Zenon, <3>1, <3>2 DEF ProviderRollback, Arg, Fail, Then
      <3>5. CASE job' = <<>> /\ rc' = 1
        <4>1. rc' # 0
          BY <3>5
        <4> QED BY Zenon, <2>1, <2>2, <3>5, <4>1 DEF BackInv, ProviderRollbackExact, Done
      <3>6. CASE /\ providers[c] # None /\ providers[c].target # 0
                 /\ job' = <<<<"provider_set", c, history[providers[c].target].p>>>> \o <<>>
        <4> DEFINE h == history[providers[c].target].p
        <4>1. job' = <<<<"provider_set", c, h>>>> /\ job' # <<>>
          BY <3>6
        <4>2. Cardinality(Entries(c)) = Len(chosen[c]) =>
                 Len(chosen[c]) >= 2 /\ h = chosen[c][Len(chosen[c]) - 1]
          BY Zenon, <2>2, <3>6, BackLooks
        <4>3. Entries(c)' = Entries(c) /\ chosen' = chosen
          BY <2>1, <3>3 DEF provVars, Entries
        <4> HIDE DEF h
        <4>4. BackInv'
          BY Zenon, <2>1, <2>2, <4>1, <4>2, <4>3 DEF BackInv
        <4> QED BY Zenon, <4>1, <4>4 DEF ProviderRollbackExact, Done
      <3> QED BY Zenon, <3>4, <3>5, <3>6
    <2>4. ASSUME NEW h, job = <<<<"provider_set", c, h>>>>,
                 Cardinality(Entries(c)) = Len(chosen[c]) =>
                     Len(chosen[c]) >= 2 /\ h = chosen[c][Len(chosen[c]) - 1]
          PROVE  BackInv' /\ ProviderRollbackExact'
      <3>1. ProviderSet
        BY Zenon, <1>4, <2>4, AtHead DEF Doing
      <3>2. /\ job' = <<>>
            /\ rc' = 0 /\ Cardinality(Entries(c)') = Len(chosen'[c]) =>
                  /\ Len(chosen'[c]) >= 3
                  /\ chosen'[c][Len(chosen'[c])] = chosen'[c][Len(chosen'[c]) - 2]
                  /\ providers'[c].p = chosen'[c][Len(chosen'[c])]
        BY Zenon, <2>2, <2>4, <3>1, BackSets
      <3>3. BackInv'
        BY Zenon, <2>1, <2>2, <3>2 DEF BackInv
      <3>4. ProviderRollbackExact'
        BY Zenon, <2>1, <2>2, <3>2 DEF ProviderRollbackExact
      <3> QED BY <3>3, <3>4
    <2> QED BY Zenon, <1>4, <2>1, <2>2, <2>3, <2>4 DEF BackInv
  <1>5. CASE (\E f \in menu.configs : Edit(f)) \/ Crash
    <2>1. cmd'[1] \in {"edit", "crashed"}
      BY <1>5 DEF Edit, Crash, Dead
    <2> QED BY <1>2, <2>1
  <1>6. CASE \E c \in menu.commands : Start(c) /\ c[1] # "provider-rollback"
    BY Zenon, <1>2, <1>6 DEF Start
  <1> QED BY Zenon, <1>1, <1>2, <1>3, <1>4, <1>5, <1>6 DEF Next

\* salt provider rollback exits 0 only with the choice before the current one
\* in effect again, as long as no choice of that component stopped between its
\* two writes; so a second rollback undoes the first.
THEOREM ProviderRollbackGoesBack == Spec => []ProviderRollbackExact
  <1> DEFINE Inv == ProvInv /\ JobInv /\ BackInv /\ ProviderRollbackExact
  <1>1. Init => Inv
    BY ProvInit, RollInit DEF RollInv
  <1>2. Inv /\ [Next]_vars => Inv'
    BY ProvStep, JobStep, BackStep
  <1>3. Inv => ProviderRollbackExact
    OBVIOUS
  <1> QED BY <1>1, <1>2, <1>3, PTL DEF Spec

-----------------------------------------------------------------------------
(***************************************************************************)
(* What is on the host's path is traceable to a stratum.  The property is  *)
(* inductive as it stands.                                                 *)
(***************************************************************************)
LEMMA ShimExpose == ShimsTraceable /\ Expose => ShimsTraceable'
  <1> SUFFICES ASSUME ShimsTraceable, Expose PROVE ShimsTraceable'
    OBVIOUS
  <1> DEFINE row == Row(job[1][2], job[1][3], job[1][5])
             al == job[1][4]
  <1>1. UNCHANGED <<strata, doomed>>
    BY Zenon DEF Expose, treeVars
  <1>2. CASE UNCHANGED hostVars
    BY Zenon, <1>1, <1>2 DEF hostVars, ShimsTraceable
  <1>3. CASE /\ row.s \in strata /\ shims' = Put(shims, al, Shim(row))
             /\ exposed' = Put(exposed, al, row) /\ torn' = torn \ {al}
    BY Zenon, <1>1, <1>3 DEF ShimsTraceable, Put
  <1>4. CASE /\ shims' = Put(shims, al, Shim(row))
             /\ torn' = torn \cup {al} /\ UNCHANGED exposed
    BY Zenon, <1>1, <1>4 DEF ShimsTraceable, Put
  <1>5. \/ UNCHANGED hostVars
        \/ /\ row.s \in strata /\ shims' = Put(shims, al, Shim(row))
           /\ \/ exposed' = Put(exposed, al, row) /\ torn' = torn \ {al}
              \/ torn' = torn \cup {al} /\ UNCHANGED exposed
    BY Zenon DEF Expose, Arg
  <1> QED BY Zenon, <1>2, <1>3, <1>4, <1>5

LEMMA ShimUnexpose == ShimsTraceable /\ Unexpose => ShimsTraceable'
  <1> SUFFICES ASSUME ShimsTraceable, Unexpose PROVE ShimsTraceable'
    OBVIOUS
  <1> DEFINE al == job[1][2]
  <1>1. UNCHANGED <<strata, doomed>>
    BY Zenon DEF Unexpose, treeVars
  <1>2. CASE UNCHANGED hostVars
    BY Zenon, <1>1, <1>2 DEF hostVars, ShimsTraceable
  <1>3. CASE /\ shims' = Restrict(shims, DOMAIN shims \ {al})
             /\ exposed' = Restrict(exposed, DOMAIN exposed \ {al}) /\ torn' = torn \ {al}
    BY Zenon, <1>1, <1>3 DEF ShimsTraceable, Restrict
  <1>4. CASE /\ shims' \in {shims, Restrict(shims, DOMAIN shims \ {al})}
             /\ exposed' \in {exposed, Restrict(exposed, DOMAIN exposed \ {al})}
             /\ torn' = torn \cup {al}
    BY Zenon, <1>1, <1>4 DEF ShimsTraceable, Restrict
  <1>5. \/ UNCHANGED hostVars
        \/ /\ shims' = Restrict(shims, DOMAIN shims \ {al})
           /\ exposed' = Restrict(exposed, DOMAIN exposed \ {al})
           /\ torn' = torn \ {al}
        \/ /\ shims' \in {shims, Restrict(shims, DOMAIN shims \ {al})}
           /\ exposed' \in {exposed, Restrict(exposed, DOMAIN exposed \ {al})}
           /\ torn' = torn \cup {al}
    BY Zenon DEF Unexpose, Arg
  <1> QED BY Zenon, <1>2, <1>3, <1>4, <1>5

LEMMA ShimDestroy == ShimsTraceable /\ Destroy => ShimsTraceable'
  <1> SUFFICES ASSUME ShimsTraceable, Destroy PROVE ShimsTraceable'
    OBVIOUS
  <1> DEFINE s == job[1][2]
             mine == {a \in DOMAIN exposed : exposed[a].s = s}
  <1>1. CASE UNCHANGED <<strata, doomed, hostVars>>
    BY Zenon, <1>1 DEF hostVars, ShimsTraceable
  <1>2. ASSUME NEW did,
               shims' = IF 3 \in did THEN Restrict(shims, DOMAIN shims \ mine) ELSE shims,
               exposed' = IF 6 \in did THEN Restrict(exposed, DOMAIN exposed \ mine)
                          ELSE exposed,
               torn' = IF {3, 6} \subseteq did THEN torn \ mine
                       ELSE IF did \cap {3, 6} = {} THEN torn ELSE torn \cup mine,
               strata' = IF 4 \in did THEN strata \ {s} ELSE strata,
               doomed' = IF did = 1..6 THEN doomed \ {s} ELSE doomed \cup {s}
        PROVE  ShimsTraceable'
    <2>1. \A t \in strata \cup doomed : t # s => t \in strata' \cup doomed'
      BY Zenon, <1>2
    <2>2. 6 \notin did => s \in doomed'
      BY <1>2
    <2>3. CASE 3 \in did /\ 6 \in did
      BY Zenon, <1>2, <2>1, <2>3 DEF ShimsTraceable, Restrict
    <2>4. CASE 3 \in did /\ 6 \notin did
      BY Zenon, <1>2, <2>1, <2>2, <2>4 DEF ShimsTraceable, Restrict
    <2>5. CASE 3 \notin did /\ 6 \in did
      BY Zenon, <1>2, <2>1, <2>5 DEF ShimsTraceable, Restrict
    <2>6. CASE 3 \notin did /\ 6 \notin did
      BY Zenon, <1>2, <2>1, <2>2, <2>6 DEF ShimsTraceable
    <2> QED BY <2>3, <2>4, <2>5, <2>6
  <1>3. \/ UNCHANGED <<strata, doomed, hostVars>>
        \/ \E did :
           /\ shims' = IF 3 \in did THEN Restrict(shims, DOMAIN shims \ mine) ELSE shims
           /\ exposed' = IF 6 \in did THEN Restrict(exposed, DOMAIN exposed \ mine)
                         ELSE exposed
           /\ torn' = IF {3, 6} \subseteq did THEN torn \ mine
                      ELSE IF did \cap {3, 6} = {} THEN torn ELSE torn \cup mine
           /\ strata' = IF 4 \in did THEN strata \ {s} ELSE strata
           /\ doomed' = IF did = 1..6 THEN doomed \ {s} ELSE doomed \cup {s}
    BY Zenon DEF Destroy, Arg
  <1> QED BY Zenon, <1>1, <1>2, <1>3

LEMMA ShimInit == Init => ShimsTraceable
  <1> SUFFICES ASSUME Init PROVE ShimsTraceable
    OBVIOUS
  <1>1. DOMAIN exposed = {pm[s] : s \in strata} /\ DOMAIN shims = DOMAIN exposed
    BY Zenon DEF Init
  <1>2. ASSUME NEW a \in DOMAIN exposed
        PROVE  shims[a] = Shim(exposed[a]) /\ exposed[a].s \in strata
    <2>1. shims[a] = Shim(exposed[a])
      BY Zenon, <1>2 DEF Init
    <2>2. PICK s \in strata : a = pm[s]
      BY Zenon, <1>1, <1>2
    <2>3. exposed[a].s = CHOOSE t \in strata : a = pm[t]
      BY Zenon, <1>1, <1>2 DEF Init, Row
    <2> QED BY Zenon, <2>1, <2>2, <2>3
  <1> QED BY Zenon, <1>1, <1>2 DEF ShimsTraceable

LEMMA ShimStep == ShimsTraceable /\ [Next]_vars => ShimsTraceable'
  <1> SUFFICES ASSUME ShimsTraceable, [Next]_vars PROVE ShimsTraceable'
    OBVIOUS
  <1>1. CASE UNCHANGED traced /\ strata \subseteq strata'
    BY Zenon, <1>1 DEF traced, ShimsTraceable
  <1>2. CASE UNCHANGED vars
    <2>1. UNCHANGED traced /\ strata \subseteq strata'
      BY Zenon, <1>2 DEF vars, treeVars, hostVars, traced
    <2> QED BY <1>1, <2>1
  <1> QED BY Zenon, <1>1, <1>2, Frame, ShimExpose, ShimUnexpose, ShimDestroy

\* Every shim runs what its row in the table says and every row has its
\* stratum, whatever commands came before and wherever they stopped, but for
\* the aliases and strata whose own writes were separated by a failure.
THEOREM ExposedIsTraceable == Spec => []ShimsTraceable
  BY ShimInit, ShimStep, PTL DEF Spec

-----------------------------------------------------------------------------
(***************************************************************************)
(* The refresh after salt run, salt pm and salt expose-all leaves recorded *)
(* aliases alone.                                                          *)
(*                                                                         *)
(* salt_expose_all looks at the table once and then writes one shim after  *)
(* the other.  So the job is first a few operations that write no shim,    *)
(* ending in the refresh, and then the exposures it chose: of names that   *)
(* were free when it looked, each once, so that they are free still.       *)
(***************************************************************************)
Refreshing == {"run", "pm", "expose-all"}
Quiet(x) == x[1] \in {"open", "snapshot", "pkg", "run"}
Early == \E s : LET ea == <<"expose_all", s>> IN
    \/ job = <<ea>>
    \/ \E x : Quiet(x) /\ job = <<x, ea>>
    \/ \E x, y : Quiet(x) /\ Quiet(y) /\ job = <<x, y, ea>>
    \/ \E x, y, z : Quiet(x) /\ Quiet(y) /\ Quiet(z) /\ job = <<x, y, z, ea>>
Exposures(s, B) == {<<"expose", s, b, b, "cli">> : b \in B}
Free(q, E) == /\ \A i \in 1..Len(q) : q[i][4] \notin E
              /\ \A i, j \in 1..Len(q) : q[i][4] = q[j][4] => i = j
Late == \E s, B : job \in Seq(Exposures(s, B)) /\ Free(job, DOMAIN exposed)
WinInv == cmd[1] \in Refreshing => Early \/ Late

\* A finite set is listed without repetition.
LEMMA Listed ==
    ASSUME NEW S, IsFiniteSet(S)
    PROVE  /\ Cardinality(S) \in Nat /\ Listing(S) \in [1..Cardinality(S) -> S]
           /\ \A i, j \in 1..Cardinality(S) : Listing(S)[i] = Listing(S)[j] => i = j
  <1> DEFINE n == Cardinality(S)
  <1>1. n \in Nat /\ ExistsBijection(1..n, S)
    BY FS_CardinalityType
  <1>2. Listing(S) \in Bijection(1..n, S)
    BY <1>1 DEF ExistsBijection, Listing
  <1> QED BY Zenon, <1>1, <1>2 DEF Bijection, Injection, IsInjective

\* What salt_expose_all puts into the job.
Refreshed(s, B) == Each(B, LAMBDA b : <<"expose", s, b, b, "cli">>)
LEMMA Refresh ==
    ASSUME NEW s, NEW B, IsFiniteSet(B), NEW E, B \cap E = {}
    PROVE  Refreshed(s, B) \in Seq(Exposures(s, B)) /\ Free(Refreshed(s, B), E)
  <1> DEFINE n == Cardinality(B)
             l == Listing(B)
             q == [i \in 1..n |-> <<"expose", s, l[i], l[i], "cli">>]
  <1>1. /\ n \in Nat /\ l \in [1..n -> B]
        /\ \A i, j \in 1..n : l[i] = l[j] => i = j
    BY Zenon, Listed
  <1>2. Refreshed(s, B) = q
    BY DEF Refreshed, Each
  <1> HIDE DEF l, n
  <1>3. \A i \in 1..n : l[i] \in B /\ q[i] \in Exposures(s, B) /\ q[i][4] = l[i]
    BY Zenon, <1>1 DEF Exposures
  <1>4. q \in Seq(Exposures(s, B)) /\ Len(q) = n
    BY <1>1, <1>3
  <1>5. Free(q, E)
    BY Zenon, <1>1, <1>3, <1>4 DEF Free
  <1> QED BY Zenon, <1>2, <1>4, <1>5

LEMMA WinStart ==
    ASSUME NEW c, Start(c)
    PROVE  WinInv'
  <1> SUFFICES ASSUME c[1] \in Refreshing PROVE Early'
    BY Zenon DEF Start, WinInv
  <1>1. job' = Program(c)
    BY Zenon DEF Start
  <1>2. CASE c[1] = "run"
    BY <1>1, <1>2 DEF Program, cmd_run, Early, Quiet
  <1>3. CASE c[1] = "expose-all"
    BY <1>1, <1>3 DEF Program, cmd_expose_all, Early, Quiet
  <1>4. CASE c[1] = "pm"
    <2> DEFINE op == <<"open", c[2]>>
               sn == <<"snapshot", c[2], "pre-pm">>
               pk == <<"pkg", c[2], c[3], c[4]>>
               ea == <<"expose_all", c[2]>>
    <2>1. Program(c) = cmd_pm(c[2], c[3], c[4])
      BY <1>4 DEF Program
    <2>2. \/ cmd_pm(c[2], c[3], c[4]) = <<op, sn, pk, ea>>
          \/ cmd_pm(c[2], c[3], c[4]) = <<op, pk, ea>>
      BY Zenon DEF cmd_pm
    <2>3. Quiet(op) /\ Quiet(sn) /\ Quiet(pk)
      BY DEF Quiet
    <2> QED BY Zenon, <1>1, <2>1, <2>2, <2>3 DEF Early
  <1> QED BY <1>2, <1>3, <1>4 DEF Refreshing

\* An operation before the refresh: the next one, or the end of the command.
LEMMA WinQuiet ==
    ASSUME Early, Library \/ Steps, ~Doing("expose_all"), cmd' # <<"crashed">>
    PROVE  (Early \/ Late)' /\ UNCHANGED hostVars
  <1>1. PICK s : LET ea == <<"expose_all", s>> IN
          \/ job = <<ea>>
          \/ \E x : Quiet(x) /\ job = <<x, ea>>
          \/ \E x, y : Quiet(x) /\ Quiet(y) /\ job = <<x, y, ea>>
          \/ \E x, y, z : Quiet(x) /\ Quiet(y) /\ Quiet(z) /\ job = <<x, y, z, ea>>
    BY Zenon DEF Early
  <1> DEFINE ea == <<"expose_all", s>>
  <1>2. Quiet(job[1]) /\ job # <<>>
    BY <1>1 DEF Doing
  <1>3. Open \/ Snapshot \/ Pkg \/ Run
    BY Zenon, <1>2, AtHead DEF Doing, Quiet
  <1>4. (job' = Tail(job) \/ job' = Resume) /\ UNCHANGED hostVars
    BY <1>3, Zenon DEF Open, Snapshot, Pkg, Run, still, Go, Fail
  <1>5. Resume = <<>>
    <2>1. {i \in 2..Len(job) : job[i][1] \in Marks} = {}
      BY <1>1 DEF Quiet, Marks
    <2> QED BY Zenon, <2>1 DEF Resume
  <1>6. CASE job' = <<>>
    <2>1. job' \in Seq(Exposures(s, {})) /\ Free(job', DOMAIN exposed')
      BY <1>6 DEF Free
    <2> QED BY <1>4, <2>1 DEF Late
  <1>7. CASE job' = Tail(job)
    <2>1. CASE \E x : Quiet(x) /\ job = <<x, ea>>
      BY <1>7, <2>1, <1>4 DEF Early
    <2>2. CASE \E x, y : Quiet(x) /\ Quiet(y) /\ job = <<x, y, ea>>
      BY <1>7, <2>2, <1>4 DEF Early
    <2>3. CASE \E x, y, z : Quiet(x) /\ Quiet(y) /\ Quiet(z) /\ job = <<x, y, z, ea>>
      BY <1>7, <2>3, <1>4 DEF Early
    <2>4. job # <<ea>>
      BY <1>2 DEF Quiet
    <2> QED BY Zenon, <1>1, <2>1, <2>2, <2>3, <2>4
  <1> QED BY <1>4, <1>5, <1>6, <1>7

\* The refresh looks at the table.
LEMMA WinRefresh ==
    ASSUME Early, ExposeAll
    PROVE  Late' /\ UNCHANGED hostVars
  <1> DEFINE s == job[1][2]
             new == {b \in scan_bins(s, tree[s]) : b \notin HostCommands \cup DOMAIN exposed}
  <1>1. Tail(job) = <<>>
    <2>1. job[1][1] = "expose_all"
      BY Zenon DEF ExposeAll, Doing
    <2>2. PICK t : LET ea == <<"expose_all", t>> IN
             \/ job = <<ea>>
             \/ \E x : Quiet(x) /\ job = <<x, ea>>
             \/ \E x, y : Quiet(x) /\ Quiet(y) /\ job = <<x, y, ea>>
             \/ \E x, y, z : Quiet(x) /\ Quiet(y) /\ Quiet(z) /\ job = <<x, y, z, ea>>
      BY Zenon DEF Early
    <2>3. ~Quiet(job[1])
      BY <2>1 DEF Quiet
    <2>4. job = <<<<"expose_all", t>>>>
      BY <2>2, <2>3
    <2> QED BY <2>4
  <1>2. UNCHANGED hostVars /\ UNCHANGED exposed
    BY Zenon DEF ExposeAll, hostVars
  <1>3. job' = (IF s \in strata THEN Refreshed(s, new) ELSE <<>>) \o Tail(job)
    BY Zenon DEF ExposeAll, Then, Arg, Refreshed
  <1>4. IsFiniteSet(new)
    <2> DEFINE all == UNION {provides[p] : p \in Packages}
    <2>1. new \subseteq all \cup {pm[s]}
      BY Zenon DEF scan_bins, Installed
    <2>2. IsFiniteSet(all \cup {pm[s]})
      BY Zenon, CommandsAssumption, FS_AddElement
    <2> QED BY Zenon, <2>1, <2>2, FS_Subset
  <1>5. new \cap DOMAIN exposed = {}
    BY Zenon
  <1> HIDE DEF new
  <1>6. /\ Refreshed(s, new) \in Seq(Exposures(s, new))
        /\ Free(Refreshed(s, new), DOMAIN exposed)
    BY Zenon, <1>4, <1>5, Refresh
  <1>7. <<>> \in Seq(Exposures(s, new)) /\ Free(<<>>, DOMAIN exposed)
    BY DEF Free
  <1>8. job' \in Seq(Exposures(s, new)) /\ Free(job', DOMAIN exposed')
    <2>1. Refreshed(s, new) \o <<>> = Refreshed(s, new) /\ <<>> \o <<>> = <<>>
      BY <1>6
    <2>2. job' \in {Refreshed(s, new), <<>>}
      BY <1>1, <1>3, <2>1, Zenon
    <2> QED BY <1>2, <1>6, <1>7, <2>2, Zenon
  <1> QED BY <1>2, <1>8 DEF Late

\* One exposure it chose: of a name that has no row.
LEMMA WinExpose ==
    ASSUME Late, Expose
    PROVE  /\ Late'
           /\ \A a \in DOMAIN exposed :
                 /\ a \in DOMAIN exposed' /\ exposed'[a] = exposed[a]
                 /\ (a \in DOMAIN shims') <=> (a \in DOMAIN shims)
                 /\ a \in DOMAIN shims => shims'[a] = shims[a]
  <1>1. PICK s, B : job \in Seq(Exposures(s, B)) /\ Free(job, DOMAIN exposed)
    BY DEF Late
  <1> DEFINE al == job[1][4]
  <1>2. job # <<>>
    BY Zenon DEF Expose, Doing
  <1>3. al \notin DOMAIN exposed
    BY <1>1, <1>2 DEF Free
  <1>4. job' = Tail(job)
    BY Zenon DEF Expose, Go, Note
  <1>5. \/ UNCHANGED <<exposed, shims>>
        \/ \E v, w : shims' = Put(shims, al, v) /\ exposed' \in {exposed, Put(exposed, al, w)}
    BY Zenon DEF Expose, hostVars, Arg
  <1>6. DOMAIN exposed' \subseteq DOMAIN exposed \cup {al}
    BY <1>5 DEF Put
  <1>7. job' \in Seq(Exposures(s, B))
    BY <1>1, <1>2, <1>4
  <1>8. Free(job', DOMAIN exposed')
    <2>1. Len(job') = Len(job) - 1 /\ \A i \in 1..Len(job') : job'[i] = job[i + 1]
      BY <1>1, <1>2, <1>4
    <2>2. Len(job) \in Nat /\ Len(job) > 0
      BY <1>1, <1>2
    <2>3. ASSUME NEW i \in 1..Len(job')
          PROVE  /\ i + 1 \in 1..Len(job) /\ i + 1 # 1 /\ 1 \in 1..Len(job)
                 /\ job'[i] = job[i + 1]
      BY <2>1, <2>2
    <2>4. \A i \in 1..Len(job') : job'[i][4] # al /\ job'[i][4] \notin DOMAIN exposed
      BY Zenon, <1>1, <2>3 DEF Free
    <2>5. \A i, j \in 1..Len(job') : job'[i][4] = job'[j][4] => i + 1 = j + 1
      BY <1>1, <2>3 DEF Free
    <2>6. \A i, j \in 1..Len(job') : i + 1 = j + 1 => i = j
      OBVIOUS
    <2> QED BY Zenon, <1>6, <2>4, <2>5, <2>6 DEF Free
  <1>9. ASSUME NEW a \in DOMAIN exposed
        PROVE  /\ a \in DOMAIN exposed' /\ exposed'[a] = exposed[a]
               /\ (a \in DOMAIN shims') <=> (a \in DOMAIN shims)
               /\ a \in DOMAIN shims => shims'[a] = shims[a]
    BY Zenon, <1>3, <1>5, <1>9 DEF Put
  <1> QED BY Zenon, <1>7, <1>8, <1>9 DEF Late

LEMMA WinStep ==
    ASSUME WinInv, Next
    PROVE  /\ WinInv'
           /\ cmd[1] \in Refreshing /\ cmd' = cmd =>
                 \A a \in DOMAIN exposed :
                    /\ a \in DOMAIN exposed' /\ exposed'[a] = exposed[a]
                    /\ (a \in DOMAIN shims') <=> (a \in DOMAIN shims)
                    /\ a \in DOMAIN shims => shims'[a] = shims[a]
  <1> DEFINE Wins == \A a \in DOMAIN exposed :
                        /\ a \in DOMAIN exposed' /\ exposed'[a] = exposed[a]
                        /\ (a \in DOMAIN shims') <=> (a \in DOMAIN shims)
                        /\ a \in DOMAIN shims => shims'[a] = shims[a]
  <1>1. ASSUME UNCHANGED hostVars PROVE Wins
    BY Zenon, <1>1 DEF hostVars
  <1>2. CASE \E c \in menu.commands : Start(c)
    <2>1. UNCHANGED hostVars
      BY Zenon, <1>2 DEF Start
    <2> QED BY Zenon, <1>1, <1>2, <2>1, WinStart
  <1>3. CASE (\E f \in menu.configs : Edit(f)) \/ Crash
    <2>1. UNCHANGED hostVars /\ cmd'[1] \in {"edit", "crashed"}
      BY <1>3 DEF Edit, Crash, Dead
    <2> QED BY Zenon, <1>1, <2>1 DEF WinInv, Refreshing
  <1>4. CASE Library \/ Steps
    <2>1. CASE cmd'[1] \notin Refreshing
      BY Zenon, <2>1 DEF WinInv
    <2>2. CASE cmd'[1] \in Refreshing
      <3>1. cmd' = cmd /\ cmd' # <<"crashed">> /\ job # <<>>
        BY <1>4, <2>2, AtHead DEF Refreshing
      <3>2. Early \/ Late
        BY <2>2, <3>1 DEF WinInv
      <3>3. CASE Early /\ ~Doing("expose_all")
        BY Zenon, <1>1, <1>4, <3>1, <3>3, WinQuiet DEF WinInv
      <3>4. CASE Early /\ Doing("expose_all")
        BY Zenon, <1>1, <1>4, <3>4, AtHead, WinRefresh DEF WinInv
      <3>5. CASE Late
        <4>1. PICK s, B : job \in Seq(Exposures(s, B))
          BY <3>5 DEF Late
        <4>2. job[1] \in Exposures(s, B)
          BY <3>1, <4>1
        <4>3. Doing("expose")
          BY <3>1, <4>2 DEF Exposures, Doing
        <4> QED BY Zenon, <1>4, <3>5, <4>3, AtHead, WinExpose DEF WinInv
      <3> QED BY Zenon, <3>2, <3>3, <3>4, <3>5
    <2> QED BY Zenon, <2>1, <2>2, <1>4, AtHead DEF Refreshing
  <1> QED BY Zenon, <1>2, <1>3, <1>4 DEF Next

\* The refresh that follows salt run, salt pm and salt expose-all never
\* changes an alias that has a row, nor its shim: the first stratum to expose a
\* name keeps it, and no stratum takes over another's package manager.
THEOREM RecordedAliasesStay == Spec => FirstExposedWins
  <1>1. Init => WinInv
    BY DEF Init, WinInv, Refreshing
  <1>2. WinInv /\ [Next]_vars => WinInv'
    <2>1. WinInv /\ UNCHANGED vars => WinInv'
      BY Zenon DEF WinInv, vars, runVars, hostVars, Early, Late
    <2> QED BY Zenon, <2>1, WinStep
  <1>3. WinInv /\ [Next]_vars =>
          [cmd[1] \in {"run", "pm", "expose-all"} /\ cmd' = cmd =>
             \A a \in DOMAIN exposed :
                /\ a \in DOMAIN exposed' /\ exposed'[a] = exposed[a]
                /\ (a \in DOMAIN shims') <=> (a \in DOMAIN shims)
                /\ a \in DOMAIN shims => shims'[a] = shims[a]]_vars
    BY Zenon, WinStep DEF Refreshing
  <1> QED BY <1>1, <1>2, <1>3, PTL DEF Spec, FirstExposedWins
=============================================================================
