---------------------------- MODULE HolderProofs ----------------------------
(***************************************************************************)
(* Proofs about StratumRun, for any number of runs, strata, holders,       *)
(* killings and rollbacks: a stratum has one living holder.                *)
(***************************************************************************)
EXTENDS StratumRun, TLAPS

\* The provers of a step that names none, in this order; 30 is in seconds.
USE SMTT(30), Zenon

-----------------------------------------------------------------------------
(* The inductive invariant of the holder protocol.                         *)

Phases == {"free", "forked", "mounted", "up", "dead"}
Creating == {"recheck", "unlink", "fork", "poll"}

\* What the proofs need to know of the types.
Types ==
    /\ pidfile \in [Strata -> Pids \cup {None}]
    /\ flock \in [Strata -> Runners \cup {None}]
    /\ phase \in [Pids -> Phases]
    /\ of \in [Pids -> Strata \cup {None}]
    /\ DOMAIN pc = Runners
    /\ st \in [Runners -> Strata \cup {None}]
    /\ admin \in [step : {"idle", "kill", "unlink", "replace"},
                  s : Strata \cup {None}, p : Pids \cup {None}]
    /\ plan \in [Runners -> Plans]
    /\ \A r \in Runners : pc[r] # "start" => st[r] \in Strata
    /\ admin.step # "idle" => admin.s \in Strata

\* The lock file is locked by the runner that is creating the holder.
LockInv == \A s \in Strata, r \in Runners :
    flock[s] = r <=> pc[r] \in Creating /\ st[r] = s

\* A pid file names a holder of its stratum that has published.
PidInv ==
    /\ \A p \in Pids : phase[p] = "free" <=> of[p] = None
    /\ \A s \in Strata : pidfile[s] # None =>
          of[pidfile[s]] = s /\ phase[pidfile[s]] \in {"up", "dead"}

\* No creator of a holder of s left early and no rollback interfered.
Clean(s) == \A p \in Pids : of[p] = s => p \notin late /\ p \notin raced
Living(s, p) == of[p] = s /\ phase[p] \in {"forked", "mounted", "up"}

\* A holder on its way has its creator waiting for it; one that is up is in
\* the pid file; while a new one is made and during a rollback there is none
\* but the one the rollback has read.
CleanInv(s) ==
    /\ \A p \in Pids : of[p] = s /\ phase[p] \in {"forked", "mounted"} =>
          \E r \in Runners : pc[r] = "poll" /\ st[r] = s
    /\ \A p \in Pids : of[p] = s /\ phase[p] = "up" => pidfile[s] = p
    /\ \A p, q \in Pids : Living(s, p) /\ Living(s, q) => p = q
    /\ \A p \in Pids : Living(s, p) /\ Stopping(s) => admin.step = "kill" /\ admin.p = p
    /\ \A r \in Runners, p \in Pids :
          pc[r] \in {"unlink", "fork"} /\ st[r] = s => ~Living(s, p)

HolderInv ==
    /\ Types /\ LockInv /\ PidInv
    /\ \A s \in Strata : Clean(s) => CleanInv(s)

-----------------------------------------------------------------------------
\* The invariant holds initially.
LEMMA HolderInit == Init => HolderInv
<1> SUFFICES ASSUME Init PROVE HolderInv
    OBVIOUS
<1>1. PICK c \in Scenarios : plan = c.plan
    BY DEF Init
<1>2. Types
    BY <1>1, HolderAssumption, ScenarioAssumption DEF Init, Types, Phases
<1>3. LockInv /\ PidInv
    BY HolderAssumption DEF Init, LockInv, PidInv, Creating, Pids
<1>4. \A s \in Strata : CleanInv(s)
    BY HolderAssumption DEF Init, CleanInv, Living, Pids
<1> QED
    BY <1>2, <1>3, <1>4 DEF HolderInv

\* A step that leaves the namespace alone and moves no creator of a holder.
LEMMA Quiet ==
    ASSUME HolderInv, Types',
           UNCHANGED <<pidfile, flock, phase, of, admin, late, raced>>,
           \A r \in Runners : pc[r] \in Creating \/ pc'[r] \in Creating =>
              pc'[r] = pc[r] /\ st'[r] = st[r]
    PROVE  HolderInv'
<1>1. LockInv' /\ PidInv'
    BY DEF HolderInv, LockInv, PidInv
<1>2. ASSUME NEW s \in Strata, Clean(s)' PROVE CleanInv(s)'
    <2>1. CleanInv(s)
        BY <1>2 DEF HolderInv, Clean
    <2> QED
        BY <2>1 DEF CleanInv, Living, Stopping, Creating
<1> QED
    BY <1>1, <1>2 DEF HolderInv

\* The parts of salt run outside salt_run_ensure_holder.
LEMMA RunKeepsHolder ==
    ASSUME HolderInv, NEW r \in Runners, Start(r) \/ Run(r) PROVE HolderInv'
<1>1. Types
    BY DEF HolderInv
<1>2. /\ UNCHANGED <<pidfile, flock, phase, of, admin, late, raced>>
      /\ \A q \in Runners : pc[q] \in Creating \/ pc'[q] \in Creating =>
            pc'[q] = pc[q] /\ st'[q] = st[q]
      /\ Types'
    <2>1. CASE Start(r)
        BY <2>1, <1>1 DEF Start, Begin, Types, Plans, nsVars, Creating
    <2>2. CASE MergeRead(r)
        BY Zenon, <2>2, <1>1 DEF MergeRead, Types, nsVars, runVars
    <2>3. CASE append_lines(r) \/ Useradd(r)
        BY <2>3, <1>1, Zenon DEF append_lines, Useradd, Types, nsVars, runVars
    <2>4. CASE Sample(r)
        BY <2>4, <1>1 DEF Sample, NoRun, Step, Types, nsVars, Creating
    <2>5. CASE Userns(r)
        BY <2>5, <1>1 DEF Userns, NoRun, Step, Types, nsVars, Creating
    <2>6. CASE Exec(r)
        BY <2>6, <1>1 DEF Exec, Step, Types, nsVars, Creating
    <2>7. CASE Reap(r)
        BY <2>7, <1>1 DEF Reap, Step, Types, nsVars, runVars, Creating
    <2>8. CASE Sudo(r)
        <3> DEFINE again == [plan[r] EXCEPT !.root = TRUE]
        <3>1. again \in Plans /\ again.s \in Strata
            BY <1>1, Zenon DEF Types, Plans
        <3>2. Begin(r, again) \/ (pc' = [pc EXCEPT ![r] = "done"] /\ UNCHANGED <<st, plan>>)
            BY <2>8 DEF Sudo
        <3>3. pc[r] = "sudo" /\ UNCHANGED nsVars
            BY <2>8 DEF Sudo
        <3> HIDE DEF again
        <3>4. pc'[r] \in {"sample", "userns", "done"}
            BY <3>2, <1>1 DEF Begin, Types
        <3>5. DOMAIN pc' = Runners /\ \A q \in Runners \ {r} : pc'[q] = pc[q] /\ st'[q] = st[q]
            BY <3>2, <1>1 DEF Begin, Types
        <3>6. st' \in [Runners -> Strata \cup {None}] /\ st'[r] \in Strata
            BY <3>1, <3>2, <3>3, <1>1 DEF Begin, Types
        <3>7. plan' \in [Runners -> Plans]
            BY <3>1, <3>2, <1>1 DEF Begin, Types
        <3>8. Types'
            BY <3>3, <3>4, <3>5, <3>6, <3>7, <1>1 DEF Types, nsVars
        <3> QED
            BY <3>3, <3>4, <3>5, <3>8 DEF nsVars, Creating
    <2>9. CASE Changed(r)
        BY Zenon, <2>9, <1>1 DEF Changed, Step, Types, nsVars, Creating
    <2>10. CASE Return(r)
        BY <2>10, <1>1 DEF Return, Step, Types, nsVars, runVars, Creating
    <2> QED
        BY Zenon, <2>1, <2>2, <2>3, <2>4, <2>5, <2>6, <2>7, <2>8, <2>9, <2>10 DEF Run
<1> QED
    BY <1>2, Quiet

\* Looking for the holder and entering its namespace.
LEMMA LookKeepsHolder ==
    ASSUME HolderInv, Same, NEW r \in Runners, Look(r) \/ Join(r) PROVE HolderInv'
<1>1. Types
    BY DEF HolderInv
<1>2. pc'[r] \in {"join", "lock", "exec", "reap"} /\ pc[r] \in {"look", "join"}
    BY <1>1 DEF Look, Join, Step, Types
<1>3. UNCHANGED <<nsVars, st, plan>>
    BY DEF Look, Join, Same, runVars
<1>4. DOMAIN pc' = Runners /\ \A q \in Runners \ {r} : pc'[q] = pc[q]
    BY <1>1 DEF Look, Join, Step, Types
<1>5. Types'
    BY <1>1, <1>2, <1>3, <1>4 DEF Types, nsVars
<1> QED
    BY <1>2, <1>3, <1>4, <1>5, Quiet DEF nsVars, Creating

\* A runner that is creating a holder for s has its lock, so it is alone.
LEMMA OneCreator ==
    ASSUME LockInv, NEW q \in Runners, NEW r \in Runners, st[r] \in Strata, st[q] = st[r],
           pc[q] \in Creating, pc[r] \in Creating
    PROVE  q = r
BY DEF LockInv

LEMMA LockKeepsHolder ==
    ASSUME HolderInv, Same, NEW r \in Runners, Lock(r) PROVE HolderInv'
<1> USE DEF Lock, Step
<1>1. Types /\ LockInv /\ PidInv
    BY Zenon DEF HolderInv
<1>2. Types'
    BY <1>1 DEF Types, Same, runVars
<1>3. LockInv'
    BY <1>1, HolderAssumption DEF LockInv, Types, Creating
<1>4. PidInv'
    BY <1>1 DEF PidInv
<1>5. ASSUME NEW s \in Strata, Clean(s)' PROVE CleanInv(s)'
    <2>1. CleanInv(s)
        BY <1>5 DEF HolderInv, Clean
    <2> QED
        BY <2>1, <1>1 DEF CleanInv, Living, Stopping, Types
<1> QED
    BY Zenon, <1>2, <1>3, <1>4, <1>5 DEF HolderInv

LEMMA RecheckKeepsHolder ==
    ASSUME HolderInv, Same, NEW r \in Runners, Recheck(r) PROVE HolderInv'
<1> USE DEF Recheck, Step
<1>1. Types /\ LockInv /\ PidInv
    BY Zenon DEF HolderInv
<1>2. Types'
    BY <1>1 DEF Types, Same, runVars, Unlocked
<1>3. LockInv'
    BY <1>1, HolderAssumption DEF LockInv, Types, Creating, Unlocked
<1>4. PidInv'
    BY <1>1 DEF PidInv
<1>5. ASSUME NEW s \in Strata, Clean(s)' PROVE CleanInv(s)'
    <2>1. CleanInv(s)
        BY <1>5 DEF HolderInv, Clean
    <2>2. ASSUME NEW q \in Runners, NEW p \in Pids, pc'[q] \in {"unlink", "fork"}, st[q] = s
          PROVE  ~Living(s, p)
        <3>1. CASE q # r
            BY <3>1, <2>1, <2>2, <1>1 DEF CleanInv, Types
        <3>2. CASE q = r
            <4>1. ~Alive(pidfile[s])
                BY <3>2, <2>2, <1>1 DEF Types
            <4>2. \A t \in Runners : ~(pc[t] = "poll" /\ st[t] = s)
                BY <3>2, <2>2, <1>1, OneCreator DEF Creating
            <4> QED
                BY <4>1, <4>2, <2>1, HolderAssumption DEF CleanInv, Living, Alive, Pids
        <3> QED
            BY <3>1, <3>2
    <2> QED
        BY <2>1, <2>2, <1>1 DEF CleanInv, Living, Stopping, Types
<1> QED
    BY Zenon, <1>2, <1>3, <1>4, <1>5 DEF HolderInv

LEMMA UnlinkKeepsHolder ==
    ASSUME HolderInv, Same, NEW r \in Runners, Unlink(r) PROVE HolderInv'
<1> USE DEF Unlink, Step
<1>1. Types /\ LockInv /\ PidInv
    BY Zenon DEF HolderInv
<1>2. Types'
    BY Zenon, <1>1 DEF Types, Same, runVars
<1>3. LockInv'
    BY <1>1 DEF LockInv, Types, Creating
<1>4. PidInv'
    BY <1>1 DEF PidInv, Types
<1>5. ASSUME NEW s \in Strata, Clean(s)' PROVE CleanInv(s)'
    <2>1. CleanInv(s)
        BY Zenon, <1>5 DEF HolderInv, Clean
    <2>2. st[r] = s => \A p \in Pids : ~Living(s, p)
        BY <2>1 DEF CleanInv
    <2> QED
        BY Zenon, <2>1, <2>2, <1>1 DEF CleanInv, Living, Stopping, Types
<1> QED
    BY Zenon, <1>2, <1>3, <1>4, <1>5 DEF HolderInv

\* The new holder is the only living one, or it raced with a rollback.
LEMMA ForkKeepsHolder ==
    ASSUME HolderInv, Same, NEW r \in Runners, Fork(r) PROVE HolderInv'
<1>1. Types /\ LockInv /\ PidInv /\ st[r] \in Strata
    BY DEF HolderInv, Types, Fork, Step
<1>2. /\ pc[r] = "fork" /\ pc' = [pc EXCEPT ![r] = "poll"]
      /\ UNCHANGED <<pidfile, flock, admin, late, st, plan>>
    BY DEF Fork, Step, Same, runVars
<1>3. LockInv'
    BY <1>1, <1>2 DEF LockInv, Types, Creating
<1>4. CASE UNCHANGED <<phase, of, raced>>
    <2>1. Types'
        BY <1>1, <1>2, <1>4 DEF Types
    <2>2. PidInv'
        BY Zenon, <1>1, <1>2, <1>4 DEF PidInv
    <2>3. ASSUME NEW s \in Strata, Clean(s)' PROVE CleanInv(s)'
        <3>1. CleanInv(s)
            BY <2>3, <1>2, <1>4 DEF HolderInv, Clean
        <3> QED
            BY Zenon, <3>1, <1>1, <1>2, <1>4 DEF CleanInv, Living, Stopping, Types
    <2> QED
        BY <1>3, <2>1, <2>2, <2>3 DEF HolderInv
<1>5. ASSUME NEW p \in Pids, phase[p] = "free", phase' = [phase EXCEPT ![p] = "forked"],
             of' = [of EXCEPT ![p] = st[r]],
             raced' = IF Stopping(st[r]) THEN raced \cup {p} ELSE raced
      PROVE  HolderInv'
    <2>1. Types'
        BY <1>1, <1>2, <1>5 DEF Types, Phases
    <2>2. PidInv'
        BY <1>1, <1>2, <1>5, HolderAssumption DEF PidInv, Types
    <2>3. ASSUME NEW s \in Strata, Clean(s)' PROVE CleanInv(s)'
        <3>1. of[p] = None /\ of[p] # s /\ ~Living(s, p)
            BY <1>1, <1>5, HolderAssumption DEF PidInv, Living
        <3>2. \A q \in Pids \ {p} : of'[q] = of[q] /\ phase'[q] = phase[q]
            BY <1>1, <1>5 DEF Types
        <3>3. Clean(s) /\ CleanInv(s)
            BY <2>3, <3>1, <3>2, <1>2, <1>5 DEF HolderInv, Clean
        <3>4. CASE s # st[r]
            <4>1. of'[p] # s
                BY <3>4, <1>1, <1>5 DEF Types
            <4>2. \A q \in Pids : of'[q] = s => q # p
                BY <4>1
            <4>3. \A q \in Pids : Living(s, q)' => Living(s, q)
                BY <4>2, <3>2 DEF Living
            <4>4. \A q \in Pids : of'[q] = s => of[q] = s /\ phase'[q] = phase[q]
                BY <4>2, <3>2
            <4>5. Stopping(s)' => Stopping(s)
                BY <1>2 DEF Stopping
            <4>6. \A q \in Runners :
                     pc[q] = pc'[q] \/ (q = r /\ pc[q] = "fork" /\ pc'[q] = "poll")
                BY <1>1, <1>2 DEF Types
            <4>7. ASSUME NEW q \in Pids, of'[q] = s, phase'[q] \in {"forked", "mounted"}
                  PROVE  \E t \in Runners : pc'[t] = "poll" /\ st'[t] = s
                <5>1. of[q] = s /\ phase[q] \in {"forked", "mounted"}
                    BY <4>4, <4>7
                <5>2. PICK t \in Runners : pc[t] = "poll" /\ st[t] = s
                    BY <3>3, <5>1 DEF CleanInv
                <5>3. pc'[t] = "poll"
                    BY <4>6, <5>2
                <5> QED
                    BY <5>2, <5>3, <1>2
            <4>8. \A q \in Pids : of'[q] = s /\ phase'[q] = "up" => pidfile'[s] = q
                BY Zenon, <3>3, <4>4, <1>2 DEF CleanInv
            <4>9. \A q, u \in Pids : Living(s, q)' /\ Living(s, u)' => q = u
                BY Zenon, <3>3, <4>3 DEF CleanInv
            <4>10. \A q \in Pids : Living(s, q)' /\ Stopping(s)' =>
                      admin'.step = "kill" /\ admin'.p = q
                BY Zenon, <3>3, <4>3, <4>5, <1>2 DEF CleanInv
            <4>11. \A t \in Runners, q \in Pids :
                      pc'[t] \in {"unlink", "fork"} /\ st'[t] = s => ~Living(s, q)'
                BY Zenon, <3>3, <4>3, <4>6, <1>2 DEF CleanInv
            <4> QED
                BY Zenon, <4>7, <4>8, <4>9, <4>10, <4>11 DEF CleanInv
        <3>5. CASE s = st[r]
            <4>1. \A q \in Pids : ~Living(s, q)
                BY Zenon, <3>3, <3>5, <1>2 DEF CleanInv
            <4>2. of'[p] = s /\ phase'[p] = "forked" /\ pc'[r] = "poll" /\ st'[r] = s
                BY <3>5, <1>1, <1>2, <1>5 DEF Types
            <4>3. ~Stopping(s) /\ ~Stopping(s)'
                BY <2>3, <4>2, <3>5, <1>2, <1>5 DEF Clean, Stopping
            <4>4. \A q \in Pids : Living(s, q)' => q = p
                BY <4>1, <3>2 DEF Living
            <4>5. \A q \in Runners : ~(pc'[q] \in {"unlink", "fork"} /\ st'[q] = s)
                BY Zenon, <3>5, <1>1, <1>2, OneCreator DEF Creating, Types
            <4> QED
                BY Zenon, <4>2, <4>3, <4>4, <4>5 DEF CleanInv, Living
        <3> QED
            BY <3>4, <3>5
    <2> QED
        BY <1>3, <2>1, <2>2, <2>3 DEF HolderInv
<1> QED
    BY <1>4, <1>5 DEF Fork

\* The holder that is waited for has published.
LEMMA PollKeepsHolder ==
    ASSUME HolderInv, Same, NEW r \in Runners, Poll(r) PROVE HolderInv'
<1> USE DEF Poll, Step
<1>1. Types /\ LockInv /\ PidInv /\ st[r] \in Strata
    BY DEF HolderInv, Types
<1>2. Types'
    BY <1>1 DEF Types, Same, runVars, Unlocked
<1>3. LockInv'
    BY <1>1, HolderAssumption DEF LockInv, Types, Creating, Unlocked
<1>4. PidInv'
    BY <1>1 DEF PidInv
<1>5. ASSUME NEW s \in Strata, Clean(s)' PROVE CleanInv(s)'
    <2>1. CleanInv(s)
        BY <1>5 DEF HolderInv, Clean
    <2>2. ASSUME st[r] = s, NEW p \in Pids, of[p] = s, phase[p] \in {"forked", "mounted"}
          PROVE  FALSE
        <3>1. Alive(pidfile[s])
            BY Zenon, <2>2
        <3>2. pidfile[s] # None /\ pidfile[s] \in Pids
            BY Zenon, <3>1, <1>1 DEF Alive, Types
        <3>3. of[pidfile[s]] = s /\ phase[pidfile[s]] = "up"
            BY Zenon, <3>1, <3>2, <1>1 DEF PidInv, Alive
        <3>4. Living(s, pidfile[s]) /\ Living(s, p)
            BY Zenon, <3>3, <2>2 DEF Living
        <3>5. pidfile[s] = p
            BY Zenon, <3>2, <3>4, <2>1 DEF CleanInv
        <3> QED
            BY <3>3, <3>5, <2>2
    <2>3. \A q \in Runners \ {r} : pc'[q] = pc[q]
        BY Zenon, <1>1 DEF Types
    <2>4. \A p \in Pids : of[p] = s /\ phase[p] \in {"forked", "mounted"} =>
             \E q \in Runners : pc'[q] = "poll" /\ st'[q] = s
        <3> SUFFICES ASSUME NEW p \in Pids, of[p] = s, phase[p] \in {"forked", "mounted"}
                     PROVE  \E q \in Runners : pc'[q] = "poll" /\ st'[q] = s
            BY Zenon
        <3>1. PICK q \in Runners : pc[q] = "poll" /\ st[q] = s
            BY Zenon, <2>1 DEF CleanInv
        <3>2. q # r
            BY Zenon, <3>1, <2>2
        <3> QED
            BY Zenon, <3>1, <3>2, <2>3
    <2> QED
        BY Zenon, <2>1, <2>4, <1>1 DEF CleanInv, Living, Stopping, Types
<1> QED
    BY Zenon, <1>2, <1>3, <1>4, <1>5 DEF HolderInv

\* A runner leaves, and the lock goes with it: a holder it had not seen
\* published counts as late.
LEMMA Leaving ==
    ASSUME HolderInv, NEW r \in Runners, pc[r] # "start", plan' \in [Runners -> Plans],
           UNCHANGED <<pidfile, phase, of, admin, raced, st>>,
           flock' = Unlocked(r),
           NEW to \in {"reap", "done"}, pc' = [pc EXCEPT ![r] = to],
           \/ late' = late \cup Unpublished(st[r])
           \/ late' = late /\ \A s \in Strata : flock[s] # r
    PROVE  HolderInv'
<1>1. Types /\ LockInv /\ PidInv /\ st[r] \in Strata
    BY DEF HolderInv, Types
<1>2. Types'
    BY Zenon, <1>1 DEF Types, Unlocked
<1>3. LockInv'
    BY <1>1, HolderAssumption DEF LockInv, Types, Creating, Unlocked
<1>4. PidInv'
    BY Zenon, <1>1 DEF PidInv
<1>5. ASSUME NEW s \in Strata, Clean(s)' PROVE CleanInv(s)'
    <2>1. CleanInv(s)
        BY Zenon, <1>5 DEF HolderInv, Clean
    <2>2. \A q \in Runners \ {r} : pc'[q] = pc[q]
        BY Zenon, <1>1 DEF Types
    <2>3. ASSUME NEW p \in Pids, of[p] = s, phase[p] \in {"forked", "mounted"}
          PROVE  \E q \in Runners : pc'[q] = "poll" /\ st[q] = s
        <3>1. PICK q \in Runners : pc[q] = "poll" /\ st[q] = s
            BY Zenon, <2>1, <2>3 DEF CleanInv
        <3>2. flock[s] = q
            BY Zenon, <3>1, <1>1 DEF LockInv, Creating
        <3>3. q # r
            BY Zenon, <3>1, <3>2, <2>3, <1>5 DEF Clean, Unpublished
        <3> QED
            BY Zenon, <3>1, <3>3, <2>2
    <2>4. \A q \in Runners : pc'[q] \in {"unlink", "fork"} => pc[q] = pc'[q]
        BY Zenon, <2>2, <1>1 DEF Types
    <2>5. \A p \in Pids : Living(s, p)' <=> Living(s, p)
        BY DEF Living
    <2>6. Stopping(s)' <=> Stopping(s)
        BY Zenon DEF Stopping
    <2> QED
        BY Zenon, <2>1, <2>3, <2>4, <2>5, <2>6 DEF CleanInv
<1> QED
    BY Zenon, <1>2, <1>3, <1>4, <1>5 DEF HolderInv

LEMMA LeavingKeepsHolder ==
    ASSUME HolderInv, NEW r \in Runners, (GiveUp(r) /\ Same) \/ Interrupt(r) PROVE HolderInv'
<1>1. plan \in [Runners -> Plans]
    BY DEF HolderInv, Types
<1>2. CASE GiveUp(r) /\ Same
    BY <1>1, <1>2, Leaving, Zenon DEF GiveUp, Same, runVars
<1>3. CASE Interrupt(r)
    BY <1>1, <1>3, Leaving, Zenon DEF Interrupt
<1> QED
    BY <1>2, <1>3

\* A holder dies, or goes on towards the pid file.
LEMMA HolderKeepsHolder ==
    ASSUME HolderInv, NEW p \in Pids, HolderSetup(p) \/ HolderDies(p),
           plan' = plan
    PROVE  HolderInv'
<1>1. Types /\ LockInv /\ PidInv
    BY DEF HolderInv
<1>2. UNCHANGED <<pidfile, flock, of, admin, late, raced, pc, st>>
    BY Zenon DEF HolderSetup, HolderDies
<1>3. /\ \A q \in Pids \ {p} : phase'[q] = phase[q]
      /\ phase' \in [Pids -> Phases]
      /\ \/ phase[p] = "forked" /\ phase'[p] \in {"mounted", "dead"}
         \/ phase[p] = "up" /\ phase'[p] = "dead"
    BY Zenon, <1>1 DEF HolderSetup, HolderDies, Types, Phases
<1>4. Types' /\ LockInv'
    <2>1. Types'
        BY Zenon, <1>1, <1>2, <1>3 DEF Types
    <2>2. LockInv'
        BY Zenon, <1>1, <1>2 DEF LockInv
    <2> QED
        BY <2>1, <2>2
<1>5. PidInv'
    <2>1. \A q \in Pids : phase'[q] = "free" <=> of'[q] = None
        <3>1. \A q \in Pids : phase'[q] = "free" <=> phase[q] = "free"
            BY <1>3
        <3> QED
            BY Zenon, <3>1, <1>1, <1>2 DEF PidInv
    <2>2. ASSUME NEW s \in Strata, pidfile'[s] # None
          PROVE  of'[pidfile'[s]] = s /\ phase'[pidfile'[s]] \in {"up", "dead"}
        <3>1. pidfile[s] \in Pids
            BY <2>2, <1>1, <1>2 DEF Types
        <3>2. of[pidfile[s]] = s /\ phase[pidfile[s]] \in {"up", "dead"}
            BY Zenon, <2>2, <1>1, <1>2 DEF PidInv
        <3> QED
            BY Zenon, <3>1, <3>2, <1>2, <1>3
    <2> QED
        BY Zenon, <2>1, <2>2 DEF PidInv
<1>6. ASSUME NEW s \in Strata, Clean(s)' PROVE CleanInv(s)'
    <2>1. CleanInv(s)
        BY <1>6, <1>2 DEF HolderInv, Clean
    <2>2. \A q \in Pids : Living(s, q)' => Living(s, q)
        BY <1>2, <1>3 DEF Living
    <2>3. \A q \in Pids : /\ phase'[q] = "up" => phase[q] = "up"
                          /\ phase'[q] \in {"forked", "mounted"} =>
                                phase[q] \in {"forked", "mounted"}
        BY <1>3
    <2> QED
        BY <2>1, <2>2, <2>3, <1>2, Zenon DEF CleanInv, Stopping
<1> QED
    BY <1>4, <1>5, <1>6 DEF HolderInv

LEMMA PublishKeepsHolder ==
    ASSUME HolderInv, Same, NEW p \in Pids, Publish(p) PROVE HolderInv'
<1>1. Types /\ LockInv /\ PidInv
    BY DEF HolderInv
<1>2. UNCHANGED <<flock, of, admin, late, raced, pc, st, plan>> /\ phase[p] = "mounted"
    BY Zenon DEF Publish, Same, runVars
<1>3. of[p] \in Strata
    BY <1>1, <1>2 DEF PidInv, Types
<1>4. /\ \A q \in Pids \ {p} : phase'[q] = phase[q]
      /\ phase' \in [Pids -> Phases]
      /\ pidfile' \in [Strata -> Pids \cup {None}]
      /\ \A s \in Strata \ {of[p]} : pidfile'[s] = pidfile[s]
      /\ \/ phase'[p] = "up" /\ pidfile'[of[p]] = p
         \/ phase'[p] = "dead" /\ pidfile' = pidfile
    BY <1>1, <1>3 DEF Publish, Types, Phases
<1>5. Types' /\ LockInv'
    <2>1. Types'
        BY Zenon, <1>1, <1>2, <1>4 DEF Types
    <2>2. LockInv'
        BY Zenon, <1>1, <1>2 DEF LockInv
    <2> QED
        BY <2>1, <2>2
<1>6. PidInv'
    <2>1. \A q \in Pids : phase'[q] = "free" <=> of'[q] = None
        <3>1. \A q \in Pids : phase'[q] = "free" <=> phase[q] = "free"
            BY Zenon, <1>2, <1>4
        <3> QED
            BY Zenon, <3>1, <1>1, <1>2 DEF PidInv
    <2>2. ASSUME NEW s \in Strata, pidfile'[s] # None
          PROVE  of'[pidfile'[s]] = s /\ phase'[pidfile'[s]] \in {"up", "dead"}
        <3>1. CASE pidfile'[s] = pidfile[s]
            <4>1. of[pidfile[s]] = s /\ phase[pidfile[s]] \in {"up", "dead"}
                BY Zenon, <3>1, <2>2, <1>1 DEF PidInv
            <4>2. pidfile[s] \in Pids
                BY Zenon, <3>1, <2>2, <1>1 DEF Types
            <4> QED
                BY Zenon, <3>1, <4>1, <4>2, <1>2, <1>4
        <3>2. CASE pidfile'[s] # pidfile[s]
            BY Zenon, <3>2, <1>2, <1>4
        <3> QED
            BY <3>1, <3>2
    <2> QED
        BY Zenon, <2>1, <2>2 DEF PidInv
<1>7. ASSUME NEW s \in Strata, Clean(s)' PROVE CleanInv(s)'
    <2>1. CleanInv(s)
        BY Zenon, <1>7, <1>2 DEF HolderInv, Clean
    <2>2. \A q \in Pids : Living(s, q)' => Living(s, q)
        BY Zenon, <1>2, <1>4 DEF Living
    <2>3. \A q \in Pids : of'[q] = s /\ phase'[q] = "up" => pidfile'[s] = q
        <3>1. SUFFICES ASSUME NEW q \in Pids, of[q] = s, phase'[q] = "up"
                       PROVE  pidfile'[s] = q
            BY <1>2
        <3>2. CASE of[p] = s
            <4>1. Living(s, p) /\ Living(s, q)
                BY Zenon, <3>1, <3>2, <2>2, <1>2 DEF Living
            <4>2. q = p
                BY Zenon, <4>1, <2>1 DEF CleanInv
            <4> QED
                BY Zenon, <4>2, <3>1, <3>2, <1>4
        <3>3. CASE of[p] # s
            BY Zenon, <3>1, <3>3, <2>1, <1>4 DEF CleanInv
        <3> QED
            BY Zenon, <3>2, <3>3
    <2>4. \A q \in Pids : phase'[q] \in {"forked", "mounted"} =>
             phase[q] \in {"forked", "mounted"}
        BY Zenon, <1>2, <1>4
    <2> QED
        BY Zenon, <2>1, <2>2, <2>3, <2>4, <1>2 DEF CleanInv, Stopping
<1> QED
    BY <1>5, <1>6, <1>7 DEF HolderInv

\* A rollback begins: what is living and not racing with it is in the pid
\* file, and so it is what the rollback has read.
LEMMA NsReadKeepsHolder ==
    ASSUME HolderInv, NEW t \in Strata, NsRead(t), plan' = plan PROVE HolderInv'
<1> USE DEF NsRead
<1>1. Types /\ LockInv /\ PidInv
    BY Zenon DEF HolderInv
<1>2. Types'
    BY Zenon, <1>1 DEF Types
<1>3. LockInv' /\ PidInv'
    <2>1. LockInv'
        BY Zenon, <1>1 DEF LockInv
    <2>2. PidInv'
        BY Zenon, <1>1 DEF PidInv
    <2> QED
        BY Zenon, <2>1, <2>2
<1>4. ASSUME NEW s \in Strata, Clean(s)' PROVE CleanInv(s)'
    <2>1. Clean(s)
        BY <1>4, Zenon DEF Clean
    <2>2. CleanInv(s)
        BY <2>1 DEF HolderInv
    <2>3. ASSUME NEW p \in Pids, Living(s, p), s = t PROVE pidfile[s] = p
        <3>1. p \notin Unpublished(s)
            BY Zenon, <1>4, <2>3 DEF Clean, Living
        <3>2. phase[p] = "up" /\ of[p] = s
            BY Zenon, <3>1, <2>3 DEF Unpublished, Living
        <3> QED
            BY Zenon, <3>2, <2>2 DEF CleanInv
    <2>4. Stopping(s)' => s = t /\ admin'.step = "kill" /\ admin'.p = pidfile[s]
        BY Zenon DEF Stopping
    <2> QED
        BY <2>2, <2>3, <2>4, Zenon DEF CleanInv, Living
<1> QED
    BY Zenon, <1>2, <1>3, <1>4 DEF HolderInv

LEMMA NsKillKeepsHolder ==
    ASSUME HolderInv, Same, NsKill PROVE HolderInv'
<1>1. Types /\ LockInv /\ PidInv
    BY DEF HolderInv
<1>2. /\ UNCHANGED <<pidfile, flock, of, late, raced, pc, st, plan>>
      /\ admin.step = "kill" /\ admin' = [admin EXCEPT !.step = "unlink"]
    BY DEF NsKill, AdminStep, Same, runVars
<1>3. /\ phase' \in [Pids -> Phases]
      /\ \A q \in Pids : phase'[q] = phase[q] \/ phase'[q] = "dead"
      /\ \A q \in Pids : phase'[q] = "dead" => phase[q] # "free"
      /\ \A q \in Pids : q = admin.p => phase'[q] \notin {"forked", "mounted", "up"}
    <2>1. phase \in [Pids -> Phases] /\ admin.p \in Pids \cup {None}
        BY <1>1 DEF Types
    <2>2. CASE Alive(admin.p)
        <3>1. admin.p \in Pids /\ phase[admin.p] \in {"forked", "mounted", "up"}
            BY <2>1, <2>2 DEF Alive
        <3>2. phase' = [phase EXCEPT ![admin.p] = "dead"]
            BY <2>2 DEF NsKill
        <3> QED
            BY <2>1, <3>1, <3>2 DEF Phases
    <2>3. CASE ~Alive(admin.p)
        <3>1. phase' = phase
            BY <2>3 DEF NsKill
        <3>2. \A q \in Pids : q = admin.p => phase[q] \notin {"forked", "mounted", "up"}
            BY <2>3, HolderAssumption DEF Alive, Pids
        <3> QED
            BY <2>1, <3>1, <3>2
    <2> QED
        BY Zenon, <2>2, <2>3
<1>4. admin'.step = "unlink" /\ admin'.s = admin.s /\ admin'.p = admin.p
    BY <1>1, <1>2 DEF Types
<1>5. Types'
    BY <1>1, <1>2, <1>3, <1>4 DEF Types
<1>6. LockInv' /\ PidInv'
    BY <1>1, <1>2, <1>3, HolderAssumption DEF LockInv, PidInv, Types
<1>7. ASSUME NEW s \in Strata, Clean(s)' PROVE CleanInv(s)'
    <2>1. CleanInv(s)
        BY <1>7, <1>2 DEF HolderInv, Clean
    <2>2. \A q \in Pids : Living(s, q)' => Living(s, q) /\ q # admin.p
        BY <1>2, <1>3 DEF Living
    <2>3. Stopping(s)' => Stopping(s)
        BY <1>2, <1>4 DEF Stopping
    <2>4. \A q \in Pids : /\ phase'[q] = "up" => phase[q] = "up"
                          /\ phase'[q] \in {"forked", "mounted"} =>
                                phase[q] \in {"forked", "mounted"}
        BY <1>3
    <2> QED
        BY <2>1, <2>2, <2>3, <2>4, <1>2 DEF CleanInv
<1> QED
    BY <1>5, <1>6, <1>7 DEF HolderInv

\* By now nothing is living, so the pid file has nothing to lose.
LEMMA NsUnlinkKeepsHolder ==
    ASSUME HolderInv, Same, NsUnlink PROVE HolderInv'
<1>1. Types /\ LockInv /\ PidInv
    BY DEF HolderInv
<1>2. /\ UNCHANGED <<phase, flock, of, late, raced, pc, st, plan>>
      /\ admin.step = "unlink" /\ admin.s \in Strata
      /\ admin' = [admin EXCEPT !.step = "replace"]
      /\ pidfile' = [pidfile EXCEPT ![admin.s] = None]
    BY <1>1 DEF NsUnlink, AdminStep, Same, runVars, Types
<1>3. admin'.step = "replace" /\ admin'.s = admin.s /\ admin'.p = admin.p
    BY <1>1, <1>2 DEF Types
<1>4. Types'
    BY <1>1, <1>2, <1>3 DEF Types
<1>5. LockInv' /\ PidInv'
    BY <1>1, <1>2 DEF LockInv, PidInv, Types
<1>6. ASSUME NEW s \in Strata, Clean(s)' PROVE CleanInv(s)'
    <2>1. CleanInv(s)
        BY <1>6, <1>2 DEF HolderInv, Clean
    <2>2. Stopping(s)' <=> Stopping(s)
        BY <1>2, <1>3 DEF Stopping
    <2>3. s = admin.s => \A p \in Pids : ~Living(s, p)
        BY <2>1, <1>2 DEF CleanInv, Stopping
    <2>4. s # admin.s => pidfile'[s] = pidfile[s]
        BY <1>1, <1>2 DEF Types
    <2>5. ~(\E p \in Pids : Living(s, p) /\ Stopping(s))
        BY <2>1, <1>2 DEF CleanInv
    <2> QED
        BY <2>1, <2>2, <2>3, <2>4, <2>5, <1>2 DEF CleanInv, Living
<1> QED
    BY <1>4, <1>5, <1>6 DEF HolderInv

LEMMA ReplaceKeepsHolder ==
    ASSUME HolderInv, Replace PROVE HolderInv'
<1>1. Types /\ LockInv /\ PidInv
    BY DEF HolderInv
<1>2. /\ UNCHANGED <<pidfile, phase, flock, of, late, raced, pc, st, plan>>
      /\ admin' = [admin EXCEPT !.step = "idle"]
    BY DEF Replace, AdminStep, runVars
<1>3. admin'.step = "idle"
    BY <1>1, <1>2 DEF Types
<1>4. Types' /\ LockInv' /\ PidInv'
    BY <1>1, <1>2, <1>3 DEF Types, LockInv, PidInv
<1>5. ASSUME NEW s \in Strata, Clean(s)' PROVE CleanInv(s)'
    <2>1. CleanInv(s)
        BY <1>5, <1>2 DEF HolderInv, Clean
    <2> QED
        BY <2>1, <1>2, <1>3 DEF CleanInv, Living, Stopping
<1> QED
    BY <1>4, <1>5 DEF HolderInv

\* Every step keeps the invariant.
LEMMA HolderStep == HolderInv /\ [Next]_vars => HolderInv'
<1> SUFFICES ASSUME HolderInv, [Next]_vars PROVE HolderInv'
    OBVIOUS
<1>1. CASE \E r \in Runners : Start(r) \/ Run(r)
    BY <1>1, RunKeepsHolder
<1>2. CASE \E r \in Runners : Child(r) /\ Same
    BY <1>2, LookKeepsHolder, LockKeepsHolder, RecheckKeepsHolder, UnlinkKeepsHolder,
       ForkKeepsHolder, PollKeepsHolder, LeavingKeepsHolder DEF Child
<1>3. CASE \E r \in Runners : Interrupt(r)
    BY <1>3, LeavingKeepsHolder
<1>4. CASE \E p \in Pids : HolderSetup(p) /\ Same
    BY <1>4, HolderKeepsHolder DEF Same, runVars
<1>5. CASE \E p \in Pids : Publish(p) /\ Same
    BY <1>5, PublishKeepsHolder
<1>6. CASE \E p \in Pids : HolderDies(p) /\ UNCHANGED plan
    BY <1>6, HolderKeepsHolder
<1>7. CASE \E s \in Strata : NsRead(s) /\ UNCHANGED plan
    BY <1>7, NsReadKeepsHolder
<1>8. CASE (NsKill \/ NsUnlink) /\ Same
    BY <1>8, NsKillKeepsHolder, NsUnlinkKeepsHolder
<1>9. CASE Replace
    BY <1>9, ReplaceKeepsHolder
<1>10. CASE UNCHANGED vars
    <2>1. UNCHANGED <<pidfile, flock, phase, of, admin, late, raced, pc, st, plan>>
        BY Zenon, <1>10 DEF vars, nsVars, runVars
    <2>2. Types'
        BY Zenon, <2>1 DEF HolderInv, Types
    <2> QED
        BY Zenon, <2>1, <2>2, Quiet
<1> QED
    BY Zenon, <1>1, <1>2, <1>3, <1>4, <1>5, <1>6, <1>7, <1>8, <1>9, <1>10 DEF Next

-----------------------------------------------------------------------------
\* A stratum has at most one living holder, whoever races to create it and
\* whatever is killed, unless its creator left early or a rollback interfered
\* (salt_run_ensure_holder's flock).
THEOREM OnlyOneHolder == Spec => []OneHolder
<1>1. HolderInv => OneHolder
    <2> SUFFICES ASSUME HolderInv, NEW s \in Strata,
                        {p \in Pids : of[p] = s} \cap (late \cup raced) = {},
                        NEW p \in Pids, NEW q \in Pids, of[p] = s, of[q] = s,
                        Alive(p), Alive(q)
                 PROVE  p = q
        BY DEF OneHolder
    <2>1. Clean(s)
        BY DEF Clean
    <2>2. Living(s, p) /\ Living(s, q)
        BY DEF Living, Alive
    <2>3. CleanInv(s)
        BY <2>1 DEF HolderInv
    <2> QED
        BY Zenon, <2>2, <2>3 DEF CleanInv
<1> QED
    BY <1>1, HolderInit, HolderStep, PTL DEF Spec

=============================================================================
