------------------------------ MODULE RunProofs -----------------------------
(***************************************************************************)
(* Proofs about salt run, for any number of runs, strata, holders,         *)
(* killings and rollbacks: the command is executed once, and the namespace *)
(* it runs in is made of the stratum's present directories.  The second    *)
(* rests on the invariant of the holders.                                  *)
(***************************************************************************)
EXTENDS HolderProofs

\* The provers of a step that names none, in this order; 30 is in seconds.
USE SMTT(30), Zenon

-----------------------------------------------------------------------------
(* The command is executed once: the inductive invariant.                  *)

\* Until the command was executed, nothing was, but for a command taken for a
\* refusal; afterwards the status is the command's.
OnceInv ==
    /\ ran \in [Runners -> Seq(Nat)] /\ DOMAIN status = Runners
    /\ plan \in [Runners -> Plans] /\ DOMAIN pc = Runners
    /\ \A r \in Runners : pc[r] \in {"start", "userns"} => ran[r] = <<>>
    /\ \A r \in Runners : pc[r] \notin {"reap", "changed", "out", "done"} =>
          ran[r] = <<>> \/ ran[r][1] = USERNS_DENIED
    /\ \A r \in Runners :
          \/ ran[r] = <<>> \/ ran[r][1] = USERNS_DENIED
          \/ Len(ran[r]) = 1 /\ status[r] = ran[r][1]

-----------------------------------------------------------------------------
\* The runs of one runner leave the others alone, so the invariant is a matter
\* of the runner that moves.
LEMMA OnceMove ==
    ASSUME OnceInv, NEW r \in Runners, plan' \in [Runners -> Plans],
           DOMAIN pc' = Runners, DOMAIN status' = Runners,
           ran' \in [Runners -> Seq(Nat)],
           \A q \in Runners \ {r} :
              pc'[q] = pc[q] /\ ran'[q] = ran[q] /\ status'[q] = status[q],
           pc'[r] \in {"start", "userns"} => ran'[r] = <<>>,
           pc'[r] \notin {"reap", "changed", "out", "done"} =>
              ran'[r] = <<>> \/ ran'[r][1] = USERNS_DENIED,
           \/ ran'[r] = <<>> \/ ran'[r][1] = USERNS_DENIED
           \/ Len(ran'[r]) = 1 /\ status'[r] = ran'[r][1]
    PROVE  OnceInv'
BY Zenon DEF OnceInv

\* Before the command is executed, nothing was, or it is about to be executed
\* again under sudo.
LEMMA OnceBefore ==
    ASSUME OnceInv, NEW r \in Runners, plan' \in [Runners -> Plans], ran' = ran,
           DOMAIN status' = Runners, \A q \in Runners \ {r} : status'[q] = status[q],
           pc[r] \notin {"reap", "changed", "out", "done"},
           NEW to, to \notin {"start", "userns"} \/ ran[r] = <<>>,
           pc' = [pc EXCEPT ![r] = to]
    PROVE  OnceInv'
<1>1. DOMAIN pc' = Runners /\ pc'[r] = to /\ \A q \in Runners \ {r} : pc'[q] = pc[q]
    BY DEF OnceInv
<1>2. ran[r] = <<>> \/ ran[r][1] = USERNS_DENIED
    BY DEF OnceInv
<1>3. ran' \in [Runners -> Seq(Nat)]
    BY DEF OnceInv
<1> QED
    BY <1>1, <1>2, <1>3, OnceMove

LEMMA OnceRun ==
    ASSUME OnceInv, NEW r \in Runners, Start(r) \/ Run(r) PROVE OnceInv'
<1>1. /\ ran \in [Runners -> Seq(Nat)] /\ DOMAIN status = Runners
      /\ plan \in [Runners -> Plans] /\ DOMAIN pc = Runners
    BY DEF OnceInv
<1>2. ASSUME NEW q \in Plans, Begin(r, q), ran' = ran, pc[r] \in {"start", "sudo"},
             pc[r] = "sudo" => q.root
      PROVE  OnceInv'
    <2>1. plan' \in [Runners -> Plans]
        BY <1>1, <1>2 DEF Begin
    <2>2. DOMAIN status' = Runners /\ \A p \in Runners \ {r} : status'[p] = status[p]
        BY <1>1, <1>2 DEF Begin
    <2>3. PICK to \in {"sample", "userns"} :
             pc' = [pc EXCEPT ![r] = to] /\ (to = "userns" => pc[r] = "start")
        BY <1>2, Zenon DEF Begin
    <2>4. pc[r] = "start" => ran[r] = <<>>
        BY DEF OnceInv
    <2> QED
        BY <2>1, <2>2, <2>3, <2>4, <1>2, OnceBefore, Zenon
<1>3. CASE Start(r)
    BY <1>1, <1>2, <1>3 DEF Start
<1>4. CASE MergeRead(r) \/ append_lines(r) \/ Useradd(r)
    <2>1. UNCHANGED <<pc, status, plan, ran>>
        BY <1>4, Zenon DEF MergeRead, append_lines, Useradd, runVars
    <2> QED
        BY <2>1 DEF OnceInv
<1>5. CASE Sample(r) \/ Userns(r)
    <2>1. PICK to \in {"look", "exec", "reap", "done"} : pc' = [pc EXCEPT ![r] = to]
        BY <1>5 DEF Sample, Userns, NoRun, Step
    <2>2. pc[r] \in {"sample", "userns"} /\ UNCHANGED <<plan, ran>>
        BY <1>5 DEF Sample, Userns, NoRun, Step
    <2>3. DOMAIN status' = Runners /\ \A q \in Runners \ {r} : status'[q] = status[q]
        BY <1>5, <1>1 DEF Sample, Userns, NoRun
    <2> QED
        BY <2>1, <2>2, <2>3, <1>1, OnceBefore, Zenon
<1>6. CASE Exec(r)
    <2>1. pc[r] = "exec" /\ pc' = [pc EXCEPT ![r] = "reap"] /\ plan' = plan
        BY <1>6 DEF Exec, Step
    <2>2. CASE ran' = ran /\ \E e \in {125, 127} : status' = [status EXCEPT ![r] = e]
        <3>1. DOMAIN status' = Runners /\ \A q \in Runners \ {r} : status'[q] = status[q]
            BY <2>2, <1>1
        <3>2. pc[r] \notin {"reap", "changed", "out", "done"}
            BY <2>1
        <3> QED
            BY <2>1, <2>2, <3>1, <3>2, <1>1, OnceBefore, Zenon
    <2>3. ASSUME NEW e \in plan[r].exits, ran' = [ran EXCEPT ![r] = Append(@, e)],
                 status' = [status EXCEPT ![r] = e]
          PROVE  OnceInv'
        <3>1. e \in Nat /\ ran[r] \in Seq(Nat)
            BY <2>3, <1>1 DEF Plans
        <3>2. ran' \in [Runners -> Seq(Nat)] /\ ran'[r] = Append(ran[r], e) /\ status'[r] = e
            BY <2>3, <3>1, <1>1
        <3>3. ran[r] = <<>> => Len(ran'[r]) = 1 /\ ran'[r][1] = e
            BY <3>1, <3>2
        <3>4. ran[r] # <<>> => ran'[r][1] = ran[r][1]
            BY <3>1, <3>2
        <3>5. ran[r] = <<>> \/ ran[r][1] = USERNS_DENIED
            BY <2>1 DEF OnceInv
        <3>6. \A q \in Runners \ {r} :
                 pc'[q] = pc[q] /\ ran'[q] = ran[q] /\ status'[q] = status[q]
            BY <2>1, <2>3, <1>1
        <3>7. DOMAIN pc' = Runners /\ DOMAIN status' = Runners /\ pc'[r] = "reap"
            BY <2>1, <2>3, <1>1
        <3> QED
            BY <3>2, <3>3, <3>4, <3>5, <3>6, <3>7, <2>1, <1>1, OnceMove, Zenon
    <2> QED
        BY <2>2, <2>3, <1>6 DEF Exec
<1>7. CASE Reap(r) \/ Changed(r)
    <2>1. PICK to \in {"changed", "out"} : pc' = [pc EXCEPT ![r] = to]
        BY Zenon, <1>7 DEF Reap, Changed, Step
    <2>2. UNCHANGED <<plan, ran, status>>
        BY Zenon, <1>7 DEF Reap, Changed, runVars
    <2> QED
        BY <2>1, <2>2 DEF OnceInv
<1>8. CASE Return(r)
    <2>1. PICK to \in {"sudo", "done"} :
             /\ pc' = [pc EXCEPT ![r] = to]
             /\ to = "sudo" => status[r] = USERNS_DENIED
        BY <1>8, Zenon DEF Return, Step
    <2>2. UNCHANGED <<plan, ran>>
        BY <1>8 DEF Return, runVars
    <2>3. status' = [status EXCEPT ![r] = IF status[r] = USERNS_DENIED THEN 126 ELSE @]
        BY <1>8 DEF Return
    <2>4. \/ ran[r] = <<>> \/ ran[r][1] = USERNS_DENIED
          \/ Len(ran[r]) = 1 /\ status[r] = ran[r][1] /\ status[r] # USERNS_DENIED
        BY DEF OnceInv
    <2> QED
        BY <2>1, <2>2, <2>3, <2>4 DEF OnceInv
<1>9. CASE Sudo(r)
    <2> DEFINE again == [plan[r] EXCEPT !.root = TRUE]
    <2>1. again \in Plans /\ again.root
        BY <1>1, Zenon DEF Plans
    <2>2. pc[r] = "sudo" /\ ran' = ran
        BY <1>9 DEF Sudo
    <2>3. CASE Begin(r, again)
        BY <2>1, <2>2, <2>3, <1>2, Zenon
    <2>4. CASE pc' = [pc EXCEPT ![r] = "done"] /\ UNCHANGED <<status, plan>>
        BY <2>2, <2>4, <1>1, OnceBefore, Zenon
    <2> QED
        BY <2>3, <2>4, <1>9 DEF Sudo
<1> QED
    BY <1>3, <1>4, <1>5, <1>6, <1>7, <1>8, <1>9 DEF Run

LEMMA OnceChild ==
    ASSUME OnceInv, NEW r \in Runners, Child(r), Same PROVE OnceInv'
<1>1. PICK to \in {"recheck", "unlink", "fork", "poll", "lock", "join", "exec", "reap"} :
         pc' = [pc EXCEPT ![r] = to]
    BY DEF Child, Look, Lock, Recheck, Unlink, Fork, Poll, GiveUp, Join, Step
<1>2. UNCHANGED <<plan, ran>>
    BY DEF Same, runVars
<1>3. pc[r] \notin {"reap", "changed", "out", "done"}
    BY Zenon DEF Child, Look, Lock, Recheck, Unlink, Fork, Poll, GiveUp, Join, Step
<1>4. status' = status \/ \E e : status' = [status EXCEPT ![r] = e]
    BY DEF Child, Look, Lock, Recheck, Unlink, Fork, Poll, GiveUp, Join
<1>5. DOMAIN status' = Runners /\ \A q \in Runners \ {r} : status'[q] = status[q]
    BY <1>4 DEF OnceInv
<1>6. plan' \in [Runners -> Plans]
    BY <1>2 DEF OnceInv
<1>7. to \notin {"start", "userns"}
    OBVIOUS
<1> QED
    BY <1>1, <1>2, <1>3, <1>5, <1>6, <1>7, OnceBefore, Zenon

LEMMA OnceInterrupt ==
    ASSUME OnceInv, NEW r \in Runners, Interrupt(r) PROVE OnceInv'
<1>1. /\ pc' = [pc EXCEPT ![r] = "done"] /\ plan' = plan
      /\ ran' = [ran EXCEPT ![r] = <<>>] /\ status' = [status EXCEPT ![r] = 137]
    BY DEF Interrupt
<1> QED
    BY <1>1 DEF OnceInv

LEMMA OnceStep == OnceInv /\ [Next]_vars => OnceInv'
<1> SUFFICES ASSUME OnceInv, [Next]_vars PROVE OnceInv'
    OBVIOUS
<1>1. CASE UNCHANGED <<pc, status, plan, ran>>
    BY <1>1 DEF OnceInv
<1>2. CASE \E p \in Pids : (HolderSetup(p) \/ Publish(p)) /\ Same
    BY Zenon, <1>1, <1>2 DEF HolderSetup, Publish, Same, runVars
<1>3. CASE \E p \in Pids : HolderDies(p) /\ UNCHANGED <<plan, ran>>
    BY <1>1, <1>3 DEF HolderDies
<1>4. CASE \E s \in Strata : NsRead(s) /\ UNCHANGED <<plan, ran>>
    BY <1>1, <1>4 DEF NsRead
<1>5. CASE (NsKill \/ NsUnlink) /\ Same
    BY <1>1, <1>5 DEF NsKill, NsUnlink, Same, runVars
<1>6. CASE Replace
    BY <1>1, <1>6 DEF Replace, runVars
<1>7. CASE UNCHANGED vars
    BY <1>1, <1>7 DEF vars, runVars
<1>8. CASE \E r \in Runners : Start(r) \/ Run(r)
    BY <1>8, OnceRun
<1>9. CASE \E r \in Runners : Child(r) /\ Same
    BY <1>9, OnceChild
<1>10. CASE \E r \in Runners : Interrupt(r)
    BY <1>10, OnceInterrupt
<1> QED
    BY <1>2, <1>3, <1>4, <1>5, <1>6, <1>7, <1>8, <1>9, <1>10 DEF Next

\* However it is refused, started over under sudo or interrupted, salt run
\* executes its command once and exits with the command's status, unless that
\* status is the one a refusal has (cmd_run, run_fallback_sudo).
THEOREM CommandRunsOnce == Spec => []CommandOnce
<1>1. Init => OnceInv
    <2> SUFFICES ASSUME Init PROVE OnceInv
        OBVIOUS
    <2>1. PICK c \in Scenarios : plan = c.plan
        BY DEF Init
    <2>2. ran = [r \in Runners |-> <<>>]
        BY DEF Init
    <2>3. DOMAIN status = Runners /\ DOMAIN pc = Runners
        BY DEF Init
    <2> QED
        BY <2>1, <2>2, <2>3, ScenarioAssumption DEF OnceInv
<1>2. OnceInv => CommandOnce
    BY DEF OnceInv, CommandOnce
<1> QED
    BY <1>1, <1>2, OnceStep, PTL DEF Spec

-----------------------------------------------------------------------------
(* The namespace is up to date: the inductive invariant.                   *)

\* The binds of the holder in the pid file are on the present directories
\* unless a rollback raced with its start; between the stop and the replacement
\* only such a holder can be in the file.
FileView(s) ==
    /\ pidfile[s] # None /\ pidfile[s] \notin raced => view[pidfile[s]] = gen[s]
    /\ pidfile[s] # None /\ Stopping(s) /\ admin.step = "replace" => pidfile[s] \in raced

\* So are those of a holder that is about to publish itself.
StartView(p) ==
    /\ phase[p] \in {"forked", "mounted"} /\ Stopping(of[p]) => p \in raced
    /\ phase[p] = "mounted" /\ p \notin raced => view[p] = gen[of[p]]

\* So are those of the holder a run has found, unless the directories were
\* replaced since it looked.
RunView(r) ==
    /\ pc[r] = "userns" => ~plan[r].root
    /\ pc[r] \in Creating \cup {"lock", "join", "exec"} /\ plan[r].root =>
          since[r] <= gen[st[r]]
    /\ pc[r] \in {"join", "exec"} /\ plan[r].root =>
          /\ pid[r] # None /\ phase[pid[r]] \in {"up", "dead"}
          /\ since[r] = gen[st[r]] /\ pid[r] \notin raced => view[pid[r]] = gen[st[r]]

ViewTypes ==
    /\ gen \in [Strata -> Nat] /\ since \in [Runners -> Nat] /\ DOMAIN view = Pids
    /\ pid \in [Runners -> Pids \cup {None}]

ViewInv ==
    /\ ViewTypes
    /\ \A s \in Strata : FileView(s)
    /\ \A p \in Pids : StartView(p)
    /\ \A r \in Runners : RunView(r)

-----------------------------------------------------------------------------
\* A run has found holder p, which is in the pid file of its stratum.
LEMMA Found ==
    ASSUME Types, PidInv, ViewInv, NEW r \in Runners, st[r] \in Strata, Alive(pidfile[st[r]])
    PROVE  /\ pidfile[st[r]] \in Pids /\ phase[pidfile[st[r]]] \in {"up", "dead"}
           /\ pidfile[st[r]] \notin raced => view[pidfile[st[r]]] = gen[st[r]]
<1>1. pidfile[st[r]] # None /\ pidfile[st[r]] \in Pids
    BY DEF Alive, Types
<1> QED
    BY <1>1 DEF PidInv, ViewInv, FileView

\* A step of one run that leaves holders and rollback alone.
LEMMA ViewMove ==
    ASSUME ViewInv, NEW r \in Runners, RunView(r)',
           UNCHANGED <<gen, phase, of, view, admin, raced>>,
           \A s \in Strata : pidfile'[s] = pidfile[s] \/ pidfile'[s] = None,
           since' \in [Runners -> Nat], pid' \in [Runners -> Pids \cup {None}],
           \A q \in Runners \ {r} : /\ pc'[q] = pc[q] /\ st'[q] = st[q] /\ pid'[q] = pid[q]
                                    /\ since'[q] = since[q] /\ plan'[q] = plan[q]
    PROVE  ViewInv'
<1>1. ASSUME NEW q \in Runners PROVE RunView(q)'
    <2>1. CASE q = r
        BY <2>1
    <2>2. CASE q # r
        BY Zenon, <2>2 DEF ViewInv, RunView
    <2> QED
        BY Zenon, <2>1, <2>2
<1>2. ASSUME NEW s \in Strata PROVE FileView(s)'
    BY DEF ViewInv, FileView, Stopping
<1>3. ASSUME NEW p \in Pids PROVE StartView(p)'
    BY Zenon DEF ViewInv, StartView, Stopping
<1>4. ViewTypes'
    BY DEF ViewInv, ViewTypes
<1> QED
    BY Zenon, <1>1, <1>2, <1>3, <1>4 DEF ViewInv

LEMMA ViewRun ==
    ASSUME HolderInv, ViewInv, NEW r \in Runners, Start(r) \/ Run(r) PROVE ViewInv'
<1>1. Types
    BY DEF HolderInv
<1>2. UNCHANGED nsVars
    BY Zenon
       DEF Start, Run, MergeRead, append_lines, Sample, Userns, Useradd, Exec, Reap, Sudo,
           Changed, Return
<1>3. /\ since \in [Runners -> Nat] /\ pid \in [Runners -> Pids \cup {None}]
      /\ DOMAIN pc = Runners /\ plan \in [Runners -> Plans]
      /\ st \in [Runners -> Strata \cup {None}]
    BY Zenon, <1>1 DEF ViewInv, ViewTypes, Types
<1>4. ASSUME NEW q \in Plans, Begin(r, q), UNCHANGED <<pid, since>> PROVE ViewInv'
    <2>1. /\ plan'[r] = q
          /\ pc'[r] = IF q.root THEN "sample" ELSE "userns"
          /\ \A t \in Runners \ {r} : pc'[t] = pc[t] /\ st'[t] = st[t] /\ plan'[t] = plan[t]
        BY <1>3, <1>4 DEF Begin
    <2>2. RunView(r)'
        BY <2>1 DEF RunView, Creating
    <2> QED
        BY Zenon, <2>1, <2>2, <1>2, <1>3, <1>4, ViewMove DEF nsVars
<1>5. CASE Start(r)
    BY <1>3, <1>4, <1>5 DEF Start
<1>6. CASE MergeRead(r) \/ append_lines(r) \/ Useradd(r)
    <2>1. UNCHANGED <<pc, st, pid, since, plan>>
        BY <1>6, Zenon DEF MergeRead, append_lines, Useradd, runVars
    <2>2. RunView(r)'
        BY <2>1, <1>2 DEF RunView, ViewInv, nsVars
    <2> QED
        BY Zenon, <2>1, <2>2, <1>2, <1>3, ViewMove DEF nsVars
<1>7. CASE Sample(r) \/ Userns(r) \/ Exec(r)
    <2>1. UNCHANGED <<st, pid, since, plan>>
        BY <1>7 DEF Sample, Userns, Exec
    <2>2. PICK to \in {"look", "done", "exec", "reap"} :
             pc' = [pc EXCEPT ![r] = to] /\ (to = "exec" => pc[r] = "userns")
        BY Zenon, <1>7 DEF Sample, Userns, Exec, NoRun, Step
    <2>3. RunView(r)'
        BY <2>1, <2>2, <1>2, <1>3, Zenon DEF RunView, ViewInv, nsVars, Creating
    <2> QED
        BY <2>1, <2>2, <2>3, <1>2, <1>3, ViewMove, Zenon DEF nsVars
<1>8. CASE Reap(r)
    <2>1. /\ UNCHANGED <<st, plan>> /\ pid' = [pid EXCEPT ![r] = None]
          /\ since' = [since EXCEPT ![r] = 0]
        BY Zenon, <1>8 DEF Reap, runVars
    <2>2. PICK to \in {"changed", "out"} : pc' = [pc EXCEPT ![r] = to]
        BY <1>8, Zenon DEF Reap, Step
    <2>3. RunView(r)'
        BY <2>2, <1>3 DEF RunView, Creating
    <2> QED
        BY Zenon, <2>1, <2>2, <2>3, <1>2, <1>3, ViewMove DEF nsVars
<1>9. CASE Changed(r) \/ Return(r)
    <2>1. UNCHANGED <<st, pid, since, plan>>
        BY Zenon, <1>9 DEF Changed, Return, runVars
    <2>2. PICK to \in {"out", "sudo", "done"} : pc' = [pc EXCEPT ![r] = to]
        BY Zenon, <1>9 DEF Changed, Return, Step
    <2>3. RunView(r)'
        BY <2>2, <1>3 DEF RunView, Creating
    <2> QED
        BY Zenon, <2>1, <2>2, <2>3, <1>2, <1>3, ViewMove DEF nsVars
<1>10. CASE Sudo(r)
    <2> DEFINE again == [plan[r] EXCEPT !.root = TRUE]
    <2>1. again \in Plans
        BY <1>3, Zenon DEF Plans
    <2>2. UNCHANGED <<pid, since>>
        BY <1>10 DEF Sudo
    <2>3. CASE Begin(r, again)
        BY <2>1, <2>2, <2>3, <1>4
    <2>4. CASE pc' = [pc EXCEPT ![r] = "done"] /\ UNCHANGED <<st, plan>>
        <3>1. RunView(r)'
            BY <2>4, <1>3 DEF RunView, Creating
        <3> QED
            BY <3>1, <2>2, <2>4, <1>2, <1>3, ViewMove, Zenon DEF nsVars
    <2> QED
        BY <2>3, <2>4, <1>10 DEF Sudo
<1> QED
    BY <1>5, <1>6, <1>7, <1>8, <1>9, <1>10 DEF Run

\* A run looks for the holder, waits for the lock or for the holder, or leaves.
LEMMA ViewChild ==
    ASSUME HolderInv, ViewInv, NEW r \in Runners, Same,
           Look(r) \/ Lock(r) \/ Recheck(r) \/ Unlink(r) \/ Poll(r) \/ GiveUp(r) \/ Join(r)
    PROVE  ViewInv'
<1>1. Types /\ PidInv
    BY DEF HolderInv
<1>2. /\ since \in [Runners -> Nat] /\ pid \in [Runners -> Pids \cup {None}]
      /\ DOMAIN pc = Runners /\ gen \in [Strata -> Nat]
    BY Zenon, <1>1 DEF ViewInv, ViewTypes, Types
<1>3. /\ UNCHANGED <<gen, phase, of, view, admin, raced, st, plan>>
      /\ pc[r] \in Creating \cup {"look", "lock", "join"}
    BY Zenon
       DEF Look, Lock, Recheck, Unlink, Poll, GiveUp, Join, Step, Same, runVars, nsVars, Creating
<1>4. st[r] \in Strata
    BY <1>1, <1>3 DEF Types, Creating
<1>5. \A s \in Strata : pidfile'[s] = pidfile[s] \/ pidfile'[s] = None
    BY <1>1, Zenon DEF Look, Lock, Recheck, Unlink, Poll, GiveUp, Join, nsVars, Types
<1>6. RunView(r)
    BY Zenon DEF RunView, ViewInv
<1>7. ASSUME NEW to, pc' = [pc EXCEPT ![r] = to],
             since' \in [Runners -> Nat], pid' \in [Runners -> Pids \cup {None}],
             \A q \in Runners \ {r} : pid'[q] = pid[q] /\ since'[q] = since[q],
             RunView(r)'
      PROVE  ViewInv'
    <2>1. \A q \in Runners \ {r} : pc'[q] = pc[q]
        BY <1>2, <1>7
    <2> QED
        BY Zenon, <2>1, <1>3, <1>5, <1>7, ViewMove
<1>8. CASE Look(r)
    <2>1. since' = [since EXCEPT ![r] = gen[st[r]]]
        BY <1>8, Zenon DEF Look
    <2>2. since' \in [Runners -> Nat] /\ since'[r] = gen[st[r]]
        BY <2>1, <1>2, <1>4, Zenon
    <2>3. CASE Alive(pidfile[st[r]])
        <3>1. pc' = [pc EXCEPT ![r] = "join"] /\ pid' = [pid EXCEPT ![r] = pidfile[st[r]]]
            BY Zenon, <1>8, <2>3 DEF Look, Step
        <3>2. pidfile[st[r]] # None
            BY Zenon, <2>3 DEF Alive
        <3>3. RunView(r)'
            <4>1. pc'[r] = "join" /\ pid'[r] = pidfile[st[r]]
                BY <3>1, <1>2
            <4>2. /\ phase[pidfile[st[r]]] \in {"up", "dead"}
                  /\ pidfile[st[r]] \notin raced => view[pidfile[st[r]]] = gen[st[r]]
                BY <2>3, <1>1, <1>4, Found
            <4>3. since'[r] <= gen'[st'[r]]
                BY <2>2, <1>2, <1>3, <1>4
            <4> QED
                BY <4>1, <4>2, <4>3, <3>2, <1>3, Zenon DEF RunView
        <3> QED
            BY <3>1, <3>3, <2>1, <2>2, <2>3, <1>1, <1>2, <1>4, <1>7, Found, Zenon
    <2>4. CASE ~Alive(pidfile[st[r]])
        <3>1. pc' = [pc EXCEPT ![r] = "lock"] /\ pid' = [pid EXCEPT ![r] = None]
            BY Zenon, <1>8, <2>4 DEF Look, Step
        <3>2. RunView(r)'
            BY <3>1, <2>2, <1>2, <1>3, <1>4 DEF RunView
        <3> QED
            BY <3>1, <3>2, <2>1, <2>2, <1>2, <1>7, Zenon
    <2> QED
        BY Zenon, <2>3, <2>4
<1>9. CASE Recheck(r) \/ Poll(r)
    <2>1. since' = since /\ pc[r] \in Creating
        BY <1>9, Zenon DEF Recheck, Poll, Step, Creating
    <2>2. CASE Alive(pidfile[st[r]])
        <3>1. pc' = [pc EXCEPT ![r] = "join"] /\ pid' = [pid EXCEPT ![r] = pidfile[st[r]]]
            BY <1>9, <2>2, Zenon DEF Recheck, Poll, Step
        <3>2. pidfile[st[r]] # None
            BY <2>2 DEF Alive
        <3>3. RunView(r)'
            <4>1. pc'[r] = "join" /\ pid'[r] = pidfile[st[r]]
                BY Zenon, <3>1, <1>2
            <4>2. /\ phase[pidfile[st[r]]] \in {"up", "dead"}
                  /\ pidfile[st[r]] \notin raced => view[pidfile[st[r]]] = gen[st[r]]
                BY Zenon, <2>2, <1>1, <1>4, Found
            <4>3. plan[r].root => since'[r] <= gen'[st'[r]]
                BY <2>1, <1>3, <1>6, Zenon DEF RunView
            <4> QED
                BY <4>1, <4>2, <4>3, <3>2, <1>3, Zenon DEF RunView
        <3> QED
            BY <3>1, <3>3, <2>1, <2>2, <1>1, <1>2, <1>4, <1>7, Found, Zenon
    <2>3. CASE ~Alive(pidfile[st[r]])
        <3>1. pc' = [pc EXCEPT ![r] = "unlink"] /\ pid' = [pid EXCEPT ![r] = None]
            BY <1>9, <2>3, Zenon DEF Recheck, Poll, Step
        <3>2. RunView(r)'
            BY <3>1, <2>1, <1>2, <1>3, <1>6, Zenon DEF RunView
        <3> QED
            BY <3>1, <3>2, <2>1, <1>2, <1>7, Zenon
    <2> QED
        BY <2>2, <2>3
<1>10. CASE Lock(r) \/ Unlink(r) \/ GiveUp(r) \/ Join(r)
    <2>1. UNCHANGED <<pid, since>>
        BY Zenon, <1>10 DEF Lock, Unlink, GiveUp, Join
    <2>2. PICK to \in {"recheck", "fork", "reap", "exec"} :
             /\ pc' = [pc EXCEPT ![r] = to]
             /\ to = "recheck" => pc[r] = "lock"
             /\ to = "fork" => pc[r] = "unlink"
             /\ to = "exec" => pc[r] = "join"
        BY <1>10, Zenon DEF Lock, Unlink, GiveUp, Join, Step
    <2>3. pc'[r] = to
        BY <2>2, <1>2
    <2>4. RunView(r)'
        BY <2>1, <2>2, <2>3, <1>3, <1>6, Zenon DEF RunView, Creating
    <2> QED
        BY <2>1, <2>2, <2>4, <1>2, <1>7, Zenon
<1> QED
    BY <1>8, <1>9, <1>10

LEMMA ViewInterrupt ==
    ASSUME HolderInv, ViewInv, NEW r \in Runners, Interrupt(r) PROVE ViewInv'
<1>1. /\ UNCHANGED <<pidfile, gen, phase, of, view, admin, raced, st, plan>>
      /\ pc' = [pc EXCEPT ![r] = "done"] /\ pid' = [pid EXCEPT ![r] = None]
      /\ since' = [since EXCEPT ![r] = 0]
    BY Zenon DEF Interrupt
<1>2. /\ since \in [Runners -> Nat] /\ pid \in [Runners -> Pids \cup {None}]
      /\ DOMAIN pc = Runners
    BY Zenon DEF HolderInv, Types, ViewInv, ViewTypes
<1>3. RunView(r)'
    BY Zenon, <1>1, <1>2 DEF RunView, Creating
<1> QED
    BY <1>1, <1>2, <1>3, ViewMove, Zenon

\* A run keeps what it knows as long as its holder does not come back to life
\* and its binds stay.
LEMMA ViewOthers ==
    ASSUME ViewInv, NEW q \in Runners, UNCHANGED <<gen, st, plan, pid, since>>,
           \/ pc'[q] = pc[q]
           \/ pc[q] \in Creating /\ pc'[q] \in Creating,
           \A p \in Pids : phase[p] \in {"up", "dead"} =>
              /\ phase'[p] \in {"up", "dead"} /\ view'[p] = view[p]
              /\ p \in raced => p \in raced'
    PROVE  RunView(q)'
<1>1. RunView(q) /\ pid[q] \in Pids \cup {None}
    BY Zenon DEF ViewInv, ViewTypes
<1>2. pc'[q] = "userns" => ~plan'[q].root
    BY <1>1 DEF RunView, Creating
<1>3. pc'[q] \in Creating \cup {"lock", "join", "exec"} /\ plan'[q].root =>
         since'[q] <= gen'[st'[q]]
    BY <1>1 DEF RunView
<1>4. ASSUME pc'[q] \in {"join", "exec"}, plan'[q].root
      PROVE  /\ pid'[q] # None /\ phase'[pid'[q]] \in {"up", "dead"}
             /\ since'[q] = gen'[st'[q]] /\ pid'[q] \notin raced' =>
                   view'[pid'[q]] = gen'[st'[q]]
    <2>1. pc[q] \in {"join", "exec"}
        BY <1>4 DEF Creating
    <2>2. /\ pid[q] # None /\ phase[pid[q]] \in {"up", "dead"}
          /\ since[q] = gen[st[q]] /\ pid[q] \notin raced => view[pid[q]] = gen[st[q]]
        BY Zenon, <2>1, <1>1, <1>4 DEF RunView
    <2>3. pid[q] \in Pids
        BY <1>1, <2>2
    <2> QED
        BY <2>2, <2>3
<1> QED
    BY Zenon, <1>2, <1>3, <1>4 DEF RunView

\* A new holder has no binds yet; if a rollback is under way, it races with it.
LEMMA ViewFork ==
    ASSUME HolderInv, ViewInv, NEW r \in Runners, Fork(r), Same PROVE ViewInv'
<1>1. Types /\ PidInv
    BY DEF HolderInv
<1>2. /\ pc[r] = "fork" /\ pc' = [pc EXCEPT ![r] = "poll"]
      /\ UNCHANGED <<pidfile, gen, view, admin, st, plan, pid, since>>
    BY DEF Fork, Step, Same, runVars
<1>3. DOMAIN pc = Runners /\ st[r] \in Strata
    BY <1>1, <1>2 DEF Types
<1>4. \A q \in Runners : pc'[q] = pc[q] \/ (pc[q] \in Creating /\ pc'[q] \in Creating)
    BY <1>2, <1>3 DEF Creating
<1>5. ViewTypes'
    BY <1>2 DEF ViewInv, ViewTypes
<1>6. CASE UNCHANGED <<phase, of, raced>>
    <2>1. \A q \in Runners : RunView(q)'
        BY <1>2, <1>4, <1>6, ViewOthers
    <2>2. ASSUME NEW s \in Strata PROVE FileView(s)'
        BY <1>2, <1>6 DEF ViewInv, FileView, Stopping
    <2>3. ASSUME NEW p \in Pids PROVE StartView(p)'
        BY Zenon, <1>2, <1>6 DEF ViewInv, StartView, Stopping
    <2> QED
        BY <2>1, <2>2, <2>3, <1>5 DEF ViewInv
<1>7. ASSUME NEW p \in Pids, phase[p] = "free", phase' = [phase EXCEPT ![p] = "forked"],
             of' = [of EXCEPT ![p] = st[r]],
             raced' = IF Stopping(st[r]) THEN raced \cup {p} ELSE raced
      PROVE  ViewInv'
    <2>1. \A q \in Pids \ {p} : of'[q] = of[q] /\ phase'[q] = phase[q]
        BY <1>1, <1>7 DEF Types
    <2>2. of'[p] = st[r] /\ phase'[p] = "forked"
        BY <1>1, <1>7 DEF Types
    <2>3. \A q : q \in raced => q \in raced'
        BY <1>7
    <2>4. \A q \in Pids \ {p} : q \in raced' <=> q \in raced
        BY <1>7
    <2>5. \A q \in Runners : RunView(q)'
        <3>1. \A q \in Pids : phase[q] \in {"up", "dead"} =>
                 /\ phase'[q] \in {"up", "dead"} /\ view'[q] = view[q]
                 /\ q \in raced => q \in raced'
            BY Zenon, <2>1, <2>3, <1>2, <1>7
        <3> QED
            BY Zenon, <3>1, <1>2, <1>4, ViewOthers
    <2>6. ASSUME NEW s \in Strata PROVE FileView(s)'
        <3>1. pidfile[s] # None => pidfile[s] \in Pids \ {p}
            BY <1>1, <1>7 DEF PidInv, Types
        <3>2. FileView(s) /\ (Stopping(s)' <=> Stopping(s))
            BY <1>2 DEF ViewInv, Stopping
        <3> QED
            BY <3>1, <3>2, <2>4, <1>2 DEF FileView
    <2>7. ASSUME NEW q \in Pids PROVE StartView(q)'
        <3>1. CASE q = p
            <4>1. Stopping(st[r]) <=> admin'.step # "idle" /\ admin'.s = of'[p]
                BY <2>2, <1>2 DEF Stopping
            <4>2. Stopping(st[r]) => p \in raced'
                BY <1>7
            <4> QED
                BY <3>1, <4>1, <4>2, <2>2 DEF StartView, Stopping
        <3>2. CASE q # p
            <4>1. StartView(q)
                BY DEF ViewInv
            <4> QED
                BY Zenon, <3>2, <4>1, <2>1, <2>4, <1>2 DEF StartView, Stopping
        <3> QED
            BY <3>1, <3>2
    <2> QED
        BY <2>5, <2>6, <2>7, <1>5 DEF ViewInv
<1> QED
    BY <1>6, <1>7 DEF Fork

\* A holder lays its binds on the directories that are there.
LEMMA ViewSetup ==
    ASSUME HolderInv, ViewInv, NEW p \in Pids, HolderSetup(p), plan' = plan PROVE ViewInv'
<1>1. Types /\ PidInv
    BY DEF HolderInv
<1>2. /\ UNCHANGED <<pidfile, gen, of, admin, raced, pc, st, plan, pid, since>>
      /\ phase[p] = "forked" /\ DOMAIN view = Pids /\ DOMAIN phase = Pids
    BY <1>1, Zenon DEF HolderSetup, ViewInv, ViewTypes, Types
<1>3. /\ \A q \in Pids \ {p} : phase'[q] = phase[q] /\ view'[q] = view[q]
      /\ DOMAIN view' = Pids /\ view'[p] = gen[of[p]]
    BY Zenon, <1>2 DEF HolderSetup
<1>4. \A q \in Runners : RunView(q)'
    <2>1. \A q \in Pids : phase[q] \in {"up", "dead"} =>
             /\ phase'[q] \in {"up", "dead"} /\ view'[q] = view[q]
             /\ q \in raced => q \in raced'
        BY Zenon, <1>2, <1>3
    <2> QED
        BY Zenon, <2>1, <1>2, ViewOthers
<1>5. ASSUME NEW s \in Strata PROVE FileView(s)'
    <2>1. pidfile[s] # None => pidfile[s] \in Pids \ {p}
        BY <1>1, <1>2 DEF PidInv, Types
    <2>2. FileView(s)
        BY DEF ViewInv
    <2> QED
        BY Zenon, <2>1, <2>2, <1>2, <1>3 DEF FileView, Stopping
<1>6. ASSUME NEW q \in Pids PROVE StartView(q)'
    <2>1. StartView(q)
        BY DEF ViewInv
    <2>2. CASE q = p
        BY <2>1, <2>2, <1>2, <1>3, Zenon DEF StartView, Stopping
    <2>3. CASE q # p
        BY Zenon, <2>1, <2>3, <1>2, <1>3 DEF StartView, Stopping
    <2> QED
        BY <2>2, <2>3
<1>7. ViewTypes'
    BY Zenon, <1>2, <1>3 DEF ViewInv, ViewTypes
<1> QED
    BY <1>4, <1>5, <1>6, <1>7 DEF ViewInv

\* A holder that starts, publishes itself or dies leaves the binds alone.
LEMMA ViewHolder ==
    ASSUME HolderInv, ViewInv, NEW p \in Pids, Publish(p) \/ HolderDies(p), plan' = plan
    PROVE  ViewInv'
<1>1. Types /\ PidInv
    BY DEF HolderInv
<1>2. /\ UNCHANGED <<gen, of, admin, raced, view, pc, st, plan, pid, since>>
      /\ phase[p] \in {"mounted", "up"} /\ DOMAIN phase = Pids
    BY Zenon, <1>1 DEF Publish, HolderDies, Types
<1>3. PICK to \in {"up", "dead"} : phase' = [phase EXCEPT ![p] = to]
    BY Zenon DEF Publish, HolderDies
<1>4. \A q \in Pids \ {p} : phase'[q] = phase[q]
    BY <1>2, <1>3
<1>5. phase'[p] \in {"up", "dead"}
    BY <1>2, <1>3
<1>6. \A q \in Runners : RunView(q)'
    <2>1. \A q \in Pids : phase[q] \in {"up", "dead"} =>
             /\ phase'[q] \in {"up", "dead"} /\ view'[q] = view[q]
             /\ q \in raced => q \in raced'
        BY <1>2, <1>4, <1>5
    <2> QED
        BY Zenon, <2>1, <1>2, ViewOthers
<1>7. ASSUME NEW s \in Strata PROVE FileView(s)'
    <2>1. CASE pidfile'[s] = pidfile[s]
        BY <2>1, <1>2 DEF FileView, ViewInv, Stopping
    <2>2. CASE pidfile'[s] # pidfile[s]
        <3>1. phase[p] = "mounted" /\ pidfile' = [pidfile EXCEPT ![of[p]] = p]
            BY Zenon, <2>2 DEF Publish, HolderDies
        <3>2. s = of[p] /\ pidfile'[s] = p
            BY <2>2, <3>1, <1>1 DEF Types
        <3>3. StartView(p)
            BY DEF ViewInv
        <3> QED
            BY <3>1, <3>2, <3>3, <1>2 DEF FileView, StartView, Stopping
    <2> QED
        BY <2>1, <2>2
<1>8. ASSUME NEW q \in Pids PROVE StartView(q)'
    <2>1. StartView(q)
        BY DEF ViewInv
    <2>2. CASE q = p
        BY <2>2, <1>5 DEF StartView
    <2>3. CASE q # p
        BY Zenon, <2>1, <2>3, <1>2, <1>4 DEF StartView, Stopping
    <2> QED
        BY <2>2, <2>3
<1>9. ViewTypes'
    BY Zenon, <1>2 DEF ViewInv, ViewTypes
<1> QED
    BY <1>6, <1>7, <1>8, <1>9 DEF ViewInv

\* From here on the holders that have not published themselves race with the
\* rollback.
LEMMA ViewRead ==
    ASSUME HolderInv, ViewInv, NEW t \in Strata, NsRead(t), plan' = plan PROVE ViewInv'
<1>1. /\ UNCHANGED <<pidfile, gen, phase, of, view, pc, st, plan, pid, since>>
      /\ admin.step = "idle" /\ admin' = [step |-> "kill", s |-> t, p |-> pidfile[t]]
      /\ raced' = raced \cup Unpublished(t)
    BY DEF NsRead
<1>2. \A q \in Runners : RunView(q)'
    <2>1. \A q \in Pids : phase[q] \in {"up", "dead"} =>
             /\ phase'[q] \in {"up", "dead"} /\ view'[q] = view[q]
             /\ q \in raced => q \in raced'
        BY Zenon, <1>1
    <2> QED
        BY Zenon, <2>1, <1>1, ViewOthers
<1>3. ASSUME NEW s \in Strata PROVE FileView(s)'
    BY Zenon, <1>1 DEF FileView, ViewInv
<1>4. ASSUME NEW q \in Pids PROVE StartView(q)'
    <2>1. StartView(q)
        BY DEF ViewInv
    <2>2. Stopping(of[q])' => of[q] = t
        BY <1>1, Zenon DEF Stopping
    <2>3. phase[q] \in {"forked", "mounted"} /\ of[q] = t => q \in raced'
        BY <1>1, Zenon DEF Unpublished
    <2> QED
        BY <2>1, <2>2, <2>3, <1>1, Zenon DEF StartView, Stopping
<1>5. ViewTypes'
    BY Zenon, <1>1 DEF ViewInv, ViewTypes
<1> QED
    BY <1>2, <1>3, <1>4, <1>5 DEF ViewInv

LEMMA ViewKill == ASSUME HolderInv, ViewInv, NsKill, plan' = plan PROVE ViewInv'
<1>1. Types
    BY DEF HolderInv
<1>2. UNCHANGED <<pidfile, gen, of, view, raced, pc, st, plan, pid, since>>
    BY DEF NsKill
<1>3. /\ admin.step = "kill" /\ admin'.step = "unlink"
      /\ admin'.s = admin.s
    BY <1>1 DEF NsKill, AdminStep, Types
<1>4. \A q \in Pids : phase'[q] = phase[q] \/ phase'[q] = "dead"
    BY <1>1 DEF NsKill, Types
<1>5. \A q \in Runners : RunView(q)'
    <2>1. \A q \in Pids : phase[q] \in {"up", "dead"} =>
             /\ phase'[q] \in {"up", "dead"} /\ view'[q] = view[q]
             /\ q \in raced => q \in raced'
        BY <1>2, <1>4
    <2> QED
        BY <2>1, <1>2, ViewOthers, Zenon
<1>6. ASSUME NEW s \in Strata PROVE FileView(s)'
    BY Zenon, <1>2, <1>3 DEF FileView, ViewInv
<1>7. ASSUME NEW q \in Pids PROVE StartView(q)'
    <2>1. StartView(q) /\ (phase'[q] = phase[q] \/ phase'[q] = "dead")
        BY <1>4 DEF ViewInv
    <2> QED
        BY Zenon, <2>1, <1>2, <1>3 DEF StartView, Stopping
<1>8. ViewTypes'
    BY <1>2 DEF ViewInv, ViewTypes
<1> QED
    BY <1>5, <1>6, <1>7, <1>8 DEF ViewInv

\* Whoever's pid is removed from the file, from now on only a holder that
\* started during the rollback can write it.
LEMMA ViewUnlink == ASSUME HolderInv, ViewInv, NsUnlink, plan' = plan PROVE ViewInv'
<1>1. Types
    BY DEF HolderInv
<1>2. /\ UNCHANGED <<gen, phase, of, view, raced, pc, st, plan, pid, since>>
      /\ pidfile' = [pidfile EXCEPT ![admin.s] = None]
    BY DEF NsUnlink
<1>3. admin.step = "unlink" /\ admin'.step = "replace" /\ admin'.s = admin.s
    BY <1>1 DEF NsUnlink, AdminStep, Types
<1>4. \A q \in Runners : RunView(q)'
    <2>1. \A q \in Pids : phase[q] \in {"up", "dead"} =>
             /\ phase'[q] \in {"up", "dead"} /\ view'[q] = view[q]
             /\ q \in raced => q \in raced'
        BY <1>2
    <2> QED
        BY Zenon, <2>1, <1>2, ViewOthers
<1>5. ASSUME NEW s \in Strata PROVE FileView(s)'
    <2>1. pidfile'[s] = IF s = admin.s THEN None ELSE pidfile[s]
        BY Zenon, <1>1, <1>2 DEF Types
    <2> QED
        BY <2>1, <1>2, <1>3 DEF FileView, ViewInv, Stopping
<1>6. ASSUME NEW q \in Pids PROVE StartView(q)'
    <2>1. StartView(q)
        BY DEF ViewInv
    <2> QED
        BY <2>1, <1>2, <1>3, Zenon DEF StartView, Stopping
<1>7. ViewTypes'
    BY <1>2 DEF ViewInv, ViewTypes
<1> QED
    BY <1>4, <1>5, <1>6, <1>7 DEF ViewInv

\* When the tree is replaced, the holder in the pid file and those about to
\* publish themselves have raced with the rollback, and every run of the
\* stratum has looked for its holder before.
LEMMA ViewReplace == ASSUME HolderInv, ViewInv, Replace PROVE ViewInv'
<1>1. Types /\ ViewTypes
    BY DEF HolderInv, ViewInv
<1>2. /\ UNCHANGED <<pidfile, phase, of, view, raced, pc, st, plan, pid, since>>
      /\ gen' = [gen EXCEPT ![admin.s] = @ + 1]
    BY DEF Replace, runVars
<1>3. /\ admin.step = "replace" /\ admin'.step = "idle" /\ admin.s \in Strata
    BY <1>1 DEF Replace, AdminStep, Types
<1>4. /\ \A s \in Strata \ {admin.s} : gen'[s] = gen[s]
      /\ gen'[admin.s] = gen[admin.s] + 1
    BY <1>1, <1>2, <1>3 DEF ViewTypes
<1>5. ASSUME NEW s \in Strata PROVE FileView(s)'
    <2>1. FileView(s)
        BY DEF ViewInv
    <2>2. CASE s = admin.s
        BY Zenon, <2>1, <2>2, <1>2, <1>3 DEF FileView, Stopping
    <2>3. CASE s # admin.s
        BY Zenon, <2>1, <2>3, <1>2, <1>3, <1>4 DEF FileView, Stopping
    <2> QED
        BY <2>2, <2>3
<1>6. ASSUME NEW q \in Pids PROVE StartView(q)'
    <2>1. StartView(q)
        BY DEF ViewInv
    <2>2. ~Stopping(of[q])'
        BY <1>3 DEF Stopping
    <2>3. ASSUME phase[q] = "mounted", q \notin raced PROVE gen'[of[q]] = gen[of[q]]
        <3>1. of[q] # admin.s
            BY <2>1, <2>3, <1>3 DEF StartView, Stopping
        <3>2. of[q] # None
            BY <2>3 DEF HolderInv, PidInv
        <3>3. of[q] \in Strata
            BY <3>2, <1>1 DEF Types
        <3> QED
            BY <3>1, <3>3, <1>4
    <2> QED
        BY Zenon, <2>1, <2>2, <2>3, <1>2 DEF StartView, Stopping
<1>7. ASSUME NEW r \in Runners PROVE RunView(r)'
    <2>1. RunView(r)
        BY DEF ViewInv
    <2>2. CASE pc[r] = "start"
        BY Zenon, <2>2, <1>2 DEF RunView, Creating
    <2>3. CASE pc[r] # "start" /\ st[r] # admin.s
        <3>1. gen'[st[r]] = gen[st[r]]
            BY Zenon, <2>3, <1>1, <1>4 DEF Types
        <3> QED
            BY Zenon, <2>1, <3>1, <1>2 DEF RunView
    <2>4. CASE st[r] = admin.s
        <3>1. since[r] \in Nat /\ gen[st[r]] \in Nat /\ gen'[st[r]] = gen[st[r]] + 1
            BY <2>4, <1>1, <1>3, <1>4, Zenon DEF ViewTypes
        <3>2. since[r] <= gen[st[r]] => since[r] <= gen'[st[r]] /\ since[r] # gen'[st[r]]
            BY <3>1
        <3>3. /\ pc'[r] = "userns" => ~plan'[r].root
              /\ pc'[r] \in Creating \cup {"lock", "join", "exec"} /\ plan'[r].root =>
                    since'[r] <= gen'[st'[r]] /\ since'[r] # gen'[st'[r]]
            <4>1. /\ pc[r] = "userns" => ~plan[r].root
                  /\ pc[r] \in Creating \cup {"lock", "join", "exec"} /\ plan[r].root =>
                        since[r] <= gen[st[r]]
                BY Zenon, <2>1 DEF RunView
            <4> QED
                BY Zenon, <4>1, <3>2, <1>2
        <3>4. pc'[r] \in {"join", "exec"} /\ plan'[r].root =>
                 pid'[r] # None /\ phase'[pid'[r]] \in {"up", "dead"}
            BY Zenon, <2>1, <1>2 DEF RunView
        <3> QED
            BY <3>3, <3>4, Zenon DEF RunView
    <2> QED
        BY <2>2, <2>3, <2>4
<1>8. ViewTypes'
    BY <1>1, <1>2, <1>3 DEF ViewTypes
<1> QED
    BY <1>5, <1>6, <1>7, <1>8 DEF ViewInv

-----------------------------------------------------------------------------
LEMMA ViewInit == Init => ViewInv
<1> SUFFICES ASSUME Init PROVE ViewInv
    OBVIOUS
<1>1. /\ pidfile = [s \in Strata |-> None] /\ gen = [s \in Strata |-> 0]
      /\ phase = [p \in Pids |-> "free"] /\ DOMAIN view = Pids
      /\ pc = [r \in Runners |-> "start"] /\ pid = [r \in Runners |-> None]
      /\ since = [r \in Runners |-> 0] /\ admin.step = "idle"
    BY Zenon DEF Init
<1> QED
    BY Zenon, <1>1 DEF ViewInv, ViewTypes, FileView, StartView, RunView, Stopping, Creating

LEMMA ViewStep == HolderInv /\ ViewInv /\ [Next]_vars => ViewInv'
<1> SUFFICES ASSUME HolderInv, ViewInv, [Next]_vars PROVE ViewInv'
    OBVIOUS
<1>1. CASE UNCHANGED vars
    BY <1>1, Zenon
       DEF vars, nsVars, runVars, ViewInv, ViewTypes, FileView, StartView, RunView, Stopping
<1>2. CASE \E r \in Runners : Start(r) \/ Run(r)
    BY <1>2, ViewRun
<1>3. CASE \E r \in Runners : Child(r) /\ Same
    BY <1>3, ViewChild, ViewFork DEF Child
<1>4. CASE \E r \in Runners : Interrupt(r)
    BY <1>4, ViewInterrupt
<1>5. CASE \E p \in Pids : HolderSetup(p) /\ Same
    BY <1>5, ViewSetup DEF Same, runVars
<1>6. CASE \E p \in Pids : Publish(p) /\ Same
    BY <1>6, ViewHolder DEF Same, runVars
<1>7. CASE \E p \in Pids : HolderDies(p) /\ plan' = plan
    BY <1>7, ViewHolder
<1>8. CASE \E s \in Strata : NsRead(s) /\ plan' = plan
    BY <1>8, ViewRead
<1>9. CASE NsKill /\ Same
    BY <1>9, ViewKill DEF Same, runVars
<1>10. CASE NsUnlink /\ Same
    BY <1>10, ViewUnlink DEF Same, runVars
<1>11. CASE Replace
    BY <1>11, ViewReplace
<1> QED
    BY <1>1, <1>2, <1>3, <1>4, <1>5, <1>6, <1>7, <1>8, <1>9, <1>10, <1>11 DEF Next

\* A command runs in a namespace whose binds are on the stratum's present
\* directories, although neither salt_stratum_ns_stop nor the runs that look
\* for a holder take the other's lock; excepted are the runs under way and the
\* holders starting while the directories were replaced.
THEOREM CommandSeesPresentTree == Spec => []FreshView
<1>1. ViewInv => FreshView
    BY Zenon DEF ViewInv, RunView, FreshView
<1> QED
    BY <1>1, HolderInit, HolderStep, ViewInit, ViewStep, PTL DEF Spec
=============================================================================
