------------------------------- MODULE Holder -------------------------------
(***************************************************************************)
(* The process that keeps a stratum's mount namespace alive (run.c).  The  *)
(* first `salt run` as root forks a holder, which lays the binds and       *)
(* publishes its pid under /run/salt/ns; later runs join its namespace.    *)
(* A rollback or removal of the stratum stops the holder before it         *)
(* replaces the directories the binds live on, without taking the lock the *)
(* runs take.                                                              *)
(***************************************************************************)
EXTENDS Naturals

CONSTANTS
    Runners,    \* salt run processes
    Strata,
    None,
    MaxPid      \* bound: holders forked

ASSUME HolderAssumption ==
    MaxPid \in Nat /\ None \notin Runners /\ None \notin Strata /\ None \notin 1..MaxPid

VARIABLES
    pidfile,    \* stratum -> pid in /run/salt/ns/<stratum>.pid or None
    flock,      \* stratum -> runner that has its lock file locked or None
    gen,        \* stratum -> how often its directories were replaced
    phase,      \* holder -> "free", "forked", "mounted", "up" or "dead"
    of,         \* holder -> its stratum
    view,       \* holder -> gen[stratum] its binds were made on
    pipe,       \* holder -> runner whose signal pipe it still has open or None
    pc, st,     \* runner -> step and stratum
    pid,        \* runner -> the holder it found
    status,     \* runner -> exit status
    admin,      \* the rollback in progress: step, stratum and holder it read
    \* history variables
    since,      \* runner -> gen[stratum] when it looked for the holder
    late,       \* holders whose creator left before they had published
    raced       \* holders not yet published while a rollback was under way

nsVars == <<pidfile, flock, gen, phase, of, view, pipe, admin, late, raced>>

Pids == 1..MaxPid

\* salt_run_holder_alive: kill(p, 0).
Alive(p) == p # None /\ phase[p] \in {"forked", "mounted", "up"}
Unpublished(s) == {p \in Pids : of[p] = s /\ phase[p] \in {"forked", "mounted"}}
Stopping(s) == admin.step # "idle" /\ admin.s = s

Step(r, from, to) == pc[r] = from /\ pc' = [pc EXCEPT ![r] = to]

\* Closing the lock file's descriptor, by hand or by exiting.
Unlocked(r) == [s \in Strata |-> IF flock[s] = r THEN None ELSE flock[s]]

-----------------------------------------------------------------------------
(***************************************************************************)
(* salt_run_ensure_holder, in the forked child of the run.                 *)
(***************************************************************************)
Look(r) ==
    LET p == pidfile[st[r]] IN
    /\ Step(r, "look", IF Alive(p) THEN "join" ELSE "lock")
    /\ pid' = [pid EXCEPT ![r] = IF Alive(p) THEN p ELSE None]
    /\ since' = [since EXCEPT ![r] = gen[st[r]]]
    /\ UNCHANGED <<nsVars, st, status>>

\* Mutant: the lock does not block.
LockNow(r) ==
    /\ Step(r, "lock", "recheck")
    /\ flock' = [flock EXCEPT ![st[r]] = r]
    /\ UNCHANGED <<pidfile, gen, phase, of, view, pipe, admin, late, raced, st, pid, status,
                   since>>

\* flock(LOCK_EX) blocks.
Lock(r) ==
    /\ Step(r, "lock", "recheck") /\ flock[st[r]] = None
    /\ flock' = [flock EXCEPT ![st[r]] = r]
    /\ UNCHANGED <<pidfile, gen, phase, of, view, pipe, admin, late, raced, st, pid, status,
                   since>>

Recheck(r) ==
    LET p == pidfile[st[r]] IN
    /\ Step(r, "recheck", IF Alive(p) THEN "join" ELSE "unlink")
    /\ pid' = [pid EXCEPT ![r] = IF Alive(p) THEN p ELSE None]
    /\ flock' = IF Alive(p) THEN Unlocked(r) ELSE flock
    /\ UNCHANGED <<pidfile, gen, phase, of, view, pipe, admin, late, raced, st, status, since>>

Unlink(r) ==
    /\ Step(r, "unlink", "fork")
    /\ pidfile' = [pidfile EXCEPT ![st[r]] = None]
    /\ UNCHANGED <<flock, gen, phase, of, view, pipe, admin, late, raced, st, pid, status, since>>

\* Fork, setsid and fork again.  If the second fork fails the creator polls
\* for a holder that never comes.
Fork(r) ==
    /\ Step(r, "fork", "poll")
    /\ \/ \E p \in Pids :
          /\ phase[p] = "free" /\ \A q \in 1..(p - 1) : phase[q] # "free"
          /\ phase' = [phase EXCEPT ![p] = "forked"]
          /\ of' = [of EXCEPT ![p] = st[r]]
          /\ pipe' = [pipe EXCEPT ![p] = r]
          /\ raced' = IF Stopping(st[r]) THEN raced \cup {p} ELSE raced
       \/ UNCHANGED <<phase, of, pipe, raced>>
    /\ UNCHANGED <<pidfile, flock, gen, view, admin, late, st, pid, status, since>>

Poll(r) ==
    /\ Step(r, "poll", "join") /\ Alive(pidfile[st[r]])
    /\ pid' = [pid EXCEPT ![r] = pidfile[st[r]]]
    /\ flock' = Unlocked(r)
    /\ UNCHANGED <<pidfile, gen, phase, of, view, pipe, admin, late, raced, st, status, since>>

\* No holder after 500 looks, or no first fork.
GiveUp(r) ==
    /\ pc[r] \in {"fork", "poll"}
    /\ pc' = [pc EXCEPT ![r] = "reap"]
    /\ status' = [status EXCEPT ![r] = 125]
    /\ flock' = Unlocked(r)
    /\ late' = late \cup Unpublished(st[r])
    /\ UNCHANGED <<pidfile, gen, phase, of, view, pipe, admin, raced, st, pid, since>>

\* open(/proc/<pid>/ns/mnt) and setns.
Join(r) ==
    /\ Step(r, "join", IF Alive(pid[r]) THEN "exec" ELSE "reap")
    /\ status' = [status EXCEPT ![r] = IF Alive(pid[r]) THEN @ ELSE 125]
    /\ UNCHANGED <<nsVars, st, pid, since>>

-----------------------------------------------------------------------------
(***************************************************************************)
(* The holder.                                                             *)
(***************************************************************************)
\* Mutant: the inherited descriptors stay open.
HolderSetupKeepsFds(p) ==
    /\ phase[p] = "forked"
    /\ phase' = [phase EXCEPT ![p] = "mounted"]
    /\ view' = [view EXCEPT ![p] = gen[of[p]]]
    /\ UNCHANGED <<pidfile, flock, gen, of, pipe, admin, late, raced, pc, st, pid, status, since>>

\* Every inherited descriptor is closed; then unshare and the binds.
HolderSetup(p) ==
    /\ phase[p] = "forked"
    /\ phase' \in {[phase EXCEPT ![p] = "mounted"], [phase EXCEPT ![p] = "dead"]}
    /\ view' = [view EXCEPT ![p] = gen[of[p]]]
    /\ pipe' = [pipe EXCEPT ![p] = None]
    /\ UNCHANGED <<pidfile, flock, gen, of, admin, late, raced, pc, st, pid, status, since>>

\* The pid file is written beside and renamed; then pause() forever.
Publish(p) ==
    /\ phase[p] = "mounted"
    /\ \/ /\ phase' = [phase EXCEPT ![p] = "up"]
          /\ pidfile' = [pidfile EXCEPT ![of[p]] = p]
       \/ /\ phase' = [phase EXCEPT ![p] = "dead"]
          /\ UNCHANGED pidfile
    /\ UNCHANGED <<flock, gen, of, view, pipe, admin, late, raced, pc, st, pid, status, since>>

\* It can be killed from outside, which leaves the pid file.
HolderDies(p) ==
    /\ phase[p] = "up"
    /\ phase' = [phase EXCEPT ![p] = "dead"]
    /\ UNCHANGED <<pidfile, flock, gen, of, view, pipe, admin, late, raced, pc, st, pid,
                   status, since>>

-----------------------------------------------------------------------------
(***************************************************************************)
(* salt_stratum_ns_stop and the replacement of the tree that follows it in *)
(* salt_stratum_rollback and salt_stratum_destroy.                         *)
(***************************************************************************)
AdminStep(from, to) == admin.step = from /\ admin' = [admin EXCEPT !.step = to]

\* Mutant: the tree is replaced without stopping the holder.
NsSkipped(s) ==
    /\ admin.step = "idle"
    /\ admin' = [step |-> "replace", s |-> s, p |-> None]
    /\ raced' = raced \cup Unpublished(s)
    /\ UNCHANGED <<pidfile, flock, gen, phase, of, view, pipe, late, pc, st, pid, status, since>>

NsRead(s) ==
    /\ admin.step = "idle"
    /\ admin' = [step |-> "kill", s |-> s, p |-> pidfile[s]]
    /\ raced' = raced \cup Unpublished(s)
    /\ UNCHANGED <<pidfile, flock, gen, phase, of, view, pipe, late, pc, st, pid, status, since>>

\* SIGTERM, up to a second of waiting, SIGKILL.
NsKill ==
    /\ AdminStep("kill", "unlink")
    /\ phase' = IF Alive(admin.p) THEN [phase EXCEPT ![admin.p] = "dead"] ELSE phase
    /\ UNCHANGED <<pidfile, flock, gen, of, view, pipe, late, raced, pc, st, pid, status, since>>

\* Whoever's pid is in the file by now.
NsUnlink ==
    /\ AdminStep("unlink", "replace")
    /\ pidfile' = [pidfile EXCEPT ![admin.s] = None]
    /\ UNCHANGED <<flock, gen, phase, of, view, pipe, late, raced, pc, st, pid, status, since>>
=============================================================================
