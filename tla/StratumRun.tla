----------------------------- MODULE StratumRun -----------------------------
(***************************************************************************)
(* salt run (cmd_run.cpp, salt_stratum_run): as root, the host's accounts  *)
(* are merged into the stratum, the command runs in the holder's           *)
(* namespace, and if it changed the account files the new accounts are     *)
(* merged into the host and from there into the other strata.  As a user,  *)
(* the command runs in a user namespace of its own, and when the kernel    *)
(* refuses one, salt starts over under sudo.                               *)
(*                                                                         *)
(* Several runs and one rollback go on at the same time; any run may be    *)
(* killed.  /etc/group is merged as /etc/passwd is, by gid, and left out.  *)
(***************************************************************************)
EXTENDS Holder, Sequences, Folds

CONSTANTS
    Humans,     \* account names with ids from 1000 to 65533
    Founder,    \* the account the host starts with
    System,     \* account names of a distribution
    Scenarios   \* what each runner runs (stratum, as root or not, accounts
                \* created, exit statuses), the accounts of the strata; bounds on
                \* killings, rollbacks and files that cannot be opened

VARIABLES
    lines,      \* place -> file -> name -> lines with that name
    plan,       \* runner -> what it runs
    todo,       \* runner -> merges to do: <<source, destination, file>>
    human,      \* runner -> human names met in the source's passwd
    add,        \* runner -> names about to be appended, or None
    sample,     \* runner -> the account files before the command
    draft,      \* runner -> the account files its command is rewriting, or None
    base,       \* accounts in the snapshot taken of every stratum at first
    kills, rolls,   \* killings and strata to roll back still to come
    faults,     \* files still to come that cannot be opened
    ran,        \* history: runner -> exit statuses of its command
    made,       \* history: runner -> accounts its command created
    lost        \* history: <<place, file, name>> that was to be appended, or was,
                \* and was lost

runVars == <<plan, sample, kills, rolls, ran, made>>
lossVars == <<draft, lost, faults>>
mergeVars == <<base, lines, todo, human, add, lossVars>>
vars == <<nsVars, pc, st, pid, status, since, runVars, mergeVars>>

\* SALT_RUN_USERNS_DENIED, which a command may exit with as well.
USERNS_DENIED == 252

Names == Humans \cup System
Places == Strata \cup {"host"}
Files == {"passwd", "shadow"}
Only(S) == [f \in Files |-> [n \in Names |-> IF n \in S THEN 1 ELSE 0]]
\* collect_names.
collect_names(p, f) == {n \in Names : lines[p][f][n] > 0}

Plans == [s : Strata, root : BOOLEAN, creates : SUBSET Names, exits : SUBSET Nat]
ASSUME ScenarioAssumption == \A c \in Scenarios : c.plan \in [Runners -> Plans]

Init ==
    /\ pidfile = [s \in Strata |-> None] /\ flock = pidfile
    /\ gen = [s \in Strata |-> 0]
    /\ phase = [p \in Pids |-> "free"] /\ of = [p \in Pids |-> None]
    /\ view = [p \in Pids |-> 0] /\ pipe = of
    /\ pc = [r \in Runners |-> "start"]
    /\ st = [r \in Runners |-> None] /\ pid = st /\ add = st /\ sample = st /\ draft = st
    /\ status = [r \in Runners |-> 0] /\ since = status
    /\ admin = [step |-> "idle", s |-> None, p |-> None]
    /\ late = {} /\ raced = {} /\ lost = {}
    /\ todo = [r \in Runners |-> <<>>] /\ ran = todo
    /\ human = [r \in Runners |-> {}] /\ made = human
    /\ \E c \in Scenarios :
          /\ plan = c.plan /\ kills = c.kills /\ rolls = c.rolls /\ faults = c.faults
          /\ base = c.base
          /\ lines = [p \in Places |-> Only(IF p = "host" THEN {Founder} ELSE c.base)]

-----------------------------------------------------------------------------
(***************************************************************************)
(* append_missing_identity: for each file, what is there is read, then     *)
(* the rest is appended, under no lock.  A file that cannot be opened is   *)
(* passed over without a word.                                             *)
(***************************************************************************)
Merge(src, dst) == <<<<src, dst, "passwd">>, <<src, dst, "shadow">>>>

is_human_id(n) == n \in Humans
people(src) == {n \in collect_names(src, "passwd") : is_human_id(n)}
\* The lines to append, of the names met in the source's passwd.
missing(src, dst, f, met) ==
    (IF f = "passwd" THEN met ELSE collect_names(src, f) \cap met) \ collect_names(dst, f)

\* Where the names N are not going to be when they are not appended to file f
\* of dst: there and, since strata get their accounts from the host, beyond.
\* Who is not in the host's passwd is not looked up in its shadow.
Lost(src, dst, f, N) ==
    {<<dst, f, n>> : n \in N} \cup
    (IF dst # "host" THEN {}
     ELSE (Strata \ {src}) \X (IF f = "passwd" THEN Files ELSE {f}) \X N)
Fault == faults > 0 /\ faults' = faults - 1

\* An empty addition is not written.  Without the source's passwd there is
\* nothing to do, without its shadow nothing more.
MergeRead(r) ==
    /\ todo[r] # <<>> /\ add[r] = None
    /\ LET src == todo[r][1][1]  dst == todo[r][1][2]  f == todo[r][1][3]
           met == IF f = "passwd" THEN people(src) ELSE human[r]
           new == missing(src, dst, f, met)
       IN \/ /\ human' = [human EXCEPT ![r] = IF f = "passwd" THEN met ELSE {}]
             /\ add' = [add EXCEPT ![r] = IF new = {} THEN None ELSE new]
             /\ todo' = [todo EXCEPT ![r] = IF new = {} THEN Tail(@) ELSE @]
             /\ UNCHANGED <<lost, faults>>
          \/ /\ Fault
             /\ todo' = [todo EXCEPT ![r] = IF f = "passwd" THEN Tail(Tail(@)) ELSE Tail(@)]
             /\ lost' = lost \cup Lost(src, dst, f, new) \cup
                   (IF f = "passwd" THEN Lost(src, dst, "shadow", missing(src, dst, "shadow", met))
                    ELSE {})
             /\ human' = [human EXCEPT ![r] = {}] /\ UNCHANGED add
    /\ UNCHANGED <<base, nsVars, pc, st, pid, status, since, runVars, lines, draft>>

append_lines(r) ==
    /\ todo[r] # <<>> /\ add[r] # None
    /\ LET src == todo[r][1][1]  dst == todo[r][1][2]  f == todo[r][1][3]
       IN \/ /\ lines' = [lines EXCEPT ![dst][f] =
                             [n \in Names |-> IF n \in add[r] THEN @[n] + 1 ELSE @[n]]]
             /\ lost' = lost \ {<<dst, f, n>> : n \in add[r]}
             /\ UNCHANGED faults
          \/ /\ Fault
             /\ lost' = lost \cup Lost(src, dst, f, add[r])
             /\ UNCHANGED lines
    /\ add' = [add EXCEPT ![r] = None]
    /\ todo' = [todo EXCEPT ![r] = Tail(@)]
    /\ UNCHANGED <<base, nsVars, pc, st, pid, status, since, runVars, human, draft>>

-----------------------------------------------------------------------------
(***************************************************************************)
(* cmd_run.                                                                *)
(***************************************************************************)
\* The part of cmd_run before the fork; under sudo it is entered again.
Begin(r, q) ==
    /\ plan' = [plan EXCEPT ![r] = q]
    /\ st' = [st EXCEPT ![r] = q.s]
    /\ pc' = [pc EXCEPT ![r] = IF q.root THEN "sample" ELSE "userns"]
    /\ todo' = [todo EXCEPT ![r] = IF q.root THEN Merge("host", q.s) ELSE <<>>]
    /\ status' = [status EXCEPT ![r] = 0]

Start(r) ==
    /\ pc[r] = "start"
    /\ Begin(r, plan[r])
    /\ UNCHANGED <<base, nsVars, pid, since, sample, kills, rolls, ran, made, lines, human, add,
                   lossVars>>

\* salt_stratum_run cannot start: no directory, or no fork.  Nothing is merged
\* back.
NoRun(r) ==
    /\ pc' = [pc EXCEPT ![r] = "done"] /\ status' = [status EXCEPT ![r] = 1]
    /\ UNCHANGED sample

\* file_fingerprint of the stratum's files, and the fork.
Sample(r) ==
    /\ pc[r] = "sample" /\ todo[r] = <<>>
    /\ \/ /\ Step(r, "sample", "look") /\ UNCHANGED status
          /\ sample' = [sample EXCEPT ![r] = <<gen[st[r]], lines[st[r]]>>]
       \/ NoRun(r)
    /\ UNCHANGED <<nsVars, st, pid, since, plan, kills, rolls, ran, made, mergeVars>>

\* The fork and salt_run_enter_userns; a refusal is written to the signal pipe.
Userns(r) ==
    /\ pc[r] = "userns"
    /\ \/ Step(r, "userns", "exec") /\ UNCHANGED <<status, sample>>
       \/ /\ Step(r, "userns", "reap") /\ UNCHANGED sample
          /\ status' \in {[status EXCEPT ![r] = USERNS_DENIED], [status EXCEPT ![r] = 125]}
       \/ NoRun(r)
    /\ UNCHANGED <<nsVars, st, pid, since, plan, kills, rolls, ran, made, mergeVars>>

\* A command that creates accounts (useradd, external) reads the files, writes
\* new ones and renames them over the old, under a lock that salt does not
\* take.
Useradd(r) ==
    /\ pc[r] = "exec" /\ plan[r].root /\ draft[r] = None
    /\ plan[r].creates \ collect_names(st[r], "passwd") # {}
    /\ \A q \in Runners : st[q] = st[r] => draft[q] = None
    /\ draft' = [draft EXCEPT ![r] = lines[st[r]]]
    /\ UNCHANGED <<nsVars, pc, st, pid, status, since, runVars, base, lines, todo, human, add,
                   lost, faults>>

\* The rest of salt_run_child.  chroot, chdir, setuid or execvp may fail; else
\* the command runs to its end and exits with anything.  What was appended to
\* the files since it read them is gone.
Exec(r) ==
    /\ Step(r, "exec", "reap")
    /\ \/ /\ draft[r] = None
          /\ status' \in {[status EXCEPT ![r] = e] : e \in {125, 127}}
          /\ UNCHANGED <<ran, made, lines, lossVars>>
       \/ /\ \E e \in plan[r].exits :
                /\ ran' = [ran EXCEPT ![r] = Append(@, e)]
                /\ status' = [status EXCEPT ![r] = e]
          /\ \/ /\ draft[r] = None /\ made' = [made EXCEPT ![r] = {}]
                /\ UNCHANGED <<lines, lossVars>>
             \/ /\ draft[r] # None /\ draft' = [draft EXCEPT ![r] = None]
                /\ LET new == {n \in plan[r].creates : draft[r]["passwd"][n] = 0}
                       files == [f \in Files |-> [n \in Names |->
                                    IF n \in new THEN 1 ELSE draft[r][f][n]]]
                   IN /\ made' = [made EXCEPT ![r] = new]
                      /\ lines' = [lines EXCEPT ![st[r]] = files]
                      /\ lost' = lost \cup {l \in {st[r]} \X Files \X Names :
                              lines[l[1]][l[2]][l[3]] > 0 /\ files[l[2]][l[3]] = 0}
                /\ UNCHANGED faults
    /\ UNCHANGED <<base, nsVars, st, pid, since, plan, sample, kills, rolls, todo, human, add>>

\* salt_stratum_run after waitpid: read() returns once nobody has the pipe's
\* other end open.
Reap(r) ==
    /\ \A p \in Pids : pipe[p] # r
    /\ Step(r, "reap", IF plan[r].root THEN "changed" ELSE "out")
    /\ pid' = [pid EXCEPT ![r] = None] /\ since' = [since EXCEPT ![r] = 0]
    /\ UNCHANGED <<nsVars, st, status, runVars, mergeVars>>

\* Mutant: new accounts go to the host only.
ChangedHost(r) ==
    /\ Step(r, "changed", "out")
    /\ todo' = [todo EXCEPT ![r] = IF sample[r] = <<gen[st[r]], lines[st[r]]>> THEN <<>>
                                   ELSE Merge(st[r], "host")]
    /\ sample' = [sample EXCEPT ![r] = None]
    /\ UNCHANGED <<base, nsVars, st, pid, status, since, plan, kills, rolls, ran, made, lines, human,
                   add, lossVars>>

\* The fingerprints again: if they differ, to the host and on to every other
\* stratum, unless the table of strata cannot be read.
Changed(r) ==
    /\ Step(r, "changed", "out")
    /\ LET others == Strata \ {st[r]}
           fan_out == MapThenFoldSet(LAMBDA q, p : q \o p, <<>>, LAMBDA s : Merge("host", s),
                                     LAMBDA S : CHOOSE s \in S : TRUE, others)
       IN IF sample[r] = <<gen[st[r]], lines[st[r]]>>
          THEN todo' = [todo EXCEPT ![r] = <<>>] /\ UNCHANGED <<lost, faults>>
          ELSE \/ /\ todo' = [todo EXCEPT ![r] = Merge(st[r], "host") \o fan_out]
                  /\ UNCHANGED <<lost, faults>>
               \/ /\ Fault
                  /\ todo' = [todo EXCEPT ![r] = Merge(st[r], "host")]
                  /\ lost' = lost \cup {l \in others \X Files \X made[r] :
                                          lines[l[1]][l[2]][l[3]] = 0}
    /\ sample' = [sample EXCEPT ![r] = None]
    /\ UNCHANGED <<base, nsVars, st, pid, status, since, plan, kills, rolls, ran, made, lines, human,
                   add, draft>>

\* Mutant: the refusal is told by the exit status 126.
ReturnByStatus(r) ==
    LET denied == status[r] \in {126, USERNS_DENIED} IN
    /\ todo[r] = <<>> /\ Step(r, "out", IF denied /\ ~plan[r].root THEN "sudo" ELSE "done")
    /\ status' = [status EXCEPT ![r] = IF denied THEN 126 ELSE @]
    /\ UNCHANGED <<nsVars, st, pid, since, runVars, mergeVars>>

\* The end of cmd_run; root has nothing to escalate to.
Return(r) ==
    LET denied == status[r] = USERNS_DENIED IN
    /\ todo[r] = <<>> /\ Step(r, "out", IF denied /\ ~plan[r].root THEN "sudo" ELSE "done")
    /\ status' = [status EXCEPT ![r] = IF denied THEN 126 ELSE @]
    /\ UNCHANGED <<nsVars, st, pid, since, runVars, mergeVars>>

\* run_fallback_sudo: salt starts over as root, or sudo is not to be had.
Sudo(r) ==
    /\ pc[r] = "sudo"
    /\ \/ Begin(r, [plan[r] EXCEPT !.root = TRUE])
       \/ /\ pc' = [pc EXCEPT ![r] = "done"]
          /\ UNCHANGED <<st, status, todo, plan>>
    /\ UNCHANGED <<base, nsVars, pid, since, sample, kills, rolls, ran, made, lines, human, add,
                   lossVars>>

\* The run and its child are killed at any point; the kernel drops the lock.
Interrupt(r) ==
    /\ pc[r] \notin {"start", "done"} /\ kills > 0 /\ kills' = kills - 1
    /\ pc' = [pc EXCEPT ![r] = "done"]
    /\ flock' = Unlocked(r)
    /\ late' = IF \E s \in Strata : flock[s] = r THEN late \cup Unpublished(st[r]) ELSE late
    /\ pipe' = [p \in Pids |-> IF pipe[p] = r THEN None ELSE pipe[p]]
    /\ pid' = [pid EXCEPT ![r] = None] /\ since' = [since EXCEPT ![r] = 0]
    /\ todo' = [todo EXCEPT ![r] = <<>>] /\ add' = [add EXCEPT ![r] = None]
    /\ human' = [human EXCEPT ![r] = {}] /\ sample' = [sample EXCEPT ![r] = None]
    /\ ran' = [ran EXCEPT ![r] = <<>>] /\ made' = [made EXCEPT ![r] = {}]
    /\ draft' = [draft EXCEPT ![r] = None]
    /\ status' = [status EXCEPT ![r] = 137]
    /\ UNCHANGED <<base, pidfile, gen, phase, of, view, admin, raced, st, plan, rolls, lines,
                   lost, faults>>

\* The rest of salt_stratum_rollback: the tree is replaced by the snapshot.
Replace ==
    /\ AdminStep("replace", "idle")
    /\ gen' = [gen EXCEPT ![admin.s] = @ + 1]
    /\ lines' = [lines EXCEPT ![admin.s] = Only(base)]
    /\ UNCHANGED <<base, pidfile, flock, phase, of, view, pipe, late, raced, pc, st, pid, status,
                   since, runVars, todo, human, add, lossVars>>

-----------------------------------------------------------------------------
Same == UNCHANGED <<runVars, mergeVars>>
Run(r) ==
    \/ MergeRead(r) \/ append_lines(r) \/ Sample(r) \/ Userns(r) \/ Useradd(r) \/ Exec(r)
    \/ Reap(r)
    \/ Sudo(r) \/ Changed(r) \/ Return(r)
Child(r) ==
    \/ Look(r) \/ Lock(r) \/ Recheck(r) \/ Unlink(r) \/ Fork(r) \/ Poll(r) \/ GiveUp(r)
    \/ Join(r)
Next ==
    \/ \E r \in Runners : Start(r)
    \/ \E r \in Runners : Run(r)
    \/ \E r \in Runners : Child(r) /\ Same
    \/ \E r \in Runners : Interrupt(r)
    \/ \E p \in Pids : HolderSetup(p) /\ Same
    \/ \E p \in Pids : Publish(p) /\ Same
    \/ \E p \in Pids : HolderDies(p) /\ kills > 0 /\ kills' = kills - 1
                       /\ UNCHANGED <<plan, sample, rolls, ran, made, mergeVars>>
    \/ \E s \in Strata : NsRead(s) /\ s \in rolls /\ rolls' = rolls \ {s}
                         /\ UNCHANGED <<plan, sample, kills, ran, made, mergeVars>>
    \/ NsKill /\ Same
    \/ NsUnlink /\ Same
    \/ Replace

\* Every run that can take a step takes one in the end, the commands that are
\* run end, and a forked holder gets to close its descriptors.
Fairness ==
    /\ \A r \in Runners : WF_vars(Run(r) \/ (Child(r) /\ Same))
    /\ \A p \in Pids : WF_vars(HolderSetup(p) /\ Same)

Spec == Init /\ [][Next]_vars /\ Fairness

-----------------------------------------------------------------------------
\* "An flock serializes concurrent first-runs so only one holder is created"
\* (run.c): a stratum has at most one living holder, whatever was killed,
\* unless a creator left before its holder had published or a rollback came
\* in between, which takes no lock.
OneHolder ==
    \A s \in Strata :
        LET all == {p \in Pids : of[p] = s} IN
        all \cap (late \cup raced) = {} => \A p, q \in all : Alive(p) /\ Alive(q) => p = q

\* A command runs in a namespace whose binds are on the stratum's present
\* directories.  Excepted are the runs that were under way when the
\* directories were replaced and holders that were starting at that time:
\* these publish a namespace made of the old directories, for good.
FreshView ==
    \A r \in Runners : pc[r] = "exec" /\ plan[r].root =>
        \/ view[pid[r]] = gen[st[r]]
        \/ since[r] # gen[st[r]]
        \/ pid[r] \in raced

\* A command is executed once per salt run, also when the first attempt is
\* refused and salt starts over under sudo, and salt run exits with its status,
\* 126, the status of a refusal, included.  A command that exits with 252 is
\* taken for a refusal and run again under sudo.
CommandOnce ==
    \A r \in Runners : ran[r] # <<>> /\ ran[r][1] # USERNS_DENIED =>
        Len(ran[r]) = 1 /\ (pc[r] = "done" => status[r] = ran[r][1])

\* When salt run returns, the accounts its command created are on the host and
\* in every stratum, with password entries, whatever other runs append, create
\* or die of meanwhile, as long as no tree was rolled back.  What is missing is
\* missing for one of the reasons the code is silent about: that very entry,
\* or the host's on its way, was not appended because a file or the table of
\* strata could not be opened, or a useradd rewrote the file it had just been
\* appended to; and nobody has appended it since.  "Push host humans into this
\* stratum so it sees your accounts" (cmd_run.cpp): likewise the host's account
\* is in a stratum by the time a command runs there as root, whatever was lost
\* before.  A distribution's own accounts never get to the host.
AccountsReach ==
    /\ (\A s \in Strata : gen[s] = 0) =>
          /\ \A r \in Runners : pc[r] = "done" =>
                \A n \in made[r], p \in Places, f \in Files :
                    n \in collect_names(p, f) \/ <<p, f, n>> \in lost
          /\ \A r \in Runners : pc[r] = "exec" /\ plan[r].root =>
                \A f \in Files : \/ Founder \in collect_names(st[r], f)
                                 \/ <<st[r], f, Founder>> \in lost
    /\ \A n \in System, f \in Files : n \notin collect_names("host", f)

\* Every salt run comes to an end: nobody waits forever for the lock, for a
\* holder or for the signal pipe.
RunEnds == \A r \in Runners : pc[r] # "start" ~> pc[r] = "done"
=============================================================================
