------------------------------ MODULE Declare -------------------------------
(***************************************************************************)
(* The native package plane from the repository to the package database:   *)
(* salt sync, install, update, remove, lock, lock apply and config apply,  *)
(* run by several processes at once on one root.  A transaction, whose own *)
(* steps are in NativeTxn, is the single step Commit here; the strata      *)
(* halves of the last two commands are in StrataCli.                       *)
(*                                                                         *)
(* Nothing but SQLite's lock keeps the processes apart: a plan is made and *)
(* checked on tables and an index that may be others when it is carried    *)
(* out, and two syncs write the same temporary files.                      *)
(***************************************************************************)
EXTENDS Resolver

CONSTANTS
    Procs,      \* salt processes
    Garbage,    \* an index file that is no index
    Broken,     \* a system.lua that does not load
    Menus       \* what behaviours are made of, each under a name: commands, indexes the repository
                \* publishes, keys, contents of system.lua, what the machine is
                \* found with; and its length in commands and outside events

VARIABLES
    remote,     \* the repository's index.toml and index.toml.sig
    half,       \* index published whose signature is still to be written, or None
    file,       \* the machine's index.toml and index.toml.sig
    tmp,        \* index.toml.new and index.toml.sig.new, one pair for all processes
    key,        \* a trusted key is configured
    db,         \* package -> the installed grain or None
    status,     \* package -> its sig_status
    hashed,     \* packages whose row has the sha256 the install verified (an old row has none)
    lock,       \* system.lock.toml, or None
    config,     \* system.lua, or None
    job,        \* process -> the command it is executing
    menu, left, \* name of what the behaviour is made of, and how much of it is left
    \* history variables, about what the code does not record
    vouched,    \* indexes the repository has signed
    mixed,      \* packages installed after the index changed under the transaction
    stale,      \* a plan was carried out on other tables than it was made on
    forced      \* a plan was made with --nodeps

repoVars == <<remote, half, vouched>>
fileVars == <<file, tmp, key>>
dbVars   == <<db, status, hashed, mixed, stale, forced>>
bounds   == <<menu, left>>
vars == <<repoVars, fileVars, dbVars, lock, config, job, bounds>>

NoPlan == [remove |-> <<>>, install |-> <<>>]
\* A process between commands; `want` and `got` are history: what an apply
\* should lead to, and the tables and the hashed rows when its native half was over.
Idle == [cmd |-> <<"none">>, pc |-> "idle", rc |-> 0, idx |-> None, plan |-> NoPlan,
         base |-> None, signed |-> FALSE, have_sig |-> FALSE, cfg |-> None,
         want |-> None, got |-> None]

At(p, pc) == job[p].pc = pc
Kind(p) == job[p].cmd[1]
Set(p, j) == job' = [job EXCEPT ![p] = j]
\* The command is over: what it had in memory is gone.
Done(p, rc) == [Idle EXCEPT !.cmd = job[p].cmd, !.pc = "done", !.rc = rc,
                            !.cfg = job[p].cfg, !.want = job[p].want, !.got = job[p].got]
End(p, rc) == Set(p, Done(p, rc))

-----------------------------------------------------------------------------
(***************************************************************************)
(* The repository (salt repo publish) and the administrator.               *)
(***************************************************************************)
Event == left > 0 /\ left' = left - 1 /\ UNCHANGED menu

\* salt_repo_publish: index.toml first.  Without a secret key the signature of
\* the index before stays where it is.
PublishIndex(i, sign) ==
    /\ Event /\ remote' = [remote EXCEPT !.index = i]
    /\ half' = IF sign THEN i ELSE None
    /\ UNCHANGED <<vouched, fileVars, dbVars, lock, config, job>>
PublishSig ==
    /\ half # None
    /\ remote' = [remote EXCEPT !.sig = half] /\ vouched' = vouched \cup {half}
    /\ half' = None
    /\ UNCHANGED <<fileVars, dbVars, lock, config, job, bounds>>
\* repo.lua gets or loses its key; system.lua is edited.
SetKey(k) ==
    /\ Event /\ key' = k /\ key' # key
    /\ UNCHANGED <<repoVars, file, tmp, dbVars, lock, config, job>>
Edit(f) ==
    /\ Event /\ config' = f /\ config' # config
    /\ UNCHANGED <<repoVars, fileVars, dbVars, lock, job>>

Start(p, c) ==
    /\ job[p].pc \in {"idle", "done"} /\ Event
    /\ Set(p, [Idle EXCEPT !.cmd = c,
                 !.pc = CASE c[1] = "sync" -> "fetch index" [] c[1] = "install" -> "route"
                          [] c[1] = "lock" -> "lock" [] c[1] = "config" -> "config"
                          [] OTHER -> "plan"])
    /\ UNCHANGED <<repoVars, fileVars, dbVars, lock, config>>
\* The process is killed.  An open SQL transaction is discarded.
Crash(p) ==
    /\ Menus[menu].crash /\ job[p].pc \notin {"idle", "done"} /\ Set(p, Idle)
    /\ UNCHANGED <<repoVars, fileVars, dbVars, lock, config, bounds>>

-----------------------------------------------------------------------------
(***************************************************************************)
(* cmd_sync.                                                               *)
(***************************************************************************)
syncUnchanged == UNCHANGED <<repoVars, key, dbVars, lock, config, bounds>>
NoTmp == [index |-> None, sig |-> None]
Goto(p, pc) == Set(p, [job[p] EXCEPT !.pc = pc])

FetchIndex(p) ==
    /\ At(p, "fetch index")
    /\ \/ End(p, 1) /\ UNCHANGED tmp
       \/ tmp' = [tmp EXCEPT !.index = remote.index] /\ Goto(p, "fetch sig")
    /\ UNCHANGED file /\ syncUnchanged
FetchSig(p) ==
    /\ At(p, "fetch sig")
    /\ \/ Set(p, [job[p] EXCEPT !.pc = "verify", !.have_sig = FALSE]) /\ UNCHANGED tmp
       \/ /\ remote.sig # None /\ tmp' = [tmp EXCEPT !.sig = remote.sig]
          /\ Set(p, [job[p] EXCEPT !.pc = "verify", !.have_sig = TRUE])
    /\ UNCHANGED file /\ syncUnchanged
\* salt_verify_file: the signature is of these very bytes.
verified(f) == f.index # None /\ f.sig = f.index
Verify(p) ==
    /\ At(p, "verify")
    /\ IF ~key \/ (job[p].have_sig /\ verified(tmp))
       THEN Goto(p, "parse") /\ UNCHANGED tmp
       ELSE End(p, 1) /\ tmp' = IF job[p].have_sig THEN NoTmp ELSE [tmp EXCEPT !.index = None]
    /\ UNCHANGED file /\ syncUnchanged
\* salt_repo_index_load and salt_repo_index_verify.
index_load(f) == f \notin {None, Garbage}
Parse(p) ==
    /\ At(p, "parse")
    /\ IF index_load(tmp.index) THEN Goto(p, "rename index") /\ UNCHANGED tmp
                                ELSE End(p, 1) /\ tmp' = NoTmp
    /\ UNCHANGED file /\ syncUnchanged
RenameIndex(p) ==
    /\ At(p, "rename index")
    /\ IF tmp.index # None
       THEN /\ file' = [file EXCEPT !.index = tmp.index] /\ tmp' = [tmp EXCEPT !.index = None]
            /\ Goto(p, "rename sig")
       ELSE End(p, 1) /\ tmp' = NoTmp /\ UNCHANGED file
    /\ syncUnchanged
\* The result of the second rename is not looked at.
RenameSig(p) ==
    /\ At(p, "rename sig") /\ End(p, 0)
    /\ IF ~job[p].have_sig THEN file' = [file EXCEPT !.sig = None] /\ UNCHANGED tmp
       ELSE IF tmp.sig = None THEN UNCHANGED <<file, tmp>>
       ELSE file' = [file EXCEPT !.sig = tmp.sig] /\ tmp' = [tmp EXCEPT !.sig = None]
    /\ syncUnchanged

\* Mutant: a signature file is enough.
index_signed_exists == key /\ file.sig # None
index_signed_ok == key /\ verified(file)

-----------------------------------------------------------------------------
(***************************************************************************)
(* Plans.  `ok` is false when the command refuses; `want` is history: the  *)
(* tables an apply is meant to lead to.                                    *)
(***************************************************************************)
Plan(ok, remove, install, want) ==
    [ok |-> ok, plan |-> [remove |-> remove, install |-> install], want |-> want]
Refused == Plan(FALSE, <<>>, <<>>, None)

\* do_install, with what resolve made of its targets.
InstallPlan(r) == Plan(r.problems = {}, <<>>, r.order, None)
\* The targets of an update; no target is "everything is up to date".
UpdateTargets(idx, d) ==
    {n \in Installed(d) : LET e == salt_repo_index_find(idx, n) IN e # None /\ newer(e, d[n])}

\* native_remove.
RemovePlan(d, names, all) ==
    Plan(names \subseteq Installed(d),
         RemoveOrder(d, IF all THEN cascade(d, names) ELSE names), <<>>, None)

\* Mutant: a digest that changed is not looked at.
compare_lock_build(d, h, rows) ==
    {q \in Installed(rows) : d[q] = None \/ ~SameBuild(d[q], rows[q])}
\* compare_lock: missing or of another version, release or digest; h are the
\* rows with a digest, and a row without one matches any.
compare_lock(d, h, rows) ==
    {q \in Installed(rows) : \/ d[q] = None \/ ~SameBuild(d[q], rows[q])
                             \/ q \in h /\ d[q] # rows[q]}
\* The native half of lock_apply.
LockPlan(idx, d, h, rows) ==
    LET wanted == compare_lock(d, h, rows)
        found == {salt_repo_index_find_exact(idx, rows[q]) : q \in wanted}
    IN Plan(\A q \in wanted : salt_repo_index_find_exact(idx, rows[q]) = rows[q],
            SetToSeq(Installed(d) \ Installed(rows)),
            order_by_deps(SetToSeq(found \ {None})), rows)

\* apply_native: the closures of the roots that resolve; with on_missing_artifact
\* "fail" one that does not is an error, and so is a pin of an undeclared name.
closures(idx, c) == {resolve_cfg(idx, c.pins, Fresh, <<n>>) : n \in c.packages}
apply_native(d, c, subs) ==
    LET good == {r \in subs : r.problems = {}}
        desired == UNION {Entries(r.order) : r \in good}
        names == {name[g] : g \in desired}
        change == {g \in desired : d[name[g]] = None \/ ~SameBuild(d[name[g]], g)}
    IN Plan((c.skip \/ good = subs) /\ DOMAIN c.pins \subseteq names,
            SetToSeq(Installed(d) \ names), order_by_deps(SetToSeq(change)),
            [q \in Pkgs |-> IF q \in names THEN CHOOSE g \in desired : name[g] = q ELSE None])

-----------------------------------------------------------------------------
(***************************************************************************)
(* The commands.                                                           *)
(***************************************************************************)
still == UNCHANGED <<repoVars, fileVars, lock, config, bounds>>

\* cmd_install: names not in the index go to a stratum or are not found.
Route(p) ==
    /\ At(p, "route")
    /\ LET names == job[p].cmd[2]
           native == {n \in names : index_load(file.index)
                                    /\ salt_repo_index_find(file.index, n) # None}
       IN \E rc \in (IF native = names THEN {0} ELSE {0, 1}) :
             IF native = {} THEN End(p, rc)
             ELSE Set(p, [job[p] EXCEPT !.pc = "plan", !.rc = rc, !.cmd[2] = native])
    /\ UNCHANGED dbVars /\ still

\* config_apply up to the choice between lock and system.lua; have_lock and the
\* policy are looked at here, the files are read again later.
config_matches_lock(c) == lock = None \/ lock.config = c
use_lock(p) == Kind(p) = "config" => ~job[p].cmd[2]
Config(p) ==
    /\ At(p, "config")
    /\ LET relock == job[p].cmd[2] \/ lock = None IN
       IF \/ config = None /\ lock = None
          \/ config = Broken
          \/ config # None /\ config.signed /\ ~index_signed_ok
          \/ ~relock /\ ~config_matches_lock(config)
       THEN End(p, 1)
       ELSE Set(p, [job[p] EXCEPT !.cfg = config, !.cmd[2] = relock,
                      !.pc = IF ~relock \/ (config # None /\ config.native) THEN "plan"
                             ELSE "lock"])
    /\ UNCHANGED dbVars /\ still

\* The plan the command makes now, a set of one; without an index only lock
\* apply and remove make one.
Planned(p) ==
    LET cmd == job[p].cmd IN
    IF cmd[1] = "remove" THEN {RemovePlan(db, cmd[2], cmd[3])}
    ELSE IF cmd[1] = "apply" \/ (cmd[1] = "config" /\ ~cmd[2])
    THEN IF lock = None THEN {Refused}
         ELSE {LockPlan(i, db, hashed, lock.rows) :
                  i \in {IF index_load(file.index) THEN file.index ELSE <<>>}}
    ELSE IF ~index_load(file.index) THEN {Refused}
    ELSE CASE cmd[1] = "install" -> {InstallPlan(r) :
                                      r \in {ResolveAll(file.index, db, cmd[2], cmd[3])}}
           [] cmd[1] = "update"  -> {InstallPlan(ResolveAll(file.index, db, S, FALSE)) :
                                      S \in {UpdateTargets(file.index, db)}}
           [] cmd[1] = "config"  -> {apply_native(db, job[p].cfg, subs) :
                                      subs \in {closures(file.index, job[p].cfg)}}

\* After the native half: config_apply without the lock writes a new one.
Tables(d, h) == [rows |-> d, hashed |-> h]
AfterNative(p, d, h) ==
    LET j == [job[p] EXCEPT !.got = IF job[p].want = None THEN None ELSE Tables(d, h)]
    IN IF Kind(p) = "config" /\ ~use_lock(p)
       THEN [j EXCEPT !.pc = "lock", !.idx = None, !.plan = NoPlan, !.base = None]
       ELSE [Done(p, job[p].rc) EXCEPT !.got = j.got]

\* The command reads tables and files and makes its plan; the checks of
\* native_transaction follow at once.
MakePlan(p) ==
    /\ At(p, "plan")
    /\ \E pl \in Planned(p) :
       \/ ~pl.ok /\ End(p, 1)
       \/ pl.ok /\ pl.plan = NoPlan
          /\ Set(p, [AfterNative(p, db, hashed) EXCEPT
                        !.want = pl.want,
                        !.got = IF pl.want = None THEN None ELSE Tables(db, hashed)])
       \/ pl.ok /\ pl.plan # NoPlan /\ ~Accepted(db, pl.plan) /\ End(p, 1)
       \/ pl.ok /\ Accepted(db, pl.plan)
          /\ Set(p, [job[p] EXCEPT !.pc = "fetch", !.plan = pl.plan, !.base = db,
                                   !.idx = file.index, !.want = pl.want])
    /\ UNCHANGED dbVars /\ still

\* The confirmation, index_signed_ok, and fetch_and_verify of every grain.
Fetch(p) ==
    /\ At(p, "fetch")
    /\ \/ End(p, 1)
       \/ Set(p, [job[p] EXCEPT !.pc = "commit", !.signed = index_signed_ok,
                     !.idx = IF file.index = job[p].idx THEN @ ELSE None])
    /\ UNCHANGED dbVars /\ still

\* The transaction, as a whole.  It fails when a package to remove is gone.
Commit(p) ==
    /\ At(p, "commit")
    /\ LET j == job[p]  pl == j.plan  new == Arriving(pl) IN
       \/ End(p, 1) /\ UNCHANGED dbVars
       \/ /\ Gone(pl) \subseteq Installed(db)
          /\ db' = PlanDb(db, pl)
          /\ status' = [q \in Pkgs |-> IF q \in new
                                       THEN IF j.signed THEN "signed" ELSE "unsigned"
                                       ELSE IF db'[q] = None THEN None ELSE status[q]]
          /\ hashed' = (hashed \ Gone(pl)) \cup new
          /\ mixed' = IF j.idx = None THEN mixed \cup new ELSE mixed \ new
          /\ stale' = (stale \/ db # j.base)
          /\ forced' = (forced \/ (Kind(p) = "install" /\ j.cmd[3]))
          /\ Set(p, IF db # j.base THEN [AfterNative(p, db', hashed') EXCEPT !.want = None, !.got = None]
                    ELSE AfterNative(p, db', hashed'))
    /\ still

\* emit_native: every installed package with the digest in its row, or without
\* one the digest of that version and release in the index, which may be another
\* build's; if the index has none either, nothing is written.
emit_native ==
    [q \in Pkgs |-> IF db[q] = None \/ q \in hashed THEN db[q]
                    ELSE IF index_load(file.index)
                    THEN salt_repo_index_find_exact(file.index, db[q]) ELSE None]
\* lock_write, with the hash of the system.lua that is there now.  `faithful` is
\* history: the lock is of what an apply of that very file led to.
LockWrite(p) ==
    /\ At(p, "lock")
    /\ \/ End(p, 1) /\ UNCHANGED lock
       \/ /\ Installed(emit_native) = Installed(db)
          /\ lock' = [rows |-> emit_native, config |-> config,
                      faithful |-> /\ Kind(p) = "config" /\ config = job[p].cfg
                                   /\ job[p].got # None /\ job[p].got.rows = db]
          /\ End(p, 0)
    /\ UNCHANGED <<repoVars, fileVars, dbVars, config, bounds>>

-----------------------------------------------------------------------------
Init ==
    /\ menu \in DOMAIN Menus /\ left = Menus[menu].length
    /\ file \in Menus[menu].files /\ remote = file /\ tmp = NoTmp /\ half = None
    /\ vouched = IF verified(file) THEN {file.index} ELSE {}
    /\ key \in Menus[menu].keys /\ config \in Menus[menu].configs /\ lock \in Menus[menu].locks
    /\ db \in Menus[menu].dbs
    /\ status = [q \in Pkgs |-> IF db[q] = None THEN None ELSE "unsigned"]
    /\ \E old \in Menus[menu].unhashed : hashed = Installed(db) \ old
    /\ job = [p \in Procs |-> Idle]
    /\ mixed = {} /\ stale = FALSE /\ forced = FALSE

Next ==
    \/ \E x \in Menus[menu].publish : PublishIndex(x.index, x.sign)
    \/ PublishSig
    \/ \E k \in Menus[menu].keys : SetKey(k)
    \/ \E f \in Menus[menu].configs : Edit(f)
    \/ \E p \in Menus[menu].procs, c \in Menus[menu].commands : Start(p, c)
    \/ \E p \in Procs : Crash(p)
    \/ \E p \in Procs : FetchIndex(p)
    \/ \E p \in Procs : FetchSig(p)
    \/ \E p \in Procs : Verify(p)
    \/ \E p \in Procs : Parse(p)
    \/ \E p \in Procs : RenameIndex(p)
    \/ \E p \in Procs : RenameSig(p)
    \/ \E p \in Procs : Route(p)
    \/ \E p \in Procs : Config(p)
    \/ \E p \in Procs : MakePlan(p)
    \/ \E p \in Procs : Fetch(p)
    \/ \E p \in Procs : Commit(p)
    \/ \E p \in Procs : LockWrite(p)

Spec == Init /\ [][Next]_vars

-----------------------------------------------------------------------------
\* Every installed package has its dependencies installed, after any sequence of
\* installs, updates, removals with and without --cascade, lock applies and
\* config applies, also those that remove and reinstall in one plan
\* (check_dangling lets every reinstalled package be).  It may fail once a plan
\* was carried out on tables that had changed since it was checked, or was made
\* with --nodeps.
DepsClosed ==
    stale \/ forced \/ \A q \in Installed(db) : deps[db[q]] \subseteq Installed(db)

\* The plan a command is about to carry out is the one that was asked for: an
\* install or update brings the targets and everything they need that is not
\* installed, each at its newest build; a removal takes the named packages, with
\* --cascade also all that need them; an apply leads to the locked or declared
\* set.  Dependencies come before what needs them and go after, but for cycles
\* and --nodeps.
PlansExact ==
    \A p \in Procs : At(p, "fetch") =>
        LET j == job[p]  cmd == j.cmd  pl == j.plan
            brings(targets, nodeps) ==
                /\ Gone(pl) = {}
                /\ Arriving(pl) = Brought(j.idx, j.base, targets, nodeps)
                /\ \A g \in Items(pl) : g = NewestOf(j.idx, name[g])
        IN /\ DepsFirst(pl.install) \/ (cmd[1] = "install" /\ cmd[3])
           /\ CASE cmd[1] = "install" -> brings(cmd[2], cmd[3])
                [] cmd[1] = "update" ->
                     brings({n \in Installed(j.base) : \E g \in Entries(j.idx) :
                                 name[g] = n /\ OlderGrain(j.base[n], g)}, FALSE)
                [] cmd[1] = "remove" ->
                     /\ Items(pl) = {} /\ RevdepsFirst(j.base, pl.remove)
                     /\ Gone(pl) = Least(cmd[2], LAMBDA n : IF cmd[3] THEN Revdeps(j.base, n) ELSE {})
                [] OTHER -> Installed(PlanDb(j.base, pl)) = Installed(j.want)

\* An apply that reports success has led to the set it was given.  The packages
\* are the locked or declared ones, each of that version and release.  After an
\* apply of the lock they are the locked builds to the digest, but for rows from
\* before digests were recorded: compare_lock takes those for any build of the
\* version and release, so the locked build need not be the one installed.  A row
\* the apply itself wrote always has its digest.  And as long as the lock is the
\* one an earlier config apply wrote for this very system.lua, a later config
\* apply brings back every declared package, whatever was installed, removed,
\* updated or published in between.  (A lock that salt lock wrote beside a
\* system.lua not applied yet names that file too; of it this says nothing.)
ApplyConverges ==
    \A p \in Procs : At(p, "done") /\ job[p].rc = 0 /\ job[p].want # None =>
        LET j == job[p] IN
        /\ Installed(j.got.rows) = Installed(j.want)
        /\ \A q \in Installed(j.want) :
              /\ SameBuild(j.got.rows[q], j.want[q])
              /\ use_lock(p) /\ q \in j.got.hashed => j.got.rows[q] = j.want[q]
        /\ lock.faithful /\ Kind(p) = "config" /\ lock.config = j.cfg /\ ~j.cfg.skip
              => j.cfg.packages \subseteq Installed(lock.rows)

\* salt update "never silently downgrade[s]" (do_install): what it replaces, it
\* replaces by something newer, in the order of whole numbers and not of text,
\* also when the repository went back to older builds.
NeverDowngrades ==
    [][\A p \in Procs : At(p, "commit") /\ Kind(p) = "update" /\ db = job[p].base
                       /\ job'[p].pc # "commit" =>
         \A q \in Installed(db) : db'[q] # db[q] =>
            db'[q] # None /\ OlderGrain(db[q], db'[q])]_vars

\* A package recorded as "signed" came from an index the repository signed,
\* whatever was published, fetched by two syncs at once into one temporary file
\* or cut off between the renames of index and signature.  Excepted are
\* packages of a transaction under which the index was replaced: the entries
\* are read before the signature is checked.
SignedIsVerified ==
    \A q \in Pkgs \ mixed : status[q] = "signed" =>
        \E i \in vouched : db[q] \in Entries(i)
=============================================================================
