----------------------------- MODULE StrataCli ------------------------------
(***************************************************************************)
(* The commands of salt that act on strata, one administrator at a time:   *)
(* salt stratum, pkg, pm, install and remove with a stratum prefix, run,   *)
(* expose and its variants, service, provider, lock, lock apply and        *)
(* config apply.  The native halves of lock apply and config apply are in  *)
(* module Declare; here they are a step that succeeds or fails.            *)
(***************************************************************************)
EXTENDS Strata

CONSTANTS
    Menus   \* what a behaviour is made of: the commands to choose from, the strata
            \* and lockfiles found on the machine, contents of system.lua,
            \* filesystems; and its bounds: its length in commands and in seconds

\* salt stratum rollback is given the name of a stratum, salt provider rollback
\* that of a component.
ASSUME MenuAssumption ==
    \A m \in Menus : \A c \in m.commands :
        /\ c[1] = "rollback" => c[2] \in StratumNames
        /\ c[1] = "provider-rollback" => c[2] \in Components

-----------------------------------------------------------------------------
(***************************************************************************)
(* What a command does, as a job.                                          *)
(***************************************************************************)
\* cmd_stratum.  expose_pm_for and expose_all_for are switched off by salt.lua
\* or --no-expose; that is the case in which none of their exposures succeeds.
stratum_add(s) ==
    <<<<"bootstrap", s>>, <<"expose", s, pm[s], pm[s], "pm">>, <<"expose_all", s>>>>
stratum_destroy(s) == <<<<"destroy", s>>>>
stratum_snapshot(s) == <<<<"snapshot", s, "manual">>>>
stratum_rollback(s, id) == <<<<"rollback", s, id>>>>

stratum_install(s, P) ==
    <<<<"ensure", s>>, <<"snapshot", s, "pre-install">>, <<"pkg", s, "install", P>>,
      <<"adopt", s>>>>
stratum_remove(s, P) ==
    <<<<"open", s>>, <<"snapshot", s, "pre-remove">>, <<"pkg", s, "remove", P>>,
      <<"disown", s>>>>
stratum_update(s) ==
    <<<<"open", s>>, <<"snapshot", s, "pre-update">>, <<"pkg", s, "update", {}>>>>
Label == [install |-> "pre-install", remove |-> "pre-remove", update |-> "pre-update"]
cmd_pkg(s, op, P) ==
    <<<<"open", s>>, <<"snapshot", s, Label[op]>>, <<"pkg", s, op, P>>>>
\* A query of the manager takes no snapshot.
pm_is_mutating(op) == op # "query"
cmd_pm(s, op, P) ==
    IF pm_is_mutating(op)
    THEN <<<<"open", s>>, <<"snapshot", s, "pre-pm">>, <<"pkg", s, op, P>>, <<"expose_all", s>>>>
    ELSE <<<<"open", s>>, <<"pkg", s, op, P>>, <<"expose_all", s>>>>
cmd_run(s) == <<<<"open", s>>, <<"run", s>>, <<"expose_all", s>>>>

cmd_expose(s, c, a) == <<<<"expose", s, c, a, "cli">>>>
cmd_unexpose(a) == <<<<"unexpose", a, FALSE>>>>
cmd_expose_all(s) == <<<<"expose_all", s>>>>
cmd_expose_desktop(s, app) == <<<<"open", s>>, <<"desktop", s, app, <<>>>>>>
cmd_service(s, unit) == <<<<"service", s, unit>>>>
provider_set(c, p) == <<<<"provider_set", c, p>>>>
provider_rollback(c) == <<<<"provider_rollback", c>>>>

\* The command line c as the operations it stands for.
Program(c) ==
    CASE c[1] = "add"       -> stratum_add(c[2])
      [] c[1] = "destroy"   -> stratum_destroy(c[2])
      [] c[1] = "snapshot"  -> stratum_snapshot(c[2])
      [] c[1] = "rollback"  -> stratum_rollback(c[2], c[3])
      [] c[1] = "install"   -> stratum_install(c[2], c[3])
      [] c[1] = "remove"    -> stratum_remove(c[2], c[3])
      [] c[1] = "update"    -> stratum_update(c[2])
      [] c[1] = "pkg"       -> cmd_pkg(c[2], c[3], c[4])
      [] c[1] = "pm"        -> cmd_pm(c[2], c[3], c[4])
      [] c[1] = "run"       -> cmd_run(c[2])
      [] c[1] = "expose"    -> cmd_expose(c[2], c[3], c[4])
      [] c[1] = "unexpose"  -> cmd_unexpose(c[2])
      [] c[1] = "expose-all" -> cmd_expose_all(c[2])
      [] c[1] = "expose-desktop" -> cmd_expose_desktop(c[2], c[3])
      [] c[1] = "service"   -> cmd_service(c[2], c[3])
      [] c[1] = "provider"  -> provider_set(c[2], c[3])
      [] c[1] = "provider-rollback" -> provider_rollback(c[2])
      [] c[1] = "lock"      -> <<<<"lock_write">>>>
      [] c[1] = "apply"     -> <<<<"lock_apply">>>>
      [] c[1] = "config"    -> <<<<"config_apply", c[2]>>>>

Start(c) ==
    /\ job = <<>> /\ left > 0 /\ left' = left - 1
    /\ cmd' = c /\ job' = Program(c)
    /\ sec' \in {sec, sec + 1} /\ sec' <= menu.seconds
    /\ rc' = 0 /\ bad' = FALSE /\ snap' = 0 /\ seen' = Missing
    /\ withdrawn' = {} /\ stuck' = Missing
    /\ UNCHANGED <<menu, treeVars, hostVars, menuVars, provVars, fileVars>>

\* An editor: system.lua is written by hand.
Edit(f) ==
    /\ job = <<>> /\ left > 0 /\ left' = left - 1
    /\ config' = f /\ config' # config
    /\ cmd' = <<"edit">> /\ rc' = 0 /\ bad' = FALSE /\ snap' = 0 /\ seen' = Missing
    /\ withdrawn' = {} /\ stuck' = Missing
    /\ UNCHANGED <<menu, treeVars, hostVars, menuVars, provVars, lock, job, sec>>

\* Between two operations.
Crash == job # <<>> /\ Dead
         /\ UNCHANGED <<treeVars, hostVars, menuVars, provVars, fileVars, stuck, bounds>>

-----------------------------------------------------------------------------
(***************************************************************************)
(* Steps of the commands themselves.                                       *)
(***************************************************************************)
still == <<treeVars, hostVars, menuVars, provVars, fileVars, runVars, snap, seen>>

\* open_stratum: every command but install refuses an unknown stratum.
Open == Doing("open") /\ (IF Arg(2) \in strata THEN Go ELSE Fail) /\ UNCHANGED still

\* ensure_stratum: bootstraps an unknown one.
Ensure ==
    /\ Doing("ensure")
    /\ LET s == Arg(2) IN
       IF s \in strata THEN Go
       ELSE Then(<<<<"bootstrap", s>>, <<"expose", s, pm[s], pm[s], "pm">>>>)
    /\ UNCHANGED still

\* What `salt run` executes may install tools of its own, with no snapshot, and
\* may stop on the way.
Run ==
    /\ Doing("run")
    /\ LET s == Arg(2)  c == tree[s] IN
       \/ /\ Fail
          /\ \E d \in IF c \in Content THEN Managed("install", c, {}) \cup {Partial} ELSE {c} :
                tree' = [tree EXCEPT ![s] = d]
       \/ /\ c \in Content /\ Go
          /\ \E d \in Managed("install", c, {}) : tree' = [tree EXCEPT ![s] = d]
    /\ unsafe' = IF tree[Arg(2)] \in Content /\ tree'[Arg(2)] = Partial
                 THEN unsafe \cup {Arg(2)} ELSE unsafe
    /\ UNCHANGED <<use_btrfs, strata, snapshots, store, ids, reused, doomed,
                   hostVars, menuVars, provVars, fileVars, runVars, snap, seen>>

\* The end of stratum_install: what is new in the tree is exposed if the mode
\* or the user says so, with no look at host commands or existing aliases.
Adopt ==
    /\ Doing("adopt")
    /\ LET s == Arg(2)
           bins == scan_bins(s, tree[s]) \ scan_bins(s, seen)
           menus == scan_desktops(tree[s]) \ scan_desktops(seen)
           svcs == scan_services(tree[s]) \ scan_services(seen)
       IN \E cli \in BOOLEAN, sv \in BOOLEAN :
          Then((IF cli THEN Each(bins, LAMBDA b : <<"expose", s, b, b, "cli">>)
                            \o Each(menus, LAMBDA m : <<"desktop", s, m, <<>>>>)
                       ELSE <<>>)
               \o (IF sv THEN Each(svcs, LAMBDA u : <<"service", s, u>>) ELSE <<>>))
    /\ UNCHANGED still

\* Mutant: looks for the alias among the commands that went.
DisownByAlias ==
    /\ Doing("disown")
    /\ LET s == Arg(2)
           gone == scan_bins(s, seen) \ scan_bins(s, tree[s])
           mine == {a \in DOMAIN exposed : exposed[a].s = s /\ a \in gone}
       IN Then(Each(mine, LAMBDA a : <<"unexpose", a, FALSE>>)
               \o <<<<"retire", s>>, <<"disable", s>>>>)
    /\ UNCHANGED still

\* The end of stratum_remove: aliases of commands and applications that went
\* with the package, then their menu entries, then their services.
Disown ==
    /\ Doing("disown")
    /\ LET s == Arg(2)
           gone == (scan_bins(s, seen) \ scan_bins(s, tree[s]))
                   \cup (scan_desktops(seen) \ scan_desktops(tree[s]))
           mine == {a \in DOMAIN exposed : exposed[a].s = s /\ exposed[a].c \in gone}
       IN Then(Each(mine, LAMBDA a : <<"unexpose", a, FALSE>>)
               \o <<<<"retire", s>>, <<"disable", s>>>>)
    /\ UNCHANGED still
\* The files' deletions are not checked.
Retire ==
    /\ Doing("retire") /\ Go
    /\ LET gone == {Arg(2)} \X (scan_desktops(seen) \ scan_desktops(tree[Arg(2)])) IN
       \E S \in SUBSET gone :
          /\ desktop' = desktop \ S
          /\ stray' = stray \cup {<<"entry", e[1], e[2]>> : e \in gone \ S}
    /\ UNCHANGED <<treeVars, hostVars, services, provVars, fileVars, runVars, snap, seen>>
Disable ==
    /\ Doing("disable") /\ Go
    /\ LET gone == {Arg(2)} \X (scan_services(seen) \ scan_services(tree[Arg(2)])) IN
       \E S \in SUBSET gone :
          /\ services' = services \ S
          /\ stray' = stray \cup {<<"service", e[1], e[2]>> : e \in gone \ S}
    /\ UNCHANGED <<treeVars, hostVars, desktop, provVars, fileVars, runVars, snap, seen>>

-----------------------------------------------------------------------------
(***************************************************************************)
(* The lockfile (cmd_lock.cpp).                                            *)
(***************************************************************************)
\* lock_write with emit_strata: every package of every stratum, or no file;
\* a strata database that cannot be opened counts as having no strata.
LockWrite ==
    /\ Doing("lock_write")
    /\ \/ Fail /\ UNCHANGED lock
       \/ /\ \A s \in strata : query_stratum(s) # {}
          /\ lock' = [pins |-> [s \in strata |-> tree[s]], config |-> config] /\ Go
       \/ lock' = [pins |-> <<>>, config |-> config] /\ Go
    /\ UNCHANGED <<treeVars, hostVars, menuVars, provVars, config, runVars, snap, seen>>

\* lock_load, the native half and apply_strata.
LockApply ==
    /\ Doing("lock_apply")
    /\ \/ Fail
       \/ /\ lock # None
          /\ Then(Each(DOMAIN lock.pins, LAMBDA s : <<"apply_stratum", s>>))
    /\ UNCHANGED still

ApplyStratum ==
    /\ Doing("apply_stratum")
    /\ job' = <<<<"ensure", Arg(2)>>, <<"compare", Arg(2)>>>> \o Tail(job)
    /\ bad' = FALSE /\ snap' = 0
    /\ UNCHANGED <<rc, treeVars, hostVars, menuVars, provVars, fileVars, runVars, seen>>

\* Packages the lock does not list, and those missing or of another build.
compare_stratum(pins, live) ==
    [extra |-> Installed(live) \ Installed(pins),
     want |-> {p \in Installed(pins) : live[p] # pins[p]}]
\* The rest of apply_stratum, planned on the live packages.
Compare ==
    /\ Doing("compare")
    /\ LET s == Arg(2) IN
       \/ Fail /\ UNCHANGED seen
       \/ \E live \in query_stratum(s) :
          LET pins == lock.pins[s]
              c == compare_stratum(pins, live)
          IN /\ seen' = live
             /\ Then(IF c.extra \cup c.want = {} THEN <<>>
                     ELSE <<<<"snapshot", s, "pre-lock-apply">>>>
                          \o (IF c.extra = {} THEN <<>> ELSE <<<<"pkg", s, "remove", c.extra>>>>)
                          \o (IF c.want = {} THEN <<>>
                              ELSE <<<<"exact", s, [p \in c.want |-> pins[p]]>>>>)
                          \o <<<<"verify", s>>, <<"settle", s>>>>)
    /\ UNCHANGED <<treeVars, hostVars, menuVars, provVars, fileVars, runVars, snap>>

\* Mutant: the manager's exit status is trusted.
VerifyStatus == Doing("verify") /\ Go /\ UNCHANGED still

\* The second query: only an exact match counts.
Verify ==
    /\ Doing("verify")
    /\ \/ Fail
       \/ \E live \in query_stratum(Arg(2)) :
             LET c == compare_stratum(lock.pins[Arg(2)], live) IN c.extra \cup c.want = {} /\ Go
    /\ UNCHANGED still

\* Mutant: no way back.
SettleKeeps == Doing("settle") /\ Go /\ UNCHANGED still

\* The end of apply_stratum: after an error, back to the safety snapshot.
Settle ==
    /\ Doing("settle")
    /\ IF bad /\ snap > 0 THEN Then(<<<<"rollback", Arg(2), snap>>>>) ELSE Go
    /\ UNCHANGED still

-----------------------------------------------------------------------------
(***************************************************************************)
(* system.lua (cmd_config.cpp).                                            *)
(***************************************************************************)
\* config_apply: the lock if there is one and the file has not changed since,
\* else the declared strata; then the exposures; then a new lock.
ConfigApply ==
    /\ Doing("config_apply")
    /\ LET relock == Arg(2)
           use_lock == lock # None /\ ~relock
       IN \/ Fail
          \/ /\ use_lock /\ lock.config = config
             /\ Then(<<<<"lock_apply">>, <<"part", "expose">>>>)
          \/ /\ ~use_lock
             /\ Then(Each(DOMAIN config.strata, LAMBDA s : <<"declare", s, config.strata[s]>>)
                     \o <<<<"part", "expose">>, <<"part", "lock">>>>)
    /\ UNCHANGED still

\* One stratum of apply_strata_cfg.
DeclareStratum ==
    /\ Doing("declare")
    /\ Then(<<<<"ensure", Arg(2)>>, <<"want", Arg(2), Arg(3)>>>>)
    /\ UNCHANGED still
Want ==
    /\ Doing("want")
    /\ \/ Fail
       \/ \E live \in pkg_query(Arg(2)) :
          LET missing == Arg(3) \ DOMAIN live
          IN Then(IF missing = {} THEN <<>> ELSE stratum_install(Arg(2), missing))
    /\ UNCHANGED still

\* apply_expose: `same` and the aliases to withdraw are read off one listing
\* made at the start.
RowOf(a) == {exposed[b] : b \in DOMAIN exposed \cap {a}}
same(e) ==
    /\ RowOf(e.alias) = {Row(e.s, e.c, "config")} /\ e.alias \in DOMAIN shims
    /\ e.desktop => <<e.s, e.c>> \in desktop
stale == {a \in DOMAIN exposed : /\ exposed[a].kind = "config"
                                 /\ \A e \in config.expose : e.alias # a}
\* Mutant: an entry with a menu entry gets no alias of its own.
apply_expose_or ==
    Each({e \in config.expose : ~same(e)},
         LAMBDA e : IF e.s \notin strata THEN <<"unknown">>
                    ELSE IF e.desktop THEN <<"desktop", e.s, e.c, <<>>>>
                    ELSE <<"expose", e.s, e.c, e.alias, "config">>)
apply_expose ==
    LET add(e) == <<"expose", e.s, e.c, e.alias, "config">>
    IN Each({e \in config.expose : ~same(e)},
            LAMBDA e : IF e.s \notin strata THEN <<"unknown">>
                       ELSE IF e.desktop THEN <<"desktop", e.s, e.c, <<add(e)>>>>
                       ELSE add(e))
       \o MapThenFoldSet(LAMBDA q, r : q \o r, <<>>,
              LAMBDA a : <<<<"unexpose", a, TRUE>>, <<"unlist", exposed[a].s, exposed[a].c>>>>,
              LAMBDA S : CHOOSE a \in S : TRUE, stale)
Part ==
    /\ Doing("part")
    /\ IF rc # 0 THEN job' = <<>> /\ UNCHANGED <<rc, bad>>
       ELSE IF Arg(2) = "expose" THEN Then(apply_expose)
       ELSE Then(<<<<"lock_write">>>>)
    /\ UNCHANGED still
Unknown == Doing("unknown") /\ Note(TRUE) /\ UNCHANGED still
Unlist ==
    /\ Doing("unlist") /\ Go
    /\ desktop' \in {desktop, desktop \ {<<Arg(2), Arg(3)>>}}
    /\ withdrawn' = withdrawn \cup {<<Arg(2), Arg(3)>>}
    /\ UNCHANGED <<treeVars, hostVars, services, stray, provVars, fileVars, cmd, stuck,
                   bounds, snap, seen>>

-----------------------------------------------------------------------------
Init ==
    /\ menu \in Menus /\ left = menu.length /\ use_btrfs \in menu.btrfs
    /\ lock \in menu.locks /\ config \in menu.configs
    /\ \E found \in menu.found :
          /\ strata = DOMAIN found
          /\ tree = [s \in StratumNames |-> IF s \in strata THEN found[s] ELSE Missing]
    /\ snapshots = {} /\ store = <<>> /\ ids = 0 /\ sec = 0
    /\ exposed = [a \in {pm[s] : s \in strata} |->
                     Row(CHOOSE s \in strata : a = pm[s], a, "pm")]
    /\ shims = [a \in DOMAIN exposed |-> Shim(exposed[a])]
    /\ desktop = {} /\ services = {}
    /\ providers = [c \in Components |-> None] /\ history = <<>>
    /\ job = <<>> /\ rc = 0 /\ cmd = <<"none">> /\ snap = 0 /\ bad = FALSE
    /\ seen = Missing
    /\ withdrawn = {} /\ torn = {} /\ stray = {} /\ reused = {} /\ stuck = Missing
    /\ unsafe = {} /\ doomed = {}
    /\ chosen = [c \in Components |-> <<>>]

Library ==
    \/ Bootstrap \/ Keyring \/ Snapshot \/ Rollback \/ Destroy
    \/ Pkg \/ InstallExact
    \/ Expose \/ ExposeAll \/ Unexpose \/ ExposeDesktop \/ Service
    \/ ProviderSet \/ ProviderRollback
Steps ==
    \/ Open \/ Ensure \/ Run \/ Adopt \/ Disown \/ Retire \/ Disable
    \/ LockWrite \/ LockApply \/ ApplyStratum \/ Compare \/ Verify \/ Settle
    \/ ConfigApply \/ DeclareStratum \/ Want \/ Part \/ Unknown \/ Unlist
Next ==
    \/ \E c \in menu.commands : Start(c)
    \/ \E f \in menu.configs : Edit(f)
    \/ Crash
    \/ Library
    \/ Steps

Spec == Init /\ [][Next]_vars

-----------------------------------------------------------------------------
\* The command of cmd has ended.
Done == job = <<>>

\* A recorded snapshot holds the tree it was taken of, however many later
\* commands, failures and crashes there were (salt_stratum_snapshot_create).
\* The two ways the code itself breaks this are named: a copy made at the path
\* of an earlier one (the path has a resolution of one second) and a removal
\* of the stratum that was not carried through.
SnapshotsFaithful ==
    \A r \in snapshots : r.stratum \notin doomed /\ r.path \notin reused =>
        r.path \in DOMAIN store /\ store[r.path] = r.was

\* A registered stratum whose tree is lost or broken can be brought back: some
\* recorded snapshot of it is a complete tree.  This is what the safety
\* snapshots before every package operation are for, and it does not hold when
\* the operation went ahead after the snapshot failed with a warning, or when
\* what salt run started broke the tree, since no snapshot is taken of it.
Recoverable ==
    \A s \in strata \ (doomed \cup unsafe) :
        \/ tree[s] \in Content
        \/ \E r \in Rows(s) : r.path \in DOMAIN store /\ store[r.path] \in Content
        \/ \E r \in Rows(s) : r.path \in reused

\* A rollback that reports success has put back what the snapshot of the given
\* id, or the newest, was taken of (salt_stratum_rollback).  Of a snapshot that
\* SnapshotsFaithful leaves out it has put back what the snapshot holds now.
\* The one other outcome is that the live tree could not be removed, which the
\* code does not check: on Btrfs the stratum then has the tree it had before,
\* elsewhere the snapshot's files mixed with those left over; it never has a
\* complete tree that is neither the snapshot's nor the one before.
RollbackExact ==
    Done /\ cmd[1] = "rollback" /\ rc = 0 =>
        \A r \in Rows(cmd[2]) :
            (IF cmd[3] > 0 THEN r.id = cmd[3] ELSE \A q \in Rows(cmd[2]) : q.id <= r.id)
            => \/ tree[cmd[2]] = IF r.path \in reused \/ cmd[2] \in doomed
                                 THEN store[r.path] ELSE r.was
               \/ stuck # Missing /\ tree[cmd[2]] = IF use_btrfs THEN stuck ELSE Partial

\* salt lock apply exits 0 only when every stratum of the lock has exactly the
\* pinned builds, also when a manager served other bytes under a version.
ApplyExact ==
    Done /\ cmd[1] = "apply" /\ rc = 0 =>
        \A s \in DOMAIN lock.pins : s \in strata /\ tree[s] = lock.pins[s]

\* When apply_stratum fails after its safety snapshot, the stratum is as it was
\* or visibly lost: it is left as a working userspace halfway to the lock only
\* if the rollback could not clear that userspace away.
ApplyRestores ==
    Done /\ cmd[1] = "apply" /\ bad =>
        \A r \in snapshots : r.id = snap /\ r.path \notin reused /\ r.stratum \notin doomed =>
            tree[r.stratum] \in {r.was, Missing, EmptyTree, Partial, stuck}

\* "An exposed command is always traceable back to the stratum that provides
\* it" (docs/strata.md): a shim runs what its row says and there is none
\* without a row, except for aliases whose two writes were separated by a
\* failure; and no row outlives its stratum, unless the stratum's removal
\* stopped midway.
ShimsTraceable ==
    /\ \A a \in DOMAIN shims \ torn : a \in DOMAIN exposed /\ shims[a] = Shim(exposed[a])
    /\ \A a \in DOMAIN exposed : /\ a \in DOMAIN shims \cup torn
                                /\ exposed[a].s \in strata \cup doomed

\* What salt remove took out of a stratum is no longer offered on the host:
\* no alias, menu entry or service of it is left but those whose own deletion
\* failed, which the code does not check.
RemoveUnexposes ==
    Done /\ cmd[1] = "remove" /\ rc = 0 =>
        LET s == cmd[2]  t == tree[cmd[2]] IN
        /\ \A a \in DOMAIN exposed \ torn : exposed[a].s = s =>
              exposed[a].c \notin scan_bins(s, seen) \ scan_bins(s, t)
        /\ \A app \in scan_desktops(seen) \ scan_desktops(t) :
              <<s, app>> \in desktop => <<"entry", s, app>> \in stray
        /\ \A u \in scan_services(seen) \ scan_services(t) :
              <<s, u>> \in services => <<"service", s, u>> \in stray

\* expose_all "must not clobber" an alias: the refresh that follows salt run,
\* salt pm and salt expose-all leaves every recorded alias and its shim alone,
\* above all the package managers'.
FirstExposedWins ==
    [][cmd[1] \in {"run", "pm", "expose-all"} /\ cmd' = cmd =>
         \A a \in DOMAIN exposed :
            /\ a \in DOMAIN exposed' /\ exposed'[a] = exposed[a]
            /\ (a \in DOMAIN shims') <=> (a \in DOMAIN shims)
            /\ a \in DOMAIN shims => shims'[a] = shims[a]]_vars

\* salt provider rollback restores the provider in effect before the current
\* one, and a second rollback undoes the first, unless some choice stopped
\* between its history entry and its row.
ProviderRollbackExact ==
    Done /\ cmd[1] = "provider-rollback" /\ rc = 0 =>
        LET c == cmd[2]  n == Len(chosen[cmd[2]]) IN
        Cardinality(Entries(c)) = n =>
            n >= 3 /\ chosen[c][n] = chosen[c][n - 2] /\ providers[c].p = chosen[c][n]

\* After a successful salt config apply the exposures are the declared ones:
\* every declared alias has its shim, its row and its menu entry, and no other
\* alias is marked as the config's.  An alias that is also the command of
\* another declared menu entry may have that entry's row instead, since
\* salt_expose_desktop writes it too; a menu entry may have been withdrawn with
\* an old alias of the same command; an old alias may be left whose deletion
\* failed.
ConfigExposed ==
    Done /\ cmd[1] = "config" /\ rc = 0 =>
        LET rows(e) == {Row(e.s, e.c, "config")} \cup
                       {Row(d.s, d.c, "cli") :
                          d \in {x \in config.expose \ {e} : x.desktop /\ x.c = e.alias}} IN
        /\ \A e \in config.expose :
              /\ \E row \in rows(e) : RowOf(e.alias) = {row}
              /\ e.alias \in DOMAIN shims
              /\ e.desktop => <<e.s, e.c>> \in desktop \cup withdrawn
        /\ \A a \in DOMAIN exposed \ torn : exposed[a].kind = "config" =>
              \E e \in config.expose : e.alias = a
=============================================================================
