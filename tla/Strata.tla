------------------------------- MODULE Strata -------------------------------
(***************************************************************************)
(* The strata: foreign userspaces under /strata, their snapshots, and what *)
(* they put on the host (shims, menu entries, services, provider choices). *)
(* This module holds the library operations of halite/src/stratum.c and    *)
(* run.c; StrataCli strings them together into the commands of the salt    *)
(* program.                                                                *)
(*                                                                         *)
(* A command is the sequence `job` of the operations it still has to do.   *)
(* Each operation is one action, with one disjunct per way it can end; it  *)
(* takes itself off the head of the job and may put others in its place.   *)
(* A crash drops the job.  Operations made of several writes have a        *)
(* disjunct for every write they may stop after.                           *)
(***************************************************************************)
EXTENDS Naturals, Sequences, FiniteSets, Functions

CONSTANTS
    StratumNames, Packages,
    builds,         \* package -> builds (version and content digest) of it
    version,        \* build -> version
    provides,       \* package -> commands it installs
    apps,           \* package -> menu entries it installs, named by command
    units,          \* package -> services it installs
    pm,             \* stratum -> its package manager's command
    HostCommands,   \* commands in the host's own bin directories
    Components,     \* what salt provider chooses a provider for
    Absent, None,
    Missing,        \* no directory at the stratum's root
    EmptyTree,      \* an empty directory
    Partial,        \* files that are no complete userspace, or a mixture of two
    MaxSnap         \* bound on snapshot ids

ASSUME CommandsAssumption == IsFiniteSet(UNION {provides[p] : p \in Packages})

VARIABLES
    use_btrfs,  \* /strata is on Btrfs
    strata,     \* table strata: registered names
    tree,       \* stratum -> what its root directory holds
    snapshots,  \* table stratum_snapshots; `was` is the tree it was taken of
    store,      \* .snapshots: <<stratum, label, second>> -> what it holds
    ids,        \* snapshot ids given out (AUTOINCREMENT)
    sec,        \* the clock, in seconds
    menu,       \* what this behaviour is made of (StrataCli)
    left,       \* bound: commands and edits still to come
    exposed,    \* table exposed: alias -> row
    shims,      \* usr/local/salt/shims: alias -> what the script runs
    desktop,    \* usr/local/share/applications: <<stratum, app>>
    services,   \* etc/sv and var/service: <<stratum, unit>>
    providers,  \* table providers: component -> row or None
    history,    \* table provider_history, in id order
    lock,       \* system.lock.toml, or None
    config,     \* system.lua
    job, rc,    \* operations left of the running command, its exit status
    cmd,        \* the running or last command; <<"crashed">> after a power loss
    snap,       \* id of the snapshot the command took last, 0 if it has none
    bad,        \* apply_stratum's own status
    seen,       \* the tree before the package manager ran
    \* history variables, about what the code does not record
    withdrawn,  \* menu entries config_apply took back in this command
    torn,       \* aliases whose shim and row were not written, or removed, together
    stray,      \* menu entries and services whose removal failed
    reused,     \* snapshot paths written a second time
    stuck,      \* the tree the last rollback of this command could not clear away
    unsafe,     \* strata changed with no safety snapshot taken
    doomed,     \* strata that were removed in part
    chosen      \* component -> providers in effect over time

treeVars == <<use_btrfs, strata, tree, snapshots, store, ids, unsafe, reused, doomed>>
hostVars == <<exposed, shims, torn>>
menuVars == <<desktop, services, stray>>
provVars == <<providers, history, chosen>>
fileVars == <<lock, config>>
bounds   == <<sec, menu, left>>
runVars  == <<cmd, withdrawn, stuck, bounds>>
vars == <<treeVars, hostVars, menuVars, provVars, fileVars, runVars,
          job, rc, snap, bad, seen>>

Content == {c \in [Packages -> UNION {builds[p] : p \in Packages} \cup {Absent}] :
              \A p \in Packages : c[p] \in builds[p] \cup {Absent}}
Base == [p \in Packages |-> Absent]
Installed(c) == {p \in Packages : c[p] # Absent}

\* scan_bins, scan_desktops and scan_services of the tree t of s.
scan_bins(s, t) ==
    IF t \in Content THEN {pm[s]} \cup UNION {provides[p] : p \in Installed(t)}
                     ELSE {}
scan_desktops(t) ==
    IF t \in Content THEN UNION {apps[p] : p \in Installed(t)} ELSE {}
scan_services(t) ==
    IF t \in Content THEN UNION {units[p] : p \in Installed(t)} ELSE {}

-----------------------------------------------------------------------------
(***************************************************************************)
(* The job.                                                                *)
(***************************************************************************)
Doing(op) == job # <<>> /\ job[1][1] = op
Arg(i) == job[1][i]

\* The points a failed operation resumes at: the next stratum of a loop, the
\* clean-up of apply_stratum, the next part of config_apply.
Marks == {"apply_stratum", "declare", "settle", "part"}
Resume ==
    LET at == {i \in 2..Len(job) : job[i][1] \in Marks}
    IN IF at = {} THEN <<>>
       ELSE SubSeq(job, CHOOSE i \in at : \A j \in at : i <= j, Len(job))

Go == job' = Tail(job) /\ UNCHANGED <<rc, bad>>
Then(ops) == job' = ops \o Tail(job) /\ UNCHANGED <<rc, bad>>
Fail == job' = Resume /\ rc' = 1 /\ bad' = TRUE
\* An error that is reported and passed over; it is config_apply's status.
Note(config_step) == job' = Tail(job) /\ rc' = (IF config_step THEN 1 ELSE rc)
                     /\ UNCHANGED bad

\* Power loss, or the process is killed: what it had in memory is gone.
Dead == /\ job' = <<>> /\ cmd' = <<"crashed">> /\ rc' = 0 /\ snap' = 0
        /\ bad' = FALSE /\ seen' = Missing /\ withdrawn' = {}

\* The members of a finite set, and a step for each of them, in some order.
Listing(S) == CHOOSE f \in Bijection(1..Cardinality(S), S) : TRUE
Each(S, Op(_)) == [i \in 1..Cardinality(S) |-> Op(Listing(S)[i])]

-----------------------------------------------------------------------------
(***************************************************************************)
(* Bootstrap, snapshots, rollback and removal (stratum.c).                 *)
(***************************************************************************)
\* salt_stratum_bootstrap, after the confirmation of its callers.
Bootstrap ==
    /\ Doing("bootstrap")
    /\ LET s == Arg(2) IN
       \/ \* declined, no recipe, or something is at the target
          /\ Fail /\ UNCHANGED <<tree, strata>>
       \/ \* download, checksum, extraction or registration failed
          /\ tree[s] \in {Missing, EmptyTree}
          /\ \E t \in {EmptyTree, Partial, Base} : tree' = [tree EXCEPT ![s] = t]
          /\ Fail /\ UNCHANGED strata
       \/ /\ tree[s] \in {Missing, EmptyTree}
          /\ tree' = [tree EXCEPT ![s] = Base]
          /\ strata' = strata \cup {s}
          /\ Then(<<<<"snapshot", s, "bootstrap">>, <<"keyring", s>>>>)
    /\ UNCHANGED <<use_btrfs, snapshots, store, ids, unsafe, reused, doomed, hostVars,
                   menuVars, provVars, fileVars, runVars, snap, seen>>

\* init_pacman_keyring and ensure_ca_certificates run the new stratum's
\* package manager; their results are ignored.
Keyring ==
    /\ Doing("keyring")
    /\ \E t \in {tree[Arg(2)], Partial} :
          /\ tree' = [tree EXCEPT ![Arg(2)] = t]
          /\ unsafe' = IF t = Partial /\ snap = 0 THEN unsafe \cup {Arg(2)} ELSE unsafe
    /\ Go
    /\ UNCHANGED <<use_btrfs, strata, snapshots, store, ids, reused, doomed, hostVars,
                   menuVars, provVars, fileVars, runVars, snap, seen>>

\* Mutant: the tree is copied into a directory below the snapshot's path.
OverlayNested(path, t) == Partial

\* What is at a snapshot's path once tree t was copied over it.
Overlay(path, t) ==
    IF path \in DOMAIN store /\ store[path] \notin {EmptyTree, t} THEN Partial ELSE t

\* Mutant: a snapshot's path has no timestamp.
PutOver(f, x, v) == [y \in DOMAIN f \cup {x} |-> v]
Put(f, x, v) == [y \in DOMAIN f \cup {x} |-> IF y = x THEN v ELSE f[y]]

\* salt_stratum_snapshot_create.  Its callers print a warning when it fails.
Snapshot ==
    /\ Doing("snapshot")
    /\ LET s == Arg(2)
           path == <<s, Arg(3), sec>>
           twice == path \in DOMAIN store
       IN \/ \* unknown stratum, the copy could not start, or btrfs refused
             /\ snap' = 0 /\ UNCHANGED <<snapshots, store, ids, reused, unsafe>>
          \/ /\ s \in strata /\ tree[s] # Missing /\ (use_btrfs => ~twice)
             /\ reused' = IF twice THEN reused \cup {path} ELSE reused
             /\ \/ \* the copy stopped on the way
                   /\ ~use_btrfs /\ store' = Put(store, path, Partial)
                   /\ snap' = 0 /\ UNCHANGED <<snapshots, ids, unsafe>>
                \/ /\ store' = Put(store, path, Overlay(path, tree[s]))
                   /\ \/ snap' = 0 /\ UNCHANGED <<snapshots, ids, unsafe>>
                      \/ /\ ids < MaxSnap /\ ids' = ids + 1 /\ snap' = ids + 1
                         /\ unsafe' = IF tree[s] \in Content THEN unsafe \ {s} ELSE unsafe
                         /\ snapshots' = snapshots \cup
                              {[id |-> ids + 1, stratum |-> s, path |-> path, was |-> tree[s]]}
    /\ Go
    /\ UNCHANGED <<use_btrfs, strata, tree, doomed, hostVars, menuVars,
                   provVars, fileVars, runVars, seen>>

Rows(s) == {r \in snapshots : r.stratum = s}
\* Mutant: the rows are read in ascending order.
Oldest(R) == {r \in R : \A q \in R : r.id <= q.id}
Newest(R) == {r \in R : \A q \in R : q.id <= r.id}
Chosen(s, id) == IF id > 0 THEN {r \in Rows(s) : r.id = id} ELSE Newest(Rows(s))

\* salt_stratum_rollback: on Btrfs a snapshot of the live tree that no table
\* records; then the live tree is removed; then the chosen snapshot is copied
\* to its place.  Only the copy is checked.  What the removal left behind is
\* mixed with the copy or, on Btrfs, keeps its place, with the copy inside it.
Rollback ==
    /\ Doing("rollback")
    /\ LET s == Arg(2) IN
       \/ /\ s \notin strata \/ Chosen(s, Arg(3)) = {}
          /\ Fail /\ UNCHANGED <<tree, store, stuck, cmd, withdrawn, snap, seen>>
       \/ /\ s \in strata
          /\ \E r \in Chosen(s, Arg(3)) :
             LET safe == <<s, "prerollback", sec>>
                 cleared == IF use_btrfs THEN Missing ELSE EmptyTree
             IN
             /\ \/ UNCHANGED store
                \/ /\ use_btrfs /\ safe \notin DOMAIN store /\ tree[s] # Missing
                   /\ store' = Put(store, safe, tree[s])
             /\ stuck' \in {Missing, tree[s]}
             /\ \/ /\ r.path \in DOMAIN store
                   /\ tree' = [tree EXCEPT ![s] =
                                 IF stuck' \in {Missing, EmptyTree, store[r.path]}
                                 THEN store[r.path]
                                 ELSE IF use_btrfs THEN stuck' ELSE Partial]
                   /\ Go /\ UNCHANGED <<cmd, withdrawn, snap, seen>>
                \/ \* the copy failed, or the process died
                   /\ \E t \in (IF stuck' = Missing THEN {cleared} ELSE {stuck'})
                               \cup (IF use_btrfs THEN {} ELSE {Partial}) :
                        tree' = [tree EXCEPT ![s] = t]
                   /\ \/ Fail /\ UNCHANGED <<cmd, withdrawn, snap, seen>>
                      \/ Dead
    /\ UNCHANGED <<use_btrfs, strata, snapshots, ids, unsafe, reused, doomed, hostVars,
                   menuVars, provVars, fileVars, bounds>>

\* salt_stratum_destroy: six deletions in a row, none checked: the tree, the
\* snapshots, the shims and the rows of strata, stratum_snapshots and exposed.
\* Any of them may fail and the others are still carried out; the process may
\* die after n of them.  A directory whose deletion failed may have lost files.
Destroy ==
    /\ Doing("destroy")
    /\ LET s == Arg(2) IN
       IF s \notin strata
       THEN /\ Fail
            /\ UNCHANGED <<tree, strata, snapshots, store, unsafe, doomed, hostVars, cmd,
                           withdrawn, snap, seen>>
       ELSE \E n \in 0..6 : \E did \in SUBSET (1..n) :
            /\ \E t \in IF 1 \in did \/ tree[s] = Missing THEN {Missing}
                                                        ELSE {tree[s], Partial} :
                  tree' = [tree EXCEPT ![s] = t]
            /\ \E hurt \in SUBSET {p \in DOMAIN store : p[1] = s /\ n >= 1} :
                  store' = [p \in {q \in DOMAIN store : 2 \in did => q[1] # s} |->
                              IF p \in hurt THEN Partial ELSE store[p]]
            /\ LET mine == {a \in DOMAIN exposed : exposed[a].s = s} IN
               /\ shims' = IF 3 \in did THEN Restrict(shims, DOMAIN shims \ mine) ELSE shims
               /\ exposed' = IF 6 \in did THEN Restrict(exposed, DOMAIN exposed \ mine)
                             ELSE exposed
               /\ torn' = IF {3, 6} \subseteq did THEN torn \ mine
                          ELSE IF did \cap {3, 6} = {} THEN torn ELSE torn \cup mine
            /\ strata' = IF 4 \in did THEN strata \ {s} ELSE strata
            /\ snapshots' = IF 5 \in did THEN snapshots \ Rows(s) ELSE snapshots
            /\ unsafe' = IF did = 1..6 THEN unsafe \ {s} ELSE unsafe
            /\ doomed' = IF did = 1..6 THEN doomed \ {s} ELSE doomed \cup {s}
            /\ IF n = 6 THEN Go /\ UNCHANGED <<cmd, withdrawn, snap, seen>> ELSE Dead
    /\ UNCHANGED <<use_btrfs, ids, reused, stuck, menuVars, provVars, fileVars, bounds>>

-----------------------------------------------------------------------------
(***************************************************************************)
(* The stratum's own package manager (run.c; the managers are external).   *)
(***************************************************************************)
\* Trees the manager may leave from c when asked for op on the packages P:
\* dependencies come along on an install, dependents go on a removal.
Managed(op, c, P) ==
    {d \in Content :
       CASE op = "install" -> /\ \A p \in P : d[p] # Absent
                              /\ \A p \in Packages \ P : c[p] \in {d[p], Absent}
         [] op = "remove"  -> /\ \A p \in P : d[p] = Absent
                              /\ \A p \in Packages \ P : d[p] \in {c[p], Absent}
         [] op = "update"  -> \A p \in Packages : (c[p] = Absent) <=> (d[p] = Absent)
         [] op = "query"   -> d = c}

\* salt_stratum_pkg: the exit status is the manager's.
Pkg ==
    /\ Doing("pkg")
    /\ LET s == Arg(2)  op == Arg(3)  P == Arg(4)  c == tree[s] IN
       /\ seen' = c
       /\ unsafe' = IF snap = 0 /\ op # "query" THEN unsafe \cup {s} ELSE unsafe
       /\ \/ c \in Content /\ Go
             /\ \E d \in Managed(op, c, P) : tree' = [tree EXCEPT ![s] = d]
          \/ Fail
             /\ \E d \in IF c \in Content /\ op # "query"
                         THEN {c, Partial} \cup UNION {Managed(op, c, Q) : Q \in SUBSET P}
                         ELSE {c} : tree' = [tree EXCEPT ![s] = d]
    /\ UNCHANGED <<use_btrfs, strata, snapshots, store, ids, reused, doomed, hostVars,
                   menuVars, provVars, fileVars, runVars, snap>>

\* salt_stratum_pkg_install_exact: the manager is given versions, not digests.
Exact(c, want) ==
    {d \in Content : \A p \in Packages :
        IF p \in DOMAIN want THEN d[p] # Absent /\ version[d[p]] = version[want[p]]
                             ELSE c[p] \in {d[p], Absent}}
InstallExact ==
    /\ Doing("exact")
    /\ LET s == Arg(2)  want == Arg(3)  c == tree[s] IN
       /\ unsafe' = IF snap = 0 THEN unsafe \cup {s} ELSE unsafe
       /\ \/ c \in Content /\ Go
             /\ \E d \in Exact(c, want) : tree' = [tree EXCEPT ![s] = d]
          \/ Fail
             /\ \E d \in IF c \in Content THEN {c, Partial} \cup Exact(c, want) ELSE {c} :
                   tree' = [tree EXCEPT ![s] = d]
    /\ UNCHANGED <<use_btrfs, strata, snapshots, store, ids, reused, doomed, hostVars,
                   menuVars, provVars, fileVars, runVars, snap, seen>>

\* The manager's listing, names with versions; then the build of each, told by
\* the content digest the manager keeps.
pkg_query(s) ==
    IF s \in strata /\ tree[s] \in Content
    THEN {[p \in Installed(tree[s]) |-> version[tree[s][p]]]} ELSE {}
pkg_digests(s, listing) ==
    [p \in Packages |-> IF p \in DOMAIN listing THEN tree[s][p] ELSE Absent]
query_stratum(s) == {pkg_digests(s, listing) : listing \in pkg_query(s)}

-----------------------------------------------------------------------------
(***************************************************************************)
(* Host integration: shims, menu entries, services (stratum.c).            *)
(***************************************************************************)
Row(s, c, kind) == [s |-> s, c |-> c, kind |-> kind]
\* The script salt_expose_add (salt run) or salt_expose_pm (salt pm) writes.
Shim(row) == [s |-> row.s, c |-> row.c, via |-> IF row.kind = "pm" THEN "pm" ELSE "run"]

\* salt_expose_add and salt_expose_pm: the shim, then its row.
Expose ==
    /\ Doing("expose")
    /\ LET row == Row(Arg(2), Arg(3), Arg(5))  a == Arg(4) IN
       \/ \* unknown stratum, or the shim could not be written
          Note(row.kind = "config") /\ UNCHANGED hostVars
       \/ /\ row.s \in strata
          /\ shims' = Put(shims, a, Shim(row))
          /\ \/ exposed' = Put(exposed, a, row) /\ torn' = torn \ {a} /\ Go
             \/ torn' = torn \cup {a} /\ Note(row.kind = "config") /\ UNCHANGED exposed
    /\ UNCHANGED <<treeVars, menuVars, provVars, fileVars, runVars, snap, seen>>

\* Mutant: names already exposed are not left alone.
ExposeAllClobbers ==
    /\ Doing("expose_all")
    /\ LET s == Arg(2)
           new == {b \in scan_bins(s, tree[s]) : b \notin HostCommands}
       IN Then(IF s \in strata THEN Each(new, LAMBDA b : <<"expose", s, b, b, "cli">>)
                               ELSE <<>>)
    /\ UNCHANGED <<treeVars, hostVars, menuVars, provVars, fileVars, runVars, snap, seen>>

\* salt_expose_all: commands of the host and names already exposed are left.
ExposeAll ==
    /\ Doing("expose_all")
    /\ LET s == Arg(2)
           new == {b \in scan_bins(s, tree[s]) : b \notin HostCommands \cup DOMAIN exposed}
       IN Then(IF s \in strata THEN Each(new, LAMBDA b : <<"expose", s, b, b, "cli">>)
                               ELSE <<>>)
    /\ UNCHANGED <<treeVars, hostVars, menuVars, provVars, fileVars, runVars, snap, seen>>

\* Mutant: the script is left on the path.
UnexposeRow ==
    /\ Doing("unexpose")
    /\ IF Arg(2) \notin DOMAIN exposed THEN Note(Arg(3)) /\ UNCHANGED hostVars
       ELSE /\ exposed' = Restrict(exposed, DOMAIN exposed \ {Arg(2)})
            /\ Go /\ UNCHANGED <<shims, torn>>
    /\ UNCHANGED <<treeVars, menuVars, provVars, fileVars, runVars, snap, seen>>

\* salt_expose_remove: the shim, then the row; neither deletion is checked.
Unexpose ==
    /\ Doing("unexpose")
    /\ LET a == Arg(2) IN
       IF a \notin DOMAIN exposed THEN Note(Arg(3)) /\ UNCHANGED hostVars
       ELSE /\ Go
            /\ \E shim, row \in BOOLEAN :
               /\ shims' = IF shim THEN Restrict(shims, DOMAIN shims \ {a}) ELSE shims
               /\ exposed' = IF row THEN Restrict(exposed, DOMAIN exposed \ {a}) ELSE exposed
               /\ torn' = IF shim /\ row THEN torn \ {a} ELSE torn \cup {a}
    /\ UNCHANGED <<treeVars, menuVars, provVars, fileVars, runVars, snap, seen>>

\* salt_expose_desktop: the entry, then a shim named after the application,
\* whose result is ignored; Arg(4) is what the caller does when it succeeds.
ExposeDesktop ==
    /\ Doing("desktop")
    /\ LET s == Arg(2)  app == Arg(3) IN
       \/ Note(Arg(4) # <<>>) /\ UNCHANGED <<desktop, stray>>
       \/ /\ app \in scan_desktops(tree[s])
          /\ desktop' = desktop \cup {<<s, app>>} /\ stray' = stray \ {<<"entry", s, app>>}
          /\ Then(<<<<"expose", s, app, app, "cli">>>> \o Arg(4))
    /\ UNCHANGED <<treeVars, hostVars, services, provVars, fileVars, runVars, snap, seen>>

\* import_and_enable_service, and salt service import and enable.
Service ==
    /\ Doing("service")
    /\ Go
    /\ \/ UNCHANGED <<services, stray>>
       \/ /\ services' = services \cup {<<Arg(2), Arg(3)>>}
          /\ stray' = stray \ {<<"service", Arg(2), Arg(3)>>}
    /\ UNCHANGED <<treeVars, hostVars, desktop, provVars, fileVars, runVars, snap, seen>>

-----------------------------------------------------------------------------
(***************************************************************************)
(* Providers (stratum.c).                                                  *)
(***************************************************************************)
Entries(c) == {i \in DOMAIN history : history[i].c = c}
Latest(S) == IF S = {} THEN 0 ELSE CHOOSE i \in S : \A j \in S : j <= i

\* Mutant: the row names its own history entry.
ProviderSetOwn ==
    /\ Doing("provider_set")
    /\ LET c == Arg(2)  p == Arg(3) IN
       /\ history' = Append(history, [c |-> c, p |-> p])
       /\ providers' = [providers EXCEPT ![c] = [p |-> p, target |-> Len(history')]]
       /\ chosen' = [chosen EXCEPT ![c] = Append(@, p)]
    /\ Go
    /\ UNCHANGED <<treeVars, hostVars, menuVars, fileVars, runVars, snap, seen>>

\* salt_provider_set: the history entry, then the row that names the entry
\* before it.
ProviderSet ==
    /\ Doing("provider_set")
    /\ LET c == Arg(2)  p == Arg(3) IN
       /\ history' = Append(history, [c |-> c, p |-> p])
       /\ \/ /\ providers' = [providers EXCEPT ![c] = [p |-> p, target |-> Latest(Entries(c))]]
             /\ chosen' = [chosen EXCEPT ![c] = Append(@, p)]
             /\ Go
          \/ Fail /\ UNCHANGED <<providers, chosen>>
    /\ UNCHANGED <<treeVars, hostVars, menuVars, fileVars, runVars, snap, seen>>

\* salt_provider_rollback: the entry before becomes the choice, by the same
\* two writes.
ProviderRollback ==
    /\ Doing("provider_rollback")
    /\ LET c == Arg(2) IN
       IF providers[c] = None \/ providers[c].target = 0 THEN Fail
       ELSE Then(<<<<"provider_set", c, history[providers[c].target].p>>>>)
    /\ UNCHANGED <<treeVars, hostVars, menuVars, provVars, fileVars, runVars, snap, seen>>
=============================================================================
