------------------------------- MODULE Grains -------------------------------
(***************************************************************************)
(* The data every module of the native package plane shares: grains (the   *)
(* package archives), the managed root filesystem, the package database,   *)
(* and the two checks native_transaction makes of a plan before it starts. *)
(*                                                                         *)
(* A file's content is abstracted to where it came from: the grain that    *)
(* installed it, or Local for a file no package put there.  None stands    *)
(* for "no file", "no backup" and "not installed".                         *)
(***************************************************************************)
EXTENDS Naturals, Sequences

CONSTANTS
    Pkgs,       \* package names
    Grains,     \* archives: one version of one package each
    Paths,      \* the paths of files and symlinks (directories are left out)
    Local,      \* content of a file that no package installed
    None,       \* no file, no backup, not installed
    name,       \* salt_pkg_meta.name of a grain
    manifest,   \* the non-directory paths of a grain's manifest
    deps,       \* salt_pkg_meta.deps of a grain
    conflicts,  \* salt_pkg_meta.conflicts of a grain
    Requests    \* the plans native_transaction is called with

ASSUME GrainsAssumption ==
    /\ None \notin Grains
    /\ Local \notin Grains
    /\ None # Local
    /\ name \in [Grains -> Pkgs]
    /\ manifest \in [Grains -> SUBSET Paths]
    /\ deps \in [Grains -> SUBSET Pkgs]
    /\ conflicts \in [Grains -> SUBSET Pkgs]

-----------------------------------------------------------------------------
\* What lstat() and the file's bytes show at each path under ctx->root.
Roots == [Paths -> Grains \cup {Local, None}]

\* The tables packages, files, deps and conflicts: the rows of a package are
\* those of the grain it was installed from.
Dbs == [Pkgs -> Grains \cup {None}]

\* salt_db_pkg_manifest: the files recorded for package q.
FilesOf(d, q) == IF d[q] = None THEN {} ELSE manifest[d[q]]

\* The packages salt_db_owner can answer for path p (it reads one row).
Owners(d, p) == {q \in Pkgs : p \in FilesOf(d, q)}

\* salt_db_revdeps: the installed packages that depend on n.
Revdeps(d, n) == {q \in Pkgs : d[q] # None /\ n \in deps[d[q]]}

\* salt_db_conflicts_with: the installed packages that conflict with n.
ConflictsWith(d, n) == {q \in Pkgs : d[q] # None /\ n \in conflicts[d[q]]}

\* salt_txn_revert_files on a root: unlink every path of added.list, then
\* copy every file of the backup tree back.
Reverted(r, backup, added) ==
    [p \in Paths |-> IF backup[p] # None THEN backup[p]
                     ELSE IF p \in added THEN None ELSE r[p]]

NoBackup == [p \in Paths |-> None]

-----------------------------------------------------------------------------
(* NativePlan: packages to remove, then grains to install, each in order.  *)
(* resolve, order_by_deps and native_remove never list a package twice.    *)

Plans == {pl \in [remove : Seq(Pkgs), install : Seq(Grains)] :
            /\ \A i, j \in 1..Len(pl.remove) :
                  i # j => pl.remove[i] # pl.remove[j]
            /\ \A i, j \in 1..Len(pl.install) :
                  i # j => name[pl.install[i]] # name[pl.install[j]]}

ASSUME RequestsAssumption == Requests \subseteq Plans

Gone(pl) == {pl.remove[i] : i \in 1..Len(pl.remove)}
Items(pl) == {pl.install[i] : i \in 1..Len(pl.install)}
Arriving(pl) == {name[g] : g \in Items(pl)}

\* Mutant: conflicts that only the installed package declares are missed.
check_conflicts_OneWay(d, pl) ==
    \A g \in Items(pl) : \A c \in conflicts[g] \ {name[g]} :
        c \notin Arriving(pl) /\ (d[c] # None => c \in Gone(pl) \cup Arriving(pl))

\* check_conflicts: nothing that arrives conflicts with something else that
\* arrives, or (in either direction) with something installed that stays.
check_conflicts(d, pl) ==
    LET leaving == Gone(pl) \cup Arriving(pl) IN
    \A g \in Items(pl) :
        /\ \A c \in conflicts[g] \ {name[g]} :
              c \notin Arriving(pl) /\ (d[c] # None => c \in leaving)
        /\ ConflictsWith(d, name[g]) \subseteq leaving \cup {name[g]}

\* check_dangling: whatever needs a removed package goes or is reinstalled.
check_dangling(d, pl) ==
    \A n \in Gone(pl) \ Arriving(pl) :
        Revdeps(d, n) \subseteq (Gone(pl) \cup Arriving(pl))

\* The guards of native_transaction up to the point where it writes.
Accepted(d, pl) ==
    /\ pl.remove # <<>> \/ pl.install # <<>>
    /\ check_conflicts(d, pl)
    /\ check_dangling(d, pl)

-----------------------------------------------------------------------------
(* What a plan means, independently of how it is carried out.              *)

\* The database after the plan.
PlanDb(d, pl) ==
    [q \in Pkgs |-> IF \E g \in Items(pl) : name[g] = q
                    THEN CHOOSE g \in Items(pl) : name[g] = q
                    ELSE IF q \in Gone(pl) THEN None ELSE d[q]]

\* The root after the plan: files of the installed grains are in place, other
\* files of the packages the plan touches are gone, the rest is untouched.
PlanRoot(r, d, pl) ==
    [p \in Paths |->
        IF \E g \in Items(pl) : p \in manifest[g]
        THEN CHOOSE g \in Items(pl) : p \in manifest[g]
        ELSE IF \E q \in Gone(pl) \cup Arriving(pl) : p \in FilesOf(d, q)
        THEN None
        ELSE r[p]]

\* No path is recorded for two packages.
OneOwner(d) ==
    \A p \in Paths : \A q1, q2 \in Owners(d, p) : q1 = q2

\* Every recorded file is on disk with the content of the recorded grain.
FilesInPlace(r, d) ==
    \A q \in Pkgs : \A p \in FilesOf(d, q) : r[p] = d[q]

\* No two installed packages conflict.
NoConflicts(d) ==
    \A q \in Pkgs : d[q] # None =>
        \A c \in conflicts[d[q]] \ {q} : d[c] = None

=============================================================================
