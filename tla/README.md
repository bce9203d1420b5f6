# A verification of saltOS

TLA+ models of saltOS: the transactions of the native package plane, the
deployment history with its rollbacks, the kernel trial boot, the strata with
their exposed commands, the namespace holder behind `salt run`, the resolver with
repository sync, lockfiles and declarative configuration, and the installer. TLC
checks them on small instances; TLAPS proves the central results for every
instance. Everything is translated from the source; `PROJECT.json` maps each
definition to its lines.

## 1. The system and its parts

| part | source | state it changes | here |
| --- | --- | --- | --- |
| native transactions | `salt/cmd_install.cpp`, `halite/src/txn.c` | root, database, `state/txn-N` | `Grains`, `NativeTxn`, `AtomicTxn` |
| package database | `halite/src/db.c` (SQLite) | `db.sqlite` | tables in `Grains`, `NativeTxn`, `Deployments` |
| history, rollback, pin, prune, gc | `halite/src/deploy.c`, `gc.c`, `salt/cmd_deploy.cpp` | root, tables, state directories | `Deployments` |
| Btrfs generations | `deploy.c` (`rollback_btrfs`), `txn.c` | subvolumes | one step of `BootTrial` |
| kernel trial on GRUB | `salt/cmd_deploy.cpp`, `os/ota/salt-ota.sh` | `/boot`, `grub.cfg`, environment block | `BootTrial` |
| OTA client | `os/ota/salt-ota.sh` | through `salt` | `confirm` in `BootTrial` |
| resolver, front ends | `salt/cmd_install.cpp` | none (they make plans) | `Resolver`, `Declare` |
| repository sync, index, versions | `cmd_install.cpp`, `halite/src/repo.c` | `index.toml`, `.sig` | `Resolver`, `Declare` |
| lockfiles | `cmd_lock.cpp` | root, tables, strata | `Declare` (native), `StrataCli` (strata) |
| declarative configuration | `cmd_config.cpp` | through all of the above | `Declare`, `StrataCli` |
| strata, expose, providers, services | `halite/src/stratum.c`, `salt/cmd_stratum.cpp` | strata roots, `strata.sqlite`, shims | `Strata`, `StrataCli` |
| running commands in strata | `halite/src/run.c`, `salt/cmd_run.cpp` | processes, `/run/salt/ns`, account files | `Holder`, `StratumRun` |
| installer | `setup/` | disk, target root | `Setup` |
| Pi A/B roots, trust, parsers and encodings, queries, builds, image builders | | | not modelled, see section 5 |

How they interact: a front end resolves a request against the index into a
`NativePlan`; `native_transaction` checks the plan, creates a row in
`transactions`, snapshots, changes files and tables, and commits or reverts.
`deploy_post_txn` then records the deployment, repairs `/boot`, prunes old
snapshots and rewrites the boot loader's files. `salt rollback` undoes rows of the
history, `salt gc` collects them. `salt-ota` drives `update` and, after a boot,
`boot confirm`. Strata are foreign root trees beside the native one, with a
database of their own; their commands reach the host through shims that call
`salt run`, which enters a mount namespace kept alive by a holder process.
`salt lock` and `salt config` drive both planes.

The modules compose the same way. `NativeTxn` shows that a transaction amounts to
one step; `Deployments`, `BootTrial` and `Declare` use it as one. `StrataCli` is
built from the operations of `Strata`, `StratumRun` from those of `Holder`,
`Declare` from those of `Resolver`.

## 2. Modules

### Grains: the data

Grains (archives), packages, paths, the root (content of each path, abstracted
to the grain it came from, `Local` or `None`), the database (the grain each
package was installed from, which determines its rows in `packages`, `files`,
`deps`, `conflicts`). `check_conflicts` and `check_dangling` are the guards of
`native_transaction`. `PlanDb` and `PlanRoot` say what a plan means. Directories
are left out: they are created as needed and never restored or checked.
`Requests` is the set of plans; the resolver produces only plans that list no
package twice (`RequestsAssumption`).

### NativeTxn: one transaction, step by step

| variable | code |
| --- | --- |
| `root`, `db` | files under `ctx->root`, committed tables |
| `view` | tables inside `BEGIN IMMEDIATE` |
| `backup`, `added` | `state/txn-N/backup`, `state/txn-N/added.list` |
| `newAdded` | the buffer `added` of `salt_install_archive` |
| `plan`, `ri`, `ii`, `todo`, `pc` | the plan and the position in the loops |
| `status` | the row's status |
| `pre` | history: root and tables when the row was created |

Each file saved, written, unlinked, restored is one action; `Fail` may follow any
of them (a file conflict, a failing hook, an I/O or SQL error); `Crash` ends the
process between any two. A regular file is renamed into place whole
(`salt_write_file`), so `ExtractFile` is one step; a symlink is unlinked and
recreated, and the state in between is one the journal covers as well. Restore
errors, which `restore_tree` swallows, and side effects of hooks are not modelled.

`AtomicTxn` is the promise: a transaction is one step to `PlanDb`/`PlanRoot`, or
nothing. `NativeTxn` implements it under the mapping `Settled` (until commit, the
root counts as what it was): property `AtomicSpec`.

### Deployments: the history

`txns` is the table `transactions` joined with `txn_meta`, and what each state
directory holds. A transaction is one step here (`NativeTxn` justifies that and
the journal it leaves). Actions: `Transaction` (with the pruning that ends it),
`TransactionFails`, `TransactionDies`, `RegisterCurrent`, `RollbackTo(n)`,
`Rollback` (the default target), two ways for a rollback to fail midway
(`RollbackStops`, `RollbackKeepsDb`), `Pin`, `Gc`. The root has no Btrfs:
`rollback_files` composes journals, which is where things can go wrong; with
Btrfs a snapshot is independent of later ones.

`Spec` covers two kinds of histories, told apart by `plain`: with no pins, no
explicit targets, no dead processes and no rollbacks that fail midway, and with
all of them. `CompletedSpec` has every command, run to completion.

### BootTrial: kernels

`boot`, `owned`, `menu` live in the root subvolume and are exchanged by a
rollback; `env` is on the ESP. After a transaction that touched `/boot` the steps
are `retain_running_kernel`, `drop_stale_kernels`, `grub_update` (grub.cfg, then
the environment block). `GrubBoots` is what the generated `grub.cfg` does by
itself; `ChooseKernel` and `ChooseSnapshot` are the user picking another kernel of
the menu, or a snapshot under "Previous deployments" with its newest kernel (any
recorded snapshot, not the `max_snapshots` newest). The flag of an armed trial is
used up before the menu is shown. From a booted snapshot only the next boot is
modelled: salt commands there work on the snapshot.
Kernels in `Broken` hang and are reset (`panic=30`). `why`, `confirmed`, `chosen`
(kernels booted by hand) and `reverted` are history variables. `Spec` has every
command; `UpdateSpec` leaves out rollbacks, downgrades and the menu; `CrashSpec`
adds loss of power inside a command to it. Only roots at `/` are modelled, with a
kernel in `/boot` at all times.

A rollback makes the newest kernel of the restored root the default, also one
that was armed and never confirmed, and a downgrade during a trial can leave the
running kernel as the only candidate. The properties about confirmed kernels
therefore hold until the first of these (`reverted`). A kernel booted by hand
may become the default without `salt boot confirm` as well: when the update that
follows takes the default's file away, `grub_update` falls back to the running
kernel. docs/rollback.md:209-212 has only `salt boot confirm` do that; the
properties count such kernels (`chosen`) with the confirmed ones.

### Strata and StrataCli: foreign roots and what they expose

`Strata` holds the state and the library operations: the tree of each stratum,
the tables `strata`, `snapshots` and `expose` of `strata.sqlite`, the shims,
menu entries and services on the host, the provider choice with its history.
Each operation is one action with a disjunct for each way it can end, stops
between two of its writes included, for directories and for Btrfs. `StrataCli`
makes commands of them: `job` is the sequence of operations that a command has
still to carry out, computed from the state where the code computes it. `Marks`
and `Resume` say which operation follows one that failed, where the code goes on
after a failure; otherwise the command ends. A command may also die between any
two operations. `salt lock apply` and `salt config` are such commands, with the
safety snapshot before and the roll-back after a failed apply. The package
managers inside a stratum are external: they install, remove or update what they
are asked to, or fail with a part of it done; what `salt run` starts may leave a
broken tree, with no safety snapshot. Deletions whose result the code does not look
at may fail: those of a rollback (`rm -rf`, `find -delete`, `btrfs subvolume
delete`), any of the six of `salt_stratum_destroy`, the unlinks of shims, menu
entries and services. A tree that could not be cleared away stays as it is on Btrfs
and mixes with the snapshot's files elsewhere (`Partial`).

History variables: `withdrawn` (menu entries `config` took back in this command),
`torn` (aliases whose shim and row were not written, or removed, together), `stray`
(menu entries and services whose removal failed), `stuck` (the tree the rollback
could not clear away), `reused` (snapshot paths written a second time, within one
second), `unsafe` (strata changed with no safety snapshot taken), `doomed` (strata
that were removed in part), `chosen` (the providers in effect over time). The
properties name with them the code paths on which their promise does not hold.

### Holder and StratumRun: `salt run`

`Holder` is `run.c`'s protocol: a run takes the stratum's `flock`, looks at the pid
file, joins the holder it names or forks a new one, waits on the signal pipe until
the mounts are made, publishes the pid and releases the lock. `ns_stop`, run by
rollback and destroy before the tree is replaced, takes no lock; its read, kill and
unlink are separate actions, and so is the replacement. Holders, runs and rollbacks
may be killed at any point. `StratumRun` adds the rest of a run: the refused user
namespace and the restart under `sudo`, the command, and the merging of the accounts
it made into the host's files and on to the other strata, per file a read and an
append. A file that cannot be opened, or the table of strata that cannot be read, is
passed over in silence, as often as the scenario's `faults` allow. The `useradd`
inside the stratum (external) reads the files and renames new ones over them later,
so it can undo an append made in between. History variables: `since` (which tree the
stratum had when the run looked for the holder), `late` (holders whose creator left
before they had published), `raced` (holders not yet published while a rollback was
under way), `ran` (the exit statuses of a run's command), `made` (accounts it
created), `lost` (entries that were skipped or overwritten and that nobody has
appended since).

### Resolver and Declare: from a request to a plan

`Resolver` has the pure algorithms: `salt_vercmp`, the index look-ups, `resolve`,
`order_by_deps`, the cascade of `native_remove`, `resolve_cfg`, as recursive
operators, each with a reference definition that says what it should compute
(least closed sets, an order in which dependencies come first, a total preorder
on versions read as tokens). `Declare` runs two processes on one root: `salt
sync` with its temporary files, signature check and renames, `install`, `update`,
`remove`, `lock`, `lock apply` and `config` as plan, fetch and commit. A
publisher outside changes the repository at any time. `hashed` are the packages
whose row has the sha256 verified at installation; rows of an older database have
none. `compare_lock` takes such a row for any build of its version and release, and
`emit_native` pins it with the digest the index has for that version. The history variables
`vouched`, `mixed`, `stale` and `forced` record the indexes the repository has
signed, the packages installed after the index changed under the transaction,
whether a plan was carried out on other tables than it was made on, and whether
one was made with `--nodeps`.

### Setup: the installer

`validate`, `partition_disk` command by command, `discover_mounted`, and every
function `main` calls, in `Order`. Any tool may fail; a failed installation may be
started again with the same answers, or after a reboot of the live system
(`Again`), on the disk the earlier attempts left. `getty` and `session` are whom
the console and sddm's `autologin.conf` log in by themselves.

## 3. Runs

| run | specification | checks | states |
| --- | --- | --- | --- |
| `native_txn` | `FairSpec` | the journal always covers the root, failure leaves no trace, never half installed, no conflicts, refinement of `AtomicTxn`, every transaction ends | 17,373 |
| `deployments` | `Spec` | rollback restores, a plain rollback is exact, one that failed midway can be repeated, files and tables agree, a dead transaction's journal survives gc | 1,336,521 |
| `boot_trial` | `FairSpec` | the default has its file and its menu entry, it is confirmed or was booted by hand, untested kernels boot by themselves only on trial, a hung machine comes up | 1,034,284 |
| `strata` | `Spec` | snapshots keep their trees, a stratum with contents can be recovered, rollback restores the chosen tree unless the live one could not be removed, `lock apply` gives exactly the lock or restores what was there, shims and rows agree, removed apps are withdrawn, provider rollback is exact, `config` exposes what it says, the first to expose an alias keeps it | 2,115,349 |
| `stratum_run` | `Spec` (fair) | one holder per stratum, commands see the present tree, a command runs once, its accounts reach the host and every stratum but for entries the code loses in silence, every run ends | 358,990 |
| `declare` | `Spec` | dependencies stay closed, plans are what the reference says, applying a configuration converges, a package recorded as signed came from a signed index, `update` never downgrades | 224,415 |
| `setup` | `Spec` | an installation that reports success boots, its accounts and network work, erasing can be repeated, existing partitions are kept | 1,032,718 |

Deadlock is checked for `NativeTxn` and `BootTrial`. The histories of the others
end at their bounds, or the command is done, so there it is not.

Five further runs state what the documentation promises and the code does not
do; TLC's counterexamples, in short:

| run | counterexample |
| --- | --- |
| `half_installed` | a process dies after its first unlink; the tables still list the file, and no command reads a dead transaction's journal |
| `rollback_pinned` | a later, unpinned row lost its journal; rolling back to the pinned one steps over it |
| `rollback_hooks` | install, upgrade, rollback: the table `hooks` keeps the upgrade's hooks |
| `boot_power_loss` | power is lost after the commit of a kernel update: the default's file is gone until `retain_running_kernel` |
| `boot_fallback` | the trial fell back; the health check fails again: `confirm --fallback` reboots into the same kernel |

### Limits that show in the conditions of the properties

Deployments. `RollbackRestores` asks that the target is in effect: an explicit
target that was undone before is accepted, and its files are not reverted again.
It also asks that no later journal was lost (`lost`): pruned before it was
reverted, or left behind by a process that died. `rollback_files` steps over such
rows, so rolling back over them, or to a row left `started`, restores the tables
and not their files.

Strata. Renaming the alias of a desktop entry in `system.lua` loses the menu entry
until the next apply. Exposing a desktop entry under an alias other than its
command leaves an extra command alias. A failed bootstrap leaves a non-empty
target, so a retry is refused. `lock apply` whose safety snapshot failed does not
roll back. `stratum remove` withdraws an alias when the package it was recorded
for goes, even if another one still provides the command. The deletion that
precedes the restored snapshot is not checked (`stratum.c:1059`), so a rollback can
exit 0 without having put it back; `RollbackExact` says what the stratum then holds.
After a removal that was carried out in part, snapshots, rows and shims of the
stratum may be left in any combination. A menu entry and a declared alias that
share a name write the same row; the last one wins (`ConfigExposed`).

`salt run`. `SALT_RUN_USERNS_DENIED` is 252 (`run.h:22`) and `cmd_run.cpp:307`
compares it with the command's exit status, so a command that exits 252 is run
again under `sudo`; `CommandOnce` excludes it. `ns_stop` takes no lock, so a run
that forks its holder during a rollback may keep the replaced tree (`raced`), and
a creator that is killed leaves a holder no pid file names (`late`). Two runs
that merge accounts at once can append a line twice; a run that is killed
leaves the accounts its command made unpropagated. `append_lines`
(`cmd_run.cpp:83`) and the fan-out to the other strata give up without a word, and an
append between a `useradd`'s reading and its rename is gone; the next change of
accounts makes up for most of it, since a merge appends whatever is missing.

Declare. Two syncs share `index.toml.new` and its signature. The index is loaded
when a command starts, and its signature looked at later (`mixed`). No lock is held
from plan to commit (`stale`). Publishing without a key leaves the old signature in
place. `apply_native` compares version and release only, and so does `compare_lock`
for a row without a digest (`cmd_lock.cpp:344`): `lock apply` can exit 0 with
another build than the locked one installed; and `salt lock` may pin such a row with
the digest of a build that is not the installed one. `on_missing = "skip"` removes
installed packages of skipped roots. `salt lock` records the hash of the current
`system.lua` whether or not it was applied.

Setup. With `user.create = false` and no root password `validate` is satisfied and
no account can administer the system. `network = "wifi"` without NetworkManager or
dhcpcd enables `netdhcp`, which `delive` then removes. A prepared root whose
filesystem differs from the configured one gets the wrong `rootflags`. After a
failure, a retry can meet an open LUKS mapping, a mounted `.btrfs-top`, an
unformatted ESP or a stratum directory that is not empty; only erasing is shown to
be repeatable, and a reboot of the medium may have to come first.

### Bounds

`MCNativeTxn`: two packages with two versions each, three paths. Files move
between packages by removal and by upgrade, two grains ship one path, one
conflicts with a package, one has a dependency, and every path may hold a local
file; every plan over them that names no package twice. Transactions follow one
another without bound. Two packages are enough for each pair of roles a path can
have in one plan (dropped by one grain, claimed by the other); a third path lets
one loop be interrupted in the middle.

`MCDeployments`: `deploy.keep` 2, `gc --keep` 1 or 2, so that pruning, gc and
rollbacks over a gap all happen. At most five rows in plain histories and four in
the others, whose longer action list is paid for with three requests, one initial
root, one pinned row and one failed rollback at a time. Three grains over two
paths, one of which moves between packages.

`BootTrial`: four kernels, one of which hangs, at most four transactions and
rollbacks; two updates without a reboot, then a trial and its fallback, fit.

`MCStrata`: two strata of one family that share the name of their package manager, a
package with two builds of one version, a command and a menu entry, and one with a
command the host has as well and a service; at most three snapshots, taken within a
second of each other or not, Btrfs or directories. The commands come in eight menus,
one per subject (trees, locks, shims, configuration, also with a menu entry and an
alias of one name, providers), of two to five commands; all commands at once is out
of reach and mostly interleaves commands that share no state.

`MCStratumRun`: two runners, two strata, two holders, seven scenarios: two first
runs with two kills, with a rollback, accounts created by one run and by both, in
one stratum and in two, the latter with one file or table that cannot be read, and
the run of a user, who may be refused a user namespace, beside one whose command
fails.

`MCDeclare`: four packages, seven grains, so that upgrades change dependencies and
providers conflict; seven menus of commands, one of them on tables with rows without
a digest. The plans for requested and applied
sets are checked from every sound table, the others over command sequences of two
processes. `VersionOrder` compares `salt_vercmp` with its reference on all
versions of up to three characters.

`MCSetup`: six machines (erase, alongside, prepared, badly prepared, accounts,
networks), three attempts.

### Fairness

`NativeTxn`: `WF(Step)`: a process that is scheduled goes on. `Fail` is one of
the steps and no action is required to succeed. `BootTrial`: a hung machine is
reset (`panic=30` on the command line, or the user). `StratumRun`: a run takes its
own steps, the command it runs ends, and a forked holder gets through its mounts
or exits, which closes its end of the pipe; a command that leaves processes behind
that keep the pipe open is outside this assumption. Nothing else is assumed; in
particular nobody has to confirm, update or reboot, and kills are never required.

## 4. Proofs

The theorems hold for arbitrary constants that satisfy the named assumptions of
the modules: `GrainsAssumption` and `RequestsAssumption` (grains and plans are
well formed, a plan lists no package twice), `DeploymentsAssumption` (so are the
kinds of history), `BootAssumption` and
`NewestAssumption` (kernels are numbered, and of any of them one is the newest),
`HolderAssumption` and `ScenarioAssumption` (names are told apart, scenarios are
well formed), `CommandsAssumption` (packages provide finitely many commands),
`MenuAssumption` (a rollback command names a stratum, a provider rollback a
component), `SetupAssumption` and `MachinesAssumption` (the answers are ones
`validate` admits: the root filesystem is btrfs or ext4, no user is named like a
path below `/etc`; the disk is a row of partitions; the medium ships
NetworkManager's service only with NetworkManager). TLC evaluates all of them on
the instances.

**`GrainsProofs`**: what `PlanDb` and `PlanRoot` give for each package and path. A
plan with one owner per path keeps root and tables in agreement
(`PlanKeepsFiles`), and `check_conflicts` keeps the installed set conflict free
(`PlanKeepsConflictFree`).

**`NativeTxnProofs`**, first under `CrashSpec`: `JournalAlwaysCovers`,
`FailureAtomicity` and `TypeCorrect`, from `IInv`. The property itself is
not inductive: saving a path twice overwrites its backup, which is harmless only
if the path still holds its original content. `IInv` therefore says which paths
can hold new content (`FreshInv`: those of packages the plan is done with, or of
the grain being extracted), that these are never visited by a later loop (plans
list no package twice; a path has one owner, `OwnerInv`), that the manifest is in
the journal before the first file is written (`JournalInv`), where the loops are
(`PhaseInv`), and how far a revert has come (`RevertInv`).

Then under `Spec`, where no process dies (with deaths the statements are false,
see `half_installed`). `Atomicity` is `Spec => AtomicSpec`: every step
of `native_transaction` either leaves root and tables, as far as they count, alone
or is the one step of `AtomicTxn` that carries out an accepted plan
(`StepSettles`). The invariant `PInv` adds to `IInv` that the plan was accepted
for the tables as they were (`PlanInv`), that the uncommitted tables are those
tables with the finished part of the plan applied (`ViewInv`), and the same for
the root, path by path, with the loop at hand half way (`RootInv`). At commit the
finished part is the whole plan, so both are what `PlanDb` and `PlanRoot` say.
`HalfInstalledNever` and `ConflictFree` then follow from the two facts about whole
plans: `SystemInv` is kept by every step that settles something.

**`BootTrialProofs`** (under `Spec`, rollbacks and downgrades included).
`DefaultIsThere` rests on `FileInv`: the present root and every snapshot hold the
kernel of their own grain, so each has a newest kernel; the menu lists what is in
`/boot`; and between the two writes of `grub_update` the block about to be written
names a kernel of the menu. `FileInv` also gives `TypeCorrect`. For confirmed
kernels, `reverted \/ BInv` is inductive, and gives `OnlyConfirmedByDefault` and
`UntestedUsesTrial`. The crux there is that the file of the default kernel survives
every update: the transaction removes only the grain's own kernel; if that is the
default then it is the running kernel or the user booted the running one by hand
(`RunningInv`); the running one is put back from the snapshot before anything reads
the block, and is all that `grub_update` can fall back to (`DefaultInv`).

**`HolderProofs`**, **`RunProofs`** (for any number of runners,
strata, pids and scenarios, with kills). `HolderInv` says that the lock of a
stratum is held by the run that is creating its holder and by no other
(`LockInv`), that a pid file names a published holder of its own stratum
(`PidInv`), and, for strata without a late or raced holder, that a holder on its
way has its creator waiting, one that is up is in the pid file, and none lives
while a run creates one or a rollback replaces the tree (`CleanInv`).
`OnlyOneHolder` follows. `ViewInv` adds that the holder in the pid file, the one a
run is starting and the one it joined have the present tree (`FileView`,
`StartView`, `RunView`); `CommandSeesPresentTree` follows. `OnceInv` ties the
number of times a command ran to the position of its run, over the restart under
`sudo`; `CommandRunsOnce` follows.

**`StrataProofs`** (for all strata, packages, menus of commands). `SnapshotsStay`:
the property needs that the path of a snapshot lies in its own stratum's part
(`SnapInv`), so that no operation on another stratum or on the tree reaches it.
`RollbackIsExact` covers directories and Btrfs and every way the unchecked deletion
can end; it needs in addition that snapshot ids are unique (`IdInv`) and that a
rollback command consists of its one operation (`JobInv`).
`ProviderRollbackGoesBack`: for each component, if no choice was cut off between
its history entry and its row, the entries are as many as the choices, the newest
one is the choice in effect and the row's target is the entry before it
(`ChoiceInv`, kept by `ProvInv` for all components at once); a rollback looks the
target up and then makes a choice of it, and `BackInv` says what it has in hand in
between. `ExposedIsTraceable`, whose property is inductive as it stands, by one lemma per
operation; `RecordedAliasesStay`, from `WinInv`: while a refresh is on its way the
job is a row of quiet operations that ends in it, and once it has looked, a list of
exposures of names that were free then, each of them once.

**`DeploymentsProofs`** (for every repository, every kind of history, any number of
rows, pins and rollbacks, every `deploy.keep`). The loop of `rollback_files` is
unrolled once: what it leaves at a path is the backup of the oldest row from the
target on that touched it, and what was there if none did (`IsReverted`). This is
an induction on the row, made with the least row that would break it (`LeastNat`).
The invariant `Good` then says that for every row a rollback may be asked for
(`Reachable`: in effect, with no later journal lost, or the target of a rollback
that failed midway) the journals from it on give the root it found (`Restores`).
`RollbackGoesBack` and `FailedRollbackRepeats` follow. A new row keeps `Good`
because its journal says what was there wherever it changed the root; a rollback
because the rows it marks undone no longer count, and no row below its target sees
a difference. `PlainInv` adds, for histories without pins and explicit targets,
that nothing a rollback could pick lies below a row whose journal is gone: pruning
and gc take the oldest first. With it `PlainHistoriesConsistent` and
`PlainRollbackGoesBack` need no condition on journals. `NewestInv` gives
`DeadTransactionReverts`.

Working on `RollbackGoesBack` showed that its property used to be true only within
the bounds of the run: it took a row marked undone for one whose files were
reverted, and a rollback that steps over a pruned journal marks that row undone as
well. The history field `lost` of a row now records that its journal went before
anything reverted it, or that its process died, and `NoneLost` asks for that.

**`SetupProofs`** (for all machines, disks and answers, any number of attempts, any
tool failing at any time). `SysInv` says what each function of `main` may rely on:
what the functions before it in `Order` have done to accounts, passwords,
`sudoers.d`, automatic log-ins, services and the network's clients, and the ones
since have not undone, on the first attempt or over what an earlier one left.
`InstalledAccounts` and `InstalledNetwork` are what it says at the end.
`ExistingPartitionsStay` rests on `KeptInv`: outside of the mode that erases, no
command left of `partition_disk` zaps the disk, and one that formats the partition
of a role comes after the command that makes it, or the role's partition is this
installation's own (`Ready`).

Model-checked only:

- liveness (`TransactionEnds`, `ComesUp`, `RunEnds`): fairness is out of the
  provers' reach;
- everything about `Declare` (`DepsClosed`, `PlansExact`, `ApplyConverges`,
  `SignedIsVerified`, `NeverDowngrades`): the resolvers are recursive operators,
  in whose presence the SMT backend is lost;
- `Recoverable`, `ApplyExact`, `ApplyRestores`, `RemoveUnexposes` and
  `ConfigExposed`: they relate a tree or the host's files to the job of a long
  command, so that an inductive invariant has to describe the job at each of its
  operations, with the sub-jobs of bootstraps and roll-backs inside;
- `AccountsReach`: it depends on the order in which a fold lists the strata, and on
  the lines two merges append beside each other;
- `Bootable` and `EraseRepeats`: they tie every entry written to the target to the
  partition it names, over the whole program of `partition_disk`.

## 5. What is not modelled, and what is assumed

Not modelled: the Raspberry Pi's A/B roots (`os/pi/ab-update.sh`), a second boot
protocol; the steps inside `rollback_btrfs`; gc's sweep of the package cache (an
archive it removes is fetched again); `trust.toml`, rewritten whole by one command;
the byte formats, TOML and Lua parsers and cryptography, which appear as steps that
succeed or fail; queries, builds, image builders, the OTA server. `--dry-run` and
`--download-only` change nothing and are left out.

NativeTxn: side effects of hooks and errors while restoring, which `restore_tree`
swallows. Strata: the configuration always has an `expose` table; switching off the
exposure of package managers or of everything is covered by none of those exposures
succeeding; the digest of an installed package tells its builds apart. StratumRun:
pids are not reused; `salt_escape_to_host` and `reexec_root_if_needed` are not
modelled; `/etc/group` is merged like `/etc/passwd` and left out; colliding uids are
not told apart; `useradd` renames passwd and shadow in one step. Setup: commands
whose status is ignored succeed when they can: `blkid` finds the UUID it is asked
for (`main.cpp:396-404`), `userdel` removes the live account (583), and the two
listings of `sgdisk -p` by which `new_part` finds its partition are complete (436,
464-469). Partitions are numbered without gaps and there is one free region. The
medium's own drop-ins in `sddm.conf.d`, which `salt-setup` neither writes nor
removes, the locale, the prompts, the live Wi-Fi connection and the checks of the
shim are left out. Declare: parsing an index is a step that succeeds or fails; the
steps of two transactions are not interleaved.

## 6. Running

    tlc -config NativeTxn.cfg MCNativeTxn
    tlapm NativeTxnProofs.tla

The module and configuration of each run are named in `PROJECT.json`.
