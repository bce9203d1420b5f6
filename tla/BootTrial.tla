----------------------------- MODULE BootTrial ------------------------------
(***************************************************************************)
(* Kernel updates on a GRUB machine: what a transaction and a rollback do  *)
(* to /boot, to grub.cfg and to the GRUB environment block (cmd_deploy.cpp),*)
(* what the generated grub.cfg boots by itself and what the user may choose *)
(* from its menu, and salt-ota confirm --fallback.                         *)
(*                                                                         *)
(* /boot and grub.cfg live in the root subvolume, so a snapshot holds them *)
(* and a rollback exchanges them; the environment block lives on the ESP   *)
(* and is shared by all of them.  GRUB roots are Btrfs roots.  Pruning is  *)
(* left out: histories here are shorter than deploy.keep.                  *)
(***************************************************************************)
EXTENDS Naturals, Sequences

CONSTANTS
    Kernels,    \* kernel releases, ordered as salt_vercmp orders them
    First,      \* the kernel the system was installed with
    Broken,     \* kernels that hang or panic when booted
    None,       \* no kernel
    MaxTxns     \* bound: transactions and rollbacks

ASSUME BootAssumption ==
    /\ Kernels \subseteq Nat
    /\ First \in Kernels \ Broken
    /\ None \notin Kernels
    /\ MaxTxns \in Nat

\* There are finitely many kernels, so one of any is the newest.
ASSUME NewestAssumption ==
    \A S \in SUBSET Kernels : S # {} => \E k \in S : \A j \in S : j <= k

VARIABLES
    boot,       \* kernel files in /boot of the root subvolume
    owned,      \* the kernel the installed kernel grain owns
    menu,       \* kernels with an entry in /boot/grub/grub.cfg
    env,        \* the GRUB environment block
    snaps,      \* the snapshots: boot, owned and menu of each
    running,    \* uname -r
    up,         \* FALSE: the kernel hung
    why,        \* history: what the last boot was for
    pc,         \* the step of the salt command in progress
    kv,         \* the block grub_update is about to write
    confirmed,  \* history: kernels salt boot confirm has accepted
    chosen,     \* history: kernels the user has booted from the menu
    reverted    \* history: an older kernel was installed or an earlier root restored

vars == <<boot, owned, menu, env, snaps, running, up, why, pc, kv, confirmed, chosen, reverted>>

\* saltos_default, saltos_try and saltos_pending.  saltos_try_entry always
\* names the pending kernel.
Env(default, try, pending) ==
    [default |-> default, try |-> try, pending |-> pending]

Init ==
    /\ boot = {First}
    /\ owned = First
    /\ menu = boot
    /\ env = Env(First, FALSE, None)
    /\ snaps = <<>>
    /\ running = First
    /\ up = TRUE
    /\ why = "install"
    /\ pc = "idle"
    /\ kv = env
    /\ confirmed = {First}
    /\ chosen = {}
    /\ reverted = FALSE

-----------------------------------------------------------------------------
\* salt_boot_newest_kernel, which is also the first entry of the menu.
NewestOf(S) == CHOOSE k \in S : \A j \in S : j <= k
Newest == NewestOf(boot)

\* A kernel that is not in /boot counts as none (grub_state, running_kernel).
Present(k) == IF k \in boot THEN k ELSE None

\* Mutant: grub_state does not look whether the file is there.
default_kernel_Unchecked == env.default

default_kernel == Present(env.default)
pending_kernel == Present(env.pending)
running_kernel == Present(running)

Or(k, j) == IF k = None THEN j ELSE k

Ready == pc = "idle" /\ up

Snapshot == [boot |-> boot, owned |-> owned, menu |-> menu]

-----------------------------------------------------------------------------
(* Transactions, and deploy_post_txn after each.                           *)

\* A transaction that replaces the kernel grain.
KernelTxn(k) ==
    /\ Ready
    /\ Len(snaps) < MaxTxns
    /\ k # owned
    /\ snaps' = Append(snaps, Snapshot)
    /\ boot' = (boot \ {owned}) \cup {k}
    /\ owned' = k
    /\ reverted' = (reverted \/ k < owned)
    /\ pc' = "retain"
    /\ UNCHANGED <<menu, env, running, up, why, kv, confirmed, chosen>>

\* A transaction that leaves /boot alone: nothing is armed anew.
OtherTxn ==
    /\ Ready
    /\ Len(snaps) < MaxTxns
    /\ snaps' = Append(snaps, Snapshot)
    /\ pc' = "update"
    /\ UNCHANGED <<boot, owned, menu, env, running, up, why, kv, confirmed, chosen, reverted>>

\* retain_running_kernel copies the running kernel back from the snapshot.
retain_running_kernel ==
    /\ pc = "retain"
    /\ boot' = IF running \in snaps[Len(snaps)].boot THEN boot \cup {running}
                                                     ELSE boot
    /\ pc' = "drop"
    /\ UNCHANGED <<owned, menu, env, snaps, running, up, why, kv, confirmed, chosen, reverted>>

\* Mutant: the default kernel is not kept.
drop_stale_kernels_Default ==
    /\ pc = "drop"
    /\ boot' = boot \cap {running, Newest, env.pending, owned}
    /\ pc' = "rearm"
    /\ UNCHANGED <<owned, menu, env, snaps, running, up, why, kv, confirmed, chosen, reverted>>

drop_stale_kernels ==
    /\ pc = "drop"
    /\ boot' = boot \cap {running, Newest, env.default, env.pending, owned}
    /\ pc' = "rearm"
    /\ UNCHANGED <<owned, menu, env, snaps, running, up, why, kv, confirmed, chosen, reverted>>

-----------------------------------------------------------------------------
(* grub_update: grub.cfg is written first, the environment block second.   *)

WriteCfg(block) ==
    /\ menu' = boot
    /\ kv' = block
    /\ UNCHANGED <<boot, owned, env, snaps, running, up, why, confirmed, chosen, reverted>>

\* Mutant: the new kernel is switched to instead of armed.
grub_update_rearm_Switches ==
    /\ pc = "rearm" \/ Ready
    /\ WriteCfg(Env(Newest, FALSE, None))
    /\ pc' = "env"

\* After a transaction that changed /boot, or by `salt boot update`.
grub_update_rearm ==
    /\ pc = "rearm" \/ Ready
    /\ LET def == Or(default_kernel, Or(running_kernel, Newest))
       IN  WriteCfg(IF Newest # def THEN Env(def, TRUE, Newest)
                                    ELSE Env(def, FALSE, None))
    /\ pc' = "env"

\* After any other transaction: a pending trial stays as it is.
grub_update_keep ==
    /\ pc = "update"
    /\ WriteCfg(Env(Or(default_kernel, Or(running_kernel, Newest)),
                    env.try, pending_kernel))
    /\ pc' = "env"

grub_update_rollback ==
    /\ pc = "rollback"
    /\ WriteCfg(Env(Newest, FALSE, None))
    /\ pc' = "env_reboot"

grubenv_write ==
    /\ pc \in {"env", "env_reboot"}
    /\ env' = kv
    /\ pc' = IF pc = "env" THEN "idle" ELSE "reboot"
    /\ UNCHANGED <<boot, owned, menu, snaps, running, up, why, kv, confirmed, chosen, reverted>>

\* salt rollback N on Btrfs (rollback_btrfs): the snapshot becomes the root,
\* the root becomes a snapshot.  The command asks for a reboot; until then
\* the retired root is still mounted, and nothing more is run here.
Rollback(n) ==
    /\ Ready
    /\ Len(snaps) < MaxTxns
    /\ boot' = snaps[n].boot
    /\ owned' = snaps[n].owned
    /\ menu' = snaps[n].menu
    /\ snaps' = Append(snaps, Snapshot)
    /\ pc' = "rollback"
    /\ reverted' = TRUE
    /\ UNCHANGED <<env, running, up, why, kv, confirmed, chosen>>

-----------------------------------------------------------------------------
(* salt boot try, salt boot confirm, salt-ota confirm --fallback           *)

grub_try ==
    /\ Ready
    /\ Newest # default_kernel
    /\ WriteCfg(Env(Or(default_kernel, Newest), TRUE, Newest))
    /\ pc' = "env"

\* The trial kernel is running: it becomes the default.
grub_confirm ==
    /\ Ready
    /\ pending_kernel # None
    /\ running_kernel = pending_kernel
    /\ menu' = boot
    /\ kv' = Env(running, FALSE, None)
    /\ confirmed' = confirmed \cup {running}
    /\ pc' = "env"
    /\ UNCHANGED <<boot, owned, env, snaps, running, up, why, chosen, reverted>>

\* The trial boot fell back: the pending kernel is dropped.
grub_confirm_fell_back ==
    /\ Ready
    /\ pending_kernel # None
    /\ running_kernel # pending_kernel
    /\ ~env.try
    /\ WriteCfg(Env(default_kernel, FALSE, None))
    /\ pc' = "env"

\* What the generated grub.cfg boots by itself: an armed trial once, else the
\* default; an entry that is not in the menu is replaced by the first.
Entry == IF env.try /\ env.pending # None THEN env.pending ELSE env.default
Selected == IF Entry \in menu THEN Entry ELSE NewestOf(menu)

\* Kernel k is loaded from a root that holds these kernel files, if its own is
\* among them.  The flag of an armed trial was cleared and saved when grub.cfg was
\* read, so before the menu is shown.
Load(reason, k, files, step) ==
    /\ why' = reason
    /\ env' = [env EXCEPT !.try = env.try /\ env.pending = None]
    /\ running' = k
    /\ up' = (k \in files \ Broken)
    /\ pc' = step
    /\ UNCHANGED <<boot, owned, menu, snaps, kv, confirmed, reverted>>

\* Mutant: grub.cfg does not save the cleared flag.
GrubBoots_Unsaved(reason) ==
    /\ why' = reason
    /\ running' = Selected
    /\ up' = (Selected \in boot \ Broken)
    /\ pc' = "idle"
    /\ UNCHANGED <<boot, owned, menu, env, snaps, kv, confirmed, chosen, reverted>>

GrubBoots(reason) == Load(reason, Selected, boot, "idle") /\ UNCHANGED chosen

\* No salt command is running.  A booted snapshot has no state of its own here.
AtRest == pc \in {"idle", "reboot", "snapshot"}

\* A reboot by the user, or by the watchdog of a kernel that hung (panic=30).
Reboot ==
    /\ AtRest
    /\ GrubBoots("reboot")

\* The same, and the user picks another entry of the menu: a kernel of the root,
\* or, under "Previous deployments", a snapshot with its newest kernel.
ChooseKernel(k) ==
    /\ AtRest
    /\ k # Selected
    /\ Load("menu", k, boot, "idle")
    /\ chosen' = chosen \cup {k}
ChooseSnapshot(n) ==
    /\ AtRest
    /\ LET k == NewestOf(snaps[n].boot)
       IN  Load("menu", k, snaps[n].boot, "snapshot") /\ chosen' = chosen \cup {k}

\* salt-ota confirm --fallback when a health check fails.
ConfirmUnhealthy ==
    /\ Ready
    /\ pending_kernel # None
    /\ GrubBoots("fallback")

\* Power is lost in the middle of a command.
PowerLoss ==
    /\ ~AtRest
    /\ GrubBoots("power loss")

-----------------------------------------------------------------------------
Commands ==
    \/ \E k \in Kernels : k > owned /\ KernelTxn(k)
    \/ OtherTxn
    \/ retain_running_kernel
    \/ drop_stale_kernels
    \/ grub_update_rearm
    \/ grub_update_keep
    \/ grubenv_write
    \/ grub_try
    \/ grub_confirm
    \/ grub_confirm_fell_back
    \/ Reboot
    \/ ConfirmUnhealthy

\* Updates, trials and confirmations, without power losses and with them.
UpdateSpec == Init /\ [][Commands]_vars
CrashSpec == Init /\ [][Commands \/ PowerLoss]_vars

\* Also rollbacks, transactions that install an older kernel, and the menu.
Next ==
    \/ Commands
    \/ \E k \in menu : ChooseKernel(k)
    \/ \E n \in 1..Len(snaps) : ChooseSnapshot(n)
    \/ \E k \in Kernels : k < owned /\ KernelTxn(k)
    \/ \E n \in 1..Len(snaps) : Rollback(n)
    \/ grub_update_rollback

Spec == Init /\ [][Next]_vars

\* A machine whose kernel hung is reset.
FairSpec == Spec /\ WF_vars(~up /\ Reboot)

-----------------------------------------------------------------------------
Envs == [default : Kernels \cup {None}, try : BOOLEAN, pending : Kernels \cup {None}]
Snapshots == [boot : SUBSET Kernels, owned : Kernels, menu : SUBSET Kernels]

TypeOK ==
    /\ boot \subseteq Kernels
    /\ owned \in Kernels
    /\ menu \subseteq Kernels
    /\ env \in Envs
    /\ kv \in Envs
    /\ snaps \in Seq(Snapshots)
    /\ running \in Kernels
    /\ up \in BOOLEAN
    /\ why \in {"install", "reboot", "fallback", "menu", "power loss"}
    /\ pc \in {"idle", "retain", "drop", "rearm", "update", "rollback", "env",
               "env_reboot", "reboot", "snapshot"}
    /\ confirmed \subseteq Kernels
    /\ chosen \subseteq Kernels
    /\ reverted \in BOOLEAN

\* Between commands the default kernel has its menu entry and its file, also
\* after a rollback: grub_update never names a kernel that is not there.
DefaultBootable == AtRest => env.default \in boot \cap menu

\* Unless a kernel was downgraded or a root rolled back, a kernel becomes the
\* default only by salt boot confirm or because the user booted it by hand from
\* the menu: no sequence of updates, trials, fallbacks and reboots makes
\* grub_update choose another.
DefaultConfirmed == reverted \/ env.default \in confirmed \cup chosen

\* With the same exceptions, a kernel that was neither confirmed nor ever chosen
\* from the menu is booted only by using up an armed trial, so not twice unless
\* it is armed again.
UntestedOnlyOnTrial ==
    [][(Reboot \/ ConfirmUnhealthy) /\ running' \notin confirmed \cup chosen
            => reverted \/ env.try]_vars

\* Unless a kernel was downgraded or a root rolled back, a machine whose kernel
\* hangs, one on trial or one the user chose, comes up again by itself.
ComesUp == (~up /\ ~reverted) ~> up

\* docs/ota.md: with --fallback, "an unhealthy trial boot reboots into the
\* previous kernel": salt-ota confirm reboots to change the kernel.
FallbackChangesKernel == [][GrubBoots("fallback") => running' # running]_vars

=============================================================================
