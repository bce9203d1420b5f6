-------------------------- MODULE BootTrialProofs ---------------------------
(***************************************************************************)
(* Proofs about BootTrial, for every set of kernels and any number of      *)
(* updates, trials, confirmations, fallbacks, reboots and menu choices.    *)
(***************************************************************************)
EXTENDS BootTrial, TLAPS

-----------------------------------------------------------------------------
(* The inductive invariant.                                                *)

\* Updates only: the grain's kernel is in /boot, and none there is newer.
NewestOwned ==
    /\ owned \in boot
    /\ \A j \in boot : j <= owned

\* The steps a command takes before anything is reverted, and the state of
\* grub.cfg between two commands.
Steps ==
    /\ pc \in {"idle", "retain", "drop", "rearm", "update", "env", "snapshot"}
    /\ pc \in {"idle", "env", "snapshot"} => menu = boot
    /\ pc = "retain" =>
          snaps # <<>> /\ \A j \in snaps[Len(snaps)].boot : j <= owned

\* What may be the default.
Accepted == confirmed \cup chosen

\* The default is accepted, and it is in /boot except where the transaction
\* has just removed it.  Then it is the running kernel, which is put back, or
\* the running kernel, chosen by the user, takes its place.
DefaultInv ==
    /\ env.default \in Accepted
    /\ pc \in {"idle", "update", "snapshot"} => env.default \in boot
    /\ pc = "retain" => env.default \in boot \cup {running} \/ running \in chosen
    /\ pc \in {"drop", "rearm"} => env.default \in boot \/ running \in chosen
    /\ pc = "env" => kv.default \in Accepted \cap boot

\* The running kernel is in /boot, or in the snapshot it is put back from.
RunningThere ==
    /\ pc = "retain" => running \in snaps[Len(snaps)].boot
    /\ pc \in {"idle", "drop", "rearm", "update", "env"} => running \in boot

\* A default that an update could remove is the kernel that is running, or the
\* user chose the one that is.
OwnedDefault(e) == e.default = owned => e.pending = None /\ running \in chosen \cup {owned}

RunningInv ==
    /\ pc \in {"idle", "update"} => OwnedDefault(env)
    /\ pc = "snapshot" => (env.default = owned => env.pending = None)
    /\ pc \in {"retain", "drop", "rearm"} => env.default # owned
    /\ pc = "env" => OwnedDefault(kv)

BInv == TypeOK /\ NewestOwned /\ Steps /\ DefaultInv /\ RunningThere /\ RunningInv

-----------------------------------------------------------------------------
\* The invariant holds initially.
LEMMA InvInit == Init => BInv
<1> SUFFICES ASSUME Init PROVE BInv
    OBVIOUS
<1> USE BootAssumption DEF Init, Env
<1>1. env \in Envs /\ kv \in Envs /\ snaps \in Seq(Snapshots)
    BY DEF Envs
<1>2. TypeOK
    BY <1>1 DEF TypeOK
<1> QED
    BY <1>2 DEF BInv, NewestOwned, Steps, DefaultInv, RunningThere, RunningInv, OwnedDefault,
                Accepted

\* Kernels are compared as numbers.
LEMMA Numbers ==
    ASSUME BInv
    PROVE  /\ boot \subseteq Kernels /\ menu \subseteq Kernels
           /\ owned \in boot /\ running \in Kernels /\ Kernels \subseteq Nat
           /\ \A j \in boot : j <= owned
           /\ snaps \in Seq(Snapshots)
    BY BootAssumption DEF BInv, TypeOK, NewestOwned

\* The parts of an environment block.
LEMMA EnvParts ==
    ASSUME NEW d \in Kernels \cup {None}, NEW t \in BOOLEAN,
           NEW p \in Kernels \cup {None}
    PROVE  /\ Env(d, t, p) \in Envs
           /\ Env(d, t, p).default = d
           /\ Env(d, t, p).try = t
           /\ Env(d, t, p).pending = p
    BY DEF Env, Envs

\* With no newer kernel in /boot, the newest is the grain's.
LEMMA NewestIsOwned ==
    ASSUME BInv
    PROVE  Newest = owned
<1>1. \A k \in boot : (\A j \in boot : j <= k) => k = owned
    BY Numbers
<1> QED
    BY <1>1, Numbers DEF Newest, NewestOf

\* A transaction that upgrades the kernel.
LEMMA KernelTxnStep ==
    ASSUME BInv, NEW k \in Kernels, k > owned, KernelTxn(k)
    PROVE  BInv'
<1>0. owned \in Nat /\ k \in Nat /\ boot \subseteq Nat
    BY Numbers
<1> USE DEF KernelTxn
<1>1. Snapshot \in Snapshots
    BY Numbers DEF Snapshot, Snapshots
<1>2. /\ snaps' \in Seq(Snapshots)
      /\ Len(snaps') = Len(snaps) + 1
      /\ snaps'[Len(snaps')] = Snapshot
      /\ snaps' # <<>>
    BY <1>1, Numbers
<1>3. snaps'[Len(snaps')].boot = boot
    BY <1>2 DEF Snapshot
<1>4. TypeOK'
    BY <1>2 DEF BInv, TypeOK
<1>5. NewestOwned'
    BY <1>0, Numbers DEF NewestOwned
<1>6. Steps'
  <2>1. \A j \in boot : j <= k
      BY <1>0, Numbers
  <2> QED
      BY <1>2, <1>3, <2>1 DEF Steps
<1>7. DefaultInv' /\ RunningThere'
  <2>1. CASE env.default = owned
      BY <1>3, <2>1 DEF BInv, DefaultInv, RunningThere, RunningInv, OwnedDefault, Ready, Accepted
  <2>2. CASE env.default # owned
      BY <1>3, <2>2 DEF BInv, DefaultInv, RunningThere, Ready, Accepted
  <2> QED
      BY <2>1, <2>2
<1>8. RunningInv'
  <2>1. env.default \in boot
      BY DEF BInv, DefaultInv, Ready
  <2>2. env.default # k
      BY <1>0, <2>1, Numbers
  <2> QED
      BY <2>2 DEF RunningInv, OwnedDefault
<1> QED
    BY <1>4, <1>5, <1>6, <1>7, <1>8 DEF BInv

\* The running kernel is put back if the transaction removed it.
LEMMA RetainStep ==
    ASSUME BInv, retain_running_kernel
    PROVE  BInv'
<1> USE DEF retain_running_kernel
<1> DEFINE last == snaps[Len(snaps)]
<1>1. last \in Snapshots /\ \A j \in last.boot : j <= owned
    BY Numbers DEF BInv, Steps
<1>2. boot \subseteq boot' /\ boot' \subseteq boot \cup last.boot
    OBVIOUS
<1>3. TypeOK'
    BY <1>1, <1>2 DEF BInv, TypeOK, Snapshots
<1>4. NewestOwned'
    BY <1>1, <1>2 DEF BInv, NewestOwned
<1>5. running \in boot'
    BY DEF BInv, RunningThere
<1>6. DefaultInv' /\ RunningThere'
    BY <1>2, <1>5 DEF BInv, DefaultInv, RunningThere, Accepted
<1> QED
    BY <1>3, <1>4, <1>6 DEF BInv, Steps, RunningInv, OwnedDefault

\* grub_update, grub_try and grub_confirm write grub.cfg and prepare a block
\* with an accepted default.
LEMMA WriteStep ==
    ASSUME BInv, NEW d \in boot, NEW t \in BOOLEAN, NEW p \in boot \cup {None},
           pc \notin {"retain", "snapshot"}, pc' = "env", menu' = boot, kv' = Env(d, t, p),
           d \in Accepted', confirmed \subseteq confirmed', confirmed' \subseteq Kernels,
           d = owned => p = None /\ running \in chosen \cup {owned},
           UNCHANGED <<boot, owned, env, snaps, running, up, why, chosen, reverted>>
    PROVE  BInv'
<1>1. d \in Kernels \cup {None} /\ p \in Kernels \cup {None}
    BY Numbers
<1>2. kv' \in Envs /\ kv'.default = d /\ kv'.pending = p
    BY <1>1, EnvParts
<1>3. TypeOK'
    BY <1>2, Numbers DEF BInv, TypeOK
<1> QED
    BY <1>2, <1>3 DEF BInv, NewestOwned, Steps, DefaultInv, RunningThere, RunningInv,
                      OwnedDefault, Accepted

\* What grub.cfg boots between two commands.
LEMMA BootsDefault ==
    ASSUME BInv, pc \in {"idle", "snapshot"}, ~env.try \/ env.pending = None
    PROVE  Selected = env.default
    BY DEF BInv, Steps, DefaultInv, Selected, Entry


\* Loading a kernel of the root between two commands: the one grub.cfg selects
\* or one the user chose.
LEMMA LoadStep ==
    ASSUME BInv, NEW w \in {"reboot", "fallback", "menu"}, NEW k \in boot,
           pc \in {"idle", "snapshot"}, Load(w, k, boot, "idle"),
           chosen \subseteq chosen', chosen' \subseteq Kernels,
           env.default = owned => k \in chosen' \cup {owned}
    PROVE  BInv'
<1> USE DEF Load
<1>1. menu = boot
    BY DEF BInv, Steps
<1>2. env \in Envs
    BY DEF BInv, TypeOK
<1>3. env' \in Envs /\ env'.default = env.default /\ env'.pending = env.pending
    BY <1>2 DEF Envs
<1>4. up' \in BOOLEAN
    OBVIOUS
<1>5. TypeOK'
    BY <1>3, <1>4, Numbers DEF BInv, TypeOK
<1>6. OwnedDefault(env)'
    BY <1>3 DEF BInv, RunningInv, OwnedDefault
<1>7. DefaultInv'
    BY <1>3 DEF BInv, DefaultInv, Accepted
<1> QED
    BY <1>1, <1>5, <1>6, <1>7 DEF BInv, NewestOwned, Steps, RunningThere, RunningInv

\* A boot of what grub.cfg selects.
LEMMA BootStep ==
    ASSUME BInv, NEW w \in {"reboot", "fallback"}, pc \in {"idle", "snapshot"}, GrubBoots(w)
    PROVE  BInv'
<1>1. menu = boot
    BY DEF BInv, Steps
<1>2. Selected \in boot
  <2>1. CASE Entry \in menu
      BY <1>1, <2>1 DEF Selected
  <2>2. CASE Entry \notin menu
      BY <1>1, <2>2, NewestIsOwned, Numbers DEF Selected, Newest
  <2> QED
      BY <2>1, <2>2
<1>3. env.default = owned => Selected = owned
    BY BootsDefault DEF BInv, RunningInv, OwnedDefault
<1>4. chosen' = chosen /\ chosen \subseteq Kernels
    BY DEF GrubBoots, BInv, TypeOK
<1> QED
    BY <1>2, <1>3, <1>4, LoadStep DEF GrubBoots

\* The user picks a kernel of the root from the menu.
LEMMA ChooseKernelStep ==
    ASSUME BInv, NEW k \in menu, ChooseKernel(k)
    PROVE  BInv'
<1>1. pc \in {"idle", "snapshot"} /\ k \in boot
    BY DEF BInv, Steps, ChooseKernel, AtRest
<1>2. chosen' = chosen \cup {k} /\ chosen' \subseteq Kernels
    BY Numbers DEF ChooseKernel, BInv, TypeOK
<1> QED
    BY <1>1, <1>2, LoadStep DEF ChooseKernel

\* The user picks a previous deployment; the root is left as it is.
LEMMA ChooseSnapshotStep ==
    ASSUME BInv, NEW n \in 1..Len(snaps), ChooseSnapshot(n),
           NewestOf(snaps[n].boot) \in Kernels
    PROVE  BInv'
<1> DEFINE k == NewestOf(snaps[n].boot)
<1>1. /\ pc \in {"idle", "snapshot"} /\ chosen' = chosen \cup {k}
      /\ Load("menu", k, snaps[n].boot, "snapshot")
    BY DEF ChooseSnapshot, AtRest, BInv, Steps
<1> HIDE DEF k
<1>2. k \in Kernels
    BY DEF k
<1>3. env \in Envs
    BY DEF BInv, TypeOK
<1>4. env' \in Envs /\ env'.default = env.default /\ env'.pending = env.pending
    BY <1>1, <1>3 DEF Load, Envs
<1>5. up' \in BOOLEAN
    BY <1>1 DEF Load
<1>6. TypeOK'
    BY <1>1, <1>2, <1>4, <1>5 DEF Load, BInv, TypeOK
<1>7. DefaultInv'
    BY <1>1, <1>4 DEF Load, BInv, DefaultInv, Accepted
<1>8. RunningInv'
    BY <1>1, <1>4 DEF Load, BInv, RunningInv, OwnedDefault
<1> QED
    BY <1>1, <1>6, <1>7, <1>8 DEF Load, BInv, NewestOwned, Steps, RunningThere

\* Every command preserves the invariant.
LEMMA InvStep == BInv /\ [Commands]_vars => BInv'
<1> SUFFICES ASSUME BInv, [Commands]_vars PROVE BInv'
    OBVIOUS
<1> USE NewestIsOwned, Numbers
<1>1. CASE \E k \in Kernels : k > owned /\ KernelTxn(k)
    BY <1>1, KernelTxnStep
<1>2. CASE OtherTxn
  <2> USE <1>2 DEF OtherTxn, Ready
  <2>1. snaps' \in Seq(Snapshots)
    <3>1. Snapshot \in Snapshots
        BY DEF Snapshot, Snapshots, BInv, TypeOK
    <3> QED
        BY <3>1
  <2>2. TypeOK'
      BY <2>1 DEF BInv, TypeOK
  <2> QED
      BY <2>2 DEF BInv, NewestOwned, Steps, DefaultInv, RunningThere, RunningInv,
                  OwnedDefault, Accepted
<1>3. CASE retain_running_kernel
    BY <1>3, RetainStep
<1>4. CASE drop_stale_kernels
  <2> USE <1>4 DEF drop_stale_kernels
  <2>1. /\ boot' \subseteq boot /\ owned \in boot' /\ running \in boot'
        /\ env.default \in boot => env.default \in boot'
      BY DEF BInv, RunningThere
  <2>2. TypeOK'
      BY <2>1 DEF BInv, TypeOK
  <2> QED
      BY <2>1, <2>2 DEF BInv, NewestOwned, Steps, DefaultInv, RunningThere, RunningInv,
                        OwnedDefault, Accepted
<1>5. CASE grub_update_rearm
  <2> USE <1>5 DEF grub_update_rearm, WriteCfg
  <2> DEFINE def == Or(default_kernel, Or(running_kernel, owned))
  <2>1. kv' = IF owned # def THEN Env(def, TRUE, owned) ELSE Env(def, FALSE, None)
      OBVIOUS
  <2>2. pc \in {"idle", "rearm"} /\ running \in boot /\ running # None /\ None \notin boot
      BY BootAssumption DEF BInv, RunningThere, Ready
  <2>3. \/ def = env.default /\ env.default \in boot
        \/ def = running /\ env.default \notin boot
      BY <2>2 DEF Or, default_kernel, running_kernel, Present
  <2>4. def \in boot /\ def \in Accepted
      BY <2>2, <2>3 DEF BInv, DefaultInv, Accepted
  <2>5. def = owned => running \in chosen \cup {owned}
      BY <2>2, <2>3 DEF BInv, RunningInv, OwnedDefault
  <2> HIDE DEF def
  <2>6. Accepted' = Accepted /\ confirmed' \subseteq Kernels
      BY DEF Accepted, BInv, TypeOK
  <2>7. CASE owned # def
      BY <2>1, <2>2, <2>4, <2>6, <2>7, WriteStep
  <2>8. CASE owned = def
      BY <2>1, <2>2, <2>4, <2>5, <2>6, <2>8, WriteStep
  <2> QED
      BY <2>7, <2>8
<1>6. CASE grub_update_keep
  <2> USE <1>6 DEF grub_update_keep, WriteCfg
  <2>1. default_kernel = env.default /\ env.default \in boot /\ env.default # None
      BY BootAssumption DEF BInv, DefaultInv, default_kernel, Present
  <2>2. kv' = Env(env.default, env.try, pending_kernel)
      BY <2>1 DEF Or
  <2>3. pending_kernel \in boot \cup {None} /\ env.try \in BOOLEAN
      BY DEF pending_kernel, Present, BInv, TypeOK, Envs
  <2>4. env.default = owned => pending_kernel = None /\ running \in chosen \cup {owned}
      BY DEF BInv, RunningInv, OwnedDefault, pending_kernel, Present
  <2> QED
      BY <2>1, <2>2, <2>3, <2>4, WriteStep DEF BInv, DefaultInv, TypeOK, Accepted
<1>7. CASE grubenv_write
  <2> USE <1>7 DEF grubenv_write
  <2>1. pc = "env" /\ pc' = "idle"
      BY DEF BInv, Steps
  <2>2. TypeOK'
      BY <2>1 DEF BInv, TypeOK
  <2> QED
      BY <2>1, <2>2 DEF BInv, NewestOwned, Steps, DefaultInv, RunningThere, RunningInv,
                        OwnedDefault, Accepted
<1>8. CASE grub_try
  <2> USE <1>8 DEF grub_try, WriteCfg, Ready
  <2>1. default_kernel = env.default /\ env.default \in boot /\ env.default # None
      BY BootAssumption DEF BInv, DefaultInv, default_kernel, Present
  <2>2. kv' = Env(env.default, TRUE, owned) /\ env.default # owned
      BY <2>1 DEF Or
  <2> QED
      BY <2>1, <2>2, WriteStep DEF BInv, DefaultInv, TypeOK, Accepted
<1>9. CASE grub_confirm
  <2> USE <1>9 DEF grub_confirm, Ready
  <2>1. running \in boot
      BY DEF running_kernel, pending_kernel, Present
  <2> QED
      BY <2>1, WriteStep DEF BInv, TypeOK, Accepted
<1>10. CASE grub_confirm_fell_back
  <2> USE <1>10 DEF grub_confirm_fell_back, WriteCfg, Ready
  <2>1. default_kernel = env.default /\ env.default \in boot
      BY DEF BInv, DefaultInv, default_kernel, Present
  <2>2. env.pending # None
      BY DEF pending_kernel, Present
  <2>3. env.default # owned
      BY <2>2 DEF BInv, RunningInv, OwnedDefault
  <2> QED
      BY <2>1, <2>3, WriteStep DEF BInv, DefaultInv, TypeOK, Accepted
<1>11. CASE Reboot
    BY <1>11, BootStep DEF Reboot, AtRest, BInv, Steps
<1>12. CASE ConfirmUnhealthy
    BY <1>12, BootStep DEF ConfirmUnhealthy, Ready
<1>13. CASE UNCHANGED vars
  <2> USE <1>13 DEF vars, BInv
  <2>1. TypeOK'
      BY DEF TypeOK
  <2>2. NewestOwned' /\ Steps'
      BY DEF NewestOwned, Steps
  <2>3. DefaultInv' /\ RunningThere'
      BY DEF DefaultInv, RunningThere, Accepted
  <2>4. RunningInv'
      BY DEF RunningInv, OwnedDefault
  <2> QED
      BY <2>1, <2>2, <2>3, <2>4
<1> QED
    BY <1>1, <1>2, <1>3, <1>4, <1>5, <1>6, <1>7, <1>8, <1>9, <1>10, <1>11, <1>12,
       <1>13 DEF Commands

-----------------------------------------------------------------------------
(***************************************************************************)
(* The default has its file, also after downgrades and rollbacks.  Every   *)
(* root, the present one and those in the snapshots, holds the kernel of   *)
(* its own grain, so there is a newest one to fall back on; and between    *)
(* the two writes of grub_update the menu is that of /boot and the block   *)
(* about to be written names a kernel of it.                               *)
(***************************************************************************)
Roots == {s \in Snapshots : s.owned \in s.boot}

FileInv ==
    /\ TypeOK
    /\ owned \in boot /\ snaps \in Seq(Roots)
    /\ AtRest \/ pc \in {"env", "env_reboot"} => menu = boot
    /\ AtRest => env.default \in boot
    /\ pc \in {"env", "env_reboot"} => kv.default \in boot

LEMMA FileInit == Init => FileInv
<1> SUFFICES ASSUME Init PROVE FileInv
    OBVIOUS
<1>1. TypeOK
    BY InvInit DEF BInv
<1> QED
    BY <1>1 DEF Init, FileInv, Env, AtRest

\* There is a newest kernel in /boot, in the menu and in every snapshot.
LEMMA NewestThere ==
    ASSUME FileInv
    PROVE  /\ Newest \in boot /\ None \notin boot /\ boot \subseteq Kernels
           /\ menu # {} => NewestOf(menu) \in menu
           /\ \A n \in 1..Len(snaps) : NewestOf(snaps[n].boot) \in Kernels
<1>1. boot \in SUBSET Kernels /\ boot # {} /\ menu \in SUBSET Kernels
    BY DEF FileInv, TypeOK
<1>2. \E k \in boot : \A j \in boot : j <= k
    BY <1>1, NewestAssumption
<1>3. menu # {} => \E k \in menu : \A j \in menu : j <= k
    BY <1>1, NewestAssumption
<1>4. \A n \in 1..Len(snaps) : snaps[n].boot \in SUBSET Kernels /\ snaps[n].boot # {}
    BY DEF FileInv, Roots, Snapshots
<1>5. \A n \in 1..Len(snaps) : NewestOf(snaps[n].boot) \in snaps[n].boot
    BY <1>4, NewestAssumption DEF NewestOf
<1> QED
    BY <1>1, <1>2, <1>3, <1>4, <1>5, BootAssumption DEF Newest, NewestOf

\* grub.cfg is written, and a block prepared whose default is there.
LEMMA FileWrite ==
    ASSUME FileInv, NEW d \in boot, NEW t \in BOOLEAN, NEW p \in Kernels \cup {None},
           pc' \in {"env", "env_reboot"}, menu' = boot, kv' = Env(d, t, p),
           confirmed' \subseteq Kernels,
           UNCHANGED <<boot, owned, env, snaps, running, up, why, chosen, reverted>>
    PROVE  FileInv'
<1>1. d \in Kernels \cup {None}
    BY DEF FileInv, TypeOK
<1>2. kv' \in Envs /\ kv'.default = d
    BY <1>1, EnvParts
<1>3. TypeOK'
    BY <1>2 DEF FileInv, TypeOK
<1> QED
    BY <1>2, <1>3 DEF FileInv, AtRest

\* A transaction or a rollback keeps the root it leaves as a snapshot.
LEMMA FileSnapshot ==
    ASSUME FileInv, snaps' = Append(snaps, Snapshot)
    PROVE  snaps' \in Seq(Roots) /\ snaps' \in Seq(Snapshots)
<1>1. Snapshot \in Roots
    BY DEF FileInv, TypeOK, Snapshot, Snapshots, Roots
<1>2. Snapshot \in Snapshots /\ snaps \in Seq(Snapshots) /\ snaps \in Seq(Roots)
    BY <1>1 DEF Roots, FileInv, TypeOK
<1>3. snaps' \in Seq(Roots)
    BY <1>1, <1>2
<1>4. snaps' \in Seq(Snapshots)
    BY <1>2
<1> QED
    BY <1>3, <1>4

\* A kernel is loaded: nothing on disk changes but the trial's flag.
LEMMA FileBoot ==
    ASSUME FileInv, NEW w \in {"reboot", "fallback", "menu"}, NEW k \in Kernels, NEW files,
           NEW step \in {"idle", "snapshot"}, AtRest, Load(w, k, files, step),
           chosen' \subseteq Kernels
    PROVE  FileInv'
<1> USE DEF Load
<1>1. env \in Envs
    BY DEF FileInv, TypeOK
<1>2. env' \in Envs /\ env'.default = env.default
    BY <1>1 DEF Envs
<1>3. up' \in BOOLEAN
    OBVIOUS
<1>4. TypeOK'
    BY <1>2, <1>3 DEF FileInv, TypeOK
<1> QED
    BY <1>2, <1>4 DEF FileInv, AtRest

LEMMA FileStep == FileInv /\ [Next]_vars => FileInv'
<1> SUFFICES ASSUME FileInv, [Next]_vars PROVE FileInv'
    OBVIOUS
<1>0. /\ default_kernel \in boot \cup {None} /\ pending_kernel \in Kernels \cup {None}
      /\ running_kernel \in boot \cup {None} /\ Newest \in boot /\ None \notin boot
      /\ boot \subseteq Kernels /\ env.try \in BOOLEAN
    BY NewestThere DEF default_kernel, pending_kernel, running_kernel, Present, FileInv,
       TypeOK, Envs
<1>1. CASE \E k \in Kernels : KernelTxn(k)
  <2> USE DEF KernelTxn
  <2>1. PICK k \in Kernels : KernelTxn(k)
      BY <1>1
  <2>2. snaps' \in Seq(Roots) /\ snaps' \in Seq(Snapshots)
      BY <2>1, FileSnapshot
  <2>3. boot' \subseteq Kernels /\ owned' \in boot' /\ owned' \in Kernels
      BY <1>0, <2>1
  <2>4. reverted' \in BOOLEAN
      BY <2>1
  <2>5. TypeOK'
      BY <2>1, <2>2, <2>3, <2>4 DEF FileInv, TypeOK
  <2> QED
      BY <2>1, <2>2, <2>3, <2>5 DEF FileInv, AtRest
<1>2. CASE OtherTxn
  <2>1. snaps' \in Seq(Roots) /\ snaps' \in Seq(Snapshots)
      BY <1>2, FileSnapshot DEF OtherTxn
  <2>2. TypeOK'
      BY <1>2, <2>1 DEF OtherTxn, FileInv, TypeOK
  <2> QED
      BY <1>2, <2>1, <2>2 DEF OtherTxn, FileInv, AtRest
<1>3. CASE retain_running_kernel
  <2> USE <1>3 DEF retain_running_kernel
  <2>1. boot \subseteq boot' /\ boot' \subseteq Kernels
      BY <1>0 DEF FileInv, TypeOK
  <2>2. TypeOK'
      BY <2>1 DEF FileInv, TypeOK
  <2> QED
      BY <2>1, <2>2 DEF FileInv, AtRest
<1>4. CASE drop_stale_kernels
  <2> USE <1>4 DEF drop_stale_kernels
  <2>1. boot' \subseteq boot /\ owned \in boot'
      BY DEF FileInv, AtRest
  <2>2. TypeOK'
      BY <2>1 DEF FileInv, TypeOK
  <2> QED
      BY <2>1, <2>2 DEF FileInv, AtRest
<1>5. CASE grub_update_rearm
  <2> USE <1>5 DEF grub_update_rearm, WriteCfg
  <2> DEFINE def == Or(default_kernel, Or(running_kernel, Newest))
  <2>1. def \in boot
      BY <1>0 DEF Or
  <2>2. \/ kv' = Env(def, TRUE, Newest)
        \/ kv' = Env(def, FALSE, None)
      OBVIOUS
  <2> HIDE DEF def
  <2>3. confirmed' \subseteq Kernels
      BY DEF FileInv, TypeOK
  <2>4. CASE kv' = Env(def, TRUE, Newest)
      BY <1>0, <2>1, <2>3, <2>4, FileWrite
  <2>5. CASE kv' = Env(def, FALSE, None)
      BY <1>0, <2>1, <2>3, <2>5, FileWrite
  <2> QED
      BY <2>2, <2>4, <2>5
<1>6. CASE grub_update_keep
  <2> USE <1>6 DEF grub_update_keep, WriteCfg
  <2>1. Or(default_kernel, Or(running_kernel, Newest)) \in boot
      BY <1>0 DEF Or
  <2>2. confirmed' \subseteq Kernels
      BY DEF FileInv, TypeOK
  <2> QED
      BY <1>0, <2>1, <2>2, FileWrite
<1>7. CASE grub_update_rollback \/ grub_confirm_fell_back
  <2>1. confirmed' \subseteq Kernels
      BY <1>7 DEF FileInv, TypeOK, grub_update_rollback, grub_confirm_fell_back, WriteCfg
  <2>2. CASE grub_update_rollback
      BY <1>0, <2>1, <2>2, FileWrite DEF grub_update_rollback, WriteCfg
  <2>3. CASE grub_confirm_fell_back
    <3>1. default_kernel \in boot
        BY <2>3 DEF grub_confirm_fell_back, Ready, FileInv, AtRest, default_kernel, Present
    <3> QED
        BY <3>1, <2>1, <2>3, FileWrite DEF grub_confirm_fell_back, WriteCfg
  <2> QED
      BY <1>7, <2>2, <2>3
<1>8. CASE grub_try
  <2>1. Or(default_kernel, Newest) \in boot /\ confirmed' \subseteq Kernels
      BY <1>0, <1>8 DEF Or, grub_try, WriteCfg, FileInv, TypeOK
  <2> QED
      BY <1>0, <1>8, <2>1, FileWrite DEF grub_try, WriteCfg
<1>9. CASE grub_confirm
  <2>1. running \in boot
      BY <1>9 DEF grub_confirm, running_kernel, pending_kernel, Present
  <2>2. confirmed' \subseteq Kernels
      BY <1>0, <1>9, <2>1 DEF grub_confirm, FileInv, TypeOK
  <2> QED
      BY <1>9, <2>1, <2>2, FileWrite DEF grub_confirm
<1>10. CASE grubenv_write
  <2> USE <1>10 DEF grubenv_write
  <2>1. TypeOK'
      BY DEF FileInv, TypeOK
  <2> QED
      BY <2>1 DEF FileInv, AtRest
<1>11. CASE Reboot \/ ConfirmUnhealthy
  <2>1. chosen' \subseteq Kernels /\ AtRest
      BY <1>11 DEF Reboot, ConfirmUnhealthy, Ready, AtRest, GrubBoots, FileInv, TypeOK
  <2>2. Selected \in Kernels
      BY <2>1, NewestThere DEF FileInv, TypeOK, Selected
  <2> QED
      BY <1>11, <2>1, <2>2, FileBoot DEF Reboot, ConfirmUnhealthy, GrubBoots
<1>12. CASE \E k \in menu : ChooseKernel(k)
  <2>1. PICK k \in menu : ChooseKernel(k)
      BY <1>12
  <2>2. k \in Kernels /\ chosen' \subseteq Kernels
      BY <2>1 DEF ChooseKernel, FileInv, TypeOK
  <2> QED
      BY <2>1, <2>2, FileBoot DEF ChooseKernel
<1>13. CASE \E n \in 1..Len(snaps) : ChooseSnapshot(n)
  <2>1. PICK n \in 1..Len(snaps) : ChooseSnapshot(n)
      BY <1>13
  <2>2. NewestOf(snaps[n].boot) \in Kernels
      BY NewestThere
  <2>3. chosen' \subseteq Kernels
      BY <2>1, <2>2 DEF ChooseSnapshot, FileInv, TypeOK
  <2> QED
      BY <2>1, <2>2, <2>3, FileBoot DEF ChooseSnapshot
<1>14. CASE \E n \in 1..Len(snaps) : Rollback(n)
  <2> USE DEF Rollback
  <2>1. PICK n \in 1..Len(snaps) : Rollback(n)
      BY <1>14
  <2>2. snaps[n] \in Roots
      BY DEF FileInv, AtRest
  <2>3. boot' \subseteq Kernels /\ owned' \in boot' /\ owned' \in Kernels /\ menu' \subseteq Kernels
      BY <2>1, <2>2 DEF Roots, Snapshots
  <2>4. snaps' \in Seq(Roots) /\ snaps' \in Seq(Snapshots)
      BY <2>1, FileSnapshot
  <2>5. TypeOK'
      BY <2>1, <2>3, <2>4 DEF FileInv, TypeOK
  <2> QED
      BY <2>1, <2>3, <2>4, <2>5 DEF FileInv, AtRest
<1>15. CASE UNCHANGED vars
  <2>1. TypeOK'
      BY <1>15 DEF vars, FileInv, TypeOK
  <2> QED
      BY <1>15, <2>1 DEF vars, FileInv, AtRest
<1> QED
    BY <1>1, <1>2, <1>3, <1>4, <1>5, <1>6, <1>7, <1>8, <1>9, <1>10, <1>11, <1>12,
       <1>13, <1>14, <1>15 DEF Next, Commands

LEMMA FileInvariance == Spec => []FileInv
    BY FileInit, FileStep, PTL DEF Spec

\* Type correctness of the kernel update machinery, with all commands.
THEOREM TypeCorrect == Spec => []TypeOK
<1>1. FileInv => TypeOK
    BY DEF FileInv
<1> QED
    BY <1>1, FileInvariance, PTL

\* After every command, also a downgrade or a rollback, the default kernel has
\* its file and its menu entry: grub_update never names a kernel that is not
\* there.
THEOREM DefaultIsThere == Spec => []DefaultBootable
<1>1. FileInv => DefaultBootable
    BY DEF FileInv, DefaultBootable
<1> QED
    BY <1>1, FileInvariance, PTL
-----------------------------------------------------------------------------
\* Updates keep the invariant.
THEOREM Invariance == UpdateSpec => []BInv
<1>1. Init => BInv
    BY InvInit
<1>2. BInv /\ [Commands]_vars => BInv'
    BY InvStep
<1> QED
    BY <1>1, <1>2, PTL DEF UpdateSpec

\* Once an older kernel was installed or an earlier root restored, that stays
\* recorded.
LEMMA RevertedStays == reverted /\ [Next]_vars => reverted'
    BY DEF Load, ChooseKernel, ChooseSnapshot, Next, Commands, vars, KernelTxn, OtherTxn, retain_running_kernel,
           drop_stale_kernels, grub_update_rearm, grub_update_keep, WriteCfg,
           grubenv_write, grub_try, grub_confirm, grub_confirm_fell_back, Reboot,
           ConfirmUnhealthy, GrubBoots, Rollback, grub_update_rollback

\* Until then, the invariant is kept.
LEMMA UntilReverted ==
    ASSUME BInv, FileInv, [Next]_vars
    PROVE  reverted' \/ BInv'
<1>1. CASE [Commands]_vars
    BY <1>1, InvStep
<1>2. CASE \E k \in menu : ChooseKernel(k)
    BY <1>2, ChooseKernelStep
<1>3. CASE \E n \in 1..Len(snaps) : ChooseSnapshot(n)
    BY <1>3, NewestThere, ChooseSnapshotStep
<1>4. CASE \E k \in Kernels : k < owned /\ KernelTxn(k)
    BY <1>4 DEF KernelTxn
<1>5. CASE \E n \in 1..Len(snaps) : Rollback(n)
    BY <1>5 DEF Rollback
<1>6. CASE grub_update_rollback
    BY <1>6 DEF grub_update_rollback, BInv, Steps
<1> QED
    BY <1>1, <1>2, <1>3, <1>4, <1>5, <1>6 DEF Next

\* With all commands, the invariant holds as long as nothing was reverted.
THEOREM InvarianceUntilReverted == Spec => [](reverted \/ BInv)
<1>1. Init => reverted \/ BInv
    BY InvInit
<1>2. FileInv /\ (reverted \/ BInv) /\ [Next]_vars => (reverted \/ BInv)'
    BY RevertedStays, UntilReverted
<1> QED
    BY <1>1, <1>2, FileInvariance, PTL DEF Spec

\* However kernels are updated, tried, confirmed, fallen back from and picked
\* from the menu, a kernel becomes the default only by salt boot confirm or
\* after the user booted it by hand (grub_update, grub_confirm), until a kernel
\* is downgraded or a root rolled back.
THEOREM OnlyConfirmedByDefault == Spec => []DefaultConfirmed
<1>1. reverted \/ BInv => DefaultConfirmed
    BY DEF BInv, DefaultInv, DefaultConfirmed, Accepted
<1> QED
    BY <1>1, InvarianceUntilReverted, PTL

\* With the same exceptions, a boot of a kernel that was neither confirmed nor
\* chosen by hand uses up an armed trial.
THEOREM UntestedUsesTrial == Spec => UntestedOnlyOnTrial
<1>1. (reverted \/ BInv) /\ [Next]_vars
        => [(Reboot \/ ConfirmUnhealthy) /\ running' \notin confirmed \cup chosen
                => reverted \/ env.try]_vars
  <2> SUFFICES ASSUME BInv, ~env.try, Reboot \/ ConfirmUnhealthy
               PROVE  running' \in confirmed \cup chosen
      OBVIOUS
  <2>1. pc \in {"idle", "snapshot"}
      BY DEF Reboot, ConfirmUnhealthy, Ready, AtRest, BInv, Steps
  <2>2. Selected = env.default
      BY <2>1, BootsDefault
  <2>3. running' = Selected
      BY DEF Reboot, ConfirmUnhealthy, GrubBoots, Load
  <2> QED
      BY <2>2, <2>3 DEF BInv, DefaultInv, Accepted
<1> QED
    BY <1>1, InvarianceUntilReverted, PTL DEF Spec, UntestedOnlyOnTrial

=============================================================================
