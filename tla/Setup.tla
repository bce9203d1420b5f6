------------------------------- MODULE Setup --------------------------------
(***************************************************************************)
(* salt-setup, the installer (src/setup): the answers it accepts, the disk *)
(* it partitions or the prepared target it finds, the system it lays down, *)
(* and the attempts that follow a failed one with the same answers.        *)
(*                                                                         *)
(* Every tool it runs may fail, which ends the process where it stands:    *)
(* partitions, mounts and an open LUKS mapping stay behind.  A partition   *)
(* is [code, fs, inner, uuid, old]: inner is what a LUKS container holds,  *)
(* uuid the attempt that formatted it (0: before the first), old whether   *)
(* it was there before the first attempt.                                  *)
(***************************************************************************)
EXTENDS Integers, Sequences, FiniteSets

CONSTANTS
    Machines,       \* the machines and answers salt-setup is started with:
                    \* cfg, live, and disk, free, mapper, mounts, bound
    SwapMib,        \* swap_size_mib: the size of a swap partition, in MiB
    MaxAttempts,    \* bound: attempts at an installation
    None

ASSUME SetupAssumption == SwapMib \in Nat /\ MaxAttempts \in Nat

\* Partition types and filesystems; salt-setup does not tell others apart.
Codes == {"EF02", "EF00", "8200", "8300", "other"}
Filesystems == {"none", "vfat", "ext4", "btrfs", "swap", "luks", "other"}
Partitions ==
    [code : Codes, fs : Filesystems, inner : Filesystems, uuid : Nat, old : BOOLEAN]

\* The medium's file in sudoers.d; validate admits no slash in a user's name.
LiveRule == "sudoers.d/salt"

\* The answers are among those validate admits, and the medium ships
\* NetworkManager's service only with NetworkManager.
ASSUME MachinesAssumption ==
    \A m \in Machines :
        /\ m.disk \in Seq(Partitions)
        /\ m.cfg.filesystem \in {"btrfs", "ext4"}
        /\ m.cfg.create_user => m.cfg.username # LiveRule
        /\ "NetworkManager" \in m.live.services => m.live.nm

VARIABLES
    cfg,        \* the answers (setup::Config)
    live,       \* what the medium ships, and the firmware it was booted by
    attempt,    \* the number of the attempt
    at,         \* the function of main that comes next, "exit" or "done"
    todo,       \* the commands of partition_disk still to run
    lay,        \* Layout: partition numbers by role (0: none), and mounts
    disk,       \* the partitions of the disk, by number
    free,       \* MiB of its free space
    mapper,     \* the partition behind the open LUKS mapping, or 0
    mounts,     \* what is mounted below mnt, by role; top: .btrfs-top
    bound,      \* the live /dev, /proc, /sys and /run are below mnt
    target,     \* the system being installed
    why         \* why the attempt ended

machine == <<cfg, live>>
storage == <<disk, free, mapper, mounts>>
vars == <<cfg, live, attempt, at, todo, lay, disk, free, mapper, mounts,
          bound, target, why>>

Parts == DOMAIN disk
When(b, s) == IF b THEN s ELSE <<>>

\* The live account is named salt.
Live == "salt"

\* An empty filesystem.
Blank ==
    [accounts |-> {}, passwords |-> {}, sudoers |-> {}, root |-> "none",
     getty |-> None, session |-> None, profiles |-> {}, dirs |-> {}, enabled |-> {},
     fstab |-> {}, crypttab |-> None, swapfile |-> FALSE, stratum |-> "none",
     initrd |-> FALSE, loaders |-> {}, luks |-> None, rootflags |-> FALSE,
     cryptodisk |-> FALSE, config |-> FALSE]

NoLayout ==
    [bios |-> 0, esp |-> 0, boot |-> 0, swap |-> 0, root |-> 0,
     luks |-> 0, mounts |-> {}]

\* Mutant: the desktop is configured before the live pieces go.
Order_DesktopFirst ==
    <<"start", "layout", "base", "fstab", "bind", "user", "root", "network",
      "swap", "stratum", "desktop", "delive", "boot", "config", "finish">>

\* main, in order.
Order ==
    <<"start", "layout", "base", "fstab", "bind", "user", "root", "network",
      "swap", "stratum", "delive", "boot", "config", "desktop", "finish">>

After(s) == LET i == CHOOSE j \in DOMAIN Order : Order[j] = s IN Order[i + 1]

Init ==
    /\ \E m \in Machines :
          /\ cfg = m.cfg /\ live = m.live /\ disk = m.disk /\ free = m.free
          /\ mapper = m.mapper /\ mounts = m.mounts /\ bound = m.bound
    /\ attempt = 1 /\ at = "start" /\ todo = <<>> /\ lay = NoLayout
    /\ target = Blank /\ why = "none"

\* fail: the process ends and cleans nothing up.
Exit(reason) == at' = "exit" /\ why' = reason /\ todo' = <<>>

-----------------------------------------------------------------------------
(* The answers                                                             *)

\* The conditions of validate on the answers the model tells apart; the
\* others (names, sizes, enumerations) hold by the sets they are from.
validate ==
    /\ cfg.mode = "mounted" /\ cfg.swap = "partition" => cfg.swap_device # 0
    /\ cfg.swap_device # 0 => cfg.mode = "mounted" /\ cfg.swap = "partition"
    /\ cfg.sudo \/ cfg.root_password
    /\ cfg.root_size # 0 => cfg.mode = "alongside"

firmware_target ==
    CASE live.arch = "aarch64" -> "uefi"
      [] live.arch # "aarch64" /\ cfg.firmware # "auto" -> cfg.firmware
      [] OTHER -> IF live.booted_efi THEN "both" ELSE "bios"
WantsBios == firmware_target \in {"bios", "both"}
WantsEfi == firmware_target \in {"uefi", "both"}

Start ==
    /\ at = "start"
    /\ \/ validate /\ at' = After("start") /\ UNCHANGED <<todo, why>>
       \/ ~validate /\ Exit("config")
    /\ UNCHANGED <<machine, attempt, lay, storage, bound, target>>

-----------------------------------------------------------------------------
(* partition_disk                                                          *)

Do(do, role) == [do |-> do, role |-> role]

Code(role) ==
    CASE role = "bios" -> "EF02" [] role = "esp" -> "EF00"
      [] role = "swap" -> "8200" [] OTHER -> "8300"

\* The rest of the free space, when no size is given.
Size(role) ==
    CASE role = "bios" -> 1 [] role = "esp" -> 512 [] role = "boot" -> 1024
      [] role = "swap" -> SwapMib
      [] OTHER -> IF cfg.root_size = 0 THEN free ELSE cfg.root_size

Need ==
    512 + (IF cfg.encrypt THEN 1024 ELSE 0) + 4096
        + (IF cfg.swap = "partition" THEN SwapMib ELSE 0)

\* The first partition of a type, which an installation alongside reuses.
Existing(code) ==
    LET found == {p \in Parts : disk[p].code = code}
    IN  IF cfg.mode = "erase" \/ found = {} THEN 0
        ELSE CHOOSE p \in found : \A q \in found : p <= q

\* Mutant: the ESP is formatted whether it is new or not.
FormatEsp_Always == <<Do("vfat", "esp")>>

\* esp_is_new
FormatEsp == When(Existing("EF00") = 0, <<Do("vfat", "esp")>>)

\* The commands partition_disk runs, in order.
partition_disk ==
    When(cfg.mode = "erase", <<Do("zap", "root")>>)
    \o When(WantsBios /\ Existing("EF02") = 0, <<Do("new", "bios")>>)
    \o When(Existing("EF00") = 0, <<Do("new", "esp")>>)
    \o When(cfg.encrypt, <<Do("new", "boot")>>)
    \o When(cfg.swap = "partition", <<Do("new", "swap")>>)
    \o <<Do("new", "root")>>
    \o FormatEsp
    \o When(cfg.encrypt, <<Do("ext4", "boot"), Do("luksFormat", "root"),
                           Do("open", "root")>>)
    \o <<Do(cfg.filesystem, "root")>>
    \o When(cfg.swap = "partition" /\ ~cfg.encrypt, <<Do("swap", "swap")>>)
    \o When(cfg.filesystem = "btrfs", <<Do("top", "root"), Do("subvolumes", "root")>>)
    \o <<Do("mount", "root")>>
    \o When(cfg.encrypt, <<Do("mount", "boot")>>)
    \o <<Do("mount", "esp")>>

\* Mutant: what an earlier attempt mounted is left there.
Unmounted_Not(ms) == ms

\* umount -R of mnt, which reaches .btrfs-top only once mnt is mounted.
Unmounted(ms) == [ms EXCEPT !.root = 0, !.boot = 0, !.esp = 0]

Partition ==
    /\ at = "layout" /\ todo = <<>> /\ cfg.mode # "mounted"
    /\ mounts' = Unmounted(mounts)
    /\ bound' = FALSE
    /\ \/ /\ cfg.mode = "alongside" /\ ~live.gpt
          /\ Exit("gpt") /\ UNCHANGED lay
       \/ /\ cfg.mode = "alongside" /\ live.gpt /\ free < Need
          /\ Exit("space") /\ UNCHANGED lay
       \/ /\ cfg.mode = "alongside" => live.gpt /\ free >= Need
          /\ lay' = [NoLayout EXCEPT !.esp = Existing("EF00"),
                                     !.bios = Existing("EF02")]
          /\ todo' = partition_disk
          /\ UNCHANGED <<at, why>>
    /\ UNCHANGED <<machine, attempt, disk, free, mapper, target>>

-----------------------------------------------------------------------------
(* The commands: sgdisk, mkfs, cryptsetup, mount                           *)

NewPart(role) ==
    [code |-> Code(role), fs |-> "none", inner |-> "none", uuid |-> 0, old |-> FALSE]

\* The filesystem of a partition, or inside of it, as blkid names it.
FsId(p) == <<p, IF disk[p].fs = "luks" THEN "inner" ELSE "outer", disk[p].uuid>>
LuksId(p) == <<p, "outer", disk[p].uuid>>

Where(role) ==
    CASE role = "root" -> "/" [] role = "boot" -> "/boot" [] OTHER -> "/boot/efi"

\* What the state of the disk makes a command fail with; the kernel refuses
\* to format what is in use, and a mapping of that name exists only once.
Refusal(c) ==
    LET p == lay[c.role] IN
    CASE c.do = "new" /\ (Size(c.role) > free \/ free = 0) -> "space"
      [] c.do \in {"vfat", "ext4", "btrfs", "swap"}
            /\ p \in {mounts[r] : r \in DOMAIN mounts} -> "busy"
      [] c.do \in {"luksFormat", "open"} /\ mapper # 0 -> "inuse"
      [] c.do = "mount" /\ c.role = "esp" /\ disk[p].fs # "vfat" -> "esp"
      [] OTHER -> "none"

Zap(c) ==
    /\ c.do = "zap"
    /\ disk' = <<>> /\ free' = live.size
    /\ UNCHANGED <<lay, mapper, mounts, target>>

new_part(c) ==
    /\ c.do = "new"
    /\ disk' = Append(disk, NewPart(c.role))
    /\ free' = free - Size(c.role)
    /\ lay' = [lay EXCEPT ![c.role] = Len(disk) + 1]
    /\ UNCHANGED <<mapper, mounts, target>>

mkfs(c) ==
    /\ c.do \in {"vfat", "ext4", "btrfs", "swap"}
    /\ disk' = IF c.role = "root" /\ lay.luks # 0
               THEN [disk EXCEPT ![lay.root].inner = c.do]
               ELSE [disk EXCEPT ![lay[c.role]].fs = c.do,
                                 ![lay[c.role]].uuid = attempt]
    /\ target' = IF c.role = "root" THEN Blank ELSE target
    /\ UNCHANGED <<lay, free, mapper, mounts>>

luks_format_open(c) ==
    \/ /\ c.do = "luksFormat"
       /\ disk' = [disk EXCEPT ![lay.root].fs = "luks", ![lay.root].inner = "none",
                               ![lay.root].uuid = attempt]
       /\ UNCHANGED <<lay, free, mapper, mounts, target>>
    \/ /\ c.do = "open"
       /\ mapper' = lay.root
       /\ lay' = [lay EXCEPT !.luks = lay.root]
       /\ UNCHANGED <<disk, free, mounts, target>>

\* The top-level volume is mounted to create the subvolumes in.
Subvolumes(c) ==
    /\ c.do \in {"top", "subvolumes"}
    /\ mounts' = [mounts EXCEPT !.top = IF c.do = "top" THEN lay.root ELSE 0]
    /\ UNCHANGED <<lay, disk, free, mapper, target>>

Mount(c) ==
    /\ c.do = "mount"
    /\ mounts' = [mounts EXCEPT ![c.role] = lay[c.role]]
    /\ lay' = [lay EXCEPT !.mounts =
                  @ \cup {[where |-> Where(c.role), id |-> FsId(lay[c.role])]}]
    /\ UNCHANGED <<disk, free, mapper, target>>

Command ==
    /\ at = "layout" /\ todo # <<>>
    /\ LET c == Head(todo) IN
       \/ /\ Refusal(c) # "none"
          /\ Exit(Refusal(c))
          /\ UNCHANGED <<lay, storage, target>>
       \/ /\ Refusal(c) = "none"
          /\ Zap(c) \/ new_part(c) \/ mkfs(c) \/ luks_format_open(c)
                \/ Subvolumes(c) \/ Mount(c)
          /\ todo' = Tail(todo)
          /\ at' = IF Tail(todo) = <<>> THEN After("layout") ELSE at
          /\ UNCHANGED why
    /\ UNCHANGED <<machine, attempt, bound>>

-----------------------------------------------------------------------------
(* discover_mounted                                                        *)

\* A mapping is named in fstab by its path, a partition by its UUID.
FoundId(p) == IF p = mapper THEN <<p, "mapper", 0>> ELSE FsId(p)
FormatsSwap ==
    cfg.swap = "partition" /\ ~cfg.encrypt /\ disk[cfg.swap_device].fs # "swap"

discover_mounted ==
    /\ at = "layout" /\ cfg.mode = "mounted"
    /\ \/ mounts.root = 0 /\ Exit("unmounted") /\ UNCHANGED <<lay, disk>>
       \/ /\ mounts.root # 0
          /\ disk' = IF FormatsSwap
                     THEN [disk EXCEPT ![cfg.swap_device].fs = "swap",
                                       ![cfg.swap_device].uuid = attempt]
                     ELSE disk
          /\ lay' = [NoLayout EXCEPT
                        !.root = mounts.root, !.boot = mounts.boot,
                        !.esp = mounts.esp, !.swap = cfg.swap_device,
                        !.luks = IF mapper = mounts.root THEN mapper ELSE 0,
                        !.mounts = {[where |-> Where(r), id |-> FoundId(mounts[r])] :
                                    r \in {x \in {"root", "boot", "esp"} : mounts[x] # 0}}]
          /\ \/ mounts.esp = 0 /\ WantsEfi /\ Exit("esp")
             \/ /\ mounts.esp # 0 \/ ~WantsEfi
                /\ at' = After("layout") /\ UNCHANGED <<todo, why>>
    /\ UNCHANGED <<machine, attempt, free, mapper, mounts, bound, target>>

-----------------------------------------------------------------------------
(* The system is laid down.                                                *)

\* The live system, over what an earlier attempt left: its files come back,
\* files it does not have stay.
Based(t) ==
    [t EXCEPT !.accounts = {Live}, !.passwords = {}, !.root = "live",
              !.sudoers = @ \cup {LiveRule}, !.getty = Live,
              !.profiles = @ \cup {Live},
              !.dirs = @ \cup live.services, !.enabled = @ \cup live.services]

lay_down_base ==
    /\ at = "base"
    /\ bound' = FALSE                  \* unmount_pseudo
    /\ target' = Based(target)
    /\ at' = After("base")
    /\ UNCHANGED <<machine, attempt, todo, lay, storage, why>>

bind_pseudo ==
    /\ at = "bind"
    /\ bound' = TRUE
    /\ at' = After("bind")
    /\ UNCHANGED <<machine, attempt, todo, lay, storage, target, why>>

\* A function of main that only changes the target.
Step(s, t) ==
    /\ at = s
    /\ target' = t
    /\ at' = After(s)
    /\ UNCHANGED <<machine, attempt, todo, lay, storage, bound, why>>

SwapEntry ==
    IF lay.swap = 0 THEN {}
    ELSE {[where |-> "swap",
           id |-> IF cfg.encrypt THEN <<lay.swap, "random", 0>> ELSE FsId(lay.swap)]}

write_fstab(t) ==
    [t EXCEPT !.fstab = lay.mounts \cup SwapEntry
                \cup (IF cfg.swap = "file" THEN {[where |-> "swap", id |-> <<0, "file", 0>>]}
                                           ELSE {}),
              !.crypttab = IF lay.luks = 0 THEN @ ELSE LuksId(lay.luks)]

\* sv_enable: a service without a directory is not enabled.
sv_enable(t, s) == IF s \in t.dirs THEN [t EXCEPT !.enabled = @ \cup {s}] ELSE t
sv_write(t, s) == [t EXCEPT !.dirs = @ \cup {s}]
sv_disable(t, S) == [t EXCEPT !.enabled = @ \ S]

setup_swap(t) ==
    CASE cfg.swap = "file" -> [t EXCEPT !.swapfile = TRUE]
      [] cfg.swap = "zram" -> sv_enable(sv_write(t, "zram-swap"), "zram-swap")
      [] cfg.swap = "partition" /\ cfg.encrypt ->
            sv_enable(sv_write(t, "crypt-swap"), "crypt-swap")
      [] OTHER -> t

-----------------------------------------------------------------------------
(* Accounts, network, desktop                                              *)

\* useradd, or usermod when the account is there already.
create_user(t) ==
    IF ~cfg.create_user THEN t
    ELSE [t EXCEPT !.accounts = @ \cup {cfg.username},
                   !.passwords = @ \cup {cfg.username},
                   !.sudoers = IF cfg.sudo THEN @ \cup {cfg.username} ELSE @]

configure_root(t) ==
    [t EXCEPT !.root = IF cfg.root_password THEN "password" ELSE "locked"]

Clients == {"NetworkManager", "dhcpcd", "netdhcp"}

Managed(t) ==
    CASE live.nm -> sv_disable(sv_enable(sv_write(t, "NetworkManager"), "NetworkManager"),
                               {"netdhcp", "dhcpcd"})
      [] ~live.nm /\ "dhcpcd" \in t.dirs -> sv_enable(t, "dhcpcd")
      [] ~live.nm /\ "dhcpcd" \notin t.dirs /\ live.dhclient ->
            sv_enable(sv_write(t, "netdhcp"), "netdhcp")
      [] OTHER -> t

\* The Wi-Fi network is joined with live.wifi; iwd ships its own service.
configure_network(t) ==
    CASE cfg.network = "none" -> sv_disable(t, Clients)
      [] cfg.network = "dhcp" -> Managed(t)
      [] cfg.network = "wifi" /\ ~live.nm /\ live.wifi = "wpa_supplicant" ->
            sv_enable(sv_write(Managed(t), "wpa_supplicant"), "wpa_supplicant")
      [] cfg.network = "wifi" /\ ~live.nm /\ live.wifi = "iwd" ->
            sv_enable(Managed(t), "iwd")
      [] OTHER -> Managed(t)

\* Mutant: netdhcp counts as live-only.
LiveOnly_Netdhcp(t) == {"agetty-serial", "netdhcp"}

\* The services only the medium runs.
LiveOnly(t) ==
    {"agetty-serial"}
    \cup (IF cfg.network # "dhcp" \/ "NetworkManager" \in t.dirs
          THEN {"netdhcp"} ELSE {})

delive(t) ==
    LET stays == cfg.create_user /\ cfg.username = Live IN
    [t EXCEPT !.getty = IF cfg.autologin /\ cfg.create_user THEN cfg.username ELSE None,
              !.profiles = @ \ {Live},
              !.sudoers = @ \ {LiveRule},
              !.dirs = @ \ LiveOnly(t), !.enabled = @ \ LiveOnly(t),
              !.accounts = IF stays THEN @ ELSE @ \ {Live}]

\* session is the User of sddm's autologin.conf.  The new account has a home:
\* useradd -m made it, or the live one's came with the base.
configure_desktop(t) ==
    CASE cfg.desktop # "keep" -> sv_disable(t, {"sddm"})
      [] cfg.desktop = "keep" /\ live.sddm ->
            [sv_enable(sv_write(t, "sddm"), "sddm") EXCEPT
               !.session = IF cfg.autologin /\ cfg.create_user THEN cfg.username ELSE None]
      [] cfg.desktop = "keep" /\ ~live.sddm /\ cfg.create_user ->
            [t EXCEPT !.profiles = @ \cup {cfg.username}]
      [] OTHER -> t

-----------------------------------------------------------------------------
(* Stratum, bootloader, system.lua                                         *)

\* salt_stratum_bootstrap refuses a directory that is not empty.
bootstrap_stratum ==
    /\ target.stratum = "none"
    /\ Step("stratum", [target EXCEPT !.stratum = "exposed"])

StratumRefused ==
    /\ at = "stratum" /\ target.stratum # "none"
    /\ Exit("stratum")
    /\ UNCHANGED <<machine, attempt, lay, storage, bound, target>>

\* rootflags follow the answer; lay.mopts never names the subvolume.
RootFlags == cfg.filesystem = "btrfs"

\* grub-install for BIOS needs a BIOS boot partition on a GPT disk.
BiosInstallable == \E p \in Parts : disk[p].code = "EF02"

\* Mutant: the kernel is told the UUID of the filesystem in the container.
LuksArgs_Inner == IF lay.luks = 0 THEN None ELSE FsId(lay.luks)

\* rd.luks.uuid and rd.luks.name
LuksArgs == IF lay.luks = 0 THEN None ELSE LuksId(lay.luks)

Installed(t) ==
    [t EXCEPT !.initrd = IF live.dracut THEN lay.luks # 0 ELSE t.crypttab # None,
              !.luks = LuksArgs,
              !.rootflags = RootFlags,
              !.cryptodisk = lay.luks # 0 /\ lay.boot = 0,
              !.loaders = (IF WantsBios THEN {"bios"} ELSE {})
                            \cup (IF WantsEfi THEN {"uefi"} ELSE {})]

install_boot ==
    /\ WantsBios => BiosInstallable
    /\ Step("boot", Installed(target))

BootRefused ==
    /\ at = "boot" /\ WantsBios /\ ~BiosInstallable
    /\ Exit("bios")
    /\ UNCHANGED <<machine, attempt, lay, storage, bound, target>>

write_system_config(t) == [t EXCEPT !.config = TRUE]

\* The end of main.
Finish ==
    /\ at = "finish"
    /\ at' = "done"
    /\ bound' = FALSE
    /\ IF cfg.mode = "mounted" THEN UNCHANGED <<mapper, mounts>>
       ELSE mounts' = Unmounted(mounts) /\ mapper' = 0
    /\ UNCHANGED <<machine, attempt, todo, lay, disk, free, target, why>>

-----------------------------------------------------------------------------
(* Failures and further attempts                                           *)

\* A tool fails.  A bootstrap that fails may leave files behind; what the
\* other functions leave is made anew by the next attempt.
ToolFails ==
    /\ at \notin {"start", "delive", "finish", "exit", "done"}
    /\ Exit("tool")
    /\ bound' \in {bound, bound \/ at = "bind"}
    /\ target' \in {target, [target EXCEPT !.stratum =
                               IF at = "stratum" /\ @ = "none" THEN "partial" ELSE @]}
    /\ UNCHANGED <<machine, attempt, lay, storage>>

\* salt-setup is started again with the same answers, possibly after a
\* reboot of the medium, which unmounts and closes what was left.
Again(reboot) ==
    /\ at = "exit" /\ why # "config" /\ attempt < MaxAttempts
    /\ attempt' = attempt + 1
    /\ at' = "start" /\ why' = "none" /\ lay' = NoLayout
    /\ IF reboot
       THEN /\ cfg.mode # "mounted"
            /\ mapper' = 0 /\ mounts' = [r \in DOMAIN mounts |-> 0] /\ bound' = FALSE
       ELSE UNCHANGED <<mapper, mounts, bound>>
    /\ UNCHANGED <<machine, todo, disk, free, target>>

Next ==
    \/ Start \/ Partition \/ Command \/ discover_mounted
    \/ lay_down_base \/ bind_pseudo
    \/ Step("fstab", write_fstab(target))
    \/ Step("user", create_user(target))
    \/ Step("root", configure_root(target))
    \/ Step("network", configure_network(target))
    \/ Step("swap", setup_swap(target))
    \/ bootstrap_stratum \/ StratumRefused
    \/ Step("delive", delive(target))
    \/ install_boot \/ BootRefused
    \/ Step("config", write_system_config(target))
    \/ Step("desktop", configure_desktop(target))
    \/ Finish
    \/ ToolFails
    \/ \E reboot \in BOOLEAN : Again(reboot)

Spec == Init /\ [][Next]_vars

-----------------------------------------------------------------------------
Swaps(t) == {e \in t.fstab : e.where = "swap"}
RootIs(fs) == fs \in {disk[lay.root].fs, disk[lay.root].inner}

\* An entry of fstab names a filesystem or swap area that is there.
Resolves(e) ==
    LET p == e.id[1] IN
    CASE e.id[2] = "file" -> target.swapfile
      [] e.id[2] = "random" -> "crypt-swap" \in target.enabled \cap target.dirs
      [] e.id[2] = "mapper" -> target.luks = LuksId(p) /\ target.crypttab = LuksId(p)
      [] OTHER -> p \in Parts /\ e.id = FsId(p)

\* An installation that succeeds, be it the first attempt or a later one,
\* boots: fstab has one entry for / and names only what is there, an encrypted
\* root is opened by the initramfs, under the UUID the disk has now, GRUB can
\* read /boot, and the kernel is given rootflags exactly for a Btrfs root,
\* unless the answers name another filesystem than the prepared target has.
Bootable ==
    at = "done" =>
        /\ Cardinality({e \in target.fstab : e.where = "/"}) = 1
        /\ \A e \in target.fstab : Resolves(e)
        /\ IF disk[lay.root].fs = "luks"
           THEN /\ target.luks = LuksId(lay.root) /\ target.crypttab = target.luks
                /\ target.initrd
                /\ target.cryptodisk \/ lay.boot # 0
           ELSE target.luks = None
        /\ cfg.swap = "partition" => Cardinality(Swaps(target)) = 1
        /\ RootIs(cfg.filesystem) => (target.rootflags <=> RootIs("btrfs"))
        /\ target.stratum = "exposed" /\ target.loaders # {}

\* An installation alongside or into a prepared target never removes or
\* formats a partition that was there before the first attempt, whatever
\* fails and however often it is repeated; the one exception is the swap
\* device the answers name.
ExistingKept ==
    [][\A p \in Parts :
          /\ disk[p].old /\ cfg.mode # "erase" /\ disk'[p] # disk[p]
          => cfg.mode = "mounted" /\ p = cfg.swap_device]_vars

\* On the installed system the live account and its sudo rule are gone, the
\* account the answers ask for exists with its password, also when it is named
\* like the live one, and is the only one the console or the display manager
\* logs in by itself; the desktop kept is started for it; and somebody can become
\* root whenever an account or a root password was asked for.
AccountsRight ==
    at = "done" =>
        /\ target.accounts = (IF cfg.create_user THEN {cfg.username} ELSE {})
        /\ target.accounts \subseteq target.passwords
        /\ LiveRule \notin target.sudoers /\ target.root # "live"
        /\ target.getty \in {None} \cup target.accounts
        /\ cfg.desktop = "keep" /\ live.sddm => target.session \in {None} \cup target.accounts
        /\ cfg.desktop = "keep" /\ cfg.create_user =>
              "sddm" \in target.enabled \/ cfg.username \in target.profiles
        /\ cfg.create_user \/ cfg.root_password =>
              target.root = "password" \/ target.accounts \cap target.sudoers # {}

\* The installed system has a DHCP client that runs whenever the answers ask
\* for the network and the medium has one, NetworkManager alone where it is
\* there, and none when the answers say so.  (Wi-Fi without NetworkManager and
\* dhcpcd is left out: delive removes netdhcp, which configure_network had
\* just enabled.)
Networked ==
    at = "done" =>
        LET running == Clients \cap target.enabled \cap target.dirs IN
        /\ cfg.network = "none" => running = {}
        /\ cfg.network # "none" /\ live.nm => running = {"NetworkManager"}
        /\ cfg.network = "dhcp" /\ (live.dhclient \/ "dhcpcd" \in live.services)
              => running # {}
        /\ cfg.network = "wifi" /\ ~live.nm /\ "dhcpcd" \in live.services
              => running # {}

\* Whatever a failed attempt to install on an erased disk leaves on that disk,
\* the next one is not refused because of it: only a LUKS mapping that is
\* still open or the top-level volume still mounted is in its way, and a
\* reboot of the medium clears both.
EraseRepeats ==
    cfg.mode = "erase" /\ why \notin {"none", "tool", "config"}
        => attempt > 1 /\ (mapper # 0 \/ mounts.top # 0)

=============================================================================
