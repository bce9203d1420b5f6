------------------------------ MODULE MCSetup -------------------------------
(* Machines and answers for salt-setup.                                    *)
EXTENDS Setup, TLC

NoMounts == [top |-> 0, root |-> 0, boot |-> 0, esp |-> 0]

Old(code, fs, inner) ==
    [code |-> code, fs |-> fs, inner |-> inner, uuid |-> 0, old |-> TRUE]

\* Answers and media; each set of machines varies some of them.
Answers ==
    [mode |-> "erase", filesystem |-> "btrfs", encrypt |-> FALSE, swap |-> "none",
     swap_device |-> 0, root_size |-> 0, firmware |-> "auto", username |-> "ann",
     create_user |-> TRUE, sudo |-> TRUE, root_password |-> FALSE,
     autologin |-> FALSE, network |-> "dhcp", desktop |-> "none"]

Console ==
    [arch |-> "x86_64", booted_efi |-> TRUE, gpt |-> TRUE, size |-> 40000,
     dracut |-> FALSE, nm |-> FALSE, dhclient |-> TRUE, sddm |-> FALSE,
     wifi |-> "wpa_supplicant", services |-> {"netdhcp", "agetty-serial"}]

Machine(c, l, d, space, ms, mapping, bnd) ==
    [cfg |-> c, live |-> l, disk |-> d, free |-> space, mounts |-> ms,
     mapper |-> mapping, bound |-> bnd]

\* An erased disk, with another system on it, for every storage answer.
Erase ==
    {Machine([Answers EXCEPT !.filesystem = fs, !.encrypt = enc, !.swap = sw,
                             !.firmware = fw],
             [Console EXCEPT !.dracut = dr, !.arch = ar, !.booted_efi = be],
             <<Old("EF00", "vfat", "none"), Old("8300", "ext4", "none")>>,
             0, NoMounts, 0, FALSE) :
        fs \in {"btrfs", "ext4"}, enc \in BOOLEAN,
        sw \in {"none", "file", "partition", "zram"},
        fw \in {"auto", "uefi", "bios"}, dr \in BOOLEAN,
        ar \in {"x86_64", "aarch64"}, be \in BOOLEAN}

\* Free space beside another system, with and without an ESP and a BIOS boot
\* partition, just enough or plenty.
Alongside ==
    {Machine([Answers EXCEPT !.mode = "alongside", !.encrypt = enc, !.swap = sw,
                             !.root_size = rs],
             [Console EXCEPT !.gpt = gpt], d, space, NoMounts, 0, FALSE) :
        enc \in BOOLEAN, sw \in {"none", "partition"}, rs \in {0, 5000},
        gpt \in BOOLEAN, space \in {4608, 20000},
        d \in {<<Old("8300", "ext4", "none")>>,
               <<Old("EF00", "vfat", "none"), Old("8300", "ext4", "none")>>,
               <<Old("EF02", "none", "none"), Old("EF00", "vfat", "none"),
                 Old("8300", "ext4", "none")>>}}

\* Prepared targets: plain or encrypted, with and without /boot, an ESP and a
\* swap area; the answers may name another filesystem.
Prepared ==
    {Machine([Answers EXCEPT !.mode = "mounted", !.filesystem = fs, !.encrypt = enc,
                             !.swap = sw, !.swap_device = sd, !.firmware = fw],
             [Console EXCEPT !.dracut = dr],
             <<Old("EF00", "vfat", "none"),
               Old("8300", IF luks THEN "luks" ELSE root, IF luks THEN root ELSE "none"),
               Old("8200", area, "none"), Old("8300", "ext4", "none")>>,
             0,
             [NoMounts EXCEPT !.root = 2, !.esp = esp, !.boot = boot],
             IF luks THEN 2 ELSE 0, bnd) :
        fs \in {"btrfs", "ext4"}, root \in {"btrfs", "ext4"}, enc \in BOOLEAN,
        luks \in BOOLEAN, sw \in {"none", "file", "partition"}, sd \in {0, 3},
        area \in {"swap", "ext4"}, fw \in {"uefi", "both"}, dr \in BOOLEAN,
        esp \in {0, 1}, boot \in {0, 4}, bnd \in {FALSE, TRUE}}

\* Accounts, desktop and network, on a prepared target and an erased disk.
People ==
    {Machine([Answers EXCEPT !.mode = md, !.username = nm, !.create_user = cu,
                             !.sudo = su, !.root_password = rp, !.autologin = al,
                             !.desktop = dk, !.firmware = "uefi"],
             [Console EXCEPT !.sddm = dm],
             <<Old("EF00", "vfat", "none"), Old("8300", "btrfs", "none")>>, 0,
             IF md = "mounted" THEN [NoMounts EXCEPT !.root = 2, !.esp = 1]
                               ELSE NoMounts,
             0, FALSE) :
        md \in {"mounted", "erase"}, nm \in {"ann", Live}, cu \in BOOLEAN,
        su \in BOOLEAN, rp \in BOOLEAN, al \in BOOLEAN, dk \in {"keep", "none"},
        dm \in BOOLEAN}

Networks ==
    {Machine([Answers EXCEPT !.mode = md, !.network = nw, !.firmware = "uefi"],
             [Console EXCEPT !.nm = manager, !.dhclient = dh, !.wifi = wf,
                             !.services = sv],
             <<Old("EF00", "vfat", "none"), Old("8300", "btrfs", "none")>>, 0,
             IF md = "mounted" THEN [NoMounts EXCEPT !.root = 2, !.esp = 1]
                               ELSE NoMounts,
             0, FALSE) :
        md \in {"mounted", "erase"}, nw \in {"dhcp", "wifi", "none"},
        manager \in BOOLEAN, dh \in BOOLEAN, wf \in {"wpa_supplicant", "iwd"},
        sv \in {{"netdhcp"}, {"netdhcp", "NetworkManager"}, {"dhcpcd", "iwd"}, {}}}

\* A target that is not mounted.
Unprepared ==
    {Machine([Answers EXCEPT !.mode = "mounted"], Console,
             <<Old("8300", "btrfs", "none")>>, 0, NoMounts, 0, FALSE)}

\* NetworkManager's service is only shipped with NetworkManager.
MCMachines ==
    Erase \cup Alongside \cup Prepared \cup Unprepared \cup People
    \cup {m \in Networks : "NetworkManager" \in m.live.services => m.live.nm}

=============================================================================
