----------------------------- MODULE SetupProofs ----------------------------
(***************************************************************************)
(* Proofs about salt-setup, for any machines and answers and any number of *)
(* attempts: who can log in to the installed system, which network clients *)
(* run on it, and that no partition is lost that was there before.         *)
(***************************************************************************)
EXTENDS Setup, TLAPS

\* The provers of a step that names none, in this order; 30 is in seconds.
USE SMTT(30), Zenon

\* main calls its functions in this order.
LEMMA AfterIs ==
    /\ After("start") = "layout" /\ After("layout") = "base" /\ After("base") = "fstab"
    /\ After("fstab") = "bind" /\ After("bind") = "user" /\ After("user") = "root"
    /\ After("root") = "network" /\ After("network") = "swap" /\ After("swap") = "stratum"
    /\ After("stratum") = "delive" /\ After("delive") = "boot" /\ After("boot") = "config"
    /\ After("config") = "desktop" /\ After("desktop") = "finish"
<1>1. DOMAIN Order = 1..15
    BY DEF Order
<1>2. ASSUME NEW i \in 1..14 PROVE After(Order[i]) = Order[i + 1]
  <2>1. \A j \in DOMAIN Order : Order[j] = Order[i] => j = i
      BY <1>1 DEF Order
  <2>2. (CHOOSE j \in DOMAIN Order : Order[j] = Order[i]) = i
      BY <1>1, <2>1
  <2> QED
      BY Zenon, <2>2 DEF After
<1> QED
    BY <1>2 DEF Order

Fields ==
    {"accounts", "passwords", "sudoers", "root", "getty", "profiles", "dirs",
     "enabled", "fstab", "crypttab", "swapfile", "stratum", "initrd", "loaders",
     "luks", "rootflags", "cryptodisk", "config", "session"}

\* u is t but for the fields in F.
Same(t, u, F) == DOMAIN u = Fields /\ \A f \in Fields \ F : u[f] = t[f]

\* Which parts of the target each function of main writes.
LEMMA EnableFrame ==
    ASSUME NEW t, DOMAIN t = Fields, NEW s
    PROVE  /\ Same(t, sv_enable(t, s), {"enabled"})
           /\ sv_enable(t, s).enabled = IF s \in t.dirs THEN t.enabled \cup {s} ELSE t.enabled
    BY DEF Same, Fields, sv_enable

LEMMA WriteFrame ==
    ASSUME NEW t, DOMAIN t = Fields, NEW s
    PROVE  Same(t, sv_write(t, s), {"dirs"}) /\ sv_write(t, s).dirs = t.dirs \cup {s}
    BY DEF Same, Fields, sv_write

LEMMA DisableFrame ==
    ASSUME NEW t, DOMAIN t = Fields, NEW S
    PROVE  Same(t, sv_disable(t, S), {"enabled"}) /\ sv_disable(t, S).enabled = t.enabled \ S
    BY DEF Same, Fields, sv_disable

\* A service that is written and enabled runs; nothing else changes.
LEMMA Starts ==
    ASSUME NEW t, DOMAIN t = Fields, NEW s
    PROVE  /\ Same(t, sv_enable(sv_write(t, s), s), {"dirs", "enabled"})
           /\ sv_enable(sv_write(t, s), s).dirs = t.dirs \cup {s}
           /\ sv_enable(sv_write(t, s), s).enabled = t.enabled \cup {s}
<1> DEFINE w == sv_write(t, s)
           e == sv_enable(w, s)
<1>1. Same(t, w, {"dirs"}) /\ w.dirs = t.dirs \cup {s} /\ DOMAIN w = Fields
    BY WriteFrame DEF Same
<1> HIDE DEF w
<1>2. /\ Same(w, e, {"enabled"})
      /\ e.enabled = IF s \in w.dirs THEN w.enabled \cup {s} ELSE w.enabled
    BY Zenon, <1>1, EnableFrame
<1> HIDE DEF e
<1>3. Same(t, e, {"dirs", "enabled"}) /\ e.dirs = w.dirs /\ w.enabled = t.enabled
    BY <1>1, <1>2 DEF Same, Fields
<1> QED
    BY <1>1, <1>2, <1>3 DEF w, e

LEMMA TargetFrame ==
    ASSUME NEW t, DOMAIN t = Fields
    PROVE  /\ Same(t, write_fstab(t), {"fstab", "crypttab"})
           /\ Same(t, create_user(t), {"accounts", "passwords", "sudoers"})
           /\ Same(t, configure_root(t), {"root"})
           /\ Same(t, [t EXCEPT !.stratum = "exposed"], {"stratum"})
           /\ Same(t, delive(t), {"getty", "profiles", "sudoers", "dirs", "enabled", "accounts"})
           /\ Same(t, Installed(t), {"initrd", "luks", "rootflags", "cryptodisk", "loaders"})
           /\ Same(t, write_system_config(t), {"config"})
<1>1. Same(t, write_fstab(t), {"fstab", "crypttab"})
    BY Zenon DEF Same, write_fstab
<1>2. Same(t, create_user(t), {"accounts", "passwords", "sudoers"})
    BY Zenon DEF Same, create_user
<1>3. Same(t, configure_root(t), {"root"})
    BY DEF Same, configure_root
<1>4. Same(t, [t EXCEPT !.stratum = "exposed"], {"stratum"})
    BY DEF Same
<1>5. Same(t, delive(t), {"getty", "profiles", "sudoers", "dirs", "enabled", "accounts"})
    BY Zenon DEF Same, delive
<1>6. Same(t, Installed(t), {"initrd", "luks", "rootflags", "cryptodisk", "loaders"})
    BY Zenon DEF Same, Installed
<1>7. Same(t, write_system_config(t), {"config"})
    BY DEF Same, write_system_config
<1> QED
    BY <1>1, <1>2, <1>3, <1>4, <1>5, <1>6, <1>7

\* setup_swap and configure_desktop may write and enable services of their own.
LEMMA SwapFrame ==
    ASSUME NEW t, DOMAIN t = Fields
    PROVE  /\ Same(t, setup_swap(t), {"swapfile", "dirs", "enabled"})
           /\ \A x : x \notin {"zram-swap", "crypt-swap"} =>
                /\ x \in setup_swap(t).dirs <=> x \in t.dirs
                /\ x \in setup_swap(t).enabled <=> x \in t.enabled
<1>1. CASE cfg.swap = "file"
  <2>1. setup_swap(t) = [t EXCEPT !.swapfile = TRUE]
      BY <1>1 DEF setup_swap
  <2>2. /\ Same(t, setup_swap(t), {"swapfile"})
        /\ setup_swap(t).dirs = t.dirs /\ setup_swap(t).enabled = t.enabled
      BY <2>1 DEF Same, Fields
  <2> QED
      BY <2>2 DEF Same
<1>2. CASE cfg.swap = "zram" \/ (cfg.swap = "partition" /\ cfg.encrypt)
  <2>1. PICK s \in {"zram-swap", "crypt-swap"} : setup_swap(t) = sv_enable(sv_write(t, s), s)
      BY <1>2 DEF setup_swap
  <2>2. /\ Same(t, setup_swap(t), {"dirs", "enabled"})
        /\ setup_swap(t).dirs = t.dirs \cup {s} /\ setup_swap(t).enabled = t.enabled \cup {s}
      BY <2>1, Starts
  <2> QED
      BY <2>2 DEF Same
<1>3. CASE ~(cfg.swap = "file") /\ ~(cfg.swap = "zram" \/ (cfg.swap = "partition" /\ cfg.encrypt))
  <2>1. setup_swap(t) = t
      BY <1>3 DEF setup_swap
  <2> QED
      BY <2>1 DEF Same
<1> QED
    BY <1>1, <1>2, <1>3

Login == {None} \cup (IF cfg.create_user THEN {cfg.username} ELSE {})

LEMMA DesktopFrame ==
    ASSUME NEW t, DOMAIN t = Fields
    PROVE  /\ Same(t, configure_desktop(t), {"profiles", "dirs", "enabled", "session"})
           /\ \A x : x # "sddm" => /\ x \in configure_desktop(t).dirs <=> x \in t.dirs
                                   /\ x \in configure_desktop(t).enabled <=> x \in t.enabled
           /\ cfg.desktop = "keep" /\ cfg.create_user =>
                \/ "sddm" \in configure_desktop(t).enabled
                \/ cfg.username \in configure_desktop(t).profiles
           /\ cfg.desktop = "keep" /\ live.sddm => configure_desktop(t).session \in Login
<1>1. CASE cfg.desktop # "keep"
  <2>1. configure_desktop(t) = sv_disable(t, {"sddm"})
      BY <1>1 DEF configure_desktop
  <2>2. Same(t, configure_desktop(t), {"enabled"})
        /\ configure_desktop(t).enabled = t.enabled \ {"sddm"}
      BY <2>1, DisableFrame
  <2> QED
      BY <1>1, <2>2 DEF Same, Fields
<1>2. CASE cfg.desktop = "keep" /\ live.sddm
  <2> DEFINE w == sv_enable(sv_write(t, "sddm"), "sddm")
             u == IF cfg.autologin /\ cfg.create_user THEN cfg.username ELSE None
  <2>1. configure_desktop(t) = [w EXCEPT !.session = u]
      BY Zenon, <1>2 DEF configure_desktop
  <2>2. /\ Same(t, w, {"dirs", "enabled"})
        /\ w.dirs = t.dirs \cup {"sddm"} /\ w.enabled = t.enabled \cup {"sddm"}
      BY Starts
  <2>3. u \in Login
      BY DEF Login
  <2> HIDE DEF w, u
  <2>4. /\ Same(w, configure_desktop(t), {"session"}) /\ configure_desktop(t).session = u
        /\ configure_desktop(t).dirs = w.dirs /\ configure_desktop(t).enabled = w.enabled
      BY <2>1, <2>2 DEF Same, Fields
  <2>5. Same(t, configure_desktop(t), {"profiles", "dirs", "enabled", "session"})
      BY <2>2, <2>4 DEF Same
  <2>6. \A x : x # "sddm" => /\ x \in configure_desktop(t).dirs <=> x \in t.dirs
                             /\ x \in configure_desktop(t).enabled <=> x \in t.enabled
    <3>1. /\ configure_desktop(t).dirs = t.dirs \cup {"sddm"}
          /\ configure_desktop(t).enabled = t.enabled \cup {"sddm"}
        BY Zenon, <2>2, <2>4
    <3> QED
        BY <3>1
  <2>7. "sddm" \in configure_desktop(t).enabled /\ configure_desktop(t).session \in Login
      BY Zenon, <2>2, <2>3, <2>4
  <2> QED
      BY Zenon, <2>5, <2>6, <2>7
<1>3. CASE cfg.desktop = "keep" /\ ~live.sddm /\ cfg.create_user
  <2>1. configure_desktop(t) = [t EXCEPT !.profiles = @ \cup {cfg.username}]
      BY <1>3 DEF configure_desktop
  <2>2. /\ Same(t, configure_desktop(t), {"profiles"})
        /\ cfg.username \in configure_desktop(t).profiles
      BY <2>1 DEF Same, Fields
  <2> QED
      BY <1>3, <2>2 DEF Same, Fields
<1>4. CASE cfg.desktop = "keep" /\ ~(cfg.desktop = "keep" /\ live.sddm)
             /\ ~(cfg.desktop = "keep" /\ ~live.sddm /\ cfg.create_user)
  <2>1. configure_desktop(t) = t
      BY <1>4 DEF configure_desktop
  <2> QED
      BY <1>4, <2>1 DEF Same
<1> QED
    BY <1>1, <1>2, <1>3, <1>4

-----------------------------------------------------------------------------
(* The network                                                             *)

\* What configure_network makes of the clients of a target.
NetOk(t) ==
    /\ cfg.network = "none" => Clients \cap t.enabled = {}
    /\ cfg.network # "none" /\ live.nm =>
          /\ "NetworkManager" \in t.enabled /\ "NetworkManager" \in t.dirs
          /\ "netdhcp" \notin t.enabled /\ "dhcpcd" \notin t.enabled
    /\ cfg.network # "none" /\ ~live.nm /\ "dhcpcd" \in live.services =>
          "dhcpcd" \in t.enabled /\ "dhcpcd" \in t.dirs
    /\ cfg.network = "dhcp" /\ ~live.nm /\ live.dhclient =>
          \E c \in {"dhcpcd", "netdhcp"} : c \in t.enabled /\ c \in t.dirs

LEMMA ManagedNet ==
    ASSUME NEW t, DOMAIN t = Fields
    PROVE  /\ Same(t, Managed(t), {"dirs", "enabled"})
           /\ live.nm =>
                /\ "NetworkManager" \in Managed(t).enabled /\ "NetworkManager" \in Managed(t).dirs
                /\ "netdhcp" \notin Managed(t).enabled /\ "dhcpcd" \notin Managed(t).enabled
           /\ ~live.nm => ("NetworkManager" \in Managed(t).dirs <=> "NetworkManager" \in t.dirs)
           /\ ~live.nm /\ "dhcpcd" \in t.dirs =>
                "dhcpcd" \in Managed(t).enabled /\ "dhcpcd" \in Managed(t).dirs
           /\ ~live.nm /\ "dhcpcd" \notin t.dirs /\ live.dhclient =>
                "netdhcp" \in Managed(t).enabled /\ "netdhcp" \in Managed(t).dirs
<1>1. CASE live.nm
  <2> DEFINE w == sv_enable(sv_write(t, "NetworkManager"), "NetworkManager")
             S == {"netdhcp", "dhcpcd"}
  <2>1. Managed(t) = sv_disable(w, S)
      BY <1>1 DEF Managed
  <2>2. /\ Same(t, w, {"dirs", "enabled"}) /\ DOMAIN w = Fields
        /\ "NetworkManager" \in w.dirs /\ "NetworkManager" \in w.enabled
      BY Starts DEF Same
  <2> HIDE DEF w
  <2>3. Same(w, Managed(t), {"enabled"}) /\ Managed(t).enabled = w.enabled \ S
      BY <2>1, <2>2, DisableFrame
  <2> QED
      BY <1>1, <2>2, <2>3 DEF Same, Fields
<1>2. CASE ~live.nm /\ "dhcpcd" \in t.dirs
  <2>1. Managed(t) = sv_enable(t, "dhcpcd")
      BY <1>2 DEF Managed
  <2>2. Same(t, Managed(t), {"enabled"}) /\ "dhcpcd" \in Managed(t).enabled
      BY Zenon, <1>2, <2>1, EnableFrame
  <2> QED
      BY <1>2, <2>2 DEF Same, Fields
<1>3. CASE ~live.nm /\ "dhcpcd" \notin t.dirs /\ live.dhclient
  <2>1. Managed(t) = sv_enable(sv_write(t, "netdhcp"), "netdhcp")
      BY <1>3 DEF Managed
  <2>2. /\ Same(t, Managed(t), {"dirs", "enabled"})
        /\ Managed(t).dirs = t.dirs \cup {"netdhcp"}
        /\ Managed(t).enabled = t.enabled \cup {"netdhcp"}
      BY <2>1, Starts
  <2> QED
      BY <1>3, <2>2
<1>4. CASE ~live.nm /\ "dhcpcd" \notin t.dirs /\ ~live.dhclient
  <2>1. Managed(t) = t
      BY <1>4 DEF Managed
  <2> QED
      BY <1>4, <2>1 DEF Same
<1> QED
    BY <1>1, <1>2, <1>3, <1>4

LEMMA NetworkFrame ==
    ASSUME NEW t, DOMAIN t = Fields, live.services \subseteq t.dirs
    PROVE  /\ Same(t, configure_network(t), {"dirs", "enabled"})
           /\ NetOk(configure_network(t))
           /\ ~live.nm =>
                ("NetworkManager" \in configure_network(t).dirs <=> "NetworkManager" \in t.dirs)
<1> DEFINE u == configure_network(t)
           m == Managed(t)
<1>0. /\ Same(t, m, {"dirs", "enabled"}) /\ DOMAIN m = Fields
      /\ live.nm =>
           /\ "NetworkManager" \in m.enabled /\ "NetworkManager" \in m.dirs
           /\ "netdhcp" \notin m.enabled /\ "dhcpcd" \notin m.enabled
      /\ ~live.nm => ("NetworkManager" \in m.dirs <=> "NetworkManager" \in t.dirs)
      /\ ~live.nm /\ "dhcpcd" \in t.dirs => "dhcpcd" \in m.enabled /\ "dhcpcd" \in m.dirs
      /\ ~live.nm /\ "dhcpcd" \notin t.dirs /\ live.dhclient =>
           "netdhcp" \in m.enabled /\ "netdhcp" \in m.dirs
    BY ManagedNet DEF Same
<1> HIDE DEF m
<1>1. CASE cfg.network = "none"
  <2>1. u = sv_disable(t, Clients)
      BY <1>1 DEF configure_network
  <2>2. Same(t, u, {"enabled"}) /\ u.enabled = t.enabled \ Clients
      BY <2>1, DisableFrame
  <2>3. u.dirs = t.dirs
      BY <2>2 DEF Same, Fields
  <2>4. NetOk(u)
      BY <1>1, <2>2 DEF NetOk
  <2> QED
      BY <2>2, <2>3, <2>4 DEF Same
<1>2. CASE cfg.network # "none"
  <2>1. \E s : u \in {m, sv_enable(sv_write(m, s), s), sv_enable(m, s)}
               /\ s \notin Clients
    <3>1. CASE cfg.network = "wifi" /\ ~live.nm /\ live.wifi = "wpa_supplicant"
      <4>1. u = sv_enable(sv_write(m, "wpa_supplicant"), "wpa_supplicant")
          BY <1>2, <3>1 DEF configure_network, m
      <4> QED
          BY <4>1 DEF Clients
    <3>2. CASE cfg.network = "wifi" /\ ~live.nm /\ live.wifi = "iwd"
      <4>1. u = sv_enable(m, "iwd")
          BY <1>2, <3>2 DEF configure_network, m
      <4> QED
          BY <4>1 DEF Clients
    <3>3. CASE ~(cfg.network = "wifi" /\ ~live.nm /\ live.wifi \in {"wpa_supplicant", "iwd"})
      <4>1. u = m
          BY <1>2, <3>3 DEF configure_network, m
      <4>2. "iwd" \notin Clients
          BY DEF Clients
      <4> QED
          BY <4>1, <4>2
    <3> QED
        BY <3>1, <3>2, <3>3
  <2>2. PICK s : u \in {m, sv_enable(sv_write(m, s), s), sv_enable(m, s)} /\ s \notin Clients
      BY <2>1
  <2>3. /\ Same(m, u, {"dirs", "enabled"})
        /\ \A c \in Clients : (c \in u.dirs <=> c \in m.dirs) /\ (c \in u.enabled <=> c \in m.enabled)
    <3>1. CASE u = m
        BY <1>0, <3>1 DEF Same
    <3>2. CASE u = sv_enable(sv_write(m, s), s)
      <4>1. /\ Same(m, u, {"dirs", "enabled"})
            /\ u.dirs = m.dirs \cup {s} /\ u.enabled = m.enabled \cup {s}
          BY <1>0, <3>2, Starts
      <4> QED
          BY <2>2, <4>1
    <3>3. CASE u = sv_enable(m, s)
      <4>0. DOMAIN m = Fields
          BY <1>0
      <4>1. /\ Same(m, u, {"enabled"})
            /\ u.enabled = IF s \in m.dirs THEN m.enabled \cup {s} ELSE m.enabled
        <5>1. /\ Same(m, sv_enable(m, s), {"enabled"})
              /\ sv_enable(m, s).enabled = IF s \in m.dirs THEN m.enabled \cup {s} ELSE m.enabled
            BY Zenon, <4>0, EnableFrame
        <5> HIDE DEF u
        <5> QED
            BY Zenon, <3>3, <5>1
      <4>2. u.dirs = m.dirs
          BY <4>1 DEF Same, Fields
      <4> QED
          BY <2>2, <4>1, <4>2 DEF Same
    <3> QED
        BY <2>2, <3>1, <3>2, <3>3
  <2> HIDE DEF u
  <2>4. NetOk(m)
      BY <1>0, <1>2 DEF NetOk
  <2>5. NetOk(u)
      BY <1>2, <2>3, <2>4 DEF NetOk, Clients
  <2>6. ~live.nm => ("NetworkManager" \in u.dirs <=> "NetworkManager" \in t.dirs)
      BY <1>0, <2>3 DEF Clients
  <2>7. Same(t, u, {"dirs", "enabled"})
      BY <1>0, <2>3 DEF Same
  <2> QED
      BY <2>5, <2>6, <2>7 DEF u
<1> QED
    BY <1>1, <1>2

\* The later functions leave the clients alone.
LEMMA NetStays ==
    ASSUME NEW t, NEW u, NetOk(t),
           \A c \in Clients : /\ c \in u.dirs <=> c \in t.dirs
                              /\ c \in u.enabled <=> c \in t.enabled
    PROVE  NetOk(u)
    BY DEF NetOk, Clients

LEMMA DeliveNet ==
    ASSUME NEW t, DOMAIN t = Fields, NetOk(t), ~live.nm => "NetworkManager" \notin t.dirs
    PROVE  NetOk(delive(t)) /\ (~live.nm => "NetworkManager" \notin delive(t).dirs)
<1> DEFINE u == delive(t)
<1>1. u.dirs = t.dirs \ LiveOnly(t) /\ u.enabled = t.enabled \ LiveOnly(t)
    BY DEF delive, Fields
<1> HIDE DEF u
<1>2. LiveOnly(t) \subseteq {"agetty-serial", "netdhcp"}
    BY DEF LiveOnly
<1>3. cfg.network = "dhcp" /\ ~live.nm => "netdhcp" \notin LiveOnly(t)
    BY DEF LiveOnly
<1>4. NetOk(u)
    BY <1>1, <1>2, <1>3 DEF NetOk, Clients
<1> QED
    BY <1>1, <1>4 DEF u

-----------------------------------------------------------------------------
(***************************************************************************)
(* The inductive invariant of the system being installed says what each    *)
(* function of main may rely on: what the functions before it have done    *)
(* and the ones since have not undone, on the first attempt or over what   *)
(* an earlier one left.                                                    *)
(***************************************************************************)
People == IF cfg.create_user THEN {cfg.username} ELSE {}

\* The functions of main up to the one that establishes something, and those
\* from the one after it.
Early == {"start", "layout", "base"}
Before(s) ==
    CASE s = "user"    -> {"fstab", "bind", "user"}
      [] s = "network" -> {"root", "network"}
      [] s = "delive"  -> {"swap", "stratum", "delive"}
      [] s = "desktop" -> {"boot", "config", "desktop"}
      [] s = "done"    -> {"finish", "done"}

\* The account is there, with its password and its right to use sudo.
UserOk(t) ==
    /\ People \subseteq t.passwords
    /\ cfg.sudo => People \subseteq t.sudoers

RootOk(t) == t.root = IF cfg.root_password THEN "password" ELSE "locked"

\* The medium's own account and rule are gone.
NoLive(t) ==
    t.accounts = People /\ LiveRule \notin t.sudoers /\ t.getty \in {None} \cup People

DesktopOk(t) ==
    cfg.desktop = "keep" /\ cfg.create_user =>
        "sddm" \in t.enabled \/ cfg.username \in t.profiles

\* Whom sddm logs in by itself.
SessionOk(t) == cfg.desktop = "keep" /\ live.sddm => t.session \in Login

Answered ==
    /\ cfg.create_user => cfg.username # LiveRule
    /\ "NetworkManager" \in live.services => live.nm

SysInv ==
    /\ DOMAIN target = Fields /\ Answered
    /\ ~live.nm => "NetworkManager" \notin target.dirs
    /\ at \in Early \cup {"exit"} \cup Before("user") \cup Before("network")
             \cup Before("delive") \cup Before("desktop") \cup Before("done")
    /\ at \notin {"start", "exit"} => validate
    /\ at \in Before("user") \cup Before("network") => live.services \subseteq target.dirs
    /\ at \in Before("user") => target.accounts = {Live}
    /\ at \in Before("network") \cup Before("delive") => target.accounts = {Live} \cup People
    /\ at \in Before("network") \cup Before("delive") \cup Before("desktop") \cup Before("done")
          => UserOk(target)
    /\ at \in {"network"} \cup Before("delive") \cup Before("desktop") \cup Before("done")
          => RootOk(target)
    /\ at \in Before("delive") \cup Before("desktop") \cup Before("done") => NetOk(target)
    /\ at \in Before("desktop") \cup Before("done") => NoLive(target)
    /\ at \in Before("done") => DesktopOk(target) /\ SessionOk(target)

LEMMA Stages ==
    /\ Before("user") = {"fstab", "bind", "user"}
    /\ Before("network") = {"root", "network"}
    /\ Before("delive") = {"swap", "stratum", "delive"}
    /\ Before("desktop") = {"boot", "config", "desktop"}
    /\ Before("done") = {"finish", "done"}
    BY DEF Before

LEMMA SysInit == Init => SysInv
<1> SUFFICES ASSUME Init PROVE SysInv
    OBVIOUS
<1>1. at = "start" /\ target = Blank
    BY DEF Init
<1>2. Answered
    BY MachinesAssumption DEF Init, Answered
<1>3. DOMAIN Blank = Fields /\ Blank.dirs = {}
    BY DEF Blank, Fields
<1> QED
    BY <1>1, <1>2, <1>3, Stages DEF SysInv, Early

\* The process ends, or starts again.
LEMMA SysLeaves ==
    ASSUME SysInv, at' \in {"start", "exit"}, UNCHANGED machine, DOMAIN target' = Fields,
           target'.dirs = target.dirs
    PROVE  SysInv'
<1>1. Answered'
    BY DEF SysInv, Answered, machine
<1>2. ~live'.nm => "NetworkManager" \notin target'.dirs
    BY DEF SysInv, machine
<1> QED
    BY <1>1, <1>2, Stages DEF SysInv, Early

\* The answers and the medium stay: what is said of the new target is said of
\* it as a target for the same answers.
LEMMA SameAnswers ==
    ASSUME UNCHANGED machine
    PROVE  /\ People' = People /\ (validate' <=> validate) /\ (Answered' <=> Answered)
           /\ UserOk(target)' <=> UserOk(target')
           /\ RootOk(target)' <=> RootOk(target')
           /\ NetOk(target)' <=> NetOk(target')
           /\ NoLive(target)' <=> NoLive(target')
           /\ DesktopOk(target)' <=> DesktopOk(target')
           /\ SessionOk(target)' <=> SessionOk(target')
<1>1. cfg' = cfg /\ live' = live
    BY DEF machine
<1>2. People' = People /\ (validate' <=> validate) /\ (Answered' <=> Answered)
    BY <1>1 DEF People, validate, Answered
<1>3. (UserOk(target)' <=> UserOk(target')) /\ (RootOk(target)' <=> RootOk(target'))
    BY <1>1, <1>2 DEF UserOk, RootOk
<1>4. NetOk(target)' <=> NetOk(target')
    BY <1>1 DEF NetOk
<1>5. (NoLive(target)' <=> NoLive(target')) /\ (DesktopOk(target)' <=> DesktopOk(target'))
    BY <1>1, <1>2 DEF NoLive, DesktopOk
<1>6. SessionOk(target)' <=> SessionOk(target')
    BY <1>1 DEF SessionOk, Login
<1> QED
    BY <1>2, <1>3, <1>4, <1>5, <1>6

\* SysInv of the next state, from facts about its target.
LEMMA SysNext ==
    ASSUME SysInv, UNCHANGED machine, DOMAIN target' = Fields,
           ~live.nm => "NetworkManager" \notin target'.dirs,
           at' \in Early \cup Before("user") \cup Before("network") \cup Before("delive")
                  \cup Before("desktop") \cup Before("done"),
           validate,
           at' \in Before("user") \cup Before("network") => live.services \subseteq target'.dirs,
           at' \in Before("user") => target'.accounts = {Live},
           at' \in Before("network") \cup Before("delive") =>
               target'.accounts = {Live} \cup People,
           at' \in Before("network") \cup Before("delive") \cup Before("desktop")
                  \cup Before("done") => UserOk(target'),
           at' \in {"network"} \cup Before("delive") \cup Before("desktop") \cup Before("done")
               => RootOk(target'),
           at' \in Before("delive") \cup Before("desktop") \cup Before("done") => NetOk(target'),
           at' \in Before("desktop") \cup Before("done") => NoLive(target'),
           at' \in Before("done") => DesktopOk(target') /\ SessionOk(target')
    PROVE  SysInv'
<1>1. live' = live
    BY DEF machine
<1> QED
    BY <1>1, SameAnswers, Stages DEF SysInv

\* A step that leaves the fields the invariant mentions.
Watched ==
    {"accounts", "passwords", "sudoers", "root", "getty", "session", "profiles", "dirs", "enabled"}

LEMMA Unwatched ==
    ASSUME NEW t, NEW u, NEW F \in SUBSET (Fields \ Watched), Same(t, u, F)
    PROVE  /\ DOMAIN u = Fields /\ u.accounts = t.accounts /\ u.dirs = t.dirs
           /\ UserOk(u) <=> UserOk(t)
           /\ RootOk(u) <=> RootOk(t)
           /\ NetOk(u) <=> NetOk(t)
           /\ NoLive(u) <=> NoLive(t)
           /\ DesktopOk(u) <=> DesktopOk(t)
           /\ SessionOk(u) <=> SessionOk(t)
<1>1. /\ DOMAIN u = Fields /\ u.accounts = t.accounts /\ u.passwords = t.passwords
      /\ u.sudoers = t.sudoers /\ u.root = t.root /\ u.getty = t.getty
      /\ u.session = t.session
      /\ u.profiles = t.profiles /\ u.dirs = t.dirs /\ u.enabled = t.enabled
    BY DEF Same, Fields, Watched
<1> QED
    BY <1>1 DEF UserOk, RootOk, NetOk, NoLive, DesktopOk, SessionOk

\* Up to the point where the system is laid down.
LEMMA SysPrepares ==
    ASSUME SysInv, Start \/ Partition \/ Command \/ discover_mounted
    PROVE  SysInv'
<1>1. /\ UNCHANGED machine /\ target' \in {target, Blank}
      /\ at' = "exit" \/ (validate /\ at' \in {"layout", "base"})
  <2>1. CASE Start
      BY <2>1, AfterIs DEF Start, Exit
  <2>2. CASE Partition
      BY <2>2 DEF Partition, Exit, SysInv
  <2>3. CASE Command
    <3>1. target' \in {target, Blank} /\ UNCHANGED machine
        BY Zenon, <2>3 DEF Command, Zap, new_part, mkfs, luks_format_open, Subvolumes, Mount
    <3>2. at' = "exit" \/ at' \in {"layout", "base"}
        BY <2>3, AfterIs DEF Command, Exit
    <3>3. validate
        BY <2>3 DEF Command, SysInv
    <3> QED
        BY <3>1, <3>2, <3>3
  <2>4. CASE discover_mounted
      BY <2>4, AfterIs DEF discover_mounted, Exit, SysInv
  <2> QED
      BY <2>1, <2>2, <2>3, <2>4
<1>2. DOMAIN target' = Fields /\ (~live.nm => "NetworkManager" \notin target'.dirs)
  <2>1. DOMAIN Blank = Fields /\ Blank.dirs = {}
      BY DEF Blank, Fields
  <2> QED
      BY <1>1, <2>1 DEF SysInv
<1>3. CASE at' = "exit"
  <2>1. Answered'
      BY <1>1, SameAnswers DEF SysInv
  <2>2. live' = live
      BY <1>1 DEF machine
  <2> QED
      BY <1>2, <1>3, <2>1, <2>2, Stages DEF SysInv, Early
<1>4. CASE validate /\ at' \in {"layout", "base"}
    BY <1>1, <1>2, <1>4, SysNext, Stages DEF Early
<1> QED
    BY <1>1, <1>3, <1>4

LEMMA SysBase == ASSUME SysInv, lay_down_base PROVE SysInv'
<1>1. /\ at = "base" /\ at' = "fstab" /\ UNCHANGED machine /\ target' = Based(target)
    BY AfterIs DEF lay_down_base
<1>2. /\ DOMAIN target' = Fields /\ target'.accounts = {Live}
      /\ target'.dirs = target.dirs \cup live.services
    BY <1>1 DEF Based, SysInv, Fields
<1>3. validate
    BY <1>1 DEF SysInv
<1>4. ~live.nm => "NetworkManager" \notin target'.dirs
    BY <1>2 DEF SysInv, Answered
<1> QED
    BY <1>1, <1>2, <1>3, <1>4, SysNext, Stages

\* Functions that write nothing the invariant mentions.
LEMMA SysQuiet ==
    ASSUME SysInv,
           \/ bind_pseudo \/ Step("fstab", write_fstab(target)) \/ bootstrap_stratum
           \/ install_boot \/ Step("config", write_system_config(target)) \/ Finish
    PROVE  SysInv'
<1> USE AfterIs
<1>1. \E F \in SUBSET (Fields \ Watched) : Same(target, target', F)
  <2>0. DOMAIN target = Fields
      BY DEF SysInv
  <2>1. CASE target' = target
      BY Zenon, <2>0, <2>1 DEF Same
  <2>2. CASE target' = write_fstab(target)
    <3>1. {"fstab", "crypttab"} \in SUBSET (Fields \ Watched)
        BY DEF Fields, Watched
    <3> QED
        BY Zenon, <2>0, <2>2, <3>1, TargetFrame
  <2>3. CASE target' = [target EXCEPT !.stratum = "exposed"]
    <3>1. {"stratum"} \in SUBSET (Fields \ Watched)
        BY DEF Fields, Watched
    <3> QED
        BY <2>0, <2>3, <3>1, TargetFrame
  <2>4. CASE target' = Installed(target)
    <3>1. {"initrd", "luks", "rootflags", "cryptodisk", "loaders"} \in SUBSET (Fields \ Watched)
        BY DEF Fields, Watched
    <3> QED
        BY Zenon, <2>0, <2>4, <3>1, TargetFrame
  <2>5. CASE target' = write_system_config(target)
    <3>1. {"config"} \in SUBSET (Fields \ Watched)
        BY DEF Fields, Watched
    <3> QED
        BY Zenon, <2>0, <2>5, <3>1, TargetFrame
  <2> QED
      BY <2>1, <2>2, <2>3, <2>4, <2>5
         DEF bind_pseudo, Step, bootstrap_stratum, install_boot, Finish
<1>2. UNCHANGED machine
    BY DEF bind_pseudo, Step, bootstrap_stratum, install_boot, Finish
<1>3. /\ DOMAIN target' = Fields /\ target'.accounts = target.accounts
      /\ target'.dirs = target.dirs
      /\ UserOk(target') <=> UserOk(target)
      /\ RootOk(target') <=> RootOk(target)
      /\ NetOk(target') <=> NetOk(target)
      /\ NoLive(target') <=> NoLive(target)
      /\ DesktopOk(target') <=> DesktopOk(target)
      /\ SessionOk(target') <=> SessionOk(target)
    BY <1>1, Unwatched
<1>4. \/ at = "bind" /\ at' = "user"
      \/ at = "fstab" /\ at' = "bind"
      \/ at = "stratum" /\ at' = "delive"
      \/ at = "boot" /\ at' = "config"
      \/ at = "config" /\ at' = "desktop"
      \/ at = "finish" /\ at' = "done"
    BY DEF bind_pseudo, Step, bootstrap_stratum, install_boot, Finish
<1>5. validate /\ (~live.nm => "NetworkManager" \notin target'.dirs)
    BY <1>3, <1>4 DEF SysInv
<1> QED
    BY Zenon, <1>2, <1>3, <1>4, <1>5, SysNext, Stages DEF SysInv

LEMMA SysUser == ASSUME SysInv, Step("user", create_user(target)) PROVE SysInv'
<1>1. /\ at = "user" /\ at' = "root" /\ UNCHANGED machine /\ target' = create_user(target)
      /\ DOMAIN target = Fields /\ target.accounts = {Live}
      /\ live.services \subseteq target.dirs
    BY AfterIs, Stages DEF Step, SysInv
<1>2. Same(target, target', {"accounts", "passwords", "sudoers"})
    BY Zenon, <1>1, TargetFrame
<1>3. DOMAIN target' = Fields /\ target'.dirs = target.dirs
    BY <1>2 DEF Same, Fields
<1>4. target'.accounts = {Live} \cup People /\ UserOk(target')
    BY <1>1 DEF create_user, People, UserOk, Fields
<1>5. validate /\ (~live.nm => "NetworkManager" \notin target'.dirs)
    BY <1>1, <1>3 DEF SysInv
<1> QED
    BY Zenon, <1>1, <1>3, <1>4, <1>5, SysNext, Stages

LEMMA SysRoot == ASSUME SysInv, Step("root", configure_root(target)) PROVE SysInv'
<1>1. /\ at = "root" /\ at' = "network" /\ UNCHANGED machine /\ target' = configure_root(target)
      /\ DOMAIN target = Fields /\ target.accounts = {Live} \cup People
      /\ live.services \subseteq target.dirs /\ UserOk(target)
    BY AfterIs, Stages DEF Step, SysInv
<1>2. Same(target, target', {"root"})
    BY Zenon, <1>1, TargetFrame
<1>3. /\ DOMAIN target' = Fields /\ target'.dirs = target.dirs
      /\ target'.accounts = target.accounts /\ UserOk(target')
    BY <1>1, <1>2 DEF Same, Fields, UserOk
<1>4. RootOk(target')
    BY <1>1 DEF configure_root, RootOk, Fields
<1>5. validate /\ (~live.nm => "NetworkManager" \notin target'.dirs)
    BY <1>1, <1>3 DEF SysInv
<1> QED
    BY <1>1, <1>3, <1>4, <1>5, SysNext, Stages

LEMMA SysNetwork == ASSUME SysInv, Step("network", configure_network(target)) PROVE SysInv'
<1>1. /\ at = "network" /\ at' = "swap" /\ UNCHANGED machine
      /\ target' = configure_network(target)
      /\ DOMAIN target = Fields /\ target.accounts = {Live} \cup People
      /\ live.services \subseteq target.dirs /\ UserOk(target) /\ RootOk(target)
      /\ ~live.nm => "NetworkManager" \notin target.dirs
    BY AfterIs, Stages DEF Step, SysInv
<1>2. /\ Same(target, target', {"dirs", "enabled"}) /\ NetOk(target')
      /\ ~live.nm => ("NetworkManager" \in target'.dirs <=> "NetworkManager" \in target.dirs)
    BY <1>1, NetworkFrame
<1>3. /\ DOMAIN target' = Fields /\ target'.accounts = target.accounts
      /\ UserOk(target') /\ RootOk(target')
    BY <1>1, <1>2 DEF Same, Fields, UserOk, RootOk
<1>4. validate
    BY <1>1 DEF SysInv
<1> QED
    BY <1>1, <1>2, <1>3, <1>4, SysNext, Stages

LEMMA SysSwap == ASSUME SysInv, Step("swap", setup_swap(target)) PROVE SysInv'
<1>1. /\ at = "swap" /\ at' = "stratum" /\ UNCHANGED machine /\ target' = setup_swap(target)
      /\ DOMAIN target = Fields /\ target.accounts = {Live} \cup People
      /\ UserOk(target) /\ RootOk(target) /\ NetOk(target) /\ validate
      /\ ~live.nm => "NetworkManager" \notin target.dirs
    BY AfterIs, Stages DEF Step, SysInv
<1>2. /\ Same(target, target', {"swapfile", "dirs", "enabled"})
      /\ \A x : x \notin {"zram-swap", "crypt-swap"} =>
            /\ x \in target'.dirs <=> x \in target.dirs
            /\ x \in target'.enabled <=> x \in target.enabled
    BY <1>1, SwapFrame
<1>3. /\ DOMAIN target' = Fields /\ target'.accounts = target.accounts
      /\ UserOk(target') /\ RootOk(target')
    BY <1>1, <1>2 DEF Same, Fields, UserOk, RootOk
<1>4. NetOk(target') /\ (~live.nm => "NetworkManager" \notin target'.dirs)
  <2>1. \A c \in Clients : /\ c \in target'.dirs <=> c \in target.dirs
                           /\ c \in target'.enabled <=> c \in target.enabled
      BY <1>2 DEF Clients
  <2>2. NetOk(target')
      BY <1>1, <2>1, NetStays
  <2> QED
      BY <1>1, <2>1, <2>2 DEF Clients
<1> QED
    BY <1>1, <1>3, <1>4, SysNext, Stages

LEMMA SysDelive == ASSUME SysInv, Step("delive", delive(target)) PROVE SysInv'
<1>1. /\ at = "delive" /\ at' = "boot" /\ UNCHANGED machine /\ target' = delive(target)
      /\ DOMAIN target = Fields /\ target.accounts = {Live} \cup People
      /\ UserOk(target) /\ RootOk(target) /\ NetOk(target) /\ validate /\ Answered
      /\ ~live.nm => "NetworkManager" \notin target.dirs
    BY AfterIs, Stages DEF Step, SysInv
<1>2. Same(target, target', {"getty", "profiles", "sudoers", "dirs", "enabled", "accounts"})
    BY Zenon, <1>1, TargetFrame
<1>3. NetOk(target') /\ (~live.nm => "NetworkManager" \notin target'.dirs)
    BY <1>1, DeliveNet
<1>4. DOMAIN target' = Fields /\ RootOk(target') /\ target'.passwords = target.passwords
    BY <1>1, <1>2 DEF Same, Fields, RootOk
<1>5. /\ target'.sudoers = target.sudoers \ {LiveRule}
      /\ target'.getty = IF cfg.autologin /\ cfg.create_user THEN cfg.username ELSE None
      /\ target'.accounts = IF cfg.create_user /\ cfg.username = Live THEN target.accounts
                            ELSE target.accounts \ {Live}
    BY <1>1 DEF delive, Fields
<1>6. NoLive(target')
  <2>1. target'.accounts = People
      BY <1>1, <1>5 DEF People
  <2> QED
      BY <1>5, <2>1 DEF NoLive, People
<1>7. UserOk(target')
    BY <1>1, <1>4, <1>5 DEF UserOk, People, Answered
<1> QED
    BY Zenon, <1>1, <1>3, <1>4, <1>6, <1>7, SysNext, Stages

LEMMA SysDesktop == ASSUME SysInv, Step("desktop", configure_desktop(target)) PROVE SysInv'
<1>1. /\ at = "desktop" /\ at' = "finish" /\ UNCHANGED machine
      /\ target' = configure_desktop(target) /\ DOMAIN target = Fields
      /\ UserOk(target) /\ RootOk(target) /\ NetOk(target) /\ NoLive(target) /\ validate
      /\ ~live.nm => "NetworkManager" \notin target.dirs
    BY Zenon, AfterIs, Stages DEF Step, SysInv
<1>2. /\ Same(target, target', {"profiles", "dirs", "enabled", "session"})
      /\ \A x : x # "sddm" => /\ x \in target'.dirs <=> x \in target.dirs
                              /\ x \in target'.enabled <=> x \in target.enabled
      /\ DesktopOk(target') /\ SessionOk(target')
    BY Zenon, <1>1, DesktopFrame DEF DesktopOk, SessionOk
<1>3. DOMAIN target' = Fields /\ UserOk(target') /\ RootOk(target') /\ NoLive(target')
    BY <1>1, <1>2 DEF Same, Fields, UserOk, RootOk, NoLive
<1>4. NetOk(target') /\ (~live.nm => "NetworkManager" \notin target'.dirs)
  <2>1. \A c \in Clients : /\ c \in target'.dirs <=> c \in target.dirs
                           /\ c \in target'.enabled <=> c \in target.enabled
      BY <1>2 DEF Clients
  <2>2. NetOk(target')
      BY <1>1, <2>1, NetStays
  <2> QED
      BY <1>1, <2>1, <2>2 DEF Clients
<1> QED
    BY Zenon, <1>1, <1>2, <1>3, <1>4, SysNext, Stages

LEMMA SysEnds ==
    ASSUME SysInv,
           StratumRefused \/ BootRefused \/ ToolFails \/ \E reboot \in BOOLEAN : Again(reboot)
    PROVE  SysInv'
<1>1. /\ at' \in {"start", "exit"} /\ UNCHANGED machine
      /\ \/ target' = target
         \/ \E x : target' = [target EXCEPT !.stratum = x]
  <2>1. CASE StratumRefused \/ BootRefused
      BY <2>1 DEF StratumRefused, BootRefused, Exit
  <2>2. CASE ToolFails
      BY <2>2 DEF ToolFails, Exit
  <2>3. CASE \E reboot \in BOOLEAN : Again(reboot)
      BY <2>3 DEF Again
  <2> QED
      BY <2>1, <2>2, <2>3
<1>2. DOMAIN target' = Fields /\ target'.dirs = target.dirs
    BY <1>1 DEF SysInv, Fields
<1> QED
    BY <1>1, <1>2, SysLeaves

LEMMA SysStep == SysInv /\ [Next]_vars => SysInv'
<1> SUFFICES ASSUME SysInv, [Next]_vars PROVE SysInv'
    OBVIOUS
<1>1. CASE UNCHANGED vars
  <2>1. UNCHANGED <<machine, at, target>>
      BY <1>1 DEF vars, machine
  <2>2. live' = live
      BY <2>1 DEF machine
  <2> QED
      BY Zenon, <2>1, <2>2, SameAnswers, Stages DEF SysInv
<1> QED
    BY <1>1, SysPrepares, SysBase, SysQuiet, SysUser, SysRoot, SysNetwork, SysSwap,
       SysDelive, SysDesktop, SysEnds, Zenon DEF Next

LEMMA SysInvariance == Spec => []SysInv
    BY SysInit, SysStep, PTL DEF Spec

\* On a system whose installation succeeded, at the first attempt or later,
\* only the account asked for exists, with its password and without the
\* medium's sudo rule, and somebody can become root (AccountsRight).
THEOREM InstalledAccounts == Spec => []AccountsRight
<1>1. SysInv => AccountsRight
  <2> SUFFICES ASSUME SysInv, at = "done" PROVE AccountsRight
      BY DEF AccountsRight
  <2>1. /\ UserOk(target) /\ RootOk(target) /\ NoLive(target) /\ DesktopOk(target)
        /\ SessionOk(target) /\ validate
      BY Stages DEF SysInv
  <2>2. cfg.create_user \/ cfg.root_password =>
            target.root = "password" \/ target.accounts \cap target.sudoers # {}
      BY <2>1 DEF UserOk, RootOk, NoLive, People, validate
  <2>3. target.accounts = People /\ target.accounts \subseteq target.passwords
        /\ target.root # "live"
      BY <2>1 DEF UserOk, RootOk, NoLive
  <2>4. cfg.desktop = "keep" /\ live.sddm => target.session \in {None} \cup target.accounts
      BY <2>1, <2>3 DEF SessionOk, Login, People
  <2> QED
      BY <2>1, <2>2, <2>3, <2>4 DEF AccountsRight, NoLive, DesktopOk, People
<1> QED
    BY <1>1, SysInvariance, PTL

\* It has a DHCP client that runs exactly when the answers ask for the network
\* and the medium has one, and NetworkManager runs alone (Networked).
THEOREM InstalledNetwork == Spec => []Networked
<1>1. SysInv => Networked
  <2> SUFFICES ASSUME SysInv, at = "done" PROVE Networked
      BY DEF Networked
  <2>1. NetOk(target)
      BY Stages DEF SysInv
  <2> DEFINE running == Clients \cap target.enabled \cap target.dirs
  <2>2. cfg.network = "none" => running = {}
      BY <2>1 DEF NetOk
  <2>3. cfg.network # "none" /\ live.nm => running = {"NetworkManager"}
      BY <2>1 DEF NetOk, Clients
  <2>4. cfg.network # "none" /\ ~live.nm /\ "dhcpcd" \in live.services => running # {}
      BY <2>1 DEF NetOk, Clients
  <2>5. cfg.network = "dhcp" /\ ~live.nm /\ live.dhclient => running # {}
      BY <2>1 DEF NetOk, Clients
  <2> QED
      BY <2>2, <2>3, <2>4, <2>5 DEF Networked
<1> QED
    BY <1>1, SysInvariance, PTL

-----------------------------------------------------------------------------
(***************************************************************************)
(* The disk.  A command formats the partition of a role only once that     *)
(* role has a partition this installation made: either it has one by now,  *)
(* or the command that makes it comes first.                               *)
(***************************************************************************)
Roles == {"bios", "esp", "boot", "swap", "root"}
LayFields == Roles \cup {"luks", "mounts"}
Verbs == {"zap", "new", "vfat", "ext4", "btrfs", "swap", "luksFormat", "open", "top",
          "subvolumes", "mount"}
Commands == {c \in [do : Verbs, role : Roles] : c.do = "luksFormat" => c.role = "root"}

Formats(c) == c.do \in {"vfat", "ext4", "btrfs", "swap", "luksFormat"}
Makes(s, r) == \E j \in 1..Len(s) : s[j] = Do("new", r)
Ready(s, R) ==
    \A i \in 1..Len(s) : Formats(s[i]) =>
        \/ s[i].role \in R
        \/ \E j \in 1..(i - 1) : s[j] = Do("new", s[i].role)
NoZap(s) == \A i \in 1..Len(s) : s[i].do # "zap"

Fresh == {r \in Roles : lay[r] \in 1..Len(disk) /\ ~disk[lay[r]].old}

KeptInv ==
    /\ disk \in Seq(Partitions) /\ attempt \in Nat
    /\ cfg.filesystem \in {"btrfs", "ext4"}
    /\ DOMAIN lay = LayFields
    /\ todo \in Seq(Commands)
    /\ at # "layout" \/ cfg.mode = "mounted" => todo = <<>>
    /\ cfg.mode # "erase" => Ready(todo, Fresh) /\ NoZap(todo)

LEMMA ReadyHead ==
    ASSUME NEW s \in Seq(Commands), s # <<>>, NEW R, Ready(s, R)
    PROVE  /\ Tail(s) \in Seq(Commands) /\ Head(s) \in Commands /\ Head(s) = s[1]
           /\ Formats(Head(s)) => Head(s).role \in R
           /\ Head(s).do # "new" => Ready(Tail(s), R)
           /\ Ready(Tail(s), R \cup {Head(s).role})
           /\ NoZap(s) => NoZap(Tail(s)) /\ Head(s).do # "zap"
<1>1. /\ Len(s) \in Nat /\ 1 \in 1..Len(s) /\ Len(Tail(s)) = Len(s) - 1
      /\ Tail(s) \in Seq(Commands) /\ Head(s) \in Commands /\ Head(s) = s[1]
      /\ \A i \in 1..Len(Tail(s)) : Tail(s)[i] = s[i + 1] /\ i + 1 \in 1..Len(s)
    OBVIOUS
<1>2. Formats(Head(s)) => Head(s).role \in R
  <2>1. 1..(1 - 1) = {}
      OBVIOUS
  <2> QED
      BY <1>1, <2>1 DEF Ready
<1>3. ASSUME NEW i \in 1..Len(Tail(s)), Formats(Tail(s)[i])
      PROVE  \/ Tail(s)[i].role \in R
             \/ s[1] = Do("new", Tail(s)[i].role)
             \/ \E j \in 1..(i - 1) : Tail(s)[j] = Do("new", Tail(s)[i].role)
  <2>1. s[i + 1].role \in R \/ \E j \in 1..i : s[j] = Do("new", s[i + 1].role)
      BY <1>1, <1>3 DEF Ready
  <2>2. ASSUME NEW j \in 1..i, j # 1, s[j] = Do("new", s[i + 1].role)
        PROVE  j - 1 \in 1..(i - 1) /\ Tail(s)[j - 1] = Do("new", s[i + 1].role)
      BY <1>1, <2>2
  <2> QED
      BY <1>1, <2>1, <2>2
<1>4. Head(s).do # "new" => Ready(Tail(s), R)
    BY <1>1, <1>3 DEF Ready, Do
<1>5. Ready(Tail(s), R \cup {Head(s).role})
    BY <1>1, <1>3 DEF Ready, Do
<1>6. NoZap(s) => NoZap(Tail(s)) /\ Head(s).do # "zap"
    BY <1>1 DEF NoZap
<1> QED
    BY <1>1, <1>2, <1>4, <1>5, <1>6

LEMMA ReadyMore ==
    ASSUME NEW s, NEW R, NEW S, R \subseteq S, Ready(s, R)
    PROVE  Ready(s, S)
    BY DEF Ready

\* The program is put together from pieces.
LEMMA Piece ==
    ASSUME NEW s \in Seq(Commands), NEW t \in Seq(Commands), Ready(s, {}),
           \A i \in 1..Len(t) : Formats(t[i]) => Makes(s, t[i].role)
    PROVE  /\ s \o t \in Seq(Commands) /\ Ready(s \o t, {})
           /\ \A r : Makes(s, r) \/ Makes(t, r) => Makes(s \o t, r)
           /\ NoZap(s) /\ NoZap(t) => NoZap(s \o t)
<1> DEFINE u == s \o t
<1>1. /\ Len(s) \in Nat /\ Len(t) \in Nat /\ u \in Seq(Commands) /\ Len(u) = Len(s) + Len(t)
      /\ \A i \in 1..Len(s) : u[i] = s[i]
      /\ \A i \in 1..Len(t) : u[Len(s) + i] = t[i]
    OBVIOUS
<1> HIDE DEF u
<1>2. \A i \in 1..Len(u) : \/ i \in 1..Len(s)
                           \/ i - Len(s) \in 1..Len(t) /\ u[i] = t[i - Len(s)]
  <2> TAKE i \in 1..Len(u)
  <2>1. i \in 1..Len(s) \/ i - Len(s) \in 1..Len(t)
      BY <1>1
  <2>2. Len(s) + (i - Len(s)) = i
      BY <1>1
  <2> QED
      BY <1>1, <2>1, <2>2
<1>3. Ready(u, {})
  <2> SUFFICES ASSUME NEW i \in 1..Len(u), Formats(u[i])
               PROVE  \E j \in 1..(i - 1) : u[j] = Do("new", u[i].role)
      BY DEF Ready
  <2>1. CASE i \in 1..Len(s)
    <3>1. PICK j \in 1..(i - 1) : s[j] = Do("new", s[i].role)
        BY <1>1, <2>1 DEF Ready
    <3>2. j \in 1..Len(s)
        BY <1>1, <2>1
    <3> QED
        BY <1>1, <2>1, <3>1, <3>2
  <2>2. CASE i - Len(s) \in 1..Len(t) /\ u[i] = t[i - Len(s)]
    <3>1. PICK j \in 1..Len(s) : s[j] = Do("new", u[i].role)
        BY <2>2 DEF Makes
    <3>2. j \in 1..(i - 1)
        BY <1>1, <2>2
    <3> QED
        BY <1>1, <3>1, <3>2
  <2> QED
      BY <1>2, <2>1, <2>2
<1>4. \A r : Makes(s, r) \/ Makes(t, r) => Makes(u, r)
  <2> TAKE r
  <2>1. ASSUME NEW j \in 1..Len(s), s[j] = Do("new", r) PROVE Makes(u, r)
    <3>1. j \in 1..Len(u) /\ u[j] = Do("new", r)
        BY <1>1, <2>1
    <3> QED
        BY <3>1 DEF Makes
  <2>2. ASSUME NEW j \in 1..Len(t), t[j] = Do("new", r) PROVE Makes(u, r)
    <3>1. Len(s) + j \in 1..Len(u) /\ u[Len(s) + j] = Do("new", r)
        BY <1>1, <2>2
    <3> QED
        BY <3>1 DEF Makes
  <2> QED
      BY <2>1, <2>2 DEF Makes
<1>5. NoZap(s) /\ NoZap(t) => NoZap(u)
    BY <1>1, <1>2 DEF NoZap
<1> QED
    BY <1>1, <1>3, <1>4, <1>5 DEF u

\* A piece that is left out or holds one command.
LEMMA WhenPiece ==
    ASSUME NEW b, NEW c \in Commands
    PROVE  /\ When(b, <<c>>) \in Seq(Commands)
           /\ \A i \in 1..Len(When(b, <<c>>)) : When(b, <<c>>)[i] = c /\ b
           /\ b => \A r : c = Do("new", r) => Makes(When(b, <<c>>), r)
<1>1. CASE b
  <2>1. When(b, <<c>>) = <<c>>
      BY <1>1 DEF When
  <2>2. /\ <<c>> \in Seq(Commands) /\ Len(<<c>>) = 1 /\ <<c>>[1] = c
        /\ \A i \in 1..Len(<<c>>) : <<c>>[i] = c
      OBVIOUS
  <2>3. \A r : c = Do("new", r) => Makes(<<c>>, r)
    <3>1. 1 \in 1..Len(<<c>>)
        BY <2>2
    <3> QED
        BY <2>2, <3>1 DEF Makes
  <2> QED
      BY Zenon, <1>1, <2>1, <2>2, <2>3
<1>2. CASE ~b
  <2>1. When(b, <<c>>) = <<>>
      BY <1>2 DEF When
  <2>2. <<>> \in Seq(Commands) /\ 1..Len(<<>>) = {}
      OBVIOUS
  <2> QED
      BY <1>2, <2>1, <2>2
<1> QED
    BY <1>1, <1>2

\* partition_disk formats what it made, and in no other mode than erase does
\* it wipe the partition table.
LEMMA ProgramReady ==
    ASSUME cfg.filesystem \in {"btrfs", "ext4"}
    PROVE  /\ partition_disk \in Seq(Commands) /\ Ready(partition_disk, {})
           /\ cfg.mode # "erase" => NoZap(partition_disk)
<1> DEFINE
     q1 == When(cfg.mode = "erase", <<Do("zap", "root")>>)
     q2 == When(WantsBios /\ Existing("EF02") = 0, <<Do("new", "bios")>>)
     q3 == When(Existing("EF00") = 0, <<Do("new", "esp")>>)
     q4 == When(cfg.encrypt, <<Do("new", "boot")>>)
     q5 == When(cfg.swap = "partition", <<Do("new", "swap")>>)
     q6 == <<Do("new", "root")>>
     q7 == FormatEsp
     q8 == When(cfg.encrypt, <<Do("ext4", "boot"), Do("luksFormat", "root"), Do("open", "root")>>)
     q9 == <<Do(cfg.filesystem, "root")>>
     q10 == When(cfg.swap = "partition" /\ ~cfg.encrypt, <<Do("swap", "swap")>>)
     q11 == When(cfg.filesystem = "btrfs", <<Do("top", "root"), Do("subvolumes", "root")>>)
     q12 == <<Do("mount", "root")>>
     q13 == When(cfg.encrypt, <<Do("mount", "boot")>>)
     q14 == <<Do("mount", "esp")>>
     s1 == q1
     s2 == s1 \o q2
     s3 == s2 \o q3
     s4 == s3 \o q4
     s5 == s4 \o q5
     s6 == s5 \o q6
     s7 == s6 \o q7
     s8 == s7 \o q8
     s9 == s8 \o q9
     s10 == s9 \o q10
     s11 == s10 \o q11
     s12 == s11 \o q12
     s13 == s12 \o q13
     s14 == s13 \o q14
     Good(s) == /\ s \in Seq(Commands) /\ Ready(s, {})
                /\ cfg.mode # "erase" => NoZap(s)
     EspMade(s) == Existing("EF00") = 0 => Makes(s, "esp")
     BootMade(s) == cfg.encrypt => Makes(s, "boot")
     SwapMade(s) == cfg.swap = "partition" => Makes(s, "swap")
<1> HIDE DEF q1, q2, q3, q4, q5, q6, q7, q8, q9, q10, q11, q12, q13, q14,
             s1, s2, s3, s4, s5, s6, s7, s8, s9, s10, s11, s12, s13, s14
<1>1. Good(s1)
  <2>1. Do("zap", "root") \in Commands
      BY DEF Do, Commands, Verbs, Roles
  <2>2. /\ q1 \in Seq(Commands)
        /\ \A i \in 1..Len(q1) : q1[i] = Do("zap", "root") /\ (cfg.mode = "erase")
      BY Zenon, <2>1, WhenPiece DEF q1
  <2>3. Ready(q1, {}) /\ (cfg.mode # "erase" => NoZap(q1))
      BY <2>2 DEF Do, Ready, NoZap, Formats
  <2> QED
      BY <2>2, <2>3 DEF s1
<1>2. Good(s2)
  <2>1. Do("new", "bios") \in Commands
      BY DEF Do, Commands, Verbs, Roles
  <2>2. /\ q2 \in Seq(Commands)
        /\ \A i \in 1..Len(q2) : q2[i] = Do("new", "bios") /\ (WantsBios /\ Existing("EF02") = 0)
        /\ (WantsBios /\ Existing("EF02") = 0) => Makes(q2, "bios")
      BY Zenon, <2>1, WhenPiece DEF q2
  <2>3. /\ \A i \in 1..Len(q2) : Formats(q2[i]) => Makes(s1, q2[i].role)
        /\ NoZap(q2)
      BY <1>1, <2>2 DEF Do, Formats, NoZap
  <2>4. /\ s2 \in Seq(Commands) /\ Ready(s2, {})
        /\ \A r : Makes(s1, r) \/ Makes(q2, r) => Makes(s2, r)
        /\ NoZap(s1) /\ NoZap(q2) => NoZap(s2)
      BY Zenon, <1>1, <2>2, <2>3, Piece DEF s2
  <2> QED
      BY <1>1, <2>2, <2>3, <2>4
<1>3. Good(s3) /\ EspMade(s3)
  <2>1. Do("new", "esp") \in Commands
      BY DEF Do, Commands, Verbs, Roles
  <2>2. /\ q3 \in Seq(Commands)
        /\ \A i \in 1..Len(q3) : q3[i] = Do("new", "esp") /\ (Existing("EF00") = 0)
        /\ (Existing("EF00") = 0) => Makes(q3, "esp")
      BY Zenon, <2>1, WhenPiece DEF q3
  <2>3. /\ \A i \in 1..Len(q3) : Formats(q3[i]) => Makes(s2, q3[i].role)
        /\ NoZap(q3)
      BY <1>2, <2>2 DEF Do, Formats, NoZap
  <2>4. /\ s3 \in Seq(Commands) /\ Ready(s3, {})
        /\ \A r : Makes(s2, r) \/ Makes(q3, r) => Makes(s3, r)
        /\ NoZap(s2) /\ NoZap(q3) => NoZap(s3)
      BY Zenon, <1>2, <2>2, <2>3, Piece DEF s3
  <2> QED
      BY <1>2, <2>2, <2>3, <2>4
<1>4. Good(s4) /\ EspMade(s4) /\ BootMade(s4)
  <2>1. Do("new", "boot") \in Commands
      BY DEF Do, Commands, Verbs, Roles
  <2>2. /\ q4 \in Seq(Commands)
        /\ \A i \in 1..Len(q4) : q4[i] = Do("new", "boot") /\ (cfg.encrypt)
        /\ (cfg.encrypt) => Makes(q4, "boot")
      BY <2>1, WhenPiece DEF q4
  <2>3. /\ \A i \in 1..Len(q4) : Formats(q4[i]) => Makes(s3, q4[i].role)
        /\ NoZap(q4)
      BY <1>3, <2>2 DEF Do, Formats, NoZap
  <2>4. /\ s4 \in Seq(Commands) /\ Ready(s4, {})
        /\ \A r : Makes(s3, r) \/ Makes(q4, r) => Makes(s4, r)
        /\ NoZap(s3) /\ NoZap(q4) => NoZap(s4)
      BY Zenon, <1>3, <2>2, <2>3, Piece DEF s4
  <2> QED
      BY <1>3, <2>2, <2>3, <2>4
<1>5. Good(s5) /\ EspMade(s5) /\ BootMade(s5) /\ SwapMade(s5)
  <2>1. Do("new", "swap") \in Commands
      BY DEF Do, Commands, Verbs, Roles
  <2>2. /\ q5 \in Seq(Commands)
        /\ \A i \in 1..Len(q5) : q5[i] = Do("new", "swap") /\ (cfg.swap = "partition")
        /\ (cfg.swap = "partition") => Makes(q5, "swap")
      BY Zenon, <2>1, WhenPiece DEF q5
  <2>3. /\ \A i \in 1..Len(q5) : Formats(q5[i]) => Makes(s4, q5[i].role)
        /\ NoZap(q5)
      BY <1>4, <2>2 DEF Do, Formats, NoZap
  <2>4. /\ s5 \in Seq(Commands) /\ Ready(s5, {})
        /\ \A r : Makes(s4, r) \/ Makes(q5, r) => Makes(s5, r)
        /\ NoZap(s4) /\ NoZap(q5) => NoZap(s5)
      BY Zenon, <1>4, <2>2, <2>3, Piece DEF s5
  <2> QED
      BY <1>4, <2>2, <2>3, <2>4
<1>6. Good(s6) /\ EspMade(s6) /\ BootMade(s6) /\ SwapMade(s6) /\ Makes(s6, "root")
  <2>1. Do("new", "root") \in Commands
      BY DEF Do, Commands, Verbs, Roles
  <2>2. /\ q6 \in Seq(Commands)
        /\ \A i \in 1..Len(q6) : q6[i] = Do("new", "root")
        /\ Makes(q6, "root")
      BY <2>1 DEF Makes, q6
  <2>3. /\ \A i \in 1..Len(q6) : Formats(q6[i]) => Makes(s5, q6[i].role)
        /\ NoZap(q6)
      BY <1>5, <2>2 DEF Do, Formats, NoZap
  <2>4. /\ s6 \in Seq(Commands) /\ Ready(s6, {})
        /\ \A r : Makes(s5, r) \/ Makes(q6, r) => Makes(s6, r)
        /\ NoZap(s5) /\ NoZap(q6) => NoZap(s6)
      BY Zenon, <1>5, <2>2, <2>3, Piece DEF s6
  <2> QED
      BY Zenon, <1>5, <2>2, <2>3, <2>4
<1>7. Good(s7) /\ EspMade(s7) /\ BootMade(s7) /\ SwapMade(s7) /\ Makes(s7, "root")
  <2>1. Do("vfat", "esp") \in Commands
      BY DEF Do, Commands, Verbs, Roles
  <2>2. /\ q7 \in Seq(Commands)
        /\ \A i \in 1..Len(q7) : q7[i] = Do("vfat", "esp") /\ (Existing("EF00") = 0)
      BY Zenon, <2>1, WhenPiece DEF FormatEsp, q7
  <2>3. /\ \A i \in 1..Len(q7) : Formats(q7[i]) => Makes(s6, q7[i].role)
        /\ NoZap(q7)
      BY <1>6, <2>2 DEF Do, Formats, NoZap
  <2>4. /\ s7 \in Seq(Commands) /\ Ready(s7, {})
        /\ \A r : Makes(s6, r) \/ Makes(q7, r) => Makes(s7, r)
        /\ NoZap(s6) /\ NoZap(q7) => NoZap(s7)
      BY Zenon, <1>6, <2>2, <2>3, Piece DEF s7
  <2> QED
      BY Zenon, <1>6, <2>2, <2>3, <2>4
<1>8. Good(s8) /\ EspMade(s8) /\ BootMade(s8) /\ SwapMade(s8) /\ Makes(s8, "root")
  <2>1. Do("ext4", "boot") \in Commands /\ Do("luksFormat", "root") \in Commands /\ Do("open", "root") \in Commands
      BY DEF Do, Commands, Verbs, Roles
  <2>2. /\ q8 \in Seq(Commands)
        /\ \A i \in 1..Len(q8) :
              q8[i] \in {Do("ext4", "boot"), Do("luksFormat", "root"), Do("open", "root")} /\ (cfg.encrypt)
      BY <2>1 DEF When, q8
  <2>3. /\ \A i \in 1..Len(q8) : Formats(q8[i]) => Makes(s7, q8[i].role)
        /\ NoZap(q8)
      BY <1>7, <2>2 DEF Do, Formats, NoZap
  <2>4. /\ s8 \in Seq(Commands) /\ Ready(s8, {})
        /\ \A r : Makes(s7, r) \/ Makes(q8, r) => Makes(s8, r)
        /\ NoZap(s7) /\ NoZap(q8) => NoZap(s8)
      BY Zenon, <1>7, <2>2, <2>3, Piece DEF s8
  <2> QED
      BY Zenon, <1>7, <2>2, <2>3, <2>4
<1>9. Good(s9) /\ EspMade(s9) /\ BootMade(s9) /\ SwapMade(s9) /\ Makes(s9, "root")
  <2>1. Do(cfg.filesystem, "root") \in Commands
      BY DEF Do, Commands, Verbs, Roles
  <2>2. /\ q9 \in Seq(Commands)
        /\ \A i \in 1..Len(q9) : q9[i] = Do(cfg.filesystem, "root")
      BY <2>1 DEF Makes, q9
  <2>3. /\ \A i \in 1..Len(q9) : Formats(q9[i]) => Makes(s8, q9[i].role)
        /\ NoZap(q9)
      BY <1>8, <2>2 DEF Do, Formats, NoZap
  <2>4. /\ s9 \in Seq(Commands) /\ Ready(s9, {})
        /\ \A r : Makes(s8, r) \/ Makes(q9, r) => Makes(s9, r)
        /\ NoZap(s8) /\ NoZap(q9) => NoZap(s9)
      BY Zenon, <1>8, <2>2, <2>3, Piece DEF s9
  <2> QED
      BY Zenon, <1>8, <2>2, <2>3, <2>4
<1>10. Good(s10) /\ EspMade(s10) /\ BootMade(s10) /\ SwapMade(s10) /\ Makes(s10, "root")
  <2>1. Do("swap", "swap") \in Commands
      BY DEF Do, Commands, Verbs, Roles
  <2>2. /\ q10 \in Seq(Commands)
        /\ \A i \in 1..Len(q10) : q10[i] = Do("swap", "swap") /\ (cfg.swap = "partition" /\ ~cfg.encrypt)
      BY Zenon, <2>1, WhenPiece DEF q10
  <2>3. /\ \A i \in 1..Len(q10) : Formats(q10[i]) => Makes(s9, q10[i].role)
        /\ NoZap(q10)
      BY <1>9, <2>2 DEF Do, Formats, NoZap
  <2>4. /\ s10 \in Seq(Commands) /\ Ready(s10, {})
        /\ \A r : Makes(s9, r) \/ Makes(q10, r) => Makes(s10, r)
        /\ NoZap(s9) /\ NoZap(q10) => NoZap(s10)
      BY Zenon, <1>9, <2>2, <2>3, Piece DEF s10
  <2> QED
      BY Zenon, <1>9, <2>2, <2>3, <2>4
<1>11. Good(s11) /\ EspMade(s11) /\ BootMade(s11) /\ SwapMade(s11) /\ Makes(s11, "root")
  <2>1. Do("top", "root") \in Commands /\ Do("subvolumes", "root") \in Commands
      BY DEF Do, Commands, Verbs, Roles
  <2>2. /\ q11 \in Seq(Commands)
        /\ \A i \in 1..Len(q11) :
              q11[i] \in {Do("top", "root"), Do("subvolumes", "root")} /\ (cfg.filesystem = "btrfs")
      BY <2>1 DEF When, q11
  <2>3. /\ \A i \in 1..Len(q11) : Formats(q11[i]) => Makes(s10, q11[i].role)
        /\ NoZap(q11)
      BY <1>10, <2>2 DEF Do, Formats, NoZap
  <2>4. /\ s11 \in Seq(Commands) /\ Ready(s11, {})
        /\ \A r : Makes(s10, r) \/ Makes(q11, r) => Makes(s11, r)
        /\ NoZap(s10) /\ NoZap(q11) => NoZap(s11)
      BY Zenon, <1>10, <2>2, <2>3, Piece DEF s11
  <2> QED
      BY Zenon, <1>10, <2>2, <2>3, <2>4
<1>12. Good(s12) /\ EspMade(s12) /\ BootMade(s12) /\ SwapMade(s12) /\ Makes(s12, "root")
  <2>1. Do("mount", "root") \in Commands
      BY DEF Do, Commands, Verbs, Roles
  <2>2. /\ q12 \in Seq(Commands)
        /\ \A i \in 1..Len(q12) : q12[i] = Do("mount", "root")
      BY <2>1 DEF Makes, q12
  <2>3. /\ \A i \in 1..Len(q12) : Formats(q12[i]) => Makes(s11, q12[i].role)
        /\ NoZap(q12)
      BY <1>11, <2>2 DEF Do, Formats, NoZap
  <2>4. /\ s12 \in Seq(Commands) /\ Ready(s12, {})
        /\ \A r : Makes(s11, r) \/ Makes(q12, r) => Makes(s12, r)
        /\ NoZap(s11) /\ NoZap(q12) => NoZap(s12)
      BY Zenon, <1>11, <2>2, <2>3, Piece DEF s12
  <2> QED
      BY Zenon, <1>11, <2>2, <2>3, <2>4
<1>13. Good(s13) /\ EspMade(s13) /\ BootMade(s13) /\ SwapMade(s13) /\ Makes(s13, "root")
  <2>1. Do("mount", "boot") \in Commands
      BY DEF Do, Commands, Verbs, Roles
  <2>2. /\ q13 \in Seq(Commands)
        /\ \A i \in 1..Len(q13) : q13[i] = Do("mount", "boot") /\ (cfg.encrypt)
      BY <2>1, WhenPiece DEF q13
  <2>3. /\ \A i \in 1..Len(q13) : Formats(q13[i]) => Makes(s12, q13[i].role)
        /\ NoZap(q13)
      BY <1>12, <2>2 DEF Do, Formats, NoZap
  <2>4. /\ s13 \in Seq(Commands) /\ Ready(s13, {})
        /\ \A r : Makes(s12, r) \/ Makes(q13, r) => Makes(s13, r)
        /\ NoZap(s12) /\ NoZap(q13) => NoZap(s13)
      BY Zenon, <1>12, <2>2, <2>3, Piece DEF s13
  <2> QED
      BY Zenon, <1>12, <2>2, <2>3, <2>4
<1>14. Good(s14) /\ EspMade(s14) /\ BootMade(s14) /\ SwapMade(s14) /\ Makes(s14, "root")
  <2>1. Do("mount", "esp") \in Commands
      BY DEF Do, Commands, Verbs, Roles
  <2>2. /\ q14 \in Seq(Commands)
        /\ \A i \in 1..Len(q14) : q14[i] = Do("mount", "esp")
      BY <2>1 DEF Makes, q14
  <2>3. /\ \A i \in 1..Len(q14) : Formats(q14[i]) => Makes(s13, q14[i].role)
        /\ NoZap(q14)
      BY <1>13, <2>2 DEF Do, Formats, NoZap
  <2>4. /\ s14 \in Seq(Commands) /\ Ready(s14, {})
        /\ \A r : Makes(s13, r) \/ Makes(q14, r) => Makes(s14, r)
        /\ NoZap(s13) /\ NoZap(q14) => NoZap(s14)
      BY Zenon, <1>13, <2>2, <2>3, Piece DEF s14
  <2> QED
      BY Zenon, <1>13, <2>2, <2>3, <2>4
<1> QED
  <2>1. partition_disk = s14
      BY DEF partition_disk,
             q1, q2, q3, q4, q5, q6, q7, q8, q9, q10, q11, q12, q13, q14,
             s1, s2, s3, s4, s5, s6, s7, s8, s9, s10, s11, s12, s13, s14
  <2> QED
      BY <1>14, <2>1

\* A new partition, and one with another filesystem.
LEMMA NewPartIs ==
    ASSUME NEW role
    PROVE  NewPart(role) \in Partitions /\ ~NewPart(role).old
<1>1. Code(role) \in Codes
    BY DEF Code, Codes
<1> QED
    BY <1>1 DEF NewPart, Partitions, Filesystems

\* e is d, but for what partition k holds.
Rewritten(d, e, k) ==
    /\ e \in Seq(Partitions) /\ Len(e) = Len(d)
    /\ \A i \in 1..Len(d) : e[i].old = d[i].old /\ (i # k => e[i] = d[i])

LEMMA Rewrite ==
    ASSUME NEW d \in Seq(Partitions), NEW k, NEW r,
           k \in 1..Len(d) => r \in Partitions /\ r.old = d[k].old
    PROVE  Rewritten(d, [d EXCEPT ![k] = r], k)
<1> DEFINE e == [d EXCEPT ![k] = r]
<1>1. DOMAIN d = 1..Len(d) /\ Len(d) \in Nat /\ \A i \in 1..Len(d) : d[i] \in Partitions
    OBVIOUS
<1>2. /\ DOMAIN e = 1..Len(d)
      /\ e = [i \in 1..Len(d) |-> e[i]]
      /\ \A i \in 1..Len(d) : e[i] = IF i = k THEN r ELSE d[i]
    BY Zenon, <1>1
<1> HIDE DEF e
<1>3. \A i \in 1..Len(d) : e[i] \in Partitions /\ e[i].old = d[i].old /\ (i # k => e[i] = d[i])
    BY <1>1, <1>2
<1>4. e \in Seq(Partitions) /\ Len(e) = Len(d)
    BY <1>1, <1>2, <1>3
<1> QED
    BY <1>3, <1>4 DEF Rewritten, e

LEMMA InnerFormatted ==
    ASSUME NEW d \in Seq(Partitions), NEW k, NEW x \in Filesystems
    PROVE  Rewritten(d, [d EXCEPT ![k].inner = x], k)
<1>1. [d EXCEPT ![k].inner = x]
        = [d EXCEPT ![k] = [d[k] EXCEPT !.inner = x]]
    OBVIOUS
<1>2. k \in 1..Len(d) => d[k] \in Partitions
    OBVIOUS
<1>3. k \in 1..Len(d) =>
          /\ [d[k] EXCEPT !.inner = x] \in Partitions
          /\ [d[k] EXCEPT !.inner = x].old = d[k].old
    BY <1>2 DEF Partitions
<1> QED
    BY Zenon, <1>1, <1>3, Rewrite

LEMMA Formatted ==
    ASSUME NEW d \in Seq(Partitions), NEW k, NEW x \in Filesystems, NEW n \in Nat
    PROVE  Rewritten(d, [d EXCEPT ![k].fs = x, ![k].uuid = n], k)
<1>1. [d EXCEPT ![k].fs = x, ![k].uuid = n]
        = [d EXCEPT ![k] = [d[k] EXCEPT !.fs = x, !.uuid = n]]
    BY Zenon
<1>2. k \in 1..Len(d) => d[k] \in Partitions
    OBVIOUS
<1>3. k \in 1..Len(d) =>
          /\ [d[k] EXCEPT !.fs = x, !.uuid = n] \in Partitions
          /\ [d[k] EXCEPT !.fs = x, !.uuid = n].old = d[k].old
    BY Zenon, <1>2 DEF Partitions
<1> QED
    BY Zenon, <1>1, <1>3, Rewrite

LEMMA LuksFormatted ==
    ASSUME NEW d \in Seq(Partitions), NEW k, NEW x \in Filesystems,
           NEW y \in Filesystems, NEW n \in Nat
    PROVE  Rewritten(d, [d EXCEPT ![k].fs = x, ![k].inner = y, ![k].uuid = n], k)
<1>1. [d EXCEPT ![k].fs = x, ![k].inner = y, ![k].uuid = n]
        = [d EXCEPT ![k] = [d[k] EXCEPT !.fs = x, !.inner = y, !.uuid = n]]
    BY Zenon
<1>2. k \in 1..Len(d) => d[k] \in Partitions
    OBVIOUS
<1>3. k \in 1..Len(d) =>
          /\ [d[k] EXCEPT !.fs = x, !.inner = y, !.uuid = n] \in Partitions
          /\ [d[k] EXCEPT !.fs = x, !.inner = y, !.uuid = n].old = d[k].old
    BY Zenon, <1>2 DEF Partitions
<1> QED
    BY Zenon, <1>1, <1>3, Rewrite

\* What a step does to the partitions that were there before.
Keeps ==
    \A p \in Parts :
        disk[p].old /\ cfg.mode # "erase" /\ disk'[p] # disk[p]
            => cfg.mode = "mounted" /\ p = cfg.swap_device

LEMMA EmptyTodo == <<>> \in Seq(Commands) /\ \A R : Ready(<<>>, R) /\ NoZap(<<>>)
    BY DEF Ready, NoZap

LEMMA KeptInit == Init => KeptInv
<1> SUFFICES ASSUME Init PROVE KeptInv
    OBVIOUS
<1>1. disk \in Seq(Partitions) /\ cfg.filesystem \in {"btrfs", "ext4"}
    BY MachinesAssumption DEF Init
<1>2. DOMAIN NoLayout = LayFields
    BY DEF NoLayout, LayFields, Roles
<1> QED
    BY <1>1, <1>2, EmptyTodo DEF Init, KeptInv

\* The program is over or has not begun.
LEMMA KeptFrame ==
    ASSUME KeptInv, UNCHANGED <<cfg, attempt, lay, disk>>, todo' = <<>>
    PROVE  KeptInv' /\ Keeps
<1>1. KeptInv'
    BY EmptyTodo DEF KeptInv
<1> QED
    BY <1>1 DEF Keeps

LEMMA KeptPartition ==
    ASSUME KeptInv, Partition
    PROVE  KeptInv' /\ Keeps
<1>1. CASE todo' = <<>> /\ UNCHANGED lay
    BY <1>1, KeptFrame DEF Partition, machine
<1>2. CASE /\ lay' = [NoLayout EXCEPT !.esp = Existing("EF00"), !.bios = Existing("EF02")]
           /\ todo' = partition_disk /\ UNCHANGED at
  <2>1. /\ at = "layout" /\ cfg.mode # "mounted"
        /\ UNCHANGED <<cfg, attempt, disk>>
      BY DEF Partition, machine
  <2>2. DOMAIN lay' = LayFields
      BY <1>2 DEF NoLayout, LayFields, Roles
  <2>3. /\ todo' \in Seq(Commands) /\ Ready(todo', {})
        /\ cfg.mode # "erase" => NoZap(todo')
      BY <1>2, ProgramReady DEF KeptInv
  <2>4. Ready(todo', Fresh')
      BY <2>3, ReadyMore
  <2>5. KeptInv'
      BY <1>2, <2>1, <2>2, <2>3, <2>4 DEF KeptInv
  <2> QED
      BY <2>1, <2>5 DEF Keeps
<1> QED
    BY <1>1, <1>2 DEF Partition, Exit

\* A command that runs.
LEMMA KeptRun ==
    ASSUME KeptInv, at = "layout", todo # <<>>, NEW c, c = Head(todo),
           todo' = Tail(todo), Tail(todo) # <<>> => at' = at,
           UNCHANGED <<cfg, attempt>>,
           DOMAIN lay' = LayFields, disk' \in Seq(Partitions),
           cfg.mode # "erase" => \/ Fresh \cup {c.role} \subseteq Fresh'
                                 \/ c.do # "new" /\ Fresh \subseteq Fresh'
    PROVE  KeptInv'
<1>1. todo \in Seq(Commands)
    BY DEF KeptInv
<1>2. Tail(todo) \in Seq(Commands)
    BY <1>1
<1>3. cfg.mode # "erase" => Ready(todo', Fresh') /\ NoZap(todo')
  <2> SUFFICES ASSUME cfg.mode # "erase" PROVE Ready(todo', Fresh') /\ NoZap(todo')
      OBVIOUS
  <2>1. Ready(todo, Fresh) /\ NoZap(todo)
      BY DEF KeptInv
  <2>2. /\ c.do # "new" => Ready(Tail(todo), Fresh)
        /\ Ready(Tail(todo), Fresh \cup {c.role})
        /\ NoZap(Tail(todo))
      BY Zenon, <1>1, <2>1, ReadyHead
  <2>3. CASE Fresh \cup {c.role} \subseteq Fresh'
      BY <2>2, <2>3, ReadyMore
  <2>4. CASE c.do # "new" /\ Fresh \subseteq Fresh'
      BY <2>2, <2>4, ReadyMore
  <2> QED
      BY <2>3, <2>4
<1>4. cfg.mode # "mounted"
    BY Zenon DEF KeptInv
<1> QED
    BY <1>2, <1>3, <1>4 DEF KeptInv

\* A command that rewrites what the partition of a role holds.
LEMMA FreshRewritten ==
    ASSUME KeptInv, NEW r \in Roles, Rewritten(disk, disk', lay[r]),
           UNCHANGED <<cfg, lay>>
    PROVE  /\ disk' \in Seq(Partitions) /\ Fresh \subseteq Fresh'
           /\ (cfg.mode # "erase" => r \in Fresh) => Keeps
<1>1. DOMAIN disk = 1..Len(disk)
    BY DEF KeptInv
<1>2. disk' \in Seq(Partitions) /\ Fresh \subseteq Fresh'
    BY DEF Rewritten, Fresh
<1>3. (cfg.mode # "erase" => r \in Fresh) => Keeps
    BY <1>1 DEF Rewritten, Fresh, Keeps, Parts
<1> QED
    BY <1>2, <1>3

LEMMA KeptCommand ==
    ASSUME KeptInv, Command
    PROVE  KeptInv' /\ Keeps
<1> DEFINE c == Head(todo)
<1>1. CASE todo' = <<>> /\ UNCHANGED <<lay, storage>>
    BY <1>1, KeptFrame DEF Command, machine, storage
<1>2. CASE /\ Zap(c) \/ new_part(c) \/ mkfs(c) \/ luks_format_open(c)
                \/ Subvolumes(c) \/ Mount(c)
           /\ todo' = Tail(todo)
           /\ at' = IF Tail(todo) = <<>> THEN After("layout") ELSE at
  <2>1. /\ at = "layout" /\ todo # <<>> /\ UNCHANGED <<cfg, attempt>>
      BY DEF Command, machine
  <2>2. /\ disk \in Seq(Partitions) /\ DOMAIN disk = 1..Len(disk) /\ Len(disk) \in Nat
        /\ DOMAIN lay = LayFields /\ attempt \in Nat /\ todo \in Seq(Commands)
      BY DEF KeptInv
  <2>3. c \in Commands
      BY <2>1, <2>2
  <2>4. cfg.mode # "erase" => c.do # "zap" /\ (Formats(c) => c.role \in Fresh)
      BY Zenon, <2>1, <2>2, ReadyHead DEF KeptInv
  <2>5. c.role \in Roles /\ (c.do = "luksFormat" => c.role = "root")
      BY <2>3 DEF Commands
  <2> HIDE DEF c
  <2>6. SUFFICES /\ DOMAIN lay' = LayFields /\ disk' \in Seq(Partitions)
                 /\ cfg.mode # "erase" => \/ Fresh \cup {c.role} \subseteq Fresh'
                                          \/ c.do # "new" /\ Fresh \subseteq Fresh'
                 /\ Keeps
    <3>1. c = Head(todo)
        BY DEF c
    <3> QED
        BY Zenon, <1>2, <2>1, <3>1, KeptRun
  <2>7. CASE Zap(c)
    <3>1. cfg.mode = "erase" /\ disk' \in Seq(Partitions) /\ lay' = lay
        BY <2>4, <2>7 DEF Zap
    <3> QED
        BY <2>2, <3>1 DEF Keeps
  <2>8. CASE new_part(c)
    <3>1. /\ lay' = [lay EXCEPT ![c.role] = Len(disk) + 1]
          /\ disk' = Append(disk, NewPart(c.role))
        BY <2>8 DEF new_part
    <3>2. NewPart(c.role) \in Partitions /\ ~NewPart(c.role).old
        BY NewPartIs
    <3>3. /\ disk' \in Seq(Partitions) /\ Len(disk') = Len(disk) + 1
          /\ disk'[Len(disk) + 1] = NewPart(c.role)
          /\ \A i \in 1..Len(disk) : disk'[i] = disk[i] /\ i \in 1..Len(disk')
          /\ Len(disk) + 1 \in 1..Len(disk')
        BY <2>2, <3>1, <3>2
    <3>4. /\ DOMAIN lay' = LayFields /\ lay'[c.role] = Len(disk) + 1
          /\ \A r \in Roles : r # c.role => lay'[r] = lay[r]
        BY <2>2, <2>5, <3>1 DEF LayFields
    <3>5. Fresh \cup {c.role} \subseteq Fresh'
        BY Zenon, <2>5, <3>2, <3>3, <3>4 DEF Fresh
    <3>6. Keeps
        BY Zenon, <2>2, <3>3 DEF Keeps, Parts
    <3> QED
        BY Zenon, <3>3, <3>4, <3>5, <3>6
  <2>9. CASE mkfs(c)
    <3>1. /\ c.do \in {"vfat", "ext4", "btrfs", "swap"} /\ UNCHANGED lay
          /\ \/ c.role = "root" /\ disk' = [disk EXCEPT ![lay.root].inner = c.do]
             \/ disk' = [disk EXCEPT ![lay[c.role]].fs = c.do, ![lay[c.role]].uuid = attempt]
        BY <2>9 DEF mkfs
    <3>2. c.do \in Filesystems /\ Formats(c) /\ c.do # "new"
        BY <3>1 DEF Filesystems, Formats
    <3>3. /\ Rewritten(disk, [disk EXCEPT ![lay.root].inner = c.do], lay.root)
          /\ Rewritten(disk, [disk EXCEPT ![lay[c.role]].fs = c.do,
                                          ![lay[c.role]].uuid = attempt], lay[c.role])
      <4>1. Rewritten(disk, [disk EXCEPT ![lay.root].inner = c.do], lay.root)
          BY Zenon, <2>2, <3>2, InnerFormatted
      <4>2. Rewritten(disk, [disk EXCEPT ![lay[c.role]].fs = c.do,
                                         ![lay[c.role]].uuid = attempt], lay[c.role])
          BY Zenon, <2>2, <3>2, Formatted
      <4> QED
          BY <4>1, <4>2
    <3>4. Rewritten(disk, disk', lay[c.role])
        BY Zenon, <3>1, <3>3
    <3> QED
        BY <2>1, <2>2, <2>4, <2>5, <3>1, <3>2, <3>4, FreshRewritten
  <2>10. CASE luks_format_open(c)
    <3>1. CASE c.do = "luksFormat" /\ UNCHANGED lay
               /\ disk' = [disk EXCEPT ![lay.root].fs = "luks", ![lay.root].inner = "none",
                                       ![lay.root].uuid = attempt]
      <4>1. "luks" \in Filesystems /\ "none" \in Filesystems /\ Formats(c) /\ c.do # "new"
          BY <3>1 DEF Filesystems, Formats
      <4>2. Rewritten(disk, disk', lay[c.role])
          BY Zenon, <2>2, <2>5, <3>1, <4>1, LuksFormatted
      <4> QED
          BY Zenon, <2>1, <2>2, <2>4, <2>5, <3>1, <4>1, <4>2, FreshRewritten
    <3>2. CASE c.do = "open" /\ UNCHANGED disk /\ lay' = [lay EXCEPT !.luks = lay.root]
      <4>1. DOMAIN lay' = LayFields /\ \A r \in Roles : lay'[r] = lay[r]
          BY <2>2, <3>2 DEF LayFields, Roles
      <4> QED
          BY <2>2, <3>2, <4>1 DEF Fresh, Keeps
    <3> QED
        BY <2>10, <3>1, <3>2 DEF luks_format_open
  <2>11. CASE Subvolumes(c)
      BY <2>2, <2>11 DEF Subvolumes, Fresh, Keeps
  <2>12. CASE Mount(c)
    <3>1. /\ c.do = "mount" /\ UNCHANGED disk
          /\ DOMAIN lay' = LayFields /\ \A r \in Roles : lay'[r] = lay[r]
        BY <2>2, <2>12 DEF Mount, LayFields, Roles
    <3> QED
        BY Zenon, <2>2, <3>1 DEF Fresh, Keeps
  <2> QED
      BY <1>2, <2>7, <2>8, <2>9, <2>10, <2>11, <2>12
<1> QED
    BY <1>1, <1>2 DEF Command, Exit

LEMMA KeptMounted ==
    ASSUME KeptInv, discover_mounted
    PROVE  KeptInv' /\ Keeps
<1>1. /\ cfg.mode = "mounted" /\ todo = <<>> /\ todo' = <<>>
      /\ UNCHANGED <<cfg, attempt>>
      /\ disk \in Seq(Partitions) /\ attempt \in Nat /\ DOMAIN lay = LayFields
    BY DEF KeptInv, discover_mounted, machine, Exit
<1>2. DOMAIN lay' = LayFields
    BY Zenon, <1>1 DEF discover_mounted, NoLayout, LayFields, Roles
<1>3. disk' = disk \/ Rewritten(disk, disk', cfg.swap_device)
  <2>1. "swap" \in Filesystems
      BY DEF Filesystems
  <2>2. \/ disk' = disk
        \/ disk' = [disk EXCEPT ![cfg.swap_device].fs = "swap", ![cfg.swap_device].uuid = attempt]
      BY DEF discover_mounted
  <2> QED
      BY <1>1, <2>1, <2>2, Formatted
<1>4. disk' \in Seq(Partitions) /\ Keeps
  <2>1. DOMAIN disk = 1..Len(disk)
      BY <1>1
  <2> QED
      BY <1>1, <1>3, <2>1 DEF Rewritten, Keeps, Parts
<1> QED
    BY <1>1, <1>2, <1>4, EmptyTodo DEF KeptInv

LEMMA KeptStep == KeptInv /\ [Next]_vars => KeptInv' /\ Keeps
<1> SUFFICES ASSUME KeptInv, [Next]_vars PROVE KeptInv' /\ Keeps
    OBVIOUS
<1>1. CASE Partition
    BY <1>1, KeptPartition
<1>2. CASE Command
    BY <1>2, KeptCommand
<1>3. CASE discover_mounted
    BY <1>3, KeptMounted
<1>4. ASSUME NEW reboot \in BOOLEAN, Again(reboot) PROVE KeptInv' /\ Keeps
  <2>1. /\ todo = <<>> /\ todo' = <<>> /\ lay' = NoLayout /\ attempt' = attempt + 1
        /\ UNCHANGED <<cfg, disk>>
      BY <1>4 DEF Again, KeptInv, machine
  <2>2. DOMAIN NoLayout = LayFields
      BY DEF NoLayout, LayFields, Roles
  <2> QED
      BY <2>1, <2>2, EmptyTodo DEF KeptInv, Keeps
<1>5. ASSUME UNCHANGED <<cfg, attempt, lay, disk>>, todo' = <<>> PROVE KeptInv' /\ Keeps
    BY <1>5, KeptFrame
<1>6. ASSUME UNCHANGED <<cfg, attempt, lay, disk, todo>>, at # "layout" PROVE KeptInv' /\ Keeps
    BY <1>5, <1>6 DEF KeptInv
<1>7. ASSUME NEW f, NEW t, f # "layout", Step(f, t) PROVE KeptInv' /\ Keeps
    BY <1>6, <1>7 DEF Step, machine, storage
<1>8. CASE Start
    BY <1>5, <1>6, <1>8 DEF Start, Exit, machine, storage
<1>9. CASE lay_down_base \/ bind_pseudo \/ Finish
    BY <1>6, <1>9 DEF lay_down_base, bind_pseudo, Finish, machine, storage
<1>10. CASE StratumRefused \/ BootRefused \/ ToolFails
    BY <1>5, <1>10 DEF StratumRefused, BootRefused, ToolFails, Exit, machine, storage
<1>11. CASE bootstrap_stratum \/ install_boot
    BY <1>7, <1>11 DEF bootstrap_stratum, install_boot
<1>12. CASE \/ Step("fstab", write_fstab(target)) \/ Step("user", create_user(target))
            \/ Step("root", configure_root(target))
            \/ Step("network", configure_network(target))
            \/ Step("swap", setup_swap(target)) \/ Step("delive", delive(target))
            \/ Step("config", write_system_config(target))
            \/ Step("desktop", configure_desktop(target))
    BY <1>7, <1>12
<1>13. CASE UNCHANGED vars
    BY <1>13 DEF vars, KeptInv, Keeps, Fresh
<1> QED
    BY Zenon, <1>1, <1>2, <1>3, <1>4, <1>8, <1>9, <1>10, <1>11, <1>12, <1>13 DEF Next

(***************************************************************************)
(* Outside of the mode that erases the disk no step removes or rewrites a  *)
(* partition that was there before the first attempt, but for the swap     *)
(* device the answers name: partition_disk formats only the partitions it  *)
(* made itself, whatever fails and however often it is repeated.           *)
(***************************************************************************)
THEOREM ExistingPartitionsStay == Spec => ExistingKept
<1>1. Init => KeptInv
    BY KeptInit
<1>2. KeptInv /\ [Next]_vars => KeptInv'
    BY KeptStep
<1>3. KeptInv /\ [Next]_vars =>
        [\A p \in Parts :
            /\ disk[p].old /\ cfg.mode # "erase" /\ disk'[p] # disk[p]
            => cfg.mode = "mounted" /\ p = cfg.swap_device]_vars
    BY KeptStep DEF Keeps
<1> QED
    BY <1>1, <1>2, <1>3, PTL DEF Spec, ExistingKept

=============================================================================
