---------------------------- MODULE MCNativeTxn -----------------------------
(***************************************************************************)
(* NativeTxn over a small repository.  Package a drops file f and gains h  *)
(* from version 1 to 2, and so does b: f moves between the packages by     *)
(* removal or by upgrade, and each pair of versions that ship one file is  *)
(* a file conflict.  b2 declares a conflict with a; a2 depends on b.  Any  *)
(* path may at first hold a file that no package installed.                *)
(***************************************************************************)
EXTENDS NativeTxn, TLC

CONSTANTS a, b, a1, a2, b1, b2, f, g, h

MCPkgs == {a, b}
MCGrains == {a1, a2, b1, b2}
MCPaths == {f, g, h}
MCname == (a1 :> a) @@ (a2 :> a) @@ (b1 :> b) @@ (b2 :> b)
MCmanifest == (a1 :> {f, g}) @@ (a2 :> {g, h}) @@ (b1 :> {f}) @@ (b2 :> {h})
MCdeps == (a1 :> {}) @@ (a2 :> {b}) @@ (b1 :> {}) @@ (b2 :> {})
MCconflicts == (a1 :> {}) @@ (a2 :> {}) @@ (b1 :> {}) @@ (b2 :> {a})

\* Every plan over these packages that lists none of them twice.
Removals == {<<>>, <<a>>, <<b>>, <<a, b>>, <<b, a>>}
Installs == {<<>>} \cup {<<x>> : x \in MCGrains}
                   \cup {<<x, y>> : x, y \in MCGrains}
MCRequests ==
    {pl \in [remove : Removals, install : Installs] :
        LET rm == pl.remove
            ins == pl.install
        IN  /\ Len(ins) = 2 => MCname[ins[1]] # MCname[ins[2]]
            /\ \A i \in 1..Len(rm), j \in 1..Len(ins) : rm[i] # MCname[ins[j]]}
=============================================================================
