--------------------------- MODULE MCDeployments ----------------------------
(***************************************************************************)
(* Deployments over a small repository: a1 and b1 ship the same file f, a2 *)
(* moves package a to file g.  Either file may at first be a local one.    *)
(***************************************************************************)
EXTENDS Deployments, TLC

CONSTANTS a, b, a1, a2, b1, f, g

MCPkgs == {a, b}
MCGrains == {a1, a2, b1}
MCPaths == {f, g}
MCname == (a1 :> a) @@ (a2 :> a) @@ (b1 :> b)
MCmanifest == (a1 :> {f}) @@ (a2 :> {g}) @@ (b1 :> {f})
MCdeps == (a1 :> {}) @@ (a2 :> {}) @@ (b1 :> {})
MCconflicts == (a1 :> {}) @@ (a2 :> {}) @@ (b1 :> {})

\* Install or upgrade one package, remove one, replace a by b in one
\* transaction, and upgrade a while b takes over its file.
MCRequests ==
    {[remove |-> <<>>, install |-> <<x>>] : x \in MCGrains}
    \cup {[remove |-> <<q>>, install |-> <<>>] : q \in MCPkgs}
    \cup {[remove |-> <<a>>, install |-> <<b1>>],
          [remove |-> <<>>, install |-> <<a2, b1>>]}

\* Fewer requests and one initial root, for longer histories.
MCFewRequests ==
    {[remove |-> <<>>, install |-> <<a1>>],
     [remove |-> <<>>, install |-> <<a2, b1>>],
     [remove |-> <<a>>, install |-> <<>>]}
MCInitRoot == {(f :> Local) @@ (g :> None)}

MCInitRoots == [MCPaths -> {Local, None}]
MCOneLocal == {r \in MCInitRoots : (r[f] = Local) # (r[g] = Local)}

MCPlain == [requests |-> MCRequests, keeps |-> {1, 2}, roots |-> MCOneLocal,
            txns |-> 5, pinned |-> 0]
MCDisturbed == [requests |-> MCFewRequests, keeps |-> {1}, roots |-> MCInitRoot,
                txns |-> 4, pinned |-> 1]
MCHistories == (TRUE :> MCPlain) @@ (FALSE :> MCDisturbed)

\* For the statements of the documentation.
MCPinned == FALSE :> [requests |-> MCRequests, keeps |-> {1}, roots |-> MCInitRoots,
                      txns |-> 4, pinned |-> 4]
MCHooks == FALSE :> [requests |-> MCRequests, keeps |-> {1}, roots |-> MCInitRoots,
                     txns |-> 3, pinned |-> 4]
=============================================================================
