------------------------------ MODULE Resolver ------------------------------
(***************************************************************************)
(* From a request to a plan: the version order and the look-ups of repo.c, *)
(* the recursive resolvers and orderings of cmd_install.cpp, cmd_lock.cpp  *)
(* and cmd_config.cpp, and beside each what it is meant to compute, said   *)
(* without recursion.  An index is a sequence of grains; a grain stands    *)
(* for a name, a version, a release and a digest.                          *)
(***************************************************************************)
EXTENDS Grains, Integers, FiniteSets, SequencesExt

CONSTANTS
    version,    \* grain -> its version, as a sequence of character codes: the
                \* digits are 0 to 9, any other character is above 9
    release     \* grain -> its release

Digits == 0..9

-----------------------------------------------------------------------------
(***************************************************************************)
(* Versions.                                                               *)
(***************************************************************************)
\* How long v goes on with characters of S.
Span(v, S) == CHOOSE n \in 0..Len(v) : /\ \A i \in 1..n : v[i] \in S
                                       /\ n = Len(v) \/ v[n + 1] \notin S
Drop(v, n) == SubSeq(v, n + 1, Len(v))

\* Where two sequences first differ, and how.
FirstDiff(x, y, n) ==
    LET D == {i \in 1..n : x[i] # y[i]} IN
    IF D = {} THEN 0
    ELSE LET i == CHOOSE i \in D : \A k \in D : i <= k IN IF x[i] < y[i] THEN -1 ELSE 1

RECURSIVE salt_vercmp(_, _)
salt_vercmp(a, b) ==
    IF a = <<>> \/ b = <<>> THEN IF a # <<>> THEN 1 ELSE IF b # <<>> THEN -1 ELSE 0
    ELSE IF a[1] \in Digits /\ b[1] \in Digits
    THEN LET x == Drop(a, Span(a, {0}))  y == Drop(b, Span(b, {0}))
             la == Span(x, Digits)  lb == Span(y, Digits)
             dc == FirstDiff(x, y, la)
         IN IF la # lb THEN IF la < lb THEN -1 ELSE 1
            ELSE IF dc # 0 THEN dc ELSE salt_vercmp(Drop(x, la), Drop(y, lb))
    ELSE IF a[1] \in Digits THEN 1
    ELSE IF b[1] \in Digits THEN -1
    ELSE IF a[1] # b[1] THEN IF a[1] < b[1] THEN -1 ELSE 1
    ELSE salt_vercmp(Tail(a), Tail(b))

\* Mutant: anything else counts as newer.
differs(g, h) == salt_vercmp(version[g], version[h]) # 0 \/ release[g] # release[h]
\* The comparison of salt_repo_index_find and of do_install.
newer(g, h) == LET vc == salt_vercmp(version[g], version[h])
               IN vc > 0 \/ (vc = 0 /\ release[g] > release[h])

\* What the order means: a version is a sequence of characters and whole
\* numbers, compared item by item; the end comes before any character, and
\* characters come before numbers.
RECURSIVE Tokens(_)
Tokens(v) ==
    IF v = <<>> THEN <<>>
    ELSE IF v[1] \notin Digits THEN <<<<0, v[1]>>>> \o Tokens(Tail(v))
    ELSE LET n == Span(v, Digits)
             value == FoldLeft(LAMBDA acc, dig : 10 * acc + dig, 0, SubSeq(v, 1, n))
         IN <<<<1, value>>>> \o Tokens(Drop(v, n))
Before(s, t) == s[1] < t[1] \/ (s[1] = t[1] /\ s[2] < t[2])
Older(a, b) ==
    LET x == Tokens(a)  y == Tokens(b) IN
    \E n \in 0..Len(x) :
        /\ n <= Len(y) /\ SubSeq(x, 1, n) = SubSeq(y, 1, n)
        /\ n < Len(y) /\ (n = Len(x) \/ Before(x[n + 1], y[n + 1]))
OlderGrain(g, h) ==
    \/ Older(version[g], version[h])
    \/ ~Older(version[h], version[g]) /\ release[g] < release[h]

-----------------------------------------------------------------------------
(***************************************************************************)
(* Looking up an index.                                                    *)
(***************************************************************************)
Entries(idx) == {idx[i] : i \in 1..Len(idx)}
Named(idx, n) == SelectSeq(idx, LAMBDA g : name[g] = n)

salt_repo_index_find(idx, n) ==
    FoldLeft(LAMBDA best, g : IF best = None \/ newer(g, best) THEN g ELSE best,
             None, Named(idx, n))

SameBuild(g, h) == name[g] = name[h] /\ version[g] = version[h] /\ release[g] = release[h]
salt_repo_index_find_exact(idx, g) ==
    LET same == SelectSeq(idx, LAMBDA e : SameBuild(e, g))
    IN IF same = <<>> THEN None ELSE same[1]

\* A pin names a version and perhaps a release (None if not).
find_pinned(idx, n, pins) ==
    IF n \notin DOMAIN pins THEN salt_repo_index_find(idx, n)
    ELSE FoldLeft(LAMBDA best, g : IF best = None \/ release[g] > release[best] THEN g ELSE best,
                  None, SelectSeq(Named(idx, n), LAMBDA g :
                     version[g] = pins[n].v /\ pins[n].r \in {None, release[g]}))

-----------------------------------------------------------------------------
(***************************************************************************)
(* The resolvers.  st collects seen names, the order and the names that    *)
(* could not be found.                                                     *)
(***************************************************************************)
Installed(d) == {q \in Pkgs : d[q] # None}
Fresh == [seen |-> {}, order |-> <<>>, problems |-> {}]

\* resolve, called for each of `names` in turn.
RECURSIVE resolve(_, _, _, _, _, _)
resolve(idx, d, targets, nodeps, st, names) ==
    IF names = <<>> THEN st
    ELSE LET n == Head(names)
             e == salt_repo_index_find(idx, n)
             take(m) == m \in targets \/ d[m] = None
             st1 == [st EXCEPT !.seen = @ \cup {n}]
             below == IF nodeps THEN {} ELSE {m \in deps[e] : take(m)}
             st2 == IF n \in st.seen THEN st
                    ELSE IF e = None THEN [st1 EXCEPT !.problems = @ \cup {n}]
                    ELSE LET r == resolve(idx, d, targets, nodeps, st1, SetToSeq(below))
                         IN IF take(n) THEN [r EXCEPT !.order = Append(@, e)] ELSE r
         IN resolve(idx, d, targets, nodeps, st2, Tail(names))
\* Mutant: only the direct dependencies are looked at.
ResolveDirect(idx, d, targets, nodeps) ==
    LET r == resolve(idx, d, targets, TRUE, Fresh, SetToSeq(targets))
        more == {m \in UNION {deps[e] : e \in Entries(r.order)} : d[m] = None}
    IN IF nodeps THEN r ELSE resolve(idx, d, targets, TRUE, r, SetToSeq(more))
ResolveAll(idx, d, targets, nodeps) ==
    resolve(idx, d, targets, nodeps, Fresh, SetToSeq(targets))

\* order_by_deps: an item after those of its dependencies that are items.
RECURSIVE visit_deps(_, _, _)
visit_deps(items, st, todo) ==
    IF todo = <<>> THEN st
    ELSE LET e == Head(todo)
             below == {f \in Entries(items) : name[f] \in deps[e]}
             st1 == [st EXCEPT !.seen = @ \cup {name[e]}]
             st2 == IF name[e] \in st.seen THEN st
                    ELSE LET r == visit_deps(items, st1, SetToSeq(below))
                         IN [r EXCEPT !.order = Append(@, e)]
         IN visit_deps(items, st2, Tail(todo))
\* Mutant: the order is left as it is.
KeepOrder(items) == items
order_by_deps(items) == visit_deps(items, Fresh, items).order

\* native_remove: with --cascade the packages that need a removed one go too.
RECURSIVE cascade(_, _)
cascade(d, S) ==
    LET more == S \cup UNION {Revdeps(d, n) : n \in S}
    IN IF more = S THEN S ELSE cascade(d, more)
RECURSIVE visit_revdeps(_, _, _, _)
visit_revdeps(d, S, st, todo) ==
    IF todo = <<>> THEN st
    ELSE LET n == Head(todo)
             st1 == [st EXCEPT !.seen = @ \cup {n}]
             st2 == IF n \in st.seen THEN st
                    ELSE LET r == visit_revdeps(d, S, st1, SetToSeq(Revdeps(d, n) \cap S))
                         IN [r EXCEPT !.order = Append(@, n)]
         IN visit_revdeps(d, S, st2, Tail(todo))
RemoveOrder(d, S) == visit_revdeps(d, S, Fresh, SetToSeq(S)).order

\* resolve_cfg: the declared packages and all they need, installed or not;
\* here seen is the set of names in `desired`.
RECURSIVE resolve_cfg(_, _, _, _)
resolve_cfg(idx, pins, st, names) ==
    IF names = <<>> THEN st
    ELSE LET n == Head(names)
             e == find_pinned(idx, n, pins)
             st1 == IF n \in st.seen THEN st
                    ELSE IF e = None THEN [st EXCEPT !.problems = @ \cup {n}]
                    ELSE resolve_cfg(idx, pins, [st EXCEPT !.seen = @ \cup {n},
                                                           !.order = Append(@, e)],
                                     SetToSeq(deps[e]))
         IN resolve_cfg(idx, pins, st1, Tail(names))

-----------------------------------------------------------------------------
(***************************************************************************)
(* What the resolvers are meant to compute.                                *)
(***************************************************************************)
\* The least set with the members of S that is closed under Needs.
Least(S, Needs(_)) ==
    LET needs == [m \in Pkgs |-> Needs(m)]
        closed == {T \in SUBSET Pkgs : S \subseteq T /\ \A m \in T : needs[m] \subseteq T}
    IN {n \in Pkgs : \A T \in closed : n \in T}

\* The newest build of a name by the meaning of the version order; of several
\* digests of one build, the first listed.
NewestOf(idx, n) ==
    LET best == {i \in 1..Len(idx) : /\ name[idx[i]] = n
                    /\ \A k \in 1..Len(idx) : name[idx[k]] = n => ~OlderGrain(idx[i], idx[k])}
    IN IF best = {} THEN None ELSE idx[CHOOSE i \in best : \A k \in best : i <= k]

\* The names an install or update of targets brings.
Brought(idx, d, targets, nodeps) ==
    Least(targets, LAMBDA n :
        LET e == NewestOf(idx, n) IN
        IF e = None \/ nodeps THEN {} ELSE {m \in deps[e] : m \in targets \/ d[m] = None})

\* A package comes after what it needs, unless that needs it in turn.
DepsFirst(s) ==
    \A i \in 1..Len(s), j \in 1..Len(s) : i < j /\ name[s[j]] \in deps[s[i]] =>
        name[s[i]] \in Least({name[s[j]]}, LAMBDA n :
            UNION {deps[g] \cap {name[h] : h \in Entries(s)} :
                   g \in {h \in Entries(s) : name[h] = n}})
\* A package is removed after what needs it, unless it needs that in turn.
RevdepsFirst(d, s) ==
    \A i \in 1..Len(s), j \in 1..Len(s) : i < j /\ s[j] \in Revdeps(d, s[i]) =>
        s[i] \in Least({s[j]}, LAMBDA n : Revdeps(d, n) \cap {s[k] : k \in 1..Len(s)})
=============================================================================
