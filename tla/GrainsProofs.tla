---------------------------- MODULE GrainsProofs ----------------------------
(***************************************************************************)
(* Lemmas about the operators of Grains: what a plan does to a database    *)
(* and to a root, and what it preserves.                                   *)
(***************************************************************************)
EXTENDS Grains, TLAPS

\* The types of a plan's parts.
LEMMA PlanTypes ==
    ASSUME NEW pl \in Plans
    PROVE  /\ pl.remove \in Seq(Pkgs)
           /\ pl.install \in Seq(Grains)
           /\ Len(pl.remove) \in Nat
           /\ Len(pl.install) \in Nat
           /\ \A i \in 1..Len(pl.remove) : pl.remove[i] \in Pkgs
           /\ \A i \in 1..Len(pl.install) :
                 /\ pl.install[i] \in Grains
                 /\ name[pl.install[i]] \in Pkgs
                 /\ manifest[pl.install[i]] \subseteq Paths
<1>1. pl \in [remove : Seq(Pkgs), install : Seq(Grains)]
    BY DEF Plans
<1>2. pl.remove \in Seq(Pkgs) /\ pl.install \in Seq(Grains)
    BY <1>1
<1> QED
    BY <1>2, GrainsAssumption

\* A plan ships each package at most once.
LEMMA PlanDistinct ==
    ASSUME NEW pl \in Plans
    PROVE  /\ Items(pl) \subseteq Grains
           /\ Gone(pl) \subseteq Pkgs
           /\ Arriving(pl) \subseteq Pkgs
           /\ \A g1, g2 \in Items(pl) : name[g1] = name[g2] => g1 = g2
    BY PlanTypes DEF Plans, Items, Gone, Arriving

\* The recorded files of a package are paths.
LEMMA FilesOfType ==
    ASSUME NEW d \in Dbs, NEW q \in Pkgs
    PROVE  FilesOf(d, q) \subseteq Paths
    BY GrainsAssumption DEF Dbs, FilesOf

\* The empty plan is a plan.
LEMMA EmptyPlan == [remove |-> <<>>, install |-> <<>>] \in Plans
    BY DEF Plans

\* Two roots with the same content at every path are the same root.
LEMMA RootsEqual ==
    ASSUME NEW r \in Roots, NEW s \in Roots, \A p \in Paths : r[p] = s[p]
    PROVE  r = s
    BY DEF Roots

\* Two databases with the same row for every package are the same database.
LEMMA DbsEqual ==
    ASSUME NEW d \in Dbs, NEW e \in Dbs, \A q \in Pkgs : d[q] = e[q]
    PROVE  d = e
    BY DEF Dbs

\* The database after a plan, package by package.
LEMMA PlanDbFacts ==
    ASSUME NEW pl \in Plans, NEW d \in Dbs
    PROVE  /\ PlanDb(d, pl) \in Dbs
           /\ \A g \in Items(pl) : PlanDb(d, pl)[name[g]] = g
           /\ \A q \in Gone(pl) \ Arriving(pl) : PlanDb(d, pl)[q] = None
           /\ \A q \in Pkgs \ (Gone(pl) \cup Arriving(pl)) :
                 PlanDb(d, pl)[q] = d[q]
<1> USE PlanDistinct
<1>1. \A g \in Items(pl) : PlanDb(d, pl)[name[g]] = g
  <2> TAKE g \in Items(pl)
  <2>1. name[g] \in Pkgs
      BY DEF Arriving
  <2>2. (CHOOSE x \in Items(pl) : name[x] = name[g]) = g
      OBVIOUS
  <2> QED
      BY <2>1, <2>2 DEF PlanDb
<1>2. \A q \in Pkgs : q \in Arriving(pl) <=> \E g \in Items(pl) : name[g] = q
    BY DEF Arriving
<1>3. \A q \in Pkgs \ Arriving(pl) :
          PlanDb(d, pl)[q] = IF q \in Gone(pl) THEN None ELSE d[q]
    BY <1>2 DEF PlanDb
<1>4. \A q \in Pkgs : PlanDb(d, pl)[q] \in Grains \cup {None}
  <2> TAKE q \in Pkgs
  <2>1. CASE q \in Arriving(pl)
      BY <1>1, <1>2, <2>1
  <2>2. CASE q \notin Arriving(pl)
    <3>1. d[q] \in Grains \cup {None}
        BY DEF Dbs
    <3> QED
        BY <1>3, <2>2, <3>1
  <2> QED
      BY <2>1, <2>2
<1>5. PlanDb(d, pl) \in Dbs
  <2>1. PlanDb(d, pl) = [q \in Pkgs |-> PlanDb(d, pl)[q]]
      BY DEF PlanDb
  <2> QED
      BY <1>4, <2>1 DEF Dbs
<1> QED
    BY <1>1, <1>3, <1>5

\* When the plan leaves each path one owner: the root after it, path by path.
LEMMA PlanRootFacts ==
    ASSUME NEW pl \in Plans, NEW d \in Dbs, NEW r \in Roots,
           OneOwner(PlanDb(d, pl))
    PROVE  /\ PlanRoot(r, d, pl) \in Roots
           /\ \A g \in Items(pl) : \A p \in manifest[g] : PlanRoot(r, d, pl)[p] = g
           /\ \A p \in Paths : (\A g \in Items(pl) : p \notin manifest[g]) =>
                 PlanRoot(r, d, pl)[p] =
                    IF \E q \in Gone(pl) \cup Arriving(pl) : p \in FilesOf(d, q)
                    THEN None ELSE r[p]
<1> USE PlanDistinct
<1>1. \A g \in Items(pl) : \A p \in manifest[g] :
          p \in Paths /\ name[g] \in Owners(PlanDb(d, pl), p)
    BY PlanDbFacts, GrainsAssumption DEF Owners, FilesOf, Arriving
<1>2. \A g1, g2 \in Items(pl) : \A p \in manifest[g1] \cap manifest[g2] : g1 = g2
    BY <1>1 DEF OneOwner
<1>3. \A g \in Items(pl) : \A p \in manifest[g] : PlanRoot(r, d, pl)[p] = g
  <2> TAKE g \in Items(pl)
  <2> TAKE p \in manifest[g]
  <2>1. (CHOOSE x \in Items(pl) : p \in manifest[x]) = g
      BY <1>2
  <2> QED
      BY <1>1, <2>1 DEF PlanRoot
<1>4. \A p \in Paths : (\A g \in Items(pl) : p \notin manifest[g]) =>
                 PlanRoot(r, d, pl)[p] =
                    IF \E q \in Gone(pl) \cup Arriving(pl) : p \in FilesOf(d, q)
                    THEN None ELSE r[p]
    BY DEF PlanRoot
<1>5. \A p \in Paths : PlanRoot(r, d, pl)[p] \in Grains \cup {Local, None}
    BY <1>3, <1>4 DEF Roots
<1>6. PlanRoot(r, d, pl) = [p \in Paths |-> PlanRoot(r, d, pl)[p]]
    BY DEF PlanRoot
<1>7. PlanRoot(r, d, pl) \in Roots
    BY <1>5, <1>6 DEF Roots
<1> QED
    BY <1>3, <1>4, <1>7

\* A plan leaves every recorded file in place.
LEMMA PlanKeepsFiles ==
    ASSUME NEW pl \in Plans, NEW d \in Dbs, NEW r \in Roots,
           OneOwner(d), FilesInPlace(r, d), OneOwner(PlanDb(d, pl))
    PROVE  FilesInPlace(PlanRoot(r, d, pl), PlanDb(d, pl))
<1> DEFINE e == PlanDb(d, pl)
<1> SUFFICES ASSUME NEW q \in Pkgs, NEW p \in FilesOf(e, q)
             PROVE  PlanRoot(r, d, pl)[p] = e[q]
    BY DEF FilesInPlace
<1>1. p \in Paths /\ q \in Owners(e, p)
    BY PlanDbFacts, FilesOfType DEF Owners
<1>2. CASE q \in Arriving(pl)
    BY <1>2, PlanDbFacts, PlanRootFacts, PlanDistinct, GrainsAssumption
       DEF Arriving, FilesOf
<1>3. CASE q \notin Arriving(pl)
  <2>1. q \notin Gone(pl) /\ e[q] = d[q] /\ p \in FilesOf(d, q)
      BY <1>3, PlanDbFacts DEF FilesOf
  <2>2. \A g \in Items(pl) : p \notin manifest[g]
    <3> SUFFICES ASSUME NEW g \in Items(pl), p \in manifest[g] PROVE FALSE
        OBVIOUS
    <3>1. name[g] \in Owners(e, p) /\ name[g] \in Arriving(pl)
        BY PlanDbFacts, PlanDistinct, GrainsAssumption DEF Owners, FilesOf, Arriving
    <3> QED
        BY <1>1, <1>3, <3>1 DEF OneOwner
  <2>3. \A x \in Gone(pl) \cup Arriving(pl) : p \notin FilesOf(d, x)
      BY <1>1, <1>3, <2>1, PlanDistinct DEF OneOwner, Owners
  <2>4. PlanRoot(r, d, pl)[p] = r[p]
      BY <1>1, <2>2, <2>3, PlanRootFacts
  <2> QED
      BY <2>1, <2>4 DEF FilesInPlace
<1> QED
    BY <1>2, <1>3

\* A plan that passes check_conflicts leaves no two conflicting packages.
LEMMA PlanKeepsConflictFree ==
    ASSUME NEW pl \in Plans, NEW d \in Dbs, NoConflicts(d),
           check_conflicts(d, pl)
    PROVE  NoConflicts(PlanDb(d, pl))
<1> DEFINE e == PlanDb(d, pl)
<1> SUFFICES ASSUME NEW q \in Pkgs, e[q] # None, NEW c \in conflicts[e[q]] \ {q}
             PROVE  e[c] = None
    BY DEF NoConflicts
<1> USE PlanDbFacts, PlanDistinct
<1>1. c \in Pkgs
    BY GrainsAssumption DEF Dbs
<1>2. CASE q \in Arriving(pl)
  <2>1. PICK g \in Items(pl) : name[g] = q
      BY <1>2 DEF Arriving
  <2>2. e[q] = g
      BY <2>1
  <2>3. c \notin Arriving(pl) /\ (d[c] # None => c \in Gone(pl))
      BY <2>1, <2>2 DEF check_conflicts
  <2> QED
      BY <1>1, <2>3
<1>3. CASE q \notin Arriving(pl)
  <2>1. q \notin Gone(pl) /\ e[q] = d[q]
      BY <1>3
  <2>2. d[c] = None
      BY <2>1 DEF NoConflicts
  <2>3. c \notin Arriving(pl)
    <3> SUFFICES ASSUME c \in Arriving(pl) PROVE FALSE
        OBVIOUS
    <3>1. PICK g \in Items(pl) : name[g] = c
        BY DEF Arriving
    <3>2. q \in ConflictsWith(d, name[g])
        BY <2>1, <3>1 DEF ConflictsWith
    <3> QED
        BY <1>3, <2>1, <3>1, <3>2 DEF check_conflicts
  <2> QED
      BY <1>1, <2>2, <2>3
<1> QED
    BY <1>2, <1>3
=============================================================================
