------------------------- MODULE DeploymentsProofs --------------------------
(***************************************************************************)
(* Proofs about Deployments, for every repository, every kind of history,  *)
(* any number of transactions, rollbacks and pins, and every value of      *)
(* deploy.keep.                                                            *)
(***************************************************************************)
EXTENDS Deployments, GrainsProofs, FiniteSetTheorems, WellFoundedInduction

\* The provers of a step that names none, in this order; 30 is in seconds.
USE SMTT(30), Zenon

-----------------------------------------------------------------------------
\* A row of the transactions table with its state directory.
Rows ==
    [op : {"native", "deploy", "rollback"},
     status : {"ok", "failed", "started", "undone", "pruned"},
     snapshot : BOOLEAN, pinned : BOOLEAN, before : Dbs \cup {None},
     backup : Roots, added : SUBSET Paths,
     pre : [root : Roots, db : Dbs], lost : BOOLEAN]

-----------------------------------------------------------------------------
(* The loop of rollback_files.                                             *)

\* A set of numbers that is not empty has a least element.
LEMMA LeastNat ==
    ASSUME NEW T, T \subseteq Nat, T # {}
    PROVE  \E x \in T : \A y \in T : x <= y
<1> DEFINE R == {ss \in Nat \X Nat : ss[1] < ss[2]}
<1>1. IsWellFoundedOn(R, Nat)
    BY NatLessThanWellFounded DEF OpToRel
<1>2. \E x \in T : \A y \in T : ~(<<y, x>> \in R)
  <2> HIDE DEF R
  <2> QED
      BY <1>1, WFMin, Zenon
<1>3. PICK x \in T : \A y \in T : ~(<<y, x>> \in R)
    BY <1>2
<1>4. \A y \in T : x <= y
  <2> TAKE y \in T
  <2>1. <<y, x>> \notin R
      BY <1>3
  <2>2. x \in Nat /\ y \in Nat
      OBVIOUS
  <2> QED
      BY <2>1, <2>2
<1> QED
    BY <1>4

\* One turn of the loop, r[i + 1] being the root it finds.
Turn(r, i) ==
    IF i > Len(txns) THEN root
    ELSE IF txns[i].status = "ok"
    THEN Reverted(r[i + 1], txns[i].backup, txns[i].added)
    ELSE r[i + 1]
Run(r, n) == r = [i \in n..(Len(txns) + 1) |-> Turn(r, i)]

\* The loop ends wherever it starts, and its result is the root after the last
\* of its turns.
LEMMA LoopEnds ==
    ASSUME NEW n \in Nat, txns \in Seq(Rows), n <= Len(txns) + 1
    PROVE  \E r : Run(r, n) /\ RevertedDownTo(n) = r[n]
<1> DEFINE L == Len(txns) + 1
           T == {k \in 0..(L - n) : ~\E r : Run(r, L - k)}
<1>1. L \in Nat /\ L - n \in Nat /\ L - (L - n) = n
    OBVIOUS
<1>2. T = {}
  <2> SUFFICES ASSUME T # {} PROVE FALSE
      OBVIOUS
  <2>0. T \subseteq Nat
      BY <1>1
  <2>1. PICK k \in T : \A y \in T : k <= y
    <3> HIDE DEF T
    <3> QED
        BY LeastNat, <2>0, Zenon
  <2>2. k \in 0..(L - n) /\ ~\E r : Run(r, L - k)
      BY <2>1
  <2>3. CASE k = 0
    <3> DEFINE r == [i \in L..L |-> root]
    <3>1. Run(r, L)
        BY <1>1 DEF Run, Turn
    <3>2. L - k = L
        BY <2>3, <1>1
    <3> QED
        BY <2>2, <3>1, <3>2
  <2>4. CASE k # 0
    <3>0. k - 1 \in 0..(L - n) /\ ~(k <= k - 1)
        BY <1>1, <2>2, <2>4
    <3>1. k - 1 \notin T
      <4> HIDE DEF T
      <4> QED
          BY <3>0, <2>1
    <3>2. PICK r : Run(r, L - (k - 1))
        BY <3>0, <3>1
    <3> DEFINE m == L - k
               s == [i \in m..L |-> IF i = m THEN Turn(r, m) ELSE r[i]]
    <3>3. m \in Nat /\ L - (k - 1) = m + 1 /\ m + 1 <= L
        BY <1>1, <2>2, <2>4
    <3>4. \A i \in (m + 1)..L : r[i] = Turn(r, i)
        BY <3>2, <3>3, Zenon DEF Run
    <3>5. \A i \in m..L : Turn(s, i) = Turn(r, i)
      <4> TAKE i \in m..L
      <4>1. CASE i > Len(txns)
          BY <4>1 DEF Turn
      <4>2. CASE ~(i > Len(txns))
        <5>1. i + 1 \in m..L /\ i + 1 # m
            BY <4>2, <1>1, <3>3
        <5>2. s[i + 1] = r[i + 1]
            BY <5>1
        <5> QED
            BY <5>2 DEF Turn
      <4> QED
          BY <4>1, <4>2
    <3>6. \A i \in m..L : s[i] = Turn(s, i)
      <4> TAKE i \in m..L
      <4>1. CASE i = m
          BY <4>1, <3>5, Zenon
      <4>2. CASE i # m
        <5>1. i \in (m + 1)..L
            BY <4>2, <3>3, <1>1
        <5>2. s[i] = r[i]
            BY <4>2
        <5> QED
            BY <5>1, <5>2, <3>4, <3>5
      <4> QED
          BY <4>1, <4>2
    <3>7. Run(s, m)
      <4>1. s = [i \in m..L |-> s[i]]
          OBVIOUS
      <4> HIDE DEF s
      <4>2. [i \in m..L |-> s[i]] = [i \in m..L |-> Turn(s, i)]
          BY <3>6
      <4> QED
          BY <4>1, <4>2 DEF Run
    <3> QED
        BY <2>2, <3>7
  <2> QED
      BY <2>3, <2>4
<1>3. L - n \in 0..(L - n)
    BY <1>1
<1>4. \E r : Run(r, n)
    BY <1>1, <1>2, <1>3, Zenon
<1>5. RevertedDownTo(n) = (CHOOSE r : Run(r, n))[n]
    BY DEF RevertedDownTo, Run, Turn
<1> QED
    BY <1>4, <1>5, Zenon

\* A row that the loop reverts, and whose journal says something of path p.
Touches(row, p) ==
    row.status = "ok" /\ (row.backup[p] # None \/ p \in row.added)

\* Row i is the oldest from n on that does, and none does.
FirstTouch(ts, n, p, i) ==
    /\ i \in n..Len(ts) /\ Touches(ts[i], p)
    /\ \A j \in n..(i - 1) : ~Touches(ts[j], p)
Untouched(ts, n, p) == \A j \in n..Len(ts) : ~Touches(ts[j], p)

\* Root r holds what going back to n leaves of s: at each path what the oldest
\* journal says, or what was there.
IsReverted(ts, s, r, n) ==
    /\ r \in Roots
    /\ \A p \in Paths :
          /\ \A i \in n..Len(ts) :
                FirstTouch(ts, n, p, i) => r[p] = ts[i].backup[p]
          /\ Untouched(ts, n, p) => r[p] = s[p]

\* Reverting a journal stays within the roots.
LEMMA RevertedType ==
    ASSUME NEW r \in Roots, NEW row \in Rows
    PROVE  Reverted(r, row.backup, row.added) \in Roots
    BY DEF Reverted, Roots, Rows

\* One turn of the loop: from what rows above m leave to what row m leaves.
LEMMA LoopTurn ==
    ASSUME txns \in Seq(Rows), root \in Roots, NEW n \in Nat, NEW r, Run(r, n),
           NEW m \in n..Len(txns), m > 0, IsReverted(txns, root, r[m + 1], m + 1)
    PROVE  IsReverted(txns, root, r[m], m)
<1>1. /\ m \in Nat /\ Len(txns) \in Nat /\ txns[m] \in Rows
      /\ m + 1 \in n..(Len(txns) + 1) /\ ~(m > Len(txns))
    OBVIOUS
<1>2. r[m] = IF txns[m].status = "ok"
             THEN Reverted(r[m + 1], txns[m].backup, txns[m].added)
             ELSE r[m + 1]
    BY <1>1 DEF Run, Turn
<1>3. r[m] \in Roots
    BY <1>1, <1>2, RevertedType DEF IsReverted
<1> SUFFICES ASSUME NEW p \in Paths
             PROVE  /\ \A i \in m..Len(txns) :
                          FirstTouch(txns, m, p, i) => r[m][p] = txns[i].backup[p]
                    /\ Untouched(txns, m, p) => r[m][p] = root[p]
    BY <1>3 DEF IsReverted
<1>4. CASE Touches(txns[m], p)
  <2>1. r[m][p] = txns[m].backup[p]
      BY <1>2, <1>4 DEF Touches, Reverted
  <2>2. \A i \in m..Len(txns) : FirstTouch(txns, m, p, i) => i = m
      BY <1>1, <1>4 DEF FirstTouch
  <2>3. ~Untouched(txns, m, p)
      BY <1>1, <1>4 DEF Untouched
  <2> QED
      BY <2>1, <2>2, <2>3
<1>5. CASE ~Touches(txns[m], p)
  <2>1. r[m][p] = r[m + 1][p]
      BY <1>2, <1>5 DEF Touches, Reverted
  <2>2. ASSUME NEW i \in m..Len(txns), FirstTouch(txns, m, p, i)
        PROVE  i \in (m + 1)..Len(txns) /\ FirstTouch(txns, m + 1, p, i)
    <3>1. i # m
        BY <2>2, <1>5 DEF FirstTouch
    <3> QED
        BY <3>1, <2>2, <1>1 DEF FirstTouch
  <2>3. Untouched(txns, m, p) => Untouched(txns, m + 1, p)
      BY <1>1 DEF Untouched
  <2> QED
      BY <2>1, <2>2, <2>3 DEF IsReverted
<1> QED
    BY <1>4, <1>5

\* What the loop computes.
LEMMA LoopReverts ==
    ASSUME txns \in Seq(Rows), root \in Roots, NEW n \in Ids
    PROVE  IsReverted(txns, root, RevertedDownTo(n), n)
<1> DEFINE L == Len(txns) + 1
<1>1. n \in Nat /\ n > 0 /\ L \in Nat /\ n <= L /\ L - n \in Nat /\ L - (L - n) = n
    BY DEF Ids
<1>2. PICK r : Run(r, n) /\ RevertedDownTo(n) = r[n]
    BY <1>1, LoopEnds
<1> DEFINE T == {k \in 0..(L - n) : ~IsReverted(txns, root, r[L - k], L - k)}
<1>3. T = {}
  <2> SUFFICES ASSUME T # {} PROVE FALSE
      OBVIOUS
  <2>0. T \subseteq Nat
      BY <1>1
  <2>1. PICK k \in T : \A y \in T : k <= y
    <3> HIDE DEF T
    <3> QED
        BY LeastNat, <2>0, Zenon
  <2>2. k \in 0..(L - n) /\ ~IsReverted(txns, root, r[L - k], L - k)
      BY <2>1
  <2>3. CASE k = 0
    <3>1. L - k = L /\ L \in n..L /\ L > Len(txns)
        BY <1>1, <2>3
    <3>2. r[L] = root
        BY <1>2, <3>1 DEF Run, Turn
    <3>3. IsReverted(txns, root, root, L)
        BY <1>1 DEF IsReverted
    <3> QED
        BY <2>2, <3>1, <3>2, <3>3
  <2>4. CASE k # 0
    <3>1. k - 1 \in 0..(L - n) /\ ~(k <= k - 1)
        BY <1>1, <2>2, <2>4
    <3>2. k - 1 \notin T
      <4> HIDE DEF T
      <4> QED
          BY <2>1, <3>1
    <3> DEFINE m == L - k
    <3>3. m \in n..Len(txns) /\ m > 0 /\ L - (k - 1) = m + 1
        BY <1>1, <2>2, <2>4
    <3>4. IsReverted(txns, root, r[m + 1], m + 1)
        BY <3>1, <3>2, <3>3
    <3>5. IsReverted(txns, root, r[m], m)
        BY <1>1, <1>2, <3>3, <3>4, LoopTurn
    <3> QED
        BY <2>2, <3>5
  <2> QED
      BY <2>3, <2>4
<1>4. L - n \in 0..(L - n)
    BY <1>1
<1>5. IsReverted(txns, root, r[L - (L - n)], L - (L - n))
    BY <1>3, <1>4
<1> QED
    BY <1>1, <1>2, <1>5

-----------------------------------------------------------------------------
(* The inductive invariant, as a predicate on the table ts, the root r and *)
(* the target b of a rollback that failed midway.                          *)

\* db.before is a copy of the tables or gone; only transactions have journals;
\* a transaction whose process died cannot be relied on.
RowInv(row) ==
    /\ row.before \in {None, row.pre.db}
    /\ row.op # "native" => row.backup = NoBackup /\ row.added = {}
    /\ row.status = "started" => row.lost

\* The journals of ts from n on, applied to r, give the root row n found.
Restores(ts, r, n) ==
    \A p \in Paths :
        /\ \A i \in n..Len(ts) :
              FirstTouch(ts, n, p, i) => ts[i].backup[p] = ts[n].pre.root[p]
        /\ Untouched(ts, n, p) => r[p] = ts[n].pre.root[p]

\* The rows of which that holds: those in effect, up to the target of a rollback
\* that failed midway, and that target itself.
Reachable(ts, b, n) ==
    /\ ts[n].snapshot
    /\ \A i \in (n + 1)..Len(ts) : ~ts[i].lost
    /\ \/ ts[n].status = "ok" /\ (b = 0 \/ n <= b)
       \/ n = b

Good(ts, r, b) ==
    /\ ts \in Seq(Rows) /\ r \in Roots /\ b \in 0..Len(ts)
    /\ \A i \in 1..Len(ts) : RowInv(ts[i])
    /\ \A n \in 1..Len(ts) : Reachable(ts, b, n) => Restores(ts, r, n)

RollInv ==
    /\ plain \in DOMAIN Histories /\ db \in Dbs
    /\ Good(txns, root, broken)

\* Without pins and explicit targets: a row whose journal is gone has no row
\* below it that a rollback could pick, and every row found files and tables
\* that agreed.
PlainInv ==
    plain =>
        /\ broken = 0
        /\ \A i \in Ids :
              /\ ~txns[i].pinned
              /\ txns[i].lost =>
                    \A j \in 1..(i - 1) : ~(txns[j].status = "ok" /\ txns[j].snapshot)
              /\ OneOwner(txns[i].pre.db)
              /\ FilesInPlace(txns[i].pre.root, txns[i].pre.db)

\* The newest row, unless it committed: its journal restores the root it found,
\* and only that of a dead process has anything left to restore.
NewestInv ==
    txns # <<>> /\ broken = 0 =>
        LET t == txns[Len(txns)]
        IN  t.op = "native" /\ t.status # "ok" =>
                /\ t.status \in {"failed", "started", "pruned"}
                /\ t.status # "started" => root = t.pre.root
                /\ Reverted(root, t.backup, t.added) = t.pre.root

-----------------------------------------------------------------------------
(* What the operations do to the table.                                    *)

\* A new row at the end, for a step from r to s: its journal says what r held
\* wherever s differs, or the row is known to be lost.
LEMMA AppendKeeps ==
    ASSUME NEW ts, NEW r, NEW b, Good(ts, r, b), NEW row \in Rows, NEW s \in Roots,
           RowInv(row), row.pre.root = r,
           \/ row.lost /\ row.status # "ok"
           \/ \A p \in Paths : /\ Touches(row, p) => row.backup[p] = r[p]
                               /\ ~Touches(row, p) => s[p] = r[p]
    PROVE  Good(Append(ts, row), s, b)
<1> DEFINE us == Append(ts, row)
           L == Len(ts)
<1>1. /\ us \in Seq(Rows) /\ Len(us) = L + 1 /\ L \in Nat
      /\ us[L + 1] = row /\ \A i \in 1..L : us[i] = ts[i]
    BY DEF Good
<1> HIDE DEF us
<1>2. \A i \in 1..Len(us) : RowInv(us[i])
    BY <1>1 DEF Good
<1>3. b \in 0..Len(us) /\ b # L + 1
    BY <1>1 DEF Good
<1>4. ASSUME NEW n \in 1..Len(us), Reachable(us, b, n)
      PROVE  Restores(us, s, n)
  <2>1. ~(row.lost /\ row.status # "ok")
    <3>1. CASE n = L + 1
        BY <1>1, <1>3, <1>4, <3>1 DEF Reachable
    <3>2. CASE n # L + 1
      <4>1. L + 1 \in (n + 1)..Len(us)
          BY <1>1, <3>2
      <4> QED
          BY <1>1, <1>4, <4>1 DEF Reachable
    <3> QED
        BY <3>1, <3>2
  <2>2. \A p \in Paths : /\ Touches(row, p) => row.backup[p] = r[p]
                         /\ ~Touches(row, p) => s[p] = r[p]
      BY <2>1
  <2> SUFFICES ASSUME NEW p \in Paths
               PROVE  /\ \A i \in n..Len(us) : FirstTouch(us, n, p, i) =>
                            us[i].backup[p] = us[n].pre.root[p]
                      /\ Untouched(us, n, p) => s[p] = us[n].pre.root[p]
      BY DEF Restores
  <2>3. CASE n = L + 1
    <3>1. \A i \in n..Len(us) : i = n
        BY <1>1, <2>3
    <3>2. us[n] = row
        BY <1>1, <2>3
    <3>3. Untouched(us, n, p) => ~Touches(row, p)
        BY <1>1, <2>3, <3>2 DEF Untouched
    <3> QED
        BY <2>2, <3>1, <3>2, <3>3 DEF FirstTouch
  <2>4. CASE n # L + 1
    <3>1. n \in 1..L /\ us[n] = ts[n] /\ L + 1 \in n..Len(us)
        BY <1>1, <2>4
    <3>2. Reachable(ts, b, n)
        BY <1>1, <1>4, <3>1 DEF Reachable
    <3>3. Restores(ts, r, n)
        BY <3>1, <3>2 DEF Good
    <3>4. ASSUME NEW i \in n..L, FirstTouch(us, n, p, i)
          PROVE  FirstTouch(ts, n, p, i)
        BY <1>1, <3>1, <3>4 DEF FirstTouch
    <3>5. ASSUME \A i \in n..L : ~Touches(us[i], p)
          PROVE  r[p] = us[n].pre.root[p]
        BY <1>1, <3>1, <3>3, <3>5 DEF Restores, Untouched
    <3>6. ASSUME NEW i \in n..Len(us), FirstTouch(us, n, p, i)
          PROVE  us[i].backup[p] = us[n].pre.root[p]
      <4>1. CASE i = L + 1
        <5>1. \A j \in n..L : ~Touches(us[j], p)
            BY <1>1, <3>6, <4>1 DEF FirstTouch
        <5>2. Touches(row, p)
            BY <1>1, <3>6, <4>1 DEF FirstTouch
        <5> QED
            BY <1>1, <2>2, <3>5, <4>1, <5>1, <5>2
      <4>2. CASE i # L + 1
        <5>1. i \in n..L /\ us[i] = ts[i]
            BY <1>1, <3>1, <4>2
        <5> QED
            BY <3>1, <3>3, <3>4, <3>6, <5>1 DEF Restores
      <4> QED
          BY <4>1, <4>2
    <3>7. ASSUME Untouched(us, n, p)
          PROVE  s[p] = us[n].pre.root[p]
      <4>1. (\A j \in n..L : ~Touches(us[j], p)) /\ ~Touches(row, p)
          BY <1>1, <3>1, <3>7 DEF Untouched
      <4> QED
          BY <2>2, <3>5, <4>1
    <3> QED
        BY <3>6, <3>7
  <2> QED
      BY <2>3, <2>4
<1> QED
    BY <1>1, <1>2, <1>3, <1>4 DEF Good, us

\* A row that is no more reachable than it was, and whose journal says the same
\* as long as it counts.
SaysTheSame(row, new) ==
    \A p \in Paths : /\ Touches(new, p) <=> Touches(row, p)
                     /\ Touches(row, p) => new.backup[p] = row.backup[p]
Lessens(row, new) ==
    /\ new \in Rows /\ RowInv(new) /\ new.pre = row.pre
    /\ row.lost => new.lost
    /\ new.snapshot => row.snapshot /\ new.status = row.status /\ SaysTheSame(row, new)
    /\ ~new.lost => SaysTheSame(row, new)

\* Collecting a row.
Collected(row) == {row, NoJournal(row), Pruned(row)}

LEMMA CollectedRow ==
    ASSUME NEW row \in Rows, RowInv(row), NEW new \in Collected(row)
    PROVE  /\ Lessens(row, new)
           /\ new.op = row.op /\ new.pinned = row.pinned
           /\ new.status = "ok" => row.status = "ok"
<1> USE DEF Lessens, SaysTheSame
<1>1. NoBackup \in Roots /\ \A p \in Paths : NoBackup[p] = None
    BY DEF NoBackup, Roots
<1>2. CASE new = row
    BY <1>2
<1>3. CASE new = NoJournal(row)
  <2>1. /\ new \in Rows /\ new.snapshot = FALSE /\ new.backup = NoBackup /\ new.added = {}
        /\ new.lost = (row.lost \/ (row.op = "native" /\ row.status = "ok"))
        /\ new.pre = row.pre /\ new.op = row.op /\ new.pinned = row.pinned
        /\ new.status = row.status /\ new.before = row.before
      BY <1>1, <1>3, Zenon DEF NoJournal, Rows
  <2> QED
      BY <1>1, <2>1, Zenon DEF RowInv, Touches
<1>4. CASE new = Pruned(row)
  <2>1. /\ new \in Rows /\ new.snapshot = FALSE /\ new.backup = NoBackup /\ new.added = {}
        /\ new.lost = (row.lost \/ (row.op = "native" /\ row.status = "ok"))
        /\ new.pre = row.pre /\ new.op = row.op /\ new.pinned = row.pinned
        /\ new.status = "pruned" /\ new.before = None
      BY <1>1, <1>4, Zenon DEF Pruned, NoJournal, Rows
  <2> QED
      BY <1>1, <2>1, Zenon DEF RowInv, Touches
<1> QED
    BY <1>2, <1>3, <1>4 DEF Collected

LEMMA LessKeeps ==
    ASSUME NEW ts, NEW r, NEW b, Good(ts, r, b),
           NEW us \in Seq(Rows), Len(us) = Len(ts),
           \A i \in 1..Len(ts) : Lessens(ts[i], us[i])
    PROVE  Good(us, r, b)
<1> DEFINE L == Len(ts)
<1>1. ts \in Seq(Rows) /\ L \in Nat /\ \A i \in 1..L : ts[i] \in Rows /\ RowInv(ts[i])
    BY DEF Good
<1>2. \A i \in 1..L : RowInv(us[i])
    BY DEF Lessens
<1>3. ASSUME NEW n \in 1..L, Reachable(us, b, n)
      PROVE  Restores(us, r, n)
  <2>1. /\ us[n].pre = ts[n].pre /\ us[n].status = ts[n].status
        /\ ts[n].snapshot /\ SaysTheSame(ts[n], us[n])
      BY <1>3 DEF Reachable, Lessens
  <2>2. \A i \in (n + 1)..L : i \in 1..L /\ ~us[i].lost /\ ~ts[i].lost
    <3>1. \A i \in (n + 1)..L : i \in 1..L /\ ~us[i].lost
        BY <1>1, <1>3 DEF Reachable
    <3> QED
        BY <3>1 DEF Lessens
  <2>3. Reachable(ts, b, n)
      BY <1>3, <2>1, <2>2 DEF Reachable
  <2>4. Restores(ts, r, n)
      BY <2>3 DEF Good
  <2>5. \A i \in n..L : SaysTheSame(ts[i], us[i])
    <3> TAKE i \in n..L
    <3>1. CASE i = n
        BY <2>1, <3>1
    <3>2. CASE i # n
      <4>1. i \in (n + 1)..L
          BY <1>1, <3>2
      <4> QED
          BY <2>2, <4>1 DEF Lessens
    <3> QED
        BY <3>1, <3>2
  <2> SUFFICES ASSUME NEW p \in Paths
               PROVE  /\ \A i \in n..L : FirstTouch(us, n, p, i) =>
                            us[i].backup[p] = us[n].pre.root[p]
                      /\ Untouched(us, n, p) => r[p] = us[n].pre.root[p]
      BY DEF Restores
  <2>6. Untouched(us, n, p) => Untouched(ts, n, p)
      BY <2>5 DEF Untouched, SaysTheSame
  <2>7. ASSUME NEW i \in n..L, FirstTouch(us, n, p, i)
        PROVE  Touches(ts[i], p) /\ FirstTouch(ts, n, p, i)
    <3>1. \A j \in n..(i - 1) : j \in n..L
        BY <1>1
    <3> QED
        BY <2>5, <2>7, <3>1 DEF FirstTouch, SaysTheSame
  <2> QED
      BY <2>1, <2>4, <2>5, <2>6, <2>7 DEF Restores, SaysTheSame
<1> QED
    BY <1>2, <1>3 DEF Good

\* A rollback to n whose root is s: the rows from n on are no longer in effect.
RolledBack(ts, n, row) == Append(mark_undone(ts, n), row)
Silent(row) == /\ row \in Rows /\ RowInv(row)
               /\ row.op = "rollback" /\ ~row.snapshot /\ ~row.lost


\* What is left of the rows ts then.
AfterRollback(ts, n, row, us) ==
    /\ us \in Seq(Rows) /\ Len(us) = Len(ts) + 1 /\ us[Len(ts) + 1] = row
    /\ \A i \in 1..Len(ts) : RowInv(us[i])
    /\ \A i \in 1..(n - 1) : us[i] = ts[i]
    /\ \A i \in n..Len(ts) : us[i].status # "ok"
    /\ \A i \in 1..Len(ts) : /\ us[i].pre = ts[i].pre /\ us[i].lost = ts[i].lost
                             /\ us[i].snapshot = ts[i].snapshot
                             /\ us[i].pinned = ts[i].pinned
    /\ \A i \in n..(Len(ts) + 1) : \A p \in Paths : ~Touches(us[i], p)

\* mark_undone and the new row give that.
LEMMA RolledBackRows ==
    ASSUME NEW ts \in Seq(Rows), NEW n \in 1..Len(ts), NEW row, Silent(row),
           \A i \in 1..Len(ts) : RowInv(ts[i])
    PROVE  AfterRollback(ts, n, row, RolledBack(ts, n, row))
<1> DEFINE ms == mark_undone(ts, n)
           us == RolledBack(ts, n, row)
           L == Len(ts)
<1>1. L \in Nat /\ DOMAIN ts = 1..L /\ n \in Nat /\ \A i \in 1..L : ts[i] \in Rows
    OBVIOUS
<1>2. \A i \in 1..L :
        /\ ms[i] \in Rows /\ RowInv(ms[i])
        /\ i < n => ms[i] = ts[i]
        /\ i >= n => ms[i].status # "ok"
        /\ ms[i].pre = ts[i].pre /\ ms[i].lost = ts[i].lost
        /\ ms[i].snapshot = ts[i].snapshot /\ ms[i].pinned = ts[i].pinned
  <2> TAKE i \in 1..L
  <2>1. CASE i >= n /\ ts[i].status = "ok"
    <3>1. ms[i] = [ts[i] EXCEPT !.status = "undone"]
        BY <1>1, <2>1 DEF mark_undone
    <3>2. /\ ms[i] \in Rows /\ ms[i].status = "undone"
          /\ ms[i].op = ts[i].op /\ ms[i].before = ts[i].before
          /\ ms[i].backup = ts[i].backup /\ ms[i].added = ts[i].added
          /\ ms[i].pre = ts[i].pre /\ ms[i].lost = ts[i].lost
          /\ ms[i].snapshot = ts[i].snapshot /\ ms[i].pinned = ts[i].pinned
        BY <1>1, <3>1, Zenon DEF Rows
    <3> QED
        BY <1>1, <2>1, <3>2 DEF RowInv
  <2>2. CASE ~(i >= n /\ ts[i].status = "ok")
    <3>1. ms[i] = ts[i]
        BY <1>1, <2>2 DEF mark_undone
    <3> QED
        BY <1>1, <2>2, <3>1
  <2> QED
      BY <2>1, <2>2
<1>3. ms \in Seq(Rows) /\ Len(ms) = L
  <2>1. ms = [i \in 1..L |-> ms[i]]
      BY <1>1 DEF mark_undone
  <2> HIDE DEF ms
  <2>2. ms \in [1..L -> Rows]
      BY <1>2, <2>1
  <2> QED
      BY <1>1, <2>2
<1>4. /\ us \in Seq(Rows) /\ Len(us) = L + 1 /\ us[L + 1] = row
      /\ \A i \in 1..L : us[i] = ms[i]
  <2> HIDE DEF ms
  <2> QED
      BY <1>1, <1>3 DEF RolledBack, Silent, ms
<1> HIDE DEF ms, us
<1>5. \A p \in Paths : ~Touches(row, p)
    BY DEF Silent, RowInv, Touches, NoBackup
<1>6. \A i \in n..(L + 1) : \A p \in Paths : ~Touches(us[i], p)
  <2> TAKE i \in n..(L + 1)
  <2>1. CASE i = L + 1
      BY <1>4, <1>5, <2>1
  <2>2. CASE i # L + 1
    <3>1. i \in 1..L /\ i >= n
        BY <1>1, <2>2
    <3> QED
        BY <1>2, <1>4, <3>1 DEF Touches
  <2> QED
      BY <2>1, <2>2
<1>7. \A i \in 1..(n - 1) : us[i] = ts[i]
    BY <1>1, <1>2, <1>4
<1>8. \A i \in n..L : us[i].status # "ok"
    BY <1>1, <1>2, <1>4
<1>9. \A i \in 1..L : /\ RowInv(us[i]) /\ us[i].pre = ts[i].pre /\ us[i].lost = ts[i].lost
                      /\ us[i].snapshot = ts[i].snapshot /\ us[i].pinned = ts[i].pinned
    BY <1>2, <1>4
<1> QED
    BY Zenon, <1>4, <1>6, <1>7, <1>8, <1>9 DEF us, AfterRollback

\* Going back to n takes the root to where the rows up to n still lead back.
LEMMA StillRestores ==
    ASSUME NEW ts \in Seq(Rows), NEW r, NEW s, NEW n \in 1..Len(ts),
           IsReverted(ts, r, s, n), NEW k \in 1..n, Restores(ts, r, k),
           NEW us, Len(us) >= Len(ts), Len(us) \in Nat, us[k].pre = ts[k].pre,
           \A i \in k..(n - 1) : us[i] = ts[i],
           \A i \in n..Len(us) : \A p \in Paths : ~Touches(us[i], p)
    PROVE  Restores(us, s, k)
<1> DEFINE L == Len(ts)
<1>1. L \in Nat /\ n \in Nat /\ k \in Nat /\ k <= n /\ n <= L
    OBVIOUS
<1> SUFFICES ASSUME NEW p \in Paths
             PROVE  /\ \A i \in k..Len(us) : FirstTouch(us, k, p, i) =>
                          us[i].backup[p] = us[k].pre.root[p]
                    /\ Untouched(us, k, p) => s[p] = us[k].pre.root[p]
    BY DEF Restores
<1>2. ASSUME NEW i \in k..Len(us), FirstTouch(us, k, p, i)
      PROVE  us[i].backup[p] = us[k].pre.root[p]
  <2>1. i \in k..(n - 1)
      BY <1>1, <1>2 DEF FirstTouch
  <2>2. i \in k..L /\ us[i] = ts[i] /\ FirstTouch(ts, k, p, i)
      BY <1>1, <1>2, <2>1 DEF FirstTouch
  <2> QED
      BY <2>2 DEF Restores
<1>3. ASSUME Untouched(us, k, p)
      PROVE  s[p] = us[k].pre.root[p]
  <2>1. \A j \in k..(n - 1) : ~Touches(ts[j], p)
      BY <1>1, <1>3 DEF Untouched
  <2> DEFINE T == {i \in n..L : Touches(ts[i], p)}
  <2>2. CASE T = {}
    <3>1. Untouched(ts, n, p) /\ Untouched(ts, k, p)
        BY <1>1, <2>1, <2>2 DEF Untouched
    <3> QED
        BY <3>1 DEF IsReverted, Restores
  <2>3. CASE T # {}
    <3>1. T \subseteq Nat
        BY <1>1
    <3>2. PICK i \in T : \A j \in T : i <= j
      <4> HIDE DEF T
      <4> QED
          BY <2>3, <3>1, LeastNat, Zenon
    <3>3. i \in n..L /\ i \in k..L /\ Touches(ts[i], p)
        BY <1>1, <3>2
    <3>4. \A j \in n..(i - 1) : j \notin T
        BY <1>1, <3>2, <3>3
    <3>5. \A j \in n..(i - 1) : ~Touches(ts[j], p)
        BY <1>1, <3>3, <3>4
    <3>6. \A j \in k..(i - 1) : ~Touches(ts[j], p)
        BY <1>1, <2>1, <3>3, <3>5
    <3>7. FirstTouch(ts, n, p, i) /\ FirstTouch(ts, k, p, i)
        BY <3>3, <3>5, <3>6 DEF FirstTouch
    <3> QED
        BY <3>3, <3>7 DEF IsReverted, Restores
  <2> QED
      BY <2>2, <2>3
<1> QED
    BY <1>2, <1>3

\* A rollback that ends; c is the target outstanding after it.  If it kept the
\* tables as they were (b = 0, c = n), n itself stays reachable.
LEMMA RollbackKeeps ==
    ASSUME NEW ts, NEW r, NEW b, Good(ts, r, b), NEW n \in 1..Len(ts), NEW s,
           IsReverted(ts, r, s, n), NEW row, Silent(row), NEW c,
           \/ c = IF n <= b THEN 0 ELSE b
           \/ b = 0 /\ c = n /\ Reachable(ts, b, n)
    PROVE  Good(RolledBack(ts, n, row), s, c)
<1> DEFINE us == RolledBack(ts, n, row)
           L == Len(ts)
<1>1. /\ ts \in Seq(Rows) /\ L \in Nat /\ b \in 0..L
      /\ \A i \in 1..L : RowInv(ts[i])
    BY DEF Good
<1>2. /\ us \in Seq(Rows) /\ Len(us) = L + 1 /\ us[L + 1] = row
      /\ \A i \in 1..L : RowInv(us[i])
      /\ \A i \in 1..(n - 1) : us[i] = ts[i]
      /\ \A i \in n..L : us[i].status # "ok"
      /\ \A i \in 1..L : /\ us[i].pre = ts[i].pre /\ us[i].lost = ts[i].lost
                         /\ us[i].snapshot = ts[i].snapshot
      /\ \A i \in n..(L + 1) : \A p \in Paths : ~Touches(us[i], p)
  <2>1. AfterRollback(ts, n, row, us)
      BY <1>1, RolledBackRows, Zenon
  <2> HIDE DEF us
  <2> QED
      BY <2>1, Zenon DEF AfterRollback
<1> HIDE DEF us
<1>3. s \in Roots /\ c \in 0..(L + 1)
    BY <1>1 DEF IsReverted
<1>4. \A i \in 1..(L + 1) : RowInv(us[i])
  <2>1. \A i \in 1..(L + 1) : i = L + 1 \/ i \in 1..L
      BY <1>1
  <2>2. RowInv(us[L + 1])
      BY <1>2 DEF Silent
  <2> QED
      BY <1>2, <2>1, <2>2
<1>5. ASSUME NEW k \in 1..(L + 1), Reachable(us, c, k)
      PROVE  k \in 1..n /\ Reachable(ts, b, k)
  <2>1. k # L + 1
      BY <1>2, <1>5 DEF Reachable, Silent
  <2>2. k \in 1..L /\ ts[k].snapshot /\ \A i \in (k + 1)..L : ~ts[i].lost
    <3>1. k \in 1..L /\ \A i \in (k + 1)..L : i \in 1..L /\ i \in (k + 1)..(L + 1)
        BY <1>1, <2>1
    <3> QED
        BY Zenon, <1>2, <1>5, <3>1 DEF Reachable
  <2>3. CASE k >= n
    <3>1. k \in n..L
        BY <1>1, <2>2, <2>3
    <3>2. k = c
        BY <1>2, <1>5, <3>1 DEF Reachable
    <3>3. b = 0 /\ c = n /\ Reachable(ts, b, n)
        BY <1>1, <2>3, <3>1, <3>2
    <3> QED
        BY <3>2, <3>3
  <2>4. CASE k < n
    <3>1. us[k] = ts[k] /\ k \in 1..n
        BY <1>1, <1>2, <2>2, <2>4
    <3>2. \/ ts[k].status = "ok" /\ (c = 0 \/ k <= c)
          \/ k = c
        BY <1>5, <3>1 DEF Reachable
    <3>3. \/ ts[k].status = "ok" /\ (b = 0 \/ k <= b)
          \/ k = b
        BY <1>1, <2>2, <2>4, <3>2
    <3> QED
        BY <2>2, <3>1, <3>3 DEF Reachable
  <2> QED
      BY <1>1, <2>2, <2>3, <2>4
<1>6. ASSUME NEW k \in 1..(L + 1), Reachable(us, c, k)
      PROVE  Restores(us, s, k)
  <2>1. k \in 1..n /\ k \in 1..L /\ Restores(ts, r, k)
      BY <1>1, <1>5, <1>6 DEF Good
  <2>2. us[k].pre = ts[k].pre /\ \A i \in k..(n - 1) : us[i] = ts[i]
      BY <1>1, <1>2, <2>1
  <2> QED
      BY <1>1, <1>2, <2>1, <2>2, StillRestores
<1> QED
    BY Zenon, <1>2, <1>3, <1>4, <1>6 DEF Good, us

\* A rollback that stops once the files are back.
LEMMA StopKeeps ==
    ASSUME NEW ts, NEW r, Good(ts, r, 0), NEW n \in 1..Len(ts), NEW s,
           IsReverted(ts, r, s, n), Reachable(ts, 0, n)
    PROVE  Good(ts, s, n)
<1> DEFINE L == Len(ts)
<1>0. ts \in Seq(Rows) /\ s \in Roots
    BY DEF Good, IsReverted
<1>1. L \in Nat /\ n \in Nat /\ n > 0 /\ n \in 0..L
    BY <1>0
<1>2. ASSUME NEW k \in 1..L, Reachable(ts, n, k)
      PROVE  Restores(ts, s, k)
  <2>1. k <= n /\ k \in 1..n
      BY <1>1, <1>2 DEF Reachable
  <2>2. Reachable(ts, 0, k)
      BY <1>1, <1>2 DEF Reachable
  <2>3. Restores(ts, r, k)
      BY <2>2 DEF Good
  <2>4. \A p \in Paths : Untouched(ts, k, p) => s[p] = r[p]
    <3> TAKE p \in Paths
    <3>1. Untouched(ts, k, p) => Untouched(ts, n, p)
        BY <1>1, <2>1 DEF Untouched
    <3> QED
        BY Zenon, <3>1 DEF IsReverted
  <2> QED
      BY <2>3, <2>4 DEF Restores
<1> QED
    BY <1>0, <1>1, <1>2 DEF Good

-----------------------------------------------------------------------------
(* The journal of a transaction.                                           *)

LEMMA NoBackupFacts == NoBackup \in Roots /\ \A p \in Paths : NoBackup[p] = None
    BY DEF NoBackup, Roots

LEMMA JournalTypes ==
    ASSUME NEW pl \in Plans, root \in Roots, db \in Dbs
    PROVE  /\ JournalBackup(pl) \in Roots /\ JournalAdded(pl) \subseteq Paths
           /\ Shipped(pl) \subseteq Paths
<1>1. Shipped(pl) \subseteq Paths
    BY PlanDistinct, GrainsAssumption DEF Shipped
<1> QED
    BY <1>1 DEF JournalBackup, JournalAdded, Roots

\* The journal says what the root held, of every path the plan changes.
LEMMA JournalUndoes ==
    ASSUME NEW pl \in Plans, root \in Roots, db \in Dbs,
           NEW p \in Paths
    PROVE  LET told == JournalBackup(pl)[p] # None \/ p \in JournalAdded(pl)
           IN  /\ told => JournalBackup(pl)[p] = root[p]
               /\ ~told => PlanRoot(root, db, pl)[p] = root[p]
<1>1. JournalBackup(pl)[p] = IF p \in Touched(pl) THEN root[p] ELSE None
    BY DEF JournalBackup
<1>2. p \in JournalAdded(pl) <=> p \in Shipped(pl) /\ root[p] = None
    BY DEF JournalAdded
<1>3. p \in Shipped(pl) <=> \E g \in Items(pl) : p \in manifest[g]
    BY DEF Shipped
<1>4. p \in Touched(pl) <=> \/ p \in Shipped(pl)
                            \/ \E q \in Gone(pl) \cup Arriving(pl) : p \in FilesOf(db, q)
    BY DEF Touched
<1>5. p \notin Shipped(pl) =>
          PlanRoot(root, db, pl)[p] =
              IF \E q \in Gone(pl) \cup Arriving(pl) : p \in FilesOf(db, q)
              THEN None ELSE root[p]
    BY <1>3 DEF PlanRoot
<1>6. CASE p \in Shipped(pl)
    BY Zenon, <1>1, <1>2, <1>4, <1>6
<1>7. CASE p \notin Shipped(pl)
    BY Zenon, <1>1, <1>2, <1>4, <1>5, <1>7
<1> QED
    BY <1>6, <1>7

\* The row of a transaction.
LEMMA TransactionRow ==
    ASSUME root \in Roots, db \in Dbs, NEW pl \in Plans,
           NEW status \in {"ok", "started"},
           NEW row, row = NewRow("native", status, TRUE, JournalBackup(pl), JournalAdded(pl))
    PROVE  /\ row \in Rows /\ RowInv(row)
           /\ row.op = "native" /\ row.status = status /\ row.snapshot = TRUE
           /\ row.pinned = FALSE /\ (row.lost <=> status = "started")
           /\ row.backup = JournalBackup(pl) /\ row.added = JournalAdded(pl)
           /\ row.pre.root = root /\ row.pre.db = db
<1>1. JournalBackup(pl) \in Roots /\ JournalAdded(pl) \in SUBSET Paths
    BY JournalTypes
<1> QED
    BY <1>1, Zenon DEF NewRow, Rows, RowInv

\* Rows that never have a journal.
FailedRow == NewRow("native", "failed", TRUE, NoBackup, {})
DeployRow == NewRow("deploy", "ok", TRUE, NoBackup, {})
LEMMA EmptyRow ==
    ASSUME root \in Roots, db \in Dbs,
           NEW row, row \in {FailedRow, DeployRow, RollbackRow("ok")}
    PROVE  /\ row \in Rows /\ RowInv(row)
           /\ row.pinned = FALSE /\ row.lost = FALSE
           /\ row.backup = NoBackup /\ row.added = {}
           /\ row.pre.root = root /\ row.pre.db = db
<1>1. CASE row = FailedRow
    BY <1>1, NoBackupFacts, Zenon DEF FailedRow, NewRow, Rows, RowInv
<1>2. CASE row = DeployRow
    BY <1>2, NoBackupFacts, Zenon DEF DeployRow, NewRow, Rows, RowInv
<1>3. CASE row = RollbackRow("ok")
    BY <1>3, NoBackupFacts, Zenon DEF RollbackRow, NewRow, Rows, RowInv
<1> QED
    BY <1>1, <1>2, <1>3, Zenon

-----------------------------------------------------------------------------
(* Pruning and collecting.                                                 *)

LEMMA PruneCollects ==
    ASSUME NEW ts \in Seq(Rows), \A i \in 1..Len(ts) : RowInv(ts[i])
    PROVE  LET us == salt_deploy_prune(ts)
           IN  /\ us \in Seq(Rows) /\ Len(us) = Len(ts)
               /\ \A i \in 1..Len(ts) : us[i] \in Collected(ts[i])
<1> DEFINE us == salt_deploy_prune(ts)
           L == Len(ts)
<1>1. L \in Nat /\ DOMAIN ts = 1..L /\ \A i \in 1..L : ts[i] \in Rows
    OBVIOUS
<1>2. \A i \in 1..L : us[i] \in Collected(ts[i])
    BY <1>1 DEF salt_deploy_prune, Collected
<1>3. us = [i \in 1..L |-> us[i]]
    BY <1>1 DEF salt_deploy_prune
<1> HIDE DEF us
<1>4. \A i \in 1..L : us[i] \in Rows
    BY <1>1, <1>2, CollectedRow DEF Lessens
<1>5. us \in [1..L -> Rows]
    BY <1>3, <1>4
<1>6. us \in Seq(Rows) /\ Len(us) = L
    BY <1>1, <1>5
<1> QED
    BY <1>2, <1>6 DEF us

LEMMA GcCollects ==
    ASSUME txns \in Seq(Rows), \A i \in Ids : RowInv(txns[i]), NEW keep, Gc(keep)
    PROVE  /\ txns' \in Seq(Rows) /\ Len(txns') = Len(txns)
           /\ \A i \in Ids : txns'[i] = IF Kept(keep, i) THEN txns[i] ELSE Pruned(txns[i])
           /\ \A i \in Ids : txns'[i] \in Collected(txns[i])
<1> DEFINE L == Len(txns)
<1>1. L \in Nat /\ Ids = 1..L /\ \A i \in 1..L : txns[i] \in Rows
    BY DEF Ids
<1>2. \A i \in Ids : txns'[i] = IF Kept(keep, i) THEN txns[i] ELSE Pruned(txns[i])
    BY DEF Gc
<1>3. \A i \in Ids : txns'[i] \in Collected(txns[i])
    BY <1>2 DEF Collected
<1>4. txns' = [i \in 1..L |-> txns'[i]]
    BY <1>1 DEF Gc
<1>5. \A i \in 1..L : txns'[i] \in Rows
    BY <1>1, <1>3, CollectedRow DEF Lessens
<1>6. txns' \in [1..L -> Rows]
    BY <1>4, <1>5
<1>7. txns' \in Seq(Rows) /\ Len(txns') = L
    BY <1>1, <1>6
<1> QED
    BY <1>2, <1>3, <1>7

-----------------------------------------------------------------------------
(* Every step keeps the invariant.                                         *)

LEMMA RequestsArePlans ==
    ASSUME plain \in DOMAIN Histories
    PROVE  History.requests \subseteq Plans
    BY DeploymentsAssumption, RequestsAssumption DEF History

\* The operators of the indivisible transaction are those of this module.
LEMMA SameOperators ==
    ASSUME NEW pl, Atomic!Transaction(pl)
    PROVE  /\ OneOwner(PlanDb(db, pl)) /\ db' = PlanDb(db, pl)
           /\ root' = PlanRoot(root, db, pl)
<1> USE DEF Atomic!Gone, Gone, Atomic!Items, Items, Atomic!Arriving, Arriving,
            Atomic!FilesOf, FilesOf
<1>1. Atomic!PlanDb(db, pl) = PlanDb(db, pl)
    BY DEF Atomic!PlanDb, PlanDb
<1>2. Atomic!PlanRoot(root, db, pl) = PlanRoot(root, db, pl)
    BY DEF Atomic!PlanRoot, PlanRoot
<1>3. Atomic!OneOwner(PlanDb(db, pl)) <=> OneOwner(PlanDb(db, pl))
    BY DEF Atomic!OneOwner, OneOwner, Atomic!Owners, Owners
<1> QED
    BY Zenon, <1>1, <1>2, <1>3 DEF Atomic!Transaction

LEMMA RollTransaction ==
    ASSUME RollInv, NEW pl \in History.requests, Transaction(pl)
    PROVE  RollInv'
<1> DEFINE row == NewRow("native", "ok", TRUE, JournalBackup(pl), JournalAdded(pl))
<1>1. /\ pl \in Plans /\ root \in Roots /\ db \in Dbs
      /\ Good(txns, root, broken)
    BY Zenon, RequestsArePlans DEF RollInv, Good
<1>2. OneOwner(PlanDb(db, pl)) /\ db' = PlanDb(db, pl) /\ root' = PlanRoot(root, db, pl)
    BY SameOperators DEF Transaction
<1>3. db' \in Dbs /\ root' \in Roots
    BY Zenon, <1>1, <1>2, PlanDbFacts, PlanRootFacts
<1>4. /\ row \in Rows /\ RowInv(row) /\ row.pre.root = root
      /\ row.status = "ok" /\ row.backup = JournalBackup(pl) /\ row.added = JournalAdded(pl)
    BY <1>1, TransactionRow, Zenon
<1> HIDE DEF row
<1>5. \A p \in Paths : /\ Touches(row, p) => row.backup[p] = root[p]
                       /\ ~Touches(row, p) => root'[p] = root[p]
    BY Zenon, <1>1, <1>2, <1>4, JournalUndoes DEF Touches
<1>6. Good(Append(txns, row), root', broken)
    BY Zenon, <1>1, <1>3, <1>4, <1>5, AppendKeeps
<1>7. txns' = salt_deploy_prune(Append(txns, row)) /\ UNCHANGED <<plain, broken>>
    BY DEF Transaction, row
<1>8. /\ Append(txns, row) \in Seq(Rows)
      /\ \A i \in 1..Len(Append(txns, row)) : RowInv(Append(txns, row)[i])
    BY <1>6 DEF Good
<1>9. Good(txns', root', broken')
  <2>1. LET us == Append(txns, row)
        IN  \A i \in 1..Len(us) : Lessens(us[i], txns'[i])
    <3> DEFINE us == Append(txns, row)
    <3>1. /\ us \in Seq(Rows) /\ txns' = salt_deploy_prune(us)
          /\ \A i \in 1..Len(us) : RowInv(us[i])
        BY <1>7, <1>8
    <3> HIDE DEF us
    <3>2. \A i \in 1..Len(us) : us[i] \in Rows
        BY <3>1
    <3>3. \A i \in 1..Len(us) : txns'[i] \in Collected(us[i])
        BY <3>1, PruneCollects
    <3>4. \A i \in 1..Len(us) : Lessens(us[i], txns'[i])
        BY <3>1, <3>2, <3>3, CollectedRow
    <3> QED
        BY <3>4 DEF us
  <2> QED
      BY <1>6, <1>7, <1>8, <2>1, PruneCollects, LessKeeps, Zenon
<1> QED
    BY <1>3, <1>7, <1>9 DEF RollInv

\* Rows without a journal: failed transactions and registered deployments.
LEMMA RollPlainRow ==
    ASSUME RollInv, TransactionFails \/ RegisterCurrent
    PROVE  RollInv'
<1>1. root \in Roots /\ db \in Dbs /\ Good(txns, root, broken)
    BY DEF RollInv, Good
<1>2. PICK row \in Rows : /\ RowInv(row) /\ row.pre.root = root
                          /\ row.backup = NoBackup /\ row.added = {}
                          /\ txns' = Append(txns, row)
  <2>1. PICK row \in {FailedRow, DeployRow} : txns' = Append(txns, row)
      BY Zenon DEF TransactionFails, RegisterCurrent, FailedRow, DeployRow
  <2>2. /\ row \in Rows /\ RowInv(row) /\ row.pre.root = root
        /\ row.backup = NoBackup /\ row.added = {}
      BY <1>1, EmptyRow, Zenon
  <2> QED
      BY <2>1, <2>2
<1>3. \A p \in Paths : ~Touches(row, p)
    BY <1>2, NoBackupFacts DEF Touches
<1>4. Good(txns', root, broken)
    BY <1>1, <1>2, <1>3, AppendKeeps
<1> QED
    BY <1>4, Zenon DEF RollInv, TransactionFails, RegisterCurrent

LEMMA RollDies ==
    ASSUME RollInv, NEW pl \in History.requests, TransactionDies(pl)
    PROVE  RollInv'
<1> DEFINE row == NewRow("native", "started", TRUE, JournalBackup(pl), JournalAdded(pl))
<1>1. /\ pl \in Plans /\ root \in Roots /\ db \in Dbs
      /\ Good(txns, root, broken)
    BY RequestsArePlans DEF RollInv, Good
<1>2. PICK S \in SUBSET Touched(pl) :
          root' = [p \in Paths |-> IF p \in S THEN PlanRoot(root, db, pl)[p] ELSE root[p]]
    BY DEF TransactionDies
<1>3. PlanRoot(root, db, pl) \in Roots
    BY Zenon, <1>1, PlanRootFacts DEF TransactionDies
<1>4. root' \in Roots
    BY Zenon, <1>1, <1>2, <1>3 DEF Roots
<1>5. /\ row \in Rows /\ RowInv(row) /\ row.pre.root = root
      /\ row.status = "started" /\ row.lost
    BY <1>1, TransactionRow, Zenon
<1>6. txns' = Append(txns, row) /\ UNCHANGED <<db, plain, broken>>
    BY Zenon DEF TransactionDies
<1> HIDE DEF row
<1>7. Good(txns', root', broken')
    BY Zenon, <1>1, <1>4, <1>5, <1>6, AppendKeeps
<1> QED
    BY <1>6, <1>7 DEF RollInv

\* The row of a rollback.
LEMMA RollbackRowSilent ==
    ASSUME root \in Roots, db \in Dbs
    PROVE  Silent(RollbackRow("ok"))
<1> DEFINE row == RollbackRow("ok")
<1>1. row.op = "rollback" /\ row.snapshot = FALSE
    BY DEF RollbackRow, NewRow
<1> HIDE DEF row
<1>2. row \in Rows /\ RowInv(row) /\ row.lost = FALSE
    BY EmptyRow, Zenon DEF row
<1> QED
    BY <1>1, <1>2 DEF Silent, row

LEMMA RollRollback ==
    ASSUME RollInv, NEW n \in Ids, RollbackTo(n)
    PROVE  RollInv' /\ IsReverted(txns, root, root', n) /\ db' = txns[n].pre.db
<1>1. /\ root \in Roots /\ db \in Dbs /\ Good(txns, root, broken)
      /\ txns \in Seq(Rows) /\ txns[n] \in Rows /\ RowInv(txns[n])
    BY DEF RollInv, Good, Ids
<1>2. IsReverted(txns, root, root', n)
    BY <1>1, LoopReverts DEF RollbackTo
<1>3. db' = txns[n].pre.db /\ db' \in Dbs
    BY Zenon, <1>1 DEF RollbackTo, Restorable, RowInv, Rows
<1>4. /\ txns' = RolledBack(txns, n, RollbackRow("ok"))
      /\ broken' = IF n <= broken THEN 0 ELSE broken
    BY DEF RollbackTo, RolledBack
<1>5. Good(txns', root', broken')
    BY <1>1, <1>2, <1>4, RollbackRowSilent, RollbackKeeps DEF Ids
<1> QED
    BY Zenon, <1>2, <1>3, <1>5 DEF RollInv, RollbackTo

\* A revertible deployment is reachable.
LEMMA RevertibleReachable ==
    ASSUME txns \in Seq(Rows), NEW n \in Ids, Revertible(n), Restorable(n), broken = 0
    PROVE  Reachable(txns, broken, n)
<1>1. \A i \in (n + 1)..Len(txns) : i \in NewerThan(Ids, n)
    BY DEF Ids, NewerThan
<1> QED
    BY <1>1 DEF Revertible, Restorable, NoneLost, Reachable

LEMMA RollStops ==
    ASSUME RollInv, NEW n \in Ids, Revertible(n),
           RollbackStops(n) \/ RollbackKeepsDb(n)
    PROVE  RollInv'
<1>1. /\ root \in Roots /\ db \in Dbs /\ Good(txns, root, broken)
      /\ txns \in Seq(Rows) /\ broken = 0 /\ Restorable(n)
    BY DEF RollInv, Good, RollbackStops, RollbackKeepsDb
<1>2. IsReverted(txns, root, root', n)
    BY <1>1, LoopReverts DEF RollbackStops, RollbackKeepsDb
<1>3. Reachable(txns, broken, n)
    BY <1>1, RevertibleReachable
<1>4. broken' = n /\ UNCHANGED <<db, plain>>
    BY DEF RollbackStops, RollbackKeepsDb
<1>5. CASE RollbackStops(n)
  <2>1. Good(txns, root', n)
      BY <1>1, <1>2, <1>3, StopKeeps DEF Ids
  <2> QED
      BY <1>4, <1>5, <2>1 DEF RollInv, RollbackStops
<1>6. CASE RollbackKeepsDb(n)
  <2>1. txns' = RolledBack(txns, n, RollbackRow("ok"))
      BY <1>6 DEF RollbackKeepsDb, RolledBack
  <2>2. Good(txns', root', n)
      BY <1>1, <1>2, <1>3, <2>1, RollbackRowSilent, RollbackKeeps DEF Ids
  <2> QED
      BY <1>4, <2>2 DEF RollInv
<1> QED
    BY <1>5, <1>6

LEMMA RollGc ==
    ASSUME RollInv, NEW keep, Gc(keep)
    PROVE  RollInv'
<1>1. /\ Good(txns, root, broken) /\ txns \in Seq(Rows) /\ Ids = 1..Len(txns)
      /\ \A i \in Ids : txns[i] \in Rows /\ RowInv(txns[i])
    BY DEF RollInv, Good, Ids
<1>2. /\ txns' \in Seq(Rows) /\ Len(txns') = Len(txns)
      /\ \A i \in Ids : txns'[i] \in Collected(txns[i])
    BY <1>1, GcCollects
<1>3. \A i \in 1..Len(txns) : Lessens(txns[i], txns'[i])
    BY <1>1, <1>2, CollectedRow
<1>4. Good(txns', root, broken)
    BY <1>1, <1>2, <1>3, LessKeeps
<1> QED
    BY <1>4 DEF RollInv, Gc

LEMMA PinFacts ==
    ASSUME txns \in Seq(Rows), NEW n \in Ids, NEW pinned \in BOOLEAN, Pin(n, pinned)
    PROVE  /\ txns' \in Seq(Rows) /\ Len(txns') = Len(txns)
           /\ \A i \in Ids \ {n} : txns'[i] = txns[i]
           /\ txns'[n] = [txns[n] EXCEPT !.pinned = pinned]
           /\ txns'[n] \in Rows
<1>1. Ids = 1..Len(txns) /\ txns[n] \in Rows
    BY DEF Ids
<1>2. [txns[n] EXCEPT !.pinned = pinned] \in Rows
    BY <1>1 DEF Rows
<1>3. txns' = [txns EXCEPT ![n] = [txns[n] EXCEPT !.pinned = pinned]]
    BY DEF Pin
<1> QED
    BY <1>1, <1>2, <1>3

LEMMA RollPin ==
    ASSUME RollInv, NEW n \in Ids, NEW pinned \in BOOLEAN, Pin(n, pinned)
    PROVE  RollInv'
<1>1. /\ Good(txns, root, broken) /\ txns \in Seq(Rows) /\ Ids = 1..Len(txns)
      /\ \A i \in Ids : txns[i] \in Rows /\ RowInv(txns[i])
    BY DEF RollInv, Good, Ids
<1>2. /\ txns' \in Seq(Rows) /\ Len(txns') = Len(txns)
      /\ \A i \in Ids \ {n} : txns'[i] = txns[i]
      /\ txns'[n] = [txns[n] EXCEPT !.pinned = pinned] /\ txns'[n] \in Rows
    BY <1>1, PinFacts
<1>3. Lessens(txns[n], txns'[n])
  <2>1. LET a == txns[n]
            b == txns'[n]
        IN  /\ b.op = a.op /\ b.status = a.status /\ b.snapshot = a.snapshot
            /\ b.before = a.before /\ b.backup = a.backup /\ b.added = a.added
            /\ b.pre = a.pre /\ b.lost = a.lost
      BY <1>1, <1>2 DEF Rows
  <2> QED
      BY <1>1, <1>2, <2>1 DEF Lessens, SaysTheSame, RowInv, Touches
<1>4. \A i \in 1..Len(txns) : Lessens(txns[i], txns'[i])
  <2> TAKE i \in 1..Len(txns)
  <2>1. CASE i = n
      BY <1>3, <2>1
  <2>2. CASE i # n
      BY <1>1, <1>2, <2>2 DEF Lessens, SaysTheSame
  <2> QED
      BY <2>1, <2>2
<1>5. Good(txns', root, broken)
    BY <1>1, <1>2, <1>4, LessKeeps
<1> QED
    BY <1>5 DEF RollInv, Pin

LEMMA RollInit == Init => RollInv
<1> SUFFICES ASSUME Init PROVE RollInv
    OBVIOUS
<1>1. txns = <<>> /\ Len(txns) = 0 /\ txns \in Seq(Rows) /\ broken = 0
    BY DEF Init
<1>2. plain \in DOMAIN Histories /\ db \in Dbs
    BY DEF Init, Dbs
<1>3. root \in Roots
  <2>1. root \in [Paths -> {Local, None}]
      BY <1>2, DeploymentsAssumption DEF Init, History
  <2> QED
      BY <2>1 DEF Roots
<1> QED
    BY <1>1, <1>2, <1>3 DEF RollInv, Good

LEMMA RollStep == RollInv /\ [Next]_vars => RollInv'
<1> SUFFICES ASSUME RollInv, [Next]_vars PROVE RollInv'
    OBVIOUS
<1>1. CASE \E pl \in History.requests : Transaction(pl)
    BY <1>1, RollTransaction
<1>2. CASE TransactionFails \/ RegisterCurrent
    BY <1>2, RollPlainRow
<1>3. CASE \E keep \in History.keeps : Gc(keep)
    BY <1>3, RollGc
<1>4. CASE \E n \in Ids : RollbackTo(n)
    BY <1>4, RollRollback
<1>5. CASE \E n \in Ids, pinned \in BOOLEAN : Pin(n, pinned)
    BY <1>5, RollPin
<1>6. CASE \E pl \in History.requests : TransactionDies(pl)
    BY <1>6, RollDies
<1>7. CASE \E n \in Ids : Revertible(n) /\ (RollbackStops(n) \/ RollbackKeepsDb(n))
    BY <1>7, RollStops
<1>8. CASE UNCHANGED vars
    BY <1>8 DEF RollInv, vars
<1> QED
    BY Zenon, <1>1, <1>2, <1>3, <1>4, <1>5, <1>6, <1>7, <1>8
       DEF Next, Disturbed, Completed, Routine, Rollback

-----------------------------------------------------------------------------
(* What a rollback restores.                                               *)

\* The root after a rollback to a reachable deployment is the one it found.
LEMMA ReachableExact ==
    ASSUME RollInv, NEW n \in Ids, RollbackTo(n), Reachable(txns, broken, n)
    PROVE  Exact(n)
<1>1. IsReverted(txns, root, root', n) /\ db' = txns[n].pre.db
    BY RollRollback
<1>2. /\ Restores(txns, root, n) /\ txns \in Seq(Rows) /\ n \in 1..Len(txns)
      /\ txns[n].pre.root \in Roots
  <2>1. txns \in Seq(Rows) /\ n \in 1..Len(txns)
      BY DEF RollInv, Good, Ids
  <2>2. txns[n].pre.root \in Roots
    <3>1. txns[n] \in Rows
        BY <2>1
    <3>2. txns[n].pre \in [root : Roots, db : Dbs]
        BY <3>1 DEF Rows
    <3> QED
        BY <3>2
  <2> QED
      BY <2>1, <2>2 DEF RollInv, Good
<1>3. ASSUME NEW p \in Paths PROVE root'[p] = txns[n].pre.root[p]
  <2> DEFINE T == {i \in n..Len(txns) : Touches(txns[i], p)}
  <2>1. CASE T = {}
    <3>1. Untouched(txns, n, p)
        BY <2>1 DEF Untouched
    <3> QED
        BY Zenon, <1>1, <1>2, <3>1 DEF IsReverted, Restores
  <2>2. CASE T # {}
    <3>1. T \subseteq Nat
        BY <1>2
    <3>2. PICK i \in T : \A j \in T : i <= j
      <4> HIDE DEF T
      <4> QED
          BY <2>2, <3>1, LeastNat, Zenon
    <3>3. i \in n..Len(txns) /\ Touches(txns[i], p)
        BY <3>2
    <3>4. \A j \in n..(i - 1) : j \in n..Len(txns) /\ ~(i <= j)
        BY <1>2, <3>3
    <3>5. FirstTouch(txns, n, p, i)
        BY <3>2, <3>3, <3>4 DEF FirstTouch
    <3> QED
        BY Zenon, <1>1, <1>2, <3>3, <3>5 DEF IsReverted, Restores
  <2> QED
      BY <2>1, <2>2
<1>4. root' = txns[n].pre.root
    BY Zenon, <1>1, <1>2, <1>3, RootsEqual DEF IsReverted
<1> QED
    BY <1>1, <1>4 DEF Exact

\* `salt rollback N` of a deployment in effect goes back to the state before it,
\* whatever transactions, failures, dead processes, rollbacks, pins, pruning and
\* gc the history holds, as long as no later journal was lost.
THEOREM RollbackGoesBack == Spec => RollbackRestores
<1>1. RollInv => \A n \in Ids : RollbackTo(n) /\ Revertible(n) /\ broken = 0 => Exact(n)
  <2> SUFFICES ASSUME RollInv, NEW n \in Ids, RollbackTo(n), Revertible(n), broken = 0
               PROVE  Exact(n)
      OBVIOUS
  <2>1. txns \in Seq(Rows) /\ Restorable(n)
      BY DEF RollInv, Good, RollbackTo
  <2> QED
      BY <2>1, RevertibleReachable, ReachableExact
<1> QED
    BY <1>1, RollInit, RollStep, PTL DEF Spec, RollbackRestores

\* A rollback that failed midway takes full effect when it is repeated, also
\* after further commands.
THEOREM FailedRollbackRepeats == Spec => RollbackRetries
<1>1. RollInv => \A n \in Ids : n = broken /\ RollbackTo(n) /\ NoneLost(n) => Exact(n)
  <2> SUFFICES ASSUME RollInv, NEW n \in Ids, n = broken, RollbackTo(n), NoneLost(n)
               PROVE  Exact(n)
      OBVIOUS
  <2>1. txns \in Seq(Rows) /\ txns[n].snapshot
      BY DEF RollInv, Good, RollbackTo, Restorable
  <2>2. \A i \in (n + 1)..Len(txns) : i \in NewerThan(Ids, n)
      BY <2>1 DEF Ids, NewerThan
  <2>3. \A i \in (n + 1)..Len(txns) : ~txns[i].lost
      BY <2>2 DEF NoneLost
  <2>4. Reachable(txns, broken, n)
      BY <2>1, <2>3 DEF Reachable
  <2> QED
      BY <2>4, ReachableExact
<1> QED
    BY <1>1, RollInit, RollStep, PTL DEF Spec, RollbackRetries

-----------------------------------------------------------------------------
(* Histories without pins and explicit targets.                            *)

\* What is listed after as many newer rows as i is: the rows below it.
LEMMA NewerGrows ==
    ASSUME NEW L \in Nat, NEW S, S \subseteq 1..L, NEW i \in Nat, NEW j \in Nat, j <= i
    PROVE  /\ Cardinality(NewerThan(S, i)) \in Nat
           /\ Cardinality(NewerThan(S, j)) \in Nat
           /\ Cardinality(NewerThan(S, i)) <= Cardinality(NewerThan(S, j))
<1>1. IsFiniteSet(1..L)
    BY FS_Interval
<1>2. NewerThan(S, j) \subseteq 1..L /\ NewerThan(S, i) \subseteq NewerThan(S, j)
  <2>1. \A x \in S : x > i => x > j
      OBVIOUS
  <2> QED
      BY <2>1, Zenon DEF NewerThan
<1>3. IsFiniteSet(NewerThan(S, j))
    BY <1>1, <1>2, FS_Subset
<1>4. IsFiniteSet(NewerThan(S, i))
    BY <1>2, <1>3, FS_Subset
<1>5. Cardinality(NewerThan(S, i)) <= Cardinality(NewerThan(S, j))
    BY <1>2, <1>3, FS_Subset
<1> QED
    BY <1>3, <1>4, <1>5, FS_CardinalityType

LEMMA AtLeastOneType ==
    ASSUME NEW n \in Nat
    PROVE  AtLeastOne(n) \in Nat /\ AtLeastOne(n) >= 1
    BY DEF AtLeastOne

\* PlainInv on a table.
PlainRow(ts, i) ==
    /\ ~ts[i].pinned
    /\ ts[i].lost => \A j \in 1..(i - 1) : ~(ts[j].status = "ok" /\ ts[j].snapshot)
    /\ OneOwner(ts[i].pre.db)
    /\ FilesInPlace(ts[i].pre.root, ts[i].pre.db)

LEMMA PlainAppend ==
    ASSUME NEW ts \in Seq(Rows), \A i \in 1..Len(ts) : PlainRow(ts, i),
           NEW row \in Rows, row.pinned = FALSE, row.lost = FALSE,
           OneOwner(row.pre.db), FilesInPlace(row.pre.root, row.pre.db)
    PROVE  \A i \in 1..(Len(ts) + 1) : PlainRow(Append(ts, row), i)
<1> DEFINE us == Append(ts, row)
           L == Len(ts)
<1>1. L \in Nat /\ us[L + 1] = row /\ \A i \in 1..L : us[i] = ts[i]
    OBVIOUS
<1> HIDE DEF us
<1> SUFFICES ASSUME NEW i \in 1..(L + 1) PROVE PlainRow(us, i)
    BY DEF us
<1>2. CASE i = L + 1
    BY Zenon, <1>1, <1>2 DEF PlainRow
<1>3. CASE i # L + 1
  <2>1. i \in 1..L /\ \A j \in 1..(i - 1) : us[j] = ts[j]
      BY <1>1, <1>3
  <2> QED
      BY Zenon, <1>1, <2>1 DEF PlainRow
<1> QED
    BY <1>2, <1>3

\* Rows that are collected: with each, every row below it that could be picked.
LEMMA PlainLess ==
    ASSUME NEW ts \in Seq(Rows), \A i \in 1..Len(ts) : PlainRow(ts, i) /\ RowInv(ts[i]),
           NEW us, \A i \in 1..Len(ts) : us[i] \in Collected(ts[i]),
           \A i \in 1..Len(ts) : ts[i].status = "ok" /\ us[i] # ts[i] =>
               \A j \in 1..(i - 1) : ~(us[j].status = "ok" /\ us[j].snapshot)
    PROVE  \A i \in 1..Len(ts) : PlainRow(us, i)
<1> SUFFICES ASSUME NEW i \in 1..Len(ts) PROVE PlainRow(us, i)
    OBVIOUS
<1>1. Len(ts) \in Nat /\ \A j \in 1..Len(ts) : ts[j] \in Rows
    OBVIOUS
<1>2. \A j \in 1..Len(ts) :
          /\ us[j].pre = ts[j].pre /\ us[j].pinned = ts[j].pinned
          /\ us[j].status = "ok" /\ us[j].snapshot => ts[j].status = "ok" /\ ts[j].snapshot
    BY Zenon, <1>1, CollectedRow DEF Lessens
<1>3. \A j \in 1..(i - 1) : j \in 1..Len(ts)
    BY <1>1
<1>4. us[i].lost => ts[i].lost \/ (ts[i].status = "ok" /\ us[i] # ts[i])
  <2>1. CASE us[i] = ts[i]
      BY Zenon, <2>1
  <2>2. CASE us[i] # ts[i]
    <3>1. us[i].lost = (ts[i].lost \/ (ts[i].op = "native" /\ ts[i].status = "ok"))
        BY <1>1, <2>2, Zenon DEF Collected, NoJournal, Pruned, Rows
    <3> QED
        BY <2>2, <3>1, Zenon
  <2> QED
      BY Zenon, <2>1, <2>2
<1>5. us[i].lost => \A j \in 1..(i - 1) : ~(us[j].status = "ok" /\ us[j].snapshot)
    BY Zenon, <1>2, <1>3, <1>4 DEF PlainRow
<1> QED
    BY Zenon, <1>2, <1>5 DEF PlainRow

LEMMA PlainPrune ==
    ASSUME NEW ts \in Seq(Rows), \A i \in 1..Len(ts) : PlainRow(ts, i) /\ RowInv(ts[i])
    PROVE  \A i \in 1..Len(ts) : PlainRow(salt_deploy_prune(ts), i)
<1> DEFINE us == salt_deploy_prune(ts)
           L == Len(ts)
           H == Holders(ts)
<1>1. L \in Nat /\ DOMAIN ts = 1..L /\ H \subseteq 1..L /\ \A i \in 1..L : ts[i] \in Rows
    BY DEF Holders
<1>2. \A i \in 1..L : us[i] = IF i \in H /\ Cardinality(NewerThan(H, i)) >= AtLeastOne(Keep)
                              THEN NoJournal(ts[i]) ELSE ts[i]
    BY <1>1 DEF salt_deploy_prune
<1>3. \A i \in 1..L : us[i] \in Collected(ts[i])
    BY Zenon, <1>2 DEF Collected
<1> HIDE DEF us, H
<1>4. ASSUME NEW i \in 1..L, us[i] # ts[i], NEW j \in 1..(i - 1)
      PROVE  ~us[j].snapshot
  <2>1. j \in 1..L /\ j \in Nat /\ i \in Nat /\ j <= i
      BY <1>1
  <2>2. Cardinality(NewerThan(H, i)) >= AtLeastOne(Keep)
      BY <1>2, <1>4
  <2>3. Cardinality(NewerThan(H, j)) >= AtLeastOne(Keep)
    <3>1. /\ Cardinality(NewerThan(H, i)) \in Nat /\ Cardinality(NewerThan(H, j)) \in Nat
          /\ Cardinality(NewerThan(H, i)) <= Cardinality(NewerThan(H, j))
        BY <1>1, <2>1, NewerGrows, Zenon
    <3>2. AtLeastOne(Keep) \in Nat
        BY Zenon, AtLeastOneType, DeploymentsAssumption
    <3> QED
        BY <2>2, <3>1, <3>2
  <2>4. CASE j \in H
    <3>1. us[j] = NoJournal(ts[j])
        BY Zenon, <1>2, <2>1, <2>3, <2>4
    <3> QED
        BY <1>1, <2>1, <3>1 DEF NoJournal, Rows
  <2>5. CASE j \notin H
    <3>1. us[j] = ts[j]
        BY <1>2, <2>1, <2>5
    <3> QED
        BY Zenon, <1>1, <2>1, <2>5, <3>1 DEF H, Holders, PlainRow
  <2> QED
      BY <2>4, <2>5
<1>5. \A i \in 1..L : PlainRow(us, i)
    BY Zenon, <1>3, <1>4, PlainLess
<1> QED
    BY <1>5 DEF us

LEMMA PlainGc ==
    ASSUME RollInv, plain, PlainInv, NEW keep \in Nat, Gc(keep)
    PROVE  PlainInv'
<1> DEFINE L == Len(txns)
           oks == {j \in Ids : txns[j].status = "ok"}
<1>1. /\ txns \in Seq(Rows) /\ L \in Nat /\ Ids = 1..L
      /\ \A i \in Ids : txns[i] \in Rows /\ RowInv(txns[i]) /\ PlainRow(txns, i)
  <2>1. txns \in Seq(Rows) /\ Ids = 1..L /\ \A i \in 1..L : RowInv(txns[i])
      BY Zenon DEF RollInv, Good, Ids
  <2>2. L \in Nat /\ \A i \in 1..L : txns[i] \in Rows
      BY <2>1
  <2>3. \A i \in Ids : PlainRow(txns, i)
      BY Zenon DEF PlainInv, PlainRow
  <2> QED
      BY <2>1, <2>2, <2>3, Zenon
<1>2. /\ txns' \in Seq(Rows) /\ Len(txns') = L
      /\ \A i \in Ids : txns'[i] = IF Kept(keep, i) THEN txns[i] ELSE Pruned(txns[i])
      /\ \A i \in Ids : txns'[i] \in Collected(txns[i])
    BY Zenon, <1>1, GcCollects
<1>3. \A i \in oks : Cardinality(NewerThan(oks, i)) < AtLeastOne(keep) => Kept(keep, i)
    BY Zenon DEF Kept
<1>4. \A i \in oks : Kept(keep, i) => Cardinality(NewerThan(oks, i)) < AtLeastOne(keep)
    BY Zenon, <1>1 DEF Kept, PlainRow
<1>5. oks \subseteq 1..L
    BY <1>1
<1>6. ASSUME NEW i \in 1..L, txns[i].status = "ok", txns'[i] # txns[i],
             NEW j \in 1..(i - 1)
      PROVE  ~(txns'[j].status = "ok" /\ txns'[j].snapshot)
  <2>1. j \in Ids /\ i \in Ids /\ i \in oks /\ j \in Nat /\ i \in Nat /\ j <= i
      BY <1>1, <1>6
  <2>2. ~Kept(keep, i)
      BY <1>2, <1>6, <2>1
  <2>3. CASE Kept(keep, j)
    <3>1. txns'[j] = txns[j]
        BY Zenon, <1>2, <2>1, <2>3
    <3>2. CASE j \in oks
      <4> HIDE DEF oks
      <4>1. Cardinality(NewerThan(oks, j)) < AtLeastOne(keep)
          BY <1>4, <2>3, <3>2
      <4>2. Cardinality(NewerThan(oks, i)) < AtLeastOne(keep)
        <5>1. /\ Cardinality(NewerThan(oks, i)) \in Nat
              /\ Cardinality(NewerThan(oks, j)) \in Nat
              /\ Cardinality(NewerThan(oks, i)) <= Cardinality(NewerThan(oks, j))
            BY <1>1, <1>5, <2>1, NewerGrows, Zenon
        <5>2. AtLeastOne(keep) \in Nat
            BY AtLeastOneType
        <5> QED
            BY <4>1, <5>1, <5>2
      <4> QED
          BY <1>3, <2>1, <2>2, <4>2
    <3>3. CASE j \notin oks
        BY <2>1, <3>1, <3>3
    <3> QED
        BY <3>2, <3>3
  <2>4. CASE ~Kept(keep, j)
    <3>1. txns'[j] = Pruned(txns[j])
        BY Zenon, <1>2, <2>1, <2>4
    <3> QED
        BY <1>1, <2>1, <3>1 DEF Pruned, NoJournal, Rows
  <2> QED
      BY <2>3, <2>4
<1>7. \A i \in 1..L : PlainRow(txns', i)
    BY Zenon, <1>1, <1>2, <1>6, PlainLess
<1> QED
    BY <1>2, <1>7, Zenon DEF PlainInv, PlainRow, Ids, Gc

\* Everything above the row that `salt rollback` picks can be reverted.
LEMMA PickExact ==
    ASSUME RollInv, PlainInv, plain, NEW n \in Ids, IsPick(n), RollbackTo(n)
    PROVE  Exact(n)
<1>1. /\ txns \in Seq(Rows) /\ Len(txns) \in Nat /\ Ids = 1..Len(txns) /\ broken = 0
      /\ txns[n].status = "ok" /\ txns[n].snapshot
    BY DEF RollInv, Good, Ids, PlainInv, IsPick
<1>2. ASSUME NEW i \in (n + 1)..Len(txns) PROVE ~txns[i].lost
  <2>1. i \in Ids /\ n \in 1..(i - 1)
      BY <1>1
  <2> QED
      BY Zenon, <1>1, <2>1 DEF PlainInv
<1>3. Reachable(txns, broken, n)
    BY <1>1, <1>2 DEF Reachable
<1> QED
    BY <1>3, ReachableExact

\* A command appends a row that found the present root and tables.
LEMMA PlainNew ==
    ASSUME RollInv, PlainInv, Consistent, plain, NEW row \in Rows,
           row.pinned = FALSE, row.lost = FALSE, row.pre.root = root, row.pre.db = db
    PROVE  LET us == Append(txns, row)
           IN  /\ us \in Seq(Rows) /\ Len(us) = Len(txns) + 1
               /\ \A i \in 1..Len(us) : PlainRow(us, i)
<1>1. txns \in Seq(Rows) /\ \A i \in 1..Len(txns) : PlainRow(txns, i)
    BY Zenon DEF RollInv, Good, PlainInv, PlainRow, Ids
<1>2. OneOwner(row.pre.db) /\ FilesInPlace(row.pre.root, row.pre.db)
    BY DEF Consistent
<1>3. \A i \in 1..(Len(txns) + 1) : PlainRow(Append(txns, row), i)
    BY <1>1, <1>2, PlainAppend, Zenon
<1>4. Append(txns, row) \in Seq(Rows) /\ Len(Append(txns, row)) = Len(txns) + 1
    BY <1>1
<1> QED
    BY <1>3, <1>4

LEMMA PlainTransaction ==
    ASSUME RollInv, PlainInv, Consistent, plain, NEW pl \in History.requests, Transaction(pl)
    PROVE  PlainInv' /\ Consistent'
<1> DEFINE row == NewRow("native", "ok", TRUE, JournalBackup(pl), JournalAdded(pl))
           us == Append(txns, row)
<1>1. /\ pl \in Plans /\ root \in Roots /\ db \in Dbs
      /\ txns \in Seq(Rows) /\ \A i \in 1..Len(txns) : RowInv(txns[i])
    BY RequestsArePlans DEF RollInv, Good
<1>2. OneOwner(PlanDb(db, pl)) /\ db' = PlanDb(db, pl) /\ root' = PlanRoot(root, db, pl)
    BY Zenon, SameOperators DEF Transaction
<1>3. Consistent'
    BY Zenon, <1>1, <1>2, PlanKeepsFiles DEF Consistent
<1>4. /\ row \in Rows /\ RowInv(row) /\ row.pinned = FALSE /\ ~row.lost
      /\ row.pre.root = root /\ row.pre.db = db
    BY <1>1, TransactionRow, Zenon
<1>5. row.lost = FALSE
    BY <1>4, Zenon DEF Rows
<1>6. txns' = salt_deploy_prune(us) /\ UNCHANGED <<plain, broken>>
    BY Zenon DEF Transaction
<1> HIDE DEF row
<1>7. /\ us \in Seq(Rows) /\ Len(us) = Len(txns) + 1
      /\ \A i \in 1..Len(us) : PlainRow(us, i)
    BY <1>4, <1>5, PlainNew, Zenon
<1>8. \A i \in 1..Len(us) : RowInv(us[i])
  <2>1. \A i \in 1..Len(us) : us[i] = IF i = Len(txns) + 1 THEN row ELSE txns[i]
      BY <1>1, <1>7
  <2>2. \A i \in 1..Len(us) : i = Len(txns) + 1 \/ i \in 1..Len(txns)
      BY <1>1, <1>7
  <2> HIDE DEF us
  <2> QED
      BY <1>1, <1>4, <2>1, <2>2
<1> HIDE DEF us
<1>9. \A i \in 1..Len(us) : PlainRow(txns', i)
    BY <1>6, <1>7, <1>8, PlainPrune
<1>10. Len(txns') = Len(us)
    BY <1>6, <1>7, <1>8, PruneCollects
<1> QED
    BY Zenon, <1>3, <1>6, <1>9, <1>10 DEF PlainInv, PlainRow, Ids

LEMMA PlainOther ==
    ASSUME RollInv, PlainInv, Consistent, plain, TransactionFails \/ RegisterCurrent
    PROVE  PlainInv' /\ Consistent'
<1>1. root \in Roots /\ db \in Dbs
    BY DEF RollInv, Good
<1>2. PICK row \in {FailedRow, DeployRow} : txns' = Append(txns, row)
    BY Zenon DEF TransactionFails, RegisterCurrent, FailedRow, DeployRow
<1>3. /\ row \in Rows /\ row.pinned = FALSE /\ row.lost = FALSE
      /\ row.pre.root = root /\ row.pre.db = db
    BY <1>1, EmptyRow, Zenon
<1>4. \A i \in 1..Len(txns') : PlainRow(txns', i)
    BY <1>2, <1>3, PlainNew, Zenon
<1>5. UNCHANGED <<root, db, plain, broken>>
    BY Zenon DEF TransactionFails, RegisterCurrent
<1> QED
    BY Zenon, <1>4, <1>5 DEF PlainInv, PlainRow, Ids, Consistent

LEMMA PlainRollback ==
    ASSUME RollInv, PlainInv, Consistent, plain, NEW n \in Ids, IsPick(n), RollbackTo(n)
    PROVE  PlainInv' /\ Consistent'
<1> DEFINE ms == mark_undone(txns, n)
           row == RollbackRow("ok")
           L == Len(txns)
<1>1. /\ root \in Roots /\ db \in Dbs /\ txns \in Seq(Rows) /\ L \in Nat
      /\ Ids = 1..L /\ broken = 0
      /\ \A i \in 1..L : RowInv(txns[i]) /\ PlainRow(txns, i)
  <2>1. /\ root \in Roots /\ db \in Dbs /\ txns \in Seq(Rows) /\ L \in Nat
        /\ \A i \in 1..L : RowInv(txns[i])
      BY DEF RollInv, Good
  <2>2. Ids = 1..L /\ broken = 0 /\ \A i \in 1..L : PlainRow(txns, i)
      BY Zenon DEF Ids, PlainInv, PlainRow
  <2> QED
      BY <2>1, <2>2, Zenon
<1>2. Consistent'
    BY Zenon, <1>1, PickExact DEF Consistent, Exact, PlainRow
<1>3. Silent(row) /\ row.pinned = FALSE /\ row.pre.root = root /\ row.pre.db = db
  <2>1. Silent(row)
      BY <1>1, RollbackRowSilent
  <2>2. row \in {FailedRow, DeployRow, RollbackRow("ok")}
      OBVIOUS
  <2> HIDE DEF row
  <2> QED
      BY <1>1, <2>1, <2>2, EmptyRow, Zenon
<1>4. txns' = RolledBack(txns, n, row)
    BY DEF RollbackTo, RolledBack
<1> HIDE DEF row
<1>5. /\ Len(txns') = L + 1 /\ txns'[L + 1] = row
      /\ \A i \in 1..(n - 1) : txns'[i] = txns[i]
      /\ \A i \in n..L : txns'[i].status # "ok"
      /\ \A i \in 1..L : /\ txns'[i].pre = txns[i].pre /\ txns'[i].lost = txns[i].lost
                         /\ txns'[i].pinned = txns[i].pinned
  <2> DEFINE us == RolledBack(txns, n, row)
  <2>0. n \in 1..Len(txns) /\ \A i \in 1..Len(txns) : RowInv(txns[i])
      BY <1>1, Zenon
  <2>1. AfterRollback(txns, n, row, us)
      BY <1>1, <1>3, <2>0, RolledBackRows, Zenon
  <2> HIDE DEF us
  <2> QED
      BY <1>4, <2>1, Zenon DEF us, AfterRollback
<1>6. ASSUME NEW i \in 1..L PROVE PlainRow(txns', i)
  <2>1. \A j \in 1..(i - 1) : txns'[j].status = "ok" => txns'[j] = txns[j]
    <3> TAKE j \in 1..(i - 1)
    <3>1. j \in n..L \/ j \in 1..(n - 1)
        BY <1>1
    <3> QED
        BY Zenon, <1>5, <3>1
  <2> QED
      BY <1>1, <1>5, <2>1, Zenon DEF PlainRow
<1>7. PlainRow(txns', L + 1)
    BY Zenon, <1>3, <1>5 DEF PlainRow, Silent, Consistent
<1>8. \A i \in 1..(L + 1) : i \in 1..L \/ i = L + 1
    BY <1>1
<1>9. broken' = 0 /\ plain' = plain
    BY <1>1 DEF RollbackTo
<1> QED
    BY Zenon, <1>2, <1>5, <1>6, <1>7, <1>8, <1>9 DEF PlainInv, PlainRow, Ids

LEMMA PlainInit == Init => PlainInv /\ Consistent
<1> SUFFICES ASSUME Init PROVE PlainInv /\ Consistent
    OBVIOUS
<1>1. Ids = {} /\ broken = 0
    BY DEF Init, Ids
<1>2. \A q \in Pkgs : FilesOf(db, q) = {}
    BY Zenon DEF Init, FilesOf
<1> QED
    BY Zenon, <1>1, <1>2 DEF PlainInv, Consistent, OneOwner, Owners, FilesInPlace

LEMMA PlainStep ==
    RollInv /\ PlainInv /\ Consistent /\ [Next]_vars => PlainInv' /\ Consistent'
<1> SUFFICES ASSUME RollInv, PlainInv, Consistent, [Next]_vars
             PROVE  PlainInv' /\ Consistent'
    OBVIOUS
<1>1. CASE ~plain /\ Disturbed
  <2>1. plain' = plain
      BY <1>1, Zenon DEF Disturbed, Completed, Routine, Transaction, TransactionFails,
                  TransactionDies, RegisterCurrent, RollbackTo, RollbackStops,
                  RollbackKeepsDb, Pin, Gc
  <2> QED
      BY Zenon, <1>1, <2>1 DEF PlainInv, Consistent
<1>2. CASE plain /\ Rollback
    BY <1>2, PlainRollback DEF Rollback
<1>3. CASE plain /\ \E pl \in History.requests : Transaction(pl)
    BY <1>3, PlainTransaction
<1>4. CASE plain /\ (TransactionFails \/ RegisterCurrent)
    BY <1>4, PlainOther
<1>5. CASE plain /\ \E keep \in History.keeps : Gc(keep)
  <2>1. PICK keep \in History.keeps : Gc(keep)
      BY <1>5
  <2>2. keep \in Nat
      BY Zenon, <2>1, DeploymentsAssumption DEF RollInv, History
  <2> QED
      BY Zenon, <1>5, <2>1, <2>2, PlainGc DEF Consistent, Gc
<1>6. CASE UNCHANGED vars
    BY Zenon, <1>6 DEF vars, PlainInv, Consistent, Ids
<1> QED
    BY Zenon, <1>1, <1>2, <1>3, <1>4, <1>5, <1>6 DEF Next, Routine

\* Without pins and explicit targets, files and tables agree after every
\* sequence of transactions, rollbacks, prunings and collections.
THEOREM PlainHistoriesConsistent == Spec => []Consistent
    BY RollInit, RollStep, PlainInit, PlainStep, PTL DEF Spec

\* Without pins, `salt rollback` undoes exactly the deployment it picks, for
\* every value of deploy.keep and of gc --keep.
THEOREM PlainRollbackGoesBack == Spec => PlainRollbackExact
<1>1. RollInv /\ PlainInv =>
          \A n \in Ids : plain /\ IsPick(n) /\ RollbackTo(n) => Exact(n)
    BY PickExact
<1> QED
    BY <1>1, RollInit, RollStep, PlainInit, PlainStep, PTL DEF Spec, PlainRollbackExact

-----------------------------------------------------------------------------
(* The newest transaction.                                                 *)

\* Reverting an empty journal changes nothing.
LEMMA RevertNothing ==
    ASSUME NEW r \in Roots
    PROVE  Reverted(r, NoBackup, {}) = r
<1>1. \A p \in Paths : Reverted(r, NoBackup, {})[p] = r[p]
    BY NoBackupFacts DEF Reverted
<1>2. Reverted(r, NoBackup, {}) \in Roots
    BY <1>1 DEF Reverted, Roots
<1> QED
    BY <1>1, <1>2, RootsEqual

\* The journal of a transaction whose process died restores the root it found.
LEMMA DeadJournal ==
    ASSUME NEW pl \in Plans, root \in Roots, db \in Dbs, TransactionDies(pl)
    PROVE  Reverted(root', JournalBackup(pl), JournalAdded(pl)) = root
<1> DEFINE r == Reverted(root', JournalBackup(pl), JournalAdded(pl))
<1>1. \A p \in Paths : root'[p] = root[p] \/ root'[p] = PlanRoot(root, db, pl)[p]
    BY Zenon DEF TransactionDies
<1>2. ASSUME NEW p \in Paths PROVE r[p] = root[p]
  <2> DEFINE told == JournalBackup(pl)[p] # None \/ p \in JournalAdded(pl)
  <2>1. /\ told => JournalBackup(pl)[p] = root[p]
        /\ ~told => PlanRoot(root, db, pl)[p] = root[p]
      BY Zenon, JournalUndoes
  <2>2. r[p] = IF told THEN JournalBackup(pl)[p] ELSE root'[p]
      BY Zenon DEF Reverted
  <2> QED
      BY Zenon, <1>1, <2>1, <2>2
<1>3. r = [p \in Paths |-> r[p]]
    BY Zenon DEF Reverted
<1> HIDE DEF r
<1>4. r \in Roots
    BY <1>2, <1>3 DEF Roots
<1>5. r = root
    BY <1>2, <1>4, RootsEqual
<1> QED
    BY <1>5 DEF r

\* NewestInv on a row and a root.
Newest(t, r) ==
    t.op = "native" /\ t.status # "ok" =>
        /\ t.status \in {"failed", "started", "pruned"}
        /\ t.status # "started" => r = t.pre.root
        /\ Reverted(r, t.backup, t.added) = t.pre.root

LEMMA NewestGc ==
    ASSUME RollInv, NewestInv, NEW keep \in Nat, Gc(keep)
    PROVE  NewestInv'
<1> DEFINE L == Len(txns)
           t == txns[L]
           oks == {j \in Ids : txns[j].status = "ok"}
<1>1. /\ txns \in Seq(Rows) /\ L \in Nat /\ Ids = 1..L /\ root \in Roots
      /\ \A i \in Ids : txns[i] \in Rows /\ RowInv(txns[i])
    BY DEF RollInv, Good, Ids
<1>2. /\ txns' \in Seq(Rows) /\ Len(txns') = L
      /\ \A i \in Ids : txns'[i] = IF Kept(keep, i) THEN txns[i] ELSE Pruned(txns[i])
    BY Zenon, <1>1, GcCollects
<1>3. UNCHANGED <<root, broken>>
    BY DEF Gc
<1> SUFFICES ASSUME txns' # <<>>, broken = 0 PROVE Newest(txns'[L], root)
    BY Zenon, <1>2, <1>3 DEF NewestInv, Newest
<1>4. L \in Ids /\ txns # <<>>
    BY <1>1, <1>2
<1>5. Newest(t, root)
    BY Zenon, <1>4 DEF NewestInv, Newest
<1>6. CASE Kept(keep, L)
    BY <1>2, <1>4, <1>5, <1>6
<1>7. CASE ~Kept(keep, L)
  <2>1. NewerThan(oks, L) = {}
      BY <1>1 DEF NewerThan
  <2>2. Cardinality(NewerThan(oks, L)) < AtLeastOne(keep)
    <3>1. Cardinality(NewerThan(oks, L)) = 0
        BY <2>1, FS_EmptySet, Zenon
    <3>2. AtLeastOne(keep) \in Nat /\ AtLeastOne(keep) >= 1
        BY AtLeastOneType
    <3> QED
        BY <3>1, <3>2
  <2>3. t.status # "ok" /\ t.status # "started"
      BY <1>4, <1>7, <2>2 DEF Kept
  <2>4. /\ txns'[L].op = t.op /\ txns'[L].pre = t.pre /\ txns'[L].status = "pruned"
        /\ txns'[L].backup = NoBackup /\ txns'[L].added = {}
    <3>1. t \in Rows /\ txns'[L] = Pruned(t)
        BY <1>1, <1>2, <1>4, <1>7
    <3> HIDE DEF t
    <3> QED
        BY <3>1 DEF Pruned, NoJournal, Rows
  <2> QED
      BY Zenon, <1>1, <1>5, <2>3, <2>4, RevertNothing DEF Newest
<1> QED
    BY <1>6, <1>7

LEMMA NewestAppend ==
    ASSUME txns \in Seq(Rows), NEW row, txns' = Append(txns, row), Newest(row, root')
    PROVE  NewestInv'
<1>1. Len(txns') = Len(txns) + 1 /\ txns'[Len(txns')] = row
    OBVIOUS
<1> QED
    BY <1>1 DEF NewestInv, Newest

LEMMA NewestStep == RollInv /\ NewestInv /\ [Next]_vars => NewestInv'
<1> SUFFICES ASSUME RollInv, NewestInv, [Next]_vars PROVE NewestInv'
    OBVIOUS
<1>0. /\ txns \in Seq(Rows) /\ Len(txns) \in Nat /\ root \in Roots /\ db \in Dbs
      /\ \A i \in 1..Len(txns) : RowInv(txns[i])
    BY DEF RollInv, Good
<1>1. ASSUME NEW pl \in History.requests, Transaction(pl) PROVE NewestInv'
  <2> DEFINE row == NewRow("native", "ok", TRUE, JournalBackup(pl), JournalAdded(pl))
             us == Append(txns, row)
  <2>1. pl \in Plans
      BY RequestsArePlans DEF RollInv
  <2>2. row \in Rows /\ RowInv(row) /\ row.status = "ok"
      BY <1>0, <2>1, TransactionRow, Zenon
  <2>3. txns' = salt_deploy_prune(us)
      BY <1>1 DEF Transaction
  <2> HIDE DEF row
  <2>4. /\ us \in Seq(Rows) /\ Len(us) = Len(txns) + 1 /\ DOMAIN us = 1..Len(us)
        /\ us[Len(us)] = row
      BY <1>0, <2>2
  <2>5. \A i \in 1..Len(us) : RowInv(us[i])
    <3>1. \A i \in 1..Len(us) : us[i] = IF i = Len(txns) + 1 THEN row ELSE txns[i]
        BY <1>0, <2>4
    <3>2. \A i \in 1..Len(us) : i = Len(txns) + 1 \/ i \in 1..Len(txns)
        BY <1>0, <2>4
    <3> HIDE DEF us
    <3> QED
        BY <1>0, <2>2, <3>1, <3>2
  <2> HIDE DEF us
  <2>6. Len(txns') = Len(us)
      BY Zenon, <2>3, <2>4, <2>5, PruneCollects
  <2>7. Len(us) \in DOMAIN us
      BY <1>0, <2>4
  <2>8. txns'[Len(us)] = NoJournal(row) \/ txns'[Len(us)] = row
      BY Zenon, <2>3, <2>4, <2>7 DEF salt_deploy_prune
  <2>9. txns'[Len(txns')].status = "ok"
    <3>1. NoJournal(row).status = row.status
        BY <2>2 DEF NoJournal, Rows
    <3> QED
        BY <2>2, <2>6, <2>8, <3>1, Zenon
  <2> QED
      BY Zenon, <2>9 DEF NewestInv
<1>2. ASSUME TransactionFails PROVE NewestInv'
  <2>1. txns' = Append(txns, FailedRow) /\ root' = root
      BY <1>2 DEF TransactionFails, FailedRow
  <2>2. FailedRow.backup = NoBackup /\ FailedRow.added = {} /\ FailedRow.pre.root = root
      BY <1>0, EmptyRow, Zenon
  <2>3. FailedRow.status = "failed"
      BY Zenon DEF FailedRow, NewRow
  <2>4. Newest(FailedRow, root')
      BY Zenon, <1>0, <2>1, <2>2, <2>3, RevertNothing DEF Newest
  <2> QED
      BY <1>0, <2>1, <2>4, NewestAppend
<1>3. ASSUME NEW pl \in History.requests, TransactionDies(pl) PROVE NewestInv'
  <2> DEFINE row == NewRow("native", "started", TRUE, JournalBackup(pl), JournalAdded(pl))
  <2>1. pl \in Plans
      BY RequestsArePlans DEF RollInv
  <2>2. /\ row.status = "started" /\ row.pre.root = root
        /\ row.backup = JournalBackup(pl) /\ row.added = JournalAdded(pl)
      BY <1>0, <2>1, TransactionRow, Zenon
  <2>3. txns' = Append(txns, row)
      BY Zenon, <1>3 DEF TransactionDies
  <2> HIDE DEF row
  <2>4. Newest(row, root')
      BY Zenon, <1>0, <1>3, <2>1, <2>2, DeadJournal DEF Newest
  <2> QED
      BY Zenon, <1>0, <2>3, <2>4, NewestAppend
<1>4. ASSUME RegisterCurrent PROVE NewestInv'
  <2>1. txns' = Append(txns, DeployRow) /\ DeployRow.op = "deploy"
      BY Zenon, <1>4 DEF RegisterCurrent, DeployRow, NewRow
  <2>2. Newest(DeployRow, root')
      BY <2>1 DEF Newest
  <2> QED
      BY <1>0, <2>1, <2>2, NewestAppend
<1>5. ASSUME NEW n \in Ids, RollbackTo(n) \/ RollbackKeepsDb(n) PROVE NewestInv'
  <2> DEFINE row == RollbackRow("ok")
  <2>1. txns' = RolledBack(txns, n, row)
      BY <1>5 DEF RollbackTo, RollbackKeepsDb, RolledBack
  <2>2. Silent(row)
      BY <1>0, RollbackRowSilent
  <2> HIDE DEF row
  <2>3. Len(txns') = Len(txns) + 1 /\ txns'[Len(txns) + 1] = row
    <3> DEFINE us == RolledBack(txns, n, row)
    <3>0. n \in 1..Len(txns)
        BY DEF Ids
    <3>1. AfterRollback(txns, n, row, us)
        BY <1>0, <2>2, <3>0, RolledBackRows, Zenon
    <3> HIDE DEF us
    <3> QED
        BY <2>1, <3>1, Zenon DEF us, AfterRollback
  <2> QED
      BY Zenon, <2>2, <2>3 DEF NewestInv, Silent
<1>6. ASSUME NEW n \in Ids, RollbackStops(n) PROVE NewestInv'
  <2>1. broken' # 0
      BY <1>0, <1>6 DEF RollbackStops, Ids
  <2> QED
      BY Zenon, <2>1 DEF NewestInv
<1>7. ASSUME NEW n \in Ids, NEW pinned \in BOOLEAN, Pin(n, pinned) PROVE NewestInv'
  <2> DEFINE L == Len(txns)
  <2>1. /\ txns' \in Seq(Rows) /\ Len(txns') = L
        /\ \A i \in Ids \ {n} : txns'[i] = txns[i]
        /\ txns'[n] = [txns[n] EXCEPT !.pinned = pinned]
      BY <1>0, <1>7, PinFacts
  <2>2. L \in Ids /\ txns # <<>> /\ txns[n] \in Rows /\ txns[L] \in Rows
      BY <1>0 DEF Ids
  <2>3. /\ txns'[L].op = txns[L].op /\ txns'[L].status = txns[L].status
        /\ txns'[L].pre = txns[L].pre /\ txns'[L].backup = txns[L].backup
        /\ txns'[L].added = txns[L].added
    <3>1. CASE L = n
        BY <2>1, <2>2, <3>1 DEF Rows
    <3>2. CASE L # n
        BY <2>1, <2>2, <3>2
    <3> QED
        BY Zenon, <3>1, <3>2
  <2> QED
      BY <1>7, <2>1, <2>2, <2>3 DEF NewestInv, Pin
<1>8. ASSUME NEW keep \in History.keeps, Gc(keep) PROVE NewestInv'
  <2>1. keep \in Nat
      BY DeploymentsAssumption DEF RollInv, History
  <2> QED
      BY <1>8, <2>1, NewestGc
<1>9. CASE UNCHANGED vars
    BY Zenon, <1>9 DEF vars, NewestInv
<1> QED
    BY Zenon, <1>1, <1>2, <1>3, <1>4, <1>5, <1>6, <1>7, <1>8, <1>9
       DEF Next, Disturbed, Completed, Routine, Rollback

\* Unless it committed, the newest transaction's journal restores the root it
\* found: failed or dead, and whatever was pruned, pinned or collected since.
THEOREM DeadTransactionReverts == Spec => []DeadJournalComplete
<1>1. Init => NewestInv
    BY DEF Init, NewestInv
<1>2. NewestInv => DeadJournalComplete
    BY DEF NewestInv, DeadJournalComplete
<1> QED
    BY <1>1, <1>2, NewestStep, RollInit, RollStep, PTL DEF Spec
=============================================================================
