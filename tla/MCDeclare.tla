----------------------------- MODULE MCDeclare ------------------------------
(***************************************************************************)
(* Four packages: d needs a, a needs b and from 1.10 on also c, the second *)
(* release of b and c need each other, d conflicts with c, and c was built *)
(* twice.                                                                  *)
(***************************************************************************)
EXTENDS Declare

CONSTANTS a, b, c, d, a1, a2, b1, b2, c1, c1x, d1, p1, p2

MCPkgs == {a, b, c, d}
MCGrains == {a1, a2, b1, b2, c1, c1x, d1}
MCname == a1 :> a @@ a2 :> a @@ b1 :> b @@ b2 :> b @@ c1 :> c @@ c1x :> c @@ d1 :> d
MCmanifest == [g \in MCGrains |-> {}]
MCdeps == a1 :> {b} @@ a2 :> {b, c} @@ b1 :> {} @@ b2 :> {c} @@ c1 :> {b} @@ c1x :> {}
          @@ d1 :> {a}
MCconflicts == [g \in MCGrains |-> IF g = d1 THEN {c} ELSE {}]
Dot == 10
MCversion == a1 :> <<1, Dot, 9>> @@ a2 :> <<1, Dot, 1, 0>> @@ b1 :> <<1>> @@ b2 :> <<1>>
             @@ c1 :> <<2, Dot, 0, 1>> @@ c1x :> <<2, Dot, 0, 1>> @@ d1 :> <<3>>
MCrelease == [g \in MCGrains |-> IF g = b2 THEN 2 ELSE 1]

\* The indexes the repository may have: at first, later, and with c rebuilt.
Early == <<a1, b1, c1, d1>>
Late  == <<a2, a1, b2, b1, c1, d1>>
Built == <<a2, b2, c1x, d1>>

Db(S) == [q \in MCPkgs |-> IF \E g \in S : MCname[g] = q
                           THEN CHOOSE g \in S : MCname[g] = q ELSE None]
Sound(e) == /\ \A q \in MCPkgs : e[q] # None => \A m \in MCdeps[e[q]] : e[m] # None
            /\ ~(e[c] # None /\ e[d] # None)
AllDbs == {e \in [MCPkgs -> MCGrains \cup {None}] :
             (\A q \in MCPkgs : e[q] = None \/ MCname[e[q]] = q) /\ Sound(e)}

Signed(i) == [index |-> i, sig |-> i]
Unsigned(i) == [index |-> i, sig |-> None]
LockOf(S, f) == [rows |-> Db(S), config |-> f, faithful |-> FALSE]
Conf(S, pins) == [native |-> TRUE, packages |-> S, pins |-> pins, skip |-> FALSE, signed |-> FALSE]

Quiet == [publish |-> {}, keys |-> {FALSE}, configs |-> {None}, locks |-> {None},
          files |-> {Signed(Early)}, dbs |-> {Db({})}, unhashed |-> {{}}, commands |-> {}, length |-> 1,
          procs |-> {p1}, crash |-> FALSE]

Ones == {{q} : q \in MCPkgs}
Pairs == {{a, d}, {b, c}, {a, c}, {b, d}}

\* Every request, from every state of the tables, against every index.
Requested == [Quiet EXCEPT !.dbs = AllDbs,
    !.files = {Signed(Early), Signed(Late), Signed(Built), Unsigned(None)},
    !.commands = ({"install", "remove"} \X (Ones \cup Pairs) \X BOOLEAN) \cup {<<"update">>}]
Applied == [Quiet EXCEPT !.dbs = AllDbs,
    !.files = {Signed(Early), Signed(Late), Signed(Built), Unsigned(None)},
    !.configs = {Conf({a}, <<>>), Conf({a, b}, a :> [v |-> <<1, Dot, 9>>, r |-> None]),
                 Conf({a, b, c}, b :> [v |-> <<1>>, r |-> 1]),
                 [Conf({c, d}, <<>>) EXCEPT !.skip = TRUE], Broken, None,
                 [Conf({d}, <<>>) EXCEPT !.signed = TRUE], [Conf({}, <<>>) EXCEPT !.native = FALSE]},
    !.commands = {<<"apply">>, <<"config", FALSE>>, <<"config", TRUE>>},
    !.locks = {None} \cup {LockOf(S, None) : S \in {{a1, b1}, {a2, b2, c1}, {b2, c1x}}}]
\* The same on tables with rows from before digests were recorded; salt lock on them.
Aged == [Applied EXCEPT !.dbs = {Db({b2, c1x}), Db({a2, b2, c1}), Db({a1, b1})}, !.length = 2,
    !.unhashed = {{c}, {b, c}, MCPkgs}, !.configs = {Conf({a}, <<>>), None},
    !.commands = @ \cup {<<"lock">>, <<"install", {c}, FALSE>>}]

\* One administrator, over time: a declared system that drifts.
Drift == [Quiet EXCEPT !.dbs = {Db({}), Db({b1, c1})}, !.length = 5,
    !.configs = {Conf({a}, <<>>), Conf({c}, <<>>)},
    !.publish = {[index |-> Built, sign |-> TRUE]},
    !.commands = {<<"sync">>, <<"update">>, <<"install", {d}, FALSE>>, <<"remove", {b}, TRUE>>,
                  <<"lock">>, <<"apply">>, <<"config", FALSE>>, <<"config", TRUE>>}]

\* Two processes on one root.
Beside == [Quiet EXCEPT !.procs = {p1, p2}, !.length = 3, !.crash = TRUE,
    !.dbs = {Db({b1}), Db({a1, b1})}, !.files = {Signed(Late)},
    !.configs = {Conf({a}, <<>>), Conf({c}, <<>>)},
    !.locks = {LockOf({b1}, Conf({a}, <<>>))},
    !.commands = {<<"update">>, <<"install", {a}, FALSE>>, <<"remove", {b}, TRUE>>,
                  <<"apply">>, <<"lock">>, <<"config", TRUE>>}]

\* Signatures: two syncs at once beside an install, the repository publishing;
\* and one process with the key coming and going.
Trust == [Quiet EXCEPT !.procs = {p1, p2}, !.length = 5, !.crash = TRUE, !.keys = {TRUE},
    !.publish = {[index |-> Late, sign |-> TRUE], [index |-> Built, sign |-> FALSE]},
    !.commands = {<<"sync">>, <<"install", {c}, FALSE>>}]
Keyed == [Trust EXCEPT !.procs = {p1}, !.keys = {TRUE, FALSE}, !.length = 6,
    !.files = {Signed(Early), Unsigned(None)},
    !.publish = {[index |-> Built, sign |-> FALSE], [index |-> Garbage, sign |-> FALSE]}]

MCMenus == [requested |-> Requested, applied |-> Applied, aged |-> Aged, drift |-> Drift, beside |-> Beside,
            trust |-> Trust, keyed |-> Keyed]

\* salt_vercmp gives the order its comment describes, on all versions of up to
\* three characters.
Versions == UNION {[1..n -> {0, 1, 2, Dot, 11}] : n \in 0..3}
ASSUME VersionOrder ==
    \A v \in Versions, w \in Versions :
        salt_vercmp(v, w) = IF Older(v, w) THEN -1 ELSE IF Older(w, v) THEN 1 ELSE 0
=============================================================================
