---------------------------- MODULE MCStratumRun ----------------------------
EXTENDS StratumRun, TLC

New == System
Old == System \cup {Founder}
Root(s, creates) == [s |-> s, root |-> TRUE, creates |-> creates, exits |-> {0}]
Failing(s, creates) == [Root(s, creates) EXCEPT !.exits = {126, USERNS_DENIED}]
User(s) == [s |-> s, root |-> FALSE, creates |-> {}, exits |-> {0, 126, USERNS_DENIED}]
Both(a, b, accounts, k, g, w) ==
    [plan |-> "r1" :> a @@ "r2" :> b, base |-> accounts, kills |-> k, rolls |-> g,
     faults |-> w]

\* Two first runs; the same with a killing; the same with a rollback; accounts
\* created at the same time in one stratum and in two, by one run and by both,
\* with a file that cannot be opened; runs of a user.
MCScenarios == {
    Both(Root("A", {}), Root("A", {}), Old, 2, {}, 0),
    Both(Root("A", {}), Root("A", {}), Old, 0, {"A"}, 0),
    Both(Root("A", {"new"}), Root("A", {}), New, 0, {}, 0),
    Both(Root("A", {"new"}), Root("A", {"other"}), Old, 0, {}, 0),
    Both(Root("A", {"new"}), Root("B", {"other"}), Old, 0, {}, 1),
    Both(Root("A", {"new"}), Root("B", {}), New, 0, {}, 1),
    Both(User("A"), Failing("A", {"new"}), Old, 0, {}, 0)}
=============================================================================
