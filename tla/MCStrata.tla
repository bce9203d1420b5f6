------------------------------ MODULE MCStrata ------------------------------
(***************************************************************************)
(* Two strata of one family, so that their package managers share a name;  *)
(* package f with two builds of one version and one of another, which      *)
(* ships a command and a menu entry, and package g, which ships a command  *)
(* the host has and a service.  Each menu puts together commands that act  *)
(* on the same state.                                                      *)
(***************************************************************************)
EXTENDS StrataCli

MCbuilds == [f |-> {1, 2}, g |-> {3}]
MCversion == <<10, 10, 20>>
MCprovides == [f |-> {"vi"}, g |-> {"ls"}]
MCapps == [f |-> {"vi"}, g |-> {}]
MCunits == [f |-> {}, g |-> {"gd"}]
MCpm == [A |-> "apk", B |-> "apk"]

Pin(f, g) == [f |-> f, g |-> g]
Locked(c) == [pins |-> [A |-> c], config |-> "other"]
NoConfig == [strata |-> <<>>, expose |-> {}]
Declared(s, alias, menu_entry) ==
    [strata |-> [A |-> {"f"}],
     expose |-> {[s |-> s, c |-> "vi", alias |-> alias, desktop |-> menu_entry]}]

\* The alias of one declared command is the command of the other's menu entry.
Overlapping ==
    [strata |-> <<>>,
     expose |-> {[s |-> "A", c |-> "vi", alias |-> "ed", desktop |-> TRUE],
                 [s |-> "A", c |-> "ls", alias |-> "vi", desktop |-> FALSE]}]

Trees1 == [commands |-> {<<"add", "A">>, <<"snapshot", "A">>, <<"rollback", "A", 0>>,
                         <<"rollback", "A", 1>>, <<"pkg", "A", "install", {"f"}>>,
                         <<"update", "A">>, <<"destroy", "A">>},
           locks |-> {None}, found |-> {<<>>},
           length |-> 3, btrfs |-> BOOLEAN, seconds |-> 1, configs |-> {NoConfig}]
Locks1 == [commands |-> {<<"apply">>, <<"lock">>, <<"pkg", "A", "remove", {"f"}>>,
                         <<"run", "A">>},
           locks |-> {Locked(Pin(1, Absent))}, found |-> {[A |-> Base]},
           length |-> 3, btrfs |-> BOOLEAN, seconds |-> 1, configs |-> {NoConfig}]
Locks2 == [commands |-> {<<"apply">>}, found |-> {<<>>}, length |-> 2,
           btrfs |-> BOOLEAN, seconds |-> 0,
           locks |-> {Locked(Pin(1, 3))}, configs |-> {NoConfig}]
Shims1 == [commands |-> {<<"add", "A">>, <<"add", "B">>, <<"pm", "A", "install", {"f"}>>, <<"pm", "A", "query", {}>>,
                         <<"run", "B">>, <<"expose", "B", "vi", "vi">>, <<"unexpose", "vi">>,
                         <<"expose-all", "A">>, <<"destroy", "A">>},
           locks |-> {None}, found |-> {<<>>},
           length |-> 3, btrfs |-> {FALSE}, seconds |-> 0, configs |-> {NoConfig}]
Shims2 == [commands |-> {<<"install", "A", {"f"}>>, <<"remove", "A", {"f"}>>,
                         <<"expose", "A", "vi", "ed">>, <<"expose-desktop", "A", "vi">>, <<"service", "A", "gd">>},
           locks |-> {None}, found |-> {[A |-> Base], [A |-> Pin(1, 3)]},
           length |-> 2, btrfs |-> {FALSE}, seconds |-> 0, configs |-> {NoConfig}]
Config1 == [commands |-> {<<"config", TRUE>>, <<"config", FALSE>>, <<"unexpose", "ed">>},
            locks |-> {None}, found |-> {[A |-> Base]},
           length |-> 3, btrfs |-> {FALSE}, seconds |-> 0,
            configs |-> {Declared("A", "ed", TRUE), Declared("A", "vi", TRUE), Declared("B", "ed", FALSE)}]
Config2 == [commands |-> {<<"config", TRUE>>, <<"config", FALSE>>, <<"unexpose", "vi">>},
            locks |-> {None}, found |-> {[A |-> Pin(1, 3)]},
            length |-> 3, btrfs |-> {FALSE}, seconds |-> 0,
            configs |-> {Overlapping, Declared("A", "vi", TRUE)}]
Providers1 == [commands |-> {<<"provider", "init", "x">>, <<"provider", "init", "y">>,
                             <<"provider-rollback", "init">>},
               locks |-> {None}, found |-> {<<>>},
           length |-> 5, btrfs |-> {FALSE}, seconds |-> 0, configs |-> {NoConfig}]
MCMenus == {Trees1, Locks1, Locks2, Shims1, Shims2, Config1, Config2, Providers1}
=============================================================================
