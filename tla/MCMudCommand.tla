---------------------------- MODULE MCMudCommand ----------------------------
(***************************************************************************)
(* A ball of three components: 1 and 2 are config structs, 3 a service   *)
(* that depends on 1.  An empty --components selects the default, the     *)
(* service; "all" selects 2 and 3.  Two commands: one with no preset      *)
(* selectors, one presetting only its selector (config 1), and a config- *)
(* list-like one whose selector is the whole ball and whose run selector  *)
(* is the service alone.                                                   *)
(***************************************************************************)
EXTENDS MudCommand

MCDeps == {<<3, 1>>}

MCFlags == {"", "all"}

MCFromString == ("" :> {3}) @@ ("all" :> {2, 3})

MCCommands ==
    {[selector |-> Nil, runSelector |-> Nil],
     [selector |-> {1}, runSelector |-> Nil],
     [selector |-> {1, 2, 3}, runSelector |-> {3}]}

=============================================================================
