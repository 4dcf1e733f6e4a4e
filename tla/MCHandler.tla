----------------------------- MODULE MCHandler -----------------------------
(***************************************************************************)
(* Bounds for the model checking of HandlerRuntime: many calls within one  *)
(* invocation, and a second invocation without calls.                      *)
(***************************************************************************)
EXTENDS HandlerRuntime

Scenario(starts, most, calls_, percent, lock) ==
    [starts |-> starts, faults |-> most, calls |-> calls_, percent |-> percent,
     locks |-> lock]

MCScenarios == {Scenario(1, 3, 2, 2, 0), Scenario(2, 2, 0, 1, 1)}
MCOvertaken == {Scenario(1, 2, 1, 1, 0)}
=============================================================================
