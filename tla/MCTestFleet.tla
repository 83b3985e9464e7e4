---------------------------- MODULE MCTestFleet ----------------------------
(* TLC instances of TestFleet. *)
EXTENDS TestFleet

\* Tests of either kind beside a check of either kind.
MCWidths == [s \in Scopes |->
    CASE s = "test" -> {1, 2} [] s = "check" -> {1, 2} [] s = "merge" -> {}]

=============================================================================
