------------------------------ MODULE MCStage ------------------------------
(* TLC instances of Stage: the second version adds an engine and a service. *)
EXTENDS Stage, TLC

MCShape == (1 :> {"api"}) @@ (2 :> {"api", "clock"})
MCDeclares == (1 :> {"db"}) @@ (2 :> {"db", "cache"})
MCSymmetry == Permutations(Operators)
============================================================================
