--------------------------- MODULE MCCheckMerge ---------------------------
(* TLC instances of CheckMerge: version 1 of the project is the base.      *)
EXTENDS CheckMerge

MCFeatureStart == [f \in Features |->
    IF f = "f1" THEN <<"base", "a">> ELSE <<"base", "b">>]
MCTrunkStart == <<"base">>
MCChanges == {"base", "a", "b", "fix", "t", "u"}
MCVersion == [c \in MCChanges |->
    CASE c = "base" -> 1 [] c \in {"a", "u"} -> 2 [] c = "b" -> 3 [] OTHER -> 0]
MCConflicts == {{"a", "b"}}
=============================================================================
