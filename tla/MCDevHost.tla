------------------------------ MODULE MCDevHost ------------------------------
(* TLC instances of DevHost. *)
EXTENDS DevHost, TLC

\* One engine credential that may be undeclared for a while, and a key that is
\* a secret, a config value, or minted.
MCDocuments ==
    LET Doc(a, b) == ("pw" :> a) @@ ("key" :> b)
    IN {Doc("tte", "secret"), Doc("none", "secret"), Doc("tte", "config"), Doc("none", "tte")}
MCSymmetry == Permutations(Commands)
==============================================================================
