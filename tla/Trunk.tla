-------------------------------- MODULE Trunk --------------------------------
(***************************************************************************)
(* What `docex merge` promises of the published trunk (cicd.md, Merge):    *)
(* it advances only to a tree that a check built and tested in exactly     *)
(* that form, in one step with the version tag that names it; and tags are *)
(* for ever.  Teammates may push to the same trunk by other means.         *)
(***************************************************************************)
EXTENDS Naturals, Sequences, SequencesExt

CONSTANTS TrunkStart, Changes

VARIABLES
    trunk,    \* history of main on origin
    tags,     \* version -> the history it tags, on origin
    tested    \* the trees some check went green on

Init ==
    /\ trunk = TrunkStart
    /\ tags = << >>
    /\ tested = {}

Test(tree) ==
    /\ tested' = tested \cup {tree}
    /\ UNCHANGED <<trunk, tags>>

Tagged(v, tree) ==
    tags' = [w \in DOMAIN tags \cup {v} |->
                IF w \in DOMAIN tags THEN tags[w] ELSE tree]

Release(tree, v) ==
    /\ tree \in tested
    /\ IsStrictPrefix(trunk, tree)
    /\ v \notin DOMAIN tags
    /\ trunk' = tree
    /\ Tagged(v, tree)
    /\ UNCHANGED tested

\* A teammate pushes one change, with or without a version tag of its own.
Others(c) ==
    /\ trunk' = Append(trunk, c)
    /\ \/ UNCHANGED tags
       \/ \E v \in DOMAIN tags' \ DOMAIN tags : Tagged(v, trunk')
    /\ UNCHANGED tested

\* The tree and the version are read off the step, so that TLC need not
\* enumerate histories: a Release ends with its tree on the trunk.
Next ==
    \/ \E tree \in tested' : Test(tree)
    \/ \E v \in DOMAIN tags' : Release(trunk', v)
    \/ \E c \in Changes : Others(c)

Spec == Init /\ [][Next]_<<trunk, tags, tested>>
=============================================================================
