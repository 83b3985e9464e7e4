----------------------------- MODULE JobHandle -----------------------------
(***************************************************************************)
(* What the handle of a durable job promises its callers, whatever happens *)
(* underneath: a run is opened, its body works alone in its scope, stops,  *)
(* and the run is settled once, with one exit code that never changes.     *)
(***************************************************************************)
CONSTANTS Runs, Scopes, NoScope, Codes, Pending

VARIABLES
    scope,    \* the scope each run belongs to
    phase,    \* where its body is
    result    \* its exit code, or Pending

handleVars == <<scope, phase, result>>

Init ==
    /\ scope = [r \in Runs |-> NoScope]
    /\ phase = [r \in Runs |-> "none"]
    /\ result = [r \in Runs |-> Pending]

Open(r) ==
    /\ phase[r] = "none"
    /\ \E s \in Scopes : scope' = [scope EXCEPT ![r] = s]
    /\ phase' = [phase EXCEPT ![r] = "open"]
    /\ UNCHANGED result

\* One body at a time per scope, and never for a run already settled.
Start(r) ==
    /\ phase[r] = "open"
    /\ result[r] = Pending
    /\ \A q \in Runs : scope[q] = scope[r] => phase[q] # "working"
    /\ phase' = [phase EXCEPT ![r] = "working"]
    /\ UNCHANGED <<scope, result>>

Stop(r) ==
    /\ phase[r] = "working"
    /\ phase' = [phase EXCEPT ![r] = "stopped"]
    /\ UNCHANGED <<scope, result>>

\* A body's own verdict, 0 or 1, takes a body that has run to its end.
Settle(r) ==
    /\ phase[r] \in {"open", "stopped"}
    /\ result[r] = Pending
    /\ \E code \in Codes :
        /\ code \in {0, 1} => phase[r] = "stopped"
        /\ result' = [result EXCEPT ![r] = code]
    /\ UNCHANGED <<scope, phase>>

Next == \E r \in Runs : Open(r) \/ Start(r) \/ Stop(r) \/ Settle(r)

Spec == Init /\ [][Next]_handleVars
=============================================================================
