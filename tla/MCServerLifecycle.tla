------------------------- MODULE MCServerLifecycle -------------------------
(* Instances for TLC of ServerLifecycle, one process, and of Registration,  *)
(* the node of its address over many.  An initial state chooses one of the  *)
(* two, the other one rests.                                                *)
EXTENDS ServerLifecycle, Registration

VARIABLE scope

serverVars == <<vars, registrationVars, scope>>

ServerInit ==
    /\ Init /\ RegistrationInit
    /\ scope \in {"process", "node"}
    /\ scope = "process" => servicePath = 0

ServerNext ==
    \/ scope = "process" /\ Next /\ UNCHANGED <<registrationVars, scope>>
    \/ scope = "node" /\ RegistrationNext /\ UNCHANGED <<vars, scope>>

\* The one that rests owes nothing.
ServerSpec ==
    /\ ServerInit /\ [][ServerNext]_serverVars
    /\ scope = "process" => Fairness
    /\ scope = "node" => RegistrationFairness
=============================================================================
