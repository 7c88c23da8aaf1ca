--------------------------- MODULE ProviderSwitch ---------------------------
(***************************************************************************)
(* What btctl reconfigure promises: the deployment has one published set   *)
(* of providers.  While they are changed the API may be away, or run with  *)
(* the published or with the wanted providers and no others; the published *)
(* set changes in one step, to what the running API has been given and the *)
(* operator asked for.                                                     *)
(***************************************************************************)
CONSTANTS Envs, None

VARIABLES
    wanted,         \* the environment that the operator asks for
    published,      \* the environment of the published deployment state
    running         \* the environment that the API runs with, or None

vars == <<wanted, published, running>>

Init ==
    /\ published \in Envs
    /\ wanted = published /\ running = published

Ask ==
    /\ wanted' \in Envs
    /\ UNCHANGED <<published, running>>

Restart ==
    /\ running' \in {None, published, wanted}
    /\ UNCHANGED <<wanted, published>>

Publish ==
    /\ running = wanted
    /\ published' = wanted
    /\ UNCHANGED <<wanted, running>>

Spec == Init /\ [][Ask \/ Restart \/ Publish]_vars
=============================================================================
