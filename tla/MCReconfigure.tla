--------------------------- MODULE MCReconfigure ---------------------------
(* A small instance of Reconfigure. *)
EXTENDS Reconfigure, TLC

CONSTANTS e1, e2, e3

\* Two environments that differ in a credential, and one with other providers.
MCEnvs == {e1, e2, e3}
MCFingerprint == e1 :> 1 @@ e2 :> 1 @@ e3 :> 2
=============================================================================
