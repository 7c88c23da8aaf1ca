--------------------------- MODULE MCProviderWork ---------------------------
(* Small instances of ProviderWork for TLC.                                *)
EXTENDS ProviderWork, TLC

\* Tight enough that every cap is met, and wide enough for one group to go
\* through both envelopes and the recovery of both its segments.
TightCaps == "attempts" :> 4 @@ "input_bytes" :> 10 @@ "output_tokens" :> 6
=============================================================================
