------------------------------- MODULE Queues -------------------------------
(***************************************************************************)
(* The part of a queue that a Python comprehension or a loop over a        *)
(* dictionary keeps.  It is SelectSeq with a set for the test, defined by  *)
(* the positions that are kept, so that proofs can count them.             *)
(***************************************************************************)
EXTENDS Naturals, Sequences, FiniteSets

\* The members of queue that are in S, in their order.
Only(queue, S) ==
    LET at == {i \in DOMAIN queue : queue[i] \in S}
        nth(n) == CHOOSE i \in at : Cardinality({j \in at : j <= i}) = n
    IN [n \in 1 .. Cardinality(at) |-> queue[nth(n)]]
=============================================================================
