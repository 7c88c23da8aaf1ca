------------------------ MODULE MCTranslationRequests ------------------------
(* Small instances of TranslationRequests. *)
EXTENDS TranslationRequests, TLC

CONSTANTS t1, t2, x1, x2

Tenants2 == {t1, t2}

\* One tenant edits a glossary.
Glossaries2 == t1 :> {0, 1} @@ t2 :> {0}

Offer(kind, tenant, consent, groups) ==
    [kind |-> kind, tenant |-> tenant, consent |-> consent, groups |-> groups]

Local == [ns |-> "local", model |-> "m1", remote |-> FALSE, streams |-> TRUE]
Remote == [ns |-> "cloud", model |-> "m2", remote |-> TRUE, streams |-> FALSE]

\* A local primary with a remote fallback, then the same the other way round.
Swapped == <<<<Local, Remote>>, <<Remote, Local>>>>

\* A batch of one group, and single texts of two tenants.
MixedOffers ==
    {Offer("batch", t1, FALSE, <<<<x1, x2>>>>), Offer("translate", t1, TRUE, <<<<x1>>>>),
     Offer("translate", t2, TRUE, <<<<x1>>>>), Offer("stream", t1, TRUE, <<<<x2>>>>)}

\* Two models of one provider.
OneNamespace ==
    <<<<[ns |-> "cloud", model |-> "m1", remote |-> TRUE, streams |-> TRUE],
       [ns |-> "cloud", model |-> "m2", remote |-> TRUE, streams |-> TRUE]>>>>

ThreadSymmetry == Permutations(Threads)
=============================================================================
