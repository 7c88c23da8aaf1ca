------------------------- MODULE TranslationRequests -------------------------
(***************************************************************************)
(* The translation endpoints of server.py (/translate, /translate/batch    *)
(* and /translate/stream) between the cache and the providers.             *)
(*                                                                         *)
(* A request reads the book's glossary, probes the cache for every backend *)
(* that its consent allows and every prompt contract it may use, has the   *)
(* rest translated, and files the result under the backend that produced   *)
(* it.  Meanwhile the glossary is edited, other requests write rows, and   *)
(* the process is replaced by one with other providers.                    *)
(*                                                                         *)
(* A translation is a record of where it really comes from, a row files it *)
(* under what the code believes.  Counters, the /stats snapshot and the    *)
(* wording of answers are left out; retries and budgets are ProviderWork,  *)
(* expiry and the row cap TranslationCache.                                *)
(***************************************************************************)
EXTENDS Naturals, Sequences, FiniteSets

CONSTANTS
    Threads,        \* server threads
    Tenants,        \* authenticated subjects
    Offers,         \* the requests that clients make
    Deployments,    \* the providers (one or two) of each process, one after the other
    ContextWindow,  \* BT_CONTEXT_WINDOW
    Slots,          \* BT_MAX_UPSTREAM_INFLIGHT
    Managed,        \* reader modes, which must echo the policy (not token mode)
    Glossaries,     \* tenant -> the lists of terms its book may have, 0 for none
    MaxRequests, MaxDeltas,     \* bounds
    None

Providers == UNION {{Deployments[n][i] : i \in DOMAIN Deployments[n]} : n \in DOMAIN Deployments}

\* _get_fallback refuses a fallback with the namespace and the model of the primary;
\* _provider_spec gives a namespace one locality and one protocol.
ASSUME DeploymentsAssumption ==
    /\ Deployments # <<>> /\ Deployments \in Seq(Seq(Providers))
    /\ IsFiniteSet(Threads) /\ Slots \in Nat
    /\ \A n \in DOMAIN Deployments :
          LET d == Deployments[n] IN
          /\ Len(d) \in 1 .. 2
          /\ Len(d) = 2 => <<d[1].ns, d[1].model>> # <<d[2].ns, d[2].model>>
    /\ \A b \in Providers :
          /\ b = [ns |-> b.ns, model |-> b.model, remote |-> b.remote, streams |-> b.streams]
          /\ b.remote \in BOOLEAN /\ b.streams \in BOOLEAN
          /\ \A c \in Providers : b.ns = c.ns => b.remote = c.remote /\ b.streams = c.streams
    /\ \A t \in Tenants : 0 \in Glossaries[t]
    /\ \A o \in Offers :
          /\ o.kind \in {"translate", "stream", "batch"}
          /\ o.tenant \in Tenants /\ o.consent \in BOOLEAN
          /\ o.kind # "batch" => o.groups = <<<<o.groups[1][1]>>>>

VARIABLES
    generation,     \* PROVIDER_POLICY_GENERATION: which process is running
    glossary,       \* tenant -> terms of the book's glossary, 0 for none
    rows,           \* the cache: scope and text -> translation
    req,            \* what each server thread is doing
    free,           \* upstream slots that no stream holds
    arrived         \* requests served so far

vars == <<generation, glossary, rows, req, free, arrived>>
rest == <<generation, glossary, arrived>>

NoOffer == [kind |-> "none", tenant |-> None, consent |-> FALSE, groups |-> <<>>]

Idle == [pc |-> "idle", offer |-> NoOffer, seen |-> None, gloss |-> 0, g |-> 1,
         probe |-> 1, memo |-> <<>>, got |-> <<>>, by |-> 1, deltas |-> <<>>]

Init ==
    /\ generation = 1
    /\ glossary = [t \in Tenants |-> 0]
    /\ rows = <<>>
    /\ req = [p \in Threads |-> Idle]
    /\ free = Slots
    /\ arrived = 0

----------------------------------------------------------------------------
(* Contracts, backends and scopes                                           *)

\* _get_primary and _get_fallback of the running process.
Backends == Deployments[generation]

\* single_cache_contract.
Single(gloss) == [kind |-> "single", segments |-> <<>>, context |-> <<>>, gloss |-> gloss]

\* batch_cache_contract; the context is the other groups around this one.
Batch(groups, g, gloss) ==
    IF Len(groups[g]) = 1 /\ ContextWindow = 0 THEN Single(gloss)
    ELSE [kind |-> "batch", segments |-> groups[g], gloss |-> gloss,
          context |-> IF ContextWindow = 0 THEN <<>>
                      ELSE <<SubSeq(groups, 1, g - 1), SubSeq(groups, g + 1, Len(groups))>>]

\* Variant: the fallback's rows need no consent.
EligibleAll(r) == Backends

\* _eligible_providers: a remote fallback needs the request's consent.
Eligible(r) ==
    IF Len(Backends) = 2 /\ Backends[2].remote /\ ~r.offer.consent
      THEN <<Backends[1]>> ELSE Backends

\* model_for_provider, from the namespace that the translation reports.
ModelFor(ns) ==
    IF ns = Backends[1].ns THEN Backends[1].model
    ELSE IF Len(Backends) = 2 /\ ns = Backends[2].ns THEN Backends[2].model
    ELSE Backends[1].model

\* _cache_scope and the text that is looked up or stored under it.
Scope(r, text, ns, model, contract) ==
    [tenant |-> r.offer.tenant, text |-> text, ns |-> ns, model |-> model,
     contract |-> contract]

Lookup(scope) == IF scope \in DOMAIN rows THEN rows[scope] ELSE None

Put(new) == rows' = [s \in DOMAIN rows \cup DOMAIN new |->
                        IF s \in DOMAIN new THEN new[s] ELSE rows[s]]

\* The contracts a group may be served under, in the order of the probes.
Contracts(r) ==
    LET batch == Batch(r.offer.groups, r.g, r.gloss)
    IN IF r.offer.kind = "batch" THEN <<batch, Single(r.gloss)>>
       ELSE IF batch = Single(r.gloss) THEN <<batch>> ELSE <<Single(r.gloss), batch>>

(* The probes of a group: _cache_lookup goes through the contracts of each *)
(* backend, _translate_paragraphs through the backends of each contract.   *)
Probes(r) ==
    LET b == Eligible(r)
        c == Contracts(r)
    IN [i \in 1 .. Len(b) * Len(c) |->
          IF r.offer.kind = "batch"
            THEN [backend |-> b[((i - 1) % Len(b)) + 1], contract |-> c[((i - 1) \div Len(b)) + 1]]
            ELSE [backend |-> b[((i - 1) \div Len(c)) + 1], contract |-> c[((i - 1) % Len(c)) + 1]]]

\* What a provider makes of a request's text under a prompt.
Made(r, text, by, prompt) ==
    [of |-> text, for |-> r.offer.tenant, by |-> by, prompt |-> prompt]

----------------------------------------------------------------------------
(* Arrival                                                                  *)

\* A request that has failed keeps nothing until its answer is sent.
Step(p, r) == req' = [req EXCEPT ![p] = IF r.pc = "failed" THEN [Idle EXCEPT !.pc = "failed"] ELSE r]
Goto(p, pc) == Step(p, [req[p] EXCEPT !.pc = pc])

\* Variant: an old reader page is served.
NeverStale(seen) == FALSE

\* _stale_provider_policy: the client echoes the generation it has seen.
Stale(seen) == IF seen = None THEN Managed ELSE seen # generation

(* Checks of the body, then the glossary is read once for the request (a   *)
(* glossary that cannot be read is empty).  A stale policy ends it (409)   *)
(* before any cache or provider work.                                      *)
Arrive(p, offer, seen, gloss) ==
    /\ req[p].pc = "idle" /\ arrived < MaxRequests
    /\ IF Stale(seen) THEN UNCHANGED <<req, arrived>>
       ELSE /\ arrived' = arrived + 1
            /\ Step(p, [Idle EXCEPT !.pc = "probe", !.offer = offer, !.seen = seen,
                          !.gloss = gloss,
                          !.got = [g \in DOMAIN offer.groups |-> None]])
    /\ UNCHANGED <<generation, glossary, rows, free>>

----------------------------------------------------------------------------
(* The cache probes                                                         *)

\* The next group, or the translation of what is missing.
NextGroup(r) ==
    IF r.g < Len(r.offer.groups) THEN [r EXCEPT !.g = @ + 1, !.probe = 1]
    ELSE [r EXCEPT !.pc = IF \A g \in DOMAIN r.got : r.got[g] # None THEN "answered"
                          ELSE IF r.offer.kind = "stream" THEN "stream" ELSE "work",
                   !.g = 1, !.probe = 1, !.memo = <<>>]

\* The probe of one backend and contract found nothing, or not everything.
NextProbe(r) ==
    IF r.probe < Len(Probes(r)) THEN [r EXCEPT !.probe = @ + 1] ELSE NextGroup(r)

\* The rows of a group under one probe; _probe_many remembers what it has read.
Found(r) ==
    LET b == Probes(r)[r.probe].backend
        c == Probes(r)[r.probe].contract
    IN [i \in DOMAIN r.offer.groups[r.g] |->
          LET s == Scope(r, r.offer.groups[r.g][i], b.ns, b.model, c)
          IN [scope |-> s, hit |-> IF s \in DOMAIN r.memo THEN r.memo[s] ELSE Lookup(s)]]

Remember(r, found) ==
    IF r.offer.kind # "batch" THEN <<>>
    ELSE LET new == {found[i].scope : i \in DOMAIN found}
         IN [s \in DOMAIN r.memo \cup new |->
               IF s \in DOMAIN r.memo THEN r.memo[s] ELSE Lookup(s)]

\* _accept: a hit only when every segment is there under one backend and contract.
Accept(found) == \A i \in DOMAIN found : found[i].hit # None

Probe(p) ==
    /\ req[p].pc = "probe"
    /\ LET found == Found(req[p])
           r == [req[p] EXCEPT !.memo = Remember(req[p], found)]
       IN Step(p, IF Accept(found)
                    THEN NextGroup([r EXCEPT !.got[r.g] =
                            [how |-> "cache", items |-> [i \in DOMAIN found |-> found[i].hit]]])
                    ELSE NextProbe(r))
    /\ UNCHANGED <<rest, rows, free>>

\* The database fails: a single lookup goes on, a batch ends with 500.
ProbeFails(p) ==
    /\ req[p].pc = "probe"
    /\ Step(p, IF req[p].offer.kind = "batch" THEN [req[p] EXCEPT !.pc = "failed"]
               ELSE NextProbe(req[p]))
    /\ UNCHANGED <<rest, rows, free>>

----------------------------------------------------------------------------
(* /translate and /translate/batch: the providers and the rows              *)

\* The groups still to be translated, and what follows the last of them.
Missing(r) == {g \in DOMAIN r.got : r.got[g] = None}

\* Groups run side by side and touch nothing shared: one order stands for all.
Turn(r, g) == g \in Missing(r) /\ \A h \in Missing(r) : g <= h

Worked(r) == IF Missing(r) # {} THEN r ELSE [r EXCEPT !.pc = "store"]

(* translate_text or one group of translate_batch: one answer to the       *)
(* group's own prompt, which may be stored ...                             *)
Translate(p, g, b) ==
    /\ req[p].pc = "work" /\ Turn(req[p], g) /\ b \in DOMAIN Eligible(req[p])
    /\ LET r == req[p]
           prompt == IF r.offer.kind = "batch" THEN Batch(r.offer.groups, g, r.gloss)
                     ELSE Single(r.gloss)
       IN Step(p, Worked([r EXCEPT !.got[g] = [how |-> "fresh", items |->
             [i \in DOMAIN r.offer.groups[g] |->
                Made(r, r.offer.groups[g][i], Eligible(r)[b], prompt)]]]))
    /\ UNCHANGED <<rest, rows, free>>

(* ... or the recovery of an envelope that was malformed twice: the        *)
(* segments one by one, by any provider, or an error marker in a place.    *)
Recover(p, g, by) ==
    /\ req[p].pc = "work" /\ Turn(req[p], g) /\ req[p].offer.kind = "batch"
    /\ LET r == req[p] IN
       /\ Batch(r.offer.groups, g, r.gloss).kind = "batch"
       /\ by \in [DOMAIN r.offer.groups[g] -> {0} \cup DOMAIN Eligible(r)]
       /\ Step(p, Worked([r EXCEPT !.got[g] = [how |-> "recovered", items |->
             [i \in DOMAIN r.offer.groups[g] |->
                IF by[i] = 0 THEN None
                ELSE Made(r, r.offer.groups[g][i], Eligible(r)[by[i]], Single(r.gloss))]]]))
    /\ UNCHANGED <<rest, rows, free>>

\* The group's providers fail: a batch marks its segments, /translate answers 502.
Unavailable(p, g) ==
    /\ req[p].pc = "work" /\ Turn(req[p], g)
    /\ LET r == req[p] IN
       Step(p, IF r.offer.kind = "batch"
                 THEN Worked([r EXCEPT !.got[g] = [how |-> "recovered",
                         items |-> [i \in DOMAIN r.offer.groups[g] |-> None]]])
                 ELSE [r EXCEPT !.pc = "failed"])
    /\ UNCHANGED <<rest, rows, free>>

\* The request's budget is exhausted: 503.
Exhausted(p) ==
    /\ req[p].pc = "work"
    /\ Goto(p, "failed")
    /\ UNCHANGED <<rest, rows, free>>

\* Variant: recovered segments are filed under the batch contract.
AllGroups(r) == {g \in DOMAIN r.got : r.got[g].how # "cache"}

\* The groups that may be stored: server_cacheable.
Cacheable(r) == {g \in DOMAIN r.got : r.got[g].how = "fresh"}

(* The rows of the groups, each under its contract.                         *)
Written(r, contract) ==
    LET cells == {c \in UNION {{g} \X DOMAIN r.got[g].items : g \in DOMAIN contract} :
                    r.got[c[1]].items[c[2]] # None}
        item(c) == r.got[c[1]].items[c[2]]
        scope(c) == Scope(r, item(c).of, item(c).by.ns, ModelFor(item(c).by.ns),
                          contract[c[1]])
    IN [s \in {scope(c) : c \in cells} |-> item(CHOOSE c \in cells : scope(c) = s)]

\* put_cache_many in one transaction; one put_cache for /translate.
Store(p) ==
    /\ req[p].pc = "store"
    /\ LET r == req[p] IN
       IF r.offer.kind = "batch"
         THEN /\ Put(Written(r, [g \in Cacheable(r) |-> Batch(r.offer.groups, g, r.gloss)]))
              /\ Goto(p, "answered")
         ELSE /\ Put(Written(r, <<Single(r.gloss)>>))
              /\ Goto(p, "store_batch")
    /\ UNCHANGED <<rest, free>>

\* The second put_cache of /translate: the row of a batch with this one text.
StoreBatch(p) ==
    /\ req[p].pc = "store_batch"
    /\ LET r == req[p] IN
       Put(Written(r, <<Batch(r.offer.groups, 1, r.gloss)>>))
    /\ Goto(p, "answered")
    /\ UNCHANGED <<rest, free>>

\* A write that fails is not fatal.
StoreFails(p) ==
    /\ req[p].pc \in {"store", "store_batch"}
    /\ Goto(p, "answered")
    /\ UNCHANGED <<rest, rows, free>>

----------------------------------------------------------------------------
(* /translate/stream                                                        *)

Provider(r) == Eligible(r)[r.by]

\* _acquire_upstream_slot, for a provider whose protocol streams.
Acquire(p) ==
    /\ req[p].pc = "stream" /\ Provider(req[p]).streams /\ free > 0
    /\ free' = free - 1
    /\ Goto(p, "streaming")
    /\ UNCHANGED <<rest, rows>>

\* The wait for a slot, or the budget, ends the stream.
QueueTimeout(p) ==
    /\ req[p].pc = "stream"
    /\ Goto(p, "failed")
    /\ UNCHANGED <<rest, rows, free>>

\* The next provider of the list, or an error event.
NextProvider(r, eligible) ==
    IF eligible /\ r.by < Len(Eligible(r)) THEN [r EXCEPT !.by = @ + 1, !.pc = "stream"]
    ELSE [r EXCEPT !.pc = "failed"]

\* A provider that does not stream answers once, or fails.
AnswerWhole(p) ==
    /\ req[p].pc = "stream" /\ ~Provider(req[p]).streams
    /\ Step(p, [req[p] EXCEPT !.pc = "complete", !.deltas = Append(req[p].deltas, Provider(req[p]))])
    /\ UNCHANGED <<rest, rows, free>>

WholeFails(p, eligible) ==
    /\ req[p].pc = "stream" /\ ~Provider(req[p]).streams
    /\ Step(p, NextProvider(req[p], eligible))
    /\ UNCHANGED <<rest, rows, free>>

Delta(p) ==
    /\ req[p].pc = "streaming" /\ Len(req[p].deltas) < MaxDeltas
    /\ Step(p, [req[p] EXCEPT !.deltas = Append(req[p].deltas, Provider(req[p]))])
    /\ UNCHANGED <<rest, rows, free>>

\* The provider ends its stream; without a delta the next provider has its turn.
EndOfStream(p) ==
    /\ req[p].pc = "streaming"
    /\ free' = free + 1
    /\ Step(p, IF req[p].deltas # <<>> THEN [req[p] EXCEPT !.pc = "complete"]
               ELSE NextProvider(req[p], TRUE))
    /\ UNCHANGED <<rest, rows>>

\* Variant: the next provider goes on after part of the text was sent.
FailsOver(p, eligible) ==
    /\ req[p].pc = "streaming"
    /\ free' = free + 1
    /\ Step(p, NextProvider(req[p], eligible))
    /\ UNCHANGED <<rest, rows>>

\* It fails: after a delta the stream is interrupted, before it the next one tries.
StreamFails(p, eligible) ==
    /\ req[p].pc = "streaming"
    /\ free' = free + 1
    /\ Step(p, NextProvider(req[p], eligible /\ req[p].deltas = <<>>))
    /\ UNCHANGED <<rest, rows>>

\* The generator has handed a delta to the client.
AtYield(r) == /\ r.deltas # <<>>
              /\ r.pc = "streaming" \/ (r.pc = "complete" /\ ~Provider(r).streams)

\* Variant: a generator that is closed at its yield keeps its slot.
DisconnectKeepsSlot(p) ==
    /\ AtYield(req[p])
    /\ Goto(p, "failed")
    /\ UNCHANGED <<rest, rows, free>>

(* The client goes away, or the text is larger than the response cap: the  *)
(* generator is closed at its yield, and its finally clause runs.          *)
Disconnect(p) ==
    /\ AtYield(req[p])
    /\ free' = IF req[p].pc = "streaming" THEN free + 1 ELSE free
    /\ Goto(p, "failed")
    /\ UNCHANGED <<rest, rows>>

\* The deltas are joined and stripped; a blank text is an error.
Joined(p, blank) ==
    /\ req[p].pc = "complete"
    /\ Step(p, IF blank THEN [req[p] EXCEPT !.pc = "failed"]
               ELSE [req[p] EXCEPT !.pc = "store", !.got[1] = [how |-> "fresh", items |->
                 <<Made(req[p], req[p].offer.groups[1][1],
                        req[p].deltas[Len(req[p].deltas)], Single(req[p].gloss))>>]])
    /\ UNCHANGED <<rest, rows, free>>

----------------------------------------------------------------------------
(* Around the requests                                                      *)

\* The answer is sent.
Finish(p) ==
    /\ req[p].pc \in {"answered", "failed"}
    /\ Step(p, Idle)
    /\ UNCHANGED <<rest, rows, free>>

\* PUT or DELETE of a glossary entry: other terms, or those of an earlier time.
EditGlossary(t, terms) ==
    /\ glossary[t] # terms
    /\ glossary' = [glossary EXCEPT ![t] = terms]
    /\ UNCHANGED <<generation, rows, req, free, arrived>>

\* A reconfigure replaces the process; the rows stay.
Restart ==
    /\ generation < Len(Deployments)
    /\ generation' = generation + 1
    /\ req' = [p \in Threads |-> Idle]
    /\ free' = Slots
    /\ UNCHANGED <<glossary, rows, arrived>>

Working(p) ==
    \/ Probe(p) \/ ProbeFails(p)
    \/ \E g \in DOMAIN req[p].got :
         \/ \E b \in 1 .. 2 : Translate(p, g, b)
         \/ Unavailable(p, g)
         \/ \E by \in [DOMAIN req[p].offer.groups[g] -> 0 .. 2] : Recover(p, g, by)
    \/ Exhausted(p) \/ Store(p) \/ StoreBatch(p) \/ StoreFails(p) \/ Finish(p)

Streaming(p) ==
    \/ Acquire(p) \/ QueueTimeout(p) \/ AnswerWhole(p) \/ Delta(p) \/ EndOfStream(p)
    \/ Disconnect(p)
    \/ \E eligible \in BOOLEAN : WholeFails(p, eligible) \/ StreamFails(p, eligible)
    \/ \E blank \in BOOLEAN : Joined(p, blank)

Next ==
    \/ \E p \in Threads :
         \/ \E o \in Offers, seen \in 1 .. generation \cup {None} :
              \E gloss \in {glossary[o.tenant], 0} : Arrive(p, o, seen, gloss)
         \/ Working(p) \/ Streaming(p)
    \/ \E t \in Tenants : \E terms \in Glossaries[t] : EditGlossary(t, terms)
    \/ Restart

Spec == Init /\ [][Next]_vars

----------------------------------------------------------------------------
(* Properties                                                               *)

Phases == {"idle", "probe", "work", "store", "store_batch", "stream", "streaming",
           "complete", "answered", "failed"}

(* Types.                                                                   *)
TypeOK ==
    /\ generation \in DOMAIN Deployments
    /\ \A t \in Tenants : glossary[t] \in Glossaries[t]
    /\ free \in 0 .. Slots
    /\ \A p \in Threads :
          /\ req[p].pc \in Phases /\ req[p].by \in 1 .. 2
          /\ req[p].pc = "probe" => req[p].probe \in DOMAIN Probes(req[p])
          /\ req[p].pc \in {"store", "store_batch", "answered"} => Missing(req[p]) = {}

\* A single translation is also filed as a batch of one text.
SamePrompt(m, scope) ==
    \/ m.prompt = scope.contract
    \/ /\ m.prompt = Single(scope.contract.gloss)
       /\ scope.contract = Batch(<<<<scope.text>>>>, 1, scope.contract.gloss)

(* Every row is what its scope says: a translation of this text, made for  *)
(* this tenant, by this provider with this model, under this prompt and    *)
(* glossary.  Nothing that a request meets between its probe and its write *)
(* (an edited glossary, another request's row, an envelope that had to be  *)
(* recovered, a fallback) files a translation under another scope.         *)
RowsTrue ==
    \A s \in DOMAIN rows :
        LET m == rows[s] IN
        /\ m.of = s.text /\ m.for = s.tenant
        /\ m.by.ns = s.ns /\ m.by.model = s.model
        /\ SamePrompt(m, s)

\* The translations that thread p is about to send.
Answer(p) ==
    IF req[p].pc # "answered" THEN {}
    ELSE {m \in UNION {{req[p].got[g].items[i] : i \in DOMAIN req[p].got[g].items} :
                         g \in DOMAIN req[p].got} : m # None}

(* What a request is sent, from the cache or fresh, was made for its       *)
(* tenant with the glossary it has read, by a provider and model of the    *)
(* running configuration; the work of a remote fallback is sent only to a  *)
(* request that consented.                                                 *)
AnswersAllowed ==
    \A p \in Threads : \A m \in Answer(p) :
        /\ m.for = req[p].offer.tenant /\ m.prompt.gloss = req[p].gloss
        /\ \E k \in DOMAIN Backends :
              m.by = Backends[k] /\ (k = 2 /\ m.by.remote => req[p].offer.consent)

(* "Every official-reader translation echoes that policy": a page that was *)
(* opened before the providers were replaced never gets the work of a      *)
(* provider whose locality it could not show to its user.                  *)
LocalityShown ==
    \A p \in Threads : \A m \in Answer(p) :
        req[p].seen # None =>
            \E k \in DOMAIN Deployments[req[p].seen] :
                m.by = Backends[k] /\ Deployments[req[p].seen][k].remote = m.by.remote

(* A stream speaks with one voice: all that its client receives, and what  *)
(* is filed afterwards, is one provider's text.                            *)
OneVoice ==
    \A p \in Threads :
        /\ \A i, j \in DOMAIN req[p].deltas : req[p].deltas[i] = req[p].deltas[j]
        /\ \A m \in Answer(p), i \in DOMAIN req[p].deltas : m.by = req[p].deltas[i]

(* The upstream slots are those that are free and one for every thread     *)
(* that streams: the finally clause of translate_text_stream gives a slot  *)
(* back however the stream ends, also when the client is gone and the      *)
(* generator is closed at its yield, or no later stream would start.       *)
SlotsReturned == free + Cardinality({p \in Threads : req[p].pc = "streaming"}) = Slots

(* "A translation served by the FALLBACK provider must be cached under the *)
(* fallback's model" (model_for_provider).                                 *)
FallbackModel == \A s \in DOMAIN rows : rows[s].by.model = s.model
=============================================================================
