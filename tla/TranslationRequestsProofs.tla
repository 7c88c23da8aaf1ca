----------------------- MODULE TranslationRequestsProofs -----------------------
(***************************************************************************)
(* Streams, rows and answers of the translation endpoints, for any number  *)
(* of threads, tenants, texts, glossaries and successive deployments.      *)
(***************************************************************************)
EXTENDS TranslationRequests, FiniteSetTheorems, TLAPS

----------------------------------------------------------------------------
(* The inductive invariant                                                 *)

\* The backends of every process have namespaces of their own: model_for_provider
\* tells them apart by the namespace alone.
OwnNamespaces == \A n \in DOMAIN Deployments :
    Len(Deployments[n]) = 2 => Deployments[n][1].ns # Deployments[n][2].ns

\* A row is what its scope says.
RowTrue(s, m) ==
    /\ m.of = s.text /\ m.for = s.tenant
    /\ m.by \in Providers /\ m.by.ns = s.ns /\ m.by.model = s.model
    /\ SamePrompt(m, s)

RowsOK == \A s \in DOMAIN rows : RowTrue(s, rows[s])

\* A translation that may be sent to the request.
Allowed(r, m) ==
    /\ m.for = r.offer.tenant /\ m.prompt.gloss = r.gloss
    /\ \E k \in DOMAIN Backends :
          m.by = Backends[k] /\ (k = 2 /\ m.by.remote => r.offer.consent)

\* A translation that may be filed under the contract of its group.
Filed(r, g, m) ==
    IF r.offer.kind = "batch" THEN m.prompt = Batch(r.offer.groups, g, r.gloss)
    ELSE m.prompt = Single(r.gloss) /\ r.offer.groups = <<<<m.of>>>>

Streams == {"stream", "streaming", "complete"}
Stored == {"store", "store_batch"}
Complete == Stored \cup {"answered"}

\* The translations of a group: how they were made, and what follows for them.
GroupOK(r, g) ==
    \A i \in DOMAIN r.got[g].items : r.got[g].items[i] # None =>
        /\ Allowed(r, r.got[g].items[i])
        /\ r.got[g].how = "fresh" => Filed(r, g, r.got[g].items[i])

GotOK(r) == \A g \in DOMAIN r.got : r.pc \in Complete \/ r.got[g] # None => GroupOK(r, g)

\* What _probe_many remembers was a row.
MemoOK(r) == \A s \in DOMAIN r.memo : r.memo[s] # None => RowTrue(s, r.memo[s])

Truthful(r) == GotOK(r) /\ MemoOK(r)

\* A request that is under way, at each point of its way.
Fields == {"pc", "offer", "seen", "gloss", "g", "probe", "memo", "got", "by", "deltas"}

Shape(r) ==
    /\ DOMAIN r = Fields
    /\ r.offer \in Offers /\ r.seen \in {None, generation}
    /\ r.offer.kind # "batch" => r.g = 1 /\ DOMAIN r.got = {1}

Path(r) ==
    /\ r.pc \in Phases \ {"idle", "failed"}
    /\ r.pc = "probe" => r.probe \in DOMAIN Probes(r)
    /\ r.pc \in Stored /\ r.offer.kind # "batch" => r.got[1].how = "fresh"
    /\ r.pc = "store_batch" => r.offer.kind # "batch"

Voice(r) ==
    /\ r.deltas \in Seq(Providers) /\ r.by \in DOMAIN Eligible(r)
    /\ r.pc \notin {"streaming", "complete"} \cup Complete => r.deltas = <<>>
    /\ r.pc \in Streams => r.offer.kind = "stream"
    /\ r.pc = "complete" => r.deltas # <<>>
    /\ \A i \in DOMAIN r.deltas : r.deltas[i] = Eligible(r)[r.by]
    /\ r.pc \in Complete /\ r.deltas # <<>> =>
          \A g \in DOMAIN r.got : \A i \in DOMAIN r.got[g].items :
              r.got[g].items[i].by = Eligible(r)[r.by]

Good(r) == Shape(r) /\ Path(r) /\ Voice(r)

Failed == [Idle EXCEPT !.pc = "failed"]

\* Whatever the namespaces of the backends are.
BInv ==
    /\ generation \in DOMAIN Deployments
    /\ DOMAIN req = Threads
    /\ \A p \in Threads : req[p] \in {Idle, Failed} \/ Good(req[p])

\* With namespaces of their own.
TInv == RowsOK /\ \A p \in Threads : Truthful(req[p])

----------------------------------------------------------------------------
(* Backends, contracts and probes                                          *)

LEMMA EligibleFacts ==
    ASSUME generation \in DOMAIN Deployments, NEW r, r.offer \in Offers
    PROVE  /\ Backends \in Seq(Providers) /\ Len(Backends) \in 1 .. 2
           /\ Eligible(r) \in Seq(Providers) /\ Len(Eligible(r)) \in 1 .. 2
           /\ \A j \in DOMAIN Eligible(r) :
                 /\ j \in DOMAIN Backends /\ Eligible(r)[j] = Backends[j]
                 /\ j = 2 /\ Backends[j].remote => r.offer.consent
<1>1. Backends \in Seq(Providers) /\ Len(Backends) \in 1 .. 2
  BY DeploymentsAssumption DEF Backends
<1>2. r.offer.consent \in BOOLEAN /\ \A j \in DOMAIN Backends : Backends[j].remote \in BOOLEAN
  BY <1>1, DeploymentsAssumption
<1>3. CASE Len(Backends) = 2 /\ Backends[2].remote /\ ~r.offer.consent
  <2>1. Eligible(r) = <<Backends[1]>> BY <1>3 DEF Eligible
  <2>2. Backends[1] \in Providers /\ 1 \in DOMAIN Backends BY <1>1
  <2> QED BY <1>1, <2>1, <2>2
<1>4. CASE ~(Len(Backends) = 2 /\ Backends[2].remote /\ ~r.offer.consent)
  <2>1. Eligible(r) = Backends BY <1>4 DEF Eligible
  <2>2. DOMAIN Backends = 1 .. Len(Backends) BY <1>1
  <2> QED BY <1>1, <1>2, <1>4, <2>1, <2>2
<1> QED BY <1>3, <1>4

LEMMA Glosses ==
    /\ \A gloss : Single(gloss).gloss = gloss
    /\ \A groups, g, gloss : Batch(groups, g, gloss).gloss = gloss
BY DEF Single, Batch

LEMMA ProbeFacts ==
    ASSUME generation \in DOMAIN Deployments, NEW r, r.offer \in Offers
    PROVE  /\ Len(Probes(r)) \in Nat /\ DOMAIN Probes(r) = 1 .. Len(Probes(r))
           /\ 1 \in DOMAIN Probes(r)
           /\ \A i \in DOMAIN Probes(r) :
                 /\ \E j \in DOMAIN Eligible(r) : Probes(r)[i].backend = Eligible(r)[j]
                 /\ Probes(r)[i].contract.gloss = r.gloss
<1> DEFINE b == Eligible(r)
           c == Contracts(r)
           m == Len(b)
           n == Len(c)
<1>1. m \in 1 .. 2 /\ DOMAIN b = 1 .. m BY EligibleFacts
<1>2. n \in 1 .. 2 /\ \A k \in 1 .. n : c[k].gloss = r.gloss
  BY Glosses DEF Contracts
<1>3. Probes(r) = [i \in 1 .. m * n |->
          IF r.offer.kind = "batch"
            THEN [backend |-> b[((i - 1) % m) + 1], contract |-> c[((i - 1) \div m) + 1]]
            ELSE [backend |-> b[((i - 1) \div n) + 1], contract |-> c[((i - 1) % n) + 1]]]
  BY DEF Probes
<1> HIDE DEF b, c, m, n
<1>4. ASSUME NEW i \in 1 .. m * n
      PROVE  /\ ((i - 1) % m) + 1 \in 1 .. m /\ ((i - 1) \div m) + 1 \in 1 .. n
             /\ ((i - 1) \div n) + 1 \in 1 .. m /\ ((i - 1) % n) + 1 \in 1 .. n
  <2>1. CASE m = 1 /\ n = 1 BY <2>1
  <2>2. CASE m = 1 /\ n = 2 BY <2>2
  <2>3. CASE m = 2 /\ n = 1 BY <2>3
  <2>4. CASE m = 2 /\ n = 2 BY <2>4
  <2> QED BY <1>1, <1>2, <2>1, <2>2, <2>3, <2>4
<1>5. m * n \in Nat /\ 1 \in 1 .. m * n
  <2>1. m \in {1, 2} /\ n \in {1, 2} BY <1>1, <1>2
  <2> QED BY <2>1
<1>6. ASSUME NEW i \in 1 .. m * n
      PROVE  /\ \E j \in DOMAIN b : Probes(r)[i].backend = b[j]
             /\ Probes(r)[i].contract.gloss = r.gloss
  <2> DEFINE v == Probes(r)[i]
  <2>1. CASE r.offer.kind = "batch"
    <3>1. v = [backend |-> b[((i - 1) % m) + 1], contract |-> c[((i - 1) \div m) + 1]]
      BY <1>3, <2>1
    <3>2. v.backend = b[((i - 1) % m) + 1] /\ v.contract = c[((i - 1) \div m) + 1] BY <3>1
    <3> QED BY <1>1, <1>2, <1>4, <3>2
  <2>2. CASE r.offer.kind # "batch"
    <3>1. v = [backend |-> b[((i - 1) \div n) + 1], contract |-> c[((i - 1) % n) + 1]]
      BY <1>3, <2>2
    <3>2. v.backend = b[((i - 1) \div n) + 1] /\ v.contract = c[((i - 1) % n) + 1] BY <3>1
    <3> QED BY <1>1, <1>2, <1>4, <3>2
  <2> QED BY <2>1, <2>2
<1>7. Len(Probes(r)) = m * n /\ DOMAIN Probes(r) = 1 .. m * n BY <1>3, <1>5
<1> QED BY <1>5, <1>6, <1>7 DEF b

\* The probes of a request are those of any request with its offer and terms.
LEMMA SameProbes ==
    ASSUME NEW r, NEW x, x.offer = r.offer
    PROVE  /\ Eligible(x) = Eligible(r)
           /\ x.g = r.g /\ x.gloss = r.gloss => Probes(x) = Probes(r)
<1>1. Eligible(x) = Eligible(r) BY DEF Eligible
<1>2. x.g = r.g /\ x.gloss = r.gloss => Contracts(x) = Contracts(r) BY DEF Contracts
<1> QED BY <1>1, <1>2 DEF Probes

\* model_for_provider, where it can tell the backends apart.
LEMMA ModelForFacts ==
    ASSUME OwnNamespaces, generation \in DOMAIN Deployments, NEW k \in DOMAIN Backends
    PROVE  Backends[k] \in Providers /\ ModelFor(Backends[k].ns) = Backends[k].model
<1>1. Backends \in Seq(Providers) /\ Len(Backends) \in 1 .. 2
  BY DeploymentsAssumption DEF Backends
<1>2. Len(Backends) = 2 => Backends[1].ns # Backends[2].ns BY DEF OwnNamespaces, Backends
<1>3. k = 1 \/ (k = 2 /\ Len(Backends) = 2) BY <1>1
<1> QED BY <1>1, <1>2, <1>3 DEF ModelFor

\* A row found under a backend that the request may use may be sent to it.
LEMMA HitAllowed ==
    ASSUME generation \in DOMAIN Deployments, NEW r, r.offer \in Offers,
           NEW i \in DOMAIN Probes(r), NEW text, NEW m,
           RowTrue(Scope(r, text, Probes(r)[i].backend.ns, Probes(r)[i].backend.model,
                         Probes(r)[i].contract), m)
    PROVE  Allowed(r, m)
<1> DEFINE b == Probes(r)[i].backend
           c == Probes(r)[i].contract
           s == Scope(r, text, b.ns, b.model, c)
<1>1. PICK j \in DOMAIN Eligible(r) : b = Eligible(r)[j] BY ProbeFacts
<1>2. c.gloss = r.gloss BY ProbeFacts
<1>3. /\ j \in DOMAIN Backends /\ b = Backends[j] /\ b \in Providers
      /\ j = 2 /\ Backends[j].remote => r.offer.consent
  <2>1. Eligible(r) \in Seq(Providers) BY EligibleFacts
  <2> QED BY <1>1, <2>1, EligibleFacts
<1> HIDE DEF b, c
<1>4. /\ m.for = r.offer.tenant /\ m.by \in Providers /\ m.by.ns = b.ns /\ m.by.model = b.model
      /\ m.prompt = c \/ m.prompt = Single(c.gloss)
  BY DEF b, c, RowTrue, Scope, SamePrompt
<1>5. m.by = b
  <2>1. /\ m.by = [ns |-> m.by.ns, model |-> m.by.model, remote |-> m.by.remote, streams |-> m.by.streams]
        /\ b = [ns |-> b.ns, model |-> b.model, remote |-> b.remote, streams |-> b.streams]
        /\ m.by.remote = b.remote /\ m.by.streams = b.streams
    BY <1>3, <1>4, DeploymentsAssumption
  <2> QED BY <1>4, <2>1
<1>6. m.prompt.gloss = r.gloss BY <1>2, <1>4, Glosses
<1> QED BY <1>3, <1>4, <1>5, <1>6 DEF Allowed

----------------------------------------------------------------------------
(* What a request becomes in one step                                      *)

\* A step from r to x keeps what the invariants say of the request.
Leads(r, x) ==
    \/ x.pc = "failed" \/ x = Idle
    \/ Good(x) /\ (RowsOK /\ Truthful(r) => Truthful(x))

\* The translations of a group that a step leaves alone.
LEMMA SameGroup ==
    ASSUME NEW r, NEW x, NEW g, x.offer = r.offer, x.gloss = r.gloss, x.got[g] = r.got[g],
           GroupOK(r, g)
    PROVE  GroupOK(x, g)
BY DEF GroupOK, Allowed, Filed

\* A step that leaves the translations alone.
LEMMA Moved ==
    ASSUME generation \in DOMAIN Deployments, NEW r, NEW x, Good(r), DOMAIN x = Fields,
           x.offer = r.offer, x.seen = r.seen, x.gloss = r.gloss, x.got = r.got,
           x.memo = r.memo \/ x.memo = <<>>, x.g = r.g \/ x.g = 1 \/ r.offer.kind = "batch",
           x.pc \in Complete => r.pc \in Complete \/ \A g \in DOMAIN r.got : r.got[g] # None
    PROVE  Shape(x) /\ (Truthful(r) => Truthful(x))
<1>1. Shape(x) BY DEF Good, Shape
<1>2. ASSUME Truthful(r) PROVE GotOK(x)
  <2> SUFFICES ASSUME NEW g \in DOMAIN r.got, x.pc \in Complete \/ r.got[g] # None
               PROVE  GroupOK(x, g)
    BY DEF GotOK
  <2>1. GroupOK(r, g) BY <1>2 DEF Truthful, GotOK
  <2> QED BY <2>1, SameGroup
<1>3. ASSUME Truthful(r) PROVE MemoOK(x) BY <1>3 DEF Truthful, MemoOK
<1> QED BY <1>1, <1>2, <1>3 DEF Truthful

LEMMA NextGroupLeads ==
    ASSUME generation \in DOMAIN Deployments, NEW r, Good(r), r.pc = "probe"
    PROVE  Good(NextGroup(r)) /\ (Truthful(r) => Truthful(NextGroup(r)))
<1> DEFINE x == NextGroup(r)
<1>1. DOMAIN r = Fields /\ r.offer \in Offers BY DEF Good, Shape
<1>2. r.deltas = <<>> /\ r.by \in DOMAIN Eligible(r) BY DEF Good, Voice, Complete, Stored
<1>3. CASE r.g < Len(r.offer.groups)
  <2>1. x = [r EXCEPT !.g = r.g + 1, !.probe = 1] BY <1>3 DEF NextGroup
  <2>2. /\ DOMAIN x = Fields /\ x.pc = "probe" /\ x.probe = 1 /\ x.offer = r.offer
        /\ x.seen = r.seen /\ x.gloss = r.gloss /\ x.got = r.got /\ x.memo = r.memo
        /\ x.by = r.by /\ x.deltas = <<>>
    BY <1>1, <1>2, <2>1 DEF Fields
  <2>3. r.offer.kind = "batch"
    <3> SUFFICES ASSUME r.offer.kind # "batch" PROVE FALSE OBVIOUS
    <3>1. r.g = 1 BY DEF Good, Shape
    <3>2. r.offer.groups = <<<<r.offer.groups[1][1]>>>> BY <1>1, DeploymentsAssumption
    <3>3. Len(r.offer.groups) = 1 BY <3>2
    <3> QED BY <1>3, <3>1, <3>3
  <2> HIDE DEF x
  <2>4. Shape(x) /\ (Truthful(r) => Truthful(x))
    BY <2>2, <2>3, Moved DEF Complete, Stored
  <2>5. Path(x) BY <1>1, <2>2, ProbeFacts DEF Path, Stored, Phases
  <2>6. Voice(x) BY <1>2, <2>2, SameProbes DEF Voice, Complete, Stored, Streams
  <2> QED BY <2>4, <2>5, <2>6 DEF x, Good
<1>4. CASE ~(r.g < Len(r.offer.groups))
  <2> DEFINE pc == IF \A g \in DOMAIN r.got : r.got[g] # None THEN "answered"
                   ELSE IF r.offer.kind = "stream" THEN "stream" ELSE "work"
  <2>1. x = [r EXCEPT !.pc = pc, !.g = 1, !.probe = 1, !.memo = <<>>] BY <1>4 DEF NextGroup
  <2>2. /\ DOMAIN x = Fields /\ x.pc = pc /\ x.g = 1 /\ x.offer = r.offer
        /\ x.seen = r.seen /\ x.gloss = r.gloss /\ x.got = r.got /\ x.memo = <<>>
        /\ x.by = r.by /\ x.deltas = <<>>
    BY <1>1, <1>2, <2>1 DEF Fields
  <2> HIDE DEF x
  <2>3. Shape(x) /\ (Truthful(r) => Truthful(x))
    BY <2>2, Moved DEF Complete, Stored
  <2>4. Path(x) BY <2>2 DEF Path, Stored, Phases
  <2>5. Voice(x) BY <1>2, <2>2, SameProbes DEF Voice, Complete, Stored, Streams
  <2> QED BY <2>3, <2>4, <2>5 DEF x, Good
<1> QED BY <1>3, <1>4

LEMMA NextProbeLeads ==
    ASSUME generation \in DOMAIN Deployments, NEW r, Good(r), r.pc = "probe"
    PROVE  Good(NextProbe(r)) /\ (Truthful(r) => Truthful(NextProbe(r)))
<1> DEFINE x == NextProbe(r)
<1>1. DOMAIN r = Fields /\ r.offer \in Offers BY DEF Good, Shape
<1>2. r.deltas = <<>> /\ r.by \in DOMAIN Eligible(r) BY DEF Good, Voice, Complete, Stored
<1>3. CASE r.probe < Len(Probes(r))
  <2>1. x = [r EXCEPT !.probe = r.probe + 1] BY <1>3 DEF NextProbe
  <2>2. /\ DOMAIN x = Fields /\ x.pc = "probe" /\ x.probe = r.probe + 1 /\ x.offer = r.offer
        /\ x.seen = r.seen /\ x.gloss = r.gloss /\ x.got = r.got /\ x.memo = r.memo
        /\ x.by = r.by /\ x.deltas = <<>> /\ x.g = r.g
    BY <1>1, <1>2, <2>1 DEF Fields
  <2> HIDE DEF x
  <2>3. Shape(x) /\ (Truthful(r) => Truthful(x))
    BY <2>2, Moved DEF Complete, Stored
  <2>4. x.probe \in DOMAIN Probes(x)
    <3>1. Probes(x) = Probes(r) BY <2>2, SameProbes
    <3>2. r.probe \in DOMAIN Probes(r) BY DEF Good, Path
    <3> QED BY <1>1, <1>3, <2>2, <3>1, <3>2, ProbeFacts
  <2>5. Path(x) BY <2>2, <2>4 DEF Path, Stored, Phases
  <2>6. Voice(x) BY <1>2, <2>2, SameProbes DEF Voice, Complete, Stored, Streams
  <2> QED BY <2>3, <2>5, <2>6 DEF x, Good
<1>4. CASE ~(r.probe < Len(Probes(r)))
  <2>1. x = NextGroup(r) BY <1>4 DEF NextProbe
  <2> QED BY <2>1, NextGroupLeads
<1> QED BY <1>3, <1>4

\* What a probe finds may be sent, and what it remembers was a row.
LEMMA FoundFacts ==
    ASSUME generation \in DOMAIN Deployments, NEW r, Good(r), r.pc = "probe",
           RowsOK, MemoOK(r)
    PROVE  /\ \A i \in DOMAIN Found(r) : Found(r)[i].hit # None => Allowed(r, Found(r)[i].hit)
           /\ \A s \in DOMAIN Remember(r, Found(r)) :
                 Remember(r, Found(r))[s] # None => RowTrue(s, Remember(r, Found(r))[s])
<1> DEFINE b == Probes(r)[r.probe].backend
           c == Probes(r)[r.probe].contract
           Value(s) == IF s \in DOMAIN r.memo THEN r.memo[s] ELSE Lookup(s)
<1>1. ASSUME NEW s, Value(s) # None PROVE RowTrue(s, Value(s))
  BY <1>1 DEF MemoOK, RowsOK, Lookup
<1>2. ASSUME NEW i \in DOMAIN Found(r), Found(r)[i].hit # None
      PROVE  Allowed(r, Found(r)[i].hit)
  <2> DEFINE s == Scope(r, r.offer.groups[r.g][i], b.ns, b.model, c)
  <2>1. Found(r)[i] = [scope |-> s, hit |-> Value(s)] BY DEF Found
  <2>2. Found(r)[i].hit = Value(s) BY <2>1
  <2>3. RowTrue(s, Value(s)) BY <1>1, <1>2, <2>2
  <2>4. r.offer \in Offers /\ r.probe \in DOMAIN Probes(r) BY DEF Good, Shape, Path
  <2> HIDE DEF Value
  <2>5. Allowed(r, Value(s)) BY <2>3, <2>4, HitAllowed
  <2> QED BY <2>2, <2>5
<1>3. ASSUME NEW s \in DOMAIN Remember(r, Found(r)), Remember(r, Found(r))[s] # None
      PROVE  RowTrue(s, Remember(r, Found(r))[s])
  <2>1. CASE r.offer.kind # "batch" BY <1>3, <2>1 DEF Remember
  <2>2. CASE r.offer.kind = "batch"
    <3>1. Remember(r, Found(r))[s] = Value(s) BY <1>3, <2>2 DEF Remember
    <3> QED BY <1>1, <1>3, <3>1
  <2> QED BY <2>1, <2>2
<1> QED BY <1>2, <1>3

LEMMA ProbeLeads ==
    ASSUME generation \in DOMAIN Deployments, NEW r, Good(r), r.pc = "probe",
           NEW memo, NEW got,
           got = r.got \/ got = [r.got EXCEPT ![r.g] =
                    [how |-> "cache", items |-> [i \in DOMAIN Found(r) |-> Found(r)[i].hit]]]
    PROVE  LET x == [r EXCEPT !.memo = memo, !.got = got] IN
           /\ Good(x) /\ x.pc = "probe"
           /\ memo = Remember(r, Found(r)) /\ RowsOK /\ Truthful(r) => Truthful(x)
<1> DEFINE x == [r EXCEPT !.memo = memo, !.got = got]
<1>1. DOMAIN r = Fields /\ r.offer \in Offers BY DEF Good, Shape
<1>2. r.deltas = <<>> /\ r.by \in DOMAIN Eligible(r) BY DEF Good, Voice, Complete, Stored
<1>3. /\ DOMAIN x = Fields /\ x.pc = "probe" /\ x.probe = r.probe /\ x.offer = r.offer
      /\ x.seen = r.seen /\ x.gloss = r.gloss /\ x.got = got /\ x.memo = memo
      /\ x.by = r.by /\ x.deltas = <<>> /\ x.g = r.g
  BY <1>1, <1>2 DEF Fields
<1> HIDE DEF x
<1>4. DOMAIN got = DOMAIN r.got OBVIOUS
<1>5. Shape(x) BY <1>3, <1>4 DEF Good, Shape
<1>6. Path(x) BY <1>3, SameProbes DEF Good, Path, Stored, Phases
<1>7. Voice(x) BY <1>2, <1>3, SameProbes DEF Voice, Complete, Stored, Streams
<1>8. ASSUME memo = Remember(r, Found(r)), RowsOK, Truthful(r) PROVE Truthful(x)
  <2>1. MemoOK(r) BY <1>8 DEF Truthful
  <2>2. MemoOK(x) BY <1>3, <1>8, <2>1, FoundFacts DEF MemoOK
  <2>3. ASSUME NEW g \in DOMAIN got, got[g] # None PROVE GroupOK(x, g)
    <3>1. CASE got[g] = r.got[g]
      <4>1. GroupOK(r, g) BY <1>4, <1>8, <2>3, <3>1 DEF Truthful, GotOK
      <4> QED BY <1>3, <3>1, <4>1, SameGroup
    <3>2. CASE got[g] # r.got[g]
      <4> DEFINE new == [how |-> "cache", items |-> [i \in DOMAIN Found(r) |-> Found(r)[i].hit]]
      <4>1. got[g] = new BY <1>4, <3>2
      <4>2. new.how = "cache" /\ DOMAIN new.items = DOMAIN Found(r)
        OBVIOUS
      <4>3. ASSUME NEW i \in DOMAIN new.items, new.items[i] # None PROVE Allowed(r, new.items[i])
        BY <1>8, <2>1, <4>3, FoundFacts
      <4> HIDE DEF new
      <4>4. ASSUME NEW i \in DOMAIN new.items, new.items[i] # None PROVE Allowed(x, new.items[i])
        BY <1>3, <4>3, <4>4 DEF Allowed
      <4> QED BY <1>3, <4>1, <4>2, <4>4 DEF GroupOK
    <3> QED BY <3>1, <3>2
  <2>4. GotOK(x) BY <1>3, <2>3 DEF GotOK, Complete, Stored
  <2> QED BY <2>2, <2>4 DEF Truthful
<1> QED BY <1>3, <1>5, <1>6, <1>7, <1>8 DEF x, Good

\* A translation that a provider of the request has made may be sent to it.
LEMMA MadeAllowed ==
    ASSUME generation \in DOMAIN Deployments, NEW r, r.offer \in Offers,
           NEW j \in DOMAIN Eligible(r), NEW text, NEW prompt, prompt.gloss = r.gloss
    PROVE  /\ Allowed(r, Made(r, text, Eligible(r)[j], prompt))
           /\ Made(r, text, Eligible(r)[j], prompt).of = text
           /\ Made(r, text, Eligible(r)[j], prompt).by = Eligible(r)[j]
           /\ Made(r, text, Eligible(r)[j], prompt).prompt = prompt
<1> DEFINE m == Made(r, text, Eligible(r)[j], prompt)
<1>1. /\ m.of = text /\ m.for = r.offer.tenant /\ m.by = Eligible(r)[j] /\ m.prompt = prompt
  BY DEF Made
<1> HIDE DEF m
<1>2. /\ j \in DOMAIN Backends /\ m.by = Backends[j]
      /\ j = 2 /\ Backends[j].remote => r.offer.consent
  BY <1>1, EligibleFacts
<1> QED BY <1>1, <1>2 DEF Allowed, m

\* The groups of a request for one text.
LEMMA OneText ==
    ASSUME NEW r, r.offer \in Offers, r.offer.kind # "batch"
    PROVE  /\ r.offer.groups = <<<<r.offer.groups[1][1]>>>>
           /\ DOMAIN r.offer.groups = {1} /\ DOMAIN r.offer.groups[1] = {1}
<1>1. r.offer.groups = <<<<r.offer.groups[1][1]>>>> BY DeploymentsAssumption
<1> DEFINE t == r.offer.groups[1][1]
           o == r.offer.groups
<1>2. o = <<<<t>>>> BY <1>1
<1> HIDE DEF t, o
<1>3. DOMAIN o = {1} /\ DOMAIN o[1] = {1} BY <1>2
<1> QED BY <1>1, <1>3 DEF o

\* A group has been worked on, with what may be sent and filed.
LEMMA WorkedLeads ==
    ASSUME generation \in DOMAIN Deployments, NEW r, Good(r), r.pc = "work",
           NEW g \in DOMAIN r.got, NEW new,
           r.offer.kind # "batch" => new.how = "fresh",
           \A i \in DOMAIN new.items : new.items[i] # None =>
               /\ Allowed(r, new.items[i])
               /\ new.how = "fresh" => Filed(r, g, new.items[i])
    PROVE  LET x == Worked([r EXCEPT !.got[g] = new]) IN
           Good(x) /\ (Truthful(r) => Truthful(x))
<1> DEFINE y == [r EXCEPT !.got[g] = new]
           x == Worked(y)
<1>1. DOMAIN r = Fields /\ r.offer \in Offers BY DEF Good, Shape
<1>2. r.deltas = <<>> /\ r.by \in DOMAIN Eligible(r) BY DEF Good, Voice, Complete, Stored
<1>3. /\ DOMAIN y = Fields /\ y.pc = "work" /\ y.got = [r.got EXCEPT ![g] = new]
      /\ y.offer = r.offer /\ y.seen = r.seen /\ y.gloss = r.gloss /\ y.g = r.g
      /\ y.memo = r.memo /\ y.by = r.by /\ y.deltas = <<>>
  BY <1>1, <1>2 DEF Fields
<1> HIDE DEF y
<1>4. /\ DOMAIN x = Fields /\ x.got = y.got /\ x.offer = r.offer /\ x.seen = r.seen
      /\ x.gloss = r.gloss /\ x.g = r.g /\ x.memo = r.memo /\ x.by = r.by /\ x.deltas = <<>>
      /\ x.pc = "work" \/ (x.pc = "store" /\ Missing(y) = {})
  BY <1>3 DEF Worked, Fields
<1> HIDE DEF x
<1>5. /\ DOMAIN x.got = DOMAIN r.got /\ x.got[g] = new
      /\ \A h \in DOMAIN r.got : h # g => x.got[h] = r.got[h]
  BY <1>3, <1>4
<1>6. Shape(x) BY <1>4, <1>5 DEF Good, Shape
<1>7. Path(x) BY <1>4, <1>5 DEF Good, Shape, Path, Stored, Phases
<1>8. Voice(x) BY <1>2, <1>4, SameProbes DEF Voice, Complete, Stored, Streams
<1>9. ASSUME Truthful(r) PROVE Truthful(x)
  <2>1. ASSUME NEW h \in DOMAIN r.got, x.pc \in Complete \/ x.got[h] # None
        PROVE  GroupOK(x, h)
    <3>1. CASE h = g
      BY <1>4, <1>5, <3>1 DEF GroupOK, Allowed, Filed
    <3>2. CASE h # g
      <4>1. r.got[h] # None BY <1>3, <1>4, <1>5, <2>1, <3>2 DEF Missing, Complete, Stored
      <4>2. GroupOK(r, h) BY <1>9, <4>1 DEF Truthful, GotOK
      <4> QED BY <1>4, <1>5, <3>2, <4>2, SameGroup
    <3> QED BY <3>1, <3>2
  <2>2. GotOK(x) BY <1>5, <2>1 DEF GotOK
  <2>3. MemoOK(x) BY <1>4, <1>9 DEF Truthful, MemoOK
  <2> QED BY <2>2, <2>3 DEF Truthful
<1> QED BY <1>6, <1>7, <1>8, <1>9 DEF x, y, Good

LEMMA NextProviderLeads ==
    ASSUME generation \in DOMAIN Deployments, NEW r, Good(r), r.pc \in {"stream", "streaming"},
           NEW eligible \in BOOLEAN, eligible => r.deltas = <<>>
    PROVE  Leads(r, NextProvider(r, eligible))
<1> DEFINE x == NextProvider(r, eligible)
<1>1. DOMAIN r = Fields /\ r.offer \in Offers /\ r.by \in DOMAIN Eligible(r) /\ r.offer.kind = "stream"
  BY DEF Good, Shape, Voice, Streams
<1>2. CASE eligible /\ r.by < Len(Eligible(r))
  <2>1. x = [r EXCEPT !.by = r.by + 1, !.pc = "stream"] BY <1>2 DEF NextProvider
  <2>2. /\ DOMAIN x = Fields /\ x.pc = "stream" /\ x.by = r.by + 1 /\ x.offer = r.offer
        /\ x.seen = r.seen /\ x.gloss = r.gloss /\ x.got = r.got /\ x.memo = r.memo
        /\ x.g = r.g /\ x.deltas = <<>>
    BY <1>1, <1>2, <2>1 DEF Fields
  <2> HIDE DEF x
  <2>3. Shape(x) /\ (Truthful(r) => Truthful(x)) BY <2>2, Moved DEF Complete, Stored
  <2>4. Path(x) BY <2>2 DEF Path, Stored, Phases
  <2>5. x.by \in DOMAIN Eligible(x)
    <3>1. Eligible(x) = Eligible(r) BY <2>2, SameProbes
    <3>2. DOMAIN Eligible(r) = 1 .. Len(Eligible(r)) /\ Len(Eligible(r)) \in Nat
      BY <1>1, EligibleFacts
    <3> QED BY <1>1, <1>2, <2>2, <3>1, <3>2
  <2>6. Voice(x) BY <1>1, <2>2, <2>5 DEF Voice, Complete, Stored, Streams
  <2> QED BY <2>3, <2>4, <2>6 DEF x, Good, Leads
<1>3. CASE ~(eligible /\ r.by < Len(Eligible(r)))
  <2>1. x = [r EXCEPT !.pc = "failed"] BY <1>3 DEF NextProvider
  <2>2. x.pc = "failed" BY <1>1, <2>1 DEF Fields
  <2> QED BY <2>2 DEF Leads
<1> QED BY <1>2, <1>3

----------------------------------------------------------------------------
(* The actions of a thread                                                 *)

Goes(p) == \E x : Step(p, x) /\ Leads(req[p], x)

\* A phase in which a thread is only when its request is good.
LEMMA UnderWay ==
    ASSUME BInv, NEW p \in Threads, req[p].pc \notin {"idle", "failed"}
    PROVE  Good(req[p])
BY DEF BInv, Idle, Failed

LEMMA Fails ==
    ASSUME BInv, NEW p \in Threads, req[p].pc \notin {"idle", "failed"}, Goto(p, "failed")
    PROVE  Goes(p)
<1>1. Step(p, [req[p] EXCEPT !.pc = "failed"]) BY DEF Goto
<1>2. [req[p] EXCEPT !.pc = "failed"].pc = "failed"
  BY UnderWay DEF Good, Shape, Fields
<1> QED BY <1>1, <1>2 DEF Goes, Leads

LEMMA ProbeGoes ==
    ASSUME BInv, NEW p \in Threads, Probe(p)
    PROVE  Goes(p)
<1> DEFINE r == req[p]
           found == Found(r)
           new == [how |-> "cache", items |-> [i \in DOMAIN found |-> found[i].hit]]
           y == [r EXCEPT !.memo = Remember(r, found)]
           z == [r EXCEPT !.memo = Remember(r, found), !.got = [r.got EXCEPT ![r.g] = new]]
<1>1. Good(r) /\ r.pc = "probe" /\ generation \in DOMAIN Deployments
  BY UnderWay DEF Probe, BInv
<1>2. DOMAIN r = Fields BY <1>1 DEF Good, Shape
<1>3. Step(p, IF Accept(found) THEN NextGroup([y EXCEPT !.got[y.g] = new]) ELSE NextProbe(y))
  BY DEF Probe
<1>4. [y EXCEPT !.got[y.g] = new] = z BY <1>2 DEF Fields
<1>5. y = [r EXCEPT !.memo = Remember(r, found), !.got = r.got] BY <1>2 DEF Fields
<1> HIDE DEF r, y, z
<1>6. /\ Good(y) /\ y.pc = "probe" /\ (RowsOK /\ Truthful(r) => Truthful(y))
  <2> DEFINE w == [r EXCEPT !.memo = Remember(r, found), !.got = r.got]
  <2>1. Good(w) /\ w.pc = "probe" /\ (RowsOK /\ Truthful(r) => Truthful(w))
    BY <1>1, ProbeLeads
  <2>2. y = w BY <1>5
  <2> HIDE DEF w
  <2> QED BY <2>1, <2>2
<1>7. /\ Good(z) /\ z.pc = "probe" /\ (RowsOK /\ Truthful(r) => Truthful(z))
  BY <1>1, ProbeLeads DEF z
<1>8. CASE Accept(found)
  <2>1. Step(p, NextGroup(z)) BY <1>3, <1>4, <1>8
  <2>2. Leads(r, NextGroup(z)) BY <1>1, <1>7, NextGroupLeads DEF Leads
  <2> QED BY <2>1, <2>2 DEF Goes, r
<1>9. CASE ~Accept(found)
  <2>1. Step(p, NextProbe(y)) BY <1>3, <1>9
  <2>2. Leads(r, NextProbe(y)) BY <1>1, <1>6, NextProbeLeads DEF Leads
  <2> QED BY <2>1, <2>2 DEF Goes, r
<1> QED BY <1>8, <1>9

LEMMA ProbeFailsGoes ==
    ASSUME BInv, NEW p \in Threads, ProbeFails(p)
    PROVE  Goes(p)
<1>1. Good(req[p]) /\ req[p].pc = "probe" /\ generation \in DOMAIN Deployments
  BY UnderWay DEF ProbeFails, BInv
<1>2. CASE req[p].offer.kind = "batch"
  BY <1>1, <1>2, Fails DEF ProbeFails, Goto
<1>3. CASE req[p].offer.kind # "batch"
  <2>1. Step(p, NextProbe(req[p])) BY <1>3 DEF ProbeFails
  <2>2. Leads(req[p], NextProbe(req[p])) BY <1>1, NextProbeLeads DEF Leads
  <2> QED BY <2>1, <2>2 DEF Goes
<1> QED BY <1>2, <1>3

LEMMA TranslateGoes ==
    ASSUME BInv, NEW p \in Threads, NEW g, NEW b, Translate(p, g, b)
    PROVE  Goes(p)
<1> DEFINE r == req[p]
           prompt == IF r.offer.kind = "batch" THEN Batch(r.offer.groups, g, r.gloss)
                     ELSE Single(r.gloss)
           text(i) == r.offer.groups[g][i]
           new == [how |-> "fresh", items |-> [i \in DOMAIN r.offer.groups[g] |->
                      Made(r, text(i), Eligible(r)[b], prompt)]]
           x == Worked([r EXCEPT !.got[g] = new])
<1>1. /\ Good(r) /\ r.pc = "work" /\ generation \in DOMAIN Deployments
      /\ g \in DOMAIN r.got /\ b \in DOMAIN Eligible(r) /\ r.offer \in Offers
      /\ r.offer.kind # "batch" => g = 1
  BY UnderWay DEF Translate, BInv, Turn, Missing, Good, Shape
<1>2. Step(p, x) BY DEF Translate
<1>3. prompt.gloss = r.gloss BY Glosses
<1> HIDE DEF r
<1>4. ASSUME NEW i \in DOMAIN r.offer.groups[g]
      PROVE  /\ Allowed(r, Made(r, text(i), Eligible(r)[b], prompt))
             /\ Filed(r, g, Made(r, text(i), Eligible(r)[b], prompt))
  <2> DEFINE m == Made(r, text(i), Eligible(r)[b], prompt)
  <2> HIDE DEF text, prompt
  <2>1. Allowed(r, m) /\ m.of = text(i) /\ m.prompt = prompt
    BY <1>1, <1>3, MadeAllowed
  <2> HIDE DEF m
  <2>2. ASSUME r.offer.kind = "batch" PROVE Filed(r, g, m)
    BY <2>1, <2>2 DEF Filed, prompt
  <2>3. ASSUME r.offer.kind # "batch" PROVE Filed(r, g, m)
    <3>1. g = 1 /\ i = 1 /\ r.offer.groups = <<<<text(i)>>>>
      BY <1>1, <2>3, OneText DEF text
    <3> QED BY <2>1, <2>3, <3>1 DEF Filed, prompt
  <2> QED BY <2>1, <2>2, <2>3 DEF m
<1>5. new.how = "fresh" /\ DOMAIN new.items = DOMAIN r.offer.groups[g]
      /\ \A i \in DOMAIN new.items : new.items[i] = Made(r, text(i), Eligible(r)[b], prompt)
  OBVIOUS
<1> HIDE DEF new, text, prompt
<1>6. Leads(r, x) BY <1>1, <1>4, <1>5, WorkedLeads DEF Leads
<1> QED BY <1>2, <1>6 DEF Goes, r

LEMMA RecoverGoes ==
    ASSUME BInv, NEW p \in Threads, NEW g, NEW by, Recover(p, g, by)
    PROVE  Goes(p)
<1> DEFINE r == req[p]
           item(i) == IF by[i] = 0 THEN None
                      ELSE Made(r, r.offer.groups[g][i], Eligible(r)[by[i]], Single(r.gloss))
           new == [how |-> "recovered", items |-> [i \in DOMAIN r.offer.groups[g] |-> item(i)]]
           x == Worked([r EXCEPT !.got[g] = new])
<1>1. /\ Good(r) /\ r.pc = "work" /\ generation \in DOMAIN Deployments
      /\ g \in DOMAIN r.got /\ r.offer \in Offers /\ r.offer.kind = "batch"
      /\ by \in [DOMAIN r.offer.groups[g] -> {0} \cup DOMAIN Eligible(r)]
  BY UnderWay DEF Recover, BInv, Turn, Missing, Good, Shape
<1>2. Step(p, x) BY DEF Recover
<1> HIDE DEF r
<1>3. ASSUME NEW i \in DOMAIN r.offer.groups[g], item(i) # None
      PROVE  Allowed(r, item(i))
  <2>1. by[i] # 0 /\ by[i] \in DOMAIN Eligible(r) BY <1>1, <1>3
  <2> QED BY <1>1, <2>1, Glosses, MadeAllowed
<1>4. new.how = "recovered" /\ DOMAIN new.items = DOMAIN r.offer.groups[g]
      /\ \A i \in DOMAIN new.items : new.items[i] = item(i)
  OBVIOUS
<1> HIDE DEF new, item
<1>5. \A i \in DOMAIN new.items : new.items[i] # None => Allowed(r, new.items[i])
  BY <1>3, <1>4
<1>6. Leads(r, x) BY <1>1, <1>4, <1>5, WorkedLeads DEF Leads
<1> QED BY <1>2, <1>6 DEF Goes, r

LEMMA UnavailableGoes ==
    ASSUME BInv, NEW p \in Threads, NEW g, Unavailable(p, g)
    PROVE  Goes(p)
<1> DEFINE r == req[p]
           new == [how |-> "recovered", items |-> [i \in DOMAIN r.offer.groups[g] |-> None]]
           x == Worked([r EXCEPT !.got[g] = new])
<1>1. /\ Good(r) /\ r.pc = "work" /\ generation \in DOMAIN Deployments /\ g \in DOMAIN r.got
  BY UnderWay DEF Unavailable, BInv, Turn, Missing
<1>2. CASE r.offer.kind = "batch"
  <2>1. Step(p, x) BY <1>2 DEF Unavailable
  <2>2. new.how = "recovered" /\ \A i \in DOMAIN new.items : new.items[i] = None OBVIOUS
  <2> HIDE DEF new, r
  <2>3. Leads(r, x) BY <1>1, <1>2, <2>2, WorkedLeads DEF Leads
  <2> QED BY <2>1, <2>3 DEF Goes, r
<1>3. CASE r.offer.kind # "batch"
  BY <1>1, <1>3, Fails DEF Unavailable, Goto
<1> QED BY <1>2, <1>3

\* A step that only moves a thread whose translations are complete.
LEMMA StoredGoes ==
    ASSUME BInv, NEW p \in Threads, req[p].pc \in Stored, NEW pc,
           pc = "answered" \/ (pc = "store_batch" /\ req[p].offer.kind # "batch"),
           Goto(p, pc)
    PROVE  Goes(p)
<1> DEFINE r == req[p]
           x == [r EXCEPT !.pc = pc]
<1>1. Good(r) /\ generation \in DOMAIN Deployments BY UnderWay DEF BInv, Stored
<1>2. DOMAIN r = Fields BY <1>1 DEF Good, Shape
<1>3. Step(p, x) BY DEF Goto
<1>4. /\ DOMAIN x = Fields /\ x.pc = pc /\ x.offer = r.offer /\ x.seen = r.seen
      /\ x.gloss = r.gloss /\ x.got = r.got /\ x.memo = r.memo /\ x.g = r.g
      /\ x.by = r.by /\ x.deltas = r.deltas
  BY <1>2 DEF Fields
<1> HIDE DEF r, x
<1>5. r.pc \in Stored BY DEF r
<1>6. pc = "answered" \/ (pc = "store_batch" /\ r.offer.kind # "batch") BY DEF r
<1>7. Shape(x) /\ (Truthful(r) => Truthful(x))
  BY <1>1, <1>4, <1>5, Moved DEF Complete
<1>8. Path(x) BY <1>1, <1>4, <1>5, <1>6 DEF Good, Path, Stored, Phases
<1>9. Voice(x)
  <2>1. Eligible(x) = Eligible(r) BY <1>4, SameProbes
  <2> QED BY <1>1, <1>4, <1>5, <1>6, <2>1 DEF Good, Voice, Stored, Complete, Streams
<1>10. Leads(r, x) BY <1>7, <1>8, <1>9 DEF Leads, Good
<1> QED BY <1>3, <1>10 DEF Goes, r

\* A step along a stream: from r, with the deltas that are given.
LEMMA StreamLeads ==
    ASSUME generation \in DOMAIN Deployments, NEW r, Good(r), r.pc \in {"stream", "streaming"},
           NEW pc \in {"streaming", "complete"}, NEW deltas,
           deltas = r.deltas \/ deltas = Append(r.deltas, Provider(r)),
           pc = "complete" => deltas # <<>>
    PROVE  Leads(r, [r EXCEPT !.pc = pc, !.deltas = deltas])
<1> DEFINE x == [r EXCEPT !.pc = pc, !.deltas = deltas]
<1>1. /\ DOMAIN r = Fields /\ r.offer \in Offers /\ r.by \in DOMAIN Eligible(r)
      /\ r.offer.kind = "stream" /\ r.deltas \in Seq(Providers)
  BY DEF Good, Shape, Voice, Streams
<1>2. /\ DOMAIN x = Fields /\ x.pc = pc /\ x.offer = r.offer /\ x.seen = r.seen
      /\ x.gloss = r.gloss /\ x.got = r.got /\ x.memo = r.memo /\ x.g = r.g
      /\ x.by = r.by /\ x.deltas = deltas
  BY <1>1 DEF Fields
<1> HIDE DEF x
<1>3. Shape(x) /\ (Truthful(r) => Truthful(x)) BY <1>2, Moved DEF Complete, Stored
<1>4. Path(x) BY <1>2 DEF Path, Stored, Phases
<1>5. Eligible(x) = Eligible(r) BY <1>2, SameProbes
<1>6. Provider(r) = Eligible(r)[r.by] /\ Provider(r) \in Providers
  BY <1>1, EligibleFacts DEF Provider
<1>7. \A i \in DOMAIN r.deltas : r.deltas[i] = Eligible(r)[r.by] BY DEF Good, Voice
<1>8. /\ deltas \in Seq(Providers)
      /\ \A i \in DOMAIN deltas : deltas[i] = Eligible(r)[r.by]
  <2>1. CASE deltas = r.deltas BY <1>1, <1>7, <2>1
  <2>2. CASE deltas = Append(r.deltas, Provider(r))
    <3>1. PICK d : d = r.deltas OBVIOUS
    <3>2. PICK v : v = Provider(r) OBVIOUS
    <3>3. d \in Seq(Providers) /\ v \in Providers /\ \A i \in DOMAIN d : d[i] = v
      BY <1>1, <1>6, <1>7, <3>1, <3>2
    <3>4. deltas = Append(d, v) BY <2>2, <3>1, <3>2
    <3>5. deltas \in Seq(Providers) /\ \A i \in DOMAIN deltas : deltas[i] = v
      BY <3>3, <3>4
    <3> QED BY <1>6, <3>2, <3>5
  <2> QED BY <2>1, <2>2
<1>9. Voice(x)
  BY <1>1, <1>2, <1>5, <1>8 DEF Voice, Complete, Stored, Streams
<1> QED BY <1>3, <1>4, <1>9 DEF Leads, Good, x

LEMMA JoinedGoes ==
    ASSUME BInv, NEW p \in Threads, NEW blank \in BOOLEAN, Joined(p, blank)
    PROVE  Goes(p)
<1> DEFINE r == req[p]
           m == Made(r, r.offer.groups[1][1], r.deltas[Len(r.deltas)], Single(r.gloss))
           new == [how |-> "fresh", items |-> <<m>>]
           x == [r EXCEPT !.pc = "store", !.got[1] = new]
<1>1. Good(r) /\ r.pc = "complete" /\ generation \in DOMAIN Deployments
  BY UnderWay DEF Joined, BInv
<1>2. /\ DOMAIN r = Fields /\ r.offer \in Offers /\ r.offer.kind = "stream"
      /\ r.by \in DOMAIN Eligible(r) /\ DOMAIN r.got = {1}
      /\ r.deltas \in Seq(Providers) /\ r.deltas # <<>>
      /\ \A i \in DOMAIN r.deltas : r.deltas[i] = Eligible(r)[r.by]
  BY <1>1 DEF Good, Shape, Voice, Streams
<1>3. CASE blank
  BY <1>1, <1>3, Fails DEF Joined, Goto
<1>4. CASE ~blank
  <2>1. Step(p, x) BY <1>4 DEF Joined
  <2>2. r.deltas[Len(r.deltas)] = Eligible(r)[r.by]
    <3>1. Len(r.deltas) \in DOMAIN r.deltas BY <1>2
    <3> QED BY <1>2, <3>1
  <2>3. /\ DOMAIN x = Fields /\ x.pc = "store" /\ x.got = [r.got EXCEPT ![1] = new]
        /\ x.offer = r.offer /\ x.seen = r.seen /\ x.gloss = r.gloss /\ x.memo = r.memo
        /\ x.g = r.g /\ x.by = r.by /\ x.deltas = r.deltas
    BY <1>2 DEF Fields
  <2> HIDE DEF r, x
  <2>4. Allowed(r, m) /\ m.by = Eligible(r)[r.by] /\ m.prompt = Single(r.gloss)
        /\ m.of = r.offer.groups[1][1]
    BY <1>1, <1>2, <2>2, Glosses, MadeAllowed
  <2>5. Filed(r, 1, m) BY <1>2, <2>4, OneText DEF Filed
  <2> HIDE DEF m
  <2>6. new.how = "fresh" /\ DOMAIN new.items = {1} /\ new.items[1] = m OBVIOUS
  <2> HIDE DEF new
  <2>7. DOMAIN x.got = {1} /\ x.got[1] = new BY <1>2, <2>3
  <2>8. Shape(x) BY <1>1, <2>3, <2>7 DEF Good, Shape
  <2>9. Path(x) BY <2>3, <2>6, <2>7 DEF Path, Stored, Phases
  <2>10. Voice(x)
    <3>1. Eligible(x) = Eligible(r) BY <2>3, SameProbes
    <3>2. \A g \in DOMAIN x.got : \A i \in DOMAIN x.got[g].items :
             x.got[g].items[i].by = Eligible(r)[r.by]
      BY <2>4, <2>6, <2>7
    <3> QED BY <1>2, <2>3, <3>1, <3>2 DEF Voice, Complete, Stored, Streams
  <2>11. ASSUME Truthful(r) PROVE Truthful(x)
    <3>1. Allowed(x, m) /\ Filed(x, 1, m) BY <2>3, <2>4, <2>5 DEF Allowed, Filed
    <3>2. GroupOK(x, 1) BY <2>6, <2>7, <3>1 DEF GroupOK
    <3>3. GotOK(x) BY <2>7, <3>2 DEF GotOK
    <3>4. MemoOK(x) BY <2>3, <2>11 DEF Truthful, MemoOK
    <3> QED BY <3>3, <3>4 DEF Truthful
  <2>12. Leads(r, x) BY <2>8, <2>9, <2>10, <2>11 DEF Leads, Good
  <2> QED BY <2>1, <2>12 DEF Goes, r
<1> QED BY <1>3, <1>4

LEMMA FinishGoes ==
    ASSUME NEW p \in Threads, Finish(p)
    PROVE  Goes(p)
BY DEF Finish, Goes, Leads

\* A request that is let in has an up-to-date policy, or none to show.
LEMMA ArriveGoes ==
    ASSUME BInv, NEW p \in Threads, NEW o \in Offers, NEW seen, NEW gloss,
           Arrive(p, o, seen, gloss), ~Stale(seen)
    PROVE  Goes(p)
<1> DEFINE got == [g \in DOMAIN o.groups |-> None]
           x == [Idle EXCEPT !.pc = "probe", !.offer = o, !.seen = seen, !.gloss = gloss,
                             !.got = got]
<1>1. Step(p, x) /\ seen \in {None, generation} /\ generation \in DOMAIN Deployments
  BY DEF Arrive, Stale, BInv
<1>2. /\ DOMAIN x = Fields /\ x.pc = "probe" /\ x.offer = o /\ x.seen = seen
      /\ x.gloss = gloss /\ x.got = got /\ x.memo = <<>> /\ x.g = 1 /\ x.probe = 1
      /\ x.by = 1 /\ x.deltas = <<>>
  BY DEF Idle, Fields
<1> HIDE DEF x
<1>3. o.kind # "batch" => DOMAIN got = {1} BY <1>2, OneText
<1>4. \A g \in DOMAIN got : got[g] = None OBVIOUS
<1> HIDE DEF got
<1>5. Shape(x) BY <1>1, <1>2, <1>3 DEF Shape
<1>6. Path(x) BY <1>1, <1>2, ProbeFacts DEF Path, Stored, Phases
<1>7. 1 \in DOMAIN Eligible(x) BY <1>1, <1>2, EligibleFacts
<1>8. <<>> \in Seq(Providers) OBVIOUS
<1>9. Voice(x) BY <1>2, <1>7, <1>8 DEF Voice, Complete, Stored, Streams
<1>10. Truthful(x) BY <1>2, <1>4 DEF Truthful, GotOK, MemoOK, Complete, Stored
<1>11. Leads(req[p], x) BY <1>5, <1>6, <1>9, <1>10 DEF Leads, Good
<1> QED BY <1>1, <1>11 DEF Goes

----------------------------------------------------------------------------
(* From a thread's step to the invariants                                  *)

\* What is said of a request depends on it and on the running process alone.
LEMMA Carried ==
    ASSUME NEW q, NEW x, req'[q] = x, generation' = generation
    PROVE  /\ Good(x) => Good(req[q])'
           /\ Truthful(x) => Truthful(req[q])'
<1>1. Backends' = Backends BY DEF Backends
<1>2. Eligible(req[q])' = Eligible(x) BY <1>1 DEF Eligible
<1>3. Probes(req[q])' = Probes(x) BY <1>2 DEF Probes, Contracts, Batch, Single
<1>4. Shape(x) => Shape(req[q])' BY DEF Shape
<1>5. Path(x) => Path(req[q])' BY <1>3 DEF Path
<1>6. Voice(x) => Voice(req[q])' BY <1>2 DEF Voice
<1>7. MemoOK(x) => MemoOK(req[q])' BY DEF MemoOK, RowTrue, SamePrompt
<1>8. ASSUME NEW g, GroupOK(x, g) PROVE GroupOK(req[q], g)'
  BY <1>1, <1>8 DEF GroupOK, Allowed, Filed
<1>9. GotOK(x) => GotOK(req[q])' BY <1>8 DEF GotOK
<1> QED BY <1>4, <1>5, <1>6, <1>7, <1>9 DEF Good, Truthful

LEMMA GoesKeeps ==
    ASSUME BInv, NEW p \in Threads, Goes(p), generation' = generation
    PROVE  BInv' /\ (TInv /\ RowsOK' => TInv')
<1>1. PICK x : Step(p, x) /\ Leads(req[p], x) BY DEF Goes
<1> DEFINE y == IF x.pc = "failed" THEN Failed ELSE x
<1>2. /\ DOMAIN req' = Threads /\ req'[p] = y
      /\ \A q \in Threads : q # p => req'[q] = req[q]
  BY <1>1 DEF BInv, Step, Failed
<1>3. y \in {Idle, Failed} \/ (y = x /\ Good(x) /\ (RowsOK /\ Truthful(req[p]) => Truthful(x)))
  BY <1>1 DEF Leads
<1> HIDE DEF y
<1>4. Truthful(Idle) /\ Truthful(Failed)
  BY DEF Truthful, GotOK, MemoOK, Idle, Failed
<1>5. Idle' = Idle /\ Failed' = Failed BY DEF Idle, Failed, NoOffer
<1>6. BInv'
  <2>1. ASSUME NEW q \in Threads PROVE (req[q] \in {Idle, Failed} \/ Good(req[q]))'
    <3>1. CASE q = p
      <4>1. CASE y \in {Idle, Failed} BY <1>2, <1>5, <3>1, <4>1
      <4>2. CASE y = x /\ Good(x) BY <1>2, <3>1, <4>2, Carried
      <4> QED BY <1>3, <4>1, <4>2
    <3>2. CASE q # p
      <4>1. PICK v : v = req[q] OBVIOUS
      <4>2. req'[q] = v /\ (v \in {Idle, Failed} \/ Good(v)) BY <1>2, <3>2, <4>1 DEF BInv
      <4>3. CASE v \in {Idle, Failed} BY <1>5, <4>2, <4>3
      <4>4. CASE Good(v) BY <4>2, <4>4, Carried
      <4> QED BY <4>2, <4>3, <4>4
    <3> QED BY <3>1, <3>2
  <2> QED BY <1>2, <2>1 DEF BInv
<1>7. ASSUME TInv, RowsOK' PROVE TInv'
  <2>1. ASSUME NEW q \in Threads PROVE Truthful(req[q])'
    <3>1. CASE q = p
      <4>1. Truthful(y) BY <1>3, <1>4, <1>7 DEF TInv
      <4> QED BY <1>2, <3>1, <4>1, Carried
    <3>2. CASE q # p
      <4>1. PICK v : v = req[q] OBVIOUS
      <4>2. req'[q] = v /\ Truthful(v) BY <1>2, <1>7, <3>2, <4>1 DEF TInv
      <4> QED BY <4>2, Carried
    <3> QED BY <3>1, <3>2
  <2> QED BY <1>7, <2>1 DEF TInv
<1> QED BY <1>6, <1>7

LEMMA WorkingGoes ==
    ASSUME BInv, NEW p \in Threads, Working(p)
    PROVE  Goes(p) /\ generation' = generation
<1>1. CASE Probe(p) BY <1>1, ProbeGoes DEF Probe, rest
<1>2. CASE ProbeFails(p) BY <1>2, ProbeFailsGoes DEF ProbeFails, rest
<1>3. ASSUME NEW g, NEW b, Translate(p, g, b) PROVE Goes(p) /\ generation' = generation
  BY <1>3, TranslateGoes DEF Translate, rest
<1>4. ASSUME NEW g, Unavailable(p, g) PROVE Goes(p) /\ generation' = generation
  BY <1>4, UnavailableGoes DEF Unavailable, rest
<1>5. ASSUME NEW g, NEW by, Recover(p, g, by) PROVE Goes(p) /\ generation' = generation
  BY <1>5, RecoverGoes DEF Recover, rest
<1>6. CASE Exhausted(p) BY <1>6, Fails DEF Exhausted, rest
<1>7. CASE Store(p)
  <2>1. Goto(p, "answered") \/ (req[p].offer.kind # "batch" /\ Goto(p, "store_batch"))
    BY <1>7 DEF Store
  <2> QED BY <1>7, <2>1, StoredGoes DEF Store, rest, Stored
<1>8. CASE StoreBatch(p) BY <1>8, StoredGoes DEF StoreBatch, rest, Stored
<1>9. CASE StoreFails(p) BY <1>9, StoredGoes DEF StoreFails, rest, Stored
<1>10. CASE Finish(p) BY <1>10, FinishGoes DEF Finish, rest
<1> QED BY <1>1, <1>2, <1>3, <1>4, <1>5, <1>6, <1>7, <1>8, <1>9, <1>10 DEF Working

LEMMA StreamingGoes ==
    ASSUME BInv, NEW p \in Threads, Streaming(p)
    PROVE  Goes(p) /\ generation' = generation /\ rows' = rows
<1>1. generation \in DOMAIN Deployments BY DEF BInv
<1>2. ASSUME req[p].pc \in {"stream", "streaming"}
      PROVE  Good(req[p]) /\ DOMAIN req[p] = Fields
  BY <1>2, UnderWay DEF Good, Shape
<1>3. CASE Acquire(p)
  <2> DEFINE r == req[p]
             x == [r EXCEPT !.pc = "streaming"]
  <2>1. Step(p, x) /\ r.pc = "stream" BY <1>3 DEF Acquire, Goto
  <2>2. x = [r EXCEPT !.pc = "streaming", !.deltas = r.deltas] BY <1>2, <2>1 DEF Fields
  <2>3. Leads(r, x)
    <3>1. Leads(r, [r EXCEPT !.pc = "streaming", !.deltas = r.deltas])
      BY <1>1, <1>2, <2>1, StreamLeads
    <3> QED BY <2>2, <3>1
  <2> QED BY <1>3, <2>1, <2>3 DEF Goes, Acquire, rest
<1>4. CASE QueueTimeout(p) BY <1>4, Fails DEF QueueTimeout, rest
<1>5. CASE AnswerWhole(p)
  <2> DEFINE r == req[p]
             deltas == Append(r.deltas, Provider(r))
  <2>1. Step(p, [r EXCEPT !.pc = "complete", !.deltas = deltas]) /\ r.pc = "stream"
    BY <1>5 DEF AnswerWhole
  <2>2. deltas # <<>> BY <1>2, <2>1 DEF Good, Voice
  <2>3. Leads(r, [r EXCEPT !.pc = "complete", !.deltas = deltas])
    BY <1>1, <1>2, <2>1, <2>2, StreamLeads
  <2> QED BY <1>5, <2>1, <2>3 DEF Goes, AnswerWhole, rest
<1>6. CASE Delta(p)
  <2> DEFINE r == req[p]
             deltas == Append(r.deltas, Provider(r))
             x == [r EXCEPT !.deltas = deltas]
  <2>1. Step(p, x) /\ r.pc = "streaming" BY <1>6 DEF Delta
  <2>2. x = [r EXCEPT !.pc = "streaming", !.deltas = deltas] BY <1>2, <2>1 DEF Fields
  <2>3. Leads(r, x)
    <3>1. Leads(r, [r EXCEPT !.pc = "streaming", !.deltas = deltas])
      BY <1>1, <1>2, <2>1, StreamLeads
    <3> QED BY <2>2, <3>1
  <2> QED BY <1>6, <2>1, <2>3 DEF Goes, Delta, rest
<1>7. CASE EndOfStream(p)
  <2> DEFINE r == req[p]
             x == [r EXCEPT !.pc = "complete"]
  <2>1. r.pc = "streaming" BY <1>7 DEF EndOfStream
  <2>2. CASE r.deltas # <<>>
    <3>1. Step(p, x) BY <1>7, <2>2 DEF EndOfStream
    <3>2. x = [r EXCEPT !.pc = "complete", !.deltas = r.deltas] BY <1>2, <2>1 DEF Fields
    <3>3. Leads(r, [r EXCEPT !.pc = "complete", !.deltas = r.deltas])
      BY <1>1, <1>2, <2>1, <2>2, StreamLeads
    <3> QED BY <1>7, <3>1, <3>2, <3>3 DEF Goes, EndOfStream, rest
  <2>3. CASE r.deltas = <<>>
    <3>1. Step(p, NextProvider(r, TRUE)) BY <1>7, <2>3 DEF EndOfStream
    <3>2. Leads(r, NextProvider(r, TRUE)) BY <1>1, <1>2, <2>1, <2>3, NextProviderLeads
    <3> QED BY <1>7, <3>1, <3>2 DEF Goes, EndOfStream, rest
  <2> QED BY <2>2, <2>3
<1>8. CASE Disconnect(p) BY <1>8, Fails DEF Disconnect, AtYield, rest
<1>9. ASSUME NEW eligible \in BOOLEAN, WholeFails(p, eligible)
      PROVE  Goes(p) /\ generation' = generation /\ rows' = rows
  <2>1. Step(p, NextProvider(req[p], eligible)) /\ req[p].pc = "stream" BY <1>9 DEF WholeFails
  <2>2. req[p].deltas = <<>> BY <1>2, <2>1 DEF Good, Voice, Complete, Stored
  <2>3. Leads(req[p], NextProvider(req[p], eligible))
    BY <1>1, <1>2, <2>1, <2>2, NextProviderLeads
  <2> QED BY <1>9, <2>1, <2>3 DEF Goes, WholeFails, rest
<1>10. ASSUME NEW eligible \in BOOLEAN, StreamFails(p, eligible)
       PROVE  Goes(p) /\ generation' = generation /\ rows' = rows
  <2> DEFINE e == eligible /\ req[p].deltas = <<>>
  <2>1. Step(p, NextProvider(req[p], e)) /\ req[p].pc = "streaming" BY <1>10 DEF StreamFails
  <2>2. e \in BOOLEAN /\ (e => req[p].deltas = <<>>) OBVIOUS
  <2> HIDE DEF e
  <2>3. Leads(req[p], NextProvider(req[p], e)) BY <1>1, <1>2, <2>1, <2>2, NextProviderLeads
  <2> QED BY <1>10, <2>1, <2>3 DEF Goes, StreamFails, rest
<1>11. ASSUME NEW blank \in BOOLEAN, Joined(p, blank)
       PROVE  Goes(p) /\ generation' = generation /\ rows' = rows
  BY <1>11, JoinedGoes DEF Joined, rest
<1> QED BY <1>3, <1>4, <1>5, <1>6, <1>7, <1>8, <1>9, <1>10, <1>11 DEF Streaming

----------------------------------------------------------------------------
(* The rows that are written                                               *)

\* Rows of translations whose prompt is the contract, or that of a batch of one text.
LEMMA WrittenTrue ==
    ASSUME OwnNamespaces, generation \in DOMAIN Deployments, NEW r, NEW contract,
           \A g \in DOMAIN contract : \A i \in DOMAIN r.got[g].items :
               LET m == r.got[g].items[i] IN m # None =>
                   /\ Allowed(r, m)
                   /\ \/ m.prompt = contract[g]
                      \/ /\ m.prompt = Single(contract[g].gloss)
                         /\ contract[g] = Batch(<<<<m.of>>>>, 1, contract[g].gloss)
    PROVE  \A s \in DOMAIN Written(r, contract) : RowTrue(s, Written(r, contract)[s])
<1> DEFINE cells == {c \in UNION {{g} \X DOMAIN r.got[g].items : g \in DOMAIN contract} :
                       r.got[c[1]].items[c[2]] # None}
           item(c) == r.got[c[1]].items[c[2]]
           scope(c) == Scope(r, item(c).of, item(c).by.ns, ModelFor(item(c).by.ns),
                             contract[c[1]])
           choice(s) == CHOOSE c \in cells : scope(c) = s
<1>1. Written(r, contract) = [s \in {scope(c) : c \in cells} |-> item(choice(s))]
  BY DEF Written
<1>2. ASSUME NEW c \in cells PROVE RowTrue(scope(c), item(c))
  <2>1. c[1] \in DOMAIN contract /\ c[2] \in DOMAIN r.got[c[1]].items /\ item(c) # None
    OBVIOUS
  <2>2. PICK m : m = item(c) OBVIOUS
  <2>3. PICK k : k = contract[c[1]] OBVIOUS
  <2>4. /\ Allowed(r, m)
        /\ m.prompt = k \/ (m.prompt = Single(k.gloss) /\ k = Batch(<<<<m.of>>>>, 1, k.gloss))
    BY <2>1, <2>2, <2>3
  <2>5. scope(c) = Scope(r, m.of, m.by.ns, ModelFor(m.by.ns), k) BY <2>2, <2>3
  <2> HIDE DEF scope, item, cells
  <2>6. m.by \in Providers /\ ModelFor(m.by.ns) = m.by.model
    BY <2>4, ModelForFacts DEF Allowed
  <2>7. RowTrue(Scope(r, m.of, m.by.ns, m.by.model, k), m)
    BY <2>4, <2>6 DEF RowTrue, Scope, SamePrompt, Allowed
  <2> QED BY <2>2, <2>5, <2>6, <2>7
<1> HIDE DEF cells, item, scope
<1>3. ASSUME NEW s \in {scope(c) : c \in cells} PROVE RowTrue(s, item(choice(s)))
  <2>1. PICK c \in cells : scope(c) = s OBVIOUS
  <2>2. choice(s) \in cells /\ scope(choice(s)) = s BY <2>1
  <2> QED BY <1>2, <2>2
<1> HIDE DEF choice
<1> QED BY <1>1, <1>3

LEMMA PutKeepsRows ==
    ASSUME RowsOK, NEW new, \A s \in DOMAIN new : RowTrue(s, new[s]), Put(new)
    PROVE  RowsOK'
<1>1. ASSUME NEW s \in DOMAIN rows' PROVE RowTrue(s, rows'[s])
  BY <1>1 DEF Put, RowsOK
<1>2. ASSUME NEW s \in DOMAIN rows' PROVE RowTrue(s, rows[s])'
  BY <1>1, <1>2 DEF RowTrue, SamePrompt
<1> QED BY <1>2 DEF RowsOK

LEMMA SameRows ==
    ASSUME RowsOK, rows' = rows
    PROVE  RowsOK'
BY DEF RowsOK, RowTrue, SamePrompt

\* What a request whose translations are complete files under the contract of each group.
LEMMA StoreKeepsRows ==
    ASSUME OwnNamespaces, BInv, TInv, NEW p \in Threads, Store(p) \/ StoreBatch(p)
    PROVE  RowsOK'
<1> DEFINE r == req[p]
<1>1. /\ Good(r) /\ r.pc \in Stored /\ generation \in DOMAIN Deployments /\ RowsOK
      /\ StoreBatch(p) => r.pc = "store_batch"
  BY UnderWay DEF Store, StoreBatch, Stored, BInv, TInv
<1>2. r.offer \in Offers BY <1>1 DEF Good, Shape
<1>3. ASSUME NEW g \in DOMAIN r.got, NEW i \in DOMAIN r.got[g].items, r.got[g].items[i] # None
      PROVE  /\ Allowed(r, r.got[g].items[i])
             /\ r.got[g].how = "fresh" => Filed(r, g, r.got[g].items[i])
  BY <1>1, <1>3 DEF TInv, Truthful, GotOK, GroupOK, Complete
<1>4. CASE Store(p) /\ r.offer.kind = "batch"
  <2> DEFINE contract == [g \in Cacheable(r) |-> Batch(r.offer.groups, g, r.gloss)]
  <2>1. Put(Written(r, contract)) BY <1>4 DEF Store
  <2> HIDE DEF r
  <2>2. ASSUME NEW g \in DOMAIN contract, NEW i \in DOMAIN r.got[g].items,
               r.got[g].items[i] # None
        PROVE  Allowed(r, r.got[g].items[i]) /\ r.got[g].items[i].prompt = contract[g]
    BY <1>3, <1>4, <2>2 DEF Cacheable, Filed
  <2> HIDE DEF contract
  <2>3. \A s \in DOMAIN Written(r, contract) : RowTrue(s, Written(r, contract)[s])
    BY <1>1, <2>2, WrittenTrue
  <2> QED BY <1>1, <2>1, <2>3, PutKeepsRows
<1>5. ASSUME r.offer.kind # "batch"
      PROVE  /\ DOMAIN r.got = {1}
             /\ \A i \in DOMAIN r.got[1].items : r.got[1].items[i] # None =>
                   /\ Allowed(r, r.got[1].items[i])
                   /\ r.got[1].items[i].prompt = Single(r.gloss)
                   /\ r.offer.groups = <<<<r.got[1].items[i].of>>>>
  <2>1. DOMAIN r.got = {1} /\ r.got[1].how = "fresh" BY <1>1, <1>5 DEF Good, Shape, Path
  <2> QED BY <1>3, <1>5, <2>1 DEF Filed
<1>6. CASE Store(p) /\ r.offer.kind # "batch"
  <2> DEFINE contract == <<Single(r.gloss)>>
  <2>1. Put(Written(r, contract)) BY <1>6 DEF Store
  <2>2. DOMAIN contract = {1} /\ contract[1] = Single(r.gloss) OBVIOUS
  <2> HIDE DEF r, contract
  <2>3. \A s \in DOMAIN Written(r, contract) : RowTrue(s, Written(r, contract)[s])
    BY <1>1, <1>5, <1>6, <2>2, WrittenTrue
  <2> QED BY <1>1, <2>1, <2>3, PutKeepsRows
<1>7. CASE StoreBatch(p)
  <2> DEFINE contract == <<Batch(r.offer.groups, 1, r.gloss)>>
  <2>1. Put(Written(r, contract)) BY <1>7 DEF StoreBatch
  <2>2. r.offer.kind # "batch" BY <1>1, <1>7 DEF Good, Path
  <2>3. DOMAIN contract = {1} /\ contract[1] = Batch(r.offer.groups, 1, r.gloss)
        /\ contract[1].gloss = r.gloss
    BY Glosses
  <2> HIDE DEF r, contract
  <2>4. \A s \in DOMAIN Written(r, contract) : RowTrue(s, Written(r, contract)[s])
    BY <1>1, <1>5, <2>2, <2>3, WrittenTrue
  <2> QED BY <1>1, <2>1, <2>4, PutKeepsRows
<1> QED BY <1>4, <1>6, <1>7

----------------------------------------------------------------------------
(* The theorems                                                            *)

LEMMA InitInv ==
    ASSUME Init
    PROVE  BInv /\ TInv
<1>1. BInv BY DeploymentsAssumption DEF Init, BInv
<1>2. Truthful(Idle) BY DEF Truthful, GotOK, MemoOK, Idle
<1>3. TInv BY <1>2 DEF Init, TInv, RowsOK
<1> QED BY <1>1, <1>3

\* A step that leaves the requests and the process alone.
LEMMA Untouched ==
    ASSUME BInv, req' = req, generation' = generation
    PROVE  BInv' /\ (TInv /\ rows' = rows => TInv')
<1>1. Idle' = Idle /\ Failed' = Failed BY DEF Idle, Failed, NoOffer
<1>2. ASSUME NEW q \in Threads PROVE (req[q] \in {Idle, Failed} \/ Good(req[q]))'
  <2>1. PICK v : v = req[q] OBVIOUS
  <2>2. CASE v \in {Idle, Failed} BY <1>1, <2>1, <2>2
  <2>3. CASE Good(v) BY <2>1, <2>3, Carried
  <2> QED BY <2>1, <2>2, <2>3 DEF BInv
<1>3. ASSUME TInv, rows' = rows, NEW q \in Threads PROVE Truthful(req[q])'
  <2>1. PICK v : v = req[q] OBVIOUS
  <2> QED BY <1>3, <2>1, Carried DEF TInv
<1>4. ASSUME TInv, rows' = rows PROVE TInv'
  BY <1>3, <1>4, SameRows DEF TInv
<1> QED BY <1>2, <1>4 DEF BInv

\* A restart drops what the threads were doing; the rows stay true.
LEMMA RestartInv ==
    ASSUME BInv, Restart
    PROVE  BInv' /\ (TInv => TInv')
<1>1. /\ DOMAIN req' = Threads /\ \A q \in Threads : req'[q] = Idle
      /\ rows' = rows
  BY DEF Restart
<1>2. generation' \in DOMAIN Deployments BY DeploymentsAssumption DEF Restart, BInv
<1>3. Idle' = Idle BY DEF Idle, NoOffer
<1>4. BInv' BY <1>1, <1>2, <1>3 DEF BInv
<1>5. ASSUME NEW q \in Threads PROVE Truthful(req[q])'
  BY <1>1 DEF Truthful, GotOK, MemoOK, Idle
<1>6. TInv => TInv' BY <1>1, <1>5, SameRows DEF TInv
<1> QED BY <1>4, <1>6

LEMMA StepInv ==
    ASSUME BInv, [Next]_vars
    PROVE  BInv' /\ (OwnNamespaces /\ TInv => TInv')
<1>1. ASSUME NEW p \in Threads, NEW o \in Offers, NEW seen, NEW gloss, Arrive(p, o, seen, gloss)
      PROVE  BInv' /\ (TInv => TInv')
  <2>1. rows' = rows /\ generation' = generation BY <1>1 DEF Arrive
  <2>2. CASE Stale(seen) BY <1>1, <2>1, <2>2, Untouched DEF Arrive
  <2>3. CASE ~Stale(seen) BY <1>1, <2>1, <2>3, ArriveGoes, GoesKeeps, SameRows DEF TInv
  <2> QED BY <2>2, <2>3
<1>2. ASSUME NEW p \in Threads, Working(p)
      PROVE  BInv' /\ (OwnNamespaces /\ TInv => TInv')
  <2>1. Goes(p) /\ generation' = generation BY <1>2, WorkingGoes
  <2>2. rows' = rows \/ Store(p) \/ StoreBatch(p)
    BY <1>2 DEF Working, Probe, ProbeFails, Translate, Unavailable, Recover, Exhausted,
                StoreFails, Finish
  <2>3. OwnNamespaces /\ TInv => RowsOK' BY <2>2, SameRows, StoreKeepsRows DEF TInv
  <2> QED BY <2>1, <2>3, GoesKeeps
<1>3. ASSUME NEW p \in Threads, Streaming(p)
      PROVE  BInv' /\ (TInv => TInv')
  BY <1>3, StreamingGoes, GoesKeeps, SameRows DEF TInv
<1>4. ASSUME NEW t, NEW terms, EditGlossary(t, terms)
      PROVE  BInv' /\ (TInv => TInv')
  BY <1>4, Untouched DEF EditGlossary
<1>5. CASE Restart BY <1>5, RestartInv
<1>6. CASE UNCHANGED vars BY <1>6, Untouched DEF vars
<1> QED BY <1>1, <1>2, <1>3, <1>4, <1>5, <1>6 DEF Next

LEMMA BaseInvariant == Spec => []BInv
<1>1. Init => BInv BY InitInv
<1>2. BInv /\ [Next]_vars => BInv' BY StepInv
<1> QED BY <1>1, <1>2, PTL DEF Spec

LEMMA TrueInvariant == ASSUME OwnNamespaces PROVE Spec => [](BInv /\ TInv)
<1>1. Init => BInv /\ TInv BY InitInv
<1>2. BInv /\ TInv /\ [Next]_vars => (BInv /\ TInv)' BY StepInv
<1> QED BY <1>1, <1>2, PTL DEF Spec

(* A stream speaks with one voice: translate_text_stream goes on to the    *)
(* next provider only before the first delta, so what the client receives  *)
(* and what is filed is one provider's text, whatever the backends are.    *)
THEOREM OneProviderPerStream == Spec => []OneVoice
<1>1. BInv => OneVoice
  <2> SUFFICES ASSUME BInv, NEW p \in Threads
               PROVE  /\ \A i, j \in DOMAIN req[p].deltas : req[p].deltas[i] = req[p].deltas[j]
                      /\ \A m \in Answer(p), i \in DOMAIN req[p].deltas : m.by = req[p].deltas[i]
    BY DEF OneVoice
  <2>1. CASE req[p] \in {Idle, Failed} BY <2>1 DEF Idle, Failed
  <2>2. CASE Good(req[p])
    <3>1. \A i \in DOMAIN req[p].deltas : req[p].deltas[i] = Eligible(req[p])[req[p].by]
      BY <2>2 DEF Good, Voice
    <3>2. ASSUME NEW m \in Answer(p), NEW i \in DOMAIN req[p].deltas
          PROVE  m.by = Eligible(req[p])[req[p].by]
      <4>1. req[p].pc = "answered" /\ req[p].deltas # <<>>
        BY <2>2, <3>2 DEF Answer, Good, Voice
      <4>2. PICK g \in DOMAIN req[p].got : \E k \in DOMAIN req[p].got[g].items :
                m = req[p].got[g].items[k]
        BY <3>2, <4>1 DEF Answer
      <4> QED BY <2>2, <4>1, <4>2 DEF Good, Voice, Complete
    <3> QED BY <3>1, <3>2
  <2> QED BY <2>1, <2>2 DEF BInv
<1> QED BY <1>1, BaseInvariant, PTL

\* What is sent is what the invariant allows.
LEMMA AnswerAllowed ==
    ASSUME BInv, TInv, NEW p \in Threads, NEW m \in Answer(p)
    PROVE  Good(req[p]) /\ Allowed(req[p], m)
<1>1. req[p].pc = "answered" BY DEF Answer
<1>2. PICK g \in DOMAIN req[p].got : \E i \in DOMAIN req[p].got[g].items :
          m = req[p].got[g].items[i] /\ m # None
  BY <1>1 DEF Answer
<1>3. GroupOK(req[p], g) BY <1>1, <1>2 DEF TInv, Truthful, GotOK, Complete
<1> QED BY <1>1, <1>2, <1>3, UnderWay DEF GroupOK

(* Where the two backends of a process have namespaces of their own, every *)
(* row is what its scope says: no edit of a glossary, other request,       *)
(* recovery or fallback files a translation under another scope.           *)
THEOREM CacheIsTrue == ASSUME OwnNamespaces PROVE Spec => []RowsTrue
<1>1. TInv => RowsTrue BY DEF TInv, RowsOK, RowTrue, RowsTrue
<1> QED BY <1>1, TrueInvariant, PTL

(* There, what a request is sent, from the cache or fresh, was made for    *)
(* its tenant, with its glossary, by a backend that its consent allows.    *)
THEOREM OnlyAllowedIsSent == ASSUME OwnNamespaces PROVE Spec => []AnswersAllowed
<1>1. BInv /\ TInv => AnswersAllowed BY AnswerAllowed DEF Allowed, AnswersAllowed
<1> QED BY <1>1, TrueInvariant, PTL

(* There, a page that echoes a policy gets only the work of a provider     *)
(* whose locality that policy shows: _stale_provider_policy lets nothing   *)
(* else past, and the process cannot change under an open request.         *)
THEOREM PolicyIsShown == ASSUME OwnNamespaces PROVE Spec => []LocalityShown
<1>1. BInv /\ TInv => LocalityShown
  <2> SUFFICES ASSUME BInv, TInv, NEW p \in Threads, NEW m \in Answer(p), req[p].seen # None
               PROVE  \E k \in DOMAIN Deployments[req[p].seen] :
                         m.by = Backends[k] /\ Deployments[req[p].seen][k].remote = m.by.remote
    BY DEF LocalityShown
  <2>1. Allowed(req[p], m) /\ req[p].seen = generation
    BY AnswerAllowed DEF Good, Shape
  <2> QED BY <2>1 DEF Allowed, Backends
<1> QED BY <1>1, TrueInvariant, PTL

----------------------------------------------------------------------------
(* The slots of the streams                                                *)

Holders == {p \in Threads : req[p].pc = "streaming"}

LEMMA HoldersFinite == IsFiniteSet(Holders) /\ Cardinality(Holders) \in Nat
<1>1. Holders \in SUBSET Threads BY DEF Holders
<1> QED BY <1>1, DeploymentsAssumption, FS_Subset, FS_CardinalityType

\* A step of p to r takes a slot, gives it back, or neither.
Fits(p, r) ==
    \/ req[p].pc # "streaming" /\ r.pc = "streaming" /\ free' = free - 1
    \/ req[p].pc = "streaming" /\ r.pc # "streaming" /\ free' = free + 1
    \/ (req[p].pc = "streaming" <=> r.pc = "streaming") /\ free' = free

LEMMA SlotMoves ==
    ASSUME BInv, SlotsReturned, NEW p \in Threads, NEW r, Step(p, r), Fits(p, r), free \in Int
    PROVE  SlotsReturned'
<1>1. /\ DOMAIN req = Threads
      /\ req'[p].pc = r.pc /\ \A q \in Threads : q # p => req'[q] = req[q]
  BY DEF BInv, Step
<1>2. CASE req[p].pc # "streaming" /\ r.pc = "streaming" /\ free' = free - 1
  <2>1. Holders' = Holders \cup {p} /\ p \notin Holders BY <1>1, <1>2 DEF Holders
  <2>2. Cardinality(Holders') = Cardinality(Holders) + 1
    BY <2>1, HoldersFinite, FS_AddElement
  <2> QED BY <1>2, <2>2, HoldersFinite DEF SlotsReturned, Holders
<1>3. CASE req[p].pc = "streaming" /\ r.pc # "streaming" /\ free' = free + 1
  <2>1. Holders' = Holders \ {p} /\ p \in Holders BY <1>1, <1>3 DEF Holders
  <2>2. Cardinality(Holders') = Cardinality(Holders) - 1
    BY <2>1, HoldersFinite, FS_RemoveElement
  <2> QED BY <1>3, <2>2, HoldersFinite DEF SlotsReturned, Holders
<1>4. CASE (req[p].pc = "streaming" <=> r.pc = "streaming") /\ free' = free
  <2>1. Holders' = Holders BY <1>1, <1>4 DEF Holders
  <2> QED BY <1>4, <2>1 DEF SlotsReturned, Holders
<1> QED BY <1>2, <1>3, <1>4 DEF Fits

LEMMA GroupPhase ==
    ASSUME NEW r, "pc" \in DOMAIN r, r.pc = "probe"
    PROVE  NextGroup(r).pc # "streaming" /\ NextProbe(r).pc # "streaming"
<1>1. NextGroup(r).pc # "streaming"
  <2>1. CASE r.g < Len(r.offer.groups)
    BY <2>1 DEF NextGroup
  <2>2. CASE ~(r.g < Len(r.offer.groups))
    BY <2>2 DEF NextGroup
  <2> QED BY <2>1, <2>2
<1>2. CASE r.probe < Len(Probes(r)) BY <1>1, <1>2 DEF NextProbe
<1>3. CASE ~(r.probe < Len(Probes(r))) BY <1>1, <1>3 DEF NextProbe
<1> QED BY <1>1, <1>2, <1>3

LEMMA ProviderPhase ==
    ASSUME NEW r, "pc" \in DOMAIN r, NEW eligible
    PROVE  NextProvider(r, eligible).pc # "streaming"
BY DEF NextProvider

LEMMA WorkedPhase ==
    ASSUME NEW r, "pc" \in DOMAIN r, r.pc = "work"
    PROVE  Worked(r).pc # "streaming"
BY DEF Worked

LEMMA WorkingFits ==
    ASSUME BInv, NEW p \in Threads, Working(p)
    PROVE  \E r : Step(p, r) /\ Fits(p, r)
<1> DEFINE Quiet(r) == Step(p, r) /\ req[p].pc # "streaming" /\ r.pc # "streaming" /\ free' = free
<1> SUFFICES \E r : Quiet(r) BY DEF Fits
<1>0. req[p].pc \notin {"idle", "failed"} => DOMAIN req[p] = Fields
  BY UnderWay DEF Good, Shape
<1>1. CASE Probe(p)
  <2> DEFINE found == Found(req[p])
             new == [how |-> "cache", items |-> [i \in DOMAIN found |-> found[i].hit]]
             y == [req[p] EXCEPT !.memo = Remember(req[p], found)]
             z == [y EXCEPT !.got[y.g] = new]
  <2>1. Step(p, IF Accept(found) THEN NextGroup(z) ELSE NextProbe(y)) BY <1>1 DEF Probe
  <2>2. req[p].pc = "probe" /\ DOMAIN req[p] = Fields /\ free' = free BY <1>0, <1>1 DEF Probe
  <2>3. y.pc = "probe" /\ "pc" \in DOMAIN y BY <2>2 DEF Fields
  <2>4. z.pc = "probe" /\ "pc" \in DOMAIN z
    <3> HIDE DEF y
    <3> QED BY <2>3
  <2> HIDE DEF y, z
  <2>5. NextGroup(z).pc # "streaming" /\ NextProbe(y).pc # "streaming" BY <2>3, <2>4, GroupPhase
  <2>6. CASE Accept(found)
    <3>1. Quiet(NextGroup(z)) BY <2>1, <2>2, <2>5, <2>6
    <3> QED BY <3>1
  <2>7. CASE ~Accept(found)
    <3>1. Quiet(NextProbe(y)) BY <2>1, <2>2, <2>5, <2>7
    <3> QED BY <3>1
  <2> QED BY <2>6, <2>7
<1>2. CASE ProbeFails(p)
  <2>1. req[p].pc = "probe" /\ DOMAIN req[p] = Fields /\ free' = free
    BY <1>0, <1>2 DEF ProbeFails
  <2>2. CASE req[p].offer.kind = "batch"
    <3>1. Quiet([req[p] EXCEPT !.pc = "failed"]) BY <1>2, <2>1, <2>2 DEF ProbeFails, Fields
    <3> QED BY <3>1
  <2>3. CASE req[p].offer.kind # "batch"
    <3>1. NextProbe(req[p]).pc # "streaming" BY <2>1, GroupPhase DEF Fields
    <3>2. Quiet(NextProbe(req[p])) BY <1>2, <2>1, <2>3, <3>1 DEF ProbeFails
    <3> QED BY <3>2
  <2> QED BY <2>2, <2>3
<1>3. ASSUME NEW g \in DOMAIN req[p].got,
             \/ \E b \in 1 .. 2 : Translate(p, g, b)
             \/ Unavailable(p, g)
             \/ \E by \in [DOMAIN req[p].offer.groups[g] -> 0 .. 2] : Recover(p, g, by)
      PROVE  \E r : Quiet(r)
  <2>1. req[p].pc = "work" /\ DOMAIN req[p] = Fields /\ free' = free
    BY <1>0, <1>3 DEF Translate, Unavailable, Recover
  <2> DEFINE x(new) == [req[p] EXCEPT !.got[g] = new]
  <2>2. \A new : x(new).pc = "work" /\ "pc" \in DOMAIN x(new) BY <2>1 DEF Fields
  <2>3. \/ \E new : Step(p, Worked(x(new)))
        \/ Step(p, [req[p] EXCEPT !.pc = "failed"])
    BY <1>3 DEF Translate, Unavailable, Recover
  <2>4. ASSUME NEW new, Step(p, Worked(x(new))) PROVE \E r : Quiet(r)
    <3>1. Worked(x(new)).pc # "streaming" BY <2>2, WorkedPhase
    <3>2. Quiet(Worked(x(new))) BY <2>1, <2>4, <3>1
    <3> QED BY <3>2
  <2>5. ASSUME Step(p, [req[p] EXCEPT !.pc = "failed"]) PROVE \E r : Quiet(r)
    <3>1. Quiet([req[p] EXCEPT !.pc = "failed"]) BY <2>1, <2>5 DEF Fields
    <3> QED BY <3>1
  <2> QED BY <2>3, <2>4, <2>5
<1>4. CASE Exhausted(p) \/ Store(p) \/ StoreBatch(p) \/ StoreFails(p)
  <2>1. PICK pc \in {"failed", "answered", "store_batch"} : Goto(p, pc)
    BY <1>4 DEF Exhausted, Store, StoreBatch, StoreFails
  <2>2. DOMAIN req[p] = Fields /\ req[p].pc # "streaming" /\ free' = free
    BY <1>0, <1>4 DEF Exhausted, Store, StoreBatch, StoreFails
  <2>3. Quiet([req[p] EXCEPT !.pc = pc]) BY <2>1, <2>2 DEF Goto, Fields
  <2> QED BY <2>3
<1>5. CASE Finish(p)
  <2>1. Quiet(Idle) BY <1>5 DEF Finish, Idle
  <2> QED BY <2>1
<1> QED BY <1>1, <1>2, <1>3, <1>4, <1>5 DEF Working

LEMMA StreamingFits ==
    ASSUME BInv, NEW p \in Threads, Streaming(p)
    PROVE  \E r : Step(p, r) /\ Fits(p, r)
<1>0. req[p].pc \notin {"idle", "failed"} => DOMAIN req[p] = Fields
  BY UnderWay DEF Good, Shape
<1>1. ASSUME NEW pc \in {"streaming", "failed"},
             \/ Acquire(p) /\ pc = "streaming"
             \/ (QueueTimeout(p) \/ Disconnect(p)) /\ pc = "failed"
      PROVE  \E r : Step(p, r) /\ Fits(p, r)
  <2>1. Goto(p, pc) BY <1>1 DEF Acquire, QueueTimeout, Disconnect
  <2>2. req[p].pc \in {"stream", "streaming", "complete"} /\ DOMAIN req[p] = Fields
    BY <1>0, <1>1 DEF Acquire, QueueTimeout, Disconnect, AtYield
  <2>3. [req[p] EXCEPT !.pc = pc].pc = pc BY <2>2 DEF Fields
  <2>4. Fits(p, [req[p] EXCEPT !.pc = pc])
    BY <1>1, <2>2, <2>3 DEF Fits, Acquire, QueueTimeout, Disconnect
  <2> QED BY <2>1, <2>4 DEF Goto
<1>2. CASE AnswerWhole(p)
  <2> DEFINE r == [req[p] EXCEPT !.pc = "complete", !.deltas = Append(req[p].deltas, Provider(req[p]))]
  <2>1. Step(p, r) /\ req[p].pc = "stream" /\ free' = free /\ DOMAIN req[p] = Fields
    BY <1>0, <1>2 DEF AnswerWhole
  <2>2. r.pc = "complete" BY <2>1 DEF Fields
  <2> HIDE DEF r
  <2> QED BY <2>1, <2>2 DEF Fits
<1>3. CASE Delta(p)
  <2> DEFINE r == [req[p] EXCEPT !.deltas = Append(req[p].deltas, Provider(req[p]))]
  <2>1. Step(p, r) /\ req[p].pc = "streaming" /\ free' = free /\ DOMAIN req[p] = Fields
    BY <1>0, <1>3 DEF Delta
  <2>2. r.pc = "streaming" BY <2>1 DEF Fields
  <2> HIDE DEF r
  <2> QED BY <2>1, <2>2 DEF Fits
<1>4. ASSUME NEW eligible \in BOOLEAN, WholeFails(p, eligible)
      PROVE  \E r : Step(p, r) /\ Fits(p, r)
  <2>1. /\ Step(p, NextProvider(req[p], eligible))
        /\ req[p].pc = "stream" /\ free' = free /\ DOMAIN req[p] = Fields
    BY <1>0, <1>4 DEF WholeFails
  <2>2. NextProvider(req[p], eligible).pc # "streaming" BY <2>1, ProviderPhase DEF Fields
  <2> QED BY <2>1, <2>2 DEF Fits
<1>5. ASSUME NEW eligible \in BOOLEAN, StreamFails(p, eligible)
      PROVE  \E r : Step(p, r) /\ Fits(p, r)
  <2> DEFINE next == eligible /\ req[p].deltas = <<>>
  <2>1. /\ Step(p, NextProvider(req[p], next))
        /\ req[p].pc = "streaming" /\ free' = free + 1 /\ DOMAIN req[p] = Fields
    BY <1>0, <1>5 DEF StreamFails
  <2>2. NextProvider(req[p], next).pc # "streaming" BY <2>1, ProviderPhase DEF Fields
  <2> QED BY <2>1, <2>2 DEF Fits
<1>6. CASE EndOfStream(p)
  <2>1. req[p].pc = "streaming" /\ free' = free + 1 /\ DOMAIN req[p] = Fields
    BY <1>0, <1>6 DEF EndOfStream
  <2>2. \/ Step(p, [req[p] EXCEPT !.pc = "complete"])
        \/ Step(p, NextProvider(req[p], TRUE))
    BY <1>6 DEF EndOfStream
  <2>3. [req[p] EXCEPT !.pc = "complete"].pc = "complete" BY <2>1 DEF Fields
  <2>4. NextProvider(req[p], TRUE).pc # "streaming" BY <2>1, ProviderPhase DEF Fields
  <2> QED BY <2>1, <2>2, <2>3, <2>4 DEF Fits
<1>7. ASSUME NEW blank \in BOOLEAN, Joined(p, blank)
      PROVE  \E r : Step(p, r) /\ Fits(p, r)
  <2>1. req[p].pc = "complete" /\ free' = free /\ DOMAIN req[p] = Fields
    BY <1>0, <1>7 DEF Joined
  <2>2. PICK r : Step(p, r) /\ r.pc \in {"failed", "store"}
    <3> DEFINE failed == [req[p] EXCEPT !.pc = "failed"]
               store(items) == [req[p] EXCEPT !.pc = "store", !.got[1] = [how |-> "fresh", items |-> items]]
    <3>1. Step(p, failed) \/ \E items : Step(p, store(items)) BY <1>7 DEF Joined
    <3>2. failed.pc = "failed" /\ \A items : store(items).pc = "store" BY <2>1 DEF Fields
    <3> HIDE DEF failed, store
    <3> QED BY <3>1, <3>2
  <2> QED BY <2>1, <2>2 DEF Fits
<1>8. CASE Acquire(p) BY <1>1, <1>8
<1>9. CASE QueueTimeout(p) \/ Disconnect(p) BY <1>1, <1>9
<1> QED BY <1>2, <1>3, <1>4, <1>5, <1>6, <1>7, <1>8, <1>9 DEF Streaming

SlotInv == BInv /\ free \in Int /\ SlotsReturned

LEMMA SlotStep ==
    ASSUME SlotInv, [Next]_vars
    PROVE  SlotInv'
<1>0. BInv' BY StepInv DEF SlotInv
<1>a. SlotsReturned' <=> free' + Cardinality(Holders)' = Slots BY DEF SlotsReturned, Holders
<1>1. ASSUME NEW p \in Threads, NEW o \in Offers, NEW seen, NEW gloss, Arrive(p, o, seen, gloss)
      PROVE  free' \in Int /\ SlotsReturned'
  <2>1. req[p].pc = "idle" /\ free' = free BY <1>1 DEF Arrive
  <2>2. CASE Stale(seen) BY <1>1, <2>1, <2>2 DEF Arrive, SlotInv, SlotsReturned
  <2>3. CASE ~Stale(seen)
    <3> DEFINE r == [Idle EXCEPT !.pc = "probe", !.offer = o, !.seen = seen, !.gloss = gloss,
                                 !.got = [g \in DOMAIN o.groups |-> None]]
    <3>1. Step(p, r) BY <1>1, <2>3 DEF Arrive
    <3>2. r.pc = "probe" BY DEF Idle
    <3> HIDE DEF r
    <3> QED BY <2>1, <3>1, <3>2, SlotMoves DEF SlotInv, Fits
  <2> QED BY <2>2, <2>3
<1>2. ASSUME NEW p \in Threads, Working(p) \/ Streaming(p)
      PROVE  free' \in Int /\ SlotsReturned'
  <2>1. PICK r : Step(p, r) /\ Fits(p, r) BY <1>2, WorkingFits, StreamingFits DEF SlotInv
  <2>2. free' \in Int BY <2>1 DEF SlotInv, Fits
  <2> QED BY <2>1, <2>2, SlotMoves DEF SlotInv
<1>3. ASSUME NEW t, NEW terms, EditGlossary(t, terms)
      PROVE  free' \in Int /\ SlotsReturned'
  BY <1>3 DEF EditGlossary, SlotInv, SlotsReturned
<1>4. CASE Restart
  <2>1. free' = Slots /\ req' = [p \in Threads |-> Idle] BY <1>4 DEF Restart
  <2>2. Holders' = {} BY <2>1 DEF Holders, Idle
  <2>3. Slots \in Nat /\ Cardinality({}) = 0 BY FS_EmptySet, DeploymentsAssumption
  <2>4. free' \in Int /\ free' + Cardinality(Holders') = Slots BY <2>1, <2>2, <2>3
  <2> QED BY <1>0, <1>a, <2>4 DEF SlotInv
<1>5. CASE UNCHANGED vars
  <2>1. free' = free /\ req' = req BY <1>5 DEF vars
  <2>2. Holders' = Holders BY <2>1 DEF Holders
  <2>3. free' \in Int /\ free' + Cardinality(Holders') = Slots
    BY <2>1, <2>2 DEF SlotInv, SlotsReturned, Holders
  <2> QED BY <1>0, <1>a, <2>3 DEF SlotInv
<1> QED BY <1>0, <1>1, <1>2, <1>3, <1>4, <1>5 DEF Next, SlotInv

(* No stream loses its upstream slot, however it ends: it fails, falls     *)
(* back, is answered, or its client leaves and the generator is closed.    *)
THEOREM NoStreamKeepsSlot == Spec => []SlotsReturned
<1>1. Init => SlotInv
  <2> SUFFICES ASSUME Init PROVE SlotInv OBVIOUS
  <2>1. Holders = {} BY DEF Init, Holders, Idle
  <2>2. Slots \in Nat BY DeploymentsAssumption
  <2>3. free = Slots /\ Cardinality({}) = 0 BY FS_EmptySet DEF Init
  <2>4. free + Cardinality(Holders) = Slots BY <2>1, <2>2, <2>3
  <2>5. BInv BY InitInv
  <2> QED BY <2>2, <2>3, <2>4, <2>5 DEF SlotInv, SlotsReturned, Holders
<1>2. SlotInv /\ [Next]_vars => SlotInv' BY SlotStep
<1>3. SlotInv => SlotsReturned BY DEF SlotInv
<1> QED BY <1>1, <1>2, <1>3, PTL DEF Spec
=============================================================================
