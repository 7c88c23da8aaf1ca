----------------------------- MODULE WorkProofs -----------------------------
(***************************************************************************)
(* The work of the API's threads: operations that are shared, for any      *)
(* number of callers, keys and flights, and calls to the providers, for    *)
(* any number of requests, jobs and slots.                                 *)
(***************************************************************************)
EXTENDS SingleFlight, ProviderWork, FiniteSetTheorems, TLAPS

----------------------------------------------------------------------------
(* SingleFlight                                                            *)

Created(f) == f \in 1 .. stats["leaders"]

\* Every entry of the registry is a created flight, filed under its own key,
\* and a flight that has not been created is untouched.
RegistryInv ==
    /\ \A k \in Keys : registry[k] # NoFlight =>
                          Created(registry[k]) /\ flightKey[registry[k]] = k
    /\ \A f \in Flights : ~Created(f) => doneAt[f] = Never
    /\ stats["leaders"] <= Entered /\ Entered <= MaxCalls

\* A leader's flight is active, still in the registry, and led by nobody else.
LeaderInv ==
    /\ \A c \in Callers : pc[c] = "leading" =>
          /\ Created(flight[c])
          /\ doneAt[flight[c]] = Never
          /\ flightKey[flight[c]] \in Keys
          /\ registry[flightKey[flight[c]]] = flight[c]
    /\ \A c, d \in Callers :
          pc[c] = "leading" /\ pc[d] = "leading" /\ flight[c] = flight[d] => c = d

\* A follower holds a created flight, a completed one once it stops waiting.
FollowerInv ==
    /\ \A c \in Callers : Joined(c) \/ pc[c] = "reading" => Created(flight[c])
    /\ \A c \in Callers : pc[c] \in {"woken", "reading"} => Completed(flight[c])

\* The outcome is stored in the section that sets the event.
OutcomeInv == \A f \in Flights : Completed(f) => outcome[f] \in Outcomes

\* The inductive invariant.
FlightInv ==
    /\ FlightTypeOK
    /\ RegistryInv
    /\ LeaderInv
    /\ FollowerInv
    /\ OutcomeInv
    /\ WithinCapacity
    /\ WaiterAccounting

----------------------------------------------------------------------------
(* Facts about the registry                                                *)

\* new is old without some of its completed entries.
Thinned(old, new) ==
    /\ new \in [Keys -> Flights \cup {NoFlight}]
    /\ \A k \in Keys : new[k] = old[k] \/ (new[k] = NoFlight /\ CompletedKey(old, k))

\* The keys with an entry form a finite set, whatever the contents.
LEMMA EntriesFinite ==
    ASSUME NEW reg
    PROVE  IsFiniteSet(Entries(reg)) /\ Cardinality(Entries(reg)) \in Nat
<1>1. Entries(reg) \in SUBSET Keys
  BY DEF Entries
<1>2. IsFiniteSet(Entries(reg))
  BY <1>1, KeysAssumption, FS_Subset
<1> QED
  BY <1>2, FS_CardinalityType

\* _expire_completed() only removes completed flights.
LEMMA ExpireThins ==
    ASSUME FlightTypeOK
    PROVE  Thinned(registry, ExpireCompleted(registry))
BY DEF FlightTypeOK, Thinned, ExpireCompleted, CompletedKey, Expired

\* Removing entries does not make the registry larger.
LEMMA ThinnedIsSmaller ==
    ASSUME NEW old, NEW new, Thinned(old, new)
    PROVE  Cardinality(Entries(new)) <= Cardinality(Entries(old))
<1>1. Entries(new) \in SUBSET Entries(old)
  BY DEF Thinned, Entries
<1> QED
  BY <1>1, EntriesFinite, FS_Subset

\* What run() does before it creates a flight leaves only completed flights
\* out, and leaves room for one more entry.
LEMMA RoomsThin ==
    ASSUME FlightTypeOK, WithinCapacity,
           NEW reg, Thinned(registry, reg),
           NEW room \in Rooms(reg)
    PROVE  Thinned(registry, room) /\ Cardinality(Entries(room)) < MaxEntries
<1>1. CASE Cardinality(Entries(reg)) < MaxEntries
  BY <1>1 DEF Rooms
<1>2. CASE ~(Cardinality(Entries(reg)) < MaxEntries)
  <2>1. PICK k \in Keys : OldestCompleted(reg, k) /\ room = [reg EXCEPT ![k] = NoFlight]
    BY <1>2 DEF Rooms
  <2>2. Thinned(registry, room)
    BY <2>1 DEF Thinned, OldestCompleted, CompletedKey
  <2>3. Entries(room) = Entries(reg) \ {k} /\ k \in Entries(reg)
    BY <2>1 DEF Thinned, Entries, OldestCompleted, CompletedKey
  <2>4. Cardinality(Entries(room)) = Cardinality(Entries(reg)) - 1
    BY <2>3, EntriesFinite, FS_RemoveElement
  <2>5. Cardinality(Entries(reg)) <= MaxEntries
    BY ThinnedIsSmaller, EntriesFinite, BoundsAssumption DEF WithinCapacity
  <2> QED
    BY <2>2, <2>4, <2>5, EntriesFinite, BoundsAssumption
<1> QED
  BY <1>1, <1>2

\* Filing one more flight adds at most one entry.
LEMMA OneMoreEntry ==
    ASSUME NEW reg \in [Keys -> Flights \cup {NoFlight}], NEW k \in Keys, NEW f \in Flights
    PROVE  Cardinality(Entries([reg EXCEPT ![k] = f])) <= Cardinality(Entries(reg)) + 1
<1>1. Entries([reg EXCEPT ![k] = f]) = Entries(reg) \cup {k}
  BY DEF Entries, Flights, NoFlight
<1>2. IsFiniteSet(Entries(reg)) /\ Cardinality(Entries(reg)) \in Nat
  BY EntriesFinite
<1>3. Cardinality(Entries(reg) \cup {k}) =
         IF k \in Entries(reg) THEN Cardinality(Entries(reg)) ELSE Cardinality(Entries(reg)) + 1
  BY <1>2, FS_AddElement
<1>4. Cardinality(Entries(reg) \cup {k}) <= Cardinality(Entries(reg)) + 1
  BY <1>2, <1>3
<1> QED
  BY <1>1, <1>4

\* The followers are a finite set, all of them and those of one flight.
LEMMA FollowersFinite ==
    /\ IsFiniteSet({c \in Callers : Joined(c)})
    /\ \A f : IsFiniteSet(WaitingOn(f))
<1>1. {c \in Callers : Joined(c)} \in SUBSET Callers
  OBVIOUS
<1>2. \A f : WaitingOn(f) \in SUBSET Callers
  BY DEF WaitingOn
<1> QED
  BY <1>1, <1>2, CallersAssumption, FS_Subset

----------------------------------------------------------------------------
(* The inductive invariant                                                 *)

LEMMA InitIInv == FlightInit => FlightInv
<1> SUFFICES ASSUME FlightInit PROVE FlightInv
  OBVIOUS
<1>1. FlightTypeOK
  BY BoundsAssumption, OutcomesAssumption
     DEF FlightInit, FlightTypeOK, NoFlight, Never, FlightPlaces, Results, Counters
<1>2. Entries(registry) = {} /\ {c \in Callers : Joined(c)} = {}
  BY DEF FlightInit, Entries, Joined
<1>3. \A f : WaitingOn(f) = {}
  BY DEF FlightInit, WaitingOn, Joined
<1>4. WithinCapacity
  BY <1>2, FS_EmptySet, BoundsAssumption DEF WithinCapacity
<1>5. WaiterAccounting
  BY <1>2, <1>3, FS_EmptySet DEF WaiterAccounting, FlightInit, Counters
<1>6. RegistryInv
  BY BoundsAssumption DEF FlightInit, RegistryInv, Entered, Counters, NoFlight, Created
<1>7. LeaderInv /\ FollowerInv /\ OutcomeInv
  BY DEF FlightInit, LeaderInv, FollowerInv, OutcomeInv, Joined, Completed
<1> QED
  BY <1>1, <1>4, <1>5, <1>6, <1>7 DEF FlightInv

\* An action that moves no follower keeps the accounting of followers.
LEMMA AccountingUnchanged ==
    ASSUME WaiterAccounting,
           \A c \in Callers : Joined(c)' <=> Joined(c),
           \A c \in Callers : Joined(c) => flight'[c] = flight[c],
           waiters' = waiters, stats'["followers"] = stats["followers"]
    PROVE  WaiterAccounting'
<1>1. {c \in Callers : Joined(c)}' = {c \in Callers : Joined(c)}
  OBVIOUS
<1>2. \A f \in Flights : WaitingOn(f)' = WaitingOn(f)
  BY DEF WaitingOn
<1> QED
  BY <1>1, <1>2 DEF WaiterAccounting

\* The first locked section of run(), when it creates a flight.
LEMMA RunLeadIInv ==
    ASSUME FlightInv, NEW c \in Callers, NEW k \in Keys, RunLead(c, k)
    PROVE  FlightInv'
<1>0. PICK f : f = stats["leaders"] + 1
  OBVIOUS
<1> DEFINE reg == ExpireCompleted(registry)
<1>1. f \in Flights /\ ~Created(f) /\ f # NoFlight /\ f \in Nat
  BY <1>0, BoundsAssumption
     DEF FlightInv, FlightTypeOK, Counters, RunLead, MayCall, Entered, Flights, Created, NoFlight
<1>2. Thinned(registry, reg)
  BY ExpireThins DEF FlightInv
<1>3. PICK room \in Rooms(reg) : registry' = [room EXCEPT ![k] = f]
  BY <1>0 DEF RunLead
<1>4. Thinned(registry, room) /\ Cardinality(Entries(room)) < MaxEntries
  BY <1>2, RoomsThin DEF FlightInv
<1>5. room[k] = NoFlight
  BY <1>2 DEF RunLead, Rooms, Thinned
<1>6. /\ flightKey' = [flightKey EXCEPT ![f] = k]
      /\ stats' = [stats EXCEPT !["leaders"] = f]
      /\ pc' = [pc EXCEPT ![c] = "leading"]
      /\ flight' = [flight EXCEPT ![c] = f]
      /\ UNCHANGED <<clock, doneAt, outcome, waiters, result>>
  BY <1>0 DEF RunLead, FlightInv, FlightTypeOK, Counters
<1>7. FlightTypeOK'
  <2>1. registry' \in [Keys -> Flights \cup {NoFlight}]
    BY <1>1, <1>3, <1>4 DEF Thinned
  <2>2. stats' \in [Counters -> Nat] /\ pc' \in [Callers -> FlightPlaces]
    BY <1>1, <1>6 DEF FlightInv, FlightTypeOK, Counters, FlightPlaces
  <2> QED
    BY <1>1, <1>6, <2>1, <2>2 DEF FlightInv, FlightTypeOK
<1>8. stats'["leaders"] = f /\ Entered' = Entered + 1 /\ Entered < MaxCalls /\ Entered \in Nat
  BY <1>0, <1>6 DEF RunLead, MayCall, FlightInv, FlightTypeOK, Counters, Entered
<1>9. \A g : g \in 1 .. stats'["leaders"] <=> Created(g) \/ g = f
  BY <1>0, <1>1, <1>8 DEF Created, FlightInv, FlightTypeOK, Counters
<1>10. RegistryInv'
  <2>1. ASSUME NEW j \in Keys, registry'[j] # NoFlight
        PROVE  registry'[j] \in 1 .. stats'["leaders"] /\ flightKey'[registry'[j]] = j
    <3>1. CASE j = k
      <4>1. registry'[j] = f /\ flightKey'[f] = k
        BY <3>1, <1>1, <1>3, <1>4, <1>6 DEF FlightInv, FlightTypeOK, Thinned
      <4> QED
        BY <3>1, <4>1, <1>9
    <3>2. CASE j # k
      <4>1. registry'[j] = registry[j] /\ registry[j] # NoFlight
        BY <2>1, <3>2, <1>3, <1>4 DEF Thinned
      <4>2. Created(registry[j]) /\ flightKey[registry[j]] = j /\ registry[j] # f
        BY <4>1, <1>1 DEF FlightInv, RegistryInv
      <4>3. flightKey'[registry[j]] = flightKey[registry[j]]
        BY <4>1, <4>2, <1>1, <1>6 DEF FlightInv, FlightTypeOK
      <4> QED
        BY <4>1, <4>2, <4>3, <1>9
    <3> QED
      BY <3>1, <3>2
  <2>2. \A g \in Flights : g \notin 1 .. stats'["leaders"] => doneAt'[g] = Never
    BY <1>6, <1>9 DEF FlightInv, RegistryInv
  <2>3. stats'["leaders"] <= Entered' /\ Entered' <= MaxCalls
    BY <1>0, <1>8, BoundsAssumption DEF FlightInv, FlightTypeOK, RegistryInv, Counters
  <2> QED
    BY <2>1, <2>2, <2>3 DEF RegistryInv, Created
<1>11. LeaderInv'
  <2>1. ASSUME NEW d \in Callers, d # c, pc[d] = "leading"
        PROVE  /\ flight'[d] = flight[d] /\ flight[d] # f
               /\ flight[d] \in 1 .. stats'["leaders"] /\ doneAt'[flight[d]] = Never
               /\ flightKey'[flight[d]] \in Keys
               /\ registry'[flightKey'[flight[d]]] = flight[d]
    <3>1. /\ Created(flight[d]) /\ doneAt[flight[d]] = Never /\ flight[d] \in Flights
          /\ flightKey[flight[d]] \in Keys /\ registry[flightKey[flight[d]]] = flight[d]
          /\ flight[d] # NoFlight /\ flight[d] # f
      BY <2>1, <1>1 DEF FlightInv, FlightTypeOK, LeaderInv, Created, NoFlight
    <3>2. room[flightKey[flight[d]]] = flight[d]
      BY <3>1, <1>4 DEF Thinned, CompletedKey, Completed
    <3>3. flightKey[flight[d]] # k
      BY <3>1, <3>2, <1>5
    <3>4. flightKey'[flight[d]] = flightKey[flight[d]] /\ flight'[d] = flight[d] /\ doneAt' = doneAt
      BY <2>1, <3>1, <1>6 DEF FlightInv, FlightTypeOK
    <3>5. registry'[flightKey[flight[d]]] = flight[d]
      BY <3>1, <3>2, <3>3, <1>3, <1>4 DEF Thinned
    <3> QED
      BY <3>1, <3>4, <3>5, <1>9
  <2>2. /\ flight'[c] = f /\ f \in 1 .. stats'["leaders"] /\ doneAt'[f] = Never
        /\ flightKey'[f] = k /\ registry'[k] = f
    BY <1>1, <1>3, <1>4, <1>6, <1>9 DEF FlightInv, FlightTypeOK, RegistryInv, Thinned
  <2>3. \A d \in Callers : d # c => pc'[d] = pc[d]
    BY <1>6 DEF FlightInv, FlightTypeOK
  <2>4. \A d \in Callers : pc'[d] = "leading" =>
           /\ flight'[d] \in 1 .. stats'["leaders"]
           /\ doneAt'[flight'[d]] = Never
           /\ flightKey'[flight'[d]] \in Keys
           /\ registry'[flightKey'[flight'[d]]] = flight'[d]
    BY <2>1, <2>2, <2>3
  <2>5. \A d, e \in Callers :
           pc'[d] = "leading" /\ pc'[e] = "leading" /\ flight'[d] = flight'[e] => d = e
    BY <2>1, <2>2, <2>3 DEF FlightInv, LeaderInv
  <2> QED
    BY <2>4, <2>5 DEF LeaderInv, Created
<1>12. \A d \in Callers : (Joined(d)' <=> Joined(d)) /\ (Joined(d) => flight'[d] = flight[d])
  BY <1>6 DEF RunLead, MayCall, Joined, FlightInv, FlightTypeOK
<1>13. FollowerInv' /\ OutcomeInv'
  <2>1. \A d \in Callers : pc'[d] = "reading" => pc[d] = "reading" /\ d # c
    BY <1>6 DEF FlightInv, FlightTypeOK
  <2>2. \A d \in Callers : d # c => flight'[d] = flight[d] /\ pc'[d] = pc[d]
    BY <1>6 DEF FlightInv, FlightTypeOK
  <2>3. \A d \in Callers : Joined(d)' \/ pc'[d] = "reading" => flight'[d] \in 1 .. stats'["leaders"]
    BY <2>1, <2>2, <1>9, <1>12 DEF FlightInv, FollowerInv
  <2>4. \A d \in Callers : pc'[d] \in {"woken", "reading"} => doneAt'[flight'[d]] # Never
    BY <2>1, <2>2, <1>6 DEF FlightInv, FlightTypeOK, FollowerInv, Completed
  <2> QED
    BY <2>3, <2>4, <1>6 DEF FollowerInv, OutcomeInv, Created, Completed, FlightInv
<1>14. WithinCapacity'
  <2>1. Cardinality(Entries(registry')) <= Cardinality(Entries(room)) + 1
    BY <1>1, <1>3, <1>4, OneMoreEntry DEF Thinned
  <2>2. Cardinality(Entries(room)) \in Nat /\ Cardinality(Entries(registry')) \in Nat
    BY EntriesFinite
  <2>3. Cardinality(Entries(registry')) <= MaxEntries
    BY <2>1, <2>2, <1>4, BoundsAssumption
  <2> QED
    BY <2>3 DEF WithinCapacity, Entries
<1>15. WaiterAccounting'
  <2>1. waiters' = waiters /\ stats'["followers"] = stats["followers"]
    BY <1>6 DEF FlightInv, FlightTypeOK, Counters
  <2> QED
    BY <2>1, <1>12, AccountingUnchanged DEF FlightInv
<1> QED
  BY <1>7, <1>10, <1>11, <1>13, <1>14, <1>15 DEF FlightInv


\* A step that creates and completes no flight, moves no leader and takes at
\* most completed flights out of the registry: what the leaders rely on is kept.
LEMMA ThinningStep ==
    ASSUME FlightInv, Thinned(registry, registry'),
           UNCHANGED <<flightKey, doneAt, outcome>>,
           stats'["leaders"] = stats["leaders"],
           stats'["leaders"] <= Entered' /\ Entered' <= MaxCalls,
           \A d \in Callers : pc'[d] = "leading" => pc[d] = "leading" /\ flight'[d] = flight[d]
    PROVE  RegistryInv' /\ LeaderInv' /\ OutcomeInv' /\ WithinCapacity'
<1>1. RegistryInv'
  <2>1. \A j \in Keys : registry'[j] # NoFlight => registry'[j] = registry[j]
    BY DEF Thinned
  <2>2. \A j \in Keys : registry'[j] # NoFlight =>
           registry'[j] \in 1 .. stats'["leaders"] /\ flightKey'[registry'[j]] = j
    BY <2>1 DEF FlightInv, RegistryInv, Created
  <2>3. \A g \in Flights : g \notin 1 .. stats'["leaders"] => doneAt'[g] = Never
    BY DEF FlightInv, RegistryInv, Created
  <2> QED
    BY <2>2, <2>3 DEF RegistryInv, Created
<1>2. LeaderInv'
  <2>1. ASSUME NEW d \in Callers, pc'[d] = "leading"
        PROVE  /\ flight'[d] \in 1 .. stats'["leaders"]
               /\ doneAt'[flight'[d]] = Never
               /\ flightKey'[flight'[d]] \in Keys
               /\ registry'[flightKey'[flight'[d]]] = flight'[d]
    <3>1. /\ flight'[d] = flight[d] /\ Created(flight[d]) /\ doneAt[flight[d]] = Never
          /\ flightKey[flight[d]] \in Keys /\ registry[flightKey[flight[d]]] = flight[d]
      BY <2>1 DEF FlightInv, LeaderInv
    <3>2. registry'[flightKey[flight[d]]] = flight[d]
      BY <3>1 DEF Thinned, CompletedKey, Completed
    <3> QED
      BY <3>1, <3>2 DEF Created
  <2>2. \A d, e \in Callers :
           pc'[d] = "leading" /\ pc'[e] = "leading" /\ flight'[d] = flight'[e] => d = e
    BY DEF FlightInv, LeaderInv
  <2> QED
    BY <2>1, <2>2 DEF LeaderInv, Created
<1>3. OutcomeInv'
  BY DEF FlightInv, OutcomeInv, Completed
<1>4. WithinCapacity'
  <2>1. Cardinality(Entries(registry')) <= Cardinality(Entries(registry))
    BY ThinnedIsSmaller
  <2>2. Cardinality(Entries(registry')) <= MaxEntries
    BY <2>1, EntriesFinite, BoundsAssumption DEF FlightInv, WithinCapacity
  <2> QED
    BY <2>2 DEF WithinCapacity, Entries
<1> QED
  BY <1>1, <1>2, <1>3, <1>4

\* The steps that touch nothing but the registry and the clock: invalidate(),
\* stats() and the passing of time.
LEMMA RegistryStepIInv ==
    ASSUME FlightInv, Thinned(registry, registry'), clock' \in 0 .. MaxClock,
           UNCHANGED <<flightKey, doneAt, outcome, waiters, stats, pc, flight, result>>
    PROVE  FlightInv'
<1>1. FlightTypeOK'
  BY DEF FlightInv, FlightTypeOK, Thinned
<1>2. Entered' = Entered
  BY DEF Entered
<1>3. RegistryInv' /\ LeaderInv' /\ OutcomeInv' /\ WithinCapacity'
  BY <1>2, ThinningStep DEF FlightInv, RegistryInv
<1>4. FollowerInv'
  BY DEF FlightInv, FollowerInv, Joined, Created, Completed
<1>5. WaiterAccounting'
  BY AccountingUnchanged DEF FlightInv, Joined
<1> QED
  BY <1>1, <1>3, <1>4, <1>5 DEF FlightInv

LEMMA InvalidateIInv ==
    ASSUME FlightInv, NEW k \in Keys, Invalidate(k)
    PROVE  FlightInv'
<1>1. Thinned(registry, registry')
  BY DEF FlightInv, FlightTypeOK, Invalidate, Thinned
<1> QED
  BY <1>1, RegistryStepIInv DEF Invalidate, FlightInv, FlightTypeOK

LEMMA StatsIInv ==
    ASSUME FlightInv, Stats
    PROVE  FlightInv'
<1>1. Thinned(registry, registry')
  BY ExpireThins DEF FlightInv, Stats
<1> QED
  BY <1>1, RegistryStepIInv DEF Stats, FlightInv, FlightTypeOK

LEMMA TickIInv ==
    ASSUME FlightInv, Tick
    PROVE  FlightInv'
<1>1. Thinned(registry, registry')
  BY DEF FlightInv, FlightTypeOK, Tick, Thinned
<1>2. clock' \in 0 .. MaxClock
  BY BoundsAssumption DEF FlightInv, FlightTypeOK, Tick
<1> QED
  BY <1>1, <1>2, RegistryStepIInv DEF Tick

\* The first locked section of run(), when the registry is full.
LEMMA RunRejectIInv ==
    ASSUME FlightInv, NEW c \in Callers, NEW k \in Keys, RunReject(c, k)
    PROVE  FlightInv'
<1>1. Thinned(registry, registry')
  BY ExpireThins DEF FlightInv, RunReject
<1>2. /\ stats' = [stats EXCEPT !["rejections"] = @ + 1]
      /\ result' = [result EXCEPT ![c] = "capacity"]
      /\ UNCHANGED <<clock, flightKey, doneAt, outcome, waiters, pc, flight>>
  BY DEF RunReject
<1>3. FlightTypeOK'
  BY <1>1, <1>2 DEF FlightInv, FlightTypeOK, Thinned, Counters, Results
<1>4. /\ stats'["leaders"] = stats["leaders"] /\ stats'["followers"] = stats["followers"]
      /\ Entered' = Entered + 1 /\ Entered < MaxCalls /\ Entered \in Nat
      /\ stats["leaders"] \in Nat
  BY <1>2 DEF RunReject, MayCall, FlightInv, FlightTypeOK, Counters, Entered
<1>5. stats'["leaders"] <= Entered' /\ Entered' <= MaxCalls
  BY <1>4, BoundsAssumption DEF FlightInv, RegistryInv
<1>6. RegistryInv' /\ LeaderInv' /\ OutcomeInv' /\ WithinCapacity'
  BY <1>1, <1>2, <1>4, <1>5, ThinningStep
<1>7. FollowerInv'
  BY <1>2, <1>4 DEF FlightInv, FollowerInv, Joined, Created, Completed
<1>8. WaiterAccounting'
  BY <1>2, <1>4, AccountingUnchanged DEF FlightInv, Joined
<1> QED
  BY <1>3, <1>6, <1>7, <1>8 DEF FlightInv


\* The accounting of followers when one joins flight f.
LEMMA FollowerJoins ==
    ASSUME FlightTypeOK, WaiterAccounting, NEW c \in Callers, NEW f \in Flights,
           ~Joined(c), Joined(c)', flight'[c] = f,
           \A d \in Callers : d # c => flight'[d] = flight[d] /\ pc'[d] = pc[d],
           waiters' = [waiters EXCEPT ![f] = @ + 1],
           stats'["followers"] = stats["followers"] + 1
    PROVE  WaiterAccounting'
<1>1. {d \in Callers : Joined(d)}' = {d \in Callers : Joined(d)} \cup {c}
  BY DEF Joined
<1>2. WaitingOn(f)' = WaitingOn(f) \cup {c} /\ c \notin WaitingOn(f)
  BY DEF WaitingOn, Joined
<1>3. \A g \in Flights : g # f => WaitingOn(g)' = WaitingOn(g)
  BY DEF WaitingOn, Joined
<1>4. Cardinality(WaitingOn(f) \cup {c}) = Cardinality(WaitingOn(f)) + 1
  BY <1>2, FollowersFinite, FS_AddElement
<1>5. Cardinality({d \in Callers : Joined(d)} \cup {c})
         = Cardinality({d \in Callers : Joined(d)}) + 1
  BY FollowersFinite, FS_AddElement
<1>6. \A g \in Flights : waiters'[g] = Cardinality(WaitingOn(g)')
  BY <1>2, <1>3, <1>4 DEF FlightTypeOK, WaiterAccounting
<1>7. stats'["followers"] = Cardinality({d \in Callers : Joined(d)}')
  BY <1>1, <1>5 DEF WaiterAccounting
<1> QED
  BY <1>6, <1>7 DEF WaiterAccounting

\* The accounting of followers when one leaves the flight it waited on.
LEMMA FollowerLeaves ==
    ASSUME FlightTypeOK, WaiterAccounting, NEW c \in Callers,
           Joined(c), ~Joined(c)', flight[c] \in Flights,
           \A d \in Callers : d # c => flight'[d] = flight[d] /\ pc'[d] = pc[d],
           waiters' = [waiters EXCEPT ![flight[c]] = @ - 1],
           stats'["followers"] = stats["followers"] - 1
    PROVE  /\ WaiterAccounting'
           /\ waiters[flight[c]] - 1 \in Nat
           /\ stats["followers"] - 1 \in Nat
<1>0. PICK f \in Flights : f = flight[c]
  OBVIOUS
<1>1. {d \in Callers : Joined(d)}' = {d \in Callers : Joined(d)} \ {c}
  BY DEF Joined
<1>2. WaitingOn(f)' = WaitingOn(f) \ {c} /\ c \in WaitingOn(f)
  BY <1>0 DEF WaitingOn, Joined
<1>3. \A g \in Flights : g # f => WaitingOn(g)' = WaitingOn(g)
  BY <1>0 DEF WaitingOn, Joined
<1>4. /\ Cardinality(WaitingOn(f) \ {c}) = Cardinality(WaitingOn(f)) - 1
      /\ Cardinality(WaitingOn(f) \ {c}) \in Nat
  <2>1. IsFiniteSet(WaitingOn(f)) /\ IsFiniteSet(WaitingOn(f) \ {c})
    BY <1>2, FollowersFinite, FS_RemoveElement
  <2> QED
    BY <2>1, <1>2, FS_RemoveElement, FS_CardinalityType
<1>5. /\ Cardinality({d \in Callers : Joined(d)} \ {c})
           = Cardinality({d \in Callers : Joined(d)}) - 1
      /\ Cardinality({d \in Callers : Joined(d)} \ {c}) \in Nat
  <2>1. /\ IsFiniteSet({d \in Callers : Joined(d)})
        /\ IsFiniteSet({d \in Callers : Joined(d)} \ {c})
    BY FollowersFinite, FS_RemoveElement
  <2>2. c \in {d \in Callers : Joined(d)}
    OBVIOUS
  <2> QED
    BY <2>1, <2>2, FS_RemoveElement, FS_CardinalityType
<1>6. \A g \in Flights : waiters'[g] = Cardinality(WaitingOn(g)')
  BY <1>0, <1>2, <1>3, <1>4 DEF FlightTypeOK, WaiterAccounting
<1>7. stats'["followers"] = Cardinality({d \in Callers : Joined(d)}')
  BY <1>1, <1>5 DEF WaiterAccounting
<1>8. waiters[flight[c]] - 1 \in Nat /\ stats["followers"] - 1 \in Nat
  BY <1>0, <1>4, <1>5 DEF WaiterAccounting
<1> QED
  BY <1>6, <1>7, <1>8 DEF WaiterAccounting

\* The first locked section of run(), when the key has an active flight.
LEMMA RunJoinActiveIInv ==
    ASSUME FlightInv, NEW c \in Callers, NEW k \in Keys, RunJoinActive(c, k)
    PROVE  FlightInv'
<1>0. PICK f : f = ExpireCompleted(registry)[k]
  OBVIOUS
<1>1. Thinned(registry, registry') /\ registry' = ExpireCompleted(registry)
  BY ExpireThins DEF FlightInv, RunJoinActive
<1>2. /\ waiters' = [waiters EXCEPT ![f] = @ + 1]
      /\ stats' = [stats EXCEPT !["shared"] = @ + 1, !["followers"] = @ + 1]
      /\ pc' = [pc EXCEPT ![c] = "waiting"]
      /\ flight' = [flight EXCEPT ![c] = f]
      /\ UNCHANGED <<clock, flightKey, doneAt, outcome, result>>
      /\ pc[c] = "idle" /\ Entered < MaxCalls /\ f # NoFlight
  BY <1>0 DEF RunJoinActive, MayCall
<1>3. f \in Flights /\ Created(f)
  BY <1>0, <1>1, <1>2 DEF Thinned, FlightInv, RegistryInv
<1>4. /\ stats'["leaders"] = stats["leaders"]
      /\ stats'["followers"] = stats["followers"] + 1
      /\ Entered' = Entered + 1 /\ Entered \in Nat
      /\ stats["leaders"] \in Nat /\ stats' \in [Counters -> Nat]
  BY <1>2 DEF FlightInv, FlightTypeOK, Counters, Entered
<1>5. FlightTypeOK'
  <2>1. waiters' \in [Flights -> Nat] /\ pc' \in [Callers -> FlightPlaces]
    BY <1>2, <1>3 DEF FlightInv, FlightTypeOK, FlightPlaces
  <2> QED
    BY <1>1, <1>2, <1>3, <1>4, <2>1 DEF FlightInv, FlightTypeOK, Thinned
<1>6. stats'["leaders"] <= Entered' /\ Entered' <= MaxCalls
  BY <1>2, <1>4, BoundsAssumption DEF FlightInv, RegistryInv
<1>7. \A d \in Callers : d # c => flight'[d] = flight[d] /\ pc'[d] = pc[d]
  BY <1>2 DEF FlightInv, FlightTypeOK
<1>8. pc'[c] = "waiting" /\ flight'[c] = f
  BY <1>2 DEF FlightInv, FlightTypeOK
<1>9. RegistryInv' /\ LeaderInv' /\ OutcomeInv' /\ WithinCapacity'
  BY <1>1, <1>2, <1>4, <1>6, <1>7, <1>8, ThinningStep
<1>10. FollowerInv'
  BY <1>2, <1>3, <1>4, <1>7, <1>8 DEF FlightInv, FollowerInv, Joined, Created, Completed
<1>11. WaiterAccounting'
  BY <1>2, <1>3, <1>4, <1>7, <1>8, FollowerJoins DEF FlightInv, Joined
<1> QED
  BY <1>5, <1>9, <1>10, <1>11 DEF FlightInv

\* The first locked section of run(), when the key has a completed flight.
LEMMA RunJoinCompletedIInv ==
    ASSUME FlightInv, NEW c \in Callers, NEW k \in Keys, RunJoinCompleted(c, k)
    PROVE  FlightInv'
<1>0. PICK f : f = ExpireCompleted(registry)[k]
  OBVIOUS
<1>1. Thinned(registry, registry') /\ registry' = ExpireCompleted(registry)
  BY ExpireThins DEF FlightInv, RunJoinCompleted
<1>2. /\ stats' = [stats EXCEPT !["shared"] = @ + 1]
      /\ pc' = [pc EXCEPT ![c] = "reading"]
      /\ flight' = [flight EXCEPT ![c] = f]
      /\ UNCHANGED <<clock, flightKey, doneAt, outcome, waiters, result>>
      /\ pc[c] = "idle" /\ Entered < MaxCalls /\ f # NoFlight /\ Completed(f)
  BY <1>0 DEF RunJoinCompleted, MayCall
<1>3. f \in Flights /\ Created(f)
  BY <1>0, <1>1, <1>2 DEF Thinned, FlightInv, RegistryInv
<1>4. /\ stats'["leaders"] = stats["leaders"]
      /\ stats'["followers"] = stats["followers"]
      /\ Entered' = Entered + 1 /\ Entered \in Nat
      /\ stats["leaders"] \in Nat /\ stats' \in [Counters -> Nat]
  BY <1>2 DEF FlightInv, FlightTypeOK, Counters, Entered
<1>5. FlightTypeOK'
  <2>1. pc' \in [Callers -> FlightPlaces]
    BY <1>2, <1>3 DEF FlightInv, FlightTypeOK, FlightPlaces
  <2> QED
    BY <1>1, <1>2, <1>3, <1>4, <2>1 DEF FlightInv, FlightTypeOK, Thinned
<1>6. stats'["leaders"] <= Entered' /\ Entered' <= MaxCalls
  BY <1>2, <1>4, BoundsAssumption DEF FlightInv, RegistryInv
<1>7. \A d \in Callers : d # c => flight'[d] = flight[d] /\ pc'[d] = pc[d]
  BY <1>2 DEF FlightInv, FlightTypeOK
<1>8. pc'[c] = "reading" /\ flight'[c] = f
  BY <1>2 DEF FlightInv, FlightTypeOK
<1>9. RegistryInv' /\ LeaderInv' /\ OutcomeInv' /\ WithinCapacity'
  BY <1>1, <1>2, <1>4, <1>6, <1>7, <1>8, ThinningStep
<1>10. FollowerInv'
  BY <1>2, <1>3, <1>4, <1>7, <1>8 DEF FlightInv, FollowerInv, Joined, Created, Completed
<1>11. WaiterAccounting'
  BY <1>2, <1>4, <1>7, <1>8, AccountingUnchanged DEF FlightInv, Joined
<1> QED
  BY <1>5, <1>9, <1>10, <1>11 DEF FlightInv


\* The leader's second locked section.
LEMMA FinishIInv ==
    ASSUME FlightInv, NEW c \in Callers, NEW o \in Outcomes, Finish(c, o)
    PROVE  FlightInv'
<1>0. PICK f : f = flight[c]
  OBVIOUS
<1>1. /\ f \in Flights /\ Created(f) /\ doneAt[f] = Never /\ clock \in Nat
  BY <1>0, BoundsAssumption
     DEF FlightInv, FlightTypeOK, LeaderInv, RegistryInv, Finish, Created, Flights, NoFlight
<1>2. /\ pc[c] = "leading"
      /\ outcome' = [outcome EXCEPT ![f] = o]
      /\ doneAt' = [doneAt EXCEPT ![f] = clock]
      /\ pc' = [pc EXCEPT ![c] = "idle"]
      /\ result' = [result EXCEPT ![c] = o]
      /\ UNCHANGED <<clock, registry, flightKey, waiters, stats, flight>>
  BY <1>0 DEF Finish
<1>3. FlightTypeOK'
  <2>1. pc' \in [Callers -> FlightPlaces] /\ result' \in [Callers -> Results]
    BY <1>2 DEF FlightInv, FlightTypeOK, FlightPlaces, Results
  <2>2. doneAt' \in [Flights -> Nat \cup {Never}] /\ outcome' \in [Flights -> Outcomes \cup {"none"}]
    BY <1>1, <1>2 DEF FlightInv, FlightTypeOK
  <2> QED
    BY <1>2, <2>1, <2>2 DEF FlightInv, FlightTypeOK
<1>4. RegistryInv'
  BY <1>1, <1>2 DEF FlightInv, FlightTypeOK, RegistryInv, Created, Entered
<1>5. \A d \in Callers : d # c => pc'[d] = pc[d]
  BY <1>2 DEF FlightInv, FlightTypeOK
<1>6. pc'[c] = "idle"
  BY <1>2 DEF FlightInv, FlightTypeOK
<1>7. LeaderInv'
  <2>1. \A d \in Callers : pc'[d] = "leading" => pc[d] = "leading" /\ flight[d] # f
    BY <1>0, <1>2, <1>5, <1>6 DEF FlightInv, LeaderInv
  <2>2. \A d \in Callers : pc'[d] = "leading" => doneAt'[flight[d]] = Never
    BY <2>1, <1>2 DEF FlightInv, FlightTypeOK, LeaderInv
  <2> QED
    BY <1>2, <2>1, <2>2 DEF FlightInv, LeaderInv, Created
<1>8. \A g \in Flights : doneAt[g] # Never => doneAt'[g] # Never
  BY <1>1, <1>2 DEF FlightInv, FlightTypeOK
<1>9. FollowerInv'
  <2>1. \A d \in Callers : Joined(d)' \/ pc'[d] = "reading" => flight'[d] \in 1 .. stats'["leaders"]
    BY <1>2, <1>5, <1>6 DEF FlightInv, FollowerInv, Joined, Created
  <2>2. ASSUME NEW d \in Callers, pc'[d] \in {"woken", "reading"}
        PROVE  doneAt'[flight'[d]] # Never
    <3>1. Completed(flight[d]) /\ pc[d] \in {"woken", "reading"}
      BY <2>2, <1>5, <1>6 DEF FlightInv, FollowerInv
    <3>2. flight[d] \in Flights
      BY <3>1, BoundsAssumption
         DEF FlightInv, FlightTypeOK, FollowerInv, RegistryInv, Created, Joined, Flights, NoFlight
    <3> QED
      BY <3>1, <3>2, <1>2, <1>8 DEF Completed
  <2> QED
    BY <2>1, <2>2 DEF FollowerInv, Created, Completed
<1>10. OutcomeInv'
  BY <1>1, <1>2 DEF FlightInv, FlightTypeOK, OutcomeInv, Completed
<1>11. WithinCapacity'
  BY <1>2 DEF FlightInv, WithinCapacity, Entries
<1>12. WaiterAccounting'
  BY <1>2, <1>5, <1>6, AccountingUnchanged DEF FlightInv, Joined
<1> QED
  BY <1>3, <1>4, <1>7, <1>9, <1>10, <1>11, <1>12 DEF FlightInv

\* The steps of a follower that leave the flights and the registry alone.
LEMMA FollowerStepIInv ==
    ASSUME FlightInv, NEW c \in Callers, FlightTypeOK', WaiterAccounting',
           UNCHANGED <<clock, registry, flightKey, doneAt, outcome, flight>>,
           stats'["leaders"] = stats["leaders"], Entered' = Entered,
           Joined(c) \/ pc[c] = "reading",
           \A d \in Callers : d # c => pc'[d] = pc[d],
           pc'[c] # "leading",
           pc'[c] \in {"woken", "reading"} => Completed(flight[c])
    PROVE  FlightInv'
<1>1. Thinned(registry, registry')
  BY DEF FlightInv, FlightTypeOK, Thinned
<1>2. RegistryInv' /\ LeaderInv' /\ OutcomeInv' /\ WithinCapacity'
  BY <1>1, ThinningStep DEF FlightInv, RegistryInv
<1>3. FollowerInv'
  BY DEF FlightInv, FollowerInv, Joined, Created, Completed
<1> QED
  BY <1>2, <1>3 DEF FlightInv

\* The wait on the event returns, either way.
LEMMA WaitReturnsIInv ==
    ASSUME FlightInv, NEW c \in Callers, Wake(c) \/ WaitExpires(c)
    PROVE  FlightInv'
<1>1. /\ pc[c] = "waiting"
      /\ pc'[c] \in {"woken", "expired"} /\ (pc'[c] = "woken" => Completed(flight[c]))
      /\ pc' \in [Callers -> FlightPlaces]
      /\ \A d \in Callers : d # c => pc'[d] = pc[d]
      /\ UNCHANGED <<clock, registry, flightKey, doneAt, outcome, waiters, stats, flight, result>>
  BY DEF Wake, WaitExpires, FlightInv, FlightTypeOK, FlightPlaces
<1>2. FlightTypeOK'
  BY <1>1 DEF FlightInv, FlightTypeOK
<1>3. WaiterAccounting'
  BY <1>1, AccountingUnchanged DEF FlightInv, Joined
<1>4. Entered' = Entered
  BY <1>1 DEF Entered
<1> QED
  BY <1>1, <1>2, <1>3, <1>4, FollowerStepIInv DEF Joined

\* The follower's locked section.
LEMMA LeaveIInv ==
    ASSUME FlightInv, NEW c \in Callers, Leave(c)
    PROVE  FlightInv'
<1>1. /\ pc[c] \in {"woken", "expired"}
      /\ waiters' = [waiters EXCEPT ![flight[c]] = @ - 1]
      /\ UNCHANGED <<clock, registry, flightKey, doneAt, outcome, flight>>
  BY DEF Leave
<1>2. flight[c] \in Flights
  BY <1>1, BoundsAssumption
     DEF FlightInv, FlightTypeOK, FollowerInv, RegistryInv, Created, Joined, Flights, NoFlight
<1>3. /\ \A d \in Callers : d # c => pc'[d] = pc[d]
      /\ pc'[c] \in {"reading", "idle"} /\ (pc'[c] = "reading" => pc[c] = "woken")
      /\ pc' \in [Callers -> FlightPlaces] /\ result' \in [Callers -> Results]
  BY DEF Leave, FlightInv, FlightTypeOK, FlightPlaces, Results
<1>4. /\ stats'["followers"] = stats["followers"] - 1
      /\ stats'["leaders"] = stats["leaders"] /\ Entered' = Entered
      /\ \A s \in Counters : s # "followers" => stats'[s] \in Nat
      /\ stats' = [s \in Counters |-> stats'[s]]
  BY DEF Leave, FlightInv, FlightTypeOK, Counters, Entered
<1>5. /\ WaiterAccounting'
      /\ waiters[flight[c]] - 1 \in Nat
      /\ stats["followers"] - 1 \in Nat
  BY <1>1, <1>2, <1>3, <1>4, FollowerLeaves DEF FlightInv, Joined
<1>6. FlightTypeOK'
  <2>1. waiters' \in [Flights -> Nat]
    BY <1>1, <1>2, <1>5 DEF FlightInv, FlightTypeOK
  <2>2. stats' \in [Counters -> Nat]
    BY <1>4, <1>5
  <2> QED
    BY <1>1, <1>3, <2>1, <2>2 DEF FlightInv, FlightTypeOK
<1>7. pc'[c] \in {"woken", "reading"} => Completed(flight[c])
  BY <1>3 DEF FlightInv, FollowerInv
<1> QED
  BY <1>1, <1>3, <1>4, <1>5, <1>6, <1>7, FollowerStepIInv DEF Joined

\* Reading the outcome, without the lock.
LEMMA ReadIInv ==
    ASSUME FlightInv, NEW c \in Callers, Read(c)
    PROVE  FlightInv'
<1>1. /\ pc[c] = "reading" /\ pc'[c] = "idle"
      /\ \A d \in Callers : d # c => pc'[d] = pc[d]
      /\ pc' \in [Callers -> FlightPlaces]
      /\ result' = [result EXCEPT ![c] = outcome[flight[c]]]
      /\ UNCHANGED <<clock, registry, flightKey, doneAt, outcome, waiters, stats, flight>>
  BY DEF Read, FlightInv, FlightTypeOK, FlightPlaces
<1>2. flight[c] \in Flights
  BY <1>1, BoundsAssumption
     DEF FlightInv, FlightTypeOK, FollowerInv, RegistryInv, Created, Joined, Flights, NoFlight
<1>3. FlightTypeOK'
  BY <1>1, <1>2 DEF FlightInv, FlightTypeOK, Results
<1>4. WaiterAccounting'
  BY <1>1, AccountingUnchanged DEF FlightInv, Joined
<1>5. Entered' = Entered
  BY <1>1 DEF Entered
<1> QED
  BY <1>1, <1>3, <1>4, <1>5, FollowerStepIInv

LEMMA NextIInv == FlightInv /\ [FlightNext]_flightVars => FlightInv'
<1> SUFFICES ASSUME FlightInv, [FlightNext]_flightVars PROVE FlightInv'
  OBVIOUS
<1>1. CASE \E c \in Callers : Run(c)
  BY <1>1, RunLeadIInv, RunRejectIInv, RunJoinActiveIInv, RunJoinCompletedIInv DEF Run
<1>2. CASE \E c \in Callers, o \in Outcomes : Finish(c, o)
  BY <1>2, FinishIInv
<1>3. CASE \E c \in Callers : Follow(c)
  BY <1>3, WaitReturnsIInv, LeaveIInv, ReadIInv DEF Follow
<1>4. CASE \E k \in Keys : Invalidate(k)
  BY <1>4, InvalidateIInv
<1>5. CASE Stats
  BY <1>5, StatsIInv
<1>6. CASE Tick
  BY <1>6, TickIInv
<1>7. CASE UNCHANGED flightVars
  <2>1. Thinned(registry, registry') /\ clock' \in 0 .. MaxClock
    BY <1>7 DEF flightVars, FlightInv, FlightTypeOK, Thinned
  <2> QED
    BY <1>7, <2>1, RegistryStepIInv DEF flightVars
<1> QED
  BY <1>1, <1>2, <1>3, <1>4, <1>5, <1>6, <1>7 DEF FlightNext

\* The inductive invariant holds in every state of run(), invalidate() and stats().
THEOREM FlightInvariance == FlightSpec => []FlightInv
BY InitIInv, NextIInv, PTL DEF FlightSpec

----------------------------------------------------------------------------
(* The properties                                                          *)

\* The counters never go negative and every variable keeps its type.
THEOREM FlightTypes == FlightSpec => []FlightTypeOK
<1>1. FlightInv => FlightTypeOK
  BY DEF FlightInv
<1> QED
  BY <1>1, FlightInvariance, PTL

\* No two threads ever execute the operation for one key at the same time.
THEOREM Coalesced == FlightSpec => []OneLeaderPerKey
<1>1. FlightInv => OneLeaderPerKey
  <2> SUFFICES ASSUME FlightInv, NEW c \in Callers, NEW d \in Callers,
                      pc[c] = "leading", pc[d] = "leading",
                      flightKey[flight[c]] = flightKey[flight[d]]
               PROVE  c = d
    BY DEF OneLeaderPerKey
  <2>1. flight[c] = flight[d]
    BY DEF FlightInv, LeaderInv
  <2> QED
    BY <2>1 DEF FlightInv, LeaderInv
<1> QED
  BY <1>1, FlightInvariance, PTL

\* The registry of flights is bounded by max_entries.
THEOREM Bounded == FlightSpec => []WithinCapacity
<1>1. FlightInv => WithinCapacity
  BY DEF FlightInv
<1> QED
  BY <1>1, FlightInvariance, PTL

\* flight.waiters and followers_waiting count the registered followers exactly.
THEOREM Accounted == FlightSpec => []WaiterAccounting
<1>1. FlightInv => WaiterAccounting
  BY DEF FlightInv
<1> QED
  BY <1>1, FlightInvariance, PTL

\* The unlocked read at the end of run() finds the outcome of a completed operation.
THEOREM ReadsOutcome == FlightSpec => []ReadsACompletedFlight
<1>1. FlightInv => ReadsACompletedFlight
  <2> SUFFICES ASSUME FlightInv, NEW c \in Callers, pc[c] = "reading"
               PROVE  outcome[flight[c]] \in Outcomes
    BY DEF ReadsACompletedFlight
  <2>1. flight[c] \in Flights
    BY BoundsAssumption
       DEF FlightInv, FlightTypeOK, FollowerInv, RegistryInv, Created, Joined, Flights, NoFlight
  <2> QED
    BY <2>1 DEF FlightInv, FollowerInv, OutcomeInv
<1> QED
  BY <1>1, FlightInvariance, PTL


\* A retained result is handed to a new caller only inside its TTL.
THEOREM Fresh == FlightSpec => SharedResultIsFresh
<1> DEFINE Shared ==
      \A c \in Callers :
          pc[c] = "idle" /\ pc'[c] = "reading" =>
              /\ doneAt[flight'[c]] # Never
              /\ clock - doneAt[flight'[c]] < ResultTTL
<1>1. FlightInv /\ [FlightNext]_flightVars => [Shared]_flightVars
  <2> SUFFICES ASSUME FlightInv, FlightNext, NEW c \in Callers, pc[c] = "idle", pc'[c] = "reading"
               PROVE  doneAt[flight'[c]] # Never /\ clock - doneAt[flight'[c]] < ResultTTL
    OBVIOUS
  <2>1. PICK k \in Keys : RunJoinCompleted(c, k)
    <3>1. \A d \in Callers, j \in Keys : ~RunReject(d, j) /\ ~RunLead(d, j) /\ ~RunJoinActive(d, j)
      BY DEF RunReject, RunLead, RunJoinActive, FlightInv, FlightTypeOK
    <3>2. \A d \in Callers, o \in Outcomes : ~Finish(d, o)
      BY DEF Finish, FlightInv, FlightTypeOK
    <3>3. \A d \in Callers : ~Follow(d)
      BY DEF Follow, Wake, WaitExpires, Leave, Read, FlightInv, FlightTypeOK
    <3>4. (\A j \in Keys : ~Invalidate(j)) /\ ~Stats /\ ~Tick
      BY DEF Invalidate, Stats, Tick
    <3>5. PICK d \in Callers : \E j \in Keys : RunJoinCompleted(d, j)
      BY <3>1, <3>2, <3>3, <3>4 DEF FlightNext, Run
    <3>6. d = c
      BY <3>5 DEF RunJoinCompleted, FlightInv, FlightTypeOK
    <3> QED
      BY <3>5, <3>6
  <2>2. PICK f : f = ExpireCompleted(registry)[k]
    OBVIOUS
  <2>3. flight'[c] = f /\ f # NoFlight /\ Completed(f)
    BY <2>1, <2>2 DEF RunJoinCompleted, FlightInv, FlightTypeOK
  <2>4. f \in Flights /\ ~Expired(f)
    BY <2>2, <2>3 DEF ExpireCompleted, FlightInv, FlightTypeOK
  <2> QED
    BY <2>3, <2>4, BoundsAssumption DEF Expired, Completed, Never, FlightInv, FlightTypeOK
<1> QED
  BY <1>1, FlightInvariance, PTL DEF FlightSpec, SharedResultIsFresh

----------------------------------------------------------------------------
(* ProviderWork                                                            *)

Recovered == {"paragraph_fallback", "paragraph_fallback_failed"}

\* Where a job is, seen from its future and from its loop variables.
ControlOf(w) ==
    /\ prov[w] <= Len(Eligible(Req(w)))
    /\ at[w] = "backoff" => tries[w] < MaxRetries(Req(w))
    /\ fut[w] = "running" <=> at[w] \notin {"start", "over"}
    /\ fut[w] \in {"done", "raised", "collected"} <=> at[w] = "over"
    /\ Req(w) \in Singles => phase[w] = 0
    /\ at[w] = "raising" => err[w] # "none"
    /\ err[w] # "none" => at[w] \in {"raising", "over"}

Control == \A w \in Jobs : ControlOf(w)

\* Every segment was recovered on its own, or all have one completion's result.
Whole(w) ==
    \/ \A k \in Segments(Req(w)) : items[w][k][1] \in Recovered
    \/ \E path \in {"direct", "envelope_retry", "failed"}, by \in {"none", "primary", "fallback"} :
          \A k \in Segments(Req(w)) : items[w][k] = <<path, by>>

\* What a job has produced so far.
OutcomeOf(w) ==
    /\ \A k \in 1 .. phase[w] - 3 : items[w][k][1] \in Recovered
    /\ fut[w] = "done" => err[w] = "none"
    /\ fut[w] = "raised" => err[w] # "none"
    /\ at[w] = "over" /\ err[w] = "none" => Whole(w)

Outcome == \A w \in Jobs : OutcomeOf(w)

\* A failure is published in the budget before the request can see it.
Published ==
    /\ \A w \in Jobs : fut[w] = "raised" /\ Req(w) \notin Singles => cancel[Req(w)] # "none"
    /\ \A r \in Requests : cancel[r] # "none" =>
          \E w \in Jobs : Req(w) = r /\ at[w] = "over" /\ err[w] # "none"
    /\ \A w \in Jobs : main[Req(w)] = "failed" =>
          IF Req(w) \in Singles THEN at[w] = "over" ELSE cancel[Req(w)] # "none"
    /\ \A w \in Jobs : main[Req(w)] # "failed" /\ fut[w] = "collected" => err[w] = "none"
    /\ \A w \in Jobs : main[Req(w)] = "returned" => fut[w] = "collected"

\* The inductive invariant.
IInv ==
    /\ TypeOK
    /\ Control
    /\ SlotsConserved
    /\ AttemptsSettled
    /\ WithinCaps
    /\ Outcome
    /\ Published

----------------------------------------------------------------------------
(* Facts about the constants                                               *)

\* There are finitely many jobs, each of one of the requests.
LEMMA JobsFinite == IsFiniteSet(Jobs) /\ \A w \in Jobs : Req(w) \in Requests
<1>1. IsFiniteSet(1 .. NGroups)
  BY LimitsAssumption, FS_Interval
<1>2. IsFiniteSet(Requests \X (1 .. NGroups))
  BY <1>1, RequestsAssumption, FS_Product
<1>3. Jobs \in SUBSET (Requests \X (1 .. NGroups))
  BY DEF Jobs
<1>4. IsFiniteSet(Jobs)
  BY <1>2, <1>3, FS_Subset
<1> QED
  BY <1>3, <1>4 DEF Req

\* A /translate request has one job.
LEMMA SingleJob ==
    ASSUME NEW v \in Jobs, NEW w \in Jobs, Req(v) = Req(w), Req(w) \in Singles
    PROVE  v = w
BY DEF Jobs, Req, GroupsOf

\* There are one or two eligible providers.
LEMMA EligibleProviders ==
    ASSUME NEW r
    PROVE  /\ Len(Eligible(r)) \in 1 .. 2
           /\ 1 <= Len(Eligible(r))
           /\ \A i \in 1 .. Len(Eligible(r)) : Eligible(r)[i] \in {"primary", "fallback"}
<1> DEFINE E == Eligible(r)
<1>1. E = <<"primary", "fallback">> \/ E = <<"primary">>
  BY DEF Eligible
<1>2. CASE E = <<"primary", "fallback">>
  <2>1. Len(E) = 2 /\ E[1] = "primary" /\ E[2] = "fallback"
    BY <1>2
  <2> HIDE DEF E
  <2>2. \A i \in 1 .. Len(E) : E[i] \in {"primary", "fallback"}
    BY <2>1
  <2> QED
    BY <2>1, <2>2 DEF E
<1>3. CASE E = <<"primary">>
  <2>1. Len(E) = 1 /\ E[1] = "primary"
    BY <1>3
  <2> HIDE DEF E
  <2>2. \A i \in 1 .. Len(E) : E[i] \in {"primary", "fallback"}
    BY <2>1
  <2> QED
    BY <2>1, <2>2 DEF E
<1> QED
  BY <1>1, <1>2, <1>3

\* The segments of a group.
LEMMA SegmentsType == \A r : Segments(r) \subseteq 1 .. GroupSize
BY LimitsAssumption DEF Segments

\* A reservation is a natural number of every resource.
LEMMA CostType ==
    ASSUME NEW w, NEW res \in Resources
    PROVE  Cost(w, res) \in Nat
BY LimitsAssumption DEF Cost, Sent, Resources

\* The jobs that f puts into one of the places P.
Inside(f, P) == {v \in Jobs : f[v] \in P}

\* Moving one thread changes the number of threads in P by at most one.
LEMMA CountMove ==
    ASSUME NEW P, NEW f, NEW g, NEW w \in Jobs, \A v \in Jobs \ {w} : g[v] = f[v]
    PROVE  /\ Cardinality(Inside(f, P)) \in Nat
           /\ Cardinality(Inside(g, P)) \in Nat
           /\ Cardinality(Inside(g, P)) = Cardinality(Inside(f, P))
                + (IF g[w] \in P THEN 1 ELSE 0) - (IF f[w] \in P THEN 1 ELSE 0)
<1> DEFINE F == Inside(f, P)
           G == Inside(g, P)
           R == F \ {w}
<1> USE DEF Inside
<1>1. IsFiniteSet(F) /\ Cardinality(F) \in Nat
  BY JobsFinite, FS_Subset, FS_CardinalityType
<1>2. IsFiniteSet(R) /\ Cardinality(R) \in Nat
      /\ Cardinality(R) = IF w \in F THEN Cardinality(F) - 1 ELSE Cardinality(F)
  BY <1>1, FS_RemoveElement, FS_CardinalityType
<1>3. g[w] \in P => G = R \cup {w}
  OBVIOUS
<1>4. g[w] \notin P => G = R
  OBVIOUS
<1>5. Cardinality(R \cup {w}) = Cardinality(R) + 1
  BY <1>2, FS_AddElement
<1>6. w \in F <=> f[w] \in P
  OBVIOUS
<1>7. Cardinality(G) \in Nat
  BY JobsFinite, FS_Subset, FS_CardinalityType
<1> HIDE DEF F, G, R
<1>8. Cardinality(G) = Cardinality(F)
            + (IF g[w] \in P THEN 1 ELSE 0) - (IF f[w] \in P THEN 1 ELSE 0)
  <2>1. Cardinality(G) = IF g[w] \in P THEN Cardinality(R) + 1 ELSE Cardinality(R)
    BY <1>3, <1>4, <1>5
  <2>2. Cardinality(R) = IF f[w] \in P THEN Cardinality(F) - 1 ELSE Cardinality(F)
    BY <1>2, <1>6
  <2> QED
    BY <2>1, <2>2, <1>1, <1>2
<1> QED
  BY <1>1, <1>7, <1>8 DEF F, G

----------------------------------------------------------------------------
(* How a step changes one job                                              *)

JobTypes ==
    /\ fut \in [Jobs -> {"pending", "submitted", "running", "done", "raised",
                         "collected", "cancelled"}]
    /\ at \in [Jobs -> Places]
    /\ phase \in [Jobs -> 0 .. GroupSize + 2]
    /\ prov \in [Jobs -> 1 .. 2]
    /\ tries \in [Jobs -> 1 .. 2]
    /\ items \in [Jobs -> [1 .. GroupSize -> Paths \X {"none", "primary", "fallback"}]]
    /\ err \in [Jobs -> Reasons \cup {"none"}]

\* The step leaves job v alone.
Same(v) ==
    /\ fut'[v] = fut[v]
    /\ at'[v] = at[v]
    /\ phase'[v] = phase[v]
    /\ prov'[v] = prov[v]
    /\ tries'[v] = tries[v]
    /\ items'[v] = items[v]
    /\ err'[v] = err[v]

\* The step changes no job but w, and leaves w in order.
LocalMove(w) ==
    /\ JobTypes'
    /\ \A v \in Jobs \ {w} : Same(v)
    /\ ControlOf(w)'
    /\ OutcomeOf(w)'

\* The semaphore and the metrics follow the thread of w.
Accounts(w) ==
    /\ free' >= 0
    /\ free' = free + (IF at[w] \in Holding THEN 1 ELSE 0) - (IF at'[w] \in Holding THEN 1 ELSE 0)
    /\ open' = open + (IF at'[w] = "call" THEN 1 ELSE 0) - (IF at[w] = "call" THEN 1 ELSE 0)

\* The facts about jobs in the inductive invariant.
JobInv == JobTypes /\ Control /\ Outcome

\* A step that leaves its own job in order leaves all of them in order.
LEMMA OthersKeep ==
    ASSUME JobInv, NEW w \in Jobs, LocalMove(w)
    PROVE  JobInv'
<1>1. JobTypes' /\ ControlOf(w)' /\ OutcomeOf(w)'
  BY DEF LocalMove
<1>2. ASSUME NEW v \in Jobs, v # w
      PROVE  ControlOf(v)' /\ OutcomeOf(v)'
  <2>1. Same(v) /\ ControlOf(v) /\ OutcomeOf(v)
    BY <1>2 DEF LocalMove, JobInv, Control, Outcome
  <2>2. ControlOf(v)'
    BY <2>1 DEF Same, ControlOf
  <2>3. OutcomeOf(v)'
    BY <2>1 DEF Same, OutcomeOf, Whole
  <2> QED
    BY <2>2, <2>3
<1> QED
  BY <1>1, <1>2 DEF JobInv, Control, Outcome

\* Slots and metrics stay in balance.
LEMMA AccountsKept ==
    ASSUME TypeOK, SlotsConserved, AttemptsSettled, NEW w \in Jobs, LocalMove(w), Accounts(w)
    PROVE  /\ SlotsConserved'
           /\ AttemptsSettled'
           /\ free' \in 0 .. Slots
           /\ open' \in Nat
<1>1. \A v \in Jobs \ {w} : at'[v] = at[v]
  BY DEF LocalMove, Same
<1> DEFINE F == Inside(at, Holding)
           G == Inside(at', Holding)
           C == Inside(at, {"call"})
           D == Inside(at', {"call"})
<1>2. /\ Cardinality(F) \in Nat
      /\ Cardinality(G) \in Nat
      /\ Cardinality(G) = Cardinality(F)
            + (IF at'[w] \in Holding THEN 1 ELSE 0) - (IF at[w] \in Holding THEN 1 ELSE 0)
  BY <1>1, CountMove
<1>3. /\ Cardinality(C) \in Nat
      /\ Cardinality(D) \in Nat
      /\ Cardinality(D) = Cardinality(C)
            + (IF at'[w] \in {"call"} THEN 1 ELSE 0) - (IF at[w] \in {"call"} THEN 1 ELSE 0)
  BY <1>1, CountMove
<1>4. /\ F = {v \in Jobs : at[v] \in Holding}
      /\ G = {v \in Jobs : at'[v] \in Holding}
      /\ C = {v \in Jobs : at[v] = "call"}
      /\ D = {v \in Jobs : at'[v] = "call"}
  BY DEF Inside
<1> HIDE DEF F, G, C, D
<1>5. free + Cardinality(F) = Slots /\ open = Cardinality(C)
  BY <1>4 DEF SlotsConserved, AttemptsSettled
<1>6. free \in Nat /\ open \in Nat /\ Slots \in Nat
  BY LimitsAssumption DEF TypeOK
<1>7. free' + Cardinality(G) = Slots /\ free' \in Int
  BY <1>2, <1>5, <1>6 DEF Accounts
<1>8. open' = Cardinality(D)
  BY <1>3, <1>5, <1>6 DEF Accounts
<1>9. free' \in 0 .. Slots
  BY <1>2, <1>6, <1>7 DEF Accounts
<1>10. SlotsConserved' /\ AttemptsSettled'
  BY <1>4, <1>7, <1>8 DEF SlotsConserved, AttemptsSettled
<1> QED
  BY <1>3, <1>8, <1>9, <1>10

\* A step of a job that is not over publishes nothing and hides nothing.
LEMMA PublishedKept ==
    ASSUME JobInv, Published, NEW w \in Jobs, LocalMove(w), at[w] # "over",
           fut'[w] \in {"submitted", "running", "done"}, UNCHANGED <<cancel, main>>
    PROVE  Published'
<1>1. ControlOf(w) /\ fut[w] \notin {"raised", "collected", "done"}
  BY DEF JobInv, Control, ControlOf
<1>2. \A v \in Jobs : v # w => Same(v)
  BY DEF LocalMove
<1>3. \A r \in Requests : cancel[r] # "none" =>
         \E v \in Jobs : Req(v) = r /\ at'[v] = "over" /\ err'[v] # "none"
  BY <1>2 DEF Published, Same
<1>4. \A v \in Jobs : main[Req(v)] = "failed" =>
         IF Req(v) \in Singles THEN at'[v] = "over" ELSE cancel[Req(v)] # "none"
  BY <1>2 DEF Published, Same
<1>5. main[Req(w)] # "returned"
  BY <1>1 DEF Published
<1> QED
  BY <1>1, <1>2, <1>3, <1>4, <1>5 DEF Published, Same

----------------------------------------------------------------------------
(* How a completion ends                                                   *)

\* One completion answers the whole group, and the job is done.
LEMMA WholeGroupMove ==
    ASSUME JobInv, NEW w \in Jobs, at[w] \in {"reserved", "call"}, phase[w] \in 0 .. 2,
           NEW path \in {"direct", "envelope_retry", "failed"},
           NEW by \in {"none", "primary", "fallback"}, WholeGroup(w, path, by)
    PROVE  LocalMove(w) /\ at'[w] = "over" /\ fut'[w] = "done"
<1> USE DEF WholeGroup, Complete
<1>1. ControlOf(w) /\ JobTypes /\ err[w] = "none" /\ fut[w] = "running"
  BY DEF JobInv, Control, ControlOf
<1>2. \A k \in Segments(Req(w)) : items'[w][k] = <<path, by>>
  BY <1>1, SegmentsType DEF JobTypes
<1>3. items'[w] \in [1 .. GroupSize -> Paths \X {"none", "primary", "fallback"}]
  BY <1>1 DEF JobTypes, Paths
<1>4. JobTypes'
  BY <1>1, <1>3 DEF JobTypes, Places
<1>5. \A v \in Jobs \ {w} : Same(v)
  BY <1>1 DEF JobTypes, Same
<1>6. ControlOf(w)' /\ at'[w] = "over" /\ fut'[w] = "done" /\ err'[w] = "none"
  BY <1>1 DEF JobTypes, ControlOf
<1>7. Whole(w)'
  BY <1>2 DEF Whole
<1>8. OutcomeOf(w)'
  BY <1>1, <1>6, <1>7 DEF OutcomeOf, JobTypes
<1> QED
  BY <1>4, <1>5, <1>6, <1>8 DEF LocalMove

\* The job goes on with its next completion.
LEMMA RestartMove ==
    ASSUME JobInv, NEW w \in Jobs, at[w] \in {"reserved", "call"},
           NEW p \in 1 .. GroupSize + 2, Restart(w, p), Req(w) \notin Singles,
           items' \in [Jobs -> [1 .. GroupSize -> Paths \X {"none", "primary", "fallback"}]],
           \A v \in Jobs \ {w} : items'[v] = items[v],
           \A k \in 1 .. p - 3 : items'[w][k][1] \in Recovered
    PROVE  LocalMove(w) /\ at'[w] = "enter" /\ fut'[w] = "running"
<1> USE DEF Restart
<1>1. ControlOf(w) /\ JobTypes /\ err[w] = "none" /\ fut[w] = "running"
  BY DEF JobInv, Control, ControlOf
<1>2. JobTypes'
  BY <1>1, LimitsAssumption DEF JobTypes, Places
<1>3. \A v \in Jobs \ {w} : Same(v)
  BY <1>1 DEF JobTypes, Same
<1>4. /\ at'[w] = "enter" /\ fut'[w] = "running" /\ err'[w] = "none" /\ phase'[w] = p
      /\ prov'[w] = 1
  BY <1>1 DEF JobTypes
<1>6. 1 <= Len(Eligible(Req(w)))
  BY EligibleProviders
<1>7. ControlOf(w)'
  BY <1>4, <1>6 DEF ControlOf
<1>5. OutcomeOf(w)'
  BY <1>4 DEF OutcomeOf
<1> QED
  BY <1>2, <1>3, <1>4, <1>5, <1>7 DEF LocalMove

\* The recovery of one segment ends, and with the last one the job.
LEMMA OneSegmentMove ==
    ASSUME JobInv, NEW w \in Jobs, at[w] \in {"reserved", "call"}, phase[w] \notin 0 .. 2,
           NEW path \in Recovered,
           NEW by \in {"none", "primary", "fallback"}, OneSegment(w, path, by)
    PROVE  LocalMove(w) /\ at'[w] \in {"over", "enter"} /\ fut'[w] \in {"done", "running"}
<1>1. ControlOf(w) /\ JobTypes /\ err[w] = "none" /\ fut[w] = "running" /\ OutcomeOf(w)
  BY DEF JobInv, Control, ControlOf, Outcome
<1>2. phase[w] \in 3 .. GroupSize + 2 /\ Req(w) \notin Singles
  BY <1>1, LimitsAssumption DEF JobTypes, ControlOf
<1>3. PICK k \in 1 .. GroupSize : k = phase[w] - 2
  BY <1>2, LimitsAssumption
<1>4. items' = [items EXCEPT ![w][k] = <<path, by>>]
  BY <1>3 DEF OneSegment
<1>5. /\ items' \in [Jobs -> [1 .. GroupSize -> Paths \X {"none", "primary", "fallback"}]]
      /\ \A v \in Jobs \ {w} : items'[v] = items[v]
  BY <1>1, <1>4 DEF JobTypes, Paths, Recovered
<1>6. \A j \in 1 .. k : items'[w][j][1] \in Recovered
  <2>1. items'[w][k] = <<path, by>>
    BY <1>1, <1>4 DEF JobTypes
  <2>2. \A j \in 1 .. k - 1 : items'[w][j] = items[w][j] /\ items[w][j][1] \in Recovered
    BY <1>1, <1>3, <1>4, LimitsAssumption DEF JobTypes, OutcomeOf
  <2>3. \A j \in 1 .. k : j \in 1 .. k - 1 \/ j = k
    BY <1>3
  <2> QED
    BY <2>1, <2>2, <2>3
<1>7. CASE k = GroupSize
  <2>1. Complete(w)
    BY <1>3, <1>7 DEF OneSegment
  <2>2. JobTypes'
    BY <2>1, <1>1, <1>5 DEF JobTypes, Complete, Places
  <2>3. \A v \in Jobs \ {w} : Same(v)
    BY <2>1, <1>1, <1>5 DEF JobTypes, Same, Complete
  <2>4. /\ ControlOf(w)' /\ at'[w] = "over" /\ fut'[w] = "done" /\ err'[w] = "none"
        /\ phase'[w] = phase[w]
    BY <2>1, <1>1 DEF JobTypes, ControlOf, Complete
  <2>5. Whole(w)'
    BY <1>6, <1>7, <1>2 DEF Whole, Segments
  <2>6. \A j \in 1 .. phase'[w] - 3 : items'[w][j][1] \in Recovered
    BY <2>4, <1>2, <1>3, <1>6, LimitsAssumption
  <2>7. OutcomeOf(w)'
    BY <2>4, <2>5, <2>6 DEF OutcomeOf
  <2> QED
    BY <2>2, <2>3, <2>4, <2>7 DEF LocalMove
<1>8. CASE k # GroupSize
  <2>1. PICK p \in 1 .. GroupSize + 2 : p = phase[w] + 1
    BY <1>2, <1>3, <1>8, LimitsAssumption
  <2>2. Restart(w, p)
    BY <1>3, <1>8, <2>1 DEF OneSegment
  <2>3. \A j \in 1 .. p - 3 : items'[w][j][1] \in Recovered
    BY <2>1, <1>2, <1>3, <1>6, LimitsAssumption
  <2> QED
    BY <2>2, <2>3, <1>2, <1>5, RestartMove
<1> QED
  BY <1>7, <1>8

\* The three ways a provider call can end leave the job in order.
LEMMA EndMove ==
    ASSUME JobInv, NEW w \in Jobs, at[w] \in {"reserved", "call"},
           (\E e \in Errors : CallFailed(w, e)) \/ Translated(w) \/ Malformed(w)
    PROVE  /\ LocalMove(w)
           /\ at'[w] \in {"over", "enter", "backoff"}
           /\ fut'[w] \in {"done", "running"}
<1>1. /\ ControlOf(w) /\ JobTypes /\ err[w] = "none" /\ fut[w] = "running" /\ OutcomeOf(w)
      /\ phase[w] \in 0 .. GroupSize + 2 /\ prov[w] \in 1 .. 2
  BY DEF JobInv, Control, ControlOf, Outcome, JobTypes
<1>2. CASE Translated(w)
  <2>1. PICK by \in {"primary", "fallback"} : by = Eligible(Req(w))[prov[w]]
    <3>1. prov[w] \in 1 .. Len(Eligible(Req(w)))
      BY <1>1, EligibleProviders DEF ControlOf
    <3> QED
      BY <3>1, EligibleProviders
  <2>2. CASE phase[w] \in {0, 1}
    <3>1. WholeGroup(w, "direct", by)
      BY <1>2, <2>1, <2>2 DEF Translated
    <3> QED
      BY <3>1, <2>2, WholeGroupMove
  <2>3. CASE phase[w] = 2
    <3>1. WholeGroup(w, "envelope_retry", by)
      BY <1>2, <2>1, <2>3 DEF Translated
    <3> QED
      BY <3>1, <2>3, WholeGroupMove
  <2>4. CASE phase[w] \notin 0 .. 2
    <3>1. OneSegment(w, "paragraph_fallback", by)
      BY <1>2, <2>1, <2>4 DEF Translated
    <3> QED
      BY <3>1, <2>4, OneSegmentMove DEF Recovered
  <2> QED
    BY <2>2, <2>3, <2>4, <1>1
<1>3. CASE Malformed(w)
  <2>1. phase[w] \in {1, 2} /\ Req(w) \notin Singles /\ items' = items
    BY <1>1, <1>3 DEF Malformed, Envelope, ControlOf
  <2>2. PICK p \in 1 .. GroupSize + 2 : p = phase[w] + 1
    BY <2>1, LimitsAssumption
  <2>3. Restart(w, p)
    BY <1>3, <2>2 DEF Malformed
  <2>4. \A k \in 1 .. p - 3 : items'[w][k][1] \in Recovered
    BY <2>1, <2>2
  <2> QED
    BY <1>1, <2>1, <2>3, <2>4, RestartMove DEF JobTypes
<1>4. ASSUME NEW e \in Errors, CallFailed(w, e)
      PROVE  LocalMove(w) /\ at'[w] \in {"over", "enter", "backoff"} /\ fut'[w] \in {"done", "running"}
  <2>1. CASE /\ tries[w] < MaxRetries(Req(w))
             /\ at' = [at EXCEPT ![w] = "backoff"]
             /\ UNCHANGED <<fut, phase, prov, tries, items, err>>
    <3>1. JobTypes' /\ (\A v \in Jobs \ {w} : Same(v)) /\ at'[w] = "backoff"
      BY <1>1, <2>1 DEF JobTypes, Same, Places
    <3>2. ControlOf(w)'
      BY <1>1, <2>1, <3>1 DEF ControlOf
    <3>3. OutcomeOf(w)'
      BY <1>1, <2>1, <3>1 DEF OutcomeOf
    <3> QED
      BY <1>1, <2>1, <3>1, <3>2, <3>3 DEF LocalMove
  <2>2. CASE /\ prov[w] < Len(Eligible(Req(w)))
             /\ prov' = [prov EXCEPT ![w] = @ + 1]
             /\ tries' = [tries EXCEPT ![w] = 1]
             /\ at' = [at EXCEPT ![w] = "enter"]
             /\ UNCHANGED <<fut, phase, items, err>>
    <3>1. PICK n \in 1 .. 2 : n = Len(Eligible(Req(w)))
      BY EligibleProviders
    <3>2. prov[w] + 1 \in 1 .. 2 /\ prov[w] + 1 <= Len(Eligible(Req(w)))
      BY <1>1, <2>2, <3>1
    <3>3. /\ JobTypes' /\ (\A v \in Jobs \ {w} : Same(v)) /\ at'[w] = "enter"
          /\ prov'[w] = prov[w] + 1
      BY <1>1, <2>2, <3>2 DEF JobTypes, Same, Places
    <3>4. ControlOf(w)'
      BY <1>1, <2>2, <3>2, <3>3 DEF ControlOf
    <3>5. OutcomeOf(w)'
      BY <1>1, <2>2, <3>3 DEF OutcomeOf
    <3> QED
      BY <1>1, <2>2, <3>3, <3>4, <3>5 DEF LocalMove
  <2>3. CASE Unavailable(w)
    <3>1. CASE phase[w] \in 0 .. 2
      BY <2>3, <3>1, WholeGroupMove DEF Unavailable
    <3>2. CASE phase[w] \notin 0 .. 2
      BY <2>3, <3>2, OneSegmentMove DEF Unavailable, Recovered
    <3> QED
      BY <3>1, <3>2
  <2> QED
    BY <1>4, <2>1, <2>2, <2>3 DEF CallFailed
<1> QED
  BY <1>2, <1>3, <1>4

\* An exception of the budget takes a running or starting job to "raising".
LEMMA UnwindMove ==
    ASSUME JobInv, NEW w \in Jobs, at[w] \notin {"raising", "over"},
           NEW reason \in Reasons, Unwind(w, reason),
           (fut' = fut /\ fut[w] = "running") \/ fut' = [fut EXCEPT ![w] = "running"]
    PROVE  LocalMove(w) /\ at'[w] = "raising" /\ fut'[w] = "running"
<1>1. ControlOf(w) /\ JobTypes /\ OutcomeOf(w) /\ err[w] = "none"
  BY DEF JobInv, Control, ControlOf, Outcome
<1>2. reason # "none"
  BY DEF Reasons, Resources
<1>3. /\ JobTypes' /\ (\A v \in Jobs \ {w} : Same(v)) /\ at'[w] = "raising" /\ fut'[w] = "running"
      /\ err'[w] = reason /\ prov'[w] = 1 /\ phase'[w] = FirstPhase(Req(w)) /\ items'[w] = NoItems
  <2>1. FirstPhase(Req(w)) \in 0 .. GroupSize + 2
    BY LimitsAssumption DEF FirstPhase
  <2>2. NoItems \in [1 .. GroupSize -> Paths \X {"none", "primary", "fallback"}]
    BY DEF NoItems, Paths
  <2>3. items' \in [Jobs -> [1 .. GroupSize -> Paths \X {"none", "primary", "fallback"}]]
    BY <1>1, <2>2 DEF JobTypes, Unwind
  <2>4. phase' \in [Jobs -> 0 .. GroupSize + 2]
    BY <1>1, <2>1 DEF JobTypes, Unwind
  <2>5. JobTypes'
    BY <1>1, <2>3, <2>4 DEF JobTypes, Places, Unwind
  <2>6. \A v \in Jobs \ {w} : Same(v)
    BY <1>1 DEF JobTypes, Same, Unwind
  <2>7. at'[w] = "raising" /\ fut'[w] = "running" /\ err'[w] = reason /\ prov'[w] = 1
    BY <1>1 DEF JobTypes, Unwind
  <2>8. phase'[w] = FirstPhase(Req(w)) /\ items'[w] = NoItems
    BY <1>1 DEF JobTypes, Unwind
  <2> QED
    BY <2>5, <2>6, <2>7, <2>8
<1>4. ControlOf(w)'
  BY <1>1, <1>2, <1>3, EligibleProviders DEF ControlOf, FirstPhase
<1>5. OutcomeOf(w)'
  BY <1>1, <1>3 DEF OutcomeOf, FirstPhase
<1> QED
  BY <1>3, <1>4, <1>5 DEF LocalMove

\* What ensure_active() and reserve_attempt() raise is a reason.
LEMMA InactiveReasons ==
    ASSUME TypeOK, NEW w \in Jobs
    PROVE  Inactive(Req(w)) \subseteq Reasons /\ Refused(w) \subseteq Reasons
<1>1. Req(w) \in Requests
  BY JobsFinite
<1>2. cancel[Req(w)] # "none" => cancel[Req(w)] \in Reasons
  BY <1>1 DEF TypeOK
<1>3. Inactive(Req(w)) \subseteq Reasons
  BY <1>2 DEF Inactive, Reasons
<1> QED
  BY <1>3 DEF Refused, Reasons, Resources

----------------------------------------------------------------------------
(* The steps of a job                                                      *)

\* A job that goes on without an exception.
LEMMA AdvanceMove ==
    ASSUME JobInv, NEW w \in Jobs, at[w] \notin {"raising", "over"},
           NEW p \in {"enter", "queue", "slot", "reserved", "call"},
           at' = [at EXCEPT ![w] = p],
           (fut' = fut /\ fut[w] = "running") \/ fut' = [fut EXCEPT ![w] = "running"],
           tries' = tries \/ (tries' = [tries EXCEPT ![w] = @ + 1] /\ tries[w] = 1),
           UNCHANGED <<phase, prov, items, err>>
    PROVE  LocalMove(w) /\ at'[w] = p /\ fut'[w] = "running"
<1>1. ControlOf(w) /\ JobTypes /\ OutcomeOf(w) /\ err[w] = "none"
  BY DEF JobInv, Control, ControlOf, Outcome
<1>5. tries' \in [Jobs -> 1 .. 2] /\ \A v \in Jobs \ {w} : tries'[v] = tries[v]
  BY <1>1 DEF JobTypes
<1>6. /\ fut' \in [Jobs -> {"pending", "submitted", "running", "done", "raised",
                            "collected", "cancelled"}]
      /\ fut'[w] = "running" /\ \A v \in Jobs \ {w} : fut'[v] = fut[v]
  BY <1>1 DEF JobTypes
<1>2. /\ JobTypes' /\ (\A v \in Jobs \ {w} : Same(v)) /\ at'[w] = p /\ fut'[w] = "running"
      /\ err'[w] = "none"
  BY <1>1, <1>5, <1>6 DEF JobTypes, Same, Places, Holding
<1>3. ControlOf(w)'
  BY <1>1, <1>2 DEF ControlOf
<1>4. OutcomeOf(w)'
  BY <1>1, <1>2 DEF OutcomeOf
<1> QED
  BY <1>2, <1>3, <1>4 DEF LocalMove

\* A job's step that changes nothing of its request's.
LEMMA JobMoveInv ==
    ASSUME IInv, NEW w \in Jobs, LocalMove(w), Accounts(w), at[w] # "over",
           fut'[w] \in {"submitted", "running", "done"},
           UNCHANGED <<expired, cancel, main, why>>,
           used' \in [Requests -> [Resources -> Nat]], WithinCaps'
    PROVE  IInv'
<1>1. JobInv
  BY DEF IInv, JobInv, JobTypes, TypeOK
<1>2. JobInv'
  BY <1>1, OthersKeep
<1>3. SlotsConserved' /\ AttemptsSettled' /\ free' \in 0 .. Slots /\ open' \in Nat
  BY AccountsKept DEF IInv
<1>4. Published'
  BY <1>1, PublishedKept DEF IInv
<1>5. TypeOK'
  BY <1>2, <1>3 DEF IInv, TypeOK, JobInv, JobTypes
<1> QED
  BY <1>2, <1>3, <1>4, <1>5 DEF IInv, JobInv

\* Every step of a job preserves the inductive invariant.
LEMMA JobStepInv ==
    ASSUME IInv, NEW w \in Jobs, JobStep(w)
    PROVE  IInv'
<1>1. /\ JobInv /\ ControlOf(w) /\ JobTypes /\ TypeOK /\ free \in 0 .. Slots /\ open \in Nat
      /\ Slots \in Nat /\ used \in [Requests -> [Resources -> Nat]] /\ WithinCaps
  BY LimitsAssumption DEF IInv, JobInv, JobTypes, TypeOK, Control
<1>2. Inactive(Req(w)) \subseteq Reasons /\ Refused(w) \subseteq Reasons /\ Req(w) \in Requests
  BY <1>1, InactiveReasons, JobsFinite
<1>3. used' = used => used' \in [Requests -> [Resources -> Nat]] /\ WithinCaps'
  BY <1>1 DEF WithinCaps
<1>4. CASE Start(w)
  <2>1. at[w] = "start"
    BY <1>1, <1>4 DEF Start, ControlOf, JobTypes
  <2>2. LocalMove(w) /\ at'[w] \in {"enter", "raising"} /\ fut'[w] = "running"
    <3>1. CASE at' = [at EXCEPT ![w] = "enter"] /\ UNCHANGED <<phase, prov, tries, items, err>>
      BY <3>1, <2>1, <1>1, <1>4, AdvanceMove DEF Start
    <3>2. CASE \E reason \in Inactive(Req(w)) : Unwind(w, reason)
      BY <3>2, <2>1, <1>1, <1>2, <1>4, UnwindMove DEF Start
    <3> QED
      BY <3>1, <3>2, <1>4 DEF Start
  <2>3. Accounts(w)
    BY <1>1, <1>4, <2>1, <2>2 DEF Start, Accounts, Holding
  <2> QED
    BY <1>3, <1>4, <2>1, <2>2, <2>3, JobMoveInv DEF Start
<1>5. CASE Enter(w)
  <2>1. at[w] = "enter" /\ fut[w] = "running" /\ fut' = fut
    BY <1>1, <1>5 DEF Enter, ControlOf
  <2>2. LocalMove(w) /\ at'[w] \in {"queue", "raising"} /\ fut'[w] = "running"
    <3>1. CASE at' = [at EXCEPT ![w] = "queue"] /\ UNCHANGED <<phase, prov, tries, items, err>>
      BY <3>1, <2>1, <1>1, AdvanceMove
    <3>2. CASE \E reason \in Inactive(Req(w)) : Unwind(w, reason)
      BY <3>2, <2>1, <1>1, <1>2, UnwindMove
    <3> QED
      BY <3>1, <3>2, <1>5 DEF Enter
  <2>3. Accounts(w)
    BY <1>1, <1>5, <2>1, <2>2 DEF Enter, Accounts, Holding
  <2> QED
    BY <1>3, <1>5, <2>1, <2>2, <2>3, JobMoveInv DEF Enter
<1>6. CASE Acquire(w)
  <2>1. at[w] = "queue" /\ fut[w] = "running" /\ fut' = fut
    BY <1>1, <1>6 DEF Acquire, ControlOf
  <2>2. LocalMove(w) /\ at'[w] = "slot" /\ fut'[w] = "running"
    BY <2>1, <1>1, <1>6, AdvanceMove DEF Acquire
  <2>3. Accounts(w)
    BY <1>1, <1>6, <2>1, <2>2 DEF Acquire, Accounts, Holding
  <2> QED
    BY <1>3, <1>6, <2>1, <2>2, <2>3, JobMoveInv DEF Acquire
<1>7. CASE QueueTimeout(w)
  <2>1. at[w] = "queue" /\ fut[w] = "running" /\ fut' = fut
    BY <1>1, <1>7 DEF QueueTimeout, ControlOf
  <2>2. PICK reason \in Reasons : Unwind(w, reason)
    BY <1>7 DEF QueueTimeout, Reasons
  <2>3. LocalMove(w) /\ at'[w] = "raising" /\ fut'[w] = "running"
    BY <2>1, <2>2, <1>1, UnwindMove
  <2>4. Accounts(w)
    BY <1>1, <1>7, <2>1, <2>3 DEF QueueTimeout, Accounts, Holding
  <2> QED
    BY <1>3, <1>7, <2>1, <2>3, <2>4, JobMoveInv DEF QueueTimeout
<1>8. CASE Reserve(w)
  <2>1. at[w] = "slot" /\ fut[w] = "running" /\ fut' = fut
    BY <1>1, <1>8 DEF Reserve, ControlOf
  <2>2. CASE /\ Refused(w) = {}
             /\ used' = [used EXCEPT ![Req(w)] = [res \in Resources |-> @[res] + Cost(w, res)]]
             /\ at' = [at EXCEPT ![w] = "reserved"]
             /\ UNCHANGED <<free, phase, prov, tries, items, err>>
    <3>1. LocalMove(w) /\ at'[w] = "reserved" /\ fut'[w] = "running"
      BY <2>1, <2>2, <1>1, AdvanceMove
    <3>2. Accounts(w)
      BY <1>1, <1>8, <2>1, <2>2, <3>1 DEF Reserve, Accounts, Holding
    <3>3. \A res \in Resources : Cost(w, res) \in Nat
      BY CostType
    <3>4. \A res \in Resources : used[Req(w)][res] + Cost(w, res) <= Caps[res]
      <4>1. \A res \in Resources : ~Over(w, res)
        BY <2>2 DEF Refused, Resources
      <4> QED
        BY <4>1, <3>3, <1>1, <1>2, LimitsAssumption DEF Over
    <3>5. \A r \in Requests, res \in Resources :
             used'[r][res] = IF r = Req(w) THEN used[r][res] + Cost(w, res) ELSE used[r][res]
      BY <2>2, <1>1, <1>2
    <3>6. used' \in [Requests -> [Resources -> Nat]]
      BY <2>2, <3>3, <1>1, <1>2
    <3>7. WithinCaps'
      BY <3>4, <3>5, <1>1 DEF WithinCaps
    <3> QED
      BY <1>8, <2>1, <3>1, <3>2, <3>6, <3>7, JobMoveInv DEF Reserve
  <2>3. CASE /\ \E reason \in Refused(w) : Unwind(w, reason)
             /\ free' = free + 1
             /\ UNCHANGED used
    <3>1. LocalMove(w) /\ at'[w] = "raising" /\ fut'[w] = "running"
      BY <2>1, <2>3, <1>1, <1>2, UnwindMove
    <3>2. Accounts(w)
      BY <1>1, <1>8, <2>1, <2>3, <3>1 DEF Reserve, Accounts, Holding
    <3> QED
      BY <1>3, <1>8, <2>1, <2>3, <3>1, <3>2, JobMoveInv DEF Reserve
  <2> QED
    BY <1>8, <2>2, <2>3 DEF Reserve
<1>9. CASE Dial(w)
  <2>1. at[w] = "reserved" /\ fut[w] = "running" /\ fut' = fut
    BY <1>1, <1>9 DEF Dial, ControlOf
  <2>2. CASE /\ at' = [at EXCEPT ![w] = "call"]
             /\ open' = open + 1
             /\ UNCHANGED <<free, phase, prov, tries, items, err>>
    <3>1. LocalMove(w) /\ at'[w] = "call" /\ fut'[w] = "running"
      BY <2>1, <2>2, <1>1, AdvanceMove
    <3>2. Accounts(w)
      BY <1>1, <2>1, <2>2, <3>1 DEF Accounts, Holding
    <3> QED
      BY <1>3, <1>9, <2>1, <3>1, <3>2, JobMoveInv DEF Dial
  <2>3. CASE /\ \E reason \in Inactive(Req(w)) \cup
                               (IF expired[Req(w)] THEN {"deadline"} ELSE {}) : Unwind(w, reason)
             /\ free' = free + 1
             /\ UNCHANGED open
    <3>1. PICK reason \in Reasons : Unwind(w, reason)
      BY <2>3, <1>2 DEF Reasons
    <3>2. LocalMove(w) /\ at'[w] = "raising" /\ fut'[w] = "running"
      BY <2>1, <3>1, <1>1, UnwindMove
    <3>3. Accounts(w)
      BY <1>1, <2>1, <2>3, <3>2 DEF Accounts, Holding
    <3> QED
      BY <1>3, <1>9, <2>1, <3>2, <3>3, JobMoveInv DEF Dial
  <2> QED
    BY <1>9, <2>2, <2>3 DEF Dial
<1>10. ASSUME NEW e \in Errors, ResolveFails(w, e)
       PROVE  IInv'
  <2>1. at[w] = "reserved"
    BY <1>10 DEF ResolveFails
  <2>2. /\ LocalMove(w) /\ at'[w] \in {"over", "enter", "backoff"}
        /\ fut'[w] \in {"done", "running"}
    BY <2>1, <1>1, <1>10, EndMove DEF ResolveFails
  <2>3. Accounts(w)
    BY <1>1, <1>10, <2>1, <2>2 DEF ResolveFails, Accounts, Holding
  <2> QED
    BY <1>3, <1>10, <2>1, <2>2, <2>3, JobMoveInv DEF ResolveFails
<1>11. ASSUME (\E e \in Errors : ReplyError(w, e)) \/ ReplyText(w)
       PROVE  IInv'
  <2>1. /\ at[w] = "call" /\ free' = free + 1 /\ open' = open - 1
        /\ UNCHANGED <<expired, cancel, used, main, why>>
    BY <1>11 DEF ReplyError, ReplyText
  <2>2. /\ LocalMove(w) /\ at'[w] \in {"over", "enter", "backoff"}
        /\ fut'[w] \in {"done", "running"}
    BY <2>1, <1>1, <1>11, EndMove DEF ReplyError, ReplyText
  <2>3. Accounts(w)
    BY <1>1, <2>1, <2>2 DEF Accounts, Holding
  <2> QED
    BY <1>3, <2>1, <2>2, <2>3, JobMoveInv
<1>12. CASE ReplyCut(w)
  <2>1. at[w] = "call" /\ fut[w] = "running" /\ fut' = fut
    BY <1>1, <1>12 DEF ReplyCut, ControlOf
  <2>2. LocalMove(w) /\ at'[w] = "raising" /\ fut'[w] = "running"
    BY <2>1, <1>1, <1>2, <1>12, UnwindMove DEF ReplyCut
  <2>3. Accounts(w)
    BY <1>1, <1>12, <2>1, <2>2 DEF ReplyCut, Accounts, Holding
  <2> QED
    BY <1>3, <1>12, <2>1, <2>2, <2>3, JobMoveInv DEF ReplyCut
<1>13. CASE Backoff(w)
  <2>1. at[w] = "backoff" /\ fut[w] = "running" /\ fut' = fut
    BY <1>1, <1>13 DEF Backoff, ControlOf
  <2>2. tries[w] = 1
    BY <2>1, <1>1 DEF ControlOf, MaxRetries, JobTypes
  <2>3. LocalMove(w) /\ at'[w] \in {"enter", "raising"} /\ fut'[w] = "running"
    <3>1. CASE /\ tries' = [tries EXCEPT ![w] = @ + 1]
               /\ at' = [at EXCEPT ![w] = "enter"]
               /\ UNCHANGED <<phase, prov, items, err>>
      BY <3>1, <2>1, <2>2, <1>1, AdvanceMove
    <3>2. CASE \E reason \in Inactive(Req(w)) : Unwind(w, reason)
      BY <3>2, <2>1, <1>1, <1>2, UnwindMove
    <3> QED
      BY <3>1, <3>2, <1>13 DEF Backoff
  <2>4. Accounts(w)
    BY <1>1, <1>13, <2>1, <2>3 DEF Backoff, Accounts, Holding
  <2> QED
    BY <1>3, <1>13, <2>1, <2>3, <2>4, JobMoveInv DEF Backoff
<1>14. CASE Raise(w)
  <2>1. at[w] = "raising" /\ err[w] # "none" /\ fut[w] = "running"
    BY <1>1, <1>14 DEF Raise, ControlOf
  <2>2. /\ JobTypes' /\ (\A v \in Jobs \ {w} : Same(v)) /\ at'[w] = "over" /\ fut'[w] = "raised"
        /\ err'[w] = err[w] /\ phase' = phase /\ prov' = prov /\ items' = items
    BY <1>1, <1>14 DEF Raise, JobTypes, Same, Places
  <2>3. ControlOf(w)'
    BY <1>1, <2>1, <2>2 DEF ControlOf
  <2>4. OutcomeOf(w)'
    BY <1>1, <2>1, <2>2 DEF JobInv, Outcome, OutcomeOf
  <2>5. LocalMove(w)
    BY <2>2, <2>3, <2>4 DEF LocalMove
  <2>6. JobInv'
    BY <1>1, <2>5, OthersKeep
  <2>7. Accounts(w)
    BY <1>1, <1>14, <2>1, <2>2 DEF Raise, Accounts, Holding
  <2>8. SlotsConserved' /\ AttemptsSettled' /\ free' \in 0 .. Slots /\ open' \in Nat
    BY <2>5, <2>7, AccountsKept DEF IInv
  <2>9. /\ cancel' \in [Requests -> Reasons \cup {"none"}]
        /\ \A r \in Requests : cancel'[r] # cancel[r] => r = Req(w)
        /\ \A r \in Requests : cancel[r] # "none" => cancel'[r] = cancel[r]
        /\ Req(w) \notin Singles => cancel'[Req(w)] # "none"
    <3>1. cancel \in [Requests -> Reasons \cup {"none"}] /\ err[w] \in Reasons
      BY <1>1, <2>1 DEF TypeOK, JobTypes
    <3> QED
      BY <3>1, <2>1, <1>2, <1>14 DEF Raise
  <2>10. Published'
    <3>1. Published /\ main' = main /\ (\A v \in Jobs : v # w => Same(v))
      BY <1>14, <2>5 DEF IInv, Raise, LocalMove
    <3>2. \A v \in Jobs : Req(v) \in Requests
      BY JobsFinite
    <3>3. \A v \in Jobs : fut'[v] = "raised" /\ Req(v) \notin Singles => cancel'[Req(v)] # "none"
      BY <2>2, <2>9, <3>1, <3>2 DEF Published, Same
    <3>4. \A r \in Requests : cancel'[r] # "none" =>
             \E v \in Jobs : Req(v) = r /\ at'[v] = "over" /\ err'[v] # "none"
      BY <2>1, <2>2, <2>9, <3>1 DEF Published, Same
    <3>5. \A v \in Jobs : main'[Req(v)] = "failed" =>
             IF Req(v) \in Singles THEN at'[v] = "over" ELSE cancel'[Req(v)] # "none"
      BY <2>2, <2>9, <3>1, <3>2 DEF Published, Same
    <3>6. main[Req(w)] # "returned"
      BY <2>1, <3>1 DEF Published
    <3> QED
      BY <2>2, <3>1, <3>3, <3>4, <3>5, <3>6 DEF Published, Same
  <2>11. TypeOK'
    BY <1>14, <2>6, <2>8, <2>9 DEF IInv, TypeOK, JobInv, JobTypes, Raise
  <2> QED
    BY <1>3, <1>14, <2>6, <2>8, <2>10, <2>11 DEF IInv, JobInv, Raise
<1> QED
  BY <1>4, <1>5, <1>6, <1>7, <1>8, <1>9, <1>10, <1>11, <1>12, <1>13, <1>14 DEF JobStep

----------------------------------------------------------------------------
(* The steps of a request                                                  *)

\* A step of the request's own thread, or of the clock, on fut, main, why and
\* expired alone keeps the accounts.
LEMMA MainKeeps ==
    ASSUME IInv, JobInv', Published',
           UNCHANGED <<free, cancel, used, at, open>>,
           expired' \in [Requests -> BOOLEAN],
           main' \in [Requests -> {"running", "returned", "failed"}],
           why' \in [Requests -> Reasons \cup {"none", "provider"}]
    PROVE  IInv'
<1>1. TypeOK'
  BY DEF IInv, TypeOK, JobInv, JobTypes
<1>2. SlotsConserved' /\ AttemptsSettled' /\ WithinCaps'
  BY DEF IInv, SlotsConserved, AttemptsSettled, WithinCaps
<1> QED
  BY <1>1, <1>2 DEF IInv, JobInv

\* A step that leaves the jobs alone keeps what is known of them.
LEMMA JobsStutter ==
    ASSUME JobInv, UNCHANGED <<fut, at, phase, prov, tries, items, err>>
    PROVE  JobInv'
<1>1. JobTypes'
  BY DEF JobInv, JobTypes
<1>2. ASSUME NEW v \in Jobs
      PROVE  ControlOf(v)' /\ OutcomeOf(v)'
  <2>1. ControlOf(v) /\ OutcomeOf(v)
    BY DEF JobInv, Control, Outcome
  <2>2. ControlOf(v)'
    BY <2>1 DEF ControlOf
  <2>3. OutcomeOf(v)'
    BY <2>1 DEF OutcomeOf, Whole
  <2> QED
    BY <2>2, <2>3
<1> QED
  BY <1>1, <1>2 DEF JobInv, Control, Outcome

\* Every step of a request's own thread, and its deadline, preserve the invariant.
LEMMA MainStepInv ==
    ASSUME IInv, NEW r \in Requests, MainStep(r) \/ Expire(r)
    PROVE  IInv'
<1>1. /\ JobInv /\ JobTypes /\ Control /\ Outcome /\ Published
      /\ expired \in [Requests -> BOOLEAN]
      /\ main \in [Requests -> {"running", "returned", "failed"}]
      /\ why \in [Requests -> Reasons \cup {"none", "provider"}]
  BY DEF IInv, JobInv, JobTypes, TypeOK
<1>2. \A v \in Jobs : Req(v) \in Requests
  BY JobsFinite
<1>3. ASSUME NEW w \in Jobs, Submit(w) \/ CollectDone(w)
      PROVE  IInv'
  <2>1. /\ UNCHANGED <<free, expired, cancel, used, main, why, at, phase, prov, tries, items, err,
                        open>>
        /\ main[Req(w)] = "running"
        /\ \/ fut[w] = "pending" /\ fut' = [fut EXCEPT ![w] = "submitted"]
           \/ fut[w] = "done" /\ fut' = [fut EXCEPT ![w] = "collected"]
    BY <1>3 DEF Submit, CollectDone
  <2>2. ControlOf(w) /\ OutcomeOf(w)
    BY <1>1 DEF Control, Outcome
  <2>3. /\ JobTypes' /\ (\A v \in Jobs \ {w} : Same(v))
        /\ \/ fut[w] = "pending" /\ fut'[w] = "submitted"
           \/ fut[w] = "done" /\ fut'[w] = "collected"
    BY <1>1, <2>1 DEF JobTypes, Same
  <2>4. ControlOf(w)'
    BY <2>1, <2>2, <2>3 DEF ControlOf
  <2>5. OutcomeOf(w)'
    BY <2>1, <2>2, <2>3 DEF OutcomeOf, Whole
  <2>6. JobInv'
    BY <1>1, <2>3, <2>4, <2>5, OthersKeep DEF LocalMove
  <2>7. \A v \in Jobs : fut'[v] # fut[v] => v = w
    BY <2>3 DEF Same
  <2>8. fut'[w] = "collected" => err[w] = "none"
    BY <2>2, <2>3 DEF OutcomeOf
  <2>9. Published'
    BY <1>1, <1>2, <2>1, <2>3, <2>7, <2>8 DEF Published
  <2> QED
    BY <1>1, <2>1, <2>6, <2>9, MainKeeps
<1>4. ASSUME NEW w \in Jobs, CollectRaised(w)
      PROVE  IInv'
  <2>1. /\ UNCHANGED <<free, expired, cancel, used, at, phase, prov, tries, items, err, open>>
        /\ fut[w] = "raised"
        /\ main' = [main EXCEPT ![Req(w)] = "failed"]
        /\ why' = [why EXCEPT ![Req(w)] = err[w]]
    BY <1>4 DEF CollectRaised
  <2>2. \A v \in Jobs :
           \/ fut'[v] = fut[v]
           \/ v = w /\ fut'[v] = "collected"
           \/ v # w /\ fut[v] = "submitted" /\ fut'[v] = "cancelled" /\ Req(v) = Req(w)
    BY <1>4 DEF CollectRaised
  <2>3. JobTypes'
    BY <1>1, <1>4, <2>1 DEF CollectRaised, JobTypes
  <2>4. ASSUME NEW v \in Jobs
        PROVE  ControlOf(v)' /\ OutcomeOf(v)'
    <3>1. ControlOf(v) /\ OutcomeOf(v)
      BY <1>1 DEF Control, Outcome
    <3>2. ControlOf(v)'
      BY <2>1, <2>2, <3>1 DEF ControlOf
    <3>3. OutcomeOf(v)'
      BY <2>1, <2>2, <3>1 DEF OutcomeOf, Whole
    <3> QED
      BY <3>2, <3>3
  <2>5. JobInv'
    BY <2>3, <2>4 DEF JobInv, Control, Outcome
  <2>6. /\ \A v \in Jobs : main'[Req(v)] = IF Req(v) = Req(w) THEN "failed" ELSE main[Req(v)]
        /\ at[w] = "over" /\ err[w] # "none"
    BY <1>1, <1>2, <2>1 DEF Control, ControlOf, Outcome, OutcomeOf
  <2>7. Req(w) \notin Singles => cancel[Req(w)] # "none"
    BY <1>1, <2>1 DEF Published
  <2>8. \A v \in Jobs : Req(v) = Req(w) /\ Req(w) \in Singles => v = w
    BY SingleJob
  <2>9. \A v \in Jobs : main'[Req(v)] = "failed" =>
           IF Req(v) \in Singles THEN at'[v] = "over" ELSE cancel'[Req(v)] # "none"
    BY <1>1, <2>1, <2>6, <2>7, <2>8 DEF Published
  <2>10. \A v \in Jobs : main'[Req(v)] # "failed" => v # w /\ fut'[v] = fut[v]
    BY <2>2, <2>6
  <2>11. Published'
    BY <1>1, <2>1, <2>2, <2>6, <2>9, <2>10 DEF Published
  <2>12. /\ main' \in [Requests -> {"running", "returned", "failed"}]
         /\ why' \in [Requests -> Reasons \cup {"none", "provider"}]
    BY <1>1, <2>1 DEF JobTypes
  <2> QED
    BY <1>1, <2>1, <2>5, <2>11, <2>12, MainKeeps
<1>5. CASE Return(r)
  <2>1. /\ UNCHANGED <<free, expired, cancel, used, fut, at, phase, prov, tries, items, err, open>>
        /\ main[r] = "running"
        /\ \A w \in Jobs : Req(w) = r => fut[w] = "collected"
        /\ main' \in [Requests -> {"running", "returned", "failed"}]
        /\ why' \in [Requests -> Reasons \cup {"none", "provider"}]
    BY <1>1, <1>5 DEF Return, JobsOf
  <2>2. JobInv'
    BY <1>1, <2>1, JobsStutter
  <2>3. /\ \A v \in Jobs : Req(v) # r => main'[Req(v)] = main[Req(v)]
        /\ main'[r] = "failed" => r \in Singles
    BY <1>1, <1>2, <1>5 DEF Return
  <2>4. \A v \in Jobs : Req(v) = r => at[v] = "over" /\ err[v] = "none"
    BY <1>1, <2>1 DEF Published, Control, ControlOf
  <2>5. Published'
    BY <1>1, <2>1, <2>3, <2>4 DEF Published
  <2> QED
    BY <1>1, <2>1, <2>2, <2>5, MainKeeps
<1>6. CASE Expire(r)
  <2>1. /\ UNCHANGED <<free, cancel, used, main, why, fut, at, phase, prov, tries, items, err, open>>
        /\ expired' \in [Requests -> BOOLEAN]
    BY <1>1, <1>6 DEF Expire
  <2>2. JobInv'
    BY <1>1, <2>1, JobsStutter
  <2>3. Published'
    BY <1>1, <2>1 DEF Published
  <2> QED
    BY <1>1, <2>1, <2>2, <2>3, MainKeeps
<1> QED
  BY <1>3, <1>4, <1>5, <1>6 DEF MainStep, JobsOf

----------------------------------------------------------------------------
(* The invariant and its consequences                                      *)

\* The invariant holds when the requests start.
LEMMA InitInv == Init => IInv
<1> SUFFICES ASSUME Init PROVE IInv
  OBVIOUS
<1>1. \A w \in Jobs : Req(w) \in Requests
  BY JobsFinite
<1>2. \A r : FirstPhase(r) \in {0, 1} /\ (r \in Singles => FirstPhase(r) = 0)
  BY DEF FirstPhase
<1>3. NoItems \in [1 .. GroupSize -> Paths \X {"none", "primary", "fallback"}]
  BY DEF NoItems, Paths
<1>4. JobTypes
  <2>1. \A w \in Jobs : FirstPhase(Req(w)) \in 0 .. GroupSize + 2
    BY <1>2, LimitsAssumption
  <2>2. phase \in [Jobs -> 0 .. GroupSize + 2]
    BY <2>1 DEF Init
  <2>3. items \in [Jobs -> [1 .. GroupSize -> Paths \X {"none", "primary", "fallback"}]]
    BY <1>3 DEF Init
  <2> QED
    BY <2>2, <2>3 DEF Init, JobTypes, Places
<1>5. TypeOK
  BY <1>4, LimitsAssumption DEF Init, TypeOK, JobTypes, Resources
<1>6. \A w \in Jobs : 1 <= Len(Eligible(Req(w)))
  BY EligibleProviders
<1>7. ASSUME NEW w \in Jobs
      PROVE  ControlOf(w) /\ OutcomeOf(w)
  <2>1. /\ prov[w] = 1 /\ at[w] = "start" /\ fut[w] = "pending" /\ err[w] = "none"
        /\ phase[w] = FirstPhase(Req(w))
    BY DEF Init
  <2>2. ControlOf(w)
    BY <2>1, <1>2, <1>6 DEF ControlOf
  <2>3. OutcomeOf(w)
    BY <2>1, <1>2 DEF OutcomeOf
  <2> QED
    BY <2>2, <2>3
<1>8. SlotsConserved
  <2>1. {w \in Jobs : at[w] \in Holding} = {}
    BY DEF Init, Holding
  <2>2. Cardinality({w \in Jobs : at[w] \in Holding}) = 0
    BY <2>1, FS_EmptySet
  <2>3. free = Slots /\ Slots \in Nat
    BY LimitsAssumption DEF Init
  <2> QED
    BY <2>2, <2>3 DEF SlotsConserved
<1>9. AttemptsSettled
  <2>1. {w \in Jobs : at[w] = "call"} = {}
    BY DEF Init
  <2> QED
    BY <2>1, FS_EmptySet DEF Init, AttemptsSettled
<1>10. WithinCaps
  BY LimitsAssumption DEF Init, WithinCaps
<1>11. Published
  BY <1>1 DEF Init, Published
<1> QED
  BY <1>5, <1>7, <1>8, <1>9, <1>10, <1>11 DEF IInv, Control, Outcome

\* A stuttering step preserves the invariant.
LEMMA StutterInv == IInv /\ UNCHANGED vars => IInv'
<1> SUFFICES ASSUME IInv, UNCHANGED vars PROVE IInv'
  OBVIOUS
<1>1. JobInv
  BY DEF IInv, JobInv, JobTypes, TypeOK
<1>2. JobInv'
  BY <1>1, JobsStutter DEF vars
<1>3. Published'
  BY DEF IInv, Published, vars
<1> QED
  BY <1>2, <1>3, MainKeeps DEF IInv, TypeOK, vars

\* Every step preserves the invariant.
LEMMA NextInv == IInv /\ [Next]_vars => IInv'
<1> SUFFICES ASSUME IInv, [Next]_vars PROVE IInv'
  OBVIOUS
<1>1. ASSUME NEW w \in Jobs, JobStep(w) PROVE IInv'
  BY <1>1, JobStepInv
<1>2. ASSUME NEW r \in Requests, MainStep(r) \/ Expire(r) PROVE IInv'
  BY <1>2, MainStepInv
<1>3. CASE UNCHANGED vars
  BY <1>3, StutterInv
<1> QED
  BY <1>1, <1>2, <1>3 DEF Next, Terminated

\* The inductive invariant holds in every reachable state.
THEOREM Invariance == Spec => []IInv
BY InitInv, NextInv, PTL DEF Spec

\* Type correctness: in particular the semaphore stays between 0 and Slots and the
\* metrics never count more outcomes than attempts.
THEOREM TypeCorrect == Spec => []TypeOK
<1>1. IInv => TypeOK
  BY DEF IInv
<1> QED
  BY <1>1, Invariance, PTL

\* _UPSTREAM_SEM and the threads agree on who holds a slot, on every path out of
\* _call_provider and also after the request has been answered.
THEOREM SlotsNeverLeak == Spec => []SlotsConserved
<1>1. IInv => SlotsConserved
  BY DEF IInv
<1> QED
  BY <1>1, Invariance, PTL

\* No interleaving of reserve_attempt() takes a request past one of its caps.
THEOREM Budgeted == Spec => []WithinCaps
<1>1. IInv => WithinCaps
  BY DEF IInv
<1> QED
  BY <1>1, Invariance, PTL

\* The provider call metrics balance in every state.
THEOREM Settled == Spec => []AttemptsSettled
<1>1. IInv => AttemptsSettled
  BY DEF IInv
<1> QED
  BY <1>1, Invariance, PTL

\* What is stored under the batch contract came from one completion.
THEOREM Provenance == Spec => []WholeGroupProvenance
<1>1. IInv => WholeGroupProvenance
  <2> SUFFICES ASSUME IInv, NEW w \in Jobs, at[w] = "over", err[w] = "none",
                      NEW j \in Segments(Req(w)), NEW k \in Segments(Req(w)),
                      items[w][j][1] \in {"direct", "envelope_retry", "failed"}
               PROVE  items[w][k] = items[w][j]
    BY DEF WholeGroupProvenance
  <2>1. Whole(w)
    BY DEF IInv, Outcome, OutcomeOf
  <2> QED
    BY <2>1 DEF Whole, Recovered
<1> QED
  BY <1>1, Invariance, PTL

\* translate_batch_detailed returns only complete results, never past a failed future.
THEOREM CompleteResults == Spec => []ReturnedIsComplete
<1>1. IInv => ReturnedIsComplete
  <2> SUFFICES ASSUME IInv, NEW w \in Jobs, main[Req(w)] = "returned"
               PROVE  /\ cancel[Req(w)] = "none"
                      /\ \A k \in Segments(Req(w)) : items[w][k][1] # "none"
    BY DEF ReturnedIsComplete
  <2>1. Req(w) \in Requests
    BY JobsFinite
  <2>2. \A v \in Jobs : Req(v) = Req(w) => fut[v] = "collected" /\ err[v] = "none"
    BY DEF IInv, Published
  <2>3. cancel[Req(w)] = "none"
    BY <2>1, <2>2 DEF IInv, Published
  <2>4. at[w] = "over" /\ err[w] = "none"
    BY <2>2 DEF IInv, Control, ControlOf
  <2>5. Whole(w)
    BY <2>4 DEF IInv, Outcome, OutcomeOf
  <2>6. \A k \in Segments(Req(w)) : items[w][k][1] # "none"
    BY <2>5 DEF Whole, Recovered
  <2> QED
    BY <2>3, <2>6
<1> QED
  BY <1>1, Invariance, PTL

----------------------------------------------------------------------------
(* What a failed request may still do                                      *)

\* A job that reserves budget or starts a call has an active budget.
LEMMA OnlyActiveJobsWork ==
    ASSUME IInv, NEW v \in Jobs, JobStep(v)
    PROVE  /\ \A w \in Jobs : at'[w] = "call" /\ at[w] # "call" =>
                 w = v /\ at[v] = "reserved" /\ Inactive(Req(v)) = {}
           /\ \A r \in Requests : used'[r] # used[r] =>
                 r = Req(v) /\ at[v] = "slot" /\ Inactive(Req(v)) = {}
<1>1. JobInv /\ JobTypes /\ used \in [Requests -> [Resources -> Nat]]
  BY DEF IInv, JobInv, JobTypes, TypeOK
<1>2. CASE Reserve(v)
  <2>1. Refused(v) = {} => Inactive(Req(v)) = {}
    BY DEF Refused
  <2>2. at' = [at EXCEPT ![v] = "reserved"] \/ at' = [at EXCEPT ![v] = "raising"]
    BY <1>2 DEF Reserve, Unwind
  <2>3. \A w \in Jobs : at'[w] = "call" => at[w] = "call"
    BY <1>1, <2>2 DEF JobTypes
  <2>4. \A r \in Requests : used'[r] # used[r] => r = Req(v) /\ Refused(v) = {}
    BY <1>1, <1>2 DEF Reserve
  <2> QED
    BY <1>2, <2>1, <2>3, <2>4 DEF Reserve
<1>3. CASE Dial(v)
  <2>1. \/ at' = [at EXCEPT ![v] = "call"] /\ Inactive(Req(v)) = {}
        \/ at' = [at EXCEPT ![v] = "raising"]
    BY <1>3 DEF Dial, Unwind
  <2>2. \A w \in Jobs : at'[w] = "call" /\ at[w] # "call" => w = v /\ Inactive(Req(v)) = {}
    BY <1>1, <2>1 DEF JobTypes
  <2> QED
    BY <1>3, <2>2 DEF Dial
<1>4. CASE Start(v) \/ Enter(v) \/ Acquire(v) \/ QueueTimeout(v) \/ ReplyCut(v) \/ Backoff(v) \/ Raise(v)
  <2>1. used' = used
    BY <1>4 DEF Start, Enter, Acquire, QueueTimeout, ReplyCut, Backoff, Raise
  <2>2. PICK p \in {"enter", "queue", "slot", "raising", "over"} : at' = [at EXCEPT ![v] = p]
    BY <1>4 DEF Start, Enter, Acquire, QueueTimeout, ReplyCut, Backoff, Raise, Unwind
  <2>3. \A w \in Jobs : at'[w] = "call" => at[w] = "call"
    BY <1>1, <2>2 DEF JobTypes
  <2> QED
    BY <2>1, <2>3
<1>5. CASE ReplyText(v) \/ \E e \in Errors : ResolveFails(v, e) \/ ReplyError(v, e)
  <2>1. used' = used /\ at[v] \in {"reserved", "call"}
    BY <1>5 DEF ResolveFails, ReplyError, ReplyText
  <2>2. LocalMove(v) /\ at'[v] \in {"over", "enter", "backoff"}
    BY <1>1, <1>5, <2>1, EndMove DEF ResolveFails, ReplyError, ReplyText
  <2>3. \A w \in Jobs : at'[w] = "call" => at[w] = "call"
    BY <2>2 DEF LocalMove, Same
  <2> QED
    BY <2>1, <2>3
<1> QED
  BY <1>2, <1>3, <1>4, <1>5 DEF JobStep

\* After a request has failed, the threads it left behind neither reserve budget
\* nor start a provider call: _do_group cancels the budget before its future ends.
THEOREM NoNewWork == Spec => NoWorkAfterFailure
<1> DEFINE Quiescent ==
        \A w \in Jobs : main[Req(w)] = "failed" =>
            /\ used'[Req(w)] = used[Req(w)]
            /\ at'[w] = "call" => at[w] = "call"
<1>1. IInv /\ [Next]_vars => [Quiescent]_vars
  <2> SUFFICES ASSUME IInv, Next, NEW w \in Jobs, main[Req(w)] = "failed"
               PROVE  /\ used'[Req(w)] = used[Req(w)]
                      /\ at'[w] = "call" => at[w] = "call"
    OBVIOUS
  <2>1. Req(w) \in Requests
    BY JobsFinite
  <2>2. ASSUME NEW v \in Jobs, JobStep(v)
        PROVE  used'[Req(w)] = used[Req(w)] /\ (at'[w] = "call" => at[w] = "call")
    <3>1. ASSUME Req(v) = Req(w), Inactive(Req(v)) = {}
          PROVE  at[v] = "over"
      <4>1. cancel[Req(v)] = "none"
        BY <3>1 DEF Inactive
      <4> QED
        BY <4>1, <3>1 DEF IInv, Published
    <3> QED
      BY <2>1, <2>2, <3>1, OnlyActiveJobsWork
  <2>3. ASSUME NEW r \in Requests, MainStep(r) \/ Expire(r)
        PROVE  UNCHANGED <<used, at>>
    BY <2>3 DEF MainStep, Expire, Submit, CollectDone, CollectRaised, Return
  <2> QED
    BY <2>2, <2>3 DEF Next, Terminated, vars
<1> QED
  BY <1>1, Invariance, PTL DEF Spec, NoWorkAfterFailure
=============================================================================
