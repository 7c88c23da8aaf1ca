---------------------------- MODULE SingleFlight ----------------------------
(***************************************************************************)
(* The duplicate-work coalescer of singleflight.py.  Threads call run()    *)
(* with a key; the first one leads and executes the operation, the others  *)
(* wait on the leader's event, each with a wait deadline of its own.       *)
(*                                                                         *)
(* One action stands for one lock-protected section of run() (or for the   *)
(* unlocked wait between two of them), so threads interleave exactly where *)
(* the code releases self._lock.  A _Flight is an object: it outlives its  *)
(* entry in the registry as long as a follower still holds it, so flights  *)
(* have identities (1 .. MaxCalls) of their own and the registry maps keys *)
(* to them.                                                                *)
(***************************************************************************)
EXTENDS Integers, FiniteSets

CONSTANTS Callers,      \* the threads that call run()
          Keys,         \* opaque keys; numbers, because eviction breaks ties by key order
          Outcomes,     \* what one execution of the operation can return or raise
          MaxEntries,   \* max_entries
          ResultTTL,    \* result_ttl_seconds, in ticks of the clock
          MaxCalls,     \* bound: calls of run() in one behaviour
          MaxClock      \* bound: ticks of the clock in one behaviour

ASSUME CallersAssumption == IsFiniteSet(Callers)

ASSUME KeysAssumption == Keys \subseteq Nat /\ IsFiniteSet(Keys) /\ 0 \notin Keys

ASSUME OutcomesAssumption ==
    /\ "none" \notin Outcomes
    /\ "timeout" \notin Outcomes
    /\ "capacity" \notin Outcomes

ASSUME BoundsAssumption ==
    /\ MaxEntries \in Nat \ {0}     \* the constructor rejects anything else
    /\ ResultTTL \in Nat
    /\ MaxCalls \in Nat
    /\ MaxClock \in Nat

VARIABLES
    clock,      \* self._clock()
    registry,   \* self._flights: key -> flight, or NoFlight
    flightKey,  \* flight -> the key it was created for
    doneAt,     \* flight.completed_at, or Never; flight.event is set iff it is not Never
    outcome,    \* flight.value or flight.error
    waiters,    \* flight.waiters
    stats,      \* the counters returned by stats()
    pc,         \* thread -> where it is in run()
    flight,         \* thread -> the flight object it leads or waits on
    result      \* thread -> what its last call of run() returned or raised

flightVars == <<clock, registry, flightKey, doneAt, outcome, waiters, stats, pc, flight, result>>

NoFlight == 0
Never    == -1
Flights  == 1 .. MaxCalls

\* Where a thread can be.  "waiting": in event.wait after joining an active
\* flight; "woken" / "expired": the wait returned True / False and the lock
\* has not been taken again; "reading": about to read the flight's outcome.
FlightPlaces == {"idle", "leading", "waiting", "woken", "expired", "reading"}

Results == Outcomes \cup {"none", "timeout", "capacity"}

Counters == {"leaders", "shared", "followers", "timeouts", "rejections"}

FlightTypeOK ==
    /\ clock \in 0 .. MaxClock
    /\ registry \in [Keys -> Flights \cup {NoFlight}]
    /\ flightKey \in [Flights -> Keys \cup {0}]
    /\ doneAt \in [Flights -> Nat \cup {Never}]
    /\ outcome \in [Flights -> Outcomes \cup {"none"}]
    /\ waiters \in [Flights -> Nat]
    /\ stats \in [Counters -> Nat]
    /\ pc \in [Callers -> FlightPlaces]
    /\ flight \in [Callers -> Flights \cup {NoFlight}]
    /\ result \in [Callers -> Results]

FlightInit ==
    /\ clock = 0
    /\ registry = [k \in Keys |-> NoFlight]
    /\ flightKey = [f \in Flights |-> 0]
    /\ doneAt = [f \in Flights |-> Never]
    /\ outcome = [f \in Flights |-> "none"]
    /\ waiters = [f \in Flights |-> 0]
    /\ stats = [s \in Counters |-> 0]
    /\ pc = [c \in Callers |-> "idle"]
    /\ flight = [c \in Callers |-> NoFlight]
    /\ result = [c \in Callers |-> "none"]

----------------------------------------------------------------------------
(* The registry                                                            *)

Completed(f) == doneAt[f] # Never

\* A key whose entry is a completed flight, in registry contents reg.
CompletedKey(reg, k) == reg[k] # NoFlight /\ Completed(reg[k])

\* Keys with an entry: len(self._flights).
Entries(reg) == {k \in Keys : reg[k] # NoFlight}

\* Variant used to test the checks: an expiry that keeps results one tick too long.
LateExpired(f) == Completed(f) /\ clock - doneAt[f] > ResultTTL

\* _expire_completed(now)
Expired(f) == Completed(f) /\ clock - doneAt[f] >= ResultTTL

ExpireCompleted(reg) ==
    [k \in Keys |-> IF reg[k] # NoFlight /\ Expired(reg[k]) THEN NoFlight ELSE reg[k]]

\* min(completed): the key _evict_oldest_completed deletes, if there is one.
OldestCompleted(reg, k) ==
    /\ CompletedKey(reg, k)
    /\ \A j \in Keys :
          CompletedKey(reg, j) =>
              \/ doneAt[reg[k]] < doneAt[reg[j]]
              \/ doneAt[reg[k]] = doneAt[reg[j]] /\ k <= j

\* The contents that the while loop of run() can leave behind: none when the
\* registry is full of active operations and _evict_oldest_completed fails.  The
\* loop runs at most once, because the registry never holds more than MaxEntries
\* entries (WithinCapacity below).
Rooms(reg) ==
    IF Cardinality(Entries(reg)) < MaxEntries
      THEN {reg}
      ELSE {[reg EXCEPT ![k] = NoFlight] : k \in {j \in Keys : OldestCompleted(reg, j)}}

----------------------------------------------------------------------------
(* run(): the first lock-protected section                                 *)

\* Calls of run() so far, whatever became of them.
Entered == stats["leaders"] + stats["shared"] + stats["rejections"]

MayCall(c) == pc[c] = "idle" /\ Entered < MaxCalls

\* No entry for k: create the flight and lead it.
RunLead(c, k) ==
    LET reg == ExpireCompleted(registry)
        f   == stats["leaders"] + 1
    IN  /\ MayCall(c)
        /\ reg[k] = NoFlight
        /\ \E room \in Rooms(reg) : registry' = [room EXCEPT ![k] = f]
        /\ flightKey' = [flightKey EXCEPT ![f] = k]
        /\ stats' = [stats EXCEPT !["leaders"] = @ + 1]
        /\ pc' = [pc EXCEPT ![c] = "leading"]
        /\ flight' = [flight EXCEPT ![c] = f]
        /\ UNCHANGED <<clock, doneAt, outcome, waiters, result>>

\* No entry for k and no room for one: SingleFlightCapacityError.
RunReject(c, k) ==
    LET reg == ExpireCompleted(registry)
    IN  /\ MayCall(c)
        /\ reg[k] = NoFlight
        /\ Rooms(reg) = {}
        /\ registry' = reg
        /\ stats' = [stats EXCEPT !["rejections"] = @ + 1]
        /\ result' = [result EXCEPT ![c] = "capacity"]
        /\ UNCHANGED <<clock, flightKey, doneAt, outcome, waiters, pc, flight>>

\* k has an active flight: register as a waiter and go and wait.
RunJoinActive(c, k) ==
    LET reg == ExpireCompleted(registry)
        f   == reg[k]
    IN  /\ MayCall(c)
        /\ f # NoFlight
        /\ ~Completed(f)
        /\ registry' = reg
        /\ waiters' = [waiters EXCEPT ![f] = @ + 1]
        /\ stats' = [stats EXCEPT !["shared"] = @ + 1, !["followers"] = @ + 1]
        /\ pc' = [pc EXCEPT ![c] = "waiting"]
        /\ flight' = [flight EXCEPT ![c] = f]
        /\ UNCHANGED <<clock, flightKey, doneAt, outcome, result>>

\* k has a completed flight inside its TTL: its event is set, so the wait
\* returns at once and nothing was registered.
RunJoinCompleted(c, k) ==
    LET reg == ExpireCompleted(registry)
        f   == reg[k]
    IN  /\ MayCall(c)
        /\ f # NoFlight
        /\ Completed(f)
        /\ registry' = reg
        /\ stats' = [stats EXCEPT !["shared"] = @ + 1]
        /\ pc' = [pc EXCEPT ![c] = "reading"]
        /\ flight' = [flight EXCEPT ![c] = f]
        /\ UNCHANGED <<clock, flightKey, doneAt, outcome, waiters, result>>

----------------------------------------------------------------------------
(* run(): the leader's second section, and what a follower does            *)

\* operation() returned or raised o; one section stores it, stamps
\* completed_at and sets the event, then run() returns or re-raises o.
Finish(c, o) ==
    LET f == flight[c]
    IN  /\ pc[c] = "leading"
        /\ outcome' = [outcome EXCEPT ![f] = o]
        /\ doneAt' = [doneAt EXCEPT ![f] = clock]
        /\ pc' = [pc EXCEPT ![c] = "idle"]
        /\ result' = [result EXCEPT ![c] = o]
        /\ UNCHANGED <<clock, registry, flightKey, waiters, stats, flight>>

\* event.wait(timeout) returns True.
Wake(c) ==
    /\ pc[c] = "waiting"
    /\ Completed(flight[c])
    /\ pc' = [pc EXCEPT ![c] = "woken"]
    /\ UNCHANGED <<clock, registry, flightKey, doneAt, outcome, waiters, stats, flight, result>>

\* Variant used to test the checks: event.wait() without a timeout.
WaitWithoutTimeout(c) ==
    /\ pc[c] = "waiting"
    /\ Completed(flight[c])
    /\ pc' = [pc EXCEPT ![c] = "expired"]
    /\ UNCHANGED <<clock, registry, flightKey, doneAt, outcome, waiters, stats, flight, result>>

\* event.wait(timeout) returns False.  Timeouts are any non-negative number, so
\* the deadline may fall at any moment at which the event is not set.
WaitExpires(c) ==
    /\ pc[c] = "waiting"
    /\ ~Completed(flight[c])
    /\ pc' = [pc EXCEPT ![c] = "expired"]
    /\ UNCHANGED <<clock, registry, flightKey, doneAt, outcome, waiters, stats, flight, result>>

\* Variant used to test the checks: a timed-out follower forgets to leave.
LeaveOnlyIfWoken(c) ==
    /\ pc[c] \in {"woken", "expired"}
    /\ \/ /\ pc[c] = "woken"
          /\ waiters' = [waiters EXCEPT ![flight[c]] = @ - 1]
          /\ stats' = [stats EXCEPT !["followers"] = @ - 1]
          /\ pc' = [pc EXCEPT ![c] = "reading"]
          /\ UNCHANGED result
       \/ /\ pc[c] = "expired"
          /\ stats' = [stats EXCEPT !["timeouts"] = @ + 1]
          /\ pc' = [pc EXCEPT ![c] = "idle"]
          /\ result' = [result EXCEPT ![c] = "timeout"]
          /\ UNCHANGED waiters
    /\ UNCHANGED <<clock, registry, flightKey, doneAt, outcome, flight>>

\* The follower's lock-protected section: leave the flight, and raise
\* SingleFlightTimeout when the wait had expired.
Leave(c) ==
    /\ pc[c] \in {"woken", "expired"}
    /\ waiters' = [waiters EXCEPT ![flight[c]] = @ - 1]
    /\ \/ /\ pc[c] = "woken"
          /\ stats' = [stats EXCEPT !["followers"] = @ - 1]
          /\ pc' = [pc EXCEPT ![c] = "reading"]
          /\ UNCHANGED result
       \/ /\ pc[c] = "expired"
          /\ stats' = [stats EXCEPT !["followers"] = @ - 1, !["timeouts"] = @ + 1]
          /\ pc' = [pc EXCEPT ![c] = "idle"]
          /\ result' = [result EXCEPT ![c] = "timeout"]
    /\ UNCHANGED <<clock, registry, flightKey, doneAt, outcome, flight>>

\* Without the lock: raise flight.error or return flight.value.
Read(c) ==
    /\ pc[c] = "reading"
    /\ pc' = [pc EXCEPT ![c] = "idle"]
    /\ result' = [result EXCEPT ![c] = outcome[flight[c]]]
    /\ UNCHANGED <<clock, registry, flightKey, doneAt, outcome, waiters, stats, flight>>

----------------------------------------------------------------------------
(* invalidate(), stats() and the clock                                     *)

\* Variant used to test the checks: invalidate() without the completed_at test.
InvalidateAny(k) ==
    /\ registry[k] # NoFlight
    /\ registry' = [registry EXCEPT ![k] = NoFlight]
    /\ UNCHANGED <<clock, flightKey, doneAt, outcome, waiters, stats, pc, flight, result>>

\* Only a completed flight is forgotten.
Invalidate(k) ==
    /\ CompletedKey(registry, k)
    /\ registry' = [registry EXCEPT ![k] = NoFlight]
    /\ UNCHANGED <<clock, flightKey, doneAt, outcome, waiters, stats, pc, flight, result>>

\* stats() expires completed flights before it counts.
Stats ==
    /\ registry' = ExpireCompleted(registry)
    /\ UNCHANGED <<clock, flightKey, doneAt, outcome, waiters, stats, pc, flight, result>>

Tick ==
    /\ clock < MaxClock
    /\ clock' = clock + 1
    /\ UNCHANGED <<registry, flightKey, doneAt, outcome, waiters, stats, pc, flight, result>>

Run(c) == \E k \in Keys : RunLead(c, k) \/ RunReject(c, k) \/ RunJoinActive(c, k)
                          \/ RunJoinCompleted(c, k)

Follow(c) == Wake(c) \/ WaitExpires(c) \/ Leave(c) \/ Read(c)

FlightNext ==
    \/ \E c \in Callers : Run(c)
    \/ \E c \in Callers, o \in Outcomes : Finish(c, o)
    \/ \E c \in Callers : Follow(c)
    \/ \E k \in Keys : Invalidate(k)
    \/ Stats
    \/ Tick

\* A thread inside run() is scheduled, and its wait() is bounded by its own
\* timeout, so a follower keeps moving.  Nothing is assumed of the leader's
\* operation: a provider call may hang.
FlightFairness == \A c \in Callers : WF_flightVars(Follow(c))

FlightSpec == FlightInit /\ [][FlightNext]_flightVars

FlightFairSpec == FlightSpec /\ FlightFairness

----------------------------------------------------------------------------
(* Properties                                                              *)

\* Followers registered on flight f: between the two locked sections of run().
Joined(c) == pc[c] \in {"waiting", "woken", "expired"}

WaitingOn(f) == {c \in Callers : Joined(c) /\ flight[c] = f}

\* Duplicate work is coalesced: no two threads execute the operation for the
\* same key at the same time, because an active flight is never expired,
\* evicted or invalidated.
OneLeaderPerKey ==
    \A c, d \in Callers :
        /\ pc[c] = "leading"
        /\ pc[d] = "leading"
        /\ flightKey[flight[c]] = flightKey[flight[d]]
        => c = d

\* The registry never grows past max_entries.
WithinCapacity == Cardinality(Entries(registry)) <= MaxEntries

\* flight.waiters counts the followers registered on that flight, on a flight
\* that has left the registry too, and followers_waiting counts all of them:
\* a timeout that races the leader's completion is neither lost nor counted twice.
WaiterAccounting ==
    /\ \A f \in Flights : waiters[f] = Cardinality(WaitingOn(f))
    /\ stats["followers"] = Cardinality({c \in Callers : Joined(c)})

\* A follower that is about to read an outcome reads the one its flight's
\* operation produced: never an unset value, although no lock is held.
ReadsACompletedFlight ==
    \A c \in Callers : pc[c] = "reading" => outcome[flight[c]] \in Outcomes

\* A caller that shares a completed result calls less than ResultTTL after it
\* was produced; with ResultTTL = 0, as translator.py uses it, only active work
\* is ever shared.
SharedResultIsFresh ==
    [][\A c \in Callers :
          pc[c] = "idle" /\ pc'[c] = "reading" =>
              /\ doneAt[flight'[c]] # Never
              /\ clock - doneAt[flight'[c]] < ResultTTL]_flightVars

\* Every follower returns or raises, even when the leader never finishes.
FollowersReturn ==
    \A c \in Callers : Joined(c) \/ pc[c] = "reading" ~> pc[c] = "idle"

=============================================================================
