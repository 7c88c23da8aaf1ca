------------------------------ MODULE Admission ------------------------------
(***************************************************************************)
(* Admission of requests by the server (server.py): before_request_hook    *)
(* and POST /session.                                                      *)
(*                                                                         *)
(* A protected request passes, in this order, the sliding window of its    *)
(* client's authentication attempts, the bound on the client's concurrent  *)
(* authentications, the authentication itself, and the sliding window of   *)
(* its subject's API requests.  POST /session authenticates nobody in the  *)
(* hook: it passes the API window of its client first and then, in the     *)
(* handler, the two authentication bounds around the exchange.             *)
(*                                                                         *)
(* The tables are dictionaries under one lock, and every lock section is   *)
(* one step.  A section works with a reading of the clock that its thread  *)
(* took before it waited for the lock: at most Stall old.  The authority   *)
(* (token comparison, reader session, Calibre-Web probe) is a choice       *)
(* between an identity and a failure; ReaderSession models one of them.    *)
(***************************************************************************)
EXTENDS Naturals, Sequences, FiniteSets, Queues

CONSTANTS
    Threads,        \* server threads
    Clients,        \* observed client addresses
    Subjects,       \* authenticated subjects
    AuthLimit,      \* BT_AUTH_RATE_LIMIT_PER_MINUTE
    ApiLimit,       \* BT_RATE_LIMIT_PER_MINUTE
    MaxInflight,    \* BT_AUTH_MAX_INFLIGHT_PER_CLIENT
    MaxClients,     \* BT_RATE_LIMIT_MAX_CLIENTS
    Window,         \* RATE_LIMIT_WINDOW
    Stall,          \* longest time between a clock reading and its lock section
    MaxTime,        \* bound on the clock
    Anonymous,      \* the subject of every request when authentication is off
    None

ASSUME AdmissionAssumption ==
    /\ \A n \in {AuthLimit, ApiLimit, MaxInflight, MaxClients, Window} : n \in Nat \ {0}
    /\ Stall \in Nat /\ Stall < Window /\ MaxTime \in Nat
    /\ IsFiniteSet(Threads) /\ IsFiniteSet(Clients) /\ IsFiniteSet(Subjects)
    /\ None \notin Clients \cup Subjects /\ Anonymous \notin Clients \cup Subjects

VARIABLES
    clock,      \* time.monotonic
    store,      \* _auth_rate_limit_store ("auth") and _rate_limit_store ("api")
    inflight,   \* _auth_inflight_store
    req,        \* what each server thread is doing
    log         \* history: the admissions of each window, by key

vars == <<clock, store, inflight, req, log>>

Windows == {"auth", "api"}
Limit(w) == IF w = "auth" THEN AuthLimit ELSE ApiLimit

\* Keys of the API window: subject, client of an exchange, anonymous client.
Keys == Clients \cup Subjects \cup (Clients \X {Anonymous})

Idle == [pc |-> "idle", kind |-> "api", client |-> None, key |-> None,
         outcome |-> "none"]

Init ==
    /\ clock = 0
    /\ store = [w \in Windows |-> <<>>]
    /\ inflight = <<>>
    /\ req = [p \in Threads |-> Idle]
    /\ log = [w \in Windows |-> [k \in Keys |-> <<>>]]

----------------------------------------------------------------------------
(* _check_window_rate_limit                                                 *)

\* The clock readings a lock section may work with.
Readings == {now \in 0 .. clock : clock - now <= Stall}

\* A timestamp is in the window that ends at now.
Active(t, now) == t + Window > now

HasActive(stamps, now) == \E i \in DOMAIN stamps : Active(stamps[i], now)

\* Variant: buckets are never reclaimed.
KeepAll(buckets, now) == buckets

\* The buckets with an active timestamp.
Reclaim(buckets, now) ==
    [k \in {j \in DOMAIN buckets : HasActive(buckets[j], now)} |-> buckets[k]]

\* Variant: the pressure empties the table.
ReclaimAll(buckets, key, now) ==
    IF key \notin DOMAIN buckets /\ Cardinality(DOMAIN buckets) >= MaxClients
      THEN <<>> ELSE buckets

\* Under pressure, stale buckets are dropped for a new key.
Relieved(buckets, key, now) ==
    IF key \notin DOMAIN buckets /\ Cardinality(DOMAIN buckets) >= MaxClients
      THEN Reclaim(buckets, now) ELSE buckets

Bucket(buckets, key, now) ==
    IF key \in DOMAIN buckets
      THEN Only(buckets[key], {t \in 0 .. clock : Active(t, now)}) ELSE <<>>

SetBucket(buckets, key, stamps) ==
    [k \in DOMAIN buckets \cup {key} |-> IF k = key THEN stamps ELSE buckets[k]]

\* There is room for the key's bucket.
RoomFor(buckets, key) ==
    key \in DOMAIN buckets \/ Cardinality(DOMAIN buckets) < MaxClients

(* One lock section: the table, the admission and the history after it.    *)
CheckWindow(w, key, now, admitted) ==
    LET buckets == Relieved(store[w], key, now)
        stamps == Bucket(buckets, key, now)
    IN /\ admitted = (RoomFor(buckets, key) /\ Len(stamps) < Limit(w))
       /\ store' = [store EXCEPT ![w] =
             IF ~RoomFor(buckets, key) THEN buckets
             ELSE SetBucket(buckets, key, IF admitted THEN Append(stamps, now) ELSE stamps)]
       /\ log' = IF admitted THEN [log EXCEPT ![w][key] = Append(@, now)] ELSE log

----------------------------------------------------------------------------
(* The path of a request                                                    *)

Final == {"admitted", "refused"}

\* A request that was admitted or refused needs no more of what it knew.
Goto(p, pc) == req' = [req EXCEPT ![p] =
    IF pc \in Final THEN [Idle EXCEPT !.pc = pc] ELSE [@ EXCEPT !.pc = pc]]

\* kind: "api", "exempt" (/stats, /metrics) or "exchange" (POST /session).
Arrive(p, kind, client) ==
    /\ req[p].pc = "idle"
    /\ req' = [req EXCEPT ![p] =
          [pc |-> IF kind = "exchange" THEN "api" ELSE "auth", kind |-> kind,
           client |-> client, key |-> client, outcome |-> "none"]]
    /\ UNCHANGED <<clock, store, inflight, log>>

\* _check_auth_rate_limit: the window of the client's attempts.
AuthWindow(p, now) ==
    /\ req[p].pc = "auth"
    /\ \E admitted \in BOOLEAN :
          /\ CheckWindow("auth", req[p].client, now, admitted)
          /\ Goto(p, IF admitted THEN "acquire" ELSE "refused")
    /\ UNCHANGED <<clock, inflight>>

Slots(c) == IF c \in DOMAIN inflight THEN inflight[c] ELSE 0

\* _acquire_auth_inflight.
Acquire(p) ==
    /\ req[p].pc = "acquire"
    /\ LET c == req[p].client IN
       IF Slots(c) >= MaxInflight
          \/ (Slots(c) = 0 /\ Cardinality(DOMAIN inflight) >= MaxClients)
         THEN Goto(p, "refused") /\ UNCHANGED inflight
         ELSE /\ inflight' = SetBucket(inflight, c, Slots(c) + 1)
              /\ Goto(p, "authenticate")
    /\ UNCHANGED <<clock, store, log>>

\* The authority answers: the request acts for subject from here on.
Identify(p, subject) ==
    /\ req[p].pc = "authenticate"
    /\ req' = [req EXCEPT ![p] =
          [pc |-> "release", kind |-> @.kind, client |-> @.client,
           key |-> IF @.kind = "exchange" THEN @.key
                   ELSE IF subject = Anonymous THEN <<@.client, Anonymous>>
                   ELSE subject,
           outcome |-> "identity"]]
    /\ UNCHANGED <<clock, store, inflight, log>>

\* Variant: a failure skips the release.
AuthFailsKeepsSlot(p) ==
    /\ req[p].pc = "authenticate"
    /\ Goto(p, "refused")
    /\ UNCHANGED <<clock, store, inflight, log>>

\* It rejects the request, is unavailable, or raises anything else.
AuthFails(p) ==
    /\ req[p].pc = "authenticate"
    /\ req' = [req EXCEPT ![p].pc = "release", ![p].outcome = "failure"]
    /\ UNCHANGED <<clock, store, inflight, log>>

\* The finally block: _release_auth_inflight, whatever the authority did.
Release(p) ==
    /\ req[p].pc = "release"
    /\ LET c == req[p].client IN
       inflight' = IF Slots(c) <= 1
                     THEN [d \in DOMAIN inflight \ {c} |-> inflight[d]]
                     ELSE [inflight EXCEPT ![c] = @ - 1]
    /\ Goto(p, IF req[p].outcome = "failure" THEN "refused"
               ELSE IF req[p].kind = "api" THEN "api" ELSE "admitted")
    /\ UNCHANGED <<clock, store, log>>

\* _check_rate_limit: the window of the subject, or of an exchange's client.
ApiWindow(p, now) ==
    /\ req[p].pc = "api"
    /\ \E admitted \in BOOLEAN :
          /\ CheckWindow("api", req[p].key, now, admitted)
          /\ Goto(p, IF ~admitted THEN "refused"
                     ELSE IF req[p].kind = "exchange" THEN "auth" ELSE "admitted")
    /\ UNCHANGED <<clock, inflight>>

\* The handler ends, or the refusal is sent.
Finish(p) ==
    /\ req[p].pc \in Final
    /\ req' = [req EXCEPT ![p] = Idle]
    /\ UNCHANGED <<clock, store, inflight, log>>

\* _cleanup_rate_limits, hourly: one lock section over both tables.
Cleanup(now) ==
    /\ store' = [w \in Windows |->
          [k \in DOMAIN Reclaim(store[w], now) |-> Bucket(store[w], k, now)]]
    /\ UNCHANGED <<clock, inflight, req, log>>

\* Time passes; the history forgets what no property looks at any more.
Tick ==
    /\ clock < MaxTime
    /\ clock' = clock + 1
    /\ log' = [w \in Windows |-> [k \in Keys |->
          Only(log[w][k], {t \in 0 .. clock : t + Window + Stall > clock'})]]
    /\ UNCHANGED <<store, inflight, req>>

Next ==
    \/ \E p \in Threads :
         \/ \E kind \in {"api", "exempt", "exchange"}, c \in Clients : Arrive(p, kind, c)
         \/ \E now \in Readings : AuthWindow(p, now) \/ ApiWindow(p, now)
         \/ \E s \in Subjects \cup {Anonymous} : Identify(p, s)
         \/ Acquire(p) \/ AuthFails(p) \/ Release(p) \/ Finish(p)
    \/ \E now \in Readings : Cleanup(now)
    \/ Tick

Spec == Init /\ [][Next]_vars

----------------------------------------------------------------------------
(* Properties                                                               *)

(* Types; no table holds more keys than BT_RATE_LIMIT_MAX_CLIENTS and no   *)
(* bucket more timestamps than its limit.                                  *)
TypeOK ==
    /\ clock \in 0 .. MaxTime
    /\ \A w \in Windows :
          /\ DOMAIN store[w] \in SUBSET Keys
          /\ Cardinality(DOMAIN store[w]) <= MaxClients
          /\ \A k \in DOMAIN store[w] :
                store[w][k] \in Seq(0 .. clock) /\ Len(store[w][k]) <= Limit(w)
    /\ DOMAIN inflight \in SUBSET Clients
    /\ Cardinality(DOMAIN inflight) <= MaxClients
    /\ \A c \in DOMAIN inflight : inflight[c] \in 1 .. MaxInflight
    /\ \A p \in Threads : req[p].pc \in {"idle", "auth", "acquire", "authenticate",
                                          "release", "api", "admitted", "refused"}

\* The requests of client c that hold a slot of the authority.
Holding(c) == {p \in Threads : req[p].client = c /\ req[p].pc \in {"authenticate", "release"}}

(* The in-flight counter of every client is exactly the number of its      *)
(* requests that are between _acquire_auth_inflight and the finally block: *)
(* no slot leaks, so no client is locked out for good, and the authority   *)
(* never has more than BT_AUTH_MAX_INFLIGHT_PER_CLIENT of its requests.    *)
SlotsMatch == \A c \in Clients : /\ Slots(c) = Cardinality(Holding(c))
                                 /\ Slots(c) <= MaxInflight

\* The admissions of key k that the span of length n after t holds.
Within(w, k, t, n) == {i \in DOMAIN log[w][k] : log[w][k][i] \in t .. t + n - 1}

(* Sliding windows.  Whatever threads race, stall or reclaim buckets, no   *)
(* key is admitted more often than its limit in any span of               *)
(* Window - Stall: the code promises a window of RATE_LIMIT_WINDOW, and    *)
(* the time a thread waits for the lock is all that it can lose of it.     *)
SlidingWindow ==
    \A w \in Windows, k \in Keys, t \in 0 .. clock :
        Cardinality(Within(w, k, t, Window - Stall)) <= Limit(w)

\* The key had used up its window, or MaxClients others were active.
Spent(w, key, now) ==
    \/ Cardinality({i \in DOMAIN log[w][key] : Active(log[w][key][i], now)}) >= Limit(w)
    \/ Cardinality({k \in Keys : HasActive(log[w][k], now)}) >= MaxClients

(* A window turns a request away only when, by the admissions that really  *)
(* took place, the key has spent its limit or MaxClients keys were active  *)
(* at the time the check worked with: stale buckets never keep a new       *)
(* client out.                                                             *)
JustRefusal ==
    [][\A p \in Threads, now \in Readings :
          /\ AuthWindow(p, now) /\ req'[p].pc = "refused" => Spent("auth", req[p].client, now)
          /\ ApiWindow(p, now) /\ req'[p].pc = "refused" => Spent("api", req[p].key, now)]_vars
=============================================================================
