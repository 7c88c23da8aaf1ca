-------------------------- MODULE TranslationCache --------------------------
(***************************************************************************)
(* CacheStore of cache.py: the SQLite table translations_v2, shared by the *)
(* threads of the API, and what the process keeps beside it in memory: the *)
(* hit counters that have not been flushed and the write counter that      *)
(* decides when retention runs.                                            *)
(*                                                                         *)
(* One action stands for one SQL statement or transaction, one section     *)
(* under a lock, or the reading of the clock that precedes them: SQLite    *)
(* lets one writer at a time run from its first statement to its commit,   *)
(* so a write transaction is one step, but the clock, a SELECT and the     *)
(* statement that uses their result are different steps.  A transaction    *)
(* may fail and roll back, and the process may die and start again.        *)
(***************************************************************************)
EXTENDS Integers, FiniteSets

CONSTANTS Threads,         \* worker threads of the API
          Keys,            \* cache keys; numbers, because retention orders rows by key last
          Batches,         \* the sets of keys that one call looks up or stores
          Reasoning,       \* keys whose row, from an earlier release, holds a <think> block
          TTL,             \* ttl_days
          CleanupDays,     \* the days of an administrator's cleanup
          MaxEntries,      \* max_entries
          FlushThreshold,  \* hit_flush_threshold
          MaxClock,        \* bound: days in one behaviour
          MaxOps,          \* bound: calls and restarts in one behaviour
          MaxFailures      \* bound: transactions that fail in one behaviour

ASSUME KeysAssumption ==
    /\ IsFiniteSet(Keys)
    /\ Keys \subseteq Nat
    /\ Batches \subseteq (SUBSET Keys) \ {{}}
    /\ Reasoning \subseteq Keys

ASSUME ThreadsAssumption == "nobody" \notin Threads

\* The constructor and cleanup() reject anything else.
ASSUME LimitsAssumption ==
    /\ {TTL, CleanupDays, MaxEntries, FlushThreshold} \subseteq Nat \ {0}
    /\ {MaxClock, MaxOps, MaxFailures} \subseteq Nat

VARIABLES
    clock,      \* self._utc_now()
    rows,       \* the table: key -> row, or NoRow
    pending,    \* self._pending_hits: key -> hits not yet in the table
    total,      \* self._pending_hits_total
    flusher,    \* the thread that holds self._flush_lock, or "nobody"
    carry,      \* the hits that the flusher has taken out of pending
    carried,    \* and its pending_total
    writes,     \* self._writes_since_prune
    pc,         \* thread -> where it is
    stamp,      \* thread -> the clock it read for a cutoff or a timestamp
    want,       \* thread -> the keys of its call
    seen,       \* thread -> key -> created_at of an expired row it read
    then,       \* thread -> where it goes after flush_hits()
    ops,        \* calls and restarts so far
    failures,   \* failed transactions so far
    recorded,   \* history: hits recorded so far
    dropped,    \* history: hits lost with their row or with the process
    skipped     \* history: a due retention was rolled back and none succeeded since

store  == <<rows, pending, total, flusher, carry, carried, writes>>
locals == <<pc, stamp, want, seen, then>>
ghosts == <<recorded, dropped, skipped>>
vars   == <<clock, store, locals, ops, failures, ghosts>>

Never == -1
NoRow == [created |-> Never, accessed |-> Never, hits |-> 0, think |-> FALSE]

Days == 0 .. MaxClock
Row  == [created : Days, accessed : Days, hits : Nat, think : BOOLEAN]

Places == {"idle", "select", "evict", "hits", "flush", "flushing", "put", "cleanup"}

TypeOK ==
    /\ clock \in Days
    /\ rows \in [Keys -> Row \cup {NoRow}]
    /\ pending \in [Keys -> Nat]
    /\ total \in Nat
    /\ flusher \in Threads \cup {"nobody"}
    /\ carry \in [Keys -> Nat]
    /\ carried \in Nat
    /\ writes \in Nat
    /\ pc \in [Threads -> Places]
    /\ stamp \in [Threads -> Days]
    /\ want \in [Threads -> SUBSET Keys]
    /\ seen \in [Threads -> [Keys -> Days \cup {Never}]]
    /\ then \in [Threads -> {"idle", "hits", "cleanup"}]
    /\ ops \in 0 .. MaxOps
    /\ failures \in 0 .. MaxFailures
    /\ recorded \in Nat
    /\ dropped \in Nat
    /\ skipped \in BOOLEAN

Zero == [k \in Keys |-> 0]

\* The sum of a function from keys to numbers: one mark for every unit.
Marks(f) == UNION {{k} \X (1 .. f[k]) : k \in Keys}
SumOf(f) == Cardinality(Marks(f))

----------------------------------------------------------------------------
(* The table                                                               *)

Stored(table) == {k \in Keys : table[k] # NoRow}

\* created_at < _cutoff(days), with the clock read at now.
ExpiredRow(row, now, days) == row # NoRow /\ row.created < now - days

\* _delete_expired, and the DELETE of cleanup.
DeleteExpired(table, now, days) ==
    [k \in Keys |-> IF ExpiredRow(table[k], now, days) THEN NoRow ELSE table[k]]

\* ORDER BY last_accessed_at DESC, created_at DESC, cache_key DESC: j before k.
Before(table, j, k) ==
    \/ table[j].accessed > table[k].accessed
    \/ /\ table[j].accessed = table[k].accessed
       /\ \/ table[j].created > table[k].created
          \/ table[j].created = table[k].created /\ j > k

\* _enforce_cap deletes every row that MaxEntries others come before.
EnforceCap(table) ==
    [k \in Keys |->
        IF Cardinality({j \in Stored(table) : Before(table, j, k)}) >= MaxEntries
          THEN NoRow ELSE table[k]]

Prune(table, now, days) == EnforceCap(DeleteExpired(table, now, days))

\* The hits of the rows that a transaction deletes.
HitsGone(old, new) ==
    SumOf([k \in Keys |-> IF new[k] = NoRow THEN old[k].hits ELSE 0])

Watermark == IF MaxEntries < 1000 THEN MaxEntries ELSE 1000

\* A new process: __init__ and init() on whatever table the last one left.
Init ==
    /\ clock = 0
    /\ rows = EnforceCap([k \in Keys |->
                  IF k \in Reasoning
                    THEN [created |-> 0, accessed |-> 0, hits |-> 0, think |-> TRUE] ELSE NoRow])
    /\ pending = Zero
    /\ total = 0
    /\ flusher = "nobody"
    /\ carry = Zero
    /\ carried = 0
    /\ writes = 0
    /\ pc = [t \in Threads |-> "idle"]
    /\ stamp = [t \in Threads |-> 0]
    /\ want = [t \in Threads |-> {}]
    /\ seen = [t \in Threads |-> [k \in Keys |-> Never]]
    /\ then = [t \in Threads |-> "idle"]
    /\ ops = 0
    /\ failures = 0
    /\ recorded = 0
    /\ dropped = 0
    /\ skipped = FALSE

----------------------------------------------------------------------------
(* Moving a thread                                                         *)

\* A call begins: the thread reads the clock.
Begin(t, place, keys) ==
    /\ pc[t] = "idle"
    /\ ops < MaxOps
    /\ ops' = ops + 1
    /\ pc' = [pc EXCEPT ![t] = place]
    /\ want' = [want EXCEPT ![t] = keys]
    /\ stamp' = [stamp EXCEPT ![t] = clock]

\* A transaction fails: it is rolled back and the exception leaves the call.
Fail(t) ==
    /\ failures < MaxFailures
    /\ failures' = failures + 1
    /\ pc' = [pc EXCEPT ![t] = "idle"]
    /\ UNCHANGED <<clock, stamp, want, seen, then, ops>>

\* There are hits to record for the keys of a call, or it returns.
HitsOrIdle(keys) == IF keys = {} THEN "idle" ELSE "hits"

----------------------------------------------------------------------------
(* get, get_many and record_hit                                            *)

Lookup(t, keys) ==
    /\ Begin(t, "select", keys)
    /\ UNCHANGED <<clock, store, seen, then, failures, ghosts>>

\* The SELECT.  What it returns is all that the rest of the call uses.
Select(t) ==
    LET old == {k \in want[t] : ExpiredRow(rows[k], stamp[t], TTL)}
        hit == {k \in want[t] \cap Stored(rows) : k \notin old /\ ~rows[k].think}
    IN  /\ pc[t] = "select"
        /\ seen' = [seen EXCEPT ![t] =
                       [k \in Keys |-> IF k \in old THEN rows[k].created ELSE Never]]
        /\ want' = [want EXCEPT ![t] = hit]
        /\ pc' = [pc EXCEPT ![t] = IF old # {} THEN "evict" ELSE HitsOrIdle(hit)]
        /\ UNCHANGED <<clock, store, stamp, then, ops, failures, ghosts>>

\* Variant used to test the checks: DELETE ... WHERE cache_key = ? alone.
EvictByKey(t) ==
    LET left == [k \in Keys |-> IF seen[t][k] # Never THEN NoRow ELSE rows[k]]
    IN  /\ pc[t] = "evict"
        /\ rows' = left
        /\ dropped' = dropped + HitsGone(rows, left)
        /\ pc' = [pc EXCEPT ![t] = HitsOrIdle(want[t])]
        /\ UNCHANGED <<clock, pending, total, flusher, carry, carried, writes, stamp, want, seen,
                       then, ops, failures, recorded, skipped>>

\* DELETE ... WHERE cache_key = ? AND created_at = ? for every expired row seen.
Evict(t) ==
    LET left == [k \in Keys |-> IF seen[t][k] # Never /\ rows[k].created = seen[t][k]
                                  THEN NoRow ELSE rows[k]]
    IN  /\ pc[t] = "evict"
        /\ rows' = left
        /\ dropped' = dropped + HitsGone(rows, left)
        /\ pc' = [pc EXCEPT ![t] = HitsOrIdle(want[t])]
        /\ UNCHANGED <<clock, pending, total, flusher, carry, carried, writes, stamp, want, seen,
                       then, ops, failures, recorded, skipped>>

EvictFail(t) ==
    /\ pc[t] = "evict"
    /\ Fail(t)
    /\ UNCHANGED <<store, ghosts>>

FlushDue(n) == n >= FlushThreshold

\* _queue_hit for one of the keys found, under _pending_lock.
RecordHit(t, k) ==
    /\ pc[t] = "hits"
    /\ k \in want[t]
    /\ pending' = [pending EXCEPT ![k] = @ + 1]
    /\ total' = total + 1
    /\ recorded' = recorded + 1
    /\ want' = [want EXCEPT ![t] = @ \ {k}]
    /\ then' = [then EXCEPT ![t] = "hits"]
    /\ pc' = [pc EXCEPT ![t] = IF FlushDue(total + 1) THEN "flush"
                               ELSE HitsOrIdle(want[t] \ {k})]
    /\ UNCHANGED <<clock, rows, flusher, carry, carried, writes, stamp, seen, ops, failures,
                   dropped, skipped>>

\* The caller does not take an incomplete group, and records nothing.
Ignore(t) ==
    /\ pc[t] = "hits"
    /\ pc' = [pc EXCEPT ![t] = "idle"]
    /\ UNCHANGED <<clock, store, stamp, want, seen, then, ops, failures, ghosts>>

----------------------------------------------------------------------------
(* flush_hits, stats, checkpoint, close and the start of cleanup           *)

FlushCall(t, next) ==
    /\ Begin(t, "flush", {})
    /\ then' = [then EXCEPT ![t] = next]
    /\ UNCHANGED <<clock, store, seen, failures, ghosts>>

\* Where a call goes on when flush_hits() has returned.
Onward(t) == IF then[t] = "hits" THEN HitsOrIdle(want[t]) ELSE then[t]

\* With _flush_lock: take everything that is pending and read the clock.
FlushTake(t) ==
    /\ pc[t] = "flush"
    /\ flusher = "nobody"
    /\ stamp' = [stamp EXCEPT ![t] = clock]
    /\ IF pending = Zero
         THEN /\ pc' = [pc EXCEPT ![t] = Onward(t)]
              /\ UNCHANGED store
         ELSE /\ pc' = [pc EXCEPT ![t] = "flushing"]
              /\ flusher' = t
              /\ carry' = pending
              /\ carried' = total
              /\ pending' = Zero
              /\ total' = 0
              /\ UNCHANGED <<rows, writes>>
    /\ UNCHANGED <<clock, want, seen, then, ops, failures, ghosts>>

\* The UPDATE of every key taken, and the commit.  cleanup() then reads the clock.
FlushCommit(t) ==
    /\ pc[t] = "flushing"
    /\ rows' = [k \in Keys |->
                   IF carry[k] > 0 /\ rows[k] # NoRow
                     THEN [rows[k] EXCEPT !.hits = @ + carry[k], !.accessed = stamp[t]]
                     ELSE rows[k]]
    /\ dropped' = dropped + SumOf([k \in Keys |-> IF rows[k] = NoRow THEN carry[k] ELSE 0])
    /\ carry' = Zero
    /\ carried' = 0
    /\ flusher' = "nobody"
    /\ pc' = [pc EXCEPT ![t] = Onward(t)]
    /\ stamp' = [stamp EXCEPT ![t] = clock]
    /\ UNCHANGED <<clock, pending, total, writes, want, seen, then, ops, failures, recorded, skipped>>

\* Variant used to test the checks: the hits taken replace the ones queued since.
FlushFailReplaces(t) ==
    /\ pc[t] = "flushing"
    /\ Fail(t)
    /\ pending' = carry
    /\ total' = carried
    /\ carry' = Zero
    /\ carried' = 0
    /\ flusher' = "nobody"
    /\ UNCHANGED <<rows, writes, ghosts>>

\* The UPDATE fails: the hits taken are added to what was queued meanwhile.
FlushFail(t) ==
    /\ pc[t] = "flushing"
    /\ Fail(t)
    /\ pending' = [k \in Keys |-> pending[k] + carry[k]]
    /\ total' = total + carried
    /\ carry' = Zero
    /\ carried' = 0
    /\ flusher' = "nobody"
    /\ UNCHANGED <<rows, writes, ghosts>>

----------------------------------------------------------------------------
(* put_many and cleanup                                                    *)

Put(t, keys) ==
    /\ Begin(t, "put", keys)
    /\ UNCHANGED <<clock, store, seen, then, failures, ghosts>>

\* INSERT ... ON CONFLICT DO UPDATE with the timestamp read before the transaction.
\* An existing row keeps its hit_count.
Upsert(t) ==
    [k \in Keys |->
        IF k \in want[t]
          THEN [created |-> stamp[t], accessed |-> stamp[t], hits |-> rows[k].hits, think |-> FALSE]
          ELSE rows[k]]

Due(t) == writes + Cardinality(want[t]) >= Watermark

\* The write counter after this call's rows, under _prune_lock.
Counted(t) == IF Due(t) THEN 0 ELSE writes + Cardinality(want[t])

\* Variant used to test the checks: the counter is reset before it is compared.
PutCommitNeverDue(t) ==
    /\ pc[t] = "put"
    /\ rows' = Upsert(t)
    /\ writes' = Counted(t)
    /\ pc' = [pc EXCEPT ![t] = "idle"]
    /\ UNCHANGED <<clock, pending, total, flusher, carry, carried, stamp, want, seen, then, ops,
                   failures, ghosts>>

\* One transaction: the rows, and retention when it is due.
PutCommit(t) ==
    LET new  == Upsert(t)
        left == IF Due(t) THEN Prune(new, clock, TTL) ELSE new
    IN  /\ pc[t] = "put"
        /\ rows' = left
        /\ dropped' = dropped + HitsGone(new, left)
        /\ writes' = Counted(t)
        /\ skipped' = (skipped /\ ~Due(t))
        /\ pc' = [pc EXCEPT ![t] = "idle"]
        /\ UNCHANGED <<clock, pending, total, flusher, carry, carried, stamp, want, seen, then, ops,
                       failures, recorded>>

\* The INSERT fails, or a later statement or the commit does: then the write
\* counter has already moved, and is not moved back.
PutFail(t) ==
    /\ pc[t] = "put"
    /\ Fail(t)
    /\ \/ UNCHANGED <<writes, skipped>>
       \/ /\ writes' = Counted(t)
          /\ skipped' = (skipped \/ Due(t))
    /\ UNCHANGED <<rows, pending, total, flusher, carry, carried, recorded, dropped>>

\* After the flush: the DELETE with the cutoff read before it, and the row cap.
CleanupCommit(t) ==
    LET left == Prune(rows, stamp[t], CleanupDays)
    IN  /\ pc[t] = "cleanup"
        /\ rows' = left
        /\ dropped' = dropped + HitsGone(rows, left)
        /\ pc' = [pc EXCEPT ![t] = "idle"]
        /\ UNCHANGED <<clock, pending, total, flusher, carry, carried, writes, stamp, want, seen,
                       then, ops, failures, recorded, skipped>>

CleanupFail(t) ==
    /\ pc[t] = "cleanup"
    /\ Fail(t)
    /\ UNCHANGED <<store, ghosts>>

----------------------------------------------------------------------------
(* The process and the clock                                               *)

\* The process dies and a new one opens the database: committed transactions
\* are there, everything in memory is gone, and init() runs retention.
Restart ==
    LET left == Prune(rows, clock, TTL)
    IN  /\ ops < MaxOps
        /\ ops' = ops + 1
        /\ rows' = left
        /\ dropped' = dropped + SumOf(pending) + SumOf(carry) + HitsGone(rows, left)
        /\ pending' = Zero
        /\ total' = 0
        /\ carry' = Zero
        /\ carried' = 0
        /\ flusher' = "nobody"
        /\ writes' = 0
        /\ skipped' = FALSE
        /\ pc' = [t \in Threads |-> "idle"]
        /\ UNCHANGED <<clock, stamp, want, seen, then, failures, recorded>>

\* A call waits for SQLite for seconds, so at most one midnight falls into it.
Tick ==
    /\ clock < MaxClock
    /\ \A t \in Threads : pc[t] # "idle" => stamp[t] = clock
    /\ clock' = clock + 1
    /\ UNCHANGED <<store, locals, ops, failures, ghosts>>

Call(t) ==
    \/ \E keys \in Batches : Lookup(t, keys) \/ Put(t, keys)
    \/ \E next \in {"idle", "cleanup"} : FlushCall(t, next)

\* What a thread does inside a call.
Step(t) ==
    \/ Select(t) \/ Evict(t) \/ EvictFail(t)
    \/ (\E k \in Keys : RecordHit(t, k)) \/ Ignore(t)
    \/ FlushTake(t) \/ FlushCommit(t) \/ FlushFail(t)
    \/ PutCommit(t) \/ PutFail(t)
    \/ CleanupCommit(t) \/ CleanupFail(t)

\* The bounds are used up and no call is in progress.
Terminated ==
    /\ \A t \in Threads : pc[t] = "idle"
    /\ UNCHANGED vars

Next ==
    \/ \E t \in Threads : Call(t) \/ Step(t)
    \/ Restart
    \/ Tick
    \/ Terminated

Spec == Init /\ [][Next]_vars

----------------------------------------------------------------------------
(* Properties                                                              *)

\* A translation leaves the table only when it is older than its retention, or
\* when the table is left full without it.  In particular a lookup that found an
\* expired row never deletes the fresh row that another thread has stored for the
\* same key since.
OnlyOldOrExcess ==
    [][\A k \in Keys : rows[k] # NoRow /\ rows'[k] = NoRow =>
          \/ ExpiredRow(rows[k], clock, IF TTL < CleanupDays THEN TTL ELSE CleanupDays)
          \/ Cardinality(Stored(rows')) = MaxEntries]_vars

\* Every recorded hit is in exactly one place: in its row, pending, in the hands
\* of the flusher, or lost with its row or with the process; and the running total
\* is the number of pending hits.  A failed flush neither loses nor doubles hits
\* that other threads record meanwhile.
HitsConserved ==
    /\ total = SumOf(pending)
    /\ carried = SumOf(carry)
    /\ recorded = SumOf([k \in Keys |-> rows[k].hits]) + total + carried + dropped

\* What the watermark guarantees: as long as no due retention was rolled back,
\* the table exceeds the cap by less than one watermark of writes.
BoundedExcess ==
    /\ writes < Watermark
    /\ skipped \/ Cardinality(Stored(rows)) <= MaxEntries + writes

=============================================================================
