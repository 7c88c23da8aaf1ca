---------------------------- MODULE ProviderWork ----------------------------
(***************************************************************************)
(* Provider work of translator.py: the threads of several API requests     *)
(* call language-model providers under one process-wide semaphore          *)
(* (BT_MAX_UPSTREAM_INFLIGHT) and one WorkBudget per request.              *)
(*                                                                         *)
(* A batch request runs its groups in an executor with a bounded window of *)
(* futures; a /translate request runs one completion in its own thread.    *)
(* Every group is a job with a thread of its own: it sends the group as a  *)
(* segment envelope, once more if the answer is malformed, and then falls  *)
(* back to one completion per segment.  A completion tries the primary     *)
(* provider and, if the error allows it, the fallback.                     *)
(*                                                                         *)
(* One action stands for one lock-protected section of WorkBudget, one     *)
(* operation on the semaphore or one provider call.                        *)
(***************************************************************************)
EXTENDS Integers, FiniteSets, Sequences

CONSTANTS Requests,       \* API requests in progress
          Singles,        \* those of them made to /translate: one text, no envelope
          Consenting,     \* those of them with allow_cloud_fallback
          NGroups,        \* missing groups of a batch request
          GroupSize,      \* segments of a group
          ContextWindow,  \* BT_CONTEXT_WINDOW
          MaxConcurrent,  \* BT_MAX_CONCURRENT
          Slots,          \* BT_MAX_UPSTREAM_INFLIGHT
          Caps,           \* resource -> BT_REQUEST_MAX_*
          Fallback        \* locality of the fallback provider, or "none"

Resources == {"attempts", "input_bytes", "output_tokens"}

ASSUME RequestsAssumption ==
    /\ IsFiniteSet(Requests)
    /\ Singles \subseteq Requests
    /\ Consenting \subseteq Requests

\* The constructor of WorkBudget and the checks at import reject anything else.
ASSUME LimitsAssumption ==
    /\ NGroups \in Nat \ {0}
    /\ GroupSize \in Nat \ {0}
    /\ ContextWindow \in Nat
    /\ MaxConcurrent \in Nat \ {0}
    /\ Slots \in Nat \ {0}
    /\ Caps \in [Resources -> Nat \ {0}]
    /\ Fallback \in {"none", "local", "remote"}

VARIABLES
    free,     \* value of _UPSTREAM_SEM
    expired,  \* request -> its absolute deadline has passed
    cancel,   \* request -> budget._cancel_reason, or "none"
    used,     \* request -> the counters of its budget
    main,     \* request -> its own thread: "running", "returned" or "failed"
    why,      \* request -> the reason it failed with
    fut,      \* job -> its future
    at,       \* job -> where its thread is
    phase,    \* job -> the completion it is working on
    prov,     \* job -> position in the list of eligible providers
    tries,    \* job -> attempt of _call_provider
    items,    \* job -> <<path, provider>> of every segment
    err,      \* job -> the reason of the WorkBudgetExceeded it raised
    open      \* attempts - successes - failures of the provider call metrics

vars == <<free, expired, cancel, used, main, why, fut, at, phase, prov, tries, items,
          err, open>>

----------------------------------------------------------------------------
(* Requests and jobs                                                       *)

GroupsOf(r) == IF r \in Singles THEN 1 .. 1 ELSE 1 .. NGroups

Jobs == {w \in Requests \X (1 .. NGroups) : w[2] \in GroupsOf(w[1])}

Req(w) == w[1]

Segments(r) == IF r \in Singles THEN 1 .. 1 ELSE 1 .. GroupSize

\* max_retries: 2 for /translate, 1 for every call of a batch.
MaxRetries(r) == IF r \in Singles THEN 2 ELSE 1

\* _eligible_providers: a remote fallback needs the request's consent.
Eligible(r) ==
    IF Fallback = "local" \/ (Fallback = "remote" /\ r \in Consenting)
      THEN <<"primary", "fallback">> ELSE <<"primary">>

\* The completions of a job: 0 is a single-text completion, 1 and 2 are the two
\* envelope attempts and 2 + k is the recovery of segment k.
FirstPhase(r) ==
    IF r \in Singles \/ (GroupSize = 1 /\ ContextWindow = 0) THEN 0 ELSE 1

Envelope(p) == p \in {1, 2}

\* The segments that one completion sends.
Sent(w) == IF Envelope(phase[w]) THEN GroupSize ELSE 1

\* What reserve_attempt is asked for: one attempt, the text and the system
\* prompt (one unit), and an output limit for the text.
Cost(w, res) ==
    CASE res = "attempts"      -> 1
      [] res = "input_bytes"   -> Sent(w) + 1
      [] res = "output_tokens" -> Sent(w)

\* The places at which a thread holds an upstream slot.
Holding == {"slot", "reserved", "call"}

Places == {"start", "enter", "queue", "backoff", "raising", "over"} \cup Holding

Paths == {"none", "direct", "envelope_retry", "paragraph_fallback",
          "paragraph_fallback_failed", "failed"}

Reasons == Resources \cup {"deadline", "queue"}

TypeOK ==
    /\ free \in 0 .. Slots
    /\ expired \in [Requests -> BOOLEAN]
    /\ cancel \in [Requests -> Reasons \cup {"none"}]
    /\ used \in [Requests -> [Resources -> Nat]]
    /\ main \in [Requests -> {"running", "returned", "failed"}]
    /\ why \in [Requests -> Reasons \cup {"none", "provider"}]
    /\ fut \in [Jobs -> {"pending", "submitted", "running", "done", "raised",
                         "collected", "cancelled"}]
    /\ at \in [Jobs -> Places]
    /\ phase \in [Jobs -> 0 .. GroupSize + 2]
    /\ prov \in [Jobs -> 1 .. 2]
    /\ tries \in [Jobs -> 1 .. 2]
    /\ items \in [Jobs -> [1 .. GroupSize -> Paths \X {"none", "primary", "fallback"}]]
    /\ err \in [Jobs -> Reasons \cup {"none"}]
    /\ open \in Nat

NoItems == [k \in 1 .. GroupSize |-> <<"none", "none">>]

Init ==
    /\ free = Slots
    /\ expired = [r \in Requests |-> FALSE]
    /\ cancel = [r \in Requests |-> "none"]
    /\ used = [r \in Requests |-> [res \in Resources |-> 0]]
    /\ main = [r \in Requests |-> "running"]
    /\ why = [r \in Requests |-> "none"]
    /\ fut = [w \in Jobs |-> "pending"]
    /\ at = [w \in Jobs |-> "start"]
    /\ phase = [w \in Jobs |-> FirstPhase(Req(w))]
    /\ prov = [w \in Jobs |-> 1]
    /\ tries = [w \in Jobs |-> 1]
    /\ items = [w \in Jobs |-> NoItems]
    /\ err = [w \in Jobs |-> "none"]
    /\ open = 0

----------------------------------------------------------------------------
(* WorkBudget                                                              *)

\* ensure_active() raises one of these; none means that it returns.
Inactive(r) ==
    IF cancel[r] # "none" THEN {cancel[r]}
    ELSE IF expired[r] THEN {"deadline"} ELSE {}

Over(w, res) == used[Req(w)][res] + Cost(w, res) > Caps[res]

\* reserve_attempt() raises the first of: cancelled, deadline, attempts,
\* input_bytes, output_tokens.
Refused(w) ==
    IF Inactive(Req(w)) # {} THEN Inactive(Req(w))
    ELSE IF Over(w, "attempts") THEN {"attempts"}
    ELSE IF Over(w, "input_bytes") THEN {"input_bytes"}
    ELSE IF Over(w, "output_tokens") THEN {"output_tokens"} ELSE {}

----------------------------------------------------------------------------
(* How a completion ends                                                   *)

\* The job's next completion, from the primary provider again.
Restart(w, p) ==
    /\ phase' = [phase EXCEPT ![w] = p]
    /\ prov' = [prov EXCEPT ![w] = 1]
    /\ tries' = [tries EXCEPT ![w] = 1]
    /\ at' = [at EXCEPT ![w] = "enter"]
    /\ UNCHANGED <<fut, err>>

\* The job's function returns its list of items.
Complete(w) ==
    /\ fut' = [fut EXCEPT ![w] = "done"]
    /\ at' = [at EXCEPT ![w] = "over"]
    /\ UNCHANGED <<phase, prov, tries, err>>

\* Every segment of the group gets the result of this one completion.
WholeGroup(w, path, by) ==
    /\ items' = [items EXCEPT ![w] =
                    [k \in 1 .. GroupSize |->
                        IF k \in Segments(Req(w)) THEN <<path, by>> ELSE @[k]]]
    /\ Complete(w)

OneSegment(w, path, by) ==
    LET k == phase[w] - 2
    IN  /\ items' = [items EXCEPT ![w][k] = <<path, by>>]
        /\ IF k = GroupSize THEN Complete(w) ELSE Restart(w, phase[w] + 1)

\* Variant used to test the checks: recovered segments keep the envelope's path.
TranslatedAsEnvelope(w) ==
    LET by == Eligible(Req(w))[prov[w]]
    IN  CASE phase[w] \in {0, 1} -> WholeGroup(w, "direct", by)
          [] phase[w] = 2        -> WholeGroup(w, "envelope_retry", by)
          [] OTHER               -> OneSegment(w, "envelope_retry", by)

\* The provider's text is usable: a valid envelope, or the text of a single completion.
Translated(w) ==
    LET by == Eligible(Req(w))[prov[w]]
    IN  CASE phase[w] \in {0, 1} -> WholeGroup(w, "direct", by)
          [] phase[w] = 2        -> WholeGroup(w, "envelope_retry", by)
          [] OTHER               -> OneSegment(w, "paragraph_fallback", by)

\* The answer is not a valid envelope (_parse_segment_envelope returns None).
Malformed(w) ==
    /\ Envelope(phase[w])
    /\ Restart(w, phase[w] + 1)
    /\ UNCHANGED items

\* ProviderUnavailableError: the whole group is marked, or only the segment
\* being recovered.
Unavailable(w) ==
    IF phase[w] \in 0 .. 2
      THEN WholeGroup(w, "failed", "none")
      ELSE OneSegment(w, "paragraph_fallback_failed", "none")

\* How a provider call can fail.  "transient": 408, 5xx, a lost connection or a
\* timeout; "dns": a custom endpoint does not resolve; "invalid": a response that
\* is too large or has the wrong form; "rate_limited": 429; "rejected": any other
\* status, a TLS error or a refused custom endpoint.
Errors == {"transient", "dns", "invalid", "rate_limited", "rejected"}

Retryable(e) == e \in {"transient", "dns"}

FallbackEligible(e) == Retryable(e) \/ e = "invalid"

\* The except clauses of _call_provider and of _complete.
CallFailed(w, e) ==
    \/ /\ Retryable(e)
       /\ tries[w] < MaxRetries(Req(w))
       /\ at' = [at EXCEPT ![w] = "backoff"]
       /\ UNCHANGED <<fut, phase, prov, tries, items, err>>
    \/ /\ ~(Retryable(e) /\ tries[w] < MaxRetries(Req(w)))
       /\ FallbackEligible(e)
       /\ prov[w] < Len(Eligible(Req(w)))
       /\ prov' = [prov EXCEPT ![w] = @ + 1]
       /\ tries' = [tries EXCEPT ![w] = 1]
       /\ at' = [at EXCEPT ![w] = "enter"]
       /\ UNCHANGED <<fut, phase, items, err>>
    \/ /\ ~(Retryable(e) /\ tries[w] < MaxRetries(Req(w)))
       /\ ~(FallbackEligible(e) /\ prov[w] < Len(Eligible(Req(w))))
       /\ Unavailable(w)

\* WorkBudgetExceeded(reason) unwinds the thread up to _do_group: what it had
\* worked out so far goes with its stack frames.
Unwind(w, reason) ==
    /\ at' = [at EXCEPT ![w] = "raising"]
    /\ err' = [err EXCEPT ![w] = reason]
    /\ phase' = [phase EXCEPT ![w] = FirstPhase(Req(w))]
    /\ prov' = [prov EXCEPT ![w] = 1]
    /\ tries' = [tries EXCEPT ![w] = 1]
    /\ items' = [items EXCEPT ![w] = NoItems]

----------------------------------------------------------------------------
(* The steps of a job                                                      *)

Start(w) ==
    /\ fut[w] = "submitted"
    /\ fut' = [fut EXCEPT ![w] = "running"]
    /\ \/ /\ Inactive(Req(w)) = {}
          /\ at' = [at EXCEPT ![w] = "enter"]
          /\ UNCHANGED <<phase, prov, tries, items, err>>
       \/ \E reason \in Inactive(Req(w)) : Unwind(w, reason)
    /\ UNCHANGED <<free, expired, cancel, used, main, why, open>>

\* _acquire_upstream_slot, up to the wait on the semaphore.
Enter(w) ==
    /\ at[w] = "enter"
    /\ \/ /\ Inactive(Req(w)) = {}
          /\ at' = [at EXCEPT ![w] = "queue"]
          /\ UNCHANGED <<phase, prov, tries, items, err>>
       \/ \E reason \in Inactive(Req(w)) : Unwind(w, reason)
    /\ UNCHANGED <<free, expired, cancel, used, main, why, fut, open>>

Acquire(w) ==
    /\ at[w] = "queue"
    /\ free > 0
    /\ free' = free - 1
    /\ at' = [at EXCEPT ![w] = "slot"]
    /\ UNCHANGED <<expired, cancel, used, main, why, fut, phase, prov, tries, items, err, open>>

\* acquire(timeout) gives up after the queue timeout or the request's deadline.
QueueTimeout(w) ==
    /\ at[w] = "queue"
    /\ free = 0
    /\ Unwind(w, IF expired[Req(w)] THEN "deadline" ELSE "queue")
    /\ UNCHANGED <<free, expired, cancel, used, main, why, fut, open>>

\* Variant used to test the checks: the reservation is outside the try/finally.
ReserveLeaksSlot(w) ==
    /\ at[w] = "slot"
    /\ \/ /\ Refused(w) = {}
          /\ used' = [used EXCEPT ![Req(w)] = [res \in Resources |-> @[res] + Cost(w, res)]]
          /\ at' = [at EXCEPT ![w] = "reserved"]
          /\ UNCHANGED <<free, phase, prov, tries, items, err>>
       \/ /\ \E reason \in Refused(w) : Unwind(w, reason)
          /\ UNCHANGED <<used, free>>
    /\ UNCHANGED <<expired, cancel, main, why, fut, open>>

\* budget.reserve_attempt: all counters or none.
Reserve(w) ==
    /\ at[w] = "slot"
    /\ \/ /\ Refused(w) = {}
          /\ used' = [used EXCEPT ![Req(w)] = [res \in Resources |-> @[res] + Cost(w, res)]]
          /\ at' = [at EXCEPT ![w] = "reserved"]
          /\ UNCHANGED <<free, phase, prov, tries, items, err>>
       \/ /\ \E reason \in Refused(w) : Unwind(w, reason)
          /\ free' = free + 1
          /\ UNCHANGED used
    /\ UNCHANGED <<expired, cancel, main, why, fut, open>>

\* The attempt is recorded and _deadline_provider_post starts the HTTP call,
\* unless the budget has become inactive (then the attempt, if it was recorded
\* at all, is recorded as a failure as well).
Dial(w) ==
    /\ at[w] = "reserved"
    /\ \/ /\ Inactive(Req(w)) = {}
          /\ at' = [at EXCEPT ![w] = "call"]
          /\ open' = open + 1
          /\ UNCHANGED <<free, phase, prov, tries, items, err>>
       \/ /\ \E reason \in Inactive(Req(w)) \cup
                           (IF expired[Req(w)] THEN {"deadline"} ELSE {}) : Unwind(w, reason)
          /\ free' = free + 1
          /\ UNCHANGED open
    /\ UNCHANGED <<expired, cancel, used, main, why, fut>>

\* A custom endpoint is resolved and vetted before the attempt is recorded.
ResolveFails(w, e) ==
    /\ at[w] = "reserved"
    /\ e \in {"dns", "rejected"}
    /\ CallFailed(w, e)
    /\ free' = free + 1
    /\ UNCHANGED <<expired, cancel, used, main, why, open>>

\* The provider call fails.
ReplyError(w, e) ==
    /\ at[w] = "call"
    /\ e # "dns"
    /\ CallFailed(w, e)
    /\ free' = free + 1
    /\ open' = open - 1
    /\ UNCHANGED <<expired, cancel, used, main, why>>

\* The provider call returns a text.
ReplyText(w) ==
    /\ at[w] = "call"
    /\ Translated(w) \/ Malformed(w)
    /\ free' = free + 1
    /\ open' = open - 1
    /\ UNCHANGED <<expired, cancel, used, main, why>>

\* The budget becomes inactive while the response is read.
ReplyCut(w) ==
    /\ at[w] = "call"
    /\ \E reason \in Inactive(Req(w)) : Unwind(w, reason)
    /\ free' = free + 1
    /\ open' = open - 1
    /\ UNCHANGED <<expired, cancel, used, main, why, fut>>

\* _sleep_before_retry, between two attempts.
Backoff(w) ==
    /\ at[w] = "backoff"
    /\ \/ /\ Inactive(Req(w)) = {}
          /\ tries' = [tries EXCEPT ![w] = @ + 1]
          /\ at' = [at EXCEPT ![w] = "enter"]
          /\ UNCHANGED <<phase, prov, items, err>>
       \/ \E reason \in Inactive(Req(w)) : Unwind(w, reason)
    /\ UNCHANGED <<free, expired, cancel, used, main, why, fut, open>>

\* Variant used to test the checks: _do_group re-raises without cancelling the budget.
RaiseWithoutCancel(w) ==
    /\ at[w] = "raising"
    /\ fut' = [fut EXCEPT ![w] = "raised"]
    /\ at' = [at EXCEPT ![w] = "over"]
    /\ UNCHANGED <<free, expired, cancel, used, main, why, phase, prov, tries, items, err, open>>

\* _do_group cancels the shared budget, where the first reason wins, and
\* re-raises; /translate has no executor and just propagates.
Raise(w) ==
    /\ at[w] = "raising"
    /\ cancel' = IF cancel[Req(w)] = "none" /\ Req(w) \notin Singles
                   THEN [cancel EXCEPT ![Req(w)] = err[w]] ELSE cancel
    /\ fut' = [fut EXCEPT ![w] = "raised"]
    /\ at' = [at EXCEPT ![w] = "over"]
    /\ UNCHANGED <<free, expired, used, main, why, phase, prov, tries, items, err, open>>

----------------------------------------------------------------------------
(* The request's own thread: translate_batch_detailed                      *)

JobsOf(r) == {w \in Jobs : Req(w) = r}

\* The futures that the request is waiting for.
Outstanding(r) == {w \in JobsOf(r) : fut[w] \in {"submitted", "running", "done", "raised"}}

\* Groups are submitted in order while the window has room.
Submit(w) ==
    /\ main[Req(w)] = "running"
    /\ fut[w] = "pending"
    /\ \A g \in 1 .. w[2] - 1 : fut[<<Req(w), g>>] # "pending"
    /\ Cardinality(Outstanding(Req(w))) < MaxConcurrent
    /\ fut' = [fut EXCEPT ![w] = "submitted"]
    /\ UNCHANGED <<free, expired, cancel, used, main, why, at, phase, prov, tries, items, err, open>>

\* wait() reported a finished future.
CollectDone(w) ==
    /\ main[Req(w)] = "running"
    /\ fut[w] = "done"
    /\ fut' = [fut EXCEPT ![w] = "collected"]
    /\ UNCHANGED <<free, expired, cancel, used, main, why, at, phase, prov, tries, items, err, open>>

\* WorkBudgetExceeded ends the request; futures that have not started are
\* cancelled and running ones are left alone (shutdown(wait=False)).
CollectRaised(w) ==
    /\ main[Req(w)] = "running"
    /\ fut[w] = "raised"
    /\ main' = [main EXCEPT ![Req(w)] = "failed"]
    /\ why' = [why EXCEPT ![Req(w)] = err[w]]
    /\ fut' = [v \in Jobs |->
                  IF v = w THEN "collected"
                  ELSE IF Req(v) = Req(w) /\ fut[v] = "submitted" THEN "cancelled" ELSE fut[v]]
    /\ UNCHANGED <<free, expired, cancel, used, at, phase, prov, tries, items, err, open>>

\* Nothing is pending and every future was collected.  /translate answers 502
\* when its one text could not be translated.
Return(r) ==
    /\ main[r] = "running"
    /\ \A w \in JobsOf(r) : fut[w] = "collected"
    /\ IF r \in Singles /\ items[<<r, 1>>][1][1] = "failed"
         THEN /\ main' = [main EXCEPT ![r] = "failed"]
              /\ why' = [why EXCEPT ![r] = "provider"]
         ELSE /\ main' = [main EXCEPT ![r] = "returned"]
              /\ UNCHANGED why
    /\ UNCHANGED <<free, expired, cancel, used, fut, at, phase, prov, tries, items, err, open>>

\* The request's absolute deadline passes.
Expire(r) ==
    /\ ~expired[r]
    /\ expired' = [expired EXCEPT ![r] = TRUE]
    /\ UNCHANGED <<free, cancel, used, main, why, fut, at, phase, prov, tries, items, err, open>>

JobStep(w) ==
    \/ Start(w) \/ Enter(w) \/ Acquire(w) \/ QueueTimeout(w) \/ Reserve(w) \/ Dial(w)
    \/ \E e \in Errors : ResolveFails(w, e) \/ ReplyError(w, e)
    \/ ReplyText(w) \/ ReplyCut(w) \/ Backoff(w) \/ Raise(w)

MainStep(r) ==
    \/ \E w \in JobsOf(r) : Submit(w) \/ CollectDone(w) \/ CollectRaised(w)
    \/ Return(r)

\* Every request has ended and every thread it started has ended too.
Quiet ==
    /\ \A r \in Requests : main[r] # "running"
    /\ \A w \in Jobs : at[w] \in {"start", "over"} /\ fut[w] # "submitted"

Terminated == Quiet /\ UNCHANGED vars

Next ==
    \/ \E w \in Jobs : JobStep(w)
    \/ \E r \in Requests : MainStep(r) \/ Expire(r)
    \/ Terminated

Spec == Init /\ [][Next]_vars

\* Threads are scheduled; a wait on the semaphore is bounded by its timeout and a
\* provider call by its socket timeouts and the request's deadline.
Fairness ==
    /\ \A w \in Jobs : WF_vars(JobStep(w))
    /\ \A r \in Requests : WF_vars(MainStep(r))

FairSpec == Spec /\ Fairness

----------------------------------------------------------------------------
(* Properties                                                              *)

\* The semaphore and the threads agree: a slot is held exactly between a
\* successful acquire and the release in the finally clause, on every path out
\* of _call_provider, also for threads whose request has already ended.
SlotsConserved == free + Cardinality({w \in Jobs : at[w] \in Holding}) = Slots

\* No interleaving of a request's threads takes its budget past a cap.
WithinCaps == \A r \in Requests, res \in Resources : used[r][res] <= Caps[res]

\* Every recorded attempt that is not in flight has been recorded as a success or
\* as a failure.
AttemptsSettled == open = Cardinality({w \in Jobs : at[w] = "call"})

\* Once a request has failed, none of the threads it left behind reserves budget
\* or starts another provider call: the first of them to fail cancelled the budget
\* before the request could see its future.
NoWorkAfterFailure ==
    [][\A w \in Jobs : main[Req(w)] = "failed" =>
          /\ used'[Req(w)] = used[Req(w)]
          /\ at'[w] = "call" => at[w] = "call"]_vars

\* A group that may be stored under the batch contract (path direct or
\* envelope_retry) is the result of one completion of one provider, never a mixture
\* of an envelope and of recovered segments.
WholeGroupProvenance ==
    \A w \in Jobs : fut[w] \in {"done", "collected"} /\ at[w] = "over" /\ err[w] = "none" =>
        \A j, k \in Segments(Req(w)) :
            items[w][j][1] \in {"direct", "envelope_retry", "failed"} => items[w][k] = items[w][j]

\* A request that returned has a result for every segment of every group and its
\* budget was never cancelled: a thread that failed is never overlooked.
ReturnedIsComplete ==
    \A w \in Jobs : main[Req(w)] = "returned" =>
        /\ cancel[Req(w)] = "none"
        /\ \A k \in Segments(Req(w)) : items[w][k][1] # "none"

\* Every request is answered, whatever the others do, and in the end every
\* upstream slot is free again.
RequestsEnd == <>[](free = Slots /\ \A r \in Requests : main[r] # "running")

=============================================================================
