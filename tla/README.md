# Formal model of Book Translator Hub

TLA+ specifications of the translation hub: a Flask API (`server.py`) that
translates the paragraphs of an e-book through language-model providers, keeps
the results in a SQLite cache, and authenticates readers through Calibre-Web or
Kavita; and of `btctl`, the command that installs, upgrades, reconfigures and
removes its containers. The modules are translated from the Python source. `PROJECT.json` maps
each definition to the lines that it stands for and lists every run, mutant,
finding, hazard and theorem.

## 1. The system

| Part | Source | State | Operations | Model |
|---|---|---|---|---|
| Single flight | `singleflight.py` | registry of flights by key, waiter counts, statistics | `run`, `invalidate`, `stats` | `SingleFlight` |
| Work budget | `work_budget.py` | counters of attempts, bytes and tokens, cancel reason, deadline | `reserve_attempt`, `ensure_active`, `cancel` | `ProviderWork` |
| LLM client | `translator.py` | process-wide semaphore, futures of a batch, call metrics | completion with retries and failover, envelope recovery, bounded window of futures | `ProviderWork` |
| Streaming client | `translator.py` | slot of the stream, deltas already sent | failover before the first delta, interruption after it | `TranslationRequests` |
| Translation endpoints | `server.py` | provider generation, per-request glossary snapshot and probe memo | `/translate`, `/translate/batch`, `/translate/stream` | `TranslationRequests` |
| Cache | `cache.py` | table `translations_v2`, pending hits, write counter | get, get_many, put_many, hits, flush, retention, cleanup | `TranslationCache` |
| Session broker | `reader_session.py` | bounded LRU table of opaque tokens | exchange, authenticate, revoke | `ReaderSession` |
| Key files | `reader_session.py` | session key and tenant key of each reader | load or create, seed, remove on uninstall | `SecretFiles` |
| Admission | `server.py` | two sliding windows, in-flight counters | check, acquire, release, hourly cleanup | `Admission` |
| Cleanup credential | `server.py` | token file, file lock, per-process copy | read or create, write, rename, sync | `CleanupToken` |
| Hub supervisor | `hub_runtime.py` | child processes, stop flag | configure, prepare, spawn, poll, terminate, reap | `HubRuntime` |
| Reconfiguration | `btctl_reconfigure.py` | journal, two snapshots, active environment, deployment state, API container | reconfigure, roll back, recover | `Reconfigure`, abstract: `ProviderSwitch` |
| Split installers | `btctl_compose.py`, `btctl_unraid.py` | install attempt, state file, network, containers, templates, session key | install, adopt, clean up | `Deployment` |
| Lifecycle | `btctl_lifecycle.py` | migration journal, snapshots, legacy container | uninstall, upgrade, rollback, re-upgrade | `Deployment`, `Migration` |
| Stores and lock | `btctl_core.py` | `state.json`, `install-attempt.json`, archive, operation lock | save, load, archive, remove, lock | `Deployment` |
| Hub deployment | `btctl_hub.py` | hub state, attempt, topology journal, data copies, source deployments | install, uninstall, migrate-topology, rollback | `HubTopology` |
| Docker adapter | `btctl_docker.py` | none of its own | Docker commands | steps of the commands |
| CWA validation | `auth.py` | TTL/LRU cache of verdicts, single flight of probes | authenticate | the flight: `SingleFlight` |
| Reader overlay | `static/translator.js` | queue of paragraphs, local cache | translate the page, prefetch | not modelled |
| Glossary, feedback | `glossary.py`, `feedback.py` | one SQLite table each | one transaction per operation | one step of `TranslationRequests` |
| The rest | see `PROJECT.json` | none of its own | parsing, validation, rendering, reporting | not modelled |

How the parts meet. A browser exchanges its reader's credentials for a session
token (`ReaderSession`, keys from `SecretFiles`). Every request then passes
`Admission`, which calls the authority between two of its own lock sections.
An endpoint (`TranslationRequests`) reads the glossary, probes the cache for each
backend and prompt contract, sends what is missing to the client
(`ProviderWork`) and files the answers in the cache (`TranslationCache`). Identical
concurrent operations share one execution (`SingleFlight`). `/cache/cleanup`
is guarded by the token of `CleanupToken`. A reconfiguration (`Reconfigure`) replaces
the API process while reader pages stay open and the database stays;
`TranslationRequests` sees it as `Restart`. The split deployment of a reader is made
and removed by `Deployment`, may come from a combined v2.1.4 runtime
(`Migration`), and may be cut over with others to one hub (`HubTopology`), whose
container runs as `HubRuntime` says and lets each reader build its key files
(`SecretFiles`).

What is hard in this code:

* **Threads.** One gunicorn worker serves requests in threads over shared dictionaries, one
  SQLite file and a semaphore. Nearly every function reads the clock, or the
  table, before it takes the lock under which the value is used.
* **Work left behind.** A batch that fails is answered while its sibling threads
  still wait for a slot or for a provider.
* **Partial answers.** Envelopes may come back malformed, providers may fail in
  the middle of a stream, SQLite transactions may roll back.
* **Provenance.** A row is served again for months; it must say truthfully which
  provider, model, prompt, glossary and tenant it stems from.
* **Crashes.** Key files, the cleanup token and the journals of `btctl` are written
  in several steps.
* **Commands that end halfway.** An install, an upgrade or a cutover is some twenty
  steps on files and containers. Each of them may raise, its handler too, and
  the process may be killed between any two. What is on disk then has to tell the next
  command whether to go on, to undo or to refuse.

What makes each part correct is stated with its run in section 3.

## 2. Modules

`<X>.tla` is a component, `MC<X>.tla` defines constants of its instance where a
`.cfg` cannot, `<X>Proofs.tla` holds its theorems. Three modules prove about two components that belong together:
`WorkProofs` (`SingleFlight`, `ProviderWork`), `ReaderProofs` (`ReaderSession`, `HubRuntime`) and `DataProofs`
(`TranslationCache`, `CleanupToken`). As such a module extends both, one of the two names its specification
`FlightSpec`, `RuntimeSpec` or `TokenSpec`. `Queues.tla` has the one operator that
`Admission` and `ReaderSession` share: the members of a queue that a comprehension or a sweep
keeps, defined by their positions. A definition marked *Variant* is
a plausible mistake in the code; it is used only to show that a property
notices it.

**SingleFlight.** Callers interleave where `run` releases its lock. A flight is an
object that outlives its registry entry as long as a follower holds it, so
flights have identities and `registry` maps keys to them. `Run` is the first
locked section (expire, join, evict, reject or lead), `Finish` the leader's,
`Follow` the wait, its timeout, the second locked section and the unlocked read.

**ProviderWork.** The jobs of several requests share `free`, the value of
`_UPSTREAM_SEM`, and one budget per request. A job walks through queue, reservation,
call, backoff; `phase` tells the envelope attempts from the recovery of single
segments, `prov` and `tries` the failover and the retries. `main` and `fut` are
the loop of `translate_batch_detailed` over its window of futures. A provider
answers with a text, a malformed envelope, an error of any class, or not before
the deadline. Prompts and texts are sizes only (`Cost`).

**TranslationCache.** One step is one SQL statement or write transaction, one lock
section, or a reading of the clock. Days are the unit of time. A key stands for
the hash of text, languages and scope. `flush_hits` moves `pending` into `carry`
and back again when its transaction fails. `recorded`, `dropped` and `skipped` are
history variables.

**ReaderSession.** `sessions` and `order` are the two halves of the `OrderedDict`.
A handler reads the clock, asks the reader (one probe per cookie, or all of
them together), and then takes the lock. Cookies are records of their field,
their user and whether the broker can read a user id from them. The deployment
is for Calibre-Web or for Kavita (`reader`). Each probe finds the reader accepting
some set of cookies, so a log-out or a log-in may fall between any two probes.

**Admission.** `store` holds both rate-limit tables, `inflight` the counters around
the authority. A lock section works with a clock reading at most `Stall` old. The
order of the bounds differs between protected routes and `POST /session`, as in
`before_request_hook`.

**CleanupToken.** Creation, write, rename and directory sync are separate steps that
may fail, or after which the process may be killed. The model keeps what a host crash
would leave (`disk`) beside what processes see (`file`).

**SecretFiles, HubRuntime.** `SecretFiles` has the two key files of every reader and the
steps of a process that loads or creates them; a file is created and written in
two steps. `HubRuntime` extends it with process 1 of the hub container: it
runs one such process per reader in turn (`PrepareReader`, `Prepared`), tests nginx,
spawns the children, polls them and stops them all when one has exited (`Terminate`,
`Reap`, `WaitTimesOut`). A gunicorn child builds its broker again when it boots, and
whenever a worker dies. Docker starts the container whenever it has ended and was not
stopped. SIGTERM sets the flag only once `supervise` has installed its handlers.

**Reconfigure, ProviderSwitch.** `Reconfigure` has one action per file that is written and
per Docker command of `btctl reconfigure`; the replacement of the container is the
same in the cutover, in the rollback of its handler and in a recovery, and `op.mode` tells
which. An environment is a value, and two of them may share a fingerprint, as two that
differ in a credential do. `ProviderSwitch` is the promise: there is one published
environment, the API runs with it, with the wanted one, or not at all, and publication
is one step to what runs and was asked for. `ImplementsSwitch` states the refinement; it maps
`published` to the history variable `good`, the environment of the state published last.

**Deployment, Migration.** `Deployment` has install and adopt for both
profiles and uninstall, with `box` for what Docker holds under which install id.
`Migration` extends it with upgrade and rollback, which call install, adopt and uninstall as
procedures: `op.cmd` says who called, `Returned` and `Raised` lead back. The data are
versions: the legacy data counts its writes, a snapshot is the count it was taken at, and
the target is a snapshot and the writes since. Copies are made in a work tree and
renamed; one step stands for both, and the numbered names that keep snapshots
apart are left out. `RaiseDeployment` and `RaiseMigration` let any step fail, before or after its
file was replaced; `StopDeployment` kills the command.

**HubTopology.** The same for the hub: its install and uninstall, called alone or by
the cutover (`migrate-topology`) and its rollback. A source is stopped and started as a
whole, copied to a work tree (`work`) and published by a rename (`target`).
The path that uninstalls a hub in the cutover's handler is left out:
the installation is the last call of the guarded block, so no exception finds it done.

**TranslationRequests.** A translation is a record of where it really comes from
(text, tenant, provider, prompt with its glossary); a row is a translation under
the scope that the code computed for it. `Probes` lists backends and contracts in the
order of `_cache_lookup` or of `_translate_paragraphs`, `memo` is `probe_memo`.
`Translate` and `Recover` are the two outcomes of a group (the inside of which is
`ProviderWork`), `Store` and `StoreBatch` the writes. Streams take a slot,
yield deltas, fail over, are interrupted, or lose their client.
`Restart` puts the next of `Deployments` in place and leaves the rows.

Modules that extend one another are one system (`HubRuntime` with `SecretFiles`,
`Migration` with `Deployment`). The others share no variables. They meet at named interfaces: the outcomes of
`ProviderWork` (a whole group, recovered segments, unavailable, budget exhausted)
are the actions of `TranslationRequests`, and its `rows` are what
`TranslationCache` keeps, without expiry. A composed module would multiply the
two state spaces without a new interaction, since a translation never touches
the database while it holds a slot.

## 3. Runs

Every `pass` run is of one component and checks all of its properties at once. The `violation` run checks the one
property that a docstring promises and the code does not keep (see Findings).

| Run | What it checks | What it shows |
|---|---|---|
| `singleflight` | `OneLeaderPerKey`, `WaiterAccounting`, `SharedResultIsFresh`, `FollowersReturn` | No key is executed twice at a time, waiters are neither lost nor counted twice when a timeout races a completion, a finished result is shared only while it is fresh, and a follower returns although its leader hangs. |
| `provider_work` | `SlotsConserved`, `WholeGroupProvenance`, `NoWorkAfterFailure`, `RequestsEnd` | Slots are exact on every exception path, threads left behind start nothing, a mixture of envelope and recovered segments is never marked as a whole answer, and every request ends with all slots free. |
| `translation_cache` | `HitsConserved`, `BoundedExcess`, `OnlyOldOrExcess` | Hits survive failing flushes; the table exceeds its cap by less than one watermark; a lookup never deletes the row that another thread has just renewed. |
| `reader_session` | `NoResurrection`, `Vouched`, `NoEarlyDrop` | A token that left the table stays out of it; a session acts for the user whom the reader accepted; a session that has not expired ends only by a request that presents its token (revoked from its own address and user agent, or exchanged from anywhere with credentials that the reader accepts), in a full table, or with the process. |
| `admission` | `SlotsMatch`, `SlidingWindow`, `JustRefusal` | In-flight counters equal the requests at the authority; a window loses at most the time a thread waits for the lock; refusals are justified by admissions that took place. |
| `cleanup_token` | `Agreement`, `Durable` | All processes hold the token of the file; a token that was handed out survives a host crash unless the sync itself failed or its process was killed before it. |
| `translation_requests` | `RowsTrue`, `AnswersAllowed`, `LocalityShown`, `OneVoice`, `SlotsReturned` | Every row is what its scope says; answers come from providers of the running process that the request allows; an old page never receives the work of a provider whose locality it has not shown; a stream is one provider's text and gives its slot back, also when its client is gone. |
| `fallback_model` | `FallbackModel` (violated) | See findings. |
| `hub_runtime` | `TenantKept`, `NoneLeft`, `FailsWhole`, `ServesAgain` | Whatever fails, dies, is stopped or reinstalled, a reader keeps its tenant key, process 1 leaves no child behind, one exit or a stop ends the container although other children ignore SIGTERM, and a hub that docker is to run serves every reader in the end. |
| `reconfigure` | `KnownRuntime`, `EnvironmentKept`, `Converges`, `ImplementsSwitch` | Without a journal the running container is the published one; the environment that worked is never lost; the command given again reaches the wanted providers or one of the journals listed under Dead ends; all of it implements `ProviderSwitch`. |
| `lifecycle` | `RollbackReady`, `NoOrphans`, `TargetKept`, `Converges` | While the upgraded API can write, the legacy service is stopped and its data is what the journal's snapshot holds; every container, network and session key that was made, and every template that was noted, is claimed by a state or an attempt; written data is never moved aside; a command given again reaches its goal or a listed dead end. |
| `hub_topology` | `CutoverExact`, `HubAccounted`, `ServiceReturns`, `Converges` | The hub runs only beside stopped sources and on complete copies of them; its container is always claimed; after a failed or repeated cutover the sources that ran at first, or the installed hub, serve again, but for two named dead ends; a command given again reaches its goal or a listed dead end. |

### Bounds

* Two threads (three callers in `SingleFlight`): every race in the code is between
  two lock sections, or between one that has read and one that writes in between.
  The third caller lets a leader, a waiting follower and a caller at the limit meet.
* Tables of one or two entries with one more key than fits, so that limits, evictions
  and refusals happen. The windows of `Admission` hold one API request and two
  attempts; `Window` = 3 and `Stall` = 1 leave room for a reading that is old and
  still inside.
* `ProviderWork`: a batch of two groups of two segments and a single request,
  one slot, caps that the second envelope attempt reaches (`MCProviderWork`).
* `TranslationCache`: four calls, two days, one failing transaction, and batches of one
  and of two keys, enough for a write while a flush is in flight, and for the retention of
  a write that rolled back. `Reasoning` has one key whose row, written by an
  earlier release, still holds a reasoning block.
* `ReaderSession`: three tokens, two addresses, two users, one of them with an
  unreadable cookie; time 0..1 with a TTL of 1 gives fresh, expired, and read
  before but used after expiry.
* `TranslationRequests`: three requests out of four kinds by two tenants, two
  deployments in which primary and fallback change places, one glossary edit and
  its undoing, one delta. Two requests are enough for a wrong row and its reader, the
  third comes between them. `ContextWindow` = 1 makes the batch contract of a
  single text differ from its single contract. The violation run takes two models of one provider.
* `CleanupToken`: two processes, three tokens.
* `HubRuntime`: one or two readers, so that one is ready while the next one fails; one failing
  step, two deaths and two stops, enough for a first start that ends halfway,
  an uninstall, and a start that meets what both left.
* `Reconfigure`: two changes of the providers, two kills and two failing steps: a cutover, its
  failing rollback and a recovery that is killed itself. Three environments, two of them with one
  fingerprint.
* `Migration`: one kill, two failing steps, one write, two changes of goal: a failure and the
  failure of its handler, a command that is killed and its retry, upgrade, rollback and re-upgrade.
* `HubTopology`: two readers, so that one is copied when the other fails; two kills, two failing
  steps, two writes, two changes of goal.

Threads, clients, tokens and addresses are interchangeable in the code and are
declared symmetric where the run has no liveness property.

### Fairness

* `SingleFlight`: weak fairness of a follower's steps only. `wait()` has a timeout
  and threads are scheduled; nothing is assumed of the leader's operation.
* `ProviderWork`: weak fairness of each job and of each request's own thread. The
  semaphore is acquired with a timeout, provider calls have socket timeouts and the
  request's deadline, and the backoff is a bounded sleep.
* `HubRuntime`: weak fairness of process 1, of the processes it waits for, of docker's restart
  policy and of a wait with a timeout. A child need not heed SIGTERM, and nobody has to
  start a stopped container.
* `Reconfigure`, `HubTopology`: weak fairness of the command at work (every Docker call has a timeout)
  and of the operator, who gives the command again, as the documentation asks.
* `Migration`: the same, but strong fairness of each command, since install and adopt both serve the
  goal of an install and the operator tries both.

The other modules state safety only.

### Findings

* `FallbackModel`: with a primary and a fallback of the same namespace and different models,
  `model_for_provider` returns the primary's model for the fallback's translations. Its docstring says that a translation
  served by the fallback must be cached under the fallback's model. `PROJECT.json` quotes the lines.

Three more disagreements between the code and a document are disjuncts of `DeadEnd` in the convergence
properties. TLC finds `Converges` violated when such a disjunct is left out.

* `docs/operations/lifecycle.md:66-69`: "If the process or host stops mid-cutover, rerun the same confirmed command: it validates the
  journal, restores the old role and then performs a fresh transaction." A rollback, in the handler
  (`btctl_reconfigure.py:595`) or in a recovery (`:466`), publishes the state with the id of the restored container before it removes the
  journal. After a kill in between, the state has neither of the ids of the journal, and every rerun
  refuses it as unknown (`:448-454`). A kill inside `_cleanup` (`:472`) has the same effect, since it removes the snapshots
  before the journal.
* `docs/operations/lifecycle.md:158-160`: "A successful cleanup leaves exact `cleaned` retry evidence, so rerunning the unchanged install is
  supported". `_write_private` syncs the directory after its rename
  (`btctl_unraid.py:143-144`), and the template is noted only when it has returned (`:503-504`). If the sync raises, the clean-up leaves the
  template and saves `cleaned` (`:526-532`, `:583-598`), and the next preflight refuses the template (`:275-278`). A `state.json` that was
  replaced although its save raised ends the same way.
* `docs/operations/lifecycle.md:102-103`: "The private journal makes interrupted preparation, snapshot and cutover steps
  retryable." An upgrade that is killed while it installs leaves an attempt that is prepared or starting, which the
  preflight of every later install, also the one of the upgrade given again, refuses (`btctl_compose.py:755-760`).

Notes on what the models show where a comment or a document is looser than the code:

* `docs/reference/configuration.md` calls `BT_CACHE_MAX_ENTRIES` a hard cap; `put_many`
  prunes once per watermark of writes. `BoundedExcess` is what holds.
* `load_or_create_session_key` creates the key file and writes it afterwards. A process that is
  killed in between leaves an empty file, on which every later start fails. `ServesAgain` excepts this
  case by name (`cut`). Process 1 of a hub ignores SIGTERM until `supervise` runs, so a
  `docker stop` during a start ends in such a kill.
* A first start that ends between the two key files makes the next one seed the tenant key from
  the session key, as if the install were an upgrade. `TenantKept` holds all the same.

### Dead ends

The convergence properties name the states that the next command refuses and that an operator
has to look into, found by leaving them out one at a time. The code prefers a refusal to a guess, and most of them
are such refusals. Those marked (*) contradict what the documentation promises: they are the
disagreements above.

* `Deployment`, `Migration` (`DeadEnd`):
  * an install that was killed leaves its attempt prepared or starting, or a clean-up that failed leaves `cleanup-failed`, and every later
    install refuses, also as part of an upgrade (*); if containers of the split runtime were left, the
    legacy service stays stopped;
  * a state file that was replaced although its save raised belongs to a runtime that the handler removed (*);
  * an Unraid template that was written but not noted stays when everything else was removed (*). `tpl` tells this template
    (`lost`) from those that the command knows of (`kept`): `Clean` removes only the latter;
  * the removal of the attempt may fail after the commit: the upgrade then notes `upgrade-failed` beside an
    active deployment, which neither upgrade nor rollback accepts;
  * the session key was removed but not marked;
  * a re-upgrade is refused when the preserved data has changed or could not be read;
  * a killed save leaves a temporary file that a first install refuses.
* `Reconfigure` (`DeadEnd`):
  * `_cleanup` removes the snapshots before the journal, so a stop in between leaves a journal without its evidence (*);
  * a rollback or a recovery published the restored container and was stopped before `_cleanup` (*);
  * the journal, or the container it has published, is about other providers than those the operator now asks for;
  * the new state was replaced although its save raised, and the rollback that followed did not end.
* `HubTopology` (`DeadEnd`): a killed install; a source that wrote after a failed try, or a hub that wrote before it
  failed, makes the copies differ ("copied migration data has drifted"); a rollback killed
  between the state and the journal; a replaced state whose save raised; a temporary file. `ServiceReturns` excepts two
  of them, in which neither side serves: the hub container of an install that did not end, beside which no source may start, and the
  state saved for a hub that the handler then removed.

## 4. Proofs

Eight modules hold theorems that TLAPS checks for all values of the constants,
within the named assumptions of the modules: positive limits, finite sets of
threads, clients, requests and keys, and that `None`, the absence of a file, a directory or a
container, is none of the documents that may be there (TLC would not compare
such values; a prover has to be told). The bounds on time, kills, faults and goals are constants, so
a theorem holds for all of them.

**WorkProofs, SingleFlight.** The inductive invariant `FlightInv` adds to `FlightTypeOK`,
`WithinCapacity` and `WaiterAccounting`: that a registry entry is of its own key
(`RegistryInv`), that a leader's flight is active, registered, and led by nobody else
(`LeaderInv`), that followers hold created flights, complete ones once they are woken
(`FollowerInv`), and that a completed flight has its outcome (`OutcomeInv`). `OneLeaderPerKey` alone is not inductive: it needs the leader's flight
to be in the registry under its key, which in turn needs expiry, eviction and
`invalidate` to keep active flights. These three are one lemma: each of them only
thins the registry out by completed flights (`ThinningStep`). The count of waiters is
moved by `FollowerJoins` and `FollowerLeaves`, which apply the cardinality theorems
once. Theorems: `FlightTypes`, `Coalesced`, `Bounded`, `Accounted`, `ReadsOutcome`
and the action property `Fresh`.

**WorkProofs, ProviderWork.** `IInv` says of every job, by where its thread is, what its future, its
error and its items may be, and of every request that a failed or returned one has
seen its jobs in the corresponding state. `CountMove` is the one place where cardinalities are
computed: a step of one job changes the number of jobs in a set by what that job
does. The lemmas `WholeGroupMove`, `RestartMove`, `OneSegmentMove`, `EndMove` and `UnwindMove`
follow the operators from which the actions are built, so each action's case is
short. Theorems: `TypeCorrect`, `SlotsNeverLeak`, `Budgeted`, `Settled`, `Provenance`,
`CompleteResults` and the action property `NoNewWork`, which rests on the
fact that the job that failed has cancelled the budget before its future is done.

**AdmissionProofs.** `NoSlotLeaks`: the in-flight counter is the number of holders. The
invariant `ReqOK /\ ClientKnown /\ SlotsMatch` adds that a request under way has a client; steps of the windows leave both sides alone
(`QuietStep`). `WindowsHold` needs more, because the limiter judges by its buckets and the property is about the admissions
that took place (`log`). `Complete` says that a bucket has every admission of the last `Window`: the sweep of a full table and
the hourly cleanup drop buckets by a reading of the clock that may be old, which only makes them keep more.
`Backed` says that a bucket holds nothing else, back to `Window + Stall`. Both compare counts for every set of times rather than the
queues themselves, since readings enter a bucket out of order. From `Backed` follows the action property
`RefusalsAreJust`: whoever is refused for a full table meets `MaxClients` keys with real admissions. `AdmissionTypes` has the
bounds on both tables and on the counters.

**ReaderProofs, ReaderSession.** `RevokedStaysRevoked`, `SessionsAreVouched`, the action property `NoSessionDropsEarly` and `SessionTypes`.
`NoResurrection` is not inductive: an exchange that has drawn its token commits it later, whatever
happens meanwhile. `Held` says what a request holds at each of its steps, above all that a drawn token was never handed out and so is
not among the dead ones, and that whoever passed `authenticate` has the subject and the address the token was
issued for. `Drawn` keeps two exchanges in flight apart, `TableOK` makes `order` and `sessions` the two halves of one dictionary, and
`IssuedOK` says that a user id is trusted only if the reader accepted that user. A session that an exchange drops was expired by
the reading it used, or pushed out of a full table (`EvictFacts`). Apart from those, `NoEarlyDrop` takes from `Held` and `TableOK` that an exchange
about to commit was vouched for by the reader and that a revocation comes from its session's own binding. An exchange is asked for no binding: it
removes the session of the token it presents from wherever it comes (`reader_session.py:596-597`).

**DataProofs, TranslationCache.** `HitsAreConserved` adds to the property that hits are carried only
while a flush is under way (`Handed`). A sum over the keys is the number of its units (`SumOf`), so that adding two
sums is a bijection of sets (`SumAdds`) and no induction is needed. `ExcessIsBounded`: the write counter stays below the watermark, and the
table has at most that many rows too many, from the moment retention has run. `CapFacts` is what `_enforce_cap` does: it keeps the
newest rows, as many as fit, which takes that the order of the rows is total, and the least number of rows that are
ahead of a row (`LeastNumber`). The action property `OnlyOldOrExcessLeaves` needs `SeenOld`: a row that a lookup saw as expired is still that
row or has been renewed since, and a clock reading is at most a day old (`StampsNear`). `CacheTypes` has the types.

**DataProofs, CleanupToken.** `TokenAgreement`: the invariant adds to `Agreement` that only the holder of the file lock is between its read and its rename,
and that whoever is about to create a token has seen no file (`Working`). `TokenDurable` needs `Pending` besides: disk and
file differ only while a process is about to sync the directory, and then no process holds a token yet, unless
a sync failed or its process was killed before it.

**TranslationRequestsProofs.** `BInv` says by the step of a request what its fields may be (`Shape`, `Path`) and that its deltas
are all of the provider it is with (`Voice`); it gives `OneProviderPerStream` without further conditions. `NoStreamKeepsSlot`
counts the threads that stream: an action changes the number of free slots as it lets its thread into that set or out of it (`Fits`,
`SlotMoves`), and a new process starts with all slots and no stream. `TInv` gives `CacheIsTrue`,
`OnlyAllowedIsSent` and `PolicyIsShown`. It says that every row, and every row that a probe remembered, is what its scope says, and that
what a request has got so far was made for its tenant, with its glossary, by a backend that its consent allows; a fresh translation
was also made with the prompt under whose contract it will be filed (`Filed`). None of these stands alone: a row is true because
the translation was, and an answer because the row was. The three theorems have the hypothesis `OwnNamespaces`, that the two backends of a process differ in
their namespace. It cannot be left out: without it `model_for_provider` files the fallback's translations under the
primary's model, which is what the run `fallback_model` shows. That a row written by an earlier deployment is sent only if
a backend of the running one made it, with the locality its page has shown, comes from the namespace: it decides locality and protocol (`_provider_spec`).

**ReconfigureProofs.** `RuntimeKnown`, `EnvironmentNeverLost` and the refinement
`SwitchImplemented`, from one invariant. Neither `KnownRuntime` nor `EnvironmentKept` is inductive: both
depend on what a journal found on disk is worth. `Recorded` says it: as long as the old
snapshot is there and the published state still names the old container, that
snapshot is the published environment, and a verified journal is about the container that
runs. The comparison of ids is what it takes, because two environments may have one
fingerprint. `Unfinished` says that state, container and active file agree (`Settled`) without a journal and
during the clean-up, and at which steps there is a journal; `Prepared`, `Replacing`, `Remembered` and `Probing` say what the command at
work may rely on at each of its steps (the snapshots are taken, the environment to write is the
wanted one going forward and the published one going back, its own copy of the journal is the one on disk, and a
container that is probed again is the committed one). The refinement is proved action by action: publication is the one
step that changes `good`, and there the container runs with what was asked for.

**HubTopologyProofs.** `CutoverLosesNothing` and `HubAlwaysAccounted`, for any set of readers. The
invariant has the data in `Cutover`: sources are stopped one by one, then copied one by
one, a copy that was published is exactly what its stopped source holds, and all of them are
while a hub container exists. `NoHub` and `Owned` have the container: where there is none, and which
install id it carries at each step, so that the state or attempt that claims it is the right one.
`Fresh` (an install id is drawn once) keeps the claim of an old state apart from that of a new
attempt. `Commanded` and `Journaled` tie the step of a procedure to the command that called it: install is called by
migrate too, and only there do the sources have to stay stopped. The lemmas at the start (`GotoMoves`, `RaisedFails`,
`ReturnedReturns`) say where a command goes on, so that the actions need not unfold it.

**ReaderProofs, HubRuntime.** `NoChildLeft` rests on `Supervised`: children are spawned in order, so one beyond the index is
not there, and those before the index of the reaping loop have ended. `Attended` ties a reader's process to
the step of process 1 or to its running child, so none is at work when the next one begins.
`OneTenantKey` needs three facts per reader (`Filed`): a tenant key that is there is the one its data is filed
under (`FiledUnderTenant`); before it is there the data is filed under the session key of an older release, and a
process about to write the tenant key has loaded that session key and has seen that it
existed (`FiledUnderSession`); a file is written only while it is empty (`Loaded`). The removal of the session keys keeps this: where no tenant key is there
the data is lost (ADR-020 says so), and where one is there only the first fact is about the data.

**MigrationProofs.** `RollbackAlwaysReady`, `NothingOrphaned` and the action property `CommittedDataKept`, from
one invariant over install, adoption, uninstallation, upgrade and rollback. None of the three is inductive.
`RollbackReady` needs `Upgrades`: from the snapshot on the command's own journal holds the legacy data and the legacy
service is stopped; until then no container exists, so a journal without a snapshot can be on disk; and a failed upgrade
starts the legacy service only where no container runs. `Rollbacks` says that the journal a rollback remembers has the
snapshot of the one on disk, which it writes back at its end. `NoOrphans` needs `Installs` and `Uninstalls`, which say step by step
what is there (nothing before the attempt says "starting", only resources of this install id after it, and the
resources already removed while the later ones are), and `Fresh`, that every id on disk was drawn. `TargetKept` rests on `Stored`
(a state has a data directory, so the API never creates one over it) and on the fact that a first upgrade is only at work
where no state is. `Commanded` ties the procedures to their callers: install and adoption return into the upgrade,
uninstallation into the rollback. A step's lemma first says where the command goes on (`Moves`, `Ends`, `Leads`) and what the step
wrote, then takes the parts of the invariant in turn; `OnlyOp` does it at once for a step that writes nothing. A failing step is
proved by where it fails, since what it may have written differs; `RaiseFrame` says what all of them leave alone. The templates have an
invariant of their own, `Noted`, proved beside the first and with it: at the steps where no template can be noted there is none, and where an
install keeps one its attempt says "starting" under its id until the state is saved. `NothingOrphaned` needs both.

Every safety invariant and action property that a passing run checks is proved. Model checking alone covers
liveness (`FollowersReturn`, `RequestsEnd`, `FailsWhole`, `ServesAgain`,
`ServiceReturns` and the three `Converges`), since the prover has no fairness reasoning.
`Bounded`, `Budgeted`, `Settled` and `CompleteResults` are proved and no run repeats them.
Where an argument is an induction over the naturals, it is made with the least element of a set of numbers, which the provers accept as it is;
where it would be one over a sequence, the model speaks of positions and counts instead (`Only`, `Count`, `SumOf`).

## 5. Not modelled

* Text: prompts, HTTP, DNS vetting, cookie syntax, languages, EPUB files, nginx
  templates. They appear as the outcomes their callers distinguish.
* Counters that are only reported (`/metrics`) and the wording of answers.
* The renaming of draft tables when the cache opens (`_normalize_cache_tables`).
* The parsing and validation of configurations (`InstallConfig`, `HubInstallConfig`, the environment of the
  hub): functions of their input without state. A refused configuration ends a command
  before its first step; `HubRuntime` has it as a choice.
* Commands that only read: the doctors, `preview`, health checks and pings.
* `auth.py`: the decision cache around the single flight stores a verdict under the key it was asked for; a
  late follower may store one that is older by at most a probe.
* The browser side (`static/translator.js`).

Each component that is left out is listed in `PROJECT.json` with its reason.

## 6. Plan

Done, in this order: `SingleFlight`, `ProviderWork`, `TranslationCache`,
`ReaderSession`, `Admission`, `SecretFiles`, `CleanupToken`, `TranslationRequests`, the
proofs of section 4, `Reconfigure` with `ProviderSwitch`, `Deployment`, `Migration`, `HubTopology`,
`HubRuntime`, the proofs of `Reconfigure`, `HubTopology`, `HubRuntime`, `Migration` and of `Durable`, those of
`TranslationCache`, `ReaderSession`, the windows of `Admission` and `TranslationRequests`. What could follow:

1. **auth.py**: the decision cache around the single flight, to bound the age of a verdict that a late follower stores.
2. **Streams that wait**: that a stream waiting for an upstream slot gets one or times out is left to the timeout, which the model
   may take at any moment; with real deadlines it would be a liveness property.
