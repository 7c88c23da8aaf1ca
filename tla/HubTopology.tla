----------------------------- MODULE HubTopology -----------------------------
(***************************************************************************)
(* The hub deployment (btctl_hub.py): one container that serves all the    *)
(* readers.  It is installed afresh, or active split deployments are cut   *)
(* over to it (migrate-topology) and back (rollback).                      *)
(*                                                                         *)
(* The cutover stops the sources, copies the data of each reader into the  *)
(* data root of the hub, installs the hub on the copies and leaves the     *)
(* sources stopped; topology-migration.json keeps what was copied and      *)
(* which sources ran.  A failure starts the sources again, unless a hub    *)
(* container is left.                                                      *)
(*                                                                         *)
(* A command holds the locks of all the deployments concerned, taken in    *)
(* path order without waiting, and they die with its process: one actor.   *)
(* A source is its API and proxy, stopped and started together.  Its data  *)
(* is the number of its writes; a copy is the number it was taken at, the  *)
(* writes of the hub to it and whether it holds a session key.             *)
(***************************************************************************)
EXTENDS Naturals

CONSTANTS Readers, MaxStops, MaxFaults, MaxWrites, MaxGoals, Partial, None

\* The hub's state.json and install-attempt.json, each with its install id.
HubStates == [status : {"installed", "uninstalling", "uninstalled", "rolled_back"}, id : Nat]
Attempts  == [status : {"prepared", "starting", "cleaned", "cleanup-failed"}, id : Nat]

\* The data of a reader in the hub's data root.
Copies == [from : Nat \cup {None}, v : Nat, key : BOOLEAN]

\* None is the absence of a file or a directory.
ASSUME HubAssumption ==
    /\ MaxStops \in Nat /\ MaxFaults \in Nat /\ MaxWrites \in Nat /\ MaxGoals \in Nat
    /\ None \notin HubStates /\ None \notin Attempts /\ None \notin Copies

VARIABLES
    src,        \* reader -> its split deployment: runs, and its data
    was,        \* history: the sources that ran before the cutover
    state,      \* state.json of the hub: status and install id
    attempt,    \* install-attempt.json of the hub
    history,    \* archived final states, by install id
    stray,      \* a temporary file of a killed save lies in the state directory
    journal,    \* topology-migration.json: status, copied evidence, initial_statuses
    hub,        \* install id on the hub container, or 0
    work,       \* reader -> its copy under way: a number, Partial or None
    target,     \* reader -> its data in the hub's data root, or None
    made,       \* install ids drawn so far
    op,         \* the command at work
    goal,       \* what the operator wants
    count       \* stops, faults, writes and goals so far

hubfiles == <<state, attempt, history, stray>>
copies   == <<work, target>>
vars     == <<src, was, hubfiles, journal, hub, copies, made, op, goal, count>>

\* No command is at work.
Idle == [cmd |-> "none", pc |-> "idle", id |-> 0, keyed |-> {}, started |-> FALSE,
         todo |-> {}, r |-> None, own |-> FALSE]

Init ==
    /\ src \in {None} \cup [Readers -> [up : BOOLEAN, data : {0}]]
    /\ was = IF src = None THEN {} ELSE {r \in Readers : src[r].up}
    /\ state = None /\ attempt = None /\ history = {} /\ stray = FALSE /\ journal = None
    /\ hub = 0
    /\ work = [r \in Readers |-> None] /\ target = [r \in Readers |-> None]
    /\ made = 0 /\ op = Idle
    /\ goal = IF src = None THEN "install" ELSE "migrate"
    /\ count = [stops |-> 0, faults |-> 0, writes |-> 0, goals |-> 0]

At(pc) == op.pc = pc

Goto(pc) == op' = [op EXCEPT !.pc = pc]

Active == state # None /\ state.status = "installed"

\* A copy of the source as it is now.
Exact(r) == [from |-> src[r].data, v |-> 0, key |-> TRUE]

\* The command begins: all the locks are free.
Begin ==
    /\ At("idle")
    /\ op' = [Idle EXCEPT !.cmd = goal,
                          !.pc = CASE goal = "install" -> "preflight" [] goal = "uninstall" -> "owned"
                                   [] goal = "migrate" -> "sources" [] OTHER -> "roll_check"]
    /\ UNCHANGED <<src, was, hubfiles, journal, hub, copies, made, goal, count>>

\* install and uninstall return to their caller, or raise into it.
Returned(o) ==
    CASE o.cmd = "migrate" -> [o EXCEPT !.pc = "committed"]
      [] o.cmd = "rollback" -> [o EXCEPT !.pc = "restart", !.todo = journal.was]
      [] OTHER -> Idle

Raised(o) == IF o.cmd = "migrate" THEN [o EXCEPT !.pc = "failed"] ELSE Idle

----------------------------------------------------------------------------
(* HubInstaller.install                                                     *)

\* The attempt is evidence of a complete clean-up, the names and the data are free.
Preflight ==
    /\ attempt # None => attempt.status = "cleaned"
    /\ hub = 0
    /\ state # None => state.status \in {"uninstalled", "rolled_back"}
    /\ op.cmd = "migrate" \/ attempt # None \/ state # None \/ \A r \in Readers : target[r] = None

InstallPreflight ==
    /\ At("preflight")
    /\ op' = IF Preflight THEN [op EXCEPT !.pc = "attempt", !.started = FALSE] ELSE Raised(op)
    /\ UNCHANGED <<src, was, hubfiles, journal, hub, copies, made, goal, count>>

\* _validate_destination refuses unknown files while there is no state.
SaveAttempt ==
    /\ At("attempt")
    /\ IF stray /\ state = None
         THEN /\ op' = Raised(op)
              /\ UNCHANGED <<made, attempt>>
         ELSE /\ made' = made + 1
              /\ attempt' = [status |-> "prepared", id |-> made']
              /\ op' = [op EXCEPT !.pc = "starting", !.id = made']
    /\ UNCHANGED <<src, was, state, history, stray, journal, hub, copies, goal, count>>

\* Variant: the attempt is not marked before the hub is started.
SaveStartingNot ==
    /\ At("starting")
    /\ Goto("stage")
    /\ UNCHANGED <<src, was, hubfiles, journal, hub, copies, made, goal, count>>

SaveStarting ==
    /\ At("starting")
    /\ attempt' = [attempt EXCEPT !.status = "starting"]
    /\ Goto("stage")
    /\ UNCHANGED <<src, was, state, history, stray, journal, hub, copies, made, goal, count>>

\* The image, the data directories and the private files; which keys are there.
Stage ==
    /\ At("stage")
    /\ op' = [op EXCEPT !.pc = "up", !.started = TRUE,
                        !.keyed = {r \in Readers : target[r] # None /\ target[r].key}]
    /\ UNCHANGED <<src, was, hubfiles, journal, hub, copies, made, goal, count>>

\* The hub starts: each reader's API creates what is missing in its directory.
StartHub ==
    /\ At("up")
    /\ hub' = op.id
    /\ target' = [r \in Readers |-> IF target[r] = None THEN [from |-> None, v |-> 0, key |-> TRUE]
                                    ELSE [target[r] EXCEPT !.key = TRUE]]
    /\ Goto("verify")
    /\ UNCHANGED <<src, was, hubfiles, journal, work, made, goal, count>>

\* Health, _probe and _verify_hub pass, and a replaced state is archived.
VerifyHub ==
    /\ At("verify")
    /\ history' = IF state = None THEN history ELSE history \cup {state.id}
    /\ Goto("commit")
    /\ UNCHANGED <<src, was, state, attempt, stray, journal, hub, copies, made, goal, count>>

Commit ==
    /\ At("commit")
    /\ state' = [status |-> "installed", id |-> op.id]
    /\ Goto("unattempt")
    /\ UNCHANGED <<src, was, attempt, history, stray, journal, hub, copies, made, goal, count>>

RemoveAttempt ==
    /\ At("unattempt")
    /\ attempt' = None
    /\ op' = Returned(op)
    /\ UNCHANGED <<src, was, state, history, stray, journal, hub, copies, made, goal, count>>

\* Variant: the clean-up removes every session key.
NewKeysAll == Readers

\* _remove_new_session_keys: the keys that this attempt created.
NewKeys == Readers \ op.keyed

\* The handler: what was started is removed.
Clean ==
    /\ At("clean")
    /\ hub' = IF op.started THEN 0 ELSE hub
    /\ target' = [r \in Readers |-> IF op.started /\ r \in NewKeys /\ target[r] # None
                                      THEN [target[r] EXCEPT !.key = FALSE] ELSE target[r]]
    /\ Goto("cleaned")
    /\ UNCHANGED <<src, was, hubfiles, journal, work, made, goal, count>>

SaveCleaned ==
    /\ At("cleaned")
    /\ attempt' = [status |-> "cleaned", id |-> op.id]
    /\ op' = Raised(op)
    /\ UNCHANGED <<src, was, state, history, stray, journal, hub, copies, made, goal, count>>

SaveCleanupFailed ==
    /\ At("cleanup_failed")
    /\ attempt' = [status |-> "cleanup-failed", id |-> op.id]
    /\ op' = Raised(op)
    /\ UNCHANGED <<src, was, state, history, stray, journal, hub, copies, made, goal, count>>

----------------------------------------------------------------------------
(* HubUninstaller.uninstall                                                 *)

\* An attempt may be left only by the install that committed this state.
CommittedAttempt == attempt # None /\ attempt.status = "starting" /\ attempt.id = state.id

VerifyOwned ==
    /\ At("owned")
    /\ op' = IF \/ state = None
                \/ state.status \notin {"installed", "uninstalling", "uninstalled"}
                \/ attempt # None /\ ~CommittedAttempt
               THEN Idle
             ELSE IF state.status = "uninstalled"
               THEN IF attempt = None THEN Returned(op) ELSE [op EXCEPT !.pc = "reconcile"]
             ELSE IF hub \in {0, state.id}
               THEN [op EXCEPT !.pc = "uninstalling", !.own = CommittedAttempt]
             ELSE Idle
    /\ UNCHANGED <<src, was, hubfiles, journal, hub, copies, made, goal, count>>

SaveUninstalling ==
    /\ At("uninstalling")
    /\ state' = [state EXCEPT !.status = "uninstalling"]
    /\ Goto("down")
    /\ UNCHANGED <<src, was, attempt, history, stray, journal, hub, copies, made, goal, count>>

RemoveHub ==
    /\ At("down")
    /\ hub' = 0
    /\ Goto("keys")
    /\ UNCHANGED <<src, was, hubfiles, journal, copies, made, goal, count>>

RemoveKeys ==
    /\ At("keys")
    /\ target' = [r \in Readers |-> IF target[r] = None THEN None ELSE [target[r] EXCEPT !.key = FALSE]]
    /\ Goto("uninstalled")
    /\ UNCHANGED <<src, was, hubfiles, journal, hub, work, made, goal, count>>

SaveUninstalled ==
    /\ At("uninstalled")
    /\ state' = [state EXCEPT !.status = "uninstalled"]
    /\ op' = IF op.own THEN [op EXCEPT !.pc = "reconcile"] ELSE Returned(op)
    /\ UNCHANGED <<src, was, attempt, history, stray, journal, hub, copies, made, goal, count>>

Reconcile ==
    /\ At("reconcile")
    /\ attempt' = None
    /\ op' = Returned(op)
    /\ UNCHANGED <<src, was, state, history, stray, journal, hub, copies, made, goal, count>>

----------------------------------------------------------------------------
(* HubTopologyMigration.migrate                                             *)

\* A first run needs an empty data root; a journal must not be final.
Sources ==
    /\ At("sources")
    /\ op' = IF journal = None
               THEN IF \A r \in Readers : target[r] = None /\ work[r] = None
                      THEN [op EXCEPT !.pc = "prepared"] ELSE Idle
             ELSE IF journal.status \in {"prepared", "copying", "failed"}
               THEN [op EXCEPT !.pc = "recover"]
             ELSE Idle
    /\ UNCHANGED <<src, was, hubfiles, journal, hub, copies, made, goal, count>>

SavePrepared ==
    /\ At("prepared")
    /\ journal' = [status |-> "prepared", copied |-> [r \in Readers |-> None],
                   was |-> {r \in Readers : src[r].up}]
    /\ Goto("recover")
    /\ UNCHANGED <<src, was, hubfiles, hub, copies, made, goal, count>>

\* A hub that was committed before the journal was: the journal follows.
RecoverHub ==
    /\ At("recover")
    /\ op' = IF ~Active THEN [op EXCEPT !.pc = "copying"]
             ELSE IF hub = state.id THEN [op EXCEPT !.pc = "committed"]
             ELSE Idle
    /\ UNCHANGED <<src, was, hubfiles, journal, hub, copies, made, goal, count>>

\* Variant: a retry takes the sources that run by then for the initial ones.
SaveCopyingAnew ==
    /\ At("copying")
    /\ journal' = [journal EXCEPT !.status = "copying", !.was = {r \in Readers : src[r].up}]
    /\ op' = [op EXCEPT !.pc = "stop", !.todo = {r \in Readers : src[r].up}]
    /\ UNCHANGED <<src, was, hubfiles, hub, copies, made, goal, count>>

SaveCopying ==
    /\ At("copying")
    /\ journal' = [journal EXCEPT !.status = "copying"]
    /\ op' = [op EXCEPT !.pc = "stop", !.todo = {r \in Readers : src[r].up}]
    /\ UNCHANGED <<src, was, hubfiles, hub, copies, made, goal, count>>

\* stop_container for the proxy and the API of one source after the other.
StopSource ==
    /\ At("stop")
    /\ IF op.todo = {}
         THEN /\ op' = [op EXCEPT !.pc = "copy", !.todo = Readers]
              /\ UNCHANGED src
         ELSE \E r \in op.todo :
                /\ src' = [src EXCEPT ![r].up = FALSE]
                /\ op' = [op EXCEPT !.todo = @ \ {r}]
    /\ UNCHANGED <<was, hubfiles, journal, hub, copies, made, goal, count>>

\* Variant: a copy that is there is taken as it is.
CopyTrusted(r) == target[r] # None

\* _copy_reader_data: what is there is the copy of what the source holds now.
CopyMatches(r) ==
    IF journal.copied[r] # None
      THEN journal.copied[r] = Exact(r) /\ work[r] = None /\ target[r] = Exact(r)
      ELSE target[r] # None /\ work[r] = None /\ target[r] = Exact(r)

\* Nothing is there, or a partial copy only, which is completed or made again.
CopyNeeded(r) == journal.copied[r] = None /\ target[r] = None

CopyReader ==
    /\ At("copy")
    /\ IF op.todo = {}
         THEN /\ Goto("preflight")
              /\ UNCHANGED work
         ELSE \E r \in op.todo :
                /\ op' = CASE CopyNeeded(r) -> [op EXCEPT !.pc = "publish", !.r = r]
                           [] CopyMatches(r) /\ journal.copied[r] # None -> [op EXCEPT !.todo = @ \ {r}]
                           [] CopyMatches(r) /\ journal.copied[r] = None ->
                                [op EXCEPT !.pc = "evidence", !.r = r]
                           [] OTHER -> [op EXCEPT !.pc = "failed"]
                /\ work' = IF CopyNeeded(r) THEN [work EXCEPT ![r] = src[r].data] ELSE work
    /\ UNCHANGED <<src, was, hubfiles, journal, hub, target, made, goal, count>>

\* The work tree is durable and is renamed.
PublishCopy ==
    /\ At("publish")
    /\ target' = [target EXCEPT ![op.r] = [from |-> work[op.r], v |-> 0, key |-> TRUE]]
    /\ work' = [work EXCEPT ![op.r] = None]
    /\ Goto("evidence")
    /\ UNCHANGED <<src, was, hubfiles, journal, hub, made, goal, count>>

SaveEvidence ==
    /\ At("evidence")
    /\ journal' = [journal EXCEPT !.copied[op.r] = Exact(op.r)]
    /\ op' = [op EXCEPT !.pc = "copy", !.todo = @ \ {op.r}]
    /\ UNCHANGED <<src, was, hubfiles, hub, copies, made, goal, count>>

\* No hub container is left after the failure.
HubGone == hub = 0

\* The handler of migrate: the journal, then the sources, unless a hub is left.
MigrateFailed ==
    /\ At("failed")
    /\ journal' = [journal EXCEPT !.status = "failed"]
    /\ op' = IF HubGone THEN [op EXCEPT !.pc = "restart", !.todo = journal.was] ELSE Idle
    /\ UNCHANGED <<src, was, hubfiles, hub, copies, made, goal, count>>

SaveCommitted ==
    /\ At("committed")
    /\ journal' = [journal EXCEPT !.status = "committed"]
    /\ op' = Idle
    /\ UNCHANGED <<src, was, hubfiles, hub, copies, made, goal, count>>

\* _restart_sources: those that ran before the cutover.
RestartSources ==
    /\ At("restart")
    /\ IF op.todo = {}
         THEN /\ op' = IF op.cmd = "rollback" /\ journal.status # "rolled_back"
                         THEN [op EXCEPT !.pc = "roll_state"] ELSE Idle
              /\ UNCHANGED src
         ELSE \E r \in op.todo :
                /\ src' = [src EXCEPT ![r].up = TRUE]
                /\ op' = [op EXCEPT !.todo = @ \ {r}]
    /\ UNCHANGED <<was, hubfiles, journal, hub, copies, made, goal, count>>

----------------------------------------------------------------------------
(* HubTopologyMigration.rollback                                            *)

RollbackCheck ==
    /\ At("roll_check")
    /\ op' = IF journal = None THEN Idle
             ELSE IF journal.status = "rolled_back" THEN [op EXCEPT !.pc = "restart", !.todo = journal.was]
             ELSE IF journal.status = "committed" THEN [op EXCEPT !.pc = "owned"]
             ELSE Idle
    /\ UNCHANGED <<src, was, hubfiles, journal, hub, copies, made, goal, count>>

RollbackState ==
    /\ At("roll_state")
    /\ state' = [state EXCEPT !.status = "rolled_back"]
    /\ Goto("roll_journal")
    /\ UNCHANGED <<src, was, attempt, history, stray, journal, hub, copies, made, goal, count>>

RollbackJournal ==
    /\ At("roll_journal")
    /\ journal' = [journal EXCEPT !.status = "rolled_back"]
    /\ op' = Idle
    /\ UNCHANGED <<src, was, hubfiles, hub, copies, made, goal, count>>

----------------------------------------------------------------------------
(* Failures                                                                 *)

\* Where an exception leads.
Handler ==
    CASE op.pc \in {"starting", "stage", "up", "verify", "commit"} -> [op EXCEPT !.pc = "clean"]
      [] op.pc \in {"clean", "cleaned"} -> [op EXCEPT !.pc = "cleanup_failed"]
      [] op.pc \in {"preflight", "attempt", "unattempt", "cleanup_failed"} -> Raised(op)
      [] op.pc \in {"stop", "copy", "publish", "evidence"} -> [op EXCEPT !.pc = "failed"]
      [] At("failed") /\ HubGone -> [op EXCEPT !.pc = "restart", !.todo = journal.was]
      [] OTHER -> Idle

\* A step raises; what it saves may have been saved, what it removes removed.
Raise ==
    /\ ~At("idle") /\ count.faults < MaxFaults
    /\ count' = [count EXCEPT !.faults = @ + 1]
    /\ op' = Handler
    /\ attempt' \in {attempt} \cup
           (CASE At("attempt") /\ ~(stray /\ state = None) -> {[status |-> "prepared", id |-> made + 1]}
              [] At("starting") -> {[attempt EXCEPT !.status = "starting"]}
              [] At("cleaned") -> {[status |-> "cleaned", id |-> op.id]}
              [] op.pc \in {"unattempt", "reconcile"} -> {None}
              [] OTHER -> {})
    /\ made' = IF At("attempt") THEN made + 1 ELSE made
    /\ state' \in {state} \cup
           (CASE At("commit") -> {[status |-> "installed", id |-> op.id]}
              [] At("uninstalled") -> {[state EXCEPT !.status = "uninstalled"]}
              [] At("roll_state") -> {[state EXCEPT !.status = "rolled_back"]}
              [] OTHER -> {})
    /\ hub' \in {hub} \cup
           (IF At("clean") /\ op.started THEN {0} ELSE {})
    /\ journal' \in {journal} \cup
           (CASE At("copying") -> {[journal EXCEPT !.status = "copying"]}
              [] At("evidence") -> {[journal EXCEPT !.copied[op.r] = Exact(op.r)]}
              [] At("committed") -> {[journal EXCEPT !.status = "committed"]}
              [] At("roll_journal") -> {[journal EXCEPT !.status = "rolled_back"]}
              [] OTHER -> {})
    /\ UNCHANGED <<src, was, history, stray, copies, goal>>

\* The steps that save a file, whose temporary file a killed process leaves.
Saves == {"attempt", "starting", "stage", "commit", "cleaned", "cleanup_failed", "prepared",
          "copying", "evidence", "failed", "committed"}

\* The command is killed; a copy under way stays as it is.
Stop ==
    /\ ~At("idle") /\ count.stops < MaxStops
    /\ count' = [count EXCEPT !.stops = @ + 1]
    /\ op' = Idle
    /\ IF At("publish") THEN work' \in {work, [work EXCEPT ![op.r] = Partial]} ELSE UNCHANGED work
    /\ stray' \in IF op.pc \in Saves /\ state = None THEN {stray, TRUE} ELSE {stray}
    /\ UNCHANGED <<src, was, state, attempt, history, journal, hub, target, made, goal>>

SourceWrites(r) ==
    /\ src # None /\ count.writes < MaxWrites
    /\ src[r].up
    /\ src' = [src EXCEPT ![r].data = @ + 1]
    /\ count' = [count EXCEPT !.writes = @ + 1]
    /\ UNCHANGED <<was, hubfiles, journal, hub, copies, made, op, goal>>

HubWrites(r) ==
    /\ hub # 0 /\ count.writes < MaxWrites
    /\ target' = [target EXCEPT ![r].v = @ + 1]
    /\ count' = [count EXCEPT !.writes = @ + 1]
    /\ UNCHANGED <<src, was, hubfiles, journal, hub, work, made, op, goal>>

----------------------------------------------------------------------------
\* The sources that ran run again.
SourcesBack == \A r \in was : src[r].up

Reached ==
    CASE goal = "install" -> Active /\ hub = state.id
      [] goal = "uninstall" -> state # None /\ state.status = "uninstalled" /\ attempt = None
      [] goal = "migrate" -> Active /\ hub = state.id /\ journal # None /\ journal.status = "committed"
      [] OTHER -> journal.status = "rolled_back" /\ SourcesBack

Want ==
    /\ At("idle") /\ Reached /\ count.goals < MaxGoals
    /\ goal \in {"install", "uninstall", "migrate"}
    /\ count' = [count EXCEPT !.goals = @ + 1]
    /\ goal' = CASE goal = "install" -> "uninstall" [] goal = "uninstall" -> "install"
                 [] OTHER -> "rollback"
    /\ UNCHANGED <<src, was, hubfiles, journal, hub, copies, made, op>>

Step ==
    \/ InstallPreflight \/ SaveAttempt \/ SaveStarting \/ Stage \/ StartHub \/ VerifyHub \/ Commit
    \/ RemoveAttempt \/ Clean \/ SaveCleaned \/ SaveCleanupFailed
    \/ VerifyOwned \/ SaveUninstalling \/ RemoveHub \/ RemoveKeys \/ SaveUninstalled \/ Reconcile
    \/ Sources \/ SavePrepared \/ RecoverHub \/ SaveCopying \/ StopSource \/ CopyReader
    \/ PublishCopy \/ SaveEvidence \/ MigrateFailed \/ SaveCommitted \/ RestartSources
    \/ RollbackCheck \/ RollbackState \/ RollbackJournal

Next ==
    \/ Begin \/ Step \/ Raise \/ Stop \/ Want
    \/ \E r \in Readers : SourceWrites(r) \/ HubWrites(r)

Spec == Init /\ [][Next]_vars

\* A command runs on, and the operator gives it again and again.
FairSpec == Spec /\ WF_vars(Step) /\ WF_vars(Begin)

----------------------------------------------------------------------------
(* Properties                                                               *)

(* A cutover loses no write: whenever the hub runs, every source is        *)
(* stopped and the hub's copy began with all that the source holds.        *)
CutoverExact ==
    hub # 0 /\ src # None => \A r \in Readers : ~src[r].up /\ target[r].from = src[r].data

(* Whatever is killed or fails, a hub container belongs to the installed   *)
(* state or to an attempt that says that something may be left.            *)
HubAccounted ==
    hub # 0 =>
        \/ state # None /\ state.id = hub /\ state.status \in {"installed", "uninstalling"}
        \/ attempt # None /\ attempt.id = hub /\ attempt.status \in {"starting", "cleanup-failed"}

(* The readers are not left without a service: a cutover that is given     *)
(* again, or rolled back, ends with the installed hub or with the sources  *)
(* that ran before.  Two dead ends are the exception: the state that was   *)
(* saved belongs to a hub removed since, or a hub container was left by an *)
(* install that did not end.                                               *)
ServiceReturns ==
    LET left == hub # 0 /\ attempt # None /\ attempt.id = hub
    IN  src # None =>
            <>[](At("idle") => SourcesBack \/ (Active /\ hub \in {0, state.id}) \/ left)

\* What the commands refuse to go on with, and an operator has to look into.
DeadEnd ==
    \/ /\ attempt # None                                      \* an unfinished install
       /\ \/ attempt.status \in {"prepared", "cleanup-failed"}
          \/ attempt.status = "starting" /\ goal \in {"install", "migrate"}
    \/ stray /\ state = None                                  \* a file of a killed save
    \/ Active /\ hub # state.id                               \* a commit that was undone
    \/ /\ goal = "migrate" /\ journal # None                  \* a source or a copy was written to
       /\ \E r \in Readers :
              target[r] # None /\ (target[r].from # src[r].data \/ target[r].v # 0)
    \/ goal = "rollback" /\ state.status = "rolled_back"      \* the journal was not written

(* A command that is given again after a failure, or after it was killed,  *)
(* reaches its goal in the end, unless a dead end named above was met.     *)
Converges == <>[](At("idle") => Reached \/ DeadEnd)
=============================================================================
