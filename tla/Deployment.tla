----------------------------- MODULE Deployment -----------------------------
(***************************************************************************)
(* The split deployment of one reader: install, adopt and uninstall, for   *)
(* the Compose and the Unraid profile (btctl_compose.py, btctl_unraid.py,  *)
(* btctl_lifecycle.py, with the stores of btctl_core.py).                  *)
(*                                                                         *)
(* A command owns a private network, an API and a proxy container, the     *)
(* session key that the API creates in the data directory and, on Unraid,  *)
(* two templates.  state.json says what is installed, install-attempt.json *)
(* what an install that has not been committed may have left behind.       *)
(*                                                                         *)
(* The operation lock admits one command at a time and dies with its       *)
(* process, so there is one actor.  Every file is replaced atomically and  *)
(* every Docker command is a step; a step may raise, and a save may raise  *)
(* after its rename.  Commands are procedures of the migration too: they   *)
(* end in Returned or Raised, which know the command that called them.     *)
(***************************************************************************)
EXTENDS Naturals

CONSTANTS MaxStops, MaxFaults, MaxWrites, None

\* The documents of state.json and install-attempt.json, and the data directory.
States ==
    [status : {"installed", "adopted", "uninstalling", "uninstalled", "rolled_back"},
     id : Nat, gone : SUBSET {"api", "proxy", "net", "key", "tpl"}]
Attempts == [status : {"prepared", "starting", "cleaned", "cleanup-failed"}, id : Nat]
Targets  == [from : Nat \cup {None}, v : Nat]

\* None is the absence of a file or a directory.
ASSUME DeploymentAssumption ==
    /\ MaxStops \in Nat /\ MaxFaults \in Nat /\ MaxWrites \in Nat
    /\ None \notin States /\ None \notin Attempts /\ None \notin Targets

VARIABLES
    unraid,     \* install_profile: Unraid, or Compose
    state,      \* state.json: status, install id, resources marked as removed
    attempt,    \* install-attempt.json: status and install id
    history,    \* archived final states, by install id
    stray,      \* a temporary file of a killed save lies in the state directory
    box,        \* Docker resource -> install id on its label, or 0
    up,         \* the containers that run
    tpl,        \* the Unraid templates: none, kept, or lost
    key,        \* the session key is in the data directory
    target,     \* the data directory: the snapshot it began with, and its writes
    made,       \* install ids drawn so far
    op,         \* the command at work
    count       \* stops, faults and writes so far

files  == <<state, attempt, history, stray>>
docker == <<box, up>>
data   == <<tpl, key, target>>

Roles == {"api", "proxy"}

\* No command is at work.
Idle == [cmd |-> "none", pc |-> "idle", id |-> 0, retry |-> None, keyed |-> FALSE, res |-> "none",
         jr |-> None, prev |-> None, re |-> FALSE, restart |-> FALSE]

InitDeployment ==
    /\ unraid \in BOOLEAN
    /\ state = None /\ attempt = None /\ history = {} /\ stray = FALSE
    /\ box = [r \in Roles \cup {"net"} |-> 0] /\ up = {}
    /\ tpl = "none" /\ key = FALSE /\ target = None
    /\ made = 0 /\ op = Idle
    /\ count = [stops |-> 0, faults |-> 0, writes |-> 0]

Goto(pc) == op' = [op EXCEPT !.pc = pc]

At(pc) == op.pc = pc

\* A procedure of the command returns to its caller.
Returned(o, proc) ==
    CASE o.cmd = "upgrade" /\ proc = "install" -> [o EXCEPT !.pc = "installed"]
      [] o.cmd = "upgrade" /\ proc = "adopt" -> [o EXCEPT !.pc = "recover"]
      [] o.cmd = "rollback" /\ proc = "uninstall" -> [o EXCEPT !.pc = "restore"]
      [] OTHER -> Idle

\* A procedure of the command raises into its caller.
Raised(o, proc) ==
    CASE o.cmd = "upgrade" /\ proc = "install" -> [o EXCEPT !.pc = "failed"]
      [] o.cmd = "rollback" /\ proc = "uninstall" -> [o EXCEPT !.pc = "rollback_failed"]
      [] OTHER -> Idle

Active == state # None /\ state.status \in {"installed", "adopted"}

(* A template is in the template directory.  The command that wrote it has *)
(* noted it (kept), or it raised after the rename, before it could (lost): *)
(* no later command can tell the two apart.                                *)
TemplateThere == tpl # "none"

----------------------------------------------------------------------------
(* install                                                                  *)

\* _completed_uninstall_for_reinstall: there is no state, or one of a removed runtime.
CompletedUninstall(rolledBack) ==
    state # None =>
        /\ state.status \in {"uninstalled"} \cup (IF rolledBack THEN {"rolled_back"} ELSE {})
        /\ {"api", "proxy", "net"} \subseteq state.gone
        /\ unraid => "tpl" \in state.gone

\* _validate_destination: without a state only known files may be there.
ValidDestination == state = None => ~stray

\* _cleaned_attempt_matches: an attempt that cleaned up completely may be retried.
AttemptAllows == attempt # None => attempt.status = "cleaned"

\* _validate_data_destination: data is taken over only on evidence.
DataAllowed(existing) == existing \/ state # None \/ attempt # None \/ target = None

ComposePreflight(existing, rolledBack) ==
    /\ CompletedUninstall(rolledBack)
    /\ \A r \in DOMAIN box : box[r] = 0
    /\ ValidDestination /\ AttemptAllows
    /\ DataAllowed(existing)

UnraidPreflight(existing, rolledBack) ==
    /\ CompletedUninstall(rolledBack)
    /\ \A r \in DOMAIN box : box[r] = 0
    /\ ~TemplateThere
    /\ ValidDestination /\ AttemptAllows
    /\ DataAllowed(existing)

Preflight(existing, rolledBack) ==
    IF unraid THEN UnraidPreflight(existing, rolledBack)
    ELSE ComposePreflight(existing, rolledBack)

InstallPreflight ==
    /\ At("preflight")
    /\ op' = IF Preflight(op.cmd = "upgrade", op.re)
               THEN [op EXCEPT !.pc = "attempt", !.retry = attempt]
               ELSE Raised(op, "install")
    /\ UNCHANGED <<unraid, files, docker, data, made, count>>

\* InstallAttemptStore.save, before anything is made.
SaveAttempt ==
    /\ At("attempt")
    /\ made' = made + 1
    /\ attempt' = [status |-> "prepared", id |-> made']
    /\ op' = [op EXCEPT !.pc = "stage", !.id = made']
    /\ UNCHANGED <<unraid, state, history, stray, docker, data, count>>

\* The image, the data directory and the private files; whether a key is there.
Stage ==
    /\ At("stage")
    /\ op' = [op EXCEPT !.pc = "starting", !.keyed = key]
    /\ UNCHANGED <<unraid, files, docker, data, made, count>>

Starting ==
    /\ At("starting")
    /\ attempt' = [attempt EXCEPT !.status = "starting"]
    /\ Goto("net")
    /\ UNCHANGED <<unraid, state, history, stray, docker, data, made, count>>

CreateNetwork ==
    /\ At("net")
    /\ box' = [box EXCEPT !["net"] = op.id]
    /\ Goto("api")
    /\ UNCHANGED <<unraid, files, up, data, made, count>>

\* The API starts: it creates its database and its session key where they are missing.
StartApi ==
    /\ At("api")
    /\ box' = [box EXCEPT !["api"] = op.id]
    /\ up' = up \cup {"api"}
    /\ key' = TRUE
    /\ target' = IF target = None THEN [from |-> None, v |-> 0] ELSE target
    /\ Goto("proxy")
    /\ UNCHANGED <<unraid, files, tpl, made, count>>

StartProxy ==
    /\ At("proxy")
    /\ box' = [box EXCEPT !["proxy"] = op.id]
    /\ up' = up \cup {"proxy"}
    /\ Goto("verify")
    /\ UNCHANGED <<unraid, files, data, made, count>>

\* Every container is healthy, probed and found to be what the plan says.
Verify ==
    /\ At("verify")
    /\ Goto(IF unraid THEN "templates" ELSE "archive")
    /\ UNCHANGED <<unraid, files, docker, data, made, count>>

CopyTemplates ==
    /\ At("templates")
    /\ tpl' = "kept"
    /\ Goto("archive")
    /\ UNCHANGED <<unraid, files, docker, key, target, made, count>>

\* StateStore.archive: a final state is kept before it is replaced.
Archive ==
    /\ At("archive")
    /\ history' = IF state = None THEN history ELSE history \cup {state.id}
    /\ Goto("commit")
    /\ UNCHANGED <<unraid, state, attempt, stray, docker, data, made, count>>

Installed(status, id) == [status |-> status, id |-> id, gone |-> {}]

Commit ==
    /\ At("commit")
    /\ state' = Installed("installed", op.id)
    /\ Goto("unattempt")
    /\ UNCHANGED <<unraid, attempt, history, stray, docker, data, made, count>>

RemoveAttempt ==
    /\ At("unattempt")
    /\ attempt' = None
    /\ op' = Returned(op, "install")
    /\ UNCHANGED <<unraid, state, history, stray, docker, data, made, count>>

\* Variant: the evidence of an earlier attempt is forgotten too.
UnstageForgets ==
    /\ At("unstage")
    /\ attempt' = None
    /\ op' = Raised(op, "install")
    /\ UNCHANGED <<unraid, state, history, stray, docker, data, made, count>>

\* A failure before the start: the attempt is forgotten, or the evidence before it put back.
Unstage ==
    /\ At("unstage")
    /\ attempt' = op.retry
    /\ op' = Raised(op, "install")
    /\ UNCHANGED <<unraid, state, history, stray, docker, data, made, count>>

\* copied_templates: those that were noted are unlinked, a lost one stays.
Unnoted == IF tpl = "kept" THEN "none" ELSE tpl

\* Variant: the session key of the failed install stays.
CleanKeepsKey ==
    /\ At("clean")
    /\ box' = [r \in DOMAIN box |-> 0] /\ up' = {}
    /\ tpl' = Unnoted
    /\ Goto("cleaned")
    /\ UNCHANGED <<unraid, files, key, target, made, count>>

\* A failure after the start: what this install noted is removed, a key that was there stays.
Clean ==
    /\ At("clean")
    /\ box' = [r \in DOMAIN box |-> 0] /\ up' = {}
    /\ tpl' = Unnoted
    /\ key' = (key /\ op.keyed)
    /\ Goto("cleaned")
    /\ UNCHANGED <<unraid, files, target, made, count>>

SaveCleaned ==
    /\ At("cleaned")
    /\ attempt' = [status |-> "cleaned", id |-> op.id]
    /\ op' = Raised(op, "install")
    /\ UNCHANGED <<unraid, state, history, stray, docker, data, made, count>>

SaveCleanupFailed ==
    /\ At("cleanup_failed")
    /\ attempt' = [status |-> "cleanup-failed", id |-> op.id]
    /\ op' = Raised(op, "install")
    /\ UNCHANGED <<unraid, state, history, stray, docker, data, made, count>>

----------------------------------------------------------------------------
(* adopt                                                                    *)

\* Both containers run with one install id on their labels.
RuntimeOf(id) == id # 0 /\ up = Roles /\ \A r \in DOMAIN box : box[r] = id

ComposeAdoptable == state = None /\ RuntimeOf(box["api"])

UnraidAdoptable == state = None /\ RuntimeOf(box["api"]) /\ TemplateThere

Adopt ==
    /\ At("adopt")
    /\ IF (IF unraid THEN UnraidAdoptable ELSE ComposeAdoptable) /\ ValidDestination
         THEN /\ state' = Installed("adopted", box["api"])
              /\ op' = Returned(op, "adopt")
         ELSE /\ op' = Raised(op, "adopt")
              /\ UNCHANGED state
    /\ UNCHANGED <<unraid, attempt, history, stray, docker, data, made, count>>

----------------------------------------------------------------------------
(* uninstall                                                                *)

\* _verify_owned_runtime and the templates: a retry tolerates what is missing.
Owned ==
    LET missing(r) == r \in state.gone \/ state.status = "uninstalling"
    IN  /\ \A r \in DOMAIN box : box[r] = state.id \/ (box[r] = 0 /\ missing(r))
        /\ unraid => TemplateThere \/ missing("tpl")

VerifyOwned ==
    /\ At("owned")
    /\ op' = IF state = None THEN Raised(op, "uninstall")
             ELSE IF state.status \in {"uninstalled", "rolled_back"} THEN Returned(op, "uninstall")
             ELSE IF Owned THEN [op EXCEPT !.pc = "uninstalling"]
             ELSE Raised(op, "uninstall")
    /\ UNCHANGED <<unraid, files, docker, data, made, count>>

SaveUninstalling ==
    /\ At("uninstalling")
    /\ state' = [state EXCEPT !.status = "uninstalling"]
    /\ op' = [op EXCEPT !.pc = "halt", !.res = "proxy"]
    /\ UNCHANGED <<unraid, attempt, history, stray, docker, data, made, count>>

\* stop_container, for one of the two containers.
Halt ==
    /\ At("halt")
    /\ up' = up \ {op.res}
    /\ Goto("take")
    /\ UNCHANGED <<unraid, files, box, data, made, count>>

\* The resource that follows another one, and where its removal begins.
After(r) ==
    CASE r = "proxy" -> <<"halt", "api">>
      [] r = "api" -> <<"take", IF "key" \in state.gone THEN "net" ELSE "key">>
      [] r = "key" -> <<"take", "net">>
      [] r = "net" /\ unraid -> <<"take", "tpl">>
      [] OTHER -> <<"uninstalled", "none">>

\* A container, the network or the templates are removed, if they are there.
TakeResource ==
    /\ At("take") /\ op.res # "key"
    /\ box' = [r \in DOMAIN box |-> IF r = op.res THEN 0 ELSE box[r]]
    /\ tpl' = IF op.res = "tpl" THEN "none" ELSE tpl
    /\ Goto("mark")
    /\ UNCHANGED <<unraid, files, up, key, target, made, count>>

\* The session key must be there, because nothing says that it was removed.
TakeKey ==
    /\ At("take") /\ op.res = "key"
    /\ key' = FALSE
    /\ op' = IF key THEN [op EXCEPT !.pc = "mark"] ELSE Raised(op, "uninstall")
    /\ UNCHANGED <<unraid, files, docker, tpl, target, made, count>>

Mark ==
    /\ At("mark")
    /\ state' = [state EXCEPT !.gone = @ \cup {op.res}]
    /\ op' = [op EXCEPT !.pc = After(op.res)[1], !.res = After(op.res)[2]]
    /\ UNCHANGED <<unraid, attempt, history, stray, docker, data, made, count>>

SaveUninstalled ==
    /\ At("uninstalled")
    /\ state' = [state EXCEPT !.status = "uninstalled"]
    /\ op' = Returned(op, "uninstall")
    /\ UNCHANGED <<unraid, attempt, history, stray, docker, data, made, count>>

----------------------------------------------------------------------------
(* Failures                                                                 *)

\* The procedure that a step belongs to.
Proc(pc) ==
    CASE pc \in {"owned", "uninstalling", "halt", "take", "mark", "uninstalled"} -> "uninstall"
      [] pc = "adopt" -> "adopt"
      [] OTHER -> "install"

\* Where an exception in an install leads.
InstallHandler(o) ==
    CASE o.pc = "stage" \/ (o.pc = "starting" /\ ~unraid) -> [o EXCEPT !.pc = "unstage"]
      [] o.pc \in {"net", "api", "proxy", "verify", "templates", "archive", "commit"}
           \/ (o.pc = "starting" /\ unraid) -> [o EXCEPT !.pc = "clean"]
      [] o.pc \in {"unstage", "clean", "cleaned"} -> [o EXCEPT !.pc = "cleanup_failed"]
      [] OTHER -> Raised(o, "install")

(* A step of install, adopt or uninstall raises.  A save may have taken    *)
(* place, the clean-up may have removed a part, and of the two templates   *)
(* the last to be written may be there without having been noted.          *)
RaiseDeployment ==
    /\ count.faults < MaxFaults
    /\ count' = [count EXCEPT !.faults = @ + 1]
    /\ op' = IF Proc(op.pc) = "install" THEN InstallHandler(op) ELSE Raised(op, Proc(op.pc))
    /\ attempt' \in {attempt} \cup
           (CASE At("attempt") -> {[status |-> "prepared", id |-> made + 1]}
              [] At("starting") -> {[attempt EXCEPT !.status = "starting"]}
              [] At("unstage") -> {op.retry}
              [] At("cleaned") -> {[status |-> "cleaned", id |-> op.id]}
              [] At("unattempt") -> {None}
              [] OTHER -> {})
    /\ made' = IF At("attempt") THEN made + 1 ELSE made
    /\ state' \in {state} \cup
           (CASE At("commit") -> {Installed("installed", op.id)}
              [] At("uninstalling") -> {[state EXCEPT !.status = "uninstalling"]}
              [] At("mark") -> {[state EXCEPT !.gone = @ \cup {op.res}]}
              [] At("uninstalled") -> {[state EXCEPT !.status = "uninstalled"]}
              [] OTHER -> {})
    /\ \E left \in IF At("clean") THEN SUBSET DOMAIN box ELSE {DOMAIN box} :
           /\ box' = [r \in DOMAIN box |-> IF r \in left THEN box[r] ELSE 0]
           /\ up' = up \cap left
    /\ tpl' \in {tpl} \cup (CASE At("templates") -> {"kept", "lost"}
                              [] At("clean") -> {Unnoted}
                              [] OTHER -> {})
    /\ UNCHANGED <<unraid, history, stray, key, target>>

\* The steps that save a file, whose temporary file a killed process leaves.
Saves == {"attempt", "stage", "starting", "commit", "unstage", "cleaned", "cleanup_failed", "adopt",
          "uninstalling", "mark", "uninstalled", "journal", "complete", "failed_save",
          "installed", "recover", "roll_state", "roll_journal", "rollback_failed"}

\* The command's process or the host stops; the containers restart by their policy.
StopDeployment ==
    /\ ~At("idle") /\ count.stops < MaxStops
    /\ count' = [count EXCEPT !.stops = @ + 1]
    /\ op' = Idle
    /\ stray' \in IF op.pc \in Saves /\ state = None THEN {stray, TRUE} ELSE {stray}
    /\ UNCHANGED <<unraid, state, attempt, history, docker, data, made>>

\* A reader uses the service: the API writes to its data.
ApiWrites ==
    /\ "api" \in up /\ count.writes < MaxWrites
    /\ target' = [target EXCEPT !.v = @ + 1]
    /\ count' = [count EXCEPT !.writes = @ + 1]
    /\ UNCHANGED <<unraid, files, docker, tpl, key, made, op>>

DeploymentStep ==
    \/ InstallPreflight \/ SaveAttempt \/ Stage \/ Starting \/ CreateNetwork \/ StartApi
    \/ StartProxy \/ Verify \/ CopyTemplates \/ Archive \/ Commit \/ RemoveAttempt
    \/ Unstage \/ Clean \/ SaveCleaned \/ SaveCleanupFailed
    \/ Adopt
    \/ VerifyOwned \/ SaveUninstalling \/ Halt \/ TakeResource \/ TakeKey \/ Mark
    \/ SaveUninstalled
=============================================================================
