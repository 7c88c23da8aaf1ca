------------------------------ MODULE Migration ------------------------------
(***************************************************************************)
(* The upgrade of a combined v2.1.4 runtime to the split deployment, and   *)
(* its rollback (LegacyUpgrade of btctl_lifecycle.py), composed with the   *)
(* installer, the adopter and the uninstaller of Deployment.               *)
(*                                                                         *)
(* The upgrade stops the legacy container, snapshots its data, copies the  *)
(* snapshot to the target, and installs; a journal (migration-v214.json)   *)
(* keeps the evidence that a retry and the rollback need.  The rollback    *)
(* uninstalls and starts the untouched legacy container again.             *)
(*                                                                         *)
(* Data is a version: the legacy data counts its writes, a snapshot is the *)
(* number it was taken at, the target the snapshot it began with and its   *)
(* own writes.  Snapshot and target are copied to a work tree and renamed, *)
(* one step each; the numbered names that keep old snapshots apart are     *)
(* left out.  A deployment starts with a legacy container, and then the    *)
(* commands are upgrade and rollback, or without one, and then they are    *)
(* install, adopt and uninstall.                                           *)
(***************************************************************************)
EXTENDS Deployment

CONSTANT MaxGoals

\* The legacy container, and the document of migration-v214.json.
Legacies == [up : BOOLEAN, data : Nat]
JournalsWith(priors) ==
    [status : {"prepared", "snapshot-complete", "upgrade-failed", "reupgrade-failed", "upgraded",
               "upgrade-journal-failed", "rolled_back", "rollback-failed"},
     id : Nat, was : BOOLEAN, snap : Nat \cup {None}, kept : {"none", "verified", "unavailable"},
     target : Targets \cup {None}, prior : priors]
Priors   == JournalsWith({None})
Journals == JournalsWith(Priors \cup {None})

\* None is the absence of a file or a container.
ASSUME MigrationAssumption ==
    MaxGoals \in Nat /\ None \notin Legacies /\ None \notin Priors /\ None \notin Journals

VARIABLES
    legacy,     \* the legacy container and its data, or None
    journal,    \* migration-v214.json
    goal,       \* what the operator wants
    goals       \* goals so far

world == <<goal, goals>>
vars == <<unraid, files, docker, data, made, op, count, legacy, journal, world>>

Init ==
    /\ InitDeployment
    /\ legacy \in {None} \cup [up : BOOLEAN, data : {0}]
    /\ journal = None
    /\ goal = IF legacy = None THEN "install" ELSE "upgrade"
    /\ goals = 0

\* The commands that serve a goal.
Commands(g) == IF g = "install" THEN {"install", "adopt"} ELSE {g}

\* The command begins: the operation lock is free.
Begin(c) ==
    /\ At("idle") /\ c \in Commands(goal)
    /\ op' = [Idle EXCEPT !.cmd = c,
                          !.pc = CASE c = "install" -> "preflight" [] c = "adopt" -> "adopt"
                                   [] c = "uninstall" -> "owned" [] c = "upgrade" -> "check"
                                   [] OTHER -> "roll_check"]
    /\ UNCHANGED <<unraid, files, docker, data, made, count, legacy, journal, world>>

----------------------------------------------------------------------------
(* upgrade                                                                  *)

\* _verify_recorded_target: the preserved data is what the rollback captured.
TargetMatches(j) == j.kept = "verified" /\ target = j.target

RuntimePresent == \E r \in DOMAIN box : box[r] # 0

\* _recover_journal_only_runtime: what is asked for before an adoption.
Adoptable == journal.status = "snapshot-complete" /\ ~legacy.up /\ target # None

\* _validated_prior_rollback: the evidence that a re-upgrade starts from.
Evidence == IF journal.status = "rolled_back" THEN journal ELSE journal.prior

\* What the state and the journal on disk make of the command.
Check ==
    /\ At("check")
    /\ LET prepare(re, prev, retry) ==
             [op EXCEPT !.pc = IF retry THEN "preserve" ELSE "journal", !.re = re, !.prev = prev,
                        !.restart = legacy.up \/ (prev # None /\ prev.was)]
       IN op' =
         IF journal = None THEN IF state = None THEN prepare(FALSE, None, FALSE) ELSE Idle
         ELSE IF state = None THEN
           IF journal.status \notin {"prepared", "snapshot-complete", "upgrade-failed"} THEN Idle
           ELSE IF RuntimePresent THEN IF Adoptable THEN [op EXCEPT !.pc = "adopt"] ELSE Idle
           ELSE prepare(FALSE, journal, TRUE)
         ELSE IF Active /\ journal.status \in {"snapshot-complete", "upgrade-journal-failed", "upgraded"}
           THEN [op EXCEPT !.pc = "recover"]
         ELSE IF /\ state.status = "rolled_back"
                 /\ journal.status \in {"rolled_back", "prepared", "snapshot-complete", "reupgrade-failed"}
                 /\ CompletedUninstall(TRUE)
                 /\ Evidence # None /\ TargetMatches(Evidence)
           THEN prepare(TRUE, journal, journal.status # "rolled_back")
         ELSE Idle
    /\ UNCHANGED <<unraid, files, docker, data, made, count, legacy, journal, world>>

\* DeploymentDoctor.run: the recorded runtime is there and runs.
Healthy == Active /\ RuntimeOf(state.id) /\ key /\ (unraid => TemplateThere)

\* _recover_active_upgrade: an active deployment is verified and its journal completed.
RecoverActive ==
    /\ At("recover")
    /\ journal' = IF /\ Active /\ journal.id \in {0, state.id} /\ ~legacy.up /\ Healthy
                     /\ journal.status # "upgraded"
                    THEN [journal EXCEPT !.status = "upgraded", !.id = state.id]
                    ELSE journal
    /\ op' = Idle
    /\ UNCHANGED <<unraid, files, docker, data, made, count, legacy, world>>

\* Variant: every retry moves the target aside.
PreserveAll ==
    /\ At("preserve")
    /\ target' = None
    /\ Goto("journal")
    /\ UNCHANGED <<unraid, files, docker, tpl, key, made, count, legacy, journal, world>>

\* _prepare_failed_upgrade_retry: a target that was never committed is moved aside.
Preserve ==
    /\ At("preserve")
    /\ target' = IF op.re THEN target ELSE None
    /\ Goto("journal")
    /\ UNCHANGED <<unraid, files, docker, tpl, key, made, count, legacy, journal, world>>

\* A retry is being made, so a failure of its preparation starts the legacy service again.
Retrying == op.prev # None /\ op.prev.status # "rolled_back"

PrepareFails == IF op.restart /\ Retrying THEN [op EXCEPT !.pc = "unprepare"] ELSE Idle

\* The evidence is kept in the next journal; what it kept itself is read by nobody.
NewJournal ==
    [status |-> "prepared", id |-> 0, was |-> op.restart, snap |-> None,
     kept |-> "none", target |-> None,
     prior |-> IF op.re THEN [Evidence EXCEPT !.prior = None] ELSE None]

\* _prepare_upgrade_attempt: the preflight of the installer, then the journal.
PrepareAttempt ==
    /\ At("journal")
    /\ IF Preflight(op.re, op.re) /\ (op.re \/ target = None)
         THEN /\ journal' = NewJournal
              /\ op' = [op EXCEPT !.pc = "stop_legacy", !.jr = NewJournal]
         ELSE /\ op' = PrepareFails
              /\ UNCHANGED journal
    /\ UNCHANGED <<unraid, files, docker, data, made, count, legacy, world>>

StopLegacy ==
    /\ At("stop_legacy")
    /\ legacy' = [legacy EXCEPT !.up = FALSE]
    /\ Goto("snapshot")
    /\ UNCHANGED <<unraid, files, docker, data, made, count, journal, world>>

\* Variant: a re-upgrade goes on with the snapshot of the first upgrade.
SnapshotReused ==
    /\ At("snapshot")
    /\ op' = [op EXCEPT !.pc = "copy",
                        !.jr.snap = IF op.re THEN op.jr.prior.snap ELSE legacy.data]
    /\ UNCHANGED <<unraid, files, docker, data, made, count, legacy, journal, world>>

Snapshot ==
    /\ At("snapshot")
    /\ op' = [op EXCEPT !.pc = "copy", !.jr.snap = legacy.data]
    /\ UNCHANGED <<unraid, files, docker, data, made, count, legacy, journal, world>>

\* The snapshot is copied to the target; a re-upgrade keeps its target.
CopyTarget ==
    /\ At("copy")
    /\ target' = IF op.re THEN target ELSE [from |-> op.jr.snap, v |-> 0]
    /\ Goto("complete")
    /\ UNCHANGED <<unraid, files, docker, tpl, key, made, count, legacy, journal, world>>

SnapshotComplete ==
    /\ At("complete")
    /\ journal' = [op.jr EXCEPT !.status = "snapshot-complete", !.target = target]
    /\ op' = [op EXCEPT !.pc = "preflight", !.jr = journal']
    /\ UNCHANGED <<unraid, files, docker, data, made, count, legacy, world>>

SaveUpgraded ==
    /\ At("installed")
    /\ journal' = [op.jr EXCEPT !.status = "upgraded", !.id = state.id]
    /\ op' = Idle
    /\ UNCHANGED <<unraid, files, docker, data, made, count, legacy, world>>

\* _restore_legacy_service: never beside a v2 container that runs.
Restorable == up = {}

RestoreLegacy(o) ==
    /\ legacy' = IF Restorable THEN [legacy EXCEPT !.up = TRUE] ELSE legacy
    /\ op' = o

\* A failed preparation of a retry.
Unprepare ==
    /\ At("unprepare")
    /\ RestoreLegacy(Idle)
    /\ UNCHANGED <<unraid, files, docker, data, made, count, journal, world>>

\* The handler of upgrade, for what failed before the target was installed.
UpgradeFailed ==
    /\ At("failed")
    /\ LET o == [op EXCEPT !.pc = "failed_save",
                           !.jr.status = IF op.re THEN "reupgrade-failed" ELSE "upgrade-failed"]
       IN IF op.restart THEN RestoreLegacy(o) ELSE op' = o /\ UNCHANGED legacy
    /\ UNCHANGED <<unraid, files, docker, data, made, count, journal, world>>

SaveFailed ==
    /\ At("failed_save")
    /\ journal' = op.jr
    /\ op' = Idle
    /\ UNCHANGED <<unraid, files, docker, data, made, count, legacy, world>>

----------------------------------------------------------------------------
(* rollback                                                                 *)

\* The journal and the state allow a rollback.
Eligible ==
    \/ /\ journal.status \in {"snapshot-complete", "upgrade-journal-failed"}
       /\ Active /\ journal.id \in {0, state.id}
    \/ journal.status \in {"upgraded", "rollback-failed"}

\* The legacy data is stopped and as it was when the snapshot was taken.
SourceUnchanged ==
    state.status \notin {"uninstalled", "rolled_back"} =>
        ~legacy.up /\ legacy.data = journal.snap

RollbackCheck ==
    /\ At("roll_check")
    /\ op' = IF journal = None \/ state = None THEN Idle
             ELSE IF journal.status = "rolled_back" THEN
               IF state.status = "rolled_back" THEN [op EXCEPT !.pc = "roll_again"] ELSE Idle
             ELSE IF Eligible /\ SourceUnchanged /\ journal.snap # None
               THEN [op EXCEPT !.pc = "owned", !.jr = journal]
             ELSE Idle
    /\ UNCHANGED <<unraid, files, docker, data, made, count, legacy, journal, world>>

\* A rollback that is complete starts the legacy service once more.
RollbackAgain ==
    /\ At("roll_again")
    /\ RestoreLegacy(Idle)
    /\ UNCHANGED <<unraid, files, docker, data, made, count, journal, world>>

RollbackRestore ==
    /\ At("restore")
    /\ RestoreLegacy([op EXCEPT !.pc = IF Restorable THEN "roll_state" ELSE "rollback_failed"])
    /\ UNCHANGED <<unraid, files, docker, data, made, count, journal, world>>

\* _capture_target_status, then the state: preserved data may turn out unusable.
RollbackState ==
    /\ At("roll_state")
    /\ \E kept \in {"verified", "unavailable"} :
           op' = [op EXCEPT !.pc = "roll_journal", !.jr.kept = kept, !.jr.target = target,
                            !.jr.status = "rolled_back"]
    /\ state' = [state EXCEPT !.status = "rolled_back"]
    /\ UNCHANGED <<unraid, attempt, history, stray, docker, data, made, count, legacy, journal, world>>

RollbackJournal ==
    /\ At("roll_journal")
    /\ journal' = op.jr
    /\ op' = Idle
    /\ UNCHANGED <<unraid, files, docker, data, made, count, legacy, world>>

RollbackFailed ==
    /\ At("rollback_failed")
    /\ journal' = [op.jr EXCEPT !.status = "rollback-failed"]
    /\ op' = Idle
    /\ UNCHANGED <<unraid, files, docker, data, made, count, legacy, world>>

----------------------------------------------------------------------------
(* Failures                                                                 *)

\* Where an exception in upgrade or rollback leads.
MigrationHandler ==
    CASE At("preserve") \/ At("journal") -> PrepareFails
      [] op.pc \in {"stop_legacy", "snapshot", "copy", "complete"} -> [op EXCEPT !.pc = "failed"]
      [] At("installed") -> [op EXCEPT !.pc = "failed_save", !.jr.status = "upgrade-journal-failed"]
      [] op.pc \in {"restore", "roll_state", "roll_journal"} -> [op EXCEPT !.pc = "rollback_failed"]
      [] OTHER -> Idle

MigrationPcs == {"check", "recover", "preserve", "journal", "unprepare", "stop_legacy", "snapshot",
                 "copy", "complete", "installed", "failed_save", "roll_check", "roll_again",
                 "restore", "roll_state", "roll_journal", "rollback_failed"}

\* The legacy service cannot be started in the handler: the journal is saved all the same.
RaiseInHandler ==
    /\ At("failed") /\ count.faults < MaxFaults
    /\ count' = [count EXCEPT !.faults = @ + 1]
    /\ op' = [op EXCEPT !.pc = "failed_save",
                        !.jr.status = IF op.re THEN "reupgrade-failed" ELSE "upgrade-failed"]
    /\ UNCHANGED <<unraid, files, docker, data, made, legacy, journal, world>>

\* A step of upgrade or rollback raises; what it saves may have been saved.
RaiseMigration ==
    /\ op.pc \in MigrationPcs /\ count.faults < MaxFaults
    /\ count' = [count EXCEPT !.faults = @ + 1]
    /\ op' = MigrationHandler
    /\ journal' \in {journal} \cup
           (CASE At("journal") /\ Preflight(op.re, op.re) /\ (op.re \/ target = None) -> {NewJournal}
              [] At("complete") -> {[op.jr EXCEPT !.status = "snapshot-complete", !.target = target]}
              [] At("installed") -> {[op.jr EXCEPT !.status = "upgraded", !.id = state.id]}
              [] At("roll_journal") -> {op.jr}
              [] OTHER -> {})
    /\ state' \in {state} \cup
           (IF At("roll_state") THEN {[state EXCEPT !.status = "rolled_back"]} ELSE {})
    /\ UNCHANGED <<unraid, attempt, history, stray, docker, data, made, legacy, world>>

Raise ==
    \/ RaiseMigration \/ RaiseInHandler
    \/ /\ op.pc \notin MigrationPcs \cup {"idle", "failed"}
       /\ RaiseDeployment
       /\ UNCHANGED <<legacy, journal, world>>

Stop == StopDeployment /\ UNCHANGED <<legacy, journal, world>>

LegacyWrites ==
    /\ legacy # None /\ count.writes < MaxWrites
    /\ legacy.up
    /\ legacy' = [legacy EXCEPT !.data = @ + 1]
    /\ count' = [count EXCEPT !.writes = @ + 1]
    /\ UNCHANGED <<unraid, files, docker, data, made, op, journal, world>>

----------------------------------------------------------------------------
\* The goal is reached.
Reached ==
    CASE goal = "install" -> Active /\ Healthy /\ attempt = None
      [] goal = "uninstall" -> state # None /\ state.status = "uninstalled"
      [] goal = "upgrade" -> Active /\ Healthy /\ journal # None /\ journal.status = "upgraded"
      [] OTHER -> /\ state # None /\ state.status = "rolled_back"
                  /\ journal.status = "rolled_back" /\ legacy.up

\* The operator wants something else once the last goal is reached.
Want ==
    /\ At("idle") /\ Reached /\ goals < MaxGoals
    /\ goals' = goals + 1
    /\ goal' = CASE goal = "install" -> "uninstall" [] goal = "uninstall" -> "install"
                 [] goal = "upgrade" -> "rollback" [] OTHER -> "upgrade"
    /\ UNCHANGED <<unraid, files, docker, data, made, op, count, legacy, journal>>

MigrationStep ==
    \/ Check \/ RecoverActive \/ Preserve \/ PrepareAttempt \/ StopLegacy \/ Snapshot
    \/ CopyTarget \/ SnapshotComplete \/ SaveUpgraded \/ Unprepare \/ UpgradeFailed \/ SaveFailed
    \/ RollbackCheck \/ RollbackAgain \/ RollbackRestore \/ RollbackState \/ RollbackJournal
    \/ RollbackFailed

Step ==
    \/ MigrationStep
    \/ DeploymentStep /\ UNCHANGED <<legacy, journal, world>>

Next ==
    \/ \E c \in {"install", "adopt", "uninstall", "upgrade", "rollback"} : Begin(c)
    \/ Step \/ Raise \/ Stop \/ Want \/ LegacyWrites
    \/ ApiWrites /\ UNCHANGED <<legacy, journal, world>>

Spec == Init /\ [][Next]_vars

\* A command runs on, and the operator gives the commands for the goal again and again.
FairSpec ==
    /\ Spec /\ WF_vars(Step)
    /\ \A c \in {"install", "adopt", "uninstall", "upgrade", "rollback"} : SF_vars(Begin(c))

----------------------------------------------------------------------------
(* Properties                                                               *)

(* Whenever the upgraded API can write, the legacy service is stopped, the *)
(* journal on disk names a snapshot, and the legacy data is still what     *)
(* that snapshot holds: one runtime writes, and the rollback that compares *)
(* the two is possible.                                                    *)
RollbackReady ==
    legacy # None /\ "api" \in up =>
        ~legacy.up /\ journal # None /\ journal.snap = legacy.data

(* Whatever is killed or fails, every container, network and session key   *)
(* that a command has made, and every template that it has noted, belongs  *)
(* to a deployment that is not uninstalled yet or to an install attempt    *)
(* that says so.  A template whose writing raised after the rename is the  *)
(* exception: no command knows of it.                                      *)
NoOrphans ==
    LET claimed(id) ==
          \/ state # None /\ state.id = id /\ state.status \notin {"uninstalled", "rolled_back"}
          \/ attempt # None /\ attempt.id = id /\ attempt.status \in {"starting", "cleanup-failed"}
        marked(r) == state # None /\ state.status = "uninstalling" /\ r \in state.gone
    IN  /\ \A r \in DOMAIN box : box[r] # 0 => claimed(box[r]) /\ ~marked(r)
        /\ key => \E id \in 1 .. made : claimed(id)
        /\ tpl = "kept" => (\E id \in 1 .. made : claimed(id)) /\ ~marked("tpl")

(* Data that an installed deployment has written is never replaced: once   *)
(* it was committed the target only grows, through rollback, re-upgrade    *)
(* and its retries.                                                        *)
TargetKept ==
    [][state # None => target' \in {target, [target EXCEPT !.v = @ + 1]}]_vars

(* What the commands refuse to go on with, and an operator has to look     *)
(* into.  docs/operations/lifecycle.md promises that an interrupted        *)
(* cutover and an install that cleaned up can be given again; the          *)
(* unfinished install, the undone commit and the lost template are cases   *)
(* in which the code does not keep that promise.                           *)
DeadEnd ==
    \/ attempt # None /\ attempt.status # "cleaned"               \* an unfinished install
    \/ stray /\ state = None                                      \* a file of a killed save
    \/ Active /\ ~RuntimeOf(state.id)                             \* a commit that was undone
    \/ /\ legacy # None /\ Active                                  \* a commit taken for a failure
       /\ journal.status \in {"upgrade-failed", "reupgrade-failed"}
    \/ tpl = "lost" /\ ~RuntimePresent                            \* a template nobody noted
    \/ /\ state # None /\ state.status = "uninstalling"           \* a key removed, not marked
       /\ ~key /\ "key" \notin state.gone
    \/ /\ goal = "upgrade" /\ state # None /\ state.status = "rolled_back"
       /\ ~TargetMatches(Evidence)                                \* data changed or unusable

(* A command that is given again after a failure, or after it was killed,  *)
(* reaches its goal in the end, unless a dead end named above was met.     *)
Converges == <>[](At("idle") => Reached \/ DeadEnd)
=============================================================================
