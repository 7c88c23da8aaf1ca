----------------------------- MODULE Reconfigure -----------------------------
(***************************************************************************)
(* btctl reconfigure (btctl_reconfigure.py): the API container of a        *)
(* deployment is replaced by one with other providers.                     *)
(*                                                                         *)
(* The command snapshots the old and the new private environment, writes a *)
(* journal, replaces the container, probes it, and publishes the new       *)
(* deployment state; then it removes snapshots and journal.  A failure     *)
(* puts the old environment back.  A process that is killed leaves the     *)
(* journal behind, and the next run of the command recovers from it.       *)
(*                                                                         *)
(* The operation lock lets one command at a time run and dies with its     *)
(* process, so there is one actor.  Files are replaced atomically, each    *)
(* write is one step, and so is each Docker command.  An environment is a  *)
(* model value; environments that differ in credentials only have the same *)
(* fingerprint.  What a deployment never changes here (identity, image,    *)
(* proxy, networks, Compose document) is left out.                         *)
(***************************************************************************)
EXTENDS Naturals

CONSTANTS
    Envs,           \* private API environments
    Fingerprint,    \* environment -> config_fingerprint of its plan
    Installed,      \* the environment that was installed first
    MaxGoals, MaxStops, MaxFaults,      \* bounds
    None

Fingerprints == {Fingerprint[e] : e \in Envs}

\* A container, its environment read back by inspection.
Containers == [id : Nat, env : Envs]

\* The document of reconfigure.json.
Journals ==
    [status : {"prepared", "replacing", "verified", "rolling-back", "rollback-failed"},
     oldfp : Fingerprints, newfp : Fingerprints, oldsnap : Envs, newsnap : Envs,
     oldid : Nat, newid : Nat \cup {None}]

\* None is the absence of a file, a container or an id.
ASSUME ReconfigureAssumption ==
    /\ Installed \in Envs
    /\ None \notin Envs /\ None \notin Nat /\ None \notin Containers /\ None \notin Journals
    /\ MaxGoals \in Nat /\ MaxStops \in Nat /\ MaxFaults \in Nat

VARIABLES
    unraid,     \* install_profile: Unraid, or Compose
    active,     \* api.env
    old,        \* api.env.reconfigure-old
    new,        \* api.env.reconfigure-new
    journal,    \* reconfigure.json
    state,      \* state.json: fingerprint and API container id
    api,        \* the API container
    made,       \* containers made so far
    op,         \* the command at work
    wanted,     \* the environment that the operator asks for
    count,      \* goals, stops and faults so far
    good        \* history: the environment of the state published last

files == <<active, old, new, journal, state>>
world == <<unraid, wanted, good>>
vars  == <<files, api, made, op, count, world>>

\* No command is at work.
Idle == [pc |-> "idle", mode |-> "none", st |-> None, jr |-> None, env |-> None, cur |-> None]

Init ==
    /\ unraid \in BOOLEAN
    /\ active = Installed /\ old = None /\ new = None /\ journal = None
    /\ state = [fp |-> Fingerprint[Installed], id |-> 1]
    /\ api = [id |-> 1, env |-> Installed] /\ made = 1
    /\ op = Idle
    /\ wanted = Installed
    /\ count = [goals |-> 0, stops |-> 0, faults |-> 0]
    /\ good = Installed

Goto(pc) == op' = [op EXCEPT !.pc = pc]

----------------------------------------------------------------------------
(* Starting the command, and recovery                                       *)

\* The operator asks for other providers.
Want(e) ==
    /\ op.pc = "idle" /\ count.goals < MaxGoals /\ e # wanted
    /\ wanted' = e
    /\ count' = [count EXCEPT !.goals = @ + 1]
    /\ UNCHANGED <<files, api, made, op, unraid, good>>

\* The command is given, or given again.
Begin ==
    /\ op.pc = "idle"
    /\ op' = [Idle EXCEPT !.pc = IF journal = None THEN "load" ELSE "recover"]
    /\ UNCHANGED <<files, api, made, count, world>>

\* The evidence that _recover_if_needed asks for before it does anything.
Evidence ==
    /\ journal.newfp = Fingerprint[wanted]
    /\ state.fp \in {journal.oldfp, journal.newfp}
    /\ old = journal.oldsnap /\ new = journal.newsnap

\* The state of the new container was published before the command ended.
Committed ==
    /\ journal.status = "verified" /\ journal.newid # None
    /\ state.id = journal.newid /\ state.fp = Fingerprint[wanted]

\* Nothing has been published since the journal was written.
Untouched == state.fp = journal.oldfp /\ state.id = journal.oldid

\* Variant: the published container is known by its id alone.
CommittedIdOnly == api # None /\ api.id = journal.newid

\* The published container runs with what is asked for.
CommittedLive == api # None /\ api.id = journal.newid /\ api.env = wanted

\* Variant: a committed cutover is taken as it is, with its journal.
RecoverReturns ==
    /\ op.pc = "recover"
    /\ op' = IF Evidence /\ ~Committed /\ Untouched
               THEN [op EXCEPT !.pc = "journal", !.mode = "recover", !.st = state,
                               !.jr = [journal EXCEPT !.status = "rolling-back"],
                               !.env = old]
             ELSE Idle
    /\ UNCHANGED <<files, api, made, count, world>>

\* A committed cutover is probed again and cleaned up, another one rolled back.
Recover ==
    /\ op.pc = "recover"
    /\ op' = IF Evidence /\ Committed /\ CommittedLive
               THEN [op EXCEPT !.pc = "probe_again", !.mode = "finish"]
             ELSE IF Evidence /\ ~Committed /\ Untouched
               THEN [op EXCEPT !.pc = "journal", !.mode = "recover", !.st = state,
                               !.jr = [journal EXCEPT !.status = "rolling-back"],
                               !.env = old]
             ELSE Idle
    /\ UNCHANGED <<files, api, made, count, world>>

\* probe_providers and the reader and database probes of a committed cutover.
ProbeAgain ==
    /\ op.pc = "probe_again"
    /\ good' = wanted
    /\ Goto("clean_old")
    /\ UNCHANGED <<files, api, made, count, unraid, wanted>>

----------------------------------------------------------------------------
(* Preparation                                                              *)

\* _load_current: the live container is the published one, and there is a change.
LoadCurrent ==
    /\ op.pc = "load"
    /\ op' = IF /\ api # None /\ api.id = state.id /\ api.env = active
                /\ wanted # active
               THEN [Idle EXCEPT !.pc = "snapshot_old", !.mode = "forward", !.st = state,
                                 !.cur = active, !.env = wanted]
               ELSE Idle
    /\ UNCHANGED <<files, api, made, count, world>>

\* Variant: the old environment is left to the active file.
SnapshotOldSkipped ==
    /\ op.pc = "snapshot_old"
    /\ Goto("snapshot_new")
    /\ UNCHANGED <<files, api, made, count, world>>

SnapshotOld ==
    /\ op.pc = "snapshot_old"
    /\ old' = op.cur
    /\ Goto("snapshot_new")
    /\ UNCHANGED <<active, new, journal, state, api, made, count, world>>

SnapshotNew ==
    /\ op.pc = "snapshot_new"
    /\ new' = op.env
    /\ Goto("prepare")
    /\ UNCHANGED <<active, old, journal, state, api, made, count, world>>

\* The journal is written, first as prepared, then (Journal) as replacing.
Prepare ==
    /\ op.pc = "prepare"
    /\ journal' = [status |-> "prepared", oldfp |-> state.fp, newfp |-> Fingerprint[wanted],
                   oldsnap |-> op.cur, newsnap |-> op.env, oldid |-> api.id, newid |-> None]
    /\ op' = [op EXCEPT !.pc = "journal", !.jr = [journal' EXCEPT !.status = "replacing"]]
    /\ UNCHANGED <<active, old, new, state, api, made, count, world>>

----------------------------------------------------------------------------
(* The replacement of the container, forward or back                        *)

Journal ==
    /\ op.pc = "journal"
    /\ journal' = op.jr
    /\ Goto(IF unraid THEN "remove" ELSE "write")
    /\ UNCHANGED <<active, old, new, state, api, made, count, world>>

\* _remove_owned_api, on Unraid.
Remove ==
    /\ op.pc = "remove"
    /\ api' = None
    /\ Goto("write")
    /\ UNCHANGED <<files, made, count, world>>

WriteActive ==
    /\ op.pc = "write"
    /\ active' = op.env
    /\ Goto("create")
    /\ UNCHANGED <<old, new, journal, state, api, made, count, world>>

\* create_container, or compose_recreate_service, from the active environment.
Create ==
    /\ op.pc = "create"
    /\ made' = made + 1
    /\ api' = [id |-> made', env |-> active]
    /\ Goto("probe")
    /\ UNCHANGED <<files, count, world>>

\* The container is healthy, every probe and _verify_api pass.
Probe ==
    /\ op.pc = "probe"
    /\ op' = IF op.mode = "forward"
               THEN [op EXCEPT !.pc = "verified", !.jr.status = "verified", !.jr.newid = api.id]
               ELSE [op EXCEPT !.pc = "publish"]
    /\ UNCHANGED <<files, api, made, count, world>>

Verified ==
    /\ op.pc = "verified"
    /\ journal' = op.jr
    /\ Goto("publish")
    /\ UNCHANGED <<active, old, new, state, api, made, count, world>>

\* Variant: a rollback forgets that the restored container has another id.
NextStateKeepsId ==
    [fp |-> IF op.mode = "forward" THEN Fingerprint[wanted] ELSE op.st.fp,
     id |-> IF op.mode = "forward" THEN api.id ELSE op.st.id]

\* The deployment state that the command publishes.
NextState ==
    [fp |-> IF op.mode = "forward" THEN Fingerprint[wanted] ELSE op.st.fp, id |-> api.id]

Publish ==
    /\ op.pc = "publish"
    /\ state' = NextState
    /\ good' = op.env
    /\ Goto("clean_old")
    /\ UNCHANGED <<active, old, new, journal, api, made, count, unraid, wanted>>

----------------------------------------------------------------------------
(* _cleanup                                                                 *)

CleanOld ==
    /\ op.pc = "clean_old"
    /\ old' = None
    /\ Goto("clean_new")
    /\ UNCHANGED <<active, new, journal, state, api, made, count, world>>

CleanNew ==
    /\ op.pc = "clean_new"
    /\ new' = None
    /\ Goto("clean_journal")
    /\ UNCHANGED <<active, old, journal, state, api, made, count, world>>

\* After a recovery that rolled back the command starts afresh.
CleanJournal ==
    /\ op.pc = "clean_journal"
    /\ journal' = None
    /\ op' = IF op.mode = "recover" THEN [Idle EXCEPT !.pc = "load"] ELSE Idle
    /\ UNCHANGED <<active, old, new, state, api, made, count, world>>

----------------------------------------------------------------------------
(* Failures                                                                 *)

\* The steps whose exceptions roll a cutover back.
Guarded == {"journal", "remove", "write", "create", "probe", "verified", "publish"}

\* Where an exception leads: the rollback, or out of the command.
Handler ==
    IF op.mode = "forward" /\ op.pc \in Guarded
      THEN [op EXCEPT !.pc = "journal", !.mode = "rollback", !.env = op.cur,
                      !.jr.status = "rolling-back"]
      ELSE Idle

(* A step raises.  A write may have taken place and a Compose recreation   *)
(* may have removed the container.  A rollback that fails leaves its mark  *)
(* in the journal if it still can.                                         *)
Raise ==
    /\ op.pc # "idle" /\ count.faults < MaxFaults
    /\ count' = [count EXCEPT !.faults = @ + 1]
    /\ op' = Handler
    /\ api' \in IF op.pc = "create" /\ ~unraid THEN {api, None} ELSE {api}
    /\ \/ state' = state
       \/ op.pc = "publish" /\ state' = NextState
    /\ \/ journal' = journal
       \/ /\ op.mode = "rollback"
          /\ journal' = [op.jr EXCEPT !.status = "rollback-failed"]
    /\ UNCHANGED <<active, old, new, made, world>>

\* The process or the host stops.
Stop ==
    /\ op.pc # "idle" /\ count.stops < MaxStops
    /\ count' = [count EXCEPT !.stops = @ + 1]
    /\ op' = Idle
    /\ api' \in IF op.pc = "create" /\ ~unraid THEN {api, None} ELSE {api}
    /\ UNCHANGED <<files, made, world>>

Step ==
    \/ Recover \/ ProbeAgain
    \/ LoadCurrent \/ SnapshotOld \/ SnapshotNew \/ Prepare
    \/ Journal \/ Remove \/ WriteActive \/ Create \/ Probe \/ Verified \/ Publish
    \/ CleanOld \/ CleanNew \/ CleanJournal

Next == Begin \/ Step \/ Raise \/ Stop \/ \E e \in Envs : Want(e)

Spec == Init /\ [][Next]_vars

\* The operator gives the command again, as the documentation asks, and it runs.
FairSpec == Spec /\ WF_vars(Begin) /\ WF_vars(Step)

----------------------------------------------------------------------------
(* Properties                                                               *)

(* Without a journal nothing is unfinished: the running container is the   *)
(* published one, it was made from the active environment, and that is the *)
(* environment of the published fingerprint, whatever failed or stopped    *)
(* before.                                                                 *)
KnownRuntime ==
    op.pc = "idle" /\ journal = None =>
        /\ api # None /\ api.id = state.id
        /\ api.env = active /\ active = good /\ Fingerprint[good] = state.fp

(* The private environment of the last published state is never lost: it   *)
(* is in the active file or in one of the snapshots, so that every cutover *)
(* that stops or fails can be undone.                                      *)
EnvironmentKept == good \in {active, old, new}

\* No command is at work, and the next one refuses the journal.
Stuck ==
    /\ op.pc = "idle" /\ journal # None
    /\ ~(Evidence /\ IF Committed THEN CommittedLive ELSE Untouched)

(* The command implements the switch of ProviderSwitch: whatever fails or  *)
(* stops, the API never runs with an environment that is neither the       *)
(* published nor the wanted one, and a state is published only for an API  *)
(* that runs with what was asked for.                                      *)
Switch == INSTANCE ProviderSwitch WITH
    published <- good,
    running <- IF api = None THEN None ELSE api.env

ImplementsSwitch == Switch!Spec

(* What every later command refuses: a journal whose snapshots _cleanup    *)
(* has begun to remove; one that asks for other providers than the         *)
(* operator now does; a restored container that was published, so that the *)
(* state has neither of the ids of the journal; and a new state that was   *)
(* replaced although its save raised, with a rollback that did not end.    *)
(* In the first and the third case the code does not keep the promise of   *)
(* docs/operations/lifecycle.md that the same command, given again after a *)
(* stop, restores the old role and performs a fresh transaction.           *)
DeadEnd ==
    /\ Stuck
    /\ \/ old = None \/ new = None
       \/ Fingerprint[wanted] # journal.newfp \/ (Committed /\ api.env # wanted)
       \/ /\ journal.status \in {"rolling-back", "rollback-failed"}
          /\ \/ state.fp = journal.oldfp /\ state.id # journal.oldid
             \/ state.fp = journal.newfp /\ journal.newid = state.id

(* An operator who gives the command again until it succeeds gets the      *)
(* providers asked for, or a journal of the kinds listed.                  *)
Converges ==
    <>[](op.pc = "idle" => (journal = None /\ api # None /\ api.env = wanted) \/ DeadEnd)
=============================================================================
