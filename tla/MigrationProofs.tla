--------------------------- MODULE MigrationProofs ---------------------------
(***************************************************************************)
(* What an upgrade of a legacy runtime, its rollback, an installation, an  *)
(* adoption and an uninstallation keep true, for any number of stops,      *)
(* faults, writes and goals.                                               *)
(***************************************************************************)
EXTENDS Migration, TLAPS

----------------------------------------------------------------------------
(* The inductive invariant                                                  *)

\* Where a command is: in install, adopt, uninstall, upgrade or rollback.
Planning   == {"attempt", "stage", "starting", "net"}
Making     == {"api", "proxy", "verify", "templates", "archive", "commit"}
Undoing    == {"unstage", "clean", "cleaned", "cleanup_failed"}
Installing == {"preflight", "unattempt"} \cup Planning \cup Making \cup Undoing
Removing   == {"halt", "take", "mark", "uninstalled"}
Leaving    == {"owned", "uninstalling"} \cup Removing
Preparing  == {"preserve", "journal"}
Copying    == {"stop_legacy", "snapshot", "copy", "complete"}
Upgrading  == {"check", "recover", "unprepare", "installed", "failed", "failed_save"}
              \cup Preparing \cup Copying
Returning  == {"restore", "roll_state", "roll_journal", "rollback_failed"}
Rolling    == {"roll_check", "roll_again"} \cup Returning

Pcs == {"idle", "adopt"} \cup Installing \cup Leaving \cup Upgrading \cup Rolling

Boxes == {"api", "proxy", "net"}
Final == {"uninstalled", "rolled_back"}

Ops ==
    [cmd : {"none", "install", "adopt", "uninstall", "upgrade", "rollback"}, pc : Pcs, id : Nat,
     retry : Attempts \cup {None}, keyed : BOOLEAN,
     res : {"none", "api", "proxy", "net", "key", "tpl"},
     jr : Journals \cup {None}, prev : Journals \cup {None}, re : BOOLEAN, restart : BOOLEAN]

TypeInv ==
    /\ goal \in {"install", "uninstall", "upgrade", "rollback"}
    /\ state \in States \cup {None} /\ attempt \in Attempts \cup {None}
    /\ box \in [Boxes -> Nat] /\ up \subseteq Roles
    /\ key \in BOOLEAN /\ target \in Targets \cup {None}
    /\ made \in Nat /\ op \in Ops
    /\ legacy \in Legacies \cup {None} /\ journal \in Journals \cup {None}

\* The command at work is one that the goal asks for, and is where it may be.
Commanded ==
    /\ goal \in {"upgrade", "rollback"} <=> legacy # None
    /\ op.cmd \in {"upgrade", "rollback"} => legacy # None
    /\ op.pc = "idle" <=> op.cmd = "none"
    /\ op.pc \in Installing => op.cmd \in {"install", "upgrade"}
    /\ op.pc = "adopt" => op.cmd \in {"adopt", "upgrade"}
    /\ op.pc \in Leaving => op.cmd \in {"uninstall", "rollback"}
    /\ op.pc \in Upgrading => op.cmd = "upgrade"
    /\ op.pc \in Rolling => op.cmd = "rollback"
    /\ legacy # None => op.cmd \in {"none", "upgrade", "rollback"}

\* Install ids are drawn, and every file and resource has one that was.
Fresh ==
    /\ state # None => state.id \in 1..made
    /\ attempt # None => attempt.id \in 1..made
    /\ op.retry # None => op.retry.id \in 1..made
    /\ op.pc \in (Planning \ {"attempt"}) \cup Making \cup Undoing \cup {"unattempt"} =>
           op.id \in 1..made

\* Nothing of a deployment is there.
Bare == (\A r \in Boxes : box[r] = 0) /\ ~key

\* Only what an install has made since its attempt was saved is there.
Installs ==
    /\ op.pc \in Planning \cup {"unstage", "cleaned"} => Bare
    /\ op.pc \in Planning \cup Making => state = None \/ state.status \in Final
    /\ op.pc \in {"stage", "starting"} => attempt # None /\ attempt.id = op.id
    /\ op.pc \in {"net"} \cup Making => attempt = [status |-> "starting", id |-> op.id]
    /\ op.pc \in {"starting", "net", "clean"} \cup Making => ~op.keyed
    /\ op.pc \in {"clean", "cleanup_failed", "unattempt"} \cup Making =>
           \A r \in Boxes : box[r] \in {0, op.id}
    /\ op.pc \in Making \ {"api"} => box["api"] = op.id
    /\ op.pc \in {"clean", "cleanup_failed"} =>
           Bare \/ attempt = [status |-> "starting", id |-> op.id]
    /\ op.pc = "unattempt" => state # None /\ state.status = "installed" /\ state.id = op.id

\* The resources are removed one after the other, and marked when they are gone.
Uninstalls ==
    /\ op.pc = "uninstalling" => state # None /\ state.status \notin Final
    /\ op.pc \in Removing => state # None /\ state.status = "uninstalling"
    /\ op.pc = "halt" => op.res \in Roles
    /\ op.pc \in {"take", "mark"} => op.res # "none"
    /\ op.pc \in {"take", "mark"} => op.res \notin up
    /\ op.pc = "mark" =>
           /\ op.res \in Boxes => box[op.res] = 0
           /\ op.res = "key" => ~key
    /\ op.pc \in {"halt", "take", "mark"} =>
           /\ op.res \in {"api", "key", "net", "tpl"} => box["proxy"] = 0
           /\ op.res \in {"key", "net", "tpl"} => box["api"] = 0
           /\ op.res \in {"net", "tpl"} => ~key
           /\ op.res = "tpl" => box["net"] = 0
    /\ op.pc = "uninstalled" => Bare

(* A container that runs exists, an active state has no marks, and the     *)
(* data directory is there once an API was started or a state written.     *)
Stored ==
    /\ \A r \in up : box[r] # 0
    /\ state # None /\ state.status \in {"installed", "adopted"} => state.gone = {}
    /\ state # None /\ state.status = "uninstalling" /\ "key" \in state.gone => ~key
    /\ state # None \/ box["api"] # 0 => target # None

(* A first upgrade finds no state, a later one the evidence of the         *)
(* rollback; the snapshot in its journal is the legacy data.               *)
Upgrades ==
    /\ op.pc = "recover" \/ (op.pc = "adopt" /\ op.cmd = "upgrade") => journal # None
    /\ op.pc \in Preparing \cup Copying /\ ~op.re => state = None
    /\ op.pc = "preserve" /\ ~op.re => \A r \in Boxes : box[r] = 0
    /\ op.pc \in Preparing /\ op.re => journal # None /\ Evidence # None
    /\ op.pc \in Copying => \A r \in Boxes : box[r] = 0
    /\ op.pc \in Copying \cup {"failed", "failed_save", "installed"} => op.jr # None
    /\ op.pc \in {"snapshot", "copy", "complete"} => ~legacy.up
    /\ op.pc \in {"copy", "complete"} => op.jr.snap = legacy.data
    /\ op.cmd = "upgrade" /\ op.pc \in Installing \cup {"installed"} =>
           /\ op.jr # None /\ journal # None
           /\ op.jr.snap = legacy.data /\ journal.snap = legacy.data /\ ~legacy.up
    /\ op.pc = "installed" => state # None
    /\ op.pc \in {"failed", "failed_save"} /\ "api" \in up => op.jr.snap = legacy.data

\* A rollback remembers the journal, and leaves a state that claims nothing.
Rollbacks ==
    /\ op.cmd = "rollback" /\ op.pc \in Leaving \cup Returning =>
           op.jr # None /\ journal # None /\ op.jr.snap = journal.snap
    /\ op.pc \in {"restore", "roll_state", "roll_journal"} =>
           state # None /\ state.status \in Final

\* NoOrphans, as the steps need it.
Claimed(id) ==
    \/ state # None /\ state.id = id /\ state.status \notin Final
    \/ attempt # None /\ attempt.id = id /\ attempt.status \in {"starting", "cleanup-failed"}
Marked(r) == state # None /\ state.status = "uninstalling" /\ r \in state.gone
Accounted ==
    /\ \A r \in Boxes : box[r] # 0 => Claimed(box[r]) /\ ~Marked(r)
    /\ key => \E id \in 1..made : Claimed(id)

IInv ==
    /\ TypeInv /\ Commanded /\ Fresh /\ Installs /\ Uninstalls /\ Stored /\ Upgrades /\ Rollbacks
    /\ Accounted /\ RollbackReady

----------------------------------------------------------------------------
(* How the command goes on                                                  *)

Same == /\ op'.cmd = op.cmd /\ op'.id = op.id /\ op'.retry = op.retry /\ op'.keyed = op.keyed
        /\ op'.res = op.res /\ op'.jr = op.jr /\ op'.re = op.re
Moves(p) == op' \in Ops /\ op'.pc = p /\ Same
Ends == op' \in Ops /\ op'.pc = "idle" /\ op'.cmd = "none" /\ op'.retry = None
Leads(caller, p) == (op.cmd = caller /\ Moves(p)) \/ (op.cmd # caller /\ Ends)

LEMMA GotoMoves ==
    ASSUME op \in Ops, NEW p \in Pcs, op' = [op EXCEPT !.pc = p]
    PROVE  Moves(p)
BY DEF Ops, Moves, Same

LEMMA IdleEnds == op' = Idle => Ends
BY DEF Idle, Ends, Ops, Pcs

LEMMA InstallRaised ==
    ASSUME op \in Ops, op' = Raised(op, "install")
    PROVE  Leads("upgrade", "failed")
<1>1. CASE op.cmd = "upgrade"
  BY <1>1, GotoMoves DEF Raised, Leads, Pcs, Upgrading
<1>2. CASE op.cmd # "upgrade"
  BY <1>2, IdleEnds DEF Raised, Leads
<1> QED
  BY <1>1, <1>2

LEMMA InstallReturned ==
    ASSUME op \in Ops, op' = Returned(op, "install") PROVE Leads("upgrade", "installed")
<1>1. CASE op.cmd = "upgrade"
  BY <1>1, GotoMoves DEF Returned, Leads, Pcs, Upgrading
<1>2. CASE op.cmd # "upgrade"
  BY <1>2, IdleEnds DEF Returned, Leads
<1> QED
  BY <1>1, <1>2

LEMMA AdoptRaised == ASSUME op' = Raised(op, "adopt") PROVE Ends
BY IdleEnds DEF Raised

LEMMA AdoptReturned ==
    ASSUME op \in Ops, op' = Returned(op, "adopt") PROVE Leads("upgrade", "recover")
<1>1. CASE op.cmd = "upgrade"
  BY <1>1, GotoMoves DEF Returned, Leads, Pcs, Upgrading
<1>2. CASE op.cmd # "upgrade"
  BY <1>2, IdleEnds DEF Returned, Leads
<1> QED
  BY <1>1, <1>2

LEMMA UninstallRaised ==
    ASSUME op \in Ops, op' = Raised(op, "uninstall") PROVE Leads("rollback", "rollback_failed")
<1>1. CASE op.cmd = "rollback"
  BY <1>1, GotoMoves DEF Raised, Leads, Pcs, Rolling, Returning
<1>2. CASE op.cmd # "rollback"
  BY <1>2, IdleEnds DEF Raised, Leads
<1> QED
  BY <1>1, <1>2

LEMMA UninstallReturned ==
    ASSUME op \in Ops, op' = Returned(op, "uninstall") PROVE Leads("rollback", "restore")
<1>1. CASE op.cmd = "rollback"
  BY <1>1, GotoMoves DEF Returned, Leads, Pcs, Rolling, Returning
<1>2. CASE op.cmd # "rollback"
  BY <1>2, IdleEnds DEF Returned, Leads
<1> QED
  BY <1>1, <1>2

\* A step that leaves files, resources and data alone.
LEMMA OnlyOp ==
    ASSUME IInv, op' \in Ops,
           UNCHANGED <<state, attempt, box, up, key, target, made, legacy, journal, goal>>
    PROVE  TypeInv' /\ Stored' /\ Accounted' /\ RollbackReady'
BY DEF IInv, TypeInv, Stored, Accounted, Claimed, Marked, RollbackReady

\* What passes the preflight finds nothing of a deployment.
LEMMA PreflightBare ==
    ASSUME IInv, NEW a, NEW b, Preflight(a, b)
    PROVE  /\ Bare /\ up = {}
           /\ state = None \/ state.status \in Final
           /\ attempt = None \/ attempt.status = "cleaned"
<1>1. /\ \A r \in Boxes : box[r] = 0
      /\ state = None \/ state.status \in Final
      /\ attempt = None \/ attempt.status = "cleaned"
  BY DEF IInv, TypeInv, Preflight, ComposePreflight, UnraidPreflight,
     CompletedUninstall, AttemptAllows, Final
<1>2. ~key
  BY <1>1 DEF IInv, Accounted, Claimed
<1>3. up = {}
  BY <1>1 DEF IInv, TypeInv, Stored, Roles, Boxes
<1> QED
  BY <1>1, <1>2, <1>3 DEF Bare

\* A failure of a deployment step, but for the files that the step saves.
LEMMA RaiseFrame ==
    ASSUME IInv, RaiseDeployment
    PROVE  /\ op' = IF Proc(op.pc) = "install" THEN InstallHandler(op)
                    ELSE Raised(op, Proc(op.pc))
           /\ UNCHANGED <<key, target>>
           /\ op.pc # "clean" => UNCHANGED <<box, up>>
           /\ op.pc # "attempt" => UNCHANGED made
           /\ op.pc \notin {"attempt", "starting", "unstage", "cleaned", "unattempt"} =>
                  UNCHANGED attempt
           /\ op.pc \notin {"commit", "uninstalling", "mark", "uninstalled"} => UNCHANGED state
<1>1. op.pc # "clean" => UNCHANGED <<box, up>>
  <2>1. box \in [Boxes -> Nat] /\ up \subseteq Boxes
    BY DEF IInv, TypeInv, Roles, Boxes
  <2> QED
    BY <2>1 DEF RaiseDeployment, At
<1> QED
  BY <1>1 DEF RaiseDeployment, At

----------------------------------------------------------------------------
(* Preservation by each step                                                 *)

LEMMA BeginInv == ASSUME IInv, NEW c, Begin(c) PROVE IInv'
<1> USE DeploymentAssumption, MigrationAssumption
  DEF Begin, Commands, Idle, At, files, docker, data, world
<1>1. /\ op' \in Ops /\ op'.cmd = c /\ op'.retry = None
      /\ \/ op'.pc = "preflight" /\ c = "install" /\ goal = "install"
         \/ op'.pc = "adopt" /\ c = "adopt" /\ goal = "install"
         \/ op'.pc = "owned" /\ c = "uninstall" /\ goal = "uninstall"
         \/ op'.pc = "check" /\ c = "upgrade" /\ goal = "upgrade"
         \/ op'.pc = "roll_check" /\ c = "rollback" /\ goal = "rollback"
  <2>1. goal \in {"install", "uninstall", "upgrade", "rollback"}
    BY DEF IInv, TypeInv
  <2>2. PICK p \in {"preflight", "adopt", "owned", "check", "roll_check"} :
           /\ op' = [Idle EXCEPT !.cmd = c, !.pc = p]
           /\ \/ p = "preflight" /\ c = "install" /\ goal = "install"
              \/ p = "adopt" /\ c = "adopt" /\ goal = "install"
              \/ p = "owned" /\ c = "uninstall" /\ goal = "uninstall"
              \/ p = "check" /\ c = "upgrade" /\ goal = "upgrade"
              \/ p = "roll_check" /\ c = "rollback" /\ goal = "rollback"
    BY <2>1
  <2>3. p \in Pcs /\ c \in {"install", "adopt", "uninstall", "upgrade", "rollback"}
    BY <2>2 DEF Pcs, Installing, Leaving, Upgrading, Rolling
  <2>4. op' = [cmd |-> c, pc |-> p, id |-> 0, retry |-> None, keyed |-> FALSE, res |-> "none",
               jr |-> None, prev |-> None, re |-> FALSE, restart |-> FALSE]
    BY <2>2
  <2> HIDE DEF Begin, Idle, Commands
  <2>5. op' \in Ops
    BY <2>3, <2>4 DEF Ops
  <2>6. op'.cmd = c /\ op'.retry = None /\ op'.pc = p
    BY <2>4
  <2> QED
    BY <2>2, <2>5, <2>6
<1>2. TypeInv' /\ Stored' /\ Accounted' /\ RollbackReady'
  BY <1>1, OnlyOp
<1>3. Commanded' /\ Fresh'
  <2>1. Commanded'
    BY <1>1 DEF IInv, Commanded, Planning, Making, Undoing, Installing, Removing,
       Leaving, Preparing, Copying, Upgrading, Returning, Rolling
  <2>2. Fresh'
    BY <1>1 DEF IInv, Fresh, Planning, Making, Undoing
  <2> QED
    BY <2>1, <2>2
<1>4. Installs' /\ Uninstalls'
  BY <1>1, <1>2 DEF Installs, Uninstalls, Planning, Making, Removing
<1>5. Upgrades' /\ Rollbacks'
  BY <1>1, <1>2 DEF Upgrades, Rollbacks, Planning, Making, Undoing, Installing,
     Removing, Leaving, Preparing, Copying, Returning
<1> QED
  BY <1>2, <1>3, <1>4, <1>5 DEF IInv

----------------------------------------------------------------------------
(* install                                                                  *)

LEMMA InstallPreflightInv ==
    ASSUME IInv, InstallPreflight, UNCHANGED <<legacy, journal, world>>
    PROVE  IInv'
<1> USE DeploymentAssumption, MigrationAssumption
  DEF InstallPreflight, At, Goto, files, docker, data, world
<1>1. Preflight(op.cmd = "upgrade", op.re) =>
          Bare /\ (state = None \/ state.status \in Final)
  BY PreflightBare
<1>2. \/ /\ Preflight(op.cmd = "upgrade", op.re)
         /\ op' \in Ops /\ op'.pc = "attempt" /\ op'.retry = attempt
         /\ op'.cmd = op.cmd /\ op'.jr = op.jr
      \/ Leads("upgrade", "failed")
  <2>1. CASE Preflight(op.cmd = "upgrade", op.re)
    BY <2>1 DEF IInv, TypeInv, Ops, Pcs, Installing, Planning
  <2>2. CASE ~Preflight(op.cmd = "upgrade", op.re)
    BY <2>2, InstallRaised DEF IInv, TypeInv
  <2> QED
    BY <2>1, <2>2
<1>3. TypeInv' /\ Stored' /\ Accounted' /\ RollbackReady'
  BY <1>1, <1>2, OnlyOp DEF Leads, Moves, Ends
<1>4. Commanded' /\ Fresh'
  BY <1>1, <1>2, <1>3 DEF IInv, Commanded, Fresh, Planning, Making, Undoing,
     Installing, Removing, Leaving, Preparing, Copying, Upgrading, Returning,
     Rolling, Leads, Moves, Same, Ends
<1>5. Installs' /\ Uninstalls'
  BY <1>1, <1>2, <1>3 DEF Installs, Uninstalls, Bare, Planning, Making, Removing,
     Leads, Moves, Ends
<1>6. Upgrades' /\ Rollbacks'
  BY <1>1, <1>2, <1>3 DEF IInv, Upgrades, Rollbacks, Installing, Removing, Leaving,
     Preparing, Copying, Returning, Leads, Moves, Same, Ends
<1> QED
  BY <1>3, <1>4, <1>5, <1>6 DEF IInv

LEMMA SaveAttemptInv ==
    ASSUME IInv, SaveAttempt, UNCHANGED <<legacy, journal, world>>
    PROVE  IInv'
<1> USE DeploymentAssumption, MigrationAssumption
  DEF SaveAttempt, At, Goto, files, docker, data, world
<1>1. /\ op' \in Ops /\ op'.pc = "stage" /\ op'.id = made' /\ op'.retry = op.retry
      /\ op'.cmd = op.cmd /\ op'.jr = op.jr
      /\ made' = made + 1 /\ attempt' = [status |-> "prepared", id |-> made']
  <2>1. /\ made' = made + 1 /\ attempt' = [status |-> "prepared", id |-> made']
        /\ op' = [op EXCEPT !.pc = "stage", !.id = made']
    OBVIOUS
  <2>2. op \in Ops /\ made' \in Nat
    BY <2>1 DEF IInv, TypeInv
  <2>3. "stage" \in Pcs
    BY DEF Pcs, Installing, Planning
  <2> HIDE DEF SaveAttempt
  <2> QED
    BY <2>1, <2>2, <2>3 DEF Ops
<1>2. TypeInv'
  BY <1>1 DEF IInv, TypeInv, Attempts
<1>3. Commanded' /\ Fresh'
  BY <1>1, <1>2 DEF IInv, TypeInv, Commanded, Fresh, Planning, Installing,
     Removing, Leaving, Preparing, Copying, Upgrading, Returning, Rolling
<1>4. Installs' /\ Uninstalls'
  BY <1>1, <1>2 DEF IInv, TypeInv, Attempts, Planning, Making, Removing, Bare,
     Installs, Uninstalls
<1>5. Stored' /\ Accounted'
  BY <1>1, <1>2 DEF IInv, Planning, Bare, Installs, Stored, Accounted
<1>6. Upgrades' /\ Rollbacks' /\ RollbackReady'
  BY <1>1, <1>2 DEF IInv, Planning, Installing, Removing, Leaving, Preparing,
     Copying, Returning, Upgrades, Rollbacks, RollbackReady
<1> QED
  BY <1>2, <1>3, <1>4, <1>5, <1>6 DEF IInv

LEMMA StageInv == ASSUME IInv, Stage, UNCHANGED <<legacy, journal, world>> PROVE IInv'
<1> USE DeploymentAssumption, MigrationAssumption
  DEF Stage, At, Goto, files, docker, data, world
<1>1. /\ op' \in Ops /\ op'.pc = "starting" /\ op'.id = op.id /\ op'.retry = op.retry
      /\ op'.cmd = op.cmd /\ op'.jr = op.jr /\ op'.keyed = key
  <2>1. op \in Ops /\ key \in BOOLEAN /\ op' = [op EXCEPT !.pc = "starting", !.keyed = key]
    BY DEF IInv, TypeInv
  <2> HIDE DEF Stage
  <2> QED
    BY <2>1 DEF Ops, Pcs, Installing, Planning
<1>2. TypeInv' /\ Stored' /\ Accounted' /\ RollbackReady'
  BY <1>1, OnlyOp
<1>3. Commanded' /\ Fresh'
  BY <1>1, <1>2 DEF IInv, Commanded, Fresh, Planning, Installing, Removing,
     Leaving, Preparing, Copying, Upgrading, Returning, Rolling
<1>4. Installs' /\ Uninstalls'
  BY <1>1, <1>2 DEF IInv, Installs, Uninstalls, Bare, Planning, Making, Removing
<1>5. Upgrades' /\ Rollbacks'
  BY <1>1, <1>2 DEF IInv, Upgrades, Rollbacks, Planning, Installing, Removing,
     Leaving, Preparing, Copying, Returning
<1> QED
  BY <1>2, <1>3, <1>4, <1>5 DEF IInv

LEMMA StartingInv == ASSUME IInv, Starting, UNCHANGED <<legacy, journal, world>> PROVE IInv'
<1> USE DeploymentAssumption, MigrationAssumption
  DEF Starting, At, Goto, files, docker, data, world
<1>1. Moves("net")
  BY GotoMoves DEF IInv, TypeInv, Pcs, Installing, Planning
<1>2. TypeInv'
  BY <1>1 DEF IInv, TypeInv, Attempts, Installs, Moves
<1>3. Commanded' /\ Fresh'
  BY <1>1, <1>2 DEF IInv, Commanded, Fresh, Installs, Planning, Installing,
     Removing, Leaving, Preparing, Copying, Upgrading, Returning, Rolling
<1>4. Installs' /\ Uninstalls'
  BY <1>1, <1>2 DEF IInv, TypeInv, Attempts, Planning, Making, Removing, Bare,
     Installs, Uninstalls
<1>5. Stored' /\ Accounted'
  BY <1>1, <1>2 DEF IInv, Installs, Bare, Stored, Accounted, Planning
<1>6. Upgrades' /\ Rollbacks' /\ RollbackReady'
  BY <1>1, <1>2 DEF IInv, Commanded, Upgrades, Rollbacks, RollbackReady, Planning,
     Installing, Preparing, Copying
<1> QED
  BY <1>2, <1>3, <1>4, <1>5, <1>6 DEF IInv

LEMMA CreateNetworkInv ==
    ASSUME IInv, CreateNetwork, UNCHANGED <<legacy, journal, world>>
    PROVE  IInv'
<1> USE DeploymentAssumption, MigrationAssumption
  DEF CreateNetwork, At, Goto, files, docker, data, world
<1>1. Moves("api")
  BY GotoMoves DEF IInv, TypeInv, Pcs, Installing, Making
<1>2. TypeInv'
  BY <1>1 DEF IInv, TypeInv, Ops, Moves
<1>3. Commanded' /\ Fresh'
  BY <1>1, <1>2 DEF IInv, Commanded, Fresh, Planning, Installing, Removing,
     Leaving, Preparing, Copying, Upgrading, Returning, Rolling
<1>4. Installs' /\ Uninstalls'
  BY <1>1, <1>2 DEF IInv, Installs, Uninstalls, Bare, Planning, Removing
<1>5. Stored' /\ Accounted'
  BY <1>1, <1>2 DEF IInv, TypeInv, Attempts, Final, Planning, Installs, Stored,
     Accounted, Claimed, Marked
<1>6. Upgrades' /\ Rollbacks' /\ RollbackReady'
  BY <1>1, <1>2 DEF IInv, Upgrades, Rollbacks, RollbackReady, Planning, Installing,
     Removing, Leaving, Preparing, Copying, Returning
<1> QED
  BY <1>2, <1>3, <1>4, <1>5, <1>6 DEF IInv

LEMMA StartApiInv == ASSUME IInv, StartApi, UNCHANGED <<legacy, journal, world>> PROVE IInv'
<1> USE DeploymentAssumption, MigrationAssumption
  DEF StartApi, At, Goto, files, docker, data, world
<1>1. Moves("proxy")
  BY GotoMoves DEF IInv, TypeInv, Pcs, Installing, Making
<1>2. TypeInv'
  BY <1>1 DEF IInv, TypeInv, Targets, Ops, Roles, Moves
<1>3. Commanded' /\ Fresh'
  BY <1>1, <1>2 DEF IInv, Commanded, Fresh, Making, Installing, Removing, Leaving,
     Preparing, Copying, Upgrading, Returning, Rolling
<1>4. Installs' /\ Uninstalls'
  BY <1>1, <1>2 DEF IInv, TypeInv, Installs, Uninstalls, Planning, Making, Removing
<1>5. Stored' /\ Accounted'
  BY <1>1, <1>2 DEF IInv, TypeInv, Attempts, Targets, Final, Making, Fresh,
     Installs, Stored, Accounted, Claimed, Marked
<1>6. Upgrades' /\ Rollbacks' /\ RollbackReady'
  BY <1>1, <1>2 DEF IInv, Commanded, Upgrades, Rollbacks, RollbackReady, Making,
     Installing, Preparing, Copying
<1> QED
  BY <1>2, <1>3, <1>4, <1>5, <1>6 DEF IInv

LEMMA StartProxyInv ==
    ASSUME IInv, StartProxy, UNCHANGED <<legacy, journal, world>>
    PROVE  IInv'
<1> USE DeploymentAssumption, MigrationAssumption
  DEF StartProxy, At, Goto, files, docker, data, world
<1>1. Moves("verify")
  BY GotoMoves DEF IInv, TypeInv, Pcs, Installing, Making
<1>2. TypeInv'
  BY <1>1 DEF IInv, TypeInv, Ops, Roles, Moves
<1>3. Commanded' /\ Fresh'
  BY <1>1, <1>2 DEF IInv, Commanded, Fresh, Making, Installing, Removing, Leaving,
     Preparing, Copying, Upgrading, Returning, Rolling
<1>4. Installs' /\ Uninstalls'
  BY <1>1, <1>2 DEF IInv, Installs, Uninstalls, Planning, Making, Removing
<1>5. Stored' /\ Accounted'
  BY <1>1, <1>2 DEF IInv, TypeInv, Boxes, Final, Fresh, Installs, Stored,
     Accounted, Claimed, Marked, Making
<1>6. Upgrades' /\ Rollbacks' /\ RollbackReady'
  BY <1>1, <1>2 DEF IInv, Upgrades, Rollbacks, RollbackReady, Making, Installing,
     Removing, Leaving, Preparing, Copying, Returning
<1> QED
  BY <1>2, <1>3, <1>4, <1>5, <1>6 DEF IInv

LEMMA VerifyInv == ASSUME IInv, Verify, UNCHANGED <<legacy, journal, world>> PROVE IInv'
<1> USE DeploymentAssumption, MigrationAssumption
  DEF Verify, At, Goto, files, docker, data, world
<1>1. Moves("templates") \/ Moves("archive")
  BY GotoMoves DEF IInv, TypeInv, Pcs, Installing, Making
<1>2. TypeInv' /\ Stored' /\ Accounted' /\ RollbackReady'
  BY <1>1, OnlyOp DEF Moves, Same
<1>3. Commanded' /\ Fresh'
  BY <1>1, <1>2 DEF IInv, Commanded, Fresh, Making, Installing, Removing, Leaving,
     Preparing, Copying, Upgrading, Returning, Rolling
<1>4. Installs' /\ Uninstalls'
  BY <1>1, <1>2 DEF IInv, Installs, Uninstalls, Planning, Making, Removing
<1>5. Upgrades' /\ Rollbacks'
  BY <1>1, <1>2 DEF IInv, Upgrades, Rollbacks, Making, Installing, Removing,
     Leaving, Preparing, Copying, Returning
<1> QED
  BY <1>2, <1>3, <1>4, <1>5 DEF IInv

LEMMA CopyTemplatesInv ==
    ASSUME IInv, CopyTemplates, UNCHANGED <<legacy, journal, world>>
    PROVE  IInv'
<1> USE DeploymentAssumption, MigrationAssumption
  DEF CopyTemplates, At, Goto, files, docker, data, world
<1>1. /\ op' \in Ops /\ op'.pc = "archive" /\ op'.id = op.id /\ op'.retry = op.retry
      /\ op'.cmd = op.cmd /\ op'.jr = op.jr /\ op'.keyed = op.keyed
  BY DEF IInv, TypeInv, Ops, Pcs, Installing, Making
<1>2. TypeInv' /\ Stored' /\ Accounted' /\ RollbackReady'
  BY <1>1, OnlyOp
<1>3. Commanded' /\ Fresh'
  BY <1>1, <1>2 DEF IInv, Commanded, Fresh, Making, Installing, Removing, Leaving,
     Preparing, Copying, Upgrading, Returning, Rolling
<1>4. Installs' /\ Uninstalls'
  BY <1>1, <1>2 DEF IInv, Installs, Uninstalls, Planning, Making, Removing
<1>5. Upgrades' /\ Rollbacks'
  BY <1>1, <1>2 DEF IInv, Upgrades, Rollbacks, Making, Installing, Removing,
     Leaving, Preparing, Copying, Returning
<1> QED
  BY <1>2, <1>3, <1>4, <1>5 DEF IInv

LEMMA ArchiveInv == ASSUME IInv, Archive, UNCHANGED <<legacy, journal, world>> PROVE IInv'
<1> USE DeploymentAssumption, MigrationAssumption
  DEF Archive, At, Goto, files, docker, data, world
<1>1. Moves("commit")
  BY GotoMoves DEF IInv, TypeInv, Pcs, Installing, Making
<1>2. TypeInv' /\ Stored' /\ Accounted' /\ RollbackReady'
  BY <1>1, OnlyOp DEF Moves, Same
<1>3. Commanded' /\ Fresh'
  BY <1>1, <1>2 DEF IInv, Commanded, Fresh, Making, Installing, Removing, Leaving,
     Preparing, Copying, Upgrading, Returning, Rolling
<1>4. Installs' /\ Uninstalls'
  BY <1>1, <1>2 DEF IInv, Installs, Uninstalls, Planning, Making, Removing
<1>5. Upgrades' /\ Rollbacks'
  BY <1>1, <1>2 DEF IInv, Upgrades, Rollbacks, Making, Installing, Removing,
     Leaving, Preparing, Copying, Returning
<1> QED
  BY <1>2, <1>3, <1>4, <1>5 DEF IInv

LEMMA CommitInv == ASSUME IInv, Commit, UNCHANGED <<legacy, journal, world>> PROVE IInv'
<1> USE DeploymentAssumption, MigrationAssumption
  DEF Commit, At, Goto, files, docker, data, world
<1>1. /\ state' \in States /\ state' # None
      /\ state'.status = "installed" /\ state'.id = op.id /\ state'.gone = {}
  <2>1. op.id \in Nat
    BY DEF IInv, TypeInv, Ops
  <2> QED
    BY <2>1 DEF Installed, States
<1>2. Moves("unattempt")
  BY GotoMoves DEF IInv, TypeInv, Pcs, Installing
<1>3. TypeInv'
  BY <1>1, <1>2 DEF IInv, TypeInv, Moves
<1>4. Commanded' /\ Fresh'
  BY <1>1, <1>2, <1>3 DEF IInv, Commanded, Fresh, Making, Installing, Removing,
     Leaving, Preparing, Copying, Upgrading, Returning, Rolling
<1>5. Installs' /\ Uninstalls'
  BY <1>1, <1>2, <1>3 DEF IInv, Installs, Uninstalls, Planning, Making, Removing
<1>6. Stored' /\ Accounted'
  BY <1>1, <1>2, <1>3 DEF IInv, Fresh, Installs, Stored, Accounted, Claimed,
     Marked, Making
<1>7. Upgrades' /\ Rollbacks' /\ RollbackReady'
  BY <1>1, <1>2, <1>3 DEF IInv, Upgrades, Rollbacks, RollbackReady, Making,
     Installing, Removing, Leaving, Preparing, Copying, Returning
<1> QED
  BY <1>3, <1>4, <1>5, <1>6, <1>7 DEF IInv

LEMMA RemoveAttemptInv ==
    ASSUME IInv, RemoveAttempt, UNCHANGED <<legacy, journal, world>>
    PROVE  IInv'
<1> USE DeploymentAssumption, MigrationAssumption
  DEF RemoveAttempt, At, Goto, files, docker, data, world
<1>1. Leads("upgrade", "installed")
  BY InstallReturned DEF IInv, TypeInv
<1>2. TypeInv'
  BY <1>1 DEF IInv, TypeInv, Leads, Moves, Ends
<1>3. Commanded' /\ Fresh'
  BY <1>1, <1>2 DEF IInv, Commanded, Fresh, Planning, Making, Undoing, Installing,
     Removing, Leaving, Preparing, Copying, Upgrading, Returning, Rolling, Leads,
     Moves, Same, Ends
<1>4. Installs' /\ Uninstalls'
  BY <1>1, <1>2 DEF Installs, Uninstalls, Planning, Making, Removing, Leads, Moves,
     Ends
<1>5. Stored' /\ Accounted'
  BY <1>1, <1>2 DEF IInv, Final, Fresh, Installs, Stored, Accounted, Claimed,
     Marked
<1>6. Upgrades' /\ Rollbacks' /\ RollbackReady'
  BY <1>1, <1>2 DEF IInv, Installing, Preparing, Copying, Installs, Upgrades,
     Rollbacks, RollbackReady, Leads, Moves, Same, Ends
<1> QED
  BY <1>2, <1>3, <1>4, <1>5, <1>6 DEF IInv

LEMMA UnstageInv == ASSUME IInv, Unstage, UNCHANGED <<legacy, journal, world>> PROVE IInv'
<1> USE DeploymentAssumption, MigrationAssumption
  DEF Unstage, At, Goto, files, docker, data, world
<1>1. Leads("upgrade", "failed")
  BY InstallRaised DEF IInv, TypeInv
<1>2. TypeInv'
  BY <1>1 DEF IInv, TypeInv, Ops, Leads, Moves, Ends
<1>3. Commanded' /\ Fresh'
  BY <1>1, <1>2 DEF IInv, Commanded, Fresh, Planning, Making, Undoing, Installing,
     Removing, Leaving, Preparing, Copying, Upgrading, Returning, Rolling, Leads,
     Moves, Same, Ends
<1>4. Installs' /\ Uninstalls'
  BY <1>1, <1>2 DEF Installs, Uninstalls, Planning, Making, Removing, Leads, Moves,
     Ends
<1>5. Stored' /\ Accounted'
  BY <1>1, <1>2 DEF IInv, Installs, Bare, Stored, Accounted
<1>6. Upgrades' /\ Rollbacks' /\ RollbackReady'
  BY <1>1, <1>2 DEF IInv, Upgrades, Rollbacks, RollbackReady, Undoing, Installing,
     Preparing, Copying, Leads, Moves, Same, Ends
<1> QED
  BY <1>2, <1>3, <1>4, <1>5, <1>6 DEF IInv

LEMMA CleanInv == ASSUME IInv, Clean, UNCHANGED <<legacy, journal, world>> PROVE IInv'
<1> USE DeploymentAssumption, MigrationAssumption
  DEF Clean, At, Goto, files, docker, data, world
<1>1. Moves("cleaned")
  BY GotoMoves DEF IInv, TypeInv, Pcs, Installing, Undoing
<1>2. TypeInv'
  BY <1>1 DEF IInv, TypeInv, Moves
<1>3. Commanded' /\ Fresh'
  BY <1>1, <1>2 DEF IInv, Commanded, Fresh, Undoing, Installing, Removing, Leaving,
     Preparing, Copying, Upgrading, Returning, Rolling
<1>4. Installs' /\ Uninstalls'
  BY <1>1, <1>2 DEF IInv, TypeInv, Installs, Uninstalls, Bare, Planning, Making,
     Removing, Moves
<1>5. Stored' /\ Accounted'
  BY <1>1, <1>2 DEF IInv, TypeInv, Boxes, Stored, Accounted, Claimed
<1>6. Upgrades' /\ Rollbacks' /\ RollbackReady'
  BY <1>1, <1>2 DEF IInv, Upgrades, Rollbacks, RollbackReady, Undoing, Installing,
     Removing, Leaving, Preparing, Copying, Returning
<1> QED
  BY <1>2, <1>3, <1>4, <1>5, <1>6 DEF IInv

LEMMA SaveCleanedInv ==
    ASSUME IInv, SaveCleaned, UNCHANGED <<legacy, journal, world>>
    PROVE  IInv'
<1> USE DeploymentAssumption, MigrationAssumption
  DEF SaveCleaned, At, Goto, files, docker, data, world
<1>1. Leads("upgrade", "failed")
  BY InstallRaised DEF IInv, TypeInv
<1>2. TypeInv'
  BY <1>1 DEF IInv, TypeInv, Attempts, Undoing, Fresh, Leads, Moves, Ends
<1>3. Commanded' /\ Fresh'
  BY <1>1, <1>2 DEF IInv, Commanded, Fresh, Planning, Making, Undoing, Installing,
     Removing, Leaving, Preparing, Copying, Upgrading, Returning, Rolling, Leads,
     Moves, Same, Ends
<1>4. Installs' /\ Uninstalls'
  BY <1>1, <1>2 DEF Installs, Uninstalls, Planning, Making, Removing, Leads, Moves,
     Ends
<1>5. Stored' /\ Accounted'
  BY <1>1, <1>2 DEF IInv, Installs, Bare, Stored, Accounted
<1>6. Upgrades' /\ Rollbacks' /\ RollbackReady'
  BY <1>1, <1>2 DEF IInv, Upgrades, Rollbacks, RollbackReady, Undoing, Installing,
     Preparing, Copying, Leads, Moves, Same, Ends
<1> QED
  BY <1>2, <1>3, <1>4, <1>5, <1>6 DEF IInv

LEMMA SaveCleanupFailedInv ==
    ASSUME IInv, SaveCleanupFailed, UNCHANGED <<legacy, journal, world>>
    PROVE  IInv'
<1> USE DeploymentAssumption, MigrationAssumption
  DEF SaveCleanupFailed, At, Goto, files, docker, data, world
<1>1. Leads("upgrade", "failed")
  BY InstallRaised DEF IInv, TypeInv
<1>2. TypeInv'
  BY <1>1 DEF IInv, TypeInv, Attempts, Undoing, Fresh, Leads, Moves, Ends
<1>3. Commanded' /\ Fresh'
  BY <1>1, <1>2 DEF IInv, Commanded, Fresh, Planning, Making, Undoing, Installing,
     Removing, Leaving, Preparing, Copying, Upgrading, Returning, Rolling, Leads,
     Moves, Same, Ends
<1>4. Installs' /\ Uninstalls'
  BY <1>1, <1>2 DEF Installs, Uninstalls, Planning, Making, Removing, Leads, Moves,
     Ends
<1>5. Stored' /\ Accounted'
  BY <1>1, <1>2 DEF IInv, Attempts, Fresh, Bare, Installs, Stored, Accounted,
     Claimed, Marked
<1>6. Upgrades' /\ Rollbacks' /\ RollbackReady'
  BY <1>1, <1>2 DEF IInv, Upgrades, Rollbacks, RollbackReady, Undoing, Installing,
     Preparing, Copying, Leads, Moves, Same, Ends
<1> QED
  BY <1>2, <1>3, <1>4, <1>5, <1>6 DEF IInv

----------------------------------------------------------------------------
(* adopt                                                                    *)

LEMMA AdoptInv == ASSUME IInv, Adopt, UNCHANGED <<legacy, journal, world>> PROVE IInv'
<1> USE DeploymentAssumption, MigrationAssumption
  DEF Adopt, At, Goto, files, docker, data, world
<1>1. \/ /\ state = None /\ state' = Installed("adopted", box["api"])
         /\ RuntimeOf(box["api"]) /\ Leads("upgrade", "recover")
      \/ Ends /\ UNCHANGED state
  BY AdoptReturned, AdoptRaised DEF IInv, TypeInv, ComposeAdoptable,
     UnraidAdoptable
<1>2. TypeInv'
  BY <1>1 DEF IInv, TypeInv, States, Boxes, Leads, Moves, Ends, Installed
<1>3. Commanded' /\ Fresh'
  BY <1>1, <1>2 DEF IInv, Boxes, Planning, Making, Undoing, Installing, Removing,
     Leaving, Preparing, Copying, Upgrading, Returning, Rolling, Commanded, Fresh,
     Accounted, Claimed, Leads, Moves, Same, Ends, Installed, RuntimeOf
<1>4. Installs' /\ Uninstalls'
  BY <1>1, <1>2 DEF Installs, Uninstalls, Planning, Making, Removing, Leads, Moves,
     Ends
<1>5. Stored' /\ Accounted'
  BY <1>1, <1>2 DEF IInv, Stored, Accounted, Claimed, Marked, Installed, RuntimeOf
<1>6. Upgrades' /\ Rollbacks' /\ RollbackReady'
  BY <1>1, <1>2 DEF IInv, Upgrades, Rollbacks, RollbackReady, Planning, Making,
     Undoing, Installing, Preparing, Copying, Leads, Moves, Same, Ends
<1> QED
  BY <1>2, <1>3, <1>4, <1>5, <1>6 DEF IInv

----------------------------------------------------------------------------
(* uninstall                                                                *)

LEMMA VerifyOwnedInv ==
    ASSUME IInv, VerifyOwned, UNCHANGED <<legacy, journal, world>>
    PROVE  IInv'
<1> USE DeploymentAssumption, MigrationAssumption
  DEF VerifyOwned, At, Goto, files, docker, data, world
<1>1. \/ Leads("rollback", "rollback_failed")
      \/ state # None /\ state.status \in Final /\ Leads("rollback", "restore")
      \/ state # None /\ state.status \notin Final /\ Moves("uninstalling")
  <2>1. CASE op' = Raised(op, "uninstall")
    BY <2>1, UninstallRaised DEF IInv, TypeInv
  <2>2. CASE state # None /\ state.status \in Final /\ op' = Returned(op, "uninstall")
    BY <2>2, UninstallReturned DEF IInv, TypeInv
  <2>3. CASE state # None /\ state.status \notin Final /\ op' = [op EXCEPT !.pc = "uninstalling"]
    BY <2>3, GotoMoves DEF IInv, TypeInv, Pcs, Leaving
  <2> QED
    BY <2>1, <2>2, <2>3 DEF Final
<1>2. TypeInv' /\ Stored' /\ Accounted' /\ RollbackReady'
  BY <1>1, OnlyOp DEF Leads, Moves, Ends
<1>3. Commanded' /\ Fresh'
  BY <1>1, <1>2 DEF IInv, Commanded, Fresh, Planning, Making, Undoing, Installing,
     Removing, Leaving, Preparing, Copying, Upgrading, Returning, Rolling, Leads,
     Moves, Same, Ends
<1>4. Installs' /\ Uninstalls'
  BY <1>1, <1>2 DEF Installs, Uninstalls, Planning, Making, Removing, Leads, Moves,
     Ends
<1>5. Upgrades' /\ Rollbacks'
  BY <1>1, <1>2 DEF IInv, Upgrades, Rollbacks, Planning, Making, Undoing,
     Installing, Leaving, Preparing, Copying, Leads, Moves, Same, Ends
<1> QED
  BY <1>2, <1>3, <1>4, <1>5 DEF IInv

LEMMA SaveUninstallingInv ==
    ASSUME IInv, SaveUninstalling, UNCHANGED <<legacy, journal, world>>
    PROVE  IInv'
<1> USE DeploymentAssumption, MigrationAssumption
  DEF SaveUninstalling, At, Goto, files, docker, data, world
<1>1. /\ op' \in Ops /\ op'.pc = "halt" /\ op'.res = "proxy" /\ op'.retry = op.retry
      /\ op'.cmd = op.cmd /\ op'.jr = op.jr
  BY DEF IInv, TypeInv, Ops, Pcs, Leaving, Removing
<1>2. TypeInv'
  BY <1>1 DEF IInv, TypeInv, States, Uninstalls
<1>3. Commanded' /\ Fresh'
  BY <1>1, <1>2 DEF IInv, Planning, Making, Undoing, Installing, Leaving,
     Preparing, Copying, Upgrading, Returning, Rolling, Commanded, Fresh,
     Uninstalls
<1>4. Installs' /\ Uninstalls'
  BY <1>1, <1>2 DEF IInv, TypeInv, States, Roles, Installs, Uninstalls, Planning,
     Making
<1>5. Stored' /\ Accounted'
  BY <1>1, <1>2 DEF IInv, TypeInv, States, Final, Uninstalls, Stored, Accounted,
     Claimed, Marked
<1>6. Upgrades' /\ Rollbacks' /\ RollbackReady'
  BY <1>1, <1>2 DEF IInv, Upgrades, Rollbacks, RollbackReady, Planning, Making,
     Undoing, Installing, Leaving, Preparing, Copying
<1> QED
  BY <1>2, <1>3, <1>4, <1>5, <1>6 DEF IInv

LEMMA HaltInv == ASSUME IInv, Halt, UNCHANGED <<legacy, journal, world>> PROVE IInv'
<1> USE DeploymentAssumption, MigrationAssumption
  DEF Halt, At, Goto, files, docker, data, world
<1>1. Moves("take")
  BY GotoMoves DEF IInv, TypeInv, Pcs, Leaving, Removing
<1>2. TypeInv'
  BY <1>1 DEF IInv, TypeInv, Moves
<1>3. Commanded' /\ Fresh'
  BY <1>1, <1>2 DEF IInv, Commanded, Fresh, Planning, Making, Undoing, Installing,
     Removing, Leaving, Preparing, Copying, Upgrading, Returning, Rolling
<1>4. Installs' /\ Uninstalls'
  BY <1>1, <1>2 DEF IInv, Roles, Installs, Uninstalls, Planning, Making, Removing
<1>5. Stored' /\ Accounted'
  BY <1>1, <1>2 DEF IInv, Stored, Accounted, Claimed, Marked
<1>6. Upgrades' /\ Rollbacks' /\ RollbackReady'
  BY <1>1, <1>2 DEF IInv, Upgrades, Rollbacks, RollbackReady, Planning, Making,
     Undoing, Installing, Removing, Leaving, Preparing, Copying
<1> QED
  BY <1>2, <1>3, <1>4, <1>5, <1>6 DEF IInv

LEMMA TakeResourceInv ==
    ASSUME IInv, TakeResource, UNCHANGED <<legacy, journal, world>>
    PROVE  IInv'
<1> USE DeploymentAssumption, MigrationAssumption
  DEF TakeResource, At, Goto, files, docker, data, world
<1>1. Moves("mark")
  BY GotoMoves DEF IInv, TypeInv, Pcs, Leaving, Removing
<1>2. TypeInv'
  BY <1>1 DEF IInv, TypeInv, Moves
<1>3. Commanded' /\ Fresh'
  BY <1>1, <1>2 DEF IInv, Commanded, Fresh, Planning, Making, Undoing, Installing,
     Removing, Leaving, Preparing, Copying, Upgrading, Returning, Rolling
<1>4. Installs' /\ Uninstalls'
  BY <1>1, <1>2 DEF IInv, TypeInv, Boxes, Installs, Uninstalls, Planning, Making,
     Removing
<1>5. Stored' /\ Accounted'
  BY <1>1, <1>2 DEF IInv, TypeInv, Boxes, Roles, Uninstalls, Stored, Accounted,
     Claimed, Marked
<1>6. Upgrades' /\ Rollbacks' /\ RollbackReady'
  BY <1>1, <1>2 DEF IInv, Upgrades, Rollbacks, RollbackReady, Planning, Making,
     Undoing, Installing, Removing, Leaving, Preparing, Copying
<1> QED
  BY <1>2, <1>3, <1>4, <1>5, <1>6 DEF IInv

LEMMA TakeKeyInv == ASSUME IInv, TakeKey, UNCHANGED <<legacy, journal, world>> PROVE IInv'
<1> USE DeploymentAssumption, MigrationAssumption
  DEF TakeKey, At, Goto, files, docker, data, world
<1>1. (key /\ Moves("mark")) \/ (~key /\ Leads("rollback", "rollback_failed"))
  BY GotoMoves, UninstallRaised DEF IInv, TypeInv, Pcs, Leaving, Removing
<1>2. TypeInv'
  BY <1>1 DEF IInv, TypeInv, Leads, Moves, Ends
<1>3. Commanded' /\ Fresh'
  BY <1>1, <1>2 DEF IInv, Commanded, Fresh, Planning, Making, Undoing, Installing,
     Removing, Leaving, Preparing, Copying, Upgrading, Returning, Rolling, Leads,
     Moves, Same, Ends
<1>4. Installs' /\ Uninstalls'
  BY <1>1, <1>2 DEF IInv, Boxes, Installs, Uninstalls, Planning, Making, Removing,
     Leads, Moves, Ends
<1>5. Stored' /\ Accounted'
  BY <1>1, <1>2 DEF IInv, Stored, Accounted, Claimed, Marked
<1>6. Upgrades' /\ Rollbacks' /\ RollbackReady'
  BY <1>1, <1>2 DEF IInv, Upgrades, Rollbacks, RollbackReady, Planning, Making,
     Undoing, Installing, Removing, Leaving, Preparing, Copying, Leads, Moves,
     Same, Ends
<1> QED
  BY <1>2, <1>3, <1>4, <1>5, <1>6 DEF IInv

LEMMA MarkInv == ASSUME IInv, Mark, UNCHANGED <<legacy, journal, world>> PROVE IInv'
<1> USE DeploymentAssumption, MigrationAssumption
  DEF Mark, At, Goto, files, docker, data, world
<1>1. /\ state' \in States /\ state' # None /\ state'.status = "uninstalling"
      /\ state'.id = state.id /\ state'.gone = state.gone \cup {op.res}
  <2>1. /\ state \in States /\ state.status = "uninstalling"
        /\ op.res \in {"api", "proxy", "net", "key", "tpl"}
    BY DEF IInv, TypeInv, Ops, Uninstalls, Removing
  <2> QED
    BY <2>1 DEF States
<1>2. /\ op' \in Ops /\ op'.retry = op.retry /\ op'.cmd = op.cmd /\ op'.jr = op.jr
      /\ \/ op.res = "proxy" /\ op'.pc = "halt" /\ op'.res = "api"
         \/ op.res = "api" /\ op'.pc = "take" /\ op'.res = "key"
         \/ op.res = "api" /\ op'.pc = "take" /\ op'.res = "net" /\ "key" \in state.gone
         \/ op.res = "key" /\ op'.pc = "take" /\ op'.res = "net"
         \/ op.res = "net" /\ op'.pc = "take" /\ op'.res = "tpl"
         \/ op.res \in {"net", "tpl"} /\ op'.pc = "uninstalled"
  <2>1. op.res \in {"proxy", "api", "key", "net", "tpl"} /\ op \in Ops
    BY DEF IInv, TypeInv, Ops, Uninstalls
  <2>2. PICK p, r : /\ op' = [op EXCEPT !.pc = p, !.res = r]
                    /\ \/ op.res = "proxy" /\ p = "halt" /\ r = "api"
                       \/ op.res = "api" /\ p = "take" /\ r = "key"
                       \/ op.res = "api" /\ p = "take" /\ r = "net" /\ "key" \in state.gone
                       \/ op.res = "key" /\ p = "take" /\ r = "net"
                       \/ op.res = "net" /\ p = "take" /\ r = "tpl"
                       \/ op.res \in {"net", "tpl"} /\ p = "uninstalled" /\ r = "none"
    BY <2>1 DEF After
  <2> HIDE DEF Mark
  <2> QED
    BY <2>1, <2>2 DEF Ops, Pcs, Leaving, Removing
<1>3. TypeInv'
  BY <1>1, <1>2 DEF IInv, TypeInv
<1>4. Commanded' /\ Fresh'
  <2>1. Commanded'
    BY <1>2 DEF IInv, Commanded, Planning, Making, Undoing, Installing, Removing,
       Leaving, Preparing, Copying, Upgrading, Returning, Rolling
  <2>2. Fresh'
    BY <1>1, <1>2 DEF IInv, Fresh, Planning, Making, Undoing, Uninstalls, Removing
  <2> QED
    BY <2>1, <2>2
<1>5. Installs' /\ Uninstalls'
  <2>1. Installs'
    BY <1>2 DEF Installs, Planning, Making
  <2>2. /\ op'.pc \in {"halt", "take", "uninstalled"}
        /\ op.res \in {"proxy", "api", "key", "net", "tpl"}
    BY <1>2
  <2>3. /\ op.res \notin up /\ (op.res = "key" => ~key)
        /\ op.res \in Boxes => box[op.res] = 0
        /\ op.res \in {"api", "key", "net", "tpl"} => box["proxy"] = 0
        /\ op.res \in {"key", "net", "tpl"} => box["api"] = 0
        /\ op.res \in {"net", "tpl"} => ~key
        /\ op.res = "tpl" => box["net"] = 0
        /\ "key" \in state.gone => ~key
    BY DEF IInv, Uninstalls, Removing, Stored
  <2>4. \A r \in up : r \in Roles /\ box[r] # 0
    BY DEF IInv, TypeInv, Stored
  <2>5. Uninstalls'
    BY <1>1, <1>2, <2>2, <2>3, <2>4 DEF Uninstalls, Bare, Boxes, Roles
  <2> QED
    BY <2>1, <2>5
<1>6. Stored' /\ Accounted'
  BY <1>1, <1>2, <1>3 DEF IInv, Uninstalls, Stored, Accounted, Claimed, Marked,
     Removing
<1>7. Upgrades' /\ Rollbacks' /\ RollbackReady'
  BY <1>1, <1>2, <1>3 DEF IInv, Upgrades, Rollbacks, RollbackReady, Planning,
     Making, Undoing, Installing, Removing, Leaving, Preparing, Copying
<1> QED
  BY <1>3, <1>4, <1>5, <1>6, <1>7 DEF IInv

LEMMA SaveUninstalledInv ==
    ASSUME IInv, SaveUninstalled, UNCHANGED <<legacy, journal, world>>
    PROVE  IInv'
<1> USE DeploymentAssumption, MigrationAssumption
  DEF SaveUninstalled, At, Goto, files, docker, data, world
<1>1. Leads("rollback", "restore")
  BY UninstallReturned DEF IInv, TypeInv
<1>2. TypeInv'
  BY <1>1 DEF IInv, TypeInv, States, Uninstalls, Removing, Leads, Moves, Ends
<1>3. Commanded' /\ Fresh'
  BY <1>1, <1>2 DEF IInv, Planning, Making, Undoing, Installing, Removing, Leaving,
     Preparing, Copying, Upgrading, Returning, Rolling, Commanded, Fresh,
     Uninstalls, Leads, Moves, Same, Ends
<1>4. Installs' /\ Uninstalls'
  BY <1>1, <1>2 DEF Installs, Uninstalls, Planning, Making, Removing, Leads, Moves,
     Ends
<1>5. Stored' /\ Accounted'
  BY <1>1, <1>2 DEF IInv, Uninstalls, Bare, Stored, Accounted, Removing
<1>6. Upgrades' /\ Rollbacks' /\ RollbackReady'
  BY <1>1, <1>2 DEF IInv, TypeInv, States, Final, Removing, Leaving, Preparing,
     Copying, Uninstalls, Upgrades, Rollbacks, RollbackReady, Leads, Moves, Same,
     Ends
<1> QED
  BY <1>2, <1>3, <1>4, <1>5, <1>6 DEF IInv

----------------------------------------------------------------------------
(* upgrade                                                                  *)

LEMMA CheckInv == ASSUME IInv, Check PROVE IInv'
<1> USE DeploymentAssumption, MigrationAssumption
  DEF Check, At, Goto, files, docker, data, world
<1>1. \/ Ends
      \/ journal # None /\ Moves("adopt")
      \/ journal # None /\ Moves("recover")
      \/ /\ op' \in Ops /\ op'.cmd = op.cmd /\ op'.retry = op.retry
         /\ \/ op'.pc = "journal" /\ ~op'.re /\ state = None
            \/ op'.pc = "preserve" /\ ~op'.re /\ state = None /\ \A r \in Boxes : box[r] = 0
            \/ op'.pc \in Preparing /\ op'.re /\ journal # None /\ Evidence # None
  <2>1. op \in Ops /\ legacy \in Legacies /\ journal \in Journals \cup {None}
    BY DEF IInv, TypeInv, Commanded, Upgrading
  <2>2. (\E r \in Boxes : box[r] # 0) <=> RuntimePresent
    BY DEF IInv, TypeInv, RuntimePresent
  <2> DEFINE Prepares(re, prev, retry) ==
               /\ op' = [op EXCEPT !.pc = IF retry THEN "preserve" ELSE "journal",
                                   !.re = re, !.prev = prev,
                                   !.restart = legacy.up \/ (prev # None /\ prev.was)]
               /\ ~re => state = None
               /\ ~re /\ retry => ~RuntimePresent
               /\ re => journal # None /\ Evidence # None
             Prepared ==
               /\ op' \in Ops /\ op'.cmd = op.cmd /\ op'.retry = op.retry
               /\ \/ op'.pc = "journal" /\ ~op'.re /\ state = None
                  \/ /\ op'.pc = "preserve" /\ ~op'.re /\ state = None
                     /\ \A r \in Boxes : box[r] = 0
                  \/ op'.pc \in Preparing /\ op'.re /\ journal # None /\ Evidence # None
  <2>3. \/ op' = Idle
        \/ journal # None /\ op' = [op EXCEPT !.pc = "adopt"]
        \/ journal # None /\ op' = [op EXCEPT !.pc = "recover"]
        \/ \E re \in BOOLEAN, prev \in Journals \cup {None}, retry \in BOOLEAN :
              Prepares(re, prev, retry)
    BY <2>1
  <2> HIDE DEF Check
  <2>4. CASE op' = Idle
    BY <2>4, IdleEnds
  <2>5. CASE journal # None /\ op' = [op EXCEPT !.pc = "adopt"]
    BY <2>1, <2>5, GotoMoves DEF Pcs
  <2>6. CASE journal # None /\ op' = [op EXCEPT !.pc = "recover"]
    BY <2>1, <2>6, GotoMoves DEF Pcs, Upgrading
  <2>7. ASSUME NEW re \in BOOLEAN, NEW prev \in Journals \cup {None}, NEW retry \in BOOLEAN,
               Prepares(re, prev, retry)
        PROVE  Prepared
    <3> DEFINE restart == legacy.up \/ (prev # None /\ prev.was)
               p == IF retry THEN "preserve" ELSE "journal"
    <3>1. restart \in BOOLEAN /\ p \in Pcs
      BY DEF Pcs, Upgrading, Preparing
    <3>2. op' = [op EXCEPT !.pc = p, !.re = re, !.prev = prev, !.restart = restart]
      BY <2>7
    <3>3. p = IF retry THEN "preserve" ELSE "journal"
      OBVIOUS
    <3>4. /\ ~re => state = None
          /\ ~re /\ retry => \A r \in Boxes : box[r] = 0
          /\ re => journal # None /\ Evidence # None
      BY <2>2, <2>7
    <3> HIDE DEF p, restart, Prepares
    <3>5. op' \in Ops /\ op'.cmd = op.cmd /\ op'.retry = op.retry /\ op'.re = re /\ op'.pc = p
      BY <2>1, <3>1, <3>2 DEF Ops
    <3> QED
      BY <3>3, <3>4, <3>5 DEF Preparing
  <2>8. CASE \E re \in BOOLEAN, prev \in Journals \cup {None}, retry \in BOOLEAN :
              Prepares(re, prev, retry)
    <3> HIDE DEF Prepares
    <3>1. Prepared
      BY <2>7, <2>8
    <3> QED
      BY <3>1
  <2> HIDE DEF Prepares, Prepared
  <2> QED
    BY <2>3, <2>4, <2>5, <2>6, <2>8
<1>2. TypeInv' /\ Stored' /\ Accounted' /\ RollbackReady'
  BY <1>1, OnlyOp DEF Moves, Same, Ends
<1>3. Commanded' /\ Fresh'
  BY <1>1, <1>2 DEF IInv, Commanded, Fresh, Planning, Making, Undoing, Installing,
     Removing, Leaving, Preparing, Copying, Upgrading, Returning, Rolling, Moves,
     Same, Ends
<1>4. Installs' /\ Uninstalls'
  BY <1>1, <1>2 DEF Installs, Uninstalls, Planning, Making, Removing, Preparing,
     Moves, Ends
<1>5. Upgrades' /\ Rollbacks'
  BY <1>1, <1>2 DEF Upgrades, Rollbacks, Evidence, Planning, Making, Undoing,
     Installing, Removing, Leaving, Preparing, Copying, Returning, Moves, Ends
<1> QED
  BY <1>2, <1>3, <1>4, <1>5 DEF IInv

LEMMA RecoverActiveInv == ASSUME IInv, RecoverActive PROVE IInv'
<1> USE DeploymentAssumption, MigrationAssumption
  DEF RecoverActive, At, Goto, files, docker, data, world
<1>1. journal' \in Journals /\ journal' # None /\ journal'.snap = journal.snap
  <2>1. journal \in Journals /\ (state # None => state.id \in Nat)
    BY DEF IInv, TypeInv, Upgrades, States
  <2> QED
    BY <2>1 DEF Active, Journals, JournalsWith
<1>2. Ends
  BY IdleEnds DEF IInv, TypeInv
<1>3. TypeInv'
  BY <1>1, <1>2 DEF IInv, TypeInv, Ends
<1>4. Commanded' /\ Fresh'
  BY <1>1, <1>2, <1>3 DEF IInv, Commanded, Fresh, Planning, Making, Undoing,
     Installing, Removing, Leaving, Preparing, Copying, Upgrading, Returning,
     Rolling, Ends
<1>5. Installs' /\ Uninstalls'
  BY <1>1, <1>2, <1>3 DEF Installs, Uninstalls, Planning, Making, Removing, Ends
<1>6. Stored' /\ Accounted'
  BY <1>1, <1>2, <1>3 DEF IInv, Stored, Accounted, Claimed, Marked
<1>7. Upgrades' /\ Rollbacks' /\ RollbackReady'
  BY <1>1, <1>2, <1>3 DEF IInv, Upgrades, Rollbacks, RollbackReady, Preparing,
     Copying, Ends
<1> QED
  BY <1>3, <1>4, <1>5, <1>6, <1>7 DEF IInv

LEMMA PreserveInv == ASSUME IInv, Preserve PROVE IInv'
<1> USE DeploymentAssumption, MigrationAssumption
  DEF Preserve, At, Goto, files, docker, data, world
<1>1. Moves("journal")
  BY GotoMoves DEF IInv, TypeInv, Pcs, Upgrading, Preparing
<1>2. TypeInv'
  BY <1>1 DEF IInv, TypeInv, Moves
<1>3. Commanded' /\ Fresh'
  BY <1>1, <1>2 DEF IInv, Commanded, Fresh, Planning, Making, Undoing, Removing,
     Leaving, Preparing, Upgrading, Returning, Rolling
<1>4. Installs' /\ Uninstalls'
  BY <1>1, <1>2 DEF Installs, Uninstalls, Planning, Making, Removing
<1>5. Stored' /\ Accounted'
  BY <1>1, <1>2 DEF IInv, Boxes, Preparing, Stored, Upgrades, Accounted, Claimed,
     Marked
<1>6. Upgrades' /\ Rollbacks' /\ RollbackReady'
  BY <1>1, <1>2 DEF IInv, Upgrades, Rollbacks, RollbackReady, Evidence, Planning,
     Making, Undoing, Installing, Removing, Leaving, Preparing, Copying, Returning
<1> QED
  BY <1>2, <1>3, <1>4, <1>5, <1>6 DEF IInv

LEMMA PrepareAttemptInv == ASSUME IInv, PrepareAttempt PROVE IInv'
<1> USE DeploymentAssumption, MigrationAssumption
  DEF PrepareAttempt, At, Goto, files, docker, data, world
<1>1. Preflight(op.re, op.re) => Bare /\ up = {}
  BY PreflightBare
<1>2. \/ /\ Preflight(op.re, op.re) /\ journal' = NewJournal /\ NewJournal \in Journals
         /\ op' \in Ops /\ op'.pc = "stop_legacy" /\ op'.cmd = op.cmd /\ op'.re = op.re
         /\ op'.retry = op.retry /\ op'.jr = NewJournal
      \/ UNCHANGED journal /\ (Ends \/ Moves("unprepare"))
  <2>1. op \in Ops /\ (op.re => Evidence \in Journals)
    BY DEF IInv, TypeInv, Upgrades, Preparing, Evidence, Journals, Priors,
       JournalsWith
  <2>2. NewJournal \in Journals
    <3>1. op.re => [Evidence EXCEPT !.prior = None] \in Priors
      BY <2>1 DEF Journals, Priors, JournalsWith
    <3> QED
      BY <2>1, <3>1 DEF NewJournal, Ops, Journals, JournalsWith
  <2>3. CASE Preflight(op.re, op.re) /\ (op.re \/ target = None)
    <3>1. op' = [op EXCEPT !.pc = "stop_legacy", !.jr = NewJournal] /\ journal' = NewJournal
      BY <2>3
    <3> HIDE DEF PrepareAttempt
    <3> QED
      BY <2>1, <2>2, <2>3, <3>1 DEF Ops, Pcs, Upgrading, Copying
  <2>4. CASE ~(Preflight(op.re, op.re) /\ (op.re \/ target = None))
    <3>1. (op' = Idle \/ op' = [op EXCEPT !.pc = "unprepare"]) /\ UNCHANGED journal
      BY <2>4 DEF PrepareFails
    <3> QED
      BY <2>1, <3>1, IdleEnds, GotoMoves DEF Pcs, Upgrading
  <2> QED
    BY <2>3, <2>4
<1>3. TypeInv'
  BY <1>1, <1>2 DEF IInv, TypeInv, Moves, Ends
<1>4. Commanded' /\ Fresh'
  BY <1>1, <1>2, <1>3 DEF IInv, Commanded, Fresh, Planning, Making, Undoing,
     Installing, Removing, Leaving, Preparing, Copying, Upgrading, Returning,
     Rolling, Moves, Same, Ends
<1>5. Installs' /\ Uninstalls'
  BY <1>1, <1>2, <1>3 DEF Installs, Uninstalls, Planning, Making, Removing, Moves,
     Ends
<1>6. Stored' /\ Accounted'
  BY <1>1, <1>2, <1>3 DEF IInv, Stored, Accounted, Claimed, Marked
<1>7. Upgrades' /\ Rollbacks' /\ RollbackReady'
  BY <1>1, <1>2, <1>3 DEF IInv, Planning, Making, Undoing, Installing, Preparing,
     Copying, Upgrading, Commanded, Bare, Upgrades, Rollbacks, RollbackReady,
     Moves, Same, Ends
<1> QED
  BY <1>3, <1>4, <1>5, <1>6, <1>7 DEF IInv

LEMMA StopLegacyInv == ASSUME IInv, StopLegacy PROVE IInv'
<1> USE DeploymentAssumption, MigrationAssumption
  DEF StopLegacy, At, Goto, files, docker, data, world
<1>1. legacy' \in Legacies /\ legacy'.data = legacy.data /\ ~legacy'.up
  <2>1. legacy \in Legacies
    BY DEF IInv, TypeInv, Commanded, Upgrading, Copying
  <2> QED
    BY <2>1 DEF Legacies
<1>2. Moves("snapshot")
  BY GotoMoves DEF IInv, TypeInv, Pcs, Upgrading, Copying
<1>3. TypeInv'
  BY <1>1, <1>2 DEF IInv, TypeInv, Moves
<1>4. Commanded' /\ Fresh'
  BY <1>1, <1>2, <1>3 DEF IInv, Commanded, Fresh, Planning, Making, Undoing,
     Removing, Leaving, Copying, Upgrading, Returning, Rolling, Moves, Same
<1>5. Installs' /\ Uninstalls'
  BY <1>1, <1>2, <1>3 DEF Installs, Uninstalls, Planning, Making, Removing
<1>6. Stored' /\ Accounted'
  BY <1>1, <1>2, <1>3 DEF IInv, Stored, Accounted, Claimed, Marked
<1>7. Upgrades' /\ Rollbacks' /\ RollbackReady'
  BY <1>1, <1>2, <1>3 DEF IInv, Commanded, Upgrades, Rollbacks, RollbackReady,
     Planning, Making, Undoing, Installing, Preparing, Copying, Upgrading
<1> QED
  BY <1>3, <1>4, <1>5, <1>6, <1>7 DEF IInv

LEMMA SnapshotInv == ASSUME IInv, Snapshot PROVE IInv'
<1> USE DeploymentAssumption, MigrationAssumption
  DEF Snapshot, At, Goto, files, docker, data, world
<1>1. /\ op' \in Ops /\ op'.pc = "copy" /\ op'.cmd = op.cmd /\ op'.re = op.re
      /\ op'.retry = op.retry /\ op'.jr \in Journals /\ op'.jr.snap = legacy.data
  <2>1. op \in Ops /\ op.jr \in Journals /\ legacy \in Legacies
    BY DEF IInv, TypeInv, Ops, Commanded, Upgrades, Upgrading, Copying
  <2>2. PICK j : /\ j = [op.jr EXCEPT !.snap = legacy.data]
                 /\ op' = [op EXCEPT !.pc = "copy", !.jr = j]
    BY <2>1 DEF Ops
  <2>3. j \in Journals /\ j.snap = legacy.data
    BY <2>1, <2>2 DEF Journals, JournalsWith, Legacies
  <2> HIDE DEF Snapshot
  <2> QED
    BY <2>1, <2>2, <2>3 DEF Ops, Pcs, Upgrading, Copying
<1>2. TypeInv' /\ Stored' /\ Accounted' /\ RollbackReady'
  BY <1>1, OnlyOp
<1>3. Commanded' /\ Fresh'
  BY <1>1, <1>2 DEF IInv, Commanded, Fresh, Planning, Making, Undoing, Removing,
     Leaving, Copying, Upgrading, Returning, Rolling
<1>4. Installs' /\ Uninstalls'
  BY <1>1, <1>2 DEF Installs, Uninstalls, Planning, Making, Removing
<1>5. Upgrades' /\ Rollbacks'
  BY <1>1, <1>2 DEF IInv, Upgrades, Rollbacks, Planning, Making, Undoing,
     Installing, Removing, Leaving, Preparing, Copying, Returning
<1> QED
  BY <1>2, <1>3, <1>4, <1>5 DEF IInv

LEMMA CopyTargetInv == ASSUME IInv, CopyTarget PROVE IInv'
<1> USE DeploymentAssumption, MigrationAssumption
  DEF CopyTarget, At, Goto, files, docker, data, world
<1>1. Moves("complete")
  BY GotoMoves DEF IInv, TypeInv, Pcs, Upgrading, Copying
<1>2. TypeInv'
  BY <1>1 DEF IInv, TypeInv, Targets, Legacies, Copying, Upgrading, Commanded,
     Upgrades, Moves
<1>3. Commanded' /\ Fresh'
  BY <1>1, <1>2 DEF IInv, Commanded, Fresh, Planning, Making, Undoing, Removing,
     Leaving, Copying, Upgrading, Returning, Rolling
<1>4. Installs' /\ Uninstalls'
  BY <1>1, <1>2 DEF Installs, Uninstalls, Planning, Making, Removing
<1>5. Stored' /\ Accounted'
  BY <1>1, <1>2 DEF IInv, Boxes, Copying, Stored, Upgrades, Accounted, Claimed
<1>6. Upgrades' /\ Rollbacks' /\ RollbackReady'
  BY <1>1, <1>2 DEF IInv, Upgrades, Rollbacks, RollbackReady, Planning, Making,
     Undoing, Installing, Removing, Leaving, Preparing, Copying, Returning
<1> QED
  BY <1>2, <1>3, <1>4, <1>5, <1>6 DEF IInv

LEMMA SnapshotCompleteInv == ASSUME IInv, SnapshotComplete PROVE IInv'
<1> USE DeploymentAssumption, MigrationAssumption
  DEF SnapshotComplete, At, Goto, files, docker, data, world
<1>1. /\ op' \in Ops /\ op'.pc = "preflight" /\ op'.cmd = op.cmd /\ op'.re = op.re
      /\ op'.retry = op.retry /\ op'.jr = journal' /\ journal' \in Journals
      /\ journal'.snap = op.jr.snap
  <2>1. op \in Ops /\ op.jr \in Journals /\ target \in Targets \cup {None}
    BY DEF IInv, TypeInv, Ops, Upgrades, Copying
  <2>2. journal' \in Journals /\ journal'.snap = op.jr.snap
    BY <2>1 DEF Journals, JournalsWith
  <2>3. op' = [op EXCEPT !.pc = "preflight", !.jr = journal']
    OBVIOUS
  <2> HIDE DEF SnapshotComplete
  <2> QED
    BY <2>1, <2>2, <2>3 DEF Ops, Pcs, Installing
<1>2. TypeInv'
  BY <1>1 DEF IInv, TypeInv
<1>3. Commanded' /\ Fresh'
  BY <1>1, <1>2 DEF IInv, Commanded, Fresh, Planning, Making, Undoing, Removing,
     Leaving, Copying, Upgrading, Returning, Rolling
<1>4. Installs' /\ Uninstalls'
  BY <1>1, <1>2 DEF Installs, Uninstalls, Planning, Making, Removing
<1>5. Stored' /\ Accounted'
  BY <1>1, <1>2 DEF IInv, Stored, Accounted, Claimed, Marked
<1>6. Upgrades' /\ Rollbacks' /\ RollbackReady'
  BY <1>1, <1>2 DEF IInv, Upgrades, Rollbacks, RollbackReady, Preparing, Copying
<1> QED
  BY <1>2, <1>3, <1>4, <1>5, <1>6 DEF IInv

LEMMA SaveUpgradedInv == ASSUME IInv, SaveUpgraded PROVE IInv'
<1> USE DeploymentAssumption, MigrationAssumption
  DEF SaveUpgraded, At, Goto, files, docker, data, world
<1>1. journal' \in Journals /\ journal' # None /\ journal'.snap = op.jr.snap
  <2>1. op.jr \in Journals /\ state.id \in Nat
    BY DEF IInv, TypeInv, Upgrades, States, Ops
  <2> QED
    BY <2>1 DEF Journals, JournalsWith
<1>2. Ends
  BY IdleEnds DEF IInv, TypeInv
<1>3. TypeInv'
  BY <1>1, <1>2 DEF IInv, TypeInv, Ends
<1>4. Commanded' /\ Fresh'
  BY <1>1, <1>2, <1>3 DEF IInv, Commanded, Fresh, Planning, Making, Undoing,
     Installing, Removing, Leaving, Preparing, Copying, Upgrading, Returning,
     Rolling, Ends
<1>5. Installs' /\ Uninstalls'
  BY <1>1, <1>2, <1>3 DEF Installs, Uninstalls, Planning, Making, Removing, Ends
<1>6. Stored' /\ Accounted'
  BY <1>1, <1>2, <1>3 DEF IInv, Stored, Accounted, Claimed, Marked
<1>7. Upgrades' /\ Rollbacks' /\ RollbackReady'
  BY <1>1, <1>2, <1>3 DEF IInv, Commanded, Upgrades, Rollbacks, RollbackReady,
     Preparing, Copying, Upgrading, Ends
<1> QED
  BY <1>3, <1>4, <1>5, <1>6, <1>7 DEF IInv

LEMMA UnprepareInv == ASSUME IInv, Unprepare PROVE IInv'
<1> USE DeploymentAssumption, MigrationAssumption
  DEF Unprepare, RestoreLegacy, Restorable, At, Goto, files, docker, data, world
<1>1. /\ legacy' \in Legacies /\ legacy'.data = legacy.data
      /\ legacy'.up => legacy.up \/ up = {}
  <2>1. legacy \in Legacies
    BY DEF IInv, TypeInv, Commanded, Upgrading
  <2> QED
    BY <2>1 DEF Legacies
<1>2. Ends
  BY IdleEnds
<1>3. TypeInv'
  BY <1>1, <1>2 DEF IInv, TypeInv, Ends
<1>4. Commanded' /\ Fresh'
  BY <1>1, <1>2, <1>3 DEF IInv, Commanded, Fresh, Planning, Making, Undoing,
     Installing, Removing, Leaving, Preparing, Copying, Upgrading, Returning,
     Rolling, Ends
<1>5. Installs' /\ Uninstalls'
  BY <1>1, <1>2, <1>3 DEF Installs, Uninstalls, Planning, Making, Removing, Ends
<1>6. Stored' /\ Accounted'
  BY <1>1, <1>2, <1>3 DEF IInv, Stored, Accounted, Claimed, Marked
<1>7. Upgrades' /\ Rollbacks' /\ RollbackReady'
  BY <1>1, <1>2, <1>3 DEF IInv, Upgrades, Rollbacks, RollbackReady, Preparing,
     Copying, Ends
<1> QED
  BY <1>3, <1>4, <1>5, <1>6, <1>7 DEF IInv

LEMMA UpgradeFailedInv == ASSUME IInv, UpgradeFailed PROVE IInv'
<1> USE DeploymentAssumption, MigrationAssumption
  DEF UpgradeFailed, RestoreLegacy, Restorable, At, Goto, files, docker, data, world
<1>1. /\ legacy' \in Legacies /\ legacy'.data = legacy.data
      /\ legacy'.up => legacy.up \/ up = {}
  <2>1. legacy \in Legacies
    BY DEF IInv, TypeInv, Commanded, Upgrading
  <2> QED
    BY <2>1 DEF Legacies
<1>2. /\ op' \in Ops /\ op'.pc = "failed_save" /\ op'.cmd = op.cmd /\ op'.retry = op.retry
      /\ op'.jr \in Journals /\ op'.jr.snap = op.jr.snap
  <2>1. op \in Ops /\ op.jr \in Journals
    BY DEF IInv, TypeInv, Ops, Upgrades
  <2>2. PICK s \in {"upgrade-failed", "reupgrade-failed"} :
            op' = [op EXCEPT !.pc = "failed_save", !.jr = [op.jr EXCEPT !.status = s]]
    BY <2>1 DEF Ops
  <2> HIDE DEF UpgradeFailed
  <2> DEFINE j == [op.jr EXCEPT !.status = s]
  <2>3. j \in Journals /\ j.snap = op.jr.snap
    BY <2>1, <2>2 DEF Journals, JournalsWith
  <2>4. op' = [op EXCEPT !.pc = "failed_save", !.jr = j]
    BY <2>2
  <2> HIDE DEF j
  <2> QED
    BY <2>1, <2>3, <2>4 DEF Ops, Pcs, Upgrading
<1>3. TypeInv'
  BY <1>1, <1>2 DEF IInv, TypeInv
<1>4. Commanded' /\ Fresh'
  BY <1>1, <1>2, <1>3 DEF IInv, Commanded, Fresh, Planning, Making, Undoing,
     Removing, Leaving, Upgrading, Returning, Rolling
<1>5. Installs' /\ Uninstalls'
  BY <1>1, <1>2, <1>3 DEF Installs, Uninstalls, Planning, Making, Removing
<1>6. Stored' /\ Accounted'
  BY <1>1, <1>2, <1>3 DEF IInv, Stored, Accounted, Claimed, Marked
<1>7. Upgrades' /\ Rollbacks' /\ RollbackReady'
  BY <1>1, <1>2, <1>3 DEF IInv, Upgrades, Rollbacks, RollbackReady, Planning,
     Making, Undoing, Installing, Removing, Leaving, Preparing, Copying, Returning
<1> QED
  BY <1>3, <1>4, <1>5, <1>6, <1>7 DEF IInv

LEMMA SaveFailedInv == ASSUME IInv, SaveFailed PROVE IInv'
<1> USE DeploymentAssumption, MigrationAssumption
  DEF SaveFailed, At, Goto, files, docker, data, world
<1>1. Ends
  BY IdleEnds DEF IInv, TypeInv
<1>2. TypeInv'
  BY <1>1 DEF IInv, TypeInv, Ops, Ends
<1>3. Commanded' /\ Fresh'
  BY <1>1, <1>2 DEF IInv, Commanded, Fresh, Planning, Making, Undoing, Installing,
     Removing, Leaving, Preparing, Copying, Upgrading, Returning, Rolling, Ends
<1>4. Installs' /\ Uninstalls'
  BY <1>1, <1>2 DEF Installs, Uninstalls, Planning, Making, Removing, Ends
<1>5. Stored' /\ Accounted'
  BY <1>1, <1>2 DEF IInv, Stored, Accounted, Claimed, Marked
<1>6. Upgrades' /\ Rollbacks' /\ RollbackReady'
  BY <1>1, <1>2 DEF IInv, Upgrades, Rollbacks, RollbackReady, Preparing, Copying,
     Ends
<1> QED
  BY <1>2, <1>3, <1>4, <1>5, <1>6 DEF IInv

----------------------------------------------------------------------------
(* rollback                                                                 *)

LEMMA RollbackCheckInv == ASSUME IInv, RollbackCheck PROVE IInv'
<1> USE DeploymentAssumption, MigrationAssumption
  DEF RollbackCheck, At, Goto, files, docker, data, world
<1>1. \/ Ends
      \/ Moves("roll_again")
      \/ /\ op' \in Ops /\ op'.pc = "owned" /\ op'.cmd = op.cmd /\ op'.retry = op.retry
         /\ op'.jr = journal /\ journal # None
  <2>1. \/ op' = Idle
        \/ op' = [op EXCEPT !.pc = "roll_again"]
        \/ journal # None /\ op' = [op EXCEPT !.pc = "owned", !.jr = journal]
    OBVIOUS
  <2>2. op \in Ops /\ journal \in Journals \cup {None}
    BY DEF IInv, TypeInv
  <2>3. CASE op' = Idle
    BY <2>3, IdleEnds
  <2>4. CASE op' = [op EXCEPT !.pc = "roll_again"]
    BY <2>2, <2>4, GotoMoves DEF Pcs, Rolling
  <2>5. CASE journal # None /\ op' = [op EXCEPT !.pc = "owned", !.jr = journal]
    <3> HIDE DEF RollbackCheck
    <3> QED
      BY <2>2, <2>5 DEF Ops, Pcs, Leaving
  <2> QED
    BY <2>1, <2>3, <2>4, <2>5
<1>2. TypeInv' /\ Stored' /\ Accounted' /\ RollbackReady'
  BY <1>1, OnlyOp DEF Moves, Same, Ends
<1>3. Commanded' /\ Fresh'
  BY <1>1, <1>2 DEF IInv, Commanded, Fresh, Planning, Making, Undoing, Installing,
     Removing, Leaving, Preparing, Copying, Upgrading, Returning, Rolling, Moves,
     Same, Ends
<1>4. Installs' /\ Uninstalls'
  BY <1>1, <1>2 DEF Installs, Uninstalls, Planning, Making, Removing, Moves, Ends
<1>5. Upgrades' /\ Rollbacks'
  BY <1>1, <1>2 DEF Upgrades, Rollbacks, Planning, Making, Undoing, Installing,
     Removing, Leaving, Preparing, Copying, Returning, Moves, Ends
<1> QED
  BY <1>2, <1>3, <1>4, <1>5 DEF IInv

LEMMA RollbackAgainInv == ASSUME IInv, RollbackAgain PROVE IInv'
<1> USE DeploymentAssumption, MigrationAssumption
  DEF RollbackAgain, RestoreLegacy, Restorable, At, Goto, files, docker, data, world
<1>1. /\ legacy' \in Legacies /\ legacy'.data = legacy.data
      /\ legacy'.up => legacy.up \/ up = {}
  <2>1. legacy \in Legacies
    BY DEF IInv, TypeInv, Commanded, Rolling
  <2> QED
    BY <2>1 DEF Legacies
<1>2. Ends
  BY IdleEnds
<1>3. TypeInv'
  BY <1>1, <1>2 DEF IInv, TypeInv, Ends
<1>4. Commanded' /\ Fresh'
  BY <1>1, <1>2, <1>3 DEF IInv, Commanded, Fresh, Planning, Making, Undoing,
     Installing, Removing, Leaving, Preparing, Copying, Upgrading, Returning,
     Rolling, Ends
<1>5. Installs' /\ Uninstalls'
  BY <1>1, <1>2, <1>3 DEF Installs, Uninstalls, Planning, Making, Removing, Ends
<1>6. Stored' /\ Accounted'
  BY <1>1, <1>2, <1>3 DEF IInv, Stored, Accounted, Claimed, Marked
<1>7. Upgrades' /\ Rollbacks' /\ RollbackReady'
  BY <1>1, <1>2, <1>3 DEF IInv, Upgrades, Rollbacks, RollbackReady, Preparing,
     Copying, Ends
<1> QED
  BY <1>3, <1>4, <1>5, <1>6, <1>7 DEF IInv

LEMMA RollbackRestoreInv == ASSUME IInv, RollbackRestore PROVE IInv'
<1> USE DeploymentAssumption, MigrationAssumption
  DEF RollbackRestore, RestoreLegacy, Restorable, At, Goto, files, docker, data, world
<1>1. /\ legacy' \in Legacies /\ legacy'.data = legacy.data
      /\ legacy'.up => legacy.up \/ up = {}
  <2>1. legacy \in Legacies
    BY DEF IInv, TypeInv, Commanded, Rolling, Returning
  <2> QED
    BY <2>1 DEF Legacies
<1>2. Moves("roll_state") \/ Moves("rollback_failed")
  BY GotoMoves DEF IInv, TypeInv, Pcs, Rolling, Returning
<1>3. TypeInv'
  BY <1>1, <1>2 DEF IInv, TypeInv, Moves
<1>4. Commanded' /\ Fresh'
  BY <1>1, <1>2, <1>3 DEF IInv, Commanded, Fresh, Planning, Making, Undoing,
     Installing, Preparing, Copying, Upgrading, Returning, Rolling, Moves, Same
<1>5. Installs' /\ Uninstalls'
  BY <1>1, <1>2, <1>3 DEF Installs, Uninstalls, Planning, Making, Removing
<1>6. Stored' /\ Accounted'
  BY <1>1, <1>2, <1>3 DEF IInv, Stored, Accounted, Claimed, Marked
<1>7. Upgrades' /\ Rollbacks' /\ RollbackReady'
  BY <1>1, <1>2, <1>3 DEF IInv, Upgrades, Rollbacks, RollbackReady, Planning,
     Making, Undoing, Installing, Preparing, Copying, Returning
<1> QED
  BY <1>3, <1>4, <1>5, <1>6, <1>7 DEF IInv

LEMMA RollbackStateInv == ASSUME IInv, RollbackState PROVE IInv'
<1> USE DeploymentAssumption, MigrationAssumption
  DEF RollbackState, At, Goto, files, docker, data, world
<1>1. state' \in States /\ state' # None /\ state'.status = "rolled_back"
      /\ state'.id = state.id
  <2>1. state \in States
    BY DEF IInv, TypeInv, Rollbacks
  <2> QED
    BY <2>1 DEF States
<1>2. /\ op' \in Ops /\ op'.pc = "roll_journal" /\ op'.cmd = op.cmd /\ op'.retry = op.retry
      /\ op'.jr \in Journals /\ op'.jr.snap = op.jr.snap
  <2>1. op \in Ops /\ op.jr \in Journals /\ target \in Targets \cup {None}
    BY DEF IInv, TypeInv, Ops, Commanded, Rollbacks, Rolling, Returning
  <2>2. PICK kept \in {"verified", "unavailable"} :
            op' = [op EXCEPT !.pc = "roll_journal", !.jr.kept = kept, !.jr.target = target,
                             !.jr.status = "rolled_back"]
    OBVIOUS
  <2> HIDE DEF RollbackState
  <2> DEFINE j == [[[op.jr EXCEPT !.kept = kept] EXCEPT !.target = target]
                      EXCEPT !.status = "rolled_back"]
  <2>3. j \in Journals /\ j.snap = op.jr.snap
    BY <2>1, <2>2 DEF Journals, JournalsWith
  <2>4. op' = [op EXCEPT !.pc = "roll_journal", !.jr = j]
    BY <2>1, <2>2 DEF Ops
  <2> HIDE DEF j
  <2> QED
    BY <2>1, <2>3, <2>4 DEF Ops, Pcs, Rolling, Returning
<1>3. TypeInv'
  BY <1>1, <1>2 DEF IInv, TypeInv
<1>4. Commanded' /\ Fresh'
  BY <1>1, <1>2, <1>3 DEF IInv, Commanded, Fresh, Rollbacks, Planning, Making,
     Undoing, Installing, Preparing, Copying, Upgrading, Returning, Rolling
<1>5. Installs' /\ Uninstalls'
  BY <1>1, <1>2, <1>3 DEF Installs, Uninstalls, Planning, Making, Removing
<1>6. Stored' /\ Accounted'
  <2>1. state # None /\ state.status \in Final
    BY DEF IInv, Rollbacks
  <2>2. Stored'
    BY <1>1, <2>1 DEF IInv, Stored
  <2>3. \A id : Claimed(id) => Claimed(id)'
    BY <1>1, <2>1 DEF Claimed
  <2>4. \A r : ~Marked(r)'
    BY <1>1 DEF Marked
  <2>5. Accounted'
    BY <2>3, <2>4 DEF IInv, Accounted
  <2> QED
    BY <2>2, <2>5
<1>7. Upgrades' /\ Rollbacks' /\ RollbackReady'
  BY <1>1, <1>2, <1>3 DEF IInv, Commanded, Final, Upgrades, Rollbacks,
     RollbackReady, Preparing, Copying, Returning, Rolling
<1> QED
  BY <1>3, <1>4, <1>5, <1>6, <1>7 DEF IInv

LEMMA RollbackJournalInv == ASSUME IInv, RollbackJournal PROVE IInv'
<1> USE DeploymentAssumption, MigrationAssumption
  DEF RollbackJournal, At, Goto, files, docker, data, world
<1>1. Ends
  BY IdleEnds DEF IInv, TypeInv
<1>2. TypeInv'
  BY <1>1 DEF IInv, TypeInv, Ops, Ends
<1>3. Commanded' /\ Fresh'
  BY <1>1, <1>2 DEF IInv, Commanded, Fresh, Planning, Making, Undoing, Installing,
     Removing, Leaving, Preparing, Copying, Upgrading, Returning, Rolling, Ends
<1>4. Installs' /\ Uninstalls'
  BY <1>1, <1>2 DEF Installs, Uninstalls, Planning, Making, Removing, Ends
<1>5. Stored' /\ Accounted'
  BY <1>1, <1>2 DEF IInv, Stored, Accounted, Claimed, Marked
<1>6. Upgrades' /\ Rollbacks' /\ RollbackReady'
  BY <1>1, <1>2 DEF IInv, Commanded, Upgrades, Rollbacks, RollbackReady, Preparing,
     Copying, Returning, Rolling, Ends
<1> QED
  BY <1>2, <1>3, <1>4, <1>5, <1>6 DEF IInv

LEMMA RollbackFailedInv == ASSUME IInv, RollbackFailed PROVE IInv'
<1> USE DeploymentAssumption, MigrationAssumption
  DEF RollbackFailed, At, Goto, files, docker, data, world
<1>1. Ends
  BY IdleEnds DEF IInv, TypeInv
<1>2. TypeInv'
  BY <1>1 DEF IInv, TypeInv, Journals, JournalsWith, Ops, Returning, Rolling,
     Commanded, Rollbacks, Ends
<1>3. Commanded' /\ Fresh'
  BY <1>1, <1>2 DEF IInv, Commanded, Fresh, Planning, Making, Undoing, Installing,
     Removing, Leaving, Preparing, Copying, Upgrading, Returning, Rolling, Ends
<1>4. Installs' /\ Uninstalls'
  BY <1>1, <1>2 DEF Installs, Uninstalls, Planning, Making, Removing, Ends
<1>5. Stored' /\ Accounted'
  BY <1>1, <1>2 DEF IInv, Stored, Accounted, Claimed, Marked
<1>6. Upgrades' /\ Rollbacks' /\ RollbackReady'
  BY <1>1, <1>2 DEF IInv, TypeInv, States, Journals, JournalsWith, Ops, Preparing,
     Copying, Returning, Rolling, Commanded, Upgrades, Rollbacks, RollbackReady,
     Ends
<1> QED
  BY <1>2, <1>3, <1>4, <1>5, <1>6 DEF IInv

----------------------------------------------------------------------------
(* Failures                                                                 *)

LEMMA RaiseInHandlerInv == ASSUME IInv, RaiseInHandler PROVE IInv'
<1> USE DeploymentAssumption, MigrationAssumption
  DEF RaiseInHandler, At, Goto, files, docker, data, world
<1>1. /\ op' \in Ops /\ op'.pc = "failed_save" /\ op'.cmd = op.cmd /\ op'.retry = op.retry
      /\ op'.jr \in Journals /\ op'.jr.snap = op.jr.snap
  <2>1. op \in Ops /\ op.jr \in Journals
    BY DEF IInv, TypeInv, Ops, Upgrades
  <2>2. PICK s \in {"upgrade-failed", "reupgrade-failed"} :
            op' = [op EXCEPT !.pc = "failed_save", !.jr = [op.jr EXCEPT !.status = s]]
    BY <2>1 DEF Ops
  <2> HIDE DEF RaiseInHandler
  <2> DEFINE j == [op.jr EXCEPT !.status = s]
  <2>3. j \in Journals /\ j.snap = op.jr.snap
    BY <2>1, <2>2 DEF Journals, JournalsWith
  <2>4. op' = [op EXCEPT !.pc = "failed_save", !.jr = j]
    BY <2>2
  <2> HIDE DEF j
  <2> QED
    BY <2>1, <2>3, <2>4 DEF Ops, Pcs, Upgrading
<1>2. TypeInv' /\ Stored' /\ Accounted' /\ RollbackReady'
  BY <1>1, OnlyOp
<1>3. Commanded' /\ Fresh'
  BY <1>1, <1>2 DEF IInv, Commanded, Fresh, Planning, Making, Undoing, Removing,
     Leaving, Upgrading, Returning, Rolling
<1>4. Installs' /\ Uninstalls'
  BY <1>1, <1>2 DEF Installs, Uninstalls, Planning, Making, Removing
<1>5. Upgrades' /\ Rollbacks'
  BY <1>1, <1>2 DEF IInv, Upgrades, Rollbacks, Planning, Making, Undoing,
     Installing, Removing, Leaving, Preparing, Copying, Returning
<1> QED
  BY <1>2, <1>3, <1>4, <1>5 DEF IInv

LEMMA StopInv == ASSUME IInv, Stop PROVE IInv'
<1> USE DeploymentAssumption, MigrationAssumption
  DEF Stop, StopDeployment, At, Goto, files, docker, data, world
<1>1. Ends
  BY IdleEnds
<1>2. TypeInv' /\ Stored' /\ Accounted' /\ RollbackReady'
  BY <1>1, OnlyOp DEF Ends
<1>3. Commanded' /\ Fresh'
  BY <1>1, <1>2 DEF IInv, Commanded, Fresh, Planning, Making, Undoing, Installing,
     Removing, Leaving, Preparing, Copying, Upgrading, Returning, Rolling, Ends
<1>4. Installs' /\ Uninstalls'
  BY <1>1, <1>2 DEF Installs, Uninstalls, Planning, Making, Removing, Ends
<1>5. Upgrades' /\ Rollbacks'
  BY <1>1, <1>2 DEF Upgrades, Rollbacks, Preparing, Copying, Ends
<1> QED
  BY <1>2, <1>3, <1>4, <1>5 DEF IInv

\* A step of install, adopt or uninstall raises: by the step.
LEMMA RaiseEarlyInv ==
    ASSUME IInv, RaiseDeployment, UNCHANGED <<legacy, journal, world>>,
           op.pc \in {"preflight", "cleanup_failed"}
    PROVE  IInv'
<1> USE DeploymentAssumption, MigrationAssumption DEF At, files, docker, data, world
<1>1. /\ op' = Raised(op, "install")
      /\ UNCHANGED <<state, attempt, box, up, key, target, made>>
  BY RaiseFrame DEF Proc, InstallHandler
<1>2. Leads("upgrade", "failed")
  BY <1>1, InstallRaised DEF IInv, TypeInv
<1>3. TypeInv' /\ Stored' /\ Accounted' /\ RollbackReady'
  BY <1>1, <1>2, OnlyOp DEF Leads, Moves, Ends
<1>4. Commanded' /\ Fresh'
  BY <1>1, <1>2, <1>3 DEF IInv, Commanded, Fresh, Planning, Making, Undoing,
     Installing, Removing, Leaving, Preparing, Copying, Upgrading, Returning,
     Rolling, Leads, Moves, Same, Ends
<1>5. Installs' /\ Uninstalls'
  BY <1>1, <1>2, <1>3 DEF Installs, Uninstalls, Planning, Making, Removing, Leads,
     Moves, Ends
<1>6. Upgrades' /\ Rollbacks'
  BY <1>1, <1>2, <1>3 DEF IInv, Upgrades, Rollbacks, Undoing, Installing,
     Preparing, Copying, Leads, Moves, Same, Ends
<1> QED
  BY <1>3, <1>4, <1>5, <1>6 DEF IInv

LEMMA RaiseAdoptInv ==
    ASSUME IInv, RaiseDeployment, UNCHANGED <<legacy, journal, world>>, op.pc = "adopt"
    PROVE  IInv'
<1> USE DeploymentAssumption, MigrationAssumption DEF At, files, docker, data, world
<1>1. op' = Raised(op, "adopt") /\ UNCHANGED <<state, attempt, box, up, key, target, made>>
  BY RaiseFrame DEF Proc
<1>2. Ends
  BY <1>1, AdoptRaised
<1>3. TypeInv' /\ Stored' /\ Accounted' /\ RollbackReady'
  BY <1>1, <1>2, OnlyOp DEF Ends
<1>4. Commanded' /\ Fresh'
  BY <1>1, <1>2, <1>3 DEF IInv, Commanded, Fresh, Planning, Making, Undoing,
     Installing, Removing, Leaving, Preparing, Copying, Upgrading, Returning,
     Rolling, Ends
<1>5. Installs' /\ Uninstalls'
  BY <1>1, <1>2, <1>3 DEF Installs, Uninstalls, Planning, Making, Removing, Ends
<1>6. Upgrades' /\ Rollbacks'
  BY <1>1, <1>2, <1>3 DEF Upgrades, Rollbacks, Preparing, Copying, Ends
<1> QED
  BY <1>3, <1>4, <1>5, <1>6 DEF IInv

LEMMA RaiseRemovingInv ==
    ASSUME IInv, RaiseDeployment, UNCHANGED <<legacy, journal, world>>,
           op.pc \in {"owned", "halt", "take"}
    PROVE  IInv'
<1> USE DeploymentAssumption, MigrationAssumption DEF At, files, docker, data, world
<1>1. /\ op' = Raised(op, "uninstall")
      /\ UNCHANGED <<state, attempt, box, up, key, target, made>>
  BY RaiseFrame DEF Proc
<1>2. Leads("rollback", "rollback_failed")
  BY <1>1, UninstallRaised DEF IInv, TypeInv
<1>3. TypeInv' /\ Stored' /\ Accounted' /\ RollbackReady'
  BY <1>1, <1>2, OnlyOp DEF Leads, Moves, Ends
<1>4. Commanded' /\ Fresh'
  BY <1>1, <1>2, <1>3 DEF IInv, Commanded, Fresh, Planning, Making, Undoing,
     Installing, Removing, Leaving, Preparing, Copying, Upgrading, Returning,
     Rolling, Leads, Moves, Same, Ends
<1>5. Installs' /\ Uninstalls'
  BY <1>1, <1>2, <1>3 DEF Installs, Uninstalls, Planning, Making, Removing, Leads,
     Moves, Ends
<1>6. Upgrades' /\ Rollbacks'
  BY <1>1, <1>2, <1>3 DEF IInv, Upgrades, Rollbacks, Removing, Leaving, Preparing,
     Copying, Leads, Moves, Same, Ends
<1> QED
  BY <1>3, <1>4, <1>5, <1>6 DEF IInv

LEMMA RaiseStageInv ==
    ASSUME IInv, RaiseDeployment, UNCHANGED <<legacy, journal, world>>, op.pc = "stage"
    PROVE  IInv'
<1> USE DeploymentAssumption, MigrationAssumption DEF At, files, docker, data, world
<1>1. /\ op' = [op EXCEPT !.pc = "unstage"]
      /\ UNCHANGED <<state, attempt, box, up, key, target, made>>
  BY RaiseFrame DEF Proc, InstallHandler
<1>2. Moves("unstage")
  BY <1>1, GotoMoves DEF IInv, TypeInv, Pcs, Installing, Undoing
<1>3. TypeInv' /\ Stored' /\ Accounted' /\ RollbackReady'
  BY <1>1, <1>2, OnlyOp DEF Moves, Same
<1>4. Commanded' /\ Fresh'
  BY <1>1, <1>2, <1>3 DEF IInv, Commanded, Fresh, Planning, Installing, Removing,
     Leaving, Preparing, Copying, Upgrading, Returning, Rolling
<1>5. Installs' /\ Uninstalls'
  BY <1>1, <1>2, <1>3 DEF IInv, Installs, Uninstalls, Bare, Planning, Making,
     Removing
<1>6. Upgrades' /\ Rollbacks'
  BY <1>1, <1>2, <1>3 DEF IInv, Upgrades, Rollbacks, Planning, Installing,
     Removing, Leaving, Preparing, Copying, Returning
<1> QED
  BY <1>3, <1>4, <1>5, <1>6 DEF IInv

LEMMA RaiseMakingInv ==
    ASSUME IInv, RaiseDeployment, UNCHANGED <<legacy, journal, world>>,
           op.pc \in {"net"} \cup (Making \ {"commit"})
    PROVE  IInv'
<1> USE DeploymentAssumption, MigrationAssumption DEF At, files, docker, data, world
<1>1. /\ op' = [op EXCEPT !.pc = "clean"]
      /\ UNCHANGED <<state, attempt, box, up, key, target, made>>
  BY RaiseFrame DEF Proc, InstallHandler, Making
<1>2. Moves("clean")
  BY <1>1, GotoMoves DEF IInv, TypeInv, Pcs, Installing, Undoing
<1>3. TypeInv' /\ Stored' /\ Accounted' /\ RollbackReady'
  BY <1>1, <1>2, OnlyOp DEF Moves, Same
<1>4. Commanded' /\ Fresh'
  BY <1>1, <1>2, <1>3 DEF IInv, Commanded, Fresh, Planning, Installing, Removing,
     Leaving, Preparing, Copying, Upgrading, Returning, Rolling
<1>5. Installs' /\ Uninstalls'
  BY <1>1, <1>2, <1>3 DEF IInv, Installs, Uninstalls, Bare, Planning, Making,
     Removing
<1>6. Upgrades' /\ Rollbacks'
  BY <1>1, <1>2, <1>3 DEF IInv, Upgrades, Rollbacks, Planning, Installing,
     Removing, Leaving, Preparing, Copying, Returning
<1> QED
  BY <1>3, <1>4, <1>5, <1>6 DEF IInv

LEMMA RaiseAttemptInv ==
    ASSUME IInv, RaiseDeployment, UNCHANGED <<legacy, journal, world>>,
           op.pc = "attempt"
    PROVE  IInv'
<1> USE DeploymentAssumption, MigrationAssumption DEF At, files, docker, data, world
<1>1. op' = Raised(op, "install") /\ UNCHANGED <<state, box, up, key, target>>
      /\ made' = made + 1
      /\ attempt' \in {attempt, [status |-> "prepared", id |-> made + 1]}
  BY RaiseFrame DEF Proc, InstallHandler, RaiseDeployment
<1>2. Leads("upgrade", "failed")
  BY <1>1, InstallRaised DEF IInv, TypeInv
<1>3. TypeInv'
  BY <1>1, <1>2 DEF IInv, TypeInv, Attempts, Leads, Moves, Ends
<1>4. Commanded' /\ Fresh'
  BY <1>1, <1>2, <1>3 DEF IInv, TypeInv, Commanded, Fresh, Planning, Making,
     Undoing, Installing, Removing, Leaving, Preparing, Copying, Upgrading,
     Returning, Rolling, Leads, Moves, Same, Ends
<1>5. Installs' /\ Uninstalls'
  BY <1>1, <1>2, <1>3 DEF Installs, Uninstalls, Planning, Making, Removing, Leads,
     Moves, Ends
<1>6. Stored' /\ Accounted'
  BY <1>1, <1>2, <1>3 DEF IInv, Installs, Bare, Stored, Accounted, Planning
<1>7. Upgrades' /\ Rollbacks' /\ RollbackReady'
  BY <1>1, <1>2, <1>3 DEF IInv, Upgrades, Rollbacks, RollbackReady, Planning,
     Installing, Preparing, Copying, Leads, Moves, Same, Ends
<1> QED
  BY <1>3, <1>4, <1>5, <1>6, <1>7 DEF IInv

LEMMA RaiseStartingInv ==
    ASSUME IInv, RaiseDeployment, UNCHANGED <<legacy, journal, world>>,
           op.pc = "starting"
    PROVE  IInv'
<1> USE DeploymentAssumption, MigrationAssumption DEF At, files, docker, data, world
<1>1. /\ op' \in {[op EXCEPT !.pc = "unstage"], [op EXCEPT !.pc = "clean"]}
      /\ UNCHANGED <<state, box, up, key, target, made>>
      /\ attempt' \in Attempts /\ attempt'.id = attempt.id
  <2>1. /\ op' \in {[op EXCEPT !.pc = "unstage"], [op EXCEPT !.pc = "clean"]}
        /\ UNCHANGED <<state, box, up, key, target, made>>
        /\ attempt' \in {attempt, [attempt EXCEPT !.status = "starting"]}
    BY RaiseFrame DEF Proc, InstallHandler, RaiseDeployment
  <2>2. attempt \in Attempts
    BY DEF IInv, TypeInv, Installs
  <2> QED
    BY <2>1, <2>2 DEF Attempts
<1>2. Moves("unstage") \/ Moves("clean")
  BY <1>1, GotoMoves DEF IInv, TypeInv, Pcs, Installing, Undoing
<1>3. TypeInv'
  BY <1>1, <1>2 DEF IInv, TypeInv, Moves
<1>4. Commanded' /\ Fresh'
  BY <1>1, <1>2, <1>3 DEF IInv, Commanded, Fresh, Installs, Planning, Installing,
     Removing, Leaving, Preparing, Copying, Upgrading, Returning, Rolling, Moves,
     Same
<1>5. Installs' /\ Uninstalls'
  BY <1>1, <1>2, <1>3 DEF IInv, Installs, Uninstalls, Bare, Planning, Making,
     Removing, Moves, Same
<1>6. Stored' /\ Accounted'
  BY <1>1, <1>2, <1>3 DEF IInv, Installs, Bare, Stored, Accounted, Planning
<1>7. Upgrades' /\ Rollbacks' /\ RollbackReady'
  BY <1>1, <1>2, <1>3 DEF IInv, Upgrades, Rollbacks, RollbackReady, Planning,
     Installing, Removing, Leaving, Preparing, Copying, Returning, Moves, Same
<1> QED
  BY <1>3, <1>4, <1>5, <1>6, <1>7 DEF IInv

LEMMA RaiseCommitInv ==
    ASSUME IInv, RaiseDeployment, UNCHANGED <<legacy, journal, world>>, op.pc = "commit"
    PROVE  IInv'
<1> USE DeploymentAssumption, MigrationAssumption DEF At, files, docker, data, world
<1>1. op' = [op EXCEPT !.pc = "clean"] /\ UNCHANGED <<attempt, box, up, key, target, made>>
      /\ state' \in {state, Installed("installed", op.id)}
  BY RaiseFrame DEF Proc, InstallHandler, RaiseDeployment
<1>2. Moves("clean")
  BY <1>1, GotoMoves DEF IInv, TypeInv, Pcs, Installing, Undoing
<1>3. TypeInv'
  BY <1>1, <1>2 DEF IInv, TypeInv, States, Making, Fresh, Moves, Installed
<1>4. Commanded' /\ Fresh'
  BY <1>1, <1>2, <1>3 DEF IInv, Commanded, Fresh, Making, Installing, Removing,
     Leaving, Preparing, Copying, Upgrading, Returning, Rolling, Installed
<1>5. Installs' /\ Uninstalls'
  BY <1>1, <1>2, <1>3 DEF IInv, Installs, Uninstalls, Planning, Making, Removing
<1>6. Stored' /\ Accounted'
  BY <1>1, <1>2, <1>3 DEF IInv, Fresh, Installs, Stored, Accounted, Claimed,
     Marked, Making, Installed
<1>7. Upgrades' /\ Rollbacks' /\ RollbackReady'
  BY <1>1, <1>2, <1>3 DEF IInv, Upgrades, Rollbacks, RollbackReady, Making,
     Installing, Removing, Leaving, Preparing, Copying, Returning
<1> QED
  BY <1>3, <1>4, <1>5, <1>6, <1>7 DEF IInv

LEMMA RaiseUnstageInv ==
    ASSUME IInv, RaiseDeployment, UNCHANGED <<legacy, journal, world>>,
           op.pc = "unstage"
    PROVE  IInv'
<1> USE DeploymentAssumption, MigrationAssumption DEF At, files, docker, data, world
<1>1. /\ op' = [op EXCEPT !.pc = "cleanup_failed"]
      /\ UNCHANGED <<state, box, up, key, target, made>>
      /\ attempt' \in {attempt, op.retry}
  BY RaiseFrame DEF Proc, InstallHandler, RaiseDeployment
<1>2. Moves("cleanup_failed")
  BY <1>1, GotoMoves DEF IInv, TypeInv, Pcs, Installing, Undoing
<1>3. TypeInv'
  BY <1>1, <1>2 DEF IInv, TypeInv, Moves, Ops
<1>4. Commanded' /\ Fresh'
  BY <1>1, <1>2, <1>3 DEF IInv, Commanded, Fresh, Undoing, Installing, Removing,
     Leaving, Preparing, Copying, Upgrading, Returning, Rolling
<1>5. Installs' /\ Uninstalls'
  BY <1>1, <1>2, <1>3 DEF IInv, Installs, Uninstalls, Bare, Planning, Making,
     Removing
<1>6. Stored' /\ Accounted'
  BY <1>1, <1>2, <1>3 DEF IInv, Installs, Bare, Stored, Accounted
<1>7. Upgrades' /\ Rollbacks' /\ RollbackReady'
  BY <1>1, <1>2, <1>3 DEF IInv, Upgrades, Rollbacks, RollbackReady, Undoing,
     Installing, Removing, Leaving, Preparing, Copying, Returning
<1> QED
  BY <1>3, <1>4, <1>5, <1>6, <1>7 DEF IInv

LEMMA RaiseCleanInv ==
    ASSUME IInv, RaiseDeployment, UNCHANGED <<legacy, journal, world>>, op.pc = "clean"
    PROVE  IInv'
<1> USE DeploymentAssumption, MigrationAssumption DEF At, files, docker, data, world
<1>1. /\ op' = [op EXCEPT !.pc = "cleanup_failed"]
      /\ UNCHANGED <<state, attempt, key, target, made>>
      /\ box' \in [Boxes -> Nat] /\ up' \subseteq up
      /\ \A r \in Boxes : box'[r] \in {0, box[r]}
      /\ \A r \in up' : box'[r] = box[r]
  <2>1. /\ op' = [op EXCEPT !.pc = "cleanup_failed"]
        /\ UNCHANGED <<state, attempt, key, target, made>>
    BY RaiseFrame DEF Proc, InstallHandler
  <2>2. PICK left \in SUBSET DOMAIN box :
            /\ box' = [r \in DOMAIN box |-> IF r \in left THEN box[r] ELSE 0]
            /\ up' = up \cap left
    BY DEF RaiseDeployment
  <2>3. box \in [Boxes -> Nat]
    BY DEF IInv, TypeInv
  <2> QED
    BY <2>1, <2>2, <2>3
<1>2. Moves("cleanup_failed")
  BY <1>1, GotoMoves DEF IInv, TypeInv, Pcs, Installing, Undoing
<1>3. TypeInv'
  BY <1>1, <1>2 DEF IInv, TypeInv, Moves
<1>4. Commanded' /\ Fresh'
  BY <1>1, <1>2, <1>3 DEF IInv, Commanded, Fresh, Undoing, Installing, Removing,
     Leaving, Preparing, Copying, Upgrading, Returning, Rolling
<1>5. Installs' /\ Uninstalls'
  BY <1>1, <1>2, <1>3 DEF IInv, Installs, Uninstalls, Bare, Planning, Making,
     Removing
<1>6. Stored' /\ Accounted'
  BY <1>1, <1>2, <1>3 DEF IInv, Boxes, Stored, Accounted, Claimed, Marked
<1>7. Upgrades' /\ Rollbacks' /\ RollbackReady'
  BY <1>1, <1>2, <1>3 DEF IInv, Upgrades, Rollbacks, RollbackReady, Undoing,
     Installing, Removing, Leaving, Preparing, Copying, Returning
<1> QED
  BY <1>3, <1>4, <1>5, <1>6, <1>7 DEF IInv

LEMMA RaiseCleanedInv ==
    ASSUME IInv, RaiseDeployment, UNCHANGED <<legacy, journal, world>>,
           op.pc = "cleaned"
    PROVE  IInv'
<1> USE DeploymentAssumption, MigrationAssumption DEF At, files, docker, data, world
<1>1. /\ op' = [op EXCEPT !.pc = "cleanup_failed"]
      /\ UNCHANGED <<state, box, up, key, target, made>>
      /\ attempt' \in {attempt, [status |-> "cleaned", id |-> op.id]}
  BY RaiseFrame DEF Proc, InstallHandler, RaiseDeployment
<1>2. Moves("cleanup_failed")
  BY <1>1, GotoMoves DEF IInv, TypeInv, Pcs, Installing, Undoing
<1>3. TypeInv'
  BY <1>1, <1>2 DEF IInv, TypeInv, Attempts, Moves, Ops
<1>4. Commanded' /\ Fresh'
  BY <1>1, <1>2, <1>3 DEF IInv, Commanded, Fresh, Undoing, Installing, Removing,
     Leaving, Preparing, Copying, Upgrading, Returning, Rolling
<1>5. Installs' /\ Uninstalls'
  BY <1>1, <1>2, <1>3 DEF IInv, Installs, Uninstalls, Bare, Planning, Making,
     Removing
<1>6. Stored' /\ Accounted'
  BY <1>1, <1>2, <1>3 DEF IInv, Installs, Bare, Stored, Accounted
<1>7. Upgrades' /\ Rollbacks' /\ RollbackReady'
  BY <1>1, <1>2, <1>3 DEF IInv, Upgrades, Rollbacks, RollbackReady, Undoing,
     Installing, Removing, Leaving, Preparing, Copying, Returning
<1> QED
  BY <1>3, <1>4, <1>5, <1>6, <1>7 DEF IInv

LEMMA RaiseUnattemptInv ==
    ASSUME IInv, RaiseDeployment, UNCHANGED <<legacy, journal, world>>,
           op.pc = "unattempt"
    PROVE  IInv'
<1> USE DeploymentAssumption, MigrationAssumption DEF At, files, docker, data, world
<1>1. op' = Raised(op, "install") /\ UNCHANGED <<state, box, up, key, target, made>>
      /\ attempt' \in {attempt, None}
  BY RaiseFrame DEF Proc, InstallHandler, RaiseDeployment
<1>2. Leads("upgrade", "failed")
  BY <1>1, InstallRaised DEF IInv, TypeInv
<1>3. TypeInv'
  BY <1>1, <1>2 DEF IInv, TypeInv, Leads, Moves, Ends
<1>4. Commanded' /\ Fresh'
  BY <1>1, <1>2, <1>3 DEF IInv, Commanded, Fresh, Planning, Making, Undoing,
     Installing, Removing, Leaving, Preparing, Copying, Upgrading, Returning,
     Rolling, Leads, Moves, Same, Ends
<1>5. Installs' /\ Uninstalls'
  BY <1>1, <1>2, <1>3 DEF Installs, Uninstalls, Planning, Making, Removing, Leads,
     Moves, Ends
<1>6. Stored' /\ Accounted'
  BY <1>1, <1>2, <1>3 DEF IInv, Final, Fresh, Installs, Stored, Accounted, Claimed,
     Marked
<1>7. Upgrades' /\ Rollbacks' /\ RollbackReady'
  BY <1>1, <1>2, <1>3 DEF IInv, Upgrades, Rollbacks, RollbackReady, Installing,
     Preparing, Copying, Leads, Moves, Same, Ends
<1> QED
  BY <1>3, <1>4, <1>5, <1>6, <1>7 DEF IInv

LEMMA RaiseUninstallingInv ==
    ASSUME IInv, RaiseDeployment, UNCHANGED <<legacy, journal, world>>,
           op.pc = "uninstalling"
    PROVE  IInv'
<1> USE DeploymentAssumption, MigrationAssumption DEF At, files, docker, data, world
<1>1. /\ op' = Raised(op, "uninstall") /\ UNCHANGED <<attempt, box, up, key, target, made>>
      /\ state' \in States /\ state'.id = state.id /\ state'.gone = state.gone
      /\ state'.status \in {state.status, "uninstalling"}
  <2>1. op' = Raised(op, "uninstall") /\ UNCHANGED <<attempt, box, up, key, target, made>>
        /\ state' \in {state, [state EXCEPT !.status = "uninstalling"]}
    BY RaiseFrame DEF Proc, RaiseDeployment, At
  <2>2. state \in States
    BY DEF IInv, TypeInv, Uninstalls
  <2> QED
    BY <2>1, <2>2 DEF States
<1>2. Leads("rollback", "rollback_failed")
  BY <1>1, UninstallRaised DEF IInv, TypeInv
<1>3. TypeInv'
  BY <1>1, <1>2 DEF IInv, TypeInv, Leads, Moves, Ends
<1>4. Commanded' /\ Fresh'
  BY <1>1, <1>2, <1>3 DEF IInv, Planning, Making, Undoing, Installing, Removing,
     Leaving, Preparing, Copying, Upgrading, Returning, Rolling, Commanded, Fresh,
     Uninstalls, Leads, Moves, Same, Ends
<1>5. Installs' /\ Uninstalls'
  BY <1>1, <1>2, <1>3 DEF Installs, Uninstalls, Planning, Making, Removing, Leads,
     Moves, Ends
<1>6. Stored' /\ Accounted'
  BY <1>1, <1>2, <1>3 DEF IInv, TypeInv, States, Final, Uninstalls, Stored,
     Accounted, Claimed, Marked
<1>7. Upgrades' /\ Rollbacks' /\ RollbackReady'
  BY <1>1, <1>2, <1>3 DEF IInv, Upgrades, Rollbacks, RollbackReady, Leaving,
     Preparing, Copying, Leads, Moves, Same, Ends
<1> QED
  BY <1>3, <1>4, <1>5, <1>6, <1>7 DEF IInv

LEMMA RaiseMarkInv ==
    ASSUME IInv, RaiseDeployment, UNCHANGED <<legacy, journal, world>>, op.pc = "mark"
    PROVE  IInv'
<1> USE DeploymentAssumption, MigrationAssumption DEF At, files, docker, data, world
<1>1. /\ op' = Raised(op, "uninstall") /\ UNCHANGED <<attempt, box, up, key, target, made>>
      /\ state' \in States /\ state'.id = state.id /\ state'.status = state.status
      /\ state'.gone \in {state.gone, state.gone \cup {op.res}}
  <2>1. op' = Raised(op, "uninstall") /\ UNCHANGED <<attempt, box, up, key, target, made>>
        /\ state' \in {state, [state EXCEPT !.gone = @ \cup {op.res}]}
    BY RaiseFrame DEF Proc, RaiseDeployment, At
  <2>2. state \in States /\ op.res \in {"api", "proxy", "net", "key", "tpl"}
    BY DEF IInv, TypeInv, Uninstalls, Removing, Ops
  <2> QED
    BY <2>1, <2>2 DEF States
<1>2. Leads("rollback", "rollback_failed")
  BY <1>1, UninstallRaised DEF IInv, TypeInv
<1>3. TypeInv'
  BY <1>1, <1>2 DEF IInv, TypeInv, Leads, Moves, Ends
<1>4. Commanded' /\ Fresh'
  BY <1>1, <1>2, <1>3 DEF IInv, Planning, Making, Undoing, Installing, Removing,
     Leaving, Preparing, Copying, Upgrading, Returning, Rolling, Commanded, Fresh,
     Uninstalls, Leads, Moves, Same, Ends
<1>5. Installs' /\ Uninstalls'
  BY <1>1, <1>2, <1>3 DEF Installs, Uninstalls, Planning, Making, Removing, Leads,
     Moves, Ends
<1>6. Stored' /\ Accounted'
  BY <1>1, <1>2, <1>3 DEF IInv, Uninstalls, Stored, Accounted, Claimed, Marked,
     Removing
<1>7. Upgrades' /\ Rollbacks' /\ RollbackReady'
  BY <1>1, <1>2, <1>3 DEF IInv, Upgrades, Rollbacks, RollbackReady, Removing,
     Leaving, Preparing, Copying, Leads, Moves, Same, Ends
<1> QED
  BY <1>3, <1>4, <1>5, <1>6, <1>7 DEF IInv

LEMMA RaiseUninstalledInv ==
    ASSUME IInv, RaiseDeployment, UNCHANGED <<legacy, journal, world>>,
           op.pc = "uninstalled"
    PROVE  IInv'
<1> USE DeploymentAssumption, MigrationAssumption DEF At, files, docker, data, world
<1>1. /\ op' = Raised(op, "uninstall") /\ UNCHANGED <<attempt, box, up, key, target, made>>
      /\ state' \in States /\ state'.id = state.id /\ state'.gone = state.gone
      /\ state'.status \in {state.status, "uninstalled"}
  <2>1. op' = Raised(op, "uninstall") /\ UNCHANGED <<attempt, box, up, key, target, made>>
        /\ state' \in {state, [state EXCEPT !.status = "uninstalled"]}
    BY RaiseFrame DEF Proc, RaiseDeployment, At
  <2>2. state \in States
    BY DEF IInv, TypeInv, Uninstalls, Removing
  <2> QED
    BY <2>1, <2>2 DEF States
<1>2. Leads("rollback", "rollback_failed")
  BY <1>1, UninstallRaised DEF IInv, TypeInv
<1>3. TypeInv'
  BY <1>1, <1>2 DEF IInv, TypeInv, Leads, Moves, Ends
<1>4. Commanded' /\ Fresh'
  BY <1>1, <1>2, <1>3 DEF IInv, Planning, Making, Undoing, Installing, Removing,
     Leaving, Preparing, Copying, Upgrading, Returning, Rolling, Commanded, Fresh,
     Uninstalls, Leads, Moves, Same, Ends
<1>5. Installs' /\ Uninstalls'
  BY <1>1, <1>2, <1>3 DEF Installs, Uninstalls, Planning, Making, Removing, Leads,
     Moves, Ends
<1>6. Stored' /\ Accounted'
  BY <1>1, <1>2, <1>3 DEF IInv, Uninstalls, Bare, Stored, Accounted, Removing
<1>7. Upgrades' /\ Rollbacks' /\ RollbackReady'
  BY <1>1, <1>2, <1>3 DEF IInv, Upgrades, Rollbacks, RollbackReady, Removing,
     Leaving, Preparing, Copying, Leads, Moves, Same, Ends
<1> QED
  BY <1>3, <1>4, <1>5, <1>6, <1>7 DEF IInv

\* A step of upgrade or rollback raises: by the step.
LEMMA RaisePreparingInv == ASSUME IInv, RaiseMigration, op.pc \in Preparing PROVE IInv'
<1> USE DeploymentAssumption, MigrationAssumption DEF At, files, docker, data, world
<1>1. /\ op' \in {Idle, [op EXCEPT !.pc = "unprepare"]} /\ UNCHANGED state
      /\ UNCHANGED <<attempt, box, up, key, target, made, legacy, goal>>
      /\ UNCHANGED journal \/ (journal' \in Journals /\ up = {})
  <2>1. op \in Ops /\ (op.re => Evidence \in Journals)
    BY DEF IInv, TypeInv, Upgrades, Evidence, Journals, Priors, JournalsWith
  <2>2. NewJournal \in Journals
    <3>1. op.re => [Evidence EXCEPT !.prior = None] \in Priors
      BY <2>1 DEF Journals, Priors, JournalsWith
    <3> QED
      BY <2>1, <3>1 DEF NewJournal, Ops, Journals, JournalsWith
  <2>3. Preflight(op.re, op.re) => up = {}
    BY PreflightBare
  <2> QED
    BY <2>2, <2>3 DEF RaiseMigration, MigrationHandler, PrepareFails, Preparing
<1>2. Ends \/ Moves("unprepare")
  BY <1>1, IdleEnds, GotoMoves DEF IInv, TypeInv, Pcs, Upgrading
<1>3. TypeInv'
  BY <1>1, <1>2 DEF IInv, TypeInv, Moves, Ends
<1>4. Commanded' /\ Fresh'
  BY <1>1, <1>2, <1>3 DEF IInv, Commanded, Fresh, Planning, Making, Undoing,
     Installing, Removing, Leaving, Preparing, Copying, Upgrading, Returning,
     Rolling, Moves, Same, Ends
<1>5. Installs' /\ Uninstalls'
  BY <1>1, <1>2, <1>3 DEF Installs, Uninstalls, Planning, Making, Removing, Moves,
     Ends
<1>6. Stored' /\ Accounted'
  BY <1>1, <1>2, <1>3 DEF IInv, Stored, Accounted, Claimed, Marked
<1>7. Upgrades' /\ Rollbacks' /\ RollbackReady'
  BY <1>1, <1>2, <1>3 DEF IInv, Upgrades, Rollbacks, RollbackReady, Planning,
     Making, Undoing, Installing, Removing, Leaving, Preparing, Copying, Returning,
     Moves, Ends
<1> QED
  BY <1>3, <1>4, <1>5, <1>6, <1>7 DEF IInv

LEMMA RaiseCopyingInv == ASSUME IInv, RaiseMigration, op.pc \in Copying PROVE IInv'
<1> USE DeploymentAssumption, MigrationAssumption DEF At, files, docker, data, world
<1>1. /\ op' = [op EXCEPT !.pc = "failed"] /\ UNCHANGED state
      /\ UNCHANGED <<attempt, box, up, key, target, made, legacy, goal>>
      /\ UNCHANGED journal \/ journal' \in Journals
      /\ up = {}
  <2>1. op.jr \in Journals /\ target \in Targets \cup {None}
    BY DEF IInv, TypeInv, Ops, Upgrades
  <2>2. [op.jr EXCEPT !.status = "snapshot-complete", !.target = target] \in Journals
    BY <2>1 DEF Journals, JournalsWith
  <2>3. up = {}
    BY DEF IInv, TypeInv, Upgrades, Stored, Roles, Boxes
  <2> QED
    BY <2>2, <2>3 DEF RaiseMigration, MigrationHandler, Copying
<1>2. Moves("failed")
  BY <1>1, GotoMoves DEF IInv, TypeInv, Pcs, Upgrading
<1>3. TypeInv'
  BY <1>1, <1>2 DEF IInv, TypeInv, Moves
<1>4. Commanded' /\ Fresh'
  BY <1>1, <1>2, <1>3 DEF IInv, Commanded, Fresh, Planning, Making, Undoing,
     Removing, Leaving, Upgrading, Returning, Rolling
<1>5. Installs' /\ Uninstalls'
  BY <1>1, <1>2, <1>3 DEF Installs, Uninstalls, Planning, Making, Removing
<1>6. Stored' /\ Accounted'
  BY <1>1, <1>2, <1>3 DEF IInv, Stored, Accounted, Claimed, Marked
<1>7. Upgrades' /\ Rollbacks' /\ RollbackReady'
  BY <1>1, <1>2, <1>3 DEF IInv, Upgrades, Rollbacks, RollbackReady, Planning,
     Making, Undoing, Installing, Removing, Leaving, Preparing, Returning
<1> QED
  BY <1>3, <1>4, <1>5, <1>6, <1>7 DEF IInv

LEMMA RaiseInstalledInv == ASSUME IInv, RaiseMigration, op.pc = "installed" PROVE IInv'
<1> USE DeploymentAssumption, MigrationAssumption DEF At, files, docker, data, world
<1>1. /\ op' = [op EXCEPT !.pc = "failed_save", !.jr.status = "upgrade-journal-failed"]
      /\ UNCHANGED state /\ UNCHANGED <<attempt, box, up, key, target, made, legacy, goal>>
      /\ UNCHANGED journal \/ (journal' \in Journals /\ journal'.snap = op.jr.snap)
  <2>1. op.jr \in Journals /\ state.id \in Nat
    BY DEF IInv, TypeInv, Ops, Upgrades, States
  <2>2. /\ [op.jr EXCEPT !.status = "upgraded", !.id = state.id] \in Journals
        /\ [op.jr EXCEPT !.status = "upgraded", !.id = state.id].snap = op.jr.snap
    BY <2>1 DEF Journals, JournalsWith
  <2> QED
    BY <2>2 DEF RaiseMigration, MigrationHandler, At
<1>2. /\ op' \in Ops /\ op'.pc = "failed_save" /\ op'.cmd = op.cmd /\ op'.retry = op.retry
      /\ op'.jr \in Journals /\ op'.jr.snap = op.jr.snap
  <2>1. op \in Ops /\ op.jr \in Journals
    BY DEF IInv, TypeInv, Ops, Upgrades
  <2> DEFINE j == [op.jr EXCEPT !.status = "upgrade-journal-failed"]
  <2>2. op' = [op EXCEPT !.pc = "failed_save", !.jr = j]
    BY <1>1, <2>1 DEF Ops
  <2>3. j \in Journals /\ j.snap = op.jr.snap
    BY <2>1 DEF Journals, JournalsWith
  <2> HIDE DEF j
  <2> QED
    BY <2>1, <2>2, <2>3 DEF Ops, Pcs, Upgrading
<1>3. TypeInv'
  BY <1>1, <1>2 DEF IInv, TypeInv
<1>4. Commanded' /\ Fresh'
  BY <1>1, <1>2, <1>3 DEF IInv, Commanded, Fresh, Planning, Making, Undoing,
     Removing, Leaving, Upgrading, Returning, Rolling
<1>5. Installs' /\ Uninstalls'
  BY <1>1, <1>2, <1>3 DEF Installs, Uninstalls, Planning, Making, Removing
<1>6. Stored' /\ Accounted'
  BY <1>1, <1>2, <1>3 DEF IInv, Stored, Accounted, Claimed, Marked
<1>7. Upgrades' /\ Rollbacks' /\ RollbackReady'
  BY <1>1, <1>2, <1>3 DEF IInv, Commanded, Upgrades, Rollbacks, RollbackReady,
     Preparing, Copying, Upgrading
<1> QED
  BY <1>3, <1>4, <1>5, <1>6, <1>7 DEF IInv

LEMMA RaiseReturningInv ==
    ASSUME IInv, RaiseMigration, op.pc \in Returning \ {"rollback_failed"}
    PROVE  IInv'
<1> USE DeploymentAssumption, MigrationAssumption DEF At, files, docker, data, world
<1>1. /\ op' = [op EXCEPT !.pc = "rollback_failed"]
      /\ UNCHANGED <<attempt, box, up, key, target, made, legacy, goal>>
      /\ UNCHANGED journal \/ (journal' \in Journals /\ journal' = op.jr)
      /\ state' \in States /\ state'.id = state.id /\ state'.status \in Final
      /\ state \in States /\ state.status \in Final
  <2>1. op.jr \in Journals /\ state \in States /\ state.status \in Final
    BY DEF IInv, TypeInv, Ops, Commanded, Rolling, Rollbacks, Returning
  <2>2. /\ op' = [op EXCEPT !.pc = "rollback_failed"]
        /\ UNCHANGED <<attempt, box, up, key, target, made, legacy, goal>>
        /\ journal' \in {journal, op.jr}
        /\ state' \in {state, [state EXCEPT !.status = "rolled_back"]}
    BY DEF RaiseMigration, MigrationHandler, Returning
  <2> QED
    BY <2>1, <2>2 DEF States, Final
<1>2. Moves("rollback_failed")
  BY <1>1, GotoMoves DEF IInv, TypeInv, Pcs, Rolling, Returning
<1>3. TypeInv'
  BY <1>1, <1>2 DEF IInv, TypeInv, Moves
<1>4. Commanded' /\ Fresh'
  BY <1>1, <1>2, <1>3 DEF IInv, Commanded, Fresh, Planning, Making, Undoing,
     Installing, Preparing, Copying, Upgrading, Rolling
<1>5. Installs' /\ Uninstalls'
  BY <1>1, <1>2, <1>3 DEF Installs, Uninstalls, Planning, Making, Removing
<1>6. Stored' /\ Accounted'
  BY <1>1, <1>2, <1>3 DEF IInv, Final, Stored, Accounted, Claimed, Marked
<1>7. Upgrades' /\ Rollbacks' /\ RollbackReady'
  BY <1>1, <1>2, <1>3 DEF IInv, Commanded, Upgrades, Rollbacks, RollbackReady,
     Preparing, Copying, Rolling
<1> QED
  BY <1>3, <1>4, <1>5, <1>6, <1>7 DEF IInv

LEMMA RaiseOtherInv ==
    ASSUME IInv, RaiseMigration,
           op.pc \notin Preparing \cup Copying \cup {"installed"},
           op.pc \notin Returning \ {"rollback_failed"}
    PROVE  IInv'
<1> USE DeploymentAssumption, MigrationAssumption DEF At, files, docker, data, world
<1>1. /\ op' = Idle /\ UNCHANGED <<state, journal>>
      /\ UNCHANGED <<attempt, box, up, key, target, made, legacy, goal>>
  BY DEF RaiseMigration, MigrationHandler, Preparing, Copying, Returning
<1>2. Ends
  BY <1>1, IdleEnds
<1>3. TypeInv' /\ Stored' /\ Accounted' /\ RollbackReady'
  BY <1>1, <1>2, OnlyOp DEF Ends
<1>4. Commanded' /\ Fresh'
  BY <1>1, <1>2, <1>3 DEF IInv, Commanded, Fresh, Planning, Making, Undoing,
     Installing, Removing, Leaving, Preparing, Copying, Upgrading, Returning,
     Rolling, Ends
<1>5. Installs' /\ Uninstalls'
  BY <1>1, <1>2, <1>3 DEF Installs, Uninstalls, Planning, Making, Removing, Ends
<1>6. Upgrades' /\ Rollbacks'
  BY <1>1, <1>2, <1>3 DEF Upgrades, Rollbacks, Preparing, Copying, Ends
<1> QED
  BY <1>3, <1>4, <1>5, <1>6 DEF IInv

----------------------------------------------------------------------------
(* The operator and the services                                            *)

LEMMA WantInv == ASSUME IInv, Want PROVE IInv'
<1> USE DeploymentAssumption, MigrationAssumption DEF Want, At, files, docker, data, world
<1>1. /\ goal' \in {"install", "uninstall", "upgrade", "rollback"}
      /\ goal' \in {"upgrade", "rollback"} <=> goal \in {"upgrade", "rollback"}
  BY DEF IInv, TypeInv
<1>2. TypeInv'
  BY <1>1 DEF IInv, TypeInv
<1>3. Commanded' /\ Fresh'
  BY <1>1, <1>2 DEF IInv, Commanded, Fresh
<1>4. Installs' /\ Uninstalls'
  BY <1>1, <1>2 DEF Installs, Uninstalls, Planning, Making, Removing
<1>5. Stored' /\ Accounted'
  BY <1>1, <1>2 DEF IInv, Stored, Accounted, Claimed, Marked
<1>6. Upgrades' /\ Rollbacks' /\ RollbackReady'
  BY <1>1, <1>2 DEF IInv, Upgrades, Rollbacks, RollbackReady, Preparing
<1> QED
  BY <1>2, <1>3, <1>4, <1>5, <1>6 DEF IInv

LEMMA LegacyWritesInv == ASSUME IInv, LegacyWrites PROVE IInv'
<1> USE DeploymentAssumption, MigrationAssumption
  DEF LegacyWrites, At, files, docker, data, world
<1>1. legacy' \in Legacies /\ legacy' # None /\ legacy.up
  <2>1. legacy \in Legacies
    BY DEF IInv, TypeInv
  <2> QED
    BY <2>1 DEF Legacies
<1>2. TypeInv'
  BY <1>1 DEF IInv, TypeInv
<1>3. Commanded' /\ Fresh'
  BY <1>1, <1>2 DEF IInv, Commanded, Fresh
<1>4. Installs' /\ Uninstalls'
  BY <1>1, <1>2 DEF IInv, Installs, Uninstalls, Bare
<1>5. Stored' /\ Accounted'
  BY <1>1, <1>2 DEF IInv, Stored, Accounted, Claimed, Marked
<1>6. Upgrades' /\ Rollbacks' /\ RollbackReady'
  BY <1>1, <1>2 DEF IInv, Upgrades, Rollbacks, RollbackReady, Evidence
<1> QED
  BY <1>2, <1>3, <1>4, <1>5, <1>6 DEF IInv

LEMMA ApiWritesInv ==
    ASSUME IInv, ApiWrites, UNCHANGED <<legacy, journal, world>>
    PROVE  IInv'
<1> USE DeploymentAssumption, MigrationAssumption
  DEF ApiWrites, At, files, docker, data, world
<1>1. target' \in Targets /\ target # None
  <2>1. target \in Targets
    BY DEF IInv, TypeInv, Stored
  <2> QED
    BY <2>1 DEF Targets
<1>2. TypeInv'
  BY <1>1 DEF IInv, TypeInv
<1>3. Commanded' /\ Fresh'
  BY <1>1, <1>2 DEF IInv, Commanded, Fresh
<1>4. Installs' /\ Uninstalls'
  BY <1>1, <1>2 DEF IInv, Installs, Uninstalls, Bare
<1>5. Stored' /\ Accounted'
  BY <1>1, <1>2 DEF IInv, Stored, Accounted, Claimed, Marked
<1>6. Upgrades' /\ Rollbacks' /\ RollbackReady'
  BY <1>1, <1>2 DEF IInv, Upgrades, Rollbacks, RollbackReady, Evidence
<1> QED
  BY <1>2, <1>3, <1>4, <1>5, <1>6 DEF IInv

----------------------------------------------------------------------------
(* The invariant                                                            *)

LEMMA InitInv == ASSUME Init PROVE IInv
<1> USE DeploymentAssumption, MigrationAssumption DEF Init, InitDeployment, Idle
<1>1. TypeInv
  <2>1. op \in Ops
    BY DEF Ops, Pcs
  <2>2. legacy \in Legacies \cup {None}
    BY DEF Legacies
  <2> QED
    BY <2>1, <2>2 DEF TypeInv, Roles, Boxes
<1>2. Commanded /\ Fresh
  BY DEF Commanded, Fresh, Planning, Making, Undoing, Installing, Removing,
     Leaving, Preparing, Copying, Upgrading, Returning, Rolling
<1>3. Installs /\ Uninstalls
  BY DEF Installs, Uninstalls, Planning, Making, Removing
<1>4. Stored /\ Accounted
  BY DEF Stored, Accounted, Roles, Boxes
<1>5. Upgrades /\ Rollbacks /\ RollbackReady
  BY DEF Upgrades, Rollbacks, RollbackReady, Copying
<1> QED
  BY <1>1, <1>2, <1>3, <1>4, <1>5 DEF IInv

LEMMA StepInv == ASSUME IInv, Step PROVE IInv'
<1>1. CASE MigrationStep
  BY <1>1, CheckInv, RecoverActiveInv, PreserveInv, PrepareAttemptInv,
     StopLegacyInv, SnapshotInv, CopyTargetInv, SnapshotCompleteInv,
     SaveUpgradedInv, UnprepareInv, UpgradeFailedInv, SaveFailedInv,
     RollbackCheckInv, RollbackAgainInv, RollbackRestoreInv, RollbackStateInv,
     RollbackJournalInv, RollbackFailedInv DEF MigrationStep
<1>2. CASE DeploymentStep /\ UNCHANGED <<legacy, journal, world>>
  BY <1>2, InstallPreflightInv, SaveAttemptInv, StageInv, StartingInv,
     CreateNetworkInv, StartApiInv, StartProxyInv, VerifyInv, CopyTemplatesInv,
     ArchiveInv, CommitInv, RemoveAttemptInv, UnstageInv, CleanInv, SaveCleanedInv,
     SaveCleanupFailedInv, AdoptInv, VerifyOwnedInv, SaveUninstallingInv, HaltInv,
     TakeResourceInv, TakeKeyInv, MarkInv, SaveUninstalledInv DEF DeploymentStep
<1> QED
  BY <1>1, <1>2 DEF Step

LEMMA RaiseInv == ASSUME IInv, Raise PROVE IInv'
<1>1. CASE RaiseMigration
  BY <1>1, RaisePreparingInv, RaiseCopyingInv, RaiseInstalledInv,
     RaiseReturningInv, RaiseOtherInv
<1>2. CASE RaiseInHandler
  BY <1>2, RaiseInHandlerInv
<1>3. CASE /\ op.pc \notin MigrationPcs \cup {"idle", "failed"}
           /\ RaiseDeployment /\ UNCHANGED <<legacy, journal, world>>
  <2>1. \/ op.pc \in {"preflight", "cleanup_failed"} \/ op.pc = "adopt"
        \/ op.pc \in {"owned", "halt", "take"} \/ op.pc = "stage"
        \/ op.pc \in {"net"} \cup (Making \ {"commit"}) \/ op.pc = "attempt"
        \/ op.pc = "starting" \/ op.pc = "commit" \/ op.pc = "unstage" \/ op.pc = "clean"
        \/ op.pc = "cleaned" \/ op.pc = "unattempt" \/ op.pc = "uninstalling"
        \/ op.pc = "mark" \/ op.pc = "uninstalled"
    BY <1>3 DEF IInv, TypeInv, Ops, Pcs, MigrationPcs, Planning, Undoing,
       Installing, Removing, Leaving, Preparing, Copying, Upgrading, Returning,
       Rolling
  <2> QED
    BY <1>3, <2>1, RaiseEarlyInv, RaiseAdoptInv, RaiseRemovingInv, RaiseStageInv,
       RaiseMakingInv, RaiseAttemptInv, RaiseStartingInv, RaiseCommitInv,
       RaiseUnstageInv, RaiseCleanInv, RaiseCleanedInv, RaiseUnattemptInv,
       RaiseUninstallingInv, RaiseMarkInv, RaiseUninstalledInv
<1> QED
  BY <1>1, <1>2, <1>3 DEF Raise

LEMMA NextInv == ASSUME IInv, [Next]_vars PROVE IInv'
<1>1. CASE UNCHANGED vars
  BY <1>1 DEF vars, files, docker, data, world, IInv, TypeInv, Commanded, Fresh,
     Installs, Uninstalls, Bare, Stored, Upgrades, Evidence, Rollbacks, Accounted,
     Claimed, Marked, RollbackReady
<1>2. CASE Next
  BY <1>2, BeginInv, StepInv, RaiseInv, StopInv, WantInv, LegacyWritesInv,
     ApiWritesInv DEF
     Next
<1> QED
  BY <1>1, <1>2

----------------------------------------------------------------------------
(* The templates, which the invariant above says nothing about              *)

\* The steps at which no template is noted, and those that an attempt covers.
Untouched == {"attempt", "stage", "starting", "net", "api", "proxy", "verify", "templates",
              "unstage", "cleaned", "uninstalled"}
Covered == {"archive", "commit", "clean", "cleanup_failed"}

(* Only Unraid has templates; what an install has noted is covered by its  *)
(* attempt, and what an uninstallation is about to mark is gone.           *)
Noted ==
    /\ tpl # "none" => unraid
    /\ op.pc = "templates" => unraid
    /\ op.pc \in Untouched => tpl # "kept"
    /\ op.pc = "mark" /\ op.res = "tpl" => tpl # "kept"
    /\ op.pc \in Covered /\ tpl = "kept" => attempt = [status |-> "starting", id |-> op.id]
    /\ tpl = "kept" => (\E id \in 1..made : Claimed(id)) /\ ~Marked("tpl")

\* A step that leaves the templates and what claims them alone.
LEMMA QuietNoted ==
    ASSUME Noted, UNCHANGED <<unraid, tpl, state, attempt, made>>,
           op'.pc \notin Untouched \cup Covered \cup {"mark"}
    PROVE  Noted'
BY DEF Noted, Claimed, Marked, Untouched

\* A step that leaves the templates alone, and the claims on them.
LEMMA KeepNoted ==
    ASSUME Noted, UNCHANGED <<unraid, tpl, made>>,
           op'.pc \notin Untouched \cup Covered \cup {"mark"},
           tpl = "kept" => \A id \in 1..made : Claimed(id) => Claimed(id)',
           tpl = "kept" /\ Marked("tpl")' => Marked("tpl")
    PROVE  Noted'
BY DEF Noted, Untouched

\* A step after which there is no noted template.
LEMMA FreeNoted ==
    ASSUME Noted, unraid' = unraid, tpl' # "kept", tpl' # "none" => tpl # "none",
           op'.pc # "templates"
    PROVE  Noted'
BY DEF Noted

\* A step with a claim, whose state has not removed the templates.
LEMMA ClaimNoted ==
    ASSUME Noted, unraid' = unraid, tpl' # "none" => unraid,
           op'.pc \notin Untouched \cup {"mark"},
           op'.pc \in Covered => attempt' = [status |-> "starting", id |-> op'.id],
           (\E id \in 1..made : Claimed(id))', ~Marked("tpl")'
    PROVE  Noted'
BY DEF Noted, Untouched

LEMMA MigrationNoted == ASSUME IInv, Noted, MigrationStep PROVE Noted'
<1> USE DEF At, Goto, files, docker, data, world
<1>0. op \in Ops
  BY DEF IInv, TypeInv
<1>1. CASE RollbackState
  <2>1. /\ state # None /\ state.status \in Final /\ state \in States
        /\ op'.pc = "roll_journal" /\ state' = [state EXCEPT !.status = "rolled_back"]
        /\ UNCHANGED <<unraid, tpl, attempt, made>>
    BY <1>1 DEF RollbackState, IInv, TypeInv, Rollbacks, Ops
  <2>2. state'.status = "rolled_back"
    BY <2>1 DEF States
  <2>3. \A id : Claimed(id) => Claimed(id)'
    BY <2>1 DEF Claimed
  <2>4. ~Marked("tpl")'
    BY <2>2 DEF Marked
  <2> QED
    BY <2>1, <2>3, <2>4 DEF Noted, Untouched, Covered
<1>2. CASE \/ Check \/ RecoverActive \/ Preserve \/ PrepareAttempt \/ StopLegacy \/ Snapshot
           \/ CopyTarget \/ SnapshotComplete
  <2>1. op'.pc \in {"idle", "adopt", "recover", "preserve", "journal", "unprepare",
                    "stop_legacy", "snapshot", "copy", "complete", "preflight"}
    <3>1. CASE Check
      BY <1>0, <3>1 DEF Check, Idle, Ops
    <3>2. CASE RecoverActive
      BY <1>0, <3>2 DEF RecoverActive, Idle, Ops
    <3>3. CASE Preserve
      BY <1>0, <3>3 DEF Preserve, Idle, Ops
    <3>4. CASE PrepareAttempt
      <4>1. CASE op' = [op EXCEPT !.pc = "stop_legacy", !.jr = NewJournal]
        BY <1>0, <4>1 DEF Ops
      <4>2. CASE op' = PrepareFails
        BY <1>0, <4>2 DEF PrepareFails, Idle, Ops
      <4> QED
        BY <3>4, <4>1, <4>2 DEF PrepareAttempt
    <3>5. CASE StopLegacy
      BY <1>0, <3>5 DEF StopLegacy, Idle, Ops
    <3>6. CASE Snapshot
      BY <1>0, <3>6 DEF Snapshot, Idle, Ops
    <3>7. CASE CopyTarget
      BY <1>0, <3>7 DEF CopyTarget, Idle, Ops
    <3>8. CASE SnapshotComplete
      BY <1>0, <3>8 DEF SnapshotComplete, Idle, Ops
    <3> QED
      BY <1>2, <3>1, <3>2, <3>3, <3>4, <3>5, <3>6, <3>7, <3>8
  <2>2. UNCHANGED <<unraid, tpl, state, attempt, made>>
    BY <1>2 DEF Check, RecoverActive, Preserve, PrepareAttempt, StopLegacy, Snapshot,
       CopyTarget, SnapshotComplete
  <2> QED
    BY <2>1, <2>2, QuietNoted DEF Untouched, Covered
<1>3. CASE \/ SaveUpgraded \/ Unprepare \/ UpgradeFailed \/ SaveFailed \/ RollbackCheck
           \/ RollbackAgain \/ RollbackRestore \/ RollbackJournal \/ RollbackFailed
  <2>1. op'.pc \in {"idle", "failed_save", "owned", "roll_again", "roll_state", "rollback_failed"}
    <3>1. CASE SaveUpgraded
      BY <1>0, <3>1 DEF SaveUpgraded, Idle, Ops
    <3>2. CASE Unprepare
      BY <1>0, <3>2 DEF Unprepare, RestoreLegacy, Idle, Ops
    <3>3. CASE UpgradeFailed
      BY <1>0, <3>3 DEF UpgradeFailed, RestoreLegacy, Idle, Ops
    <3>4. CASE SaveFailed
      BY <1>0, <3>4 DEF SaveFailed, Idle, Ops
    <3>5. CASE RollbackCheck
      BY <1>0, <3>5 DEF RollbackCheck, Idle, Ops
    <3>6. CASE RollbackAgain
      BY <1>0, <3>6 DEF RollbackAgain, RestoreLegacy, Idle, Ops
    <3>7. CASE RollbackRestore
      BY <1>0, <3>7 DEF RollbackRestore, RestoreLegacy, Idle, Ops
    <3>8. CASE RollbackJournal
      BY <1>0, <3>8 DEF RollbackJournal, Idle, Ops
    <3>9. CASE RollbackFailed
      BY <1>0, <3>9 DEF RollbackFailed, Idle, Ops
    <3> QED
      BY <1>3, <3>1, <3>2, <3>3, <3>4, <3>5, <3>6, <3>7, <3>8, <3>9
  <2>2. UNCHANGED <<unraid, tpl, state, attempt, made>>
    BY <1>3 DEF SaveUpgraded, Unprepare, UpgradeFailed, SaveFailed, RollbackCheck,
       RollbackAgain, RollbackRestore, RollbackJournal, RollbackFailed
  <2> QED
    BY <2>1, <2>2, QuietNoted DEF Untouched, Covered
<1> QED
  BY <1>1, <1>2, <1>3 DEF MigrationStep

\* Before the templates are copied, and after the clean-up.
LEMMA InstallNoted ==
    ASSUME IInv, Noted,
           \/ InstallPreflight \/ SaveAttempt \/ Stage \/ Starting \/ CreateNetwork
           \/ StartApi \/ StartProxy \/ Verify \/ Unstage \/ Clean \/ SaveCleaned
           \/ SaveUninstalled
    PROVE  Noted'
<1> USE DEF At, Goto, files, docker, data, world
<1>0. op \in Ops
  BY DEF IInv, TypeInv
<1>1. CASE InstallPreflight
  <2>1. CASE Preflight(op.cmd = "upgrade", op.re)
    <3>1. op'.pc = "attempt" /\ UNCHANGED <<unraid, tpl>>
      BY <1>0, <1>1, <2>1 DEF InstallPreflight, Ops
    <3>2. tpl = "none"
      BY <2>1 DEF Preflight, UnraidPreflight, TemplateThere, Noted
    <3> QED
      BY <3>1, <3>2, FreeNoted
  <2>2. CASE ~Preflight(op.cmd = "upgrade", op.re)
    <3>1. Leads("upgrade", "failed") /\ UNCHANGED <<unraid, tpl, state, attempt, made>>
      BY <1>0, <1>1, <2>2, InstallRaised DEF InstallPreflight
    <3> QED
      BY <3>1, QuietNoted DEF Leads, Moves, Ends, Untouched, Covered
  <2> QED
    BY <2>1, <2>2
<1>2. CASE SaveAttempt \/ Stage \/ Starting \/ CreateNetwork \/ StartApi \/ StartProxy
  <2>1. op'.pc \in {"stage", "starting", "net", "api", "proxy", "verify"} /\ tpl # "kept"
    BY <1>0, <1>2 DEF SaveAttempt, Stage, Starting, CreateNetwork, StartApi, StartProxy,
       Ops, Noted, Untouched
  <2>2. UNCHANGED <<unraid, tpl>>
    BY <1>2 DEF SaveAttempt, Stage, Starting, CreateNetwork, StartApi, StartProxy
  <2> QED
    BY <2>1, <2>2, FreeNoted
<1>3. CASE Verify
  <2>1. /\ op'.pc = IF unraid THEN "templates" ELSE "archive"
        /\ tpl # "kept" /\ UNCHANGED <<unraid, tpl>>
    BY <1>0, <1>3 DEF Verify, Ops, Noted, Untouched
  <2> QED
    BY <2>1 DEF Noted
<1>4. CASE Unstage \/ SaveCleaned
  <2>1. Leads("upgrade", "failed") /\ tpl # "kept" /\ UNCHANGED <<unraid, tpl>>
    BY <1>0, <1>4, InstallRaised DEF Unstage, SaveCleaned, Noted, Untouched
  <2> QED
    BY <2>1, FreeNoted DEF Leads, Moves, Ends
<1>5. CASE Clean
  <2>1. op'.pc = "cleaned" /\ tpl' # "kept" /\ (tpl' # "none" => tpl # "none") /\ unraid' = unraid
    BY <1>0, <1>5 DEF Clean, Unnoted, Ops
  <2> QED
    BY <2>1, FreeNoted
<1>6. CASE SaveUninstalled
  <2>1. Leads("rollback", "restore") /\ tpl # "kept" /\ UNCHANGED <<unraid, tpl>>
    BY <1>0, <1>6, UninstallReturned DEF SaveUninstalled, Noted, Untouched
  <2> QED
    BY <2>1, FreeNoted DEF Leads, Moves, Ends
<1> QED
  BY <1>1, <1>2, <1>3, <1>4, <1>5, <1>6

\* While an install keeps its templates.
LEMMA CommitNoted ==
    ASSUME IInv, Noted,
           CopyTemplates \/ Archive \/ Commit \/ RemoveAttempt \/ SaveCleanupFailed
    PROVE  Noted'
<1> USE DEF At, Goto, files, docker, data, world
<1>0. op \in Ops
  BY DEF IInv, TypeInv
<1>1. CASE CopyTemplates \/ Archive \/ Commit
  <2>1. /\ op'.pc \in {"archive", "commit", "unattempt"} /\ op'.id = op.id
        /\ tpl' # "none" => unraid
        /\ state' \in {state, Installed("installed", op.id)}
        /\ UNCHANGED <<unraid, attempt, made>>
    BY <1>0, <1>1 DEF CopyTemplates, Archive, Commit, Ops, Noted
  <2>2. /\ attempt = [status |-> "starting", id |-> op.id] /\ op.id \in 1..made
        /\ state = None \/ state.status \in Final
    BY <1>1 DEF CopyTemplates, Archive, Commit, IInv, Installs, Fresh, Making
  <2>3. attempt # None
    BY <1>0, <2>2, DeploymentAssumption DEF Attempts, Ops
  <2>4. ~Marked("tpl")'
    BY <2>1, <2>2 DEF Marked, Final, Installed
  <2>5. (\E id \in 1..made : Claimed(id))'
    BY <2>1, <2>2, <2>3 DEF Claimed
  <2> QED
    BY <2>1, <2>2, <2>4, <2>5, ClaimNoted DEF Untouched
<1>2. CASE RemoveAttempt
  <2>1. Leads("upgrade", "installed") /\ UNCHANGED <<unraid, tpl, state, made>>
    BY <1>0, <1>2, InstallReturned DEF RemoveAttempt
  <2>2. state # None /\ state.status = "installed" /\ state.id = op.id /\ op.id \in 1..made
    BY <1>2 DEF RemoveAttempt, IInv, Installs, Fresh
  <2>3. (\E id \in 1..made : Claimed(id))' /\ ~Marked("tpl")'
    BY <2>1, <2>2 DEF Claimed, Marked, Final
  <2> QED
    BY <2>1, <2>2, <2>3, ClaimNoted DEF Noted, Leads, Moves, Ends, Untouched, Covered
<1>3. CASE SaveCleanupFailed
  <2>1. /\ Leads("upgrade", "failed") /\ UNCHANGED <<unraid, tpl, state, made>>
        /\ attempt' = [status |-> "cleanup-failed", id |-> op.id]
    BY <1>0, <1>3, InstallRaised DEF SaveCleanupFailed
  <2>2. op.id \in 1..made
    BY <1>3 DEF SaveCleanupFailed, IInv, Fresh, Undoing
  <2>3. (\E id \in 1..made : Claimed(id))'
    BY <2>1, <2>2, DeploymentAssumption DEF Claimed, Attempts
  <2>4. CASE tpl = "kept"
    <3>1. ~Marked("tpl")'
      BY <2>1, <2>4 DEF Noted, Marked
    <3> QED
      BY <2>1, <2>2, <2>3, <3>1, ClaimNoted DEF Noted, Leads, Moves, Ends, Untouched, Covered
  <2>5. CASE tpl # "kept"
    BY <2>1, <2>5, FreeNoted DEF Leads, Moves, Ends
  <2> QED
    BY <2>4, <2>5
<1> QED
  BY <1>1, <1>2, <1>3

\* Adoption and uninstallation.
LEMMA LeaveNoted ==
    ASSUME IInv, Noted,
           Adopt \/ VerifyOwned \/ SaveUninstalling \/ Halt \/ TakeResource \/ TakeKey \/ Mark
    PROVE  Noted'
<1> USE DEF At, Goto, files, docker, data, world
<1>0. op \in Ops
  BY DEF IInv, TypeInv
<1>1. CASE Adopt
  <2>1. /\ Leads("upgrade", "recover") \/ Ends
        /\ UNCHANGED <<unraid, tpl, attempt, made>>
        /\ \/ UNCHANGED state
           \/ state = None /\ state' = Installed("adopted", box["api"])
    BY <1>0, <1>1, AdoptReturned, AdoptRaised DEF Adopt, ComposeAdoptable, UnraidAdoptable
  <2>2. op'.pc \in {"recover", "idle"}
    BY <2>1 DEF Leads, Moves, Ends
  <2> QED
    BY <2>1, <2>2, KeepNoted DEF Installed, Claimed, Marked, Untouched, Covered
<1>2. CASE VerifyOwned \/ Halt
  <2>1. op'.pc \in {"rollback_failed", "restore", "idle", "uninstalling", "take"}
    <3>1. CASE VerifyOwned
      <4>1. \/ op' = Raised(op, "uninstall") \/ op' = Returned(op, "uninstall")
            \/ op' = [op EXCEPT !.pc = "uninstalling"]
        BY <3>1 DEF VerifyOwned
      <4>2. op' = Raised(op, "uninstall") => op'.pc \in {"rollback_failed", "idle"}
        BY <1>0, UninstallRaised DEF Leads, Moves, Ends
      <4>3. op' = Returned(op, "uninstall") => op'.pc \in {"restore", "idle"}
        BY <1>0, UninstallReturned DEF Leads, Moves, Ends
      <4> QED
        BY <1>0, <4>1, <4>2, <4>3 DEF Ops
    <3>2. CASE Halt
      BY <1>0, <3>2 DEF Halt, Ops
    <3> QED
      BY <1>2, <3>1, <3>2
  <2>2. UNCHANGED <<unraid, tpl, state, attempt, made>>
    BY <1>2 DEF VerifyOwned, Halt
  <2> QED
    BY <2>1, <2>2, QuietNoted DEF Untouched, Covered
<1>3. CASE SaveUninstalling
  <2>1. /\ op'.pc = "halt" /\ UNCHANGED <<unraid, tpl, attempt, made>>
        /\ state \in States /\ state # None /\ state.status \notin Final
        /\ state' = [state EXCEPT !.status = "uninstalling"]
    BY <1>0, <1>3 DEF SaveUninstalling, IInv, TypeInv, Uninstalls, Ops
  <2>2. /\ state'.status = "uninstalling" /\ state'.id = state.id /\ state'.gone = state.gone
        /\ state' # None
    BY <2>1, DeploymentAssumption DEF States
  <2>3. state.status # "uninstalling" => state.gone = {}
    BY <2>1 DEF IInv, Stored, States, Final
  <2>4. Marked("tpl")' => Marked("tpl")
    BY <2>1, <2>2, <2>3 DEF Marked
  <2>5. \A id : Claimed(id) => Claimed(id)'
    BY <2>1, <2>2 DEF Claimed, Final
  <2> QED
    BY <2>1, <2>4, <2>5, KeepNoted DEF Untouched, Covered
<1>4. CASE TakeResource
  <2>1. /\ op'.pc = "mark" /\ op'.res = op.res
        /\ tpl' = IF op.res = "tpl" THEN "none" ELSE tpl
        /\ UNCHANGED <<unraid, state, attempt, made>>
    BY <1>0, <1>4 DEF TakeResource, Ops
  <2>2. CASE op.res = "tpl"
    BY <2>1, <2>2, FreeNoted
  <2>3. CASE op.res # "tpl"
    BY <2>1, <2>3 DEF Noted, Claimed, Marked, Untouched, Covered
  <2> QED
    BY <2>2, <2>3
<1>5. CASE TakeKey
  <2>1. /\ UNCHANGED <<unraid, tpl, state, attempt, made>>
        /\ \/ op'.pc = "mark" /\ op'.res = "key"
           \/ Leads("rollback", "rollback_failed")
    BY <1>0, <1>5, UninstallRaised DEF TakeKey, Ops
  <2>2. CASE op'.pc = "mark" /\ op'.res = "key"
    BY <2>1, <2>2 DEF Noted, Claimed, Marked, Untouched, Covered
  <2>3. CASE Leads("rollback", "rollback_failed")
    BY <2>1, <2>3, QuietNoted DEF Leads, Moves, Ends, Untouched, Covered
  <2> QED
    BY <2>1, <2>2, <2>3
<1>6. CASE Mark
  <2>1. /\ state \in States /\ state # None /\ state.status = "uninstalling"
        /\ op.res \in {"api", "proxy", "net", "key", "tpl"}
        /\ state' = [state EXCEPT !.gone = @ \cup {op.res}]
        /\ UNCHANGED <<unraid, tpl, attempt, made>>
    BY <1>0, <1>6 DEF Mark, IInv, TypeInv, Uninstalls, Removing, Ops
  <2>2. /\ state'.status = "uninstalling" /\ state'.id = state.id /\ state' # None
        /\ state'.gone = state.gone \cup {op.res}
    BY <2>1, DeploymentAssumption DEF States
  <2>3. \/ op'.pc \in {"halt", "take"}
        \/ op'.pc = "uninstalled" /\ (op.res = "tpl" \/ (op.res = "net" /\ ~unraid))
    <3>1. op'.pc = After(op.res)[1]
      BY <1>0, <1>6 DEF Mark, Ops
    <3> QED
      BY <2>1, <3>1 DEF After
  <2>4. op.res = "tpl" => tpl # "kept"
    BY <1>6 DEF Mark, Noted
  <2>5. tpl = "kept" /\ Marked("tpl")' => Marked("tpl")
    BY <2>1, <2>2, <2>4 DEF Marked
  <2>6. \A id : Claimed(id) => Claimed(id)'
    BY <2>1, <2>2 DEF Claimed, Final
  <2>7. CASE op'.pc = "uninstalled"
    <3>1. tpl # "kept"
      BY <2>3, <2>4, <2>7 DEF Noted
    <3> QED
      BY <2>1, <2>7, <3>1, FreeNoted
  <2>8. CASE op'.pc \in {"halt", "take"}
    BY <2>1, <2>5, <2>6, <2>8, KeepNoted DEF Untouched, Covered
  <2> QED
    BY <2>3, <2>7, <2>8
<1> QED
  BY <1>1, <1>2, <1>3, <1>4, <1>5, <1>6

LEMMA StepNoted == ASSUME IInv, Noted, Step PROVE Noted'
BY MigrationNoted, InstallNoted, CommitNoted, LeaveNoted DEF Step, DeploymentStep

\* Begin, a stop, what the services and the operator do.
LEMMA WorldNoted ==
    ASSUME IInv, Noted,
           \/ \E c \in {"install", "adopt", "uninstall", "upgrade", "rollback"} : Begin(c)
           \/ Stop \/ Want \/ LegacyWrites \/ ApiWrites
    PROVE  Noted'
<1> USE DEF files, docker, data, world
<1>1. CASE Stop \/ \E c \in {"install", "adopt", "uninstall", "upgrade", "rollback"} : Begin(c)
  <2>1. op'.pc \in {"idle", "preflight", "adopt", "owned", "check", "roll_check"}
    <3>1. CASE Stop
      BY <3>1 DEF Stop, StopDeployment, Idle
    <3>2. ASSUME NEW c \in {"install", "adopt", "uninstall", "upgrade", "rollback"}, Begin(c)
          PROVE  op'.pc \in {"preflight", "adopt", "owned", "check", "roll_check"}
      BY <3>2 DEF Begin, Idle
    <3> QED
      BY <1>1, <3>1, <3>2
  <2>2. UNCHANGED <<unraid, tpl, state, attempt, made>>
    BY <1>1 DEF Stop, StopDeployment, Begin
  <2> QED
    BY <2>1, <2>2, QuietNoted DEF Untouched, Covered
<1>2. CASE Want \/ LegacyWrites \/ ApiWrites
  BY <1>2 DEF Want, LegacyWrites, ApiWrites, Noted, Claimed, Marked
<1> QED
  BY <1>1, <1>2

\* A step of install raises: before anything is noted, or later.
LEMMA RaiseInstallNoted ==
    ASSUME IInv, Noted, RaiseDeployment, op.pc \in Installing
    PROVE  Noted'
<1>0. /\ op \in Ops /\ op' = InstallHandler(op) /\ unraid' = unraid
      /\ tpl' \in {tpl} \cup (CASE op.pc = "templates" -> {"kept", "lost"}
                                [] op.pc = "clean" -> {Unnoted}
                                [] OTHER -> {})
  BY DEF RaiseDeployment, Proc, At, IInv, TypeInv, Installing, Planning, Making, Undoing
<1>1. CASE op.pc \in {"preflight", "cleanup_failed"}
  <2>1. Leads("upgrade", "failed") /\ UNCHANGED <<unraid, tpl, state, attempt, made>>
    BY <1>0, <1>1, RaiseFrame, InstallRaised DEF InstallHandler
  <2> QED
    BY <2>1, QuietNoted DEF Leads, Moves, Ends, Untouched, Covered
<1>2. CASE op.pc \in Untouched \ {"templates"}
  <2>1. op'.pc \in {"unstage", "clean", "cleanup_failed", "failed", "idle"}
    <3>1. CASE op.pc = "attempt"
      BY <1>0, <3>1, InstallRaised DEF InstallHandler, Leads, Moves, Ends
    <3>2. CASE op.pc # "attempt"
      BY <1>0, <1>2, <3>2 DEF InstallHandler, Ops, Untouched, Installing, Planning, Making,
         Undoing
    <3> QED
      BY <3>1, <3>2
  <2>2. tpl' = tpl /\ tpl # "kept"
    BY <1>0, <1>2 DEF Noted, Untouched
  <2> QED
    BY <1>0, <2>1, <2>2, FreeNoted
<1>3. CASE op.pc \in {"templates", "archive"}
  <2>1. /\ op'.pc = "clean" /\ op'.id = op.id /\ op.id \in 1..made
        /\ UNCHANGED <<unraid, state, attempt, made>>
        /\ attempt = [status |-> "starting", id |-> op.id]
        /\ state = None \/ state.status \in Final
        /\ tpl' # "none" => unraid
    BY <1>0, <1>3, RaiseFrame DEF InstallHandler, Ops, IInv, Fresh, Installs, Making, Noted
  <2>2. attempt # None
    BY <1>0, <2>1, DeploymentAssumption DEF Attempts, Ops
  <2>3. ~Marked("tpl")'
    BY <2>1 DEF Marked, Final
  <2>4. (\E id \in 1..made : Claimed(id))'
    BY <2>1, <2>2 DEF Claimed
  <2> QED
    BY <2>1, <2>3, <2>4, ClaimNoted DEF Untouched
<1>4. CASE op.pc = "commit"
  <2>1. /\ op'.pc = "clean" /\ op'.id = op.id /\ op.id \in 1..made
        /\ UNCHANGED <<unraid, tpl, attempt, made>>
        /\ state' \in {state, Installed("installed", op.id)}
        /\ attempt = [status |-> "starting", id |-> op.id]
        /\ state = None \/ state.status \in Final
    BY <1>0, <1>4, RaiseFrame DEF RaiseDeployment, At, InstallHandler, Ops, IInv, Fresh,
       Installs, Making
  <2>2. attempt # None
    BY <1>0, <2>1, DeploymentAssumption DEF Attempts, Ops
  <2>3. ~Marked("tpl")'
    BY <2>1 DEF Marked, Final, Installed
  <2>4. (\E id \in 1..made : Claimed(id))'
    BY <2>1, <2>2 DEF Claimed
  <2> QED
    BY <2>1, <2>3, <2>4, ClaimNoted DEF Noted, Untouched
<1>5. CASE op.pc = "clean"
  <2>1. /\ op'.pc = "cleanup_failed" /\ op'.id = op.id
        /\ UNCHANGED <<unraid, state, attempt, made>> /\ tpl' \in {tpl, Unnoted}
    BY <1>0, <1>5, RaiseFrame DEF InstallHandler, Ops
  <2>2. CASE tpl' = "kept"
    BY <1>5, <2>1, <2>2 DEF Noted, Unnoted, Claimed, Marked, Untouched, Covered
  <2>3. CASE tpl' # "kept"
    BY <2>1, <2>3, FreeNoted DEF Unnoted
  <2> QED
    BY <2>2, <2>3
<1>6. CASE op.pc = "unattempt"
  <2>1. /\ Leads("upgrade", "failed") /\ UNCHANGED <<unraid, tpl, state, made>>
        /\ state # None /\ state.status = "installed" /\ state.id = op.id /\ op.id \in 1..made
    BY <1>0, <1>6, RaiseFrame, InstallRaised DEF InstallHandler, IInv, Installs, Fresh
  <2>2. (\E id \in 1..made : Claimed(id))' /\ ~Marked("tpl")'
    BY <2>1 DEF Claimed, Marked, Final
  <2> QED
    BY <2>1, <2>2, ClaimNoted DEF Noted, Leads, Moves, Ends, Untouched, Covered
<1> QED
  BY <1>1, <1>2, <1>3, <1>4, <1>5, <1>6 DEF Installing, Planning, Making, Undoing, Untouched

\* A step of adopt or uninstall raises.
LEMMA RaiseLeaveNoted ==
    ASSUME IInv, Noted, RaiseDeployment, op.pc \in Leaving \cup {"adopt"}
    PROVE  Noted'
<1>0. /\ op \in Ops /\ op' = Raised(op, Proc(op.pc)) /\ UNCHANGED <<unraid, tpl, attempt, made>>
  BY RaiseFrame DEF RaiseDeployment, Proc, At, IInv, TypeInv, Leaving, Removing
<1>1. op'.pc \in {"rollback_failed", "idle"}
  <2>1. CASE op.pc = "adopt"
    BY <1>0, <2>1, AdoptRaised DEF Proc, Ends
  <2>2. CASE op.pc # "adopt"
    BY <1>0, <2>2, UninstallRaised DEF Proc, Leaving, Removing, Leads, Moves, Ends
  <2> QED
    BY <2>1, <2>2
<1>2. CASE UNCHANGED state
  BY <1>0, <1>1, <1>2, QuietNoted DEF Untouched, Covered
<1>3. CASE op.pc \in {"uninstalling", "mark"} /\ ~UNCHANGED state
  <2>1. /\ state \in States /\ state # None /\ state.status \notin Final
        /\ state' \in {[state EXCEPT !.status = "uninstalling"],
                       [state EXCEPT !.gone = @ \cup {op.res}]}
        /\ op.pc = "uninstalling" => state' = [state EXCEPT !.status = "uninstalling"]
        /\ op.pc = "mark" => state' = [state EXCEPT !.gone = @ \cup {op.res}]
        /\ op.pc = "mark" =>
               state.status = "uninstalling" /\ op.res \in {"api", "proxy", "net", "key", "tpl"}
    BY <1>0, <1>3 DEF RaiseDeployment, At, IInv, TypeInv, Uninstalls, Removing, Final, Ops
  <2>2. /\ state'.status = "uninstalling" /\ state'.id = state.id /\ state' # None
        /\ op.pc = "uninstalling" => state'.gone = state.gone
        /\ op.pc = "mark" => state'.gone = state.gone \cup {op.res}
    BY <1>3, <2>1, DeploymentAssumption DEF States
  <2>3. state.status # "uninstalling" => state.gone = {}
    BY <2>1 DEF IInv, Stored, States, Final
  <2>4. tpl = "kept" /\ Marked("tpl")' => Marked("tpl")
    BY <1>3, <2>1, <2>2, <2>3 DEF Marked, Noted
  <2>5. \A id : Claimed(id) => Claimed(id)'
    BY <1>0, <2>1, <2>2 DEF Claimed, Final
  <2> QED
    BY <1>0, <1>1, <2>4, <2>5, KeepNoted DEF Untouched, Covered
<1>4. CASE op.pc = "uninstalled"
  BY <1>0, <1>1, <1>4, FreeNoted DEF Noted, Untouched
<1> QED
  BY <1>0, <1>2, <1>3, <1>4, RaiseFrame DEF Leaving, Removing

LEMMA RaiseNoted == ASSUME IInv, Noted, Raise PROVE Noted'
<1> USE DEF files, docker, data, world
<1>0. op \in Ops
  BY DEF IInv, TypeInv
<1>1. CASE RaiseMigration
  <2>1. /\ UNCHANGED <<unraid, tpl, attempt, made>>
        /\ op'.pc \in {"idle", "unprepare", "failed", "failed_save", "rollback_failed"}
        /\ \/ UNCHANGED state
           \/ op.pc = "roll_state" /\ state' = [state EXCEPT !.status = "rolled_back"]
    BY <1>0, <1>1 DEF RaiseMigration, MigrationHandler, PrepareFails, Idle, Ops, At
  <2>2. CASE UNCHANGED state
    BY <2>1, <2>2, QuietNoted DEF Untouched, Covered
  <2>3. CASE op.pc = "roll_state" /\ state' = [state EXCEPT !.status = "rolled_back"]
    <3>1. state # None /\ state \in States /\ state.status \in Final
      BY <2>3 DEF IInv, TypeInv, Rollbacks
    <3>2. state'.status = "rolled_back"
      BY <2>3, <3>1 DEF States
    <3>3. (\A id : Claimed(id) => Claimed(id)') /\ ~Marked("tpl")'
      BY <2>1, <3>1, <3>2 DEF Claimed, Marked
    <3> QED
      BY <2>1, <3>3, KeepNoted DEF Untouched, Covered
  <2> QED
    BY <2>1, <2>2, <2>3
<1>2. CASE RaiseInHandler
  <2>1. op'.pc = "failed_save" /\ UNCHANGED <<unraid, tpl, state, attempt, made>>
    BY <1>0, <1>2 DEF RaiseInHandler, Ops
  <2> QED
    BY <2>1, QuietNoted DEF Untouched, Covered
<1>3. CASE op.pc \notin MigrationPcs \cup {"idle", "failed"} /\ RaiseDeployment
  <2>1. op.pc \in Installing \cup Leaving \cup {"adopt"}
    BY <1>0, <1>3 DEF Ops, Pcs, MigrationPcs, Preparing, Copying, Upgrading, Returning, Rolling
  <2> QED
    BY <1>3, <2>1, RaiseInstallNoted, RaiseLeaveNoted
<1> QED
  BY <1>1, <1>2, <1>3 DEF Raise

LEMMA NextNoted == ASSUME IInv, Noted, [Next]_vars PROVE Noted'
<1>1. CASE UNCHANGED vars
  BY <1>1 DEF vars, files, docker, data, Noted, Claimed, Marked
<1> QED
  BY <1>1, StepNoted, RaiseNoted, WorldNoted DEF Next

----------------------------------------------------------------------------
(* The theorems                                                             *)

(* The inductive invariant holds in every behaviour of the commands.       *)
THEOREM Invariant == Spec => []IInv
<1>1. Init => IInv
  BY InitInv
<1>2. IInv /\ [Next]_vars => IInv'
  BY NextInv
<1> QED
  BY <1>1, <1>2, PTL DEF Spec

(* Only Unraid has templates, and those that were noted are accounted for. *)
THEOREM TemplatesNoted == Spec => []Noted
<1>1. Init => Noted
  BY DEF Init, InitDeployment, Noted, Idle
<1>2. IInv /\ Noted /\ [Next]_vars => Noted'
  BY NextNoted
<1> QED
  BY <1>1, <1>2, Invariant, PTL DEF Spec

(* Whenever the upgraded API can write, the legacy service is stopped and  *)
(* its data is what the snapshot in the journal holds: a rollback finds    *)
(* what it compares.                                                       *)
THEOREM RollbackAlwaysReady == Spec => []RollbackReady
<1>1. IInv => RollbackReady
  BY DEF IInv
<1> QED
  BY <1>1, Invariant, PTL

(* Whatever is killed or fails, every container, network and session key   *)
(* that a command has made, and every template it has noted, belongs to a  *)
(* state that is not final or to an attempt that says it may be there.     *)
THEOREM NothingOrphaned == Spec => []NoOrphans
<1>1. IInv /\ Noted => NoOrphans
  <2>1. SUFFICES ASSUME IInv, Noted PROVE NoOrphans
    OBVIOUS
  <2>2. DOMAIN box = Boxes
    BY <2>1 DEF IInv, TypeInv
  <2> QED
    BY <2>1, <2>2 DEF IInv, Noted, Accounted, Claimed, Marked, Final, NoOrphans
<1> QED
  BY <1>1, Invariant, TemplatesNoted, PTL

(* Once a deployment was committed, its data is never replaced: it is left *)
(* alone or written to by its API, through rollback and re-upgrade.        *)
THEOREM CommittedDataKept == Spec => TargetKept
<1>1. ASSUME IInv, [Next]_vars, state # None
      PROVE  target' \in {target, [target EXCEPT !.v = @ + 1]}
  <2> USE <1>1
  <2>1. CASE UNCHANGED target
    BY <2>1
  <2>2. CASE StartApi
    BY <2>2 DEF IInv, Stored, StartApi
  <2>3. CASE Preserve \/ CopyTarget
    BY <2>3 DEF IInv, Upgrades, Preparing, Copying, Preserve, CopyTarget, At
  <2>4. CASE ApiWrites
    BY <2>4 DEF ApiWrites
  <2>5. StartApi \/ Preserve \/ CopyTarget \/ ApiWrites \/ UNCHANGED target
    <3> USE DEF vars, data
    <3>1. CASE UNCHANGED vars
      BY <3>1
    <3>2. CASE MigrationStep
      BY <3>2 DEF MigrationStep, Check, RecoverActive, PrepareAttempt, StopLegacy,
         Snapshot, SnapshotComplete, SaveUpgraded, Unprepare, UpgradeFailed,
         SaveFailed, RollbackCheck, RollbackAgain, RollbackRestore, RollbackState,
         RollbackJournal, RollbackFailed
    <3>3. CASE DeploymentStep
      BY <3>3 DEF DeploymentStep, InstallPreflight, SaveAttempt, Stage, Starting,
         CreateNetwork, StartProxy, Verify, CopyTemplates, Archive, Commit,
         RemoveAttempt, Unstage, Clean, SaveCleaned, SaveCleanupFailed, Adopt,
         VerifyOwned, SaveUninstalling, Halt, TakeResource, TakeKey, Mark,
         SaveUninstalled
    <3>4. CASE Raise \/ Stop
      BY <3>4 DEF Raise, RaiseMigration, RaiseInHandler, RaiseDeployment, Stop,
         StopDeployment
    <3>5. CASE \/ Want \/ LegacyWrites
               \/ \E c \in {"install", "adopt", "uninstall", "upgrade", "rollback"} : Begin(c)
      BY <3>5 DEF Want, LegacyWrites, Begin
    <3> QED
      BY <3>1, <3>2, <3>3, <3>4, <3>5 DEF Next, Step
  <2> QED
    BY <2>1, <2>2, <2>3, <2>4, <2>5
<1> QED
  BY <1>1, Invariant, PTL DEF Spec, TargetKept
=============================================================================
