-------------------------- MODULE HubTopologyProofs --------------------------
(***************************************************************************)
(* What a cutover to the hub, its rollback, an installation and an         *)
(* uninstallation keep true, for any set of readers and any number of      *)
(* stops, faults, writes and goals.                                        *)
(***************************************************************************)
EXTENDS HubTopology, TLAPS

----------------------------------------------------------------------------
(* The inductive invariant                                                  *)

\* Where a command is: in install, in uninstall, in migrate or in rollback.
Starting   == {"starting", "stage", "up", "verify", "commit"}
Undoing    == {"clean", "cleaned", "cleanup_failed"}
Installing == {"preflight", "attempt", "unattempt"} \cup Starting \cup Undoing
Removing   == {"owned", "uninstalling", "down", "keys", "uninstalled", "reconcile"}
Copying    == {"copy", "publish", "evidence"}
Migrating  == {"sources", "prepared", "recover", "copying", "stop", "failed", "committed"}
              \cup Copying
Rolling    == {"roll_check", "roll_state", "roll_journal"}

Sourced  == [Readers -> [up : BOOLEAN, data : Nat]]
Journals == [status : {"prepared", "copying", "failed", "committed", "rolled_back"},
             copied : [Readers -> Copies \cup {None}], was : SUBSET Readers]

Pcs == {"idle", "restart"} \cup Installing \cup Removing \cup Migrating \cup Rolling

Commands ==
    [cmd : {"none", "install", "uninstall", "migrate", "rollback"},
     pc : Pcs, id : Nat, keyed : SUBSET Readers, started : BOOLEAN, todo : SUBSET Readers,
     r : Readers \cup {None}, own : BOOLEAN]

TypeInv ==
    /\ goal \in {"install", "uninstall", "migrate", "rollback"}
    /\ IF goal \in {"install", "uninstall"} THEN src = None /\ journal = None ELSE src \in Sourced
    /\ state \in HubStates \cup {None}
    /\ attempt \in Attempts \cup {None}
    /\ journal \in Journals \cup {None}
    /\ hub \in Nat /\ made \in Nat
    /\ work \in [Readers -> Nat \cup {Partial, None}]
    /\ target \in [Readers -> Copies \cup {None}]
    /\ op \in Commands

\* The command at work is the one that the goal asks for, and is where it may be.
Commanded ==
    /\ op.cmd # "none" => op.cmd = goal
    /\ op.pc = "idle" => op.cmd = "none"
    /\ op.pc \in Installing => op.cmd \in {"install", "migrate"}
    /\ op.pc \in Removing => op.cmd \in {"uninstall", "rollback"}
    /\ op.pc \in Migrating => op.cmd = "migrate"
    /\ op.pc = "restart" => op.cmd \in {"migrate", "rollback"}
    /\ op.pc \in Rolling => op.cmd = "rollback"
    /\ goal = "rollback" => state # None /\ journal \in Journals

\* An install id is drawn once.
Fresh ==
    /\ hub <= made
    /\ state # None => state.id <= made
    /\ attempt # None => attempt.id <= made
    /\ op.pc \in Starting \cup Undoing => op.id <= made
    /\ op.pc \in Starting /\ state # None => state.id # op.id

(* Where there is no hub container: before it is started, after it is      *)
(* removed, and while the sources are started again.                       *)
NoHub ==
    /\ op.pc \in {"attempt", "starting", "stage", "cleaned", "keys", "uninstalled", "reconcile",
                  "restart", "roll_state", "roll_journal"} => hub = 0
    /\ op.pc \in Starting \cup {"clean"} /\ ~op.started => hub = 0
    /\ op.pc \in {"up", "verify", "commit"} => op.started
    /\ journal # None /\ journal.status = "rolled_back" => hub = 0

(* The hub container of an installation is the one that its attempt names, *)
(* and a state that is not installed names no container.                   *)
Owned ==
    /\ op.pc \in Starting \cup Undoing => hub \in {0, op.id}
    /\ op.pc \in {"verify", "commit"} => hub = op.id
    /\ op.pc \in Starting => attempt # None /\ attempt.id = op.id
    /\ op.pc \in Starting \ {"starting"} => attempt.status = "starting"
    /\ op.pc = "unattempt" => state # None /\ state.status = "installed" /\ state.id = hub
    /\ op.pc \in {"uninstalling", "down"} => state # None /\ hub \in {0, state.id}
    /\ op.pc \in Removing \ {"owned"} => state # None
    /\ hub # 0 /\ state # None /\ state.status \in {"uninstalled", "rolled_back"} => hub # state.id

\* A migration has a journal that no rollback has closed.
Journaled ==
    op.cmd = "migrate" /\ op.pc \notin {"idle", "sources", "prepared"} =>
        journal \in Journals /\ journal.status # "rolled_back"

\* The data of a reader is what its stopped source holds.
Copied(r) == ~src[r].up /\ target[r] # None /\ target[r].from = src[r].data

(* The sources are stopped one after the other, then copied one after the  *)
(* other, and stay as they are while the hub is installed and runs.        *)
Cutover ==
    /\ hub # 0 => \A r \in Readers : target[r] # None
    /\ hub # 0 /\ goal \in {"migrate", "rollback"} => \A r \in Readers : Copied(r)
    /\ op.pc = "stop" => \A r \in Readers \ op.todo : ~src[r].up
    /\ op.pc \in Copying =>
           /\ \A r \in Readers : ~src[r].up
           /\ \A r \in Readers \ op.todo : Copied(r)
    /\ op.pc \in {"publish", "evidence"} => op.r \in Readers
    /\ op.pc = "publish" => target[op.r] = None /\ work[op.r] = src[op.r].data
    /\ op.pc = "evidence" => Copied(op.r)
    /\ op.cmd = "migrate" /\ op.pc \in {"preflight", "attempt"} \cup Starting =>
           \A r \in Readers : Copied(r)

IInv ==
    /\ TypeInv /\ Commanded /\ Fresh /\ NoHub /\ Owned /\ Journaled /\ Cutover
    /\ HubAccounted

----------------------------------------------------------------------------
(* How the command goes on                                                  *)

Same == op'.cmd = op.cmd /\ op'.id = op.id /\ op'.started = op.started
Moves(p) == op' \in Commands /\ op'.pc = p /\ Same /\ op'.todo = op.todo /\ op'.r = op.r
Ends == op' \in Commands /\ op'.pc = "idle" /\ op'.cmd = "none"
Fails == (op.cmd = "migrate" /\ Moves("failed")) \/ (op.cmd # "migrate" /\ Ends)
Restarts == op' \in Commands /\ op'.pc = "restart" /\ Same
Returns ==
    \/ op.cmd = "migrate" /\ Moves("committed")
    \/ op.cmd = "rollback" /\ Restarts
    \/ op.cmd \notin {"migrate", "rollback"} /\ Ends

LEMMA GotoMoves == ASSUME op \in Commands, NEW p \in Pcs, Goto(p) PROVE Moves(p)
BY DEF Commands, Goto, Moves, Same

LEMMA IdleEnds == op' = Idle => Ends
BY DEF Idle, Ends, Commands, Pcs

LEMMA RaisedFails == ASSUME op \in Commands, op' = Raised(op) PROVE Fails
<1>1. CASE op.cmd = "migrate"
  BY <1>1, GotoMoves DEF Raised, Fails, Goto, Pcs, Migrating
<1>2. CASE op.cmd # "migrate"
  BY <1>2, IdleEnds DEF Raised, Fails
<1> QED
  BY <1>1, <1>2

LEMMA RestartMoves == ASSUME op \in Commands, journal \in Journals,
                             op' = [op EXCEPT !.pc = "restart", !.todo = journal.was]
                      PROVE  Restarts
BY DEF Commands, Journals, Restarts, Same, Pcs

LEMMA ReturnedReturns ==
    ASSUME op \in Commands, op.cmd = "rollback" => journal \in Journals, op' = Returned(op)
    PROVE  Returns
<1>1. CASE op.cmd = "migrate"
  BY <1>1, GotoMoves DEF Returned, Returns, Goto, Pcs, Migrating
<1>2. CASE op.cmd = "rollback"
  BY <1>2, RestartMoves DEF Returned, Returns
<1>3. CASE op.cmd \notin {"migrate", "rollback"}
  BY <1>3, IdleEnds DEF Returned, Returns
<1> QED
  BY <1>1, <1>2, <1>3

\* A source that is stopped or started keeps its data, and the others are left alone.
LEMMA SourceStopped ==
    ASSUME src \in Sourced, NEW r \in Readers, src' = [src EXCEPT ![r].up = FALSE]
    PROVE  /\ src' \in Sourced
           /\ \A q \in Readers : src'[q].data = src[q].data /\ (src'[q].up => q # r /\ src[q].up)
<1>1. [src[r] EXCEPT !.up = FALSE] \in [up : BOOLEAN, data : Nat]
  BY DEF Sourced
<1> QED
  BY <1>1 DEF Sourced

LEMMA SourceStarted ==
    ASSUME src \in Sourced, NEW r \in Readers, src' = [src EXCEPT ![r].up = TRUE]
    PROVE  src' \in Sourced
<1>1. [src[r] EXCEPT !.up = TRUE] \in [up : BOOLEAN, data : Nat]
  BY DEF Sourced
<1> QED
  BY <1>1 DEF Sourced

----------------------------------------------------------------------------
(* Preservation by each step                                                 *)

LEMMA InitInv == Init => IInv
BY HubAssumption DEF Init, Idle, IInv, TypeInv, Commands, Pcs, Starting, Undoing, Installing,
       Removing, Copying, Migrating, Rolling, Sourced, Journals, HubStates, Attempts, Copies,
       Commanded, Fresh, NoHub, Owned, Journaled, Cutover, Copied, HubAccounted

LEMMA BeginInv == ASSUME IInv, Begin PROVE IInv'
<1> USE HubAssumption DEF Begin, At, hubfiles, copies
<1>1. /\ op' \in Commands /\ op'.cmd = goal
      /\ \/ op'.pc = "preflight" /\ goal = "install"
         \/ op'.pc = "owned" /\ goal = "uninstall"
         \/ op'.pc = "sources" /\ goal = "migrate"
         \/ op'.pc = "roll_check" /\ goal = "rollback"
  <2>1. goal \in {"install", "uninstall", "migrate", "rollback"}
    BY DEF IInv, TypeInv
  <2>2. \E p \in {"preflight", "owned", "sources", "roll_check"} :
           /\ op' = [Idle EXCEPT !.cmd = goal, !.pc = p]
           /\ \/ p = "preflight" /\ goal = "install"
              \/ p = "owned" /\ goal = "uninstall"
              \/ p = "sources" /\ goal = "migrate"
              \/ p = "roll_check" /\ goal = "rollback"
    BY <2>1
  <2> QED
    BY <2>1, <2>2 DEF Idle, Commands, Pcs, Starting, Undoing, Installing, Removing, Copying,
           Migrating, Rolling
<1>2. TypeInv'
  BY <1>1 DEF IInv, TypeInv
<1>3. Commanded' /\ Fresh' /\ Journaled'
  BY <1>1, <1>2 DEF IInv, Commanded, Fresh, Journaled, Starting, Undoing, Installing, Removing,
         Copying, Migrating, Rolling
<1>4. NoHub' /\ Owned' /\ HubAccounted'
  BY <1>1, <1>2 DEF IInv, NoHub, Owned, HubAccounted, Starting, Undoing, Removing
<1>5. Cutover'
  BY <1>1, <1>2 DEF IInv, Cutover, Copied, Copying, Starting
<1> QED
  BY <1>2, <1>3, <1>4, <1>5 DEF IInv

LEMMA InstallPreflightInv == ASSUME IInv, InstallPreflight PROVE IInv'
<1> USE HubAssumption DEF InstallPreflight, At, hubfiles, copies
<1>1. \/ /\ Preflight /\ op' \in Commands
         /\ op'.pc = "attempt" /\ op'.cmd = op.cmd
      \/ Fails
  <2>1. CASE Preflight
    BY <2>1 DEF IInv, TypeInv, Commands, Pcs, Installing
  <2>2. CASE ~Preflight
    BY <2>2, RaisedFails DEF IInv, TypeInv
  <2> QED
    BY <2>1, <2>2
<1>2. TypeInv'
  BY <1>1 DEF IInv, TypeInv, Fails, Moves, Same, Ends
<1>3. Commanded' /\ Fresh' /\ Journaled'
  BY <1>1, <1>2 DEF IInv, Commanded, Fresh, Journaled, Starting, Undoing, Installing, Removing,
         Copying, Migrating, Rolling, Fails, Moves, Same, Ends
<1>4. NoHub' /\ Owned' /\ HubAccounted'
  BY <1>1, <1>2 DEF IInv, TypeInv, Commanded, Fresh, NoHub, Owned, HubAccounted, Starting,
         Undoing, Installing, Removing, Fails, Moves, Same, Ends, Preflight
<1>5. Cutover'
  BY <1>1, <1>2 DEF IInv, Cutover, Copied, Copying, Starting, Fails, Moves, Same, Ends
<1> QED
  BY <1>2, <1>3, <1>4, <1>5 DEF IInv

LEMMA SaveAttemptInv == ASSUME IInv, SaveAttempt PROVE IInv'
<1> USE HubAssumption DEF SaveAttempt, At, hubfiles, copies
<1>1. \/ Fails /\ UNCHANGED <<made, attempt>>
      \/ /\ made' = made + 1 /\ attempt' = [status |-> "prepared", id |-> made']
         /\ op' \in Commands /\ op'.pc = "starting" /\ op'.id = made'
         /\ op'.cmd = op.cmd
  <2>1. CASE stray /\ state = None
    BY <2>1, RaisedFails DEF IInv, TypeInv
  <2>2. CASE ~(stray /\ state = None)
    <3>1. /\ made' = made + 1 /\ attempt' = [status |-> "prepared", id |-> made']
          /\ op' = [op EXCEPT !.pc = "starting", !.id = made']
      BY <2>2
    <3>2. op \in Commands /\ made' \in Nat
      BY <3>1 DEF IInv, TypeInv
    <3> HIDE DEF SaveAttempt
    <3> QED
      BY <3>1, <3>2 DEF Commands, Pcs, Installing, Starting
  <2> QED
    BY <2>1, <2>2
<1>2. TypeInv'
  BY <1>1 DEF IInv, TypeInv, Sourced, Journals, HubStates, Attempts, Copies, Starting, Undoing,
         Installing, Removing, Copying, Migrating, Rolling, Commanded, Fresh, NoHub, Owned,
         Journaled, Cutover, Copied, HubAccounted, Moves, Same, Ends, Fails, Restarts, Returns
<1>3. Commanded' /\ Fresh' /\ Journaled'
  BY <1>1, <1>2 DEF IInv, TypeInv, HubStates, Attempts, Journals, Commanded, Fresh, Journaled,
         Starting, Undoing, Installing, Removing, Copying, Migrating, Rolling, Fails, Moves,
         Same, Ends
<1>4. NoHub' /\ Owned' /\ HubAccounted'
  BY <1>1, <1>2 DEF IInv, TypeInv, HubStates, Attempts, Journals, Commanded, Fresh, NoHub, Owned,
         Journaled, HubAccounted, Starting, Undoing, Installing, Removing, Copying, Migrating,
         Rolling, Fails, Moves, Same, Ends
<1>5. Cutover'
  BY <1>1, <1>2 DEF IInv, Cutover, Copied, Copying, Starting, Fails, Moves, Same, Ends
<1> QED
  BY <1>2, <1>3, <1>4, <1>5 DEF IInv

LEMMA SaveStartingInv == ASSUME IInv, SaveStarting PROVE IInv'
<1> USE HubAssumption DEF SaveStarting, At, hubfiles, copies
<1>1. Moves("stage")
  BY GotoMoves DEF IInv, TypeInv, Pcs, Installing, Starting
<1>2. TypeInv'
  BY <1>1 DEF IInv, TypeInv, Sourced, Journals, HubStates, Attempts, Copies, Starting, Undoing,
         Installing, Removing, Copying, Migrating, Rolling, Commanded, Fresh, NoHub, Owned,
         Journaled, Cutover, Copied, HubAccounted, Moves, Same, Ends, Fails, Restarts, Returns
<1>3. Commanded' /\ Fresh' /\ Journaled'
  BY <1>1, <1>2 DEF IInv, TypeInv, Sourced, Journals, HubStates, Attempts, Copies, Starting,
         Undoing, Installing, Removing, Copying, Migrating, Rolling, Commanded, Fresh, NoHub,
         Owned, Journaled, Cutover, Copied, HubAccounted, Moves, Same, Ends, Fails, Restarts,
         Returns
<1>4. NoHub' /\ Owned' /\ HubAccounted'
  BY <1>1, <1>2 DEF IInv, TypeInv, HubStates, Attempts, Journals, Commanded, Fresh, NoHub, Owned,
         Journaled, HubAccounted, Starting, Undoing, Installing, Removing, Copying, Migrating,
         Rolling, Moves, Same
<1>5. Cutover'
  BY <1>1, <1>2 DEF IInv, Cutover, Copied, Copying, Starting, Moves, Same
<1> QED
  BY <1>2, <1>3, <1>4, <1>5 DEF IInv

LEMMA StageInv == ASSUME IInv, Stage PROVE IInv'
<1> USE HubAssumption DEF Stage, At, hubfiles, copies
<1>1. op' \in Commands /\ op'.pc = "up" /\ op'.cmd = op.cmd /\ op'.id = op.id
      /\ op'.started = TRUE
  <2>1. {r \in Readers : target[r] # None /\ target[r].key} \in SUBSET Readers
    OBVIOUS
  <2> QED
    BY <2>1 DEF IInv, TypeInv, Commands, Pcs, Installing, Starting
<1>2. TypeInv'
  BY <1>1 DEF IInv, TypeInv
<1>3. Commanded' /\ Fresh' /\ Journaled'
  BY <1>1, <1>2 DEF IInv, Commanded, Fresh, Journaled, Starting, Undoing, Installing, Removing,
         Copying, Migrating, Rolling
<1>4. NoHub' /\ Owned' /\ HubAccounted'
  BY <1>1, <1>2 DEF IInv, NoHub, Owned, HubAccounted, Starting, Undoing, Removing
<1>5. Cutover'
  BY <1>1, <1>2 DEF IInv, Cutover, Copied, Copying, Starting
<1> QED
  BY <1>2, <1>3, <1>4, <1>5 DEF IInv

LEMMA StartHubInv == ASSUME IInv, StartHub PROVE IInv'
<1> USE HubAssumption DEF StartHub, At, hubfiles, copies
<1>1. Moves("verify")
  BY GotoMoves DEF IInv, TypeInv, Pcs, Installing, Starting
<1>2. TypeInv'
  <2>1. \A r \in Readers : /\ target'[r] \in Copies
                           /\ target[r] # None => target'[r].from = target[r].from
    BY DEF IInv, TypeInv, Copies
  <2>2. op.id \in Nat
    BY DEF IInv, TypeInv, Commands
  <2> QED
    BY <1>1, <2>1, <2>2 DEF IInv, TypeInv, Moves
<1>3. Commanded' /\ Fresh' /\ Journaled'
  BY <1>1, <1>2 DEF IInv, Commanded, Fresh, Journaled, Starting, Undoing, Installing, Removing,
         Copying, Migrating, Rolling, Moves, Same
<1>4. NoHub' /\ Owned' /\ HubAccounted'
  <2>1. /\ attempt # None /\ attempt.id = op.id /\ attempt.status = "starting"
        /\ state # None => state.id # op.id
    BY DEF IInv, Owned, Fresh, Starting
  <2>2. journal # None => journal.status # "rolled_back"
    BY DEF IInv, TypeInv, Commanded, Journaled, Installing, Starting
  <2>3. hub' = op.id /\ UNCHANGED <<state, attempt, journal, goal>>
    OBVIOUS
  <2>4. op'.pc = "verify" /\ op'.id = op.id /\ op'.started = op.started
    BY <1>1 DEF Moves, Same
  <2>5. NoHub'
    BY <2>2, <2>3, <2>4 DEF IInv, NoHub, Starting
  <2>6. Owned'
    BY <2>1, <2>3, <2>4 DEF IInv, Owned, Starting, Undoing, Removing
  <2>7. HubAccounted'
    BY <2>1, <2>3 DEF HubAccounted
  <2> QED
    BY <2>5, <2>6, <2>7
<1>5. Cutover'
  <2>1. \A r \in Readers : /\ target'[r] \in Copies
                           /\ target[r] # None => target'[r].from = target[r].from
    BY DEF IInv, TypeInv, Copies
  <2>2. \A r \in Readers : target'[r] # None
    BY <2>1
  <2>3. op.cmd \in {"install", "migrate"} /\ op.cmd = goal
    BY DEF IInv, Commanded, Installing, Starting
  <2>4. goal = "migrate" => \A r \in Readers : Copied(r)
    BY <2>3 DEF IInv, Cutover, Starting
  <2>5. goal = "migrate" => \A r \in Readers : Copied(r)'
    BY <2>1, <2>2, <2>4 DEF Copied
  <2>6. op'.pc = "verify" /\ op'.cmd = op.cmd
    BY <1>1 DEF Moves, Same
  <2> QED
    BY <2>2, <2>3, <2>5, <2>6 DEF Cutover, Copying, Starting
<1> QED
  BY <1>2, <1>3, <1>4, <1>5 DEF IInv

LEMMA VerifyHubInv == ASSUME IInv, VerifyHub PROVE IInv'
<1> USE HubAssumption DEF VerifyHub, At, hubfiles, copies
<1>1. Moves("commit")
  BY GotoMoves DEF IInv, TypeInv, Pcs, Installing, Starting
<1>2. TypeInv'
  BY <1>1 DEF IInv, TypeInv, Moves, Same
<1>3. Commanded' /\ Fresh' /\ Journaled'
  BY <1>1, <1>2 DEF IInv, Commanded, Fresh, Journaled, Starting, Undoing, Installing, Removing,
         Copying, Migrating, Rolling, Moves, Same
<1>4. NoHub' /\ Owned' /\ HubAccounted'
  BY <1>1, <1>2 DEF IInv, NoHub, Owned, HubAccounted, Starting, Undoing, Removing, Moves, Same
<1>5. Cutover'
  BY <1>1, <1>2 DEF IInv, Cutover, Copied, Copying, Starting, Moves, Same
<1> QED
  BY <1>2, <1>3, <1>4, <1>5 DEF IInv

LEMMA CommitInv == ASSUME IInv, Commit PROVE IInv'
<1> USE HubAssumption DEF Commit, At, hubfiles, copies
<1>1. Moves("unattempt")
  BY GotoMoves DEF IInv, TypeInv, Pcs, Installing
<1>2. TypeInv'
  BY <1>1 DEF IInv, TypeInv, Sourced, Journals, HubStates, Attempts, Copies, Starting, Undoing,
         Installing, Removing, Copying, Migrating, Rolling, Commanded, Fresh, NoHub, Owned,
         Journaled, Cutover, Copied, HubAccounted, Moves, Same, Ends, Fails, Restarts, Returns
<1>3. Commanded' /\ Fresh' /\ Journaled'
  BY <1>1, <1>2 DEF IInv, Commanded, Fresh, Journaled, Starting, Undoing, Installing, Removing,
         Copying, Migrating, Rolling, Moves, Same
<1>4. NoHub' /\ Owned' /\ HubAccounted'
  <2>1. /\ attempt # None /\ attempt.id = op.id /\ attempt.status = "starting"
        /\ hub = op.id /\ op.id \in Nat
    BY DEF IInv, TypeInv, Commands, Owned, Starting
  <2>2. state' \in HubStates
    BY <2>1 DEF HubStates
  <2>3. op'.pc = "unattempt"
    BY <1>1 DEF Moves
  <2>4. NoHub'
    BY <2>3 DEF IInv, NoHub, Starting
  <2>5. Owned' /\ HubAccounted'
    BY <2>1, <2>2, <2>3 DEF Owned, HubAccounted, Starting, Undoing, Removing
  <2> QED
    BY <2>4, <2>5
<1>5. Cutover'
  BY <1>1, <1>2 DEF IInv, Cutover, Copied, Copying, Starting, Moves, Same
<1> QED
  BY <1>2, <1>3, <1>4, <1>5 DEF IInv

LEMMA RemoveAttemptInv == ASSUME IInv, RemoveAttempt PROVE IInv'
<1> USE HubAssumption DEF RemoveAttempt, At, hubfiles, copies
<1>1. Returns
  BY ReturnedReturns DEF IInv, TypeInv, Commanded
<1>2. TypeInv'
  BY <1>1 DEF IInv, TypeInv, Returns, Moves, Same, Restarts, Ends
<1>3. Commanded' /\ Fresh' /\ Journaled'
  BY <1>1, <1>2 DEF IInv, Commanded, Fresh, Journaled, Starting, Undoing, Installing, Removing,
         Copying, Migrating, Rolling, Returns, Moves, Same, Restarts, Ends
<1>4. NoHub' /\ Owned' /\ HubAccounted'
  BY <1>1, <1>2 DEF IInv, TypeInv, Commanded, Fresh, NoHub, Owned, HubAccounted, Starting,
         Undoing, Installing, Removing, Returns, Moves, Same, Restarts, Ends
<1>5. Cutover'
  BY <1>1, <1>2 DEF IInv, Cutover, Copied, Copying, Starting, Returns, Moves, Same, Restarts, Ends
<1> QED
  BY <1>2, <1>3, <1>4, <1>5 DEF IInv

LEMMA CleanInv == ASSUME IInv, Clean PROVE IInv'
<1> USE HubAssumption DEF Clean, At, hubfiles, copies
<1>1. Moves("cleaned")
  BY GotoMoves DEF IInv, TypeInv, Pcs, Installing, Undoing
<1>2. TypeInv'
  <2>1. target' \in [Readers -> Copies \cup {None}]
    <3>1. \A r \in Readers : target[r] # None => [target[r] EXCEPT !.key = FALSE] \in Copies
      BY DEF IInv, TypeInv, Copies
    <3> QED
      BY <3>1 DEF IInv, TypeInv
  <2> QED
    BY <1>1, <2>1 DEF IInv, TypeInv, Moves
<1>3. Commanded' /\ Fresh' /\ Journaled'
  BY <1>1, <1>2 DEF IInv, TypeInv, HubStates, Attempts, Journals, Commanded, Fresh, Journaled,
         Starting, Undoing, Installing, Removing, Copying, Migrating, Rolling, Moves, Same,
         NewKeys
<1>4. NoHub' /\ Owned' /\ HubAccounted'
  BY <1>1, <1>2 DEF IInv, NoHub, Owned, HubAccounted, Starting, Undoing, Removing, Moves, Same
<1>5. Cutover'
  BY <1>1, <1>2 DEF IInv, Cutover, Copied, Copying, Starting, Moves, Same
<1> QED
  BY <1>2, <1>3, <1>4, <1>5 DEF IInv

LEMMA SaveCleanedInv == ASSUME IInv, SaveCleaned PROVE IInv'
<1> USE HubAssumption DEF SaveCleaned, At, hubfiles, copies
<1>1. Fails
  BY RaisedFails DEF IInv, TypeInv
<1>2. TypeInv'
  <2>1. op.id \in Nat
    BY DEF IInv, TypeInv, Commands
  <2> QED
    BY <1>1, <2>1 DEF IInv, TypeInv, Sourced, HubStates, Attempts, Copies, Fails, Moves, Ends
<1>3. Commanded' /\ Fresh' /\ Journaled'
  BY <1>1, <1>2 DEF IInv, Commanded, Fresh, Journaled, Starting, Undoing, Installing, Removing,
         Copying, Migrating, Rolling, Fails, Moves, Same, Ends
<1>4. NoHub' /\ Owned' /\ HubAccounted'
  BY <1>1, <1>2 DEF IInv, NoHub, Owned, HubAccounted, Starting, Undoing, Removing, Fails, Moves,
         Same, Ends
<1>5. Cutover'
  BY <1>1, <1>2 DEF IInv, Cutover, Copied, Copying, Starting, Fails, Moves, Same, Ends
<1> QED
  BY <1>2, <1>3, <1>4, <1>5 DEF IInv

LEMMA SaveCleanupFailedInv == ASSUME IInv, SaveCleanupFailed PROVE IInv'
<1> USE HubAssumption DEF SaveCleanupFailed, At, hubfiles, copies
<1>1. Fails
  BY RaisedFails DEF IInv, TypeInv
<1>2. TypeInv'
  <2>1. op.id \in Nat
    BY DEF IInv, TypeInv, Commands
  <2> QED
    BY <1>1, <2>1 DEF IInv, TypeInv, Sourced, HubStates, Attempts, Copies, Fails, Moves, Ends
<1>3. Commanded' /\ Fresh' /\ Journaled'
  BY <1>1, <1>2 DEF IInv, Commanded, Fresh, Journaled, Starting, Undoing, Installing, Removing,
         Copying, Migrating, Rolling, Fails, Moves, Same, Ends
<1>4. NoHub' /\ Owned' /\ HubAccounted'
  BY <1>1, <1>2 DEF IInv, TypeInv, HubStates, Attempts, Journals, Commanded, Fresh, NoHub, Owned,
         Journaled, HubAccounted, Starting, Undoing, Installing, Removing, Copying, Migrating,
         Rolling, Fails, Moves, Same, Ends
<1>5. Cutover'
  BY <1>1, <1>2 DEF IInv, Cutover, Copied, Copying, Starting, Fails, Moves, Same, Ends
<1> QED
  BY <1>2, <1>3, <1>4, <1>5 DEF IInv

LEMMA VerifyOwnedInv == ASSUME IInv, VerifyOwned PROVE IInv'
<1> USE HubAssumption DEF VerifyOwned, At, hubfiles, copies
<1>1. \/ Ends
      \/ /\ state # None /\ state.status = "uninstalled" /\ attempt = None
         /\ Returns
      \/ /\ state # None /\ state.status = "uninstalled" /\ CommittedAttempt
         /\ Moves("reconcile")
      \/ /\ state # None /\ hub \in {0, state.id}
         /\ op' \in Commands /\ op'.pc = "uninstalling" /\ op'.cmd = op.cmd
  <2>1. CASE /\ state # None /\ state.status = "uninstalled"
             /\ attempt = None /\ op' = Returned(op)
    BY <2>1, ReturnedReturns DEF IInv, TypeInv, Commanded
  <2>2. CASE /\ state # None /\ state.status = "uninstalled"
             /\ CommittedAttempt /\ op' = [op EXCEPT !.pc = "reconcile"]
    BY <2>2, GotoMoves DEF IInv, TypeInv, Goto, Pcs, Removing
  <2>3. CASE /\ state # None /\ hub \in {0, state.id}
             /\ op' = [op EXCEPT !.pc = "uninstalling", !.own = CommittedAttempt]
    <3>1. CommittedAttempt \in BOOLEAN
      BY DEF CommittedAttempt
    <3> QED
      BY <2>3, <3>1 DEF IInv, TypeInv, Commands, Pcs, Removing
  <2>4. CASE op' = Idle
    BY <2>4, IdleEnds
  <2> QED
    BY <2>1, <2>2, <2>3, <2>4
<1>2. TypeInv'
  BY <1>1 DEF IInv, TypeInv, Returns, Moves, Same, Restarts, Ends
<1>3. Commanded' /\ Fresh' /\ Journaled'
  BY <1>1, <1>2 DEF IInv, Commanded, Fresh, Journaled, Starting, Undoing, Installing, Removing,
         Copying, Migrating, Rolling, Returns, Moves, Same, Restarts, Ends
<1>4. NoHub' /\ Owned' /\ HubAccounted'
  BY <1>1, <1>2 DEF IInv, TypeInv, Commanded, Fresh, NoHub, Owned, HubAccounted, Starting,
         Undoing, Installing, Removing, Returns, Moves, Same, Restarts, Ends, CommittedAttempt
<1>5. Cutover'
  BY <1>1, <1>2 DEF IInv, Cutover, Copied, Copying, Starting, Returns, Moves, Same, Restarts, Ends
<1> QED
  BY <1>2, <1>3, <1>4, <1>5 DEF IInv

LEMMA SaveUninstallingInv == ASSUME IInv, SaveUninstalling PROVE IInv'
<1> USE HubAssumption DEF SaveUninstalling, At, hubfiles, copies
<1>1. Moves("down")
  BY GotoMoves DEF IInv, TypeInv, Pcs, Removing
<1>2. TypeInv'
  BY <1>1 DEF IInv, TypeInv, Sourced, Journals, HubStates, Attempts, Copies, Starting, Undoing,
         Installing, Removing, Copying, Migrating, Rolling, Commanded, Fresh, NoHub, Owned,
         Journaled, Cutover, Copied, HubAccounted, Moves, Same, Ends, Fails, Restarts, Returns
<1>3. Commanded' /\ Fresh' /\ Journaled'
  BY <1>1, <1>2 DEF IInv, TypeInv, Sourced, Journals, HubStates, Attempts, Copies, Starting,
         Undoing, Installing, Removing, Copying, Migrating, Rolling, Commanded, Fresh, NoHub,
         Owned, Journaled, Cutover, Copied, HubAccounted, Moves, Same, Ends, Fails, Restarts,
         Returns
<1>4. NoHub' /\ Owned' /\ HubAccounted'
  BY <1>1, <1>2 DEF IInv, TypeInv, HubStates, Attempts, Journals, Commanded, Fresh, NoHub, Owned,
         Journaled, HubAccounted, Starting, Undoing, Installing, Removing, Copying, Migrating,
         Rolling, Moves, Same
<1>5. Cutover'
  BY <1>1, <1>2 DEF IInv, Cutover, Copied, Copying, Starting, Moves, Same
<1> QED
  BY <1>2, <1>3, <1>4, <1>5 DEF IInv

LEMMA RemoveHubInv == ASSUME IInv, RemoveHub PROVE IInv'
<1> USE HubAssumption DEF RemoveHub, At, hubfiles, copies
<1>1. Moves("keys")
  BY GotoMoves DEF IInv, TypeInv, Pcs, Removing
<1>2. TypeInv'
  BY <1>1 DEF IInv, TypeInv, Moves, Same
<1>3. Commanded' /\ Fresh' /\ Journaled'
  BY <1>1, <1>2 DEF IInv, TypeInv, HubStates, Attempts, Journals, Commanded, Fresh, Journaled,
         Starting, Undoing, Installing, Removing, Copying, Migrating, Rolling, Moves, Same
<1>4. NoHub' /\ Owned' /\ HubAccounted'
  BY <1>1, <1>2 DEF IInv, NoHub, Owned, HubAccounted, Starting, Undoing, Removing, Moves, Same
<1>5. Cutover'
  BY <1>1, <1>2 DEF IInv, Cutover, Copied, Copying, Starting, Moves, Same
<1> QED
  BY <1>2, <1>3, <1>4, <1>5 DEF IInv

LEMMA RemoveKeysInv == ASSUME IInv, RemoveKeys PROVE IInv'
<1> USE HubAssumption DEF RemoveKeys, At, hubfiles, copies
<1>1. Moves("uninstalled")
  BY GotoMoves DEF IInv, TypeInv, Pcs, Removing
<1>2. TypeInv'
  <2>1. target' \in [Readers -> Copies \cup {None}]
    <3>1. \A r \in Readers : target[r] # None => [target[r] EXCEPT !.key = FALSE] \in Copies
      BY DEF IInv, TypeInv, Copies
    <3> QED
      BY <3>1 DEF IInv, TypeInv
  <2> QED
    BY <1>1, <2>1 DEF IInv, TypeInv, Moves
<1>3. Commanded' /\ Fresh' /\ Journaled'
  BY <1>1, <1>2 DEF IInv, Commanded, Fresh, Journaled, Starting, Undoing, Installing, Removing,
         Copying, Migrating, Rolling, Moves, Same
<1>4. NoHub' /\ Owned' /\ HubAccounted'
  BY <1>1, <1>2 DEF IInv, NoHub, Owned, HubAccounted, Starting, Undoing, Removing, Moves, Same
<1>5. Cutover'
  BY <1>1, <1>2 DEF IInv, TypeInv, Sourced, Copies, Journals, Commanded, Journaled, NoHub,
         Cutover, Copied, Starting, Undoing, Installing, Removing, Copying, Migrating, Rolling,
         Moves, Same
<1> QED
  BY <1>2, <1>3, <1>4, <1>5 DEF IInv

LEMMA SaveUninstalledInv == ASSUME IInv, SaveUninstalled PROVE IInv'
<1> USE HubAssumption DEF SaveUninstalled, At, hubfiles, copies
<1>1. Moves("reconcile") \/ Returns
  <2>1. CASE op.own
    BY <2>1, GotoMoves DEF IInv, TypeInv, Goto, Pcs, Removing
  <2>2. CASE ~op.own
    BY <2>2, ReturnedReturns DEF IInv, TypeInv, Commanded
  <2> QED
    BY <2>1, <2>2
<1>2. TypeInv'
  BY <1>1 DEF IInv, TypeInv, Sourced, Journals, HubStates, Attempts, Copies, Starting, Undoing,
         Installing, Removing, Copying, Migrating, Rolling, Commanded, Fresh, NoHub, Owned,
         Journaled, Cutover, Copied, HubAccounted, Moves, Same, Ends, Fails, Restarts, Returns
<1>3. Commanded' /\ Fresh' /\ Journaled'
  BY <1>1, <1>2 DEF IInv, TypeInv, Sourced, Journals, HubStates, Attempts, Copies, Starting,
         Undoing, Installing, Removing, Copying, Migrating, Rolling, Commanded, Fresh, NoHub,
         Owned, Journaled, Cutover, Copied, HubAccounted, Moves, Same, Ends, Fails, Restarts,
         Returns
<1>4. NoHub' /\ Owned' /\ HubAccounted'
  BY <1>1, <1>2 DEF IInv, TypeInv, HubStates, Attempts, Journals, Commanded, Fresh, NoHub, Owned,
         Journaled, HubAccounted, Starting, Undoing, Installing, Removing, Copying, Migrating,
         Rolling, Returns, Moves, Same, Restarts, Ends
<1>5. Cutover'
  BY <1>1, <1>2 DEF IInv, Cutover, Copied, Copying, Starting, Returns, Moves, Same, Restarts, Ends
<1> QED
  BY <1>2, <1>3, <1>4, <1>5 DEF IInv

LEMMA ReconcileInv == ASSUME IInv, Reconcile PROVE IInv'
<1> USE HubAssumption DEF Reconcile, At, hubfiles, copies
<1>1. Returns
  BY ReturnedReturns DEF IInv, TypeInv, Commanded
<1>2. TypeInv'
  BY <1>1 DEF IInv, TypeInv, Returns, Moves, Same, Restarts, Ends
<1>3. Commanded' /\ Fresh' /\ Journaled'
  BY <1>1, <1>2 DEF IInv, Commanded, Fresh, Journaled, Starting, Undoing, Installing, Removing,
         Copying, Migrating, Rolling, Returns, Moves, Same, Restarts, Ends
<1>4. NoHub' /\ Owned' /\ HubAccounted'
  BY <1>1, <1>2 DEF IInv, NoHub, Owned, HubAccounted, Starting, Undoing, Removing, Returns,
         Moves, Same, Restarts, Ends
<1>5. Cutover'
  BY <1>1, <1>2 DEF IInv, Cutover, Copied, Copying, Starting, Returns, Moves, Same, Restarts, Ends
<1> QED
  BY <1>2, <1>3, <1>4, <1>5 DEF IInv

LEMMA SourcesInv == ASSUME IInv, Sources PROVE IInv'
<1> USE HubAssumption DEF Sources, At, hubfiles, copies
<1>1. \/ journal = None /\ Moves("prepared")
      \/ journal # None /\ journal.status # "rolled_back" /\ Moves("recover")
      \/ Ends
  BY GotoMoves, IdleEnds DEF IInv, TypeInv, Goto, Pcs, Migrating
<1>2. TypeInv'
  BY <1>1 DEF IInv, TypeInv, Ends, Moves, Same
<1>3. Commanded' /\ Fresh' /\ Journaled'
  BY <1>1, <1>2 DEF IInv, TypeInv, HubStates, Attempts, Journals, Commanded, Fresh, Journaled,
         Starting, Undoing, Installing, Removing, Copying, Migrating, Rolling, Ends, Moves, Same
<1>4. NoHub' /\ Owned' /\ HubAccounted'
  BY <1>1, <1>2 DEF IInv, NoHub, Owned, HubAccounted, Starting, Undoing, Removing, Ends, Moves, Same
<1>5. Cutover'
  BY <1>1, <1>2 DEF IInv, Cutover, Copied, Copying, Starting, Ends, Moves, Same
<1> QED
  BY <1>2, <1>3, <1>4, <1>5 DEF IInv

LEMMA SavePreparedInv == ASSUME IInv, SavePrepared PROVE IInv'
<1> USE HubAssumption DEF SavePrepared, At, hubfiles, copies
<1>1. Moves("recover")
  BY GotoMoves DEF IInv, TypeInv, Pcs, Migrating
<1>2. TypeInv'
  BY <1>1 DEF IInv, TypeInv, Sourced, Journals, HubStates, Attempts, Copies, Starting, Undoing,
         Installing, Removing, Copying, Migrating, Rolling, Commanded, Fresh, NoHub, Owned,
         Journaled, Cutover, Copied, HubAccounted, Moves, Same, Ends, Fails, Restarts, Returns
<1>3. Commanded' /\ Fresh' /\ Journaled'
  BY <1>1, <1>2 DEF IInv, TypeInv, HubStates, Attempts, Journals, Commanded, Fresh, Journaled,
         Starting, Undoing, Installing, Removing, Copying, Migrating, Rolling, Moves, Same
<1>4. NoHub' /\ Owned' /\ HubAccounted'
  BY <1>1, <1>2 DEF IInv, NoHub, Owned, HubAccounted, Starting, Undoing, Removing, Moves, Same
<1>5. Cutover'
  BY <1>1, <1>2 DEF IInv, Cutover, Copied, Copying, Starting, Moves, Same
<1> QED
  BY <1>2, <1>3, <1>4, <1>5 DEF IInv

LEMMA RecoverHubInv == ASSUME IInv, RecoverHub PROVE IInv'
<1> USE HubAssumption DEF RecoverHub, At, hubfiles, copies
<1>1. Moves("copying") \/ Moves("committed") \/ Ends
  BY GotoMoves, IdleEnds DEF IInv, TypeInv, Goto, Pcs, Migrating
<1>2. TypeInv'
  BY <1>1 DEF IInv, TypeInv, Ends, Moves, Same
<1>3. Commanded' /\ Fresh' /\ Journaled'
  BY <1>1, <1>2 DEF IInv, Commanded, Fresh, Journaled, Starting, Undoing, Installing, Removing,
         Copying, Migrating, Rolling, Ends, Moves, Same
<1>4. NoHub' /\ Owned' /\ HubAccounted'
  BY <1>1, <1>2 DEF IInv, NoHub, Owned, HubAccounted, Starting, Undoing, Removing, Ends, Moves, Same
<1>5. Cutover'
  BY <1>1, <1>2 DEF IInv, Cutover, Copied, Copying, Starting, Ends, Moves, Same
<1> QED
  BY <1>2, <1>3, <1>4, <1>5 DEF IInv

LEMMA SaveCopyingInv == ASSUME IInv, SaveCopying PROVE IInv'
<1> USE HubAssumption DEF SaveCopying, At, hubfiles, copies
<1>1. /\ op' \in Commands /\ op'.pc = "stop" /\ op'.cmd = op.cmd
      /\ op'.todo = {r \in Readers : src[r].up}
  <2>1. {r \in Readers : src[r].up} \in SUBSET Readers
    OBVIOUS
  <2> QED
    BY <2>1 DEF IInv, TypeInv, Commands, Pcs, Migrating
<1>2. TypeInv'
  BY <1>1 DEF IInv, TypeInv, Sourced, Journals, HubStates, Attempts, Copies, Starting, Undoing,
         Installing, Removing, Copying, Migrating, Rolling, Commanded, Fresh, NoHub, Owned,
         Journaled, Cutover, Copied, HubAccounted, Moves, Same, Ends, Fails, Restarts, Returns
<1>3. Commanded' /\ Fresh' /\ Journaled'
  BY <1>1, <1>2 DEF IInv, TypeInv, HubStates, Attempts, Journals, Commanded, Fresh, Journaled,
         Starting, Undoing, Installing, Removing, Copying, Migrating, Rolling
<1>4. NoHub' /\ Owned' /\ HubAccounted'
  BY <1>1, <1>2 DEF IInv, NoHub, Owned, HubAccounted, Starting, Undoing, Removing
<1>5. Cutover'
  BY <1>1, <1>2 DEF IInv, Cutover, Copied, Copying, Starting
<1> QED
  BY <1>2, <1>3, <1>4, <1>5 DEF IInv

LEMMA StopSourceInv == ASSUME IInv, StopSource PROVE IInv'
<1> USE HubAssumption DEF StopSource, At, hubfiles, copies
<1>1. \/ /\ op' \in Commands /\ op'.pc = "copy" /\ op'.cmd = op.cmd
         /\ op'.todo = Readers /\ op.todo = {} /\ src' = src
      \/ \E r \in op.todo :
            /\ op' \in Commands /\ op'.pc = "stop" /\ op'.cmd = op.cmd
            /\ op'.todo = op.todo \ {r} /\ src' = [src EXCEPT ![r].up = FALSE]
  <2>1. CASE op.todo = {}
    <3>1. op' = [op EXCEPT !.pc = "copy", !.todo = Readers] /\ src' = src
      BY <2>1
    <3>2. op \in Commands
      BY DEF IInv, TypeInv
    <3> HIDE DEF StopSource
    <3> QED
      BY <2>1, <3>1, <3>2 DEF Commands, Pcs, Migrating, Copying
  <2>2. CASE op.todo # {}
    BY <2>2 DEF IInv, TypeInv, Commands
  <2> QED
    BY <2>1, <2>2
<1>2. TypeInv'
  <2>1. src' \in Sourced
    <3>1. src \in Sourced /\ op.todo \subseteq Readers
      BY DEF IInv, TypeInv, Commanded, Migrating, Commands
    <3> QED
      BY <1>1, <3>1, SourceStopped
  <2> QED
    BY <1>1, <2>1 DEF IInv, TypeInv, Commanded, Migrating
<1>3. Commanded' /\ Fresh' /\ Journaled'
  BY <1>1, <1>2 DEF IInv, Commanded, Fresh, Journaled, Starting, Undoing, Installing, Removing,
         Copying, Migrating, Rolling
<1>4. NoHub' /\ Owned' /\ HubAccounted'
  BY <1>1, <1>2 DEF IInv, NoHub, Owned, HubAccounted, Starting, Undoing, Removing
<1>5. Cutover'
  <2>1. src \in Sourced /\ op.todo \subseteq Readers
    BY DEF IInv, TypeInv, Commanded, Migrating, Commands
  <2>2. CASE op.todo = {}
    BY <1>1, <2>2 DEF IInv, Cutover, Copied, Copying, Starting
  <2>3. CASE op.todo # {}
    <3>1. PICK r \in op.todo : /\ op'.pc = "stop" /\ op'.todo = op.todo \ {r}
                               /\ src' = [src EXCEPT ![r].up = FALSE]
      BY <1>1, <2>3
    <3>2. \A q \in Readers : /\ src'[q].data = src[q].data
                             /\ src'[q].up => q # r /\ src[q].up
      BY <2>1, <3>1, SourceStopped
    <3> QED
      BY <3>1, <3>2 DEF IInv, Cutover, Copied, Copying, Starting
  <2> QED
    BY <2>2, <2>3
<1> QED
  BY <1>2, <1>3, <1>4, <1>5 DEF IInv

LEMMA ExactCopies ==
    ASSUME src \in Sourced, NEW r \in Readers
    PROVE  Exact(r) \in Copies /\ Exact(r).from = src[r].data
BY DEF Sourced, Exact, Copies

LEMMA CopyReaderInv == ASSUME IInv, CopyReader PROVE IInv'
<1> USE HubAssumption DEF At, hubfiles, copies
<1>1. /\ op \in Commands /\ op.pc = "copy" /\ op.cmd = "migrate" /\ goal = "migrate"
      /\ src \in Sourced /\ op.todo \subseteq Readers
      /\ UNCHANGED <<src, was, hubfiles, journal, hub, target, made, goal, count>>
  BY DEF CopyReader, IInv, TypeInv, Commands, Commanded, Migrating, Copying
<1>2. /\ \A r \in Readers : ~src[r].up
      /\ \A r \in Readers \ op.todo : Copied(r)
  BY <1>1 DEF IInv, Cutover, Copying
<1>3. /\ journal \in Journals /\ journal.status # "rolled_back"
  BY <1>1 DEF IInv, Journaled
<1>4. CASE op.todo = {}
  <2>1. Moves("preflight") /\ UNCHANGED work
    BY <1>1, <1>4, GotoMoves DEF CopyReader, Pcs, Installing
  <2>2. TypeInv'
    BY <1>1, <2>1 DEF IInv, TypeInv, Moves
  <2>3. Commanded' /\ Fresh' /\ Journaled' /\ NoHub' /\ Owned' /\ HubAccounted'
    BY <1>1, <1>3, <2>1
       DEF IInv, Commanded, Fresh, Journaled, NoHub, Owned, HubAccounted, Moves, Same, Starting,
           Undoing, Installing, Removing, Migrating, Copying, Rolling
  <2>4. Cutover'
    BY <1>1, <1>2, <1>4, <2>1
       DEF IInv, Cutover, Copied, Copying, Starting, Moves, Same
  <2> QED
    BY <2>2, <2>3, <2>4 DEF IInv
<1>5. CASE op.todo # {}
  <2>1. PICK r \in op.todo :
          /\ \/ /\ CopyNeeded(r) /\ op' = [op EXCEPT !.pc = "publish", !.r = r]
                /\ work' = [work EXCEPT ![r] = src[r].data]
             \/ /\ CopyMatches(r) /\ op' = [op EXCEPT !.todo = @ \ {r}]
                /\ UNCHANGED work
             \/ /\ CopyMatches(r) /\ op' = [op EXCEPT !.pc = "evidence", !.r = r]
                /\ UNCHANGED work
             \/ op' = [op EXCEPT !.pc = "failed"] /\ UNCHANGED work
    <3>1. PICK r \in op.todo :
            /\ op' = CASE CopyNeeded(r) -> [op EXCEPT !.pc = "publish", !.r = r]
                       [] CopyMatches(r) /\ journal.copied[r] # None ->
                            [op EXCEPT !.todo = @ \ {r}]
                       [] CopyMatches(r) /\ journal.copied[r] = None ->
                            [op EXCEPT !.pc = "evidence", !.r = r]
                       [] OTHER -> [op EXCEPT !.pc = "failed"]
            /\ work' = IF CopyNeeded(r) THEN [work EXCEPT ![r] = src[r].data] ELSE work
      BY <1>5 DEF CopyReader
    <3>2. ~(CopyNeeded(r) /\ CopyMatches(r))
      BY <1>1, ExactCopies DEF CopyNeeded, CopyMatches
    <3> QED
      BY <3>1, <3>2
  <2>2. \/ /\ CopyNeeded(r) /\ op' \in Commands /\ op'.pc = "publish" /\ op'.r = r
           /\ op'.todo = op.todo /\ op'.cmd = op.cmd
           /\ work' = [work EXCEPT ![r] = src[r].data]
        \/ /\ CopyMatches(r) /\ op' \in Commands /\ op'.pc = "copy"
           /\ op'.todo = op.todo \ {r} /\ op'.cmd = op.cmd /\ UNCHANGED work
        \/ /\ CopyMatches(r) /\ op' \in Commands /\ op'.pc = "evidence" /\ op'.r = r
           /\ op'.todo = op.todo /\ op'.cmd = op.cmd /\ UNCHANGED work
        \/ /\ op' \in Commands /\ op'.pc = "failed" /\ op'.cmd = op.cmd /\ UNCHANGED work
    <3>1. op.todo \ {r} \in SUBSET Readers /\ r \in Readers
      BY <1>1
    <3>2. CASE op' = [op EXCEPT !.pc = "publish", !.r = r]
      BY <1>1, <2>1, <3>1, <3>2 DEF Commands, Pcs, Migrating, Copying
    <3>3. CASE op' = [op EXCEPT !.todo = @ \ {r}]
      BY <1>1, <2>1, <3>1, <3>3 DEF Commands
    <3>4. CASE op' = [op EXCEPT !.pc = "evidence", !.r = r]
      BY <1>1, <2>1, <3>1, <3>4 DEF Commands, Pcs, Migrating, Copying
    <3>5. CASE op' = [op EXCEPT !.pc = "failed"] /\ UNCHANGED work
      BY <1>1, <3>5 DEF Commands, Pcs, Migrating
    <3> QED
      BY <2>1, <3>2, <3>3, <3>4, <3>5
  <2>3. CopyMatches(r) => Copied(r)
    BY <1>1, <1>2, ExactCopies DEF CopyMatches, Copied
  <2>4. CopyNeeded(r) => target[r] = None /\ hub = 0
    BY <1>1 DEF CopyNeeded, IInv, Cutover
  <2>5. TypeInv'
    BY <1>1, <2>2 DEF IInv, TypeInv, Sourced
  <2>6. Commanded' /\ Fresh' /\ Journaled' /\ NoHub' /\ Owned' /\ HubAccounted'
    BY <1>1, <1>3, <2>2
       DEF IInv, Commanded, Fresh, Journaled, NoHub, Owned, HubAccounted, Starting,
           Undoing, Installing, Removing, Migrating, Copying, Rolling
  <2>7. Cutover'
    <3>1. op'.pc = "publish" => target'[op'.r] = None /\ work'[op'.r] = src'[op'.r].data
      BY <1>1, <2>2, <2>4 DEF IInv, TypeInv
    <3>2. \A q \in Readers : Copied(q)' <=> Copied(q)
      BY <1>1 DEF Copied
    <3> QED
      BY <1>1, <1>2, <2>2, <2>3, <3>1, <3>2 DEF IInv, Cutover, Copying, Starting
  <2> QED
    BY <2>5, <2>6, <2>7 DEF IInv
<1> QED
  BY <1>4, <1>5

LEMMA PublishCopyInv == ASSUME IInv, PublishCopy PROVE IInv'
<1> USE HubAssumption DEF PublishCopy, At, hubfiles, copies
<1>1. Moves("evidence")
  BY GotoMoves DEF IInv, TypeInv, Pcs, Migrating, Copying
<1>2. TypeInv'
  BY <1>1 DEF IInv, TypeInv, Sourced, Journals, HubStates, Attempts, Copies, Starting, Undoing,
         Installing, Removing, Copying, Migrating, Rolling, Commanded, Fresh, NoHub, Owned,
         Journaled, Cutover, Copied, HubAccounted, Moves, Same, Ends, Fails, Restarts, Returns
<1>3. Commanded' /\ Fresh' /\ Journaled'
  BY <1>1, <1>2 DEF IInv, Commanded, Fresh, Journaled, Starting, Undoing, Installing, Removing,
         Copying, Migrating, Rolling, Moves, Same
<1>4. NoHub' /\ Owned' /\ HubAccounted'
  BY <1>1, <1>2 DEF IInv, NoHub, Owned, HubAccounted, Starting, Undoing, Removing, Moves, Same
<1>5. Cutover'
  <2>1. /\ op.r \in Readers /\ target[op.r] = None /\ work[op.r] = src[op.r].data
        /\ \A r \in Readers : ~src[r].up
        /\ \A r \in Readers \ op.todo : Copied(r)
    BY DEF IInv, Cutover, Copying
  <2>2. hub = 0
    BY <2>1 DEF IInv, Cutover
  <2>3. src \in Sourced /\ target \in [Readers -> Copies \cup {None}]
    BY DEF IInv, TypeInv, Commanded, Migrating, Copying
  <2>4. target'[op.r] \in Copies /\ target'[op.r].from = src[op.r].data
    BY <2>1, <2>3 DEF Sourced, Copies
  <2>5. \A r \in Readers : r # op.r => target'[r] = target[r]
    BY <2>3
  <2>6. /\ op'.pc = "evidence" /\ op'.cmd = op.cmd /\ op'.todo = op.todo /\ op'.r = op.r
        /\ hub' = hub /\ src' = src
    BY <1>1 DEF Moves, Same
  <2>7. Copied(op.r)' /\ \A r \in Readers \ op.todo : Copied(r)'
    BY <2>1, <2>4, <2>5, <2>6 DEF Copied
  <2> QED
    BY <2>1, <2>2, <2>6, <2>7 DEF Cutover, Copying, Starting
<1> QED
  BY <1>2, <1>3, <1>4, <1>5 DEF IInv

LEMMA SaveEvidenceInv == ASSUME IInv, SaveEvidence PROVE IInv'
<1> USE HubAssumption DEF SaveEvidence, At, hubfiles, copies
<1>1. /\ op' \in Commands /\ op'.pc = "copy" /\ op'.cmd = op.cmd
      /\ op'.todo = op.todo \ {op.r}
  BY DEF IInv, TypeInv, Commands, Pcs, Migrating, Copying
<1>2. /\ journal \in Journals /\ op.r \in Readers /\ src \in Sourced
      /\ journal.status # "rolled_back" /\ goal = "migrate"
  BY DEF IInv, TypeInv, Commanded, Journaled, Cutover, Migrating, Copying
<1>3. journal' \in Journals /\ journal'.status = journal.status
  <2>1. Exact(op.r) \in Copies \cup {None}
    BY <1>2 DEF Exact, Sourced, Copies
  <2> QED
    BY <1>2, <2>1 DEF Journals
<1>4. TypeInv'
  BY <1>1, <1>2, <1>3 DEF IInv, TypeInv
<1>5. Commanded' /\ Fresh' /\ Journaled'
  BY <1>1, <1>2, <1>3 DEF IInv, Commanded, Fresh, Journaled, Starting, Undoing, Installing,
         Removing, Copying, Migrating, Rolling
<1>6. NoHub' /\ Owned' /\ HubAccounted'
  BY <1>1, <1>4 DEF IInv, TypeInv, HubStates, Attempts, Journals, Commanded, Fresh, NoHub, Owned,
         Journaled, HubAccounted, Starting, Undoing, Installing, Removing, Copying, Migrating,
         Rolling, Exact
<1>7. Cutover'
  BY <1>1, <1>4 DEF IInv, Cutover, Copied, Copying, Starting
<1> QED
  BY <1>4, <1>5, <1>6, <1>7 DEF IInv

LEMMA MigrateFailedInv == ASSUME IInv, MigrateFailed PROVE IInv'
<1> USE HubAssumption DEF MigrateFailed, At, hubfiles, copies
<1>1. (hub = 0 /\ Restarts) \/ Ends
  <2>1. CASE HubGone
    BY <2>1, RestartMoves DEF HubGone, IInv, TypeInv, Commanded, Journaled, Migrating
  <2>2. CASE ~HubGone
    BY <2>2, IdleEnds
  <2> QED
    BY <2>1, <2>2
<1>2. TypeInv'
  BY <1>1 DEF IInv, TypeInv, Sourced, Journals, HubStates, Attempts, Copies, Starting, Undoing,
         Installing, Removing, Copying, Migrating, Rolling, Commanded, Fresh, NoHub, Owned,
         Journaled, Cutover, Copied, HubAccounted, Moves, Same, Ends, Fails, Restarts, Returns
<1>3. Commanded' /\ Fresh' /\ Journaled'
  BY <1>1, <1>2 DEF IInv, TypeInv, HubStates, Attempts, Journals, Commanded, Fresh, Journaled,
         Starting, Undoing, Installing, Removing, Copying, Migrating, Rolling, Restarts, Same,
         Ends
<1>4. NoHub' /\ Owned' /\ HubAccounted'
  BY <1>1, <1>2 DEF IInv, NoHub, Owned, HubAccounted, Starting, Undoing, Removing, Restarts,
         Same, Ends
<1>5. Cutover'
  BY <1>1, <1>2 DEF IInv, Cutover, Copied, Copying, Starting, Restarts, Same, Ends
<1> QED
  BY <1>2, <1>3, <1>4, <1>5 DEF IInv

LEMMA SaveCommittedInv == ASSUME IInv, SaveCommitted PROVE IInv'
<1> USE HubAssumption DEF SaveCommitted, At, hubfiles, copies
<1>1. Ends
  BY IdleEnds
<1>2. TypeInv'
  BY <1>1 DEF IInv, TypeInv, Sourced, Journals, HubStates, Attempts, Copies, Starting, Undoing,
         Installing, Removing, Copying, Migrating, Rolling, Commanded, Fresh, NoHub, Owned,
         Journaled, Cutover, Copied, HubAccounted, Moves, Same, Ends, Fails, Restarts, Returns
<1>3. Commanded' /\ Fresh' /\ Journaled'
  BY <1>1, <1>2 DEF IInv, Commanded, Fresh, Journaled, Starting, Undoing, Installing, Removing,
         Copying, Migrating, Rolling, Ends
<1>4. NoHub' /\ Owned' /\ HubAccounted'
  BY <1>1, <1>2 DEF IInv, NoHub, Owned, HubAccounted, Starting, Undoing, Removing, Ends
<1>5. Cutover'
  BY <1>1, <1>2 DEF IInv, Cutover, Copied, Copying, Starting, Ends
<1> QED
  BY <1>2, <1>3, <1>4, <1>5 DEF IInv

LEMMA RestartSourcesInv == ASSUME IInv, RestartSources PROVE IInv'
<1> USE HubAssumption DEF RestartSources, At, hubfiles, copies
<1>1. \/ op.cmd = "rollback" /\ Moves("roll_state") /\ src' = src
      \/ Ends /\ src' = src
      \/ \E r \in op.todo :
            /\ op' \in Commands /\ op'.pc = "restart" /\ op'.cmd = op.cmd
            /\ src' = [src EXCEPT ![r].up = TRUE]
  <2>1. CASE op.todo = {}
    BY <2>1, GotoMoves, IdleEnds DEF IInv, TypeInv, Goto, Pcs, Rolling
  <2>2. CASE op.todo # {}
    BY <2>2 DEF IInv, TypeInv, Commands
  <2> QED
    BY <2>1, <2>2
<1>2. TypeInv'
  <2>1. src' \in Sourced
    <3>1. src \in Sourced /\ op.todo \subseteq Readers
      BY DEF IInv, TypeInv, Commanded, Migrating, Commands
    <3> QED
      BY <1>1, <3>1, SourceStarted
  <2> QED
    BY <1>1, <2>1 DEF IInv, TypeInv, Commanded, Migrating, Moves, Ends
<1>3. Commanded' /\ Fresh' /\ Journaled'
  BY <1>1, <1>2 DEF IInv, Commanded, Fresh, Journaled, Starting, Undoing, Installing, Removing,
         Copying, Migrating, Rolling, Ends, Moves, Same
<1>4. NoHub' /\ Owned' /\ HubAccounted'
  BY <1>1, <1>2 DEF IInv, NoHub, Owned, HubAccounted, Starting, Undoing, Removing, Ends, Moves, Same
<1>5. Cutover'
  BY <1>1, <1>2 DEF IInv, TypeInv, Sourced, Copies, Journals, Commanded, Journaled, NoHub,
         Cutover, Copied, Starting, Undoing, Installing, Removing, Copying, Migrating, Rolling,
         Ends, Moves, Same
<1> QED
  BY <1>2, <1>3, <1>4, <1>5 DEF IInv

LEMMA RollbackCheckInv == ASSUME IInv, RollbackCheck PROVE IInv'
<1> USE HubAssumption DEF RollbackCheck, At, hubfiles, copies
<1>1. \/ Ends
      \/ journal # None /\ journal.status = "rolled_back" /\ Restarts
      \/ Moves("owned")
  <2>1. op.cmd = "rollback" /\ goal = "rollback" /\ journal \in Journals
    BY DEF IInv, TypeInv, Commanded, Rolling
  <2> QED
    BY <2>1, GotoMoves, IdleEnds, RestartMoves DEF IInv, TypeInv, Goto, Pcs, Removing
<1>2. TypeInv'
  BY <1>1 DEF IInv, TypeInv, Restarts, Same, Ends, Moves
<1>3. Commanded' /\ Fresh' /\ Journaled'
  BY <1>1, <1>2 DEF IInv, Commanded, Fresh, Journaled, Starting, Undoing, Installing, Removing,
         Copying, Migrating, Rolling, Restarts, Same, Ends, Moves
<1>4. NoHub' /\ Owned' /\ HubAccounted'
  BY <1>1, <1>2 DEF IInv, NoHub, Owned, HubAccounted, Starting, Undoing, Removing, Restarts,
         Same, Ends, Moves
<1>5. Cutover'
  BY <1>1, <1>2 DEF IInv, Cutover, Copied, Copying, Starting, Restarts, Same, Ends, Moves
<1> QED
  BY <1>2, <1>3, <1>4, <1>5 DEF IInv

LEMMA RollbackStateInv == ASSUME IInv, RollbackState PROVE IInv'
<1> USE HubAssumption DEF RollbackState, At, hubfiles, copies
<1>1. Moves("roll_journal")
  BY GotoMoves DEF IInv, TypeInv, Pcs, Rolling
<1>2. TypeInv'
  BY <1>1 DEF IInv, TypeInv, Sourced, Journals, HubStates, Attempts, Copies, Starting, Undoing,
         Installing, Removing, Copying, Migrating, Rolling, Commanded, Fresh, NoHub, Owned,
         Journaled, Cutover, Copied, HubAccounted, Moves, Same, Ends, Fails, Restarts, Returns
<1>3. Commanded' /\ Fresh' /\ Journaled'
  BY <1>1, <1>2 DEF IInv, TypeInv, HubStates, Attempts, Journals, Commanded, Fresh, Journaled,
         Starting, Undoing, Installing, Removing, Copying, Migrating, Rolling, Moves, Same
<1>4. NoHub' /\ Owned' /\ HubAccounted'
  BY <1>1, <1>2 DEF IInv, NoHub, Owned, HubAccounted, Starting, Undoing, Removing, Moves, Same
<1>5. Cutover'
  BY <1>1, <1>2 DEF IInv, Cutover, Copied, Copying, Starting, Moves, Same
<1> QED
  BY <1>2, <1>3, <1>4, <1>5 DEF IInv

LEMMA RollbackJournalInv == ASSUME IInv, RollbackJournal PROVE IInv'
<1> USE HubAssumption DEF RollbackJournal, At, hubfiles, copies
<1>1. Ends
  BY IdleEnds
<1>2. TypeInv'
  BY <1>1 DEF IInv, TypeInv, Sourced, Journals, HubStates, Attempts, Copies, Starting, Undoing,
         Installing, Removing, Copying, Migrating, Rolling, Commanded, Fresh, NoHub, Owned,
         Journaled, Cutover, Copied, HubAccounted, Moves, Same, Ends, Fails, Restarts, Returns
<1>3. Commanded' /\ Fresh' /\ Journaled'
  BY <1>1, <1>2 DEF IInv, TypeInv, HubStates, Attempts, Journals, Commanded, Fresh, Journaled,
         Starting, Undoing, Installing, Removing, Copying, Migrating, Rolling, Ends
<1>4. NoHub' /\ Owned' /\ HubAccounted'
  BY <1>1, <1>2 DEF IInv, NoHub, Owned, HubAccounted, Starting, Undoing, Removing, Ends
<1>5. Cutover'
  BY <1>1, <1>2 DEF IInv, Cutover, Copied, Copying, Starting, Ends
<1> QED
  BY <1>2, <1>3, <1>4, <1>5 DEF IInv

LEMMA RaiseInv == ASSUME IInv, Raise PROVE IInv'
<1> USE HubAssumption DEF Raise, At, hubfiles, copies
<1>1. \/ op.pc \in Starting /\ Moves("clean")
      \/ op.pc \in {"clean", "cleaned"} /\ Moves("cleanup_failed")
      \/ op.pc \in {"preflight", "attempt", "unattempt", "cleanup_failed"} /\ Fails
      \/ op.pc \in {"stop"} \cup Copying /\ Moves("failed")
      \/ op.pc = "failed" /\ hub = 0 /\ Restarts
      \/ op.pc \notin {"stop"} \cup Installing \cup Copying /\ Ends
  <2>1. op \in Commands /\ op.pc \in Pcs
    BY DEF IInv, TypeInv, Commands
  <2>2. CASE op.pc \in Starting
    BY <2>1, <2>2, GotoMoves DEF Handler, Goto, Starting, Pcs, Installing, Undoing
  <2>3. CASE op.pc \in {"clean", "cleaned"}
    BY <2>1, <2>3, GotoMoves DEF Handler, Goto, Pcs, Installing, Undoing
  <2>4. CASE op.pc \in {"preflight", "attempt", "unattempt", "cleanup_failed"}
    BY <2>1, <2>4, RaisedFails DEF Handler
  <2>5. CASE op.pc \in {"stop"} \cup Copying
    BY <2>1, <2>5, GotoMoves DEF Handler, Goto, Copying, Pcs, Migrating
  <2>6. CASE op.pc = "failed" /\ HubGone
    <3>1. journal \in Journals
      BY <2>6 DEF IInv, Commanded, Journaled, Migrating
    <3> QED
      BY <2>1, <2>6, <3>1, RestartMoves DEF Handler, HubGone
  <2>7. CASE op.pc \notin {"stop"} \cup Installing \cup Copying /\ ~(op.pc = "failed" /\ HubGone)
    BY <2>7, IdleEnds DEF Handler, Installing, Starting, Undoing, Copying
  <2> QED
    BY <2>2, <2>3, <2>4, <2>5, <2>6, <2>7 DEF Installing, Undoing
<1>2. /\ op' \in Commands /\ op.id \in Nat /\ made' \in {made, made + 1}
      /\ op.pc = "attempt" => made' = made + 1
      /\ UNCHANGED <<src, goal, work, target>> /\ hub' \in {hub, 0}
  BY <1>1 DEF IInv, TypeInv, Commands, Moves, Fails, Ends, Restarts
<1>3. \/ state' = state
      \/ /\ op.pc = "commit" /\ state' \in HubStates
         /\ state'.status = "installed" /\ state'.id = op.id
      \/ /\ hub = 0 /\ state \in HubStates /\ state' \in HubStates
         /\ state'.id = state.id
  BY <1>2 DEF IInv, TypeInv, Commanded, NoHub, Owned, Removing, Rolling, HubStates
<1>4. \/ attempt' = attempt
      \/ attempt' = None /\ (hub = 0 \/ op.pc = "unattempt")
      \/ /\ hub = 0 /\ attempt' \in Attempts
         /\ \/ op.pc = "attempt" /\ attempt'.id = made'
            \/ op.pc \in {"starting", "cleaned"} /\ attempt'.id = op.id
  BY <1>2 DEF IInv, TypeInv, NoHub, Owned, Starting, Attempts
<1>5. \/ journal' = journal
      \/ /\ journal \in Journals /\ journal' \in Journals
         /\ goal \in {"migrate", "rollback"}
         /\ journal'.status = "rolled_back" => op.pc = "roll_journal"
  <2>1. op.pc \in {"copying", "evidence", "committed"} =>
           journal \in Journals /\ goal = "migrate" /\ journal.status # "rolled_back"
    BY DEF IInv, Commanded, Journaled, Migrating, Copying
  <2>2. op.pc = "roll_journal" => journal \in Journals /\ goal = "rollback"
    BY DEF IInv, TypeInv, Commanded, Rolling
  <2>3. CASE op.pc = "evidence"
    <3>1. op.r \in Readers /\ src \in Sourced
      BY <2>3 DEF IInv, TypeInv, Commanded, Cutover, Migrating, Copying
    <3>2. Exact(op.r) \in Copies
      BY <3>1, ExactCopies
    <3>3. journal' = journal \/ journal' = [journal EXCEPT !.copied[op.r] = Exact(op.r)]
      BY <2>3
    <3> HIDE DEF Raise
    <3> QED
      BY <2>1, <2>3, <3>1, <3>2, <3>3 DEF Journals
  <2>4. CASE op.pc # "evidence"
    <3>1. \/ journal' = journal
          \/ \E s \in {"copying", "committed"} :
                /\ op.pc \in {"copying", "committed"}
                /\ journal' = [journal EXCEPT !.status = s]
          \/ op.pc = "roll_journal" /\ journal' = [journal EXCEPT !.status = "rolled_back"]
      BY <2>4
    <3> HIDE DEF Raise
    <3> QED
      BY <2>1, <2>2, <3>1 DEF Journals
  <2> QED
    BY <2>3, <2>4
<1>6. TypeInv'
  <2> HIDE DEF Raise
  <2> QED
    BY <1>2, <1>3, <1>4, <1>5 DEF IInv, TypeInv, Commanded
<1> HIDE DEF Raise
<1>7. NoHub' /\ Owned' /\ HubAccounted'
  <2>1. NoHub'
    BY <1>1, <1>2, <1>5 DEF IInv, NoHub, Starting, Undoing, Moves, Same, Ends, Fails, Restarts
  <2>2. Owned'
    BY <1>1, <1>2, <1>3 DEF IInv, Owned, Starting, Undoing, Removing, Moves, Same, Ends, Fails,
           Restarts
  <2>3. HubAccounted'
    BY <1>2, <1>3, <1>4 DEF IInv, HubAccounted, Owned, Starting
  <2> QED
    BY <2>1, <2>2, <2>3
<1>8. Commanded'
  BY <1>1, <1>2, <1>3, <1>5
     DEF IInv, TypeInv, Commanded, Moves, Same, Ends, Fails, Restarts,
         Starting, Undoing, Installing, Removing, Copying, Migrating, Rolling
<1>9. Fresh'
  BY <1>1, <1>2, <1>3, <1>4
     DEF IInv, TypeInv, Fresh, HubStates, Attempts, Moves, Same, Ends, Fails, Restarts,
         Starting, Undoing, Copying
<1>10. Journaled'
  BY <1>1, <1>2, <1>5
     DEF IInv, Commanded, Journaled, Moves, Same, Ends, Fails, Restarts,
         Starting, Undoing, Installing, Copying, Migrating, Rolling
<1>11. Cutover'
  BY <1>1, <1>2 DEF IInv, Cutover, Copied, Moves, Same, Ends, Fails, Restarts, Copying, Starting
<1> QED
  BY <1>6, <1>7, <1>8, <1>9, <1>10, <1>11 DEF IInv

LEMMA StopInv == ASSUME IInv, Stop PROVE IInv'
<1> USE HubAssumption DEF Stop, At, hubfiles, copies
<1>1. Ends
  BY IdleEnds
<1>2. TypeInv'
  BY <1>1 DEF IInv, TypeInv, Ends
<1>3. Commanded' /\ Fresh' /\ Journaled'
  BY <1>1, <1>2 DEF IInv, Commanded, Fresh, Journaled, Starting, Undoing, Installing, Removing,
         Copying, Migrating, Rolling, Ends
<1>4. NoHub' /\ Owned' /\ HubAccounted'
  BY <1>1, <1>2 DEF IInv, NoHub, Owned, HubAccounted, Starting, Undoing, Removing, Ends
<1>5. Cutover'
  BY <1>1, <1>2 DEF IInv, Cutover, Copied, Copying, Starting, Ends
<1> QED
  BY <1>2, <1>3, <1>4, <1>5 DEF IInv

LEMMA SourceWritesInv == ASSUME IInv, NEW r \in Readers, SourceWrites(r) PROVE IInv'
<1> USE HubAssumption DEF SourceWrites, At, hubfiles, copies
<1>1. UNCHANGED op
  OBVIOUS
<1>2. TypeInv'
  BY <1>1 DEF IInv, TypeInv, Commanded, Installing, Starting, HubStates, Attempts, Journals,
         Copies, Sourced
<1>3. Commanded' /\ Fresh' /\ Journaled'
  BY <1>1, <1>2 DEF IInv, Commanded, Fresh, Journaled, Starting, Undoing, Installing, Removing,
         Copying, Migrating, Rolling
<1>4. NoHub' /\ Owned' /\ HubAccounted'
  BY <1>1, <1>2 DEF IInv, NoHub, Owned, HubAccounted, Starting, Undoing, Removing
<1>5. Cutover'
  BY <1>1, <1>2 DEF IInv, Cutover, Copied, Copying, Starting
<1> QED
  BY <1>2, <1>3, <1>4, <1>5 DEF IInv

LEMMA HubWritesInv == ASSUME IInv, NEW r \in Readers, HubWrites(r) PROVE IInv'
<1> USE HubAssumption DEF HubWrites, At, hubfiles, copies
<1>1. UNCHANGED op
  OBVIOUS
<1>2. TypeInv'
  BY <1>1 DEF IInv, TypeInv, Sourced, Journals, HubStates, Attempts, Copies, Starting, Undoing,
         Installing, Removing, Copying, Migrating, Rolling, Commanded, Fresh, NoHub, Owned,
         Journaled, Cutover, Copied, HubAccounted, Moves, Same, Ends, Fails, Restarts, Returns
<1>3. Commanded' /\ Fresh' /\ Journaled'
  BY <1>1, <1>2 DEF IInv, Commanded, Fresh, Journaled, Starting, Undoing, Installing, Removing,
         Copying, Migrating, Rolling
<1>4. NoHub' /\ Owned' /\ HubAccounted'
  BY <1>1, <1>2 DEF IInv, NoHub, Owned, HubAccounted, Starting, Undoing, Removing
<1>5. Cutover'
  <2>1. target \in [Readers -> Copies \cup {None}]
    BY DEF IInv, TypeInv
  <2>2. \A q \in Readers : target[q] \in Copies
    BY <2>1 DEF IInv, Cutover
  <2>3. \A q \in Readers : target'[q] \in Copies /\ target'[q].from = target[q].from
    BY <2>1, <2>2 DEF Copies
  <2>4. op.pc # "publish"
    BY <2>2 DEF IInv, Cutover
  <2> QED
    BY <1>1, <2>2, <2>3, <2>4 DEF IInv, Cutover, Copied
<1> QED
  BY <1>2, <1>3, <1>4, <1>5 DEF IInv

LEMMA WantInv == ASSUME IInv, Want PROVE IInv'
<1> USE HubAssumption DEF Want, At, hubfiles, copies
<1>1. UNCHANGED op
  OBVIOUS
<1>2. TypeInv'
  BY <1>1 DEF IInv, TypeInv
<1>3. Commanded' /\ Fresh' /\ Journaled'
  BY <1>1, <1>2 DEF IInv, TypeInv, HubStates, Attempts, Journals, Commanded, Fresh, Journaled,
         Starting, Undoing, Installing, Removing, Copying, Migrating, Rolling, Reached, Active
<1>4. NoHub' /\ Owned' /\ HubAccounted'
  BY <1>1, <1>2 DEF IInv, NoHub, Owned, HubAccounted, Starting, Undoing, Removing
<1>5. Cutover'
  BY <1>1, <1>2 DEF IInv, Cutover, Copied, Copying, Starting
<1> QED
  BY <1>2, <1>3, <1>4, <1>5 DEF IInv

LEMMA StepInv == IInv /\ [Next]_vars => IInv'
<1> SUFFICES ASSUME IInv, [Next]_vars PROVE IInv'
  OBVIOUS
<1>1. CASE Step
  <2>1. CASE \/ InstallPreflight \/ SaveAttempt \/ SaveStarting \/ Stage \/ StartHub
             \/ VerifyHub \/ Commit \/ RemoveAttempt \/ Clean \/ SaveCleaned
             \/ SaveCleanupFailed
    BY <2>1, InstallPreflightInv, SaveAttemptInv, SaveStartingInv, StageInv, StartHubInv,
       VerifyHubInv, CommitInv, RemoveAttemptInv, CleanInv, SaveCleanedInv,
       SaveCleanupFailedInv
  <2>2. CASE \/ VerifyOwned \/ SaveUninstalling \/ RemoveHub \/ RemoveKeys
             \/ SaveUninstalled \/ Reconcile
    BY <2>2, VerifyOwnedInv, SaveUninstallingInv, RemoveHubInv, RemoveKeysInv,
       SaveUninstalledInv, ReconcileInv
  <2>3. CASE \/ Sources \/ SavePrepared \/ RecoverHub \/ SaveCopying \/ StopSource
             \/ CopyReader \/ PublishCopy \/ SaveEvidence \/ MigrateFailed \/ SaveCommitted
    BY <2>3, SourcesInv, SavePreparedInv, RecoverHubInv, SaveCopyingInv, StopSourceInv,
       CopyReaderInv, PublishCopyInv, SaveEvidenceInv, MigrateFailedInv, SaveCommittedInv
  <2>4. CASE RestartSources \/ RollbackCheck \/ RollbackState \/ RollbackJournal
    BY <2>4, RestartSourcesInv, RollbackCheckInv, RollbackStateInv, RollbackJournalInv
  <2> QED
    BY <1>1, <2>1, <2>2, <2>3, <2>4 DEF Step
<1>2. CASE Begin \/ Raise \/ Stop \/ Want
  BY <1>2, BeginInv, RaiseInv, StopInv, WantInv
<1>3. ASSUME NEW r \in Readers, SourceWrites(r) \/ HubWrites(r) PROVE IInv'
  BY <1>3, SourceWritesInv, HubWritesInv
<1>4. CASE UNCHANGED vars
  BY <1>4 DEF vars, hubfiles, copies, IInv, TypeInv, Commanded, Fresh, NoHub, Owned, Journaled,
     Copied, Cutover, HubAccounted
<1> QED
  BY <1>1, <1>2, <1>3, <1>4 DEF Next

----------------------------------------------------------------------------
(* For any set of readers, a cutover loses no write: whenever a hub        *)
(* container exists, every source is stopped and the hub's data began with *)
(* all that the source holds.                                              *)
THEOREM CutoverLosesNothing == Spec => []CutoverExact
<1>1. IInv => CutoverExact
  BY DEF IInv, TypeInv, Cutover, Copied, CutoverExact
<1> QED
  BY InitInv, StepInv, <1>1, PTL DEF Spec

(* For any number of crashes and failures, a hub container belongs to the  *)
(* installed state or to an attempt that says that something may be left.  *)
THEOREM HubAlwaysAccounted == Spec => []HubAccounted
<1>1. IInv => HubAccounted
  BY DEF IInv
<1> QED
  BY InitInv, StepInv, <1>1, PTL DEF Spec
=============================================================================
