-------------------------- MODULE ReconfigureProofs --------------------------
(***************************************************************************)
(* What btctl reconfigure keeps true through every failure, stop and       *)
(* recovery, for any set of environments, any fingerprint function and any *)
(* number of goals, stops and faults.                                      *)
(***************************************************************************)
EXTENDS Reconfigure, TLAPS

----------------------------------------------------------------------------
(* The inductive invariant                                                  *)

Preparing == {"snapshot_old", "snapshot_new", "prepare"}
Cleaning  == {"clean_old", "clean_new", "clean_journal"}
Pcs == {"idle", "recover", "probe_again", "load"} \cup Preparing \cup Guarded \cup Cleaning

States == [fp : Fingerprints, id : Nat]

Commands ==
    [pc : Pcs, mode : {"none", "forward", "rollback", "recover", "finish"},
     st : States \cup {None}, jr : Journals \cup {None},
     env : Envs \cup {None}, cur : Envs \cup {None}]

TypeInv ==
    /\ active \in Envs /\ good \in Envs /\ wanted \in Envs
    /\ old \in Envs \cup {None} /\ new \in Envs \cup {None}
    /\ journal \in Journals \cup {None}
    /\ state \in States
    /\ api \in Containers \cup {None}
    /\ made \in Nat
    /\ op \in Commands

\* The running container is the published one, and runs with the active environment.
Settled ==
    /\ api # None /\ api.id = state.id
    /\ api.env = active /\ active = good /\ Fingerprint[good] = state.fp

\* A journal exists exactly while something may be unfinished.
Unfinished ==
    /\ journal = None => Settled
    /\ op.pc \in {"load"} \cup Preparing => journal = None
    /\ op.pc \in {"recover", "probe_again"} \cup Guarded \cup Cleaning => journal # None
    /\ op.pc \in Cleaning => Settled
    /\ api # None => api.id <= made

\* Before the journal is written the snapshots are taken.
Prepared ==
    op.pc \in Preparing =>
        /\ op.mode = "forward" /\ op.cur = good /\ op.env = wanted
        /\ op.st.fp = Fingerprint[good]
        /\ op.pc # "snapshot_old" => old = good
        /\ op.pc = "prepare" => new = wanted

(* The journal names the environment to go back to.  While its snapshot is *)
(* there and the published id is still the old one, that environment is    *)
(* the published one; and a verified journal is about the running          *)
(* container.                                                              *)
Recorded ==
    journal # None =>
        /\ journal.oldfp = Fingerprint[journal.oldsnap]
        /\ journal.oldid <= made
        /\ old = journal.oldsnap /\ state.id = journal.oldid => good = old
        /\ journal.status = "verified" =>
               /\ api # None /\ api.id = journal.newid /\ api.env = active
               /\ journal.oldid < api.id

\* While the container is replaced, the old snapshot is the published environment.
Replacing ==
    op.pc \in Guarded =>
        /\ op.mode \in {"forward", "rollback", "recover"}
        /\ old = good /\ journal.oldsnap = good
        /\ op.st.fp = Fingerprint[good]
        /\ op.mode = "forward" => op.env = wanted /\ op.cur = good
        /\ op.mode # "forward" => op.env = good
        /\ op.pc \in {"create", "probe", "verified", "publish"} => active = op.env
        /\ op.pc \in {"probe", "verified", "publish"} =>
               api # None /\ api.env = active /\ journal.oldid < api.id
        /\ op.pc \in {"remove", "write", "create", "probe", "verified"} =>
               journal.status # "verified"
        /\ op.pc = "journal" => op.jr.status # "verified"
        /\ op.pc = "verified" => op.mode = "forward" /\ op.jr.newid = api.id

\* What the command remembers of the journal is what the journal says.
Remembered ==
    op.pc \in Guarded \/ op.mode = "rollback" =>
        /\ journal # None /\ op.jr # None
        /\ op.jr.oldfp = journal.oldfp /\ op.jr.oldsnap = journal.oldsnap
        /\ op.jr.oldid = journal.oldid

\* A committed cutover that is probed again is the one that runs.
Probing ==
    op.pc = "probe_again" =>
        /\ api # None /\ api.id = state.id
        /\ api.env = active /\ active = wanted /\ Fingerprint[wanted] = state.fp
        /\ state.id # journal.oldid

IInv ==
    /\ TypeInv /\ Unfinished /\ Prepared /\ Recorded /\ Replacing /\ Remembered
    /\ Probing /\ EnvironmentKept

----------------------------------------------------------------------------

LEMMA InitInv == Init => IInv
BY ReconfigureAssumption DEF Init, Idle, IInv, TypeInv, Pcs, Preparing, Cleaning,
   Guarded, Commands, States, Containers, Fingerprints, Settled, Unfinished,
   Prepared, Recorded, Replacing, Remembered, Probing, EnvironmentKept

LEMMA BeginInv == ASSUME IInv, Begin PROVE IInv'
<1> USE ReconfigureAssumption DEF Begin, Idle, files, world
<1>1. TypeInv'
  BY DEF IInv, TypeInv, Pcs, Commands
<1>2. Unfinished'
  BY DEF IInv, Preparing, Cleaning, Guarded, Unfinished, Settled
<1>3. Prepared'
  BY DEF Preparing, Prepared
<1>4. Recorded'
  BY DEF IInv, Recorded
<1>5. Replacing'
  BY DEF Guarded, Replacing
<1>6. Remembered'
  BY DEF Guarded, Remembered
<1>7. Probing'
  BY DEF Probing
<1>8. EnvironmentKept'
  BY DEF IInv, EnvironmentKept
<1> QED
  BY <1>1, <1>2, <1>3, <1>4, <1>5, <1>6, <1>7, <1>8 DEF IInv

LEMMA RecoverInv == ASSUME IInv, Recover PROVE IInv'
<1> USE ReconfigureAssumption DEF Recover, Evidence, Committed, Untouched, CommittedLive, Idle, files, world
<1>1. TypeInv'
  <2>1. journal \in Journals /\ state \in States
    BY DEF IInv, TypeInv, Unfinished
  <2>2. [journal EXCEPT !.status = "rolling-back"] \in Journals
    BY <2>1 DEF Journals
  <2>3. op \in Commands /\ old \in Envs \cup {None}
    BY DEF IInv, TypeInv
  <2>4. \/ op' = [op EXCEPT !.pc = "probe_again", !.mode = "finish"]
        \/ op' = [op EXCEPT !.pc = "journal", !.mode = "recover", !.st = state,
                            !.jr = [journal EXCEPT !.status = "rolling-back"], !.env = old]
        \/ op' = Idle
    OBVIOUS
  <2>5. op' \in Commands
    <3> HIDE DEF Recover
    <3>1. CASE op' = [op EXCEPT !.pc = "probe_again", !.mode = "finish"]
      BY <2>3, <3>1 DEF Commands, Pcs
    <3>2. CASE op' = [op EXCEPT !.pc = "journal", !.mode = "recover", !.st = state,
                                !.jr = [journal EXCEPT !.status = "rolling-back"], !.env = old]
      BY <2>1, <2>2, <2>3, <3>2 DEF Commands, Pcs, Guarded
    <3>3. CASE op' = Idle
      BY <3>3 DEF Commands, Pcs
    <3> QED
      BY <2>4, <3>1, <3>2, <3>3
  <2> QED
    BY <2>5 DEF IInv, TypeInv
<1>2. Unfinished'
  BY DEF IInv, Preparing, Cleaning, Unfinished
<1>3. Prepared'
  BY DEF Preparing, Prepared
<1>4. Recorded'
  BY DEF IInv, Recorded
<1>5. Replacing'
  BY DEF IInv, Guarded, Unfinished, Recorded, Replacing
<1>6. Remembered'
  BY DEF IInv, TypeInv, Guarded, Journals, Unfinished, Remembered
<1>7. Probing'
  BY DEF IInv, TypeInv, Journals, Unfinished, Recorded, Probing
<1>8. EnvironmentKept'
  BY DEF IInv, EnvironmentKept
<1> QED
  BY <1>1, <1>2, <1>3, <1>4, <1>5, <1>6, <1>7, <1>8 DEF IInv

LEMMA ProbeAgainInv == ASSUME IInv, ProbeAgain PROVE IInv'
<1> USE ReconfigureAssumption DEF ProbeAgain, Goto, files, world
<1>1. TypeInv'
  BY DEF IInv, TypeInv, Pcs, Cleaning, Commands
<1>2. Unfinished'
  BY DEF IInv, Preparing, Unfinished, Probing, Settled
<1>3. Prepared'
  BY DEF Preparing, Prepared
<1>4. Recorded'
  BY DEF IInv, Recorded, Probing
<1>5. Replacing'
  BY DEF Guarded, Replacing
<1>6. Remembered'
  BY DEF IInv, Guarded, Remembered
<1>7. Probing'
  BY DEF Probing
<1>8. EnvironmentKept'
  BY DEF IInv, Probing, EnvironmentKept
<1> QED
  BY <1>1, <1>2, <1>3, <1>4, <1>5, <1>6, <1>7, <1>8 DEF IInv

LEMMA LoadCurrentInv == ASSUME IInv, LoadCurrent PROVE IInv'
<1> USE ReconfigureAssumption DEF LoadCurrent, Idle, files, world
<1>1. TypeInv'
  BY DEF IInv, TypeInv, Pcs, Preparing, Commands
<1>2. Unfinished'
  BY DEF IInv, Cleaning, Guarded, Unfinished, Settled
<1>3. Prepared'
  BY DEF IInv, Preparing, Unfinished, Prepared, Settled
<1>4. Recorded'
  BY DEF IInv, Recorded
<1>5. Replacing'
  BY DEF Guarded, Replacing
<1>6. Remembered'
  BY DEF Guarded, Remembered
<1>7. Probing'
  BY DEF Probing
<1>8. EnvironmentKept'
  BY DEF IInv, EnvironmentKept
<1> QED
  BY <1>1, <1>2, <1>3, <1>4, <1>5, <1>6, <1>7, <1>8 DEF IInv

LEMMA SnapshotOldInv == ASSUME IInv, SnapshotOld PROVE IInv'
<1> USE ReconfigureAssumption DEF SnapshotOld, Goto, files, world
<1>1. TypeInv'
  BY DEF IInv, TypeInv, Pcs, Preparing, Commands
<1>2. Unfinished'
  BY DEF IInv, Preparing, Cleaning, Guarded, Unfinished, Settled
<1>3. Prepared'
  BY DEF IInv, Preparing, Prepared
<1>4. Recorded'
  BY DEF IInv, Preparing, Prepared, Recorded
<1>5. Replacing'
  BY DEF Guarded, Replacing
<1>6. Remembered'
  BY DEF IInv, Guarded, Remembered
<1>7. Probing'
  BY DEF Probing
<1>8. EnvironmentKept'
  BY DEF IInv, Preparing, Prepared, EnvironmentKept
<1> QED
  BY <1>1, <1>2, <1>3, <1>4, <1>5, <1>6, <1>7, <1>8 DEF IInv

LEMMA SnapshotNewInv == ASSUME IInv, SnapshotNew PROVE IInv'
<1> USE ReconfigureAssumption DEF SnapshotNew, Goto, files, world
<1>1. TypeInv'
  BY DEF IInv, TypeInv, Pcs, Preparing, Commands
<1>2. Unfinished'
  BY DEF IInv, Preparing, Cleaning, Guarded, Unfinished, Settled
<1>3. Prepared'
  BY DEF IInv, Preparing, Prepared
<1>4. Recorded'
  BY DEF IInv, Recorded
<1>5. Replacing'
  BY DEF Guarded, Replacing
<1>6. Remembered'
  BY DEF IInv, Guarded, Remembered
<1>7. Probing'
  BY DEF Probing
<1>8. EnvironmentKept'
  BY DEF IInv, Preparing, Prepared, EnvironmentKept
<1> QED
  BY <1>1, <1>2, <1>3, <1>4, <1>5, <1>6, <1>7, <1>8 DEF IInv

LEMMA PrepareInv == ASSUME IInv, Prepare PROVE IInv'
<1> USE ReconfigureAssumption DEF Prepare, files, world
<1>0. journal' \in Journals
  BY DEF IInv, TypeInv, Containers, Preparing, Unfinished, Prepared, Settled,
     Journals, Fingerprints
<1>1. TypeInv'
  <2>1. [journal' EXCEPT !.status = "replacing"] \in Journals
    <3> HIDE DEF Prepare
    <3> QED
      BY <1>0 DEF Journals
  <2>2. op' \in Commands
    BY <2>1 DEF IInv, TypeInv, Commands, Pcs, Guarded
  <2> QED
    BY <1>0, <2>2 DEF IInv, TypeInv
<1>2. Unfinished'
  BY <1>0 DEF IInv, Preparing, Cleaning, Unfinished
<1>3. Prepared'
  BY DEF Preparing, Prepared
<1>4. Recorded'
  BY DEF IInv, Preparing, Unfinished, Prepared, Recorded, Settled
<1>5. Replacing'
  BY DEF IInv, Preparing, Prepared, Replacing
<1>6. Remembered'
  <2>1. journal' \in Journals
    BY DEF IInv, TypeInv, Containers, Preparing, Unfinished, Prepared, Settled,
       Journals, Fingerprints
  <2>2. [journal' EXCEPT !.status = "replacing"] \in Journals
    BY <2>1 DEF Journals
  <2>3. op'.jr = [journal' EXCEPT !.status = "replacing"]
    OBVIOUS
  <2> QED
    BY <2>1, <2>2, <2>3 DEF Journals, Remembered
<1>7. Probing'
  BY DEF Probing
<1>8. EnvironmentKept'
  BY DEF IInv, EnvironmentKept
<1> QED
  BY <1>1, <1>2, <1>3, <1>4, <1>5, <1>6, <1>7, <1>8 DEF IInv

LEMMA JournalInv == ASSUME IInv, Journal PROVE IInv'
<1> USE ReconfigureAssumption DEF Journal, Goto, files, world
<1>1. TypeInv'
  BY DEF IInv, TypeInv, Pcs, Guarded, Commands
<1>2. Unfinished'
  BY DEF IInv, Preparing, Cleaning, Guarded, Unfinished, Remembered
<1>3. Prepared'
  BY DEF Preparing, Prepared
<1>4. Recorded'
  BY DEF IInv, Guarded, Recorded, Replacing, Remembered
<1>5. Replacing'
  BY DEF IInv, Guarded, Replacing, Remembered
<1>6. Remembered'
  BY DEF IInv, Guarded, Remembered
<1>7. Probing'
  BY DEF Probing
<1>8. EnvironmentKept'
  BY DEF IInv, EnvironmentKept
<1> QED
  BY <1>1, <1>2, <1>3, <1>4, <1>5, <1>6, <1>7, <1>8 DEF IInv

LEMMA RemoveInv == ASSUME IInv, Remove PROVE IInv'
<1> USE ReconfigureAssumption DEF Remove, Goto, files, world
<1>1. TypeInv'
  BY DEF IInv, TypeInv, Pcs, Guarded, Commands
<1>2. Unfinished'
  BY DEF IInv, Preparing, Cleaning, Guarded, Unfinished
<1>3. Prepared'
  BY DEF Preparing, Prepared
<1>4. Recorded'
  BY DEF IInv, Guarded, Recorded, Replacing
<1>5. Replacing'
  BY DEF IInv, Guarded, Replacing
<1>6. Remembered'
  BY DEF IInv, Guarded, Remembered
<1>7. Probing'
  BY DEF Probing
<1>8. EnvironmentKept'
  BY DEF IInv, EnvironmentKept
<1> QED
  BY <1>1, <1>2, <1>3, <1>4, <1>5, <1>6, <1>7, <1>8 DEF IInv

LEMMA WriteActiveInv == ASSUME IInv, WriteActive PROVE IInv'
<1> USE ReconfigureAssumption DEF WriteActive, Goto, files, world
<1>1. TypeInv'
  BY DEF IInv, TypeInv, Pcs, Guarded, Commands, Replacing
<1>2. Unfinished'
  BY DEF IInv, Preparing, Cleaning, Guarded, Unfinished
<1>3. Prepared'
  BY DEF Preparing, Prepared
<1>4. Recorded'
  BY DEF IInv, Guarded, Recorded, Replacing
<1>5. Replacing'
  BY DEF IInv, Guarded, Replacing
<1>6. Remembered'
  BY DEF IInv, Guarded, Remembered
<1>7. Probing'
  BY DEF Probing
<1>8. EnvironmentKept'
  BY DEF IInv, Guarded, Replacing, EnvironmentKept
<1> QED
  BY <1>1, <1>2, <1>3, <1>4, <1>5, <1>6, <1>7, <1>8 DEF IInv

LEMMA CreateInv == ASSUME IInv, Create PROVE IInv'
<1> USE ReconfigureAssumption DEF Create, Goto, files, world
<1>1. TypeInv'
  BY DEF IInv, TypeInv, Pcs, Guarded, Commands, Containers
<1>2. Unfinished'
  BY DEF IInv, TypeInv, Preparing, Cleaning, Guarded, Unfinished
<1>3. Prepared'
  BY DEF Preparing, Prepared
<1>4. Recorded'
  BY DEF IInv, TypeInv, Guarded, Journals, Recorded, Replacing
<1>5. Replacing'
  BY DEF IInv, TypeInv, Guarded, Containers, Journals, Recorded, Replacing,
     Remembered
<1>6. Remembered'
  BY DEF IInv, Guarded, Remembered
<1>7. Probing'
  BY DEF Probing
<1>8. EnvironmentKept'
  BY DEF IInv, EnvironmentKept
<1> QED
  BY <1>1, <1>2, <1>3, <1>4, <1>5, <1>6, <1>7, <1>8 DEF IInv

LEMMA ProbeInv == ASSUME IInv, Probe PROVE IInv'
<1> USE ReconfigureAssumption DEF Probe, files, world
<1>1. TypeInv'
  <2>1. api \in Containers /\ op.jr \in Journals
    BY DEF IInv, TypeInv, Guarded, Commands, Replacing, Remembered
  <2>2. [op.jr EXCEPT !.status = "verified", !.newid = api.id] \in Journals
    BY <2>1 DEF Journals, Containers
  <2>3. op \in Commands
    BY DEF IInv, TypeInv
  <2>4. CASE op.mode = "forward"
    <3>1. op' = [op EXCEPT !.pc = "verified",
                           !.jr = [op.jr EXCEPT !.status = "verified", !.newid = api.id]]
      BY <2>1, <2>3, <2>4 DEF Commands, Journals
    <3> QED
      BY <2>2, <2>3, <3>1 DEF IInv, TypeInv, Pcs, Guarded, Commands
  <2>5. CASE op.mode # "forward"
    BY <2>3, <2>5 DEF IInv, TypeInv, Pcs, Guarded, Commands
  <2> QED
    BY <2>4, <2>5
<1>2. Unfinished'
  BY DEF IInv, Preparing, Cleaning, Guarded, Unfinished
<1>3. Prepared'
  BY DEF Preparing, Prepared
<1>4. Recorded'
  BY DEF IInv, Recorded
<1>5. Replacing'
  BY DEF IInv, Guarded, Replacing
<1>6. Remembered'
  <2>1. /\ api \in Containers /\ op.jr \in Journals /\ op \in Commands
        /\ UNCHANGED journal
    BY DEF IInv, TypeInv, Guarded, Commands, Replacing, Remembered
  <2> DEFINE jr == [op.jr EXCEPT !.status = "verified", !.newid = api.id]
  <2>2. /\ jr \in Journals /\ jr.oldfp = op.jr.oldfp
        /\ jr.oldsnap = op.jr.oldsnap /\ jr.oldid = op.jr.oldid
    BY <2>1 DEF Journals, Containers
  <2>3. op'.jr \in {op.jr, jr}
    BY <2>1 DEF Commands
  <2> QED
    BY <2>1, <2>2, <2>3 DEF IInv, Guarded, Remembered
<1>7. Probing'
  BY DEF Probing
<1>8. EnvironmentKept'
  BY DEF IInv, EnvironmentKept
<1> QED
  BY <1>1, <1>2, <1>3, <1>4, <1>5, <1>6, <1>7, <1>8 DEF IInv

LEMMA VerifiedInv == ASSUME IInv, Verified PROVE IInv'
<1> USE ReconfigureAssumption DEF Verified, Goto, files, world
<1>1. TypeInv'
  BY DEF IInv, TypeInv, Pcs, Guarded, Commands
<1>2. Unfinished'
  BY DEF IInv, Preparing, Cleaning, Guarded, Unfinished, Remembered
<1>3. Prepared'
  BY DEF Preparing, Prepared
<1>4. Recorded'
  BY DEF IInv, Guarded, Recorded, Replacing, Remembered
<1>5. Replacing'
  BY DEF IInv, Guarded, Replacing, Remembered
<1>6. Remembered'
  BY DEF IInv, Guarded, Remembered
<1>7. Probing'
  BY DEF Probing
<1>8. EnvironmentKept'
  BY DEF IInv, EnvironmentKept
<1> QED
  BY <1>1, <1>2, <1>3, <1>4, <1>5, <1>6, <1>7, <1>8 DEF IInv

LEMMA PublishInv == ASSUME IInv, Publish PROVE IInv'
<1> USE ReconfigureAssumption DEF Publish, NextState, Goto, files, world
<1>1. TypeInv'
  BY DEF IInv, TypeInv, Pcs, Cleaning, Commands, States, Containers, Fingerprints,
     Unfinished, Prepared, Replacing, Settled
<1>2. Unfinished'
  BY DEF IInv, Preparing, Guarded, Unfinished, Replacing, Settled
<1>3. Prepared'
  BY DEF Preparing, Prepared
<1>4. Recorded'
  BY DEF IInv, TypeInv, Guarded, Journals, Recorded, Replacing
<1>5. Replacing'
  BY DEF Guarded, Replacing
<1>6. Remembered'
  BY DEF IInv, Guarded, Remembered
<1>7. Probing'
  BY DEF Probing
<1>8. EnvironmentKept'
  BY DEF IInv, Guarded, Replacing, EnvironmentKept
<1> QED
  BY <1>1, <1>2, <1>3, <1>4, <1>5, <1>6, <1>7, <1>8 DEF IInv

LEMMA CleanOldInv == ASSUME IInv, CleanOld PROVE IInv'
<1> USE ReconfigureAssumption DEF CleanOld, Goto, files, world
<1>1. TypeInv'
  BY DEF IInv, TypeInv, Pcs, Cleaning, Commands
<1>2. Unfinished'
  BY DEF IInv, Preparing, Cleaning, Unfinished, Settled
<1>3. Prepared'
  BY DEF Preparing, Prepared
<1>4. Recorded'
  BY DEF IInv, TypeInv, Journals, Recorded
<1>5. Replacing'
  BY DEF Guarded, Replacing
<1>6. Remembered'
  BY DEF IInv, Guarded, Remembered
<1>7. Probing'
  BY DEF Probing
<1>8. EnvironmentKept'
  BY DEF IInv, Cleaning, Unfinished, EnvironmentKept, Settled
<1> QED
  BY <1>1, <1>2, <1>3, <1>4, <1>5, <1>6, <1>7, <1>8 DEF IInv

LEMMA CleanNewInv == ASSUME IInv, CleanNew PROVE IInv'
<1> USE ReconfigureAssumption DEF CleanNew, Goto, files, world
<1>1. TypeInv'
  BY DEF IInv, TypeInv, Pcs, Cleaning, Commands
<1>2. Unfinished'
  BY DEF IInv, Preparing, Cleaning, Unfinished, Settled
<1>3. Prepared'
  BY DEF Preparing, Prepared
<1>4. Recorded'
  BY DEF IInv, Recorded
<1>5. Replacing'
  BY DEF Guarded, Replacing
<1>6. Remembered'
  BY DEF IInv, Guarded, Remembered
<1>7. Probing'
  BY DEF Probing
<1>8. EnvironmentKept'
  BY DEF IInv, Cleaning, Unfinished, EnvironmentKept, Settled
<1> QED
  BY <1>1, <1>2, <1>3, <1>4, <1>5, <1>6, <1>7, <1>8 DEF IInv

LEMMA CleanJournalInv == ASSUME IInv, CleanJournal PROVE IInv'
<1> USE ReconfigureAssumption DEF CleanJournal, Idle, files, world
<1>1. TypeInv'
  BY DEF IInv, TypeInv, Pcs, Commands
<1>2. Unfinished'
  BY DEF IInv, Cleaning, Guarded, Unfinished, Settled
<1>3. Prepared'
  BY DEF Preparing, Prepared
<1>4. Recorded'
  BY DEF Recorded
<1>5. Replacing'
  BY DEF Guarded, Replacing
<1>6. Remembered'
  BY DEF Guarded, Remembered
<1>7. Probing'
  BY DEF Probing
<1>8. EnvironmentKept'
  BY DEF IInv, EnvironmentKept
<1> QED
  BY <1>1, <1>2, <1>3, <1>4, <1>5, <1>6, <1>7, <1>8 DEF IInv

LEMMA RaiseInv == ASSUME IInv, Raise PROVE IInv'
<1> USE ReconfigureAssumption DEF Raise, Idle, Handler, NextState, files, world
<1>1. TypeInv'
  <2>1. state' \in States
    BY DEF IInv, TypeInv, States, Fingerprints, Containers, Guarded, Replacing
  <2>2. journal' \in Journals \cup {None}
    <3>1. ASSUME op.mode = "rollback"
          PROVE  [op.jr EXCEPT !.status = "rollback-failed"] \in Journals
      <4>1. op.jr \in Journals
        BY <3>1 DEF IInv, TypeInv, Commands, Remembered
      <4> QED
        BY <4>1 DEF Journals
    <3> QED
      BY <3>1 DEF IInv, TypeInv
  <2>3. op' \in Commands
    <3>1. CASE op.mode = "forward" /\ op.pc \in Guarded
      <4>1. op.jr \in Journals
        BY <3>1 DEF IInv, TypeInv, Commands, Remembered
      <4>2. [op.jr EXCEPT !.status = "rolling-back"] \in Journals
        BY <4>1 DEF Journals
      <4> QED
        BY <3>1, <4>2 DEF IInv, TypeInv, Commands, Pcs, Guarded
    <3>2. CASE ~(op.mode = "forward" /\ op.pc \in Guarded)
      BY <3>2 DEF Commands, Pcs
    <3> QED
      BY <3>1, <3>2
  <2> QED
    BY <2>1, <2>2, <2>3 DEF IInv, TypeInv
<1>2. Unfinished'
  BY DEF IInv, TypeInv, Preparing, Cleaning, Guarded, Commands, Journals,
     Unfinished, Remembered, Settled
<1>3. Prepared'
  BY DEF Preparing, Prepared
<1>4. Recorded'
  BY DEF IInv, TypeInv, Guarded, Commands, Journals, Recorded, Replacing,
     Remembered
<1>5. Replacing'
  BY DEF IInv, Guarded, Replacing
<1>6. Remembered'
  BY DEF IInv, TypeInv, Guarded, Commands, Journals, Remembered
<1>7. Probing'
  BY DEF Probing
<1>8. EnvironmentKept'
  BY DEF IInv, EnvironmentKept
<1> QED
  BY <1>1, <1>2, <1>3, <1>4, <1>5, <1>6, <1>7, <1>8 DEF IInv

LEMMA StopInv == ASSUME IInv, Stop PROVE IInv'
<1> USE ReconfigureAssumption DEF Stop, Idle, files, world
<1>1. TypeInv'
  BY DEF IInv, TypeInv, Pcs, Commands
<1>2. Unfinished'
  BY DEF IInv, Preparing, Cleaning, Guarded, Unfinished, Settled
<1>3. Prepared'
  BY DEF Preparing, Prepared
<1>4. Recorded'
  BY DEF IInv, Guarded, Recorded, Replacing
<1>5. Replacing'
  BY DEF Guarded, Replacing
<1>6. Remembered'
  BY DEF Guarded, Remembered
<1>7. Probing'
  BY DEF Probing
<1>8. EnvironmentKept'
  BY DEF IInv, EnvironmentKept
<1> QED
  BY <1>1, <1>2, <1>3, <1>4, <1>5, <1>6, <1>7, <1>8 DEF IInv

LEMMA WantInv == ASSUME IInv, NEW e \in Envs, Want(e) PROVE IInv'
<1> USE ReconfigureAssumption DEF Want, files, world
<1>1. TypeInv'
  BY DEF IInv, TypeInv
<1>2. Unfinished'
  BY DEF IInv, Unfinished, Settled
<1>3. Prepared'
  BY DEF Preparing, Prepared
<1>4. Recorded'
  BY DEF IInv, Recorded
<1>5. Replacing'
  BY DEF Guarded, Replacing
<1>6. Remembered'
  BY DEF IInv, Remembered
<1>7. Probing'
  BY DEF Probing
<1>8. EnvironmentKept'
  BY DEF IInv, EnvironmentKept
<1> QED
  BY <1>1, <1>2, <1>3, <1>4, <1>5, <1>6, <1>7, <1>8 DEF IInv

LEMMA StepInv == IInv /\ [Next]_vars => IInv'
<1> SUFFICES ASSUME IInv, [Next]_vars PROVE IInv'
  OBVIOUS
<1>1. CASE Begin
  BY <1>1, BeginInv
<1>2. CASE Step
  BY <1>2, RecoverInv, ProbeAgainInv, LoadCurrentInv, SnapshotOldInv,
     SnapshotNewInv, PrepareInv, JournalInv, RemoveInv, WriteActiveInv, CreateInv,
     ProbeInv, VerifiedInv, PublishInv, CleanOldInv, CleanNewInv, CleanJournalInv
     DEF Step
<1>3. CASE Raise
  BY <1>3, RaiseInv
<1>4. CASE Stop
  BY <1>4, StopInv
<1>5. ASSUME NEW e \in Envs, Want(e) PROVE IInv'
  BY <1>5, WantInv
<1>6. CASE UNCHANGED vars
  BY <1>6 DEF vars, files, world, IInv, TypeInv, Unfinished, Settled, Prepared,
     Recorded, Replacing, Remembered, Probing, EnvironmentKept
<1> QED
  BY <1>1, <1>2, <1>3, <1>4, <1>5, <1>6 DEF Next

(* Whatever fails or stops, a deployment without a journal runs exactly    *)
(* what its published state says, for any environments and fingerprints.   *)
THEOREM RuntimeKnown == Spec => []KnownRuntime
<1>1. IInv => KnownRuntime
  BY DEF IInv, Unfinished, Settled, KnownRuntime
<1> QED
  BY InitInv, StepInv, <1>1, PTL DEF Spec

(* The private environment of the published state is at every moment in    *)
(* the active file or in a snapshot.                                       *)
THEOREM EnvironmentNeverLost == Spec => []EnvironmentKept
<1>1. IInv => EnvironmentKept
  BY DEF IInv
<1> QED
  BY InitInv, StepInv, <1>1, PTL DEF Spec

----------------------------------------------------------------------------
(* The refinement of ProviderSwitch                                         *)

SwitchNext == Switch!Ask \/ Switch!Restart \/ Switch!Publish

LEMMA SwitchInit == Init => Switch!Init
BY ReconfigureAssumption DEF Init, Switch!Init, Containers

(* The container is made from the wanted environment when a cutover goes   *)
(* forward and from the published one when it goes back; it is taken away  *)
(* by its removal and by a Compose recreation that fails or is stopped.    *)
LEMMA SwitchStep == IInv /\ [Next]_vars => [SwitchNext]_(Switch!vars)
<1> SUFFICES ASSUME IInv, [Next]_vars PROVE SwitchNext \/ UNCHANGED Switch!vars
  OBVIOUS
<1> USE ReconfigureAssumption DEF files, world, SwitchNext, Switch!vars
<1>1. ASSUME UNCHANGED <<api, wanted, good>> PROVE UNCHANGED Switch!vars
  BY <1>1
<1>2. ASSUME NEW e \in Envs, Want(e) PROVE Switch!Ask
  BY <1>2 DEF Want, Switch!Ask
<1>3. ASSUME Remove \/ Raise \/ Stop PROVE UNCHANGED Switch!vars \/ Switch!Restart
  <2>1. api' \in {api, None} /\ UNCHANGED <<wanted, good>>
    BY <1>3 DEF Remove, Raise, Stop
  <2> QED
    BY <2>1 DEF Switch!Restart
<1>4. ASSUME Create PROVE Switch!Restart
  <2>1. active \in {good, wanted}
    BY <1>4 DEF Create, IInv, Replacing, Guarded
  <2>2. api' \in Containers /\ api'.env = active
    BY <1>4 DEF Create, IInv, TypeInv, Containers
  <2> QED
    BY <1>4, <2>1, <2>2 DEF Create, Switch!Restart
<1>5. ASSUME ProbeAgain PROVE Switch!Publish
  BY <1>5 DEF ProbeAgain, IInv, Probing, Switch!Publish
<1>6. ASSUME Publish PROVE Switch!Publish \/ UNCHANGED Switch!vars
  <2>1. CASE op.mode = "forward"
    BY <1>6, <2>1 DEF Publish, IInv, Replacing, Guarded, Switch!Publish
  <2>2. CASE op.mode # "forward"
    BY <1>6, <2>2 DEF Publish, IInv, Replacing, Guarded
  <2> QED
    BY <2>1, <2>2
<1>7. CASE Begin
  BY <1>1, <1>7 DEF Begin
<1>8. CASE Step
  <2>1. ASSUME Step PROVE \/ Remove \/ Create \/ ProbeAgain \/ Publish
                          \/ UNCHANGED <<api, wanted, good>>
    BY <2>1 DEF Step, Recover, LoadCurrent, SnapshotOld, SnapshotNew, Prepare,
       Journal, WriteActive, Probe, Verified, CleanOld, CleanNew, CleanJournal
  <2> QED
    BY <1>1, <1>3, <1>4, <1>5, <1>6, <1>8, <2>1
<1>9. CASE UNCHANGED vars
  BY <1>1, <1>9 DEF vars
<1> QED
  BY <1>2, <1>3, <1>7, <1>8, <1>9 DEF Next

(* The command implements ProviderSwitch: the API is away, or runs with    *)
(* the published or with the wanted providers, and a state is published    *)
(* only for an API that runs with what was asked for.                      *)
THEOREM SwitchImplemented == Spec => ImplementsSwitch
<1>1. [SwitchNext]_(Switch!vars) <=> [Switch!Ask \/ Switch!Restart \/ Switch!Publish]_(Switch!vars)
  BY DEF SwitchNext
<1> QED
  BY InitInv, StepInv, SwitchInit, SwitchStep, <1>1, PTL DEF Spec,
     ImplementsSwitch, Switch!Spec
=============================================================================
