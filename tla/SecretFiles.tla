----------------------------- MODULE SecretFiles -----------------------------
(***************************************************************************)
(* The two key files of a reader-session broker (reader_session.py), one   *)
(* pair in the data directory of each reader: the session key, which btctl *)
(* removes on uninstall to revoke browser sessions, and the tenant key,    *)
(* which must outlive it because the cache and the glossary of every user  *)
(* are filed under it.                                                     *)
(*                                                                         *)
(* broker_from_environment looks for the session key, loads or creates it, *)
(* and then loads or creates the tenant key, which it seeds from the       *)
(* session key if that one was there already.  load_or_create_session_key  *)
(* creates the file with O_EXCL and writes it in a second step, so a       *)
(* process that is killed in between leaves a file without a key.  Who     *)
(* starts the process, and when, is HubRuntime's matter.                   *)
(***************************************************************************)
EXTENDS Naturals, FiniteSets

CONSTANTS
    Readers,        \* the enabled readers
    MaxFailures,    \* bound on the steps that fail
    Absent,         \* there is no file
    Partial         \* the file was created and nothing is written

ASSUME SecretFilesAssumption ==
    MaxFailures \in Nat /\ Absent \notin Nat /\ Partial \notin Nat /\ Absent # Partial

VARIABLES
    file,       \* reader -> the content of its files "session" and "tenant"
    start,      \* reader -> the process that builds its broker
    drawn,      \* reader -> how many random keys it has had
    failures,   \* failed steps so far
    tenants,    \* history: reader -> the tenant keys its brokers were built with
    cut         \* history: the readers whose process was killed before a write

keys == <<file, start, drawn, failures, tenants, cut>>

Files == {"session", "tenant"}
IsKey(content) == content \notin {Absent, Partial}

\* There is no process; it has begun; it has failed; the broker is built.
Off == [at |-> "off", f |-> "session", existed |-> FALSE, key |-> [f \in Files |-> Absent]]

(* A fresh data directory, or that of a release before tenant keys: its    *)
(* users' data is filed under the session key.                             *)
InitKeys ==
    \E legacy \in SUBSET Readers :
        /\ file = [r \in Readers |-> [f \in Files |->
                      IF r \in legacy /\ f = "session" THEN 1 ELSE Absent]]
        /\ drawn = [r \in Readers |-> IF r \in legacy THEN 1 ELSE 0]
        /\ tenants = [r \in Readers |-> IF r \in legacy THEN {1} ELSE {}]
        /\ start = [r \in Readers |-> Off]
        /\ failures = 0 /\ cut = {}

----------------------------------------------------------------------------
(* broker_from_environment                                                  *)

\* The process begins: session_key_existed is decided before anything else.
Begun(r) == [Off EXCEPT !.at = "open", !.existed = file[r]["session"] # Absent]

\* os.open with O_EXCL: the file is created empty, or it exists.
Open(r) ==
    LET f == start[r].f IN
    /\ start[r].at = "open"
    /\ IF file[r][f] = Absent
         THEN /\ file' = [file EXCEPT ![r][f] = Partial]
              /\ start' = [start EXCEPT ![r].at = "write"]
         ELSE /\ start' = [start EXCEPT ![r].at = "load"]
              /\ UNCHANGED file
    /\ UNCHANGED <<drawn, failures, tenants, cut>>

\* Variant: the tenant key is always drawn.
NeverSeeds(r) == FALSE

\* The tenant key starts as the session key of an install that had one.
Seeds(r) == start[r].f = "tenant" /\ start[r].existed

\* write, flush, fsync and chmod: the seed, or a new random key.
Write(r) ==
    LET f == start[r].f IN
    /\ start[r].at = "write"
    /\ \/ /\ Seeds(r)
          /\ file' = [file EXCEPT ![r][f] = start[r].key["session"]]
          /\ UNCHANGED drawn
       \/ /\ ~Seeds(r)
          /\ drawn' = [drawn EXCEPT ![r] = @ + 1]
          /\ file' = [file EXCEPT ![r][f] = drawn'[r]]
    /\ start' = [start EXCEPT ![r].at = "load"]
    /\ UNCHANGED <<failures, tenants, cut>>

\* Variant: the handler of a failed write leaves the file.
WriteFailsKeepsFile(r) ==
    /\ start[r].at = "write" /\ failures < MaxFailures
    /\ start' = [start EXCEPT ![r].at = "failed"]
    /\ failures' = failures + 1
    /\ UNCHANGED <<file, drawn, tenants, cut>>

\* The disk is full: the handler unlinks the file and the process fails.
WriteFails(r) ==
    /\ start[r].at = "write" /\ failures < MaxFailures
    /\ file' = [file EXCEPT ![r][start[r].f] = Absent]
    /\ start' = [start EXCEPT ![r].at = "failed"]
    /\ failures' = failures + 1
    /\ UNCHANGED <<drawn, tenants, cut>>

(* The file is opened again and checked; one that does not hold 32 bytes   *)
(* fails the process.  With the tenant key the broker is built.            *)
Load(r) ==
    LET f == start[r].f IN
    /\ start[r].at = "load"
    /\ IF ~IsKey(file[r][f])
         THEN /\ start' = [start EXCEPT ![r].at = "failed"]
              /\ UNCHANGED tenants
       ELSE IF f = "session"
         THEN /\ start' = [start EXCEPT ![r].at = "open", ![r].f = "tenant",
                                        ![r].key[f] = file[r][f]]
              /\ UNCHANGED tenants
       ELSE /\ start' = [start EXCEPT ![r].at = "built", ![r].key[f] = file[r][f]]
            /\ tenants' = [tenants EXCEPT ![r] = @ \cup {file[r][f]}]
    /\ UNCHANGED <<file, drawn, failures, cut>>

\* The readers with a process between the creation of a file and the write.
Writing == {r \in Readers : start[r].at = "write"}

KeyStep(r) == Open(r) \/ Write(r) \/ Load(r)

----------------------------------------------------------------------------
(* uninstall of the stopped container removes the session keys.  A release *)
(* that never wrote a tenant key loses its users' data here, as ADR-020    *)
(* says.                                                                   *)
RemoveSessionKeys ==
    /\ file' = [r \in Readers |-> [file[r] EXCEPT !["session"] = Absent]]
    /\ tenants' = [r \in Readers |-> IF file[r]["tenant"] = Absent THEN {} ELSE tenants[r]]
    /\ UNCHANGED <<start, drawn, failures, cut>>

----------------------------------------------------------------------------
(* Properties                                                               *)

(* All data of a reader is filed under one tenant key, whatever restarts,  *)
(* failed writes, processes killed during a start, reinstalls and upgrades *)
(* happen: users keep their cache and their glossary.                      *)
TenantKept ==
    \A r \in Readers :
        /\ Cardinality(tenants[r]) <= 1
        /\ start[r].at = "built" => start[r].key["tenant"] \in tenants[r]
=============================================================================
