---------------------------- MODULE CleanupToken ----------------------------
(***************************************************************************)
(* The operator credential of /cache/cleanup (server.py, _get_cleanup_     *)
(* token and _persist_cleanup_token).  Without BT_API_TOKEN the processes  *)
(* that share a data directory agree on one generated token: under an OS   *)
(* file lock a process reads the token file, and creates it if it is not   *)
(* there through a temporary file that it writes, renames and syncs.       *)
(*                                                                         *)
(* A process may fail or be killed at every step, which frees the lock;    *)
(* the host may crash, after which the directory is what was synced last.  *)
(* A process's own lock (_cleanup_token_lock) lets one of its threads work *)
(* at a time, so a process is one actor.                                   *)
(***************************************************************************)
EXTENDS Naturals, FiniteSets

CONSTANTS
    Procs,      \* processes that share the data directory
    MaxTokens,  \* bound on the tokens that are drawn
    None

ASSUME CleanupTokenAssumption == MaxTokens \in Nat /\ None \notin Nat /\ None \notin Procs

VARIABLES
    file,       \* the token file, as the processes see it
    disk,       \* the token file, as a host crash would leave it
    holder,     \* the holder of the file lock
    at,         \* where each process is
    temp,       \* the token in the process's temporary file
    cache,      \* _cleanup_token_cache of each process
    drawn,      \* number of tokens drawn
    unsynced    \* history: a sync of the directory failed or never took place

tokenVars == <<file, disk, holder, at, temp, cache, drawn, unsynced>>

TokenInit ==
    /\ file = None /\ disk = None /\ holder = None
    /\ at = [p \in Procs |-> "idle"]
    /\ temp = [p \in Procs |-> None]
    /\ cache = [p \in Procs |-> None]
    /\ drawn = 0
    /\ unsynced = FALSE

----------------------------------------------------------------------------
\* Variant: the file is read before the lock is taken.
LockAfterRead(p) ==
    /\ at[p] = "idle" /\ cache[p] = None
    /\ at' = [at EXCEPT ![p] = "read"]
    /\ UNCHANGED <<file, disk, holder, temp, cache, drawn, unsynced>>

\* The answer from the in-process cache changes nothing; without it, flock.
Lock(p) ==
    /\ at[p] = "idle" /\ cache[p] = None /\ holder = None
    /\ holder' = p
    /\ at' = [at EXCEPT ![p] = "read"]
    /\ UNCHANGED <<file, disk, temp, cache, drawn, unsynced>>

Unlock(p) ==
    /\ holder' = None
    /\ at' = [at EXCEPT ![p] = "idle"]

\* _read_cleanup_token_file: an existing token is returned.
Read(p) ==
    /\ at[p] = "read"
    /\ IF file # None
         THEN cache' = [cache EXCEPT ![p] = file] /\ Unlock(p)
         ELSE /\ at' = [at EXCEPT ![p] = "create"]
              /\ UNCHANGED <<cache, holder>>
    /\ UNCHANGED <<file, disk, temp, drawn, unsynced>>

\* mkstemp, write, flush and fsync of a new token.
Create(p) ==
    /\ at[p] = "create" /\ drawn < MaxTokens
    /\ drawn' = drawn + 1
    /\ temp' = [temp EXCEPT ![p] = drawn']
    /\ at' = [at EXCEPT ![p] = "replace"]
    /\ UNCHANGED <<file, disk, holder, cache, unsynced>>

\* Variant: the lock is released before the directory is synced.
ReplaceUnlocks(p) ==
    /\ at[p] = "replace"
    /\ file' = temp[p]
    /\ cache' = [cache EXCEPT ![p] = temp[p]]
    /\ temp' = [temp EXCEPT ![p] = None]
    /\ Unlock(p)
    /\ UNCHANGED <<disk, drawn, unsynced>>

\* os.replace.
Replace(p) ==
    /\ at[p] = "replace"
    /\ file' = temp[p]
    /\ temp' = [temp EXCEPT ![p] = None]
    /\ at' = [at EXCEPT ![p] = "sync"]
    /\ UNCHANGED <<disk, holder, cache, drawn, unsynced>>

(* The sync of the directory, whose failure is ignored; the lock is freed  *)
(* and the token cached.                                                   *)
Sync(p, ok) ==
    /\ at[p] = "sync"
    /\ disk' = IF ok THEN file ELSE disk
    /\ unsynced' = (unsynced \/ ~ok)
    /\ cache' = [cache EXCEPT ![p] = file]
    /\ Unlock(p)
    /\ UNCHANGED <<file, temp, drawn>>

(* An error before the rename: the temporary file is removed, the lock     *)
(* freed, and the endpoint disabled for this request.                      *)
PersistFails(p) ==
    /\ at[p] \in {"read", "create", "replace"}
    /\ temp' = [temp EXCEPT ![p] = None]
    /\ Unlock(p)
    /\ UNCHANGED <<file, disk, cache, drawn, unsynced>>

(* The process is killed and restarts: it leaves its temporary file, which *)
(* nobody reads, and perhaps a rename that it did not sync.                *)
ProcessRestart(p) ==
    /\ cache' = [cache EXCEPT ![p] = None]
    /\ temp' = [temp EXCEPT ![p] = None]
    /\ holder' = IF holder = p THEN None ELSE holder
    /\ at' = [at EXCEPT ![p] = "idle"]
    /\ unsynced' = (unsynced \/ at[p] = "sync")
    /\ UNCHANGED <<file, disk, drawn>>

\* The host crashes; a rename that was not synced may or may not survive.
HostCrash ==
    /\ file' \in {file, disk} /\ disk' = file'
    /\ holder' = None
    /\ at' = [p \in Procs |-> "idle"]
    /\ temp' = [p \in Procs |-> None]
    /\ cache' = [p \in Procs |-> None]
    /\ UNCHANGED <<drawn, unsynced>>

TokenStep(p) == Lock(p) \/ Read(p) \/ Create(p) \/ Replace(p) \/ \E ok \in BOOLEAN : Sync(p, ok)

TokenNext == HostCrash \/ \E p \in Procs : TokenStep(p) \/ PersistFails(p) \/ ProcessRestart(p)

TokenSpec == TokenInit /\ [][TokenNext]_tokenVars

----------------------------------------------------------------------------
(* Properties                                                               *)

(* Every process that has a token has the one in the file: an operator who *)
(* reads the file can clean up through any of them.                        *)
Agreement == \A p \in Procs : cache[p] # None => cache[p] = file

(* A token that some process has handed out survives a host crash, unless  *)
(* a process was killed between its rename and the sync of the directory,  *)
(* or the file system refused that sync: the lock is held until the rename *)
(* is on disk, so nobody else relies on an unsynced token.                 *)
Durable == (\E p \in Procs : cache[p] # None) => disk = file \/ unsynced
=============================================================================
