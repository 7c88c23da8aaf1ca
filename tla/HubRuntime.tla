----------------------------- MODULE HubRuntime ------------------------------
(***************************************************************************)
(* The hub container (hub_runtime.py): process 1 reads the configuration,  *)
(* lets each reader build its broker once in a process of its own          *)
(* (prepare_runtime), spawns one gunicorn per reader and nginx, and ends   *)
(* the container when a child exits or a stop is asked for (supervise).    *)
(* Docker restarts a container that has ended, unless it was stopped.      *)
(*                                                                         *)
(* The readers are numbered in the order of the configuration; child n + 1 *)
(* is nginx.  A gunicorn child builds its reader's broker when its worker  *)
(* boots, and boots a new worker when one dies: SecretFiles has the steps. *)
(* The signal handlers are set by supervise only: process 1 ignores a      *)
(* SIGTERM that comes before, and docker kills the container in the end.   *)
(***************************************************************************)
EXTENDS SecretFiles

CONSTANTS
    MaxReaders,     \* the readers that can be enabled
    MaxKills,       \* bound on the processes that die
    MaxStops        \* bound on the stops by the operator

ASSUME HubRuntimeAssumption ==
    MaxReaders \in Nat /\ Readers = 1..MaxReaders /\ MaxKills \in Nat /\ MaxStops \in Nat

VARIABLES
    env,        \* the environment: how many readers, and whether it is accepted
    sup,        \* process 1: its step and the index in the loop it is in
    child,      \* child -> "none", "up", "term" (has got SIGTERM) or "exited"
    stopping,   \* the flag of supervise
    wanted,     \* docker keeps the container running
    kills,      \* processes that have died so far
    stops       \* stops by the operator so far

supervisor == <<sup, child, stopping>>
runtimeVars == <<keys, env, supervisor, wanted, kills, stops>>

Children == 1..MaxReaders + 1
Enabled == 1..env.n
Nginx == env.n + 1

RuntimeInit ==
    /\ InitKeys
    /\ env \in [n : 1..MaxReaders, valid : BOOLEAN]
    /\ sup = [at |-> "down", i |-> 0]
    /\ child = [c \in Children |-> "none"]
    /\ stopping = FALSE
    /\ wanted = TRUE /\ kills = 0 /\ stops = 0

At(step) == sup.at = step
Goto(step, i) == sup' = [at |-> step, i |-> i]

----------------------------------------------------------------------------
(* HubConfig.from_environment                                               *)

\* Docker starts the container: at first, and again whenever it has ended.
ContainerStarts ==
    /\ At("down") /\ wanted
    /\ Goto("config", 0)
    /\ child' = [c \in Children |-> "none"]
    /\ start' = [r \in Readers |-> Off]
    /\ stopping' = FALSE
    /\ UNCHANGED <<file, drawn, failures, tenants, cut, env, wanted, kills, stops>>

\* The readers, their providers, ports and slots are validated; a configuration
\* that is refused ends the process with status 78.
Configure ==
    /\ At("config")
    /\ IF env.valid THEN Goto("prepare", 1) ELSE Goto("down", 0)
    /\ UNCHANGED <<keys, env, child, stopping, wanted, kills, stops>>

----------------------------------------------------------------------------
(* prepare_runtime                                                          *)

\* The directory and the proxy configuration of a reader, then its process.
PrepareReader ==
    /\ At("prepare") /\ sup.i \in Enabled /\ start[sup.i].at = "off"
    /\ start' = [start EXCEPT ![sup.i] = Begun(sup.i)]
    /\ UNCHANGED <<file, drawn, failures, tenants, cut, env, supervisor, wanted, kills, stops>>

\* check=True: a process that fails ends the container.
Prepared ==
    /\ At("prepare") /\ sup.i \in Enabled
    /\ start[sup.i].at \in {"built", "failed"}
    /\ IF start[sup.i].at = "built" THEN Goto("prepare", sup.i + 1) ELSE Goto("down", 0)
    /\ start' = [start EXCEPT ![sup.i] = Off]
    /\ UNCHANGED <<file, drawn, failures, tenants, cut, env, child, stopping, wanted, kills, stops>>

\* The process of a reader is killed.
PrepareKilled ==
    /\ At("prepare") /\ sup.i \in Enabled /\ kills < MaxKills
    /\ start[sup.i].at \in {"open", "write", "load"}
    /\ kills' = kills + 1
    /\ start' = [start EXCEPT ![sup.i].at = "failed"]
    /\ cut' = cut \cup Writing
    /\ UNCHANGED <<file, drawn, failures, tenants, env, supervisor, wanted, stops>>

\* nginx -t accepts what was rendered.
TestNginx ==
    /\ At("prepare") /\ sup.i = Nginx
    /\ Goto("spawn", 1)
    /\ UNCHANGED <<keys, env, child, stopping, wanted, kills, stops>>

\* A directory, a template or nginx -t fails.
PrepareFails ==
    /\ At("prepare") /\ failures < MaxFailures
    /\ sup.i \in Enabled => start[sup.i].at = "off"
    /\ failures' = failures + 1
    /\ Goto("down", 0)
    /\ UNCHANGED <<file, start, drawn, tenants, cut, env, child, stopping, wanted, kills, stops>>

----------------------------------------------------------------------------
(* supervise                                                                *)

\* Popen of the next child; after the last one the watch begins.
Spawn ==
    /\ At("spawn")
    /\ IF sup.i > Nginx
         THEN /\ Goto("watch", 0)
              /\ UNCHANGED <<child, start>>
         ELSE /\ Goto("spawn", sup.i + 1)
              /\ child' = [child EXCEPT ![sup.i] = "up"]
              /\ start' = IF sup.i \in Enabled THEN [start EXCEPT ![sup.i] = Begun(sup.i)] ELSE start
    /\ UNCHANGED <<file, drawn, failures, tenants, cut, env, stopping, wanted, kills, stops>>

\* Variant: a failed spawn ends process 1 at once.
SpawnFailsReturns ==
    /\ At("spawn") /\ sup.i <= Nginx /\ failures < MaxFailures
    /\ failures' = failures + 1
    /\ Goto("down", 0)
    /\ UNCHANGED <<file, start, drawn, tenants, cut, env, child, stopping, wanted, kills, stops>>

\* Popen raises: the handler stops what has started.
SpawnFails ==
    /\ At("spawn") /\ sup.i <= Nginx /\ failures < MaxFailures
    /\ failures' = failures + 1
    /\ Goto("stop", 0)
    /\ UNCHANGED <<file, start, drawn, tenants, cut, env, child, stopping, wanted, kills, stops>>

\* The loop looks at the flag and polls the children, and sleeps a second.
Poll ==
    /\ At("watch")
    /\ IF stopping \/ \E c \in 1..Nginx : child[c] = "exited"
         THEN Goto("stop", 0)
         ELSE UNCHANGED sup
    /\ UNCHANGED <<keys, env, child, stopping, wanted, kills, stops>>

\* _stop_processes: terminate all that was spawned,
Terminate ==
    /\ At("stop")
    /\ child' = [c \in Children |-> IF child[c] = "up" THEN "term" ELSE child[c]]
    /\ Goto("reap", 1)
    /\ UNCHANGED <<keys, env, stopping, wanted, kills, stops>>

\* then wait for one after the other, and return or raise after the last.
Reap ==
    /\ At("reap")
    /\ IF sup.i > Nginx
         THEN Goto("down", 0)
         ELSE child[sup.i] \in {"exited", "none"} /\ Goto("reap", sup.i + 1)
    /\ UNCHANGED <<keys, env, child, stopping, wanted, kills, stops>>

\* Variant: a child that does not heed SIGTERM is waited for.
WaitTimesOutWaits == FALSE

\* A child that does not heed SIGTERM within ten seconds is killed.
WaitTimesOut ==
    /\ At("reap") /\ sup.i \in Children /\ child[sup.i] = "term"
    /\ child' = [child EXCEPT ![sup.i] = "exited"]
    /\ start' = IF sup.i \in Enabled THEN [start EXCEPT ![sup.i] = Off] ELSE start
    /\ UNCHANGED <<file, drawn, failures, tenants, cut, env, sup, stopping, wanted, kills, stops>>

----------------------------------------------------------------------------
(* The children                                                             *)

\* A child exits of itself, as a gunicorn does whose worker cannot boot, or is killed.
ChildDies(c) ==
    /\ child[c] = "up" /\ kills < MaxKills
    /\ kills' = kills + 1
    /\ child' = [child EXCEPT ![c] = "exited"]
    /\ start' = IF c \in Enabled THEN [start EXCEPT ![c] = Off] ELSE start
    /\ UNCHANGED <<file, drawn, failures, tenants, cut, env, sup, stopping, wanted, stops>>

\* A worker dies and its gunicorn boots another.
WorkerDies(r) ==
    /\ r \in Enabled /\ child[r] = "up" /\ kills < MaxKills
    /\ kills' = kills + 1
    /\ start' = [start EXCEPT ![r] = Begun(r)]
    /\ UNCHANGED <<file, drawn, failures, tenants, cut, env, supervisor, wanted, stops>>

\* A child heeds SIGTERM.
ChildStops(c) ==
    /\ child[c] = "term"
    /\ child' = [child EXCEPT ![c] = "exited"]
    /\ start' = IF c \in Enabled THEN [start EXCEPT ![c] = Off] ELSE start
    /\ UNCHANGED <<file, drawn, failures, tenants, cut, env, sup, stopping, wanted, kills, stops>>

----------------------------------------------------------------------------
(* The operator and docker                                                  *)

\* docker stop: SIGTERM reaches process 1, whose handler sets the flag.
StopRequested ==
    /\ wanted /\ stops < MaxStops
    /\ stops' = stops + 1
    /\ wanted' = FALSE
    /\ stopping' = (stopping \/ sup.at \in {"spawn", "watch", "stop", "reap"})
    /\ UNCHANGED <<keys, env, sup, child, kills>>

\* The end of the grace period of docker stop, or the host kills everything.
ContainerKilled ==
    /\ ~At("down") /\ (~wanted \/ kills < MaxKills)
    /\ kills' = IF wanted THEN kills + 1 ELSE kills
    /\ Goto("down", 0)
    /\ child' = [c \in Children |-> "none"]
    /\ start' = [r \in Readers |-> Off]
    /\ cut' = cut \cup Writing
    /\ UNCHANGED <<file, drawn, failures, tenants, env, stopping, wanted, stops>>

\* docker start, after an uninstall or without one.
StartRequested ==
    /\ ~wanted /\ At("down")
    /\ wanted' = TRUE
    /\ \/ RemoveSessionKeys
       \/ UNCHANGED keys
    /\ UNCHANGED <<env, supervisor, kills, stops>>

----------------------------------------------------------------------------
\* Process 1 and what it waits for.
Step ==
    \/ ContainerStarts \/ Configure \/ PrepareReader \/ Prepared \/ TestNginx \/ Spawn
    \/ Poll \/ Terminate \/ Reap \/ WaitTimesOut
    \/ \E r \in Readers : KeyStep(r) /\ UNCHANGED <<env, supervisor, wanted, kills, stops>>

RuntimeNext ==
    \/ Step \/ PrepareFails \/ PrepareKilled \/ SpawnFails
    \/ StopRequested \/ ContainerKilled \/ StartRequested
    \/ \E r \in Readers : WorkerDies(r) \/ (WriteFails(r) /\ UNCHANGED <<env, supervisor, wanted, kills, stops>>)
    \/ \E c \in Children : ChildDies(c) \/ ChildStops(c)

RuntimeSpec == RuntimeInit /\ [][RuntimeNext]_runtimeVars

(* Processes that are not killed run on, docker restarts the container and *)
(* a wait with a timeout ends.  Nothing else is fair: a child may ignore   *)
(* SIGTERM and docker may wait for ever before it kills.                   *)
FairSpec == RuntimeSpec /\ WF_runtimeVars(Step)

----------------------------------------------------------------------------
(* Properties                                                               *)

(* supervise leaves no child behind: when process 1 has returned, after a  *)
(* failed spawn, the exit of a child or a stop, every child it has started *)
(* has ended.                                                              *)
NoneLeft == At("down") => \A c \in Children : child[c] \in {"none", "exited"}

(* "fail the whole container on one child exit": a child that has exited,  *)
(* or a stop that the handler has seen, ends the container, even if other  *)
(* children do not heed SIGTERM.                                           *)
FailsWhole == (stopping \/ \E c \in Children : child[c] = "exited") ~> At("down")

\* All the enabled readers are served.
Serving ==
    /\ At("watch") /\ \A c \in 1..Nginx : child[c] = "up"
    /\ \A r \in Enabled : start[r].at = "built"

(* Whatever fails or dies, and however often it is stopped and started, a  *)
(* hub that docker is to run serves every enabled reader in the end, if    *)
(* its configuration is accepted and no process was killed between the     *)
(* creation of a key file and the write.                                   *)
ServesAgain ==
    \/ <>[](wanted => Serving)
    \/ <>(cut # {})
    \/ ~env.valid
=============================================================================
