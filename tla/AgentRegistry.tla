---------------------------- MODULE AgentRegistry ----------------------------
(***************************************************************************)
(* The worker lifecycle kept by ColonyAgentRegistry                        *)
(* (src/agents/registry.ts), as functions from a worker's record to the    *)
(* record the registry's methods leave behind.  Modules that own a worker  *)
(* map apply them to its entries.                                          *)
(*                                                                         *)
(* "absent" is an identifier with no entry in _workers: every method then  *)
(* works on a detached "failed" record and changes nothing.  Sessions,     *)
(* reasons, results, timestamps and the event log are left out.            *)
(***************************************************************************)
CONSTANTS Task, NoTask

ASSUME NoTaskIsNoTask == NoTask \notin Task

WorkerStates ==
    {"absent", "spawned", "idle", "running", "paused", "stopped", "failed"}

WorkerRecord == [state : WorkerStates, task : Task \cup {NoTask}]

Absent == [state |-> "absent", task |-> NoTask]

(* spawnWorker, once the session exists *)
Spawned == [state |-> "spawned", task |-> NoTask]

(* _fail *)
Failed == [state |-> "failed", task |-> NoTask]

(* The shape of every transition method: a missing or failed worker stays as *)
(* it is, a worker in a legal state moves on, any other worker fails.        *)
MoveFrom(legal, w, next) ==
    IF w.state \in {"absent", "failed"} THEN w
    ELSE IF w.state \in legal THEN next ELSE Failed

MarkReady(w) == MoveFrom({"spawned"}, w, [w EXCEPT !.state = "idle"])

StartTask(w, t) ==
    MoveFrom({"idle", "spawned"}, w, [state |-> "running", task |-> t])

Pause(w) == MoveFrom({"running"}, w, [w EXCEPT !.state = "paused"])

Resume(w) == MoveFrom({"paused"}, w, [w EXCEPT !.state = "running"])

FinishTask(w) == MoveFrom({"running"}, w, [state |-> "idle", task |-> NoTask])

(* stopWorker: no illegal source state *)
Stop(w) ==
    IF w.state \in {"absent", "failed", "stopped"} THEN w
    ELSE [state |-> "stopped", task |-> NoTask]

(* A worker that claimNextTask turns away. *)
Retired(w) == w.state \in {"absent", "failed", "stopped"}
=============================================================================
