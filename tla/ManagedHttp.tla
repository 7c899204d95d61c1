----------------------------- MODULE ManagedHttp -----------------------------
(***************************************************************************)
(* The process behind a bridge-managed streamable-http registration (class *)
(* ManagedHttpBackend): one generation at a time, a readiness gate, relay  *)
(* demand that starts it, an Operator's drain, restart and stop, and the   *)
(* stop the node asks for when the peer link is lost.                      *)
(* A lock of the code is held for one action here; an action is what a     *)
(* task does between two awaits that yield.  Previews change nothing and   *)
(* are left out.                                                           *)
(***************************************************************************)
EXTENDS Integers, FiniteSets

CONSTANTS
  Demands,   \* relay requests that need the process
  Ops,       \* confirmed lifecycle actions, one after the other (target lock)
  MaxGen,    \* bound: generations
  Crashes,   \* bound: processes that exit on their own
  Habits     \* behaviours considered, see AllHabits

\* "spawnFails", "neverReady": the launch or the readiness gate fails.
\* "lateExit": the process exits when it has answered the probe.
\* "graceEnds": requests in flight outlast the grace of a drain.
\* "linkLost": the peer link is lost, which stops the backend.
AllHabits == {"spawnFails", "neverReady", "lateExit", "graceEnds", "linkLost"}

ManagedAssumption ==
  /\ MaxGen \in Nat \ {0} /\ Crashes \in Nat
  /\ Habits \subseteq AllHabits

Actions == {"drain", "restart", "stop"}

VARIABLES
  state,     \* ManagedHttpBackend.state
  gen,       \* generation
  alive,     \* generations whose process runs
  watched,   \* the wait task has not ended
  failed,    \* start_error is set
  startTask, \* start_future: the task _start_generation
  stopTask,  \* stop_future: the task _stop_generation
  drain,     \* drain_requested, which the node mirrors
  demand,    \* demand[d]: a relay task in _http_backend_demand_ready
  op,        \* op[o]: an Operator's action, and the generation it was asked of
  downing,   \* the node's own stop after the loss of the link
  crashes    \* counter for the bound

taskVars == <<startTask, stopTask>>
procVars == <<alive, watched, crashes>>
clientVars == <<demand, op, downing>>
vars == <<state, gen, failed, taskVars, procVars, drain, clientVars>>

\* Where start() and stop() wait: "start2" is start() waiting for the start task.
InStart == {"start2", "stop2"}
InStop == {"start1", "stop1"}

\* Type correctness: the state machine, tasks and callers are in one of their states.
TypeOK ==
  /\ state \in {"exited", "starting", "ready", "stopping", "failed"}
  /\ gen \in 0..MaxGen /\ alive \subseteq 1..MaxGen
  /\ watched \in BOOLEAN /\ failed \in BOOLEAN /\ drain \in BOOLEAN
  /\ startTask \in {"off", "spawn", "probe", "passed", "over"}
  /\ stopTask \in {"off", "ask", "wait", "over"}
  /\ demand \in [Demands -> InStart \cup {"new", "starts", "served", "done", "cut", "refused", "failed"}]
  /\ op \in [Ops -> [do : Actions \cup {"none"}, of : 0..MaxGen,
                     at : InStart \cup InStop \cup {"new", "drains", "stops", "starts", "ok", "error"}]]
  /\ downing \in InStop \cup {"no", "stops", "over"}
  /\ crashes \in 0..Crashes

Init ==
  /\ state = "exited" /\ gen = 0 /\ alive = {} /\ watched = FALSE /\ failed = FALSE
  /\ startTask = "off" /\ stopTask = "off" /\ drain = FALSE
  /\ demand = [d \in Demands |-> "new"]
  /\ op = [o \in Ops |-> [do |-> "none", of |-> 0, at |-> "new"]]
  /\ downing = "no" /\ crashes = 0

\* Relay requests the process is serving.
inflight == {d \in Demands : demand[d] = "served"}

\* The target lock of the lifecycle actions is free.
Unlocked == \A o \in Ops : op[o].at \in {"new", "ok", "error"}

\* A demand, an action, or the stop of the node goes on to x.
DemandAt(d, x) == demand' = [demand EXCEPT ![d] = x] /\ UNCHANGED <<op, downing>>
OpAt(o, x) == op' = [op EXCEPT ![o].at = x] /\ UNCHANGED <<demand, downing>>
DowningAt(x) == downing' = x /\ UNCHANGED <<demand, op>>

-----------------------------------------------------------------------------
(* start() and stop(): x is where a turn of their loop leads the caller.    *)

\* Faulty variant: a generation that is stopping is not waited for.
NewOver ==
  /\ state \in {"exited", "failed", "stopping"} /\ gen < MaxGen
  /\ state' = "starting" /\ gen' = gen + 1
  /\ failed' = FALSE /\ startTask' = "spawn"

\* Somebody whose stop is over is still to resume: the first who waited is the
\* first to go on.
StopFirst == stopTask = "over" /\ (downing = "stop1" \/ \E o \in Ops : op[o].at = "stop1")

\* A generation is begun.
New ==
  /\ state \in {"exited", "failed"} /\ gen < MaxGen /\ ~StopFirst
  /\ state' = "starting" /\ gen' = gen + 1
  /\ failed' = FALSE /\ startTask' = "spawn"

Starting(x) ==
  /\ \/ /\ \/ drain /\ x = "refused"
           \/ ~drain /\ state = "ready" /\ x = "ready"
           \/ ~drain /\ state = "starting" /\ x = "start2"
           \/ ~drain /\ state = "stopping" /\ x = "stop2"
        /\ UNCHANGED <<state, gen, failed, startTask>>
     \/ ~drain /\ x = "start2" /\ New
  /\ UNCHANGED <<stopTask, drain, procVars>>

\* The task that is waited for is over.
Over(at) ==
  \/ at \in {"start1", "start2"} /\ startTask = "over"
  \/ at \in {"stop1", "stop2"} /\ stopTask = "over"

\* The wait in start() ends: a generation that is ready is taken as it is, also
\* when a drain was armed meanwhile.
Started(at, x) ==
  /\ at \in InStart /\ Over(at)
  /\ x = IF state = "ready" THEN "ready"
         ELSE IF state \in {"failed", "exited"} /\ failed THEN "failed" ELSE "starts"
  /\ UNCHANGED <<state, gen, failed, taskVars, drain, procVars>>

Stopping(x) ==
  /\ \/ /\ \/ state \in {"exited", "failed"} /\ x = "stopped"
           \/ state = "stopping" /\ x = "stop1"
           \/ state = "starting" /\ x = "start1"
        /\ UNCHANGED <<state, stopTask>>
     \/ state = "ready" /\ x = "stop1" /\ state' = "stopping" /\ stopTask' = "ask"
  /\ UNCHANGED <<gen, failed, startTask, drain, procVars>>

Stopped(at, x) ==
  /\ at \in InStop /\ Over(at)
  /\ x = IF state \in {"exited", "failed"} THEN "stopped" ELSE "stops"
  /\ UNCHANGED <<state, gen, failed, taskVars, drain, procVars>>

-----------------------------------------------------------------------------
(* The generation.                                                          *)

\* A process that ends takes the requests it serves with it.
CutServed == demand' = [d \in Demands |-> IF demand[d] = "served" THEN "cut" ELSE demand[d]]

\* The launch works, or the start has failed.
Spawn ==
  /\ startTask = "spawn"
  /\ \/ /\ alive' = alive \cup {gen} /\ watched' = TRUE /\ startTask' = "probe"
        /\ UNCHANGED <<state, failed>>
     \/ /\ "spawnFails" \in Habits
        /\ state' = "failed" /\ failed' = TRUE /\ startTask' = "over"
        /\ UNCHANGED <<alive, watched>>
  /\ UNCHANGED <<gen, stopTask, drain, clientVars, crashes>>

\* The process answers the probe.
Passes ==
  /\ startTask = "probe" /\ gen \in alive
  /\ startTask' = "passed"
  /\ UNCHANGED <<state, gen, failed, stopTask, drain, procVars, clientVars>>

\* The answer is read: the generation is ready.
BecomesReady ==
  /\ startTask = "passed"
  /\ startTask' = "over" /\ state' = "ready"
  /\ UNCHANGED <<gen, failed, stopTask, drain, procVars, clientVars>>

\* The process has exited, or the startup window is over and it is killed.
StartFails ==
  /\ startTask = "probe"
  /\ gen \notin alive \/ "neverReady" \in Habits
  /\ alive' = alive \ {gen} /\ watched' = FALSE
  /\ startTask' = "over" /\ failed' = TRUE /\ state' = "failed"
  /\ UNCHANGED <<gen, stopTask, drain, clientVars, crashes>>

\* Only with "lateExit" it exits after the answer to the probe and before the
\* answer is read.
Exits ==
  /\ gen \in alive /\ crashes < Crashes
  /\ startTask # "passed" \/ "lateExit" \in Habits
  /\ alive' = alive \ {gen} /\ crashes' = crashes + 1
  /\ CutServed
  /\ UNCHANGED <<state, gen, failed, taskVars, watched, drain, op, downing>>

\* _wait_process: a generation that was ready has exited; a start is left to
\* its own task, and a stop to the task that stops.
Notices ==
  /\ watched /\ gen \notin alive
  /\ watched' = FALSE
  /\ failed' = (failed \/ state \in {"ready", "starting"})
  /\ state' = IF state = "ready" THEN "exited" ELSE state
  /\ UNCHANGED <<gen, taskVars, alive, crashes, drain, clientVars>>

\* The shutdown request is sent and the exit waited for.
Asks ==
  /\ stopTask = "ask" /\ stopTask' = "wait"
  /\ UNCHANGED <<state, gen, failed, startTask, procVars, drain, clientVars>>

\* It exits or is killed, and that is proved before the state says so.
Stops ==
  /\ stopTask = "wait"
  /\ alive' = alive \ {gen} /\ watched' = FALSE
  /\ stopTask' = "over" /\ state' = "exited"
  /\ CutServed
  /\ UNCHANGED <<gen, failed, startTask, crashes, drain, op, downing>>

Generation == Spawn \/ Passes \/ BecomesReady \/ StartFails \/ Notices \/ Asks \/ Stops

-----------------------------------------------------------------------------
(* Relay demand.                                                            *)

Outcomes == InStart \cup InStop \cup {"refused", "ready", "failed", "starts", "stops", "stopped"}

\* A demand that finds the generation ready is served by it.
Demanded(d, x) == DemandAt(d, IF x = "ready" THEN "served" ELSE x)

Demand(d) ==
  /\ demand[d] \in {"new", "starts"}
  /\ \E x \in Outcomes : Starting(x) /\ Demanded(d, x)

DemandWaited(d) == \E x \in Outcomes : Started(demand[d], x) /\ Demanded(d, x)

\* The response is through, or the process, gone unnoticed, cannot be reached.
Served(d) ==
  /\ demand[d] = "served"
  /\ DemandAt(d, IF gen \in alive THEN "done" ELSE "cut")
  /\ UNCHANGED <<state, gen, failed, taskVars, procVars, drain>>

-----------------------------------------------------------------------------
(* The Operator's actions (_lifecycle_managed_http_action).                 *)

live == state \in {"ready", "starting"}

\* An action names no generation (0), or the one that is owned; when the state
\* is exited any will do.
Named(e) == e = 0 \/ e = gen \/ state = "exited"

Operate(o, a, e) ==
  /\ op[o].at = "new" /\ Unlocked
  /\ IF ~Named(e)
     THEN op' = [op EXCEPT ![o] = [do |-> a, of |-> e, at |-> "error"]] /\ UNCHANGED drain
     ELSE /\ op' = [op EXCEPT ![o] = [do |-> a, of |-> gen, at |->
               CASE a = "drain" /\ live -> "drains"
                 [] a # "drain" /\ live -> "stops"
                 [] a = "restart" /\ ~live -> "starts"
                 [] OTHER -> "ok"]]
          /\ drain' = (a = "drain" \/ (a = "stop" /\ drain))
  /\ UNCHANGED <<state, gen, failed, taskVars, procVars, demand, downing>>

\* stop_when_drained: requests in flight finish, or the grace is over.
Drained(o) ==
  /\ op[o].at = "drains"
  /\ inflight = {} \/ "graceEnds" \in Habits
  /\ OpAt(o, "stops")
  /\ UNCHANGED <<state, gen, failed, taskVars, procVars, drain>>

AfterStop(o, x) ==
  OpAt(o, IF x # "stopped" THEN x ELSE IF op[o].do = "restart" THEN "starts" ELSE "ok")
AfterStart(o, x) ==
  OpAt(o, CASE x = "ready" -> "ok" [] x \in {"failed", "refused"} -> "error" [] OTHER -> x)

OpStops(o) == op[o].at = "stops" /\ \E x \in Outcomes : Stopping(x) /\ AfterStop(o, x)
OpStopped(o) == \E x \in Outcomes : Stopped(op[o].at, x) /\ AfterStop(o, x)
OpStarts(o) == op[o].at = "starts" /\ \E x \in Outcomes : Starting(x) /\ AfterStart(o, x)
OpStarted(o) == \E x \in Outcomes : Started(op[o].at, x) /\ AfterStart(o, x)

-----------------------------------------------------------------------------
(* The link is lost, once: relay tasks are cancelled, the backend is stopped. *)

LinkLost ==
  /\ "linkLost" \in Habits /\ downing = "no"
  /\ downing' = "stops"
  /\ demand' = [d \in Demands |->
       IF demand[d] \in InStart \cup {"starts", "served"} THEN "cut" ELSE demand[d]]
  /\ UNCHANGED <<state, gen, failed, taskVars, procVars, drain, op>>

Down(x) == DowningAt(IF x = "stopped" THEN "over" ELSE x)
NodeStops == downing = "stops" /\ \E x \in Outcomes : Stopping(x) /\ Down(x)
NodeStopped == \E x \in Outcomes : Stopped(downing, x) /\ Down(x)

-----------------------------------------------------------------------------
Next ==
  \/ Generation \/ Exits \/ LinkLost \/ NodeStops \/ NodeStopped
  \/ \E d \in Demands : Demand(d) \/ DemandWaited(d) \/ Served(d)
  \/ \E o \in Ops :
       \/ \E a \in Actions, e \in 0..MaxGen : Operate(o, a, e)
       \/ Drained(o) \/ OpStops(o) \/ OpStopped(o) \/ OpStarts(o) \/ OpStarted(o)

Spec == Init /\ [][Next]_vars

\* Tasks that can go on do; a process answers or its startup window ends; a
\* request that is served ends.  Nothing obliges clients or Operators to ask.
Fairness ==
  /\ WF_vars(Generation) /\ WF_vars(NodeStops) /\ WF_vars(NodeStopped)
  /\ \A d \in Demands :
       /\ WF_vars(demand[d] = "starts" /\ Demand(d))
       /\ WF_vars(DemandWaited(d)) /\ WF_vars(Served(d))
  /\ \A o \in Ops : WF_vars(Drained(o) \/ OpStops(o) \/ OpStopped(o) \/ OpStarts(o) \/ OpStarted(o))

FairSpec == Spec /\ Fairness

-----------------------------------------------------------------------------
(* Properties.                                                              *)

\* There are never two live generations at once, and none lives that the
\* state machine takes for gone: what exited or failed has been proved to end.
OneGeneration ==
  /\ alive \subseteq {gen}
  /\ state \in {"exited", "failed"} => alive = {}

\* Every demand and every confirmed action comes to an end: nobody waits for a
\* task that is over, for a lock or for an exit that was noted by no one.
WaitsEnd ==
  /\ \A d \in Demands : demand[d] \in InStart \cup {"starts"} ~> demand[d] \notin InStart \cup {"starts"}
  /\ \A o \in Ops : op[o].at \notin {"new", "ok", "error"} ~> op[o].at \in {"ok", "error"}

\* A stop or a restart that is reported as applied has ended the generation it
\* was asked of; a restart has begun a newer one.
AppliedMeansGone ==
  \A o \in Ops : op[o].at = "ok" /\ op[o].do \in {"stop", "restart"} =>
    /\ op[o].of \notin alive
    /\ op[o].do = "restart" => gen > op[o].of

\* relayAvailable "is true exactly when that ready generation is live behind
\* the stable relay mount": a generation that is ready lives, or its exit is
\* about to be noticed.
ReadyMeansLive == state = "ready" => gen \in alive \/ watched

\* A drain that is within its grace cuts no request that is being served.
DrainLetsFinish ==
  [][Stops /\ (\E o \in Ops : op[o].do = "drain" /\ op[o].at \in InStop) => inflight = {}]_vars
=============================================================================
