---------------------------- MODULE SharedBackend ----------------------------
(***************************************************************************)
(* SharedBackend (bridge_runtime.py): one physical MCP process at a time,  *)
(* shared by the logical streams of one registration.  Modelled: the life  *)
(* cycle of its generations and everything that drives it (attach, detach, *)
(* crash, recovery, protocol failure, the Operator's drain, restart and    *)
(* stop), and of the requests the part the life cycle decides about.       *)
(* Registrations without clientLease, clients of the legacy era, at most   *)
(* one outstanding request per client.                                     *)
(* An action is what a task does between two awaits that really yield.     *)
(***************************************************************************)
EXTENDS Naturals, FiniteSets

CONSTANTS
  Clients,       \* logical streams that ask for this registration
  MaxGen,        \* bound: generations
  MaxAttempts,   \* SHARED_BACKEND_RECOVERY_MAX_ATTEMPTS
  MaxAsks,       \* bound: requests of the clients together
  MaxCrashes,    \* bound: processes that exit unasked
  MaxTrouble,    \* bound: exits, Operator actions and rare events together
  MaxRestarts,   \* bound: further restarts while a crash is recovered from
  Concurrency,   \* registrations considered, see AllConcurrency
  Operator,      \* Operator actions considered, see AllOperator
  Faults         \* rare events considered, see AllFaults

AllConcurrency == {"many-to-one", "one-to-one"}
AllOperator == {"drain", "restart", "stop"}

\* "brokenPipe": a write notices the exit before _wait_process does.
\* "garbage": the process writes something that is no JSON-RPC message.
\* "sendRaises": a send to a client fails with an error other than BridgeError
\* (its acknowledgement times out, the link's drain raises).
\* "stubborn": a cancelled request is not settled within five seconds.
AllFaults == {"brokenPipe", "garbage", "sendRaises", "stubborn"}

ASSUME ConstantsAssumption ==
  /\ MaxGen \in Nat \ {0} /\ MaxAttempts \in Nat \ {0}
  /\ MaxAsks \in Nat /\ MaxCrashes \in Nat
  /\ MaxTrouble \in Nat /\ MaxRestarts \in Nat
  /\ "operator" \notin Clients
  /\ Concurrency \subseteq AllConcurrency
  /\ Operator \subseteq AllOperator
  /\ Faults \subseteq AllFaults

Gens == 1..MaxGen

VARIABLES
  concurrency, \* process.concurrency of the registration
  state,       \* SharedBackend.state
  generation,  \* SharedBackend.generation
  alive,       \* generations whose process lives
  answered,    \* the answer to the active request is in the pipe of a process that exited
  start,       \* start[g]: the task _start_generation(g)
  stopper,     \* stopper[g]: the task _stop_generation(g)
  sick,        \* sick[g]: a protocol task failed and _stop_failed_generation is due
  wait,        \* wait[g]: the task _wait_process(g)
  nested,      \* generations whose wait task found another one recovering
  repl,        \* repl[g]: the replacement the wait task of g awaits
  recTask,     \* SharedBackend.recovery_task: whose wait task it is, 0 for None
  failures,    \* SharedBackend.recovery_failures
  gate,        \* restart_ready (the negation of restart_in_progress)
  template,    \* SharedBackend.initialize_template
  initPending, \* SharedBackend.initialize_pending
  binit,       \* the Bridge's own initialize of a replacement
  drain,       \* an armed drain
  clients,     \* SharedBackend.clients
  stream,      \* stream[c]: its StreamState in node.streams
  att,         \* att[c]: its attach call
  attGen,      \* attGen[c]: the generation whose future that call awaits
  det,         \* det[c]: its detach call
  ses,         \* ses[c]: the MCP session of the client
  req,         \* req[c]: its outstanding request
  stopCall,    \* stopCall[s]: the call of stop() by s
  stopGen,     \* stopGen[s]: the generation whose future that call awaits
  op,          \* the Operator's lifecycle operation that is running
  opGen,       \* the generation it replaces or starts
  opTodo,      \* clients it still has to close
  opCur,       \* clients it is closing
  halted,      \* an explicit stop completed and nothing was asked since (history)
  asks, crashes, trouble  \* counters for the bounds

genVars == <<state, generation, start, stopper>>
procVars == <<alive, answered>>
waitVars == <<wait, nested, repl, recTask, failures>>
sessionVars == <<template, initPending, binit, ses, req>>
clientVars == <<clients, stream, att, attGen, det>>
callVars == <<stopCall, stopGen>>
opVars == <<op, opGen, opTodo, opCur, halted>>
bounds == <<asks, crashes, trouble>>
vars == <<concurrency, genVars, procVars, sick, waitVars, gate, sessionVars, drain,
          clientVars, callVars, opVars, bounds>>

Callers == Clients \cup {"operator"}

\* Type correctness: every task, call and request is in one of its states, and the
\* recovery budget is never exceeded.
TypeOK ==
  /\ concurrency \in Concurrency
  /\ state \in {"exited", "starting", "running", "stopping"}
  /\ generation \in 0..MaxGen
  /\ alive \subseteq Gens /\ answered \in BOOLEAN
  /\ start \in [Gens -> {"off", "demand", "replace", "init", "ok", "failed"}]
  /\ stopper \in [Gens -> {"off", "run", "done"}]
  /\ sick \in [Gens -> {"no", "due", "over"}]
  /\ wait \in [Gens -> {"off", "wait", "reap", "tell", "backoff", "await", "undo",
                        "announce", "close", "done", "dead"}]
  /\ nested \subseteq Gens
  /\ repl \in [Gens -> 0..MaxGen]
  /\ recTask \in 0..MaxGen
  /\ failures \in 0..MaxAttempts
  /\ gate \in BOOLEAN
  /\ template \in {"none", "ok", "error"}
  /\ initPending \in BOOLEAN
  /\ binit \in {"no", "queued", "active"}
  /\ drain \in BOOLEAN
  /\ clients \subseteq Clients
  /\ stream \in [Clients -> {"none", "open", "closed"}]
  /\ att \in [Clients -> {"off", "try", "gate", "start", "stop", "done", "refused"}]
  /\ attGen \in [Clients -> 0..MaxGen]
  /\ det \in [Clients -> {"off", "cancel", "stop", "done"}]
  /\ ses \in [Clients -> {"new", "init", "ready"}]
  /\ req \in [Clients -> {"none", "held", "event", "queued", "active", "lost"}]
  /\ stopCall \in [Callers -> {"off", "start", "stop", "ended", "raised"}]
  /\ stopGen \in [Callers -> 0..MaxGen]
  /\ op \in {"off", "closing", "stopping", "restart", "replacing", "announcing"}
  /\ opGen \in 0..MaxGen
  /\ opTodo \subseteq Clients
  /\ opCur \subseteq Clients
  /\ halted \in BOOLEAN
  /\ asks \in 0..MaxAsks
  /\ crashes \in 0..MaxCrashes
  /\ trouble \in 0..(MaxTrouble + MaxRestarts)

Init ==
  /\ concurrency \in Concurrency
  /\ state = "exited" /\ generation = 0 /\ alive = {} /\ answered = FALSE
  /\ start = [g \in Gens |-> "off"]
  /\ stopper = [g \in Gens |-> "off"]
  /\ sick = [g \in Gens |-> "no"]
  /\ wait = [g \in Gens |-> "off"]
  /\ nested = {} /\ repl = [g \in Gens |-> 0] /\ recTask = 0 /\ failures = 0
  /\ gate = TRUE
  /\ template = "none" /\ initPending = FALSE /\ binit = "no"
  /\ drain = FALSE
  /\ clients = {}
  /\ stream = [c \in Clients |-> "none"]
  /\ att = [c \in Clients |-> "off"]
  /\ attGen = [c \in Clients |-> 0]
  /\ det = [c \in Clients |-> "off"]
  /\ ses = [c \in Clients |-> "new"]
  /\ req = [c \in Clients |-> "none"]
  /\ stopCall = [s \in Callers |-> "off"]
  /\ stopGen = [s \in Callers |-> 0]
  /\ op = "off" /\ opGen = 0 /\ opTodo = {} /\ opCur = {} /\ halted = FALSE
  /\ asks = 0 /\ crashes = 0 /\ trouble = 0

-----------------------------------------------------------------------------
(* Pieces several tasks share.                                              *)

\* The next generation starts, on demand or as a replacement that keeps the
\* attached clients.
StartGeneration(how) ==
  /\ state = "exited" /\ generation < MaxGen
  /\ generation' = generation + 1
  /\ state' = "starting"
  /\ start' = [start EXCEPT ![generation + 1] = how]
  /\ UNCHANGED stopper

\* running -> stopping with a task _stop_generation.
BeginStop ==
  /\ state' = "stopping"
  /\ stopper' = [stopper EXCEPT ![generation] = "run"]
  /\ UNCHANGED <<generation, start>>

WaitOver(g) == wait[g] \in {"done", "dead"}

\* Faulty variant: no wait task is ever the nested one.
NobodyRecovers == FALSE

\* A wait task is between its crash and the end of its recovery.
SomebodyRecovers == recTask # 0 /\ ~WaitOver(recTask)

\* stop_future of a generation that is or was stopping: _stop_generation, or
\* the wait task that reaps a crash (and then recovers).
StopDone(g) == IF stopper[g] = "off" THEN WaitOver(g) ELSE stopper[g] = "done"

\* The wait task ended with an exception that its awaiters see.
StopRaises(g) == stopper[g] = "off" /\ wait[g] = "dead"

\* One round of stop() by s, up to the future it waits for.
CallsStop(s) ==
  /\ stopCall' = [stopCall EXCEPT ![s] = CASE state = "exited" -> "ended"
                                           [] state = "starting" -> "start"
                                           [] OTHER -> "stop"]
  /\ stopGen' = [stopGen EXCEPT ![s] = IF state = "exited" THEN 0 ELSE generation]
  /\ IF state = "running" THEN BeginStop ELSE UNCHANGED genVars

Idle == binit # "active" /\ \A c \in Clients : req[c] # "active"

\* A process ends; it may have answered what it was working on.
Exits(g) ==
  /\ alive' = alive \ {g}
  /\ answered' \in {FALSE, ~Idle}

\* One more of the bounded events.
Trouble == trouble < MaxTrouble /\ trouble' = trouble + 1

Pending(c) == req[c] \in {"queued", "active"}

\* _fail_all_pending: requests are forgotten, not answered; waiters for the
\* initialization get an error from the template.
FailAllPending(attached) ==
  /\ req' = [c \in Clients |->
               IF Pending(c) /\ c \in attached THEN "lost"
               ELSE IF Pending(c) \/ req[c] = "event" THEN "none"
               ELSE req[c]]
  /\ ses' = [c \in Clients |-> IF req[c] = "event" THEN "ready" ELSE ses[c]]
  /\ template' = IF initPending /\ template = "none" THEN "error" ELSE template
  /\ initPending' = (initPending /\ template # "none")
  /\ binit' = "no"
  /\ answered' = FALSE

-----------------------------------------------------------------------------
(* The process and _start_generation.                                       *)

\* The process is there: every table of the previous generation is cleared
\* and the tasks of this one start.
Spawned(g) ==
  /\ g = generation /\ start[g] \in {"demand", "replace"}
  /\ alive' = alive \cup {g} /\ answered' = FALSE
  /\ state' = "running"
  /\ wait' = [wait EXCEPT ![g] = "wait"]
  /\ start' = [start EXCEPT ![g] = IF @ = "replace" THEN "init" ELSE "ok"]
  /\ binit' = IF start[g] = "replace" THEN "queued" ELSE "no"
  /\ initPending' = (start[g] = "replace")
  /\ template' = "none"
  /\ req' = [c \in Clients |->
               IF req[c] \in {"queued", "active", "event"} THEN "lost" ELSE req[c]]
  /\ UNCHANGED <<concurrency, generation, stopper, sick, nested, repl, recTask, failures,
                 gate, ses, drain, clientVars, callVars, opVars, bounds>>

SpawnFails(g) ==
  /\ g = generation /\ start[g] \in {"demand", "replace"}
  /\ start' = [start EXCEPT ![g] = "failed"]
  /\ state' = "exited"
  /\ UNCHANGED <<concurrency, generation, stopper, procVars, sick, waitVars, gate,
                 sessionVars, drain, clientVars, callVars, opVars, bounds>>

\* _initialize_replacement_generation ends.  It fails on an error response,
\* after ten seconds, and when the generation left "running" meanwhile.
InitSucceeds(g) ==
  /\ start[g] = "init" /\ binit = "no" /\ template = "ok" /\ state = "running"
  /\ start' = [start EXCEPT ![g] = "ok"]
  /\ UNCHANGED <<concurrency, state, generation, stopper, procVars, sick, waitVars, gate,
                 sessionVars, drain, clientVars, callVars, opVars, bounds>>

InitFails(g) ==
  /\ start[g] = "init"
  /\ start' = [start EXCEPT ![g] = "failed"]
  /\ UNCHANGED <<concurrency, state, generation, stopper, procVars, sick, waitVars, gate,
                 sessionVars, drain, clientVars, callVars, opVars, bounds>>

\* The process exits unasked.
Crash ==
  /\ crashes < MaxCrashes /\ generation \in alive /\ state = "running"
  /\ Exits(generation)
  /\ crashes' = crashes + 1 /\ Trouble
  /\ UNCHANGED <<concurrency, genVars, sick, waitVars, gate, sessionVars, drain,
                 clientVars, callVars, opVars, asks>>

WorkerRuns == state = "running" /\ sick[generation] = "no"

Queued == binit = "queued" \/ \E c \in Clients : req[c] = "queued"

\* A protocol task fails while its generation runs: the reader of stdout, or
\* the worker that writes the next request.
TaskFails ==
  /\ WorkerRuns
  /\ \/ "garbage" \in Faults /\ generation \in alive
     \/ "brokenPipe" \in Faults /\ generation \notin alive /\ Idle /\ Queued
  /\ sick' = [sick EXCEPT ![generation] = "due"]
  /\ Trouble
  /\ UNCHANGED <<concurrency, genVars, procVars, waitVars, gate, sessionVars, drain,
                 clientVars, callVars, opVars, asks, crashes>>

\* _stop_failed_generation, scheduled by _generation_task_done.
StopFailed(g) ==
  /\ sick[g] = "due"
  /\ sick' = [sick EXCEPT ![g] = "over"]
  /\ IF g = generation /\ state = "running" THEN BeginStop ELSE UNCHANGED genVars
  /\ UNCHANGED <<concurrency, procVars, waitVars, gate, sessionVars, drain, clientVars,
                 callVars, opVars, bounds>>

-----------------------------------------------------------------------------
(* _stop_generation.                                                        *)

\* stdin closes; the process exits, is terminated or killed.
StopEndsProcess(g) ==
  /\ stopper[g] = "run" /\ g \in alive
  /\ Exits(g)
  /\ UNCHANGED <<concurrency, genVars, sick, waitVars, gate, sessionVars, drain,
                 clientVars, callVars, opVars, bounds>>

\* Faulty variant: the generation is given up before its process ended.
StopFinishesEarly(g) ==
  /\ stopper[g] = "run"
  /\ stopper' = [stopper EXCEPT ![g] = "done"]
  /\ state' = "exited"
  /\ wait' = [wait EXCEPT ![g] = "done"]
  /\ FailAllPending(clients)
  /\ UNCHANGED <<concurrency, generation, start, alive, sick, nested, repl, recTask,
                 failures, gate, drain, clientVars, callVars, opVars, bounds>>

\* After its exit: cancel the tasks (the wait task too), forget the requests.
StopFinishes(g) ==
  /\ stopper[g] = "run" /\ g \notin alive
  /\ stopper' = [stopper EXCEPT ![g] = "done"]
  /\ state' = "exited"
  /\ wait' = [wait EXCEPT ![g] = "done"]
  /\ FailAllPending(clients)
  /\ UNCHANGED <<concurrency, generation, start, alive, sick, nested, repl, recTask,
                 failures, gate, drain, clientVars, callVars, opVars, bounds>>

-----------------------------------------------------------------------------
(* _wait_process: reap a crash, answer the pending calls, recover.          *)

\* The process is gone.  When somebody stops the generation that is all.
WaitWakes(g) ==
  /\ wait[g] = "wait" /\ g \notin alive
  /\ IF state = "running" /\ generation = g
     THEN /\ state' = "stopping" /\ gate' = FALSE
          /\ wait' = [wait EXCEPT ![g] = "reap"]
          /\ recTask' = IF SomebodyRecovers THEN recTask ELSE g
          /\ nested' = IF SomebodyRecovers THEN nested \cup {g} ELSE nested
     ELSE /\ wait' = [wait EXCEPT ![g] = "done"]
          /\ UNCHANGED <<state, gate, nested, recTask>>
  /\ UNCHANGED <<concurrency, generation, start, stopper, procVars, sick, repl, failures,
                 sessionVars, drain, clientVars, callVars, opVars, bounds>>

\* The rest of the process tree and the readers of its pipes are done.
WaitReaped(g) ==
  /\ wait[g] = "reap"
  /\ wait' = [wait EXCEPT ![g] = "tell"]
  /\ UNCHANGED <<concurrency, genVars, procVars, sick, nested, repl, recTask, failures, gate,
                 sessionVars, drain, clientVars, callVars, opVars, bounds>>

\* Faulty variant: the calls that were never dispatched get no error.
ToldActive(c) == c \in clients /\ req[c] = "active" /\ ses[c] = "ready"

\* A client with a call that was pending when the process exited.
ToldLost(c) == c \in clients /\ Pending(c) /\ ses[c] = "ready"

\* _send_backend_lost_error to one client with a pending call; an error other
\* than BridgeError ends the wait task.
WaitTells(g, c) ==
  /\ wait[g] = "tell" /\ ToldLost(c)
  /\ \/ req' = [req EXCEPT ![c] = "none"] /\ UNCHANGED <<wait, trouble>>
     \/ /\ "sendRaises" \in Faults /\ Trouble
        /\ wait' = [wait EXCEPT ![g] = "dead"] /\ UNCHANGED req
  /\ UNCHANGED <<concurrency, genVars, procVars, sick, nested, repl, recTask, failures, gate,
                 template, initPending, binit, ses, drain, clientVars, callVars, opVars,
                 asks, crashes>>

\* Clients whose initialize never completed: their streams are closed.
Incomplete == {c \in clients : Pending(c) /\ ses[c] = "init"}

CloseStreams(gone) ==
  /\ clients' = clients \ gone
  /\ stream' = [c \in Clients |-> IF c \in gone THEN "closed" ELSE stream[c]]

\* All pending calls are answered: forget them and leave "stopping".  A nested
\* wait task leaves the rest to the one that recovers.  An uptime of thirty
\* seconds gives a fresh retry budget.
WaitFails(g) ==
  /\ wait[g] = "tell" /\ \A c \in Clients : ~ToldLost(c)
  /\ CloseStreams(Incomplete)
  /\ FailAllPending(clients \ Incomplete)
  /\ state' = "exited"
  /\ wait' = [wait EXCEPT ![g] =
                IF g \in nested THEN "done"
                ELSE IF clients \ Incomplete # {} /\ template # "none" THEN "backoff"
                ELSE "close"]
  /\ failures' \in {0, failures}
  /\ UNCHANGED <<concurrency, generation, start, stopper, alive, sick, nested, repl,
                 recTask, gate, drain, att, attGen, det, callVars, opVars, bounds>>

\* No recovery, or it failed: close every stream and open the gate.
WaitCloses(g) ==
  /\ wait[g] = "close"
  /\ CloseStreams(clients)
  /\ req' = [c \in Clients |-> IF c \in clients THEN "none" ELSE req[c]]
  /\ wait' = [wait EXCEPT ![g] = "done"]
  /\ gate' = TRUE /\ recTask' = 0
  /\ UNCHANGED <<concurrency, genVars, procVars, sick, nested, repl, failures, template,
                 initPending, binit, ses, drain, att, attGen, det, callVars, opVars,
                 bounds>>

\* Faulty variants: an armed drain, or the retry budget, is not looked at.
RecoveryOffUndrained == clients = {} \/ gate \/ failures = MaxAttempts

RecoveryOffUncapped == clients = {} \/ drain \/ gate

\* A detach, a drain or an explicit stop wins, and retries are bounded.
RecoveryOff == clients = {} \/ drain \/ gate \/ failures = MaxAttempts

\* _recover_after_exit: before and after the back-off it looks whether there
\* still is anything to recover.
RecoverGivesUp(g) ==
  /\ wait[g] = "backoff" /\ RecoveryOff
  /\ wait' = [wait EXCEPT ![g] = "close"]
  /\ UNCHANGED <<concurrency, genVars, procVars, sick, nested, repl, recTask, failures, gate,
                 sessionVars, drain, clientVars, callVars, opVars, bounds>>

\* Somebody else started a generation meanwhile, as an Operator's restart that ends
\* opens the gate on a recovery that still backs off: the recovery leaves it to a
\* generation that runs, and gives up otherwise.  The attempt is counted.
RecoverFinds(g) ==
  /\ wait[g] = "backoff" /\ ~RecoveryOff /\ state # "exited"
  /\ failures' = failures + 1
  /\ wait' = [wait EXCEPT ![g] = IF state = "running" THEN "done" ELSE "close"]
  /\ recTask' = IF state = "running" THEN 0 ELSE recTask
  /\ UNCHANGED <<concurrency, genVars, procVars, sick, nested, repl, gate, sessionVars, drain,
                 clientVars, callVars, opVars, bounds>>

RecoverStarts(g) ==
  /\ wait[g] = "backoff" /\ ~RecoveryOff
  /\ StartGeneration("replace")
  /\ failures' = failures + 1
  /\ repl' = [repl EXCEPT ![g] = generation + 1]
  /\ wait' = [wait EXCEPT ![g] = "await"]
  /\ UNCHANGED <<concurrency, procVars, sick, nested, recTask, gate, sessionVars, drain,
                 clientVars, callVars, opVars, bounds>>

\* The replacement failed: stop it if it still runs, then try again.
RecoverFails(g) ==
  /\ wait[g] = "await" /\ start[repl[g]] = "failed"
  /\ wait' = [wait EXCEPT ![g] = "undo"]
  /\ IF repl[g] = generation /\ state = "running" THEN BeginStop ELSE UNCHANGED genVars
  /\ UNCHANGED <<concurrency, procVars, sick, nested, repl, recTask, failures, gate,
                 sessionVars, drain, clientVars, callVars, opVars, bounds>>

RecoverRetries(g) ==
  /\ wait[g] = "undo"
  /\ state = "stopping" => StopDone(generation)
  /\ wait' = [wait EXCEPT ![g] = "backoff"]
  /\ UNCHANGED <<concurrency, genVars, procVars, sick, nested, repl, recTask, failures, gate,
                 sessionVars, drain, clientVars, callVars, opVars, bounds>>

\* The replacement runs: tell every initialized client that the tools changed
\* (each message is acknowledged), then open the gate.
RecoverAnnounces(g) ==
  /\ wait[g] = "await" /\ start[repl[g]] = "ok"
  /\ wait' = [wait EXCEPT ![g] = "announce"]
  /\ UNCHANGED <<concurrency, genVars, procVars, sick, nested, repl, recTask, failures, gate,
                 sessionVars, drain, clientVars, callVars, opVars, bounds>>

\* Faulty variant: the gate stays shut.
RecoverEndsShut(g) ==
  /\ wait[g] = "announce"
  /\ wait' = [wait EXCEPT ![g] = "done"]
  /\ recTask' = 0
  /\ UNCHANGED <<concurrency, genVars, procVars, sick, nested, repl, failures, gate,
                 sessionVars, drain, clientVars, callVars, opVars, bounds>>

RecoverEnds(g) ==
  /\ wait[g] = "announce"
  /\ wait' = [wait EXCEPT ![g] = "done"]
  /\ gate' = TRUE /\ recTask' = 0
  /\ UNCHANGED <<concurrency, genVars, procVars, sick, nested, repl, failures, sessionVars,
                 drain, clientVars, callVars, opVars, bounds>>

-----------------------------------------------------------------------------
(* Clients: attach (from _handle_remote_open).                              *)

Open(c) ==
  /\ stream[c] = "none"
  /\ stream' = [stream EXCEPT ![c] = "open"]
  /\ att' = [att EXCEPT ![c] = "try"]
  /\ halted' = FALSE
  /\ UNCHANGED <<concurrency, genVars, procVars, sick, waitVars, gate, sessionVars, drain,
                 clients, attGen, det, callVars, op, opGen, opTodo, opCur, bounds>>

\* Faulty variant: what changed while the call waited is not looked at.
RefusedDrained(c) == c \in Clients /\ drain

Refused(c) ==
  \/ drain
  \/ stream[c] = "closed"
  \/ concurrency = "one-to-one" /\ clients # {}

\* The stream leaves the table, the opener gets open_error.
Refuse(c) ==
  /\ att' = [att EXCEPT ![c] = "refused"]
  /\ stream' = [stream EXCEPT ![c] = "closed"]
  /\ attGen' = [attGen EXCEPT ![c] = 0]
  /\ UNCHANGED <<genVars, failures, clients>>

AttachRefused(c) ==
  /\ att[c] = "try" /\ Refused(c)
  /\ Refuse(c)
  /\ UNCHANGED <<concurrency, procVars, sick, wait, nested, repl, recTask, gate, sessionVars,
                 drain, det, callVars, opVars, bounds>>

\* One round of the loop, under the lifecycle lock: join the running
\* generation, wait for one that starts or stops, or start the next one.
Attach(c) ==
  IF ~gate
  THEN /\ att' = [att EXCEPT ![c] = "gate"]
       /\ UNCHANGED <<genVars, failures, clients, attGen>>
  ELSE IF state = "exited"
  THEN /\ StartGeneration("demand")
       /\ failures' = 0
       /\ att' = [att EXCEPT ![c] = "start"]
       /\ attGen' = [attGen EXCEPT ![c] = generation + 1]
       /\ UNCHANGED clients
  ELSE /\ clients' = IF state = "running" THEN clients \cup {c} ELSE clients
       /\ att' = [att EXCEPT ![c] = IF state = "running" THEN "done"
                                    ELSE IF state = "starting" THEN "start"
                                    ELSE "stop"]
       /\ attGen' = [attGen EXCEPT ![c] = IF state = "running" THEN 0 ELSE generation]
       /\ UNCHANGED <<genVars, failures>>

AttachTries(c) ==
  /\ att[c] = "try" /\ ~Refused(c)
  /\ Attach(c)
  /\ UNCHANGED <<concurrency, procVars, sick, wait, nested, repl, recTask, gate, sessionVars,
                 drain, stream, det, callVars, opVars, bounds>>

\* What the call waited for happened: another round, unless it failed.
AttachWakes(c) ==
  /\ \/ att[c] = "gate" /\ gate
     \/ att[c] = "start" /\ start[attGen[c]] \in {"ok", "failed"}
     \/ att[c] = "stop" /\ StopDone(attGen[c])
  /\ IF \/ att[c] = "start" /\ start[attGen[c]] = "failed"
        \/ att[c] = "stop" /\ StopRaises(attGen[c])
     THEN Refuse(c)
     ELSE /\ att' = [att EXCEPT ![c] = "try"]
          /\ attGen' = [attGen EXCEPT ![c] = 0]
          /\ UNCHANGED <<genVars, failures, clients, stream>>
  /\ UNCHANGED <<concurrency, procVars, sick, wait, nested, repl, recTask, gate, sessionVars,
                 drain, det, callVars, opVars, bounds>>

-----------------------------------------------------------------------------
(* Clients: requests.                                                       *)

\* A line of the client arrived; the consumer acknowledges it.
Ask(c) ==
  /\ c \in clients /\ req[c] = "none" /\ asks < MaxAsks
  /\ req' = [req EXCEPT ![c] = "held"]
  /\ asks' = asks + 1
  /\ halted' = FALSE
  /\ UNCHANGED <<concurrency, genVars, procVars, sick, waitVars, gate, template, initPending,
                 binit, ses, drain, clientVars, callVars, op, opGen, opTodo, opCur,
                 crashes, trouble>>

\* consume_client_input passes the gate and routes the line.  The first one is
\* initialize: it is answered from the template, waits for the initialize
\* that is pending, or becomes that initialize.  A call is queued.
Route(c) ==
  /\ req[c] = "held" /\ c \in clients /\ gate
  /\ IF ses[c] = "new"
     THEN IF template # "none"
          THEN /\ req' = [req EXCEPT ![c] = "none"]
               /\ ses' = [ses EXCEPT ![c] = "ready"]
               /\ UNCHANGED initPending
          ELSE /\ req' = [req EXCEPT ![c] = IF initPending THEN "event" ELSE "queued"]
               /\ ses' = [ses EXCEPT ![c] = "init"]
               /\ initPending' = TRUE
     ELSE /\ req' = [req EXCEPT ![c] = "queued"]
          /\ UNCHANGED <<ses, initPending>>
  /\ UNCHANGED <<concurrency, genVars, procVars, sick, waitVars, gate, template, binit, drain,
                 clientVars, callVars, opVars, bounds>>

\* _request_worker: one request at a time, the Bridge's own ones first.
Dispatch ==
  /\ WorkerRuns /\ Idle
  /\ IF binit = "queued"
     THEN binit' = "active" /\ UNCHANGED req
     ELSE /\ \E c \in Clients : req[c] = "queued" /\ req' = [req EXCEPT ![c] = "active"]
          /\ UNCHANGED binit
  /\ UNCHANGED <<concurrency, genVars, procVars, sick, waitVars, gate, template, initPending,
                 ses, drain, clientVars, callVars, opVars, bounds>>

\* The reader of stdout works until the generation is reaped.
ReaderRuns ==
  /\ generation > 0 /\ sick[generation] = "no"
  /\ generation \in alive \/ answered
  /\ state = "running" \/ stopper[generation] = "run" \/ wait[generation] = "reap"

\* The process answers the Bridge's own initialize.
AnswerBridge ==
  /\ ReaderRuns /\ binit = "active"
  /\ answered' = FALSE
  /\ binit' = "no" /\ initPending' = FALSE
  /\ template' \in {"ok", "error"}
  /\ UNCHANGED <<concurrency, genVars, alive, sick, waitVars, gate, ses, req, drain,
                 clientVars, callVars, opVars, bounds>>

\* The process answers a client's request.  The answer to initialize becomes
\* the template and releases the clients that wait for it.
AnswerClient(c) ==
  /\ ReaderRuns /\ req[c] = "active"
  /\ answered' = FALSE
  /\ IF ses[c] = "init"
     THEN /\ template' \in {"ok", "error"} /\ initPending' = FALSE
          /\ req' = [d \in Clients |-> IF d = c \/ req[d] = "event" THEN "none" ELSE req[d]]
          /\ ses' = [d \in Clients |-> IF d = c \/ req[d] = "event" THEN "ready" ELSE ses[d]]
     ELSE /\ req' = [req EXCEPT ![c] = "none"]
          /\ UNCHANGED <<template, initPending, ses>>
  /\ \/ UNCHANGED <<sick, trouble>>
     \/ /\ "sendRaises" \in Faults /\ c \in clients /\ state = "running"
        /\ Trouble
        /\ sick' = [sick EXCEPT ![generation] = "due"]
  /\ UNCHANGED <<concurrency, genVars, alive, waitVars, gate, binit, drain, clientVars,
                 callVars, opVars, asks, crashes>>

-----------------------------------------------------------------------------
(* Clients: _close_stream and detach.                                       *)

StopIfUnused(left) ==
  IF left = {} /\ state = "running" THEN BeginStop ELSE UNCHANGED genVars

\* The stream leaves the node's table and the client its backend.  A queued
\* call is withdrawn, a queued initialize stays for the others, an active
\* request is given five seconds.  While no generation runs the requests are
\* settled here.
Closes(c) ==
  /\ stream' = [stream EXCEPT ![c] = "closed"]
  /\ clients' = clients \ {c}
  /\ req' = [req EXCEPT ![c] =
               IF /\ state = "running"
                  /\ @ = "active" \/ (@ = "queued" /\ ses[c] = "init")
               THEN @ ELSE "none"]
  /\ IF c \notin clients
     THEN UNCHANGED <<det, genVars>>
     ELSE IF state = "running" /\ req[c] = "active"
     THEN det' = [det EXCEPT ![c] = "cancel"] /\ UNCHANGED genVars
     ELSE det' = [det EXCEPT ![c] = "done"] /\ StopIfUnused(clients \ {c})

\* The Agent left, the link was lost, or a send on the stream failed.
Close(c) ==
  /\ stream[c] = "open"
  /\ Closes(c)
  /\ UNCHANGED <<concurrency, procVars, sick, waitVars, gate, template, initPending, binit,
                 ses, drain, att, attGen, callVars, opVars, bounds>>

\* The active request was settled in time.
DetachSettles(c) ==
  /\ det[c] = "cancel" /\ req[c] # "active"
  /\ det' = [det EXCEPT ![c] = "done"]
  /\ StopIfUnused(clients)
  /\ UNCHANGED <<concurrency, procVars, sick, waitVars, gate, sessionVars, drain, clients,
                 stream, att, attGen, callVars, opVars, bounds>>

\* It was not: stop() the backend.
DetachTimesOut(c) ==
  /\ "stubborn" \in Faults /\ Trouble
  /\ det[c] = "cancel" /\ req[c] = "active"
  /\ det' = [det EXCEPT ![c] = "stop"]
  /\ CallsStop(c)
  /\ UNCHANGED <<concurrency, procVars, sick, waitVars, gate, sessionVars, drain,
                 clients, stream, att, attGen, opVars, asks, crashes>>

-----------------------------------------------------------------------------
(* stop(): a loop that ends when the state is "exited".                     *)

\* The future it waited for is done; an error of that task goes up.
StopWakes(s) ==
  /\ \/ stopCall[s] = "start" /\ start[stopGen[s]] \in {"ok", "failed"}
     \/ stopCall[s] = "stop" /\ StopDone(stopGen[s])
  /\ IF \/ stopCall[s] = "start" /\ start[stopGen[s]] = "failed"
        \/ stopCall[s] = "stop" /\ StopRaises(stopGen[s])
     THEN /\ stopCall' = [stopCall EXCEPT ![s] = "raised"]
          /\ stopGen' = [stopGen EXCEPT ![s] = 0]
          /\ UNCHANGED genVars
     ELSE CallsStop(s)
  /\ UNCHANGED <<concurrency, procVars, sick, waitVars, gate, sessionVars, drain, clientVars,
                 opVars, bounds>>

Stopped(s) == stopCall[s] \in {"ended", "raised"}

-----------------------------------------------------------------------------
(* The Operator: _lifecycle_drain, _lifecycle_stop, _lifecycle_restart, one  *)
(* at a time per registration.                                              *)

Begins(action) ==
  /\ action \in Operator /\ op = "off"
  /\ \/ trouble < MaxTrouble
     \/ action = "restart" /\ SomebodyRecovers /\ trouble < MaxTrouble + MaxRestarts
  /\ trouble' = trouble + 1

OpDrains ==
  /\ Begins("drain")
  /\ drain' = TRUE
  /\ UNCHANGED <<concurrency, genVars, procVars, sick, waitVars, gate, sessionVars,
                 clientVars, callVars, opVars, asks, crashes>>

\* stop clears a drain; without a live generation that is all it does.
OpStops ==
  /\ Begins("stop")
  /\ drain' = FALSE
  /\ IF state = "exited"
     THEN halted' = TRUE /\ UNCHANGED <<op, opTodo>>
     ELSE op' = "closing" /\ opTodo' = clients /\ UNCHANGED halted
  /\ UNCHANGED <<concurrency, genVars, procVars, sick, waitVars, gate, sessionVars,
                 clientVars, callVars, opGen, opCur, asks, crashes>>

OpIdle == \A c \in opCur : det[c] \in {"off", "done"}

\* _close_shared_clients closes the attached streams one after the other.
OpCloses(c) ==
  /\ op = "closing" /\ c \in opTodo /\ OpIdle
  /\ opTodo' = opTodo \ {c}
  /\ IF stream[c] = "open"
     THEN Closes(c) /\ opCur' = {c}
     ELSE UNCHANGED <<stream, clients, req, det, genVars, opCur>>
  /\ UNCHANGED <<concurrency, procVars, sick, waitVars, gate, template, initPending, binit,
                 ses, drain, att, attGen, callVars, op, opGen, halted, bounds>>

OpCallsStop ==
  /\ op = "closing" /\ opTodo = {} /\ OpIdle
  /\ op' = "stopping" /\ opCur' = {}
  /\ CallsStop("operator")
  /\ UNCHANGED <<concurrency, procVars, sick, waitVars, gate, sessionVars, drain, clientVars,
                 opGen, opTodo, halted, bounds>>

OpStopEnds ==
  /\ op = "stopping" /\ Stopped("operator")
  /\ op' = "off"
  /\ halted' = (stopCall["operator"] = "ended")
  /\ stopCall' = [stopCall EXCEPT !["operator"] = "off"]
  /\ UNCHANGED <<concurrency, genVars, procVars, sick, waitVars, gate, sessionVars, drain,
                 clientVars, stopGen, opGen, opTodo, opCur, bounds>>

\* restart clears a drain and replaces an idle, initialized generation.
OpRestarts ==
  /\ Begins("restart")
  /\ drain' = FALSE
  /\ IF /\ state # "exited" /\ gate /\ template # "none"
        /\ binit = "no" /\ \A c \in Clients : ~Pending(c)
     THEN /\ gate' = FALSE /\ op' = "restart" /\ opGen' = generation
          /\ CallsStop("operator")
     ELSE UNCHANGED <<genVars, gate, op, opGen, callVars>>
  /\ UNCHANGED <<concurrency, procVars, sick, waitVars, sessionVars, clientVars,
                 opTodo, opCur, halted, asks, crashes>>

\* The old generation ended: start the next one for the attached clients.
OpReplaces ==
  /\ op = "restart" /\ Stopped("operator")
  /\ stopCall' = [stopCall EXCEPT !["operator"] = "off"]
  /\ IF /\ stopCall["operator"] = "ended" /\ state = "exited" /\ generation = opGen
        /\ clients # {}
     THEN /\ StartGeneration("replace")
          /\ op' = "replacing" /\ opGen' = generation + 1
          /\ UNCHANGED gate
     ELSE op' = "off" /\ gate' = TRUE /\ UNCHANGED <<genVars, opGen>>
  /\ UNCHANGED <<concurrency, procVars, sick, waitVars, sessionVars, drain, clientVars,
                 stopGen, opTodo, opCur, halted, bounds>>

\* The replacement is initialized (announce it) or failed (open the gate).
OpReplaced ==
  /\ op = "replacing" /\ start[opGen] \in {"ok", "failed"}
  /\ IF start[opGen] = "ok"
     THEN op' = "announcing" /\ UNCHANGED gate
     ELSE op' = "off" /\ gate' = TRUE
  /\ UNCHANGED <<concurrency, genVars, procVars, sick, waitVars, sessionVars, drain,
                 clientVars, callVars, opGen, opTodo, opCur, halted, bounds>>

OpRestartEnds ==
  /\ op = "announcing"
  /\ op' = "off" /\ gate' = TRUE
  /\ UNCHANGED <<concurrency, genVars, procVars, sick, waitVars, sessionVars, drain,
                 clientVars, callVars, opGen, opTodo, opCur, halted, bounds>>

-----------------------------------------------------------------------------
Process(g) ==
  \/ Spawned(g) \/ SpawnFails(g) \/ InitSucceeds(g) \/ InitFails(g)
  \/ StopFailed(g) \/ StopEndsProcess(g) \/ StopFinishes(g)

Recovery(g) ==
  \/ WaitWakes(g) \/ WaitReaped(g) \/ WaitFails(g) \/ WaitCloses(g)
  \/ RecoverGivesUp(g) \/ RecoverFinds(g) \/ RecoverStarts(g) \/ RecoverFails(g)
  \/ RecoverRetries(g) \/ RecoverAnnounces(g) \/ RecoverEnds(g)
  \/ \E c \in Clients : WaitTells(g, c)

Client(c) ==
  \/ Open(c) \/ AttachRefused(c) \/ AttachTries(c) \/ AttachWakes(c)
  \/ Ask(c) \/ Route(c) \/ AnswerClient(c)
  \/ Close(c) \/ DetachSettles(c) \/ DetachTimesOut(c)

OperatorStep ==
  \/ OpDrains \/ OpStops \/ (\E c \in Clients : OpCloses(c)) \/ OpCallsStop \/ OpStopEnds
  \/ OpRestarts \/ OpReplaces \/ OpReplaced \/ OpRestartEnds

Next ==
  \/ Crash \/ TaskFails \/ Dispatch \/ AnswerBridge \/ OperatorStep
  \/ \E g \in Gens : Process(g) \/ Recovery(g)
  \/ \E c \in Clients : Client(c)
  \/ \E s \in Callers : StopWakes(s)

Spec == Init /\ [][Next]_vars

\* Tasks run, timers expire, a process that is told to end ends, and an active
\* request of a client that left is settled or given up after five seconds.
\* Nothing is assumed of the clients, of the Operator, or of a running process:
\* it need not answer, and it may crash.
Fairness ==
  /\ \A g \in Gens :
       /\ WF_vars(Spawned(g) \/ SpawnFails(g)) /\ WF_vars(InitSucceeds(g) \/ InitFails(g))
       /\ WF_vars(StopFailed(g)) /\ WF_vars(StopEndsProcess(g) \/ StopFinishes(g))
       /\ WF_vars(Recovery(g))
  /\ \A c \in Clients :
       /\ WF_vars(AttachRefused(c) \/ AttachTries(c) \/ AttachWakes(c))
       /\ WF_vars(DetachSettles(c) \/ DetachTimesOut(c)
                  \/ (det[c] = "cancel" /\ AnswerClient(c)))
  /\ \A s \in Callers : WF_vars(StopWakes(s))

FairSpec == Spec /\ Fairness

-----------------------------------------------------------------------------
(* Safety.                                                                  *)

\* A generation's process is reaped before the next generation starts: at no
\* time do two processes of one registration live, whoever stops, crashes,
\* recovers or restarts it.
NoGenerationOverlap ==
  /\ alive \subseteq {generation}
  /\ state \in {"exited", "starting"} => alive = {}

Recovering(g) == wait[g] \in {"backoff", "await", "undo", "announce"}

\* At most one crash-recovery episode is in progress.
OneRecovery == \A g, h \in Gens : Recovering(g) /\ Recovering(h) => g = h

\* A gate that is shut is going to be opened: by the restart or the recovery that
\* shut it, or by the recovery that took over.  (Unless a wait task died of a failed
\* send.)
GateIsWatched ==
  \/ gate
  \/ op \in {"restart", "replacing", "announcing"}
  \/ recTask # 0 /\ ~WaitOver(recTask)
  \/ \E g \in Gens : wait[g] = "dead"

\* A crash is recovered from by one episode, and whatever attach calls, restarts and
\* nested wait tasks do beside it, somebody is left to open the gate
\* (_recover_after_exit).
RecoveryIsSole == OneRecovery /\ GateIsWatched

\* A backend holds no client whose stream is closed, however long the attach
\* call waited for another generation: such a client would never detach, and
\* the backend never stop.
AttachedStreamsAreOpen == \A c \in clients : stream[c] = "open"

\* A one-to-one registration has one client at a time, also when several
\* attach calls wait for the same generation.
AdmitsOneClient == concurrency = "one-to-one" => Cardinality(clients) <= 1

\* Attach calls that waited, together: the clients of a backend are there, and
\* not more than its registration admits (_attach).
ClientsFit == AttachedStreamsAreOpen /\ AdmitsOneClient

\* While a drain is armed no generation starts, neither for a new stream nor
\* by a recovery that was under way when the drain was armed.
DrainedNeverStarts == [][generation' # generation => ~drain]_vars

\* A crash forgets no request silently: a client that lost one without an
\* answer is about to have its stream closed.
NoRequestForgotten ==
  \A c \in clients : req[c] = "lost" => \E g \in Gens : wait[g] = "close"

-----------------------------------------------------------------------------
(* Liveness, under FairSpec.                                                *)

\* A client whose backend is lost is served again or its stream is closed;
\* recovery that fails or is exhausted closes the streams
\* (docs/ARCHITECTURE.md:685-693).
CrashSettles ==
  \A c \in Clients :
    c \in clients /\ state # "running" ~> c \notin clients \/ (state = "running" /\ gate)

\* An attach call ends: it joins a running generation or is refused.
AttachSettles ==
  \A c \in Clients :
    att[c] = "try" ~> att[c] \in {"done", "refused"} \/ generation = MaxGen

\* Claimed by the comment at src/bridge_runtime.py:3780-3781: an explicit stop
\* is not followed by a surprise respawn; only new demand starts a generation.
StopWins == [][generation' # generation /\ halted => start'[generation'] = "demand"]_vars
=============================================================================
