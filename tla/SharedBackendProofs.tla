------------------------- MODULE SharedBackendProofs -------------------------
(* Theorems about SharedBackend, for every set of clients, every bound and  *)
(* every choice of registrations, Operator actions and rare events.         *)
EXTENDS SharedBackend, FiniteSetTheorems, TLAPS

-----------------------------------------------------------------------------
(* Type correctness.                                                        *)

GenType ==
  /\ state \in {"exited", "starting", "running", "stopping"}
  /\ generation \in 0..MaxGen
  /\ start \in [Gens -> {"off", "demand", "replace", "init", "ok", "failed"}]
  /\ stopper \in [Gens -> {"off", "run", "done"}]

SessionType ==
  /\ template \in {"none", "ok", "error"}
  /\ initPending \in BOOLEAN
  /\ binit \in {"no", "queued", "active"}
  /\ ses \in [Clients -> {"new", "init", "ready"}]
  /\ req \in [Clients -> {"none", "held", "event", "queued", "active", "lost"}]

CallType ==
  /\ stopCall \in [Callers -> {"off", "start", "stop", "ended", "raised"}]
  /\ stopGen \in [Callers -> 0..MaxGen]

\* What the pieces shared by several actions leave of the types.
LEMMA StartGenerationType ==
  ASSUME TypeOK, NEW how \in {"demand", "replace"}, StartGeneration(how)
  PROVE  GenType' /\ generation + 1 \in 0..MaxGen
<1>1. generation + 1 \in 0..MaxGen
  BY ConstantsAssumption DEF ConstantsAssumption, TypeOK, StartGeneration
<1>2. start' \in [Gens -> {"off", "demand", "replace", "init", "ok", "failed"}]
  BY DEF TypeOK, StartGeneration
<1>3. state' = "starting" /\ generation' = generation + 1 /\ UNCHANGED stopper
  BY DEF StartGeneration
<1> QED
  BY <1>1, <1>2, <1>3 DEF TypeOK, GenType

\* Beginning a stop keeps the types.
LEMMA BeginStopType == ASSUME TypeOK, BeginStop PROVE GenType'
BY DEF TypeOK, GenType, BeginStop

\* So does leaving the generation alone.
LEMMA GenVarsType == ASSUME TypeOK, UNCHANGED genVars PROVE GenType'
BY DEF TypeOK, GenType, genVars

\* So does _stop_if_unused.
LEMMA StopIfUnusedType ==
  ASSUME TypeOK, NEW left, StopIfUnused(left) PROVE GenType'
BY BeginStopType, GenVarsType DEF StopIfUnused

\* So does a round of stop().
LEMMA CallsStopType ==
  ASSUME TypeOK, NEW s \in Callers, CallsStop(s) PROVE GenType' /\ CallType'
<1>1. GenType'
  BY BeginStopType, GenVarsType DEF CallsStop
<1>2. CallType'
  <2>1. stopCall' \in [Callers -> {"off", "start", "stop", "ended", "raised"}]
    BY DEF TypeOK, CallsStop
  <2>2. stopGen' \in [Callers -> 0..MaxGen]
    BY ConstantsAssumption DEF ConstantsAssumption, TypeOK, CallsStop
  <2> QED
    BY <2>1, <2>2 DEF CallType
<1> QED
  BY <1>1, <1>2

\* _fail_all_pending keeps the types of the requests and the sessions.
LEMMA FailAllPendingType ==
  ASSUME TypeOK, NEW attached, FailAllPending(attached)
  PROVE  SessionType' /\ answered' \in BOOLEAN
BY DEF TypeOK, SessionType, FailAllPending

\* Closing the streams of a lost backend keeps the types of the clients.
LEMMA CloseStreamsType ==
  ASSUME TypeOK, NEW gone, CloseStreams(gone)
  PROVE  clients' \subseteq Clients /\ stream' \in [Clients -> {"none", "open", "closed"}]
BY DEF TypeOK, CloseStreams

\* The exit of a process keeps the types.
LEMMA ExitsType ==
  ASSUME TypeOK, NEW g, Exits(g) PROVE alive' \subseteq Gens /\ answered' \in BOOLEAN
BY DEF TypeOK, Exits

\* The counter of troubles stays within its bound.
LEMMA TroubleType == ASSUME TypeOK, Trouble PROVE trouble' \in 0..(MaxTrouble + MaxRestarts)
BY ConstantsAssumption DEF ConstantsAssumption, TypeOK, Trouble

\* The Operator begins nothing beyond it either.
LEMMA BeginsType ==
  ASSUME TypeOK, NEW action, Begins(action) PROVE trouble' \in 0..(MaxTrouble + MaxRestarts)
BY ConstantsAssumption DEF ConstantsAssumption, TypeOK, Begins

\* _close_stream with its detach keeps the types.
LEMMA ClosesType ==
  ASSUME TypeOK, NEW c \in Clients, Closes(c)
  PROVE  /\ GenType' /\ clients' \subseteq Clients
         /\ stream' \in [Clients -> {"none", "open", "closed"}]
         /\ det' \in [Clients -> {"off", "cancel", "stop", "done"}]
         /\ req' \in [Clients -> {"none", "held", "event", "queued", "active", "lost"}]
<1>1. GenType'
  BY StopIfUnusedType, GenVarsType DEF Closes
<1>2. /\ clients' \subseteq Clients
      /\ stream' \in [Clients -> {"none", "open", "closed"}]
      /\ req' \in [Clients -> {"none", "held", "event", "queued", "active", "lost"}]
  BY DEF TypeOK, Closes
<1>3. det' \in [Clients -> {"off", "cancel", "stop", "done"}]
  BY DEF TypeOK, Closes
<1> QED
  BY <1>1, <1>2, <1>3

\* A round of attach() keeps the types.
LEMMA AttachType ==
  ASSUME TypeOK, NEW c \in Clients, Attach(c)
  PROVE  /\ GenType' /\ clients' \subseteq Clients /\ failures' \in 0..MaxAttempts
         /\ att' \in [Clients -> {"off", "try", "gate", "start", "stop", "done", "refused"}]
         /\ attGen' \in [Clients -> 0..MaxGen]
<1>1. CASE ~gate
  BY <1>1, GenVarsType DEF Attach, TypeOK
<1>2. CASE gate /\ state = "exited"
  <2>1. GenType' /\ generation + 1 \in 0..MaxGen
    BY <1>2, StartGenerationType DEF Attach
  <2>2. /\ clients' = clients /\ failures' = 0
        /\ att' = [att EXCEPT ![c] = "start"]
        /\ attGen' = [attGen EXCEPT ![c] = generation + 1]
    BY <1>2 DEF Attach
  <2>3. failures' \in 0..MaxAttempts
    BY <2>2, ConstantsAssumption DEF ConstantsAssumption
  <2> QED
    BY <2>1, <2>2, <2>3 DEF TypeOK
<1>3. CASE gate /\ state # "exited"
  <2>1. UNCHANGED <<genVars, failures>>
    BY <1>3 DEF Attach
  <2>2. clients' \subseteq Clients
    BY <1>3 DEF Attach, TypeOK
  <2>3. att' \in [Clients -> {"off", "try", "gate", "start", "stop", "done", "refused"}]
    BY <1>3 DEF Attach, TypeOK
  <2>4. attGen' \in [Clients -> 0..MaxGen]
    <3>1. 0 \in 0..MaxGen /\ generation \in 0..MaxGen
      BY ConstantsAssumption DEF ConstantsAssumption, TypeOK
    <3>2. attGen' = [attGen EXCEPT ![c] = IF state = "running" THEN 0 ELSE generation]
      BY <1>3 DEF Attach
    <3> QED
      BY <3>1, <3>2 DEF TypeOK
  <2> QED
    BY <2>1, <2>2, <2>3, <2>4, GenVarsType DEF TypeOK
<1> QED
  BY <1>1, <1>2, <1>3

\* So does a refused attach().
LEMMA RefuseType ==
  ASSUME TypeOK, NEW c \in Clients, Refuse(c)
  PROVE  /\ GenType' /\ clients' \subseteq Clients /\ failures' \in 0..MaxAttempts
         /\ att' \in [Clients -> {"off", "try", "gate", "start", "stop", "done", "refused"}]
         /\ attGen' \in [Clients -> 0..MaxGen]
         /\ stream' \in [Clients -> {"none", "open", "closed"}]
BY GenVarsType, ConstantsAssumption DEF Refuse, TypeOK

\* Every variable stays in its type: states, generations within the bound, one
\* record of each task, call and client.
THEOREM TypeCorrect == Spec => []TypeOK
<1>1. Init => TypeOK
  <2>1. /\ 0 \in 0..MaxGen /\ 0 \in 0..MaxAttempts /\ 0 \in 0..MaxAsks
        /\ 0 \in 0..MaxCrashes /\ 0 \in 0..(MaxTrouble + MaxRestarts)
    BY ConstantsAssumption DEF ConstantsAssumption
  <2>2. ASSUME Init
        PROVE  /\ start \in [Gens -> {"off", "demand", "replace", "init", "ok", "failed"}]
               /\ stopper \in [Gens -> {"off", "run", "done"}]
               /\ sick \in [Gens -> {"no", "due", "over"}]
               /\ wait \in [Gens -> {"off", "wait", "reap", "tell", "backoff", "await", "undo",
                                     "announce", "close", "done", "dead"}]
               /\ repl \in [Gens -> 0..MaxGen]
    BY <2>1, <2>2 DEF Init
  <2>3. ASSUME Init
        PROVE  /\ stream \in [Clients -> {"none", "open", "closed"}]
               /\ att \in [Clients -> {"off", "try", "gate", "start", "stop", "done",
                                       "refused"}]
               /\ attGen \in [Clients -> 0..MaxGen]
               /\ det \in [Clients -> {"off", "cancel", "stop", "done"}]
               /\ ses \in [Clients -> {"new", "init", "ready"}]
               /\ req \in [Clients -> {"none", "held", "event", "queued", "active", "lost"}]
               /\ stopCall \in [Callers -> {"off", "start", "stop", "ended", "raised"}]
               /\ stopGen \in [Callers -> 0..MaxGen]
    BY <2>1, <2>3 DEF Init
  <2>4. ASSUME Init
        PROVE  /\ gate \in BOOLEAN /\ answered \in BOOLEAN /\ initPending \in BOOLEAN
               /\ drain \in BOOLEAN /\ halted \in BOOLEAN
    BY <2>4 DEF Init
  <2>5. ASSUME Init
        PROVE  /\ concurrency \in Concurrency
               /\ state \in {"exited", "starting", "running", "stopping"}
               /\ generation \in 0..MaxGen /\ recTask \in 0..MaxGen /\ opGen \in 0..MaxGen
               /\ failures \in 0..MaxAttempts /\ asks \in 0..MaxAsks
               /\ crashes \in 0..MaxCrashes /\ trouble \in 0..(MaxTrouble + MaxRestarts)
    BY <2>1, <2>5 DEF Init
  <2>6. ASSUME Init
        PROVE  /\ alive \subseteq Gens /\ nested \subseteq Gens /\ clients \subseteq Clients
               /\ opTodo \subseteq Clients /\ opCur \subseteq Clients
               /\ template \in {"none", "ok", "error"}
               /\ binit \in {"no", "queued", "active"}
               /\ op \in {"off", "closing", "stopping", "restart", "replacing", "announcing"}
    BY <2>6 DEF Init
  <2> QED
    BY <2>2, <2>3, <2>4, <2>5, <2>6, Zenon DEF TypeOK
<1>2. TypeOK /\ [Next]_vars => TypeOK'
  <2> SUFFICES ASSUME TypeOK, [Next]_vars PROVE TypeOK'
    OBVIOUS
  <2> USE DEF genVars, procVars, waitVars, sessionVars, clientVars, callVars, opVars, bounds
  <2>1. ASSUME NEW g \in Gens, Process(g) PROVE TypeOK'
    <3>1. CASE Spawned(g)
      BY <3>1, ZenonT(60) DEF TypeOK, Spawned
    <3>2. CASE SpawnFails(g)
      BY <3>2 DEF TypeOK, SpawnFails
    <3>3. CASE InitSucceeds(g)
      BY <3>3 DEF TypeOK, InitSucceeds
    <3>4. CASE InitFails(g)
      BY <3>4 DEF TypeOK, InitFails
    <3>5. CASE StopFailed(g)
      BY <3>5, BeginStopType, GenVarsType DEF TypeOK, StopFailed, GenType
    <3>6. CASE StopEndsProcess(g)
      BY <3>6, ExitsType DEF TypeOK, StopEndsProcess
    <3>7. CASE StopFinishes(g)
      BY <3>7, FailAllPendingType DEF TypeOK, StopFinishes, SessionType
    <3> QED
      BY <2>1, <3>1, <3>2, <3>3, <3>4, <3>5, <3>6, <3>7 DEF Process
  <2>2. ASSUME NEW g \in Gens, Recovery(g) PROVE TypeOK'
    <3>1. CASE WaitWakes(g)
      <4>1. recTask' \in 0..MaxGen /\ nested' \subseteq Gens
        <5>1. g \in 0..MaxGen
          BY ConstantsAssumption DEF ConstantsAssumption, Gens
        <5>2. recTask' \in {recTask, g} /\ nested' \in {nested, nested \cup {g}}
          BY <3>1 DEF WaitWakes
        <5> QED
          BY <5>1, <5>2 DEF TypeOK
      <4>2. /\ state' \in {"exited", "starting", "running", "stopping"}
            /\ wait' \in [Gens -> {"off", "wait", "reap", "tell", "backoff", "await",
                                  "undo", "announce", "close", "done", "dead"}]
        <5>1. CASE state = "running" /\ generation = g
          BY <3>1, <5>1 DEF TypeOK, WaitWakes
        <5>2. CASE ~(state = "running" /\ generation = g)
          BY <3>1, <5>2 DEF TypeOK, WaitWakes
        <5> QED
          BY <5>1, <5>2
      <4>3. gate' \in BOOLEAN
        BY <3>1, Zenon DEF TypeOK, WaitWakes
      <4> QED
        BY <3>1, <4>1, <4>2, <4>3, SMTT(30) DEF TypeOK, WaitWakes
    <3>2. CASE WaitReaped(g)
      BY <3>2 DEF TypeOK, WaitReaped
    <3>3. CASE WaitFails(g)
      BY <3>3, FailAllPendingType, CloseStreamsType, ConstantsAssumption DEF TypeOK, WaitFails, SessionType, ConstantsAssumption
    <3>4. CASE WaitCloses(g)
      <4>1. wait' \in [Gens -> {"off", "wait", "reap", "tell", "backoff", "await",
                               "undo", "announce", "close", "done", "dead"}]
        BY <3>4 DEF TypeOK, WaitCloses
      <4>2. recTask' \in 0..MaxGen
        BY <3>4, ConstantsAssumption DEF ConstantsAssumption, WaitCloses
      <4>3. /\ clients' \subseteq Clients /\ stream' \in [Clients -> {"none", "open", "closed"}]
            /\ req' \in [Clients -> {"none", "held", "event", "queued", "active", "lost"}]
        BY <3>4, CloseStreamsType DEF TypeOK, WaitCloses
      <4> QED
        BY <3>4, <4>1, <4>2, <4>3 DEF TypeOK, WaitCloses
    <3>5. CASE RecoverGivesUp(g)
      BY <3>5 DEF TypeOK, RecoverGivesUp
    <3>6. CASE RecoverStarts(g)
      BY <3>6, StartGenerationType, ConstantsAssumption DEF TypeOK, RecoverStarts, GenType, RecoveryOff, ConstantsAssumption
    <3>7. CASE RecoverFails(g)
      BY <3>7, BeginStopType, GenVarsType DEF TypeOK, RecoverFails, GenType
    <3>8. CASE RecoverRetries(g)
      BY <3>8 DEF TypeOK, RecoverRetries
    <3>9. CASE RecoverAnnounces(g)
      BY <3>9 DEF TypeOK, RecoverAnnounces
    <3>10. CASE RecoverEnds(g)
      <4>1. wait' \in [Gens -> {"off", "wait", "reap", "tell", "backoff", "await",
                               "undo", "announce", "close", "done", "dead"}]
        BY <3>10 DEF TypeOK, RecoverEnds
      <4>2. recTask' \in 0..MaxGen
        BY <3>10, ConstantsAssumption DEF ConstantsAssumption, RecoverEnds
      <4> QED
        BY <3>10, <4>1, <4>2 DEF TypeOK, RecoverEnds
    <3>11. ASSUME NEW c \in Clients, WaitTells(g, c) PROVE TypeOK'
      BY <3>11, TroubleType DEF TypeOK, WaitTells
    <3>12. CASE RecoverFinds(g)
      <4>1. failures' \in 0..MaxAttempts
        BY <3>12, ConstantsAssumption DEF TypeOK, RecoverFinds, RecoveryOff, ConstantsAssumption
      <4>2. wait' \in [Gens -> {"off", "wait", "reap", "tell", "backoff", "await",
                               "undo", "announce", "close", "done", "dead"}]
        BY <3>12 DEF TypeOK, RecoverFinds
      <4>3. recTask' \in 0..MaxGen
        BY <3>12, ConstantsAssumption DEF ConstantsAssumption, TypeOK, RecoverFinds
      <4> QED
        BY <3>12, <4>1, <4>2, <4>3 DEF TypeOK, RecoverFinds
    <3> QED
      BY <2>2, <3>1, <3>2, <3>3, <3>4, <3>5, <3>6, <3>7, <3>8, <3>9, <3>10, <3>11, <3>12
      DEF Recovery
  <2>3. ASSUME NEW c \in Clients, Client(c) PROVE TypeOK'
    <3>1. CASE Open(c)
      <4>1. /\ stream' \in [Clients -> {"none", "open", "closed"}]
            /\ att' \in [Clients -> {"off", "try", "gate", "start", "stop", "done", "refused"}]
            /\ halted' \in BOOLEAN
        BY <3>1 DEF TypeOK, Open
      <4> QED
        BY <3>1, <4>1 DEF TypeOK, Open
    <3>2. CASE AttachRefused(c)
      BY <3>2, RefuseType DEF TypeOK, AttachRefused, GenType
    <3>3. CASE AttachTries(c)
      BY <3>3, AttachType DEF TypeOK, AttachTries, GenType
    <3>4. CASE AttachWakes(c)
      BY <3>4, RefuseType, GenVarsType, ConstantsAssumption DEF TypeOK, AttachWakes, GenType, ConstantsAssumption
    <3>5. CASE Ask(c)
      <4>1. asks' \in 0..MaxAsks
        BY <3>5, ConstantsAssumption DEF TypeOK, Ask, ConstantsAssumption
      <4>2. /\ req' \in [Clients -> {"none", "held", "event", "queued", "active", "lost"}]
            /\ halted' \in BOOLEAN
        BY <3>5 DEF TypeOK, Ask
      <4> QED
        BY <3>5, <4>1, <4>2 DEF TypeOK, Ask
    <3>6. CASE Route(c)
      <4>1. req' \in [Clients -> {"none", "held", "event", "queued", "active", "lost"}]
        BY <3>6 DEF TypeOK, Route
      <4>2. ses' \in [Clients -> {"new", "init", "ready"}]
        BY <3>6 DEF TypeOK, Route
      <4>3. initPending' \in BOOLEAN
        BY <3>6, Zenon DEF TypeOK, Route
      <4> QED
        BY <3>6, <4>1, <4>2, <4>3 DEF TypeOK, Route
    <3>7. CASE AnswerClient(c)
      <4>1. /\ req' \in [Clients -> {"none", "held", "event", "queued", "active", "lost"}]
            /\ ses' \in [Clients -> {"new", "init", "ready"}]
        BY <3>7 DEF TypeOK, AnswerClient
      <4>2. template' \in {"none", "ok", "error"} /\ initPending' \in BOOLEAN
        BY <3>7 DEF TypeOK, AnswerClient
      <4>3. sick' \in [Gens -> {"no", "due", "over"}] /\ trouble' \in 0..(MaxTrouble + MaxRestarts)
        BY <3>7, TroubleType DEF TypeOK, AnswerClient
      <4> QED
        BY <3>7, <4>1, <4>2, <4>3, ZenonT(60) DEF TypeOK, AnswerClient
    <3>8. CASE Close(c)
      BY <3>8, ClosesType DEF TypeOK, Close, GenType
    <3>9. CASE DetachSettles(c)
      BY <3>9, StopIfUnusedType DEF TypeOK, DetachSettles, GenType
    <3>10. CASE DetachTimesOut(c)
      BY <3>10, CallsStopType, TroubleType DEF TypeOK, DetachTimesOut, GenType, CallType, Callers
    <3> QED
      BY <2>3, <3>1, <3>2, <3>3, <3>4, <3>5, <3>6, <3>7, <3>8, <3>9, <3>10 DEF Client
  <2>4. CASE OperatorStep
    <3>1. CASE OpDrains
      BY <3>1, BeginsType DEF TypeOK, OpDrains
    <3>2. CASE OpStops
      BY <3>2, BeginsType, ZenonT(60) DEF TypeOK, OpStops
    <3>3. ASSUME NEW c \in Clients, OpCloses(c) PROVE TypeOK'
      <4>1. CASE stream[c] = "open"
        BY <3>3, <4>1, ClosesType DEF TypeOK, OpCloses, GenType
      <4>2. CASE stream[c] # "open"
        BY <3>3, <4>2 DEF TypeOK, OpCloses
      <4> QED
        BY <4>1, <4>2
    <3>4. CASE OpCallsStop
      BY <3>4, CallsStopType DEF TypeOK, OpCallsStop, GenType, CallType, Callers
    <3>5. CASE OpStopEnds
      BY <3>5 DEF TypeOK, OpStopEnds, Callers
    <3>6. CASE OpRestarts
      <4>1. GenType' /\ CallType'
        BY <3>6, CallsStopType, GenVarsType DEF TypeOK, OpRestarts, CallType, Callers
      <4>2. trouble' \in 0..(MaxTrouble + MaxRestarts) /\ gate' \in BOOLEAN /\ drain' \in BOOLEAN
        BY <3>6, BeginsType DEF TypeOK, OpRestarts
      <4>3. /\ op' \in {"off", "closing", "stopping", "restart", "replacing", "announcing"}
            /\ opGen' \in 0..MaxGen
        BY <3>6 DEF TypeOK, OpRestarts
      <4> QED
        BY <3>6, <4>1, <4>2, <4>3 DEF TypeOK, OpRestarts, GenType, CallType
    <3>7. CASE OpReplaces
      <4>1. GenType' /\ opGen' \in 0..MaxGen
        BY <3>7, StartGenerationType, GenVarsType DEF TypeOK, OpReplaces
      <4>2. /\ stopCall' \in [Callers -> {"off", "start", "stop", "ended", "raised"}]
            /\ op' \in {"off", "closing", "stopping", "restart", "replacing", "announcing"}
            /\ gate' \in BOOLEAN
        BY <3>7 DEF TypeOK, OpReplaces
      <4> QED
        BY <3>7, <4>1, <4>2 DEF TypeOK, OpReplaces, GenType
    <3>8. CASE OpReplaced
      <4>1. /\ op' \in {"off", "closing", "stopping", "restart", "replacing", "announcing"}
            /\ gate' \in BOOLEAN
        BY <3>8 DEF TypeOK, OpReplaced
      <4> QED
        BY <3>8, <4>1 DEF TypeOK, OpReplaced
    <3>9. CASE OpRestartEnds
      BY <3>9 DEF TypeOK, OpRestartEnds
    <3> QED
      BY <2>4, <3>1, <3>2, <3>3, <3>4, <3>5, <3>6, <3>7, <3>8, <3>9 DEF OperatorStep
  <2>5. CASE Crash
    BY <2>5, ExitsType, TroubleType, ConstantsAssumption DEF TypeOK, Crash, ConstantsAssumption
  <2>6. CASE TaskFails
    <3>1. sick' \in [Gens -> {"no", "due", "over"}] /\ trouble' \in 0..(MaxTrouble + MaxRestarts)
      BY <2>6, TroubleType DEF TypeOK, TaskFails
    <3> QED
      BY <2>6, <3>1 DEF TypeOK, TaskFails
  <2>7. CASE Dispatch
    BY <2>7 DEF TypeOK, Dispatch
  <2>8. CASE AnswerBridge
    BY <2>8, ZenonT(60) DEF TypeOK, AnswerBridge
  <2>9. ASSUME NEW s \in Callers, StopWakes(s) PROVE TypeOK'
    BY <2>9, CallsStopType, GenVarsType, ConstantsAssumption DEF TypeOK, StopWakes, GenType, CallType, ConstantsAssumption
  <2>10. CASE UNCHANGED vars
    BY <2>10 DEF TypeOK, vars
  <2> QED
    BY <2>1, <2>2, <2>3, <2>4, <2>5, <2>6, <2>7, <2>8, <2>9, <2>10 DEF Next
<1> QED
  BY <1>1, <1>2, PTL DEF Spec

-----------------------------------------------------------------------------
(* No two generations overlap.                                              *)

\* A task that stops or reaps a generation works on the current one, and nobody
\* else leaves "stopping" before it does.
GenerationInv ==
  /\ alive \subseteq {generation}
  /\ state \in {"exited", "starting"} => alive = {}
  /\ \A g \in Gens :
       /\ start[g] \in {"demand", "replace"} /\ g = generation => state = "starting"
       /\ stopper[g] = "run" => g = generation /\ state = "stopping"
       /\ wait[g] \in {"reap", "tell"} =>
            g = generation /\ state = "stopping" /\ g \notin alive /\ stopper[g] # "run"

\* No wait task starts to reap.
Quiet == \A g \in Gens : wait'[g] \in {"reap", "tell"} => wait[g] \in {"reap", "tell"}

\* A step that leaves the wait tasks alone is quiet.
LEMMA QuietWait == UNCHANGED wait => Quiet
BY DEF Quiet

\* A quiet step that leaves the generation and the processes alone keeps the invariant.
LEMMA KeepGeneration ==
  ASSUME TypeOK, GenerationInv, UNCHANGED genVars, UNCHANGED alive, Quiet
  PROVE  GenerationInv'
BY DEF GenerationInv, genVars, Quiet

\* Beginning a stop keeps the invariant: the process still belongs to the generation.
LEMMA BeginStopGeneration ==
  ASSUME TypeOK, GenerationInv, state = "running", BeginStop, UNCHANGED alive, Quiet
  PROVE  GenerationInv'
BY DEF TypeOK, GenerationInv, BeginStop, Quiet

\* Starting the next generation keeps the invariant: nothing lives when it does.
LEMMA StartGenerationGeneration ==
  ASSUME TypeOK, GenerationInv, NEW how, StartGeneration(how), UNCHANGED alive, Quiet
  PROVE  GenerationInv'
<1>1. alive = {} /\ state' = "starting" /\ stopper' = stopper
  BY DEF GenerationInv, StartGeneration
<1>2. \A g \in Gens : stopper[g] # "run" /\ wait[g] \notin {"reap", "tell"}
  BY DEF GenerationInv, StartGeneration
<1> QED
  BY <1>1, <1>2 DEF GenerationInv, Quiet

\* _stop_if_unused keeps the generation invariant.
LEMMA StopIfUnusedGeneration ==
  ASSUME TypeOK, GenerationInv, NEW left, StopIfUnused(left), UNCHANGED alive, Quiet
  PROVE  GenerationInv'
BY KeepGeneration, BeginStopGeneration DEF StopIfUnused

\* A round of stop() keeps the generation invariant.
LEMMA CallsStopGeneration ==
  ASSUME TypeOK, GenerationInv, NEW s, CallsStop(s), UNCHANGED alive, Quiet
  PROVE  GenerationInv'
BY KeepGeneration, BeginStopGeneration DEF CallsStop

\* _close_stream with its detach keeps the generation invariant.
LEMMA ClosesGeneration ==
  ASSUME TypeOK, GenerationInv, NEW c, Closes(c), UNCHANGED alive, Quiet
  PROVE  GenerationInv'
BY KeepGeneration, StopIfUnusedGeneration DEF Closes

\* A round of attach() keeps the generation invariant.
LEMMA AttachGeneration ==
  ASSUME TypeOK, GenerationInv, NEW c, Attach(c), UNCHANGED alive, Quiet
  PROVE  GenerationInv'
BY KeepGeneration, StartGenerationGeneration DEF Attach

\* Every step keeps the generation invariant.
LEMMA GenerationStep == TypeOK /\ GenerationInv /\ [Next]_vars => GenerationInv'
<1> SUFFICES ASSUME TypeOK, GenerationInv, [Next]_vars PROVE GenerationInv'
  OBVIOUS
<1> USE DEF procVars, waitVars
<1>1. ASSUME NEW g \in Gens, Process(g) PROVE GenerationInv'
  <2>1. CASE Spawned(g)
    BY <2>1 DEF TypeOK, GenerationInv, Spawned
  <2>2. CASE SpawnFails(g)
    BY <2>2 DEF TypeOK, GenerationInv, SpawnFails
  <2>3. CASE InitSucceeds(g)
    BY <2>3 DEF TypeOK, GenerationInv, InitSucceeds
  <2>4. CASE InitFails(g)
    BY <2>4 DEF TypeOK, GenerationInv, InitFails
  <2>5. CASE StopFailed(g)
    BY <2>5, KeepGeneration, BeginStopGeneration, QuietWait DEF StopFailed
  <2>6. CASE StopEndsProcess(g)
    BY <2>6 DEF TypeOK, GenerationInv, StopEndsProcess, Exits, genVars
  <2>7. CASE StopFinishes(g)
    BY <2>7 DEF TypeOK, GenerationInv, StopFinishes
  <2> QED
    BY <1>1, <2>1, <2>2, <2>3, <2>4, <2>5, <2>6, <2>7 DEF Process
<1>2. ASSUME NEW g \in Gens, Recovery(g) PROVE GenerationInv'
  <2>1. CASE WaitWakes(g)
    BY <2>1 DEF TypeOK, GenerationInv, WaitWakes
  <2>2. CASE WaitReaped(g)
    BY <2>2 DEF TypeOK, GenerationInv, WaitReaped, genVars
  <2>3. CASE WaitFails(g)
    BY <2>3 DEF TypeOK, GenerationInv, WaitFails
  <2>4. CASE WaitCloses(g)
    <3>1. Quiet
      BY <2>4 DEF TypeOK, WaitCloses, Quiet
    <3> QED
      BY <2>4, <3>1, KeepGeneration DEF WaitCloses
  <2>5. CASE RecoverGivesUp(g)
    <3>1. Quiet
      BY <2>5 DEF TypeOK, RecoverGivesUp, Quiet
    <3> QED
      BY <2>5, <3>1, KeepGeneration DEF RecoverGivesUp
  <2>6. CASE RecoverStarts(g)
    <3>1. Quiet
      BY <2>6 DEF TypeOK, RecoverStarts, Quiet
    <3> QED
      BY <2>6, <3>1, StartGenerationGeneration DEF RecoverStarts
  <2>7. CASE RecoverFails(g)
    <3>1. Quiet
      BY <2>7 DEF TypeOK, RecoverFails, Quiet
    <3> QED
      BY <2>7, <3>1, KeepGeneration, BeginStopGeneration DEF RecoverFails
  <2>8. CASE RecoverRetries(g)
    <3>1. Quiet
      BY <2>8 DEF TypeOK, RecoverRetries, Quiet
    <3> QED
      BY <2>8, <3>1, KeepGeneration DEF RecoverRetries
  <2>9. CASE RecoverAnnounces(g)
    <3>1. Quiet
      BY <2>9 DEF TypeOK, RecoverAnnounces, Quiet
    <3> QED
      BY <2>9, <3>1, KeepGeneration DEF RecoverAnnounces
  <2>10. CASE RecoverEnds(g)
    <3>1. Quiet
      BY <2>10 DEF TypeOK, RecoverEnds, Quiet
    <3> QED
      BY <2>10, <3>1, KeepGeneration DEF RecoverEnds
  <2>11. ASSUME NEW c \in Clients, WaitTells(g, c) PROVE GenerationInv'
    <3>1. Quiet
      BY <2>11 DEF TypeOK, WaitTells, Quiet
    <3> QED
      BY <2>11, <3>1, KeepGeneration DEF WaitTells
  <2>12. CASE RecoverFinds(g)
    <3>1. Quiet
      BY <2>12 DEF TypeOK, RecoverFinds, Quiet
    <3> QED
      BY <2>12, <3>1, KeepGeneration DEF RecoverFinds
  <2> QED
    BY <1>2, <2>1, <2>2, <2>3, <2>4, <2>5, <2>6, <2>7, <2>8, <2>9, <2>10, <2>11, <2>12
    DEF Recovery
<1>3. ASSUME NEW c \in Clients, Client(c) PROVE GenerationInv'
  <2>1. CASE Open(c)
    BY <2>1, KeepGeneration, QuietWait DEF Open
  <2>2. CASE AttachRefused(c)
    BY <2>2, KeepGeneration, QuietWait DEF AttachRefused, Refuse
  <2>3. CASE AttachTries(c)
    BY <2>3, AttachGeneration, QuietWait DEF AttachTries
  <2>4. CASE AttachWakes(c)
    BY <2>4, KeepGeneration, QuietWait DEF AttachWakes, Refuse
  <2>5. CASE Ask(c)
    BY <2>5, KeepGeneration, QuietWait DEF Ask
  <2>6. CASE Route(c)
    BY <2>6, KeepGeneration, QuietWait DEF Route
  <2>7. CASE AnswerClient(c)
    BY <2>7, KeepGeneration, QuietWait DEF AnswerClient
  <2>8. CASE Close(c)
    BY <2>8, ClosesGeneration, QuietWait DEF Close
  <2>9. CASE DetachSettles(c)
    BY <2>9, StopIfUnusedGeneration, QuietWait DEF DetachSettles
  <2>10. CASE DetachTimesOut(c)
    BY <2>10, CallsStopGeneration, QuietWait DEF DetachTimesOut
  <2> QED
    BY <1>3, <2>1, <2>2, <2>3, <2>4, <2>5, <2>6, <2>7, <2>8, <2>9, <2>10 DEF Client
<1>4. CASE OperatorStep
  <2>1. CASE OpDrains
    BY <2>1, KeepGeneration, QuietWait DEF OpDrains
  <2>2. CASE OpStops
    BY <2>2, KeepGeneration, QuietWait DEF OpStops
  <2>3. ASSUME NEW c \in Clients, OpCloses(c) PROVE GenerationInv'
    BY <2>3, ClosesGeneration, KeepGeneration, QuietWait DEF OpCloses
  <2>4. CASE OpCallsStop
    BY <2>4, CallsStopGeneration, QuietWait DEF OpCallsStop
  <2>5. CASE OpStopEnds
    BY <2>5, KeepGeneration, QuietWait DEF OpStopEnds
  <2>6. CASE OpRestarts
    BY <2>6, CallsStopGeneration, KeepGeneration, QuietWait DEF OpRestarts
  <2>7. CASE OpReplaces
    BY <2>7, StartGenerationGeneration, KeepGeneration, QuietWait DEF OpReplaces
  <2>8. CASE OpReplaced
    BY <2>8, KeepGeneration, QuietWait DEF OpReplaced
  <2>9. CASE OpRestartEnds
    BY <2>9, KeepGeneration, QuietWait DEF OpRestartEnds
  <2> QED
    BY <1>4, <2>1, <2>2, <2>3, <2>4, <2>5, <2>6, <2>7, <2>8, <2>9 DEF OperatorStep
<1>5. CASE Crash
  BY <1>5 DEF TypeOK, GenerationInv, Crash, Exits, genVars
<1>6. CASE TaskFails
  BY <1>6, KeepGeneration, QuietWait DEF TaskFails
<1>7. CASE Dispatch
  BY <1>7, KeepGeneration, QuietWait DEF Dispatch
<1>8. CASE AnswerBridge
  BY <1>8, KeepGeneration, QuietWait DEF AnswerBridge
<1>9. ASSUME NEW s \in Callers, StopWakes(s) PROVE GenerationInv'
  BY <1>9, CallsStopGeneration, KeepGeneration, QuietWait DEF StopWakes
<1>10. CASE UNCHANGED vars
  BY <1>10, KeepGeneration, QuietWait DEF vars
<1> QED
  BY <1>1, <1>2, <1>3, <1>4, <1>5, <1>6, <1>7, <1>8, <1>9, <1>10 DEF Next

\* The processes of two generations never overlap: whatever stops, crashes,
\* recovers or restarts a generation, its process is gone before the next one
\* is started, and while the backend is exited or starting nothing runs.
THEOREM GenerationsDoNotOverlap == Spec => []NoGenerationOverlap
<1>1. Init => GenerationInv
  BY DEF Init, GenerationInv
<1>2. GenerationInv => NoGenerationOverlap
  BY DEF GenerationInv, NoGenerationOverlap
<1> QED
  BY <1>1, <1>2, GenerationStep, TypeCorrect, PTL DEF Spec

-----------------------------------------------------------------------------
(* A drain holds.                                                           *)

\* A restart cleared the drain, and no drain is armed while it runs.
RestartCleared == op = "restart" => ~drain

\* What a step must keep.
Undrained == RestartCleared' /\ (generation' # generation => ~drain)

\* Every step keeps the drain invariant, and starts nothing while drained.
LEMMA UndrainedStep == RestartCleared /\ [Next]_vars => Undrained
<1> SUFFICES ASSUME RestartCleared, [Next]_vars PROVE Undrained
  OBVIOUS
<1> USE DEF genVars, opVars, BeginStop
<1>1. ASSUME NEW g \in Gens, Process(g) PROVE Undrained
  <2>1. CASE Spawned(g)
    BY <2>1 DEF RestartCleared, Undrained, Spawned
  <2>2. CASE SpawnFails(g)
    BY <2>2 DEF RestartCleared, Undrained, SpawnFails
  <2>3. CASE InitSucceeds(g)
    BY <2>3 DEF RestartCleared, Undrained, InitSucceeds
  <2>4. CASE InitFails(g)
    BY <2>4 DEF RestartCleared, Undrained, InitFails
  <2>5. CASE StopFailed(g)
    BY <2>5 DEF RestartCleared, Undrained, StopFailed
  <2>6. CASE StopEndsProcess(g)
    BY <2>6 DEF RestartCleared, Undrained, StopEndsProcess
  <2>7. CASE StopFinishes(g)
    BY <2>7 DEF RestartCleared, Undrained, StopFinishes
  <2> QED
    BY <1>1, <2>1, <2>2, <2>3, <2>4, <2>5, <2>6, <2>7 DEF Process
<1>2. ASSUME NEW g \in Gens, Recovery(g) PROVE Undrained
  <2>1. CASE WaitWakes(g)
    BY <2>1 DEF RestartCleared, Undrained, WaitWakes
  <2>2. CASE WaitReaped(g)
    BY <2>2 DEF RestartCleared, Undrained, WaitReaped
  <2>3. CASE WaitFails(g)
    BY <2>3 DEF RestartCleared, Undrained, WaitFails
  <2>4. CASE WaitCloses(g)
    BY <2>4 DEF RestartCleared, Undrained, WaitCloses
  <2>5. CASE RecoverGivesUp(g)
    BY <2>5 DEF RestartCleared, Undrained, RecoverGivesUp
  <2>6. CASE RecoverStarts(g)
    BY <2>6 DEF RestartCleared, Undrained, RecoverStarts, RecoveryOff
  <2>7. CASE RecoverFails(g)
    BY <2>7 DEF RestartCleared, Undrained, RecoverFails
  <2>8. CASE RecoverRetries(g)
    BY <2>8 DEF RestartCleared, Undrained, RecoverRetries
  <2>9. CASE RecoverAnnounces(g)
    BY <2>9 DEF RestartCleared, Undrained, RecoverAnnounces
  <2>10. CASE RecoverEnds(g)
    BY <2>10 DEF RestartCleared, Undrained, RecoverEnds
  <2>11. ASSUME NEW c \in Clients, WaitTells(g, c) PROVE Undrained
    BY <2>11 DEF RestartCleared, Undrained, WaitTells
  <2>12. CASE RecoverFinds(g)
    BY <2>12 DEF RestartCleared, Undrained, RecoverFinds
  <2> QED
    BY <1>2, <2>1, <2>2, <2>3, <2>4, <2>5, <2>6, <2>7, <2>8, <2>9, <2>10, <2>11, <2>12
    DEF Recovery
<1>3. ASSUME NEW c \in Clients, Client(c) PROVE Undrained
  <2>1. CASE Open(c)
    BY <2>1 DEF RestartCleared, Undrained, Open
  <2>2. CASE AttachRefused(c)
    BY <2>2 DEF RestartCleared, Undrained, AttachRefused, Refuse
  <2>3. CASE AttachTries(c)
    BY <2>3 DEF RestartCleared, Undrained, AttachTries, Refused, Attach
  <2>4. CASE AttachWakes(c)
    BY <2>4 DEF RestartCleared, Undrained, AttachWakes, Refuse
  <2>5. CASE Ask(c)
    BY <2>5 DEF RestartCleared, Undrained, Ask
  <2>6. CASE Route(c)
    BY <2>6 DEF RestartCleared, Undrained, Route
  <2>7. CASE AnswerClient(c)
    BY <2>7 DEF RestartCleared, Undrained, AnswerClient
  <2>8. CASE Close(c)
    BY <2>8 DEF RestartCleared, Undrained, Close, Closes, StopIfUnused
  <2>9. CASE DetachSettles(c)
    BY <2>9 DEF RestartCleared, Undrained, DetachSettles, StopIfUnused
  <2>10. CASE DetachTimesOut(c)
    BY <2>10 DEF RestartCleared, Undrained, DetachTimesOut, CallsStop
  <2> QED
    BY <1>3, <2>1, <2>2, <2>3, <2>4, <2>5, <2>6, <2>7, <2>8, <2>9, <2>10 DEF Client
<1>4. CASE OperatorStep
  <2>1. CASE OpDrains
    BY <2>1 DEF RestartCleared, Undrained, OpDrains, Begins
  <2>2. CASE OpStops
    BY <2>2 DEF RestartCleared, Undrained, OpStops, Begins
  <2>3. ASSUME NEW c \in Clients, OpCloses(c) PROVE Undrained
    BY <2>3 DEF RestartCleared, Undrained, OpCloses, Closes, StopIfUnused
  <2>4. CASE OpCallsStop
    BY <2>4 DEF RestartCleared, Undrained, OpCallsStop, CallsStop
  <2>5. CASE OpStopEnds
    BY <2>5 DEF RestartCleared, Undrained, OpStopEnds
  <2>6. CASE OpRestarts
    BY <2>6 DEF RestartCleared, Undrained, OpRestarts, CallsStop, Begins
  <2>7. CASE OpReplaces
    BY <2>7 DEF RestartCleared, Undrained, OpReplaces
  <2>8. CASE OpReplaced
    BY <2>8 DEF RestartCleared, Undrained, OpReplaced
  <2>9. CASE OpRestartEnds
    BY <2>9 DEF RestartCleared, Undrained, OpRestartEnds
  <2> QED
    BY <1>4, <2>1, <2>2, <2>3, <2>4, <2>5, <2>6, <2>7, <2>8, <2>9 DEF OperatorStep
<1>5. CASE Crash
  BY <1>5 DEF RestartCleared, Undrained, Crash
<1>6. CASE TaskFails
  BY <1>6 DEF RestartCleared, Undrained, TaskFails
<1>7. CASE Dispatch
  BY <1>7 DEF RestartCleared, Undrained, Dispatch
<1>8. CASE AnswerBridge
  BY <1>8 DEF RestartCleared, Undrained, AnswerBridge
<1>9. ASSUME NEW s \in Callers, StopWakes(s) PROVE Undrained
  BY <1>9 DEF RestartCleared, Undrained, StopWakes, CallsStop
<1>10. CASE UNCHANGED vars
  BY <1>10 DEF RestartCleared, Undrained, vars
<1> QED
  BY <1>1, <1>2, <1>3, <1>4, <1>5, <1>6, <1>7, <1>8, <1>9, <1>10 DEF Next

\* While a drain is armed no generation starts, by a new stream, by a recovery
\* that was backing off when the drain was armed, or by a restart.
THEOREM DrainHolds == Spec => DrainedNeverStarts
<1>1. Init => RestartCleared
  BY DEF Init, RestartCleared
<1>2. RestartCleared /\ [Next]_vars => RestartCleared' /\ [generation' # generation => ~drain]_vars
  BY UndrainedStep DEF Undrained
<1> QED
  BY <1>1, <1>2, PTL DEF Spec, DrainedNeverStarts

-----------------------------------------------------------------------------
(* The clients of a backend.                                                *)

\* A client joined by its attach call, its stream is open since, and a one-to-one
\* registration has no other.
ClientInv ==
  /\ clients \subseteq Clients
  /\ \A c \in clients : stream[c] = "open" /\ att[c] = "done"
  /\ \A c \in Clients : att[c] # "off" => stream[c] # "none"
  /\ concurrency = "one-to-one" => \A c, d \in clients : c = d

\* _close_stream takes the client out of the backend with its stream.
LEMMA ClosesClient == ASSUME TypeOK, ClientInv, NEW c \in Clients, Closes(c), UNCHANGED <<att, concurrency>>
                      PROVE  ClientInv'
BY DEF TypeOK, ClientInv, Closes

\* Closing the streams of a lost backend takes their clients out of it.
LEMMA CloseStreamsClient ==
  ASSUME TypeOK, ClientInv, NEW gone, CloseStreams(gone), UNCHANGED <<att, concurrency>>
  PROVE  ClientInv'
BY DEF TypeOK, ClientInv, CloseStreams

\* A refused attach() adds no client.
LEMMA RefuseClient ==
  ASSUME TypeOK, ClientInv, NEW c \in Clients, att[c] # "done", Refuse(c), UNCHANGED concurrency
  PROVE  ClientInv'
BY DEF TypeOK, ClientInv, Refuse

\* Every step keeps the client invariant.
LEMMA ClientStep == TypeOK /\ ClientInv /\ [Next]_vars => ClientInv'
<1> SUFFICES ASSUME TypeOK, ClientInv, [Next]_vars PROVE ClientInv'
  OBVIOUS
<1> USE DEF clientVars
<1>1. ASSUME NEW g \in Gens, Process(g) PROVE ClientInv'
  <2>1. CASE Spawned(g)
    BY <2>1 DEF ClientInv, Spawned
  <2>2. CASE SpawnFails(g)
    BY <2>2 DEF ClientInv, SpawnFails
  <2>3. CASE InitSucceeds(g)
    BY <2>3 DEF ClientInv, InitSucceeds
  <2>4. CASE InitFails(g)
    BY <2>4 DEF ClientInv, InitFails
  <2>5. CASE StopFailed(g)
    BY <2>5 DEF ClientInv, StopFailed
  <2>6. CASE StopEndsProcess(g)
    BY <2>6 DEF ClientInv, StopEndsProcess
  <2>7. CASE StopFinishes(g)
    BY <2>7 DEF ClientInv, StopFinishes
  <2> QED
    BY <1>1, <2>1, <2>2, <2>3, <2>4, <2>5, <2>6, <2>7 DEF Process
<1>2. ASSUME NEW g \in Gens, Recovery(g) PROVE ClientInv'
  <2>1. CASE WaitWakes(g)
    BY <2>1 DEF ClientInv, WaitWakes
  <2>2. CASE WaitReaped(g)
    BY <2>2 DEF ClientInv, WaitReaped
  <2>3. CASE WaitFails(g)
    BY <2>3, CloseStreamsClient DEF ClientInv, WaitFails
  <2>4. CASE WaitCloses(g)
    BY <2>4, CloseStreamsClient DEF ClientInv, WaitCloses
  <2>5. CASE RecoverGivesUp(g)
    BY <2>5 DEF ClientInv, RecoverGivesUp
  <2>6. CASE RecoverStarts(g)
    BY <2>6 DEF ClientInv, RecoverStarts
  <2>7. CASE RecoverFails(g)
    BY <2>7 DEF ClientInv, RecoverFails
  <2>8. CASE RecoverRetries(g)
    BY <2>8 DEF ClientInv, RecoverRetries
  <2>9. CASE RecoverAnnounces(g)
    BY <2>9 DEF ClientInv, RecoverAnnounces
  <2>10. CASE RecoverEnds(g)
    BY <2>10 DEF ClientInv, RecoverEnds
  <2>11. ASSUME NEW c \in Clients, WaitTells(g, c) PROVE ClientInv'
    BY <2>11 DEF ClientInv, WaitTells
  <2>12. CASE RecoverFinds(g)
    BY <2>12 DEF ClientInv, RecoverFinds
  <2> QED
    BY <1>2, <2>1, <2>2, <2>3, <2>4, <2>5, <2>6, <2>7, <2>8, <2>9, <2>10, <2>11, <2>12
    DEF Recovery
<1>3. ASSUME NEW c \in Clients, Client(c) PROVE ClientInv'
  <2>1. CASE Open(c)
    BY <2>1 DEF ClientInv, Open, TypeOK
  <2>2. CASE AttachRefused(c)
    BY <2>2, RefuseClient DEF ClientInv, AttachRefused
  <2>3. CASE AttachTries(c)
    <3>1. att[c] = "try" /\ stream[c] = "open" /\ UNCHANGED <<stream, concurrency>>
          /\ (concurrency = "one-to-one" => clients = {})
      BY <2>3 DEF TypeOK, ClientInv, AttachTries, Refused
    <3>2. clients' \subseteq clients \cup {c} /\ (c \in clients' => att'[c] = "done")
      BY <2>3, <3>1 DEF TypeOK, ClientInv, AttachTries, Attach
    <3>3. \A d \in Clients : d # c => att'[d] = att[d]
      BY <2>3 DEF TypeOK, AttachTries, Attach
    <3> QED
      BY <3>1, <3>2, <3>3 DEF ClientInv
  <2>4. CASE AttachWakes(c)
    BY <2>4, RefuseClient DEF ClientInv, AttachWakes, TypeOK
  <2>5. CASE Ask(c)
    BY <2>5 DEF ClientInv, Ask
  <2>6. CASE Route(c)
    BY <2>6 DEF ClientInv, Route
  <2>7. CASE AnswerClient(c)
    BY <2>7 DEF ClientInv, AnswerClient
  <2>8. CASE Close(c)
    BY <2>8, ClosesClient DEF ClientInv, Close
  <2>9. CASE DetachSettles(c)
    BY <2>9 DEF ClientInv, DetachSettles
  <2>10. CASE DetachTimesOut(c)
    BY <2>10 DEF ClientInv, DetachTimesOut
  <2> QED
    BY <1>3, <2>1, <2>2, <2>3, <2>4, <2>5, <2>6, <2>7, <2>8, <2>9, <2>10 DEF Client
<1>4. CASE OperatorStep
  <2>1. CASE OpDrains
    BY <2>1 DEF ClientInv, OpDrains
  <2>2. CASE OpStops
    BY <2>2 DEF ClientInv, OpStops
  <2>3. ASSUME NEW c \in Clients, OpCloses(c) PROVE ClientInv'
    BY <2>3, ClosesClient DEF ClientInv, OpCloses
  <2>4. CASE OpCallsStop
    BY <2>4 DEF ClientInv, OpCallsStop
  <2>5. CASE OpStopEnds
    BY <2>5 DEF ClientInv, OpStopEnds
  <2>6. CASE OpRestarts
    BY <2>6 DEF ClientInv, OpRestarts
  <2>7. CASE OpReplaces
    BY <2>7 DEF ClientInv, OpReplaces
  <2>8. CASE OpReplaced
    BY <2>8 DEF ClientInv, OpReplaced
  <2>9. CASE OpRestartEnds
    BY <2>9 DEF ClientInv, OpRestartEnds
  <2> QED
    BY <1>4, <2>1, <2>2, <2>3, <2>4, <2>5, <2>6, <2>7, <2>8, <2>9 DEF OperatorStep
<1>5. CASE Crash
  BY <1>5 DEF ClientInv, Crash
<1>6. CASE TaskFails
  BY <1>6 DEF ClientInv, TaskFails
<1>7. CASE Dispatch
  BY <1>7 DEF ClientInv, Dispatch
<1>8. CASE AnswerBridge
  BY <1>8 DEF ClientInv, AnswerBridge
<1>9. ASSUME NEW s \in Callers, StopWakes(s) PROVE ClientInv'
  BY <1>9 DEF ClientInv, StopWakes
<1>10. CASE UNCHANGED vars
  BY <1>10 DEF ClientInv, vars
<1> QED
  BY <1>1, <1>2, <1>3, <1>4, <1>5, <1>6, <1>7, <1>8, <1>9, <1>10 DEF Next

\* No backend ever holds a client whose stream is closed, however long the attach
\* call waited, and however the stream was closed meanwhile.
THEOREM ClientsAreOpen == Spec => []AttachedStreamsAreOpen
<1>1. Init => ClientInv
  BY DEF Init, ClientInv
<1>2. ClientInv => AttachedStreamsAreOpen
  BY DEF ClientInv, AttachedStreamsAreOpen
<1> QED
  BY <1>1, <1>2, ClientStep, TypeCorrect, PTL DEF Spec

\* A one-to-one registration never has two clients, also when several attach
\* calls wait for the same generation.
THEOREM OneClientAdmitted == Spec => []AdmitsOneClient
<1>1. Init => ClientInv
  BY DEF Init, ClientInv
<1>2. ClientInv => AdmitsOneClient
  <2> SUFFICES ASSUME ClientInv, concurrency = "one-to-one"
               PROVE  Cardinality(clients) <= 1
    BY DEF AdmitsOneClient
  <2>1. CASE clients = {}
    BY <2>1, FS_EmptySet
  <2>2. CASE clients # {}
    <3>1. PICK c \in clients : TRUE
      BY <2>2
    <3>2. clients = {c}
      BY <3>1 DEF ClientInv
    <3> QED
      BY <3>2, FS_Singleton
  <2> QED
    BY <2>1, <2>2
<1> QED
  BY <1>1, <1>2, ClientStep, TypeCorrect, PTL DEF Spec

\* Whatever attach calls wait for and whatever happens meanwhile, a backend's
\* clients are there and not more than its registration admits.
THEOREM ClientsStayFit == Spec => []ClientsFit
  BY ClientsAreOpen, OneClientAdmitted, PTL DEF ClientsFit

-----------------------------------------------------------------------------
(* Recovery.                                                                *)

\* The wait task of g reaped a crash and has not ended.
Crashed(g) ==
  wait[g] \in {"reap", "tell", "backoff", "await", "undo", "announce", "close"}

Restarting == op \in {"restart", "replacing", "announcing"}

\* A generation that was not spawned has no wait task.
LateAreOff == \A g \in Gens : g > generation => wait[g] = "off" /\ start[g] = "off"
BornAreOff == \A g \in Gens : start[g] \in {"demand", "replace"} => wait[g] = "off"
StartsAreBorn == state = "starting" => start[generation] \in {"demand", "replace"}

\* The wait task that recovers is recovery_task; a nested one reaps its crash and
\* leaves the rest to it.
CrashedAreRecTask == \A g \in Gens : Crashed(g) /\ g \notin nested => recTask = g
NestedEnd == \A g \in nested : wait[g] \in {"reap", "tell", "done", "dead"} /\ recTask # g
RecTaskCrashed == recTask # 0 => wait[recTask] \notin {"off", "wait"}

\* A generation whose crash is reaped or recovered from never runs again, and is
\* stopped by nobody else: no stop can cancel its wait task.
CrashedGone ==
  \A g \in Gens : Crashed(g) =>
    stopper[g] # "run" /\ (g = generation => state \in {"stopping", "exited"})

\* A wait task that died of a failed send leaves its backend stopping for good.
DeadStays ==
  \A g \in Gens : wait[g] = "dead" =>
    g = generation /\ state = "stopping" /\ stopper[g] # "run"

\* While no restart is under way and the gate is shut, nobody but the recovery
\* starts a generation: it backs off beside none that starts or runs, and awaits
\* the one it started.
ShutIsIdle ==
  ~gate /\ ~Restarting =>
    \A g \in Gens :
      /\ wait[g] \in {"backoff", "undo"} => state \in {"exited", "stopping"}
      /\ wait[g] = "await" => repl[g] = generation \/ state \in {"exited", "stopping"}

RecoveryInv ==
  /\ LateAreOff /\ BornAreOff /\ StartsAreBorn
  /\ CrashedAreRecTask /\ NestedEnd /\ RecTaskCrashed
  /\ CrashedGone /\ DeadStays
  /\ ShutIsIdle /\ GateIsWatched

\* The types these proofs use.
LifeTypes ==
  /\ state \in {"exited", "starting", "running", "stopping"}
  /\ generation \in Nat /\ recTask \in {0} \cup Gens /\ nested \subseteq Gens
  /\ DOMAIN start = Gens /\ DOMAIN stopper = Gens /\ DOMAIN wait = Gens /\ DOMAIN repl = Gens
  /\ start = [g \in Gens |-> start[g]] /\ stopper = [g \in Gens |-> stopper[g]]
  /\ wait = [g \in Gens |-> wait[g]] /\ repl = [g \in Gens |-> repl[g]]
  /\ \A g \in Gens : g \in Nat /\ g # 0
  /\ \A g \in Nat : 0 < g /\ g <= generation => g \in Gens
  /\ gate \in BOOLEAN

\* They follow from the type invariant.
LEMMA TypesOfLife == TypeOK => LifeTypes
<1> SUFFICES ASSUME TypeOK PROVE LifeTypes
  OBVIOUS
<1>1. MaxGen \in Nat /\ Gens = 1..MaxGen
  BY ConstantsAssumption DEF ConstantsAssumption, Gens
<1>2. generation \in 0..MaxGen /\ recTask \in 0..MaxGen
  BY DEF TypeOK
<1>3. generation \in Nat /\ recTask \in {0} \cup Gens
  BY <1>1, <1>2
<1>4. \A g \in Gens : g \in Nat /\ g # 0
  BY <1>1
<1>5. \A g \in Nat : 0 < g /\ g <= generation => g \in Gens
  BY <1>1, <1>2
<1> QED
  BY <1>3, <1>4, <1>5 DEF TypeOK, LifeTypes

\* The recovery tables are left alone.
KeepsRecovery == UNCHANGED <<wait, nested, repl, recTask>>

\* Nobody is newly needed to open the gate.
KeepsWatch == ~gate' /\ ~Restarting' => ~gate /\ ~Restarting

\* A step that leaves the generation and the recovery alone keeps the invariant.
LEMMA KeepRecovery ==
  ASSUME LifeTypes, RecoveryInv, UNCHANGED genVars, KeepsRecovery, KeepsWatch
  PROVE  RecoveryInv'
<1> USE DEF genVars, KeepsRecovery
<1>1. LateAreOff' /\ BornAreOff' /\ StartsAreBorn'
  BY DEF RecoveryInv, LateAreOff, BornAreOff, StartsAreBorn
<1>2. CrashedAreRecTask' /\ NestedEnd' /\ RecTaskCrashed'
  BY DEF RecoveryInv, CrashedAreRecTask, NestedEnd, RecTaskCrashed, Crashed
<1>3. CrashedGone' /\ DeadStays'
  BY DEF RecoveryInv, CrashedGone, DeadStays, Crashed
<1>4. ShutIsIdle'
  BY DEF RecoveryInv, ShutIsIdle, KeepsWatch
<1>5. GateIsWatched'
  BY DEF RecoveryInv, GateIsWatched, KeepsWatch, WaitOver, Restarting
<1> QED
  BY <1>1, <1>2, <1>3, <1>4, <1>5 DEF RecoveryInv

\* Beginning a stop keeps the invariant: what runs is not what is recovered from.
LEMMA BeginStopRecovery ==
  ASSUME LifeTypes, RecoveryInv, state = "running", BeginStop, KeepsRecovery, KeepsWatch
  PROVE  RecoveryInv'
<1> USE DEF BeginStop, KeepsRecovery
<1>1. LateAreOff' /\ BornAreOff' /\ StartsAreBorn'
  BY DEF RecoveryInv, LateAreOff, BornAreOff, StartsAreBorn
<1>2. CrashedAreRecTask' /\ NestedEnd' /\ RecTaskCrashed'
  BY DEF RecoveryInv, CrashedAreRecTask, NestedEnd, RecTaskCrashed, Crashed
<1>3. CrashedGone'
  BY DEF RecoveryInv, CrashedGone, Crashed, LifeTypes
<1>4. DeadStays'
  BY DEF RecoveryInv, DeadStays, LifeTypes
<1>5. ShutIsIdle'
  BY DEF RecoveryInv, ShutIsIdle, KeepsWatch
<1>6. GateIsWatched'
  BY DEF RecoveryInv, GateIsWatched, KeepsWatch, WaitOver, Restarting
<1> QED
  BY <1>1, <1>2, <1>3, <1>4, <1>5, <1>6 DEF RecoveryInv

\* So does the start of a generation by a restart or while the gate is open.
LEMMA StartGenerationRecovery ==
  ASSUME LifeTypes, RecoveryInv, NEW how \in {"demand", "replace"}, StartGeneration(how),
         generation + 1 \in Gens, KeepsRecovery, KeepsWatch, gate' \/ Restarting'
  PROVE  RecoveryInv'
<1> USE DEF StartGeneration, KeepsRecovery
<1>1. LateAreOff' /\ BornAreOff' /\ StartsAreBorn'
  BY DEF RecoveryInv, LateAreOff, BornAreOff, StartsAreBorn, LifeTypes
<1>2. CrashedAreRecTask' /\ NestedEnd' /\ RecTaskCrashed'
  BY DEF RecoveryInv, CrashedAreRecTask, NestedEnd, RecTaskCrashed, Crashed
<1>3. CrashedGone'
  BY DEF RecoveryInv, CrashedGone, Crashed, LifeTypes, LateAreOff
<1>4. DeadStays'
  BY DEF RecoveryInv, DeadStays, LifeTypes
<1>5. ShutIsIdle'
  BY DEF ShutIsIdle
<1>6. GateIsWatched'
  BY DEF GateIsWatched, Restarting
<1> QED
  BY <1>1, <1>2, <1>3, <1>4, <1>5, <1>6 DEF RecoveryInv

\* Nobody is when the gate and the Operator are left alone.
LEMMA QuietWatch == UNCHANGED <<gate, op>> => KeepsWatch
BY DEF KeepsWatch, Restarting

\* The generation after the current one is within the bound.
LEMMA NextGeneration ==
  ASSUME TypeOK, NEW how, StartGeneration(how) PROVE generation + 1 \in Gens
BY ConstantsAssumption DEF ConstantsAssumption, TypeOK, StartGeneration, Gens

\* _stop_if_unused keeps the recovery invariant.
LEMMA StopIfUnusedRecovery ==
  ASSUME LifeTypes, RecoveryInv, NEW left, StopIfUnused(left), KeepsRecovery, KeepsWatch
  PROVE  RecoveryInv'
BY KeepRecovery, BeginStopRecovery DEF StopIfUnused

\* A round of stop() keeps the recovery invariant.
LEMMA CallsStopRecovery ==
  ASSUME LifeTypes, RecoveryInv, NEW s, CallsStop(s), KeepsRecovery, KeepsWatch
  PROVE  RecoveryInv'
BY KeepRecovery, BeginStopRecovery DEF CallsStop

\* _close_stream with its detach keeps the recovery invariant.
LEMMA ClosesRecovery ==
  ASSUME LifeTypes, RecoveryInv, NEW c, Closes(c), KeepsRecovery, KeepsWatch
  PROVE  RecoveryInv'
BY KeepRecovery, StopIfUnusedRecovery DEF Closes

\* A round of attach() keeps the recovery invariant: it starts nothing while the
\* gate is shut.
LEMMA AttachRecovery ==
  ASSUME TypeOK, LifeTypes, RecoveryInv, NEW c, Attach(c), KeepsRecovery, UNCHANGED <<gate, op>>
  PROVE  RecoveryInv'
<1>1. KeepsWatch
  BY QuietWatch
<1>2. CASE gate /\ state = "exited"
  <2>1. StartGeneration("demand") /\ gate'
    BY <1>2 DEF Attach
  <2> QED
    BY <1>1, <2>1, NextGeneration, StartGenerationRecovery
<1>3. CASE ~(gate /\ state = "exited")
  BY <1>1, <1>3, KeepRecovery DEF Attach
<1> QED
  BY <1>2, <1>3

\* What clients do keeps the recovery invariant.
LEMMA ClientRecovery ==
  ASSUME TypeOK, LifeTypes, RecoveryInv, NEW c \in Clients, Client(c)
  PROVE  RecoveryInv'
<1> USE QuietWatch DEF waitVars, opVars, KeepsRecovery
<1>1. CASE Open(c)
  BY <1>1, KeepRecovery DEF Open
<1>2. CASE AttachRefused(c)
  BY <1>2, KeepRecovery DEF AttachRefused, Refuse
<1>3. CASE AttachTries(c)
  BY <1>3, AttachRecovery DEF AttachTries
<1>4. CASE AttachWakes(c)
  BY <1>4, KeepRecovery DEF AttachWakes, Refuse
<1>5. CASE Ask(c)
  BY <1>5, KeepRecovery DEF Ask
<1>6. CASE Route(c)
  BY <1>6, KeepRecovery DEF Route
<1>7. CASE AnswerClient(c)
  BY <1>7, KeepRecovery DEF AnswerClient
<1>8. CASE Close(c)
  BY <1>8, ClosesRecovery DEF Close
<1>9. CASE DetachSettles(c)
  BY <1>9, StopIfUnusedRecovery DEF DetachSettles
<1>10. CASE DetachTimesOut(c)
  BY <1>10, CallsStopRecovery DEF DetachTimesOut
<1> QED
  BY <1>1, <1>2, <1>3, <1>4, <1>5, <1>6, <1>7, <1>8, <1>9, <1>10 DEF Client

\* What the Operator does keeps the recovery invariant: it opens the gate when a
\* restart ends.
LEMMA OperatorRecovery ==
  ASSUME TypeOK, LifeTypes, RecoveryInv, OperatorStep
  PROVE  RecoveryInv'
<1> USE DEF waitVars, opVars, KeepsRecovery
<1>1. CASE OpDrains
  BY <1>1, QuietWatch, KeepRecovery DEF OpDrains
<1>2. CASE OpStops
  <2>1. KeepsWatch
    BY <1>2 DEF OpStops, Begins, KeepsWatch, Restarting
  <2> QED
    BY <1>2, <2>1, KeepRecovery DEF OpStops
<1>3. ASSUME NEW c \in Clients, OpCloses(c) PROVE RecoveryInv'
  <2>1. CASE stream[c] = "open"
    BY <1>3, <2>1, QuietWatch, ClosesRecovery DEF OpCloses
  <2>2. CASE stream[c] # "open"
    BY <1>3, <2>2, QuietWatch, KeepRecovery DEF OpCloses
  <2> QED
    BY <2>1, <2>2
<1>4. CASE OpCallsStop
  <2>1. KeepsWatch
    BY <1>4 DEF OpCallsStop, KeepsWatch, Restarting
  <2> QED
    BY <1>4, <2>1, CallsStopRecovery DEF OpCallsStop
<1>5. CASE OpStopEnds
  <2>1. KeepsWatch
    BY <1>5 DEF OpStopEnds, KeepsWatch, Restarting
  <2> QED
    BY <1>5, <2>1, KeepRecovery DEF OpStopEnds
<1>6. CASE OpRestarts
  <2>1. KeepsWatch
    BY <1>6 DEF OpRestarts, KeepsWatch, Restarting
  <2> QED
    BY <1>6, <2>1, CallsStopRecovery, KeepRecovery DEF OpRestarts
<1>7. CASE OpReplaces
  <2>1. KeepsWatch /\ (gate' \/ Restarting')
    BY <1>7 DEF OpReplaces, KeepsWatch, Restarting
  <2>2. StartGeneration("replace") \/ UNCHANGED genVars
    BY <1>7 DEF OpReplaces
  <2> QED
    BY <1>7, <2>1, <2>2, NextGeneration, StartGenerationRecovery, KeepRecovery DEF OpReplaces
<1>8. CASE OpReplaced
  <2>1. KeepsWatch
    BY <1>8 DEF OpReplaced, KeepsWatch, Restarting
  <2> QED
    BY <1>8, <2>1, KeepRecovery DEF OpReplaced
<1>9. CASE OpRestartEnds
  <2>1. KeepsWatch
    BY <1>9 DEF OpRestartEnds, KeepsWatch, Restarting
  <2> QED
    BY <1>9, <2>1, KeepRecovery DEF OpRestartEnds
<1> QED
  BY <1>1, <1>2, <1>3, <1>4, <1>5, <1>6, <1>7, <1>8, <1>9 DEF OperatorStep

\* What a process and the tasks that start and stop it do keeps the invariant.
LEMMA ProcessRecovery ==
  ASSUME TypeOK, LifeTypes, GenerationInv, RecoveryInv, NEW g \in Gens, Process(g)
  PROVE  RecoveryInv'
<1> USE QuietWatch DEF waitVars, opVars, KeepsRecovery
<1>1. CASE Spawned(g)
  <2>1. /\ g = generation /\ start[g] \in {"demand", "replace"} /\ wait[g] = "off"
        /\ state = "starting" /\ state' = "running" /\ wait' = [wait EXCEPT ![g] = "wait"]
        /\ start' = [start EXCEPT ![g] = IF @ = "replace" THEN "init" ELSE "ok"]
        /\ UNCHANGED <<generation, stopper, nested, repl, recTask, gate, op>>
    BY <1>1 DEF Spawned, RecoveryInv, BornAreOff, GenerationInv
  <2> DEFINE new == wait'
             begun == start'
  <2>2. /\ new[g] = "wait" /\ \A h \in Gens : h # g => new[h] = wait[h]
        /\ begun[g] \notin {"demand", "replace", "off"}
        /\ \A h \in Gens : h # g => begun[h] = start[h]
    BY <2>1 DEF LifeTypes
  <2> HIDE DEF new, begun
  <2>3. LateAreOff' /\ BornAreOff' /\ StartsAreBorn'
    BY <2>1, <2>2 DEF RecoveryInv, LateAreOff, BornAreOff, StartsAreBorn, LifeTypes, new, begun
  <2>4. CrashedAreRecTask' /\ NestedEnd' /\ RecTaskCrashed'
    BY <2>1, <2>2 DEF RecoveryInv, CrashedAreRecTask, NestedEnd, RecTaskCrashed, Crashed,
                      LifeTypes, new
  <2>5. CrashedGone' /\ DeadStays'
    BY <2>1, <2>2 DEF RecoveryInv, CrashedGone, DeadStays, Crashed, LifeTypes, new
  <2>6. ShutIsIdle'
    BY <2>1, <2>2 DEF RecoveryInv, ShutIsIdle, Restarting, new
  <2>7. GateIsWatched'
    BY <2>1, <2>2 DEF RecoveryInv, GateIsWatched, RecTaskCrashed, WaitOver, LifeTypes, new
  <2> QED
    BY <2>3, <2>4, <2>5, <2>6, <2>7 DEF RecoveryInv
<1>2. CASE SpawnFails(g)
  <2>1. /\ g = generation /\ start[g] \in {"demand", "replace"}
        /\ state = "starting" /\ state' = "exited"
        /\ start' = [start EXCEPT ![g] = "failed"]
        /\ UNCHANGED <<generation, stopper, wait, nested, repl, recTask, gate, op>>
    BY <1>2 DEF SpawnFails, GenerationInv
  <2>2. LateAreOff' /\ BornAreOff' /\ StartsAreBorn'
    BY <2>1 DEF RecoveryInv, LateAreOff, BornAreOff, StartsAreBorn, LifeTypes
  <2>3. CrashedAreRecTask' /\ NestedEnd' /\ RecTaskCrashed'
    BY <2>1 DEF RecoveryInv, CrashedAreRecTask, NestedEnd, RecTaskCrashed, Crashed
  <2>4. CrashedGone' /\ DeadStays' /\ ShutIsIdle'
    BY <2>1 DEF RecoveryInv, CrashedGone, DeadStays, Crashed, ShutIsIdle, Restarting
  <2>5. GateIsWatched'
    BY <2>1 DEF RecoveryInv, GateIsWatched, WaitOver
  <2> QED
    BY <2>2, <2>3, <2>4, <2>5 DEF RecoveryInv
<1>3. CASE InitSucceeds(g) \/ InitFails(g)
  <2>1. /\ start[g] = "init" /\ UNCHANGED <<state, generation, stopper>>
        /\ start' \in {[start EXCEPT ![g] = "ok"], [start EXCEPT ![g] = "failed"]}
        /\ UNCHANGED <<wait, nested, repl, recTask, gate, op>>
    BY <1>3 DEF InitSucceeds, InitFails
  <2>2. LateAreOff' /\ BornAreOff' /\ StartsAreBorn'
    BY <2>1 DEF RecoveryInv, LateAreOff, BornAreOff, StartsAreBorn, LifeTypes
  <2>3. CrashedAreRecTask' /\ NestedEnd' /\ RecTaskCrashed'
    BY <2>1 DEF RecoveryInv, CrashedAreRecTask, NestedEnd, RecTaskCrashed, Crashed
  <2>4. CrashedGone' /\ DeadStays' /\ ShutIsIdle'
    BY <2>1 DEF RecoveryInv, CrashedGone, DeadStays, Crashed, ShutIsIdle, Restarting
  <2>5. GateIsWatched'
    BY <2>1 DEF RecoveryInv, GateIsWatched, WaitOver
  <2> QED
    BY <2>2, <2>3, <2>4, <2>5 DEF RecoveryInv
<1>4. CASE StopFailed(g)
  BY <1>4, BeginStopRecovery, KeepRecovery DEF StopFailed
<1>5. CASE StopEndsProcess(g)
  BY <1>5, KeepRecovery DEF StopEndsProcess
<1>6. CASE StopFinishes(g)
  <2>1. /\ stopper[g] = "run" /\ g = generation /\ state = "stopping" /\ state' = "exited"
        /\ stopper' = [stopper EXCEPT ![g] = "done"] /\ wait' = [wait EXCEPT ![g] = "done"]
        /\ UNCHANGED <<generation, start, nested, repl, recTask, gate, op>>
    BY <1>6 DEF StopFinishes, GenerationInv
  <2>2. /\ ~Crashed(g) /\ wait[g] # "dead"
        /\ \A h \in Gens : wait[h] # "dead"
    BY <2>1 DEF RecoveryInv, CrashedGone, DeadStays, LifeTypes
  <2>3. LateAreOff' /\ BornAreOff' /\ StartsAreBorn'
    <3>1. start[g] \notin {"demand", "replace"}
      BY <2>1 DEF GenerationInv
    <3> QED
      BY <2>1, <3>1 DEF RecoveryInv, LateAreOff, BornAreOff, StartsAreBorn, LifeTypes
  <2>4. CrashedAreRecTask' /\ NestedEnd' /\ RecTaskCrashed'
    BY <2>1, <2>2 DEF RecoveryInv, CrashedAreRecTask, NestedEnd, RecTaskCrashed, Crashed,
                      LifeTypes
  <2>5. CrashedGone' /\ DeadStays'
    BY <2>1, <2>2 DEF RecoveryInv, CrashedGone, DeadStays, Crashed, LifeTypes
  <2>6. ShutIsIdle'
    BY <2>1 DEF RecoveryInv, ShutIsIdle, Restarting, LifeTypes
  <2>7. GateIsWatched'
    BY <2>1, <2>2 DEF RecoveryInv, GateIsWatched, RecTaskCrashed, WaitOver, LifeTypes, Crashed, TypeOK
  <2> QED
    BY <2>3, <2>4, <2>5, <2>6, <2>7 DEF RecoveryInv
<1> QED
  BY <1>1, <1>2, <1>3, <1>4, <1>5, <1>6 DEF Process

\* A wait task that reaps or recovers goes on to its next step.
LEMMA TaskRecovery ==
  ASSUME LifeTypes, RecoveryInv, NEW g \in Gens, NEW next,
         wait' = [wait EXCEPT ![g] = next],
         <<wait[g], next>> \in {<<"reap", "tell">>, <<"backoff", "close">>,
                                <<"undo", "backoff">>, <<"await", "announce">>},
         UNCHANGED <<genVars, nested, repl, recTask, gate, op>>
  PROVE  RecoveryInv'
<1> USE DEF genVars
<1>1. LateAreOff' /\ BornAreOff' /\ StartsAreBorn'
  BY DEF RecoveryInv, LateAreOff, BornAreOff, StartsAreBorn, LifeTypes
<1>2. CrashedAreRecTask' /\ NestedEnd' /\ RecTaskCrashed'
  BY DEF RecoveryInv, CrashedAreRecTask, NestedEnd, RecTaskCrashed, Crashed, LifeTypes
<1>3. CrashedGone' /\ DeadStays'
  BY DEF RecoveryInv, CrashedGone, DeadStays, Crashed, LifeTypes
<1>4. ShutIsIdle'
  BY DEF RecoveryInv, ShutIsIdle, Restarting, LifeTypes
<1>5. GateIsWatched'
  BY DEF RecoveryInv, GateIsWatched, WaitOver, LifeTypes
<1> QED
  BY <1>1, <1>2, <1>3, <1>4, <1>5 DEF RecoveryInv

\* The wait task that recovers ends.
LEMMA EndRecovery ==
  ASSUME LifeTypes, RecoveryInv, NEW g \in Gens, Crashed(g), g \notin nested,
         wait' = [wait EXCEPT ![g] = "done"], recTask' = 0,
         UNCHANGED <<genVars, nested, repl, op>>,
         gate' \/ Restarting'
  PROVE  RecoveryInv'
<1> USE DEF genVars
<1>1. LateAreOff' /\ BornAreOff' /\ StartsAreBorn'
  BY DEF RecoveryInv, LateAreOff, BornAreOff, StartsAreBorn, LifeTypes, Crashed
<1>2. CrashedAreRecTask' /\ NestedEnd' /\ RecTaskCrashed'
  BY DEF RecoveryInv, CrashedAreRecTask, NestedEnd, RecTaskCrashed, Crashed, LifeTypes
<1>3. CrashedGone' /\ DeadStays'
  BY DEF RecoveryInv, CrashedGone, DeadStays, Crashed, LifeTypes
<1>4. ShutIsIdle' /\ GateIsWatched'
  BY DEF ShutIsIdle, GateIsWatched, Restarting
<1> QED
  BY <1>1, <1>2, <1>3, <1>4 DEF RecoveryInv

\* What a wait task does keeps the recovery invariant.
LEMMA WaitRecovery ==
  ASSUME TypeOK, LifeTypes, GenerationInv, RecoveryInv, NEW g \in Gens, Recovery(g)
  PROVE  RecoveryInv'
<1> USE DEF opVars
<1>1. CASE WaitWakes(g)
  <2>1. CASE state = "running" /\ generation = g
    <3>1. /\ wait[g] = "wait" /\ state' = "stopping" /\ gate' = FALSE
          /\ wait' = [wait EXCEPT ![g] = "reap"]
          /\ recTask' = IF SomebodyRecovers THEN recTask ELSE g
          /\ nested' = IF SomebodyRecovers THEN nested \cup {g} ELSE nested
          /\ UNCHANGED <<generation, start, stopper, repl, op>>
      BY <1>1, <2>1 DEF WaitWakes
    <3>2. stopper[g] # "run" /\ recTask # g
      BY <2>1, <3>1 DEF GenerationInv, RecoveryInv, RecTaskCrashed, LifeTypes
    <3>3. LateAreOff' /\ BornAreOff' /\ StartsAreBorn'
      BY <2>1, <3>1 DEF RecoveryInv, LateAreOff, BornAreOff, StartsAreBorn, LifeTypes
    <3>4. NestedEnd' /\ RecTaskCrashed'
      BY <3>1, <3>2 DEF RecoveryInv, NestedEnd, RecTaskCrashed, SomebodyRecovers, LifeTypes
    <3>5. CrashedAreRecTask'
      <4>1. ASSUME NEW h \in Gens, h # g, Crashed(h), h \notin nested
            PROVE  recTask = h /\ SomebodyRecovers
        BY <4>1 DEF RecoveryInv, CrashedAreRecTask, Crashed, SomebodyRecovers, WaitOver,
                    LifeTypes
      <4> QED
        BY <3>1, <4>1 DEF CrashedAreRecTask, Crashed, LifeTypes
    <3>6. CrashedGone' /\ DeadStays'
      BY <2>1, <3>1, <3>2 DEF RecoveryInv, CrashedGone, DeadStays, Crashed, LifeTypes
    <3>7. ShutIsIdle'
      BY <3>1 DEF ShutIsIdle, LifeTypes
    <3>8. GateIsWatched'
      BY <3>1, <3>2 DEF GateIsWatched, SomebodyRecovers, WaitOver, LifeTypes
    <3> QED
      BY <3>3, <3>4, <3>5, <3>6, <3>7, <3>8 DEF RecoveryInv
  <2>2. CASE ~(state = "running" /\ generation = g)
    <3>1. /\ wait[g] = "wait" /\ wait' = [wait EXCEPT ![g] = "done"]
          /\ UNCHANGED <<state, generation, start, stopper, nested, repl, recTask, gate, op>>
      BY <1>1, <2>2 DEF WaitWakes
    <3>2. LateAreOff' /\ BornAreOff' /\ StartsAreBorn'
      BY <3>1 DEF RecoveryInv, LateAreOff, BornAreOff, StartsAreBorn, LifeTypes
    <3>3. CrashedAreRecTask' /\ NestedEnd' /\ RecTaskCrashed'
      BY <3>1 DEF RecoveryInv, CrashedAreRecTask, NestedEnd, RecTaskCrashed, Crashed, LifeTypes
    <3>4. CrashedGone' /\ DeadStays'
      BY <3>1 DEF RecoveryInv, CrashedGone, DeadStays, Crashed, LifeTypes
    <3>5. ShutIsIdle'
      BY <3>1 DEF RecoveryInv, ShutIsIdle, Restarting, LifeTypes
    <3>6. GateIsWatched'
      BY <3>1 DEF RecoveryInv, GateIsWatched, RecTaskCrashed, WaitOver, LifeTypes
    <3> QED
      BY <3>2, <3>3, <3>4, <3>5, <3>6 DEF RecoveryInv
  <2> QED
    BY <2>1, <2>2
<1>2. CASE WaitReaped(g)
  BY <1>2, TaskRecovery DEF WaitReaped
<1>3. ASSUME NEW c \in Clients, WaitTells(g, c) PROVE RecoveryInv'
  <2>1. CASE wait' = wait
    <3>1. UNCHANGED genVars /\ KeepsRecovery /\ KeepsWatch
      BY <1>3, <2>1 DEF WaitTells, KeepsRecovery, KeepsWatch, Restarting
    <3> QED
      BY <3>1, KeepRecovery
  <2>2. CASE wait' # wait
    <3>1. /\ wait[g] = "tell" /\ wait' = [wait EXCEPT ![g] = "dead"]
          /\ UNCHANGED <<state, generation, start, stopper, nested, repl, recTask, gate, op>>
      BY <1>3, <2>2 DEF WaitTells, genVars
    <3>2. g = generation /\ state = "stopping" /\ stopper[g] # "run"
      BY <3>1 DEF GenerationInv
    <3>3. LateAreOff' /\ BornAreOff' /\ StartsAreBorn'
      BY <3>1 DEF RecoveryInv, LateAreOff, BornAreOff, StartsAreBorn, LifeTypes
    <3>4. CrashedAreRecTask' /\ NestedEnd' /\ RecTaskCrashed'
      BY <3>1 DEF RecoveryInv, CrashedAreRecTask, NestedEnd, RecTaskCrashed, Crashed, LifeTypes
    <3>5. CrashedGone' /\ DeadStays'
      BY <3>1, <3>2 DEF RecoveryInv, CrashedGone, DeadStays, Crashed, LifeTypes
    <3>6. ShutIsIdle'
      BY <3>1 DEF RecoveryInv, ShutIsIdle, Restarting, LifeTypes
    <3>7. GateIsWatched'
      BY <3>1 DEF GateIsWatched, LifeTypes
    <3> QED
      BY <3>3, <3>4, <3>5, <3>6, <3>7 DEF RecoveryInv
  <2> QED
    BY <2>1, <2>2
<1>4. CASE WaitFails(g)
  <2>1. PICK next \in {"done", "backoff", "close"} :
          /\ wait[g] = "tell" /\ wait' = [wait EXCEPT ![g] = next] /\ state' = "exited"
          /\ (next = "done") <=> (g \in nested)
          /\ UNCHANGED <<generation, start, stopper, nested, repl, recTask, gate, op>>
    BY <1>4 DEF WaitFails
  <2>2. g = generation /\ state = "stopping"
    BY <2>1 DEF GenerationInv
  <2>3. LateAreOff' /\ BornAreOff' /\ StartsAreBorn'
    BY <2>1 DEF RecoveryInv, LateAreOff, BornAreOff, StartsAreBorn, LifeTypes
  <2>4. CrashedAreRecTask' /\ NestedEnd' /\ RecTaskCrashed'
    BY <2>1 DEF RecoveryInv, CrashedAreRecTask, NestedEnd, RecTaskCrashed, Crashed, LifeTypes
  <2>5. CrashedGone' /\ DeadStays'
    BY <2>1, <2>2 DEF RecoveryInv, CrashedGone, DeadStays, Crashed, LifeTypes
  <2>6. ShutIsIdle'
    BY <2>1 DEF RecoveryInv, ShutIsIdle, Restarting, LifeTypes
  <2>7. GateIsWatched'
    BY <2>1, <2>2 DEF RecoveryInv, GateIsWatched, NestedEnd, DeadStays, WaitOver, LifeTypes
  <2> QED
    BY <2>3, <2>4, <2>5, <2>6, <2>7 DEF RecoveryInv
<1>5. CASE WaitCloses(g)
  <2>1. Crashed(g) /\ g \notin nested
    BY <1>5 DEF WaitCloses, Crashed, RecoveryInv, NestedEnd
  <2> QED
    BY <1>5, <2>1, EndRecovery DEF WaitCloses
<1>6. CASE RecoverGivesUp(g)
  BY <1>6, TaskRecovery DEF RecoverGivesUp
<1>7. CASE RecoverFinds(g)
  <2>1. CASE state = "running"
    <3>1. Crashed(g) /\ g \notin nested /\ ~gate
      BY <1>7 DEF RecoverFinds, Crashed, RecoveryInv, NestedEnd, RecoveryOff
    <3>2. Restarting
      BY <1>7, <2>1, <3>1 DEF RecoverFinds, RecoveryInv, ShutIsIdle
    <3> QED
      BY <1>7, <2>1, <3>1, <3>2, EndRecovery DEF RecoverFinds, Restarting
  <2>2. CASE state # "running"
    BY <1>7, <2>2, TaskRecovery DEF RecoverFinds
  <2> QED
    BY <2>1, <2>2
<1>8. CASE RecoverStarts(g)
  <2>1. /\ wait[g] = "backoff" /\ state = "exited" /\ state' = "starting"
        /\ generation' = generation + 1 /\ generation + 1 \in Gens
        /\ start' = [start EXCEPT ![generation + 1] = "replace"]
        /\ repl' = [repl EXCEPT ![g] = generation + 1]
        /\ wait' = [wait EXCEPT ![g] = "await"]
        /\ UNCHANGED <<stopper, nested, recTask, gate, op>>
    BY <1>8, NextGeneration DEF RecoverStarts, StartGeneration
  <2>2. g # generation + 1 /\ wait[generation + 1] = "off"
    BY <2>1 DEF RecoveryInv, LateAreOff, LifeTypes
  <2>3. \A h \in Gens : Crashed(h) /\ wait[h] \notin {"reap", "tell"} => h = g
    <3>1. g \notin nested
      BY <2>1 DEF RecoveryInv, NestedEnd
    <3> QED
      BY <2>1, <3>1 DEF RecoveryInv, NestedEnd, CrashedAreRecTask, Crashed
  <2>4. LateAreOff' /\ BornAreOff' /\ StartsAreBorn'
    BY <2>1, <2>2 DEF RecoveryInv, LateAreOff, BornAreOff, StartsAreBorn, LifeTypes
  <2>5. CrashedAreRecTask' /\ NestedEnd' /\ RecTaskCrashed'
    BY <2>1 DEF RecoveryInv, CrashedAreRecTask, NestedEnd, RecTaskCrashed, Crashed, LifeTypes
  <2>6. CrashedGone' /\ DeadStays'
    BY <2>1, <2>2 DEF RecoveryInv, CrashedGone, DeadStays, Crashed, LifeTypes
  <2>7. ShutIsIdle'
    BY <2>1, <2>3 DEF ShutIsIdle, Crashed, LifeTypes
  <2>8. GateIsWatched'
    BY <2>1 DEF RecoveryInv, GateIsWatched, WaitOver, LifeTypes
  <2> QED
    BY <2>4, <2>5, <2>6, <2>7, <2>8 DEF RecoveryInv
<1>9. CASE RecoverFails(g)
  <2>1. /\ wait[g] = "await" /\ start[repl[g]] = "failed"
        /\ wait' = [wait EXCEPT ![g] = "undo"]
        /\ UNCHANGED <<nested, repl, recTask, gate, op>>
        /\ IF repl[g] = generation /\ state = "running" THEN BeginStop ELSE UNCHANGED genVars
    BY <1>9 DEF RecoverFails
  <2>2. /\ wait'[g] = "undo"
        /\ \A h \in Gens : h # g => wait'[h] = wait[h]
    BY <2>1 DEF LifeTypes
  <2>3. CASE repl[g] = generation /\ state = "running"
    <3>1. /\ state' = "stopping" /\ stopper' = [stopper EXCEPT ![generation] = "run"]
          /\ UNCHANGED <<generation, start>>
      BY <2>1, <2>3 DEF BeginStop
    <3>2. LateAreOff' /\ BornAreOff' /\ StartsAreBorn'
      BY <2>1, <2>3, <3>1 DEF RecoveryInv, LateAreOff, BornAreOff, StartsAreBorn, LifeTypes
    <3>3. CrashedAreRecTask' /\ NestedEnd' /\ RecTaskCrashed'
      BY <2>1 DEF RecoveryInv, CrashedAreRecTask, NestedEnd, RecTaskCrashed, Crashed, LifeTypes
    <3>4. CrashedGone' /\ DeadStays'
      BY <2>1, <2>3, <3>1 DEF RecoveryInv, CrashedGone, DeadStays, Crashed, LifeTypes
    <3>5. ShutIsIdle'
      BY <3>1 DEF ShutIsIdle
    <3>6. GateIsWatched'
      BY <2>1 DEF RecoveryInv, GateIsWatched, WaitOver, LifeTypes
    <3> QED
      BY <3>2, <3>3, <3>4, <3>5, <3>6 DEF RecoveryInv
  <2>4. CASE ~(repl[g] = generation /\ state = "running")
    <3>1. UNCHANGED <<state, generation, start, stopper>>
      BY <2>1, <2>4 DEF genVars
    <3>2. LateAreOff' /\ BornAreOff' /\ StartsAreBorn'
      BY <2>1, <3>1 DEF RecoveryInv, LateAreOff, BornAreOff, StartsAreBorn, LifeTypes
    <3>3. CrashedAreRecTask' /\ NestedEnd' /\ RecTaskCrashed'
      BY <2>1 DEF RecoveryInv, CrashedAreRecTask, NestedEnd, RecTaskCrashed, Crashed, LifeTypes
    <3>4. CrashedGone' /\ DeadStays'
      BY <2>1, <3>1 DEF RecoveryInv, CrashedGone, DeadStays, Crashed, LifeTypes
    <3>5. ShutIsIdle'
      <4>1. ~gate /\ ~Restarting => state \in {"exited", "stopping"}
        BY <2>1, <2>4 DEF RecoveryInv, ShutIsIdle, StartsAreBorn, LifeTypes
      <4> QED
        BY <2>1, <2>2, <3>1, <4>1 DEF RecoveryInv, ShutIsIdle, Restarting
    <3>6. GateIsWatched'
      BY <2>1 DEF RecoveryInv, GateIsWatched, WaitOver, LifeTypes
    <3> QED
      BY <3>2, <3>3, <3>4, <3>5, <3>6 DEF RecoveryInv
  <2> QED
    BY <2>3, <2>4
<1>10. CASE RecoverRetries(g)
  BY <1>10, TaskRecovery DEF RecoverRetries
<1>11. CASE RecoverAnnounces(g)
  BY <1>11, TaskRecovery DEF RecoverAnnounces
<1>12. CASE RecoverEnds(g)
  <2>1. Crashed(g) /\ g \notin nested
    BY <1>12 DEF RecoverEnds, Crashed, RecoveryInv, NestedEnd
  <2> QED
    BY <1>12, <2>1, EndRecovery DEF RecoverEnds
<1> QED
  BY <1>1, <1>2, <1>3, <1>4, <1>5, <1>6, <1>7, <1>8, <1>9, <1>10, <1>11, <1>12 DEF Recovery

\* Every step keeps the recovery invariant.
LEMMA RecoveryStep ==
  TypeOK /\ GenerationInv /\ RecoveryInv /\ [Next]_vars => RecoveryInv'
<1> SUFFICES ASSUME TypeOK, GenerationInv, RecoveryInv, [Next]_vars PROVE RecoveryInv'
  OBVIOUS
<1> USE DEF waitVars, opVars, KeepsRecovery
<1>0. LifeTypes
  BY TypesOfLife
<1>1. ASSUME NEW g \in Gens, Process(g) PROVE RecoveryInv'
  BY <1>0, <1>1, ProcessRecovery
<1>2. ASSUME NEW g \in Gens, Recovery(g) PROVE RecoveryInv'
  BY <1>0, <1>2, WaitRecovery
<1>3. ASSUME NEW c \in Clients, Client(c) PROVE RecoveryInv'
  BY <1>0, <1>3, ClientRecovery
<1>4. CASE OperatorStep
  BY <1>0, <1>4, OperatorRecovery
<1>5. CASE Crash
  BY <1>0, <1>5, KeepRecovery, QuietWatch DEF Crash
<1>6. CASE TaskFails
  BY <1>0, <1>6, KeepRecovery, QuietWatch DEF TaskFails
<1>7. CASE Dispatch
  BY <1>0, <1>7, KeepRecovery, QuietWatch DEF Dispatch
<1>8. CASE AnswerBridge
  BY <1>0, <1>8, KeepRecovery, QuietWatch DEF AnswerBridge
<1>9. ASSUME NEW s \in Callers, StopWakes(s) PROVE RecoveryInv'
  BY <1>0, <1>9, CallsStopRecovery, KeepRecovery, QuietWatch DEF StopWakes
<1>10. CASE UNCHANGED vars
  BY <1>0, <1>10, KeepRecovery, QuietWatch DEF vars
<1> QED
  BY <1>1, <1>2, <1>3, <1>4, <1>5, <1>6, <1>7, <1>8, <1>9, <1>10 DEF Next

\* The initial states are quiet.
LEMMA InitRecovery == Init => GenerationInv /\ RecoveryInv
<1> SUFFICES ASSUME Init PROVE GenerationInv /\ RecoveryInv
  OBVIOUS
<1>1. GenerationInv
  BY DEF Init, GenerationInv
<1>2. LateAreOff /\ BornAreOff /\ StartsAreBorn
  BY DEF Init, LateAreOff, BornAreOff, StartsAreBorn
<1>3. CrashedAreRecTask /\ NestedEnd /\ RecTaskCrashed
  BY DEF Init, CrashedAreRecTask, NestedEnd, RecTaskCrashed, Crashed
<1>4. CrashedGone /\ DeadStays /\ ShutIsIdle /\ GateIsWatched
  BY DEF Init, CrashedGone, DeadStays, ShutIsIdle, GateIsWatched, Crashed
<1> QED
  BY <1>1, <1>2, <1>3, <1>4 DEF RecoveryInv

\* Whatever crashes, attach calls, restarts and stops overlap: one crash is recovered
\* from at a time, and a gate that is shut is going to be opened by a restart or a
\* recovery that is under way.
THEOREM RecoveryStaysSole == Spec => []RecoveryIsSole
<1>1. Init => GenerationInv /\ RecoveryInv
  BY InitRecovery
<1>2. RecoveryInv => RecoveryIsSole
  <2> SUFFICES ASSUME RecoveryInv PROVE OneRecovery
    BY DEF RecoveryInv, RecoveryIsSole
  <2>1. ASSUME NEW g \in Gens, Recovering(g) PROVE recTask = g
    BY <2>1 DEF RecoveryInv, CrashedAreRecTask, NestedEnd, Recovering, Crashed
  <2> QED
    BY <2>1 DEF OneRecovery
<1> QED
  BY <1>1, <1>2, GenerationStep, RecoveryStep, TypeCorrect, PTL DEF Spec

-----------------------------------------------------------------------------
(* No request is forgotten when one crash is all that happens.              *)

\* What the run of NoRequestForgotten assumes: at most one process exits unasked, the
\* Operator does no more than drain, and no rare event happens.  (With a second crash
\* during a recovery, with a stop or a restart of the Operator, or with a protocol
\* failure a request is forgotten.)
Calm == MaxCrashes <= 1 /\ Operator \subseteq {"drain"} /\ Faults = {}

\* Nobody but a client that leaves last and the recovery stops a generation.
NobodyStops ==
  /\ op = "off" /\ \A s \in Callers : stopCall[s] = "off"
  /\ \A g \in Gens : sick[g] = "no" /\ wait[g] # "dead"

\* The gate is shut while a crash is reaped and recovered from, and the recovery awaits
\* a generation.
ShutForRecovery ==
  /\ nested = {}
  /\ \A g \in Gens : Crashed(g) => ~gate
  /\ \A g \in Gens : wait[g] = "await" => repl[g] \in Gens

\* The one crash: after it no running generation is without its process, unless it is
\* the one whose crash nobody has noticed yet.
OneCrash ==
  /\ ~gate => crashes = 1
  /\ state = "running" /\ generation \notin alive => crashes = 1 /\ gate

\* Attached clients are without a running generation during a recovery only, and when
\* the gate is about to open they have one.
ClientsAreServed ==
  /\ clients # {} /\ state # "running" => ~gate
  /\ \A g \in Gens :
       wait[g] = "announce" \/ (wait[g] = "await" /\ start[repl[g]] = "ok") =>
         clients = {} \/ state = "running"

\* A request on its way to the process is of a client that has begun its session.
SessionsBegan ==
  \A c \in Clients : req[c] \in {"event", "queued", "active"} => ses[c] # "new"

\* While a generation is recovered from no request of an attached client is on its way.
NothingUnderWay ==
  \A g \in Gens : Crashed(g) /\ wait[g] \notin {"reap", "tell"} =>
    \A c \in clients : req[c] \notin {"event", "queued", "active"}

\* A client asks nothing before it is attached, and loses nothing while it is.
NothingLost ==
  \A c \in Clients :
    /\ att[c] # "done" => req[c] = "none"
    /\ c \in clients => req[c] # "lost"

ServedInv == NobodyStops /\ ShutForRecovery /\ OneCrash /\ ClientsAreServed

AskedInv == SessionsBegan /\ NothingUnderWay /\ NothingLost

\* The types of the tables of the clients.
AskTypes ==
  /\ clients \subseteq Clients
  /\ DOMAIN req = Clients /\ DOMAIN ses = Clients /\ DOMAIN att = Clients
  /\ \A c \in Clients : ses[c] \in {"new", "init", "ready"}
  /\ \A g \in Gens : wait[g] \in {"off", "wait", "done", "dead"} \/ Crashed(g)

\* They follow from the type invariant.
LEMMA TypesOfAsks == TypeOK => AskTypes
BY DEF TypeOK, AskTypes, Crashed

\* What holds before a step of this section.
CalmState ==
  /\ TypeOK /\ LifeTypes /\ AskTypes
  /\ GenerationInv /\ RecoveryInv /\ ClientInv /\ ServedInv /\ AskedInv

\* A shut gate means that recovery_task is at work, and nobody else is.
LEMMA OneAtWork ==
  ASSUME CalmState
  PROVE  /\ ~gate => recTask \in Gens /\ Crashed(recTask)
         /\ \A g \in Gens : Crashed(g) => recTask = g /\ ~gate
         /\ gate => ~SomebodyRecovers
<1>1. \A g \in Gens : Crashed(g) => recTask = g /\ ~gate
  BY DEF CalmState, ServedInv, RecoveryInv, CrashedAreRecTask, ShutForRecovery
<1>2. ASSUME recTask # 0, ~WaitOver(recTask) PROVE recTask \in Gens /\ Crashed(recTask)
  <2>1. recTask \in Gens /\ wait[recTask] \notin {"off", "wait", "done", "dead"}
    BY <1>2 DEF CalmState, LifeTypes, RecoveryInv, RecTaskCrashed, WaitOver
  <2> QED
    BY <2>1 DEF CalmState, AskTypes
<1>3. ~gate => recTask # 0 /\ ~WaitOver(recTask)
  BY DEF CalmState, ServedInv, RecoveryInv, GateIsWatched, NobodyStops
<1> QED
  BY <1>1, <1>2, <1>3 DEF SomebodyRecovers

\* When a generation starts or is stopped, the attached clients have no request under
\* way: there are none, or their calls were answered when the crash was reaped.
LEMMA AnsweredBefore ==
  ASSUME CalmState, state = "starting" \/ \E g \in Gens : stopper[g] = "run",
         NEW c \in clients
  PROVE  req[c] \notin {"event", "queued", "active"}
<1>1. state # "running"
  BY DEF CalmState, GenerationInv
<1>2. recTask \in Gens /\ Crashed(recTask)
  BY <1>1, OneAtWork DEF CalmState, ServedInv, ClientsAreServed
<1>3. wait[recTask] \notin {"reap", "tell"}
  BY <1>2 DEF CalmState, GenerationInv
<1> QED
  BY <1>2, <1>3 DEF CalmState, AskedInv, NothingUnderWay

\* What ServedInv is about is left alone.
KeepsServed ==
  /\ UNCHANGED <<op, stopCall, sick, wait, nested, gate, crashes>>
  /\ UNCHANGED <<state, generation, start, alive, repl>>

\* Then only new clients could disturb it.
LEMMA KeepServed ==
  ASSUME ServedInv, KeepsServed, clients' \subseteq clients PROVE ServedInv'
<1> USE DEF ServedInv, KeepsServed
<1>1. NobodyStops'
  BY DEF NobodyStops
<1>2. ShutForRecovery' /\ OneCrash'
  BY DEF ShutForRecovery, OneCrash, Crashed
<1>3. ClientsAreServed'
  BY DEF ClientsAreServed
<1> QED
  BY <1>1, <1>2, <1>3

\* The last client that leaves stops the generation.
LEMMA UnusedServed ==
  ASSUME ServedInv, NEW left, StopIfUnused(left), clients' = left, left \subseteq clients,
         UNCHANGED <<op, stopCall, sick, wait, nested, gate, crashes, alive, repl>>
  PROVE  ServedInv'
<1>1. CASE left = {} /\ state = "running"
  <2>1. clients' = {} /\ state' = "stopping"
    BY <1>1 DEF StopIfUnused, BeginStop
  <2>2. NobodyStops' /\ ShutForRecovery' /\ OneCrash'
    BY <2>1 DEF ServedInv, NobodyStops, ShutForRecovery, OneCrash, Crashed
  <2> QED
    BY <2>1, <2>2 DEF ServedInv, ClientsAreServed
<1>2. CASE ~(left = {} /\ state = "running")
  BY <1>2, KeepServed DEF StopIfUnused, KeepsServed, genVars
<1> QED
  BY <1>1, <1>2

\* The recovery got beyond the pending calls.
Late(g) == Crashed(g) /\ wait[g] \notin {"reap", "tell"}

\* A step that brings no recovery there and touches no request keeps AskedInv.
LEMMA KeepAsked ==
  ASSUME AskedInv, UNCHANGED <<req, ses, att>>, clients' \subseteq clients,
         \A g \in Gens : Late(g)' => Late(g)
  PROVE  AskedInv'
<1>1. SessionsBegan' /\ NothingLost'
  BY DEF AskedInv, SessionsBegan, NothingLost
<1>2. NothingUnderWay'
  BY DEF AskedInv, NothingUnderWay, Late
<1> QED
  BY <1>1, <1>2 DEF AskedInv

\* Nor does one that leaves the wait tasks alone and settles requests.
LEMMA SettlesAsked ==
  ASSUME AskTypes, AskedInv, UNCHANGED <<wait, att>>, clients' \subseteq clients,
         \A c \in Clients : req'[c] \in {req[c], "none"} /\ ses'[c] \in {ses[c], "ready"}
  PROVE  AskedInv'
<1>1. SessionsBegan'
  BY DEF AskedInv, SessionsBegan
<1>2. NothingLost'
  BY DEF AskTypes, AskedInv, NothingLost
<1>3. NothingUnderWay'
  BY DEF AskTypes, AskedInv, NothingUnderWay, Crashed
<1> QED
  BY <1>1, <1>2, <1>3 DEF AskedInv

\* _close_stream with its detach keeps both.
LEMMA ClosesCalm ==
  ASSUME CalmState, NEW c \in Clients, Closes(c),
         UNCHANGED <<op, stopCall, sick, wait, nested, gate, crashes, alive, repl, ses, att>>
  PROVE  ServedInv' /\ AskedInv'
<1>1. clients' = clients \ {c}
  BY DEF Closes
<1>2. UNCHANGED genVars \/ StopIfUnused(clients \ {c})
  BY DEF Closes
<1>3. ServedInv'
  BY <1>1, <1>2, UnusedServed, KeepServed DEF CalmState, KeepsServed, genVars
<1>4. \A d \in Clients : req'[d] \in {req[d], "none"}
  BY DEF Closes, CalmState, AskTypes
<1>5. AskedInv'
  BY <1>1, <1>4, SettlesAsked DEF CalmState, AskTypes
<1> QED
  BY <1>3, <1>5

\* What a process and the tasks that start and stop it do keeps both.
LEMMA ProcessCalm ==
  ASSUME CalmState, NEW g \in Gens, Process(g)
  PROVE  ServedInv' /\ AskedInv'
<1> USE DEF waitVars, clientVars, callVars, opVars, bounds, genVars, procVars, sessionVars
<1>1. CASE Spawned(g)
  <2>1. /\ g = generation /\ start[g] \in {"demand", "replace"}
        /\ state = "starting" /\ state' = "running" /\ alive' = alive \cup {g}
        /\ wait' = [wait EXCEPT ![g] = "wait"] /\ wait[g] = "off"
        /\ UNCHANGED <<op, stopCall, sick, nested, gate, crashes, generation, repl>>
    BY <1>1 DEF Spawned, CalmState, GenerationInv, RecoveryInv, BornAreOff
  <2>2. UNCHANGED <<clients, att, ses>>
    BY <1>1 DEF Spawned
  <2>3. NobodyStops' /\ ShutForRecovery'
    BY <2>1 DEF CalmState, LifeTypes, ServedInv, NobodyStops, ShutForRecovery, Crashed
  <2>4. OneCrash' /\ ClientsAreServed'
    BY <2>1 DEF CalmState, ServedInv, OneCrash, ClientsAreServed
  <2>5. \A c \in Clients : req'[c] = IF req[c] \in {"queued", "active", "event"} THEN "lost" ELSE req[c]
    BY <1>1 DEF Spawned
  <2>6. \A c \in clients : req'[c] = req[c]
    BY <2>1, <2>5, AnsweredBefore DEF CalmState, AskTypes
  <2>7. \A h \in Gens : Late(h)' => Late(h)
    BY <2>1 DEF Late, Crashed, CalmState, LifeTypes
  <2>8. SessionsBegan' /\ NothingLost'
    BY <2>2, <2>5, <2>6 DEF CalmState, AskTypes, AskedInv, SessionsBegan, NothingLost
  <2>9. NothingUnderWay'
    BY <2>2, <2>6, <2>7 DEF CalmState, AskedInv, NothingUnderWay, Late
  <2> QED
    BY <2>3, <2>4, <2>8, <2>9 DEF ServedInv, AskedInv
<1>2. CASE SpawnFails(g)
  <2>1. /\ state = "starting" /\ state' = "exited" /\ start' = [start EXCEPT ![g] = "failed"]
        /\ UNCHANGED <<op, stopCall, sick, wait, nested, gate, crashes, generation, alive, repl>>
    BY <1>2 DEF SpawnFails, CalmState, GenerationInv
  <2>2. UNCHANGED <<clients, att, ses, req>>
    BY <1>2 DEF SpawnFails
  <2>3. NobodyStops' /\ ShutForRecovery' /\ OneCrash'
    BY <2>1 DEF CalmState, ServedInv, NobodyStops, ShutForRecovery, OneCrash, Crashed
  <2>4. ClientsAreServed'
    BY <2>1, <2>2 DEF CalmState, LifeTypes, ServedInv, ClientsAreServed
  <2>5. AskedInv'
    BY <2>1, <2>2, KeepAsked DEF Late, Crashed, CalmState
  <2> QED
    BY <2>3, <2>4, <2>5 DEF ServedInv
<1>3. CASE InitSucceeds(g) \/ InitFails(g)
  <2>1. /\ \/ start' = [start EXCEPT ![g] = "failed"]
           \/ start' = [start EXCEPT ![g] = "ok"] /\ state = "running"
        /\ UNCHANGED <<op, stopCall, sick, wait, nested, gate, crashes, state, generation,
                       alive, repl>>
    BY <1>3 DEF InitSucceeds, InitFails, CalmState, LifeTypes
  <2>2. UNCHANGED <<clients, att, ses, req>>
    BY <1>3 DEF InitSucceeds, InitFails
  <2>3. NobodyStops' /\ ShutForRecovery' /\ OneCrash'
    BY <2>1 DEF CalmState, ServedInv, NobodyStops, ShutForRecovery, OneCrash, Crashed
  <2>4. ClientsAreServed'
    BY <2>1, <2>2 DEF CalmState, LifeTypes, ServedInv, ShutForRecovery, ClientsAreServed
  <2>5. AskedInv'
    BY <2>1, <2>2, KeepAsked DEF Late, Crashed, CalmState
  <2> QED
    BY <2>3, <2>4, <2>5 DEF ServedInv
<1>4. CASE StopFailed(g)
  BY <1>4 DEF StopFailed, CalmState, ServedInv, NobodyStops
<1>5. CASE StopEndsProcess(g)
  <2>1. state = "stopping"
    BY <1>5 DEF StopEndsProcess, CalmState, GenerationInv
  <2>2. /\ UNCHANGED <<op, stopCall, sick, wait, nested, gate, crashes, genVars, repl>>
        /\ UNCHANGED <<clients, att, ses, req>>
    BY <1>5 DEF StopEndsProcess
  <2>3. NobodyStops' /\ ShutForRecovery' /\ OneCrash' /\ ClientsAreServed'
    BY <2>1, <2>2 DEF CalmState, ServedInv, NobodyStops, ShutForRecovery, OneCrash,
                      ClientsAreServed, Crashed
  <2>4. AskedInv'
    BY <2>2, KeepAsked DEF Late, Crashed, CalmState
  <2> QED
    BY <2>3, <2>4 DEF ServedInv
<1>6. CASE StopFinishes(g)
  <2>1. /\ stopper[g] = "run" /\ state = "stopping" /\ state' = "exited"
        /\ wait' = [wait EXCEPT ![g] = "done"] /\ FailAllPending(clients)
        /\ UNCHANGED <<op, stopCall, sick, nested, gate, crashes, generation, start, alive,
                       repl, clients, att>>
    BY <1>6 DEF StopFinishes, CalmState, GenerationInv
  <2>2. \A c \in clients : req'[c] = req[c]
    BY <2>1, AnsweredBefore DEF CalmState, AskTypes, FailAllPending, Pending
  <2>3. NobodyStops' /\ ShutForRecovery' /\ OneCrash'
    BY <2>1 DEF CalmState, LifeTypes, ServedInv, NobodyStops, ShutForRecovery, OneCrash,
                Crashed
  <2>4. ClientsAreServed'
    BY <2>1 DEF CalmState, LifeTypes, ServedInv, ClientsAreServed
  <2>5. \A c \in Clients : req'[c] \in {req[c], "none", "lost"} /\ ses'[c] \in {ses[c], "ready"}
    BY <2>1 DEF FailAllPending
  <2>6. \A c \in Clients : req[c] = "none" => req'[c] = "none"
    BY <2>1 DEF FailAllPending, Pending
  <2>7. SessionsBegan' /\ NothingLost'
    BY <2>1, <2>2, <2>5, <2>6 DEF CalmState, AskTypes, AskedInv, SessionsBegan, NothingLost
  <2>8. \A h \in Gens : Late(h)' => Late(h)
    BY <2>1 DEF Late, Crashed, CalmState, LifeTypes
  <2>9. NothingUnderWay'
    BY <2>1, <2>2, <2>8 DEF CalmState, AskedInv, NothingUnderWay, Late
  <2> QED
    BY <2>3, <2>4, <2>7, <2>9 DEF ServedInv, AskedInv
<1> QED
  BY <1>1, <1>2, <1>3, <1>4, <1>5, <1>6 DEF Process

\* What a wait task does keeps both.
LEMMA WaitCalm ==
  ASSUME Calm, CalmState, NEW g \in Gens, Recovery(g)
  PROVE  ServedInv' /\ AskedInv'
<1> USE DEF waitVars, clientVars, callVars, opVars, bounds, genVars, procVars, sessionVars
<1> DEFINE Alone == \A h \in Gens : h # g => ~Crashed(h)
<1>0. Crashed(g) => Alone /\ ~gate
  BY OneAtWork DEF CalmState, LifeTypes
<1>1. CASE WaitWakes(g)
  <2>1. CASE state = "running" /\ generation = g
    <3>1. /\ g \notin alive /\ wait[g] = "wait" /\ state' = "stopping" /\ gate' = FALSE
          /\ wait' = [wait EXCEPT ![g] = "reap"]
          /\ nested' = IF SomebodyRecovers THEN nested \cup {g} ELSE nested
          /\ UNCHANGED <<op, stopCall, sick, crashes, generation, start, alive, repl>>
      BY <1>1, <2>1 DEF WaitWakes
    <3>2. crashes = 1 /\ gate
      BY <2>1, <3>1 DEF CalmState, ServedInv, OneCrash
    <3>3. ~SomebodyRecovers /\ \A h \in Gens : ~Crashed(h)
      BY <3>2, OneAtWork
    <3>4. NobodyStops' /\ ShutForRecovery' /\ OneCrash'
      BY <3>1, <3>2, <3>3 DEF CalmState, LifeTypes, ServedInv, NobodyStops, ShutForRecovery,
                              OneCrash
    <3>5. \A h \in Gens : wait'[h] \notin {"announce", "await"} /\ ~Late(h)'
      BY <3>1, <3>3 DEF CalmState, LifeTypes, Crashed, Late
    <3>6. ClientsAreServed'
      BY <3>1, <3>5 DEF ClientsAreServed
    <3>7. AskedInv'
      BY <1>1, <3>5, KeepAsked DEF WaitWakes, CalmState
    <3> QED
      BY <3>4, <3>6, <3>7 DEF ServedInv
  <2>2. CASE ~(state = "running" /\ generation = g)
    <3>1. /\ wait[g] = "wait" /\ wait' = [wait EXCEPT ![g] = "done"]
          /\ UNCHANGED <<op, stopCall, sick, nested, gate, crashes, genVars, alive, repl>>
          /\ UNCHANGED <<clients, req, ses, att>>
      BY <1>1, <2>2 DEF WaitWakes
    <3>2. NobodyStops' /\ ShutForRecovery' /\ OneCrash'
      BY <3>1 DEF CalmState, LifeTypes, ServedInv, NobodyStops, ShutForRecovery, OneCrash,
                  Crashed
    <3>3. ClientsAreServed'
      BY <3>1 DEF CalmState, LifeTypes, ServedInv, ClientsAreServed
    <3>4. AskedInv'
      BY <3>1, KeepAsked DEF CalmState, LifeTypes, Late, Crashed
    <3> QED
      BY <3>2, <3>3, <3>4 DEF ServedInv
  <2> QED
    BY <2>1, <2>2
<1>2. ASSUME NEW next,
             wait' = [wait EXCEPT ![g] = next],
             <<wait[g], next>> \in {<<"reap", "tell">>, <<"backoff", "close">>,
                                    <<"undo", "backoff">>},
             UNCHANGED <<op, stopCall, sick, nested, gate, crashes, genVars, alive, repl>>,
             UNCHANGED <<clients, req, ses, att>>
      PROVE  ServedInv' /\ AskedInv'
  <2>1. ~gate
    BY <1>2, <1>0 DEF Crashed
  <2>2. NobodyStops' /\ ShutForRecovery' /\ OneCrash'
    BY <1>2, <2>1 DEF CalmState, LifeTypes, ServedInv, NobodyStops, ShutForRecovery, OneCrash
  <2>3. ClientsAreServed'
    BY <1>2 DEF CalmState, LifeTypes, ServedInv, ClientsAreServed
  <2>4. AskedInv'
    BY <1>2, KeepAsked DEF CalmState, LifeTypes, Late, Crashed
  <2> QED
    BY <2>2, <2>3, <2>4 DEF ServedInv
<1>3. CASE WaitReaped(g)
  BY <1>2, <1>3 DEF WaitReaped
<1>4. ASSUME NEW c \in Clients, WaitTells(g, c) PROVE ServedInv' /\ AskedInv'
  <2>1. /\ req' = [req EXCEPT ![c] = "none"] /\ UNCHANGED wait
        /\ UNCHANGED <<clients, ses, att>>
    BY <1>4 DEF WaitTells, Calm
  <2>2. ServedInv'
    BY <1>4, <2>1, KeepServed DEF WaitTells, KeepsServed, CalmState
  <2>3. AskedInv'
    BY <2>1, SettlesAsked DEF CalmState, AskTypes
  <2> QED
    BY <2>2, <2>3
<1>5. CASE WaitFails(g)
  <2>1. PICK next \in {"done", "backoff", "close"} :
          /\ wait[g] = "tell" /\ wait' = [wait EXCEPT ![g] = next] /\ state' = "exited"
          /\ next = "done" => g \in nested
    BY <1>5 DEF WaitFails
  <2>2. /\ clients' = clients \ Incomplete /\ FailAllPending(clients \ Incomplete)
        /\ \A c \in Clients : ~ToldLost(c)
        /\ UNCHANGED <<op, stopCall, sick, nested, gate, crashes, generation, start, alive,
                       repl, att>>
    BY <1>5 DEF WaitFails, CloseStreams
  <2>3. Crashed(g) /\ ~gate /\ Alone /\ next # "done" /\ state # "running"
    BY <1>0, <2>1 DEF Crashed, CalmState, ServedInv, ShutForRecovery, GenerationInv
  <2>4. NobodyStops' /\ ShutForRecovery' /\ OneCrash'
    BY <2>1, <2>2, <2>3 DEF CalmState, LifeTypes, ServedInv, NobodyStops, ShutForRecovery,
                            OneCrash
  <2>5. \A h \in Gens : wait'[h] \notin {"announce", "await"}
    BY <2>1, <2>3 DEF CalmState, LifeTypes, Crashed
  <2>6. ClientsAreServed'
    BY <2>2, <2>3, <2>5 DEF ClientsAreServed
  <2>7. \A c \in clients' : ~Pending(c)
    BY <2>2 DEF Incomplete, ToldLost, Pending, CalmState, AskTypes, AskedInv, SessionsBegan
  <2>8. /\ \A c \in Clients : req'[c] \notin {"event", "queued", "active"}
        /\ \A c \in Clients : req[c] = "none" => req'[c] = "none"
        /\ \A c \in clients' : req[c] # "lost" => req'[c] # "lost"
    BY <2>2, <2>7 DEF FailAllPending, Pending, CalmState, AskTypes
  <2>9. AskedInv'
    BY <2>2, <2>8 DEF CalmState, AskTypes, AskedInv, SessionsBegan, NothingUnderWay,
                      NothingLost
  <2> QED
    BY <2>4, <2>6, <2>9 DEF ServedInv
<1>6. ASSUME wait[g] \in {"close", "announce"}, wait' = [wait EXCEPT ![g] = "done"],
             gate' = TRUE, clients' \subseteq clients,
             clients' = {} \/ state = "running",
             UNCHANGED <<op, stopCall, sick, nested, crashes, genVars, alive, repl>>
      PROVE  ServedInv' /\ \A h \in Gens : ~Late(h)'
  <2>1. Alone /\ ~gate
    BY <1>0, <1>6 DEF Crashed
  <2>2. \A h \in Gens : ~Crashed(h)'
    BY <1>6, <2>1 DEF CalmState, LifeTypes, Crashed
  <2>3. NobodyStops' /\ ShutForRecovery' /\ OneCrash'
    BY <1>6, <2>1, <2>2 DEF CalmState, LifeTypes, ServedInv, NobodyStops, ShutForRecovery,
                            OneCrash
  <2>4. ClientsAreServed'
    BY <1>6, <2>2 DEF ClientsAreServed, Crashed
  <2> QED
    BY <2>2, <2>3, <2>4 DEF ServedInv, Late
<1>7. CASE WaitCloses(g)
  <2>1. clients' = {} /\ \A c \in Clients : req'[c] \in {req[c], "none"}
    BY <1>7 DEF WaitCloses, CloseStreams
  <2>2. ServedInv' /\ \A h \in Gens : ~Late(h)'
    BY <1>6, <1>7, <2>1 DEF WaitCloses
  <2>3. AskedInv'
    BY <1>7, <2>1, <2>2 DEF WaitCloses, CalmState, AskTypes, AskedInv, SessionsBegan,
                            NothingUnderWay, NothingLost
  <2> QED
    BY <2>2, <2>3
<1>8. CASE RecoverEnds(g)
  <2>1. clients = {} \/ state = "running"
    BY <1>8 DEF RecoverEnds, CalmState, ServedInv, ClientsAreServed
  <2>2. ServedInv' /\ \A h \in Gens : ~Late(h)'
    BY <1>6, <1>8, <2>1 DEF RecoverEnds
  <2>3. AskedInv'
    BY <1>8, <2>2, KeepAsked DEF RecoverEnds, CalmState
  <2> QED
    BY <2>2, <2>3
<1>9. CASE RecoverGivesUp(g)
  BY <1>2, <1>9 DEF RecoverGivesUp
<1>10. CASE RecoverFinds(g)
  <2>1. state \in {"exited", "stopping"}
    BY <1>10 DEF RecoverFinds, RecoveryOff, CalmState, RecoveryInv, ShutIsIdle, Restarting,
                 ServedInv, NobodyStops
  <2> QED
    BY <1>2, <1>10, <2>1 DEF RecoverFinds
<1>11. CASE RecoverStarts(g)
  <2>1. /\ wait[g] = "backoff" /\ state' = "starting" /\ wait' = [wait EXCEPT ![g] = "await"]
        /\ generation' = generation + 1
        /\ start' = [start EXCEPT ![generation + 1] = "replace"]
        /\ repl' = [repl EXCEPT ![g] = generation + 1]
        /\ UNCHANGED <<op, stopCall, sick, nested, gate, crashes, alive>>
        /\ UNCHANGED <<clients, req, ses, att>>
    BY <1>11 DEF RecoverStarts, StartGeneration
  <2>2. Alone /\ ~gate /\ generation + 1 \in Gens
    BY <1>0, <1>11, <2>1, NextGeneration DEF Crashed, RecoverStarts, CalmState
  <2>3. NobodyStops' /\ ShutForRecovery' /\ OneCrash'
    BY <2>1, <2>2 DEF CalmState, LifeTypes, ServedInv, NobodyStops, ShutForRecovery, OneCrash
  <2>4. start'[repl'[g]] = "replace"
    BY <2>1, <2>2 DEF CalmState, LifeTypes
  <2>5. \A h \in Gens : h # g => wait'[h] \notin {"announce", "await"}
    BY <2>1, <2>2 DEF CalmState, LifeTypes, Crashed
  <2>6. ClientsAreServed'
    BY <2>1, <2>2, <2>4, <2>5 DEF CalmState, LifeTypes, ClientsAreServed
  <2>7. AskedInv'
    BY <2>1, KeepAsked DEF CalmState, LifeTypes, Late, Crashed
  <2> QED
    BY <2>3, <2>6, <2>7 DEF ServedInv
<1>12. CASE RecoverFails(g)
  <2>1. /\ wait[g] = "await" /\ wait' = [wait EXCEPT ![g] = "undo"]
        /\ BeginStop \/ UNCHANGED genVars
        /\ UNCHANGED <<op, stopCall, sick, nested, gate, crashes, alive, repl>>
        /\ UNCHANGED <<clients, req, ses, att>>
    BY <1>12 DEF RecoverFails
  <2>2. Alone /\ ~gate /\ (state' = "running" => state = "running") /\ generation' = generation
    BY <1>0, <2>1 DEF Crashed, BeginStop
  <2>3. NobodyStops' /\ ShutForRecovery' /\ OneCrash'
    BY <2>1, <2>2 DEF CalmState, LifeTypes, ServedInv, NobodyStops, ShutForRecovery, OneCrash
  <2>4. \A h \in Gens : wait'[h] \notin {"announce", "await"}
    BY <2>1, <2>2 DEF CalmState, LifeTypes, Crashed
  <2>5. ClientsAreServed'
    BY <2>1, <2>2, <2>4 DEF ClientsAreServed
  <2>6. AskedInv'
    BY <2>1, KeepAsked DEF CalmState, LifeTypes, Late, Crashed
  <2> QED
    BY <2>3, <2>5, <2>6 DEF ServedInv
<1>13. CASE RecoverRetries(g)
  BY <1>2, <1>13 DEF RecoverRetries
<1>14. CASE RecoverAnnounces(g)
  <2>1. /\ wait[g] = "await" /\ start[repl[g]] = "ok"
        /\ wait' = [wait EXCEPT ![g] = "announce"]
        /\ UNCHANGED <<op, stopCall, sick, nested, gate, crashes, genVars, alive, repl>>
        /\ UNCHANGED <<clients, req, ses, att>>
    BY <1>14 DEF RecoverAnnounces
  <2>2. ~gate
    BY <1>0, <2>1 DEF Crashed
  <2>3. NobodyStops' /\ ShutForRecovery' /\ OneCrash'
    BY <2>1, <2>2 DEF CalmState, LifeTypes, ServedInv, NobodyStops, ShutForRecovery, OneCrash
  <2>4. ClientsAreServed'
    BY <2>1 DEF CalmState, LifeTypes, ServedInv, ClientsAreServed
  <2>5. AskedInv'
    BY <2>1, KeepAsked DEF CalmState, LifeTypes, Late, Crashed
  <2> QED
    BY <2>3, <2>4, <2>5 DEF ServedInv
<1> QED
  BY <1>1, <1>3, <1>4, <1>5, <1>7, <1>8, <1>9, <1>10, <1>11, <1>12, <1>13, <1>14
  DEF Recovery

\* What a client does keeps both.
LEMMA ClientCalm ==
  ASSUME Calm, CalmState, NEW c \in Clients, Client(c)
  PROVE  ServedInv' /\ AskedInv'
<1> USE DEF waitVars, clientVars, opVars, bounds, genVars, procVars, sessionVars, callVars
<1>0. ASSUME att[c] # "done", UNCHANGED <<clients, wait, req, ses>>,
             \A d \in Clients : d # c => att'[d] = att[d]
      PROVE  AskedInv'
  BY <1>0 DEF CalmState, AskTypes, AskedInv, SessionsBegan, NothingUnderWay, NothingLost, Crashed
<1>1. CASE Open(c)
  <2>1. att[c] # "done"
    BY <1>1 DEF Open, CalmState, ClientInv
  <2>2. AskedInv'
    BY <1>0, <1>1, <2>1 DEF Open, CalmState, AskTypes
  <2>3. ServedInv'
    BY <1>1, KeepServed DEF Open, KeepsServed, CalmState
  <2> QED
    BY <2>2, <2>3
<1>2. CASE AttachRefused(c)
  <2>1. AskedInv'
    BY <1>0, <1>2 DEF AttachRefused, Refuse, CalmState, AskTypes
  <2>2. ServedInv'
    BY <1>2, KeepServed DEF AttachRefused, Refuse, KeepsServed, CalmState
  <2> QED
    BY <2>1, <2>2
<1>3. CASE AttachTries(c)
  <2>1. /\ att[c] = "try" /\ Attach(c)
        /\ UNCHANGED <<op, stopCall, sick, wait, nested, gate, crashes, alive, repl, req, ses>>
    BY <1>3 DEF AttachTries
  <2>2. CASE ~gate
    <3>1. UNCHANGED <<genVars, clients>> /\ att' = [att EXCEPT ![c] = "gate"]
      BY <2>1, <2>2 DEF Attach
    <3>2. AskedInv'
      BY <1>0, <2>1, <3>1 DEF CalmState, AskTypes
    <3>3. ServedInv'
      BY <2>1, <3>1, KeepServed DEF KeepsServed, CalmState
    <3> QED
      BY <3>2, <3>3
  <2>3. CASE gate /\ state = "exited"
    <3>1. /\ clients' = clients /\ att' = [att EXCEPT ![c] = "start"]
          /\ state' = "starting"
      BY <2>1, <2>3 DEF Attach, StartGeneration
    <3>2. AskedInv'
      BY <1>0, <2>1, <3>1 DEF CalmState, AskTypes
    <3>3. clients = {} /\ \A h \in Gens : ~Crashed(h)
      BY <2>3, OneAtWork DEF CalmState, ServedInv, ClientsAreServed
    <3>4. NobodyStops' /\ ShutForRecovery' /\ OneCrash'
      BY <2>1, <2>3, <3>1 DEF CalmState, ServedInv, NobodyStops, ShutForRecovery, OneCrash,
                              Crashed
    <3>5. ClientsAreServed'
      BY <2>1, <3>1, <3>3 DEF ClientsAreServed
    <3> QED
      BY <3>2, <3>4, <3>5 DEF ServedInv
  <2>4. CASE gate /\ state # "exited"
    <3>1. /\ UNCHANGED genVars
          /\ clients' = IF state = "running" THEN clients \cup {c} ELSE clients
          /\ \A d \in Clients : d # c => att'[d] = att[d]
      BY <2>1, <2>4 DEF Attach, CalmState, AskTypes
    <3>2. \A h \in Gens : ~Crashed(h)
      BY <2>4, OneAtWork
    <3>3. NobodyStops' /\ ShutForRecovery' /\ OneCrash'
      BY <2>1, <2>4, <3>1 DEF CalmState, ServedInv, NobodyStops, ShutForRecovery, OneCrash,
                              Crashed
    <3>4. ClientsAreServed'
      BY <2>1, <2>4, <3>1, <3>2 DEF CalmState, ServedInv, ClientsAreServed, Crashed
    <3>5. SessionsBegan' /\ NothingUnderWay'
      BY <2>1, <3>2 DEF CalmState, AskedInv, SessionsBegan, NothingUnderWay, Crashed
    <3>6. NothingLost'
      BY <2>1, <3>1 DEF CalmState, AskTypes, AskedInv, NothingLost
    <3> QED
      BY <3>3, <3>4, <3>5, <3>6 DEF ServedInv, AskedInv
  <2>5. gate \in BOOLEAN
    BY DEF CalmState, LifeTypes
  <2> QED
    BY <2>2, <2>3, <2>4, <2>5
<1>4. CASE AttachWakes(c)
  <2>1. /\ att[c] # "done" /\ UNCHANGED clients
        /\ att' = [att EXCEPT ![c] = "refused"] \/ att' = [att EXCEPT ![c] = "try"]
    BY <1>4 DEF AttachWakes, Refuse
  <2>2. AskedInv'
    BY <1>0, <1>4, <2>1 DEF AttachWakes, CalmState, AskTypes
  <2>3. UNCHANGED genVars
    BY <1>4 DEF AttachWakes, Refuse
  <2>4. ServedInv'
    BY <1>4, <2>1, <2>3, KeepServed DEF AttachWakes, KeepsServed, CalmState
  <2> QED
    BY <2>2, <2>4
<1>5. CASE Ask(c)
  <2>1. ServedInv'
    BY <1>5, KeepServed DEF Ask, KeepsServed, CalmState
  <2>2. /\ c \in clients /\ req' = [req EXCEPT ![c] = "held"]
        /\ UNCHANGED <<clients, wait, ses, att>>
    BY <1>5 DEF Ask
  <2>3. SessionsBegan' /\ NothingUnderWay'
    BY <2>2 DEF CalmState, AskTypes, AskedInv, SessionsBegan, NothingUnderWay, Crashed
  <2>4. NothingLost'
    BY <2>2 DEF CalmState, AskTypes, AskedInv, NothingLost, ClientInv
  <2> QED
    BY <2>1, <2>3, <2>4 DEF AskedInv
<1>6. CASE Route(c)
  <2>1. ServedInv'
    BY <1>6, KeepServed DEF Route, KeepsServed, CalmState
  <2>2. /\ gate /\ c \in clients /\ req[c] = "held" /\ UNCHANGED <<clients, wait, att>>
        /\ \A d \in Clients : d # c => req'[d] = req[d]
        /\ req'[c] \in {"none", "event", "queued"}
        /\ \A d \in Clients : ses'[d] # ses[d] => ses'[d] # "new"
        /\ req'[c] \in {"event", "queued"} => ses'[c] # "new"
    BY <1>6 DEF Route, CalmState, AskTypes
  <2>3. \A h \in Gens : ~Crashed(h)
    BY <2>2, OneAtWork
  <2>4. SessionsBegan' /\ NothingUnderWay'
    BY <2>2, <2>3 DEF CalmState, AskTypes, AskedInv, SessionsBegan, NothingUnderWay, Crashed
  <2>5. NothingLost'
    BY <2>2 DEF CalmState, AskTypes, AskedInv, NothingLost, ClientInv
  <2> QED
    BY <2>1, <2>4, <2>5 DEF AskedInv
<1>7. CASE AnswerClient(c)
  <2>1. UNCHANGED sick
    BY <1>7 DEF AnswerClient, Calm
  <2>2. ServedInv'
    BY <1>7, <2>1, KeepServed DEF AnswerClient, KeepsServed, CalmState
  <2>3. \A d \in Clients : req'[d] \in {req[d], "none"} /\ ses'[d] \in {ses[d], "ready"}
    BY <1>7 DEF AnswerClient, CalmState, AskTypes
  <2>4. AskedInv'
    BY <1>7, <2>3, SettlesAsked DEF AnswerClient, CalmState
  <2> QED
    BY <2>2, <2>4
<1>8. CASE Close(c)
  BY <1>8, ClosesCalm DEF Close
<1>9. CASE DetachSettles(c)
  <2>1. ServedInv'
    BY <1>9, UnusedServed DEF DetachSettles, CalmState
  <2>2. AskedInv'
    BY <1>9, SettlesAsked DEF DetachSettles, CalmState
  <2> QED
    BY <2>1, <2>2
<1>10. CASE DetachTimesOut(c)
  BY <1>10 DEF DetachTimesOut, Calm
<1> QED
  BY <1>1, <1>2, <1>3, <1>4, <1>5, <1>6, <1>7, <1>8, <1>9, <1>10 DEF Client

\* Every step keeps both.
LEMMA CalmStep ==
  Calm /\ TypeOK /\ GenerationInv /\ RecoveryInv /\ ClientInv /\ ServedInv /\ AskedInv
    /\ [Next]_vars => ServedInv' /\ AskedInv'
<1> SUFFICES ASSUME Calm, CalmState, [Next]_vars PROVE ServedInv' /\ AskedInv'
  BY TypesOfLife, TypesOfAsks DEF CalmState
<1> USE DEF waitVars, clientVars, opVars, bounds, genVars, procVars, sessionVars, callVars
<1>1. ASSUME NEW g \in Gens, Process(g) PROVE ServedInv' /\ AskedInv'
  BY <1>1, ProcessCalm
<1>2. ASSUME NEW g \in Gens, Recovery(g) PROVE ServedInv' /\ AskedInv'
  BY <1>2, WaitCalm
<1>3. ASSUME NEW c \in Clients, Client(c) PROVE ServedInv' /\ AskedInv'
  BY <1>3, ClientCalm
<1>4. CASE OperatorStep
  <2>1. op = "off"
    BY DEF CalmState, ServedInv, NobodyStops
  <2>2. OpDrains
    BY <1>4, <2>1 DEF OperatorStep, OpStops, OpCloses, OpCallsStop, OpStopEnds, OpRestarts,
                      OpReplaces, OpReplaced, OpRestartEnds, Begins, Calm
  <2>3. ServedInv'
    BY <2>2, KeepServed DEF OpDrains, KeepsServed, CalmState
  <2>4. AskedInv'
    BY <2>2, SettlesAsked DEF OpDrains, CalmState
  <2> QED
    BY <2>3, <2>4
<1>5. CASE Crash
  <2>1. crashes = 0 /\ crashes' = 1
    <3>1. MaxCrashes \in Nat /\ MaxCrashes <= 1
      BY ConstantsAssumption DEF ConstantsAssumption, Calm
    <3>2. crashes \in 0..MaxCrashes /\ crashes < MaxCrashes /\ crashes' = crashes + 1
      BY <1>5 DEF Crash, CalmState, TypeOK
    <3> QED
      BY <3>1, <3>2
  <2>2. gate
    BY <2>1 DEF CalmState, ServedInv, OneCrash
  <2>3. NobodyStops' /\ ShutForRecovery' /\ OneCrash' /\ ClientsAreServed'
    BY <1>5, <2>1, <2>2 DEF Crash, CalmState, ServedInv, NobodyStops, ShutForRecovery,
                            OneCrash, ClientsAreServed, Crashed
  <2>4. AskedInv'
    BY <1>5, SettlesAsked DEF Crash, CalmState
  <2> QED
    BY <2>3, <2>4 DEF ServedInv
<1>6. CASE TaskFails
  BY <1>6 DEF TaskFails, Calm
<1>7. CASE Dispatch
  <2>1. ServedInv'
    BY <1>7, KeepServed DEF Dispatch, KeepsServed, CalmState
  <2>2. \A c \in Clients : req'[c] = req[c] \/ (req[c] = "queued" /\ req'[c] = "active")
    BY <1>7 DEF Dispatch, CalmState, AskTypes
  <2>3. UNCHANGED <<clients, wait, ses, att>>
    BY <1>7 DEF Dispatch
  <2>4. SessionsBegan' /\ NothingLost'
    BY <2>2, <2>3 DEF CalmState, AskTypes, AskedInv, SessionsBegan, NothingLost
  <2>5. NothingUnderWay'
    BY <2>2, <2>3 DEF CalmState, AskTypes, AskedInv, NothingUnderWay, Crashed
  <2> QED
    BY <2>1, <2>4, <2>5 DEF AskedInv
<1>8. CASE AnswerBridge
  <2>1. ServedInv'
    BY <1>8, KeepServed DEF AnswerBridge, KeepsServed, CalmState
  <2>2. AskedInv'
    BY <1>8, SettlesAsked DEF AnswerBridge, CalmState
  <2> QED
    BY <2>1, <2>2
<1>9. ASSUME NEW s \in Callers, StopWakes(s) PROVE ServedInv' /\ AskedInv'
  BY <1>9 DEF StopWakes, CalmState, ServedInv, NobodyStops
<1>10. CASE UNCHANGED vars
  <2>1. ServedInv'
    BY <1>10, KeepServed DEF vars, KeepsServed, CalmState
  <2>2. AskedInv'
    BY <1>10, SettlesAsked DEF vars, CalmState
  <2> QED
    BY <2>1, <2>2
<1> QED
  BY <1>1, <1>2, <1>3, <1>4, <1>5, <1>6, <1>7, <1>8, <1>9, <1>10 DEF Next

\* When a process crashes once and nobody but the clients and a drain disturbs the
\* recovery, every request of a client that stays attached is answered, told as lost
\* or kept for the next generation: none is forgotten silently.
THEOREM RequestsAreRemembered == ASSUME Calm PROVE Spec => []NoRequestForgotten
<1>1. Init => GenerationInv /\ RecoveryInv /\ ClientInv /\ ServedInv /\ AskedInv
  <2> SUFFICES ASSUME Init PROVE GenerationInv /\ RecoveryInv /\ ClientInv /\ ServedInv /\ AskedInv
    OBVIOUS
  <2>1. GenerationInv /\ RecoveryInv
    BY InitRecovery
  <2>2. ClientInv
    BY DEF Init, ClientInv
  <2>3. NobodyStops /\ ShutForRecovery /\ OneCrash /\ ClientsAreServed
    BY DEF Init, NobodyStops, ShutForRecovery, OneCrash, ClientsAreServed, Crashed
  <2>4. SessionsBegan /\ NothingUnderWay /\ NothingLost
    BY DEF Init, SessionsBegan, NothingUnderWay, NothingLost
  <2> QED
    BY <2>1, <2>2, <2>3, <2>4 DEF ServedInv, AskedInv
<1>2. AskedInv /\ TypeOK => NoRequestForgotten
  BY DEF AskedInv, NothingLost, NoRequestForgotten, TypeOK
<1>3. TypeOK /\ GenerationInv /\ RecoveryInv /\ ClientInv /\ ServedInv /\ AskedInv
        /\ [Next]_vars => ServedInv' /\ AskedInv'
  BY CalmStep
<1> QED
  BY <1>1, <1>2, <1>3, TypeCorrect, GenerationStep, RecoveryStep, ClientStep, PTL DEF Spec

=============================================================================
