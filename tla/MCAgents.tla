------------------------------ MODULE MCAgents ------------------------------
(***************************************************************************)
(* The programs between an Agent and its node, each on its own: a          *)
(* behaviour runs one of them, so the check goes through all and its       *)
(* properties say what they have in common.                                *)
(***************************************************************************)
EXTENDS AgentParts

\* All are on one session, and a client that uses one id for everything.
OneSession == [c \in Posted \cup Gets |-> CHOOSE s \in Opened : TRUE]
OneId == [a \in Opened \cup Posted |-> 1]

vars == <<part, connVars, facadeVars, proxyVars, adapterVars, poolVars, legacyVars, deferredVars>>

\* A session of the facade that ends in every way it can.
Facade == INSTANCE FacadeSession WITH
  Sessions <- Opened, Posts <- Posted,
  IdOf <- [a \in Opened \cup Posted |-> a],
  Habits <- {"exits", "deletes", "late", "idles", "spawnFails"}, pc <- facadePc,
  pending <- facadePending, closed <- facadeClosed, proc <- facadeProc, stalled <- facadeStalled,
  inbound <- facadeInbound, queue <- facadeQueue

\* Clients that use one JSON-RPC id for everything.
Ids == INSTANCE FacadeSession WITH
  Sessions <- Opened, Posts <- Posted,
  IdOf <- Named,
  Habits <- {"exits", "idles", "asks", "leaves", "oversize", "stalls"}, pc <- facadePc,
  pending <- facadePending, closed <- facadeClosed, proc <- facadeProc, stalled <- facadeStalled,
  inbound <- facadeInbound, queue <- facadeQueue

\* The facade shuts down.
Shutdown == INSTANCE FacadeSession WITH
  Sessions <- Opened, Posts <- Posted,
  IdOf <- [a \in Opened \cup Posted |-> a],
  Habits <- {"exits", "shutdown", "oversize"},
  pc <- facadePc, pending <- facadePending, closed <- facadeClosed, proc <- facadeProc,
  stalled <- facadeStalled, inbound <- facadeInbound, queue <- facadeQueue

-----------------------------------------------------------------------------
\* Every component is in an initial state, and one of them runs.
Init ==
  /\ part \in Parts
  /\ Conn!Init
  /\ Facade!Init
  /\ Stateless!Init
  /\ Adapter!Init
  /\ Pool!Init
  /\ Legacy!Init
  /\ Deferred!Init

Next ==
  \/ /\ part = "connector" /\ Conn!Next
     /\ UNCHANGED <<part, facadeVars, proxyVars, adapterVars, poolVars, legacyVars, deferredVars>>
  \/ /\ part = "facade" /\ Facade!Next
     /\ UNCHANGED <<part, connVars, proxyVars, adapterVars, poolVars, legacyVars, deferredVars>>
  \/ /\ part = "ids" /\ Ids!Next
     /\ UNCHANGED <<part, connVars, proxyVars, adapterVars, poolVars, legacyVars, deferredVars>>
  \/ /\ part = "shutdown" /\ Shutdown!Next
     /\ UNCHANGED <<part, connVars, proxyVars, adapterVars, poolVars, legacyVars, deferredVars>>
  \/ /\ part = "stateless" /\ Stateless!Next
     /\ UNCHANGED <<part, connVars, facadeVars, adapterVars, poolVars, legacyVars, deferredVars>>
  \/ /\ part = "adapter" /\ Adapter!Next
     /\ UNCHANGED <<part, connVars, facadeVars, proxyVars, poolVars, legacyVars, deferredVars>>
  \/ /\ part = "failing" /\ Failing!Next
     /\ UNCHANGED <<part, connVars, facadeVars, proxyVars, poolVars, legacyVars, deferredVars>>
  \/ /\ part = "stateless adapter" /\ Pool!Next
     /\ UNCHANGED <<part, connVars, facadeVars, proxyVars, adapterVars, legacyVars, deferredVars>>
  \/ /\ part = "legacy" /\ Legacy!Next
     /\ UNCHANGED <<part, connVars, facadeVars, proxyVars, adapterVars, poolVars, deferredVars>>
  \/ /\ part = "deferred" /\ Deferred!Next
     /\ UNCHANGED <<part, connVars, facadeVars, proxyVars, adapterVars, poolVars, legacyVars>>

Spec == Init /\ [][Next]_vars

\* The fairness of each component, while it is the one that runs.
Fairness ==
  /\ WF_connVars(part = "connector" /\ Conn!Writer)
  /\ WF_connVars(part = "connector" /\ Conn!Main)
  /\ \A s \in 1..Links : WF_connVars(part = "connector" /\ Conn!Reader(s))
  /\ \A s \in 1..Links, x \in Conn!Lines : WF_connVars(part = "connector" /\ Conn!Answers(x, s))
  /\ \A s \in Opened : WF_facadeVars(part = "facade" /\ Facade!Spawn(s))
  /\ \A s \in Opened : WF_facadeVars(part = "facade" /\ Facade!Dispatch(s))
  /\ \A s \in Opened : WF_facadeVars(part = "facade" /\ Facade!Stop(s))
  /\ \A a \in Opened \cup Posted : WF_facadeVars(part = "facade" /\ Facade!Handle(a))
  /\ \A a \in Opened \cup Posted : WF_facadeVars(part = "facade" /\ Facade!TimesOut(a))
  /\ \A p \in Sse : WF_facadeVars(part = "facade" /\ Facade!Attach(p))
  /\ \A c \in Sse \cup Gets : WF_facadeVars(part = "facade" /\ Facade!Stream(c))
  /\ \A p \in Sse : WF_facadeVars(part = "facade" /\ (facadeQueue[p] = <<>> /\ Facade!StreamGivesUp(p)))
  /\ \A p \in Proxied : WF_proxyVars(part = "stateless" /\ Stateless!Step(p))
  /\ \A p \in Proxied : WF_proxyVars(part = "stateless" /\ Stateless!GiveUp(p))
  /\ \A x \in Calls \cup Notices \cup {"get"} : WF_adapterVars(part = "adapter" /\ Adapter!Act(x))
  /\ \A r \in Pooled : WF_poolVars(part = "stateless adapter" /\ Pool!Act(r))
  /\ WF_poolVars(part = "stateless adapter" /\ Pool!Joined)
  /\ WF_legacyVars(part = "legacy" /\ Legacy!Reads)
  /\ WF_legacyVars(part = "legacy" /\ Legacy!Main)
  /\ WF_deferredVars(part = "deferred" /\ Deferred!Main)

FairSpec == Spec /\ Fairness

-----------------------------------------------------------------------------
\* The variables of each program keep their types.
TypeOK ==
  /\ Conn!TypeOK /\ Facade!TypeOK /\ Stateless!TypeOK /\ Adapter!TypeOK
  /\ Pool!TypeOK /\ Legacy!TypeOK /\ Deferred!TypeOK

\* A client that is told that its call may be sent again, for lack of
\* outcomeUnknown or because nothing was sent, is told the truth: the server
\* has not had the call and will not have it (outcomeUnknown in the facade, the
\* stateless adapter, the legacy projection and the deferred tools).
SafeMeansUnsent ==
  /\ Stateless!UntouchedMeansUntouched /\ Pool!SafeMeansUnsent
  /\ Legacy!SafeMeansUnsent /\ Deferred!SafeMeansUnsent

\* A request gets one answer, and its own: not the answer of another that has
\* the same id, not one by the server and one by the program in its place.  A
\* request of the connector may have both, if it is one that went astray
\* between its books and its sessions.
OnceAnswered == Conn!AnsweredTwiceIsAstray /\ Facade!OwnAnswer /\ Adapter!OnceEach

\* What is sent again is only what must be: the connector replays the handshake
\* and no call, and the adapter gives up no session the remote still knows and
\* opens none beside it.
NeverReplayed == Conn!NeverReplayed /\ Adapter!HealthySessionStays

\* No place is lost and no process left over: the facade's requests in flight
\* return (but for one too long for the backend, which keeps its place), a
\* closed session has no process (but for one closed by the shutdown while it is
\* being started), and there are never more subprocesses than places, also when
\* one outlives its kill.
NothingLeaks ==
  /\ part = "facade" => Facade!SlotsReturn
  /\ part # "shutdown" => Facade!NoOrphan
  /\ Stateless!ProcessesBounded

\* Tools are called and shown from the newest catalog of the connection in use
\* (deferred_tools.py, _catalog).
CatalogIsCurrent == Deferred!CatalogIsCurrent

\* A cancellation that was taken is respected: no result after it, and it
\* strikes no other request.
CancelIsRespected == Pool!NoResultAfterCancel /\ [](Legacy!CancelHitsItsOwn)

\* Every request of the connector, the facades, the adapters, the legacy
\* projection and the deferred tools is answered, whatever the server, the
\* connection, the remote and the other requests do; one of the connector that
\* went astray between its books and its sessions may be forgotten.
EachRequestEnds ==
  /\ Conn!EachAnswered
  /\ Facade!EachPostEnds /\ Stateless!EachPostEnds /\ Adapter!EachAnswered
  /\ Pool!EachRequestEnds /\ Legacy!EachRequestEnds /\ Deferred!EachRequestEnds
=============================================================================
