------------------------------ MODULE HttpRelay ------------------------------
(***************************************************************************)
(* HTTP requests of Agents, relayed to a service on the peer: the handler  *)
(* of the Agent's connection at the consumer (_relay_dispatch_request),    *)
(* the frames that cross the link, and the task at the owner that asks the *)
(* service (_relay_execute).  A response is an opaque head and Chunks      *)
(* pieces of a body, or a stream that never ends and only gives signs of   *)
(* life.  Parsing of heads is left out but for its failing.                *)
(***************************************************************************)
EXTENDS Naturals, Sequences, FiniteSets, SequencesExt

CONSTANTS
  Requests,  \* requests of Agents
  Chunks,    \* pieces of a body
  MaxInflight, \* HTTP_RELAY_MAX_INFLIGHT
  Habits     \* behaviours considered, see AllHabits

\* "fails": the owner refuses, or the service breaks off.  "slow": the timers
\* of the consumer expire.  "leaves", "resets": the Agent closes its connection,
\* so that the second write fails, or resets it, so that the first one does.
\* "linkLost": the peer link is lost.
AllHabits == {"fails", "slow", "leaves", "resets", "linkLost"}

RelayAssumption ==
  /\ Chunks \in Nat /\ MaxInflight \in Nat \ {0} /\ Habits \subseteq AllHabits

Kinds == {"plain", "bodyless", "endless"}

VARIABLES
  client,  \* client[r]: the handler of the Agent's connection
  kind,    \* kind[r]: the response the service has for the request
  head,    \* relay_start[r]: the future of the response head
  body,    \* relay_bodies[r]: what arrived of the body
  got,     \* got[r]: pieces written to the Agent
  agent,   \* agent[r]: the Agent's end of the connection
  owner,   \* relay_tasks[r]: the task at the owner
  sent,    \* sent[r]: pieces the owner sent
  ended,   \* ended[r]: the service ended its response as it should
  up,      \* frames to the owner
  down,    \* frames to the consumer
  link     \* link_ready

clientVars == <<client, kind, head, body, got, agent>>
ownerVars == <<owner, sent, ended>>
vars == <<clientVars, ownerVars, up, down, link>>

Running == {"demand", "head", "body"}
Frames == {"start", "chunk", "beat", "end", "error"}

\* Type correctness: handlers, tasks and frames are of their kinds.
TypeOK ==
  /\ client \in [Requests -> {"new", "asked", "streaming", "whole", "cut", "error"}]
  /\ kind \in [Requests -> Kinds]
  /\ head \in [Requests -> {"none", "set", "failed"}]
  /\ body \in [Requests -> Seq({"chunk", "beat", "end", "abort"})]
  /\ got \in [Requests -> 0..Chunks] /\ sent \in [Requests -> 0..Chunks]
  /\ agent \in [Requests -> {"here", "left", "reset"}]
  /\ owner \in [Requests -> {"off", "over"} \cup Running]
  /\ ended \in [Requests -> BOOLEAN]
  /\ up \in Seq({"ask", "cancel"} \X Requests)
  /\ down \in Seq(Frames \X Requests)
  /\ link \in BOOLEAN

Init ==
  /\ client = [r \in Requests |-> "new"] /\ kind \in [Requests -> Kinds]
  /\ head = [r \in Requests |-> "none"] /\ body = [r \in Requests |-> <<>>]
  /\ got = [r \in Requests |-> 0] /\ sent = [r \in Requests |-> 0]
  /\ agent = [r \in Requests |-> "here"]
  /\ owner = [r \in Requests |-> "off"] /\ ended = [r \in Requests |-> FALSE]
  /\ up = <<>> /\ down = <<>> /\ link = TRUE

\* A frame is sent; without a link it is lost, and the sender does not care.
SendUp(f) == up' = IF link THEN Append(up, f) ELSE up
SendDown(f) == down' = IF link THEN Append(down, f) ELSE down

\* The handler is over, and its entries in the tables of the node go.
Leave(r, x) ==
  /\ client' = [client EXCEPT ![r] = x]
  /\ body' = [body EXCEPT ![r] = <<>>]
  /\ UNCHANGED <<kind, head, agent>>

Waits(r) == client[r] \in {"asked", "streaming"}

-----------------------------------------------------------------------------
(* The consumer.                                                            *)

\* A request is read: it is refused here, or asked of the peer.
Ask(r) ==
  /\ client[r] = "new"
  /\ \/ /\ link
        /\ client' = [client EXCEPT ![r] = "asked"]
        /\ SendUp(<<"ask", r>>)
     \/ /\ ~link \/ "fails" \in Habits
        /\ client' = [client EXCEPT ![r] = "error"]
        /\ UNCHANGED up
  /\ UNCHANGED <<kind, head, body, got, agent, ownerVars, down, link>>

\* The head is written to the Agent; a connection that was reset fails the
\* write, and nothing tells the owner.
GetsHead(r) ==
  /\ client[r] = "asked" /\ head[r] = "set"
  /\ IF agent[r] = "reset" THEN Leave(r, "error")
     ELSE IF kind[r] = "bodyless" THEN Leave(r, "whole")
     ELSE client' = [client EXCEPT ![r] = "streaming"] /\ UNCHANGED <<kind, head, body, agent>>
  /\ UNCHANGED <<got, ownerVars, up, down, link>>

GetsError(r) ==
  /\ client[r] = "asked" /\ head[r] = "failed"
  /\ Leave(r, "error")
  /\ UNCHANGED <<got, ownerVars, up, down, link>>

\* HTTP_RELAY_HEADER_TIMEOUT_SECONDS.
HeadLate(r) ==
  /\ "slow" \in Habits /\ client[r] = "asked" /\ head[r] = "none"
  /\ Leave(r, "error") /\ SendUp(<<"cancel", r>>)
  /\ UNCHANGED <<got, ownerVars, down, link>>

\* The next of the body is written; once the Agent is gone the write fails.
Writes(r) ==
  /\ client[r] = "streaming" /\ body[r] # <<>>
  /\ Head(body[r]) \in {"chunk", "beat"}
  /\ IF agent[r] = "here"
     THEN /\ body' = [body EXCEPT ![r] = Tail(@)]
          /\ got' = [got EXCEPT ![r] = @ + (IF Head(body[r]) = "chunk" THEN 1 ELSE 0)]
          /\ UNCHANGED <<client, kind, head, agent, up>>
     ELSE Leave(r, "cut") /\ SendUp(<<"cancel", r>>) /\ UNCHANGED got
  /\ UNCHANGED <<ownerVars, down, link>>

\* The terminator is written: the Agent takes the response for whole.
Ends(r) ==
  /\ client[r] = "streaming" /\ body[r] # <<>> /\ Head(body[r]) = "end"
  /\ Leave(r, IF agent[r] = "here" THEN "whole" ELSE "cut")
  /\ IF agent[r] = "here" THEN UNCHANGED up ELSE SendUp(<<"cancel", r>>)
  /\ UNCHANGED <<got, ownerVars, down, link>>

\* The response broke off, or nothing came for HTTP_RELAY_IDLE_TIMEOUT_SECONDS:
\* the connection is closed without the terminator.
Breaks(r) ==
  /\ client[r] = "streaming"
  /\ \/ body[r] = <<>> /\ "slow" \in Habits
     \/ body[r] # <<>> /\ Head(body[r]) = "abort"
  /\ Leave(r, "cut") /\ SendUp(<<"cancel", r>>)
  /\ UNCHANGED <<got, ownerVars, down, link>>

\* The Agent goes away; the handler does not read, so it does not see that.
AgentLeaves(r) ==
  /\ Waits(r) /\ agent[r] = "here"
  /\ \/ "leaves" \in Habits /\ agent' = [agent EXCEPT ![r] = "left"]
     \/ "resets" \in Habits /\ agent' = [agent EXCEPT ![r] = "reset"]
  /\ UNCHANGED <<client, kind, head, body, got, ownerVars, up, down, link>>

-----------------------------------------------------------------------------
(* The owner.                                                               *)

Tasks == {r \in Requests : owner[r] \in Running}

Arrives(r) ==
  /\ up # <<>> /\ Head(up) = <<"ask", r>>
  /\ up' = Tail(up)
  /\ \/ /\ Cardinality(Tasks) < MaxInflight
        /\ owner' = [owner EXCEPT ![r] = "demand"] /\ UNCHANGED down
     \/ /\ Cardinality(Tasks) >= MaxInflight \/ "fails" \in Habits
        /\ SendDown(<<"error", r>>) /\ UNCHANGED owner
  /\ UNCHANGED <<sent, ended, clientVars, link>>

Cancelled(r) ==
  /\ up # <<>> /\ Head(up) = <<"cancel", r>>
  /\ up' = Tail(up)
  /\ owner' = [owner EXCEPT ![r] = IF @ \in Running THEN "over" ELSE @]
  /\ UNCHANGED <<sent, ended, clientVars, down, link>>

\* The service is there (a managed one is started), or it is not, or it breaks
\* off, or is silent for too long.
OwnerAsks(r) ==
  /\ owner[r] = "demand"
  /\ owner' = [owner EXCEPT ![r] = "head"]
  /\ UNCHANGED <<sent, ended, clientVars, up, down, link>>

OwnerFails(r) ==
  /\ "fails" \in Habits /\ owner[r] \in Running
  /\ owner' = [owner EXCEPT ![r] = "over"]
  /\ SendDown(<<"error", r>>)
  /\ UNCHANGED <<sent, ended, clientVars, up, link>>

OwnerHead(r) ==
  /\ owner[r] = "head"
  /\ owner' = [owner EXCEPT ![r] = "body"]
  /\ SendDown(<<"start", r>>)
  /\ UNCHANGED <<sent, ended, clientVars, up, link>>

\* Faulty variant: the body is read past its length.
OwnerBodyOver(r) ==
  /\ owner[r] = "body" /\ kind[r] = "plain" /\ sent[r] <= Chunks
  /\ sent' = [sent EXCEPT ![r] = @ + 1] /\ SendDown(<<"chunk", r>>)
  /\ UNCHANGED <<owner, ended, clientVars, up, link>>

\* A piece of the body, or a sign of life of a stream without end (bound: one
\* is on its way at a time).
OwnerBody(r) ==
  /\ owner[r] = "body"
  /\ \/ /\ kind[r] = "plain" /\ sent[r] < Chunks
        /\ sent' = [sent EXCEPT ![r] = @ + 1] /\ SendDown(<<"chunk", r>>)
     \/ /\ kind[r] = "endless" /\ ~Contains(down, <<"beat", r>>) /\ ~Contains(body[r], "beat")
        /\ SendDown(<<"beat", r>>) /\ UNCHANGED sent
  /\ UNCHANGED <<owner, ended, clientVars, up, link>>

OwnerEnds(r) ==
  /\ owner[r] = "body"
  /\ \/ kind[r] = "bodyless"
     \/ kind[r] = "plain" /\ sent[r] = Chunks
  /\ owner' = [owner EXCEPT ![r] = "over"] /\ ended' = [ended EXCEPT ![r] = TRUE]
  /\ SendDown(<<"end", r>>)
  /\ UNCHANGED <<sent, clientVars, up, link>>

-----------------------------------------------------------------------------
(* Frames to the consumer, and the link.                                    *)

\* What a frame adds to the body of r; a handler that is over has none, and what
\* comes behind an abort is never read.
Added(r, x) == IF Waits(r) /\ ~Contains(body[r], "abort") THEN Append(body[r], x) ELSE body[r]
Adds(r, x) == body' = [body EXCEPT ![r] = Added(r, x)]

\* Faulty variant: a response that breaks off ends like any other.
ErrorEnds(r) ==
  IF client[r] = "asked" /\ head[r] = "none"
  THEN head' = [head EXCEPT ![r] = "failed"] /\ UNCHANGED body
  ELSE Adds(r, "end") /\ UNCHANGED head

\* _handle_relay_error_frame: before the head the request fails, after it the
\* response breaks off.
ErrorArrives(r) ==
  IF client[r] = "asked" /\ head[r] = "none"
  THEN head' = [head EXCEPT ![r] = "failed"] /\ UNCHANGED body
  ELSE Adds(r, "abort") /\ UNCHANGED head

FrameArrives ==
  /\ down # <<>>
  /\ down' = Tail(down)
  /\ LET x == Head(down)[1]
         r == Head(down)[2] IN
     CASE x = "start" ->
            /\ head' = [head EXCEPT ![r] = IF client[r] = "asked" /\ @ = "none" THEN "set" ELSE @]
            /\ UNCHANGED body
       [] x = "error" -> ErrorArrives(r)
       [] OTHER -> Adds(r, x) /\ UNCHANGED head
  /\ UNCHANGED <<client, kind, got, agent, ownerVars, up, link>>

\* Faulty variant: what the owner was doing goes on.
LossKeepsOwner ==
  /\ "linkLost" \in Habits /\ link
  /\ link' = FALSE /\ up' = <<>> /\ down' = <<>>
  /\ head' = [r \in Requests |-> IF client[r] = "asked" /\ head[r] = "none" THEN "failed" ELSE head[r]]
  /\ body' = [r \in Requests |-> Added(r, "abort")]
  /\ UNCHANGED <<client, kind, got, agent, ownerVars>>

\* _fail_relay_state on both nodes: requests without a head fail, responses
\* break off behind what arrived of them, the owner's tasks are cancelled.
LinkLost ==
  /\ "linkLost" \in Habits /\ link
  /\ link' = FALSE /\ up' = <<>> /\ down' = <<>>
  /\ head' = [r \in Requests |-> IF client[r] = "asked" /\ head[r] = "none" THEN "failed" ELSE head[r]]
  /\ body' = [r \in Requests |-> Added(r, "abort")]
  /\ owner' = [r \in Requests |-> IF owner[r] \in Running THEN "over" ELSE owner[r]]
  /\ UNCHANGED <<client, kind, got, agent, sent, ended>>

Reconnect ==
  /\ ~link /\ link' = TRUE
  /\ UNCHANGED <<clientVars, ownerVars, up, down>>

-----------------------------------------------------------------------------
Consumer(r) == GetsHead(r) \/ GetsError(r) \/ HeadLate(r) \/ Writes(r) \/ Ends(r) \/ Breaks(r)
Owner(r) == OwnerAsks(r) \/ OwnerFails(r) \/ OwnerHead(r) \/ OwnerBody(r) \/ OwnerEnds(r)

Next ==
  \/ FrameArrives \/ LinkLost \/ Reconnect
  \/ \E r \in Requests :
       Ask(r) \/ AgentLeaves(r) \/ Consumer(r) \/ Owner(r) \/ Arrives(r) \/ Cancelled(r)

Spec == Init /\ [][Next]_vars

\* Frames cross the link, tasks that can go on do, a service answers, breaks
\* off or gives signs of life.  Nothing obliges an Agent to stay or to leave.
Fairness ==
  /\ WF_vars(FrameArrives)
  /\ \A r \in Requests :
       /\ WF_vars(Arrives(r)) /\ WF_vars(Cancelled(r))
       /\ WF_vars(Consumer(r)) /\ WF_vars(Owner(r))

FairSpec == Spec /\ Fairness

-----------------------------------------------------------------------------
(* Properties.                                                              *)

\* The Agent takes a response for whole only when the service ended it and
\* every piece was written: one that broke off at the service, at the owner or
\* with the link never looks complete.
WholeMeansWhole ==
  \A r \in Requests : client[r] = "whole" /\ kind[r] # "bodyless" =>
    /\ ended[r] /\ got[r] = Chunks

\* An Agent that asks is answered or cut off, and the owner's task does not
\* outlive the connection it works for: without that eight streams without end
\* use up the relay for good.
RelayReleases ==
  \A r \in Requests :
    /\ client[r] = "asked" ~> client[r] # "asked"
    /\ client[r] \in {"whole", "cut", "error"} ~> [](owner[r] \notin Running)
=============================================================================
