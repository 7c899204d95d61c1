---------------------------- MODULE SharedSession ----------------------------
(***************************************************************************)
(* The sessions of the clients of one running generation of a shared MCP   *)
(* process (class SharedBackend): routing of what the clients send, the    *)
(* one physical initialize for clients of both protocol eras, dispatch and *)
(* answers, cancellation, the client lease, end of input and detach.       *)
(* SharedBackend models what comes before and after the generation.  Left  *)
(* out: requests of the process to a client and notifications, also        *)
(* notifications/initialized.  An action is what a task does between two   *)
(* awaits that yield; an answer the Bridge gives without asking the        *)
(* process changes no state.                                               *)
(***************************************************************************)
EXTENDS SharedQueue

CONSTANTS
  Modern,     \* the clients of the 2026-07-28 era; the others run initialize
  MaxAsks,    \* bound: calls of the clients together
  Habits      \* behaviours considered, see AllHabits

\* "pipelines": a client sends calls behind a release it has not seen answered.
\* "slowInit": the process takes longer than ten seconds to initialize.
\* "stubborn": it takes longer than a detach waits for a cancelled request or
\* for the cleanup of a lease.
\* "sendRaises": the acknowledgement of an answer times out.
AllHabits == {"pipelines", "slowInit", "stubborn", "sendRaises"}

CallKinds == {"plain", "leased", "release"}

\* Identities never run out: each call may cost an initialize and each client
\* a cleanup and an initialize.
ASSUME SessionAssumption ==
  /\ Modern \subseteq Clients
  /\ 1 \in Sizes
  /\ MaxAsks \in Nat
  /\ Habits \subseteq AllHabits
  /\ MaxId >= 2 * MaxAsks + 2 * Cardinality(Clients)

VARIABLES
  up,           \* the generation is running
  life,         \* life[c]: attachment and input of the client
  hello,        \* hello[c]: the legacy handshake as the client sees it
  cons,         \* cons[c]: its task consume_client_input
  held,         \* held[c]: the call that task is routing
  bootId,       \* bootId[c]: the initialize that task waits for
  kind,         \* RoutedRequest: what is asked
  asker,        \* RoutedRequest: by whom
  pend,         \* pending_by_backend_id
  cur,          \* current_request, 0 for None
  reader,       \* the request whose answer _route_backend_message is sending, 0 for none
  template,     \* initialize_template
  initPending,  \* initialize_pending
  lease,        \* lease_owner
  det,          \* det[c]: its detach call
  detId,        \* detId[c]: the request that call waits for
  answers,      \* answers[i]: answers the client got (history)
  asks          \* counter for the bound

clientVars == <<life, hello, cons, held, bootId>>
requestVars == <<kind, asker, pend, answers>>
workVars == <<cur, reader>>
initVars == <<template, initPending>>
leaseVars == <<lease, det, detId>>
vars == <<queueVars, up, clientVars, requestVars, workVars, initVars, leaseVars, asks>>

\* Type correctness: every task and request is in one of its states.
TypeOK ==
  /\ QueueTypeOK
  /\ up \in BOOLEAN
  /\ life \in [Clients -> {"new", "on", "eof", "closing", "left"}]
  /\ hello \in [Clients -> {"no", "asked", "answered", "failed"}]
  /\ cons \in [Clients -> {"idle", "hello", "boot", "wait"}]
  /\ held \in [Clients -> CallKinds \cup {None}]
  /\ bootId \in [Clients -> Ids \cup {0}]
  /\ kind \in [Ids -> CallKinds \cup {"initialize", None}]
  /\ asker \in [Ids -> Owners \cup {None}]
  /\ pend \subseteq Ids
  /\ cur \in Ids \cup {0} /\ reader \in {0, cur}
  /\ template \in {None, "ok", "error"}
  /\ initPending \in BOOLEAN
  /\ lease \in Clients \cup {None}
  /\ det \in [Clients -> {"off", "cancel", "clean", "over"}]
  /\ detId \in [Clients -> Ids \cup {0}]
  /\ answers \in [Ids -> Nat]
  /\ asks \in 0..MaxAsks

Init ==
  /\ QueueInit
  /\ up = TRUE
  /\ life = [c \in Clients |-> "new"]
  /\ hello = [c \in Clients |-> "no"]
  /\ cons = [c \in Clients |-> "idle"]
  /\ held = [c \in Clients |-> None]
  /\ bootId = [c \in Clients |-> 0]
  /\ kind = [i \in Ids |-> None]
  /\ asker = [i \in Ids |-> None]
  /\ pend = {} /\ cur = 0 /\ reader = 0
  /\ template = None /\ initPending = FALSE
  /\ lease = None
  /\ det = [c \in Clients |-> "off"]
  /\ detId = [c \in Clients |-> 0]
  /\ answers = [i \in Ids |-> 0]
  /\ asks = 0

\* SharedBackend.clients.
clients == {c \in Clients : life[c] \in {"on", "eof", "closing"}}

-----------------------------------------------------------------------------
(* Pieces several tasks share.                                              *)

\* The generation is stopped: _stop_generation and _fail_all_pending forget
\* every request.
Ends ==
  /\ up' = FALSE
  /\ Clear
  /\ kind' = [i \in Ids |-> None] /\ asker' = [i \in Ids |-> None]
  /\ answers' = [i \in Ids |-> 0]
  /\ pend' = {} /\ cur' = 0 /\ reader' = 0
  /\ lease' = None

\* RoutedRequest.done is set: answered, withdrawn or cancelled.
Settled(i) == i = 0 \/ (i \notin pend /\ reader # i)

\* The request that takes the next identity is registered.
Register(c, k) ==
  /\ kind' = [kind EXCEPT ![last + 1] = k]
  /\ asker' = [asker EXCEPT ![last + 1] = c]
  /\ pend' = pend \cup {last + 1}
  /\ UNCHANGED answers

\* _enqueue_request into the Bridge's lane.  (Size 1: these requests are small.)
EnqueueOwn(c, k) == Put(Bridge, 1) /\ Register(c, k)

\* Faulty variant: only a release is checked against the owner.
LeaseUnguarded(c, k) == k = "release" /\ lease # c

\* The lease policy refuses: another client owns the resource, or nobody does
\* and there is nothing to release.
LeaseBusy(c, k) ==
  \/ k = "leased" /\ lease \notin {c, None}
  \/ k = "release" /\ lease # c

\* _apply_lease_policy and _enqueue_request for a call: refused with an error
\* of the Bridge, or queued; a leased call that is queued takes a free lease.
Submit(c, k) ==
  \/ /\ LeaseBusy(c, k) \/ \E n \in Sizes : Refused(c, n)
     /\ UNCHANGED <<queueVars, requestVars, lease>>
  \/ /\ ~LeaseBusy(c, k)
     /\ \E n \in Sizes : Put(c, n)
     /\ Register(c, k)
     /\ lease' = IF k = "leased" /\ lease = None THEN c ELSE lease

OwnPending(c) == {i \in pend : asker[i] = c}

-----------------------------------------------------------------------------
(* consume_client_input.                                                    *)

Attach(c) ==
  /\ life[c] = "new"
  /\ life' = [life EXCEPT ![c] = "on"]
  /\ UNCHANGED <<queueVars, up, hello, cons, held, bootId, requestVars, workVars, initVars,
                 leaseVars, asks>>

Reads(c) == life[c] = "on" /\ cons[c] = "idle"

\* The answer to a client's initialize, from the template.
HelloResult == IF template = "ok" THEN "answered" ELSE "failed"

\* initialize of a legacy client: answered from the template, or when the
\* initialize that is pending is answered, or it becomes that initialize.  When
\* the Bridge's lane is full the stream is closed and initialize_pending stays.
Hello(c) ==
  /\ Reads(c) /\ c \notin Modern /\ hello[c] = "no"
  /\ hello' = [hello EXCEPT ![c] = IF template = None THEN "asked" ELSE HelloResult]
  /\ initPending' = (initPending \/ template = None)
  /\ cons' = [cons EXCEPT ![c] = IF template = None /\ initPending THEN "hello" ELSE "idle"]
  /\ IF template = None /\ ~initPending
     THEN \/ ~Refused(Bridge, 1) /\ EnqueueOwn(c, "initialize") /\ UNCHANGED life
          \/ /\ Refused(Bridge, 1)
             /\ life' = [life EXCEPT ![c] = "closing"]
             /\ UNCHANGED <<queueVars, requestVars>>
     ELSE UNCHANGED <<queueVars, requestVars, life>>
  /\ UNCHANGED <<up, held, bootId, workVars, template, leaseVars, asks>>

\* initialize_event was set while the client waited.
HelloWakes(c) ==
  /\ cons[c] = "hello" /\ template # None
  /\ cons' = [cons EXCEPT ![c] = "idle"]
  /\ hello' = [hello EXCEPT ![c] = HelloResult]
  /\ UNCHANGED <<queueVars, up, life, held, bootId, requestVars, workVars, initVars,
                 leaseVars, asks>>

\* What a client sends is up to the client; behind a release that is not
\* answered only "pipelines" sends calls the lease is about.
MaySend(c, k) ==
  \/ k = "plain" \/ "pipelines" \in Habits
  \/ \A i \in OwnPending(c) : kind[i] # "release"

\* _ensure_backend_session for a modern client's call, while there is no
\* template: one client sends initialize, the others wait for its answer.
Bootstrap(c, k) ==
  IF ~initPending /\ Refused(Bridge, 1)
  THEN UNCHANGED <<queueVars, requestVars, initPending, cons, held, bootId>>
  ELSE /\ initPending' = TRUE
       /\ held' = [held EXCEPT ![c] = k]
       /\ IF initPending
          THEN /\ cons' = [cons EXCEPT ![c] = "wait"]
               /\ UNCHANGED <<queueVars, requestVars, bootId>>
          ELSE /\ EnqueueOwn(Bridge, "initialize")
               /\ cons' = [cons EXCEPT ![c] = "boot"]
               /\ bootId' = [bootId EXCEPT ![c] = last + 1]

\* A call, of a legacy client once its initialize was taken (protocol_version is
\* set), even if that is not answered yet or failed.  After a failed initialize a
\* modern client's calls fail at once.
Call(c, k) ==
  /\ Reads(c) /\ (c \in Modern \/ hello[c] # "no")
  /\ asks < MaxAsks /\ MaySend(c, k)
  /\ asks' = asks + 1
  /\ \/ c \in Modern /\ template = None /\ Bootstrap(c, k) /\ UNCHANGED lease
     \/ /\ c \in Modern /\ template = "error"
        /\ UNCHANGED <<queueVars, requestVars, initPending, lease, cons, held, bootId>>
     \/ /\ c \notin Modern \/ template = "ok"
        /\ Submit(c, k)
        /\ UNCHANGED <<initPending, cons, held, bootId>>
  /\ UNCHANGED <<up, life, hello, workVars, template, det, detId>>

StopsWaiting(c) ==
  /\ cons' = [cons EXCEPT ![c] = "idle"]
  /\ held' = [held EXCEPT ![c] = None]
  /\ bootId' = [bootId EXCEPT ![c] = 0]

\* The client's initialize was answered: its call goes on, or fails after an
\* error, as it does for those that waited.
BootEnds(c) ==
  /\ cons[c] = "boot" /\ Settled(bootId[c])
  /\ StopsWaiting(c)
  /\ IF template = "ok"
     THEN Submit(c, held[c]) /\ UNCHANGED initPending
     ELSE initPending' = FALSE /\ UNCHANGED <<queueVars, requestVars, lease>>
  /\ UNCHANGED <<up, life, hello, workVars, template, det, detId, asks>>

\* Ten seconds passed: the call fails; the initialize stays where it is.
BootTimesOut(c) ==
  /\ "slowInit" \in Habits
  /\ cons[c] = "boot" /\ ~Settled(bootId[c])
  /\ StopsWaiting(c)
  /\ initPending' = FALSE
  /\ UNCHANGED <<queueVars, up, life, hello, requestVars, workVars, template, leaseVars, asks>>

\* Another client's initialize was answered.
WaitEnds(c) ==
  /\ cons[c] = "wait" /\ template # None
  /\ StopsWaiting(c)
  /\ IF template = "ok" THEN Submit(c, held[c]) ELSE UNCHANGED <<queueVars, requestVars, lease>>
  /\ UNCHANGED <<up, life, hello, workVars, initVars, det, detId, asks>>

\* Faulty variants: the request keeps its place in the queue, or in the tables;
\* the active request is withdrawn as well.
CancelKeepsPlace(c, i) ==
  /\ Reads(c) /\ i \in OwnPending(c) /\ kind[i] # "initialize" /\ cur # i
  /\ pend' = pend \ {i}
  /\ answers' = [answers EXCEPT ![i] = @ + 1]
  /\ UNCHANGED <<queueVars, up, clientVars, kind, asker, workVars, initVars, leaseVars, asks>>

CancelKeepsEntry(c, i) ==
  /\ Reads(c) /\ i \in OwnPending(c) /\ kind[i] # "initialize" /\ i \in Queued
  /\ Discard({i})
  /\ answers' = [answers EXCEPT ![i] = @ + 1]
  /\ UNCHANGED <<up, clientVars, kind, asker, pend, workVars, initVars, leaseVars, asks>>

CancelActive(c, i) ==
  /\ Reads(c) /\ i \in OwnPending(c) /\ kind[i] # "initialize"
  /\ Discard({i})
  /\ pend' = pend \ {i}
  /\ answers' = [answers EXCEPT ![i] = @ + 1]
  /\ UNCHANGED <<up, clientVars, kind, asker, workVars, initVars, leaseVars, asks>>

\* notifications/cancelled of a queued request: it is withdrawn and answered.
\* For the active one it is passed on to the process, which changes nothing
\* here.  (A client must not cancel initialize.)
Cancel(c, i) ==
  /\ Reads(c) /\ i \in OwnPending(c) /\ kind[i] # "initialize" /\ cur # i
  /\ Discard({i})
  /\ pend' = pend \ {i}
  /\ answers' = [answers EXCEPT ![i] = @ + 1]
  /\ UNCHANGED <<up, clientVars, kind, asker, workVars, initVars, leaseVars, asks>>

\* Faulty variant: what is pending is not looked at.
EofCloses(c) ==
  /\ Reads(c)
  /\ life' = [life EXCEPT ![c] = "closing"]
  /\ UNCHANGED <<queueVars, up, hello, cons, held, bootId, requestVars, workVars, initVars,
                 leaseVars, asks>>

\* End of input: the stream is to be closed once nothing of it is pending.
Eof(c) ==
  /\ Reads(c)
  /\ life' = [life EXCEPT ![c] = IF OwnPending(c) = {} THEN "closing" ELSE "eof"]
  /\ UNCHANGED <<queueVars, up, hello, cons, held, bootId, requestVars, workVars, initVars,
                 leaseVars, asks>>

-----------------------------------------------------------------------------
(* _request_worker, the process, and _route_backend_message.                *)

\* Faulty variant: the worker does not wait for the answer.
DispatchAgain ==
  /\ \E i \in Ids : Take(i) /\ cur' = i
  /\ UNCHANGED <<up, clientVars, requestVars, reader, initVars, leaseVars, asks>>

\* One request at a time is written to the process.
Dispatch ==
  /\ cur = 0
  /\ \E i \in Ids : Take(i) /\ cur' = i
  /\ UNCHANGED <<up, clientVars, requestVars, reader, initVars, leaseVars, asks>>

\* The answer goes to the asker; without one the request is done at once.
SendOrDone ==
  IF asker[cur] \in clients
  THEN reader' = cur /\ UNCHANGED cur
  ELSE cur' = 0 /\ UNCHANGED reader

\* The process answers the active request.  The answer to initialize becomes the
\* template and wakes who waits for it; a confirmed release clears the lease.
Answer(outcome) ==
  /\ cur \in pend
  /\ pend' = pend \ {cur}
  /\ IF kind[cur] = "initialize"
     THEN template' = outcome /\ initPending' = FALSE
     ELSE UNCHANGED <<template, initPending>>
  /\ lease' = IF kind[cur] = "release" /\ outcome = "ok" THEN None ELSE lease
  /\ SendOrDone
  /\ UNCHANGED <<queueVars, up, clientVars, kind, asker, answers, det, detId, asks>>

\* The asker acknowledged the answer, or left meanwhile.  At the end of its input
\* its stream is closed after the last answer.
Acked ==
  /\ reader # 0
  /\ reader' = 0 /\ cur' = 0
  /\ LET c == asker[reader] IN
       IF c \in clients
       THEN /\ answers' = [answers EXCEPT ![reader] = @ + 1]
            /\ hello' = IF kind[reader] = "initialize"
                        THEN [hello EXCEPT ![c] = HelloResult]
                        ELSE hello
            /\ life' = IF life[c] = "eof" /\ OwnPending(c) = {}
                       THEN [life EXCEPT ![c] = "closing"] ELSE life
       ELSE UNCHANGED <<answers, hello, life>>
  /\ UNCHANGED <<queueVars, up, cons, held, bootId, kind, asker, pend, initVars, leaseVars,
                 asks>>

\* The acknowledgement did not come in time: the reader of stdout fails and the
\* generation is stopped.
SendFails ==
  /\ "sendRaises" \in Habits
  /\ reader # 0 /\ asker[reader] \in clients
  /\ Ends
  /\ UNCHANGED <<clientVars, initVars, det, detId, asks>>

-----------------------------------------------------------------------------
(* _close_stream and detach.                                                *)

\* _stop_if_unused, the end of a detach.
StopIfUnused(c) ==
  /\ det' = [det EXCEPT ![c] = "over"]
  /\ UNCHANGED detId
  /\ IF clients = {}
     THEN Ends
     ELSE UNCHANGED <<queueVars, up, requestVars, workVars, lease>>

\* Faulty variant: the lane of a client that left stays in the rotation.
CloseKeepsLane(c) ==
  /\ c \in clients
  /\ life' = [life EXCEPT ![c] = "left"]
  /\ StopsWaiting(c)
  /\ LET withdrawn == {i \in OwnPending(c) : i # cur /\ kind[i] # "initialize"}
     IN /\ Remove(withdrawn) /\ UNCHANGED <<ahead, passed>>
        /\ pend' = pend \ withdrawn
  /\ det' = [det EXCEPT ![c] = "cancel"]
  /\ detId' = [detId EXCEPT ![c] = IF cur \in OwnPending(c) THEN cur ELSE 0]
  /\ UNCHANGED <<up, hello, kind, asker, answers, workVars, initVars, lease, asks>>

\* The stream of the client is closed, by the node or by the other side: its
\* tasks end and _cancel_client_requests withdraws its queued calls.  A queued
\* initialize stays for the others, an active request is cancelled and awaited.
Close(c) ==
  /\ c \in clients
  /\ life' = [life EXCEPT ![c] = "left"]
  /\ StopsWaiting(c)
  /\ LET withdrawn == {i \in OwnPending(c) : i # cur /\ kind[i] # "initialize"}
     IN /\ Discard(withdrawn)
        /\ pend' = pend \ withdrawn
  /\ det' = [det EXCEPT ![c] = "cancel"]
  /\ detId' = [detId EXCEPT ![c] = IF cur \in OwnPending(c) THEN cur ELSE 0]
  /\ UNCHANGED <<up, hello, kind, asker, answers, workVars, initVars, lease, asks>>

\* Its requests are settled: _cleanup_lease if it owns the lease.
DetachGoesOn(c) ==
  /\ det[c] = "cancel" /\ Settled(detId[c])
  /\ IF lease = c
     THEN IF Refused(Bridge, 1)
          THEN Ends /\ UNCHANGED <<det, detId>>
          ELSE /\ EnqueueOwn(Bridge, "release")
               /\ det' = [det EXCEPT ![c] = "clean"]
               /\ detId' = [detId EXCEPT ![c] = last + 1]
               /\ UNCHANGED <<up, workVars, lease>>
     ELSE StopIfUnused(c)
  /\ UNCHANGED <<clientVars, initVars, asks>>

\* The release is answered.  Unless it cleared the lease the generation ends,
\* also when the next owner was quicker than this task.
CleanupEnds(c) ==
  /\ det[c] = "clean" /\ Settled(detId[c])
  /\ IF lease = None
     THEN StopIfUnused(c)
     ELSE Ends /\ UNCHANGED <<det, detId>>
  /\ UNCHANGED <<clientVars, initVars, asks>>

\* What the detach waits for takes too long: stop().
DetachTimesOut(c) ==
  /\ "stubborn" \in Habits
  /\ det[c] \in {"cancel", "clean"} /\ ~Settled(detId[c])
  /\ Ends
  /\ UNCHANGED <<clientVars, initVars, det, detId, asks>>

-----------------------------------------------------------------------------
Consumer(c) ==
  \/ Attach(c) \/ Hello(c) \/ HelloWakes(c)
  \/ \E k \in CallKinds : Call(c, k)
  \/ BootEnds(c) \/ BootTimesOut(c) \/ WaitEnds(c)
  \/ \E i \in Ids : Cancel(c, i)
  \/ Eof(c)

Detach(c) == Close(c) \/ DetachGoesOn(c) \/ CleanupEnds(c) \/ DetachTimesOut(c)

Next ==
  /\ up
  /\ \/ \E c \in Clients : Consumer(c) \/ Detach(c)
     \/ Dispatch \/ \E outcome \in {"ok", "error"} : Answer(outcome)
     \/ Acked \/ SendFails

Spec == Init /\ [][Next]_vars

\* What goes on without the clients: the tasks of the node, the stream the node
\* decided to close, and the process.
Progress ==
  \/ \E c \in Clients :
       \/ HelloWakes(c) \/ BootEnds(c) \/ BootTimesOut(c) \/ WaitEnds(c)
       \/ DetachGoesOn(c) \/ CleanupEnds(c) \/ DetachTimesOut(c)
       \/ life[c] = "closing" /\ Close(c)
  \/ Dispatch \/ (\E outcome \in {"ok", "error"} : Answer(outcome))
  \/ Acked \/ SendFails

\* Something of that happens while it can; as the clients' steps are bounded no
\* task is left behind.  The process answers what it is given: without that the
\* dispatcher waits by design, cancelled or not.  An answer that is sent is
\* acknowledged or times out.  Nothing is assumed of the clients.
Fairness == WF_vars(up /\ Progress)

FairSpec == Spec /\ Fairness

-----------------------------------------------------------------------------
(* Safety.                                                                  *)

\* The queue, the table of pending requests and the worker agree: what is queued
\* is pending, and what is pending is queued or active.  No path (cancellation,
\* detach, a full queue) leaves an entry in one of them only.
TablesAgree == Queued \subseteq pend /\ pend \subseteq Queued \cup {cur}

\* Every request of an attached client that was queued is answered exactly once:
\* not yet while it is pending or its answer is on the way, and never twice,
\* whatever cancellation, dispatch and answer race.
OneAnswer ==
  \A i \in Ids :
    up /\ asker[i] \in clients => answers[i] = IF Settled(i) THEN 1 ELSE 0

\* The process works on a call the lease is about only for the lease's owner
\* ("The first matching call atomically owns the lease. Another client gets a
\* structured retryable `client_lease_busy` tool error", docs/ARCHITECTURE.md:621).
LeaseHonoured == cur # 0 /\ kind[cur] = "leased" => lease = asker[cur]

\* The weaker half of it, also for a client that does not wait for the answer to
\* its release: no client's call runs while another client owns the lease.
LeaseExclusive == cur # 0 /\ kind[cur] = "leased" => lease \in {asker[cur], None}

\* A lease is never left behind: its owner is attached, or the owner's detach is
\* on its way to release it.
LeaseIsWatched == lease # None => lease \in clients \/ det[lease] \in {"cancel", "clean"}

\* The lease in one: it is honoured while it is held, and watched until it is
\* free (_apply_lease_policy, _cleanup_lease).
LeaseKept == LeaseHonoured /\ LeaseIsWatched

\* At the end of a client's input the node closes the stream only when no call
\* of the client is unanswered, unless its answer is on the way.
AnswersFirst ==
  \A c \in Clients : up /\ life[c] = "closing" => OwnPending(c) = {}

-----------------------------------------------------------------------------
(* Liveness, under FairSpec.                                                *)

\* A client whose calls wait is served, or they are withdrawn, or the generation
\* ends: no client, cancellation, lease cleanup or slow answer starves it.
WaitingIsServed ==
  \A c \in Clients : c \in Waiting ~> c \notin Waiting \/ \E i \in Ids : cur = i /\ asker[i] = c

\* The worker gets free of every request, also of one whose client left.
WorkerFrees == cur # 0 ~> cur = 0

\* Nobody waits for good for the physical session: neither the client whose call
\* brings it up nor those that wait for its outcome.
SessionSettles == \A c \in Clients : cons[c] # "idle" ~> cons[c] = "idle" \/ ~up

\* A lease whose owner left is free again, or the generation ends.
LeaseSettles == \A c \in Clients : lease = c /\ c \notin clients ~> lease # c
=============================================================================
