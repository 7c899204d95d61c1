--------------------------- MODULE FacadeSession ---------------------------
(* The legacy side of the stdio-to-HTTP facade: each MCP session of an HTTP  *)
(* client is one `bridge connect` subprocess.  A POST that carries a request *)
(* registers its id in `pending`, writes the request to the subprocess, and  *)
(* waits on an event (JSON answer) or consumes a bounded queue (SSE answer). *)
(* One dispatcher thread per session reads what the subprocess says, a       *)
(* reaper closes idle sessions, DELETE and shutdown close them at any time.  *)
(* An actor is an initialize (named by the session it opens), a POST, or a   *)
(* GET stream; each actor is one thread of the HTTP server.                  *)
EXTENDS Naturals, Sequences, FiniteSets, SequencesExt

CONSTANTS Sessions,     \* sessions, each opened at most once
          Posts,        \* request POSTs, each sent at most once
          Gets,         \* GET event streams, each opened at most once
          Sse,          \* the POSTs whose client accepts only an event stream
          On,           \* [Posts \cup Gets -> Sessions]
          IdOf,         \* [Sessions \cup Posts -> JSON-RPC ids]
          MaxSessions, MaxInflight, MaxQueue,
          None,
          Habits        \* what the client, the backend and the Operator do:
                        \* "exits", "spawnFails", "asks", "stalls" (it stops
                        \* reading), "late" (timeouts), "deletes", "leaves",
                        \* "oversize", "idles", "shutdown"

VARIABLES pc, answer, pending, table, deleted, dead, ending, closed, proc,
          stalled, wlock, todo, inbound, chans, queue, disp, serverRequest
vars == <<pc, answer, pending, table, deleted, dead, ending, closed, proc,
          stalled, wlock, todo, inbound, chans, queue, disp, serverRequest>>
process == <<closed, proc, stalled>>
lives == <<table, deleted, dead, ending>>
pipes == <<wlock, todo, inbound, disp, serverRequest>>

Askers == Sessions \cup Posts
Streamers == Sse \cup Gets
SessionOf(a) == IF a \in Sessions THEN a ELSE On[a]
PendingOn(s) == {a \in pending : SessionOf(a) = s}
Running(s) == proc[s] = "runs" /\ s \notin closed
Idle(s) == \A p \in Posts : On[p] = s => pc[p] \in {"idle", "done"}

(* queue.put_nowait on a consumer's bounded queue: the newest is dropped.    *)
Put(q, items) == SubSeq(q \o items, 1,
                        IF Len(q) + Len(items) < MaxQueue THEN Len(q) + Len(items) ELSE MaxQueue)
(* A pending SSE request has its channel only once it was attached.          *)
HasChannel(a) == a \in Sse /\ pc[a] # "attaches"

Init ==
  /\ pc = [a \in Askers \cup Gets |-> "idle"]
  /\ answer = [a \in Askers |-> None]
  /\ pending = {} /\ table = {} /\ deleted = {} /\ dead = {} /\ ending = {}
  /\ closed = {} /\ stalled = {}
  /\ proc = [s \in Sessions |-> "none"]
  /\ wlock = [s \in Sessions |-> None]
  /\ todo = [s \in Sessions |-> {}]
  /\ inbound = [s \in Sessions |-> <<>>]
  /\ chans = [s \in Sessions |-> {}]
  /\ queue = [c \in Streamers |-> <<>>]
  /\ disp = [s \in Sessions |-> "idle"]
  /\ serverRequest = [s \in Sessions |-> "none"]

(* Session.close up to the stop of the subprocess: the session leaves the    *)
(* table, every stream is told to close, every waiting JSON handler is told. *)
Closes(s) ==
  /\ table' = table \ {s}
  /\ deleted' = deleted \cup {s}
  /\ ending' = ending \cup ({s} \ deleted)
  /\ queue' = [c \in Streamers |-> IF c \in chans[s] THEN Put(queue[c], <<"close">>) ELSE queue[c]]
  /\ chans' = [chans EXCEPT ![s] = {}]
  /\ pending' = pending \ PendingOn(s)
  /\ UNCHANGED dead
Told(s) == {a \in PendingOn(s) : ~HasChannel(a)}

(* The handler answers its client without the backend: an initialize that    *)
(* fails drops its session as well.                                          *)
Fails(a, why) ==
  /\ pc' = [pc EXCEPT ![a] = "done"]
  /\ IF a \in Sessions
       THEN /\ Closes(a)
            /\ answer' = [x \in Askers |-> IF x = a THEN why ELSE
                                           IF x \in Told(a) THEN "deleted" ELSE answer[x]]
       ELSE /\ answer' = [answer EXCEPT ![a] = why]
            /\ pending' = pending \ {a}
            /\ UNCHANGED <<lives, chans, queue>>

(* ------------------------------------------------------------ initialize - *)

Create(s) ==
  /\ pc[s] = "idle"
  /\ IF Cardinality(table) < MaxSessions
       THEN table' = table \cup {s} /\ pc' = [pc EXCEPT ![s] = "spawns"] /\ UNCHANGED answer
       ELSE /\ pc' = [pc EXCEPT ![s] = "done"]
            /\ answer' = [answer EXCEPT ![s] = "refused"]
            /\ UNCHANGED table
  /\ UNCHANGED <<pending, deleted, dead, ending, process, pipes, chans, queue>>

(* Session.start runs outside the server's lock and looks at nothing.        *)
Spawn(s) ==
  /\ pc[s] = "spawns"
  /\ proc' = [proc EXCEPT ![s] = "runs"]
  /\ pc' = [pc EXCEPT ![s] = "registers"]
  /\ UNCHANGED <<answer, pending, lives, closed, stalled, pipes, chans, queue>>

(* A failed spawn answers 429; the empty session stays until it is reaped.   *)
SpawnFails(s) ==
  /\ "spawnFails" \in Habits
  /\ pc[s] = "spawns"
  /\ pc' = [pc EXCEPT ![s] = "done"]
  /\ answer' = [answer EXCEPT ![s] = "refused"]
  /\ UNCHANGED <<pending, lives, process, pipes, chans, queue>>

(* -------------------------------------------------------------- requests - *)

(* do_POST finds the session, or answers 404.  The client knows a session    *)
(* once its initialize was answered by the backend.                          *)
Post(p) ==
  /\ pc[p] = "idle" /\ answer[On[p]] = On[p] /\ pc[On[p]] = "done"
  /\ IF On[p] \in table \ deleted
       THEN pc' = [pc EXCEPT ![p] = "registers"] /\ UNCHANGED answer
       ELSE pc' = [pc EXCEPT ![p] = "done"] /\ answer' = [answer EXCEPT ![p] = "refused"]
  /\ UNCHANGED <<pending, lives, process, pipes, chans, queue>>

Register(a) ==
  /\ pc[a] = "registers"
  /\ LET others == PendingOn(SessionOf(a)) IN
     IF SessionOf(a) \in dead THEN Fails(a, "lost")
     ELSE IF Cardinality(others) >= MaxInflight \/ \E b \in others : IdOf[b] = IdOf[a]
       THEN Fails(a, "refused")
       ELSE /\ pending' = pending \cup {a}
            /\ pc' = [pc EXCEPT ![a] = IF a \in Sse THEN "attaches" ELSE "sends"]
            /\ UNCHANGED <<answer, lives, chans, queue>>
  /\ UNCHANGED <<process, pipes>>

(* Session.add_channel of an SSE answer; refused when the session was        *)
(* deleted in between, and then `pending` keeps the entry.                   *)
Attach(p) ==
  /\ pc[p] = "attaches"
  /\ IF On[p] \in deleted
       THEN /\ pc' = [pc EXCEPT ![p] = "done"]
            /\ answer' = [answer EXCEPT ![p] = "refused"]
            /\ UNCHANGED chans
       ELSE /\ pc' = [pc EXCEPT ![p] = "sends"]
            /\ chans' = [chans EXCEPT ![On[p]] = @ \cup {p}]
            /\ UNCHANGED answer
  /\ UNCHANGED <<pending, lives, process, pipes, queue>>

(* forward raised BackendGone: a JSON handler answers, an SSE handler queues *)
(* the error on its own stream and consumes it.                              *)
Gone(a) ==
  IF a \in Sse
    THEN /\ queue' = [queue EXCEPT ![a] = Put(@, <<"lost", "close">>)]
         /\ pending' = pending \ {a}
         /\ pc' = [pc EXCEPT ![a] = "streams"]
         /\ UNCHANGED <<answer, lives, chans>>
    ELSE Fails(a, "lost")

(* Session.forward up to the write: the session must not be dead, the write  *)
(* lock must be free and the subprocess alive.                               *)
Send(a) ==
  /\ pc[a] = "sends"
  /\ LET s == SessionOf(a) IN
     \/ s \in dead /\ Gone(a) /\ UNCHANGED wlock
     \/ s \notin dead /\ wlock[s] = None /\ ~Running(s) /\ Gone(a) /\ UNCHANGED wlock
     \/ /\ s \notin dead /\ wlock[s] = None /\ Running(s)
        /\ wlock' = [wlock EXCEPT ![s] = a]
        /\ pc' = [pc EXCEPT ![a] = "writes"]
        /\ UNCHANGED <<answer, pending, lives, chans, queue>>
  /\ UNCHANGED <<process, todo, inbound, disp, serverRequest>>

(* A request longer than a backend line: 429, and `pending` keeps the entry. *)
SendTooLong(p) ==
  /\ "oversize" \in Habits
  /\ p \in Posts /\ pc[p] = "sends" /\ On[p] \notin dead
  /\ pc' = [pc EXCEPT ![p] = "done"]
  /\ answer' = [answer EXCEPT ![p] = "refused"]
  /\ UNCHANGED <<pending, lives, process, pipes, chans, queue>>

(* The write returns when the backend reads its input or has gone.           *)
Written(a) ==
  /\ pc[a] = "writes"
  /\ LET s == SessionOf(a) IN
     /\ wlock' = [wlock EXCEPT ![s] = None]
     /\ \/ /\ proc[s] = "runs" /\ s \notin stalled
           /\ todo' = [todo EXCEPT ![s] = @ \cup {a}]
           /\ pc' = [pc EXCEPT ![a] = IF a \in Sse THEN "streams" ELSE "waits"]
           /\ UNCHANGED <<answer, pending, lives, chans, queue>>
        \/ proc[s] # "runs" /\ Gone(a) /\ UNCHANGED todo
  /\ UNCHANGED <<process, inbound, disp, serverRequest>>

(* event.wait returned: the handler sends pending.result, and an initialize  *)
(* that was answered with an error of this facade keeps its session.         *)
Reply(a) ==
  /\ pc[a] = "waits" /\ answer[a] # None
  /\ pc' = [pc EXCEPT ![a] = "done"]
  /\ UNCHANGED <<answer, pending, lives, chans, queue, process, pipes>>

(* Faulty: the handler that gives up leaves its entry in pending.            *)
TimesOutKeeps(a) ==
  /\ "late" \in Habits
  /\ pc[a] = "waits" /\ answer[a] = None
  /\ pc' = [pc EXCEPT ![a] = "done"]
  /\ answer' = [answer EXCEPT ![a] = "timeout"]
  /\ UNCHANGED <<pending, lives, process, pipes, chans, queue>>

(* The wait ran out: drop_pending, and the session of an initialize with it. *)
TimesOut(a) ==
  /\ "late" \in Habits
  /\ pc[a] = "waits" /\ answer[a] = None
  /\ Fails(a, "timeout")
  /\ UNCHANGED <<process, pipes>>

(* --------------------------------------------------------------- streams - *)

Open(g) ==
  /\ pc[g] = "idle" /\ answer[On[g]] = On[g] /\ pc[On[g]] = "done"
  /\ IF On[g] \in table \ deleted
       THEN pc' = [pc EXCEPT ![g] = "streams"] /\ chans' = [chans EXCEPT ![On[g]] = @ \cup {g}]
       ELSE pc' = [pc EXCEPT ![g] = "done"] /\ UNCHANGED chans
  /\ UNCHANGED <<answer, pending, lives, process, pipes, queue>>

(* _channel_stream writes one item; the end mark ends the response.          *)
Stream(c) ==
  /\ pc[c] = "streams" /\ queue[c] # <<>>
  /\ queue' = [queue EXCEPT ![c] = Tail(@)]
  /\ IF Head(queue[c]) = "close"
       THEN /\ pc' = [pc EXCEPT ![c] = "done"]
            /\ chans' = [chans EXCEPT ![On[c]] = @ \ {c}]
       ELSE UNCHANGED <<pc, chans>>
  /\ answer' = IF c \in Sse /\ answer[c] = None /\ Head(queue[c]) # "request"
                 THEN [answer EXCEPT ![c] = Head(queue[c])] ELSE answer
  /\ UNCHANGED <<pending, lives, process, pipes>>

(* The deadline of an SSE answer, looked at when the queue is empty, and a   *)
(* client that hangs up: both end the stream and neither drops its entry.    *)
StreamGivesUp(c) ==
  /\ pc[c] = "streams"
  /\ \/ "late" \in Habits /\ c \in Sse /\ queue[c] = <<>>
     \/ "leaves" \in Habits
  /\ pc' = [pc EXCEPT ![c] = "done"]
  /\ chans' = [chans EXCEPT ![On[c]] = @ \ {c}]
  /\ answer' = IF c \in Sse /\ answer[c] = None THEN [answer EXCEPT ![c] = "timeout"] ELSE answer
  /\ UNCHANGED <<pending, lives, process, pipes, queue>>

(* --------------------------------------------------- the backend process - *)

BackendAnswers(s) ==
  /\ proc[s] = "runs"
  /\ \E a \in todo[s] :
       /\ todo' = [todo EXCEPT ![s] = @ \ {a}]
       /\ inbound' = [inbound EXCEPT ![s] = Append(@, a)]
  /\ UNCHANGED <<pc, answer, pending, lives, process, wlock, chans, queue, disp, serverRequest>>

BackendAsks(s) ==
  /\ "asks" \in Habits
  /\ proc[s] = "runs" /\ serverRequest[s] = "none" /\ answer[s] = s
  /\ serverRequest' = [serverRequest EXCEPT ![s] = "asked"]
  /\ inbound' = [inbound EXCEPT ![s] = Append(@, "request")]
  /\ UNCHANGED <<pc, answer, pending, lives, process, wlock, todo, chans, queue, disp>>

BackendStalls(s) ==
  /\ "stalls" \in Habits /\ proc[s] = "runs"
  /\ stalled' = stalled \cup {s}
  /\ UNCHANGED <<pc, answer, pending, lives, closed, proc, pipes, chans, queue>>

(* The reader thread meets the end of the output and says so.                *)
BackendExits(s) ==
  /\ "exits" \in Habits /\ proc[s] = "runs"
  /\ proc' = [proc EXCEPT ![s] = "over"]
  /\ inbound' = [inbound EXCEPT ![s] = Append(@, "exit")]
  /\ UNCHANGED <<pc, answer, pending, lives, closed, stalled, wlock, todo, chans, queue, disp,
                 serverRequest>>

(* ------------------------------------------------------------ dispatcher - *)

TakesItem(s) == /\ disp[s] = "idle" /\ inbound[s] # <<>>
                /\ inbound' = [inbound EXCEPT ![s] = Tail(@)]

(* _handle_response: the entry with this id is popped and told; a response   *)
(* nobody waits for is dropped.                                              *)
DispatchAnswer(s) ==
  /\ TakesItem(s) /\ Head(inbound[s]) \in Askers
  /\ LET hit == {a \in PendingOn(s) : IdOf[a] = IdOf[Head(inbound[s])]} IN
     /\ pending' = pending \ hit
     /\ answer' = [a \in Askers |-> IF a \in hit /\ ~HasChannel(a)
                                      THEN Head(inbound[s]) ELSE answer[a]]
     /\ queue' = [c \in Streamers |-> IF c \in hit /\ HasChannel(c)
                                        THEN Put(queue[c], <<Head(inbound[s]), "close">>) ELSE queue[c]]
  /\ UNCHANGED <<pc, lives, process, wlock, todo, chans, disp, serverRequest>>

(* A request of the backend: is anybody listening?                           *)
DispatchRequest(s) ==
  /\ TakesItem(s) /\ Head(inbound[s]) = "request"
  /\ disp' = [disp EXCEPT ![s] = IF chans[s] = {} THEN "refuses" ELSE "offers"]
  /\ UNCHANGED <<pc, answer, pending, lives, process, wlock, todo, chans, queue, serverRequest>>

(* _broadcast takes a second look at the channels and drops what is full.    *)
Offer(s) ==
  /\ disp[s] = "offers"
  /\ disp' = [disp EXCEPT ![s] = "idle"]
  /\ queue' = [c \in Streamers |-> IF c \in chans[s] THEN Put(queue[c], <<"request">>) ELSE queue[c]]
  /\ serverRequest' = [serverRequest EXCEPT
       ![s] = IF \E c \in chans[s] : Len(queue[c]) < MaxQueue THEN "offered" ELSE "lost"]
  /\ UNCHANGED <<pc, answer, pending, lives, process, wlock, todo, inbound, chans>>

Refuse(s) ==
  /\ disp[s] = "refuses" /\ wlock[s] = None
  /\ IF Running(s)
       THEN wlock' = [wlock EXCEPT ![s] = s] /\ disp' = [disp EXCEPT ![s] = "writes"]
       ELSE disp' = [disp EXCEPT ![s] = "idle"] /\ UNCHANGED wlock
  /\ UNCHANGED <<pc, answer, pending, lives, process, todo, inbound, chans, queue, serverRequest>>

Refused(s) ==
  /\ disp[s] = "writes" /\ (s \notin stalled \/ proc[s] # "runs")
  /\ wlock' = [wlock EXCEPT ![s] = None]
  /\ disp' = [disp EXCEPT ![s] = "idle"]
  /\ serverRequest' = [serverRequest EXCEPT ![s] = "refused"]
  /\ UNCHANGED <<pc, answer, pending, lives, process, todo, inbound, chans, queue>>

(* _on_backend_exit: everything that waits is told the session is lost.  A   *)
(* full queue makes put_nowait raise: the entries after it are told nothing  *)
(* and the dispatcher is gone.  Told is one of the prefixes that can happen. *)
DispatchExit(s) ==
  /\ TakesItem(s) /\ Head(inbound[s]) = "exit"
  /\ disp' = [disp EXCEPT ![s] = "over"]
  /\ IF s \in deleted
       THEN UNCHANGED <<answer, pending, dead, chans, queue>>
       ELSE /\ dead' = dead \cup {s}
            /\ pending' = pending \ PendingOn(s)
            /\ chans' = [chans EXCEPT ![s] = {}]
            /\ LET full == {c \in chans[s] : Len(queue[c]) >= MaxQueue - 1} IN
               \E told \in IF full \cap PendingOn(s) = {} THEN {PendingOn(s)}
                           ELSE {t \in SUBSET PendingOn(s) : ~(full \cap PendingOn(s) \subseteq t)} :
               \E shut \in IF full = {} THEN {chans[s]} ELSE SUBSET (chans[s] \ full) :
                 /\ answer' = [a \in Askers |-> IF a \in told /\ ~HasChannel(a) THEN "lost" ELSE answer[a]]
                 /\ queue' = [c \in Streamers |->
                       IF c \in told \cap Sse /\ HasChannel(c) THEN Put(queue[c], <<"lost", "close">>)
                       ELSE IF c \in shut THEN Put(queue[c], <<"close">>) ELSE queue[c]]
  /\ UNCHANGED <<pc, table, deleted, ending, process, wlock, todo, serverRequest>>

(* --------------------------------------------------------------- closing - *)

ClosesTelling(s) ==
  /\ Closes(s)
  /\ answer' = [a \in Askers |-> IF a \in Told(s) THEN "deleted" ELSE answer[a]]
  /\ UNCHANGED <<pc, process, wlock, todo, inbound, serverRequest>>

(* DELETE needs the session id; shutdown_all takes every session it finds.   *)
Delete(s) ==
  /\ s \in table
  /\ \/ "deletes" \in Habits /\ pc[s] = "done" /\ answer[s] = s
     \/ "shutdown" \in Habits
  /\ ClosesTelling(s)
  /\ UNCHANGED disp

(* The reaper closes a session without activity.  With the default numbers a *)
(* request in flight gives up before its session counts as idle.             *)
Reap(s) ==
  /\ "idles" \in Habits
  /\ s \in table /\ pc[s] = "done" /\ Idle(s)
  /\ ClosesTelling(s)
  /\ UNCHANGED disp

(* BackendProcess.close: behind the write lock, the subprocess is ended.     *)
Stop(s) ==
  /\ s \in ending /\ wlock[s] = None
  /\ ending' = ending \ {s}
  /\ closed' = closed \cup {s}
  /\ IF proc[s] = "runs"
       THEN /\ proc' = [proc EXCEPT ![s] = "over"]
            /\ inbound' = [inbound EXCEPT ![s] = Append(@, "exit")]
       ELSE UNCHANGED <<proc, inbound>>
  /\ UNCHANGED <<pc, answer, pending, table, deleted, dead, stalled, wlock, todo, chans, queue, disp,
                 serverRequest>>

Handle(a) == Register(a) \/ Send(a) \/ Written(a) \/ Reply(a)
Dispatch(s) == DispatchAnswer(s) \/ DispatchRequest(s) \/ Offer(s) \/ Refuse(s) \/ Refused(s)
               \/ DispatchExit(s)

Next ==
  \/ \E s \in Sessions : \/ Create(s) \/ Spawn(s) \/ SpawnFails(s)
                         \/ BackendAnswers(s) \/ BackendAsks(s) \/ BackendStalls(s) \/ BackendExits(s)
                         \/ DispatchAnswer(s) \/ DispatchRequest(s) \/ Offer(s) \/ Refuse(s)
                         \/ Refused(s) \/ DispatchExit(s)
                         \/ Delete(s) \/ Reap(s) \/ Stop(s)
  \/ \E a \in Askers : Register(a) \/ Send(a) \/ Written(a) \/ Reply(a) \/ TimesOut(a)
  \/ \E p \in Posts : Post(p) \/ SendTooLong(p)
  \/ \E p \in Sse : Attach(p)
  \/ \E g \in Gets : Open(g)
  \/ \E c \in Streamers : Stream(c) \/ StreamGivesUp(c)

Spec == Init /\ [][Next]_vars

(* Every handler, dispatcher and closing thread runs; waits run out; nothing *)
(* is asked of the client or of the backend.                                 *)
Fairness ==
  /\ \A s \in Sessions : WF_vars(Spawn(s)) /\ WF_vars(Dispatch(s)) /\ WF_vars(Stop(s))
  /\ \A a \in Askers : WF_vars(Handle(a)) /\ WF_vars(TimesOut(a))
  /\ \A p \in Sse : WF_vars(Attach(p))
  /\ \A c \in Streamers : WF_vars(Stream(c))
  /\ \A p \in Sse : WF_vars(StreamGivesUp(p) /\ queue[p] = <<>>)
FairSpec == Spec /\ Fairness

TypeOK ==
  /\ pc \in [Askers \cup Gets -> {"idle", "spawns", "registers", "attaches", "sends", "writes",
                                  "waits", "streams", "done"}]
  /\ answer \in [Askers -> Askers \cup {None, "refused", "lost", "deleted", "timeout", "close"}]
  /\ pending \subseteq Askers
  /\ UNION {table, deleted, dead, ending, closed, stalled} \subseteq Sessions
  /\ proc \in [Sessions -> {"none", "runs", "over"}]
  /\ wlock \in [Sessions -> Askers \cup {None}]
  /\ todo \in [Sessions -> SUBSET Askers]
  /\ \A s \in Sessions : Range(inbound[s]) \subseteq Askers \cup {"request", "exit"}
  /\ chans \in [Sessions -> SUBSET Streamers]
  /\ \A c \in Streamers : Len(queue[c]) <= MaxQueue
  /\ disp \in [Sessions -> {"idle", "offers", "refuses", "writes", "over"}]
  /\ serverRequest \in [Sessions -> {"none", "asked", "offered", "refused", "lost"}]

(* A client is never given the answer of another request, also when a client *)
(* uses an id twice and the answers come in any order.                       *)
OwnAnswer == \A a \in Askers : answer[a] \in Askers => answer[a] = a

(* A place among the requests in flight is given back when a request with a  *)
(* JSON answer is over, however it ended.  An event stream that was given up *)
(* keeps its place until the backend answers or exits.                       *)
SlotsReturn == \A p \in pending \ Sse : pc[p] # "done"

(* A session that has left the table and finished closing runs no process.   *)
NoOrphan == \A s \in Sessions : (s \in deleted \ ending /\ pc[s] = "done") => proc[s] # "runs"

(* A request of the backend is offered to a listener or answered with an     *)
(* error: it never disappears.                                               *)
BackendNeverHangs == \A s \in Sessions : serverRequest[s] # "lost"

(* Every POST is answered, whatever the backend, a DELETE, or the reaper do. *)
EachPostEnds == \A a \in Askers : pc[a] # "idle" ~> pc[a] = "done"
=============================================================================
