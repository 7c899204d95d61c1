---------------------------- MODULE LogicalStream ----------------------------
(***************************************************************************)
(* One logical stream of the bridge (bridge_runtime.py): the opener node's *)
(* side (_serve_local_stream, started by a local Agent connection), the    *)
(* owner node's side (_handle_remote_open, which starts the registered     *)
(* MCP) and the peer link between them.  Both nodes run one asyncio loop;  *)
(* an action is what a task does between two awaits that really yield.     *)
(* Data frames are stop-and-wait per direction: a chunk is a number, the   *)
(* i-th chunk a node sends has value i.                                    *)
(***************************************************************************)
EXTENDS Naturals, Sequences

CONSTANTS
  MaxChunks,     \* MaxChunks[n]: bound on the chunks node n hands to the stream
  MaxLinks,      \* bound: how often the peer link is established again
  InboundLimit,  \* maxsize of StreamState.inbound (32 in the code)
  Routes         \* routes a stream may take, see AllRoutes

\* "dedicated": a process per stream.  "staged": the same with inputDelivery
\* (stream.input_stage).  "adapter": the compatibility-HTTP adapter process.
AllRoutes == {"dedicated", "staged", "adapter"}

ASSUME ConstantsAssumption ==
  /\ MaxChunks \in [{"opener", "owner"} -> Nat]
  /\ MaxLinks \in Nat
  /\ InboundLimit \in Nat \ {0}
  /\ Routes \subseteq AllRoutes

VARIABLES
  route,     \* the route of this stream, fixed by the registration
  conn,      \* the TCP connection of the peer link: "up" or "dead"
  links,     \* how often the link was established again (history, bounded)
  ready,     \* ready[n]: link_ready of node n
  wire,      \* wire[n]: frames on their way to node n, in order
  tbl,       \* tbl[n]: the stream is in node n's table `streams`
  closed,    \* closed[n]: StreamState.closed
  inq,       \* inq[n]: StreamState.inbound
  inSeq,     \* inSeq[n]: StreamState.inbound_sequence
  outSeq,    \* outSeq[n]: StreamState.outbound_sequence
  ack,       \* ack[n]: StreamState.outbound_ack
  tx,        \* tx[n]: the task that pumps the local source into the stream
  rx,        \* rx[n]: the task _consume_stream_input
  rxSeq,     \* rxSeq[n]: the sequence that task has to acknowledge
  closer,    \* closer[n]: scheduled _close_stream calls that did not start
  closing,   \* closing[n]: the _close_stream call that is running
  client,    \* the opener's task _serve_local_stream
  opened,    \* the opener's future StreamState.opened
  open,      \* the owner's task _handle_remote_open
  proc,      \* the MCP process of the stream on the owner
  wt,        \* the owner's task _wait_process
  sent,      \* sent[n]: chunks node n handed to the stream (history)
  got,       \* got[n]: values node n wrote to its local side (history)
  dropped    \* what the owner took from a source and never sent (history)

linkVars == <<route, conn, links, ready>>
sendVars == <<outSeq, ack, tx, sent>>
recvVars == <<inq, inSeq, rx, rxSeq, got>>
tableVars == <<tbl, closed, closer, closing>>
endVars == <<client, opened, open, proc, wt>>
vars == <<linkVars, wire, sendVars, recvVars, tableVars, endVars, dropped>>

Nodes == {"opener", "owner"}
Peer(n) == IF n = "opener" THEN "owner" ELSE "opener"

Kinds == {"open", "open_ok", "open_error", "data", "data_ok", "eof", "close"}
Frame == [type : Kinds, seq : Nat, val : Nat]
Control(kind) == [type |-> kind, seq |-> 0, val |-> 0]
Data(q, v) == [type |-> "data", seq |-> q, val |-> v]
DataOk(q) == [type |-> "data_ok", seq |-> q, val |-> 0]

\* Type correctness: tasks and tables in their states, frames only on the wires,
\* and no counter below zero, so a retry never reuses an acknowledged sequence.
TypeOK ==
  /\ route \in Routes
  /\ conn \in {"up", "dead"}
  /\ links \in Nat
  /\ ready \in [Nodes -> BOOLEAN]
  /\ wire \in [Nodes -> Seq(Frame)]
  /\ tbl \in [Nodes -> BOOLEAN]
  /\ closed \in [Nodes -> BOOLEAN]
  /\ inq \in [Nodes -> Seq(Frame)]
  /\ inSeq \in [Nodes -> Nat]
  /\ outSeq \in [Nodes -> Nat]
  /\ ack \in [Nodes -> {"none", "wait", "set", "late"}]
  /\ tx \in [Nodes -> {"off", "idle", "wait", "done", "dead"}]
  /\ rx \in [Nodes -> {"off", "get", "drain", "refuse", "refusing", "done", "dead"}]
  /\ rxSeq \in [Nodes -> Nat]
  /\ closer \in [Nodes -> SUBSET {"local", "remote", "link"}]
  /\ closing \in [Nodes -> {"no", "local", "remote", "link"}]
  /\ client \in {"wait", "woken", "opening", "serving", "eofsent", "done"}
  /\ opened \in {"pending", "ok", "error"}
  /\ open \in {"none", "spawning", "serving", "failed"}
  /\ proc \in {"none", "running", "stopping", "exited"}
  /\ wt \in {"off", "run", "done"}
  /\ sent \in [Nodes -> Nat]
  /\ got \in [Nodes -> Seq(Nat)]
  /\ dropped \in SUBSET {"output", "refusal"}

Init ==
  /\ route \in Routes
  /\ conn = "up" /\ links = 0
  /\ ready = [n \in Nodes |-> TRUE]
  /\ wire = [n \in Nodes |-> <<>>]
  /\ tbl = [n \in Nodes |-> FALSE]
  /\ closed = [n \in Nodes |-> FALSE]
  /\ inq = [n \in Nodes |-> <<>>]
  /\ inSeq = [n \in Nodes |-> 0]
  /\ outSeq = [n \in Nodes |-> 0]
  /\ ack = [n \in Nodes |-> "none"]
  /\ tx = [n \in Nodes |-> "off"]
  /\ rx = [n \in Nodes |-> "off"]
  /\ rxSeq = [n \in Nodes |-> 0]
  /\ closer = [n \in Nodes |-> {}]
  /\ closing = [n \in Nodes |-> "no"]
  /\ client = "wait" /\ opened = "pending"
  /\ open = "none" /\ proc = "none" /\ wt = "off"
  /\ sent = [n \in Nodes |-> 0]
  /\ got = [n \in Nodes |-> <<>>]
  /\ dropped = {}

-----------------------------------------------------------------------------
(* The peer link and _send_frame.                                          *)

\* A send that returns: the frame is written, and is lost when the
\* connection is dead and this node has not noticed it yet.
Sends(n, frame) ==
  /\ ready[n]
  /\ wire' = IF conn = "up"
             THEN [wire EXCEPT ![Peer(n)] = Append(@, frame)]
             ELSE wire

\* A send that raises: BridgeError without a link, ConnectionError from the
\* drain of a connection that is dead.
LinkIsDown(n) == ~ready[n]
DrainRaises(n) == ready[n] /\ conn = "dead"
SendRaises(n) == (LinkIsDown(n) \/ DrainRaises(n)) /\ UNCHANGED wire

\* _background(self._close_stream(...)): a task that has not started.  The
\* call does nothing for a stream that left the table, and none returns to it.
Schedule(n, why) ==
  closer' = IF tbl[n] THEN [closer EXCEPT ![n] = @ \cup {why}] ELSE closer

\* The connection breaks: of the frames in flight only a prefix arrives.
LinkDrop ==
  /\ conn = "up"
  /\ conn' = "dead"
  /\ \E i \in 0..Len(wire["opener"]), j \in 0..Len(wire["owner"]) :
       wire' = [n \in Nodes |-> SubSeq(wire[n], 1, IF n = "opener" THEN i ELSE j)]
  /\ UNCHANGED <<route, links, ready, sendVars, recvVars, tableVars, endVars, dropped>>

\* Faulty variant: the streams of the lost link stay in the table.
LinkLostKeepsStreams(n) ==
  /\ conn = "dead" /\ ready[n] /\ wire[n] = <<>>
  /\ ready' = [ready EXCEPT ![n] = FALSE]
  /\ UNCHANGED <<route, conn, links, wire, sendVars, recvVars, tableVars, endVars, dropped>>

\* A node notices the end of the link (EOF or the heartbeat watchdog), clears
\* link_ready and _fail_link_state closes every stream in its table.
LinkLost(n) ==
  /\ conn = "dead" /\ ready[n] /\ wire[n] = <<>>
  /\ ready' = [ready EXCEPT ![n] = FALSE]
  /\ Schedule(n, "link")
  /\ UNCHANGED <<route, conn, links, wire, sendVars, recvVars, tbl, closed, closing,
                 endVars, dropped>>

\* The handshake of a new link: neither node runs one while it has a link or
\* is still failing the old one.
LinkUp ==
  /\ conn = "dead" /\ links < MaxLinks
  /\ \A n \in Nodes : ~ready[n] /\ "link" \notin closer[n] /\ closing[n] # "link"
  /\ conn' = "up" /\ links' = links + 1
  /\ ready' = [n \in Nodes |-> TRUE]
  /\ UNCHANGED <<route, wire, sendVars, recvVars, tableVars, endVars, dropped>>

-----------------------------------------------------------------------------
(* Sending data: _send_stream_data, called by the pump of the local source  *)
(* (_pump_local_input, _pump_process_output) and, on the owner, for the     *)
(* error response to a refused input descriptor.                            *)

SourceOpen(n) == n = "opener" \/ proc # "none"

\* The pump reads a chunk and sends it.
PumpSend(n) ==
  /\ tx[n] = "idle" /\ ack[n] = "none" /\ SourceOpen(n) /\ sent[n] < MaxChunks[n]
  /\ sent' = [sent EXCEPT ![n] = @ + 1]
  /\ \/ /\ Sends(n, Data(outSeq[n], sent[n] + 1))
        /\ ack' = [ack EXCEPT ![n] = "wait"]
        /\ tx' = [tx EXCEPT ![n] = "wait"]
        /\ UNCHANGED closer
     \/ /\ SendRaises(n)
        /\ Schedule(n, "local")
        /\ tx' = [tx EXCEPT ![n] = "dead"]
        /\ UNCHANGED ack
  /\ UNCHANGED <<linkVars, outSeq, recvVars, tbl, closed, closing, endVars, dropped>>

\* The pump reads a chunk while another sender waits for its acknowledgement:
\* _send_stream_data raises before its try, nothing is scheduled.
PumpRefused(n) ==
  /\ tx[n] = "idle" /\ ack[n] # "none" /\ SourceOpen(n) /\ sent[n] < MaxChunks[n]
  /\ tx' = [tx EXCEPT ![n] = "dead"]
  /\ dropped' = dropped \cup {"output"}
  /\ UNCHANGED <<linkVars, wire, outSeq, ack, sent, recvVars, tableVars, endVars>>

\* The source is at its end: the Agent shut down its writing side, or the
\* process closed stdout.
PumpEnd(n) ==
  /\ tx[n] = "idle"
  /\ tx' = [tx EXCEPT ![n] = "done"]
  /\ UNCHANGED <<linkVars, wire, outSeq, ack, sent, recvVars, tableVars, endVars,
                 dropped>>

\* Faulty variant: the sequence does not advance.
PumpAckedSameSequence(n) ==
  /\ tx[n] = "wait" /\ ack[n] = "set"
  /\ ack' = [ack EXCEPT ![n] = "none"]
  /\ tx' = [tx EXCEPT ![n] = "idle"]
  /\ UNCHANGED <<linkVars, wire, outSeq, sent, recvVars, tableVars, endVars, dropped>>

PumpAcked(n) ==
  /\ tx[n] = "wait" /\ ack[n] = "set"
  /\ outSeq' = [outSeq EXCEPT ![n] = @ + 1]
  /\ ack' = [ack EXCEPT ![n] = "none"]
  /\ tx' = [tx EXCEPT ![n] = "idle"]
  /\ UNCHANGED <<linkVars, wire, sent, recvVars, tableVars, endVars, dropped>>

\* Faulty variants of PumpFailed: the chunk is sent again under the sequence
\* before it; the timeout counts as an acknowledgement; nothing is closed.
PumpFailedRollsBack(n) ==
  /\ tx[n] = "wait" /\ ack[n] = "wait"
  /\ ack' = [ack EXCEPT ![n] = "none"]
  /\ tx' = [tx EXCEPT ![n] = "idle"]
  /\ outSeq' = [outSeq EXCEPT ![n] = @ - 1]
  /\ UNCHANGED <<linkVars, wire, sent, recvVars, tableVars, endVars, dropped>>

PumpFailedAdvances(n) ==
  /\ tx[n] = "wait" /\ ack[n] = "wait"
  /\ ack' = [ack EXCEPT ![n] = "none"]
  /\ tx' = [tx EXCEPT ![n] = "idle"]
  /\ outSeq' = [outSeq EXCEPT ![n] = @ + 1]
  /\ UNCHANGED <<linkVars, wire, sent, recvVars, tableVars, endVars, dropped>>

PumpFailedKeepsStream(n) ==
  /\ tx[n] = "wait" /\ ack[n] = "wait"
  /\ ack' = [ack EXCEPT ![n] = "none"]
  /\ tx' = [tx EXCEPT ![n] = "dead"]
  /\ UNCHANGED <<linkVars, wire, outSeq, sent, recvVars, tableVars, endVars, dropped>>

\* The acknowledgement did not come in 30 seconds: the stream is closed in the
\* background and the error goes up.
PumpFailed(n) ==
  /\ tx[n] = "wait" /\ ack[n] = "wait"
  /\ ack' = [ack EXCEPT ![n] = "none"]
  /\ tx' = [tx EXCEPT ![n] = "dead"]
  /\ Schedule(n, "local")
  /\ UNCHANGED <<linkVars, wire, outSeq, sent, recvVars, tbl, closed, closing,
                 endVars, dropped>>

-----------------------------------------------------------------------------
(* Writing to the local side: _consume_stream_input.                        *)

HeadKind(n) == Head(inq[n]).type

\* EOF: half-close the local side; the consumer is finished.
TakeEof(n) ==
  /\ rx[n] = "get" /\ inq[n] # <<>> /\ HeadKind(n) = "eof"
  /\ inq' = [inq EXCEPT ![n] = Tail(@)]
  /\ rx' = [rx EXCEPT ![n] = "done"]
  /\ UNCHANGED <<linkVars, wire, sendVars, inSeq, rxSeq, got, tableVars, endVars,
                 dropped>>

TakesData(n) ==
  /\ rx[n] = "get" /\ inq[n] # <<>> /\ HeadKind(n) = "data"
  /\ inq' = [inq EXCEPT ![n] = Tail(@)]
  /\ rxSeq' = [rxSeq EXCEPT ![n] = Head(inq[n]).seq]
  /\ UNCHANGED <<linkVars, wire, sendVars, inSeq, tbl, closed, closing, endVars, dropped>>

\* Write the chunk to the local side and wait until it drained.
TakeData(n) ==
  /\ TakesData(n)
  /\ got' = [got EXCEPT ![n] = Append(@, Head(inq[n]).val)]
  /\ rx' = [rx EXCEPT ![n] = "drain"]
  /\ UNCHANGED closer

\* The write fails: the Agent's socket is gone, or the process is or has closed
\* its stdin.
TakeBroken(n) ==
  /\ TakesData(n)
  /\ rx' = [rx EXCEPT ![n] = "dead"]
  /\ Schedule(n, "local")
  /\ UNCHANGED got

\* _consume_dedicated_input: the chunk is a tools/call with a descriptor that
\* is not staged for this stream; an error response is sent in its place.
TakeRefused(n) ==
  /\ n = "owner" /\ route = "staged"
  /\ TakesData(n)
  /\ got' = [got EXCEPT ![n] = Append(@, Head(inq[n]).val)]
  /\ rx' = [rx EXCEPT ![n] = "refuse"]
  /\ UNCHANGED closer

\* The error response goes through _send_stream_data; its errors are
\* swallowed.  While the stdout pump waits it raises before its try.
RefuseSend(n) ==
  /\ rx[n] = "refuse" /\ ack[n] = "none"
  /\ sent' = [sent EXCEPT ![n] = @ + 1]
  /\ \/ /\ Sends(n, Data(outSeq[n], sent[n] + 1))
        /\ ack' = [ack EXCEPT ![n] = "wait"]
        /\ rx' = [rx EXCEPT ![n] = "refusing"]
        /\ UNCHANGED closer
     \/ /\ SendRaises(n)
        /\ Schedule(n, "local")
        /\ rx' = [rx EXCEPT ![n] = "drain"]
        /\ UNCHANGED ack
  /\ UNCHANGED <<linkVars, outSeq, tx, inq, inSeq, rxSeq, got, tbl, closed, closing,
                 endVars, dropped>>

RefuseRefused(n) ==
  /\ rx[n] = "refuse" /\ ack[n] # "none"
  /\ rx' = [rx EXCEPT ![n] = "drain"]
  /\ dropped' = dropped \cup {"refusal"}
  /\ UNCHANGED <<linkVars, wire, sendVars, inq, inSeq, rxSeq, got, tableVars, endVars>>

RefuseAcked(n) ==
  /\ rx[n] = "refusing" /\ ack[n] = "set"
  /\ outSeq' = [outSeq EXCEPT ![n] = @ + 1]
  /\ ack' = [ack EXCEPT ![n] = "none"]
  /\ rx' = [rx EXCEPT ![n] = "drain"]
  /\ UNCHANGED <<linkVars, wire, tx, sent, inq, inSeq, rxSeq, got, tableVars, endVars,
                 dropped>>

RefuseFailed(n) ==
  /\ rx[n] = "refusing" /\ ack[n] = "wait"
  /\ ack' = [ack EXCEPT ![n] = "none"]
  /\ rx' = [rx EXCEPT ![n] = "drain"]
  /\ Schedule(n, "local")
  /\ UNCHANGED <<linkVars, wire, outSeq, tx, sent, inq, inSeq, rxSeq, got, tbl, closed,
                 closing, endVars, dropped>>

\* The chunk drained: acknowledge it.
AckData(n) ==
  /\ rx[n] = "drain"
  /\ \/ /\ Sends(n, DataOk(rxSeq[n]))
        /\ rx' = [rx EXCEPT ![n] = "get"]
        /\ UNCHANGED closer
     \/ /\ SendRaises(n)
        /\ rx' = [rx EXCEPT ![n] = "dead"]
        /\ Schedule(n, "local")
  /\ UNCHANGED <<linkVars, sendVars, inq, inSeq, rxSeq, got, tbl, closed, closing,
                 endVars, dropped>>

-----------------------------------------------------------------------------
(* Closing: _close_stream.                                                  *)

\* Up to its first await: leave the table, fail the acknowledgement, cancel
\* the stream's tasks, terminate the process if there already is one.
CloseBegin(n, why) ==
  /\ why \in closer[n]
  /\ closer' = [closer EXCEPT ![n] = {}]  \* the others find no stream
  /\ IF ~tbl[n]
     THEN UNCHANGED <<tbl, closed, closing, ack, tx, rx, wt, proc>>
     ELSE /\ tbl' = [tbl EXCEPT ![n] = FALSE]
          /\ closed' = [closed EXCEPT ![n] = TRUE]
          /\ closing' = [closing EXCEPT ![n] = why]
          /\ ack' = [ack EXCEPT ![n] = "none"]
          /\ tx' = [tx EXCEPT ![n] = IF @ \in {"idle", "wait"} THEN "dead" ELSE @]
          /\ rx' = [rx EXCEPT ![n] = IF @ \in {"off", "done"} THEN @ ELSE "dead"]
          /\ wt' = IF n = "owner" /\ wt = "run" THEN "done" ELSE wt
          /\ proc' = IF n = "owner" /\ proc = "running" THEN "stopping" ELSE proc
  /\ UNCHANGED <<linkVars, wire, outSeq, sent, inq, inSeq, rxSeq, got, client, opened,
                 open, dropped>>

\* Faulty variant: the peer is never told.
CloseFinishSilently(n) ==
  /\ closing[n] # "no"
  /\ n = "owner" => proc # "stopping"
  /\ closing' = [closing EXCEPT ![n] = "no"]
  /\ UNCHANGED <<linkVars, wire, sendVars, recvVars, tbl, closed, closer, endVars, dropped>>

\* After the Agent has read what was written to it (wait_closed has no timeout)
\* or the process ended (terminate, after five seconds kill): tell the peer,
\* unless the peer or the link ended the stream.
CloseFinish(n) ==
  /\ closing[n] # "no"
  /\ n = "owner" => proc # "stopping"
  /\ closing' = [closing EXCEPT ![n] = "no"]
  /\ IF closing[n] = "local"
     THEN Sends(n, Control("close")) \/ SendRaises(n)
     ELSE UNCHANGED wire
  /\ UNCHANGED <<linkVars, sendVars, recvVars, tbl, closed, closer, endVars, dropped>>

-----------------------------------------------------------------------------
(* The opener: _serve_local_stream.                                         *)

\* link_ready.wait() returns; the task goes on in a later iteration.
ClientWake ==
  /\ client = "wait" /\ ready["opener"]
  /\ client' = "woken"
  /\ UNCHANGED <<linkVars, wire, sendVars, recvVars, tableVars, opened, open, proc, wt,
                 dropped>>

\* No link for ten seconds.
ClientGivesUp ==
  /\ client = "wait" /\ ~ready["opener"]
  /\ client' = "done"
  /\ UNCHANGED <<linkVars, wire, sendVars, recvVars, tableVars, opened, open, proc, wt,
                 dropped>>

\* Register the stream and send `open`; a failing send is outside the try.
ClientOpen ==
  /\ client = "woken"
  /\ tbl' = [tbl EXCEPT !["opener"] = TRUE]
  /\ rx' = [rx EXCEPT !["opener"] = "get"]
  /\ \/ Sends("opener", Control("open")) /\ client' = "opening"
     \/ SendRaises("opener") /\ client' = "done"
  /\ UNCHANGED <<linkVars, sendVars, inq, inSeq, rxSeq, got, closed, closer, closing,
                 opened, open, proc, wt, dropped>>

\* The owner accepted: answer the Agent and start the pump.
ClientOpened ==
  /\ client = "opening" /\ opened = "ok"
  /\ client' = "serving"
  /\ tx' = [tx EXCEPT !["opener"] = "idle"]
  /\ UNCHANGED <<linkVars, wire, outSeq, ack, sent, recvVars, tableVars, opened, open,
                 proc, wt, dropped>>

\* open_error, no answer in ten seconds, or the Agent left before the answer.
ClientFails ==
  /\ client = "opening"
  /\ client' = "done"
  /\ IF tbl["opener"]
     THEN /\ tbl' = [tbl EXCEPT !["opener"] = FALSE]
          /\ closed' = [closed EXCEPT !["opener"] = TRUE]
          /\ rx' = [rx EXCEPT !["opener"] = IF @ = "done" THEN @ ELSE "dead"]
     ELSE UNCHANGED <<tbl, closed, rx>>
  /\ Sends("opener", Control("close")) \/ SendRaises("opener")
  /\ UNCHANGED <<linkVars, sendVars, inq, inSeq, rxSeq, got, closer, closing, opened,
                 open, proc, wt, dropped>>

\* The Agent's input ended first: forward EOF and give the owner five seconds.
ClientEof ==
  /\ client = "serving" /\ tx["opener"] = "done" /\ ~closed["opener"]
  /\ \/ /\ Sends("opener", Control("eof"))
        /\ client' = "eofsent"
        /\ UNCHANGED closer
     \/ /\ SendRaises("opener")
        /\ client' = "done"
        /\ Schedule("opener", "local")
  /\ UNCHANGED <<linkVars, sendVars, recvVars, tbl, closed, closing, opened, open,
                 proc, wt, dropped>>

\* Faulty variant: the grace period has no end.
ClientClosesOnErrorOnly ==
  /\ client = "serving" /\ tx["opener"] = "dead" /\ ~closed["opener"]
  /\ client' = "done"
  /\ Schedule("opener", "local")
  /\ UNCHANGED <<linkVars, wire, sendVars, recvVars, tbl, closed, closing, opened, open,
                 proc, wt, dropped>>

\* The pump failed, or the five seconds are over: close from this side.
ClientCloses ==
  /\ \/ client = "serving" /\ tx["opener"] = "dead"
     \/ client = "eofsent"
  /\ ~closed["opener"]
  /\ client' = "done"
  /\ Schedule("opener", "local")
  /\ UNCHANGED <<linkVars, wire, sendVars, recvVars, tbl, closed, closing, opened, open,
                 proc, wt, dropped>>

\* The stream was closed; a pump started after that is cancelled here.
ClientClosed ==
  /\ client \in {"serving", "eofsent"} /\ closed["opener"]
  /\ client' = "done"
  /\ tx' = [tx EXCEPT !["opener"] = IF @ \in {"idle", "wait"} THEN "dead" ELSE @]
  /\ ack' = [ack EXCEPT !["opener"] = "none"]
  /\ UNCHANGED <<linkVars, wire, outSeq, sent, recvVars, tableVars, opened, open, proc,
                 wt, dropped>>

-----------------------------------------------------------------------------
(* The owner: _handle_remote_open, _start_http_stdio_compatibility and      *)
(* _wait_process.                                                           *)

\* The process started.  open_ok is sent and the tasks start whether or not
\* the stream is still in the table.  A failing send ends the handler; the
\* adapter route takes the stream out of the table then.
SpawnOk ==
  /\ open = "spawning"
  /\ proc' = "running"
  /\ \/ /\ Sends("owner", Control("open_ok"))
        /\ open' = "serving" /\ wt' = "run"
        /\ tx' = [tx EXCEPT !["owner"] = "idle"]
        /\ rx' = [rx EXCEPT !["owner"] = "get"]
        /\ UNCHANGED tbl
     \/ /\ SendRaises("owner")
        /\ open' = "failed"
        /\ tbl' = IF route = "adapter" THEN [tbl EXCEPT !["owner"] = FALSE] ELSE tbl
        /\ UNCHANGED <<wt, tx, rx>>
  /\ UNCHANGED <<linkVars, outSeq, ack, sent, inq, inSeq, rxSeq, got, closed, closer,
                 closing, client, opened, dropped>>

SpawnFails ==
  /\ open = "spawning"
  /\ open' = "failed"
  /\ tbl' = [tbl EXCEPT !["owner"] = FALSE]
  /\ Sends("owner", Control("open_error")) \/ SendRaises("owner")
  /\ UNCHANGED <<linkVars, sendVars, recvVars, closed, closer, closing, client, opened,
                 proc, wt, dropped>>

Exit(from) ==
  /\ proc = from
  /\ proc' = "exited"
  /\ UNCHANGED <<linkVars, wire, sendVars, recvVars, tableVars, client, opened, open, wt,
                 dropped>>

\* The process exits by itself, or because _close_stream terminated it (and
\* killed it after five seconds).
ProcExit == Exit("running")
ProcStopped == Exit("stopping")

\* _wait_process: the process exited and its stdout pump is finished.  The
\* peer learns it by `close`; a ConnectionError kills this task.
WaitDone ==
  /\ wt = "run" /\ proc = "exited" /\ tx["owner"] \in {"done", "dead"}
  /\ wt' = "done"
  /\ \/ Sends("owner", Control("close")) /\ Schedule("owner", "remote")
     \/ LinkIsDown("owner") /\ UNCHANGED wire /\ Schedule("owner", "remote")
     \/ DrainRaises("owner") /\ UNCHANGED <<wire, closer>>
  /\ UNCHANGED <<linkVars, sendVars, recvVars, tbl, closed, closing, client, opened, open,
                 proc, dropped>>

-----------------------------------------------------------------------------
(* _link_read_loop and _handle_frame: one frame at a time, in order.        *)

Arrives(n, kind) ==
  /\ ready[n] /\ wire[n] # <<>> /\ Head(wire[n]).type = kind

\* The frame is consumed and nothing is sent.
Consumed(n) == wire' = [wire EXCEPT ![n] = Tail(@)]

\* `open` starts the process, unless the registry or the route refuses it.
RecvOpen ==
  /\ Arrives("owner", "open")
  /\ \/ /\ Consumed("owner")
        /\ tbl' = [tbl EXCEPT !["owner"] = TRUE]
        /\ open' = "spawning"
     \/ /\ wire' = [n \in Nodes |->
                      IF n = "owner" THEN Tail(wire[n])
                      ELSE IF conn = "up" THEN Append(wire[n], Control("open_error"))
                      ELSE wire[n]]
        /\ open' = "failed"
        /\ UNCHANGED tbl
  /\ UNCHANGED <<linkVars, sendVars, recvVars, closed, closer, closing, client, opened,
                 proc, wt, dropped>>

RecvOpened(kind) ==
  /\ kind \in {"open_ok", "open_error"} /\ Arrives("opener", kind)
  /\ Consumed("opener")
  /\ opened' = IF tbl["opener"] /\ opened = "pending"
               THEN IF kind = "open_ok" THEN "ok" ELSE "error"
               ELSE opened
  /\ UNCHANGED <<linkVars, sendVars, recvVars, tableVars, client, open, proc, wt, dropped>>

\* _handle_stream_data: the expected sequence is queued, anything else (and
\* a full queue) closes the stream.
\* Faulty variant: the sequence is not checked.
DataAcceptedAnySequence(n) == Len(inq[n]) < InboundLimit

DataAccepted(n) == Head(wire[n]).seq = inSeq[n] /\ Len(inq[n]) < InboundLimit

RecvData(n) ==
  /\ Arrives(n, "data") /\ Consumed(n)
  /\ IF tbl[n] /\ DataAccepted(n)
     THEN /\ inq' = [inq EXCEPT ![n] = Append(@, Head(wire[n]))]
          /\ inSeq' = [inSeq EXCEPT ![n] = @ + 1]
          /\ UNCHANGED closer
     ELSE /\ Schedule(n, "local")
          /\ UNCHANGED <<inq, inSeq>>
  /\ UNCHANGED <<linkVars, sendVars, rx, rxSeq, got, tbl, closed, closing, endVars,
                 dropped>>

\* _handle_stream_data_ok.  A sender woken after a close was scheduled runs
\* after that close, which cancels it: its acknowledgement comes too late.
AckAccepted(n) == ack[n] = "wait" /\ Head(wire[n]).seq = outSeq[n]

RecvDataOk(n) ==
  /\ Arrives(n, "data_ok") /\ Consumed(n)
  /\ IF tbl[n] /\ AckAccepted(n)
     THEN /\ ack' = [ack EXCEPT ![n] = IF closer[n] = {} THEN "set" ELSE "late"]
          /\ UNCHANGED closer
     ELSE /\ Schedule(n, "local")
          /\ UNCHANGED ack
  /\ UNCHANGED <<linkVars, outSeq, tx, sent, recvVars, tbl, closed, closing, endVars,
                 dropped>>

RecvEof(n) ==
  /\ Arrives(n, "eof") /\ Consumed(n)
  /\ inq' = IF tbl[n] THEN [inq EXCEPT ![n] = Append(@, Control("eof"))] ELSE inq
  /\ UNCHANGED <<linkVars, sendVars, inSeq, rx, rxSeq, got, tableVars, endVars, dropped>>

RecvClose(n) ==
  /\ Arrives(n, "close") /\ Consumed(n)
  /\ Schedule(n, "remote")
  /\ UNCHANGED <<linkVars, sendVars, recvVars, tbl, closed, closing, endVars, dropped>>

-----------------------------------------------------------------------------
Link == LinkDrop \/ (\E n \in Nodes : LinkLost(n)) \/ LinkUp

Pump(n) == PumpSend(n) \/ PumpRefused(n) \/ PumpEnd(n) \/ PumpAcked(n) \/ PumpFailed(n)

Consume(n) ==
  \/ TakeEof(n) \/ TakeData(n) \/ TakeBroken(n) \/ TakeRefused(n) \/ AckData(n)
  \/ RefuseSend(n) \/ RefuseRefused(n) \/ RefuseAcked(n) \/ RefuseFailed(n)

CloseStarts(n) == \E why \in {"local", "remote"} : CloseBegin(n, why)
Close(n) == CloseStarts(n) \/ CloseBegin(n, "link") \/ CloseFinish(n)

Client ==
  \/ ClientWake \/ ClientGivesUp \/ ClientOpen \/ ClientOpened \/ ClientFails
  \/ ClientEof \/ ClientCloses \/ ClientClosed

Owner == SpawnOk \/ SpawnFails \/ ProcExit \/ ProcStopped \/ WaitDone

Receive(n) ==
  \/ RecvData(n) \/ RecvDataOk(n) \/ RecvEof(n) \/ RecvClose(n)
  \/ n = "owner" /\ RecvOpen
  \/ n = "opener" /\ \E kind \in {"open_ok", "open_error"} : RecvOpened(kind)

Next ==
  \/ Link \/ Client \/ Owner
  \/ \E n \in Nodes : Pump(n) \/ Consume(n) \/ Close(n) \/ Receive(n)

Spec == Init /\ [][Next]_vars

\* Each loop runs its ready tasks, timers expire, a started program either
\* runs or fails and a killed one ends.  Nothing is assumed of the MCP process,
\* the drain of the pipes (AckData waits for it) and the network, except that a
\* dead connection is noticed (the heartbeat); nothing of the Agent either but
\* that the socket takes the one line of ClientOpened.
Fairness ==
  /\ \A n \in Nodes :
       /\ WF_vars(LinkLost(n)) /\ WF_vars(Receive(n))
       /\ WF_vars(PumpAcked(n)) /\ WF_vars(PumpFailed(n))
       /\ WF_vars(CloseStarts(n))
  /\ WF_vars(CloseFinish("owner"))
  /\ WF_vars(ClientWake \/ ClientGivesUp) /\ WF_vars(ClientOpen)
  /\ WF_vars(ClientOpened \/ ClientFails)
  /\ WF_vars(ClientEof) /\ WF_vars(ClientCloses) /\ WF_vars(ClientClosed)
  /\ WF_vars(SpawnOk \/ SpawnFails) /\ WF_vars(ProcStopped) /\ WF_vars(WaitDone)

FairSpec == Spec /\ Fairness

\* What the close of a stream waits for without a timeout: the Agent's end of
\* the socket takes what is still to be written to it.  _fail_link_state waits
\* for the streams of a node one after the other, so each waits for the Agents
\* of those before it.
AgentsRead ==
  /\ WF_vars(CloseFinish("opener"))
  /\ \A n \in Nodes : WF_vars(CloseBegin(n, "link"))

-----------------------------------------------------------------------------
(* Safety.                                                                  *)

\* The stream is usable at node n: registered, and nothing will close it.
Live(n) == tbl[n] /\ closer[n] = {}

\* A sender never counts a chunk as acknowledged before the receiver wrote it
\* to its local side, and the receiver is at most one chunk ahead of what the
\* sender knows (one unacknowledged data frame per direction).
AckedIsDelivered ==
  \A n \in Nodes : outSeq[n] <= Len(got[Peer(n)]) /\ Len(got[Peer(n)]) <= outSeq[n] + 1

\* While a stream is usable and no acknowledgement is pending, every chunk its
\* node handed over was written at the other end: so the eof, the close after
\* the process's end and the end of the pump never overtake or lose data.  On
\* a stream without staged input nothing that was read is ever dropped.
SettledMeansDelivered ==
  /\ \A n \in Nodes :
       Live(n) /\ ack[n] = "none" => Len(got[Peer(n)]) = sent[n]
  /\ route # "staged" => dropped = {}

\* Two nodes that run this code never fault each other: a data frame or an
\* acknowledgement that would close the stream for its sequence arrives only
\* when one of the two ends is closing it already.
NoFalseFault ==
  \A n \in Nodes :
    Live(n) /\ ready[n] /\ wire[n] # <<>> =>
      /\ Head(wire[n]).type = "data" => DataAccepted(n) \/ ~Live(Peer(n))
      /\ Head(wire[n]).type = "data_ok" => AckAccepted(n)

\* Each direction of the stream implements the channel of ByteChannel.
ToOwner == INSTANCE ByteChannel
  WITH sent <- sent["opener"], delivered <- got["owner"], acked <- outSeq["opener"]
ToOpener == INSTANCE ByteChannel
  WITH sent <- sent["owner"], delivered <- got["opener"], acked <- outSeq["owner"]

ImplementsChannels == ToOwner!ChanSpec /\ ToOpener!ChanSpec

-----------------------------------------------------------------------------
(* Liveness, under FairSpec.                                                *)

\* After the EOF of an Agent that goes on reading, the stream ends at both nodes
\* whatever the process does: the five seconds of grace are a bound.
GraceEndsStream ==
  AgentsRead => (client = "eofsent" ~> ~tbl["opener"] /\ ~tbl["owner"])

\* While Agents read, a stream does not stay open at one end only: when a node's
\* end is gone, so is, in the end, the other's.
NoHalfOpenStream ==
  AgentsRead =>
    /\ client = "done" ~> ~tbl["owner"]
    /\ closed["owner"] \/ wt = "done" \/ open = "failed" ~> client = "done"

\* While Agents read, losing the link closes the streams that were in a node's
\* table when it noticed, even if the next link is up soon; none is resumed.
LinkLossEndsStreams ==
  AgentsRead => \A n \in Nodes : conn = "dead" /\ ready[n] /\ tbl[n] ~> ~tbl[n]

\* Claimed by docs/ARCHITECTURE.md:132-134 ("After local client EOF, the remote MCP
\* receives EOF and has a bounded five-second grace period before the stream is
\* terminated"), of every Agent: the owner's end closes, or loses its link.
GraceIsBounded == client = "eofsent" ~> ~tbl["owner"] \/ conn = "dead"

\* Claimed by docs/ARCHITECTURE.md:700-701 ("their processes are stream-scoped
\* and closing the Agent stream already stops them"): a process does not run
\* on after its stream was closed on the owner.
ClosedStreamStopsProcess == closed["owner"] /\ proc = "running" ~> proc # "running"

\* Claimed by docs/ARCHITECTURE.md:512-514: a tools/call that names an unknown
\* handle fails closed with a JSON-RPC error; while the stream stays usable
\* the error response is not dropped.
RefusalAnswered == Live("owner") => "refusal" \notin dropped
=============================================================================
