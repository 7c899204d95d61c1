------------------------- MODULE LogicalStreamProofs -------------------------
(* Theorems about LogicalStream, for every number of chunks and of links,   *)
(* every bound of the inbound queue and every route.                        *)
EXTENDS LogicalStream, TLAPS

\* The peer of a node is the other node.
LEMMA PeerType == \A n \in Nodes : Peer(n) \in Nodes /\ Peer(n) # n /\ Peer(Peer(n)) = n
BY DEF Nodes, Peer

\* Frames are records of the frame type.
LEMMA FrameType ==
  /\ \A kind \in Kinds : Control(kind) \in Frame
  /\ \A q, v \in Nat : Data(q, v) \in Frame
  /\ \A q \in Nat : DataOk(q) \in Frame
BY DEF Frame, Kinds, Control, Data, DataOk

\* What a send may do to the wires, whatever its outcome.
LEMMA SendsType ==
  ASSUME TypeOK, NEW n \in Nodes, NEW f \in Frame, Sends(n, f) \/ SendRaises(n)
  PROVE  wire' \in [Nodes -> Seq(Frame)]
<1>1. wire \in [Nodes -> Seq(Frame)] /\ Peer(n) \in Nodes
  BY PeerType DEF TypeOK
<1>2. Append(wire[Peer(n)], f) \in Seq(Frame)
  BY <1>1
<1>3. CASE Sends(n, f)
  BY <1>1, <1>2, <1>3 DEF Sends
<1>4. CASE SendRaises(n)
  BY <1>1, <1>4 DEF SendRaises
<1> QED
  BY <1>3, <1>4

\* Scheduling a _close_stream call leaves a set of reasons per node.
LEMMA ScheduleType ==
  ASSUME TypeOK, NEW n \in Nodes, NEW why \in {"local", "remote", "link"}, Schedule(n, why)
  PROVE  closer' \in [Nodes -> SUBSET {"local", "remote", "link"}]
BY DEF TypeOK, Schedule

\* The head and the rest of a sequence of frames.
LEMMA HeadTailType ==
  ASSUME NEW s \in Seq(Frame), s # <<>>
  PROVE  /\ Head(s) \in Frame /\ Tail(s) \in Seq(Frame)
         /\ Head(s).seq \in Nat /\ Head(s).val \in Nat
<1>1. Head(s) \in Frame /\ Tail(s) \in Seq(Frame)
  OBVIOUS
<1> QED
  BY <1>1 DEF Frame

\* Every step of both nodes keeps every variable in its type: the tables and the
\* task states of the stream, its counters, and frames only on the wires.
THEOREM TypeCorrect == Spec => []TypeOK
<1>1. Init => TypeOK
  BY DEF Init, TypeOK, Nodes
<1>2. TypeOK /\ [Next]_vars => TypeOK'
  <2> SUFFICES ASSUME TypeOK, [Next]_vars PROVE TypeOK'
    OBVIOUS
  <2> USE DEF TypeOK, Nodes, linkVars, sendVars, recvVars, tableVars, endVars
  <2>1. CASE Link
    <3>1. CASE LinkDrop
      <4>1. PICK i \in 0..Len(wire["opener"]), j \in 0..Len(wire["owner"]) :
              wire' = [n \in Nodes |-> SubSeq(wire[n], 1, IF n = "opener" THEN i ELSE j)]
        BY <3>1 DEF LinkDrop
      <4>2. wire["opener"] \in Seq(Frame) /\ wire["owner"] \in Seq(Frame)
        BY DEF Nodes
      <4>3. wire' \in [Nodes -> Seq(Frame)]
        BY <4>1, <4>2, SMTT(30) DEF Nodes
      <4> QED
        BY <3>1, <4>3, SMTT(30) DEF LinkDrop
    <3>2. CASE \E n \in Nodes : LinkLost(n)
      BY <3>2, ScheduleType DEF LinkLost
    <3>3. CASE LinkUp
      BY <3>3, SMTT(30) DEF LinkUp
    <3> QED
      BY <2>1, <3>1, <3>2, <3>3 DEF Link
  <2>2. CASE Client
    <3>1. CASE ClientWake
      BY <3>1 DEF ClientWake
    <3>9. CASE ClientGivesUp
      BY <3>9 DEF ClientGivesUp
    <3>5. CASE ClientOpened
      BY <3>5 DEF ClientOpened
    <3>6. CASE ClientCloses
      BY <3>6, ScheduleType DEF ClientCloses
    <3>7. CASE ClientClosed
      BY <3>7 DEF ClientClosed
    <3>2. CASE ClientOpen
      <4>1. wire' \in [Nodes -> Seq(Frame)]
        BY <3>2, SendsType, FrameType DEF ClientOpen, Nodes, Kinds
      <4> QED
        BY <3>2, <4>1, SMTT(30) DEF ClientOpen
    <3>3. CASE ClientFails
      <4>1. wire' \in [Nodes -> Seq(Frame)]
        BY <3>3, SendsType, FrameType DEF ClientFails, Nodes, Kinds
      <4>2. tbl' \in [Nodes -> BOOLEAN] /\ closed' \in [Nodes -> BOOLEAN]
        <5>1. CASE tbl["opener"]
          <6>1. /\ tbl' = [tbl EXCEPT !["opener"] = FALSE]
                /\ closed' = [closed EXCEPT !["opener"] = TRUE]
            BY <3>3, <5>1 DEF ClientFails
          <6> QED
            BY <6>1
        <5>2. CASE ~tbl["opener"]
          BY <3>3, <5>2 DEF ClientFails
        <5> QED
          BY <5>1, <5>2
      <4>3. rx' \in [Nodes -> {"off", "get", "drain", "refuse", "refusing", "done", "dead"}]
        <5>1. CASE tbl["opener"]
          BY <3>3, <5>1 DEF ClientFails
        <5>2. CASE ~tbl["opener"]
          BY <3>3, <5>2 DEF ClientFails
        <5> QED
          BY <5>1, <5>2
      <4> QED
        BY <3>3, <4>1, <4>2, <4>3 DEF ClientFails
    <3>4. CASE ClientEof
      <4>1. wire' \in [Nodes -> Seq(Frame)]
        BY <3>4, SendsType, FrameType DEF ClientEof, Nodes, Kinds
      <4> QED
        BY <3>4, <4>1, ScheduleType, SMTT(30) DEF ClientEof
    <3> QED
      BY <2>2, <3>1, <3>2, <3>3, <3>4, <3>5, <3>6, <3>7, <3>9 DEF Client
  <2>3. CASE Owner
    <3>1. CASE SpawnOk
      <4>1. wire' \in [Nodes -> Seq(Frame)]
        BY <3>1, SendsType, FrameType DEF SpawnOk, Nodes, Kinds
      <4>2. tbl' \in [Nodes -> BOOLEAN] /\ wt' \in {"off", "run", "done"}
        BY <3>1, ZenonT(30) DEF SpawnOk
      <4>3. /\ tx' \in [Nodes -> {"off", "idle", "wait", "done", "dead"}]
            /\ rx' \in [Nodes -> {"off", "get", "drain", "refuse", "refusing", "done", "dead"}]
        BY <3>1, SMTT(30) DEF SpawnOk
      <4> QED
        BY <3>1, <4>1, <4>2, <4>3 DEF SpawnOk
    <3>2. CASE SpawnFails
      <4>1. wire' \in [Nodes -> Seq(Frame)]
        BY <3>2, SendsType, FrameType DEF SpawnFails, Nodes, Kinds
      <4> QED
        BY <3>2, <4>1, SMTT(30) DEF SpawnFails
    <3>3. CASE ProcExit \/ ProcStopped
      <4>1. /\ proc' = "exited"
            /\ UNCHANGED <<linkVars, wire, sendVars, recvVars, tableVars, client, opened,
                           open, wt, dropped>>
        BY <3>3 DEF ProcExit, ProcStopped, Exit
      <4> QED
        BY <4>1
    <3>4. CASE WaitDone
      <4>1. wire' \in [Nodes -> Seq(Frame)]
        BY <3>4, SendsType, FrameType DEF WaitDone, Nodes, Kinds
      <4> QED
        BY <3>4, <4>1, ScheduleType, SMTT(30) DEF WaitDone
    <3> QED
      BY <2>3, <3>1, <3>2, <3>3, <3>4 DEF Owner
  <2>4. ASSUME NEW n \in Nodes, Pump(n) PROVE TypeOK'
    <3>1. CASE PumpSend(n)
      <4>1. Data(outSeq[n], sent[n] + 1) \in Frame
        BY FrameType, SMTT(30)
      <4>2. wire' \in [Nodes -> Seq(Frame)]
        BY <3>1, <4>1, SendsType DEF PumpSend
      <4> QED
        BY <3>1, <4>2, ScheduleType, SMTT(30) DEF PumpSend
    <3>2. CASE PumpRefused(n)
      <4>1. dropped' \in SUBSET {"output", "refusal"}
        BY <3>2 DEF PumpRefused
      <4> QED
        BY <3>2, <4>1 DEF PumpRefused
    <3>5. CASE PumpEnd(n)
      BY <3>5 DEF PumpEnd
    <3>3. CASE PumpAcked(n)
      <4>1. /\ outSeq' \in [Nodes -> Nat]
            /\ ack' \in [Nodes -> {"none", "wait", "set", "late"}]
            /\ tx' \in [Nodes -> {"off", "idle", "wait", "done", "dead"}]
        BY <3>3, SMTT(30) DEF PumpAcked
      <4> QED
        BY <3>3, <4>1, SMTT(30) DEF PumpAcked
    <3>4. CASE PumpFailed(n)
      BY <3>4, ScheduleType DEF PumpFailed
    <3> QED
      BY <2>4, <3>1, <3>2, <3>3, <3>4, <3>5 DEF Pump
  <2>5. ASSUME NEW n \in Nodes, Consume(n) PROVE TypeOK'
    <3>1. ASSUME inq[n] # <<>>
          PROVE  /\ Tail(inq[n]) \in Seq(Frame)
                 /\ Head(inq[n]).seq \in Nat /\ Head(inq[n]).val \in Nat
      BY <3>1, HeadTailType
    <3>2. CASE TakeEof(n)
      BY <3>1, <3>2, SMTT(30) DEF TakeEof
    <3>3. ASSUME TakeData(n) \/ TakeRefused(n) PROVE TypeOK'
      <4>1. /\ TakesData(n)
            /\ got' = [got EXCEPT ![n] = Append(@, Head(inq[n]).val)]
            /\ rx' = [rx EXCEPT ![n] = "drain"] \/ rx' = [rx EXCEPT ![n] = "refuse"]
            /\ UNCHANGED closer
        BY <3>3 DEF TakeData, TakeRefused
      <4>2. inq[n] # <<>> /\ got[n] \in Seq(Nat)
        BY <4>1 DEF TakesData
      <4>3. Append(got[n], Head(inq[n]).val) \in Seq(Nat)
        BY <3>1, <4>2, SMTT(30)
      <4>4. got' \in [Nodes -> Seq(Nat)]
        BY <4>1, <4>3
      <4>5. inq' \in [Nodes -> Seq(Frame)] /\ rxSeq' \in [Nodes -> Nat]
        BY <3>1, <4>1, <4>2 DEF TakesData
      <4>6. rx' \in [Nodes -> {"off", "get", "drain", "refuse", "refusing", "done", "dead"}]
        BY <4>1, SMTT(30)
      <4> QED
        BY <4>1, <4>4, <4>5, <4>6, SMTT(30) DEF TakesData
    <3>7. CASE TakeBroken(n)
      <4>1. inq[n] # <<>>
        BY <3>7 DEF TakeBroken, TakesData
      <4>2. inq' \in [Nodes -> Seq(Frame)] /\ rxSeq' \in [Nodes -> Nat]
        BY <3>1, <3>7, <4>1 DEF TakeBroken, TakesData
      <4> QED
        BY <3>7, <4>2, ScheduleType, SMTT(30) DEF TakeBroken, TakesData
    <3>4. CASE AckData(n)
      <4>1. wire' \in [Nodes -> Seq(Frame)]
        BY <3>4, SendsType, FrameType DEF AckData
      <4> QED
        BY <3>4, <4>1, ScheduleType, SMTT(30) DEF AckData
    <3>5. CASE RefuseSend(n)
      <4>1. Data(outSeq[n], sent[n] + 1) \in Frame
        BY FrameType
      <4>2. wire' \in [Nodes -> Seq(Frame)]
        BY <3>5, <4>1, SendsType DEF RefuseSend
      <4> QED
        BY <3>5, <4>2, ScheduleType, SMTT(30) DEF RefuseSend
    <3>6. CASE RefuseRefused(n)
      <4>1. dropped' \in SUBSET {"output", "refusal"}
        BY <3>6 DEF RefuseRefused
      <4> QED
        BY <3>6, <4>1 DEF RefuseRefused
    <3>9. CASE RefuseAcked(n)
      <4>1. /\ outSeq' \in [Nodes -> Nat]
            /\ ack' \in [Nodes -> {"none", "wait", "set", "late"}]
            /\ rx' \in [Nodes -> {"off", "get", "drain", "refuse", "refusing", "done", "dead"}]
        BY <3>9, SMTT(30) DEF RefuseAcked
      <4> QED
        BY <3>9, <4>1, SMTT(30) DEF RefuseAcked
    <3>8. CASE RefuseFailed(n)
      BY <3>8, ScheduleType, SMTT(30) DEF RefuseFailed
    <3> QED
      BY <2>5, <3>2, <3>3, <3>4, <3>5, <3>6, <3>7, <3>8, <3>9 DEF Consume
  <2>6. ASSUME NEW n \in Nodes, Close(n) PROVE TypeOK'
    <3>1. ASSUME NEW why \in {"local", "remote", "link"}, CloseBegin(n, why) PROVE TypeOK'
      <4>1. CASE ~tbl[n]
        BY <3>1, <4>1, SMTT(30) DEF CloseBegin
      <4>2. CASE tbl[n]
        <5>1. /\ tbl' \in [Nodes -> BOOLEAN] /\ closed' \in [Nodes -> BOOLEAN]
              /\ closing' \in [Nodes -> {"no", "local", "remote", "link"}]
              /\ closer' \in [Nodes -> SUBSET {"local", "remote", "link"}]
          <6>1. /\ closer' = [closer EXCEPT ![n] = {}]
                /\ tbl' = [tbl EXCEPT ![n] = FALSE]
                /\ closed' = [closed EXCEPT ![n] = TRUE]
                /\ closing' = [closing EXCEPT ![n] = why]
            BY <3>1, <4>2 DEF CloseBegin
          <6> QED
            BY <6>1
        <5>2. /\ ack' \in [Nodes -> {"none", "wait", "set", "late"}]
              /\ tx' \in [Nodes -> {"off", "idle", "wait", "done", "dead"}]
          BY <3>1, <4>2 DEF CloseBegin
        <5>3. rx' \in [Nodes -> {"off", "get", "drain", "refuse", "refusing", "done", "dead"}]
          <6>1. rx' = [rx EXCEPT ![n] = IF rx[n] \in {"off", "done"} THEN rx[n] ELSE "dead"]
            BY <3>1, <4>2 DEF CloseBegin
          <6> QED
            BY <6>1
        <5>4. /\ wt' \in {"off", "run", "done"}
              /\ proc' \in {"none", "running", "stopping", "exited"}
          <6>1. wt' = IF n = "owner" /\ wt = "run" THEN "done" ELSE wt
            BY <3>1, <4>2, Zenon DEF CloseBegin
          <6>2. proc' = IF n = "owner" /\ proc = "running" THEN "stopping" ELSE proc
            BY <3>1, <4>2, Zenon DEF CloseBegin
          <6> QED
            BY <6>1, <6>2
        <5> QED
          BY <3>1, <5>1, <5>2, <5>3, <5>4 DEF CloseBegin
      <4> QED
        BY <4>1, <4>2
    <3>2. CASE CloseFinish(n)
      <4>1. wire' \in [Nodes -> Seq(Frame)]
        BY <3>2, SendsType, FrameType DEF CloseFinish, Kinds
      <4> QED
        BY <3>2, <4>1, SMTT(30) DEF CloseFinish
    <3> QED
      BY <2>6, <3>1, <3>2 DEF Close, CloseStarts
  <2>7. ASSUME NEW n \in Nodes, Receive(n) PROVE TypeOK'
    <3>1. ASSUME wire[n] # <<>>
          PROVE  /\ Tail(wire[n]) \in Seq(Frame)
                 /\ Head(wire[n]) \in Frame
      BY <3>1, HeadTailType
    <3>2. CASE RecvData(n)
      <4>1. Append(inq[n], Head(wire[n])) \in Seq(Frame)
        BY <3>1, <3>2, SMTT(30) DEF RecvData, Arrives
      <4>2. wire' \in [Nodes -> Seq(Frame)]
        BY <3>1, <3>2 DEF RecvData, Arrives, Consumed
      <4>3. inq' \in [Nodes -> Seq(Frame)] /\ inSeq' \in [Nodes -> Nat]
        <5>1. CASE tbl[n] /\ DataAccepted(n)
          <6>1. /\ inq' = [inq EXCEPT ![n] = Append(@, Head(wire[n]))]
                /\ inSeq' = [inSeq EXCEPT ![n] = @ + 1]
            BY <3>2, <5>1 DEF RecvData
          <6> QED
            BY <4>1, <6>1, SMTT(30)
        <5>2. CASE ~(tbl[n] /\ DataAccepted(n))
          BY <3>2, <5>2 DEF RecvData
        <5> QED
          BY <5>1, <5>2
      <4>4. closer' \in [Nodes -> SUBSET {"local", "remote", "link"}]
        BY <3>2, ScheduleType DEF RecvData
      <4> QED
        BY <3>2, <4>2, <4>3, <4>4, SMTT(30) DEF RecvData
    <3>6. CASE RecvDataOk(n)
      <4>1. wire' \in [Nodes -> Seq(Frame)]
        BY <3>1, <3>6 DEF RecvDataOk, Arrives, Consumed
      <4> QED
        BY <3>6, <4>1, ScheduleType, SMTT(30) DEF RecvDataOk
    <3>7. CASE RecvClose(n)
      BY <3>1, <3>7, ScheduleType, SMTT(30) DEF RecvClose, Arrives, Consumed
    <3>3. CASE RecvEof(n)
      <4>1. Control("eof") \in Frame
        BY FrameType DEF Kinds
      <4> QED
        BY <3>1, <3>3, <4>1, SMTT(30) DEF RecvEof, Arrives, Consumed
    <3>4. CASE n = "owner" /\ RecvOpen
      <4>1. Control("open_error") \in Frame
        BY FrameType DEF Kinds
      <4>2. wire' \in [Nodes -> Seq(Frame)]
        <5>1. Tail(wire["owner"]) \in Seq(Frame)
          BY <3>1, <3>4 DEF RecvOpen, Arrives
        <5>2. \A m \in Nodes : wire[m] \in Seq(Frame)
                              /\ Append(wire[m], Control("open_error")) \in Seq(Frame)
          BY <4>1
        <5>3. CASE Consumed("owner")
          BY <5>1, <5>3 DEF Consumed
        <5>4. CASE ~Consumed("owner")
          <6>1. wire' = [m \in Nodes |->
                          IF m = "owner" THEN Tail(wire[m])
                          ELSE IF conn = "up" THEN Append(wire[m], Control("open_error"))
                          ELSE wire[m]]
            BY <3>4, <5>4 DEF RecvOpen
          <6> QED
            BY <5>1, <5>2, <6>1
        <5> QED
          BY <5>3, <5>4
      <4> QED
        <5>1. tbl' \in [Nodes -> BOOLEAN]
          BY <3>4, ZenonT(30) DEF RecvOpen
        <5>2. open' \in {"none", "spawning", "serving", "failed"}
          BY <3>4 DEF RecvOpen
        <5> QED
          BY <3>4, <4>2, <5>1, <5>2 DEF RecvOpen
    <3>5. ASSUME n = "opener", NEW kind \in {"open_ok", "open_error"}, RecvOpened(kind)
          PROVE  TypeOK'
      BY <3>1, <3>5, SMTT(30) DEF RecvOpened, Arrives, Consumed
    <3> QED
      BY <2>7, <3>2, <3>3, <3>4, <3>5, <3>6, <3>7 DEF Receive
  <2>8. CASE UNCHANGED vars
    BY <2>8 DEF vars
  <2> QED
    BY <2>1, <2>2, <2>3, <2>4, <2>5, <2>6, <2>7, <2>8 DEF Next
<1> QED
  BY <1>1, <1>2, PTL DEF Spec

-----------------------------------------------------------------------------
(* Stop-and-wait: acknowledged chunks were written at the other end.        *)

InFlight(n) == {wire[n][i] : i \in DOMAIN wire[n]}
Holding == {"drain", "refuse", "refusing"}

\* A data frame on its way carries at most the sender's current sequence.
DataBehind(n) == \A f \in InFlight(Peer(n)) : f.type = "data" => f.seq <= outSeq[n]

\* An acknowledgement on its way is for a chunk the receiver wrote, ...
AcksBehind(n) == \A f \in InFlight(n) : f.type = "data_ok" => f.seq < Len(got[Peer(n)])

\* ... as is one that the sender's task has not looked at yet, ...
SetBehind(n) == ack[n] = "set" => outSeq[n] < Len(got[Peer(n)])

\* ... and one the receiver is about to send.
HeldBehind(n) == rx[n] \in Holding => rxSeq[n] < Len(got[n])

\* What the sender knows, what the receiver wrote and what it queued.
WindowOne(n) ==
  /\ outSeq[n] <= Len(got[Peer(n)])
  /\ Len(got[Peer(n)]) <= inSeq[Peer(n)]
  /\ inSeq[Peer(n)] <= outSeq[n] + 1

\* The inbound queue holds at most one chunk, the next one to be written.
QueueNext(n) ==
  \A i \in DOMAIN inq[n] : inq[n][i].type = "data" =>
    /\ inq[n][i].seq = Len(got[n])
    /\ inSeq[n] = Len(got[n]) + 1
    /\ \A j \in DOMAIN inq[n] : inq[n][j].type = "data" => j = i

StopAndWait ==
  \A n \in Nodes : /\ DataBehind(n) /\ AcksBehind(n) /\ SetBehind(n)
                   /\ HeldBehind(n) /\ WindowOne(n) /\ QueueNext(n)

\* A frame that the invariant allows on its way to node m.
Harmless(m, f) ==
  /\ f.type = "data" => f.seq <= outSeq[Peer(m)]
  /\ f.type = "data_ok" => f.seq < Len(got[Peer(m)])

\* What a send, the arrival of a frame and a broken connection do to the
\* frames in flight.
LEMMA SendInFlight ==
  ASSUME TypeOK, NEW n \in Nodes, NEW f \in Frame, Sends(n, f) \/ SendRaises(n),
         NEW m \in Nodes, NEW g \in InFlight(m)'
  PROVE  g \in InFlight(m) \/ (m = Peer(n) /\ g = f)
<1>1. wire[m] \in Seq(Frame) /\ wire \in [Nodes -> Seq(Frame)] /\ Peer(n) \in Nodes
  BY PeerType DEF TypeOK
<1>2. CASE wire' = wire
  BY <1>2 DEF InFlight
<1>3. CASE wire' = [wire EXCEPT ![Peer(n)] = Append(@, f)]
  <2>1. CASE m = Peer(n)
    <3>1. wire'[m] = Append(wire[m], f)
      BY <1>1, <1>3, <2>1
    <3>2. PICK i \in DOMAIN wire'[m] : g = wire'[m][i]
      BY DEF InFlight
    <3>3. i \in 1..(Len(wire[m]) + 1)
      BY <1>1, <3>1, <3>2
    <3>4. CASE i = Len(wire[m]) + 1
      BY <1>1, <2>1, <3>1, <3>2, <3>4
    <3>5. CASE i \in 1..Len(wire[m])
      <4>1. g = wire[m][i] /\ i \in DOMAIN wire[m]
        BY <1>1, <3>1, <3>2, <3>5
      <4> QED
        BY <4>1 DEF InFlight
    <3> QED
      BY <1>1, <3>3, <3>4, <3>5
  <2>2. CASE m # Peer(n)
    <3>1. wire'[m] = wire[m]
      BY <1>1, <1>3, <2>2
    <3> QED
      BY <3>1 DEF InFlight
  <2> QED
    BY <2>1, <2>2
<1> QED
  BY <1>2, <1>3 DEF Sends, SendRaises

\* What is left of a queue or a wire after its head held no more frames than before.
LEMMA TailInFlight ==
  ASSUME NEW s \in Seq(Frame), s # <<>>, NEW i \in DOMAIN Tail(s)
  PROVE  \E j \in DOMAIN s : Tail(s)[i] = s[j]
<1>1. i + 1 \in DOMAIN s /\ Tail(s)[i] = s[i + 1]
  OBVIOUS
<1> QED
  BY <1>1

\* Taking the head of a wire adds nothing to what is in flight.
LEMMA ArrivalInFlight ==
  ASSUME TypeOK, NEW n \in Nodes, wire[n] # <<>>, Consumed(n)
  PROVE  /\ Head(wire[n]) \in InFlight(n)
         /\ \A m \in Nodes : \A g \in InFlight(m)' : g \in InFlight(m)
<1>1. wire \in [Nodes -> Seq(Frame)] /\ wire[n] \in Seq(Frame)
  BY DEF TypeOK
<1>2. Head(wire[n]) \in InFlight(n)
  <2>1. 1 \in DOMAIN wire[n] /\ Head(wire[n]) = wire[n][1]
    BY <1>1
  <2> QED
    BY <2>1 DEF InFlight
<1>3. ASSUME NEW m \in Nodes, NEW g \in InFlight(m)' PROVE g \in InFlight(m)
  <2>1. PICK i \in DOMAIN wire'[m] : g = wire'[m][i]
    BY DEF InFlight
  <2>2. CASE m = n
    <3>1. wire'[m] = Tail(wire[m])
      BY <1>1, <2>2 DEF Consumed
    <3>2. \E j \in DOMAIN wire[m] : g = wire[m][j]
      BY <1>1, <2>1, <2>2, <3>1, TailInFlight
    <3> QED
      BY <3>2 DEF InFlight
  <2>3. CASE m # n
    <3>1. wire'[m] = wire[m]
      BY <1>1, <2>3 DEF Consumed
    <3> QED
      BY <2>1, <3>1 DEF InFlight
  <2> QED
    BY <2>2, <2>3
<1> QED
  BY <1>2, <1>3

\* A broken connection leaves a prefix of each wire, so nothing new is in flight.
LEMMA DropInFlight ==
  ASSUME TypeOK, LinkDrop, NEW m \in Nodes, NEW g \in InFlight(m)'
  PROVE  g \in InFlight(m)
<1>1. PICK i \in 0..Len(wire["opener"]), j \in 0..Len(wire["owner"]) :
        wire' = [n \in Nodes |-> SubSeq(wire[n], 1, IF n = "opener" THEN i ELSE j)]
  BY DEF LinkDrop
<1>2. wire[m] \in Seq(Frame)
  BY DEF TypeOK
<1>3. PICK k \in 0..Len(wire[m]) : wire'[m] = SubSeq(wire[m], 1, k)
  BY <1>1 DEF Nodes
<1>4. PICK x \in DOMAIN wire'[m] : g = wire'[m][x]
  BY DEF InFlight
<1>5. x \in DOMAIN wire[m] /\ wire'[m][x] = wire[m][x]
  BY <1>2, <1>3, <1>4
<1> QED
  BY <1>4, <1>5 DEF InFlight

\* A step that writes no chunk, accepts none and counts no acknowledgement
\* keeps the invariant, if what it sends and what it leaves is allowed.
LEMMA NoProgressStep ==
  ASSUME TypeOK, TypeOK', StopAndWait,
         UNCHANGED <<outSeq, inSeq, got>>,
         \A m \in Nodes : \A g \in InFlight(m)' : g \in InFlight(m) \/ Harmless(m, g),
         \A m \in Nodes : SetBehind(m)' /\ HeldBehind(m)' /\ QueueNext(m)'
  PROVE  StopAndWait'
<1>1. ASSUME NEW n \in Nodes PROVE DataBehind(n)'
  <2>1. ASSUME NEW g \in InFlight(Peer(n))', g.type = "data" PROVE g.seq <= outSeq[n]
    BY <2>1, PeerType DEF StopAndWait, DataBehind, Harmless
  <2> QED
    BY <2>1 DEF DataBehind, InFlight
<1>2. ASSUME NEW n \in Nodes PROVE AcksBehind(n)'
  <2>1. ASSUME NEW g \in InFlight(n)', g.type = "data_ok" PROVE g.seq < Len(got[Peer(n)])
    BY <2>1, PeerType DEF StopAndWait, AcksBehind, Harmless
  <2> QED
    BY <2>1 DEF AcksBehind, InFlight
<1>3. ASSUME NEW n \in Nodes PROVE WindowOne(n)'
  BY DEF StopAndWait, WindowOne
<1> QED
  BY <1>1, <1>2, <1>3 DEF StopAndWait

\* The same for a step that leaves the queues and what the tasks hold alone.
LEMMA ControlStep ==
  ASSUME TypeOK, TypeOK', StopAndWait,
         UNCHANGED <<outSeq, inSeq, got, inq>>,
         \A m \in Nodes : \A g \in InFlight(m)' : g \in InFlight(m) \/ Harmless(m, g),
         \A m \in Nodes : ack'[m] = "set" => ack[m] = "set",
         \A m \in Nodes : rx'[m] \in Holding => rx[m] \in Holding /\ rxSeq'[m] = rxSeq[m]
  PROVE  StopAndWait'
<1>1. \A m \in Nodes : SetBehind(m)' /\ HeldBehind(m)'
  BY DEF StopAndWait, SetBehind, HeldBehind
<1>2. \A m \in Nodes : QueueNext(m)'
  BY DEF StopAndWait, QueueNext
<1> QED
  BY <1>1, <1>2, NoProgressStep

\* A control frame is harmless, and a send of one is a control step.
LEMMA ControlSend ==
  ASSUME TypeOK, NEW n \in Nodes, NEW kind \in Kinds \ {"data", "data_ok"},
         Sends(n, Control(kind)) \/ SendRaises(n)
  PROVE  \A m \in Nodes : \A g \in InFlight(m)' : g \in InFlight(m) \/ Harmless(m, g)
<1>1. Control(kind) \in Frame
  BY FrameType
<1>2. \A m \in Nodes : Harmless(m, Control(kind))
  BY DEF Harmless, Control, Kinds
<1> QED
  BY <1>1, <1>2, SendInFlight

\* A step that leaves the wires alone leaves what is in flight alone.
LEMMA SameWire ==
  ASSUME UNCHANGED wire
  PROVE  \A m \in Nodes : \A g \in InFlight(m)' : g \in InFlight(m) \/ Harmless(m, g)
BY DEF InFlight

\* Counting an acknowledgement.
LEMMA AckedStep ==
  ASSUME TypeOK, TypeOK', StopAndWait, NEW n \in Nodes,
         ack[n] = "set", ack' = [ack EXCEPT ![n] = "none"],
         outSeq' = [outSeq EXCEPT ![n] = @ + 1],
         UNCHANGED <<wire, inSeq, got, inq, rxSeq>>,
         \A m \in Nodes : rx'[m] \in Holding => rx[m] \in Holding
  PROVE  StopAndWait'
<1>1. outSeq[n] < Len(got[Peer(n)]) /\ outSeq'[n] = outSeq[n] + 1 /\ outSeq[n] \in Nat
  BY DEF StopAndWait, SetBehind, TypeOK
<1>2. \A m \in Nodes : m # n => outSeq'[m] = outSeq[m] /\ ack'[m] = ack[m]
  BY DEF TypeOK
<1>3. \A m \in Nodes : InFlight(m)' = InFlight(m)
  BY DEF InFlight
<1>4. \A m \in Nodes : got[m] \in Seq(Nat) /\ inSeq[m] \in Nat /\ outSeq[m] \in Nat
                      /\ wire[m] \in Seq(Frame)
  BY DEF TypeOK
<1>5. ASSUME NEW m \in Nodes PROVE DataBehind(m)'
  <2>1. ASSUME NEW f \in InFlight(Peer(m)), f.type = "data" PROVE f.seq <= outSeq'[m]
    <3>1. f.seq <= outSeq[m]
      BY <2>1 DEF StopAndWait, DataBehind
    <3>2. f \in Frame
      BY <1>4, PeerType DEF InFlight
    <3> QED
      BY <1>1, <1>2, <1>4, <3>1, <3>2 DEF Frame
  <2> QED
    BY <1>3, <2>1, PeerType DEF DataBehind
<1>6. ASSUME NEW m \in Nodes PROVE WindowOne(m)'
  <2>1. CASE m = n
    BY <1>1, <1>4, <2>1, PeerType DEF StopAndWait, WindowOne
  <2>2. CASE m # n
    BY <1>2, <2>2 DEF StopAndWait, WindowOne
  <2> QED
    BY <2>1, <2>2
<1>7. ASSUME NEW m \in Nodes PROVE SetBehind(m)' /\ HeldBehind(m)'
  <2>1. CASE m = n
    BY <2>1 DEF StopAndWait, SetBehind, HeldBehind, TypeOK
  <2>2. CASE m # n
    BY <1>2, <2>2 DEF StopAndWait, SetBehind, HeldBehind
  <2> QED
    BY <2>1, <2>2
<1>8. ASSUME NEW m \in Nodes PROVE AcksBehind(m)' /\ QueueNext(m)'
  BY <1>3 DEF StopAndWait, AcksBehind, QueueNext
<1> QED
  BY <1>5, <1>6, <1>7, <1>8 DEF StopAndWait

\* Writing the next chunk to the local side.
LEMMA TakenStep ==
  ASSUME TypeOK, TypeOK', StopAndWait, NEW n \in Nodes, TakesData(n),
         got' = [got EXCEPT ![n] = Append(@, Head(inq[n]).val)],
         \A m \in Nodes : m # n => rx'[m] = rx[m]
  PROVE  StopAndWait'
<1> DEFINE s == Peer(n)
<1>1. s \in Nodes /\ s # n /\ Peer(s) = n
  BY PeerType
<1>2. /\ inq[n] \in Seq(Frame) /\ inq[n] # <<>> /\ Head(inq[n]).type = "data"
      /\ inq' = [inq EXCEPT ![n] = Tail(@)]
      /\ rxSeq' = [rxSeq EXCEPT ![n] = Head(inq[n]).seq]
      /\ UNCHANGED <<wire, outSeq, ack, inSeq>>
  <2>1. inq[n] \in Seq(Frame)
    BY DEF TypeOK
  <2>2. UNCHANGED <<wire, outSeq, ack, inSeq>>
    BY DEF TakesData, sendVars
  <2> QED
    BY <2>1, <2>2 DEF TakesData, HeadKind
<1>3. /\ Head(inq[n]).val \in Nat /\ got[n] \in Seq(Nat)
      /\ outSeq[s] \in Nat /\ inSeq[n] \in Nat
  BY <1>1, <1>2, HeadTailType DEF TypeOK
<1>4. got'[n] = Append(got[n], Head(inq[n]).val) /\ Len(got'[n]) = Len(got[n]) + 1
  BY <1>3 DEF TypeOK
<1>5. 1 \in DOMAIN inq[n] /\ inq[n][1] = Head(inq[n])
  BY <1>2
<1>6. /\ Head(inq[n]).seq = Len(got[n]) /\ inSeq[n] = Len(got[n]) + 1
      /\ \A j \in DOMAIN inq[n] : inq[n][j].type = "data" => j = 1
  BY <1>2, <1>5 DEF StopAndWait, QueueNext
<1>7. \A m \in Nodes : InFlight(m)' = InFlight(m)
  BY <1>2 DEF InFlight
<1>8. \A m \in Nodes : m # n => got'[m] = got[m] /\ inq'[m] = inq[m] /\ rxSeq'[m] = rxSeq[m]
  BY <1>2 DEF TypeOK
<1>9. \A m \in Nodes : /\ Len(got[m]) \in Nat /\ Len(got'[m]) \in Nat
                      /\ Len(got[m]) <= Len(got'[m])
  <2> SUFFICES ASSUME NEW m \in Nodes
               PROVE  /\ Len(got[m]) \in Nat /\ Len(got'[m]) \in Nat
                      /\ Len(got[m]) <= Len(got'[m])
    OBVIOUS
  <2>1. got[m] \in Seq(Nat)
    BY DEF TypeOK
  <2>2. Len(got[m]) \in Nat
    BY <2>1
  <2>3. CASE m = n
    BY <1>4, <2>2, <2>3
  <2>4. CASE m # n
    BY <1>8, <2>2, <2>4
  <2> QED
    BY <2>2, <2>3, <2>4
<1>10. ASSUME NEW m \in Nodes PROVE DataBehind(m)'
  BY <1>2, <1>7, PeerType DEF StopAndWait, DataBehind
<1>11. ASSUME NEW m \in Nodes PROVE AcksBehind(m)'
  <2>1. ASSUME NEW f \in InFlight(m), f.type = "data_ok" PROVE f.seq < Len(got'[Peer(m)])
    <3>1. f.seq < Len(got[Peer(m)])
      BY <2>1 DEF StopAndWait, AcksBehind
    <3>2. wire[m] \in Seq(Frame)
      BY DEF TypeOK
    <3>3. f \in Frame
      BY <3>2 DEF InFlight
    <3> QED
      BY <1>9, <3>1, <3>3, PeerType DEF Frame
  <2> QED
    BY <1>7, <2>1 DEF AcksBehind
<1>12. ASSUME NEW m \in Nodes PROVE SetBehind(m)'
  <2>1. outSeq[m] \in Nat
    BY DEF TypeOK
  <2> QED
    BY <1>2, <1>9, <2>1, PeerType DEF StopAndWait, SetBehind
<1>13. ASSUME NEW m \in Nodes PROVE HeldBehind(m)'
  <2>1. CASE m = n
    BY <1>2, <1>3, <1>4, <1>6, <2>1, SMTT(30) DEF HeldBehind, TypeOK
  <2>2. CASE m # n
    BY <1>8, <2>2 DEF StopAndWait, HeldBehind
  <2> QED
    BY <2>1, <2>2
<1>14. ASSUME NEW m \in Nodes PROVE WindowOne(m)'
  <2>1. CASE m = s
    BY <1>1, <1>2, <1>3, <1>4, <1>6, <1>9, <2>1 DEF StopAndWait, WindowOne
  <2>2. CASE m # s
    <3>1. Peer(m) # n
      BY <1>1, <2>2, PeerType
    <3> QED
      BY <1>2, <1>8, <3>1, PeerType DEF StopAndWait, WindowOne
  <2> QED
    BY <2>1, <2>2
<1>15. ASSUME NEW m \in Nodes PROVE QueueNext(m)'
  <2>1. CASE m = n
    <3>1. inq'[n] = Tail(inq[n])
      BY <1>2 DEF TypeOK
    <3>2. ASSUME NEW i \in DOMAIN inq'[n] PROVE inq'[n][i].type # "data"
      <4>1. i \in DOMAIN Tail(inq[n])
        BY <3>1, <3>2
      <4>2. i + 1 \in DOMAIN inq[n] /\ Tail(inq[n])[i] = inq[n][i + 1] /\ i + 1 # 1
        BY <1>2, <4>1
      <4> QED
        BY <1>6, <3>1, <4>2
    <3> QED
      BY <2>1, <3>2 DEF QueueNext
  <2>2. CASE m # n
    BY <1>2, <1>8, <2>2 DEF StopAndWait, QueueNext
  <2> QED
    BY <2>1, <2>2
<1> QED
  BY <1>10, <1>11, <1>12, <1>13, <1>14, <1>15 DEF StopAndWait

\* Accepting a data frame into the inbound queue.
LEMMA AcceptedStep ==
  ASSUME TypeOK, TypeOK', StopAndWait, NEW n \in Nodes,
         RecvData(n), tbl[n], DataAccepted(n)
  PROVE  StopAndWait'
<1> DEFINE s == Peer(n)
           f == Head(wire[n])
<1>1. s \in Nodes /\ s # n /\ Peer(s) = n
  BY PeerType
<1>2. /\ wire[n] # <<>> /\ f.type = "data" /\ Consumed(n) /\ f.seq = inSeq[n]
      /\ inq' = [inq EXCEPT ![n] = Append(@, f)]
      /\ inSeq' = [inSeq EXCEPT ![n] = @ + 1]
      /\ UNCHANGED <<outSeq, ack, got, rx, rxSeq>>
  BY DEF RecvData, Arrives, DataAccepted, sendVars
<1>3. f \in InFlight(n) /\ \A m \in Nodes : \A g \in InFlight(m)' : g \in InFlight(m)
  BY <1>2, ArrivalInFlight
<1>4. /\ inq[n] \in Seq(Frame) /\ f \in Frame /\ inSeq[n] \in Nat
      /\ outSeq[s] \in Nat /\ Len(got[n]) \in Nat
  BY <1>1, <1>2, HeadTailType DEF TypeOK
<1>5. inSeq[n] <= outSeq[s]
  BY <1>1, <1>2, <1>3 DEF StopAndWait, DataBehind
<1>6. outSeq[s] <= Len(got[n]) /\ Len(got[n]) <= inSeq[n]
  BY <1>1 DEF StopAndWait, WindowOne
<1>7. inSeq[n] = Len(got[n]) /\ outSeq[s] = Len(got[n])
  BY <1>4, <1>5, <1>6
<1>8. \A i \in DOMAIN inq[n] : inq[n][i].type # "data"
  BY <1>4, <1>7 DEF StopAndWait, QueueNext
<1>9. inSeq'[n] = inSeq[n] + 1 /\ \A m \in Nodes : m # n => inSeq'[m] = inSeq[m] /\ inq'[m] = inq[m]
  BY <1>2 DEF TypeOK
<1>10. ASSUME NEW m \in Nodes PROVE DataBehind(m)' /\ AcksBehind(m)'
  BY <1>2, <1>3, PeerType DEF StopAndWait, DataBehind, AcksBehind
<1>11. ASSUME NEW m \in Nodes PROVE SetBehind(m)' /\ HeldBehind(m)'
  BY <1>2 DEF StopAndWait, SetBehind, HeldBehind
<1>12. ASSUME NEW m \in Nodes PROVE WindowOne(m)'
  <2>1. CASE m = s
    BY <1>1, <1>2, <1>4, <1>7, <1>9, <2>1 DEF WindowOne
  <2>2. CASE m # s
    <3>1. Peer(m) # n
      BY <1>1, <2>2, PeerType
    <3> QED
      BY <1>2, <1>9, <3>1, PeerType DEF StopAndWait, WindowOne
  <2> QED
    BY <2>1, <2>2
<1>13. ASSUME NEW m \in Nodes PROVE QueueNext(m)'
  <2>1. CASE m = n
    <3>1. inq'[n] = Append(inq[n], f)
      BY <1>2 DEF TypeOK
    <3>2. ASSUME NEW i \in DOMAIN inq'[n], inq'[n][i].type = "data"
          PROVE  i = Len(inq[n]) + 1 /\ inq'[n][i] = f
      <4>1. i \in DOMAIN inq[n] => inq'[n][i] = inq[n][i]
        BY <1>4, <3>1
      <4>2. i \notin DOMAIN inq[n]
        BY <1>8, <3>2, <4>1
      <4>3. i = Len(inq[n]) + 1
        BY <1>4, <3>1, <4>2
      <4> QED
        BY <1>4, <3>1, <4>3
    <3> QED
      BY <1>2, <1>7, <1>9, <2>1, <3>2 DEF QueueNext
  <2>2. CASE m # n
    BY <1>2, <1>9, <2>2 DEF StopAndWait, QueueNext
  <2> QED
    BY <2>1, <2>2
<1> QED
  BY <1>10, <1>11, <1>12, <1>13 DEF StopAndWait

IInv == TypeOK /\ StopAndWait

\* Before the first frame every part of the invariant holds.
LEMMA InitIInv == Init => StopAndWait
BY PeerType DEF Init, StopAndWait, DataBehind, AcksBehind, SetBehind, HeldBehind,
                WindowOne, QueueNext, InFlight, Holding

\* A broken, noticed and re-established link keeps the stop-and-wait invariant.
LEMMA LinkKeeps == ASSUME IInv, TypeOK', Link PROVE StopAndWait'
<1>1. CASE LinkDrop
  BY <1>1, DropInFlight, ControlStep DEF IInv, LinkDrop, sendVars, recvVars
<1>2. CASE (\E n \in Nodes : LinkLost(n)) \/ LinkUp
  BY <1>2, SameWire, ControlStep DEF IInv, LinkLost, LinkUp, sendVars, recvVars
<1> QED
  BY <1>1, <1>2 DEF Link

\* Every step of _serve_local_stream keeps the stop-and-wait invariant.
LEMMA ClientKeeps == ASSUME IInv, TypeOK', Client PROVE StopAndWait'
<1> USE DEF IInv, sendVars, recvVars
<1>1. CASE ClientWake \/ ClientGivesUp \/ ClientOpened \/ ClientCloses
  BY <1>1, SameWire, ControlStep DEF ClientWake, ClientGivesUp, ClientOpened, ClientCloses
<1>2. CASE ClientClosed
  <2>1. \A m \in Nodes : ack'[m] = "set" => ack[m] = "set"
    BY <1>2 DEF ClientClosed, TypeOK
  <2> QED
    BY <1>2, <2>1, SameWire, ControlStep DEF ClientClosed
<1>3. CASE ClientOpen
  <2>1. \A m \in Nodes : \A g \in InFlight(m)' : g \in InFlight(m) \/ Harmless(m, g)
    BY <1>3, ControlSend DEF ClientOpen, Nodes, Kinds
  <2>2. \A m \in Nodes : rx'[m] \in Holding => rx[m] \in Holding
    BY <1>3 DEF ClientOpen, TypeOK, Holding
  <2> QED
    BY <1>3, <2>1, <2>2, ControlStep DEF ClientOpen
<1>4. CASE ClientFails
  <2>1. \A m \in Nodes : \A g \in InFlight(m)' : g \in InFlight(m) \/ Harmless(m, g)
    BY <1>4, ControlSend DEF ClientFails, Nodes, Kinds
  <2>2. \A m \in Nodes : rx'[m] \in Holding => rx[m] \in Holding
    BY <1>4, SMTT(30) DEF ClientFails, TypeOK, Holding
  <2> QED
    BY <1>4, <2>1, <2>2, ControlStep DEF ClientFails
<1>5. CASE ClientEof
  <2>1. \A m \in Nodes : \A g \in InFlight(m)' : g \in InFlight(m) \/ Harmless(m, g)
    BY <1>5, ControlSend DEF ClientEof, Nodes, Kinds
  <2> QED
    BY <1>5, <2>1, ControlStep DEF ClientEof
<1> QED
  BY <1>1, <1>2, <1>3, <1>4, <1>5 DEF Client

\* Every step of _handle_remote_open and _wait_process keeps it.
LEMMA OwnerKeeps == ASSUME IInv, TypeOK', Owner PROVE StopAndWait'
<1> USE DEF IInv, sendVars, recvVars
<1>1. CASE SpawnOk
  <2>1. \A m \in Nodes : \A g \in InFlight(m)' : g \in InFlight(m) \/ Harmless(m, g)
    BY <1>1, ControlSend DEF SpawnOk, Nodes, Kinds
  <2>2. \A m \in Nodes : rx'[m] \in Holding => rx[m] \in Holding
    BY <1>1, SMTT(30) DEF SpawnOk, TypeOK, Holding
  <2> QED
    BY <1>1, <2>1, <2>2, ControlStep DEF SpawnOk
<1>2. CASE SpawnFails
  <2>1. \A m \in Nodes : \A g \in InFlight(m)' : g \in InFlight(m) \/ Harmless(m, g)
    BY <1>2, ControlSend DEF SpawnFails, Nodes, Kinds
  <2> QED
    BY <1>2, <2>1, ControlStep DEF SpawnFails
<1>3. CASE ProcExit \/ ProcStopped
  BY <1>3, SameWire, ControlStep DEF ProcExit, ProcStopped, Exit
<1>4. CASE WaitDone
  <2>1. \A m \in Nodes : \A g \in InFlight(m)' : g \in InFlight(m) \/ Harmless(m, g)
    <3>1. CASE UNCHANGED wire
      BY <3>1, SameWire
    <3>2. CASE Sends("owner", Control("close"))
      BY <3>2, ControlSend DEF Nodes, Kinds
    <3> QED
      BY <1>4, <3>1, <3>2 DEF WaitDone
  <2> QED
    BY <1>4, <2>1, ControlStep DEF WaitDone
<1> QED
  BY <1>1, <1>2, <1>3, <1>4 DEF Owner

\* Every step of _close_stream keeps it.
LEMMA CloseKeeps == ASSUME IInv, TypeOK', NEW n \in Nodes, Close(n) PROVE StopAndWait'
<1> USE DEF IInv, sendVars, recvVars
<1>1. ASSUME NEW why \in {"local", "remote", "link"}, CloseBegin(n, why) PROVE StopAndWait'
  <2>1. \A m \in Nodes : ack'[m] = "set" => ack[m] = "set"
    BY <1>1 DEF CloseBegin, TypeOK
  <2>2. \A m \in Nodes : rx'[m] \in Holding => rx[m] \in Holding
    <3>1. CASE ~tbl[n]
      BY <1>1, <3>1 DEF CloseBegin
    <3>2. CASE tbl[n]
      <4>1. rx' = [rx EXCEPT ![n] = IF rx[n] \in {"off", "done"} THEN rx[n] ELSE "dead"]
        BY <1>1, <3>2 DEF CloseBegin
      <4> QED
        BY <4>1 DEF TypeOK, Holding
    <3> QED
      BY <3>1, <3>2
  <2> QED
    BY <1>1, <2>1, <2>2, SameWire, ControlStep DEF CloseBegin, linkVars
<1>2. CASE CloseFinish(n)
  <2>1. \A m \in Nodes : \A g \in InFlight(m)' : g \in InFlight(m) \/ Harmless(m, g)
    <3>1. CASE UNCHANGED wire
      BY <3>1, SameWire
    <3>2. CASE Sends(n, Control("close"))
      BY <3>2, ControlSend DEF Kinds
    <3> QED
      BY <1>2, <3>1, <3>2 DEF CloseFinish, SendRaises
  <2> QED
    BY <1>2, <2>1, ControlStep DEF CloseFinish
<1> QED
  BY <1>1, <1>2 DEF Close, CloseStarts

\* A data frame with the sender's current sequence is harmless.
LEMMA DataSend ==
  ASSUME TypeOK, NEW n \in Nodes, NEW v \in Nat,
         Sends(n, Data(outSeq[n], v)) \/ SendRaises(n)
  PROVE  \A m \in Nodes : \A g \in InFlight(m)' : g \in InFlight(m) \/ Harmless(m, g)
<1>1. Data(outSeq[n], v) \in Frame /\ outSeq[n] \in Nat
  BY FrameType DEF TypeOK
<1>2. Harmless(Peer(n), Data(outSeq[n], v))
  BY <1>1, PeerType DEF Harmless, Data
<1> QED
  BY <1>1, <1>2, SendInFlight

\* Every step of _send_stream_data in a pump keeps it.
LEMMA PumpKeeps == ASSUME IInv, TypeOK', NEW n \in Nodes, Pump(n) PROVE StopAndWait'
<1> USE DEF IInv, sendVars, recvVars
<1>1. CASE PumpSend(n)
  <2>1. \A m \in Nodes : \A g \in InFlight(m)' : g \in InFlight(m) \/ Harmless(m, g)
    <3>1. sent[n] + 1 \in Nat
      BY DEF TypeOK
    <3> QED
      BY <1>1, <3>1, DataSend DEF PumpSend
  <2>2. \A m \in Nodes : ack'[m] = "set" => ack[m] = "set"
    BY <1>1, SMTT(30) DEF PumpSend, TypeOK
  <2> QED
    BY <1>1, <2>1, <2>2, ControlStep DEF PumpSend
<1>2. CASE PumpRefused(n) \/ PumpEnd(n)
  BY <1>2, SameWire, ControlStep DEF PumpRefused, PumpEnd
<1>3. CASE PumpAcked(n)
  BY <1>3, AckedStep DEF PumpAcked
<1>4. CASE PumpFailed(n)
  <2>1. \A m \in Nodes : ack'[m] = "set" => ack[m] = "set"
    BY <1>4 DEF PumpFailed, TypeOK
  <2> QED
    BY <1>4, <2>1, SameWire, ControlStep DEF PumpFailed
<1> QED
  BY <1>1, <1>2, <1>3, <1>4 DEF Pump

\* Taking an entry that is not written leaves the rest of the queue in place.
LEMMA TailQueue ==
  ASSUME TypeOK, StopAndWait, NEW n \in Nodes, inq[n] # <<>>,
         inq' = [inq EXCEPT ![n] = Tail(@)], UNCHANGED <<inSeq, got>>
  PROVE  \A m \in Nodes : QueueNext(m)'
<1> SUFFICES ASSUME NEW m \in Nodes PROVE QueueNext(m)'
  OBVIOUS
<1>1. inq[n] \in Seq(Frame)
  BY DEF TypeOK
<1>2. CASE m = n
  <2>1. inq'[n] = Tail(inq[n])
    BY DEF TypeOK
  <2>2. ASSUME NEW i \in DOMAIN inq'[n]
        PROVE  i \in Nat /\ i + 1 \in DOMAIN inq[n] /\ inq'[n][i] = inq[n][i + 1]
    <3>1. i \in DOMAIN Tail(inq[n])
      BY <2>1, <2>2
    <3>2. i \in 1..(Len(inq[n]) - 1) /\ Len(inq[n]) \in Nat
      BY <1>1, <3>1
    <3>3. Tail(inq[n])[i] = inq[n][i + 1]
      BY <1>1, <3>2
    <3>4. i \in Nat /\ i + 1 \in DOMAIN inq[n]
      BY <1>1, <3>2
    <3> QED
      BY <2>1, <3>3, <3>4
  <2>3. ASSUME NEW i \in DOMAIN inq'[n], inq'[n][i].type = "data",
               NEW j \in DOMAIN inq'[n], inq'[n][j].type = "data"
        PROVE  inq'[n][i].seq = Len(got[n]) /\ inSeq[n] = Len(got[n]) + 1 /\ j = i
    <3>1. i + 1 \in DOMAIN inq[n] /\ inq'[n][i] = inq[n][i + 1] /\ i \in Nat
      BY <2>2
    <3>2. j + 1 \in DOMAIN inq[n] /\ inq'[n][j] = inq[n][j + 1] /\ j \in Nat
      BY <2>2
    <3>3. /\ inq[n][i + 1].seq = Len(got[n]) /\ inSeq[n] = Len(got[n]) + 1
          /\ j + 1 = i + 1
      BY <2>3, <3>1, <3>2 DEF StopAndWait, QueueNext
    <3> QED
      BY <3>1, <3>2, <3>3
  <2> QED
    BY <1>2, <2>3 DEF QueueNext
<1>3. CASE m # n
  <2>1. inq'[m] = inq[m]
    BY <1>3 DEF TypeOK
  <2> QED
    <3>1. QueueNext(m) /\ inSeq'[m] = inSeq[m] /\ got'[m] = got[m]
      BY DEF StopAndWait
    <3> QED
      BY <2>1, <3>1, Zenon DEF QueueNext
<1> QED
  BY <1>2, <1>3

\* Every step of _consume_stream_input keeps it.
LEMMA ConsumeKeeps == ASSUME IInv, TypeOK', NEW n \in Nodes, Consume(n) PROVE StopAndWait'
<1> USE DEF IInv, sendVars, recvVars
<1>1. CASE TakeEof(n)
  <2>1. \A m \in Nodes : QueueNext(m)'
    BY <1>1, TailQueue DEF TakeEof
  <2>2. \A m \in Nodes : SetBehind(m)' /\ HeldBehind(m)'
    BY <1>1 DEF TakeEof, StopAndWait, SetBehind, HeldBehind, Holding, TypeOK
  <2> QED
    BY <1>1, <2>1, <2>2, SameWire, NoProgressStep DEF TakeEof
<1>2. CASE TakeBroken(n)
  <2>1. \A m \in Nodes : QueueNext(m)'
    BY <1>2, TailQueue DEF TakeBroken, TakesData
  <2>2. \A m \in Nodes : SetBehind(m)'
    BY <1>2 DEF TakeBroken, TakesData, StopAndWait, SetBehind
  <2>3. ASSUME NEW m \in Nodes PROVE HeldBehind(m)'
    <3>1. CASE m = n
      BY <1>2, <3>1 DEF TakeBroken, HeldBehind, Holding, TypeOK
    <3>2. CASE m # n
      BY <1>2, <3>2 DEF TakeBroken, TakesData, StopAndWait, HeldBehind, TypeOK
    <3> QED
      BY <3>1, <3>2
  <2> QED
    BY <1>2, <2>1, <2>2, <2>3, SameWire, NoProgressStep DEF TakeBroken, TakesData
<1>3. CASE TakeData(n) \/ TakeRefused(n)
  <2>1. \A m \in Nodes : m # n => rx'[m] = rx[m]
    <3>1. CASE rx' = [rx EXCEPT ![n] = "drain"]
      BY <3>1 DEF TypeOK
    <3>2. CASE rx' = [rx EXCEPT ![n] = "refuse"]
      BY <3>2 DEF TypeOK
    <3> QED
      BY <1>3, <3>1, <3>2 DEF TakeData, TakeRefused
  <2> QED
    BY <1>3, <2>1, TakenStep DEF TakeData, TakeRefused
<1>4. CASE AckData(n)
  <2>1. rxSeq[n] < Len(got[n]) /\ rxSeq[n] \in Nat
    BY <1>4 DEF AckData, StopAndWait, HeldBehind, Holding, TypeOK
  <2>2. DataOk(rxSeq[n]) \in Frame /\ Harmless(Peer(n), DataOk(rxSeq[n]))
    BY <2>1, FrameType, PeerType DEF Harmless, DataOk
  <2>3. \A m \in Nodes : \A g \in InFlight(m)' : g \in InFlight(m) \/ Harmless(m, g)
    BY <1>4, <2>2, SendInFlight DEF AckData
  <2>4. \A m \in Nodes : rx'[m] \in Holding => rx[m] \in Holding
    BY <1>4, SMTT(30) DEF AckData, TypeOK, Holding
  <2> QED
    BY <1>4, <2>3, <2>4, ControlStep DEF AckData
<1>5. CASE RefuseSend(n)
  <2>1. \A m \in Nodes : \A g \in InFlight(m)' : g \in InFlight(m) \/ Harmless(m, g)
    <3>1. sent[n] + 1 \in Nat
      BY DEF TypeOK
    <3> QED
      BY <1>5, <3>1, DataSend DEF RefuseSend
  <2>2. \A m \in Nodes : ack'[m] = "set" => ack[m] = "set"
    BY <1>5, SMTT(30) DEF RefuseSend, TypeOK
  <2>3. \A m \in Nodes : rx'[m] \in Holding => rx[m] \in Holding
    BY <1>5, SMTT(30) DEF RefuseSend, TypeOK, Holding
  <2> QED
    BY <1>5, <2>1, <2>2, <2>3, ControlStep DEF RefuseSend
<1>6. CASE RefuseRefused(n)
  <2>1. \A m \in Nodes : rx'[m] \in Holding => rx[m] \in Holding
    BY <1>6 DEF RefuseRefused, TypeOK, Holding
  <2> QED
    BY <1>6, <2>1, SameWire, ControlStep DEF RefuseRefused
<1>7. CASE RefuseAcked(n)
  <2>1. \A m \in Nodes : rx'[m] \in Holding => rx[m] \in Holding
    BY <1>7 DEF RefuseAcked, TypeOK, Holding
  <2> QED
    BY <1>7, <2>1, AckedStep DEF RefuseAcked
<1>8. CASE RefuseFailed(n)
  <2>1. \A m \in Nodes : ack'[m] = "set" => ack[m] = "set"
    BY <1>8 DEF RefuseFailed, TypeOK
  <2>2. \A m \in Nodes : rx'[m] \in Holding => rx[m] \in Holding
    BY <1>8 DEF RefuseFailed, TypeOK, Holding
  <2> QED
    BY <1>8, <2>1, <2>2, SameWire, ControlStep DEF RefuseFailed
<1> QED
  BY <1>1, <1>2, <1>3, <1>4, <1>5, <1>6, <1>7, <1>8 DEF Consume

\* Every frame _handle_frame takes in keeps it.
LEMMA ReceiveKeeps == ASSUME IInv, TypeOK', NEW n \in Nodes, Receive(n) PROVE StopAndWait'
<1> USE DEF IInv, sendVars, recvVars
<1>1. CASE RecvData(n)
  <2>1. CASE tbl[n] /\ DataAccepted(n)
    BY <1>1, <2>1, AcceptedStep
  <2>2. CASE ~(tbl[n] /\ DataAccepted(n))
    <3>1. \A m \in Nodes : \A g \in InFlight(m)' : g \in InFlight(m) \/ Harmless(m, g)
      BY <1>1, ArrivalInFlight DEF RecvData, Arrives
    <3> QED
      BY <1>1, <2>2, <3>1, ControlStep DEF RecvData
  <2> QED
    BY <2>1, <2>2
<1>2. CASE RecvDataOk(n)
  <2>1. /\ Head(wire[n]) \in InFlight(n) /\ Head(wire[n]).type = "data_ok"
        /\ \A m \in Nodes : \A g \in InFlight(m)' : g \in InFlight(m)
    BY <1>2, ArrivalInFlight DEF RecvDataOk, Arrives
  <2>2. ASSUME NEW m \in Nodes PROVE SetBehind(m)'
    <3>1. CASE m = n /\ ack'[n] = "set" /\ ack[n] # "set"
      <4>1. Head(wire[n]).seq = outSeq[n]
        BY <1>2, <3>1 DEF RecvDataOk, AckAccepted
      <4>2. Head(wire[n]).seq < Len(got[Peer(n)])
        BY <2>1 DEF StopAndWait, AcksBehind
      <4> QED
        BY <1>2, <3>1, <4>1, <4>2 DEF SetBehind, RecvDataOk
    <3>2. CASE ack'[m] = "set" => ack[m] = "set"
      BY <1>2, <3>2 DEF SetBehind, StopAndWait, RecvDataOk
    <3>3. m # n => ack'[m] = ack[m]
      BY <1>2, SMTT(30) DEF RecvDataOk, TypeOK
    <3> QED
      BY <3>1, <3>2, <3>3
  <2>3. \A m \in Nodes : HeldBehind(m)' /\ QueueNext(m)'
    BY <1>2 DEF RecvDataOk, StopAndWait, HeldBehind, QueueNext
  <2> QED
    BY <1>2, <2>1, <2>2, <2>3, NoProgressStep DEF RecvDataOk
<1>3. CASE RecvEof(n)
  <2>1. \A m \in Nodes : \A g \in InFlight(m)' : g \in InFlight(m) \/ Harmless(m, g)
    BY <1>3, ArrivalInFlight DEF RecvEof, Arrives
  <2>2. ASSUME NEW m \in Nodes PROVE QueueNext(m)'
    <3>1. CASE m = n /\ tbl[n]
      <4>1. inq[n] \in Seq(Frame) /\ inq'[n] = Append(inq[n], Control("eof"))
        BY <1>3, <3>1 DEF RecvEof, TypeOK
      <4>2. ASSUME NEW i \in DOMAIN inq'[n], inq'[n][i].type = "data"
            PROVE  i \in DOMAIN inq[n] /\ inq'[n][i] = inq[n][i]
        <5>1. CASE i = Len(inq[n]) + 1
          <6>1. inq'[n][i] = Control("eof")
            BY <4>1, <5>1
          <6> QED
            BY <4>2, <6>1 DEF Control
        <5>2. CASE i # Len(inq[n]) + 1
          BY <4>1, <5>2
        <5> QED
          BY <5>1, <5>2
      <4> QED
        BY <1>3, <3>1, <4>2 DEF RecvEof, StopAndWait, QueueNext
    <3>2. CASE ~(m = n /\ tbl[n])
      BY <1>3, <3>2, SMTT(30) DEF RecvEof, StopAndWait, QueueNext, TypeOK
    <3> QED
      BY <3>1, <3>2
  <2>3. \A m \in Nodes : SetBehind(m)' /\ HeldBehind(m)'
    BY <1>3 DEF RecvEof, StopAndWait, SetBehind, HeldBehind
  <2> QED
    BY <1>3, <2>1, <2>2, <2>3, NoProgressStep DEF RecvEof
<1>4. CASE RecvClose(n)
  <2>1. \A m \in Nodes : \A g \in InFlight(m)' : g \in InFlight(m) \/ Harmless(m, g)
    BY <1>4, ArrivalInFlight DEF RecvClose, Arrives
  <2> QED
    BY <1>4, <2>1, ControlStep DEF RecvClose
<1>5. CASE n = "opener" /\ \E kind \in {"open_ok", "open_error"} : RecvOpened(kind)
  <2>1. \A m \in Nodes : \A g \in InFlight(m)' : g \in InFlight(m) \/ Harmless(m, g)
    BY <1>5, ArrivalInFlight DEF RecvOpened, Arrives
  <2> QED
    BY <1>5, <2>1, ControlStep DEF RecvOpened
<1>6. CASE n = "owner" /\ RecvOpen
  <2>1. wire["owner"] # <<>>
    BY <1>6 DEF RecvOpen, Arrives
  <2>2. \A m \in Nodes : \A g \in InFlight(m)' : g \in InFlight(m) \/ Harmless(m, g)
    <3>1. CASE Consumed("owner")
      BY <2>1, <3>1, ArrivalInFlight DEF Nodes
    <3>2. CASE ~Consumed("owner")
      <4> SUFFICES ASSUME NEW m \in Nodes, NEW g \in InFlight(m)'
                   PROVE  g \in InFlight(m) \/ Harmless(m, g)
        OBVIOUS
      <4>1. wire[m] \in Seq(Frame)
        BY DEF TypeOK
      <4>2. wire'[m] = IF m = "owner" THEN Tail(wire[m])
                       ELSE IF conn = "up" THEN Append(wire[m], Control("open_error"))
                       ELSE wire[m]
        BY <1>6, <3>2 DEF RecvOpen
      <4>3. PICK i \in DOMAIN wire'[m] : g = wire'[m][i]
        BY DEF InFlight
      <4>4. CASE m = "owner"
        BY <2>1, <4>1, <4>2, <4>3, <4>4, TailInFlight DEF InFlight
      <4>5. CASE wire'[m] = wire[m]
        BY <4>3, <4>5 DEF InFlight
      <4>6. CASE wire'[m] = Append(wire[m], Control("open_error"))
        <5>1. CASE i = Len(wire[m]) + 1
          <6>1. g = Control("open_error")
            BY <4>1, <4>3, <4>6, <5>1
          <6> QED
            BY <6>1 DEF Harmless, Control
        <5>2. CASE i # Len(wire[m]) + 1
          <6>1. i \in DOMAIN wire[m] /\ g = wire[m][i]
            BY <4>1, <4>3, <4>6, <5>2
          <6> QED
            BY <6>1 DEF InFlight
        <5> QED
          BY <5>1, <5>2
      <4> QED
        BY <4>2, <4>4, <4>5, <4>6
    <3> QED
      BY <3>1, <3>2
  <2> QED
    BY <1>6, <2>2, ControlStep DEF RecvOpen
<1> QED
  BY <1>1, <1>2, <1>3, <1>4, <1>5, <1>6 DEF Receive

\* The bookkeeping of the stop-and-wait protocol is consistent in every reachable
\* state: frames and acknowledgements in flight, queued chunks and the two counters.
THEOREM StopAndWaitInvariant == Spec => []StopAndWait
<1>1. StopAndWait /\ TypeOK /\ TypeOK' /\ [Next]_vars => StopAndWait'
  <2> SUFFICES ASSUME IInv, TypeOK', [Next]_vars PROVE StopAndWait'
    BY DEF IInv
  <2>1. CASE UNCHANGED vars
    BY <2>1, SameWire, ControlStep DEF vars, IInv, sendVars, recvVars
  <2> QED
    BY <2>1, LinkKeeps, ClientKeeps, OwnerKeeps, CloseKeeps, PumpKeeps, ConsumeKeeps,
       ReceiveKeeps DEF Next
<1> QED
  BY <1>1, InitIInv, TypeCorrect, PTL DEF Spec

\* No node counts a chunk as acknowledged that was not written at the other
\* end, and at most one chunk is written and not acknowledged.
THEOREM AcknowledgedIsDelivered == Spec => []AckedIsDelivered
<1>1. TypeOK /\ StopAndWait => AckedIsDelivered
  <2> SUFFICES ASSUME TypeOK, StopAndWait, NEW n \in Nodes
               PROVE  outSeq[n] <= Len(got[Peer(n)]) /\ Len(got[Peer(n)]) <= outSeq[n] + 1
    BY DEF AckedIsDelivered
  <2>1. got[Peer(n)] \in Seq(Nat) /\ inSeq[Peer(n)] \in Nat /\ outSeq[n] \in Nat
    BY PeerType DEF TypeOK
  <2> QED
    BY <2>1 DEF StopAndWait, WindowOne
<1> QED
  BY <1>1, StopAndWaitInvariant, TypeCorrect, PTL

-----------------------------------------------------------------------------
(* Sequences of frames: what a wire or a queue holds.                       *)

Has(s, kind) == \E i \in DOMAIN s : s[i].type = kind
Lone(s, kind) == \A i, j \in DOMAIN s : s[i].type = kind /\ s[j].type = kind => i = j

\* No data behind an eof.
EofLast(s) == \A i, j \in DOMAIN s : s[i].type = "eof" /\ s[j].type = "data" => j < i

\* Sequence t is what is left of s when frames at its ends are gone.
Rest(t, s) ==
  \E d \in Nat : Len(t) + d <= Len(s) /\ \A i \in 1..Len(t) : t[i] = s[i + d]

\* What is left holds no more than before, in the same order.
LEMMA RestFacts ==
  ASSUME NEW s \in Seq(Frame), NEW t \in Seq(Frame), Rest(t, s)
  PROVE  /\ \A kind : Has(t, kind) => Has(s, kind)
         /\ \A kind : Lone(s, kind) => Lone(t, kind)
         /\ EofLast(s) => EofLast(t)
         /\ s = <<>> => t = <<>>
<1>1. PICK d \in Nat : Len(t) + d <= Len(s) /\ \A i \in 1..Len(t) : t[i] = s[i + d]
  BY DEF Rest
<1>2. \A i \in DOMAIN t : i \in Nat /\ i + d \in DOMAIN s /\ t[i] = s[i + d]
  BY <1>1
<1>3. \A kind : Has(t, kind) => Has(s, kind)
  BY <1>2 DEF Has
<1>4. \A kind : Lone(s, kind) => Lone(t, kind)
  BY <1>2 DEF Lone
<1>5. EofLast(s) => EofLast(t)
  BY <1>2 DEF EofLast
<1>6. s = <<>> => t = <<>>
  BY <1>1
<1> QED
  BY <1>3, <1>4, <1>5, <1>6

\* One frame more at the end.
LEMMA AppendFacts ==
  ASSUME NEW s \in Seq(Frame), NEW f \in Frame
  PROVE  /\ \A kind : Has(Append(s, f), kind) <=> Has(s, kind) \/ f.type = kind
         /\ \A kind : Lone(s, kind) /\ (f.type = kind => ~Has(s, kind)) => Lone(Append(s, f), kind)
         /\ EofLast(s) /\ (f.type = "data" => ~Has(s, "eof")) => EofLast(Append(s, f))
<1> DEFINE t == Append(s, f)
<1>1. /\ DOMAIN t = 1..(Len(s) + 1) /\ DOMAIN s = 1..Len(s) /\ Len(s) \in Nat
      /\ t[Len(s) + 1] = f /\ \A i \in 1..Len(s) : t[i] = s[i]
  OBVIOUS
<1> HIDE DEF t
<1>2. \A kind : Has(t, kind) <=> Has(s, kind) \/ f.type = kind
  BY <1>1 DEF Has
<1>3. \A kind : Lone(s, kind) /\ (f.type = kind => ~Has(s, kind)) => Lone(t, kind)
  BY <1>1 DEF Has, Lone
<1>4. EofLast(s) /\ (f.type = "data" => ~Has(s, "eof")) => EofLast(t)
  BY <1>1 DEF Has, EofLast
<1> QED
  BY <1>2, <1>3, <1>4 DEF t

\* The head of a sequence and what is behind it.
LEMMA HeadFacts ==
  ASSUME NEW s \in Seq(Frame), s # <<>>
  PROVE  /\ Rest(Tail(s), s) /\ Tail(s) \in Seq(Frame)
         /\ Has(s, Head(s).type)
         /\ Lone(s, Head(s).type) => ~Has(Tail(s), Head(s).type)
         /\ Head(s) \in Frame /\ 1 \in DOMAIN s /\ s[1] = Head(s)
<1>1. /\ Len(Tail(s)) + 1 = Len(s) /\ Len(s) \in Nat /\ DOMAIN s = 1..Len(s)
      /\ DOMAIN Tail(s) = 1..(Len(s) - 1) /\ Head(s) = s[1] /\ 1 \in DOMAIN s
      /\ \A i \in 1..(Len(s) - 1) : Tail(s)[i] = s[i + 1]
      /\ Tail(s) \in Seq(Frame) /\ Head(s) \in Frame
  OBVIOUS
<1>2. Rest(Tail(s), s)
  <2>1. 1 \in Nat /\ Len(Tail(s)) + 1 <= Len(s) /\ \A i \in 1..Len(Tail(s)) : Tail(s)[i] = s[i + 1]
    BY <1>1
  <2> QED
    BY <2>1 DEF Rest
<1>3. Has(s, Head(s).type)
  BY <1>1 DEF Has
<1>4. Lone(s, Head(s).type) => ~Has(Tail(s), Head(s).type)
  <2> SUFFICES ASSUME Lone(s, Head(s).type), NEW i \in DOMAIN Tail(s),
                      Tail(s)[i].type = Head(s).type
               PROVE  FALSE
    BY DEF Has
  <2>1. i + 1 \in DOMAIN s /\ s[i + 1].type = s[1].type /\ i + 1 # 1
    BY <1>1
  <2> QED
    BY <1>1, <2>1 DEF Lone
<1> QED
  BY <1>1, <1>2, <1>3, <1>4

\* A sequence is what is left of itself; nothing is in an empty one.
LEMMA SameFacts ==
  /\ \A s \in Seq(Frame) : Rest(s, s)
  /\ \A kind : ~Has(<<>>, kind) /\ Lone(<<>>, kind)
  /\ EofLast(<<>>)
<1>1. ASSUME NEW s \in Seq(Frame) PROVE Rest(s, s)
  <2>1. 0 \in Nat /\ Len(s) + 0 <= Len(s) /\ \A i \in 1..Len(s) : s[i] = s[i + 0]
    OBVIOUS
  <2> QED
    BY <2>1 DEF Rest
<1> QED
  BY <1>1 DEF Has, Lone, EofLast

\* A send adds at most its frame, at the end of the peer's wire.
LEMMA SendFacts ==
  ASSUME TypeOK, NEW n \in Nodes, NEW f \in Frame, Sends(n, f) \/ SendRaises(n), NEW m \in Nodes
  PROVE  \/ wire'[m] = wire[m]
         \/ m = Peer(n) /\ conn = "up" /\ ready[n] /\ wire'[m] = Append(wire[m], f)
BY PeerType, SMTT(20) DEF TypeOK, Sends, SendRaises

\* A broken connection leaves a prefix of each wire.
LEMMA DropFacts == ASSUME TypeOK, LinkDrop, NEW m \in Nodes PROVE Rest(wire'[m], wire[m])
<1>1. PICK i \in 0..Len(wire["opener"]), j \in 0..Len(wire["owner"]) :
        wire' = [n \in Nodes |-> SubSeq(wire[n], 1, IF n = "opener" THEN i ELSE j)]
  BY DEF LinkDrop
<1>2. wire[m] \in Seq(Frame)
  BY DEF TypeOK
<1>3. PICK k \in 0..Len(wire[m]) : wire'[m] = SubSeq(wire[m], 1, k)
  BY <1>1 DEF Nodes
<1>4. Len(wire'[m]) + 0 <= Len(wire[m]) /\ \A x \in 1..Len(wire'[m]) : wire'[m][x] = wire[m][x + 0]
  BY <1>2, <1>3
<1> QED
  BY <1>4 DEF Rest

\* What a send may add to what the wires hold.
LEMMA SendHolds ==
  ASSUME TypeOK, NEW n \in Nodes, NEW f \in Frame, Sends(n, f) \/ SendRaises(n), NEW m \in Nodes
  PROVE  /\ m = n => wire'[m] = wire[m]
         /\ \A kind : Has(wire'[m], kind) => Has(wire[m], kind) \/ (m = Peer(n) /\ f.type = kind)
         /\ \A kind : Lone(wire[m], kind) /\ (f.type = kind => ~Has(wire[m], kind)) => Lone(wire'[m], kind)
         /\ EofLast(wire[m]) /\ (f.type = "data" => ~Has(wire[m], "eof")) => EofLast(wire'[m])
<1>1. wire[m] \in Seq(Frame)
  BY DEF TypeOK
<1>2. CASE wire'[m] = wire[m]
  BY <1>2
<1>3. CASE m = Peer(n) /\ wire'[m] = Append(wire[m], f)
  <2>1. m # n
    BY <1>3, PeerType
  <2> QED
    BY <1>1, <1>3, <2>1, AppendFacts
<1> QED
  BY <1>2, <1>3, SendFacts

\* What an arrival leaves on the wires.
LEMMA ConsumedRest ==
  ASSUME TypeOK, NEW n \in Nodes, wire[n] # <<>>, Consumed(n), NEW m \in Nodes
  PROVE  Rest(wire'[m], wire[m]) /\ (m # n => wire'[m] = wire[m]) /\ wire'[n] = Tail(wire[n])
BY HeadFacts, SameFacts DEF Consumed, TypeOK

\* Scheduling a close takes no other back.
LEMMA ScheduleGrows ==
  ASSUME TypeOK, NEW n \in Nodes, NEW why, Schedule(n, why)
  PROVE  \A m \in Nodes : closer[m] \subseteq closer'[m]
BY DEF TypeOK, Schedule

\* The chunk a sender hands over next is a frame.
LEMMA NextChunk ==
  ASSUME TypeOK, NEW n \in Nodes
  PROVE  /\ Data(outSeq[n], sent[n] + 1) \in Frame
         /\ Data(outSeq[n], sent[n] + 1).type = "data"
<1>1. outSeq[n] \in Nat /\ sent[n] + 1 \in Nat
  BY DEF TypeOK
<1> QED
  BY <1>1, FrameType DEF Data

-----------------------------------------------------------------------------
(* How a stream begins and ends.                                            *)

\* A node that has sent nothing and counts nothing.
SenderIdle(n) == tx[n] = "off" /\ ack[n] = "none" /\ sent[n] = 0 /\ outSeq[n] = 0

\* Before the opener registers the stream nobody knows of it.
NotBegun ==
  client \in {"wait", "woken"} =>
    /\ open = "none" /\ wire["owner"] = <<>>
    /\ ~tbl["opener"] /\ ~closed["opener"] /\ closing["opener"] = "no"

\* Before `open` arrived nothing comes from the owner, and no data goes to it.
NotOpen ==
  open = "none" =>
    /\ ~tbl["owner"] /\ ~closed["owner"] /\ closing["owner"] = "no"
    /\ wire["opener"] = <<>> /\ inq["opener"] = <<>> /\ inq["owner"] = <<>>
    /\ opened = "pending" /\ client \notin {"serving", "eofsent"}
    /\ SenderIdle("opener") /\ rx["opener"] \in {"off", "get", "dead"}
    /\ \A kind \in Kinds : Has(wire["owner"], kind) => kind \in {"open", "close"}

\* The pumps start with the answer to `open`, at either end.
PumpsWait ==
  /\ client \in {"wait", "woken", "opening"} => SenderIdle("opener")
  /\ open \in {"none", "spawning"} =>
       SenderIdle("owner") /\ rx["owner"] = "off" /\ wt = "off" /\ proc = "none"

\* There is one `open`, and the owner has not seen it while it is on its way.
OpenOnce ==
  /\ Lone(wire["owner"], "open")
  /\ Has(wire["owner"], "open") => open = "none"

\* A node without a link is closing the stream, but for an opener that
\* registered it while there was no link.
LinkEnds ==
  /\ conn = "up" => \A n \in Nodes : ready[n]
  /\ \A n \in Nodes : ~ready[n] /\ tbl[n] /\ "link" \notin closer[n] =>
       n = "opener" /\ open = "none" /\ ~Has(wire["owner"], "open")

\* A closed stream is not in the table.
ClosedLeft == \A n \in Nodes : closed[n] => ~tbl[n]

\* Whoever waits for an acknowledgement is known, and only a stream with staged
\* input has two senders at one node.
OneWaits ==
  /\ \A n \in Nodes : ack[n] # "none" => tx[n] = "wait" \/ rx[n] = "refusing"
  /\ \A n \in Nodes : rx[n] \in {"refuse", "refusing"} => n = "owner" /\ route = "staged"
  /\ route # "staged" => dropped = {}

\* The eof goes to the owner, after the opener's last chunk.
EofEnds ==
  /\ Has(wire["owner"], "eof") \/ Has(inq["owner"], "eof") => tx["opener"] = "done"
  /\ ~Has(wire["opener"], "eof") /\ ~Has(inq["opener"], "eof")
  /\ \A n \in Nodes : \A kind \in Kinds : Has(inq[n], kind) => kind \in {"data", "eof"}
  /\ EofLast(wire["owner"])
  /\ Has(inq["owner"], "eof") => ~Has(wire["owner"], "data")

BeginInv ==
  /\ NotBegun /\ NotOpen /\ PumpsWait /\ OpenOnce
  /\ LinkEnds /\ ClosedLeft /\ OneWaits /\ EofEnds

LEMMA InitBegin == Init => BeginInv
BY SameFacts DEF Init, BeginInv, NotBegun, NotOpen, PumpsWait, OpenOnce, LinkEnds, ClosedLeft,
  OneWaits, EofEnds, SenderIdle, Nodes

LEMMA LinkBegins == ASSUME TypeOK, TypeOK', BeginInv, Link PROVE BeginInv'
<1> USE DEF BeginInv, NotBegun, NotOpen, PumpsWait, OpenOnce, LinkEnds, ClosedLeft,
  OneWaits, EofEnds, SenderIdle, Nodes, linkVars, sendVars, recvVars, tableVars, endVars
<1>1. CASE LinkDrop
  <2>1. \A m \in Nodes : /\ \A kind : Has(wire'[m], kind) => Has(wire[m], kind)
                         /\ \A kind : Lone(wire[m], kind) => Lone(wire'[m], kind)
                         /\ EofLast(wire[m]) => EofLast(wire'[m])
                         /\ wire[m] = <<>> => wire'[m] = <<>>
    <3> SUFFICES ASSUME NEW m \in Nodes
                 PROVE  /\ \A kind : Has(wire'[m], kind) => Has(wire[m], kind)
                        /\ \A kind : Lone(wire[m], kind) => Lone(wire'[m], kind)
                        /\ EofLast(wire[m]) => EofLast(wire'[m])
                        /\ wire[m] = <<>> => wire'[m] = <<>>
      OBVIOUS
    <3>1. wire[m] \in Seq(Frame) /\ wire'[m] \in Seq(Frame)
      BY DEF TypeOK
    <3>2. Rest(wire'[m], wire[m])
      BY <1>1, DropFacts
    <3> QED
      BY <3>1, <3>2, RestFacts
  <2> QED
    BY <1>1, <2>1 DEF LinkDrop
<1>2. ASSUME NEW n \in Nodes, LinkLost(n) PROVE BeginInv'
  <2>1. /\ ready' = [ready EXCEPT ![n] = FALSE] /\ conn = "dead"
        /\ closer' = IF tbl[n] THEN [closer EXCEPT ![n] = @ \cup {"link"}] ELSE closer
        /\ UNCHANGED <<route, conn, wire, sendVars, recvVars, tbl, closed, closing, endVars, dropped>>
    BY <1>2 DEF LinkLost, Schedule
  <2>2. LinkEnds'
    BY <2>1 DEF TypeOK
  <2> QED
    BY <2>1, <2>2
<1>3. CASE LinkUp
  BY <1>3 DEF LinkUp, TypeOK
<1> QED
  BY <1>1, <1>2, <1>3 DEF Link

\* The same for the sends of control frames.
LEMMA ControlHolds ==
  ASSUME TypeOK, NEW n \in Nodes, NEW kind \in Kinds, Sends(n, Control(kind)) \/ SendRaises(n),
         NEW m \in Nodes
  PROVE  /\ m = n => wire'[m] = wire[m]
         /\ \A k : Has(wire'[m], k) => Has(wire[m], k) \/ (m # n /\ k = kind)
         /\ \A k : Lone(wire[m], k) /\ (kind = k => ~Has(wire[m], k)) => Lone(wire'[m], k)
         /\ EofLast(wire[m]) /\ kind # "data" => EofLast(wire'[m])
<1>1. Control(kind) \in Frame /\ Control(kind).type = kind
  BY FrameType DEF Control
<1> QED
  BY <1>1, SendHolds, PeerType

LEMMA ClientBegins == ASSUME TypeOK, TypeOK', BeginInv, Client PROVE BeginInv'
<1> USE DEF BeginInv, NotBegun, NotOpen, PumpsWait, OpenOnce, LinkEnds, ClosedLeft,
  OneWaits, EofEnds, SenderIdle, Nodes, linkVars, sendVars, recvVars, tableVars, endVars
<1>1. CASE ClientWake \/ ClientGivesUp
  BY <1>1 DEF ClientWake, ClientGivesUp, TypeOK
<1>2. CASE ClientOpen
  <2>1. /\ wire'["opener"] = wire["opener"] /\ wire["owner"] = <<>>
        /\ \A k : Has(wire'["owner"], k) => k = "open"
        /\ Lone(wire'["owner"], "open") /\ EofLast(wire'["owner"])
    <3>1. Sends("opener", Control("open")) \/ SendRaises("opener")
      BY <1>2 DEF ClientOpen
    <3>2. wire["owner"] = <<>>
      BY <1>2 DEF ClientOpen
    <3> QED
      BY <3>1, <3>2, ControlHolds, SameFacts DEF Kinds
  <2>2. \A k : SendRaises("opener") => ~Has(wire'["owner"], k)
    BY <2>1, SameFacts DEF SendRaises
  <2> QED
    BY <1>2, <2>1, <2>2 DEF ClientOpen, TypeOK, Sends, SendRaises
<1>3. CASE ClientOpened \/ ClientCloses
  BY <1>3, SMTT(30) DEF ClientOpened, ClientCloses, Schedule, TypeOK
<1>4. CASE ClientFails
  <2>1. /\ wire'["opener"] = wire["opener"]
        /\ \A k : Has(wire'["owner"], k) => Has(wire["owner"], k) \/ k = "close"
        /\ Lone(wire'["owner"], "open") /\ EofLast(wire'["owner"])
    BY <1>4, ControlHolds DEF ClientFails, Kinds
  <2> QED
    BY <1>4, <2>1, SMTT(20) DEF ClientFails, TypeOK
<1>5. CASE ClientEof
  <2>1. /\ wire'["opener"] = wire["opener"]
        /\ \A k : Has(wire'["owner"], k) => Has(wire["owner"], k) \/ k = "eof"
        /\ Lone(wire'["owner"], "open") /\ EofLast(wire'["owner"])
    BY <1>5, ControlHolds DEF ClientEof, Kinds
  <2>2. NotBegun' /\ NotOpen' /\ PumpsWait'
    BY <1>5, <2>1 DEF ClientEof, Schedule, TypeOK
  <2>3. OpenOnce' /\ ClosedLeft' /\ OneWaits'
    BY <1>5, <2>1, SMTT(30) DEF ClientEof, Schedule, TypeOK
  <2>4. LinkEnds'
    <3>1. \A m \in Nodes : closer[m] \subseteq closer'[m]
      BY <1>5, ScheduleGrows DEF ClientEof
    <3> QED
      BY <1>5, <2>1, <3>1 DEF ClientEof
  <2>5. EofEnds'
    BY <1>5, <2>1 DEF ClientEof, Schedule, TypeOK
  <2> QED
    BY <2>2, <2>3, <2>4, <2>5
<1>6. CASE ClientClosed
  BY <1>6 DEF ClientClosed, TypeOK
<1> QED
  BY <1>1, <1>2, <1>3, <1>4, <1>5, <1>6 DEF Client

LEMMA OwnerBegins == ASSUME TypeOK, TypeOK', BeginInv, Owner PROVE BeginInv'
<1> USE DEF BeginInv, NotBegun, NotOpen, PumpsWait, OpenOnce, LinkEnds, ClosedLeft,
  OneWaits, EofEnds, SenderIdle, Nodes, linkVars, sendVars, recvVars, tableVars, endVars
<1>1. CASE SpawnOk
  <2>1. wire'["owner"] = wire["owner"] /\ \A k : Has(wire'["opener"], k) => Has(wire["opener"], k) \/ k = "open_ok"
    BY <1>1, ControlHolds DEF SpawnOk, Kinds
  <2> QED
    BY <1>1, <2>1 DEF SpawnOk, TypeOK
<1>2. CASE SpawnFails
  <2>1. wire'["owner"] = wire["owner"] /\ \A k : Has(wire'["opener"], k) => Has(wire["opener"], k) \/ k = "open_error"
    BY <1>2, ControlHolds DEF SpawnFails, Kinds
  <2> QED
    BY <1>2, <2>1 DEF SpawnFails, TypeOK
<1>3. CASE ProcExit \/ ProcStopped
  BY <1>3 DEF ProcExit, ProcStopped, Exit
<1>4. CASE WaitDone
  <2>1. wire'["owner"] = wire["owner"] /\ \A k : Has(wire'["opener"], k) => Has(wire["opener"], k) \/ k = "close"
    BY <1>4, ControlHolds DEF WaitDone, Kinds, SendRaises
  <2>2. NotBegun' /\ NotOpen' /\ PumpsWait'
    BY <1>4, <2>1 DEF WaitDone, Schedule, TypeOK
  <2>3. OpenOnce' /\ ClosedLeft' /\ OneWaits'
    BY <1>4, <2>1 DEF WaitDone, Schedule, TypeOK
  <2>4. LinkEnds'
    <3>1. \A m \in Nodes : closer[m] \subseteq closer'[m]
      BY <1>4, ScheduleGrows DEF WaitDone
    <3> QED
      BY <1>4, <2>1, <3>1 DEF WaitDone
  <2>5. EofEnds'
    BY <1>4, <2>1 DEF WaitDone, Schedule, TypeOK
  <2> QED
    BY <2>2, <2>3, <2>4, <2>5
<1> QED
  BY <1>1, <1>2, <1>3, <1>4 DEF Owner

LEMMA CloseBegins == ASSUME TypeOK, TypeOK', BeginInv, NEW n \in Nodes, Close(n) PROVE BeginInv'
<1> USE DEF BeginInv, NotBegun, NotOpen, PumpsWait, OpenOnce, LinkEnds, ClosedLeft,
  OneWaits, EofEnds, SenderIdle, Nodes, linkVars, sendVars, recvVars, tableVars, endVars
<1>1. ASSUME NEW why \in {"local", "remote", "link"}, CloseBegin(n, why) PROVE BeginInv'
  <2>1. CASE ~tbl[n]
    BY <1>1, <2>1 DEF CloseBegin, TypeOK
  <2>2. CASE tbl[n]
    BY <1>1, <2>2 DEF CloseBegin, TypeOK
  <2> QED
    BY <2>1, <2>2
<1>2. CASE CloseFinish(n)
  <2>1. \A m \in Nodes :
          /\ m = n => wire'[m] = wire[m]
          /\ \A k : Has(wire'[m], k) => Has(wire[m], k) \/ (m # n /\ k = "close")
          /\ Lone(wire[m], "open") => Lone(wire'[m], "open")
          /\ EofLast(wire[m]) => EofLast(wire'[m])
    <3>1. CASE Sends(n, Control("close")) \/ SendRaises(n)
      BY <3>1, ControlHolds DEF Kinds
    <3>2. CASE UNCHANGED wire
      BY <3>2
    <3> QED
      BY <1>2, <3>1, <3>2 DEF CloseFinish
  <2>2. /\ closing' = [closing EXCEPT ![n] = "no"]
        /\ UNCHANGED <<linkVars, sendVars, recvVars, tbl, closed, closer, endVars, dropped>>
        /\ open = "none" => n = "opener"
    BY <1>2 DEF CloseFinish
  <2>3. closing[n] # "no" /\ \A m \in Nodes : closing[m] = "no" => closing'[m] = "no"
    BY <1>2, <2>2 DEF CloseFinish, TypeOK
  <2>4. wire["owner"] = <<>> /\ client \in {"wait", "woken"} => wire'["owner"] = <<>>
    <3>1. client \in {"wait", "woken"} => n = "owner"
      BY <2>3
    <3> QED
      BY <2>1, <3>1
  <2>5. NotBegun' /\ NotOpen' /\ PumpsWait'
    BY <2>1, <2>2, <2>3, <2>4
  <2>6. OpenOnce' /\ LinkEnds' /\ ClosedLeft' /\ OneWaits' /\ EofEnds'
    BY <2>1, <2>2
  <2> QED
    BY <2>5, <2>6
<1> QED
  BY <1>1, <1>2 DEF Close, CloseStarts

LEMMA PumpBegins == ASSUME TypeOK, TypeOK', BeginInv, NEW n \in Nodes, Pump(n) PROVE BeginInv'
<1> USE DEF BeginInv, NotBegun, NotOpen, PumpsWait, OpenOnce, LinkEnds, ClosedLeft,
  OneWaits, EofEnds, SenderIdle, Nodes, linkVars, sendVars, recvVars, tableVars, endVars
<1>1. CASE PumpSend(n)
  <2>1. \A m \in Nodes :
          /\ m = n => wire'[m] = wire[m]
          /\ \A k : Has(wire'[m], k) => Has(wire[m], k) \/ (m # n /\ k = "data")
          /\ Lone(wire[m], "open") => Lone(wire'[m], "open")
          /\ EofLast(wire[m]) /\ ~Has(wire[m], "eof") => EofLast(wire'[m])
    <3>1. CASE Sends(n, Data(outSeq[n], sent[n] + 1)) \/ SendRaises(n)
      BY <3>1, NextChunk, SendHolds, PeerType
    <3> QED
      BY <1>1, <3>1 DEF PumpSend
  <2>2. NotBegun' /\ NotOpen' /\ PumpsWait'
    BY <1>1, <2>1, SMTT(20) DEF PumpSend, Schedule, TypeOK
  <2>3. OpenOnce' /\ ClosedLeft' /\ OneWaits'
    BY <1>1, <2>1, SMTT(20) DEF PumpSend, Schedule, TypeOK
  <2>4. LinkEnds'
    BY <1>1, <2>1, SMTT(20) DEF PumpSend, Schedule, TypeOK
  <2>5. EofEnds'
    BY <1>1, <2>1, ZenonT(30) DEF PumpSend, Schedule, TypeOK
  <2> QED
    BY <2>2, <2>3, <2>4, <2>5
<1>2. CASE PumpRefused(n) \/ PumpEnd(n)
  BY <1>2 DEF PumpRefused, PumpEnd, TypeOK
<1>3. CASE PumpAcked(n) \/ PumpFailed(n)
  BY <1>3, SMTT(20) DEF PumpAcked, PumpFailed, Schedule, TypeOK
<1> QED
  BY <1>1, <1>2, <1>3 DEF Pump

\* What the consumer leaves in its queue.
LEMMA TakenRest ==
  ASSUME TypeOK, NEW n \in Nodes, inq[n] # <<>>, inq' = [inq EXCEPT ![n] = Tail(@)], NEW m \in Nodes
  PROVE  /\ m # n => inq'[m] = inq[m]
         /\ \A k : Has(inq'[m], k) => Has(inq[m], k)
         /\ \A k : Lone(inq[m], k) => Lone(inq'[m], k)
<1>1. inq[n] \in Seq(Frame)
  BY DEF TypeOK
<1>2. /\ \A k : Has(Tail(inq[n]), k) => Has(inq[n], k)
      /\ \A k : Lone(inq[n], k) => Lone(Tail(inq[n]), k)
  BY <1>1, HeadFacts, RestFacts
<1>3. inq'[m] = IF m = n THEN Tail(inq[n]) ELSE inq[m]
  BY DEF TypeOK
<1> QED
  BY <1>2, <1>3

LEMMA ConsumeBegins ==
  ASSUME TypeOK, TypeOK', BeginInv, NEW n \in Nodes, Consume(n) PROVE BeginInv'
<1> USE DEF BeginInv, NotBegun, NotOpen, PumpsWait, OpenOnce, LinkEnds, ClosedLeft,
  OneWaits, EofEnds, SenderIdle, Nodes, linkVars, sendVars, recvVars, tableVars, endVars
<1>1. ASSUME inq[n] # <<>>, inq' = [inq EXCEPT ![n] = Tail(@)]
      PROVE  /\ \A m \in Nodes : (m # n => inq'[m] = inq[m]) /\ \A k : Has(inq'[m], k) => Has(inq[m], k)
             /\ open = "none" => n = "opener" /\ inq["opener"] # <<>>
  BY <1>1, TakenRest
<1>2. CASE TakeEof(n)
  BY <1>1, <1>2, SMTT(30) DEF TakeEof, TypeOK
<1>3. ASSUME TakesData(n)
      PROVE  /\ inq[n] # <<>> /\ inq' = [inq EXCEPT ![n] = Tail(@)] /\ open # "none"
             /\ UNCHANGED <<linkVars, wire, sendVars, inSeq, tbl, closed, closing, endVars, dropped>>
  BY <1>1, <1>3 DEF TakesData
<1>10. CASE TakeData(n) \/ TakeRefused(n)
  <2>1. TakesData(n) /\ UNCHANGED closer
    BY <1>10 DEF TakeData, TakeRefused
  <2>2. NotBegun' /\ NotOpen' /\ OpenOnce' /\ LinkEnds' /\ ClosedLeft' /\ EofEnds'
    BY <1>1, <1>3, <2>1
  <2>3. rx' = [rx EXCEPT ![n] = "drain"] \/ (rx' = [rx EXCEPT ![n] = "refuse"] /\ n = "owner" /\ route = "staged")
    BY <1>10 DEF TakeData, TakeRefused
  <2>4. rx[n] = "get"
    BY <2>1 DEF TakesData
  <2>5. PumpsWait'
    BY <1>3, <2>1, <2>3, <2>4, SMTT(30) DEF TypeOK
  <2>6. OneWaits'
    BY <1>3, <2>1, <2>3, <2>4, SMTT(20) DEF TypeOK
  <2> QED
    BY <2>2, <2>5, <2>6
<1>4. CASE TakeBroken(n)
  <2>1. TakesData(n) /\ \A m \in Nodes : closer[m] \subseteq closer'[m]
    BY <1>4, ScheduleGrows DEF TakeBroken
  <2>2. NotBegun' /\ NotOpen' /\ OpenOnce' /\ LinkEnds' /\ ClosedLeft' /\ EofEnds'
    BY <1>1, <1>3, <2>1
  <2>3. PumpsWait'
    BY <1>3, <1>4, <2>1 DEF TakeBroken, TakesData, TypeOK
  <2>4. OneWaits'
    BY <1>3, <1>4, <2>1 DEF TakeBroken, TakesData, TypeOK
  <2> QED
    BY <2>2, <2>3, <2>4
<1>5. CASE RefuseSend(n)
  <2>1. \A m \in Nodes :
          /\ m = n => wire'[m] = wire[m]
          /\ \A k : Has(wire'[m], k) => Has(wire[m], k) \/ (m # n /\ k = "data")
          /\ Lone(wire[m], "open") => Lone(wire'[m], "open")
          /\ EofLast(wire[m]) /\ ~Has(wire[m], "eof") => EofLast(wire'[m])
    <3>1. CASE Sends(n, Data(outSeq[n], sent[n] + 1)) \/ SendRaises(n)
      BY <3>1, NextChunk, SendHolds, PeerType
    <3> QED
      BY <1>5, <3>1 DEF RefuseSend
  <2>2. n = "owner" /\ wire'["owner"] = wire["owner"] /\ open # "none"
    BY <1>5, <2>1 DEF RefuseSend
  <2>3. LinkEnds'
    <3>1. \A m \in Nodes : closer[m] \subseteq closer'[m]
      BY <1>5, ScheduleGrows DEF RefuseSend
    <3> QED
      BY <1>5, <2>2, <3>1 DEF RefuseSend
  <2>4. NotBegun' /\ NotOpen' /\ PumpsWait' /\ OpenOnce' /\ ClosedLeft'
    BY <1>5, <2>1, <2>2, SMTT(30) DEF RefuseSend, TypeOK
  <2>5. OneWaits'
    BY <1>5, SMTT(20) DEF RefuseSend, TypeOK
  <2>6. EofEnds'
    BY <1>5, <2>1, <2>2 DEF RefuseSend, TypeOK
  <2> QED
    BY <2>3, <2>4, <2>5, <2>6
<1>6. CASE RefuseRefused(n)
  BY <1>6 DEF RefuseRefused, TypeOK
<1>7. CASE RefuseAcked(n)
  BY <1>7, SMTT(30) DEF RefuseAcked, TypeOK
<1>8. CASE RefuseFailed(n)
  <2>1. \A m \in Nodes : closer[m] \subseteq closer'[m]
    BY <1>8, ScheduleGrows DEF RefuseFailed
  <2> QED
    BY <1>8, <2>1 DEF RefuseFailed, TypeOK
<1>9. CASE AckData(n)
  <2>1. \A m \in Nodes :
          /\ m = n => wire'[m] = wire[m]
          /\ \A k : Has(wire'[m], k) => Has(wire[m], k) \/ (m # n /\ k = "data_ok")
          /\ Lone(wire[m], "open") => Lone(wire'[m], "open")
          /\ EofLast(wire[m]) => EofLast(wire'[m])
    <3>1. DataOk(rxSeq[n]) \in Frame /\ DataOk(rxSeq[n]).type = "data_ok"
      <4>1. rxSeq[n] \in Nat
        BY DEF TypeOK
      <4> QED
        BY <4>1, FrameType DEF DataOk
    <3>2. CASE Sends(n, DataOk(rxSeq[n])) \/ SendRaises(n)
      BY <3>1, <3>2, SendHolds, PeerType
    <3> QED
      BY <1>9, <3>2 DEF AckData
  <2>2. \A m \in Nodes : closer[m] \subseteq closer'[m]
    BY <1>9, ScheduleGrows DEF AckData
  <2>3. open # "none"
    BY <1>9 DEF AckData
  <2>4. LinkEnds' /\ OpenOnce' /\ NotBegun' /\ NotOpen'
    BY <1>9, <2>1, <2>2, <2>3 DEF AckData
  <2>5. PumpsWait' /\ ClosedLeft' /\ OneWaits'
    BY <1>9, <2>3, SMTT(30) DEF AckData, TypeOK
  <2>6. EofEnds'
    BY <1>9, <2>1 DEF AckData
  <2> QED
    BY <2>4, <2>5, <2>6
<1> QED
  BY <1>2, <1>4, <1>5, <1>6, <1>7, <1>8, <1>9, <1>10 DEF Consume

\* `open` is taken from the wire, and a refusal is one frame more on the other.
LEMMA OpenArrives ==
  ASSUME TypeOK, BeginInv, RecvOpen
  PROVE  /\ wire'["opener"] = wire["opener"] \/ (open' = "failed" /\ UNCHANGED tbl)
         /\ wire'["opener"] = wire["opener"] \/ wire'["opener"] = Append(wire["opener"], Control("open_error"))
         /\ ~Has(wire'["opener"], "eof")
         /\ \A k : Has(wire'["owner"], k) => Has(wire["owner"], k)
         /\ Lone(wire'["owner"], "open") /\ ~Has(wire'["owner"], "open") /\ EofLast(wire'["owner"])
<1>1. /\ wire["owner"] \in Seq(Frame) /\ wire["owner"] # <<>> /\ Head(wire["owner"]).type = "open"
      /\ wire["opener"] \in Seq(Frame)
  BY DEF RecvOpen, Arrives, TypeOK, Nodes
<1>2. /\ wire'["owner"] = Tail(wire["owner"])
      /\ \/ wire'["opener"] = wire["opener"]
         \/ /\ wire'["opener"] = Append(wire["opener"], Control("open_error"))
            /\ open' = "failed" /\ UNCHANGED tbl
  <2>1. CASE Consumed("owner")
    BY <2>1 DEF Consumed, TypeOK, Nodes
  <2>2. CASE ~Consumed("owner")
    BY <2>2 DEF RecvOpen, Nodes
  <2> QED
    BY <2>1, <2>2
<1>3. Lone(wire["owner"], "open") /\ EofLast(wire["owner"]) /\ ~Has(wire["opener"], "eof")
  BY DEF BeginInv, OpenOnce, EofEnds
<1>4. /\ \A k : Has(wire'["owner"], k) => Has(wire["owner"], k)
      /\ Lone(wire'["owner"], "open") /\ ~Has(wire'["owner"], "open") /\ EofLast(wire'["owner"])
  <2>1. Rest(Tail(wire["owner"]), wire["owner"]) /\ Tail(wire["owner"]) \in Seq(Frame)
        /\ ~Has(Tail(wire["owner"]), "open")
    BY <1>1, <1>3, HeadFacts
  <2> QED
    BY <1>1, <1>2, <1>3, <2>1, RestFacts, ZenonT(30)
<1>5. ~Has(wire'["opener"], "eof")
  <2>1. Control("open_error") \in Frame /\ Control("open_error").type = "open_error"
    BY FrameType DEF Kinds, Control
  <2>2. CASE wire'["opener"] = wire["opener"]
    BY <1>3, <2>2
  <2>3. CASE wire'["opener"] = Append(wire["opener"], Control("open_error"))
    <3>1. Has(wire'["opener"], "eof") <=> Has(wire["opener"], "eof") \/ Control("open_error").type = "eof"
      BY <1>1, <2>1, <2>3, AppendFacts
    <3> QED
      BY <1>3, <2>1, <3>1
  <2> QED
    BY <1>2, <2>2, <2>3
<1> QED
  BY <1>2, <1>4, <1>5

LEMMA ReceiveBegins ==
  ASSUME TypeOK, TypeOK', BeginInv, NEW n \in Nodes, Receive(n) PROVE BeginInv'
<1> USE DEF BeginInv, NotBegun, NotOpen, PumpsWait, OpenOnce, LinkEnds, ClosedLeft,
  OneWaits, EofEnds, SenderIdle, Nodes, linkVars, sendVars, recvVars, tableVars, endVars
<1>1. ASSUME NEW kind, Arrives(n, kind)
      PROVE  wire[n] \in Seq(Frame) /\ wire[n] # <<>> /\ Has(wire[n], kind) /\ kind \in Kinds
  <2>1. wire[n] \in Seq(Frame) /\ wire[n] # <<>> /\ Head(wire[n]).type = kind
    BY <1>1 DEF Arrives, TypeOK
  <2> QED
    BY <2>1, HeadFacts DEF Frame
<1>2. ASSUME NEW kind, Arrives(n, kind), Consumed(n)
      PROVE  /\ \A m \in Nodes :
                  /\ m # n => wire'[m] = wire[m]
                  /\ \A k : Has(wire'[m], k) => Has(wire[m], k)
                  /\ \A k : Lone(wire[m], k) => Lone(wire'[m], k)
                  /\ EofLast(wire[m]) => EofLast(wire'[m])
                  /\ wire[m] = <<>> => wire'[m] = <<>>
             /\ Lone(wire[n], kind) => ~Has(wire'[n], kind)
  <2>1. wire[n] \in Seq(Frame) /\ wire[n] # <<>> /\ Head(wire[n]).type = kind /\ wire'[n] = Tail(wire[n])
    BY <1>2, ConsumedRest DEF Arrives, TypeOK
  <2>2. Lone(wire[n], kind) => ~Has(wire'[n], kind)
    BY <2>1, HeadFacts
  <2>3. ASSUME NEW m \in Nodes
        PROVE  /\ m # n => wire'[m] = wire[m]
               /\ \A k : Has(wire'[m], k) => Has(wire[m], k)
               /\ \A k : Lone(wire[m], k) => Lone(wire'[m], k)
               /\ EofLast(wire[m]) => EofLast(wire'[m])
               /\ wire[m] = <<>> => wire'[m] = <<>>
    <3>1. wire[m] \in Seq(Frame) /\ wire'[m] \in Seq(Frame)
      BY DEF TypeOK
    <3>2. Rest(wire'[m], wire[m]) /\ (m # n => wire'[m] = wire[m])
      BY <1>2, <2>1, ConsumedRest
    <3> QED
      BY <3>1, <3>2, RestFacts
  <2> QED
    BY <2>2, <2>3
<1>3. ASSUME open = "none", NEW kind, Arrives(n, kind) PROVE n = "owner" /\ kind \in {"open", "close"}
  BY <1>1, <1>3
<1>4. CASE RecvClose(n)
  <2>1. \A m \in Nodes : closer[m] \subseteq closer'[m]
    BY <1>4, ScheduleGrows DEF RecvClose
  <2>2. LinkEnds'
    BY <1>2, <1>4, <2>1 DEF RecvClose
  <2> QED
    BY <1>1, <1>2, <1>4, <2>2 DEF RecvClose
<1>5. CASE RecvDataOk(n)
  <2>1. \A m \in Nodes : closer[m] \subseteq closer'[m]
    BY <1>5, ScheduleGrows DEF RecvDataOk
  <2>2. LinkEnds'
    BY <1>2, <1>5, <2>1 DEF RecvDataOk
  <2>3. open # "none"
    BY <1>3, <1>5 DEF RecvDataOk
  <2>4. NotBegun' /\ NotOpen' /\ OpenOnce' /\ ClosedLeft' /\ EofEnds'
    BY <1>2, <1>5, <2>3 DEF RecvDataOk
  <2>5. \A m \in Nodes : ack'[m] # "none" => ack[m] # "none"
    BY <1>5 DEF RecvDataOk, AckAccepted, TypeOK
  <2>6. \A m \in Nodes : ack[m] = "none" => ack'[m] = "none"
    BY <2>5
  <2>7. PumpsWait' /\ OneWaits'
    BY <1>5, <2>5, <2>6 DEF RecvDataOk
  <2> QED
    BY <2>2, <2>4, <2>7
<1>6. CASE RecvEof(n)
  <2>1. /\ Control("eof") \in Frame /\ Control("eof").type = "eof"
        /\ n = "owner" /\ open # "none" /\ tx["opener"] = "done"
        /\ inq[n] \in Seq(Frame)
    BY <1>1, <1>3, <1>6, FrameType DEF RecvEof, Kinds, Control, TypeOK
  <2>2. \A m \in Nodes : \A k : Has(inq'[m], k) => Has(inq[m], k) \/ (m = n /\ k = "eof")
    BY <1>6, <2>1, AppendFacts DEF RecvEof, TypeOK
  <2>3. ~Has(wire'["owner"], "data")
    <3>1. /\ wire["owner"] \in Seq(Frame) /\ wire["owner"] # <<>> /\ Head(wire["owner"]).type = "eof"
          /\ wire'["owner"] = Tail(wire["owner"])
      BY <1>6, <2>1, ConsumedRest DEF RecvEof, Arrives, TypeOK
    <3>2. EofLast(wire["owner"])
      OBVIOUS
    <3>3. 1 \in DOMAIN wire["owner"] /\ wire["owner"][1].type = "eof"
      BY <3>1, HeadFacts
    <3>4. ASSUME NEW i \in DOMAIN Tail(wire["owner"]) PROVE Tail(wire["owner"])[i].type # "data"
      <4>1. i + 1 \in DOMAIN wire["owner"] /\ Tail(wire["owner"])[i] = wire["owner"][i + 1] /\ ~(i + 1 < 1)
        BY <3>1
      <4> QED
        BY <3>2, <3>3, <4>1 DEF EofLast
    <3> QED
      BY <3>1, <3>4 DEF Has
  <2>4. EofEnds'
    BY <1>2, <1>6, <2>1, <2>2, <2>3 DEF RecvEof
  <2>5. NotBegun' /\ NotOpen' /\ OpenOnce' /\ ClosedLeft' /\ LinkEnds' /\ PumpsWait' /\ OneWaits'
    BY <1>2, <1>6, <2>1 DEF RecvEof
  <2> QED
    BY <2>4, <2>5
<1>7. CASE n = "opener" /\ \E kind \in {"open_ok", "open_error"} : RecvOpened(kind)
  <2>1. PICK kind \in {"open_ok", "open_error"} : RecvOpened(kind)
    BY <1>7
  <2>2. open # "none" /\ client \notin {"wait", "woken"}
    BY <1>3, <2>1, <1>7 DEF RecvOpened
  <2> QED
    BY <1>2, <1>7, <2>1, <2>2 DEF RecvOpened
<1>8. CASE RecvData(n)
  <2>1. open # "none" /\ Has(wire[n], "data") /\ Head(wire[n]) \in Frame /\ Head(wire[n]).type = "data"
        /\ inq[n] \in Seq(Frame)
    BY <1>1, <1>3, <1>8, HeadFacts DEF RecvData, Arrives, TypeOK
  <2>2. \A m \in Nodes : \A k : Has(inq'[m], k) => Has(inq[m], k) \/ (m = n /\ k = "data")
    <3>1. CASE inq' = inq
      BY <3>1
    <3>2. CASE inq' = [inq EXCEPT ![n] = Append(@, Head(wire[n]))]
      BY <2>1, <3>2, AppendFacts, ZenonT(30) DEF TypeOK
    <3> QED
      BY <1>8, <3>1, <3>2 DEF RecvData
  <2>3. \A m \in Nodes : closer[m] \subseteq closer'[m]
    BY <1>8, ScheduleGrows DEF RecvData
  <2>4. LinkEnds'
    BY <1>2, <1>8, <2>3 DEF RecvData
  <2>5. EofEnds'
    BY <1>2, <1>8, <2>1, <2>2 DEF RecvData
  <2>6. NotBegun' /\ NotOpen' /\ OpenOnce' /\ ClosedLeft' /\ PumpsWait' /\ OneWaits'
    BY <1>2, <1>8, <2>1 DEF RecvData
  <2> QED
    BY <2>4, <2>5, <2>6
<1>9. CASE n = "owner" /\ RecvOpen
  <2>1. open = "none"
    BY <1>1, <1>9 DEF RecvOpen
  <2>2. /\ wire'["opener"] = wire["opener"] \/ (open' = "failed" /\ UNCHANGED tbl)
        /\ ~Has(wire'["opener"], "eof")
        /\ \A k : Has(wire'["owner"], k) => Has(wire["owner"], k)
        /\ Lone(wire'["owner"], "open") /\ ~Has(wire'["owner"], "open") /\ EofLast(wire'["owner"])
    BY <1>9, OpenArrives
  <2>6. /\ open' # "none" /\ ready["owner"] /\ ~closed["owner"] /\ client \notin {"wait", "woken"}
        /\ tbl' = [tbl EXCEPT !["owner"] = TRUE] \/ tbl' = tbl
        /\ UNCHANGED <<linkVars, sendVars, recvVars, closed, closer, closing, client, opened, proc, wt, dropped>>
    BY <1>1, <1>9, <2>1, HeadFacts, SameFacts DEF RecvOpen, Arrives
  <2>7. tbl'["opener"] = tbl["opener"] /\ (tbl'["owner"] => tbl["owner"] \/ ready["owner"])
    BY <2>6 DEF TypeOK
  <2>3. LinkEnds'
    <3>1. (conn = "up" => \A m \in Nodes : ready[m]) /\ ready["owner"]
      BY <2>6
    <3>2. ~ready["opener"] /\ tbl["opener"] /\ "link" \notin closer["opener"] => ~Has(wire["owner"], "open")
      OBVIOUS
    <3>3. Has(wire["owner"], "open")
      BY <1>1, <1>9 DEF RecvOpen
    <3> QED
      BY <2>6, <2>7, <3>1, <3>2, <3>3
  <2>4. NotBegun' /\ OpenOnce' /\ ClosedLeft' /\ OneWaits'
    BY <2>2, <2>6, <2>7
  <2>8. EofEnds'
    BY <2>2, <2>6
  <2>5. NotOpen' /\ PumpsWait'
    BY <1>9, <2>1, <2>2 DEF RecvOpen
  <2> QED
    BY <2>3, <2>4, <2>5, <2>8
<1> QED
  BY <1>4, <1>5, <1>6, <1>7, <1>8, <1>9 DEF Receive

LEMMA BeginsHolds == Spec => []BeginInv
<1>1. BeginInv /\ TypeOK /\ TypeOK' /\ [Next]_vars => BeginInv'
  <2> SUFFICES ASSUME BeginInv, TypeOK, TypeOK', [Next]_vars PROVE BeginInv'
    OBVIOUS
  <2>1. CASE UNCHANGED vars
    BY <2>1 DEF vars, BeginInv, NotBegun, NotOpen, PumpsWait, OpenOnce, LinkEnds, ClosedLeft,
      OneWaits, EofEnds, SenderIdle, linkVars, sendVars, recvVars, tableVars, endVars
  <2> QED
    BY <2>1, LinkBegins, ClientBegins, OwnerBegins, CloseBegins, PumpBegins, ConsumeBegins,
       ReceiveBegins DEF Next
<1> QED
  BY <1>1, InitBegin, TypeCorrect, PTL DEF Spec

-----------------------------------------------------------------------------
(* What a sender handed over and what its peer may still take for it.       *)

\* The data frames of s come after their sequence and within the first k chunks.
Numbered(s, k) == \A i \in DOMAIN s : s[i].type = "data" => s[i].seq < s[i].val /\ s[i].val <= k

\* The data frames of s are the chunk that belongs to their sequence.
Exact(s, k) == \A i \in DOMAIN s : s[i].type = "data" => s[i].val = s[i].seq + 1 /\ s[i].val <= k

\* A data frame that is not would be refused: its sequence is below q, or an
\* earlier frame has it.
Shadow(s, q) ==
  \A i \in DOMAIN s : s[i].type = "data" =>
    \/ s[i].val = s[i].seq + 1
    \/ s[i].seq < q
    \/ \E j \in DOMAIN s : j < i /\ s[j].type = "data" /\ s[j].seq = s[i].seq

DataAt(s, q) == \E i \in DOMAIN s : s[i].type = "data" /\ s[i].seq = q

\* t may take the place of s; and when every data frame stays.
Loses(s, t) ==
  /\ \A k \in Nat : Numbered(s, k) => Numbered(t, k)
  /\ \A q \in Nat : Shadow(s, q) => Shadow(t, q)

Keeps(s, t) == Loses(s, t) /\ \A q \in Nat : DataAt(s, q) => DataAt(t, q)

\* Sequences without data frames.
LEMMA NoData ==
  ASSUME NEW s \in Seq(Frame)
  PROVE  /\ ~Has(s, "data") => \A k \in Nat : Numbered(s, k) /\ Shadow(s, k) /\ Exact(s, k)
         /\ Numbered(s, 0) \/ Exact(s, 0) => ~Has(s, "data")
         /\ \A k, l \in Nat : k <= l => (Numbered(s, k) => Numbered(s, l)) /\ (Exact(s, k) => Exact(s, l))
         /\ \A k, l \in Nat : k <= l => (Shadow(s, k) => Shadow(s, l))
         /\ Keeps(s, s) /\ Loses(s, s)
<1>0. \A i \in DOMAIN s : s[i] \in Frame
  OBVIOUS
<1>1. \A i \in DOMAIN s : s[i].seq \in Nat /\ s[i].val \in Nat
  BY <1>0 DEF Frame
<1>2. ~Has(s, "data") => \A k \in Nat : Numbered(s, k) /\ Shadow(s, k) /\ Exact(s, k)
  BY DEF Has, Numbered, Shadow, Exact
<1>3. Numbered(s, 0) \/ Exact(s, 0) => ~Has(s, "data")
  BY <1>1 DEF Has, Numbered, Exact
<1>4. \A k, l \in Nat : k <= l => (Numbered(s, k) => Numbered(s, l)) /\ (Exact(s, k) => Exact(s, l))
  BY <1>1 DEF Numbered, Exact
<1>5. \A k, l \in Nat : k <= l => (Shadow(s, k) => Shadow(s, l))
  BY <1>1 DEF Shadow
<1> QED
  BY <1>2, <1>3, <1>4, <1>5 DEF Keeps, Loses

\* A frame more at the end.
LEMMA AppendKeeps ==
  ASSUME NEW s \in Seq(Frame), NEW f \in Frame
  PROVE  /\ f.type # "data" => Keeps(s, Append(s, f))
         /\ \A q \in Nat : DataAt(s, q) => DataAt(Append(s, f), q)
         /\ f.type = "data" => DataAt(Append(s, f), f.seq)
         /\ \A k \in Nat : Numbered(s, k) /\ f.seq < f.val /\ f.val <= k => Numbered(Append(s, f), k)
         /\ \A k \in Nat : Exact(s, k) /\ (f.type = "data" => f.val = f.seq + 1 /\ f.val <= k) => Exact(Append(s, f), k)
         /\ \A q \in Nat : Shadow(s, q) /\ (f.val = f.seq + 1 \/ f.seq < q \/ DataAt(s, f.seq)) => Shadow(Append(s, f), q)
<1> DEFINE t == Append(s, f)
<1>1. /\ DOMAIN t = 1..(Len(s) + 1) /\ DOMAIN s = 1..Len(s) /\ Len(s) \in Nat
      /\ t[Len(s) + 1] = f /\ \A i \in 1..Len(s) : t[i] = s[i]
  OBVIOUS
<1> HIDE DEF t
<1>2. \A q \in Nat : DataAt(s, q) => DataAt(t, q)
  BY <1>1 DEF DataAt
<1>3. f.type = "data" => DataAt(t, f.seq)
  BY <1>1 DEF DataAt
<1>4. \A k \in Nat : Numbered(s, k) /\ (f.type = "data" => f.seq < f.val /\ f.val <= k) => Numbered(t, k)
  BY <1>1 DEF Numbered
<1>5. \A k \in Nat : Exact(s, k) /\ (f.type = "data" => f.val = f.seq + 1 /\ f.val <= k) => Exact(t, k)
  BY <1>1 DEF Exact
<1>6. ASSUME NEW q \in Nat, Shadow(s, q),
             f.type = "data" => f.val = f.seq + 1 \/ f.seq < q \/ DataAt(s, f.seq)
      PROVE  Shadow(t, q)
  <2> SUFFICES ASSUME NEW i \in DOMAIN t, t[i].type = "data"
               PROVE  \/ t[i].val = t[i].seq + 1
                      \/ t[i].seq < q
                      \/ \E j \in DOMAIN t : j < i /\ t[j].type = "data" /\ t[j].seq = t[i].seq
    BY DEF Shadow
  <2>1. CASE i \in DOMAIN s
    BY <1>1, <1>6, <2>1 DEF Shadow
  <2>2. CASE i = Len(s) + 1
    BY <1>1, <1>6, <2>2 DEF DataAt
  <2> QED
    BY <1>1, <2>1, <2>2
<1> QED
  BY <1>2, <1>3, <1>4, <1>5, <1>6 DEF t, Keeps, Loses

\* The head is taken.
LEMMA TailKeeps ==
  ASSUME NEW s \in Seq(Frame), s # <<>>
  PROVE  /\ Head(s).type # "data" => Keeps(s, Tail(s))
         /\ \A k \in Nat : (Numbered(s, k) => Numbered(Tail(s), k)) /\ (Exact(s, k) => Exact(Tail(s), k))
         /\ \A q, p \in Nat : Shadow(s, q) /\ q <= p /\ Head(s).seq < p => Shadow(Tail(s), p)
         /\ \A q \in Nat : DataAt(s, q) /\ q # Head(s).seq => DataAt(Tail(s), q)
<1> DEFINE t == Tail(s)
<1>1. /\ DOMAIN t = 1..(Len(s) - 1) /\ DOMAIN s = 1..Len(s) /\ Len(s) \in Nat /\ Len(s) > 0
      /\ \A i \in 1..(Len(s) - 1) : t[i] = s[i + 1]
      /\ Head(s) = s[1]
  OBVIOUS
<1>5. \A i \in DOMAIN s : s[i] \in Frame
  OBVIOUS
<1>0. \A i \in DOMAIN s : s[i].seq \in Nat
  BY <1>5 DEF Frame
<1> HIDE DEF t
<1>2. \A k \in Nat : (Numbered(s, k) => Numbered(t, k)) /\ (Exact(s, k) => Exact(t, k))
  BY <1>1 DEF Numbered, Exact
<1>3. ASSUME NEW q \in Nat, DataAt(s, q), Head(s).type # "data" \/ q # Head(s).seq PROVE DataAt(t, q)
  <2>1. PICK i \in DOMAIN s : s[i].type = "data" /\ s[i].seq = q
    BY <1>3 DEF DataAt
  <2>2. i # 1 /\ i - 1 \in DOMAIN t /\ t[i - 1] = s[i]
    BY <1>1, <1>3, <2>1
  <2> QED
    BY <2>1, <2>2 DEF DataAt
<1>4. ASSUME NEW q \in Nat, NEW p \in Nat, Shadow(s, q), q <= p, Head(s).type # "data" \/ Head(s).seq < p
      PROVE  Shadow(t, p)
  <2> SUFFICES ASSUME NEW i \in DOMAIN t, t[i].type = "data"
               PROVE  \/ t[i].val = t[i].seq + 1
                      \/ t[i].seq < p
                      \/ \E j \in DOMAIN t : j < i /\ t[j].type = "data" /\ t[j].seq = t[i].seq
    BY DEF Shadow
  <2>1. i + 1 \in DOMAIN s /\ t[i] = s[i + 1]
    BY <1>1
  <2>2. ASSUME NEW j \in DOMAIN s, j < i + 1, s[j].type = "data", s[j].seq = s[i + 1].seq
        PROVE  t[i].seq < p \/ \E l \in DOMAIN t : l < i /\ t[l].type = "data" /\ t[l].seq = t[i].seq
    <3>1. CASE j = 1
      BY <1>1, <1>4, <2>1, <2>2, <3>1
    <3>2. CASE j # 1
      <4>1. j - 1 \in DOMAIN t /\ j - 1 < i /\ t[j - 1] = s[j]
        BY <1>1, <2>2, <3>2
      <4> QED
        BY <2>1, <2>2, <4>1
    <3> QED
      BY <3>1, <3>2
  <2>3. CASE s[i + 1].val = s[i + 1].seq + 1
    BY <2>1, <2>3
  <2>4. CASE s[i + 1].seq < q
    BY <1>0, <1>4, <2>1, <2>4
  <2> QED
    BY <1>4, <2>1, <2>2, <2>3, <2>4 DEF Shadow
<1> QED
  BY <1>2, <1>3, <1>4 DEF t, Keeps, Loses

\* A broken connection.
LEMMA DropLoses == ASSUME TypeOK, LinkDrop, NEW m \in Nodes PROVE Loses(wire[m], wire'[m])
<1>1. PICK i \in 0..Len(wire["opener"]), j \in 0..Len(wire["owner"]) :
        wire' = [n \in Nodes |-> SubSeq(wire[n], 1, IF n = "opener" THEN i ELSE j)]
  BY DEF LinkDrop
<1>2. wire[m] \in Seq(Frame)
  BY DEF TypeOK
<1>3. PICK k \in 0..Len(wire[m]) : wire'[m] = SubSeq(wire[m], 1, k)
  BY <1>1 DEF Nodes
<1>4. /\ DOMAIN wire'[m] = 1..k /\ DOMAIN wire[m] = 1..Len(wire[m]) /\ Len(wire[m]) \in Nat
      /\ \A x \in 1..k : wire'[m][x] = wire[m][x]
  BY <1>2, <1>3
<1>5. \A l \in Nat : Numbered(wire[m], l) => Numbered(wire'[m], l)
  BY <1>4 DEF Numbered
<1>6. \A q \in Nat : Shadow(wire[m], q) => Shadow(wire'[m], q)
  BY <1>4, SMTT(30) DEF Shadow
<1> QED
  BY <1>5, <1>6 DEF Loses

\* A send that is not data.
LEMMA SendKeeps ==
  ASSUME TypeOK, NEW n \in Nodes, NEW f \in Frame, f.type # "data", Sends(n, f) \/ SendRaises(n),
         NEW m \in Nodes
  PROVE  Keeps(wire[m], wire'[m])
<1>1. wire[m] \in Seq(Frame)
  BY DEF TypeOK
<1>2. Keeps(wire[m], wire[m]) /\ Keeps(wire[m], Append(wire[m], f))
  BY <1>1, AppendKeeps, NoData
<1>3. wire'[m] = wire[m] \/ wire'[m] = Append(wire[m], f)
  BY SendFacts
<1> QED
  BY <1>2, <1>3

LEMMA ControlKeeps ==
  ASSUME TypeOK, NEW n \in Nodes, NEW kind \in Kinds, kind # "data",
         Sends(n, Control(kind)) \/ SendRaises(n), NEW m \in Nodes
  PROVE  Keeps(wire[m], wire'[m])
BY SendKeeps, FrameType DEF Control

\* An arrival that is not data.
LEMMA ArrivalKeeps ==
  ASSUME TypeOK, NEW n \in Nodes, NEW kind, kind # "data", Arrives(n, kind), Consumed(n), NEW m \in Nodes
  PROVE  Keeps(wire[m], wire'[m])
<1>1. wire[m] \in Seq(Frame) /\ wire[n] \in Seq(Frame) /\ wire[n] # <<>> /\ Head(wire[n]).type # "data"
  BY DEF TypeOK, Arrives
<1>2. wire'[m] = IF m = n THEN Tail(wire[n]) ELSE wire[m]
  BY DEF Consumed, TypeOK
<1> QED
  BY <1>1, <1>2, TailKeeps, NoData

-----------------------------------------------------------------------------
(* One direction of the stream, from the sender m to its peer.              *)

\* Nothing is counted, queued or on its way beyond what was handed over, and
\* a chunk in the queue is the one that belongs to its sequence.
Numbers(m) ==
  /\ outSeq[m] <= sent[m] /\ inSeq[Peer(m)] <= sent[m]
  /\ ack[m] # "none" => outSeq[m] < sent[m]
  /\ ack[m] = "set" => sent[m] = outSeq[m] + 1
  /\ Numbered(wire[Peer(m)], sent[m])
  /\ Exact(inq[Peer(m)], sent[m])

\* A sequence whose chunk is lost to the sender is not free for another: it
\* is on its way or the receiver is past it, or has left.
Spent(m) ==
  conn = "up" /\ outSeq[m] < sent[m] =>
    DataAt(wire[Peer(m)], outSeq[m]) \/ outSeq[m] < inSeq[Peer(m)] \/ ~tbl[Peer(m)]

\* A chunk sent under such a sequence is never the one that is accepted.
Shadowed(m) == tbl[Peer(m)] => Shadow(wire[Peer(m)], inSeq[Peer(m)])

\* On a stream that nothing will close, at most the chunk that waits for its
\* acknowledgement is not counted as acknowledged.
InStep(m) ==
  Live(m) => /\ ack[m] # "late"
             /\ ack[m] = "none" => sent[m] = outSeq[m]
             /\ ack[m] # "none" => sent[m] = outSeq[m] + 1

Direction(m) == Numbers(m) /\ Spent(m) /\ Shadowed(m) /\ InStep(m)

\* A step that hands over, accepts and acknowledges nothing in the direction.
Quiet(m) ==
  /\ sent'[m] = sent[m] /\ outSeq'[m] = outSeq[m] /\ inSeq'[Peer(m)] = inSeq[Peer(m)]
  /\ ack'[m] = ack[m] \/ (ack'[m] = "none" /\ ~Live(m)')
  /\ Live(m)' => Live(m) \/ SenderIdle(m)
  /\ tbl'[Peer(m)] => tbl[Peer(m)] \/ sent[m] = 0
  /\ Loses(wire[Peer(m)], wire'[Peer(m)])
  /\ conn' = "up" => \/ sent[m] = 0 \/ ~tbl'[Peer(m)]
                     \/ conn = "up" /\ Keeps(wire[Peer(m)], wire'[Peer(m)])
  /\ \A k \in Nat : Exact(inq[Peer(m)], k) => Exact(inq'[Peer(m)], k)

LEMMA QuietStep ==
  ASSUME TypeOK, TypeOK', NEW m \in Nodes, Direction(m), Quiet(m) PROVE Direction(m)'
<1>1. /\ Peer(m) \in Nodes /\ outSeq[m] \in Nat /\ sent[m] \in Nat /\ inSeq[Peer(m)] \in Nat
      /\ wire[Peer(m)] \in Seq(Frame) /\ wire'[Peer(m)] \in Seq(Frame)
  BY PeerType DEF TypeOK
<1>2. Numbers(m)'
  <2>1. /\ outSeq[m] <= sent[m] /\ inSeq[Peer(m)] <= sent[m]
        /\ ack'[m] # "none" => outSeq[m] < sent[m]
        /\ ack'[m] = "set" => sent[m] = outSeq[m] + 1
    BY DEF Direction, Numbers, Quiet
  <2>2. Numbered(wire'[Peer(m)], sent[m])
    BY <1>1 DEF Direction, Numbers, Quiet, Loses
  <2>3. Exact(inq'[Peer(m)], sent[m])
    BY <1>1 DEF Direction, Numbers, Quiet
  <2> QED
    BY <2>1, <2>2, <2>3 DEF Numbers, Quiet
<1>3. Spent(m)'
  <2>1. ~(outSeq[m] < 0)
    BY <1>1
  <2>2. CASE conn' = "up" /\ tbl'[Peer(m)] /\ outSeq[m] < sent[m]
    <3>1. conn = "up" /\ Keeps(wire[Peer(m)], wire'[Peer(m)]) /\ tbl[Peer(m)]
      BY <2>1, <2>2 DEF Quiet
    <3>2. DataAt(wire[Peer(m)], outSeq[m]) \/ outSeq[m] < inSeq[Peer(m)]
      BY <2>2, <3>1 DEF Direction, Spent
    <3> QED
      BY <1>1, <3>1, <3>2 DEF Spent, Quiet, Keeps
  <2> QED
    BY <2>2 DEF Spent, Quiet
<1>4. Shadowed(m)'
  <2>1. CASE sent[m] = 0
    <3>1. Numbered(wire'[Peer(m)], 0)
      BY <2>1, <1>1 DEF Direction, Numbers, Quiet, Loses
    <3> QED
      BY <1>1, <3>1, NoData DEF Shadowed, Quiet
  <2>2. CASE sent[m] # 0 /\ tbl'[Peer(m)]
    <3>1. Shadow(wire[Peer(m)], inSeq[Peer(m)])
      BY <2>2 DEF Direction, Shadowed, Quiet
    <3> QED
      BY <1>1, <3>1 DEF Shadowed, Quiet, Loses
  <2> QED
    BY <2>1, <2>2 DEF Shadowed
<1>5. InStep(m)'
  <2>1. CASE SenderIdle(m) /\ Live(m)'
    BY <2>1 DEF InStep, Quiet, SenderIdle
  <2>2. CASE Live(m) /\ Live(m)'
    BY <2>2 DEF InStep, Quiet, Direction
  <2> QED
    BY <2>1, <2>2 DEF InStep, Quiet
<1> QED
  BY <1>2, <1>3, <1>4, <1>5 DEF Direction

\* The chunk is on its way once at most: as a data frame, in the queue, in the
\* hands of the consumer, or as its acknowledgement; only while its sender waits.
OnItsWay(m) ==
  \/ Has(wire[Peer(m)], "data") \/ Has(inq[Peer(m)], "data")
  \/ rx[Peer(m)] \in Holding \/ Has(wire[m], "data_ok")

\* The frames of s of a kind have the sequence q.
Only(s, kind, q) == \A i \in DOMAIN s : s[i].type = kind => s[i].seq = q

Token(m) ==
  Live(m) =>
    /\ OnItsWay(m) => ack[m] = "wait"
    /\ Has(wire[Peer(m)], "data") =>
         /\ ~Has(inq[Peer(m)], "data") /\ rx[Peer(m)] \notin Holding /\ ~Has(wire[m], "data_ok")
         /\ inSeq[Peer(m)] = outSeq[m]
    /\ Has(inq[Peer(m)], "data") => rx[Peer(m)] \notin Holding /\ ~Has(wire[m], "data_ok")
    /\ rx[Peer(m)] \in Holding => ~Has(wire[m], "data_ok") /\ rxSeq[Peer(m)] = outSeq[m]
    /\ Lone(wire[Peer(m)], "data") /\ Lone(wire[m], "data_ok")
    /\ Only(wire[Peer(m)], "data", outSeq[m])
    /\ Only(inq[Peer(m)], "data", outSeq[m])
    /\ Only(wire[m], "data_ok", outSeq[m])

\* t holds of the kind what s held, or less.
Fewer(s, t, kind) ==
  /\ Has(t, kind) => Has(s, kind)
  /\ Lone(s, kind) => Lone(t, kind)
  /\ \A q \in Nat : Only(s, kind, q) => Only(t, kind, q)

\* A step that adds nothing to what is on its way.
Still(m) ==
  Live(m)' =>
    \/ ~OnItsWay(m)'
    \/ /\ Live(m) /\ ack'[m] = ack[m] /\ outSeq'[m] = outSeq[m] /\ inSeq'[Peer(m)] = inSeq[Peer(m)]
       /\ Fewer(wire[Peer(m)], wire'[Peer(m)], "data")
       /\ Fewer(inq[Peer(m)], inq'[Peer(m)], "data")
       /\ Fewer(wire[m], wire'[m], "data_ok")
       /\ rx'[Peer(m)] \in Holding => rx[Peer(m)] \in Holding /\ rxSeq'[Peer(m)] = rxSeq[Peer(m)]

\* Where nothing of a kind is, all of it is alone and in its place.
LEMMA NoneOfIt ==
  ASSUME NEW s, NEW kind, ~Has(s, kind)
  PROVE  Lone(s, kind) /\ \A q : Only(s, kind, q)
BY DEF Has, Lone, Only

LEMMA StillStep ==
  ASSUME TypeOK, TypeOK', NEW m \in Nodes, Token(m), Still(m) PROVE Token(m)'
<1> SUFFICES ASSUME Live(m)' PROVE Token(m)'
  BY DEF Token
<1>1. outSeq[m] \in Nat
  BY DEF TypeOK
<1>2. CASE ~OnItsWay(m)'
  BY <1>2, NoneOfIt DEF Token, OnItsWay
<1>3. CASE OnItsWay(m)'
  BY <1>1, <1>3 DEF Token, OnItsWay, Still, Fewer
<1> QED
  BY <1>2, <1>3

ChannelInv == \A m \in Nodes : Direction(m) /\ Token(m)

\* What is left of a sequence holds less; another frame adds nothing of the kind.
LEMMA FewerFacts ==
  ASSUME NEW s \in Seq(Frame)
  PROVE  /\ \A kind : Fewer(s, s, kind)
         /\ \A f \in Frame : \A kind : f.type # kind => Fewer(s, Append(s, f), kind)
         /\ \A t \in Seq(Frame) : Rest(t, s) => \A kind : Fewer(s, t, kind)
<1>1. \A kind : Fewer(s, s, kind)
  BY DEF Fewer
<1>2. ASSUME NEW f \in Frame, NEW kind, f.type # kind PROVE Fewer(s, Append(s, f), kind)
  <2>1. /\ DOMAIN Append(s, f) = 1..(Len(s) + 1) /\ DOMAIN s = 1..Len(s) /\ Len(s) \in Nat
        /\ Append(s, f)[Len(s) + 1] = f /\ \A i \in 1..Len(s) : Append(s, f)[i] = s[i]
    OBVIOUS
  <2>2. \A q \in Nat : Only(s, kind, q) => Only(Append(s, f), kind, q)
    BY <1>2, <2>1 DEF Only
  <2> QED
    BY <1>2, <2>2, AppendFacts DEF Fewer
<1>3. ASSUME NEW t \in Seq(Frame), Rest(t, s), NEW kind PROVE Fewer(s, t, kind)
  <2>1. PICK d \in Nat : Len(t) + d <= Len(s) /\ \A i \in 1..Len(t) : t[i] = s[i + d]
    BY <1>3 DEF Rest
  <2>2. \A i \in DOMAIN t : i \in Nat /\ i + d \in DOMAIN s /\ t[i] = s[i + d]
    BY <2>1
  <2>3. \A q \in Nat : Only(s, kind, q) => Only(t, kind, q)
    BY <2>2 DEF Only
  <2> QED
    BY <1>3, <2>3, RestFacts DEF Fewer
<1> QED
  BY <1>1, <1>2, <1>3

\* On the wires nothing of a chunk is added.
CalmWire ==
  \A m \in Nodes : /\ Keeps(wire[m], wire'[m])
                   /\ Fewer(wire[m], wire'[m], "data") /\ Fewer(wire[m], wire'[m], "data_ok")

CalmQueue ==
  \A m \in Nodes : /\ \A k \in Nat : Exact(inq[m], k) => Exact(inq'[m], k)
                   /\ Fewer(inq[m], inq'[m], "data")

LEMMA SameIsCalm == ASSUME TypeOK PROVE (wire' = wire => CalmWire) /\ (inq' = inq => CalmQueue)
BY NoData, FewerFacts DEF CalmWire, CalmQueue, TypeOK

LEMMA ControlIsCalm ==
  ASSUME TypeOK, NEW n \in Nodes, NEW kind \in Kinds, kind \notin {"data", "data_ok"},
         Sends(n, Control(kind)) \/ SendRaises(n)
  PROVE  CalmWire
<1> SUFFICES ASSUME NEW m \in Nodes
             PROVE  /\ Keeps(wire[m], wire'[m])
                    /\ Fewer(wire[m], wire'[m], "data") /\ Fewer(wire[m], wire'[m], "data_ok")
  BY DEF CalmWire
<1>1. Control(kind) \in Frame /\ Control(kind).type = kind
  BY FrameType DEF Control
<1>2. wire[m] \in Seq(Frame) /\ (wire'[m] = wire[m] \/ wire'[m] = Append(wire[m], Control(kind)))
  BY <1>1, SendFacts, ZenonT(30) DEF TypeOK
<1>3. /\ Fewer(wire[m], wire[m], "data") /\ Fewer(wire[m], wire[m], "data_ok")
      /\ Fewer(wire[m], Append(wire[m], Control(kind)), "data")
      /\ Fewer(wire[m], Append(wire[m], Control(kind)), "data_ok")
  BY <1>1, <1>2, FewerFacts
<1> QED
  BY <1>2, <1>3, ControlKeeps

\* An arrival takes from one wire.
LEMMA ArrivalFewer ==
  ASSUME TypeOK, TypeOK', NEW n \in Nodes, wire[n] # <<>>, Consumed(n), NEW m \in Nodes
  PROVE  \A kind : Fewer(wire[m], wire'[m], kind)
<1>1. wire[m] \in Seq(Frame) /\ wire'[m] \in Seq(Frame)
  BY DEF TypeOK
<1> QED
  BY <1>1, ConsumedRest, FewerFacts

LEMMA ArrivalIsCalm ==
  ASSUME TypeOK, TypeOK', NEW n \in Nodes, NEW kind, kind # "data", Arrives(n, kind), Consumed(n)
  PROVE  CalmWire
<1>1. wire[n] # <<>>
  BY DEF Arrives
<1> QED
  BY <1>1, ArrivalFewer, ArrivalKeeps DEF CalmWire

\* A step that leaves the chunks alone, and both ends or closes one.
Calm ==
  /\ CalmWire /\ CalmQueue
  /\ UNCHANGED <<sent, outSeq, inSeq>>
  /\ conn' = "up" => conn = "up"
  /\ \A m \in Nodes :
       /\ tbl'[m] => tbl[m]
       /\ Live(m)' => Live(m) /\ ack'[m] = ack[m]
       /\ ack'[m] = ack[m] \/ ack'[m] = "none"
       /\ rx'[m] \in Holding => rx[m] \in Holding /\ rxSeq'[m] = rxSeq[m]

LEMMA CalmStep == ASSUME TypeOK, TypeOK', ChannelInv, Calm PROVE ChannelInv'
<1> SUFFICES ASSUME NEW m \in Nodes PROVE Direction(m)' /\ Token(m)'
  BY DEF ChannelInv
<1>1. Peer(m) \in Nodes
  BY PeerType
<1>2. Quiet(m)
  BY <1>1 DEF Calm, Quiet, CalmWire, CalmQueue, Keeps
<1>3. Still(m)
  BY <1>1 DEF Calm, Still, CalmWire, CalmQueue
<1> QED
  BY <1>2, <1>3, QuietStep, StillStep DEF ChannelInv

\* Scheduling a close makes no stream usable.
LEMMA ScheduleLive ==
  ASSUME TypeOK, NEW n \in Nodes, NEW why, Schedule(n, why) \/ UNCHANGED closer, UNCHANGED tbl
  PROVE  /\ \A m \in Nodes : Live(m)' => Live(m)
         /\ Schedule(n, why) => ~Live(n)'
<1>1. ASSUME NEW m \in Nodes PROVE closer[m] \subseteq closer'[m]
  BY ScheduleGrows
<1>2. Schedule(n, why) => ~Live(n)'
  BY DEF Schedule, Live, TypeOK
<1> QED
  BY <1>1, <1>2 DEF Live

LEMMA ClientIsCalm ==
  ASSUME TypeOK, TypeOK', BeginInv, Client, ~ClientOpen PROVE Calm
<1> USE DEF Nodes, linkVars, sendVars, recvVars, tableVars, endVars
<1>1. CASE ClientWake \/ ClientGivesUp
  BY <1>1, SameIsCalm DEF ClientWake, ClientGivesUp, Calm, Live
<1>2. CASE ClientOpened \/ ClientCloses
  <2>1. \A m \in Nodes : Live(m)' => Live(m)
    BY <1>2, ScheduleLive DEF ClientOpened, ClientCloses
  <2> QED
    BY <1>2, <2>1, SameIsCalm DEF ClientOpened, ClientCloses, Calm
<1>3. CASE ClientFails
  <2>1. CalmWire /\ CalmQueue
    BY <1>3, SameIsCalm, ControlIsCalm DEF ClientFails, Kinds
  <2> QED
    BY <1>3, <2>1, SMTT(30) DEF ClientFails, Calm, Live, TypeOK, Holding
<1>4. CASE ClientEof
  <2>1. CalmWire /\ CalmQueue
    BY <1>4, SameIsCalm, ControlIsCalm DEF ClientEof, Kinds
  <2>2. \A m \in Nodes : Live(m)' => Live(m)
    BY <1>4, ScheduleLive DEF ClientEof
  <2> QED
    BY <1>4, <2>1, <2>2 DEF ClientEof, Calm
<1>5. CASE ClientClosed
  BY <1>5, SameIsCalm DEF ClientClosed, Calm, Live, TypeOK, BeginInv, ClosedLeft
<1> QED
  BY <1>1, <1>2, <1>3, <1>4, <1>5 DEF Client

LEMMA OwnerIsCalm == ASSUME TypeOK, TypeOK', BeginInv, Owner PROVE Calm
<1> USE DEF Nodes, linkVars, sendVars, recvVars, tableVars, endVars
<1>1. CASE SpawnOk
  <2>1. CalmWire /\ CalmQueue
    BY <1>1, SameIsCalm, ControlIsCalm DEF SpawnOk, Kinds
  <2> QED
    BY <1>1, <2>1 DEF SpawnOk, Calm, Live, TypeOK, Holding
<1>2. CASE SpawnFails
  <2>1. CalmWire /\ CalmQueue
    BY <1>2, SameIsCalm, ControlIsCalm DEF SpawnFails, Kinds
  <2> QED
    BY <1>2, <2>1 DEF SpawnFails, Calm, Live, TypeOK
<1>3. CASE ProcExit \/ ProcStopped
  BY <1>3, SameIsCalm DEF ProcExit, ProcStopped, Exit, Calm, Live
<1>4. CASE WaitDone
  <2>1. CalmWire /\ CalmQueue
    BY <1>4, SameIsCalm, ControlIsCalm DEF WaitDone, Kinds
  <2>2. \A m \in Nodes : Live(m)' => Live(m)
    BY <1>4, ScheduleLive DEF WaitDone
  <2> QED
    BY <1>4, <2>1, <2>2 DEF WaitDone, Calm
<1> QED
  BY <1>1, <1>2, <1>3, <1>4 DEF Owner

LEMMA CloseIsCalm == ASSUME TypeOK, TypeOK', NEW n \in Nodes, Close(n) PROVE Calm
<1> USE DEF Live, Nodes, linkVars, sendVars, recvVars, tableVars, endVars
<1>1. ASSUME NEW why \in {"local", "remote", "link"}, CloseBegin(n, why) PROVE Calm
  <2>1. CASE ~tbl[n]
    BY <1>1, <2>1, SameIsCalm DEF CloseBegin, Calm, TypeOK
  <2>2. CASE tbl[n]
    BY <1>1, <2>2, SameIsCalm DEF CloseBegin, Calm, TypeOK, Holding
  <2> QED
    BY <2>1, <2>2
<1>2. CASE CloseFinish(n)
  <2>1. CalmWire /\ CalmQueue
    BY <1>2, SameIsCalm, ControlIsCalm DEF CloseFinish, Kinds
  <2> QED
    BY <1>2, <2>1 DEF CloseFinish, Calm
<1> QED
  BY <1>1, <1>2 DEF Close, CloseStarts

\* Both facts of one direction, by a step that is quiet and still in it.
LEMMA OneDirection ==
  ASSUME TypeOK, TypeOK', ChannelInv, NEW m \in Nodes, Quiet(m), Still(m)
  PROVE  Direction(m)' /\ Token(m)'
BY QuietStep, StillStep DEF ChannelInv

LEMMA LinkChannel == ASSUME TypeOK, TypeOK', BeginInv, ChannelInv, Link PROVE ChannelInv'
<1> USE DEF linkVars, sendVars, recvVars, tableVars, endVars
<1>1. CASE LinkDrop
  <2> SUFFICES ASSUME NEW m \in Nodes PROVE Quiet(m) /\ Still(m)
    BY OneDirection DEF ChannelInv
  <2>1. \A k \in Nodes : Loses(wire[k], wire'[k]) /\ \A kind : Fewer(wire[k], wire'[k], kind)
    <3> SUFFICES ASSUME NEW k \in Nodes
                 PROVE  Loses(wire[k], wire'[k]) /\ \A kind : Fewer(wire[k], wire'[k], kind)
      OBVIOUS
    <3>1. wire[k] \in Seq(Frame) /\ wire'[k] \in Seq(Frame)
      BY DEF TypeOK
    <3> QED
      BY <1>1, <3>1, DropLoses, DropFacts, FewerFacts
  <2>2. Peer(m) \in Nodes /\ Fewer(inq[Peer(m)], inq[Peer(m)], "data")
    BY PeerType, FewerFacts DEF TypeOK
  <2>3. Quiet(m)
    BY <1>1, <2>1, <2>2 DEF LinkDrop, Quiet, Live
  <2>4. Still(m)
    BY <1>1, <2>1, <2>2 DEF LinkDrop, Still, Live
  <2> QED
    BY <2>3, <2>4
<1>2. ASSUME NEW n \in Nodes, LinkLost(n) PROVE ChannelInv'
  <2>1. CalmWire /\ CalmQueue
    BY <1>2, SameIsCalm DEF LinkLost
  <2>2. \A m \in Nodes : Live(m)' => Live(m)
    BY <1>2, ScheduleLive DEF LinkLost
  <2>3. Calm
    BY <1>2, <2>1, <2>2 DEF LinkLost, Calm
  <2> QED
    BY <2>3, CalmStep
<1>3. CASE LinkUp
  <2> SUFFICES ASSUME NEW m \in Nodes PROVE Quiet(m) /\ Still(m)
    BY OneDirection DEF ChannelInv
  <2>1. /\ Peer(m) \in Nodes /\ m \in Nodes /\ UNCHANGED <<wire, sendVars, recvVars, tableVars, endVars>>
        /\ ~ready[Peer(m)] /\ "link" \notin closer[Peer(m)]
    BY <1>3, PeerType DEF LinkUp
  <2>2. CalmWire /\ CalmQueue
    BY <2>1, SameIsCalm
  <2>3. tbl[Peer(m)] => sent[m] = 0
    <3>1. tbl[Peer(m)] => Peer(m) = "opener" /\ open = "none"
      BY <2>1 DEF BeginInv, LinkEnds
    <3>2. open = "none" => SenderIdle("owner")
      BY DEF BeginInv, PumpsWait
    <3>3. Peer(m) = "opener" => m = "owner"
      BY DEF Nodes, Peer
    <3> QED
      BY <3>1, <3>2, <3>3 DEF SenderIdle
  <2>4. Quiet(m)
    BY <2>1, <2>2, <2>3 DEF Quiet, CalmWire, CalmQueue, Keeps, Live
  <2>5. Still(m)
    BY <2>1, <2>2 DEF Still, CalmWire, CalmQueue, Live
  <2> QED
    BY <2>4, <2>5
<1> QED
  BY <1>1, <1>2, <1>3 DEF Link

\* Nothing is on its way at an end that has just registered the stream.
LEMMA ClientOpenChannel ==
  ASSUME TypeOK, TypeOK', BeginInv, ChannelInv, ClientOpen PROVE ChannelInv'
<1> USE DEF linkVars, sendVars, recvVars, tableVars, endVars
<1>1. CalmWire /\ CalmQueue
  BY SameIsCalm, ControlIsCalm DEF ClientOpen, Kinds, Nodes
<1>2. /\ open = "none" /\ wire["owner"] = <<>> /\ wire["opener"] = <<>>
      /\ inq["owner"] = <<>> /\ rx["owner"] = "off" /\ ~tbl["owner"]
      /\ SenderIdle("opener") /\ SenderIdle("owner")
  BY DEF ClientOpen, BeginInv, NotBegun, NotOpen, PumpsWait
<1>3. \A n \in Nodes : Live(n)' => Live(n) \/ n = "opener"
  BY DEF ClientOpen, Live, TypeOK
<1>4. Peer("opener") = "owner" /\ Peer("owner") = "opener" /\ Nodes = {"opener", "owner"}
  BY DEF Peer, Nodes
<1>5. ~OnItsWay("opener")'
  <2>1. Sends("opener", Control("open")) \/ SendRaises("opener")
    BY DEF ClientOpen
  <2>2. ~Has(wire'["owner"], "data") /\ ~Has(wire'["opener"], "data_ok")
    BY <1>1, <1>2, <1>4, SameFacts DEF CalmWire, Fewer
  <2>3. rx'["owner"] = "off" /\ inq' = inq
    BY <1>2, <1>4 DEF ClientOpen, TypeOK
  <2> QED
    BY <1>2, <1>4, <2>2, <2>3, SameFacts DEF OnItsWay, Holding
<1>6. ~Live("owner")'
  BY <1>2 DEF ClientOpen, Live, TypeOK, Nodes
<1>7. Quiet("opener") /\ Quiet("owner")
  <2>1. tbl'["owner"] = FALSE
    BY <1>2, <1>4 DEF ClientOpen, TypeOK
  <2>2. UNCHANGED <<conn, sent, outSeq, inSeq, ack, inq>>
    BY DEF ClientOpen
  <2>3. sent["owner"] = 0
    BY <1>2 DEF SenderIdle
  <2> QED
    BY <1>1, <1>2, <1>3, <1>4, <1>6, <2>1, <2>2, <2>3 DEF Quiet, CalmWire, CalmQueue, Keeps
<1>8. Still("opener") /\ Still("owner")
  BY <1>5, <1>6 DEF Still
<1> QED
  BY <1>4, <1>7, <1>8, OneDirection DEF ChannelInv

\* _send_stream_data of the pump or of the consumer that refuses a chunk.
LEMMA DataSendStep ==
  ASSUME TypeOK, TypeOK', StopAndWait, BeginInv, ChannelInv, NEW n \in Nodes,
         ack[n] = "none", sent' = [sent EXCEPT ![n] = @ + 1],
         \/ /\ Sends(n, Data(outSeq[n], sent[n] + 1))
            /\ ack' = [ack EXCEPT ![n] = "wait"] /\ UNCHANGED closer
         \/ SendRaises(n) /\ Schedule(n, "local") /\ UNCHANGED ack,
         UNCHANGED <<linkVars, outSeq, inq, inSeq, rxSeq, got, tbl>>,
         \A m \in Nodes : rx'[m] \in Holding => rx[m] \in Holding
  PROVE  ChannelInv'
<1> DEFINE p == Peer(n)  f == Data(outSeq[n], sent[n] + 1)
<1> USE DEF linkVars
<1>1. /\ p \in Nodes /\ p # n /\ Peer(p) = n /\ Nodes = {n, p}
      /\ f \in Frame /\ f.type = "data" /\ f.seq = outSeq[n] /\ f.val = sent[n] + 1
      /\ outSeq[n] \in Nat /\ sent[n] \in Nat /\ sent[n] + 1 \in Nat /\ inSeq[p] \in Nat
      /\ wire[n] \in Seq(Frame) /\ wire[p] \in Seq(Frame) /\ inq[n] \in Seq(Frame) /\ inq[p] \in Seq(Frame)
  <2>1. outSeq[n] \in Nat /\ sent[n] \in Nat /\ sent[n] + 1 \in Nat
    BY DEF TypeOK
  <2>2. f \in Frame /\ f.type = "data" /\ f.seq = outSeq[n] /\ f.val = sent[n] + 1
    BY <2>1, FrameType DEF Data
  <2>3. p \in Nodes /\ p # n /\ Peer(p) = n /\ Nodes = {n, p}
    BY DEF Peer, Nodes
  <2> QED
    BY <2>1, <2>2, <2>3 DEF TypeOK
<1>2. /\ sent'[n] = sent[n] + 1 /\ sent'[p] = sent[p] /\ outSeq' = outSeq /\ inSeq' = inSeq
      /\ ack'[p] = ack[p] /\ inq' = inq /\ tbl' = tbl /\ conn' = conn /\ rxSeq' = rxSeq
  BY <1>1, SMTT(20) DEF TypeOK
<1>3. \A m \in Nodes : Live(m)' => Live(m)
  BY ScheduleLive
<1>4. /\ wire'[n] = wire[n]
      /\ wire'[p] = wire[p] \/ wire'[p] = Append(wire[p], f)
      /\ conn = "up" => wire'[p] = Append(wire[p], f) /\ ack'[n] = "wait"
      /\ wire'[p] = Append(wire[p], f) /\ wire'[p] # wire[p] => conn = "up"
      /\ (ack'[n] # "wait" => ~Live(n)') /\ ack'[n] \in {"none", "wait"}
  <2>1. CASE Sends(n, f) /\ ack' = [ack EXCEPT ![n] = "wait"]
    <3>1. ack'[n] = "wait"
      BY <2>1 DEF TypeOK
    <3>2. wire'[n] = wire[n] /\ wire'[p] = IF conn = "up" THEN Append(wire[p], f) ELSE wire[p]
      BY <1>1, <2>1 DEF Sends, TypeOK
    <3> QED
      BY <1>3, <3>1, <3>2
  <2>2. CASE SendRaises(n) /\ Schedule(n, "local") /\ UNCHANGED ack
    <3>1. conn # "up"
      BY <2>2 DEF SendRaises, LinkIsDown, DrainRaises, BeginInv, LinkEnds
    <3>2. ~Live(n)' /\ wire' = wire /\ ack'[n] = "none"
      BY <2>2, ScheduleLive DEF SendRaises
    <3> QED
      BY <3>1, <3>2
  <2> QED
    BY <2>1, <2>2
<1> HIDE DEF f
<1>5. Direction(n)'
  <2>1. Direction(n)
    BY DEF ChannelInv
  <2>2. Numbers(n)'
    <3>1. Numbered(wire'[p], sent[n] + 1)
      <4>1. Numbered(wire[p], sent[n] + 1)
        BY <1>1, <2>1, NoData DEF Direction, Numbers
      <4>2. Numbered(Append(wire[p], f), sent[n] + 1)
        <5>1. f.seq < f.val /\ f.val <= sent[n] + 1
          BY <1>1, <2>1 DEF Direction, Numbers
        <5> QED
          BY <1>1, <4>1, <5>1, AppendKeeps
      <4> QED
        BY <1>4, <4>1, <4>2
    <3>2. Exact(inq[p], sent[n] + 1)
      BY <1>1, <2>1, NoData DEF Direction, Numbers
    <3>3. outSeq[n] <= sent[n] /\ inSeq[p] <= sent[n]
      BY <2>1 DEF Direction, Numbers
    <3> QED
      BY <1>1, <1>2, <1>4, <3>1, <3>2, <3>3 DEF Numbers
  <2>3. Spent(n)'
    <3>2. DataAt(Append(wire[p], f), f.seq)
      BY <1>1, AppendKeeps
    <3>1. conn = "up" => DataAt(wire'[p], outSeq[n])
      BY <1>1, <1>4, <3>2
    <3> QED
      BY <1>2, <3>1 DEF Spent
  <2>4. Shadowed(n)'
    <3> SUFFICES ASSUME tbl[p] PROVE Shadow(wire'[p], inSeq[p])
      BY <1>2 DEF Shadowed
    <3>1. Shadow(wire[p], inSeq[p])
      BY <2>1 DEF Direction, Shadowed
    <3>2. CASE wire'[p] # wire[p]
      <4>1. conn = "up" /\ wire'[p] = Append(wire[p], f)
        BY <1>4, <3>2
      <4>2. f.val = f.seq + 1 \/ f.seq < inSeq[p] \/ DataAt(wire[p], f.seq)
        BY <1>1, <2>1, <4>1 DEF Direction, Spent, Numbers
      <4> QED
        BY <1>1, <3>1, <4>1, <4>2, AppendKeeps
    <3> QED
      BY <3>1, <3>2
  <2>5. InStep(n)'
    <3>1. Live(n)' => sent[n] = outSeq[n] /\ ack'[n] = "wait"
      BY <1>3, <1>4, <2>1 DEF Direction, InStep
    <3> QED
      BY <1>2, <3>1 DEF InStep
  <2> QED
    BY <2>2, <2>3, <2>4, <2>5 DEF Direction
<1>6. Token(n)'
  <2> SUFFICES ASSUME Live(n)' PROVE Token(n)'
    BY DEF Token
  <2>1. Live(n) /\ ack'[n] = "wait" /\ ~OnItsWay(n)
    BY <1>3, <1>4 DEF ChannelInv, Token
  <2>2. ~Has(wire[p], "data") /\ ~Has(inq[p], "data") /\ rx[p] \notin Holding /\ ~Has(wire[n], "data_ok")
    BY <2>1 DEF OnItsWay
  <2>3. ~Has(inq'[p], "data") /\ rx'[p] \notin Holding /\ ~Has(wire'[n], "data_ok")
    BY <1>1, <1>2, <1>4, <2>2
  <2>4. inSeq[p] = outSeq[n]
    <3>1. sent[n] = outSeq[n] /\ inSeq[p] <= sent[n]
      BY <2>1 DEF ChannelInv, Direction, InStep, Numbers
    <3>2. outSeq[n] <= inSeq[p]
      <4>1. Len(got[p]) \in Nat
        BY <1>1 DEF TypeOK
      <4> QED
        BY <1>1, <4>1 DEF StopAndWait, WindowOne
    <3> QED
      BY <1>1, <3>1, <3>2
  <2>5. Lone(wire'[p], "data") /\ Only(wire'[p], "data", outSeq[n])
    <3>1. Lone(wire[p], "data") /\ Only(wire[p], "data", outSeq[n])
      BY <2>2, NoneOfIt
    <3>2. Lone(Append(wire[p], f), "data")
      BY <1>1, <2>2, <3>1, AppendFacts
    <3>3. Only(Append(wire[p], f), "data", outSeq[n])
      <4>1. /\ DOMAIN Append(wire[p], f) = 1..(Len(wire[p]) + 1) /\ DOMAIN wire[p] = 1..Len(wire[p])
            /\ Len(wire[p]) \in Nat /\ Append(wire[p], f)[Len(wire[p]) + 1] = f
            /\ \A i \in 1..Len(wire[p]) : Append(wire[p], f)[i] = wire[p][i]
        BY <1>1
      <4> QED
        BY <1>1, <3>1, <4>1 DEF Only
    <3> QED
      BY <1>4, <3>1, <3>2, <3>3
  <2> QED
    BY <1>2, <2>1, <2>3, <2>4, <2>5, NoneOfIt DEF Token, OnItsWay
<1>7. Quiet(p)
  <2>1. Keeps(wire[n], wire'[n]) /\ \A k \in Nat : Exact(inq[n], k) => Exact(inq'[n], k)
    BY <1>1, <1>2, <1>4, NoData
  <2> QED
    BY <1>1, <1>2, <1>3, <2>1 DEF Quiet, Keeps
<1>8. Still(p)
  <2>1. Fewer(wire[n], wire'[n], "data") /\ Fewer(inq[n], inq'[n], "data")
    BY <1>1, <1>2, <1>4, FewerFacts
  <2>2. Fewer(wire[p], wire'[p], "data_ok")
    BY <1>1, <1>4, FewerFacts
  <2> QED
    BY <1>1, <1>2, <1>3, <2>1, <2>2 DEF Still
<1> QED
  BY <1>1, <1>5, <1>6, <1>7, <1>8, OneDirection DEF ChannelInv

\* The sender counts its acknowledgement.
LEMMA CountedStep ==
  ASSUME TypeOK, TypeOK', ChannelInv, NEW n \in Nodes,
         ack[n] = "set", ack' = [ack EXCEPT ![n] = "none"],
         outSeq' = [outSeq EXCEPT ![n] = @ + 1],
         UNCHANGED <<linkVars, wire, sent, inq, inSeq, rxSeq, got, tbl, closer>>,
         \A m \in Nodes : rx'[m] \in Holding => rx[m] \in Holding
  PROVE  ChannelInv'
<1> DEFINE p == Peer(n)
<1> USE DEF linkVars
<1>1. /\ p \in Nodes /\ p # n /\ Peer(p) = n /\ Nodes = {n, p}
      /\ outSeq[n] \in Nat /\ sent[n] \in Nat /\ inSeq[p] \in Nat
  BY SMTT(30) DEF Peer, Nodes, TypeOK
<1>2. /\ outSeq'[n] = outSeq[n] + 1 /\ outSeq'[p] = outSeq[p] /\ ack'[n] = "none" /\ ack'[p] = ack[p]
      /\ sent[n] = outSeq[n] + 1
  BY <1>1 DEF TypeOK, ChannelInv, Direction, Numbers
<1>3. CalmWire /\ CalmQueue
  BY SameIsCalm
<1>4. \A m \in Nodes : Live(m)' <=> Live(m)
  BY DEF Live
<1>5. Direction(n)'
  <2>1. Direction(n)
    BY DEF ChannelInv
  <2>2. Numbers(n)' /\ Spent(n)' /\ Shadowed(n)' /\ InStep(n)'
    BY <1>1, <1>2, <1>4, <2>1 DEF Direction, Numbers, Spent, Shadowed, InStep
  <2> QED
    BY <2>2 DEF Direction
<1>6. Still(n)
  BY <1>1, <1>4 DEF Still, OnItsWay, ChannelInv, Token
<1>7. Quiet(p) /\ Still(p)
  <2>1. Quiet(p)
    BY <1>1, <1>2, <1>3, <1>4 DEF Quiet, CalmWire, CalmQueue, Keeps
  <2>2. Still(p)
    BY <1>1, <1>2, <1>3, <1>4 DEF Still, CalmWire, CalmQueue
  <2> QED
    BY <2>1, <2>2
<1>8. Token(n)'
  BY <1>6, StillStep DEF ChannelInv
<1> QED
  BY <1>1, <1>5, <1>7, <1>8, OneDirection DEF ChannelInv

LEMMA PumpChannel ==
  ASSUME TypeOK, TypeOK', StopAndWait, BeginInv, ChannelInv, NEW n \in Nodes, Pump(n)
  PROVE  ChannelInv'
<1> USE DEF linkVars, sendVars, recvVars, tableVars, endVars
<1>1. CASE PumpSend(n)
  BY <1>1, DataSendStep DEF PumpSend
<1>2. CASE PumpAcked(n)
  BY <1>2, CountedStep DEF PumpAcked
<1>3. CASE PumpRefused(n) \/ PumpEnd(n)
  <2>1. Calm
    BY <1>3, SameIsCalm DEF PumpRefused, PumpEnd, Calm, Live
  <2> QED
    BY <2>1, CalmStep
<1>4. CASE PumpFailed(n)
  <2>1. (\A m \in Nodes : Live(m)' => Live(m)) /\ ~Live(n)'
    BY <1>4, ScheduleLive DEF PumpFailed
  <2>2. \A m \in Nodes : (m # n => ack'[m] = ack[m]) /\ (ack'[m] = ack[m] \/ ack'[m] = "none")
    BY <1>4 DEF PumpFailed, TypeOK
  <2>3. Calm
    BY <1>4, <2>1, <2>2, SameIsCalm DEF PumpFailed, Calm
  <2> QED
    BY <2>3, CalmStep
<1> QED
  BY <1>1, <1>2, <1>3, <1>4 DEF Pump

\* Taking a chunk from the queue, to write it.
LEMMA TakeChannel ==
  ASSUME TypeOK, TypeOK', StopAndWait, ChannelInv, NEW n \in Nodes, TakesData(n),
         rx' = [rx EXCEPT ![n] = "drain"] \/ rx' = [rx EXCEPT ![n] = "refuse"], UNCHANGED closer
  PROVE  ChannelInv'
<1> DEFINE p == Peer(n)
<1> USE DEF linkVars, sendVars, recvVars, tableVars, endVars
<1>1. /\ p \in Nodes /\ p # n /\ Peer(p) = n /\ Nodes = {n, p}
      /\ inq[n] \in Seq(Frame) /\ inq[p] \in Seq(Frame) /\ inq[n] # <<>> /\ Head(inq[n]).type = "data"
      /\ inq'[n] = Tail(inq[n]) /\ inq'[p] = inq[p] /\ rxSeq'[n] = Head(inq[n]).seq /\ rxSeq'[p] = rxSeq[p]
      /\ rx'[p] = rx[p] /\ Tail(inq[n]) \in Seq(Frame)
  <2>1. p \in Nodes /\ p # n /\ Peer(p) = n /\ Nodes = {n, p}
    BY DEF Peer, Nodes
  <2>2. inq[n] \in Seq(Frame) /\ inq[p] \in Seq(Frame) /\ inq[n] # <<>> /\ Head(inq[n]).type = "data"
    BY <2>1 DEF TypeOK, TakesData, HeadKind
  <2>3. inq'[n] = Tail(inq[n]) /\ inq'[p] = inq[p] /\ rxSeq'[n] = Head(inq[n]).seq /\ rxSeq'[p] = rxSeq[p]
    BY <2>1 DEF TypeOK, TakesData
  <2>4. rx'[p] = rx[p]
    BY <2>1, ZenonT(30) DEF TypeOK
  <2>5. Tail(inq[n]) \in Seq(Frame)
    BY <2>2
  <2> QED
    BY <2>1, <2>2, <2>3, <2>4, <2>5
<1>2. UNCHANGED <<conn, wire, sent, outSeq, ack, inSeq, tbl, closer>> /\ \A m \in Nodes : Live(m)' <=> Live(m)
  BY DEF TakesData, Live
<1>3. CalmWire
  BY <1>2, SameIsCalm
<1>4. \A m \in Nodes : \A k \in Nat : Exact(inq[m], k) => Exact(inq'[m], k)
  BY <1>1, TailKeeps
<1>5. Quiet(n) /\ Quiet(p)
  BY <1>1, <1>2, <1>3, <1>4 DEF Quiet, CalmWire, Keeps
<1>6. Still(n)
  <2>1. Fewer(inq[p], inq'[p], "data")
    BY <1>1, FewerFacts
  <2> QED
    BY <1>1, <1>2, <1>3, <2>1 DEF Still, CalmWire
<1>7. Token(p)'
  <2> SUFFICES ASSUME Live(p)' PROVE Token(p)'
    BY DEF Token
  <2>1. Has(inq[n], "data") /\ 1 \in DOMAIN inq[n] /\ inq[n][1] = Head(inq[n])
    BY <1>1, HeadFacts
  <2>2. /\ ack[p] = "wait" /\ ~Has(wire[n], "data") /\ ~Has(wire[p], "data_ok")
        /\ Only(inq[n], "data", outSeq[p])
    BY <1>1, <1>2, <2>1 DEF ChannelInv, Token, OnItsWay
  <2>3. Head(inq[n]).seq = outSeq[p]
    BY <1>1, <2>1, <2>2 DEF Only
  <2>4. ~Has(inq'[n], "data")
    <3>1. Lone(inq[n], "data")
      BY DEF StopAndWait, QueueNext, Lone
    <3> QED
      BY <1>1, <3>1, HeadFacts
  <2> QED
    BY <1>1, <1>2, <2>2, <2>3, <2>4, NoneOfIt DEF Token, OnItsWay
<1> QED
  BY <1>1, <1>5, <1>6, <1>7, QuietStep, StillStep DEF ChannelInv

\* The acknowledgement follows the chunk that drained.
LEMMA AckChannel ==
  ASSUME TypeOK, TypeOK', ChannelInv, NEW n \in Nodes, AckData(n) PROVE ChannelInv'
<1> DEFINE p == Peer(n)  f == DataOk(rxSeq[n])
<1> USE DEF linkVars, sendVars, recvVars, tableVars, endVars
<1>1. /\ p \in Nodes /\ p # n /\ Peer(p) = n /\ Nodes = {n, p}
      /\ f \in Frame /\ f.type = "data_ok" /\ f.seq = rxSeq[n]
      /\ wire[n] \in Seq(Frame) /\ wire[p] \in Seq(Frame)
      /\ rx[n] = "drain" /\ rx'[p] = rx[p] /\ rx'[n] \in {"get", "dead"}
      /\ UNCHANGED <<conn, sent, outSeq, ack, inq, inSeq, rxSeq, tbl>>
  <2>2. f \in Frame /\ f.type = "data_ok" /\ f.seq = rxSeq[n]
    BY FrameType DEF DataOk, TypeOK
  <2>3. p \in Nodes /\ p # n /\ Peer(p) = n /\ Nodes = {n, p}
    BY DEF Peer, Nodes
  <2> QED
    BY <2>2, <2>3, SMTT(30) DEF TypeOK, AckData
<1>2. CASE SendRaises(n) /\ Schedule(n, "local")
  <2>1. Calm
    BY <1>1, <1>2, SameIsCalm, ScheduleLive DEF Calm, SendRaises, Holding
  <2> QED
    BY <2>1, CalmStep
<1>3. CASE Sends(n, f) /\ UNCHANGED closer
  <2> HIDE DEF f
  <2>1. /\ wire'[n] = wire[n] /\ (wire'[p] = wire[p] \/ wire'[p] = Append(wire[p], f))
        /\ \A m \in Nodes : Live(m)' <=> Live(m)
    <3>1. wire'[n] = wire[n] /\ (wire'[p] = wire[p] \/ wire'[p] = Append(wire[p], f))
      BY <1>1, <1>3, SendFacts
    <3> QED
      BY <1>1, <1>3, <3>1 DEF Live
  <2>2. /\ Keeps(wire[n], wire'[n]) /\ Keeps(wire[p], wire'[p]) /\ CalmQueue
        /\ \A kind : Fewer(wire[n], wire'[n], kind)
        /\ Fewer(wire[p], wire'[p], "data")
    <3>1. Keeps(wire[p], wire[p]) /\ Keeps(wire[p], Append(wire[p], f)) /\ Keeps(wire[n], wire[n])
      BY <1>1, AppendKeeps, NoData
    <3>2. /\ Fewer(wire[p], wire[p], "data") /\ Fewer(wire[p], Append(wire[p], f), "data")
          /\ \A kind : Fewer(wire[n], wire[n], kind)
      BY <1>1, FewerFacts
    <3>3. CalmQueue
      BY <1>1, SameIsCalm
    <3> QED
      BY <2>1, <3>1, <3>2, <3>3
  <2>3. Quiet(n) /\ Quiet(p)
    BY <1>1, <2>1, <2>2 DEF Quiet, CalmQueue, Keeps
  <2>4. Still(n)
    BY <1>1, <2>1, <2>2 DEF Still, CalmQueue
  <2>5. Token(p)'
    <3> SUFFICES ASSUME Live(p)' PROVE Token(p)'
      BY DEF Token
    <3>1. /\ ack[p] = "wait" /\ ~Has(wire[n], "data") /\ ~Has(inq[n], "data") /\ ~Has(wire[p], "data_ok")
          /\ rxSeq[n] = outSeq[p]
      BY <1>1, <2>1 DEF ChannelInv, Token, OnItsWay, Holding
    <3>2. Lone(wire'[p], "data_ok") /\ Only(wire'[p], "data_ok", outSeq[p])
      <4>1. Lone(wire[p], "data_ok") /\ Only(wire[p], "data_ok", outSeq[p])
        BY <3>1, NoneOfIt
      <4>2. Lone(Append(wire[p], f), "data_ok")
        BY <1>1, <3>1, <4>1, AppendFacts
      <4>3. Only(Append(wire[p], f), "data_ok", outSeq[p])
        <5>1. /\ DOMAIN Append(wire[p], f) = 1..(Len(wire[p]) + 1) /\ DOMAIN wire[p] = 1..Len(wire[p])
              /\ Len(wire[p]) \in Nat /\ Append(wire[p], f)[Len(wire[p]) + 1] = f
              /\ \A i \in 1..Len(wire[p]) : Append(wire[p], f)[i] = wire[p][i]
          BY <1>1
        <5> QED
          BY <1>1, <3>1, <4>1, <5>1 DEF Only
      <4> QED
        BY <2>1, <4>1, <4>2, <4>3
    <3>3. rx'[n] \notin Holding
      BY <1>1 DEF Holding
    <3> QED
      BY <1>1, <2>1, <3>1, <3>2, <3>3, NoneOfIt DEF Token, OnItsWay
  <2> QED
    BY <1>1, <2>3, <2>4, <2>5, QuietStep, StillStep DEF ChannelInv
<1> QED
  BY <1>2, <1>3 DEF AckData

LEMMA ConsumeChannel ==
  ASSUME TypeOK, TypeOK', StopAndWait, BeginInv, ChannelInv, NEW n \in Nodes, Consume(n)
  PROVE  ChannelInv'
<1> USE DEF linkVars, sendVars, recvVars, tableVars, endVars
<1>1. ASSUME inq[n] # <<>>, inq' = [inq EXCEPT ![n] = Tail(@)] PROVE CalmQueue
  <2> SUFFICES ASSUME NEW m \in Nodes
               PROVE  /\ \A k \in Nat : Exact(inq[m], k) => Exact(inq'[m], k)
                      /\ Fewer(inq[m], inq'[m], "data")
    BY DEF CalmQueue
  <2>1. inq[m] \in Seq(Frame) /\ inq[n] \in Seq(Frame) /\ inq'[m] = IF m = n THEN Tail(inq[n]) ELSE inq[m]
    BY <1>1 DEF TypeOK
  <2>2. Rest(Tail(inq[n]), inq[n]) /\ Tail(inq[n]) \in Seq(Frame)
    BY <1>1, <2>1, HeadFacts
  <2> QED
    BY <1>1, <2>1, <2>2, TailKeeps, FewerFacts
<1>2. CASE TakeEof(n)
  <2>1. CalmWire /\ CalmQueue
    BY <1>1, <1>2, SameIsCalm DEF TakeEof
  <2>2. Calm
    BY <1>2, <2>1 DEF TakeEof, Calm, TypeOK, Holding, Live
  <2> QED
    BY <2>2, CalmStep
<1>3. CASE TakeData(n) \/ TakeRefused(n)
  BY <1>3, TakeChannel DEF TakeData, TakeRefused
<1>4. CASE TakeBroken(n)
  <2>1. CalmWire /\ CalmQueue
    BY <1>1, <1>4, SameIsCalm DEF TakeBroken, TakesData
  <2>2. \A m \in Nodes : Live(m)' => Live(m)
    BY <1>4, ScheduleLive DEF TakeBroken, TakesData
  <2>3. \A m \in Nodes : rx'[m] \in Holding => rx[m] \in Holding /\ rxSeq'[m] = rxSeq[m]
    BY <1>4 DEF TakeBroken, TakesData, TypeOK, Holding
  <2>4. Calm
    BY <1>4, <2>1, <2>2, <2>3 DEF TakeBroken, TakesData, Calm
  <2> QED
    BY <2>4, CalmStep
<1>5. CASE AckData(n)
  BY <1>5, AckChannel
<1>6. CASE RefuseSend(n)
  <2>1. \A m \in Nodes : rx'[m] \in Holding => rx[m] \in Holding
    BY <1>6, SMTT(20) DEF RefuseSend, TypeOK, Holding
  <2> QED
    BY <1>6, <2>1, DataSendStep DEF RefuseSend
<1>7. CASE RefuseRefused(n)
  <2>1. \A m \in Nodes : rx'[m] \in Holding => rx[m] \in Holding /\ rxSeq'[m] = rxSeq[m]
    BY <1>7 DEF RefuseRefused, TypeOK, Holding
  <2>2. CalmWire /\ CalmQueue
    BY <1>7, SameIsCalm DEF RefuseRefused
  <2>3. Calm
    BY <1>7, <2>1, <2>2 DEF RefuseRefused, Calm, Live
  <2> QED
    BY <2>3, CalmStep
<1>8. CASE RefuseAcked(n)
  <2>1. \A m \in Nodes : rx'[m] \in Holding => rx[m] \in Holding
    BY <1>8 DEF RefuseAcked, TypeOK, Holding
  <2> QED
    BY <1>8, <2>1, CountedStep DEF RefuseAcked
<1>9. CASE RefuseFailed(n)
  <2>1. (\A m \in Nodes : Live(m)' => Live(m)) /\ ~Live(n)'
    BY <1>9, ScheduleLive DEF RefuseFailed
  <2>2. \A m \in Nodes : /\ (m # n => ack'[m] = ack[m]) /\ (ack'[m] = ack[m] \/ ack'[m] = "none")
                         /\ rx'[m] \in Holding => rx[m] \in Holding /\ rxSeq'[m] = rxSeq[m]
    BY <1>9 DEF RefuseFailed, TypeOK, Holding
  <2>3. Calm
    BY <1>9, <2>1, <2>2, SameIsCalm DEF RefuseFailed, Calm
  <2> QED
    BY <2>3, CalmStep
<1> QED
  BY <1>2, <1>3, <1>4, <1>5, <1>6, <1>7, <1>8, <1>9 DEF Consume

\* The expected chunk finds an empty queue, so a bound of the queue never
\* refuses it.
LEMMA RoomForExpected ==
  ASSUME TypeOK, StopAndWait, BeginInv, NEW n \in Nodes, Arrives(n, "data"), Head(wire[n]).seq = inSeq[n]
  PROVE  inq[n] = <<>> /\ DataAccepted(n)
<1> DEFINE p == Peer(n)
<1>1. /\ p \in Nodes /\ Peer(p) = n /\ wire[n] \in Seq(Frame) /\ wire[n] # <<>> /\ Head(wire[n]).type = "data"
      /\ inq[n] \in Seq(Frame) /\ Len(got[n]) \in Nat /\ outSeq[p] \in Nat /\ inSeq[n] \in Nat
  BY PeerType DEF TypeOK, Arrives
<1>2. 1 \in DOMAIN wire[n] /\ wire[n][1] = Head(wire[n]) /\ Has(wire[n], "data")
  BY <1>1, HeadFacts
<1>3. inSeq[n] <= Len(got[n])
  <2>1. Head(wire[n]).seq <= outSeq[p]
    BY <1>1, <1>2 DEF StopAndWait, DataBehind, InFlight
  <2>2. outSeq[p] <= Len(got[n])
    BY <1>1 DEF StopAndWait, WindowOne
  <2> QED
    BY <1>1, <2>1, <2>2
<1>4. ~Has(inq[n], "data")
  <2> SUFFICES ASSUME NEW i \in DOMAIN inq[n], inq[n][i].type = "data" PROVE FALSE
    BY DEF Has
  <2>1. inSeq[n] = Len(got[n]) + 1
    BY DEF StopAndWait, QueueNext
  <2> QED
    BY <1>1, <1>3, <2>1
<1>5. ~Has(inq[n], "eof")
  BY <1>2 DEF BeginInv, EofEnds, Nodes
<1>6. inq[n] = <<>>
  <2> SUFFICES ASSUME inq[n] # <<>> PROVE FALSE
    OBVIOUS
  <2>1. Has(inq[n], Head(inq[n]).type) /\ Head(inq[n]).type \in Kinds
    BY <1>1, HeadFacts DEF Frame
  <2>2. Head(inq[n]).type \in {"data", "eof"}
    BY <2>1 DEF BeginInv, EofEnds
  <2> QED
    BY <1>4, <1>5, <2>1, <2>2
<1>7. Len(inq[n]) < InboundLimit
  BY <1>6, ConstantsAssumption
<1> QED
  BY <1>6, <1>7 DEF DataAccepted

\* The sender's direction when a chunk arrives: it is queued, or the stream is
\* closed for it.
LEMMA DataArrives ==
  ASSUME TypeOK, TypeOK', StopAndWait, BeginInv, ChannelInv, NEW n \in Nodes, RecvData(n)
  PROVE  ChannelInv'
<1> DEFINE p == Peer(n)  h == Head(wire[n])
<1> USE DEF linkVars, sendVars, recvVars, tableVars, endVars
<1>1. /\ p \in Nodes /\ p # n /\ Peer(p) = n /\ Nodes = {n, p}
      /\ wire[n] \in Seq(Frame) /\ wire[p] \in Seq(Frame) /\ inq[n] \in Seq(Frame) /\ inq[p] \in Seq(Frame)
      /\ outSeq[p] \in Nat /\ sent[p] \in Nat /\ inSeq[n] \in Nat /\ Len(got[n]) \in Nat
      /\ got \in [Nodes -> Seq(Nat)]
  <2>1. p \in Nodes /\ p # n /\ Peer(p) = n /\ Nodes = {n, p}
    BY DEF Peer, Nodes
  <2> QED
    BY <2>1 DEF TypeOK
<1>2. /\ wire[n] # <<>> /\ h.type = "data" /\ h \in Frame /\ h.seq \in Nat /\ h.val \in Nat
      /\ wire'[n] = Tail(wire[n]) /\ wire'[p] = wire[p] /\ 1 \in DOMAIN wire[n] /\ wire[n][1] = h
      /\ Has(wire[n], "data")
  <2>1. wire[n] # <<>> /\ h.type = "data" /\ wire'[n] = Tail(wire[n]) /\ wire'[p] = wire[p]
    BY <1>1 DEF RecvData, Arrives, Consumed, TypeOK
  <2>2. h \in Frame /\ 1 \in DOMAIN wire[n] /\ wire[n][1] = h /\ Has(wire[n], "data")
    BY <1>1, <2>1, HeadFacts
  <2> QED
    BY <2>1, <2>2 DEF Frame
<1>3. /\ UNCHANGED <<conn, sent, outSeq, ack, tbl, rx, rxSeq>> /\ inq'[p] = inq[p] /\ inSeq'[p] = inSeq[p]
      /\ \A m \in Nodes : Live(m)' => Live(m)
  <2>1. UNCHANGED <<conn, sent, outSeq, ack, tbl, rx, rxSeq>> /\ inq'[p] = inq[p] /\ inSeq'[p] = inSeq[p]
    <3>1. UNCHANGED <<conn, sent, outSeq, ack, tbl, rx, rxSeq>>
      BY DEF RecvData
    <3>2. \/ UNCHANGED <<inq, inSeq>>
          \/ /\ inq' = [inq EXCEPT ![n] = Append(@, Head(wire[n]))]
             /\ inSeq' = [inSeq EXCEPT ![n] = @ + 1]
      BY DEF RecvData
    <3>3. p \in Nodes /\ p # n
      BY <1>1
    <3>4. DOMAIN inq = Nodes /\ DOMAIN inSeq = Nodes
      BY DEF TypeOK
    <3>5. inq'[p] = inq[p] /\ inSeq'[p] = inSeq[p]
      BY <3>2, <3>3, <3>4
    <3> QED
      BY <3>1, <3>5
  <2>2. \A m \in Nodes : Live(m)' => Live(m)
    BY ScheduleLive DEF RecvData
  <2> QED
    BY <2>1, <2>2
<1>4. \A m \in Nodes : \A kind : Fewer(wire[m], wire'[m], kind)
  <2>1. Consumed(n)
    BY DEF RecvData
  <2> QED
    BY <1>2, <2>1, ArrivalFewer
<1>5. Quiet(n) /\ Still(n)
  <2>1. Keeps(wire[p], wire'[p]) /\ Fewer(inq[p], inq'[p], "data")
        /\ \A k \in Nat : Exact(inq[p], k) => Exact(inq'[p], k)
    BY <1>1, <1>2, <1>3, NoData, FewerFacts
  <2> QED
    BY <1>1, <1>3, <1>4, <2>1 DEF Quiet, Still, Keeps
<1>6. h.seq <= outSeq[p] /\ outSeq[p] <= inSeq[n]
  <2>1. h.seq <= outSeq[p]
    BY <1>1, <1>2 DEF StopAndWait, DataBehind, InFlight
  <2>2. outSeq[p] <= inSeq[n]
    BY <1>1 DEF StopAndWait, WindowOne
  <2> QED
    BY <2>1, <2>2
<1>7. /\ Direction(p) /\ outSeq[p] <= sent[p] /\ inSeq[n] <= sent[p]
      /\ Numbered(wire[n], sent[p]) /\ Exact(inq[n], sent[p])
  BY <1>1 DEF ChannelInv, Direction, Numbers
<1>8. Numbered(wire'[n], sent[p])
  BY <1>1, <1>2, <1>7, TailKeeps
<1>9. CASE tbl[n] /\ DataAccepted(n)
  <2>1. /\ inq'[n] = Append(inq[n], h) /\ inSeq'[n] = inSeq[n] + 1 /\ h.seq = inSeq[n] /\ inSeq[n] + 1 \in Nat
        /\ UNCHANGED closer
    BY <1>1, <1>9 DEF RecvData, DataAccepted, TypeOK
  <2>2. h.val = h.seq + 1 /\ h.val <= sent[p]
    <3>1. h.seq < h.val /\ h.val <= sent[p]
      BY <1>2, <1>7 DEF Numbered
    <3>2. Shadow(wire[n], inSeq[n])
      BY <1>1, <1>7, <1>9 DEF Direction, Shadowed
    <3>3. \A j \in DOMAIN wire[n] : ~(j < 1)
      BY <1>1
    <3> QED
      BY <1>2, <2>1, <3>1, <3>2, <3>3 DEF Shadow
  <2>3. Numbers(p)'
    <3>1. Exact(inq'[n], sent[p])
      BY <1>1, <1>2, <1>7, <2>1, <2>2, AppendKeeps
    <3>2. inSeq[n] + 1 <= sent[p]
      BY <1>1, <1>2, <2>1, <2>2
    <3> QED
      BY <1>1, <1>3, <1>7, <1>8, <2>1, <3>1, <3>2 DEF Direction, Numbers
  <2>4. Spent(p)'
    <3>1. outSeq[p] < inSeq[n] + 1
      BY <1>1, <1>6
    <3> QED
      BY <1>1, <1>3, <2>1, <3>1 DEF Spent
  <2>5. Shadowed(p)'
    <3>1. Shadow(wire[n], inSeq[n]) /\ inSeq[n] <= inSeq[n] + 1 /\ h.seq < inSeq[n] + 1
      BY <1>1, <1>7, <1>9, <2>1 DEF Direction, Shadowed
    <3>2. Shadow(wire'[n], inSeq[n] + 1)
      BY <1>1, <1>2, <2>1, <3>1, TailKeeps
    <3> QED
      BY <1>1, <2>1, <3>2 DEF Shadowed
  <2>6. InStep(p)'
    BY <1>1, <1>3, <1>7 DEF Direction, InStep
  <2>7. Token(p)'
    <3> SUFFICES ASSUME Live(p)' PROVE Token(p)'
      BY DEF Token
    <3>1. /\ ack[p] = "wait" /\ ~Has(inq[n], "data") /\ rx[n] \notin Holding /\ ~Has(wire[p], "data_ok")
          /\ Lone(wire[n], "data") /\ Only(wire[n], "data", outSeq[p])
      BY <1>1, <1>2, <1>3 DEF ChannelInv, Token, OnItsWay
    <3>2. ~Has(wire'[n], "data") /\ h.seq = outSeq[p]
      BY <1>1, <1>2, <3>1, HeadFacts DEF Only
    <3>3. Only(inq'[n], "data", outSeq[p])
      <4>1. /\ DOMAIN Append(inq[n], h) = 1..(Len(inq[n]) + 1) /\ DOMAIN inq[n] = 1..Len(inq[n])
            /\ Len(inq[n]) \in Nat /\ Append(inq[n], h)[Len(inq[n]) + 1] = h
            /\ \A i \in 1..Len(inq[n]) : Append(inq[n], h)[i] = inq[n][i]
        BY <1>1, <1>2
      <4>2. Only(inq[n], "data", outSeq[p])
        BY <3>1, NoneOfIt
      <4> QED
        BY <2>1, <3>2, <4>1, <4>2 DEF Only
    <3> QED
      BY <1>1, <1>2, <1>3, <3>1, <3>2, <3>3, NoneOfIt DEF Token, OnItsWay
  <2>8. Direction(p)'
    BY <2>3, <2>4, <2>5, <2>6 DEF Direction
  <2> QED
    BY <1>1, <1>5, <2>7, <2>8, OneDirection DEF ChannelInv
<1>10. CASE ~(tbl[n] /\ DataAccepted(n))
  <2>1. inq' = inq /\ inSeq' = inSeq
    BY <1>10 DEF RecvData
  <2>2. tbl[n] => h.seq < inSeq[n]
    <3>1. tbl[n] => h.seq # inSeq[n]
      BY <1>10, RoomForExpected DEF RecvData
    <3> QED
      BY <1>1, <1>2, <1>6, <3>1, SMTT(20)
  <2>3. Numbers(p)' /\ InStep(p)'
    BY <1>1, <1>3, <1>7, <1>8, <2>1 DEF Direction, Numbers, InStep
  <2>4. Spent(p)'
    <3> SUFFICES ASSUME conn = "up", outSeq[p] < sent[p], tbl[n]
                 PROVE  DataAt(wire'[n], outSeq[p]) \/ outSeq[p] < inSeq[n]
      BY <1>1, <1>3, <2>1 DEF Spent
    <3>1. DataAt(wire[n], outSeq[p]) \/ outSeq[p] < inSeq[n]
      BY <1>1, <1>7 DEF Direction, Spent
    <3>2. h.seq = outSeq[p] => outSeq[p] < inSeq[n]
      BY <2>2
    <3>3. DataAt(wire[n], outSeq[p]) /\ outSeq[p] # h.seq => DataAt(Tail(wire[n]), outSeq[p])
      BY <1>1, <1>2, TailKeeps
    <3> QED
      BY <1>2, <3>1, <3>2, <3>3
  <2>5. Shadowed(p)'
    <3> SUFFICES ASSUME tbl[n] PROVE Shadow(wire'[n], inSeq[n])
      BY <1>1, <1>3, <2>1 DEF Shadowed
    <3>1. Shadow(wire[n], inSeq[n]) /\ inSeq[n] <= inSeq[n] /\ h.seq < inSeq[n]
      BY <1>1, <1>7, <2>2 DEF Direction, Shadowed
    <3> QED
      BY <1>1, <1>2, <3>1, TailKeeps
  <2>6. Still(p)
    <3>1. Fewer(inq[n], inq'[n], "data")
      BY <1>1, <2>1, FewerFacts
    <3> QED
      BY <1>1, <1>3, <1>4, <2>1, <3>1 DEF Still
  <2>7. Token(p)'
    BY <1>1, <2>6, StillStep DEF ChannelInv
  <2>8. Direction(p)'
    BY <2>3, <2>4, <2>5 DEF Direction
  <2> QED
    BY <1>1, <1>5, <2>7, <2>8, OneDirection DEF ChannelInv
<1> QED
  BY <1>9, <1>10

\* An acknowledgement that the sender waits for ends the chunk's way; any
\* other closes the stream.
LEMMA DataOkArrives ==
  ASSUME TypeOK, TypeOK', ChannelInv, NEW n \in Nodes, RecvDataOk(n) PROVE ChannelInv'
<1> DEFINE p == Peer(n)
<1> USE DEF linkVars, sendVars, recvVars, tableVars, endVars
<1>1. /\ p \in Nodes /\ p # n /\ Peer(p) = n /\ Nodes = {n, p}
      /\ wire[n] \in Seq(Frame) /\ wire[n] # <<>> /\ Head(wire[n]).type = "data_ok"
      /\ wire'[n] = Tail(wire[n]) /\ wire'[p] = wire[p] /\ Has(wire[n], "data_ok")
  <2>1. p \in Nodes /\ p # n /\ Peer(p) = n /\ Nodes = {n, p}
    BY DEF Peer, Nodes
  <2>2. wire[n] \in Seq(Frame) /\ wire[n] # <<>> /\ Head(wire[n]).type = "data_ok"
    BY DEF RecvDataOk, Arrives, TypeOK
  <2>3. wire'[n] = Tail(wire[n]) /\ wire'[p] = wire[p]
    BY <2>1 DEF RecvDataOk, Consumed, TypeOK
  <2>4. Has(wire[n], "data_ok")
    BY <2>2, HeadFacts
  <2> QED
    BY <2>1, <2>2, <2>3, <2>4
<1>2. CalmWire /\ CalmQueue
  BY SameIsCalm, ArrivalIsCalm DEF RecvDataOk
<1>3. /\ UNCHANGED <<conn, sent, outSeq, inSeq, inq, tbl, rx, rxSeq>>
      /\ \A m \in Nodes : Live(m)' => Live(m)
  BY ScheduleLive DEF RecvDataOk
<1>4. CASE ~(tbl[n] /\ AckAccepted(n))
  <2>1. Calm
    BY <1>2, <1>3, <1>4 DEF RecvDataOk, Calm
  <2> QED
    BY <2>1, CalmStep
<1>5. CASE tbl[n] /\ AckAccepted(n)
  <2>1. /\ ack[n] = "wait" /\ ack'[p] = ack[p] /\ UNCHANGED closer
        /\ ack'[n] = IF closer[n] = {} THEN "set" ELSE "late"
    BY <1>1, <1>5, SMTT(30) DEF RecvDataOk, AckAccepted, TypeOK
  <2>2. (Live(n) <=> closer[n] = {}) /\ (Live(n)' <=> Live(n))
    BY <1>3, <1>5, <2>1 DEF Live
  <2>3. Direction(n)'
    <3>1. Direction(n) /\ (Live(n) => sent[n] = outSeq[n] + 1)
      BY <2>1 DEF ChannelInv, Direction, InStep
    <3>2. Numbers(n)' /\ Spent(n)' /\ Shadowed(n)' /\ InStep(n)'
      BY <1>1, <1>3, <2>1, <2>2, <3>1 DEF Direction, Numbers, Spent, Shadowed, InStep
    <3> QED
      BY <3>2 DEF Direction
  <2>4. Token(n)'
    <3> SUFFICES ASSUME Live(n)' PROVE Token(n)'
      BY DEF Token
    <3>1. Live(n)
      BY <2>2
    <3>2. /\ ~Has(wire[p], "data") /\ ~Has(inq[p], "data") /\ rx[p] \notin Holding
          /\ Lone(wire[n], "data_ok")
      BY <1>1, <3>1 DEF ChannelInv, Token
    <3>3. ~Has(wire'[n], "data_ok")
      BY <1>1, <3>2, HeadFacts
    <3> QED
      BY <1>1, <1>3, <3>2, <3>3, NoneOfIt DEF Token, OnItsWay
  <2>5. Quiet(p)
    BY <1>1, <1>2, <1>3, <2>1 DEF Quiet, CalmWire, CalmQueue, Keeps
  <2>6. Still(p)
    BY <1>1, <1>2, <1>3, <2>1 DEF Still, CalmWire, CalmQueue
  <2> QED
    BY <1>1, <2>3, <2>4, <2>5, <2>6, OneDirection DEF ChannelInv
<1> QED
  BY <1>4, <1>5

\* Nothing is on its way at an owner that has just registered the stream.
LEMMA OpenChannel == ASSUME TypeOK, TypeOK', BeginInv, ChannelInv, RecvOpen PROVE ChannelInv'
<1> USE DEF linkVars, sendVars, recvVars, tableVars, endVars
<1>1. Peer("opener") = "owner" /\ Peer("owner") = "opener" /\ Nodes = {"opener", "owner"}
  BY DEF Peer, Nodes
<1>2. /\ wire["owner"] \in Seq(Frame) /\ wire["owner"] # <<>> /\ Head(wire["owner"]).type = "open"
      /\ open = "none"
  <2>1. wire["owner"] \in Seq(Frame) /\ wire["owner"] # <<>> /\ Head(wire["owner"]).type = "open"
    BY <1>1 DEF RecvOpen, Arrives, TypeOK
  <2> QED
    BY <2>1, HeadFacts DEF BeginInv, OpenOnce
<1>3. /\ wire["opener"] = <<>> /\ inq["opener"] = <<>> /\ inq["owner"] = <<>>
      /\ rx["opener"] \notin Holding /\ rx["owner"] = "off" /\ ~tbl["owner"]
      /\ SenderIdle("opener") /\ SenderIdle("owner")
      /\ ~Has(wire["owner"], "data_ok") /\ ~Has(wire["owner"], "data")
  <2>1. /\ wire["opener"] = <<>> /\ inq["opener"] = <<>> /\ inq["owner"] = <<>>
        /\ rx["opener"] \in {"off", "get", "dead"} /\ ~tbl["owner"] /\ SenderIdle("opener")
    BY <1>2 DEF BeginInv, NotOpen
  <2>2. rx["owner"] = "off" /\ SenderIdle("owner")
    BY <1>2 DEF BeginInv, PumpsWait
  <2>3. \A kind \in Kinds : Has(wire["owner"], kind) => kind \in {"open", "close"}
    BY <1>2 DEF BeginInv, NotOpen
  <2>4. "data_ok" \in Kinds /\ "data" \in Kinds
    BY DEF Kinds
  <2> QED
    BY <2>1, <2>2, <2>3, <2>4 DEF Holding
<1>4. /\ wire'["owner"] = Tail(wire["owner"])
      /\ \/ wire'["opener"] = wire["opener"]
         \/ wire'["opener"] = Append(wire["opener"], Control("open_error"))
  BY OpenArrives, <1>1, <1>2, ZenonT(30) DEF RecvOpen, Consumed, TypeOK
<1>5. Control("open_error") \in Frame /\ Control("open_error").type = "open_error"
  BY FrameType DEF Kinds, Control
<1>6. CalmWire
  <2>1. Keeps(wire["owner"], wire'["owner"]) /\ \A k : Fewer(wire["owner"], wire'["owner"], k)
    <3>1. Rest(Tail(wire["owner"]), wire["owner"]) /\ Tail(wire["owner"]) \in Seq(Frame)
      BY <1>2, HeadFacts
    <3> QED
      BY <1>2, <1>4, <3>1, TailKeeps, FewerFacts
  <2>2. wire["opener"] \in Seq(Frame)
    BY <1>1 DEF TypeOK
  <2>3. Keeps(wire["opener"], wire'["opener"])
    BY <1>4, <1>5, <2>2, AppendKeeps, NoData
  <2>4. Fewer(wire["opener"], wire'["opener"], "data") /\ Fewer(wire["opener"], wire'["opener"], "data_ok")
    <3>1. /\ Fewer(wire["opener"], wire["opener"], "data") /\ Fewer(wire["opener"], wire["opener"], "data_ok")
          /\ Fewer(wire["opener"], Append(wire["opener"], Control("open_error")), "data")
          /\ Fewer(wire["opener"], Append(wire["opener"], Control("open_error")), "data_ok")
      BY <1>5, <2>2, FewerFacts
    <3> QED
      BY <1>4, <3>1
  <2> QED
    BY <1>1, <2>1, <2>3, <2>4 DEF CalmWire
<1>7. /\ UNCHANGED <<conn, sent, outSeq, inSeq, ack, inq, rx, rxSeq, closer>> /\ CalmQueue
      /\ tbl' = tbl \/ tbl' = [tbl EXCEPT !["owner"] = TRUE]
  BY SameIsCalm DEF RecvOpen
<1>8. \A m \in Nodes : Live(m)' => Live(m) \/ m = "owner"
  BY <1>7 DEF Live, TypeOK
<1>9. ~OnItsWay("owner")'
  <2>1. ~Has(wire'["opener"], "data") /\ ~Has(wire'["owner"], "data_ok")
    BY <1>1, <1>3, <1>6, SameFacts DEF CalmWire, Fewer
  <2> QED
    BY <1>1, <1>3, <1>7, <2>1, SameFacts DEF OnItsWay
<1>10. Quiet("opener") /\ Quiet("owner")
  <2>1. sent["opener"] = 0 /\ sent["owner"] = 0
    BY <1>3 DEF SenderIdle
  <2> QED
    BY <1>1, <1>3, <1>6, <1>7, <1>8, <2>1 DEF Quiet, CalmWire, CalmQueue, Keeps
<1>11. Still("owner")
  BY <1>9 DEF Still
<1>12. Still("opener")
  BY <1>1, <1>6, <1>7, <1>8 DEF Still, CalmWire, CalmQueue
<1> QED
  BY <1>1, <1>10, <1>11, <1>12, OneDirection DEF ChannelInv

LEMMA ReceiveChannel ==
  ASSUME TypeOK, TypeOK', StopAndWait, BeginInv, ChannelInv, NEW n \in Nodes, Receive(n)
  PROVE  ChannelInv'
<1> USE DEF linkVars, sendVars, recvVars, tableVars, endVars
<1>1. CASE RecvEof(n)
  <2>1. CalmQueue
    <3> SUFFICES ASSUME NEW m \in Nodes
                 PROVE  /\ \A k \in Nat : Exact(inq[m], k) => Exact(inq'[m], k)
                        /\ Fewer(inq[m], inq'[m], "data")
      BY DEF CalmQueue
    <3>1. Control("eof") \in Frame /\ Control("eof").type = "eof"
      BY FrameType DEF Kinds, Control
    <3>2. inq[m] \in Seq(Frame) /\ (inq'[m] = inq[m] \/ inq'[m] = Append(inq[m], Control("eof")))
      BY <1>1 DEF RecvEof, TypeOK
    <3>3. /\ Fewer(inq[m], inq[m], "data") /\ Fewer(inq[m], Append(inq[m], Control("eof")), "data")
          /\ \A k \in Nat : Exact(inq[m], k) => Exact(Append(inq[m], Control("eof")), k)
      BY <3>1, <3>2, FewerFacts, AppendKeeps
    <3> QED
      BY <3>2, <3>3
  <2>2. CalmWire
    BY <1>1, ArrivalIsCalm DEF RecvEof
  <2>3. Calm
    BY <1>1, <2>1, <2>2 DEF RecvEof, Calm, Live
  <2> QED
    BY <2>3, CalmStep
<1>2. CASE RecvClose(n)
  <2>1. CalmWire /\ CalmQueue
    BY <1>2, SameIsCalm, ArrivalIsCalm DEF RecvClose
  <2>2. \A m \in Nodes : Live(m)' => Live(m)
    BY <1>2, ScheduleLive DEF RecvClose
  <2>3. Calm
    BY <1>2, <2>1, <2>2 DEF RecvClose, Calm
  <2> QED
    BY <2>3, CalmStep
<1>3. CASE n = "opener" /\ \E kind \in {"open_ok", "open_error"} : RecvOpened(kind)
  <2>1. PICK kind \in {"open_ok", "open_error"} : RecvOpened(kind)
    BY <1>3
  <2>2. CalmWire /\ CalmQueue
    BY <1>3, <2>1, SameIsCalm, ArrivalIsCalm DEF RecvOpened
  <2>3. Calm
    BY <2>1, <2>2 DEF RecvOpened, Calm, Live
  <2> QED
    BY <2>3, CalmStep
<1> QED
  BY <1>1, <1>2, <1>3, DataArrives, DataOkArrives, OpenChannel DEF Receive

LEMMA InitChannel == Init => ChannelInv
<1> SUFFICES ASSUME Init, NEW m \in Nodes PROVE Direction(m) /\ Token(m)
  BY DEF ChannelInv
<1>1. <<>> \in Seq(Frame) /\ ~Has(<<>>, "data") /\ ~Has(<<>>, "data_ok") /\ 0 \in Nat
  BY SameFacts
<1>2. Numbered(<<>>, 0) /\ Shadow(<<>>, 0) /\ Exact(<<>>, 0)
  BY <1>1, NoData
<1>3. Peer(m) \in Nodes
  BY PeerType
<1>4. Direction(m)
  BY <1>2, <1>3 DEF Init, Direction, Numbers, Spent, Shadowed, InStep
<1>5. Token(m)
  BY <1>3 DEF Init, Token, Live
<1> QED
  BY <1>4, <1>5

\* In both directions nothing is counted that was not handed over, a chunk
\* passes under its own number, and it is on its way once at most.
THEOREM ChannelsHold == Spec => []ChannelInv
<1>1. ChannelInv /\ BeginInv /\ StopAndWait /\ TypeOK /\ TypeOK' /\ [Next]_vars => ChannelInv'
  <2> SUFFICES ASSUME ChannelInv, BeginInv, StopAndWait, TypeOK, TypeOK', [Next]_vars
               PROVE  ChannelInv'
    OBVIOUS
  <2>1. CASE Client
    <3>1. CASE ~ClientOpen
      BY <2>1, <3>1, ClientIsCalm, CalmStep
    <3> QED
      BY <3>1, ClientOpenChannel
  <2>2. CASE UNCHANGED vars
    <3>1. Calm
      BY <2>2, SameIsCalm DEF vars, linkVars, sendVars, recvVars, tableVars, endVars, Calm, Live
    <3> QED
      BY <3>1, CalmStep
  <2> QED
    BY <2>1, <2>2, LinkChannel, OwnerIsCalm, CloseIsCalm, CalmStep, PumpChannel, ConsumeChannel,
       ReceiveChannel DEF Next
<1> QED
  BY <1>1, InitChannel, TypeCorrect, StopAndWaitInvariant, BeginsHolds, PTL DEF Spec

-----------------------------------------------------------------------------
(* What the invariants say of the two ends.                                 *)

\* While a stream is usable and nothing waits for an acknowledgement, all that
\* was handed over was written at the other end; and nothing that was read is
\* dropped on a stream without staged input.
THEOREM SettledIsDelivered == Spec => []SettledMeansDelivered
<1>1. TypeOK /\ StopAndWait /\ BeginInv /\ ChannelInv => SettledMeansDelivered
  <2> SUFFICES ASSUME TypeOK, StopAndWait, BeginInv, ChannelInv PROVE SettledMeansDelivered
    OBVIOUS
  <2>1. ASSUME NEW n \in Nodes, Live(n), ack[n] = "none" PROVE Len(got[Peer(n)]) = sent[n]
    <3>1. sent[n] = outSeq[n] /\ inSeq[Peer(n)] <= sent[n]
      BY <2>1 DEF ChannelInv, Direction, InStep, Numbers
    <3>2. outSeq[n] <= Len(got[Peer(n)]) /\ Len(got[Peer(n)]) <= inSeq[Peer(n)]
      BY DEF StopAndWait, WindowOne
    <3>3. Peer(n) \in Nodes
      BY PeerType
    <3>4. /\ sent[n] \in Nat /\ outSeq[n] \in Nat /\ inSeq[Peer(n)] \in Nat
          /\ Len(got[Peer(n)]) \in Nat
      BY <3>3 DEF TypeOK
    <3> QED
      BY <3>1, <3>2, <3>4
  <2>2. route # "staged" => dropped = {}
    BY DEF BeginInv, OneWaits
  <2> QED
    BY <2>1, <2>2 DEF SettledMeansDelivered
<1> QED
  BY <1>1, TypeCorrect, StopAndWaitInvariant, BeginsHolds, ChannelsHold, PTL

\* No data frame and no acknowledgement closes a stream that both ends use.
THEOREM NoFalseFaults == Spec => []NoFalseFault
<1>1. TypeOK /\ StopAndWait /\ BeginInv /\ ChannelInv => NoFalseFault
  <2> SUFFICES ASSUME TypeOK, StopAndWait, BeginInv, ChannelInv,
                      NEW n \in Nodes, Live(n), ready[n], wire[n] # <<>>
               PROVE  /\ Head(wire[n]).type = "data" => DataAccepted(n) \/ ~Live(Peer(n))
                      /\ Head(wire[n]).type = "data_ok" => AckAccepted(n)
    BY DEF NoFalseFault
  <2>1. /\ Peer(n) \in Nodes /\ Peer(Peer(n)) = n
        /\ Has(wire[n], Head(wire[n]).type) /\ 1 \in DOMAIN wire[n] /\ wire[n][1] = Head(wire[n])
    BY PeerType, HeadFacts DEF TypeOK
  <2>2. ASSUME Head(wire[n]).type = "data", Live(Peer(n)) PROVE DataAccepted(n)
    <3>1. inSeq[n] = outSeq[Peer(n)] /\ Only(wire[n], "data", outSeq[Peer(n)])
      BY <2>1, <2>2 DEF ChannelInv, Token
    <3>2. Arrives(n, "data") /\ Head(wire[n]).seq = inSeq[n]
      BY <2>1, <2>2, <3>1 DEF Only, Arrives
    <3> QED
      BY <3>2, RoomForExpected
  <2>3. ASSUME Head(wire[n]).type = "data_ok" PROVE AckAccepted(n)
    <3>1. ack[n] = "wait" /\ Only(wire[n], "data_ok", outSeq[n])
      BY <2>1, <2>3 DEF ChannelInv, Token, OnItsWay
    <3> QED
      BY <2>1, <2>3, <3>1 DEF Only, AckAccepted
  <2> QED
    BY <2>2, <2>3
<1> QED
  BY <1>1, TypeCorrect, StopAndWaitInvariant, BeginsHolds, ChannelsHold, PTL

-----------------------------------------------------------------------------
(* Refinement: each direction is a ByteChannel.                             *)

\* What a step may do in the direction from m: nothing, or a step of the channel.
Moves(m) ==
  \/ /\ sent'[m] = sent[m] /\ outSeq'[m] = outSeq[m] /\ got'[Peer(m)] = got[Peer(m)]
  \/ /\ sent'[m] = sent[m] + 1 /\ outSeq'[m] = outSeq[m] /\ got'[Peer(m)] = got[Peer(m)]
  \/ /\ Len(got[Peer(m)]) = outSeq[m] /\ outSeq[m] < sent[m]
     /\ got'[Peer(m)] = Append(got[Peer(m)], Len(got[Peer(m)]) + 1)
     /\ sent'[m] = sent[m] /\ outSeq'[m] = outSeq[m]
  \/ /\ outSeq[m] < Len(got[Peer(m)])
     /\ outSeq'[m] = outSeq[m] + 1 /\ sent'[m] = sent[m] /\ got'[Peer(m)] = got[Peer(m)]

\* The consumer writes the next chunk, and the chunk that was handed over.
LEMMA WritesNext ==
  ASSUME TypeOK, StopAndWait, ChannelInv, NEW n \in Nodes, TakesData(n)
  PROVE  /\ Head(inq[n]).val = Len(got[n]) + 1
         /\ Len(got[n]) = outSeq[Peer(n)] /\ outSeq[Peer(n)] < sent[Peer(n)]
<1> DEFINE p == Peer(n)
<1>1. /\ p \in Nodes /\ Peer(p) = n /\ inq[n] \in Seq(Frame) /\ inq[n] # <<>>
      /\ Head(inq[n]).type = "data" /\ Len(got[n]) \in Nat
      /\ outSeq[p] \in Nat /\ sent[p] \in Nat /\ inSeq[n] \in Nat
  BY PeerType DEF TypeOK, TakesData, HeadKind
<1>2. 1 \in DOMAIN inq[n] /\ inq[n][1] = Head(inq[n])
  BY <1>1, HeadFacts
<1>3. Head(inq[n]).seq = Len(got[n]) /\ inSeq[n] = Len(got[n]) + 1
  BY <1>1, <1>2 DEF StopAndWait, QueueNext
<1>4. Head(inq[n]).val = Head(inq[n]).seq + 1 /\ Head(inq[n]).val <= sent[p]
  BY <1>1, <1>2 DEF ChannelInv, Direction, Numbers, Exact
<1>5. outSeq[p] <= Len(got[n]) /\ inSeq[n] <= outSeq[p] + 1
  BY <1>1 DEF StopAndWait, WindowOne
<1> QED
  BY <1>1, <1>3, <1>4, <1>5

LEMMA NextMoves ==
  ASSUME TypeOK, StopAndWait, ChannelInv, [Next]_vars, NEW m \in Nodes PROVE Moves(m)
<1> USE DEF linkVars, sendVars, recvVars, tableVars, endVars
<1>1. ASSUME UNCHANGED <<sent, outSeq, got>> PROVE Moves(m)
  BY <1>1 DEF Moves
<1>2. Peer(m) \in Nodes /\ Peer(Peer(m)) = m /\ sent \in [Nodes -> Nat] /\ outSeq \in [Nodes -> Nat]
      /\ got \in [Nodes -> Seq(Nat)]
  BY PeerType DEF TypeOK
<1>3. ASSUME NEW n \in Nodes, sent' = [sent EXCEPT ![n] = @ + 1], UNCHANGED <<outSeq, got>>
      PROVE  Moves(m)
  BY <1>2, <1>3 DEF Moves
<1>4. ASSUME NEW n \in Nodes, ack[n] = "set", outSeq' = [outSeq EXCEPT ![n] = @ + 1],
             UNCHANGED <<sent, got>>
      PROVE  Moves(m)
  <2>1. outSeq[n] < Len(got[Peer(n)])
    BY <1>4 DEF StopAndWait, SetBehind
  <2> QED
    BY <1>2, <1>4, <2>1 DEF Moves
<1>5. ASSUME NEW n \in Nodes, TakesData(n), got' = [got EXCEPT ![n] = Append(@, Head(inq[n]).val)]
      PROVE  Moves(m)
  <2>1. CASE Peer(m) = n
    <3>1. got'[n] = Append(got[n], Len(got[n]) + 1)
      BY <1>2, <1>5, WritesNext
    <3>2. Len(got[n]) = outSeq[m] /\ outSeq[m] < sent[m]
      BY <1>2, <1>5, <2>1, WritesNext
    <3> QED
      BY <1>5, <2>1, <3>1, <3>2 DEF Moves, TakesData
  <2>2. CASE Peer(m) # n
    BY <1>2, <1>5, <2>2 DEF Moves, TakesData
  <2> QED
    BY <2>1, <2>2
<1>6. CASE Link
  BY <1>1, <1>6 DEF Link, LinkDrop, LinkLost, LinkUp
<1>7. CASE Client
  BY <1>1, <1>7 DEF Client, ClientWake, ClientGivesUp, ClientOpen, ClientOpened, ClientFails,
    ClientEof, ClientCloses, ClientClosed
<1>8. CASE Owner
  BY <1>1, <1>8 DEF Owner, SpawnOk, SpawnFails, ProcExit, ProcStopped, Exit, WaitDone
<1>9. ASSUME NEW n \in Nodes, Pump(n) PROVE Moves(m)
  <2>1. CASE PumpSend(n)
    BY <1>3, <2>1 DEF PumpSend
  <2>2. CASE PumpAcked(n)
    BY <1>4, <2>2 DEF PumpAcked
  <2>3. CASE PumpRefused(n) \/ PumpEnd(n) \/ PumpFailed(n)
    BY <1>1, <2>3 DEF PumpRefused, PumpEnd, PumpFailed
  <2> QED
    BY <1>9, <2>1, <2>2, <2>3 DEF Pump
<1>10. ASSUME NEW n \in Nodes, Consume(n) PROVE Moves(m)
  <2>1. CASE TakeData(n) \/ TakeRefused(n)
    BY <1>5, <2>1 DEF TakeData, TakeRefused
  <2>2. CASE RefuseSend(n)
    BY <1>3, <2>2 DEF RefuseSend
  <2>3. CASE RefuseAcked(n)
    BY <1>4, <2>3 DEF RefuseAcked
  <2>4. CASE TakeEof(n) \/ TakeBroken(n) \/ AckData(n) \/ RefuseRefused(n) \/ RefuseFailed(n)
    BY <1>1, <2>4 DEF TakeEof, TakeBroken, TakesData, AckData, RefuseRefused, RefuseFailed
  <2> QED
    BY <1>10, <2>1, <2>2, <2>3, <2>4 DEF Consume
<1>11. ASSUME NEW n \in Nodes, Close(n) PROVE Moves(m)
  BY <1>1, <1>11 DEF Close, CloseStarts, CloseBegin, CloseFinish
<1>12. ASSUME NEW n \in Nodes, Receive(n) PROVE Moves(m)
  BY <1>1, <1>12 DEF Receive, RecvData, RecvDataOk, RecvEof, RecvClose, RecvOpen, RecvOpened
<1>13. CASE UNCHANGED vars
  BY <1>1, <1>13 DEF vars
<1> QED
  BY <1>6, <1>7, <1>8, <1>9, <1>10, <1>11, <1>12, <1>13 DEF Next

\* Both directions of a stream implement the byte channel: its chunks come out
\* in order, none twice and none skipped, and are acknowledged after that.
THEOREM StreamImplementsChannels == Spec => ImplementsChannels
<1>1. Peer("opener") = "owner" /\ Peer("owner") = "opener" /\ "opener" \in Nodes /\ "owner" \in Nodes
  BY DEF Peer, Nodes
<1>2. Init => ToOwner!ChanInit /\ ToOpener!ChanInit
  BY <1>1 DEF Init, ToOwner!ChanInit, ToOpener!ChanInit
<1>3. TypeOK /\ StopAndWait /\ ChannelInv /\ [Next]_vars =>
        [ToOwner!ChanNext]_(ToOwner!chanVars) /\ [ToOpener!ChanNext]_(ToOpener!chanVars)
  <2> SUFFICES ASSUME TypeOK, StopAndWait, ChannelInv, [Next]_vars
               PROVE  [ToOwner!ChanNext]_(ToOwner!chanVars) /\ [ToOpener!ChanNext]_(ToOpener!chanVars)
    OBVIOUS
  <2>1. Moves("opener") /\ Moves("owner")
    BY <1>1, NextMoves
  <2>2. [ToOwner!ChanNext]_(ToOwner!chanVars)
    BY <1>1, <2>1 DEF Moves, ToOwner!ChanNext, ToOwner!chanVars, ToOwner!Send, ToOwner!Deliver,
       ToOwner!Acknowledge
  <2>3. [ToOpener!ChanNext]_(ToOpener!chanVars)
    BY <1>1, <2>1 DEF Moves, ToOpener!ChanNext, ToOpener!chanVars, ToOpener!Send, ToOpener!Deliver,
       ToOpener!Acknowledge
  <2> QED
    BY <2>2, <2>3
<1> QED
  BY <1>2, <1>3, TypeCorrect, StopAndWaitInvariant, ChannelsHold, PTL
     DEF Spec, ImplementsChannels, ToOwner!ChanSpec, ToOpener!ChanSpec
=============================================================================
