--------------------------- MODULE ChunkedTransfer ---------------------------
(***************************************************************************)
(* The protocol artifacts/1: a sender S announces a file, the receiver R   *)
(* writes its chunks to a temporary file and links it to its final path,   *)
(* and cancel, close and loss of the link abort.  Nothing is resumed.      *)
(* The inputs of a client are staged with a copy of this code              *)
(* (InputStaging), so two transfers may have one final path here.          *)
(* All transfers belong to one logical stream, and the state ends with it. *)
(***************************************************************************)
EXTENDS Integers, Sequences, FiniteSets

CONSTANTS
  None,       \* no transfer
  Transfers,  \* the transfers of the stream
  PathOf,     \* PathOf[t]: the final path of a transfer
  Chunks,     \* chunks of each file
  Habits      \* behaviours considered, see AllHabits

\* "together": transfers with the same final path run at the same time.
\* "slow": a reply takes longer than the sender waits for it.
\* "closes": the client closes the stream.  "breaks": the link is lost.
AllHabits == {"together", "slow", "closes", "breaks"}

TransferAssumption ==
  /\ None \notin Transfers
  /\ Chunks \in Nat
  /\ Habits \subseteq AllHabits

VARIABLES
  send,    \* send[t]: the sender's task
  sent,    \* sent[t]: the chunk it sends or waits for
  streamS, \* the stream at S: "open" or "closed"
  streamR, \* the stream at R: "open", "closing" or "closed"
  linkUp,  \* the link carries frames
  chanR, chanS,  \* frames under way
  recv,    \* recv[t]: ArtifactReceiveState (Idle once it is cleaned up)
  temp,    \* the transfers whose temporary file is there
  place    \* place[f]: the transfer whose file is at final path f

transferVars == <<send, sent, streamS, streamR, linkUp, chanR, chanS, recv, temp, place>>

Paths == {PathOf[t] : t \in Transfers}
Idle == [phase |-> "none", next |-> 0, got |-> 0, queue |-> <<>>, work |-> "off", table |-> FALSE]
Busy == {"begin", "sending", "ended"}

\* Type correctness: tasks and receives are in one of their states.
TransferTypeOK ==
  /\ send \in [Transfers -> {"new", "ok", "failed"} \cup Busy]
  /\ sent \in [Transfers -> 0..Chunks]
  /\ streamS \in {"open", "closed"} /\ streamR \in {"open", "closing", "closed"}
  /\ linkUp \in BOOLEAN
  /\ \A t \in Transfers :
       /\ recv[t].phase \in {"none", "receiving", "ending", "committing", "completed", "aborting"}
       /\ recv[t].work \in {"off", "get", "write", "sync", "commit", "linked"}
       /\ recv[t].got \in 0..Chunks
  /\ temp \subseteq Transfers
  /\ place \in [Paths -> Transfers \cup {None}]

TransferInit ==
  /\ send = [t \in Transfers |-> "new"] /\ sent = [t \in Transfers |-> 0]
  /\ streamS = "open" /\ streamR = "open" /\ linkUp = TRUE
  /\ chanR = <<>> /\ chanS = <<>>
  /\ recv = [t \in Transfers |-> Idle]
  /\ temp = {} /\ place = [f \in Paths |-> None]

Frame(k, t, n) == [kind |-> k, of |-> t, n |-> n]
ToR(f) == chanR' = IF linkUp THEN Append(chanR, f) ELSE chanR
ToS(f) == chanS' = IF linkUp THEN Append(chanS, f) ELSE chanS

-----------------------------------------------------------------------------
(* The sender.                                                              *)

\* Without "together" a transfer comes when no other of its path is under way.
Start(t) ==
  /\ send[t] = "new" /\ streamS = "open" /\ linkUp
  /\ "together" \in Habits
       \/ \A u \in Transfers \ {t} : PathOf[u] = PathOf[t] =>
            /\ send[u] \notin Busy /\ ~recv[u].table
            /\ \A i \in 1..Len(chanR) : chanR[i].of # u
  /\ send' = [send EXCEPT ![t] = "begin"]
  /\ ToR(Frame("begin", t, 0))
  /\ UNCHANGED <<sent, streamS, streamR, linkUp, chanS, recv, temp, place>>

\* The next chunk, or the end frame after the last one.
SendChunk(t, i) ==
  /\ sent' = [sent EXCEPT ![t] = i]
  /\ send' = [send EXCEPT ![t] = IF i < Chunks THEN "sending" ELSE "ended"]
  /\ ToR(Frame(IF i < Chunks THEN "chunk" ELSE "end", t, i))

GiveUp(t) ==
  /\ send' = [send EXCEPT ![t] = "failed"]
  /\ ToR(Frame("cancel", t, 0))
  /\ UNCHANGED sent

\* A reply the phase of the waiter calls for.
Expected(f) ==
  \/ f.kind = "ready" /\ send[f.of] = "begin"
  \/ f.kind = "ack" /\ send[f.of] = "sending" /\ f.n = sent[f.of]
  \/ f.kind = "ok" /\ send[f.of] = "ended"

\* _handle_artifact_reply and the task that waits for it: an error or a reply
\* out of order fails the transfer.
Reply ==
  /\ chanS # <<>> /\ chanS' = Tail(chanS)
  /\ LET f == Head(chanS)
         t == f.of
     IN \/ f.kind = "ready" /\ Expected(f) /\ SendChunk(t, 0)
        \/ f.kind = "ack" /\ Expected(f) /\ SendChunk(t, f.n + 1)
        \/ /\ f.kind = "ok" /\ Expected(f)
           /\ send' = [send EXCEPT ![t] = "ok"] /\ UNCHANGED <<sent, chanR>>
        \/ send[t] \in Busy /\ ~Expected(f) /\ GiveUp(t)
        \/ send[t] \notin Busy /\ UNCHANGED <<send, sent, chanR>>
  /\ UNCHANGED <<streamS, streamR, linkUp, recv, temp, place>>

\* The waits for ready, for an acknowledgement and for the receipt are bounded.
TimesOut(t) ==
  /\ send[t] \in Busy /\ "slow" \in Habits
  /\ GiveUp(t)
  /\ UNCHANGED <<streamS, streamR, linkUp, chanS, recv, temp, place>>

\* _close_stream at S fails every waiter of the stream.
StreamCloses ==
  /\ "closes" \in Habits /\ streamS = "open" /\ linkUp
  /\ streamS' = "closed"
  /\ send' = [t \in Transfers |-> IF send[t] \in Busy THEN "failed" ELSE send[t]]
  /\ chanR' = Append(chanR, Frame("close", None, 0))
  /\ UNCHANGED <<sent, streamR, linkUp, chanS, recv, temp, place>>

\* The link is lost: S fails its waiters, what is under way may be lost, and R
\* closes the stream when it has read the rest.
LinkBreaks ==
  /\ "breaks" \in Habits /\ linkUp /\ streamS = "open"
  /\ linkUp' = FALSE /\ streamS' = "closed"
  /\ send' = [t \in Transfers |-> IF send[t] \in Busy THEN "failed" ELSE send[t]]
  /\ \E i \in 0..Len(chanR) : chanR' = SubSeq(chanR, 1, i) \o <<Frame("close", None, 0)>>
  /\ chanS' = <<>>
  /\ UNCHANGED <<sent, streamR, recv, temp, place>>

-----------------------------------------------------------------------------
(* The receiver: frames.                                                    *)

Receive(k) == chanR # <<>> /\ Head(chanR).kind = k /\ chanR' = Tail(chanR)

\* Registers the receive and answers ready; what is not welcome is refused.
Begin(welcome) ==
  /\ Receive("begin")
  /\ LET t == Head(chanR).of IN
     IF streamR = "open" /\ t \in welcome
     THEN /\ recv' = [recv EXCEPT ![t] =
               [Idle EXCEPT !.phase = "receiving", !.work = "get", !.table = TRUE]]
          /\ temp' = temp \cup {t}
          /\ ToS(Frame("ready", t, 0))
     ELSE ToS(Frame("error", t, 0)) /\ UNCHANGED <<recv, temp>>
  /\ UNCHANGED <<send, sent, streamS, streamR, linkUp, place>>

\* _schedule_artifact_abort.
AbortMarked(r) ==
  IF r.phase \in {"aborting", "completed"} THEN r ELSE [r EXCEPT !.phase = "aborting"]

Queued(t, i) == [recv[t] EXCEPT !.queue = Append(@, i)]

\* Chunks are queued in order; one out of order aborts.
Chunk ==
  /\ Receive("chunk")
  /\ LET t == Head(chanR).of
         i == Head(chanR).n
     IN recv' = [recv EXCEPT ![t] =
          IF ~@.table THEN @
          ELSE IF @.phase = "receiving" /\ i = @.next
          THEN [Queued(t, i) EXCEPT !.next = i + 1] ELSE AbortMarked(@)]
  /\ UNCHANGED <<send, sent, streamS, streamR, linkUp, chanS, temp, place>>

EndMark == Chunks

End ==
  /\ Receive("end")
  /\ LET t == Head(chanR).of
         i == Head(chanR).n
     IN recv' = [recv EXCEPT ![t] =
          IF ~@.table THEN @
          ELSE IF @.phase = "receiving" /\ i = @.next
          THEN [Queued(t, EndMark) EXCEPT !.phase = "ending"] ELSE AbortMarked(@)]
  /\ UNCHANGED <<send, sent, streamS, streamR, linkUp, chanS, temp, place>>

Cancel ==
  /\ Receive("cancel")
  /\ LET t == Head(chanR).of
     IN recv' = [recv EXCEPT ![t] = IF @.table THEN AbortMarked(@) ELSE @]
  /\ UNCHANGED <<send, sent, streamS, streamR, linkUp, chanS, temp, place>>

\* _close_stream at R aborts the receives of the stream.
Close ==
  /\ Receive("close")
  /\ streamR' = "closing"
  /\ recv' = [t \in Transfers |-> IF recv[t].table THEN AbortMarked(recv[t]) ELSE recv[t]]
  /\ UNCHANGED <<send, sent, streamS, linkUp, chanS, temp, place>>

-----------------------------------------------------------------------------
(* The receiver: worker and cleanup.                                        *)

\* A receive that ends without success removes its temporary file and, unless
\* it was completed, whatever is at its final path.
CleanUp(t) ==
  /\ recv' = [recv EXCEPT ![t] = Idle]
  /\ temp' = temp \ {t}
  /\ place' = IF recv[t].phase = "completed" THEN place
              ELSE [place EXCEPT ![PathOf[t]] = None]
  /\ ToS(Frame("error", t, 0))

\* _abort_received_artifact cancels the worker, waits for a commit under way
\* and cleans up.
Abort(t) ==
  /\ recv[t].table /\ recv[t].phase = "aborting" /\ recv[t].work \notin {"commit", "linked"}
  /\ CleanUp(t)
  /\ UNCHANGED <<send, sent, streamS, streamR, linkUp, chanR>>

\* The worker takes what is queued next.
Get(t) ==
  LET r == recv[t]
      i == Head(r.queue)
  IN
  /\ r.work = "get" /\ r.queue # <<>>
  /\ IF i = EndMark /\ r.got # Chunks
     THEN CleanUp(t)
     ELSE /\ recv' = [recv EXCEPT ![t].queue = Tail(@),
               ![t].work = IF i = EndMark THEN "sync" ELSE "write",
               ![t].got = IF i = EndMark THEN @ ELSE @ + 1]
          /\ UNCHANGED <<chanS, temp, place>>
  /\ UNCHANGED <<send, sent, streamS, streamR, linkUp, chanR>>

\* The bytes are written and acknowledged.
Write(t) ==
  /\ recv[t].work = "write"
  /\ recv' = [recv EXCEPT ![t].work = "get"]
  /\ ToS(Frame("ack", t, recv[t].got - 1))
  /\ UNCHANGED <<send, sent, streamS, streamR, linkUp, chanR, temp, place>>

\* Flushed and closed: the commit starts unless the phase has changed.
Sync(t) ==
  /\ recv[t].work = "sync"
  /\ IF recv[t].phase # "ending" THEN CleanUp(t)
     ELSE /\ recv' = [recv EXCEPT ![t].phase = "committing", ![t].work = "commit"]
          /\ UNCHANGED <<chanS, temp, place>>
  /\ UNCHANGED <<send, sent, streamS, streamR, linkUp, chanR>>

\* _commit_artifact_no_overwrite, in a thread: a path that is taken fails it.
Commit(t) ==
  /\ recv[t].work = "commit"
  /\ IF place[PathOf[t]] # None THEN CleanUp(t)
     ELSE /\ place' = [place EXCEPT ![PathOf[t]] = t]
          /\ temp' = temp \ {t}
          /\ recv' = [recv EXCEPT ![t].work = "linked"]
          /\ UNCHANGED chanS
  /\ UNCHANGED <<send, sent, streamS, streamR, linkUp, chanR>>

\* The commit is undone when the receive was aborted meanwhile.
Linked(t) ==
  /\ recv[t].work = "linked"
  /\ IF recv[t].phase = "aborting" THEN CleanUp(t)
     ELSE /\ recv' = [recv EXCEPT ![t] = Idle]
          /\ ToS(Frame("ok", t, 0))
          /\ UNCHANGED <<temp, place>>
  /\ UNCHANGED <<send, sent, streamS, streamR, linkUp, chanR>>

Worker(t) == Get(t) \/ Write(t) \/ Sync(t) \/ Commit(t)

\* What artifacts/1 and inputs have in common.
SenderSteps ==
  \/ Reply \/ StreamCloses \/ LinkBreaks
  \/ \E t \in Transfers : Start(t) \/ TimesOut(t)
ReceiverSteps ==
  \/ Chunk \/ End \/ Cancel \/ Close
  \/ \E t \in Transfers : Worker(t) \/ Abort(t)
=============================================================================
