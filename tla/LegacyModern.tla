---------------------------- MODULE LegacyModern ----------------------------
(* The projection of a legacy stdio client onto a modern stdio backend.  A   *)
(* reader thread takes requests into a bounded queue and handles             *)
(* cancellations; the main thread serves one request at a time with one      *)
(* exchange on the backend.  A cancellation finds its request queued,        *)
(* dequeued but not written yet, or written; the two threads meet under two  *)
(* locks, and each critical section is one action.                           *)
EXTENDS Naturals, Sequences, SequencesExt

CONSTANTS Hello,        \* the initialize request
          Lists, Tools, \* tools/list and tools/call requests
          IdOf,         \* their JSON-RPC ids; the client may reuse an id
          QueueSize, None,
          Habits        \* "launchFails", "exits", "stalls" (the backend stops
                        \* reading), "late", "cancels", "ends",
                        \* "wrong" (unusable discovery)

Requests == {Hello} \cup Lists \cup Tools

VARIABLES queue, pend, markers,     \* under the queue condition
          inflight, written,        \* under the state lock
          pc, cur,                  \* the main thread
          reader,                   \* the reader thread's cancellation
          backend, stalled, got, closed, initialized,
          sent,                     \* ghost: requests the backend was written
          forwarded,                \* ghost: cancellations it was written
          cancel,                   \* ghost: what became of each cancellation
          verdict, reply            \* what the client will be, was told
vars == <<queue, pend, markers, inflight, written, pc, cur, reader, backend, stalled, got, closed,
          initialized, sent, forwarded, cancel, verdict, reply>>
queued == <<queue, pend, markers>>
flying == <<inflight, written>>
process == <<backend, stalled, got>>

Idle == [step |-> "idle", of |-> None, seen |-> None, wrote |-> FALSE]

Init ==
  /\ queue = <<>> /\ pend = None /\ markers = {}
  /\ inflight = None /\ written = FALSE
  /\ pc = "idle" /\ cur = None
  /\ reader = Idle
  /\ backend = "none" /\ stalled = FALSE /\ got = {} /\ closed = FALSE /\ initialized = FALSE
  /\ sent = {} /\ forwarded = {}
  /\ cancel = [r \in Requests |-> "no"]
  /\ verdict = None
  /\ reply = [r \in Requests |-> None]

Over(r) == reply[r] # None \/ cancel[r] # "no"
(* ---------------------------------------------------------- reader thread *)

Unseen(r) == /\ reply[r] = None /\ cancel[r] = "no" /\ r # cur
             /\ \A i \in 1 .. Len(queue) : queue[i] # r
             /\ r \notin sent

(* Faulty: the bound on the queue is off by one.                             *)
ReadRequestOver(r) ==
  /\ reader = Idle /\ ~closed /\ Unseen(r)
  /\ r # Hello => reply[Hello] = "ok"
  /\ \A x \in Requests \ {r} : IdOf[x] = IdOf[r] => Unseen(x) \/ Over(x)
  /\ IF Len(queue) > QueueSize
       THEN reply' = [reply EXCEPT ![r] = "overload"] /\ UNCHANGED queue
       ELSE queue' = Append(queue, r) /\ UNCHANGED reply
  /\ UNCHANGED <<pend, markers, flying, pc, cur, reader, verdict, process, closed, initialized, sent,
                 forwarded, cancel>>

(* A client sends each request once, initialize first and alone, and takes   *)
(* an id again only when the request that had it is answered or cancelled.   *)
ReadRequest(r) ==
  /\ reader = Idle /\ ~closed /\ Unseen(r)
  /\ r # Hello => reply[Hello] = "ok"
  /\ \A x \in Requests \ {r} : IdOf[x] = IdOf[r] => Unseen(x) \/ Over(x)
  /\ IF Len(queue) >= QueueSize
       THEN reply' = [reply EXCEPT ![r] = "overload"] /\ UNCHANGED queue
       ELSE queue' = Append(queue, r) /\ UNCHANGED reply
  /\ UNCHANGED <<pend, markers, flying, pc, cur, reader, verdict, process, closed, initialized, sent,
                 forwarded, cancel>>

(* The queue without what has that id; no two queued requests have the same. *)
Purged(id) ==
  LET hits == {i \in DOMAIN queue : IdOf[queue[i]] = id}
  IN  IF hits = {} THEN queue ELSE RemoveAt(queue, CHOOSE i \in hits : TRUE)

(* notifications/cancelled, step one: queued occurrences are purged.         *)
ReadCancel(r) ==
  /\ "cancels" \in Habits
  /\ reader = Idle /\ ~closed
  /\ r # Hello /\ ~Unseen(r) /\ cancel[r] = "no" /\ reply[r] = None
  /\ queue' = Purged(IdOf[r])
  /\ cancel' = [cancel EXCEPT ![r] = IF Contains(queue, r) THEN "purged" ELSE "sent"]
  /\ reader' = [Idle EXCEPT !.step = "looks", !.of = r]
  /\ UNCHANGED <<pend, markers, flying, pc, cur, verdict, process, closed, initialized, sent, forwarded,
                 reply>>

(* Step two, under the state lock.                                           *)
LookInFlight ==
  /\ reader.step = "looks"
  /\ reader' = [reader EXCEPT !.step = "acts", !.seen = inflight, !.wrote = written]
  /\ UNCHANGED <<queued, flying, pc, cur, verdict, process, closed, initialized, sent, forwarded, cancel,
                 reply>>

Hits == reader.seen # None /\ IdOf[reader.seen] = IdOf[reader.of]

(* Step three: forward to the backend what was written already.              *)
Forward ==
  /\ reader.step = "acts" /\ Hits /\ reader.wrote
  /\ stalled => backend # "up"
  /\ forwarded' = IF backend = "up" THEN forwarded \cup {reader.seen} ELSE forwarded
  /\ cancel' = [cancel EXCEPT ![reader.of] = "forwarded"]
  /\ reader' = Idle
  /\ UNCHANGED <<queued, flying, pc, cur, verdict, process, closed, initialized, sent, reply>>

(* Or mark what has not been written, while it is alive.                     *)
Mark ==
  /\ reader.step = "acts" /\ ~(Hits /\ reader.wrote)
  /\ IF (pend # None /\ IdOf[pend] = IdOf[reader.of]) \/ Hits
       THEN /\ markers' = markers \cup {IdOf[reader.of]}
            /\ cancel' = [cancel EXCEPT ![reader.of] = IF @ = "sent" THEN "marked" ELSE @]
       ELSE UNCHANGED <<markers, cancel>>
  /\ reader' = Idle
  /\ UNCHANGED <<queue, pend, flying, pc, cur, verdict, process, closed, initialized, sent, forwarded, reply>>

ReadEof ==
  /\ "ends" \in Habits /\ ~closed /\ reader = Idle
  /\ closed' = TRUE
  /\ UNCHANGED <<queued, flying, pc, cur, reader, verdict, process, initialized, sent, forwarded, cancel, reply>>

(* ------------------------------------------------------------ main thread *)

(* What the client will be told; written when the exchange has been cleared. *)
Tell(why) == verdict' = why

Pop ==
  /\ pc = "idle"
  /\ IF closed
       THEN queue' = <<>> /\ pc' = "ends" /\ UNCHANGED <<pend, cur, verdict>>
       ELSE /\ queue # <<>>
            /\ cur' = Head(queue) /\ verdict' = None /\ pend' = Head(queue) /\ queue' = Tail(queue)
            /\ pc' = IF Head(queue) = Hello THEN "starts" ELSE "enters"
  /\ UNCHANGED <<markers, flying, reader, process, closed, initialized, sent, forwarded, cancel, reply>>

(* _ensure_backend_started: once; what died or never started stays dead.     *)
Ensured(up) ==
  \/ backend = (IF up THEN "up" ELSE "dead") /\ UNCHANGED backend
  \/ up /\ backend = "none" /\ backend' = "up"
  \/ ~up /\ "launchFails" \in Habits /\ backend = "none" /\ backend' = "dead"

Start ==
  /\ pc = "starts"
  /\ \/ Ensured(TRUE) /\ pc' = "writes" /\ UNCHANGED verdict
     \/ Ensured(FALSE) /\ Tell("safe") /\ pc' = "clears"
  /\ UNCHANGED <<queued, flying, cur, reader, stalled, got, closed, initialized, sent, forwarded,
                 cancel, reply>>

Enter ==
  /\ pc = "enters"
  /\ IF initialized
       THEN inflight' = cur /\ written' = FALSE /\ pc' = "checks" /\ UNCHANGED verdict
       ELSE pc' = "clears" /\ Tell("refused") /\ UNCHANGED flying
  /\ UNCHANGED <<queued, cur, reader, process, closed, initialized, sent, forwarded, cancel, reply>>

(* The two looks at the markers before the write.                            *)
Check ==
  /\ pc \in {"checks", "rechecks"}
  /\ IF IdOf[cur] \in markers
       THEN /\ markers' = markers \ {IdOf[cur]}
            /\ Tell("dropped")
            /\ pc' = "clears"
       ELSE pc' = (IF pc = "checks" THEN "rechecks" ELSE "writes") /\ UNCHANGED <<markers, verdict>>
  /\ UNCHANGED <<queue, pend, flying, cur, reader, process, closed, initialized, sent, forwarded,
                 cancel, reply>>

(* _write_backend holds the backend's lock until the bytes are taken.        *)
Write ==
  /\ pc = "writes"
  /\ \/ backend = "up" /\ ~stalled /\ sent' = sent \cup {cur} /\ pc' = "wrote" /\ UNCHANGED verdict
     \/ backend # "up" /\ Tell("safe") /\ pc' = "clears" /\ UNCHANGED sent
  /\ UNCHANGED <<queued, flying, cur, reader, process, closed, initialized, forwarded, cancel, reply>>

(* The flag is set under the state lock, after the write.                    *)
Wrote ==
  /\ pc = "wrote" /\ pc' = "waits"
  /\ written' = (inflight = cur)
  /\ UNCHANGED <<queued, inflight, cur, reader, process, closed, initialized, sent, forwarded, cancel,
                 verdict, reply>>

(* The discovery is usable, or the client is refused.                        *)
Discovered ==
  /\ cur = Hello
  /\ \/ Tell("ok") /\ initialized' = TRUE
     \/ "wrong" \in Habits /\ Tell("refused") /\ UNCHANGED initialized

(* The answer; the end of the client; the end of the backend (which also     *)
(* hides an answer the reader thread has not seen yet); or the deadline,     *)
(* which stops the backend for good.  A tools/call that was sent and not     *)
(* answered is reported with outcomeUnknown, a tools/list without.           *)
Await ==
  /\ pc = "waits"
  /\ LET why == IF cur \in Tools THEN "unknown" ELSE "failed" IN
     \/ cur \in got \ {Hello} /\ Tell("ok") /\ UNCHANGED <<backend, initialized>>
     \/ cur \in got /\ Discovered /\ UNCHANGED backend
     \/ /\ cur \notin got /\ closed
        /\ verdict' = IF cur = Hello THEN "failed" ELSE verdict
        /\ UNCHANGED <<backend, initialized>>
     \/ cur \notin got /\ ~closed /\ backend = "dead" /\ Tell(why) /\ UNCHANGED <<backend, initialized>>
     \/ /\ "late" \in Habits /\ cur \notin got /\ ~closed
        /\ backend' = "dead" /\ Tell(why)
        /\ UNCHANGED initialized
  /\ pc' = "clears"
  /\ UNCHANGED <<queued, flying, cur, reader, stalled, got, closed, sent, forwarded, cancel, reply>>

(* The two `finally` clauses: nothing of the request stays behind.           *)
Leave ==
  /\ pc \in {"clears", "leaves"}
  /\ IF pc = "clears" THEN /\ inflight' = None /\ written' = FALSE /\ pc' = "leaves" /\ UNCHANGED <<pend, cur>>
                           /\ reply' = [reply EXCEPT ![cur] = IF @ = None THEN verdict ELSE @]
                      ELSE /\ pend' = None /\ cur' = None /\ pc' = "idle" /\ UNCHANGED <<flying, reply>>
  /\ markers' = markers \ {IdOf[cur]}
  /\ UNCHANGED <<queue, reader, process, closed, initialized, sent, forwarded, cancel, verdict>>

(* serve_forever: the backend is stopped when the client has gone.           *)
Teardown ==
  /\ pc = "ends" /\ pc' = "over" /\ backend' = "dead"
  /\ UNCHANGED <<queued, flying, cur, reader, stalled, got, closed, initialized, sent, forwarded,
                 cancel, verdict, reply>>

(* ---------------------------------------------------------------- backend *)

Answer(r) ==
  /\ backend = "up" /\ r \in sent \ got /\ r = cur
  /\ got' = got \cup {r}
  /\ UNCHANGED <<queued, flying, pc, cur, reader, backend, stalled, verdict, closed, initialized, sent,
                 forwarded, cancel, reply>>

(* It exits, or breaks the frame limit and is stopped.                       *)
Exit ==
  /\ "exits" \in Habits /\ backend = "up" /\ backend' = "dead"
  /\ UNCHANGED <<queued, flying, pc, cur, reader, stalled, got, verdict, closed, initialized, sent, forwarded,
                 cancel, reply>>

Stall ==
  /\ "stalls" \in Habits /\ backend = "up" /\ ~stalled /\ stalled' = TRUE
  /\ UNCHANGED <<queued, flying, pc, cur, reader, backend, got, verdict, closed, initialized, sent, forwarded,
                 cancel, reply>>

Reads == LookInFlight \/ Forward \/ Mark
Main == Pop \/ Start \/ Enter \/ Check \/ Write \/ Wrote \/ Await \/ Leave \/ Teardown
Next ==
  \/ \E r \in Requests : ReadRequest(r) \/ ReadCancel(r) \/ Answer(r)
  \/ LookInFlight \/ Forward \/ Mark \/ ReadEof
  \/ Pop \/ Start \/ Enter \/ Check \/ Write \/ Wrote \/ Await \/ Leave \/ Teardown
  \/ Exit \/ Stall

Spec == Init /\ [][Next]_vars
(* Both threads run, and the wait for an answer has a deadline.              *)
FairSpec == Spec /\ WF_vars(Reads) /\ WF_vars(Main)

TypeOK ==
  /\ Len(queue) <= QueueSize /\ Range(queue) \subseteq Requests
  /\ pend \in Requests \cup {None} /\ cur \in Requests \cup {None}
  /\ inflight \in Requests \cup {None} /\ written \in BOOLEAN
  /\ markers \subseteq {IdOf[r] : r \in Requests}
  /\ pc \in {"idle", "starts", "enters", "checks", "rechecks", "writes", "wrote", "waits", "clears",
             "leaves", "ends", "over"}
  /\ reader.step \in {"idle", "looks", "acts"}
  /\ backend \in {"none", "up", "dead"}
  /\ got \subseteq sent /\ sent \subseteq Requests /\ forwarded \subseteq sent
  /\ cancel \in [Requests -> {"no", "sent", "purged", "marked", "forwarded"}]
  /\ reply \in [Requests -> {None, "ok", "overload", "refused", "safe", "failed", "unknown", "dropped"}]

(* A request is dropped unanswered, or cancelled at the backend, only when   *)
(* the client cancelled that very request: a cancellation never strikes a    *)
(* later request that has the same id.                                       *)
CancelHitsItsOwn ==
  \A r \in Requests : reply[r] = "dropped" \/ r \in forwarded => cancel[r] # "no"

(* A client told that nothing was sent, and that it may try again, is told   *)
(* the truth: the backend was not given the request and will not be.         *)
SafeMeansUnsent == \A r \in Requests : reply[r] \in {"safe", "overload", "dropped"} => r \notin sent

(* A cancellation recorded before the request was written stops the write.   *)
MarkedIsNeverSent == \A r \in Requests : cancel[r] = "marked" => r \notin sent

(* Every request taken ends: answered, dropped as cancelled, or the client   *)
(* has gone.                                                                 *)
EachRequestEnds ==
  \A r \in Requests : cur = r ~> (reply[r] # None \/ closed)
=============================================================================
