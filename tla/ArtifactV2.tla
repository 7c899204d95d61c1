----------------------------- MODULE ArtifactV2 -----------------------------
(***************************************************************************)
(* Delivery of one artifact (one digest, one name) between two nodes with  *)
(* the protocol artifacts/2: content-addressed destination, a journal of   *)
(* receipts on disk, a resume token, chunks acknowledged one by one.  The  *)
(* sender S runs a task per publish; at the receiver R a task handles a    *)
(* begin, a worker writes what the read loop queues, and cancel, stream    *)
(* close and loss of the link abort or park the receive.                   *)
(*                                                                         *)
(* Chunk i of the file is written i, a hole of zeroes 0.  A resume token   *)
(* and its partial file have one identity, since the journal makes both    *)
(* together.  Each publish has a stream of its own.                        *)
(***************************************************************************)
EXTENDS Integers, Sequences, FiniteSets, SequencesExt

CONSTANTS
  Chunks,     \* chunks of the file
  Publishes,  \* bound: calls of _publish_local_artifact
  Breaks,     \* bound: losses of the link
  Habits      \* behaviours considered, see AllHabits

\* "overlap": the artifact is published again while a publish of it runs.
\* "slow": a reply takes longer than the sender waits for it.
\* "closes": a client closes its stream during the transfer.
\* "restarts": the receiving node is killed and started again.
\* "slowDisk": a begin is still at the journal when its stream is closed.
\* "expires": a receipt gets older than the retention.
\* "retries": the stream belongs to a private server, so a publish repeats
\* its attempt after the loss of the link (allow_auto_resume).
\* "cuts": a kill may fall between the link and the unlink of a commit.
AllHabits ==
  {"overlap", "slow", "closes", "restarts", "slowDisk", "expires", "retries", "cuts"}

ArtifactAssumption ==
  /\ Chunks \in Nat \ {0} /\ Publishes \in Nat \ {0} /\ Breaks \in Nat
  /\ Habits \subseteq AllHabits

Pubs == 1..Publishes
Tokens == Pubs                \* the begin of publish p makes at most token p
Whole == [i \in 1..Chunks |-> i]
Gone == <<-1>>                \* a file that does not exist
None == 0

VARIABLES
  pub,      \* pub[p]: the sender's task of publish p
  sent,     \* sent[p]: the chunk it sends or waits for
  open,     \* open[p]: the nodes where its stream is open
  known,    \* publish_resume_tokens of the file, None for none
  link,     \* the transport: "up" or "broken"
  sees,     \* sees[n]: what node n knows of it
  toR, toS, \* frames under way
  begin,    \* begin[p]: the task _handle_artifact_begin_v2
  rec,      \* rec[p]: ArtifactReceiveStateV2 (NoRec once the worker is over)
  file,     \* file[t]: the partial file of token t
  final,    \* the file under its final name
  twin,     \* the token whose partial file is the same inode, None for none
  journal,  \* journal[t]: the receipt of token t
  old,      \* the tokens whose receipt is older than the retention
  breaks    \* counter for the bound

sendVars == <<pub, sent, known>>
linkVars == <<link, sees, breaks>>
diskVars == <<file, final, twin, journal, old>>
vars == <<sendVars, open, linkVars, toR, toS, begin, rec, diskVars>>

NoRec == [phase |-> "none", tok |-> None, acked |-> 0, got |-> 0, next |-> 0,
          queue |-> <<>>, digest |-> <<>>, work |-> "off", table |-> FALSE,
          made |-> FALSE, seq |-> 0, park |-> "no"]
NoReceipt == [state |-> "none", acked |-> 0, chunks |-> 0]

Running == {"begin", "sending", "ended", "again"}

\* Type correctness: tasks, receives and receipts are in one of their states.
TypeOK ==
  /\ pub \in [Pubs -> {"new", "retry", "ok", "failed"} \cup Running]
  /\ sent \in [Pubs -> 0..Chunks]
  /\ open \in [Pubs -> SUBSET {"S", "R"}]
  /\ known \in Tokens \cup {None}
  /\ link \in {"up", "broken"}
  /\ sees \in [{"S", "R"} -> {"up", "failing", "down"}]
  /\ begin \in [Pubs -> [at : {"no", "prune", "prepare"}, tok : Tokens \cup {None}]]
  /\ \A p \in Pubs :
       /\ rec[p].phase \in {"none", "receiving", "ending", "committing",
                            "completed", "aborting", "parked"}
       /\ rec[p].work \in {"off", "seed", "get", "write", "ack", "sync", "commit",
                           "unlink", "linked", "mark", "done"}
       /\ rec[p].park \in {"no", "trunc", "note"}
  /\ \A t \in Tokens : journal[t].state \in {"none", "partial", "committed"}
  /\ old \subseteq Tokens /\ twin \in Tokens \cup {None}

Init ==
  /\ pub = [p \in Pubs |-> "new"] /\ sent = [p \in Pubs |-> 0]
  /\ open = [p \in Pubs |-> {}] /\ known = None
  /\ link = "up" /\ sees = [n \in {"S", "R"} |-> "up"]
  /\ toR = <<>> /\ toS = <<>>
  /\ begin = [p \in Pubs |-> [at |-> "no", tok |-> None]]
  /\ rec = [p \in Pubs |-> NoRec]
  /\ file = [t \in Tokens |-> Gone] /\ final = Gone /\ twin = None
  /\ journal = [t \in Tokens |-> NoReceipt] /\ old = {}
  /\ breaks = 0

-----------------------------------------------------------------------------
(* Frames and files.                                                        *)

Frame(k, p, n, t) == [kind |-> k, pub |-> p, n |-> n, tok |-> t]

\* _send_frame fails with BridgeError once its node has seen the link go.
\* Before that, what is written to a broken transport is lost.
ToR(f) == toR' = IF link = "up" THEN Append(toR, f) ELSE toR
ToS(f) == toS' = IF link = "up" THEN Append(toS, f) ELSE toS

Max2(a, b) == IF a > b THEN a ELSE b

\* A handle truncates to n chunks, and extends what is shorter.
Truncated(f, n) ==
  IF f = Gone THEN Gone
  ELSE [k \in 1..n |-> IF k <= Len(f) THEN f[k] ELSE 0]

\* What is done to the bytes of the partial file t is done to those of the
\* final one while they are one inode; a name that is removed leaves the other.
Alters(t) == final' = (IF twin = t THEN file'[t] ELSE final) /\ UNCHANGED twin
Removes == twin' = (IF twin # None /\ file'[twin] = Gone THEN None ELSE twin)

Live(p) == rec[p].table

-----------------------------------------------------------------------------
(* The sender.                                                              *)

\* A publish without "overlap" comes when the one before is over at both nodes.
Publish(p) ==
  /\ pub[p] = "new" /\ sees["S"] = "up" /\ sees["R"] = "up"
  /\ \A q \in Pubs : q < p => pub[q] # "new"
  /\ "overlap" \in Habits
       \/ \A q \in Pubs : pub[q] \notin Running \cup {"retry"} /\ ~Live(q) /\ begin[q].at = "no"
  /\ pub' = [pub EXCEPT ![p] = "begin"]
  /\ open' = [open EXCEPT ![p] = {"S", "R"}]
  /\ ToR(Frame("begin", p, 0, known))
  /\ UNCHANGED <<sent, known, linkVars, toS, begin, rec, diskVars>>

\* The next chunk, or the end frame after the last one.
SendChunk(p, i) ==
  /\ sent' = [sent EXCEPT ![p] = i]
  /\ pub' = [pub EXCEPT ![p] = IF i < Chunks THEN "sending" ELSE "ended"]
  /\ ToR(IF i < Chunks THEN Frame("chunk", p, i, None) ELSE Frame("end", p, i, None))

\* An attempt that fails sends a cancel on its way out.
GiveUp(p) ==
  /\ pub' = [pub EXCEPT ![p] = "failed"]
  /\ ToR(Frame("cancel", p, 0, None))
  /\ UNCHANGED <<sent, known>>

\* _handle_artifact_reply and the attempt that waits for it.
Reply ==
  /\ toS # <<>> /\ sees["S"] = "up"
  /\ toS' = Tail(toS)
  /\ LET f == Head(toS)
         p == f.pub
     IN \/ /\ f.kind = "ready" /\ pub[p] = "begin"
           /\ known' = f.tok
           /\ SendChunk(p, f.n)
        \/ /\ f.kind = "ack" /\ pub[p] = "sending" /\ f.n = sent[p]
           /\ SendChunk(p, f.n + 1)
           /\ UNCHANGED known
        \/ /\ <<f.kind, pub[p]>> \in {<<"committed", "begin">>, <<"ok", "ended">>}
           /\ pub' = [pub EXCEPT ![p] = "ok"]
           /\ UNCHANGED <<sent, known, toR>>
        \/ f.kind = "error" /\ pub[p] \in Running /\ GiveUp(p)
        \/ \* a reply to an attempt that is over
           /\ (pub[p] \notin Running \/ (pub[p] = "again" /\ f.kind # "error"))
           /\ UNCHANGED <<sendVars, toR>>
        \/ \* a reply out of order fails the attempt
           /\ pub[p] \in Running \ {"again"}
           /\ \/ f.kind = "ready" /\ pub[p] # "begin"
              \/ f.kind = "ack" /\ ~(pub[p] = "sending" /\ f.n = sent[p])
              \/ f.kind = "committed" /\ pub[p] # "begin"
              \/ f.kind = "ok" /\ pub[p] # "ended"
           /\ GiveUp(p)
  /\ UNCHANGED <<open, linkVars, begin, rec, diskVars>>

\* The waits for ready, for an acknowledgement and for the receipt are bounded.
TimesOut(p) ==
  /\ pub[p] \in Running /\ "slow" \in Habits
  /\ GiveUp(p)
  /\ UNCHANGED <<open, linkVars, toS, begin, rec, diskVars>>

\* A write to the broken transport raises ConnectionError, which is no loss of
\* the link to _is_link_loss_error: the publish fails.
WriteFails(p) ==
  /\ pub[p] \in Running /\ link = "broken" /\ sees["S"] = "up"
  /\ pub' = [pub EXCEPT ![p] = "failed"]
  /\ UNCHANGED <<sent, known, open, linkVars, toR, toS, begin, rec, diskVars>>

\* What a waiter's failure with "stream closed" makes of the publish.
Interrupted(p) ==
  IF pub[p] \notin Running THEN pub[p]
  ELSE IF "retries" \in Habits /\ pub[p] # "again" THEN "retry" ELSE "failed"

\* The client closes the stream: cancel and close leave together.
ClientCloses(p) ==
  /\ "closes" \in Habits /\ sees["S"] = "up" /\ "S" \in open[p] /\ pub[p] \in Running
  /\ open' = [open EXCEPT ![p] = @ \ {"S"}]
  /\ pub' = [pub EXCEPT ![p] = Interrupted(p)]
  /\ toR' = IF link = "up"
            THEN toR \o <<Frame("cancel", p, 0, None), Frame("close", p, 0, None)>> ELSE toR
  /\ UNCHANGED <<sent, known, linkVars, toS, begin, rec, diskVars>>

\* The attempt is repeated once the link is there, on the stream it had.
Again(p) ==
  /\ pub[p] = "retry" /\ sees["S"] = "up"
  /\ pub' = [pub EXCEPT ![p] = "again"]
  /\ ToR(Frame("again", p, 0, known))
  /\ UNCHANGED <<sent, known, open, linkVars, toS, begin, rec, diskVars>>

\* The retention window of the retry is over.
StopsRetrying(p) ==
  /\ pub[p] = "retry" /\ "slow" \in Habits
  /\ pub' = [pub EXCEPT ![p] = "failed"]
  /\ UNCHANGED <<sent, known, open, linkVars, toR, toS, begin, rec, diskVars>>

Sender ==
  \/ Reply
  \/ \E p \in Pubs :
       \/ Publish(p) \/ TimesOut(p) \/ WriteFails(p) \/ ClientCloses(p)
       \/ Again(p) \/ StopsRetrying(p)

-----------------------------------------------------------------------------
(* The receiver: begin and the journal.                                     *)

Receive(k) ==
  /\ toR # <<>> /\ sees["R"] = "up" /\ Head(toR).kind \in k
  /\ toR' = Tail(toR)

\* A begin for a stream that is not open is refused.
Begin ==
  /\ Receive({"begin", "again"})
  /\ LET f == Head(toR)
         p == f.pub
     IN IF f.kind = "begin" /\ "R" \in open[p]
        THEN /\ begin' = [begin EXCEPT ![p] = [at |-> "prune", tok |-> f.tok]]
             /\ UNCHANGED toS
        ELSE ToS(Frame("error", p, 0, None)) /\ UNCHANGED begin
  /\ UNCHANGED <<sendVars, open, linkVars, rec, diskVars>>

\* _prune_artifact_receipts: old receipts go with their partial files, then
\* partial receipts without a file.
Prune ==
  LET kept(t) == journal[t].state = "partial" /\ t \notin old /\ file[t] # Gone
  IN /\ journal' = [t \in Tokens |->
          IF kept(t) \/ (journal[t].state = "committed" /\ t \notin old)
          THEN journal[t] ELSE NoReceipt]
     /\ file' = [t \in Tokens |->
          IF t \in old /\ journal[t].state = "partial" THEN Gone ELSE file[t]]
     /\ old' = {}
     /\ Removes /\ UNCHANGED final

BeginPrunes(p) ==
  /\ begin[p].at = "prune"
  /\ Prune
  /\ begin' = [begin EXCEPT ![p].at = "prepare"]
  /\ UNCHANGED <<sendVars, open, linkVars, toR, toS, rec>>

\* The receive of token t starts after n chunks.  Without a link the ready
\* frame cannot be sent, and the receive is aborted.
Starts(p, t, n, next) ==
  /\ \/ /\ sees["R"] = "up" /\ ToS(Frame("ready", p, n, t))
        /\ rec' = [rec EXCEPT ![p] = [NoRec EXCEPT !.phase = "receiving", !.tok = t,
             !.acked = n, !.got = n, !.next = next, !.work = "seed", !.table = TRUE]]
     \/ /\ sees["R"] # "up" \/ link = "broken"
        /\ rec' = [rec EXCEPT ![p] = [NoRec EXCEPT !.phase = "aborting", !.tok = t,
             !.acked = n, !.got = n, !.next = next, !.work = "seed", !.table = TRUE]]
        /\ UNCHANGED toS

Answers(f) == IF sees["R"] = "up" THEN ToS(f) ELSE UNCHANGED toS

\* The begin opens the parked partial of its token or makes a new one, or tells
\* at once that the file is there.
BeginPrepares(p) ==
  LET t == begin[p].tok
      receipt == IF t = None THEN NoReceipt ELSE journal[t]
      parked == receipt.state = "partial" /\ file[t] # Gone
  IN
  /\ begin[p].at = "prepare"
  /\ begin' = [begin EXCEPT ![p] = [at |-> "no", tok |-> None]]
  /\ \/ /\ receipt.state = "committed"
        /\ Answers(Frame(IF final # Gone THEN "committed" ELSE "error", p, 0, None))
        /\ UNCHANGED <<rec, diskVars>>
     \/ /\ parked /\ Len(file[t]) < receipt.acked
        /\ Answers(Frame("error", p, 0, None))
        /\ Prune
        /\ UNCHANGED rec
     \/ /\ parked /\ Len(file[t]) >= receipt.acked
        /\ Starts(p, t, receipt.acked, receipt.chunks)
        /\ file' = [file EXCEPT ![t] = Truncated(@, receipt.acked)]
        /\ Alters(t) /\ UNCHANGED <<journal, old>>
     \/ /\ receipt.state # "committed" /\ ~parked
        /\ Starts(p, p, 0, 0)
        /\ file' = [file EXCEPT ![p] = <<>>]
        /\ journal' = [u \in Tokens |->
             IF u = p THEN [state |-> "partial", acked |-> 0, chunks |-> 0]
             ELSE IF u = t THEN NoReceipt ELSE journal[u]]
        /\ old' = old \ {p, t}
        /\ UNCHANGED <<final, twin>>
  /\ UNCHANGED <<sendVars, open, linkVars, toR>>

\* Time passes: the receipt of t is older than the retention.
Ages(t) ==
  /\ "expires" \in Habits /\ journal[t].state # "none" /\ t \notin old
  /\ old' = old \cup {t}
  /\ UNCHANGED <<sendVars, open, linkVars, toR, toS, begin, rec, file, final, twin, journal>>

-----------------------------------------------------------------------------
(* The receiver: frames of a transfer.                                      *)

\* _schedule_artifact_abort_v2.
AbortMarked(r) ==
  IF r.phase \in {"aborting", "completed", "parked"} THEN r
  ELSE [r EXCEPT !.phase = "aborting"]

Chunk ==
  /\ Receive({"chunk"})
  /\ LET f == Head(toR)
         p == f.pub
         r == rec[p]
     IN rec' = [rec EXCEPT ![p] =
          IF ~r.table THEN r
          ELSE IF r.phase = "receiving" /\ f.n = r.next
          THEN [r EXCEPT !.queue = Append(@, f.n), !.next = @ + 1] ELSE AbortMarked(r)]
  /\ UNCHANGED <<sendVars, open, linkVars, toS, begin, diskVars>>

EndMark == Chunks + 1

End ==
  /\ Receive({"end"})
  /\ LET f == Head(toR)
         p == f.pub
         r == rec[p]
     IN rec' = [rec EXCEPT ![p] =
          IF ~r.table THEN r
          ELSE IF r.phase = "receiving" /\ f.n = r.next
          THEN [r EXCEPT !.queue = Append(@, EndMark), !.phase = "ending"] ELSE AbortMarked(r)]
  /\ UNCHANGED <<sendVars, open, linkVars, toS, begin, diskVars>>

\* A cancel finds no receive while its begin is at the journal.
Cancel ==
  /\ Receive({"cancel"})
  /\ LET p == Head(toR).pub
     IN /\ "slowDisk" \in Habits \/ begin[p].at = "no"
        /\ rec' = [rec EXCEPT ![p] = IF rec[p].table THEN AbortMarked(rec[p]) ELSE rec[p]]
  /\ UNCHANGED <<sendVars, open, linkVars, toS, begin, diskVars>>

\* _close_stream while the link is up aborts what is received for the stream.
Close ==
  /\ Receive({"close"})
  /\ LET p == Head(toR).pub
     IN /\ "slowDisk" \in Habits \/ begin[p].at = "no"
        /\ open' = [open EXCEPT ![p] = @ \ {"R"}]
        /\ rec' = [rec EXCEPT ![p].phase =
             IF rec[p].table /\ @ # "completed" THEN "aborting" ELSE @]
  /\ UNCHANGED <<sendVars, linkVars, toS, begin, diskVars>>

\* _discard_artifact_v2: the partial and the receipt of the token go.
Discard(t) ==
  /\ file' = [file EXCEPT ![t] = Gone]
  /\ journal' = [journal EXCEPT ![t] = NoReceipt]
  /\ old' = old \ {t}
  /\ Removes

\* _abort_artifact_v2 waits for a commit under way, cancels the worker and
\* cleans up.
Abort(p) ==
  /\ Live(p) /\ rec[p].phase = "aborting" /\ rec[p].work \notin {"commit", "unlink", "linked"}
  /\ rec' = [rec EXCEPT ![p] = NoRec]
  /\ Discard(rec[p].tok)
  /\ Answers(Frame("error", p, 0, None))
  /\ UNCHANGED <<sendVars, open, linkVars, toR, begin, final>>

-----------------------------------------------------------------------------
(* The receiver: the worker _receive_artifact_v2.                           *)

Work(p, at) == rec[p].work = at

\* The worker ends with an exception: a parked receive is left alone, another
\* one is cleaned up; the sender is told unless an abort does it.
Fails(p, r) ==
  IF r.phase = "parked"
  THEN rec' = [rec EXCEPT ![p] = [r EXCEPT !.work = "done"]]
       /\ UNCHANGED <<toS, file, twin, journal, old>>
  ELSE /\ rec' = [rec EXCEPT ![p] = NoRec]
       /\ Discard(r.tok)
       /\ Answers(Frame("error", p, 0, None))

\* The digest of a resumed receive is rebuilt from the prefix on disk.
Seed(p) ==
  LET r == rec[p] IN
  /\ Work(p, "seed")
  /\ IF r.acked > 0 /\ (file[r.tok] = Gone \/ Len(file[r.tok]) < r.acked)
     THEN Fails(p, r)
     ELSE /\ rec' = [rec EXCEPT ![p].work = "get", ![p].digest =
               IF r.acked = 0 THEN <<>> ELSE SubSeq(file[r.tok], 1, r.acked)]
          /\ UNCHANGED <<toS, file, twin, journal, old>>
  /\ UNCHANGED <<sendVars, open, linkVars, toR, begin, final>>

Get(p) ==
  LET r == rec[p]
      q == [r EXCEPT !.queue = Tail(@)]
      i == Head(r.queue)
  IN
  /\ Work(p, "get") /\ r.queue # <<>>
  /\ \/ /\ IF i = EndMark THEN r.got # Chunks \/ r.digest # Whole
           ELSE r.phase \notin {"receiving", "ending"} \/ r.got = Chunks
        /\ Fails(p, q)
     \/ /\ i = EndMark /\ r.got = Chunks /\ r.digest = Whole
        /\ rec' = [rec EXCEPT ![p] = [q EXCEPT !.work = "sync"]]
        /\ UNCHANGED <<toS, file, twin, journal, old>>
     \/ /\ i # EndMark /\ r.phase \in {"receiving", "ending"} /\ r.got < Chunks
        /\ rec' = [rec EXCEPT ![p] = [q EXCEPT !.work = "write", !.seq = i,
             !.got = @ + 1, !.digest = Append(@, i + 1)]]
        /\ UNCHANGED <<toS, file, twin, journal, old>>
  /\ UNCHANGED <<sendVars, open, linkVars, toR, begin, final>>

\* The bytes go to the place the handle is at; a parked handle is closed.
Write(p) ==
  LET r == rec[p] IN
  /\ Work(p, "write")
  /\ IF r.park = "note"
     THEN Fails(p, r) /\ UNCHANGED final
     ELSE /\ file' = [file EXCEPT ![r.tok] =
               IF @ = Gone THEN Gone
               ELSE [k \in 1..Max2(r.got, Len(@)) |->
                       IF k = r.got THEN r.seq + 1 ELSE IF k <= Len(@) THEN @[k] ELSE 0]]
          /\ rec' = [rec EXCEPT ![p].work = "ack"]
          /\ Alters(r.tok) /\ UNCHANGED <<toS, journal, old>>
  /\ UNCHANGED <<sendVars, open, linkVars, toR, begin>>

\* A chunk counts as acknowledged when the acknowledgement was sent, or when
\* it could not be because the link is known to be gone.
Ack(p) ==
  LET r == rec[p] IN
  /\ Work(p, "ack")
  /\ \/ /\ sees["R"] = "up" /\ ToS(Frame("ack", p, r.seq, None))
        /\ rec' = [rec EXCEPT ![p].work = "get", ![p].acked = r.got, ![p].next = r.seq + 1]
        /\ UNCHANGED <<file, twin, journal, old>>
     \/ /\ sees["R"] = "up" /\ link = "broken"
        /\ Fails(p, r)
     \/ /\ sees["R"] # "up"
        /\ rec' = [rec EXCEPT ![p] =
             IF r.phase \in {"receiving", "ending"}
             THEN [r EXCEPT !.acked = r.got, !.phase = "parked", !.park = "trunc", !.work = "done"]
             ELSE [r EXCEPT !.acked = r.got, !.work = "done"]]
        /\ UNCHANGED <<toS, file, twin, journal, old>>
  /\ UNCHANGED <<sendVars, open, linkVars, toR, begin, final>>

\* Everything is on disk; the commit may start unless the phase has changed.
Sync(p) ==
  LET r == rec[p] IN
  /\ Work(p, "sync")
  /\ IF r.phase # "ending" THEN Fails(p, r)
     ELSE /\ rec' = [rec EXCEPT ![p].phase = "committing", ![p].work = "commit"]
          /\ UNCHANGED <<toS, file, twin, journal, old>>
  /\ UNCHANGED <<sendVars, open, linkVars, toR, begin, final>>

\* _commit_artifact_v2_file: a file with the same content is a success, another
\* one is not touched; otherwise the partial is linked to the final name.  A
\* partial that has two names is refused (st_nlink).
Refuses(r) == file[r.tok] = Gone \/ twin = r.tok \/ final \notin {Gone, Whole}

Commit(p) ==
  LET r == rec[p] IN
  /\ Work(p, "commit")
  /\ \/ Refuses(r) /\ Fails(p, r) /\ UNCHANGED final
     \/ /\ ~Refuses(r) /\ final # Gone
        /\ file' = [file EXCEPT ![r.tok] = Gone]
        /\ rec' = [rec EXCEPT ![p].work = "linked", ![p].made = FALSE]
        /\ UNCHANGED <<toS, final, twin, journal, old>>
     \/ /\ ~Refuses(r) /\ final = Gone
        /\ final' = file[r.tok] /\ twin' = r.tok
        /\ rec' = [rec EXCEPT ![p].work = "unlink", ![p].made = TRUE]
        /\ UNCHANGED <<toS, file, journal, old>>
  /\ UNCHANGED <<sendVars, open, linkVars, toR, begin>>

\* The partial's own name goes.  (On Windows os.rename does both at once.)
Unlink(p) ==
  LET r == rec[p] IN
  /\ Work(p, "unlink")
  /\ file' = [file EXCEPT ![r.tok] = Gone] /\ twin' = None
  /\ rec' = [rec EXCEPT ![p].work = "linked"]
  /\ UNCHANGED <<sendVars, open, linkVars, toR, toS, begin, final, journal, old>>

\* Faulty variant: a file that was there before is taken away as well.
LinkedUndoes(p) ==
  LET r == rec[p] IN
  /\ Work(p, "linked")
  /\ IF r.phase = "aborting"
     THEN final' = Gone /\ Fails(p, r)
     ELSE /\ rec' = [rec EXCEPT ![p].phase = "completed", ![p].table = FALSE, ![p].work = "mark"]
          /\ UNCHANGED <<toS, diskVars>>
  /\ UNCHANGED <<sendVars, open, linkVars, toR, begin>>

\* A commit that an abort waited for is undone.
Linked(p) ==
  LET r == rec[p] IN
  /\ Work(p, "linked")
  /\ IF r.phase = "aborting"
     THEN /\ final' = IF r.made THEN Gone ELSE final
          /\ Fails(p, r)
     ELSE /\ rec' = [rec EXCEPT ![p].phase = "completed", ![p].table = FALSE, ![p].work = "mark"]
          /\ UNCHANGED <<toS, diskVars>>
  /\ UNCHANGED <<sendVars, open, linkVars, toR, begin>>

\* _journal_mark_committed: one committed receipt replaces every other of the
\* file, partial files included; then the sender is told.
Mark(p) ==
  LET own == rec[p].tok IN
  /\ Work(p, "mark")
  /\ file' = [t \in Tokens |->
       IF t # own /\ journal[t].state = "partial" THEN Gone ELSE file[t]]
  /\ journal' = [t \in Tokens |->
       IF t = own THEN [state |-> "committed", acked |-> rec[p].acked, chunks |-> rec[p].next]
       ELSE NoReceipt]
  /\ old' = {} /\ Removes
  /\ rec' = [rec EXCEPT ![p] = NoRec]
  /\ Answers(Frame("ok", p, 0, None))
  /\ UNCHANGED <<sendVars, open, linkVars, toR, begin, final>>

-----------------------------------------------------------------------------
(* The link is lost, and the receiver restarts.                             *)

\* What is under way may be lost from some point on.
Break ==
  /\ breaks < Breaks /\ link = "up" /\ sees["S"] = "up" /\ sees["R"] = "up"
  /\ link' = "broken" /\ breaks' = breaks + 1
  /\ \E i \in 0..Len(toR), j \in 0..Len(toS) :
       toR' = SubSeq(toR, 1, i) /\ toS' = SubSeq(toS, 1, j)
  /\ UNCHANGED <<sendVars, open, sees, begin, rec, diskVars>>

\* _fail_link_state of the sender: every waiter fails with its stream.
SenderNotices ==
  /\ link = "broken" /\ sees["S"] = "up" /\ toS = <<>>
  /\ sees' = [sees EXCEPT !["S"] = "down"]
  /\ open' = [p \in Pubs |-> open[p] \ {"S"}]
  /\ pub' = [p \in Pubs |-> Interrupted(p)]
  /\ UNCHANGED <<sent, known, link, breaks, toR, toS, begin, rec, diskVars>>

ReceiverNotices ==
  /\ link = "broken" /\ sees["R"] = "up" /\ toR = <<>>
  /\ sees' = [sees EXCEPT !["R"] = "failing"]
  /\ UNCHANGED <<sendVars, open, link, breaks, toR, toS, begin, rec, diskVars>>

\* _close_stream while _link_failing parks what is received for the stream.
ParkStarts(p) ==
  /\ sees["R"] = "failing" /\ "R" \in open[p]
  /\ open' = [open EXCEPT ![p] = @ \ {"R"}]
  /\ rec' = [rec EXCEPT ![p] =
       IF rec[p].table /\ rec[p].phase \in {"receiving", "ending"}
       THEN [rec[p] EXCEPT !.phase = "parked", !.park = "trunc"] ELSE rec[p]]
  /\ UNCHANGED <<sendVars, linkVars, toR, toS, begin, diskVars>>

\* The handle is flushed, cut to the acknowledged prefix and closed.
ParkTruncates(p) ==
  /\ rec[p].park = "trunc"
  /\ file' = [file EXCEPT ![rec[p].tok] = Truncated(@, rec[p].acked)]
  /\ rec' = [rec EXCEPT ![p].park = "note"]
  /\ Alters(rec[p].tok)
  /\ UNCHANGED <<sendVars, open, linkVars, toR, toS, begin, journal, old>>

\* The worker is cancelled and the receipt brought up to date.
ParkRecords(p) ==
  LET r == rec[p] IN
  /\ r.park = "note"
  /\ journal' = [journal EXCEPT ![r.tok] =
       IF @.state = "none" THEN @
       ELSE [state |-> "partial", acked |-> r.acked, chunks |-> r.next]]
  /\ old' = old \ {r.tok}
  /\ rec' = [rec EXCEPT ![p] = NoRec]
  /\ UNCHANGED <<sendVars, open, linkVars, toR, toS, begin, file, final, twin>>

\* The receiver is through when every stream is closed and every receive parked.
ReceiverDown ==
  /\ sees["R"] = "failing"
  /\ \A p \in Pubs : "R" \notin open[p] /\ rec[p].park = "no"
  /\ sees' = [sees EXCEPT !["R"] = "down"]
  /\ UNCHANGED <<sendVars, open, link, breaks, toR, toS, begin, rec, diskVars>>

\* A begin of the lost link is over by then, unless the disk is slow.
Reconnect ==
  /\ sees["S"] = "down" /\ sees["R"] = "down"
  /\ "slowDisk" \in Habits \/ \A p \in Pubs : begin[p].at = "no"
  /\ link' = "up" /\ sees' = [n \in {"S", "R"} |-> "up"]
  /\ toR' = <<>> /\ toS' = <<>>
  /\ UNCHANGED <<sendVars, open, breaks, begin, rec, diskVars>>

\* The receiver is killed.  When it starts, _cleanup_workspace_partials removes
\* the partial files no receipt refers to.
Restart ==
  /\ "restarts" \in Habits /\ breaks < Breaks
  /\ "cuts" \in Habits \/ \A p \in Pubs : rec[p].work # "unlink"
  /\ breaks' = breaks + 1
  /\ link' = "broken" /\ sees' = [sees EXCEPT !["R"] = "down"]
  /\ toR' = <<>>
  /\ \E j \in 0..Len(toS) : toS' = SubSeq(toS, 1, j)
  /\ open' = [p \in Pubs |-> open[p] \ {"R"}]
  /\ begin' = [p \in Pubs |-> [at |-> "no", tok |-> None]]
  /\ rec' = [p \in Pubs |-> NoRec]
  /\ file' = [t \in Tokens |-> IF journal[t].state = "partial" THEN file[t] ELSE Gone]
  /\ Removes /\ UNCHANGED <<sendVars, final, journal, old>>

-----------------------------------------------------------------------------
Worker(p) ==
  \/ Seed(p) \/ Get(p) \/ Write(p) \/ Ack(p) \/ Sync(p)
  \/ Commit(p) \/ Unlink(p) \/ Linked(p) \/ Mark(p)
Beginning(p) == BeginPrunes(p) \/ BeginPrepares(p)
Parking(p) == ParkStarts(p) \/ ParkTruncates(p) \/ ParkRecords(p)
ReceivesFrame == Begin \/ Chunk \/ End \/ Cancel \/ Close
LinkFails == SenderNotices \/ ReceiverNotices \/ ReceiverDown \/ Reconnect

Next ==
  \/ Sender \/ ReceivesFrame \/ LinkFails \/ Break \/ Restart
  \/ \E p \in Pubs : Beginning(p) \/ Abort(p) \/ Worker(p) \/ Parking(p)
  \/ \E t \in Tokens : Ages(t)

\* Tasks run, frames arrive and the link comes back; timeouts, clients, time
\* and restarts owe nothing.  Agents read what is written to them, which the
\* close of a stream waits for (ParkStarts, ReceiverDown).
Fairness ==
  /\ WF_vars(Reply) /\ WF_vars(ReceivesFrame) /\ WF_vars(LinkFails)
  /\ \A p \in Pubs : /\ WF_vars(Again(p)) /\ WF_vars(Beginning(p)) /\ WF_vars(Abort(p))
                     /\ WF_vars(Worker(p)) /\ WF_vars(Parking(p))

Spec == Init /\ [][Next]_vars
FairSpec == Spec /\ Fairness

-----------------------------------------------------------------------------
(* Properties.                                                              *)

\* The delivery is the promised one: the file appears complete, is never
\* overwritten, and a publisher is told of success only while it is there,
\* through retries, parks, aborts during the commit and restarts.
Promise == INSTANCE Delivery WITH
  final <- IF final = Gone THEN "none" ELSE IF final = Whole THEN "whole" ELSE "torn",
  told <- [p \in Pubs |-> IF pub[p] \in {"ok", "failed"} THEN pub[p] ELSE "none"]
Delivers == Promise!Spec

\* The file under its final name is complete, also when two publishes of it
\* run at once (_commit_artifact_v2_file, CHANGELOG.md:364-373).
CommittedWhole == final \in {Gone, Whole}

\* A publisher who was told of success has a complete file, also when a commit
\* before was cut in two by a kill and has left a torn one (_commit_artifact_v2_file).
ToldIsWhole == \A p \in Pubs : pub[p] = "ok" => final = Whole

\* What a receipt calls acknowledged and is still on disk are the publisher's
\* bytes: no hole and nothing another attempt left (_park_artifact_v2).
PrefixesTrue ==
  \A t \in Tokens : journal[t].state = "partial" /\ file[t] # Gone =>
    \A i \in 1..journal[t].acked : i <= Len(file[t]) => file[t][i] = i

\* A parked receive can be resumed: its receipt's chunk count is that of the
\* acknowledged prefix, and the prefix is on disk (_park_artifact_v2).
ParkedResumable ==
  \A t \in Tokens :
    journal[t].state = "partial" /\ file[t] # Gone
      /\ (\A p \in Pubs : rec[p].tok = t => ~rec[p].table)
    => journal[t].chunks = journal[t].acked /\ journal[t].acked <= Len(file[t])

\* Every publish is answered without the help of a timeout, and the receive of
\* a publish that is over ends: no slot of receiving_artifacts is kept.
TransfersEnd ==
  \A p \in Pubs :
    /\ pub[p] \in Running \cup {"retry"} ~> pub[p] \in {"ok", "failed"}
    /\ pub[p] = "failed" /\ Live(p) ~> ~Live(p)
=============================================================================
