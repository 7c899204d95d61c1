------------------------------ MODULE Connector ------------------------------
(***************************************************************************)
(* The persistent stdio connector of an Agent (PersistentConnector and the *)
(* Recovery of its engine): the thread that reads the Agent's lines, the   *)
(* reader thread of each session with the node, and the main thread that   *)
(* opens sessions, replays the handshake and fails what was lost.          *)
(* A step is what a thread does between two acquisitions of a lock or two  *)
(* system calls.  A line is sent as a whole or not at all.                 *)
(***************************************************************************)
EXTENDS Naturals

CONSTANTS
  Calls,   \* business requests of the Agent
  Hello,   \* its initialize request
  None,
  MaxSess  \* bound: sessions with the node

ConnectorAssumption ==
  /\ {Hello, "replayed"} \cap Calls = {} /\ Hello # "replayed"
  /\ None \notin Calls \cup {Hello}
  /\ MaxSess \in Nat \ {0}

Messages == Calls \cup {Hello}
Lines == Messages \cup {"replayed"}  \* with the handshake that is replayed
Sessions == 1..MaxSess

VARIABLES
  main,      \* the main thread
  engine,    \* the engine: "old", "new", or a newer one that is being adopted
  sess,      \* sessions opened so far; the last is the one it works on
  sock,      \* _sock: the session that is written to, or 0
  up,        \* _session_up
  lost,      \* _lost
  ready,     \* _ready
  reader,    \* reader[s]: the thread in _session_loop
  conn,      \* conn[s]: "open", or closed by the node ("eof") or here ("shut")
  fresh,     \* fresh[s]: lines of the node in s that are not read yet, in any order
  writer,    \* the thread of the Agent's lines: what it is doing
  queued,    \* the initialize request waits in _queued
  cached,    \* the initialize request is kept for the replay
  pending,   \* Recovery._pending
  uncertain, \* Recovery._uncertain
  failed,    \* Recovery._failed
  reached,   \* reached[x]: sessions in which the node received x
  answered,  \* answered[x]: sessions in which it answered x
  told,      \* told[m]: answers of the node written to the Agent
  errors,    \* errors[m]: errors of the connector written to the Agent
  astray     \* requests whose books and session disagree (history, see below)

mainVars == <<main, engine, sess, ready>>
sessVars == <<sock, up, lost, reader, conn>>
bookVars == <<pending, uncertain, failed>>
nodeVars == <<fresh, reached, answered>>
agentVars == <<writer, queued, cached, told, errors, astray>>
vars == <<mainVars, sessVars, bookVars, nodeVars, agentVars>>

Idle == [m |-> None, at |-> "reads", s |-> 0]
Books == pending \cup uncertain

\* Type correctness: threads and tables hold values of their kinds.
TypeOK ==
  /\ main \in {"opens", "waits", "drains", "notes", "marks", "runs", "hands", "over"}
  /\ engine \in {"old", "found", "bare", "new"}
  /\ sess \in 0..MaxSess /\ sock \in 0..MaxSess
  /\ up \in BOOLEAN /\ lost \in BOOLEAN /\ ready \in BOOLEAN
  /\ reader \in [Sessions -> {"off", "absorbs", "reads", "loses", "over"}]
  /\ conn \in [Sessions -> {"none", "open", "eof", "shut"}]
  /\ fresh \in [Sessions -> SUBSET Lines]
  /\ writer \in [m : Messages \cup {None},
                 at : {"off", "reads", "took", "queues", "sends", "sent", "noted", "missed", "ends"},
                 s : 0..MaxSess]
  /\ queued \in BOOLEAN /\ cached \in BOOLEAN
  /\ pending \subseteq Messages /\ uncertain \subseteq Messages /\ failed \subseteq Messages
  /\ reached \in [Lines -> SUBSET Sessions] /\ answered \in [Lines -> SUBSET Sessions]
  /\ told \in [Messages -> 0..1] /\ errors \in [Messages -> 0..1]
  /\ astray \subseteq Messages

Init ==
  /\ main = "opens" /\ engine = "old" /\ sess = 0 /\ sock = 0
  /\ up = FALSE /\ lost = FALSE /\ ready = FALSE
  /\ reader = [s \in Sessions |-> "off"] /\ conn = [s \in Sessions |-> "none"]
  /\ fresh = [s \in Sessions |-> {}]
  /\ writer = [Idle EXCEPT !.at = "off"]
  /\ queued = FALSE /\ cached = FALSE
  /\ pending = {} /\ uncertain = {} /\ failed = {}
  /\ reached = [x \in Lines |-> {}] /\ answered = [x \in Lines |-> {}]
  /\ told = [m \in Messages |-> 0] /\ errors = [m \in Messages |-> 0]
  /\ astray = {}

Seen(m) == \/ told[m] > 0 \/ errors[m] > 0 \/ reached[m] # {} \/ m \in Books
           \/ writer.m = m \/ m \in astray \/ (m = Hello /\ (queued \/ main = "notes"))

\* fail_once: those of ms that were not failed yet are answered with an error.
FailOnce(ms) ==
  /\ errors' = [m \in Messages |-> IF m \in ms \ failed THEN errors[m] + 1 ELSE errors[m]]
  /\ failed' = failed \cup ms

\* A request that is entered in the books goes astray when its answer was read
\* before, or when the loss of its session was reported before or will not be.
Strays(m, s) ==
  astray' = IF told[m] > 0 \/ reader[s] = "over" \/ conn[s] = "shut" THEN astray \cup {m} ELSE astray

-----------------------------------------------------------------------------
(* The lines of the Agent.                                                  *)

\* handle_agent keeps the handshake.
Take(m) ==
  /\ writer.at = "reads" /\ ~Seen(m)
  /\ cached' = (cached \/ m = Hello)
  /\ writer' = [Idle EXCEPT !.m = m, !.at = "took"]
  /\ UNCHANGED <<queued, told, errors, astray, bookVars, mainVars, sessVars, nodeVars>>

\* A request that finds no session is failed at once; the handshake waits for
\* the next.
Route ==
  /\ writer.at = "took"
  /\ \/ /\ up /\ sock # 0
        /\ writer' = [writer EXCEPT !.at = "sends", !.s = sock]
        /\ UNCHANGED <<failed, errors>>
     \/ /\ ~(up /\ sock # 0) /\ writer.m = Hello
        /\ writer' = [writer EXCEPT !.at = "queues"]
        /\ UNCHANGED <<failed, errors>>
     \/ /\ ~(up /\ sock # 0) /\ writer.m # Hello
        /\ writer' = Idle
        /\ FailOnce({writer.m})
  /\ UNCHANGED <<pending, uncertain, queued, cached, told, astray, mainVars, sessVars, nodeVars>>

\* A handshake that comes to the queue when it has been drained stays there.
Queue ==
  /\ writer.at = "queues"
  /\ writer' = Idle /\ queued' = TRUE
  /\ astray' = IF main = "marks" \/ (main = "runs" /\ up /\ sock # 0)
               THEN astray \cup {writer.m} ELSE astray
  /\ UNCHANGED <<cached, told, errors, bookVars, mainVars, sessVars, nodeVars>>

\* The line is sent; a socket the node has closed may still take it.
Send ==
  /\ writer.at = "sends"
  /\ \/ /\ conn[writer.s] = "open"
        /\ reached' = [reached EXCEPT ![writer.m] = @ \cup {writer.s}]
        /\ writer' = [writer EXCEPT !.at = "sent"]
     \/ /\ conn[writer.s] = "eof"
        /\ writer' = [writer EXCEPT !.at = "sent"] /\ UNCHANGED reached
     \/ /\ conn[writer.s] # "open"
        /\ writer' = [writer EXCEPT !.at = "missed"] /\ UNCHANGED reached
  /\ UNCHANGED <<bookVars, mainVars, sessVars, fresh, answered, queued, cached, told, errors, astray>>

\* Is the session it was sent on still the one?
Look ==
  /\ writer.at = "sent"
  /\ writer' = [writer EXCEPT !.at = IF sock = writer.s /\ up THEN "noted" ELSE "missed"]
  /\ UNCHANGED <<bookVars, mainVars, sessVars, nodeVars, queued, cached, told, errors, astray>>

\* remember_sent.
Notes ==
  /\ writer.at \in {"noted", "missed"}
  /\ writer' = Idle
  /\ pending' = IF writer.at = "noted" THEN pending \cup {writer.m} ELSE pending
  /\ uncertain' = IF writer.at = "missed" THEN uncertain \cup ({writer.m} \ failed) ELSE uncertain
  /\ Strays(writer.m, writer.s)
  /\ UNCHANGED <<failed, mainVars, sessVars, nodeVars, queued, cached, told, errors>>

StdinEnds ==
  /\ writer.at = "reads"
  /\ writer' = [writer EXCEPT !.at = "ends"]
  /\ UNCHANGED <<queued, cached, told, errors, astray, mainVars, sessVars, bookVars, nodeVars>>

-----------------------------------------------------------------------------
(* The node (its streams and what is behind them are in the other modules). *)

Answers(x, s) ==
  /\ s \in reached[x] \ answered[x] /\ conn[s] = "open"
  /\ fresh' = [fresh EXCEPT ![s] = @ \cup {x}]
  /\ answered' = [answered EXCEPT ![x] = @ \cup {s}]
  /\ UNCHANGED <<reached, mainVars, sessVars, bookVars, agentVars>>

\* The stream is closed: the node, the link or the server has gone.
NodeCloses(s) ==
  /\ conn[s] = "open"
  /\ conn' = [conn EXCEPT ![s] = "eof"]
  /\ UNCHANGED <<sock, up, lost, reader, mainVars, bookVars, nodeVars, agentVars>>

-----------------------------------------------------------------------------
(* The reader of a session.                                                 *)

\* An answer to the handshake, replayed or not, has the same id.
Greets(x) == x \in {Hello, "replayed"}

\* The first answer to the handshake goes no further.  What came before it is
\* written to the Agent then, and stays in the books.
Absorbs(s) ==
  /\ reader[s] = "absorbs"
  /\ \E x \in fresh[s] : \E before \in SUBSET (fresh[s] \cap Calls) :
       /\ Greets(x)
       /\ fresh' = [fresh EXCEPT ![s] = @ \ (before \cup {x})]
       /\ told' = [m \in Messages |-> IF m \in before THEN told[m] + 1 ELSE told[m]]
       /\ astray' = astray \cup before
  /\ reader' = [reader EXCEPT ![s] = "reads"]
  /\ ready' = TRUE
  /\ UNCHANGED <<main, engine, sess, sock, up, lost, conn, bookVars, reached, answered,
                 writer, queued, cached, errors>>

RequestOf(x) == IF Greets(x) THEN Hello ELSE x

\* Faulty variant: the answer is not crossed off.
ReadsUncrossed(s) ==
  /\ reader[s] = "reads"
  /\ \E x \in fresh[s] :
       /\ fresh' = [fresh EXCEPT ![s] = @ \ {x}]
       /\ told' = [told EXCEPT ![RequestOf(x)] = @ + 1]
  /\ UNCHANGED <<bookVars, mainVars, sessVars, reached, answered, writer, queued, cached, errors, astray>>

\* An answer is crossed off and written to the Agent.
Reads(s) ==
  /\ reader[s] = "reads"
  /\ \E x \in fresh[s] :
       /\ fresh' = [fresh EXCEPT ![s] = @ \ {x}]
       /\ pending' = pending \ {RequestOf(x)} /\ uncertain' = uncertain \ {RequestOf(x)}
       /\ told' = [told EXCEPT ![RequestOf(x)] = @ + 1]
  /\ UNCHANGED <<failed, mainVars, sessVars, reached, answered, writer, queued, cached, errors, astray>>

\* _on_session_lost, first part: the session ends, or the replay is not
\* answered in time, or more of the node arrives on a socket that was shut
\* here.  Whatever session it was, the one in use is down.  A process that is
\* about to end does no more.
Ends(s) ==
  /\ reader[s] \in {"absorbs", "reads"}
  /\ conn[s] # "open" \/ reader[s] = "absorbs"
  /\ sock' = IF sock = s THEN 0 ELSE sock
  /\ up' = FALSE
  /\ reader' = [reader EXCEPT ![s] = IF main = "over" THEN "over" ELSE "loses"]
  /\ conn' = [conn EXCEPT ![s] = IF @ = "open" THEN "shut" ELSE @]
  /\ UNCHANGED <<lost, mainVars, bookVars, nodeVars, agentVars>>

\* The reader of a session that is in use no more ends when nothing arrives.
EndsQuietly(s) ==
  /\ reader[s] \in {"absorbs", "reads"} /\ conn[s] # "eof" /\ fresh[s] = {} /\ sock # s
  /\ reader' = [reader EXCEPT ![s] = "over"]
  /\ conn' = [conn EXCEPT ![s] = "shut"]
  /\ astray' = astray \cup {m \in Messages : s \in reached[m] \ answered[m]}
  /\ UNCHANGED <<sock, up, lost, mainVars, bookVars, nodeVars, writer, queued, cached, told, errors>>

\* Faulty variant: what was lost with the session is not failed.
LosesQuietly(s) ==
  /\ reader[s] = "loses"
  /\ reader' = [reader EXCEPT ![s] = "over"] /\ lost' = TRUE
  /\ pending' = {} /\ uncertain' = {}
  /\ UNCHANGED <<failed, errors, astray, sock, up, conn, mainVars, nodeVars, writer, queued, cached, told>>

\* Second part: lost_requests and fail_once.  The books do not say in which
\* session a request was sent: one whose own session goes on goes astray.
Loses(s) ==
  /\ reader[s] = "loses"
  /\ reader' = [reader EXCEPT ![s] = "over"] /\ lost' = TRUE
  /\ FailOnce(Books)
  /\ astray' = astray \cup
       {m \in Books : \E t \in reached[m] \ {s} : reader[t] \in {"absorbs", "reads"}}
  /\ pending' = {} /\ uncertain' = {}
  /\ UNCHANGED <<sock, up, conn, mainVars, nodeVars, writer, queued, cached, told>>

-----------------------------------------------------------------------------
(* The main thread.                                                         *)

\* _maybe_reload_engine: when nothing is in the books, a new Recovery gets the
\* handshake.
Scanning == engine \in {"found", "bare"}

Finds ==
  /\ main \in {"opens", "runs"} /\ engine = "old" /\ Books = {}
  /\ engine' = IF cached THEN "found" ELSE "bare"
  /\ UNCHANGED <<main, sess, ready, sessVars, bookVars, nodeVars, agentVars>>

\* What was entered in the old books since then is forgotten.
Adopts ==
  /\ Scanning
  /\ engine' = "new" /\ main' = IF main = "runs" THEN "hands" ELSE main
  /\ pending' = {} /\ uncertain' = {} /\ failed' = {}
  /\ cached' = (engine = "found")
  /\ astray' = astray \cup Books
  /\ UNCHANGED <<sess, ready, sessVars, nodeVars, writer, queued, told, errors>>

\* _close_current: a fresh session for the new engine.
Hands ==
  /\ main = "hands"
  /\ main' = "runs" /\ lost' = TRUE /\ up' = FALSE /\ sock' = 0
  /\ conn' = [s \in Sessions |-> IF s = sock /\ conn[s] = "open" THEN "shut" ELSE conn[s]]
  /\ astray' = astray \cup Books
  /\ UNCHANGED <<engine, sess, ready, reader, bookVars, nodeVars, writer, queued, cached, told, errors>>

\* The node cannot be reached; the thread of the Agent's lines is started
\* after the first attempt.
Fails ==
  /\ main = "opens" /\ ~Scanning /\ writer.at = "off"
  /\ writer' = Idle
  /\ UNCHANGED <<queued, cached, told, errors, astray, mainVars, sessVars, bookVars, nodeVars>>

\* _establish: a session is opened, and the handshake replayed if there is one.
Opens ==
  /\ main = "opens" /\ ~Scanning /\ sess < MaxSess
  /\ writer.at # "ends" /\ (writer.at = "off" => sess = 0)
  /\ sess' = sess + 1 /\ sock' = sess + 1 /\ lost' = FALSE
  /\ conn' = [conn EXCEPT ![sess + 1] = "open"]
  /\ reader' = [reader EXCEPT ![sess + 1] = IF cached THEN "absorbs" ELSE "reads"]
  /\ reached' = [reached EXCEPT !["replayed"] = IF cached THEN @ \cup {sess + 1} ELSE @]
  /\ ready' = ~cached
  /\ main' = "waits"
  /\ UNCHANGED <<engine, up, bookVars, fresh, answered, agentVars>>

Waits ==
  /\ main = "waits" /\ (ready \/ lost)
  /\ main' = IF lost THEN "opens" ELSE "drains"
  /\ UNCHANGED <<engine, sess, ready, sessVars, bookVars, nodeVars, agentVars>>

\* What waits is sent first; if that fails it goes on waiting, for a new session.
DrainSends ==
  /\ main = "drains" /\ queued
  /\ cached' = TRUE
  /\ \/ /\ conn[sess] \in {"open", "eof"}
        /\ reached' = [reached EXCEPT ![Hello] = IF conn[sess] = "open" THEN @ \cup {sess} ELSE @]
        /\ queued' = FALSE /\ main' = "notes"
        /\ UNCHANGED sock
     \/ /\ conn[sess] # "open"
        /\ main' = "opens" /\ sock' = IF sock = sess THEN 0 ELSE sock
        /\ UNCHANGED <<reached, queued>>
  /\ UNCHANGED <<engine, sess, ready, up, lost, reader, conn, bookVars, fresh, answered,
                 writer, told, errors, astray>>

DrainNotes ==
  /\ main = "notes"
  /\ main' = "drains"
  /\ pending' = pending \cup {Hello}
  /\ Strays(Hello, sess)
  /\ UNCHANGED <<engine, sess, ready, sessVars, uncertain, failed, nodeVars, writer, queued, cached, told, errors>>

Drained ==
  /\ main = "drains" /\ ~queued
  /\ main' = "marks"
  /\ UNCHANGED <<engine, sess, ready, sessVars, bookVars, nodeVars, agentVars>>

\* The session is marked as up, whatever became of it meanwhile.
GoesUp ==
  /\ main = "marks"
  /\ up' = TRUE /\ main' = "runs"
  /\ writer' = IF writer.at = "off" THEN Idle ELSE writer
  /\ UNCHANGED <<engine, sess, ready, sock, lost, reader, conn, bookVars, nodeVars, queued, cached,
                 told, errors, astray>>

Reconnects ==
  /\ main = "runs" /\ ~Scanning /\ lost
  /\ lost' = FALSE /\ main' = "opens"
  /\ UNCHANGED <<engine, sess, ready, sock, up, reader, conn, bookVars, nodeVars, agentVars>>

\* The Agent's end of file: the session is drained, and the process ends.
Exits ==
  /\ writer.at = "ends" /\ main # "over" /\ ~Scanning
  /\ main' = "over" /\ up' = FALSE
  /\ UNCHANGED <<engine, sess, ready, sock, lost, reader, conn, bookVars, nodeVars, agentVars>>

-----------------------------------------------------------------------------
Writer == Route \/ Queue \/ Send \/ Look \/ Notes
Reader(s) == Absorbs(s) \/ Reads(s) \/ Ends(s) \/ EndsQuietly(s) \/ Loses(s)
Main ==
  \/ Adopts \/ Hands \/ Fails \/ Opens \/ Waits \/ DrainSends \/ DrainNotes \/ Drained \/ GoesUp
  \/ Reconnects \/ Exits

Next ==
  \/ Writer \/ Main \/ Finds \/ StdinEnds
  \/ \E m \in Messages : Take(m)
  \/ \E s \in Sessions : Reader(s) \/ NodeCloses(s) \/ \E x \in Lines : Answers(x, s)

Spec == Init /\ [][Next]_vars

\* The threads go on, and the node answers what it has while its stream is open.
Fairness ==
  /\ WF_vars(Writer) /\ WF_vars(Main)
  /\ \A s \in Sessions : WF_vars(Reader(s)) /\ \A x \in Lines : WF_vars(Answers(x, s))

FairSpec == Spec /\ Fairness

-----------------------------------------------------------------------------
(* Properties.                                                              *)

\* A request is answered twice, by the node and by the connector, only if it
\* went astray (_publish_agent_line, _on_session_lost, _maybe_reload_engine).
AnsweredTwiceIsAstray == \A m \in Messages : told[m] + errors[m] > 1 => m \in astray

\* Business calls are never replayed: the node receives each at most once, and
\* none of which the Agent was told that it is lost or was not delivered.
NeverReplayed ==
  [][\A m \in Calls : reached'[m] # reached[m] => reached[m] = {} /\ errors[m] = 0]_vars

Answered(m) ==
  \/ told[m] > 0 \/ errors[m] > 0 \/ writer.at = "ends"
  \/ m = Hello /\ main = "opens" /\ sess = MaxSess

\* Every request of the Agent that does not go astray is answered while it
\* keeps its end open, also when the session it was sent in is lost; the
\* handshake, unless the node is not reached again.
EachAnswered == \A m \in Messages : Seen(m) ~> Answered(m) \/ m \in astray

\* Claimed by connector_core.py:476-477 ("the loss handler fails it once if no
\* response ever arrives") and connector_engine.py:233-234 ("unless a response
\* already arrived"): a call has an answer or an error, not both.
AnsweredOnce == \A m \in Calls : told[m] + errors[m] <= 1

\* Claimed by docs/ARCHITECTURE.md:214-217 (what comes while disconnected is
\* delivered "only after the replayed handshake completes", or fails): no call
\* is sent in a session whose handshake is still being replayed.
HandshakeFirst ==
  [][\A m \in Calls, s \in Sessions : s \in reached'[m] \ reached[m] => reader[s] # "absorbs"]_vars

\* Claimed by docs/ARCHITECTURE.md:211-214: a call pending at the moment of loss,
\* or one whose send may have reached the node, "fails exactly once" (looked at
\* only while there is a session, or another one to come within the bound).
EachCallEnds ==
  \A m \in Calls : Seen(m) ~> Answered(m) \/ (main = "opens" /\ sess = MaxSess)
=============================================================================
