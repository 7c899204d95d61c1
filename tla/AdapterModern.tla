---------------------------- MODULE AdapterModern ----------------------------
(* The modern stdio-to-HTTP adapter: every request is a POST of its own, on  *)
(* a pool thread, with a token (_ModernPending) that the reader thread, a    *)
(* timer and shutdown cancel and that the pool thread consults, under the    *)
(* token's lock, before each write to the remote or to the client.  The      *)
(* first reason to cancel stays; it also shuts the socket down, so that what *)
(* the pool thread waits for ends.                                           *)
EXTENDS Naturals, FiniteSets

CONSTANTS Requests,
          Tools,        \* the tools/call requests among them
          IdOf,         \* their JSON-RPC ids
          MaxInflight, None,
          Habits        \* "fails" (any exchange), "late" (the timer fires),
                        \* "cancels", "ends" (end of stdin)

AdapterAssumption ==
  /\ Tools \subseteq Requests
  /\ None \notin {"cancelled", "timeout", "refused", "safe", "unknown", "result", "error"}

VARIABLES pending,      \* _pending: the active requests
          pc, reason, started,      \* per request; the last two: its token
          got,          \* what the pool thread has read and not written yet
          unknown,      \* outcomeUnknown, as taken at the transport boundary
          main,         \* the reader thread
          delivered,    \* ghost: the remote has the whole business request
          reply, withdrawn      \* ghosts: the client's view
vars == <<pending, pc, reason, started, got, unknown, main, delivered, reply, withdrawn>>
token == <<reason, started>>
client == <<reply, withdrawn>>

Init ==
  /\ pending = {}
  /\ pc = [r \in Requests |-> "new"]
  /\ reason = [r \in Requests |-> None]
  /\ started = [r \in Requests |-> FALSE]
  /\ got = [r \in Requests |-> None]
  /\ unknown = [r \in Requests |-> FALSE]
  /\ main = "runs"
  /\ delivered = {}
  /\ reply = [r \in Requests |-> None]
  /\ withdrawn = {}

Goto(r, where) == pc' = [pc EXCEPT ![r] = where]

(* The transport boundary: the outcome is fixed when the error leaves it.    *)
Raise(r) ==
  /\ Goto(r, "raised")
  /\ unknown' = [unknown EXCEPT ![r] = started[r]]

(* ---------------------------------------------------------- reader thread *)

(* An active id is not answered a second time.                               *)
Handle(r) ==
  /\ main = "runs" /\ pc[r] = "new"
  /\ IF \E p \in pending : IdOf[p] = IdOf[r]
       THEN Goto(r, "ignored") /\ UNCHANGED <<pending, reply>>
       ELSE IF Cardinality(pending) >= MaxInflight
         THEN Goto(r, "over") /\ reply' = [reply EXCEPT ![r] = "refused"] /\ UNCHANGED pending
         ELSE Goto(r, "queued") /\ pending' = pending \cup {r} /\ UNCHANGED reply
  /\ UNCHANGED <<token, got, unknown, main, delivered, withdrawn>>

CancelToken(S, why) ==
  reason' = [r \in Requests |-> IF r \in S /\ reason[r] = None THEN why ELSE reason[r]]

Cancel(r) ==
  /\ "cancels" \in Habits
  /\ main = "runs" /\ r \in pending \ withdrawn
  /\ CancelToken({r}, "cancelled")
  /\ withdrawn' = withdrawn \cup {r}
  /\ UNCHANGED <<pending, pc, started, got, unknown, main, delivered, reply>>

(* shutdown cancels what is active and joins the pool.                       *)
Shutdown ==
  /\ "ends" \in Habits /\ main = "runs"
  /\ main' = "joins"
  /\ CancelToken(pending, "cancelled")
  /\ UNCHANGED <<pending, pc, started, got, unknown, delivered, client>>

Joined ==
  /\ main = "joins" /\ pending = {} /\ main' = "over"
  /\ UNCHANGED <<pending, pc, token, got, unknown, delivered, client>>

(* The timer of the exchange, or of a preflight page.                        *)
TimesOut(r) ==
  /\ "late" \in Habits
  /\ pc[r] \in {"probes", "connects", "posts", "body", "reads", "emits"}
  /\ reason[r] = None
  /\ CancelToken({r}, "timeout")
  /\ UNCHANGED <<pending, pc, started, got, unknown, main, delivered, client>>

(* ------------------------------------------------------------ pool thread *)

(* pending.check(), before the timer and after each wait.                    *)
Steps(r, from, to) ==
  /\ pc[r] = from
  /\ IF reason[r] = None THEN Goto(r, to) /\ UNCHANGED unknown ELSE Raise(r)
  /\ UNCHANGED <<pending, token, got, main, delivered, client>>

Work(r) == Steps(r, "queued", IF r \in Tools THEN "probes" ELSE "connects")
Preflight(r) == Steps(r, "probes", "connects")
Connect(r) == Steps(r, "connects", "posts")

(* The catalog has no usable schema of the tool: an error of its own kind,   *)
(* written without another look at the token.                                *)
PreflightRefuses(r) ==
  /\ "fails" \in Habits
  /\ pc[r] = "probes" /\ reason[r] = None
  /\ Goto(r, "refused")
  /\ UNCHANGED <<pending, token, got, unknown, main, delivered, client>>

Refused(r) ==
  /\ pc[r] = "refused" /\ Goto(r, "pops")
  /\ reply' = [reply EXCEPT ![r] = "safe"]
  /\ UNCHANGED <<pending, token, got, unknown, main, delivered, withdrawn>>

(* begin_business_send and the first write: the mark is set before a byte    *)
(* leaves.                                                                   *)
Send(r) ==
  /\ pc[r] = "posts"
  /\ IF reason[r] # None
       THEN Raise(r) /\ UNCHANGED started
       ELSE /\ Goto(r, "body")
            /\ started' = IF r \in Tools THEN [started EXCEPT ![r] = TRUE] ELSE started
            /\ UNCHANGED unknown
  /\ UNCHANGED <<pending, reason, got, main, delivered, client>>

(* The body; the remote may have it all although the write fails.            *)
SendBody(r) ==
  /\ pc[r] = "body"
  /\ IF reason[r] # None
       THEN Raise(r) /\ UNCHANGED delivered
       ELSE /\ delivered' = delivered \cup {r}
            /\ \/ Goto(r, "reads") /\ UNCHANGED unknown
               \/ "fails" \in Habits /\ Raise(r)
  /\ UNCHANGED <<pending, token, got, main, client>>

(* The response: a result, or one of the protocol errors that are passed on. *)
Receive(r) ==
  /\ pc[r] = "reads" /\ reason[r] = None
  /\ \E what \in {"result", "error"} : got' = [got EXCEPT ![r] = what]
  /\ Goto(r, "emits")
  /\ UNCHANGED <<pending, token, unknown, main, delivered, client>>

(* A connection that fails, an unusable response, or the socket shut down by *)
(* whoever cancelled.                                                        *)
Fails(r) ==
  /\ pc[r] \in {"probes", "connects", "posts", "body", "reads"}
  /\ "fails" \in Habits \/ reason[r] # None
  /\ Raise(r)
  /\ UNCHANGED <<pending, token, got, main, delivered, client>>

(* Faulty: the result is written after the lock is given back.               *)
EmitUnlocked(r) ==
  /\ pc[r] \in {"emits", "writing"}
  /\ IF pc[r] = "emits"
       THEN IF reason[r] # None THEN Raise(r) /\ UNCHANGED reply
                                ELSE Goto(r, "writing") /\ UNCHANGED <<reply, unknown>>
       ELSE Goto(r, "pops") /\ reply' = [reply EXCEPT ![r] = got[r]] /\ UNCHANGED unknown
  /\ UNCHANGED <<pending, token, got, main, delivered, withdrawn>>

(* emit: the token's lock is held for the write.                             *)
Emit(r) ==
  /\ pc[r] = "emits"
  /\ IF reason[r] # None
       THEN Raise(r) /\ UNCHANGED reply
       ELSE Goto(r, "pops") /\ reply' = [reply EXCEPT ![r] = got[r]] /\ UNCHANGED unknown
  /\ UNCHANGED <<pending, token, got, main, delivered, withdrawn>>

(* except HttpTransportError: silence when the client has cancelled.         *)
Silence(r) ==
  /\ pc[r] = "raised"
  /\ Goto(r, IF reason[r] = "cancelled" THEN "pops" ELSE "reports")
  /\ UNCHANGED <<pending, token, got, unknown, main, delivered, client>>

Report(r) ==
  /\ pc[r] = "reports" /\ Goto(r, "pops")
  /\ reply' = [reply EXCEPT ![r] = IF unknown[r] THEN "unknown" ELSE "safe"]
  /\ UNCHANGED <<pending, token, got, unknown, main, delivered, withdrawn>>

Pop(r) ==
  /\ pc[r] = "pops" /\ Goto(r, "over")
  /\ pending' = pending \ {r}
  /\ UNCHANGED <<token, got, unknown, main, delivered, client>>

Act(r) ==
  \/ Work(r) \/ Preflight(r) \/ Connect(r) \/ Refused(r) \/ Send(r) \/ SendBody(r) \/ Receive(r)
  \/ Emit(r) \/ (reason[r] # None /\ Fails(r)) \/ Silence(r) \/ Report(r) \/ Pop(r)
Next ==
  \/ \E r \in Requests :
       \/ Handle(r) \/ Cancel(r) \/ TimesOut(r) \/ Work(r) \/ Preflight(r) \/ PreflightRefuses(r)
       \/ Refused(r) \/ Connect(r) \/ Send(r) \/ SendBody(r) \/ Receive(r) \/ Fails(r) \/ Emit(r)
       \/ Silence(r) \/ Report(r) \/ Pop(r)
  \/ Shutdown \/ Joined

Spec == Init /\ [][Next]_vars
(* The pool threads run; a remote that never answers meets the timer, which  *)
(* is one of the two ways a wait ends.                                       *)
FairSpec == Spec /\ (\A r \in Requests : WF_vars(Act(r))) /\ WF_vars(Joined)

TypeOK ==
  /\ pending \subseteq Requests /\ Cardinality(pending) <= MaxInflight
  /\ pc \in [Requests -> {"new", "queued", "ignored", "probes", "connects", "posts", "body", "reads",
                          "emits", "refused", "raised", "reports", "pops", "over"}]
  /\ reason \in [Requests -> {None, "cancelled", "timeout"}]
  /\ started \in [Requests -> BOOLEAN] /\ unknown \in [Requests -> BOOLEAN]
  /\ got \in [Requests -> {None, "result", "error"}]
  /\ main \in {"runs", "joins", "over"}
  /\ delivered \subseteq Requests /\ withdrawn \subseteq Requests
  /\ reply \in [Requests -> {None, "refused", "safe", "unknown", "result", "error"}]

(* The client of a tools/call that failed without outcomeUnknown may send it *)
(* again: the remote never had it, and will not have it later.               *)
SafeMeansUnsent == \A r \in Tools : reply[r] \in {"safe", "refused"} => r \notin delivered

(* Once the adapter has taken a cancellation, the client sees no result of   *)
(* that request.                                                             *)
NoResultAfterCancel ==
  [][\A r \in withdrawn : reply'[r] # reply[r] => reply'[r] \notin {"result", "error"}]_vars

(* A cancelled request is not answered at all.                               *)
CancelledIsSilent == [][\A r \in withdrawn : reply'[r] = reply[r]]_vars

(* Every request that was taken is answered, unless the client took it back  *)
(* or has gone; and the adapter ends when its client does.                   *)
EachRequestEnds ==
  /\ \A r \in Requests : pc[r] = "queued" ~> (reply[r] # None \/ r \in withdrawn \/ main # "runs")
  /\ main = "joins" ~> main = "over"
=============================================================================
