---------------------------- MODULE HttpAdapter ----------------------------
(* The legacy stdio-to-HTTP adapter: one remote session, used by a pool of   *)
(* threads that POST the client's messages and by one thread that keeps a    *)
(* GET event stream open.  Each sender uses the session it read when it      *)
(* started.  A 404 means that the remote has forgotten that session: whoever *)
(* sees it compares the session it used with the current one, and at most    *)
(* one of them at a time initializes afresh under the re-initialize lock.    *)
EXTENDS Naturals, FiniteSets

CONSTANTS Calls,        \* request messages of the client
          Notes,        \* notifications and responses of the client
          Stream,       \* the GET stream's thread
          MaxSessions,  \* bound on the sessions the remote opens
          None,
          Habits        \* "loses" (the remote forgets a session), "fails"
                        \* (any exchange may end in an error), "ends" (EOF)

Senders == Calls \cup Notes \cup {Stream}

VARIABLES session, initialized,     \* the client object's state, under _lock
          reinit,                   \* holder of _reinit_lock
          pc, used, got, retried,   \* per sender
          executed, answered,       \* ghosts: remote executions, answers
          made, live,               \* the remote's sessions 1 .. made
          main, deleting            \* the stdin reader and its shutdown
vars == <<session, initialized, reinit, pc, used, got, retried, executed, answered, made, live,
          main, deleting>>
client == <<session, initialized>>
remote == <<made, live>>
ghosts == <<executed, answered>>
reader == <<main, deleting>>

Init ==
  /\ session = 0 /\ initialized = FALSE /\ reinit = None
  /\ pc = [x \in Senders |-> "idle"]
  /\ used = [x \in Senders |-> 0]
  /\ got = [x \in Senders |-> 0]
  /\ retried = {}
  /\ executed = [c \in Calls |-> 0]
  /\ answered = [c \in Calls |-> 0]
  /\ made = 0 /\ live = {}
  /\ main = "starts" /\ deleting = 0

Goto(x, where) == pc' = [pc EXCEPT ![x] = where]
Answered(x) == IF x \in Calls THEN [answered EXCEPT ![x] = @ + 1] ELSE answered
Executed(x) == IF x \in Calls THEN [executed EXCEPT ![x] = @ + 1] ELSE executed

(* The client's own initialize runs on the reader thread before all else.    *)
Initialize ==
  /\ main = "starts" /\ main' = "runs"
  /\ made' = 1 /\ live' = {1}
  /\ session' = 1 /\ initialized' = TRUE
  /\ UNCHANGED <<reinit, pc, used, got, retried, ghosts, deleting>>

(* A pool thread, or the stream's loop, starts an exchange on the session it *)
(* sees now.                                                                 *)
Begin(x) ==
  /\ main = "runs" /\ pc[x] = "idle"
  /\ x = Stream => session # 0
  /\ used' = [used EXCEPT ![x] = session]
  /\ Goto(x, "posts")
  /\ UNCHANGED <<client, reinit, got, retried, ghosts, remote, reader>>

(* -------------------------------------------------------------- exchange - *)

(* The remote knows the session: a call is executed and its answer relayed;  *)
(* the event stream stays open until it is interrupted.                      *)
Served(x) ==
  /\ pc[x] = "posts" /\ used[x] \in live
  /\ executed' = Executed(x)
  /\ answered' = Answered(x)
  /\ Goto(x, IF x = Stream THEN "streams" ELSE "done")
  /\ UNCHANGED <<client, reinit, used, got, retried, remote, reader>>

(* Faulty: every failure, not only the loss of the session, is retried.      *)
FailedRetries(x) ==
  /\ "fails" \in Habits
  /\ pc[x] = "posts"
  /\ executed' \in {executed, Executed(x)}
  /\ IF x \in Calls \ retried
       THEN Goto(x, "retries") /\ UNCHANGED answered
       ELSE Goto(x, "done") /\ answered' = Answered(x)
  /\ UNCHANGED <<client, reinit, used, got, retried, remote, reader>>

(* A connection error, a timeout or another status: the call is answered     *)
(* with an error, whether or not the remote executed it.                     *)
Failed(x) ==
  /\ "fails" \in Habits
  /\ pc[x] = "posts"
  /\ executed' \in {executed, Executed(x)}
  /\ answered' = Answered(x)
  /\ Goto(x, IF x = Stream THEN "idle" ELSE "done")
  /\ UNCHANGED <<client, reinit, used, got, retried, remote, reader>>

Interrupted ==
  /\ pc[Stream] = "streams"
  /\ "fails" \in Habits \/ used[Stream] \notin live
  /\ Goto(Stream, "idle")
  /\ UNCHANGED <<client, reinit, used, got, retried, ghosts, remote, reader>>

(* HTTP 404.  The second time, a call is answered with the error.            *)
SessionGone(x) ==
  /\ pc[x] = "posts" /\ used[x] \notin live
  /\ IF x \in retried THEN Goto(x, "done") /\ answered' = Answered(x)
                      ELSE Goto(x, "lost") /\ UNCHANGED answered
  /\ UNCHANGED <<client, reinit, used, got, retried, executed, remote, reader>>

(* -------------------------------------------------------------- recovery - *)

(* First critical section of _recover_session_loss: somebody else may have   *)
(* opened a newer session already.                                           *)
Compare(x) ==
  /\ pc[x] = "lost"
  /\ Goto(x, IF initialized /\ session # 0 /\ session # used[x] THEN "retries" ELSE "clears")
  /\ UNCHANGED <<client, reinit, used, got, retried, ghosts, remote, reader>>

(* Faulty: what was true a moment ago is taken for true.                     *)
ClearBlindly(x) ==
  /\ pc[x] = "clears"
  /\ session' = 0 /\ initialized' = FALSE
  /\ Goto(x, "reinits")
  /\ UNCHANGED <<reinit, used, got, retried, ghosts, remote, reader>>

(* Second critical section: the comparison again, then the session is given  *)
(* up.                                                                       *)
Clear(x) ==
  /\ pc[x] = "clears"
  /\ IF session = used[x] \/ ~initialized
       THEN session' = 0 /\ initialized' = FALSE
       ELSE UNCHANGED client
  /\ Goto(x, "reinits")
  /\ UNCHANGED <<reinit, used, got, retried, ghosts, remote, reader>>

(* reinitialize_session, under _reinit_lock: nothing to do when another      *)
(* thread has just done it.                                                  *)
Reinitialize(x) ==
  /\ pc[x] = "reinits" /\ reinit = None
  /\ IF initialized /\ session # 0
       THEN Goto(x, "retries") /\ UNCHANGED <<client, reinit>>
       ELSE /\ reinit' = x
            /\ session' = 0 /\ initialized' = FALSE
            /\ Goto(x, "probes")
  /\ UNCHANGED <<used, got, retried, ghosts, remote, reader>>

(* The fresh initialize reaches the remote, outside _lock.                   *)
Probe(x) ==
  /\ pc[x] = "probes"
  /\ IF made < MaxSessions
       THEN /\ made' = made + 1 /\ live' = live \cup {made + 1}
            /\ got' = [got EXCEPT ![x] = made + 1]
            /\ Goto(x, "adopts")
       ELSE Goto(x, "abandons") /\ UNCHANGED <<remote, got>>
  /\ UNCHANGED <<client, reinit, used, retried, ghosts, reader>>

Adopt(x) ==
  /\ pc[x] = "adopts"
  /\ session' = got[x] /\ initialized' = TRUE
  /\ reinit' = None
  /\ Goto(x, "retries")
  /\ UNCHANGED <<used, got, retried, ghosts, remote, reader>>

(* The fresh initialize failed: an error for the call.                       *)
Abandon(x) ==
  /\ \/ pc[x] = "abandons"
     \/ "fails" \in Habits /\ pc[x] \in {"probes", "adopts"}
  /\ reinit' = None
  /\ answered' = Answered(x)
  /\ Goto(x, IF x = Stream THEN "idle" ELSE "done")
  /\ UNCHANGED <<client, used, got, retried, executed, remote, reader>>

(* One more attempt for a call; a notification is not sent again; the stream *)
(* goes round its loop.                                                      *)
Retry(x) ==
  /\ pc[x] = "retries"
  /\ IF x \in Calls
       THEN /\ used' = [used EXCEPT ![x] = session]
            /\ retried' = retried \cup {x}
            /\ Goto(x, "posts")
       ELSE /\ Goto(x, IF x = Stream THEN "idle" ELSE "done")
            /\ UNCHANGED <<used, retried>>
  /\ UNCHANGED <<client, reinit, got, ghosts, remote, reader>>

(* -------------------------------------------------- the end and the remote *)

Lose(n) ==
  /\ "loses" \in Habits /\ n \in live
  /\ live' = live \ {n}
  /\ UNCHANGED <<client, reinit, pc, used, got, retried, ghosts, made, reader>>

(* shutdown: terminate_session takes the current session and deletes it.     *)
(* The pool's threads that run keep running; what is queued is dropped.      *)
End ==
  /\ "ends" \in Habits /\ main = "runs"
  /\ main' = "deletes" /\ deleting' = session
  /\ UNCHANGED <<client, reinit, pc, used, got, retried, ghosts, remote>>

EndDelete ==
  /\ main = "deletes" /\ main' = "ended"
  /\ live' = live \ {deleting}
  /\ session' = 0 /\ initialized' = FALSE
  /\ UNCHANGED <<reinit, pc, used, got, retried, ghosts, made, deleting>>

Act(x) == Served(x) \/ Failed(x) \/ SessionGone(x) \/ Compare(x) \/ Clear(x) \/ Reinitialize(x)
          \/ Probe(x) \/ Adopt(x) \/ Abandon(x) \/ Retry(x)

Next ==
  \/ Initialize \/ Interrupted \/ End \/ EndDelete
  \/ \E x \in Senders : \/ Begin(x) \/ Served(x) \/ Failed(x) \/ SessionGone(x) \/ Compare(x)
                        \/ Clear(x) \/ Reinitialize(x) \/ Probe(x) \/ Adopt(x) \/ Abandon(x)
                        \/ Retry(x)
  \/ \E n \in live : Lose(n)

Spec == Init /\ [][Next]_vars
(* Every exchange ends, in an answer or in its timeout.                      *)
Fairness == \A x \in Calls \cup Notes : WF_vars(Act(x))
FairSpec == Spec /\ Fairness /\ WF_vars(Act(Stream))

TypeOK ==
  /\ session \in 0 .. MaxSessions /\ initialized \in BOOLEAN
  /\ reinit \in Senders \cup {None}
  /\ pc \in [Senders -> {"idle", "posts", "streams", "lost", "clears", "reinits", "probes", "adopts",
                         "abandons", "retries", "done"}]
  /\ used \in [Senders -> 0 .. MaxSessions] /\ got \in [Senders -> 0 .. MaxSessions]
  /\ retried \subseteq Calls
  /\ made \in 0 .. MaxSessions /\ live \subseteq 1 .. made
  /\ main \in {"starts", "runs", "deletes", "ended"} /\ deleting \in 0 .. MaxSessions
  /\ (reinit # None) = (\E x \in Senders : pc[x] \in {"probes", "adopts", "abandons"})

(* While the adapter holds a session the remote knows, no late 404 of an     *)
(* older session takes it away, and nobody opens another one.                *)
HealthySessionStays ==
  [][(session \in live /\ main = "runs") => (session' = session /\ made' = made)]_vars

(* The remote executes each call at most once, retry included, and the       *)
(* client gets at most one answer to it.                                     *)
OnceEach == \A c \in Calls : executed[c] <= 1 /\ answered[c] <= 1

(* Each call that was begun is answered.                                     *)
EachAnswered == \A c \in Calls : pc[c] = "posts" ~> answered[c] = 1

(* When the adapter is over, so is every session it opened and was told of.  *)
NothingLeftOpen ==
  (main = "ended" /\ \A x \in Senders : pc[x] \in {"idle", "streams", "done"}) => live = {}
=============================================================================
