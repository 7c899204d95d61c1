---------------------------- MODULE FacadeModern ----------------------------
(* The modern side of the stdio-to-HTTP facade: each POST owns one           *)
(* `bridge connect` subprocess, the proxy.  A worker slot is taken before    *)
(* the request is read, a place among the proxies before the subprocess is   *)
(* started.  A tools/call first asks for the tool's schema (preflight).  The *)
(* writer thread takes the one queued message to the subprocess; the handler *)
(* watches for the answer, the deadline, the client's disconnect, the stop   *)
(* of the server.  An error answer says whether the request may have been    *)
(* executed (outcomeUnknown), and is written after the proxy was closed.     *)
EXTENDS Naturals, Sequences, FiniteSets

CONSTANTS Posts,        \* requests, each sent at most once
          ToolCalls,    \* those that need a preflight
          MaxInflight,  \* worker slots, and places among the proxies
          None,
          Habits        \* "spawnFails", "exits", "survives" (a kill that
                        \* cannot be proved), "stops", "leaves", "bad" (a
                        \* request or a schema the facade refuses)

VARIABLES pc,           \* the handler of each POST
          slots, proxies,
          proc,         \* the subprocess of each POST
          outbound,     \* the message queued for the writer thread
          writer,       \* the writer thread
          started,      \* application_started
          reached,      \* ghost: bytes of the request are in the pipe
          inbound, failed, quiet, stopped, reply, serverStops
vars == <<pc, slots, proxies, proc, outbound, writer, started, reached, inbound, failed, quiet,
          stopped, reply, serverStops>>
pump == <<outbound, writer, started, reached>>

Unknown(p) == p \in started
Talking == {"preflight", "business"}
Alive(p) == proc[p] = "runs"

Init ==
  /\ pc = [p \in Posts |-> "idle"]
  /\ slots = {} /\ proxies = {}
  /\ proc = [p \in Posts |-> "none"]
  /\ outbound = [p \in Posts |-> None]
  /\ writer = [p \in Posts |-> "none"]
  /\ started = {} /\ reached = {}
  /\ inbound = [p \in Posts |-> <<>>]
  /\ failed = {} /\ quiet = {} /\ stopped = {}
  /\ reply = [p \in Posts |-> None]
  /\ serverStops = FALSE

(* process_request: without a free slot the request is refused unread.       *)
Accept(p) ==
  /\ pc[p] = "idle"
  /\ IF ~serverStops /\ Cardinality(slots) < MaxInflight
       THEN slots' = slots \cup {p} /\ pc' = [pc EXCEPT ![p] = "reads"] /\ UNCHANGED reply
       ELSE /\ pc' = [pc EXCEPT ![p] = "done"]
            /\ reply' = [reply EXCEPT ![p] = "untouched"]
            /\ UNCHANGED slots
  /\ UNCHANGED <<proxies, proc, pump, inbound, failed, quiet, stopped, serverStops>>

(* create_proxy: a place among the proxies, under the server's lock.         *)
CreateProxy(p) ==
  /\ pc[p] = "reads"
  /\ ~serverStops /\ Cardinality(proxies) < MaxInflight
  /\ proxies' = proxies \cup {p}
  /\ pc' = [pc EXCEPT ![p] = "spawns"]
  /\ UNCHANGED <<slots, proc, pump, inbound, failed, quiet, stopped, reply, serverStops>>

(* The request is refused before there is a proxy: malformed, out of time,   *)
(* the server stops, no place among the proxies.                             *)
RefuseUnread(p) ==
  /\ pc[p] = "reads"
  /\ "bad" \in Habits \/ serverStops \/ Cardinality(proxies) >= MaxInflight
  /\ pc' = [pc EXCEPT ![p] = "reports"]
  /\ UNCHANGED <<slots, proxies, proc, pump, inbound, failed, quiet, stopped, reply, serverStops>>

Spawn(p) ==
  /\ pc[p] = "spawns"
  /\ \/ /\ proc' = [proc EXCEPT ![p] = "runs"]
        /\ writer' = [writer EXCEPT ![p] = "idle"]
        /\ pc' = [pc EXCEPT ![p] = IF p \in ToolCalls THEN "preflight" ELSE "business"]
        /\ outbound' = [outbound EXCEPT ![p] = IF p \in ToolCalls THEN "preflight" ELSE "business"]
        /\ UNCHANGED proxies
     \/ /\ "spawnFails" \in Habits
        /\ proxies' = proxies \ {p}
        /\ pc' = [pc EXCEPT ![p] = "reports"]
        /\ UNCHANGED <<proc, writer, outbound>>
  /\ UNCHANGED <<slots, started, reached, inbound, failed, quiet, stopped, reply, serverStops>>

(* ---------------------------------------------------------------- writer - *)

(* Under the proxy's lock: nothing but a cancellation is begun once the      *)
(* proxy is closing, and the start of the business request is recorded first.*)
WriterTakes(p) ==
  /\ writer[p] = "idle" /\ outbound[p] # None
  /\ outbound' = [outbound EXCEPT ![p] = None]
  /\ LET job == outbound[p] IN
     IF p \in stopped
       THEN writer' = [writer EXCEPT ![p] = "over"] /\ UNCHANGED started
       ELSE IF p \in quiet /\ job # "cancel" THEN UNCHANGED <<writer, started>>
       ELSE /\ writer' = [writer EXCEPT ![p] = job]
            /\ started' = IF job = "business" THEN started \cup {p} ELSE started
  /\ UNCHANGED <<pc, slots, proxies, proc, reached, inbound, failed, quiet, stopped, reply, serverStops>>

WriterWrites(p) ==
  /\ writer[p] \in {"preflight", "business", "cancel"}
  /\ \/ /\ Alive(p)
        /\ writer' = [writer EXCEPT ![p] = "idle"]
        /\ reached' = IF writer[p] = "business" THEN reached \cup {p} ELSE reached
        /\ inbound' = IF writer[p] = "preflight" THEN [inbound EXCEPT ![p] = Append(@, "schema")] ELSE inbound
        /\ UNCHANGED failed
     \/ /\ ~Alive(p)
        /\ writer' = [writer EXCEPT ![p] = "over"]
        /\ failed' = IF p \in stopped THEN failed ELSE failed \cup {p}
        /\ UNCHANGED <<reached, inbound>>
  /\ UNCHANGED <<pc, slots, proxies, proc, outbound, started, quiet, stopped, reply, serverStops>>

(* ----------------------------------------------------------- the backend - *)

BackendAnswers(p) ==
  /\ Alive(p) /\ p \in reached
  /\ \A i \in 1 .. Len(inbound[p]) : inbound[p][i] # "answer"
  /\ pc[p] = "business"
  /\ inbound' = [inbound EXCEPT ![p] = Append(@, "answer")]
  /\ UNCHANGED <<pc, slots, proxies, proc, pump, failed, quiet, stopped, reply, serverStops>>

BackendExits(p) ==
  /\ "exits" \in Habits /\ Alive(p)
  /\ proc' = [proc EXCEPT ![p] = "over"]
  /\ inbound' = [inbound EXCEPT ![p] = Append(@, "exit")]
  /\ UNCHANGED <<pc, slots, proxies, pump, failed, quiet, stopped, reply, serverStops>>

(* --------------------------------------------------------------- handler - *)

(* _backend_exchange takes the next item: the schema lets the business       *)
(* request go, the answer goes to the client, the exit is an error.          *)
Receive(p) ==
  /\ pc[p] \in Talking /\ inbound[p] # <<>> /\ p \notin failed /\ ~serverStops
  /\ inbound' = [inbound EXCEPT ![p] = Tail(@)]
  /\ CASE Head(inbound[p]) = "schema" ->
            \/ /\ outbound[p] = None
               /\ outbound' = [outbound EXCEPT ![p] = "business"]
               /\ pc' = [pc EXCEPT ![p] = "business"]
               /\ UNCHANGED reply
            \/ /\ "bad" \in Habits \/ outbound[p] # None
               /\ pc' = [pc EXCEPT ![p] = "fails"]
               /\ UNCHANGED <<outbound, reply>>
       [] Head(inbound[p]) = "answer" ->
            /\ reply' = [reply EXCEPT ![p] = "answered"]
            /\ pc' = [pc EXCEPT ![p] = "fails"]
            /\ UNCHANGED outbound
       [] OTHER -> pc' = [pc EXCEPT ![p] = "fails"] /\ UNCHANGED <<outbound, reply>>
  /\ UNCHANGED <<slots, proxies, proc, writer, started, reached, failed, quiet, stopped, serverStops>>

(* Faulty: the answer is written before the proxy was closed.                *)
GiveUpTelling(p) ==
  /\ pc[p] \in Talking
  /\ pc' = [pc EXCEPT ![p] = "fails"]
  /\ reply' = [reply EXCEPT ![p] = IF Unknown(p) THEN "unknown" ELSE "untouched"]
  /\ UNCHANGED <<slots, proxies, proc, pump, inbound, failed, quiet, stopped, serverStops>>

(* _check_live: the deadline, a transport failure, the stop of the server;   *)
(* or the client has gone and is told nothing.                               *)
GiveUp(p) ==
  /\ pc[p] \in Talking
  /\ pc' = [pc EXCEPT ![p] = "fails"]
  /\ \/ UNCHANGED reply
     \/ "leaves" \in Habits /\ reply' = [reply EXCEPT ![p] = "gone"]
  /\ UNCHANGED <<slots, proxies, proc, pump, inbound, failed, quiet, stopped, serverStops>>

(* _ModernProxy.close, first half: no new message but the cancellation,      *)
(* which is queued when the queue has room.                                  *)
Hush(p) ==
  /\ p \in proxies \/ pc[p] = "fails"
  /\ pc[p] = "fails" \/ (serverStops /\ pc[p] \in Talking)
  /\ p \notin quiet
  /\ quiet' = quiet \cup {p}
  /\ outbound' = IF outbound[p] = None /\ Alive(p) /\ writer[p] # "none"
                   THEN [outbound EXCEPT ![p] = "cancel"] ELSE outbound
  /\ UNCHANGED <<pc, slots, proxies, proc, writer, started, reached, inbound, failed, stopped, reply,
                 serverStops>>

(* _ModernProxy.close, second half: the writer is stopped, the process is    *)
(* ended; the proxy keeps its place unless the process is proved gone.       *)
Kill(p) ==
  /\ p \in quiet /\ p \notin stopped
  /\ stopped' = stopped \cup {p}
  /\ \/ proc' = [proc EXCEPT ![p] = "over"] /\ proxies' = proxies \ {p}
     \/ "survives" \in Habits /\ Alive(p) /\ UNCHANGED <<proc, proxies>>
  /\ pc' = IF pc[p] = "fails" THEN [pc EXCEPT ![p] = "reports"] ELSE pc
  /\ UNCHANGED <<slots, pump, inbound, failed, quiet, reply, serverStops>>

(* shutdown_all closed the proxy before the handler noticed.                 *)
FindsClosed(p) ==
  /\ pc[p] = "fails" /\ p \in stopped
  /\ pc' = [pc EXCEPT ![p] = "reports"]
  /\ UNCHANGED <<slots, proxies, proc, pump, inbound, failed, quiet, stopped, reply, serverStops>>

(* A process that outlived its kill may end later; nobody takes note.        *)
DiesLater(p) ==
  /\ p \in stopped /\ Alive(p)
  /\ proc' = [proc EXCEPT ![p] = "over"]
  /\ UNCHANGED <<pc, slots, proxies, pump, inbound, failed, quiet, stopped, reply, serverStops>>

(* The handler writes the error, unless it has answered; after an error the  *)
(* `finally` closes once more, which may now succeed; the slot is freed.     *)
Report(p) ==
  /\ pc[p] = "reports"
  /\ \/ reply[p] = None /\ proc' = [proc EXCEPT ![p] = "over"] /\ proxies' = proxies \ {p}
     \/ reply[p] # None /\ UNCHANGED <<proc, proxies>>
     \/ "survives" \in Habits /\ Alive(p) /\ UNCHANGED <<proc, proxies>>
  /\ pc' = [pc EXCEPT ![p] = "done"]
  /\ slots' = slots \ {p}
  /\ reply' = IF reply[p] # None THEN reply
              ELSE [reply EXCEPT ![p] = IF Unknown(p) THEN "unknown" ELSE "untouched"]
  /\ UNCHANGED <<pump, inbound, failed, quiet, stopped, serverStops>>

StopServer ==
  /\ "stops" \in Habits /\ ~serverStops
  /\ serverStops' = TRUE
  /\ UNCHANGED <<pc, slots, proxies, proc, pump, inbound, failed, quiet, stopped, reply>>

Step(p) == CreateProxy(p) \/ RefuseUnread(p) \/ Spawn(p) \/ Hush(p) \/ Kill(p) \/ FindsClosed(p)
           \/ Report(p)
Next ==
  \/ StopServer
  \/ \E p \in Posts : \/ Accept(p) \/ CreateProxy(p) \/ RefuseUnread(p) \/ Spawn(p)
                      \/ WriterTakes(p) \/ WriterWrites(p) \/ BackendAnswers(p) \/ BackendExits(p)
                      \/ Receive(p) \/ GiveUp(p) \/ Hush(p) \/ Kill(p) \/ FindsClosed(p)
                      \/ DiesLater(p) \/ Report(p)

Spec == Init /\ [][Next]_vars

(* Handlers run and deadlines pass.  A write into a full pipe may never      *)
(* return, and the backend may never answer.                                 *)
Fairness == \A p \in Posts : WF_vars(Step(p)) /\ WF_vars(GiveUp(p))
FairSpec == Spec /\ Fairness

TypeOK ==
  /\ pc \in [Posts -> {"idle", "reads", "spawns", "preflight", "business", "fails", "reports", "done"}]
  /\ UNION {slots, proxies, started, reached, failed, quiet, stopped} \subseteq Posts
  /\ proc \in [Posts -> {"none", "runs", "over"}]
  /\ outbound \in [Posts -> {None, "preflight", "business", "cancel"}]
  /\ writer \in [Posts -> {"none", "idle", "over", "preflight", "business", "cancel"}]
  /\ reply \in [Posts -> {None, "answered", "untouched", "unknown", "gone"}]
  /\ serverStops \in BOOLEAN

(* A client told that its request was certainly not executed (an error       *)
(* without outcomeUnknown) is told the truth, now and later: no byte of the  *)
(* request has reached the backend, and none will.                           *)
UntouchedMeansUntouched == \A p \in Posts : reply[p] = "untouched" => p \notin reached

(* Never more subprocesses than max_inflight, also when one outlives its     *)
(* kill.                                                                     *)
ProcessesBounded == Cardinality({p \in Posts : Alive(p)}) <= MaxInflight

(* Every POST ends, whatever its backend and its client do.                  *)
EachPostEnds == \A p \in Posts : pc[p] # "idle" ~> pc[p] = "done"
=============================================================================
