------------------------------ MODULE PeerLink -------------------------------
(***************************************************************************)
(* The one peer link of two bridge nodes: the connect loop of the          *)
(* initiator, the handlers of the acceptor, the handshake, the heartbeat   *)
(* and what a lost link does to the queries that cross it.                 *)
(* A connection is closed by one of its ends, or goes dead: nothing of it  *)
(* ever arrives again and nobody is told.                                  *)
(***************************************************************************)
EXTENDS Naturals, FiniteSets

CONSTANTS
  Conns,    \* connections; one that nobody holds is used again
  Queries,  \* registry queries and control requests of the initiator
  Deaths,   \* bound: connections that go dead
  Habits    \* behaviours considered, see AllHabits

\* "early": a connection may go dead before the handshake is over.  "stuffed":
\* the peer stops reading while more is to be written than a socket takes.
\* "ends": a node ends the link, closing its connection.
AllHabits == {"early", "stuffed", "ends"}

LinkAssumption == Deaths \in Nat /\ Habits \subseteq AllHabits

VARIABLES
  handler,    \* handler[c]: _accept_link, or its absence
  installing, \* link_installing of the acceptor
  caller,     \* the initiator: its connect loop
  current,    \* the connection it holds
  wire,       \* wire[c]: "open", closed by one of its ends, or "dead"
  stuffed,    \* writers of either end are blocked on a dead connection
  query,      \* query[q]: a caller in _remote_registry_query or _remote_control
  deaths      \* counter for the bound

vars == <<handler, installing, caller, current, wire, stuffed, query, deaths>>

\* Type correctness: handlers, the connect loop and the wires are in their states.
TypeOK ==
  /\ handler \in [Conns -> {"none", "refuses", "hello", "up", "failing", "over"}]
  /\ installing \in BOOLEAN
  /\ caller \in {"idle", "hello", "up", "failing"}
  /\ current \in Conns
  /\ wire \in [Conns -> {"open", "closed", "dead"}]
  /\ stuffed \subseteq Conns
  /\ query \in [Queries -> {"new", "asked", "answered", "failed"}]
  /\ deaths \in 0..Deaths

Init ==
  /\ handler = [c \in Conns |-> "none"] /\ installing = FALSE
  /\ caller = "idle" /\ current \in Conns
  /\ wire = [c \in Conns |-> "closed"] /\ stuffed = {}
  /\ query = [q \in Queries |-> "new"] /\ deaths = 0

\* One end of a connection is closed; the other learns of it unless it is dead.
Shut(w) == IF w = "dead" THEN "dead" ELSE "closed"

\* link_ready of the acceptor.
ready == \E c \in Conns : handler[c] = "up"

-----------------------------------------------------------------------------
(* The handshake.                                                           *)

\* _connect_loop: the next attempt.
Connect(c) ==
  /\ caller = "idle" /\ handler[c] \in {"none", "over"}
  /\ caller' = "hello" /\ current' = c
  /\ handler' = [handler EXCEPT ![c] = "none"]
  /\ wire' = [wire EXCEPT ![c] = "open"]
  /\ stuffed' = stuffed \ {c}
  /\ UNCHANGED <<installing, query, deaths>>

\* A handler of the acceptor begins; it refuses a second link, also while the
\* first is being installed or failed.
Accept(c) ==
  /\ caller = "hello" /\ c = current /\ handler[c] = "none" /\ wire[c] # "closed"
  /\ handler' = [handler EXCEPT ![c] = IF ready \/ installing THEN "refuses" ELSE "hello"]
  /\ installing' = (installing \/ ~ready)
  /\ UNCHANGED <<caller, current, wire, stuffed, query, deaths>>

\* The hello is read and answered: the link is ready at the acceptor.
Greet(c) ==
  /\ handler[c] = "hello" /\ wire[c] = "open"
  /\ handler' = [handler EXCEPT ![c] = "up"]
  /\ UNCHANGED <<installing, caller, current, wire, stuffed, query, deaths>>

\* hello_ok is read: the link is ready at the initiator.
Greeted ==
  /\ caller = "hello" /\ handler[current] = "up" /\ wire[current] = "open"
  /\ caller' = "up"
  /\ UNCHANGED <<handler, installing, current, wire, stuffed, query, deaths>>

\* hello_error: the connection is closed, and tried again after a while.
Refused(c) ==
  /\ handler[c] = "refuses"
  /\ handler' = [handler EXCEPT ![c] = "over"]
  /\ wire' = [wire EXCEPT ![c] = Shut(@)]
  /\ UNCHANGED <<installing, caller, current, stuffed, query, deaths>>

-----------------------------------------------------------------------------
(* The end of a link.                                                       *)

\* The node ends its side (or the process does, and its system closes for it).
Ends ==
  /\ "ends" \in Habits /\ caller = "up"
  /\ wire[current] = "open"
  /\ wire' = [wire EXCEPT ![current] = "closed"]
  /\ deaths < Deaths /\ deaths' = deaths + 1
  /\ UNCHANGED <<handler, installing, caller, current, stuffed, query>>

\* A connection goes dead, with writers waiting on it or without; the node of
\* the initiator may be gone with it, and another takes its place.
Dies(c) ==
  /\ deaths < Deaths /\ deaths' = deaths + 1
  /\ wire[c] = "open" /\ c = current
  /\ "early" \in Habits \/ (caller = "up" /\ handler[c] = "up")
  /\ wire' = [wire EXCEPT ![c] = "dead"]
  /\ \/ UNCHANGED stuffed
     \/ "stuffed" \in Habits /\ stuffed' = stuffed \cup {c}
  /\ \/ UNCHANGED <<caller, query>>
     \/ /\ caller' = "idle"
        /\ query' = [q \in Queries |-> IF query[q] = "asked" THEN "failed" ELSE query[q]]
  /\ UNCHANGED <<handler, installing, current>>

\* The read loop of the acceptor ends: end of file, or its heartbeat found the
\* peer silent and closed the transport, which takes what was to be written to
\* be written.
Loses(c) ==
  /\ handler[c] \in {"hello", "up"}
  /\ \/ wire[c] = "closed"
     \/ wire[c] = "dead" /\ handler[c] = "up" /\ c \notin stuffed
  /\ handler' = [handler EXCEPT ![c] = IF @ = "up" THEN "failing" ELSE "over"]
  /\ wire' = [wire EXCEPT ![c] = Shut(@)]
  /\ installing' = (installing /\ handler[c] = "up")
  /\ UNCHANGED <<caller, current, stuffed, query, deaths>>

\* Faulty variant: link_installing is not reset.
FailedInstalling(c) ==
  /\ handler[c] = "failing"
  /\ handler' = [handler EXCEPT ![c] = "over"]
  /\ UNCHANGED <<installing, caller, current, wire, stuffed, query, deaths>>

\* _fail_link_state is through: streams, transfers and backends are closed.  It
\* waits for each stream's Agent in turn.
Failed(c) ==
  /\ handler[c] = "failing"
  /\ handler' = [handler EXCEPT ![c] = "over"] /\ installing' = FALSE
  /\ UNCHANGED <<caller, current, wire, stuffed, query, deaths>>

\* The same at the initiator: whoever waits for an answer fails at once.
CallerLoses ==
  /\ caller \in {"hello", "up"}
  /\ \/ wire[current] = "closed"
     \/ wire[current] = "dead" /\ caller = "up" /\ current \notin stuffed
  /\ caller' = IF caller = "up" THEN "failing" ELSE "idle"
  /\ wire' = [wire EXCEPT ![current] = Shut(@)]
  /\ query' = [q \in Queries |-> IF query[q] = "asked" THEN "failed" ELSE query[q]]
  /\ UNCHANGED <<handler, installing, current, stuffed, deaths>>

CallerFailed ==
  /\ caller = "failing" /\ caller' = "idle"
  /\ UNCHANGED <<handler, installing, current, wire, stuffed, query, deaths>>

-----------------------------------------------------------------------------
(* Queries.                                                                 *)

\* A query waits for the link for a while; then it fails.
Query(q) ==
  /\ query[q] = "new"
  /\ query' = [query EXCEPT ![q] = IF caller = "up" THEN "asked" ELSE "failed"]
  /\ UNCHANGED <<handler, installing, caller, current, wire, stuffed, deaths>>

\* The peer works on it and the answer arrives.
Answered(q) ==
  /\ query[q] = "asked" /\ caller = "up"
  /\ wire[current] = "open" /\ handler[current] = "up"
  /\ query' = [query EXCEPT ![q] = "answered"]
  /\ UNCHANGED <<handler, installing, caller, current, wire, stuffed, deaths>>

\* Its timer expires.
Expires(q) ==
  /\ query[q] = "asked"
  /\ query' = [query EXCEPT ![q] = "failed"]
  /\ UNCHANGED <<handler, installing, caller, current, wire, stuffed, deaths>>

-----------------------------------------------------------------------------
Next ==
  \/ Greeted \/ Ends \/ CallerLoses \/ CallerFailed
  \/ \E c \in Conns :
       \/ Connect(c) \/ Accept(c) \/ Greet(c) \/ Refused(c)
       \/ Dies(c) \/ Loses(c) \/ Failed(c)
  \/ \E q \in Queries : Query(q) \/ Answered(q) \/ Expires(q)

Spec == Init /\ [][Next]_vars

\* Handlers and the connect loop go on, ends of files arrive, heartbeats fire.
Fairness ==
  /\ WF_vars(Greeted) /\ WF_vars(CallerLoses)
  /\ WF_vars(\E c \in Conns : Connect(c))
  /\ \A c \in Conns :
       WF_vars(Accept(c)) /\ WF_vars(Greet(c) \/ Refused(c) \/ Loses(c))

FairSpec == Spec /\ Fairness

\* What _fail_link_state waits for without a timeout: the Agents of the node's
\* streams take what is still to be written to their sockets (_close_stream).
AgentsRead == WF_vars(CallerFailed) /\ \A c \in Conns : WF_vars(Failed(c))

-----------------------------------------------------------------------------
(* Properties.                                                              *)

\* The acceptor has one link at a time: the next is not installed before the
\* state of the last has been failed, so nothing of the new one is swept away.
OneLink == Cardinality({c \in Conns : handler[c] \in {"hello", "up", "failing"}}) <= 1

\* Nobody waits for an answer over a link that is gone.
NoOrphanQuery == caller \in {"idle", "hello"} => \A q \in Queries : query[q] # "asked"

\* However connections end, the nodes are linked again, while Agents read what
\* is written to them (_accept_link, _connect_loop).
LinkComesBack ==
  AgentsRead => <>[](caller = "up" /\ handler[current] = "up" /\ wire[current] = "open")

\* Claimed by CHANGELOG.md:12-14: a peer that dies without closing its socket can
\* "no longer leave the survivor believing it is connected and refusing every
\* later handshake": it lets go of the lost link.
SurvivorLetsGo == installing /\ ~ready ~> ~installing \/ ready
=============================================================================
