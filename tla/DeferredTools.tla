---------------------------- MODULE DeferredTools ----------------------------
(* The deferred tools facade: one thread serves the client's requests in     *)
(* order and makes at most one exchange at a time on a downstream connection *)
(* that it opens on demand; the connection's reader thread takes answers and *)
(* catalog changes; the input thread forwards cancellations.  The catalog is *)
(* cached between calls; an epoch tells whether it changed during a refresh. *)
EXTENDS Naturals, Sequences, SequencesExt

CONSTANTS Hello, Expands, Calls, Collapses,     \* the client's requests
          Pages,                \* pages of the catalog
          MaxReal, MaxPeers,    \* bounds: catalog changes, connections
          None,
          Habits                \* "drops" (connections end), "late", "refused",
                                \* "cancels", "contract" (other initialize answer)

Requests == {Hello} \cup Expands \cup Calls \cup Collapses

VARIABLES asked, withdrawn, inbound, cancelling, \* the input thread
          inflight, expanded, catalog, epoch, \* the session, under its lock
          peer, closed, pending, event,     \* the connection, under its lock
          pc, cur, seen, pages,             \* the serving thread
          tidying,                          \* failures not yet made known
          real, back, owed,                 \* downstream, and what it has sent
          sent, struck, reply               \* ghosts
vars == <<asked, withdrawn, inbound, cancelling, inflight, expanded, catalog, epoch, peer, closed, pending, event,
          pc, cur, seen, pages, tidying, real, back, owed, sent, struck, reply>>
input == <<asked, withdrawn, inbound, cancelling>>
view == <<expanded, catalog, epoch>>
link == <<peer, closed>>
exchange == <<pending, event>>
serving == <<pc, cur, seen, pages>>
down == <<real, back, owed>>
ghosts == <<sent, struck, reply>>

Idle == [step |-> "idle", of |-> None, on |-> 0]
Quiet == [of |-> None, what |-> None]
Unset == <<"unset", 0>>
Failure == <<"failed", 0>>
Changed == <<"changed", 0>>

Init ==
  /\ asked = {} /\ withdrawn = {} /\ inbound = <<>> /\ cancelling = Idle
  /\ inflight = None /\ expanded = FALSE /\ catalog = None /\ epoch = 0
  /\ peer = 0 /\ closed = TRUE /\ pending = Quiet /\ event = Unset
  /\ pc = "idle" /\ cur = None /\ seen = 0 /\ pages = <<>>
  /\ tidying = 0
  /\ real = 0 /\ back = <<>> /\ owed = FALSE
  /\ sent = {} /\ struck = {} /\ reply = [r \in Requests |-> None]

(* ----------------------------------------------------------- input thread *)

Ask(r) ==
  /\ r \notin asked /\ (r # Hello => reply[Hello] = "ok")
  /\ asked' = asked \cup {r}
  /\ inbound' = Append(inbound, r)
  /\ UNCHANGED <<withdrawn, cancelling, inflight, view, link, exchange, serving, tidying, down, ghosts>>

(* cancel, first half, under the session's lock.                             *)
Cancel(r) ==
  /\ "cancels" \in Habits
  /\ cancelling.step = "idle" /\ r \in asked \ ({Hello} \cup withdrawn)
  /\ withdrawn' = withdrawn \cup {r}
  /\ cancelling' = IF peer # 0 /\ inflight = r THEN [step |-> "acts", of |-> r, on |-> peer] ELSE Idle
  /\ UNCHANGED <<asked, inbound, inflight, view, link, exchange, serving, tidying, down, ghosts>>

(* Second half: whatever exchange that connection has in flight now.         *)
CancelPending ==
  /\ cancelling.step = "acts"
  /\ cancelling' = Idle
  /\ struck' = IF cancelling.on = peer /\ ~closed /\ pending # Quiet
                 THEN struck \cup {<<pending.of, cancelling.of>>} ELSE struck
  /\ UNCHANGED <<asked, withdrawn, inbound, inflight, view, link, exchange, serving, tidying, down, sent, reply>>

(* --------------------------------------------------------- the connection *)

(* _invalidate, from whichever thread.                                       *)
Invalidate == epoch' = epoch + 1 /\ catalog' = None /\ UNCHANGED expanded

(* _fail, under the lock: the waiting exchange fails with the connection.    *)
FailPeer ==
  /\ closed' = TRUE
  /\ event' = IF pending # Quiet /\ event = Unset THEN Failure ELSE event
  /\ back' = <<>> /\ owed' = FALSE

(* The reader thread at the end of the connection, or a cancellation that    *)
(* could not be written.                                                     *)
Drop ==
  /\ "drops" \in Habits /\ ~closed
  /\ FailPeer
  /\ tidying' = tidying + 1
  /\ UNCHANGED <<input, inflight, view, peer, pending, serving, real, ghosts>>

(* The rest of _fail, outside the lock.                                      *)
Tidy ==
  /\ tidying > 0 /\ tidying' = tidying - 1
  /\ Invalidate
  /\ UNCHANGED <<input, inflight, link, exchange, serving, down, ghosts>>

(* The reader thread takes the next message.                                 *)
ReceiveChange ==
  /\ ~closed /\ back # <<>> /\ Head(back) = Changed
  /\ back' = Tail(back)
  /\ Invalidate
  /\ UNCHANGED <<input, inflight, link, exchange, serving, tidying, real, owed, ghosts>>

ReceiveAnswer ==
  /\ ~closed /\ back # <<>> /\ Head(back) # Changed
  /\ back' = Tail(back)
  /\ event' = Head(back)
  /\ UNCHANGED <<input, inflight, view, link, pending, serving, tidying, real, owed, ghosts>>

(* ------------------------------------------------------------- downstream *)

(* The version of the catalog an answer was made from goes with it.          *)
Answer ==
  /\ ~closed /\ owed
  /\ owed' = FALSE
  /\ back' = Append(back, <<"answer", real>>)
  /\ UNCHANGED <<input, inflight, view, link, exchange, serving, tidying, real, ghosts>>

Change ==
  /\ real < MaxReal /\ real' = real + 1
  /\ back' = IF closed THEN back ELSE Append(back, Changed)
  /\ UNCHANGED <<input, inflight, view, link, exchange, serving, tidying, owed, ghosts>>

(* --------------------------------------------------------- serving thread *)

Goto(where) == pc' = where /\ UNCHANGED <<cur, seen>>
Done(why) ==
  /\ pc' = "idle" /\ cur' = None /\ inflight' = None /\ pages' = <<>>
  /\ reply' = [reply EXCEPT ![cur] = why]
  /\ UNCHANGED seen

Serve ==
  /\ pc = "idle" /\ inbound # <<>>
  /\ inbound' = Tail(inbound)
  /\ cur' = Head(inbound) /\ inflight' = Head(inbound)
  /\ pc' = CASE Head(inbound) \in Collapses -> "collapses"
             [] Head(inbound) \in Calls /\ ~expanded -> "refuses"
             [] OTHER -> "connects"
  /\ UNCHANGED <<asked, withdrawn, cancelling, view, link, exchange, seen, pages, tidying, down, ghosts>>

Refuse ==
  /\ pc = "refuses" /\ Done("safe")
  /\ UNCHANGED <<input, view, link, exchange, tidying, down, sent, struck>>

Collapse ==
  /\ pc = "collapses"
  /\ expanded' = FALSE /\ catalog' = None /\ epoch' = epoch + 1
  /\ Done("ok")
  /\ UNCHANGED <<input, link, exchange, tidying, down, sent, struck>>

(* _connect: the open connection, or a new one.                              *)
Connected ==
  /\ pc = "connects" /\ ~closed
  /\ Goto(IF cur = Hello THEN "greets" ELSE "looks")
  /\ UNCHANGED <<input, inflight, view, link, exchange, pages, tidying, down, ghosts>>

Dial ==
  /\ pc = "connects" /\ closed /\ peer < MaxPeers
  /\ peer' = peer + 1 /\ closed' = FALSE
  /\ back' = <<>> /\ owed' = FALSE
  /\ Goto("asks init")
  /\ UNCHANGED <<input, inflight, view, exchange, pages, tidying, real, ghosts>>

DialFails ==
  /\ pc = "connects" /\ closed
  /\ "refused" \in Habits \/ peer = MaxPeers
  /\ Invalidate /\ Done("safe")
  /\ UNCHANGED <<input, link, exchange, tidying, down, sent, struck>>

(* request: the exchange is registered, and written.                         *)
What == CASE pc = "asks init" -> "init" [] pc = "asks list" -> "list" [] OTHER -> "call"
Begin ==
  /\ pc \in {"asks init", "asks list", "asks call"}
  /\ IF closed
       THEN Goto(IF What = "list" THEN "abandons" ELSE "gives up") /\ UNCHANGED exchange
       ELSE pending' = [of |-> cur, what |-> What] /\ event' = Unset /\ Goto("sends")
  /\ UNCHANGED <<input, inflight, view, link, pages, tidying, down, ghosts>>

(* The write may fail although downstream has the message.                   *)
Send ==
  /\ pc = "sends"
  /\ IF closed
       THEN UNCHANGED <<owed, sent>>
       ELSE owed' = TRUE /\ sent' = IF pending.what = "call" THEN sent \cup {cur} ELSE sent
  /\ Goto("waits")
  /\ UNCHANGED <<input, inflight, view, link, exchange, pages, tidying, real, back, struck, reply>>

TooLarge ==
  /\ pc = "sends" /\ pending.what = "call"
  /\ pending' = Quiet /\ UNCHANGED event
  /\ Goto("gives up")
  /\ UNCHANGED <<input, inflight, view, link, pages, tidying, down, ghosts>>

(* The write fails, or the answer is late: the connection is given up.       *)
GivesUp ==
  /\ pc = "waits" /\ event = Unset /\ ~closed /\ "late" \in Habits
  /\ FailPeer
  /\ Goto("tidies")
  /\ UNCHANGED <<input, inflight, view, peer, pending, pages, tidying, real, ghosts>>

Tidies ==
  /\ pc = "tidies" /\ Invalidate /\ Goto("waits")
  /\ UNCHANGED <<input, inflight, link, exchange, pages, tidying, down, ghosts>>

(* The exchange ends; a call whose connection failed has no known outcome.   *)
Ended ==
  /\ pc = "waits" /\ event # Unset
  /\ pending' = Quiet /\ event' = Unset

Failed ==
  /\ Ended /\ event = Failure
  /\ IF pending.what = "call"
       THEN Done("unknown")
       ELSE /\ Goto(IF pending.what = "list" THEN "abandons" ELSE "gives up")
            /\ UNCHANGED <<pages, inflight, reply>>
  /\ UNCHANGED <<input, view, link, tidying, down, sent, struck>>

(* Nothing was sent of the call itself; a refresh that failed invalidates.  *)
GiveUp ==
  /\ pc \in {"gives up", "abandons"}
  /\ Done("safe")
  /\ IF pc = "abandons" THEN Invalidate ELSE UNCHANGED view
  /\ UNCHANGED <<input, link, exchange, tidying, down, sent, struck>>

(* The new connection speaks as the first one did, or is closed again.       *)
Initialized ==
  /\ Ended /\ event # Failure /\ pending.what = "init"
  /\ IF closed
       THEN Goto("gives up") /\ UNCHANGED view
       ELSE Invalidate /\ Goto(IF cur = Hello THEN "greets" ELSE "looks")
  /\ UNCHANGED <<input, inflight, link, pages, tidying, down, ghosts>>

ContractChanged ==
  /\ "contract" \in Habits /\ peer > 1
  /\ Ended /\ event # Failure /\ pending.what = "init"
  /\ closed' = TRUE /\ back' = <<>> /\ owed' = FALSE
  /\ Invalidate /\ Done("safe")
  /\ UNCHANGED <<input, peer, tidying, real, sent, struck>>

Greet ==
  /\ pc = "greets" /\ Done("ok")
  /\ UNCHANGED <<input, view, link, exchange, tidying, down, sent, struck>>

(* _catalog: the cached one, or page by page.                                *)
Look ==
  /\ pc = "looks"
  /\ seen' = epoch /\ pages' = <<>>
  /\ pc' = IF catalog = None THEN "asks list" ELSE IF cur \in Calls THEN "asks call" ELSE "expands"
  /\ UNCHANGED <<input, inflight, view, link, exchange, cur, tidying, down, ghosts>>

Page ==
  /\ Ended /\ event # Failure /\ pending.what = "list"
  /\ pages' = Append(pages, <<peer, event[2]>>)
  /\ Goto(IF Len(pages') < Pages THEN "asks list" ELSE "adopts")
  /\ UNCHANGED <<input, inflight, view, link, tidying, down, ghosts>>

(* Faulty: the epoch is not compared again.                                  *)
AdoptAnyway ==
  /\ pc = "adopts"
  /\ catalog' = Range(pages) /\ UNCHANGED <<expanded, epoch>>
  /\ Goto(IF cur \in Calls THEN "asks call" ELSE "expands")
  /\ UNCHANGED <<input, inflight, link, exchange, pages, tidying, down, ghosts>>

Adopt ==
  /\ pc = "adopts"
  /\ IF epoch # seen \/ closed
       THEN Goto("abandons") /\ UNCHANGED view
       ELSE /\ catalog' = Range(pages) /\ UNCHANGED <<expanded, epoch>>
            /\ Goto(IF cur \in Calls THEN "asks call" ELSE "expands")
  /\ UNCHANGED <<input, inflight, link, exchange, pages, tidying, down, ghosts>>

Expand ==
  /\ pc = "expands"
  /\ IF catalog = None THEN Done("safe") /\ UNCHANGED expanded
                       ELSE Done("ok") /\ expanded' = TRUE
  /\ UNCHANGED <<input, catalog, epoch, link, exchange, tidying, down, sent, struck>>

Returned ==
  /\ Ended /\ event # Failure /\ pending.what = "call"
  /\ Done("ok")
  /\ UNCHANGED <<input, view, link, tidying, down, sent, struck>>

Main == Serve \/ Refuse \/ Collapse \/ Connected \/ Dial \/ DialFails \/ Begin \/ Send \/ GivesUp
        \/ Tidies \/ Failed \/ GiveUp \/ Initialized \/ Greet \/ Look \/ Page \/ Adopt \/ Expand \/ Returned
Next ==
  \/ \E r \in Requests : Ask(r) \/ Cancel(r)
  \/ CancelPending \/ Drop \/ Tidy \/ ReceiveChange \/ ReceiveAnswer \/ Answer \/ Change
  \/ Serve \/ Refuse \/ Collapse \/ Connected \/ Dial \/ DialFails \/ Begin \/ Send \/ TooLarge
  \/ GivesUp \/ Tidies \/ Failed \/ GiveUp \/ Initialized \/ ContractChanged \/ Greet \/ Look \/ Page
  \/ Adopt \/ Expand \/ Returned

Spec == Init /\ [][Next]_vars
(* The serving thread runs, and each of its waits has a deadline.            *)
FairSpec == Spec /\ WF_vars(Main)

TypeOK ==
  /\ asked \subseteq Requests /\ withdrawn \subseteq asked /\ Range(inbound) \subseteq asked
  /\ cancelling.step \in {"idle", "acts"}
  /\ inflight = cur /\ (cur = None) = (pc = "idle")
  /\ expanded \in BOOLEAN /\ closed \in BOOLEAN /\ peer \in 0 .. MaxPeers /\ real \in 0 .. MaxReal
  /\ catalog = None \/ catalog \subseteq (1 .. MaxPeers) \X (0 .. MaxReal)
  /\ seen <= epoch /\ Len(pages) <= Pages /\ tidying \in 0 .. MaxPeers
  /\ pending = Quiet \/ pending.of = cur
  /\ (pending # Quiet) = (pc \in {"sends", "waits", "tidies"})
  /\ \A i, j \in DOMAIN back : back[i] # Changed /\ back[j] # Changed => i = j
  /\ sent \subseteq Calls

(* A tool is called, and a tool list is shown, from the catalog of the       *)
(* connection in use, all its pages of one and the newest version, unless    *)
(* the notice of a newer one has not been read yet.                          *)
CatalogIsCurrent ==
  pc \in {"expands", "asks call"} /\ catalog # None /\ ~closed
    => catalog = {<<peer, real>>} \/ Changed \in Range(back)

(* A call that failed without outcomeUnknown was not made.                   *)
SafeMeansUnsent == \A r \in Calls : reply[r] = "safe" => r \notin sent

(* A cancellation reaches downstream for the request it names or not at all. *)
CancelHitsItsOwn == \A hit \in struck : hit[1] = hit[2]

(* Every request that is served is answered.                                 *)
EachRequestEnds == \A r \in Requests : cur = r ~> reply[r] # None
=============================================================================
