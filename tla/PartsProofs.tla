----------------------------- MODULE PartsProofs -----------------------------
(* Theorems about components that run in MCNode: the transfers of artifacts/1 *)
(* and of inputs, the relay, the peer link, the managed services and the      *)
(* projection into a client's configuration.                                  *)
EXTENDS NodeParts, FunctionTheorems, FiniteSetTheorems, TLAPS

-----------------------------------------------------------------------------
(* Frames under way in the transfers of artifacts/1 and of inputs.           *)

\* What becomes of a channel s: d frames are taken from its front, the end may be
\* cut off, and one of N may be added.
Moves(s, t, d, N) ==
  /\ d \in {0, 1}
  /\ \A i \in 1..Len(t) :
       \/ i + d \in 1..Len(s) /\ t[i] = s[i + d]
       \/ i = Len(t) /\ t[i] \in N

LEMMA MovesStay == ASSUME NEW S, NEW s \in Seq(S), NEW N PROVE Moves(s, s, 0, N)
<1>1. Len(s) \in Nat
  OBVIOUS
<1> QED
  BY <1>1 DEF Moves

LEMMA MovesAppend ==
  ASSUME NEW S, NEW s \in Seq(S), NEW f \in S
  PROVE  Append(s, f) \in Seq(S) /\ Moves(s, Append(s, f), 0, {f})
<1>1. Append(s, f) \in Seq(S) /\ Len(Append(s, f)) = Len(s) + 1 /\ Len(s) \in Nat
  OBVIOUS
<1>2. \A i \in 1..(Len(s) + 1) : Append(s, f)[i] = IF i <= Len(s) THEN s[i] ELSE f
  BY <1>1
<1> QED
  BY <1>1, <1>2 DEF Moves

LEMMA MovesTail ==
  ASSUME NEW S, NEW s \in Seq(S), s # <<>>
  PROVE  /\ Tail(s) \in Seq(S) /\ Moves(s, Tail(s), 1, {})
         /\ Head(s) \in S /\ 1 \in 1..Len(s) /\ Head(s) = s[1]
<1>1. Len(s) \in Nat /\ Len(s) >= 1
  OBVIOUS
<1>2. Len(Tail(s)) = Len(s) - 1 /\ \A i \in 1..Len(Tail(s)) : Tail(s)[i] = s[i + 1]
  OBVIOUS
<1> QED
  BY <1>1, <1>2 DEF Moves

LEMMA MovesCut ==
  ASSUME NEW S, NEW s \in Seq(S), NEW n \in 0..Len(s), NEW f \in S
  PROVE  SubSeq(s, 1, n) \o <<f>> \in Seq(S) /\ Moves(s, SubSeq(s, 1, n) \o <<f>>, 0, {f})
<1>1. Len(s) \in Nat /\ n \in Nat /\ n <= Len(s)
  OBVIOUS
<1>2. SubSeq(s, 1, n) \in Seq(S) /\ Len(SubSeq(s, 1, n)) = n /\ \A i \in 1..n : SubSeq(s, 1, n)[i] = s[i]
  BY <1>1
<1>3. PICK c \in Seq(S) : c = SubSeq(s, 1, n)
  BY <1>2
<1>4. c \o <<f>> \in Seq(S) /\ Len(c \o <<f>>) = n + 1
      /\ \A i \in 1..(n + 1) : (c \o <<f>>)[i] = IF i <= n THEN c[i] ELSE f
  BY <1>1, <1>2, <1>3
<1>5. \A i \in 1..(n + 1) : (i \in 1..Len(s) /\ (c \o <<f>>)[i] = s[i]) \/ (i = n + 1 /\ (c \o <<f>>)[i] = f)
  BY <1>1, <1>2, <1>3, <1>4
<1> QED
  BY <1>1, <1>3, <1>4, <1>5 DEF Moves

-----------------------------------------------------------------------------
(* Frames and receives of artifacts/1 and of inputs.                         *)

\* The end follows the last chunk, and every frame but the close of the stream
\* is of a transfer.
WireFrames ==
  {f \in [kind : {"begin", "chunk", "end", "cancel", "close", "call", "ready", "ack", "ok", "error"},
          of : Transfers \cup {Nothing}, n : 0..Pieces] :
     /\ f.kind = "close" <=> f.of = Nothing
     /\ f.kind = "chunk" => f.n < Pieces
     /\ f.kind = "end" => f.n = Pieces}

Untaken == [phase |-> "none", next |-> 0, got |-> 0, queue |-> <<>>, work |-> "off", table |-> FALSE]

WireShapes ==
  [phase : {"none", "receiving", "ending", "committing", "completed", "aborting"},
   next : Nat, got : 0..Pieces, queue : Seq(Nat),
   work : {"off", "get", "write", "sync", "commit", "linked"}, table : BOOLEAN]

\* What is queued follows what was received, with the end mark at the end.
Queued(r) ==
  /\ r.table \/ r = Untaken
  /\ \A k \in 1..Len(r.queue) : r.queue[k] = r.got + k - 1 /\ r.queue[k] <= Pieces
  /\ r.phase = "receiving" => r.next = r.got + Len(r.queue) /\ r.next <= Pieces
  /\ r.work = "write" => r.got > 0

WireReceives == {r \in WireShapes : Queued(r)}

\* The forms of the two protocols are of these types.
LEMMA WireFrame ==
  ASSUME NodeAssumption, NEW t \in Transfers
  PROVE  /\ \A k \in {"begin", "cancel", "call", "ready", "ok", "error"} : [kind |-> k, of |-> t, n |-> 0] \in WireFrames
         /\ [kind |-> "close", of |-> Nothing, n |-> 0] \in WireFrames
         /\ \A i \in 0..Pieces : [kind |-> "ack", of |-> t, n |-> i] \in WireFrames
         /\ \A i \in 0..Pieces : i < Pieces => [kind |-> "chunk", of |-> t, n |-> i] \in WireFrames
         /\ [kind |-> "end", of |-> t, n |-> Pieces] \in WireFrames
BY DEF WireFrames, NodeAssumption

LEMMA WireCloses ==
  ASSUME NodeAssumption PROVE [kind |-> "close", of |-> Nothing, n |-> 0] \in WireFrames
BY DEF WireFrames, NodeAssumption

LEMMA WireStarts ==
  ASSUME NodeAssumption
  PROVE  /\ Untaken \in WireReceives
         /\ [Untaken EXCEPT !.phase = "receiving", !.work = "get", !.table = TRUE] \in WireReceives
<1>1. <<>> \in Seq(Nat) /\ Len(<<>>) = 0 /\ 1..0 = {} /\ 0 \in 0..Pieces
  BY DEF NodeAssumption
<1> DEFINE r == [Untaken EXCEPT !.phase = "receiving", !.work = "get", !.table = TRUE]
<1>2. r \in WireShapes /\ Untaken \in WireShapes
  BY <1>1 DEF Untaken, WireShapes
<1>3. r.table /\ r.queue = <<>> /\ r.next = 0 /\ r.got = 0 /\ r.work = "get"
      /\ Untaken.queue = <<>> /\ Untaken.phase = "none" /\ Untaken.work = "off"
  BY DEF Untaken
<1> HIDE DEF r
<1>4. Queued(r) /\ Queued(Untaken)
  BY <1>1, <1>3 DEF Queued
<1> QED
  BY <1>2, <1>4 DEF WireReceives, r

LEMMA WireAborts ==
  ASSUME NEW r \in WireReceives, r.table PROVE [r EXCEPT !.phase = "aborting"] \in WireReceives
<1> DEFINE s == [r EXCEPT !.phase = "aborting"]
<1>1. r \in WireShapes /\ Queued(r)
  BY DEF WireReceives
<1>2. /\ s \in WireShapes /\ s.table = r.table /\ s.queue = r.queue /\ s.got = r.got /\ s.phase = "aborting"
      /\ s.work = r.work
  BY <1>1 DEF WireShapes
<1> HIDE DEF s
<1>3. Queued(s)
  BY <1>1, <1>2 DEF Queued, Untaken
<1> QED
  BY <1>2, <1>3 DEF WireReceives, s

\* A queue takes what comes next.
LEMMA WireQueues ==
  ASSUME NodeAssumption, NEW r \in WireReceives, r.table, r.phase = "receiving",
         NEW i \in 0..Pieces, i = r.next
  PROVE  /\ i < Pieces => [r EXCEPT !.queue = Append(r.queue, i), !.next = i + 1] \in WireReceives
         /\ [r EXCEPT !.queue = Append(r.queue, i), !.phase = "ending"] \in WireReceives
<1> DEFINE q == Append(r.queue, i)
           s == [r EXCEPT !.queue = q, !.next = i + 1]
           e == [r EXCEPT !.queue = q, !.phase = "ending"]
<1>1. r \in WireShapes /\ Queued(r)
  BY DEF WireReceives
<1>2. /\ r.queue \in Seq(Nat) /\ i \in Nat /\ Len(r.queue) \in Nat /\ r.got \in Nat /\ Pieces \in Nat
  BY <1>1 DEF WireShapes, NodeAssumption
<1>3. /\ \A k \in 1..Len(r.queue) : r.queue[k] = r.got + k - 1 /\ r.queue[k] <= Pieces
      /\ i = r.got + Len(r.queue) /\ i <= Pieces
  BY <1>1, <1>2 DEF Queued
<1>4. q \in Seq(Nat) /\ Len(q) = Len(r.queue) + 1
      /\ (\A k \in 1..Len(r.queue) : q[k] = r.queue[k]) /\ q[Len(r.queue) + 1] = i
  <2>1. r.queue \in Seq(Nat)
    BY <1>2
  <2>2. PICK p \in Seq(Nat) : p = r.queue
    BY <2>1
  <2>3. Append(p, i) \in Seq(Nat) /\ Len(Append(p, i)) = Len(p) + 1
        /\ Append(p, i)[Len(p) + 1] = i
    BY <1>2, <2>2
  <2>4. \A k \in 1..Len(p) : Append(p, i)[k] = p[k]
    BY <1>2, <2>2
  <2> QED
    BY <2>2, <2>3, <2>4
<1> HIDE DEF q
<1>5. /\ \A k \in 1..Len(q) : q[k] = r.got + k - 1 /\ q[k] <= Pieces
      /\ i + 1 = r.got + Len(q) /\ i + 1 \in Nat
  <2>1. ASSUME NEW k \in 1..Len(q) PROVE q[k] = r.got + k - 1 /\ q[k] <= Pieces
    <3>1. CASE k \in 1..Len(r.queue)
      BY <1>3, <1>4, <3>1
    <3>2. CASE k = Len(r.queue) + 1
      <4>1. q[k] = i
        BY <1>4, <3>2
      <4> QED
        BY <1>2, <1>3, <3>2, <4>1
    <3> QED
      BY <1>2, <1>4, <3>1, <3>2
  <2> QED
    BY <1>2, <1>3, <1>4, <2>1
<1>6. /\ s \in WireShapes /\ s.table = r.table /\ s.queue = q /\ s.got = r.got /\ s.next = i + 1
      /\ s.work = r.work
  BY <1>1, <1>2, <1>4, <1>5 DEF WireShapes
<1>9. /\ e \in WireShapes /\ e.table = r.table /\ e.queue = q /\ e.got = r.got /\ e.phase = "ending" /\ e.work = r.work
  BY <1>1, <1>2, <1>4 DEF WireShapes
<1> HIDE DEF s, e
<1>7. i < Pieces => Queued(s)
  BY <1>1, <1>2, <1>5, <1>6 DEF Queued
<1>8. Queued(e)
  BY <1>1, <1>5, <1>9 DEF Queued
<1> QED
  BY <1>6, <1>7, <1>8, <1>9 DEF WireReceives, s, e, q

\* The worker takes the head of its queue.
LEMMA WireTakes ==
  ASSUME NodeAssumption, NEW r \in WireReceives, r.table, r.queue # <<>>
  PROVE  /\ Head(r.queue) = Pieces => [r EXCEPT !.queue = Tail(r.queue), !.work = "sync"] \in WireReceives
         /\ Head(r.queue) # Pieces =>
              [r EXCEPT !.queue = Tail(r.queue), !.work = "write", !.got = r.got + 1] \in WireReceives
<1> DEFINE q == Tail(r.queue)
           e == [r EXCEPT !.queue = q, !.work = "sync"]
           s == [r EXCEPT !.queue = q, !.work = "write", !.got = r.got + 1]
<1>1. r \in WireShapes /\ Queued(r)
  BY DEF WireReceives
<1>2. r.queue \in Seq(Nat) /\ r.got \in Nat /\ r.got <= Pieces /\ Pieces \in Nat /\ r.next \in Nat
  BY <1>1 DEF WireShapes, NodeAssumption
<1>3. Len(r.queue) \in Nat /\ Len(r.queue) >= 1 /\ Head(r.queue) = r.queue[1]
  BY <1>2
<1>4. \A k \in 1..Len(r.queue) : r.queue[k] = r.got + k - 1 /\ r.queue[k] <= Pieces
  BY <1>1 DEF Queued
<1>5. q \in Seq(Nat) /\ Len(q) = Len(r.queue) - 1 /\ \A k \in 1..Len(q) : q[k] = r.queue[k + 1]
  BY <1>2, <1>3
<1> HIDE DEF q
<1>6. Head(r.queue) = r.got
  <2>1. 1 \in 1..Len(r.queue)
    BY <1>3
  <2>2. r.queue[1] = r.got + 1 - 1
    BY <1>4, <2>1
  <2> QED
    BY <1>2, <1>3, <2>2
<1>7. \A k \in 1..Len(q) : q[k] = r.got + k /\ q[k] <= Pieces
  <2> TAKE k \in 1..Len(q)
  <2>1. k + 1 \in 1..Len(r.queue) /\ k \in Nat
    BY <1>3, <1>5
  <2>2. r.queue[k + 1] = r.got + (k + 1) - 1 /\ r.queue[k + 1] <= Pieces
    BY <1>4, <2>1
  <2>3. q[k] = r.queue[k + 1]
    BY <1>5
  <2> QED
    BY <1>2, <2>1, <2>2, <2>3
<1>8. r.phase = "receiving" => r.next = r.got + 1 + Len(q) /\ r.next <= Pieces
  <2>1. r.phase = "receiving" => r.next = r.got + Len(r.queue) /\ r.next <= Pieces
    BY <1>1 DEF Queued
  <2> QED
    BY <1>2, <1>3, <1>5, <2>1
<1>9. CASE Head(r.queue) = Pieces
  <2>1. Len(q) = 0
    <3>1. Len(q) \in Nat
      BY <1>3, <1>5
    <3>2. Len(q) >= 1 => 1 \in 1..Len(q)
      BY <3>1
    <3>3. 1 \in 1..Len(q) => q[1] = r.got + 1 /\ q[1] <= Pieces
      BY <1>7
    <3> QED
      BY <1>2, <1>6, <1>9, <3>1, <3>2, <3>3
  <2>2. r.phase # "receiving"
    BY <1>2, <1>6, <1>8, <1>9, <2>1
  <2>3. /\ e \in WireShapes /\ e.table = r.table /\ e.queue = q /\ e.got = r.got /\ e.phase = r.phase
        /\ e.work = "sync"
    BY <1>1, <1>5 DEF WireShapes
  <2> HIDE DEF e
  <2>4. Queued(e)
    BY <1>1, <2>1, <2>2, <2>3 DEF Queued
  <2> QED
    BY <1>9, <2>3, <2>4 DEF WireReceives, e, q
<1>10. CASE Head(r.queue) # Pieces
  <2>1. r.got + 1 \in 0..Pieces /\ r.got + 1 > 0
    BY <1>2, <1>6, <1>10
  <2>2. /\ s \in WireShapes /\ s.table = r.table /\ s.queue = q /\ s.got = r.got + 1 /\ s.phase = r.phase
        /\ s.next = r.next
    BY <1>1, <1>5, <2>1 DEF WireShapes
  <2> HIDE DEF s
  <2>3. Queued(s)
    BY <1>1, <1>2, <1>7, <1>8, <2>1, <2>2 DEF Queued
  <2> QED
    BY <1>10, <2>2, <2>3 DEF WireReceives, s, q
<1> QED
  BY <1>9, <1>10

\* The worker goes on without its queue.
LEMMA WireWorks ==
  ASSUME NEW r \in WireReceives, r.table
  PROVE  /\ [r EXCEPT !.work = "get"] \in WireReceives
         /\ [r EXCEPT !.phase = "committing", !.work = "commit"] \in WireReceives
         /\ [r EXCEPT !.work = "linked"] \in WireReceives
<1>1. r \in WireShapes /\ Queued(r)
  BY DEF WireReceives
<1>2. ASSUME NEW v \in {"none", "receiving", "ending", "committing", "completed", "aborting"},
             NEW w \in {"get", "commit", "linked"}, v = r.phase \/ v = "committing"
      PROVE  [r EXCEPT !.phase = v, !.work = w] \in WireReceives
  <2> DEFINE s == [r EXCEPT !.phase = v, !.work = w]
  <2>1. /\ s \in WireShapes /\ s.table = r.table /\ s.queue = r.queue /\ s.got = r.got /\ s.phase = v
        /\ s.next = r.next /\ s.work = w
    BY <1>1, <1>2 DEF WireShapes
  <2> HIDE DEF s
  <2>2. Queued(s)
    BY <1>1, <1>2, <2>1 DEF Queued
  <2> QED
    BY <2>1, <2>2 DEF WireReceives, s
<1>3. r.phase \in {"none", "receiving", "ending", "committing", "completed", "aborting"}
  BY <1>1 DEF WireShapes
<1>4. \A w \in {"get", "commit", "linked"} : [r EXCEPT !.work = w] = [r EXCEPT !.phase = r.phase, !.work = w]
  BY <1>1 DEF WireShapes
<1> QED
  BY <1>2, <1>3, <1>4
\* What is under way: a frame of kind k of transfer u, some frame of u, and at
\* most one begin of u.
Has(c, k, u) == \E i \in 1..Len(c) : c[i].kind = k /\ c[i].of = u
Of(c, u) == \E i \in 1..Len(c) : c[i].of = u
Once(c, u) ==
  \A i, j \in 1..Len(c) :
    (c[i].kind = "begin" /\ c[i].of = u /\ c[j].kind = "begin" /\ c[j].of = u) => i = j

LEMMA NothingUnderWay == \A k, u : ~Has(<<>>, k, u) /\ ~Of(<<>>, u) /\ Once(<<>>, u)
BY DEF Has, Of, Once

\* What is under way after a move was so before, or was added.
LEMMA MovesHas ==
  ASSUME NEW s, NEW t, NEW d, NEW N, Moves(s, t, d, N), NEW k, NEW u, Has(t, k, u)
  PROVE  Has(s, k, u) \/ \E f \in N : f.kind = k /\ f.of = u
<1>1. \A i \in 1..Len(t) : (i + d \in 1..Len(s) /\ t[i] = s[i + d]) \/ t[i] \in N
  BY DEF Moves
<1> QED
  BY <1>1 DEF Has

LEMMA MovesOf ==
  ASSUME NEW s, NEW t, NEW d, NEW N, Moves(s, t, d, N), NEW u, Of(t, u)
  PROVE  Of(s, u) \/ \E f \in N : f.of = u
<1>1. \A i \in 1..Len(t) : (i + d \in 1..Len(s) /\ t[i] = s[i + d]) \/ t[i] \in N
  BY DEF Moves
<1> QED
  BY <1>1 DEF Of

LEMMA MovesOnce ==
  ASSUME NEW S, NEW s \in Seq(S), NEW t \in Seq(S), NEW d, NEW N, Moves(s, t, d, N), NEW u, Once(s, u),
         Has(s, "begin", u) => \A f \in N : ~(f.kind = "begin" /\ f.of = u)
  PROVE  Once(t, u)
<1> SUFFICES ASSUME NEW i \in 1..Len(t), NEW j \in 1..Len(t), t[i].kind = "begin", t[i].of = u,
                    t[j].kind = "begin", t[j].of = u
             PROVE  i = j
  BY DEF Once
<1>1. Len(s) \in Nat /\ Len(t) \in Nat /\ d \in {0, 1}
  BY DEF Moves
<1>2. (i + d \in 1..Len(s) /\ t[i] = s[i + d]) \/ (i = Len(t) /\ t[i] \in N)
  BY DEF Moves
<1>3. (j + d \in 1..Len(s) /\ t[j] = s[j + d]) \/ (j = Len(t) /\ t[j] \in N)
  BY DEF Moves
<1>4. CASE i + d \in 1..Len(s) /\ t[i] = s[i + d]
  <2>1. Has(s, "begin", u)
    BY <1>4 DEF Has
  <2>2. j + d \in 1..Len(s) /\ t[j] = s[j + d]
    BY <1>3, <2>1
  <2>3. i + d = j + d
    BY <1>4, <2>2 DEF Once
  <2> QED
    BY <1>1, <2>3
<1>5. CASE j + d \in 1..Len(s) /\ t[j] = s[j + d]
  <2>1. Has(s, "begin", u)
    BY <1>5 DEF Has
  <2>2. i + d \in 1..Len(s) /\ t[i] = s[i + d]
    BY <1>2, <2>1
  <2>3. i + d = j + d
    BY <1>5, <2>2 DEF Once
  <2> QED
    BY <1>1, <2>3
<1> QED
  BY <1>2, <1>3, <1>4, <1>5

\* The frame in front is under way, and a begin in front is the only one.
LEMMA InFront ==
  ASSUME NEW S, NEW s \in Seq(S), s # <<>>
  PROVE  /\ Has(s, Head(s).kind, Head(s).of) /\ Of(s, Head(s).of)
         /\ \A u : Once(s, u) /\ Head(s).kind = "begin" /\ Head(s).of = u => ~Has(Tail(s), "begin", u)
<1>1. 1 \in 1..Len(s) /\ Head(s) = s[1] /\ Len(s) \in Nat
  BY MovesTail
<1>2. Len(Tail(s)) = Len(s) - 1 /\ \A i \in 1..Len(Tail(s)) : Tail(s)[i] = s[i + 1]
  OBVIOUS
<1>3. PICK t : t = Tail(s)
  OBVIOUS
<1>4. ASSUME NEW u, Once(s, u), Head(s).kind = "begin", Head(s).of = u PROVE ~Has(t, "begin", u)
  <2> SUFFICES ASSUME NEW i \in 1..Len(t), t[i].kind = "begin", t[i].of = u PROVE FALSE
    BY DEF Has
  <2>1. i + 1 \in 1..Len(s) /\ t[i] = s[i + 1] /\ i \in Nat /\ i >= 1
    BY <1>1, <1>2, <1>3
  <2>2. i + 1 = 1
    BY <1>1, <1>4, <2>1 DEF Once
  <2> QED
    BY <2>1, <2>2
<1> QED
  BY <1>1, <1>3, <1>4 DEF Has, Of

\* The types of a transfer's tasks, frames and receives.
WireReplies == {f \in WireFrames : f.of # Nothing}

SenderTypes(send, sent) ==
  /\ send \in [Transfers -> {"new", "ok", "failed", "begin", "sending", "ended"}]
  /\ sent \in [Transfers -> 0..Pieces]
  /\ \A t \in Transfers : send[t] = "sending" => sent[t] < Pieces

LEMMA SenderMoves ==
  ASSUME NEW send, NEW sent, SenderTypes(send, sent), NEW t \in Transfers,
         NEW x \in {"new", "ok", "failed", "begin", "sending", "ended"}, NEW i \in 0..Pieces, x = "sending" => i < Pieces
  PROVE  SenderTypes([send EXCEPT ![t] = x], [sent EXCEPT ![t] = i])
BY DEF SenderTypes

LEMMA SenderStops ==
  ASSUME NEW send, NEW sent, SenderTypes(send, sent), NEW t \in Transfers, NEW x \in {"ok", "failed", "begin"}
  PROVE  SenderTypes([send EXCEPT ![t] = x], sent)
BY DEF SenderTypes

LEMMA SendersStop ==
  ASSUME NEW send, NEW sent, SenderTypes(send, sent), NEW P
  PROVE  SenderTypes([t \in Transfers |-> IF send[t] \in P THEN "failed" ELSE send[t]], sent)
BY DEF SenderTypes

-----------------------------------------------------------------------------
(* Artifacts/1.                                                              *)

\* The types of artifacts/1.
OldTypes ==
  /\ SenderTypes(oldSend, oldSent)
  /\ oldStreamS \in {"open", "closed"} /\ oldStreamR \in {"open", "closing", "closed"} /\ oldLinkUp \in BOOLEAN
  /\ oldChanR \in Seq(WireFrames) /\ oldChanS \in Seq(WireReplies)
  /\ oldRecv \in [Transfers -> WireReceives]
  /\ oldTemp \subseteq Transfers
  /\ oldPlace \in [Transfers -> Transfers \cup {Nothing}]

\* What the sends and the reads of artifacts/1 do to the channels.
LEMMA OldToR ==
  ASSUME OldTypes, NEW f \in WireFrames, Old!ToR(f)
  PROVE  oldChanR' \in Seq(WireFrames) /\ Moves(oldChanR, oldChanR', 0, {f})
<1>1. oldChanR \in Seq(WireFrames)
  BY DEF OldTypes
<1>2. Moves(oldChanR, oldChanR, 0, {f}) /\ Moves(oldChanR, Append(oldChanR, f), 0, {f})
      /\ Append(oldChanR, f) \in Seq(WireFrames)
  BY <1>1, MovesStay, MovesAppend
<1> QED
  BY <1>1, <1>2 DEF Old!ToR

LEMMA OldToS ==
  ASSUME OldTypes, NEW f \in WireReplies, Old!ToS(f)
  PROVE  oldChanS' \in Seq(WireReplies) /\ Moves(oldChanS, oldChanS', 0, {f})
<1>1. oldChanS \in Seq(WireReplies)
  BY DEF OldTypes
<1>2. Moves(oldChanS, oldChanS, 0, {f}) /\ Moves(oldChanS, Append(oldChanS, f), 0, {f})
      /\ Append(oldChanS, f) \in Seq(WireReplies)
  BY <1>1, MovesStay, MovesAppend
<1> QED
  BY <1>1, <1>2 DEF Old!ToS

LEMMA OldStayR == ASSUME OldTypes PROVE Moves(oldChanR, oldChanR, 0, {})
BY MovesStay DEF OldTypes

LEMMA OldStayS == ASSUME OldTypes PROVE Moves(oldChanS, oldChanS, 0, {})
BY MovesStay DEF OldTypes

LEMMA OldReceives ==
  ASSUME OldTypes, NEW k, Old!Receive(k), NodeAssumption
  PROVE  /\ oldChanR' = Tail(oldChanR)
         /\ oldChanR' \in Seq(WireFrames) /\ Moves(oldChanR, oldChanR', 1, {}) /\ oldChanR # <<>>
         /\ Head(oldChanR).kind = k /\ Has(oldChanR, k, Head(oldChanR).of)
         /\ Head(oldChanR).n \in 0..Pieces
         /\ k # "close" => Head(oldChanR).of \in Transfers
         /\ k = "chunk" => Head(oldChanR).n < Pieces
         /\ k = "end" => Head(oldChanR).n = Pieces
<1>1. oldChanR \in Seq(WireFrames) /\ oldChanR # <<>> /\ Head(oldChanR).kind = k /\ oldChanR' = Tail(oldChanR)
  BY DEF OldTypes, Old!Receive
<1>2. Head(oldChanR) \in WireFrames
  BY <1>1, MovesTail
<1>3. PICK f \in WireFrames : f = Head(oldChanR)
  BY <1>2
<1>4. /\ f.n \in 0..Pieces /\ f.of \in Transfers \cup {Nothing} /\ (f.kind = "close" <=> f.of = Nothing)
      /\ (f.kind = "chunk" => f.n < Pieces) /\ (f.kind = "end" => f.n = Pieces)
  BY DEF WireFrames
<1> QED
  BY <1>1, <1>3, <1>4, MovesTail, InFront

LEMMA OldTaken ==
  ASSUME OldTypes, oldChanS # <<>>, NodeAssumption
  PROVE  /\ Tail(oldChanS) \in Seq(WireReplies) /\ Moves(oldChanS, Tail(oldChanS), 1, {})
         /\ Has(oldChanS, Head(oldChanS).kind, Head(oldChanS).of) /\ Of(oldChanS, Head(oldChanS).of)
         /\ Head(oldChanS).of \in Transfers /\ Head(oldChanS).n \in 0..Pieces
<1>1. oldChanS \in Seq(WireReplies)
  BY DEF OldTypes
<1>2. Head(oldChanS) \in WireReplies
  BY <1>1, MovesTail
<1>3. PICK f \in WireReplies : f = Head(oldChanS)
  BY <1>2
<1>4. f.n \in 0..Pieces /\ f.of \in Transfers
  BY DEF WireReplies, WireFrames
<1> QED
  BY <1>1, <1>3, <1>4, MovesTail, InFront

\* The sender's part of artifacts/1.
LEMMA OldStarts ==
  ASSUME OldTypes, NodeAssumption, NEW t \in Transfers, Old!Start(t)
  PROVE  /\ OldTypes'
         /\ Moves(oldChanR, oldChanR', 0, {[kind |-> "begin", of |-> t, n |-> 0]})
<1>1. Old!ToR([kind |-> "begin", of |-> t, n |-> 0]) /\ oldSend' = [oldSend EXCEPT ![t] = "begin"]
      /\ UNCHANGED <<oldSent, oldStreamS, oldStreamR, oldLinkUp, oldChanS, oldRecv, oldTemp, oldPlace>>
  BY DEF Old!Start, Old!Frame
<1>2. oldChanR' \in Seq(WireFrames) /\ Moves(oldChanR, oldChanR', 0, {[kind |-> "begin", of |-> t, n |-> 0]})
  BY <1>1, WireFrame, OldToR
<1>3. SenderTypes(oldSend, oldSent)'
  <2>1. SenderTypes([oldSend EXCEPT ![t] = "begin"], oldSent)
    BY SenderStops DEF OldTypes
  <2> QED
    BY <1>1, <2>1
<1> QED
  BY <1>1, <1>2, <1>3 DEF OldTypes

LEMMA OldGivesUp ==
  ASSUME OldTypes, NodeAssumption, NEW t \in Transfers, Old!GiveUp(t)
  PROVE  /\ SenderTypes(oldSend, oldSent)'
         /\ oldChanR' \in Seq(WireFrames)
         /\ Moves(oldChanR, oldChanR', 0, {[kind |-> "cancel", of |-> t, n |-> 0]})
<1>1. Old!ToR([kind |-> "cancel", of |-> t, n |-> 0]) /\ oldSend' = [oldSend EXCEPT ![t] = "failed"] /\ oldSent' = oldSent
  BY DEF Old!GiveUp, Old!Frame
<1>2. SenderTypes([oldSend EXCEPT ![t] = "failed"], oldSent)
  BY SenderStops DEF OldTypes
<1> QED
  BY <1>1, <1>2, WireFrame, OldToR

LEMMA OldSends ==
  ASSUME OldTypes, NodeAssumption, NEW t \in Transfers, NEW i \in 0..Pieces, Old!SendChunk(t, i)
  PROVE  /\ SenderTypes(oldSend, oldSent)'
         /\ oldSend' = [oldSend EXCEPT ![t] = IF i < Pieces THEN "sending" ELSE "ended"]
         /\ oldChanR' \in Seq(WireFrames)
         /\ \E k \in {"chunk", "end"} : Moves(oldChanR, oldChanR', 0, {[kind |-> k, of |-> t, n |-> i]})
<1> DEFINE k == IF i < Pieces THEN "chunk" ELSE "end"
           x == IF i < Pieces THEN "sending" ELSE "ended"
<1>1. Old!ToR([kind |-> k, of |-> t, n |-> i]) /\ oldSend' = [oldSend EXCEPT ![t] = x]
      /\ oldSent' = [oldSent EXCEPT ![t] = i]
  BY DEF Old!SendChunk, Old!Frame
<1>2. [kind |-> k, of |-> t, n |-> i] \in WireFrames
  <2>1. Pieces \in Nat /\ i \in Nat /\ i <= Pieces
    BY DEF NodeAssumption
  <2>2. CASE i < Pieces
    BY <2>2, WireFrame
  <2>3. CASE i = Pieces
    BY <2>1, <2>3, WireFrame
  <2> QED
    BY <2>1, <2>2, <2>3
<1>3. SenderTypes([oldSend EXCEPT ![t] = x], [oldSent EXCEPT ![t] = i])
  BY SenderMoves DEF OldTypes
<1> QED
  BY <1>1, <1>2, <1>3, OldToR

\* A reply: the next chunk or the end is sent, success is taken, the sender gives
\* up, or the reply is too late.
LEMMA OldReplies ==
  ASSUME OldTypes, NodeAssumption, Old!Reply
  PROVE  /\ OldTypes'
         /\ oldChanS' = Tail(oldChanS) /\ oldChanS # <<>>
         /\ \E t \in Transfers, N \in SUBSET WireFrames :
              /\ t = Head(oldChanS).of /\ Moves(oldChanR, oldChanR', 0, N)
              /\ \A f \in N : f.of = t /\ f.kind \in {"chunk", "end", "cancel"}
              /\ \/ UNCHANGED oldSend /\ N = {}
                 \/ oldSend' = [oldSend EXCEPT ![t] = "ok"] /\ Head(oldChanS).kind = "ok" /\ oldSend[t] = "ended" /\ N = {}
                 \/ \E x \in {"failed", "sending", "ended"} :
                      oldSend' = [oldSend EXCEPT ![t] = x] /\ oldSend[t] \in {"begin", "sending", "ended"}
<1>1. oldChanS # <<>> /\ oldChanS' = Tail(oldChanS)
      /\ UNCHANGED <<oldStreamS, oldStreamR, oldLinkUp, oldRecv, oldTemp, oldPlace>>
  BY DEF Old!Reply
<1>2. PICK t \in Transfers : t = Head(oldChanS).of
  BY <1>1, OldTaken
<1>3. oldChanS' \in Seq(WireReplies) /\ Head(oldChanS).n \in 0..Pieces
  BY <1>1, OldTaken
<1>4. SenderTypes(oldSend, oldSent) /\ oldChanR \in Seq(WireFrames)
  BY DEF OldTypes
<1>5. SUFFICES /\ SenderTypes(oldSend, oldSent)' /\ oldChanR' \in Seq(WireFrames)
               /\ \E N \in SUBSET WireFrames :
                    /\ Moves(oldChanR, oldChanR', 0, N)
                    /\ \A f \in N : f.of = t /\ f.kind \in {"chunk", "end", "cancel"}
                    /\ \/ UNCHANGED oldSend /\ N = {}
                       \/ oldSend' = [oldSend EXCEPT ![t] = "ok"] /\ Head(oldChanS).kind = "ok" /\ oldSend[t] = "ended" /\ N = {}
                       \/ \E x \in {"failed", "sending", "ended"} :
                            oldSend' = [oldSend EXCEPT ![t] = x] /\ oldSend[t] \in {"begin", "sending", "ended"}
  BY <1>1, <1>2, <1>3, <1>5 DEF OldTypes
<1>6. ASSUME NEW i \in 0..Pieces, Old!SendChunk(t, i), oldSend[t] \in {"begin", "sending", "ended"}
      PROVE  /\ SenderTypes(oldSend, oldSent)' /\ oldChanR' \in Seq(WireFrames)
             /\ \E N \in SUBSET WireFrames, x \in {"failed", "sending", "ended"} :
                    /\ Moves(oldChanR, oldChanR', 0, N)
                    /\ \A f \in N : f.of = t /\ f.kind \in {"chunk", "end", "cancel"}
                    /\ oldSend' = [oldSend EXCEPT ![t] = x]
  <2>1. SenderTypes(oldSend, oldSent)' /\ oldChanR' \in Seq(WireFrames)
        /\ oldSend' = [oldSend EXCEPT ![t] = IF i < Pieces THEN "sending" ELSE "ended"]
    BY <1>6, OldSends
  <2>2. PICK k \in {"chunk", "end"} : Moves(oldChanR, oldChanR', 0, {[kind |-> k, of |-> t, n |-> i]})
    BY <1>6, OldSends
  <2>3. Moves(oldChanR, oldChanR', 0, {f \in {[kind |-> k, of |-> t, n |-> i]} : f \in WireFrames})
    <3>1. Len(oldChanR') \in Nat /\ \A j \in 1..Len(oldChanR') : oldChanR'[j] \in WireFrames
      BY <2>1
    <3> QED
      BY <2>2, <3>1 DEF Moves
  <2>4. PICK x \in {"failed", "sending", "ended"} : x = IF i < Pieces THEN "sending" ELSE "ended"
    OBVIOUS
  <2>5. PICK N \in SUBSET WireFrames : N = {f \in {[kind |-> k, of |-> t, n |-> i]} : f \in WireFrames}
    OBVIOUS
  <2>6. \A f \in N : f.of = t /\ f.kind \in {"chunk", "end", "cancel"}
    BY <2>5
  <2> QED
    BY <2>1, <2>3, <2>4, <2>5, <2>6
<1>7. CASE Head(oldChanS).kind = "ready" /\ Old!Expected(Head(oldChanS)) /\ Old!SendChunk(t, 0)
  <2>1. 0 \in 0..Pieces /\ oldSend[t] = "begin"
    BY <1>2, <1>7 DEF Old!Expected, NodeAssumption
  <2> QED
    BY <1>6, <1>7, <2>1
<1>8. CASE Head(oldChanS).kind = "ack" /\ Old!Expected(Head(oldChanS)) /\ Old!SendChunk(t, Head(oldChanS).n + 1)
  <2>1. oldSend[t] = "sending" /\ Head(oldChanS).n = oldSent[t]
    BY <1>2, <1>8 DEF Old!Expected
  <2>2. Head(oldChanS).n + 1 \in 0..Pieces
    BY <1>3, <1>4, <2>1 DEF SenderTypes, NodeAssumption
  <2> QED
    BY <1>6, <1>8, <2>1, <2>2
<1>9. CASE /\ Head(oldChanS).kind = "ok" /\ Old!Expected(Head(oldChanS))
           /\ oldSend' = [oldSend EXCEPT ![t] = "ok"] /\ UNCHANGED <<oldSent, oldChanR>>
  <2>1. oldSend[t] = "ended"
    BY <1>2, <1>9 DEF Old!Expected
  <2>2. SenderTypes([oldSend EXCEPT ![t] = "ok"], oldSent)
    BY <1>4, SenderStops
  <2>3. Moves(oldChanR, oldChanR', 0, {})
    BY <1>9, OldStayR
  <2>4. SenderTypes(oldSend, oldSent)'
    BY <1>9, <2>2
  <2> QED
    BY <1>4, <1>9, <2>1, <2>3, <2>4
<1>10. CASE oldSend[t] \in {"begin", "sending", "ended"} /\ Old!GiveUp(t)
  <2>1. SenderTypes(oldSend, oldSent)' /\ oldChanR' \in Seq(WireFrames)
        /\ Moves(oldChanR, oldChanR', 0, {[kind |-> "cancel", of |-> t, n |-> 0]})
    BY <1>10, OldGivesUp
  <2>2. PICK N \in SUBSET WireFrames : N = {[kind |-> "cancel", of |-> t, n |-> 0]}
    BY WireFrame
  <2>3. oldSend' = [oldSend EXCEPT ![t] = "failed"]
    BY <1>10 DEF Old!GiveUp
  <2>4. \A f \in N : f.of = t /\ f.kind \in {"chunk", "end", "cancel"}
    BY <2>2
  <2> QED
    BY <1>10, <2>1, <2>2, <2>3, <2>4
<1>11. CASE UNCHANGED <<oldSend, oldSent, oldChanR>>
  <2>1. Moves(oldChanR, oldChanR', 0, {})
    BY <1>11, OldStayR
  <2>2. SenderTypes(oldSend, oldSent)'
    BY <1>4, <1>11
  <2> QED
    BY <1>4, <1>11, <2>1, <2>2
<1> QED
  BY <1>2, <1>7, <1>8, <1>9, <1>10, <1>11 DEF Old!Reply, Old!Busy

LEMMA OldTimesOut ==
  ASSUME OldTypes, NodeAssumption, NEW t \in Transfers, Old!TimesOut(t)
  PROVE  /\ OldTypes' /\ oldSend' = [oldSend EXCEPT ![t] = "failed"]
         /\ Moves(oldChanR, oldChanR', 0, {[kind |-> "cancel", of |-> t, n |-> 0]})
<1>1. Old!GiveUp(t) /\ UNCHANGED <<oldStreamS, oldStreamR, oldLinkUp, oldChanS, oldRecv, oldTemp, oldPlace>>
  BY DEF Old!TimesOut
<1>2. oldSend' = [oldSend EXCEPT ![t] = "failed"]
  BY <1>1 DEF Old!GiveUp
<1> QED
  BY <1>1, <1>2, OldGivesUp DEF OldTypes

LEMMA OldCloses ==
  ASSUME OldTypes, NodeAssumption, Old!StreamCloses
  PROVE  OldTypes' /\ Moves(oldChanR, oldChanR', 0, {[kind |-> "close", of |-> Nothing, n |-> 0]})
<1>1. /\ oldSend' = [t \in Transfers |-> IF oldSend[t] \in Old!Busy THEN "failed" ELSE oldSend[t]]
      /\ oldChanR' = Append(oldChanR, [kind |-> "close", of |-> Nothing, n |-> 0]) /\ oldStreamS' = "closed"
      /\ UNCHANGED <<oldSent, oldStreamR, oldLinkUp, oldChanS, oldRecv, oldTemp, oldPlace>>
  BY DEF Old!StreamCloses, Old!Frame
<1>2. oldChanR \in Seq(WireFrames) /\ SenderTypes(oldSend, oldSent)
  BY DEF OldTypes
<1>3. oldChanR' \in Seq(WireFrames) /\ Moves(oldChanR, oldChanR', 0, {[kind |-> "close", of |-> Nothing, n |-> 0]})
  BY <1>1, <1>2, WireCloses, MovesAppend
<1>4. SenderTypes(oldSend, oldSent)'
  <2>1. SenderTypes([t \in Transfers |-> IF oldSend[t] \in Old!Busy THEN "failed" ELSE oldSend[t]], oldSent)
    BY <1>2, SendersStop
  <2> QED
    BY <1>1, <2>1
<1> QED
  BY <1>1, <1>3, <1>4 DEF OldTypes

LEMMA OldLoses ==
  ASSUME OldTypes, NodeAssumption, Old!LinkBreaks
  PROVE  OldTypes' /\ Moves(oldChanR, oldChanR', 0, {[kind |-> "close", of |-> Nothing, n |-> 0]})
<1>1. /\ oldSend' = [t \in Transfers |-> IF oldSend[t] \in Old!Busy THEN "failed" ELSE oldSend[t]]
      /\ oldStreamS' = "closed" /\ oldLinkUp' = FALSE /\ oldChanS' = <<>>
      /\ UNCHANGED <<oldSent, oldStreamR, oldRecv, oldTemp, oldPlace>>
  BY DEF Old!LinkBreaks
<1>2. oldChanR \in Seq(WireFrames) /\ SenderTypes(oldSend, oldSent)
  BY DEF OldTypes
<1>3. PICK i \in 0..Len(oldChanR) :
        oldChanR' = SubSeq(oldChanR, 1, i) \o <<[kind |-> "close", of |-> Nothing, n |-> 0]>>
  BY DEF Old!LinkBreaks, Old!Frame
<1>4. oldChanR' \in Seq(WireFrames) /\ Moves(oldChanR, oldChanR', 0, {[kind |-> "close", of |-> Nothing, n |-> 0]})
  BY <1>2, <1>3, WireCloses, MovesCut
<1>5. SenderTypes(oldSend, oldSent)'
  <2>1. SenderTypes([t \in Transfers |-> IF oldSend[t] \in Old!Busy THEN "failed" ELSE oldSend[t]], oldSent)
    BY <1>2, SendersStop
  <2> QED
    BY <1>1, <2>1
<1>6. oldChanS' \in Seq(WireReplies)
  BY <1>1
<1> QED
  BY <1>1, <1>4, <1>5, <1>6 DEF OldTypes

\* The receiver's part of artifacts/1.
LEMMA OldBegins ==
  ASSUME OldTypes, NodeAssumption, NEW welcome, Old!Begin(welcome)
  PROVE  /\ OldTypes' /\ oldChanR' = Tail(oldChanR) /\ Has(oldChanR, "begin", Head(oldChanR).of)
         /\ Moves(oldChanR, oldChanR', 1, {})
         /\ Head(oldChanR).of \in Transfers /\ Head(oldChanR).kind = "begin" /\ oldChanR # <<>>
         /\ UNCHANGED <<oldSend, oldStreamR, oldPlace>>
         /\ \E k \in {"ready", "error"} : Moves(oldChanS, oldChanS', 0, {[kind |-> k, of |-> Head(oldChanR).of, n |-> 0]})
         /\ \/ UNCHANGED oldRecv
            \/ /\ oldStreamR = "open" /\ Head(oldChanR).of \in welcome
               /\ oldRecv' = [oldRecv EXCEPT ![Head(oldChanR).of] =
                                [Untaken EXCEPT !.phase = "receiving", !.work = "get", !.table = TRUE]]
<1>1. Old!Receive("begin") /\ UNCHANGED <<oldSend, oldSent, oldStreamS, oldStreamR, oldLinkUp, oldPlace>>
  BY DEF Old!Begin
<1>2. /\ oldChanR' = Tail(oldChanR) /\ oldChanR' \in Seq(WireFrames) /\ Has(oldChanR, "begin", Head(oldChanR).of)
      /\ Moves(oldChanR, oldChanR', 1, {}) /\ Head(oldChanR).of \in Transfers /\ Head(oldChanR).kind = "begin"
      /\ oldChanR # <<>>
  BY <1>1, OldReceives
<1>3. PICK t \in Transfers : t = Head(oldChanR).of
  BY <1>2
<1>4. SenderTypes(oldSend, oldSent)'
  BY <1>1 DEF OldTypes
<1>5. oldRecv \in [Transfers -> WireReceives] /\ oldTemp \subseteq Transfers
  BY DEF OldTypes
<1>6. [kind |-> "ready", of |-> t, n |-> 0] \in WireReplies /\ [kind |-> "error", of |-> t, n |-> 0] \in WireReplies
  BY WireFrame DEF WireReplies, NodeAssumption
<1>7. CASE oldStreamR = "open" /\ t \in welcome
  <2>1. /\ oldRecv' = [oldRecv EXCEPT ![t] = [Untaken EXCEPT !.phase = "receiving", !.work = "get", !.table = TRUE]]
        /\ oldTemp' = oldTemp \cup {t} /\ Old!ToS([kind |-> "ready", of |-> t, n |-> 0])
    BY <1>3, <1>7 DEF Old!Begin, Old!Frame, Old!Idle, Untaken
  <2>2. oldRecv' \in [Transfers -> WireReceives] /\ oldTemp' \subseteq Transfers
    BY <1>5, <2>1, WireStarts
  <2>3. oldChanS' \in Seq(WireReplies) /\ Moves(oldChanS, oldChanS', 0, {[kind |-> "ready", of |-> t, n |-> 0]})
    BY <1>6, <2>1, OldToS
  <2> QED
    BY <1>1, <1>2, <1>3, <1>4, <1>7, <2>1, <2>2, <2>3 DEF OldTypes
<1>8. CASE ~(oldStreamR = "open" /\ t \in welcome)
  <2>1. Old!ToS([kind |-> "error", of |-> t, n |-> 0]) /\ UNCHANGED <<oldRecv, oldTemp>>
    BY <1>3, <1>8 DEF Old!Begin, Old!Frame
  <2>2. oldChanS' \in Seq(WireReplies) /\ Moves(oldChanS, oldChanS', 0, {[kind |-> "error", of |-> t, n |-> 0]})
    BY <1>6, <2>1, OldToS
  <2> QED
    BY <1>1, <1>2, <1>3, <1>4, <2>1, <2>2 DEF OldTypes
<1> QED
  BY <1>7, <1>8

\* A receive that is registered changes as frames come, and none other does.
OldReads ==
  \A u \in Transfers :
    \/ oldRecv'[u] = oldRecv[u]
    \/ oldRecv[u].table /\ oldRecv'[u].table /\ oldRecv'[u].work = oldRecv[u].work

LEMMA OldMarks ==
  ASSUME NEW r \in WireReceives, r.table
  PROVE  Old!AbortMarked(r) \in WireReceives /\ Old!AbortMarked(r).table /\ Old!AbortMarked(r).work = r.work
<1>1. [r EXCEPT !.phase = "aborting"] \in WireReceives
  BY WireAborts
<1>2. [r EXCEPT !.phase = "aborting"].table = r.table /\ [r EXCEPT !.phase = "aborting"].work = r.work
  BY DEF WireReceives, WireShapes
<1> QED
  BY <1>1, <1>2 DEF Old!AbortMarked

LEMMA OldChunks ==
  ASSUME OldTypes, NodeAssumption, Old!Chunk
  PROVE  /\ OldTypes' /\ OldReads /\ UNCHANGED <<oldSend, oldStreamR, oldPlace, oldChanS>>
         /\ Moves(oldChanR, oldChanR', 1, {})
<1>1. Old!Receive("chunk")
      /\ UNCHANGED <<oldSend, oldSent, oldStreamS, oldStreamR, oldLinkUp, oldChanS, oldTemp, oldPlace>>
  BY DEF Old!Chunk
<1>2. /\ oldChanR' \in Seq(WireFrames) /\ Moves(oldChanR, oldChanR', 1, {}) /\ Head(oldChanR).of \in Transfers
      /\ Head(oldChanR).n \in 0..Pieces /\ Head(oldChanR).n < Pieces
  BY <1>1, OldReceives
<1>3. PICK t \in Transfers, i \in 0..Pieces : t = Head(oldChanR).of /\ i = Head(oldChanR).n /\ i < Pieces
  BY <1>2
<1>4. oldRecv \in [Transfers -> WireReceives] /\ SenderTypes(oldSend, oldSent)'
  BY <1>1 DEF OldTypes
<1>5. PICK r \in WireReceives : r = oldRecv[t]
  BY <1>4
<1>6. oldRecv' = [oldRecv EXCEPT ![t] =
        IF ~r.table THEN r
        ELSE IF r.phase = "receiving" /\ i = r.next
        THEN [[r EXCEPT !.queue = Append(@, i)] EXCEPT !.next = i + 1] ELSE Old!AbortMarked(r)]
  BY <1>3, <1>4, <1>5 DEF Old!Chunk, Old!Queued
<1>7. PICK s : s = IF ~r.table THEN r
               ELSE IF r.phase = "receiving" /\ i = r.next
               THEN [[r EXCEPT !.queue = Append(@, i)] EXCEPT !.next = i + 1] ELSE Old!AbortMarked(r)
  OBVIOUS
<1>8. s \in WireReceives /\ (s = r \/ (r.table /\ s.table /\ s.work = r.work))
  <2>1. CASE ~r.table
    BY <1>7, <2>1
  <2>2. CASE r.table /\ r.phase = "receiving" /\ i = r.next
    <3>1. s = [r EXCEPT !.queue = Append(r.queue, i), !.next = i + 1]
      BY <1>7, <2>2 DEF WireReceives, WireShapes
    <3>2. s \in WireReceives
      BY <1>3, <2>2, <3>1, WireQueues
    <3>3. s.table = r.table /\ s.work = r.work
      BY <3>1 DEF WireReceives, WireShapes
    <3> QED
      BY <2>2, <3>2, <3>3
  <2>3. CASE r.table /\ ~(r.phase = "receiving" /\ i = r.next)
    BY <1>7, <2>3, OldMarks
  <2> QED
    BY <2>1, <2>2, <2>3
<1>9. oldRecv' = [oldRecv EXCEPT ![t] = s]
  BY <1>6, <1>7
<1>10. oldRecv' \in [Transfers -> WireReceives] /\ OldReads
  BY <1>4, <1>5, <1>8, <1>9 DEF OldReads
<1> QED
  BY <1>1, <1>2, <1>4, <1>10 DEF OldTypes

LEMMA OldEnds ==
  ASSUME OldTypes, NodeAssumption, Old!End
  PROVE  /\ OldTypes' /\ OldReads /\ UNCHANGED <<oldSend, oldStreamR, oldPlace, oldChanS>>
         /\ Moves(oldChanR, oldChanR', 1, {})
<1>1. Old!Receive("end")
      /\ UNCHANGED <<oldSend, oldSent, oldStreamS, oldStreamR, oldLinkUp, oldChanS, oldTemp, oldPlace>>
  BY DEF Old!End
<1>2. /\ oldChanR' \in Seq(WireFrames) /\ Moves(oldChanR, oldChanR', 1, {}) /\ Head(oldChanR).of \in Transfers
      /\ Head(oldChanR).n = Pieces
  BY <1>1, OldReceives
<1>3. PICK t \in Transfers : t = Head(oldChanR).of
  BY <1>2
<1>4. oldRecv \in [Transfers -> WireReceives] /\ SenderTypes(oldSend, oldSent)'
  BY <1>1 DEF OldTypes
<1>5. PICK r \in WireReceives : r = oldRecv[t]
  BY <1>4
<1>6. oldRecv' = [oldRecv EXCEPT ![t] =
        IF ~r.table THEN r
        ELSE IF r.phase = "receiving" /\ Pieces = r.next
        THEN [[r EXCEPT !.queue = Append(@, Pieces)] EXCEPT !.phase = "ending"] ELSE Old!AbortMarked(r)]
  BY <1>2, <1>3, <1>4, <1>5 DEF Old!End, Old!Queued, Old!EndMark
<1>7. PICK s : s = IF ~r.table THEN r
               ELSE IF r.phase = "receiving" /\ Pieces = r.next
               THEN [[r EXCEPT !.queue = Append(@, Pieces)] EXCEPT !.phase = "ending"] ELSE Old!AbortMarked(r)
  OBVIOUS
<1>8. s \in WireReceives /\ (s = r \/ (r.table /\ s.table /\ s.work = r.work))
  <2>1. CASE ~r.table
    BY <1>7, <2>1
  <2>2. CASE r.table /\ r.phase = "receiving" /\ Pieces = r.next
    <3>1. s = [r EXCEPT !.queue = Append(r.queue, Pieces), !.phase = "ending"]
      BY <1>7, <2>2 DEF WireReceives, WireShapes
    <3>2. Pieces \in 0..Pieces
      BY DEF NodeAssumption
    <3>3. s \in WireReceives
      BY <2>2, <3>1, <3>2, WireQueues
    <3>4. s.table = r.table /\ s.work = r.work
      BY <3>1 DEF WireReceives, WireShapes
    <3> QED
      BY <2>2, <3>3, <3>4
  <2>3. CASE r.table /\ ~(r.phase = "receiving" /\ Pieces = r.next)
    BY <1>7, <2>3, OldMarks
  <2> QED
    BY <2>1, <2>2, <2>3
<1>9. oldRecv' = [oldRecv EXCEPT ![t] = s]
  BY <1>6, <1>7
<1>10. oldRecv' \in [Transfers -> WireReceives] /\ OldReads
  BY <1>4, <1>5, <1>8, <1>9 DEF OldReads
<1> QED
  BY <1>1, <1>2, <1>4, <1>10 DEF OldTypes

LEMMA OldCancels ==
  ASSUME OldTypes, NodeAssumption, Old!Cancel
  PROVE  /\ OldTypes' /\ OldReads /\ UNCHANGED <<oldSend, oldStreamR, oldPlace, oldChanS>>
         /\ Moves(oldChanR, oldChanR', 1, {})
<1>1. Old!Receive("cancel")
      /\ UNCHANGED <<oldSend, oldSent, oldStreamS, oldStreamR, oldLinkUp, oldChanS, oldTemp, oldPlace>>
  BY DEF Old!Cancel
<1>2. oldChanR' \in Seq(WireFrames) /\ Moves(oldChanR, oldChanR', 1, {}) /\ Head(oldChanR).of \in Transfers
  BY <1>1, OldReceives
<1>3. PICK t \in Transfers : t = Head(oldChanR).of
  BY <1>2
<1>4. oldRecv \in [Transfers -> WireReceives] /\ SenderTypes(oldSend, oldSent)'
  BY <1>1 DEF OldTypes
<1>5. PICK s : s = IF oldRecv[t].table THEN Old!AbortMarked(oldRecv[t]) ELSE oldRecv[t]
  OBVIOUS
<1>6. s \in WireReceives /\ (s = oldRecv[t] \/ (oldRecv[t].table /\ s.table /\ s.work = oldRecv[t].work))
  BY <1>4, <1>5, OldMarks
<1>7. oldRecv' = [oldRecv EXCEPT ![t] = s]
  BY <1>3, <1>5 DEF Old!Cancel
<1>8. oldRecv' \in [Transfers -> WireReceives] /\ OldReads
  BY <1>4, <1>6, <1>7 DEF OldReads
<1> QED
  BY <1>1, <1>2, <1>4, <1>8 DEF OldTypes

LEMMA OldReadsClose ==
  ASSUME OldTypes, NodeAssumption, Old!Close
  PROVE  /\ OldTypes' /\ OldReads /\ UNCHANGED <<oldSend, oldPlace, oldChanS>> /\ oldStreamR' = "closing"
         /\ Moves(oldChanR, oldChanR', 1, {})
<1>1. Old!Receive("close") /\ oldStreamR' = "closing"
      /\ UNCHANGED <<oldSend, oldSent, oldStreamS, oldLinkUp, oldChanS, oldTemp, oldPlace>>
      /\ oldRecv' = [t \in Transfers |-> IF oldRecv[t].table THEN Old!AbortMarked(oldRecv[t]) ELSE oldRecv[t]]
  BY DEF Old!Close
<1>2. oldChanR' \in Seq(WireFrames) /\ Moves(oldChanR, oldChanR', 1, {})
  BY <1>1, OldReceives
<1>3. oldRecv \in [Transfers -> WireReceives] /\ SenderTypes(oldSend, oldSent)'
  BY <1>1 DEF OldTypes
<1>4. ASSUME NEW u \in Transfers
      PROVE  oldRecv'[u] \in WireReceives
             /\ (oldRecv'[u] = oldRecv[u] \/ (oldRecv[u].table /\ oldRecv'[u].table /\ oldRecv'[u].work = oldRecv[u].work))
  BY <1>1, <1>3, OldMarks
<1>5. oldRecv' \in [Transfers -> WireReceives] /\ OldReads
  BY <1>1, <1>4 DEF OldReads
<1> QED
  BY <1>1, <1>2, <1>3, <1>5 DEF OldTypes

\* What a receive that failed leaves.
LEMMA OldCleans ==
  ASSUME OldTypes, NodeAssumption, NEW t \in Transfers, Old!CleanUp(t),
         UNCHANGED <<oldSend, oldSent, oldStreamS, oldStreamR, oldLinkUp, oldChanR>>
  PROVE  /\ OldTypes' /\ oldRecv' = [oldRecv EXCEPT ![t] = Untaken]
         /\ Moves(oldChanR, oldChanR', 0, {})
         /\ Moves(oldChanS, oldChanS', 0, {[kind |-> "error", of |-> t, n |-> 0]})
         /\ UNCHANGED oldPlace \/ oldPlace' = [oldPlace EXCEPT ![t] = Nothing]
<1>1. /\ oldRecv' = [oldRecv EXCEPT ![t] = Untaken] /\ oldTemp' = oldTemp \ {t}
      /\ UNCHANGED oldPlace \/ oldPlace' = [oldPlace EXCEPT ![t] = Nothing]
      /\ Old!ToS([kind |-> "error", of |-> t, n |-> 0])
  BY DEF Old!CleanUp, Old!Frame, Old!Idle, Untaken
<1>2. [kind |-> "error", of |-> t, n |-> 0] \in WireReplies
  BY WireFrame DEF WireReplies, NodeAssumption
<1>3. oldChanS' \in Seq(WireReplies) /\ Moves(oldChanS, oldChanS', 0, {[kind |-> "error", of |-> t, n |-> 0]})
  BY <1>1, <1>2, OldToS
<1>4. oldRecv' \in [Transfers -> WireReceives] /\ oldTemp' \subseteq Transfers
      /\ oldPlace' \in [Transfers -> Transfers \cup {Nothing}]
  BY <1>1, WireStarts DEF OldTypes
<1>5. SenderTypes(oldSend, oldSent)' /\ Moves(oldChanR, oldChanR', 0, {})
  BY OldStayR DEF OldTypes
<1> QED
  BY <1>1, <1>3, <1>4, <1>5 DEF OldTypes

LEMMA OldRegistered ==
  ASSUME OldTypes, NEW t \in Transfers, oldRecv[t].work # "off" \/ oldRecv[t].table
  PROVE  oldRecv[t] \in WireReceives /\ oldRecv[t].table /\ oldRecv[t] # Untaken
BY DEF OldTypes, WireReceives, Queued, Untaken

\* The worker cleans up, is about to, or goes on: it writes and acknowledges, links
\* the file when the final path is free, and is done with it after that.
LEMMA OldWorks ==
  ASSUME OldTypes, NodeAssumption, NEW t \in Transfers, Old!Get(t) \/ Old!Write(t) \/ Old!Sync(t) \/ Old!Commit(t)
  PROVE  /\ OldTypes' /\ UNCHANGED <<oldSend, oldStreamR>> /\ oldRecv[t].table
         /\ Moves(oldChanR, oldChanR', 0, {})
         /\ \E k \in {"ack", "error"}, i \in 0..Pieces : Moves(oldChanS, oldChanS', 0, {[kind |-> k, of |-> t, n |-> i]})
         /\ \/ /\ oldRecv' = [oldRecv EXCEPT ![t] = Untaken]
               /\ UNCHANGED oldPlace \/ oldPlace' = [oldPlace EXCEPT ![t] = Nothing]
            \/ \E r \in WireReceives :
                 /\ r.table /\ r.work # "linked" /\ oldRecv' = [oldRecv EXCEPT ![t] = r] /\ UNCHANGED oldPlace
            \/ \E r \in WireReceives :
                 /\ r.table /\ r.work = "linked" /\ oldRecv' = [oldRecv EXCEPT ![t] = r]
                 /\ oldPlace[t] = Nothing /\ oldPlace' = [oldPlace EXCEPT ![t] = t]
<1> DEFINE Same == UNCHANGED <<oldSend, oldSent, oldStreamS, oldStreamR, oldLinkUp, oldChanR>>
<1>1. Same
  BY DEF Old!Get, Old!Write, Old!Sync, Old!Commit
<1>2. oldRecv[t] \in WireReceives /\ oldRecv[t].table /\ oldRecv[t] # Untaken
  <2>1. oldRecv[t].work # "off"
    BY DEF Old!Get, Old!Write, Old!Sync, Old!Commit
  <2> QED
    BY <2>1, OldRegistered
<1>3. PICK r \in WireReceives : r = oldRecv[t]
  BY <1>2
<1>4. oldRecv \in [Transfers -> WireReceives] /\ SenderTypes(oldSend, oldSent)' /\ oldTemp \subseteq Transfers
      /\ oldPlace \in [Transfers -> Transfers \cup {Nothing}] /\ oldChanS \in Seq(WireReplies)
  BY <1>1 DEF OldTypes
<1>5. 0 \in 0..Pieces /\ Moves(oldChanR, oldChanR', 0, {}) /\ Moves(oldChanS, oldChanS, 0, {[kind |-> "ack", of |-> t, n |-> 0]})
  BY <1>1, <1>4, OldStayR, MovesStay DEF NodeAssumption
<1>6. CASE Old!CleanUp(t)
  BY <1>1, <1>2, <1>5, <1>6, OldCleans
<1>7. ASSUME NEW s \in WireReceives, s.table, s.work # "linked", oldRecv' = [oldRecv EXCEPT ![t] = s],
             UNCHANGED <<oldTemp, oldPlace>>, oldChanS' \in Seq(WireReplies),
             NEW k \in {"ack", "error"}, NEW i \in 0..Pieces, Moves(oldChanS, oldChanS', 0, {[kind |-> k, of |-> t, n |-> i]})
      PROVE  /\ OldTypes' /\ UNCHANGED <<oldSend, oldStreamR>> /\ UNCHANGED oldPlace
             /\ \E j \in {"ack", "error"}, n \in 0..Pieces : Moves(oldChanS, oldChanS', 0, {[kind |-> j, of |-> t, n |-> n]})
             /\ \E q \in WireReceives : q.table /\ q.work # "linked" /\ oldRecv' = [oldRecv EXCEPT ![t] = q]
  <2>1. oldRecv' \in [Transfers -> WireReceives]
    BY <1>4, <1>7
  <2> QED
    BY <1>1, <1>4, <1>7, <2>1 DEF OldTypes
<1>8. CASE Old!Get(t) /\ ~Old!CleanUp(t)
  <2>1. /\ r.queue # <<>> /\ UNCHANGED <<oldChanS, oldTemp, oldPlace>>
        /\ oldRecv' = [oldRecv EXCEPT ![t].queue = Tail(@), ![t].work = IF Head(r.queue) = Pieces THEN "sync" ELSE "write",
                         ![t].got = IF Head(r.queue) = Pieces THEN @ ELSE @ + 1]
    BY <1>3, <1>8 DEF Old!Get, Old!EndMark
  <2>2. PICK s : s = IF Head(r.queue) = Pieces THEN [r EXCEPT !.queue = Tail(r.queue), !.work = "sync"]
                     ELSE [r EXCEPT !.queue = Tail(r.queue), !.work = "write", !.got = r.got + 1]
    OBVIOUS
  <2>3. s \in WireReceives
    BY <1>2, <1>3, <2>1, <2>2, WireTakes
  <2>4. s.table /\ s.work # "linked"
    BY <1>2, <1>3, <2>2 DEF WireReceives, WireShapes
  <2>5. oldRecv' = [oldRecv EXCEPT ![t] = s]
    BY <1>3, <1>4, <2>1, <2>2 DEF WireReceives, WireShapes
  <2>6. oldChanS' \in Seq(WireReplies) /\ Moves(oldChanS, oldChanS', 0, {[kind |-> "ack", of |-> t, n |-> 0]})
    BY <1>4, <1>5, <2>1
  <2> QED
    BY <1>2, <1>5, <1>7, <2>1, <2>3, <2>4, <2>5, <2>6
<1>9. CASE Old!Write(t)
  <2>1. /\ r.work = "write" /\ UNCHANGED <<oldTemp, oldPlace>>
        /\ oldRecv' = [oldRecv EXCEPT ![t].work = "get"] /\ Old!ToS([kind |-> "ack", of |-> t, n |-> r.got - 1])
    BY <1>3, <1>9 DEF Old!Write, Old!Frame
  <2>2. r.got - 1 \in 0..Pieces
    BY <2>1, SMTT(30) DEF WireReceives, WireShapes, Queued, NodeAssumption
  <2>3. PICK s : s = [r EXCEPT !.work = "get"]
    OBVIOUS
  <2>4. s \in WireReceives
    BY <1>2, <1>3, <2>3, WireWorks
  <2>5. s.table /\ s.work # "linked"
    BY <1>2, <1>3, <2>3 DEF WireReceives, WireShapes
  <2>6. oldRecv' = [oldRecv EXCEPT ![t] = s]
    BY <1>3, <1>4, <2>1, <2>3
  <2>7. [kind |-> "ack", of |-> t, n |-> r.got - 1] \in WireReplies
    BY <2>2, WireFrame DEF WireReplies, NodeAssumption
  <2>8. oldChanS' \in Seq(WireReplies) /\ Moves(oldChanS, oldChanS', 0, {[kind |-> "ack", of |-> t, n |-> r.got - 1]})
    BY <2>1, <2>7, OldToS
  <2> QED
    BY <1>2, <1>5, <1>7, <2>1, <2>2, <2>4, <2>5, <2>6, <2>8
<1>10. CASE Old!Sync(t) /\ ~Old!CleanUp(t)
  <2>1. /\ UNCHANGED <<oldChanS, oldTemp, oldPlace>>
        /\ oldRecv' = [oldRecv EXCEPT ![t].phase = "committing", ![t].work = "commit"]
    BY <1>10 DEF Old!Sync
  <2>2. PICK s : s = [r EXCEPT !.phase = "committing", !.work = "commit"]
    OBVIOUS
  <2>3. s \in WireReceives
    BY <1>2, <1>3, <2>2, WireWorks
  <2>4. s.table /\ s.work # "linked"
    BY <1>2, <1>3, <2>2 DEF WireReceives, WireShapes
  <2>5. oldRecv' = [oldRecv EXCEPT ![t] = s]
    BY <1>3, <1>4, <2>1, <2>2 DEF WireReceives, WireShapes
  <2>6. oldChanS' \in Seq(WireReplies) /\ Moves(oldChanS, oldChanS', 0, {[kind |-> "ack", of |-> t, n |-> 0]})
    BY <1>4, <1>5, <2>1
  <2> QED
    BY <1>2, <1>5, <1>7, <2>1, <2>3, <2>4, <2>5, <2>6
<1>11. CASE Old!Commit(t) /\ ~Old!CleanUp(t)
  <2>1. /\ oldPlace[t] = Nothing /\ oldPlace' = [oldPlace EXCEPT ![t] = t] /\ oldTemp' = oldTemp \ {t}
        /\ oldRecv' = [oldRecv EXCEPT ![t].work = "linked"] /\ UNCHANGED oldChanS
    BY <1>11 DEF Old!Commit
  <2>2. PICK s : s = [r EXCEPT !.work = "linked"]
    OBVIOUS
  <2>3. s \in WireReceives
    BY <1>2, <1>3, <2>2, WireWorks
  <2>4. s.table /\ s.work = "linked"
    BY <1>2, <1>3, <2>2 DEF WireReceives, WireShapes
  <2>5. oldRecv' = [oldRecv EXCEPT ![t] = s]
    BY <1>3, <1>4, <2>1, <2>2
  <2>6. oldRecv' \in [Transfers -> WireReceives] /\ oldTemp' \subseteq Transfers
        /\ oldPlace' \in [Transfers -> Transfers \cup {Nothing}]
    BY <1>4, <2>1, <2>3, <2>5
  <2>7. OldTypes'
    BY <1>1, <1>4, <2>1, <2>6 DEF OldTypes
  <2>8. Moves(oldChanS, oldChanS', 0, {[kind |-> "ack", of |-> t, n |-> 0]})
    BY <1>5, <2>1
  <2> QED
    BY <1>1, <1>2, <1>5, <2>1, <2>3, <2>4, <2>5, <2>7, <2>8
<1> QED
  BY <1>6, <1>8, <1>9, <1>10, <1>11

-----------------------------------------------------------------------------
(* artifacts/1 delivers as promised.                                         *)

\* A transfer that is under way has no file yet and was not answered, and one that
\* was answered with success, or is about to be, has its file and is over for the
\* receiver.
OldAt(u) ==
  /\ oldPlace[u] \in {u, Nothing}
  /\ oldSend[u] = "new" => oldRecv[u] = Untaken /\ ~Of(oldChanR, u) /\ ~Of(oldChanS, u)
  /\ Has(oldChanR, "begin", u) => oldRecv[u] = Untaken /\ oldSend[u] # "ok" /\ ~Has(oldChanS, "ok", u)
  /\ Once(oldChanR, u)
  /\ Has(oldChanS, "ok", u) \/ oldSend[u] = "ok" => oldPlace[u] = u /\ oldRecv[u] = Untaken
  /\ oldRecv[u].work = "linked" => oldPlace[u] = u

OldInv == OldTypes /\ \A u \in Transfers : OldAt(u)

LEMMA UntakenOff == Untaken.work # "linked" /\ ~Untaken.table
BY DEF Untaken

\* What the sender does to a transfer.
LEMMA OldSender ==
  ASSUME OldInv, OldTypes', NEW u \in Transfers, UNCHANGED <<oldPlace, oldRecv>>,
         NEW N, Moves(oldChanR, oldChanR', 0, N), NEW d, Moves(oldChanS, oldChanS', d, {}),
         \A f \in N : f.kind # "begin",
         oldSend'[u] = "new" => oldSend[u] = "new" /\ \A f \in N : f.of # u,
         oldSend'[u] = "ok" => oldSend[u] = "ok" \/ Has(oldChanS, "ok", u)
  PROVE  OldAt(u)'
<1>1. OldAt(u) /\ oldChanR \in Seq(WireFrames) /\ oldChanR' \in Seq(WireFrames)
      /\ oldChanS \in Seq(WireReplies) /\ oldChanS' \in Seq(WireReplies)
  BY DEF OldInv, OldTypes
<1>2. /\ Has(oldChanR', "begin", u) => Has(oldChanR, "begin", u)
      /\ Of(oldChanR', u) => Of(oldChanR, u) \/ \E f \in N : f.of = u
  BY <1>1, MovesHas, MovesOf
<1>3. /\ Has(oldChanS', "ok", u) => Has(oldChanS, "ok", u)
      /\ Of(oldChanS', u) => Of(oldChanS, u)
  BY <1>1, MovesHas, MovesOf
<1>4. Once(oldChanR', u)
  BY <1>1, MovesOnce, SMTT(30) DEF OldAt
<1> QED
  BY <1>1, <1>2, <1>3, <1>4 DEF OldAt

\* A step that reads a frame that is not a begin, and changes no receive but as
\* OldReads says.
LEMMA OldReader ==
  ASSUME OldInv, OldTypes', NEW u \in Transfers, UNCHANGED <<oldPlace, oldSend, oldChanS>>, OldReads,
         Moves(oldChanR, oldChanR', 1, {})
  PROVE  OldAt(u)'
<1>1. OldAt(u) /\ oldChanR \in Seq(WireFrames) /\ oldChanR' \in Seq(WireFrames)
  BY DEF OldInv, OldTypes
<1>2. /\ Has(oldChanR', "begin", u) => Has(oldChanR, "begin", u)
      /\ Of(oldChanR', u) => Of(oldChanR, u)
  BY <1>1, MovesHas, MovesOf
<1>3. Once(oldChanR', u)
  BY <1>1, MovesOnce DEF OldAt
<1>4. oldRecv'[u] = oldRecv[u] \/ (oldRecv[u].table /\ oldRecv'[u].work = oldRecv[u].work)
  BY DEF OldReads
<1> QED
  BY <1>1, <1>2, <1>3, <1>4, UntakenOff DEF OldAt

LEMMA OldBegun == ASSUME OldInv, NodeAssumption, Old!BeginArtifact, NEW u \in Transfers PROVE OldAt(u)'
<1>1. OldTypes /\ OldAt(u) /\ oldChanR \in Seq(WireFrames) /\ oldChanS \in Seq(WireReplies)
      /\ oldRecv \in [Transfers -> WireReceives]
  BY DEF OldInv, OldTypes
<1>2. Old!Begin(Transfers)
  BY DEF Old!BeginArtifact
<1>3. /\ OldTypes' /\ oldChanR' = Tail(oldChanR) /\ Moves(oldChanR, oldChanR', 1, {}) /\ oldChanR # <<>>
      /\ Head(oldChanR).of \in Transfers /\ Head(oldChanR).kind = "begin"
      /\ Has(oldChanR, "begin", Head(oldChanR).of) /\ UNCHANGED <<oldSend, oldPlace>>
      /\ \/ UNCHANGED oldRecv
         \/ oldRecv' = [oldRecv EXCEPT ![Head(oldChanR).of] =
                          [Untaken EXCEPT !.phase = "receiving", !.work = "get", !.table = TRUE]]
  BY <1>1, <1>2, OldBegins
<1>4. PICK t \in Transfers : t = Head(oldChanR).of
  BY <1>3
<1>5. PICK k \in {"ready", "error"} : Moves(oldChanS, oldChanS', 0, {[kind |-> k, of |-> t, n |-> 0]})
  BY <1>1, <1>2, <1>4, OldBegins
<1>6. oldChanR' \in Seq(WireFrames) /\ oldChanS' \in Seq(WireReplies)
  BY <1>3 DEF OldTypes
<1>7. /\ Has(oldChanR', "begin", u) => Has(oldChanR, "begin", u)
      /\ Of(oldChanR', u) => Of(oldChanR, u)
  BY <1>1, <1>3, <1>6, MovesHas, MovesOf
<1>8. Has(oldChanS', "ok", u) => Has(oldChanS, "ok", u)
  BY <1>1, <1>5, <1>6, MovesHas, MovesOf
<1>9. Of(oldChanS', u) => Of(oldChanS, u) \/ u = t
  <2>1. Of(oldChanS', u) => Of(oldChanS, u) \/ \E f \in {[kind |-> k, of |-> t, n |-> 0]} : f.of = u
    BY <1>5, MovesOf
  <2> QED
    BY <2>1
<1>10. Once(oldChanR', u)
  <2>1. Once(oldChanR, u) /\ Moves(oldChanR, oldChanR', 1, {})
    BY <1>1, <1>3 DEF OldAt
  <2> QED
    BY <1>1, <1>6, <2>1, MovesOnce
<1>11. CASE u = t
  <2>1. Has(oldChanR, "begin", u) /\ Of(oldChanR, u)
    BY <1>1, <1>3, <1>4, <1>11, InFront
  <2>2. ~Has(oldChanR', "begin", u)
    BY <1>1, <1>3, <1>4, <1>11, InFront DEF OldAt
  <2>3. oldRecv'[u].work # "linked"
    BY <1>1, <1>3, <1>4, <1>11, <2>1, UntakenOff DEF OldAt, Untaken
  <2> QED
    BY <1>1, <1>3, <1>7, <1>8, <1>10, <2>1, <2>2, <2>3 DEF OldAt
<1>12. CASE u # t
  <2>1. oldRecv'[u] = oldRecv[u]
    BY <1>1, <1>3, <1>4, <1>12
  <2> QED
    BY <1>1, <1>3, <1>7, <1>8, <1>9, <1>10, <1>12, <2>1 DEF OldAt
<1> QED
  BY <1>11, <1>12

LEMMA OldStarted ==
  ASSUME OldInv, NodeAssumption, NEW t \in Transfers, Old!Start(t), NEW u \in Transfers
  PROVE  OldAt(u)'
<1>1. OldTypes /\ OldAt(u) /\ oldChanR \in Seq(WireFrames) /\ oldSend \in [Transfers -> {"new", "ok", "failed", "begin", "sending", "ended"}]
  BY DEF OldInv, OldTypes, SenderTypes
<1>2. OldTypes' /\ Moves(oldChanR, oldChanR', 0, {[kind |-> "begin", of |-> t, n |-> 0]})
  BY <1>1, OldStarts
<1>3. oldSend[t] = "new" /\ oldSend' = [oldSend EXCEPT ![t] = "begin"] /\ UNCHANGED <<oldPlace, oldRecv, oldChanS>>
  BY DEF Old!Start
<1>4. oldChanR' \in Seq(WireFrames)
  BY <1>2 DEF OldTypes
<1>5. /\ Has(oldChanR', "begin", u) => Has(oldChanR, "begin", u) \/ u = t
      /\ Of(oldChanR', u) => Of(oldChanR, u) \/ u = t
  BY <1>1, <1>2, <1>4, MovesHas, MovesOf
<1>6. Has(oldChanR, "begin", u) => Of(oldChanR, u)
  BY DEF Has, Of
<1>7. Has(oldChanS, "ok", u) => Of(oldChanS, u)
  BY DEF Has, Of
<1>8. Once(oldChanR', u)
  <2>1. Has(oldChanR, "begin", u) => u # t
    BY <1>1, <1>3, <1>6 DEF OldAt
  <2> QED
    BY <1>1, <1>2, <1>4, <2>1, MovesOnce DEF OldAt
<1> QED
  BY <1>1, <1>3, <1>5, <1>6, <1>7, <1>8 DEF OldAt

LEMMA OldReplied == ASSUME OldInv, NodeAssumption, Old!Reply, NEW u \in Transfers PROVE OldAt(u)'
<1>1. OldTypes /\ OldAt(u) /\ oldSend \in [Transfers -> {"new", "ok", "failed", "begin", "sending", "ended"}]
  BY DEF OldInv, OldTypes, SenderTypes
<1>2. OldTypes' /\ oldChanS' = Tail(oldChanS) /\ oldChanS # <<>>
  BY <1>1, OldReplies
<1>3. PICK t \in Transfers, N \in SUBSET WireFrames :
              /\ t = Head(oldChanS).of /\ Moves(oldChanR, oldChanR', 0, N)
              /\ \A f \in N : f.of = t /\ f.kind \in {"chunk", "end", "cancel"}
              /\ \/ UNCHANGED oldSend /\ N = {}
                 \/ oldSend' = [oldSend EXCEPT ![t] = "ok"] /\ Head(oldChanS).kind = "ok" /\ oldSend[t] = "ended" /\ N = {}
                 \/ \E x \in {"failed", "sending", "ended"} :
                      oldSend' = [oldSend EXCEPT ![t] = x] /\ oldSend[t] \in {"begin", "sending", "ended"}
  BY <1>1, OldReplies
<1>4. Moves(oldChanS, oldChanS', 1, {}) /\ Has(oldChanS, Head(oldChanS).kind, t) /\ Of(oldChanS, t)
  BY <1>1, <1>2, <1>3, OldTaken
<1>5. UNCHANGED <<oldPlace, oldRecv>>
  BY DEF Old!Reply
<1>6. \A f \in N : f.kind # "begin" /\ f.of = t
  BY <1>3
<1>8. oldSend'[u] = "new" => oldSend[u] = "new"
  BY <1>1, <1>3
<1>9. oldSend'[u] = "new" => \A f \in N : f.of # u
  BY <1>1, <1>3, <1>6, <1>8, <1>4 DEF OldAt
<1>10. oldSend'[u] = "ok" => oldSend[u] = "ok" \/ Has(oldChanS, "ok", u)
  BY <1>1, <1>3, <1>4
<1> QED
  BY <1>2, <1>3, <1>4, <1>5, <1>6, <1>8, <1>9, <1>10, OldSender

LEMMA OldTimedOut ==
  ASSUME OldInv, NodeAssumption, NEW t \in Transfers, Old!TimesOut(t), NEW u \in Transfers
  PROVE  OldAt(u)'
<1>1. OldTypes /\ OldAt(u) /\ oldSend \in [Transfers -> {"new", "ok", "failed", "begin", "sending", "ended"}]
  BY DEF OldInv, OldTypes, SenderTypes
<1>2. OldTypes' /\ oldSend' = [oldSend EXCEPT ![t] = "failed"]
      /\ Moves(oldChanR, oldChanR', 0, {[kind |-> "cancel", of |-> t, n |-> 0]})
  BY <1>1, OldTimesOut
<1>3. oldSend[t] # "new" /\ UNCHANGED <<oldPlace, oldRecv, oldChanS>>
  BY DEF Old!TimesOut, Old!Busy
<1>4. Moves(oldChanS, oldChanS', 0, {})
  BY <1>1, <1>3, OldStayS
<1>5. oldSend'[u] = "new" => oldSend[u] = "new" /\ u # t
  BY <1>1, <1>2
<1>6. PICK N : N = {[kind |-> "cancel", of |-> t, n |-> 0]}
  OBVIOUS
<1>7. (\A f \in N : f.kind # "begin") /\ (oldSend'[u] = "new" => \A f \in N : f.of # u)
  BY <1>5, <1>6
<1>8. oldSend'[u] = "ok" => oldSend[u] = "ok"
  BY <1>1, <1>2
<1> QED
  BY <1>2, <1>3, <1>4, <1>5, <1>6, <1>7, <1>8, OldSender

LEMMA OldClosed ==
  ASSUME OldInv, NodeAssumption, Old!StreamCloses \/ Old!LinkBreaks, NEW u \in Transfers
  PROVE  OldAt(u)'
<1>1. OldTypes /\ OldAt(u) /\ oldSend \in [Transfers -> {"new", "ok", "failed", "begin", "sending", "ended"}]
  BY DEF OldInv, OldTypes, SenderTypes
<1>2. OldTypes' /\ Moves(oldChanR, oldChanR', 0, {[kind |-> "close", of |-> Nothing, n |-> 0]})
  BY <1>1, OldCloses, OldLoses
<1>3. UNCHANGED <<oldPlace, oldRecv>> /\ (oldChanS' = oldChanS \/ oldChanS' = <<>>)
      /\ oldSend' = [t \in Transfers |-> IF oldSend[t] \in Old!Busy THEN "failed" ELSE oldSend[t]]
  BY DEF Old!StreamCloses, Old!LinkBreaks
<1>4. Moves(oldChanS, oldChanS', 0, {})
  <2>1. Moves(oldChanS, oldChanS, 0, {})
    BY <1>1, OldStayS
  <2>2. Moves(oldChanS, <<>>, 0, {})
    BY DEF Moves
  <2> QED
    BY <1>3, <2>1, <2>2
<1>5. PICK N : N = {[kind |-> "close", of |-> Nothing, n |-> 0]}
  OBVIOUS
<1>6. \A f \in N : f.kind # "begin" /\ f.of # u
  BY <1>5 DEF NodeAssumption
<1>7. /\ oldSend'[u] = "new" => oldSend[u] = "new"
      /\ oldSend'[u] = "ok" => oldSend[u] = "ok"
  BY <1>1, <1>3 DEF Old!Busy
<1> QED
  BY <1>2, <1>3, <1>4, <1>5, <1>6, <1>7, OldSender

\* What a step of the worker of a transfer, or its abort, leaves of it.
LEMMA OldWorker ==
  ASSUME OldInv, OldTypes', NEW t \in Transfers, NEW u \in Transfers, UNCHANGED oldSend,
         oldRecv[t].table, Moves(oldChanR, oldChanR', 0, {}),
         NEW f, f.of = t, Moves(oldChanS, oldChanS', 0, {f}),
         u # t => oldRecv'[u] = oldRecv[u] /\ oldPlace'[u] = oldPlace[u],
         \/ f.kind # "ok" /\ oldPlace'[t] \in {oldPlace[t], Nothing} /\ oldRecv'[t].work # "linked"
         \/ f.kind # "ok" /\ oldPlace'[t] = t
         \/ oldPlace[t] = t /\ oldPlace'[t] = t /\ oldRecv'[t] = Untaken
  PROVE  OldAt(u)'
<1>1. OldAt(u) /\ oldChanR \in Seq(WireFrames) /\ oldChanR' \in Seq(WireFrames)
      /\ oldChanS \in Seq(WireReplies) /\ oldChanS' \in Seq(WireReplies)
  BY DEF OldInv, OldTypes
<1>2. /\ Has(oldChanR', "begin", u) => Has(oldChanR, "begin", u)
      /\ Of(oldChanR', u) => Of(oldChanR, u)
  BY <1>1, MovesHas, MovesOf
<1>3. Once(oldChanR', u)
  BY <1>1, MovesOnce DEF OldAt
<1>4. Has(oldChanS', "ok", u) => Has(oldChanS, "ok", u) \/ (f.kind = "ok" /\ u = t)
  BY <1>1, MovesHas, MovesOf
<1>5. Of(oldChanS', u) => Of(oldChanS, u) \/ u = t
  BY <1>1, MovesHas, MovesOf
<1>6. oldRecv[t] # Untaken
  BY UntakenOff
<1>7. CASE u # t
  BY <1>1, <1>2, <1>3, <1>4, <1>5, <1>7 DEF OldAt
<1>8. CASE u = t
  <2>1. /\ oldSend[u] \notin {"new", "ok"} /\ ~Has(oldChanR', "begin", u) /\ ~Has(oldChanS, "ok", u)
        /\ oldPlace[u] \in {u, Nothing}
    BY <1>1, <1>2, <1>6, <1>8 DEF OldAt
  <2> QED
    BY <1>3, <1>4, <1>8, <2>1, UntakenOff DEF OldAt
<1> QED
  BY <1>7, <1>8

LEMMA OldWorked ==
  ASSUME OldInv, NodeAssumption, NEW t \in Transfers, NEW u \in Transfers, Old!Worker(t)
  PROVE  OldTypes' /\ OldAt(u)'
<1>1. OldTypes /\ oldRecv \in [Transfers -> WireReceives] /\ oldPlace \in [Transfers -> Transfers \cup {Nothing}]
  BY DEF OldInv, OldTypes
<1>2. /\ OldTypes' /\ UNCHANGED <<oldSend, oldStreamR>> /\ oldRecv[t].table
      /\ Moves(oldChanR, oldChanR', 0, {})
      /\ \E k \in {"ack", "error"}, i \in 0..Pieces : Moves(oldChanS, oldChanS', 0, {[kind |-> k, of |-> t, n |-> i]})
      /\ \/ /\ oldRecv' = [oldRecv EXCEPT ![t] = Untaken]
            /\ UNCHANGED oldPlace \/ oldPlace' = [oldPlace EXCEPT ![t] = Nothing]
         \/ \E r \in WireReceives :
              /\ r.table /\ r.work # "linked" /\ oldRecv' = [oldRecv EXCEPT ![t] = r] /\ UNCHANGED oldPlace
         \/ \E r \in WireReceives :
              /\ r.table /\ r.work = "linked" /\ oldRecv' = [oldRecv EXCEPT ![t] = r]
              /\ oldPlace[t] = Nothing /\ oldPlace' = [oldPlace EXCEPT ![t] = t]
  BY <1>1, OldWorks DEF Old!Worker
<1>3. PICK f : f.of = t /\ f.kind # "ok" /\ Moves(oldChanS, oldChanS', 0, {f})
  <2>1. PICK k \in {"ack", "error"}, i \in 0..Pieces : Moves(oldChanS, oldChanS', 0, {[kind |-> k, of |-> t, n |-> i]})
    BY <1>2
  <2> QED
    BY <2>1
<1>4. u # t => oldRecv'[u] = oldRecv[u] /\ oldPlace'[u] = oldPlace[u]
  BY <1>1, <1>2
<1>5. \/ oldPlace'[t] \in {oldPlace[t], Nothing} /\ oldRecv'[t].work # "linked"
      \/ oldPlace'[t] = t
  BY <1>1, <1>2, UntakenOff
<1> QED
  BY <1>2, <1>3, <1>4, <1>5, OldWorker

LEMMA OldCleaned ==
  ASSUME OldInv, NodeAssumption, NEW t \in Transfers, NEW u \in Transfers, Old!CleanUp(t), oldRecv[t].table,
         UNCHANGED <<oldSend, oldSent, oldStreamS, oldStreamR, oldLinkUp, oldChanR>>
  PROVE  OldTypes' /\ OldAt(u)'
<1>1. OldTypes /\ oldRecv \in [Transfers -> WireReceives] /\ oldPlace \in [Transfers -> Transfers \cup {Nothing}]
  BY DEF OldInv, OldTypes
<1>2. /\ OldTypes' /\ oldRecv' = [oldRecv EXCEPT ![t] = Untaken]
      /\ Moves(oldChanR, oldChanR', 0, {})
      /\ Moves(oldChanS, oldChanS', 0, {[kind |-> "error", of |-> t, n |-> 0]})
      /\ UNCHANGED oldPlace \/ oldPlace' = [oldPlace EXCEPT ![t] = Nothing]
  BY <1>1, OldCleans
<1>3. PICK f : f.of = t /\ f.kind # "ok" /\ Moves(oldChanS, oldChanS', 0, {f})
  BY <1>2
<1>4. u # t => oldRecv'[u] = oldRecv[u] /\ oldPlace'[u] = oldPlace[u]
  BY <1>1, <1>2
<1>5. oldPlace'[t] \in {oldPlace[t], Nothing} /\ oldRecv'[t].work # "linked"
  BY <1>1, <1>2, UntakenOff
<1> QED
  BY <1>2, <1>3, <1>4, <1>5, OldWorker

LEMMA OldLinked ==
  ASSUME OldInv, NodeAssumption, NEW t \in Transfers, NEW u \in Transfers, Old!Linked(t)
  PROVE  OldTypes' /\ OldAt(u)'
<1>1. OldTypes /\ oldRecv \in [Transfers -> WireReceives] /\ oldRecv[t].work = "linked" /\ oldPlace[t] = t
  BY DEF OldInv, OldTypes, Old!Linked, OldAt
<1>2. oldRecv[t].table /\ UNCHANGED <<oldSend, oldSent, oldStreamS, oldStreamR, oldLinkUp, oldChanR>>
  BY <1>1, OldRegistered DEF Old!Linked
<1>3. CASE oldRecv[t].phase = "aborting"
  BY <1>2, <1>3, OldCleaned DEF Old!Linked
<1>4. CASE oldRecv[t].phase # "aborting"
  <2>1. oldRecv' = [oldRecv EXCEPT ![t] = Untaken] /\ Old!ToS([kind |-> "ok", of |-> t, n |-> 0])
        /\ UNCHANGED <<oldTemp, oldPlace>>
    BY <1>4 DEF Old!Linked, Old!Frame, Old!Idle, Untaken
  <2>2. [kind |-> "ok", of |-> t, n |-> 0] \in WireReplies
    BY WireFrame DEF WireReplies, NodeAssumption
  <2>3. oldChanS' \in Seq(WireReplies) /\ Moves(oldChanS, oldChanS', 0, {[kind |-> "ok", of |-> t, n |-> 0]})
    BY <1>1, <2>1, <2>2, OldToS
  <2>4. OldTypes'
    <3>1. SenderTypes(oldSend, oldSent)'
      BY <1>1, <1>2 DEF OldTypes
    <3>2. oldRecv' \in [Transfers -> WireReceives]
      BY <1>1, <2>1, WireStarts
    <3> QED
      BY <1>1, <1>2, <2>1, <2>3, <3>1, <3>2 DEF OldTypes
  <2>5. Moves(oldChanR, oldChanR', 0, {})
    BY <1>1, <1>2, OldStayR
  <2>6. PICK f : f.of = t /\ Moves(oldChanS, oldChanS', 0, {f})
    BY <2>3
  <2>7. u # t => oldRecv'[u] = oldRecv[u] /\ oldPlace'[u] = oldPlace[u]
    BY <1>1, <2>1
  <2>8. oldPlace'[t] = t /\ oldRecv'[t] = Untaken
    BY <1>1, <2>1
  <2> QED
    BY <1>1, <1>2, <2>4, <2>5, <2>6, <2>7, <2>8, OldWorker
<1> QED
  BY <1>3, <1>4

\* Every step of artifacts/1 keeps the invariant.
LEMMA OldStep == ASSUME OldInv, NodeAssumption, [Old!Next]_(Old!transferVars) PROVE OldInv'
<1>1. OldTypes
  BY DEF OldInv
<1>2. CASE Old!Reply
  BY <1>1, <1>2, OldReplies, OldReplied DEF OldInv
<1>3. CASE Old!StreamCloses \/ Old!LinkBreaks
  <2>1. OldTypes'
    BY <1>1, <1>3, OldCloses, OldLoses
  <2> QED
    BY <1>3, <2>1, OldClosed DEF OldInv
<1>4. ASSUME NEW t \in Transfers, Old!Start(t) PROVE OldInv'
  BY <1>1, <1>4, OldStarts, OldStarted DEF OldInv
<1>5. ASSUME NEW t \in Transfers, Old!TimesOut(t) PROVE OldInv'
  BY <1>1, <1>5, OldTimesOut, OldTimedOut DEF OldInv
<1>6. CASE Old!Chunk \/ Old!End \/ Old!Cancel \/ Old!Close
  <2>1. OldTypes' /\ OldReads /\ UNCHANGED <<oldSend, oldPlace, oldChanS>> /\ Moves(oldChanR, oldChanR', 1, {})
    BY <1>1, <1>6, OldChunks, OldEnds, OldCancels, OldReadsClose
  <2> QED
    BY <2>1, OldReader DEF OldInv
<1>7. ASSUME NEW t \in Transfers, Old!Worker(t) PROVE OldInv'
  BY <1>7, OldWorked DEF OldInv
<1>8. ASSUME NEW t \in Transfers, Old!Abort(t) PROVE OldInv'
  BY <1>8, OldCleaned DEF Old!Abort, OldInv
<1>9. ASSUME NEW t \in Transfers, Old!Linked(t) PROVE OldInv'
  BY <1>9, OldLinked DEF OldInv
<1>10. CASE Old!BeginArtifact
  <2>1. OldTypes'
    BY <1>1, <1>10, OldBegins DEF Old!BeginArtifact
  <2> QED
    BY <1>10, <2>1, OldBegun DEF OldInv
<1>11. CASE Old!StreamGone \/ UNCHANGED Old!transferVars
  <2>1. UNCHANGED <<oldSend, oldSent, oldStreamS, oldLinkUp, oldChanR, oldChanS, oldRecv, oldTemp, oldPlace>>
        /\ (oldStreamR' = "closed" \/ oldStreamR' = oldStreamR)
    BY <1>11 DEF Old!StreamGone, Old!transferVars
  <2>2. SenderTypes(oldSend, oldSent)'
    BY <1>1, <2>1 DEF OldTypes
  <2>3. OldTypes'
    BY <1>1, <2>1, <2>2 DEF OldTypes
  <2>4. ASSUME NEW u \in Transfers PROVE OldAt(u)'
    BY <2>1 DEF OldInv, OldAt
  <2> QED
    BY <2>3, <2>4 DEF OldInv
<1> QED
  BY <1>2, <1>3, <1>4, <1>5, <1>6, <1>7, <1>8, <1>9, <1>10, <1>11
     DEF Old!Next, Old!SenderSteps, Old!ReceiverSteps, Old!LinkedSome

LEMMA OldStart == NodeAssumption /\ Old!TransferInit => OldInv
<1> SUFFICES ASSUME NodeAssumption, Old!TransferInit PROVE OldInv
  OBVIOUS
<1>1. /\ oldSend = [t \in Transfers |-> "new"] /\ oldSent = [t \in Transfers |-> 0]
      /\ oldStreamS = "open" /\ oldStreamR = "open" /\ oldLinkUp = TRUE
      /\ oldChanR = <<>> /\ oldChanS = <<>>
      /\ oldRecv = [t \in Transfers |-> Untaken] /\ oldTemp = {}
      /\ oldPlace = [t \in Transfers |-> Nothing]
  BY DEF Old!TransferInit, Old!Idle, Untaken, Old!Paths
<1>2. SenderTypes(oldSend, oldSent)
  BY <1>1 DEF SenderTypes, NodeAssumption
<1>3. <<>> \in Seq(WireFrames) /\ <<>> \in Seq(WireReplies)
  OBVIOUS
<1>4. OldTypes
  BY <1>1, <1>2, <1>3, WireStarts DEF OldTypes
<1>5. ASSUME NEW u \in Transfers PROVE OldAt(u)
  BY <1>1, NothingUnderWay, UntakenOff DEF OldAt
<1> QED
  BY <1>4, <1>5 DEF OldInv

\* A step changes what is in the inbox, or what senders were told, who are told
\* once.
LEMMA OldTold ==
  ASSUME [Old!Next]_(Old!transferVars), OldTypes
  PROVE  \/ UNCHANGED oldSend
         \/ /\ UNCHANGED oldPlace
            /\ \A t \in Transfers : oldSend[t] \in {"ok", "failed"} => oldSend'[t] = oldSend[t]
<1>1. oldSend \in [Transfers -> {"new", "ok", "failed", "begin", "sending", "ended"}]
  BY DEF OldTypes, SenderTypes
<1>2. CASE Old!Reply
  <2>1. UNCHANGED oldPlace
    BY <1>2 DEF Old!Reply
  <2>2. ASSUME NEW t \in Transfers, NEW i, Old!Expected(Head(oldChanS)), Head(oldChanS).of = t,
               Old!SendChunk(t, i), Head(oldChanS).kind \in {"ready", "ack"}
        PROVE  oldSend[t] \notin {"ok", "failed"} /\ \A u \in Transfers : u # t => oldSend'[u] = oldSend[u]
    BY <1>1, <2>2 DEF Old!Expected, Old!SendChunk
  <2>3. \A u \in Transfers : oldSend[u] \in {"ok", "failed"} => oldSend'[u] = oldSend[u]
    BY <1>1, <1>2 DEF Old!Reply, Old!Expected, Old!SendChunk, Old!GiveUp, Old!Busy
  <2> QED
    BY <2>1, <2>3
<1>3. CASE Old!StreamCloses \/ Old!LinkBreaks
  BY <1>1, <1>3 DEF Old!StreamCloses, Old!LinkBreaks, Old!Busy
<1>4. ASSUME NEW t \in Transfers, Old!Start(t) \/ Old!TimesOut(t)
      PROVE  UNCHANGED oldPlace /\ \A u \in Transfers : oldSend[u] \in {"ok", "failed"} => oldSend'[u] = oldSend[u]
  BY <1>1, <1>4 DEF Old!Start, Old!TimesOut, Old!GiveUp, Old!Busy
<1>5. CASE Old!Chunk \/ Old!End \/ Old!Cancel \/ Old!Close \/ Old!BeginArtifact \/ Old!StreamGone
  BY <1>5 DEF Old!Chunk, Old!End, Old!Cancel, Old!Close, Old!BeginArtifact, Old!Begin, Old!StreamGone
<1>6. ASSUME NEW t \in Transfers, Old!Worker(t) \/ Old!Abort(t) \/ Old!Linked(t) PROVE UNCHANGED oldSend
  BY <1>6 DEF Old!Worker, Old!Get, Old!Write, Old!Sync, Old!Commit, Old!Abort, Old!Linked
<1>7. CASE UNCHANGED Old!transferVars
  BY <1>7 DEF Old!transferVars
<1> QED
  BY <1>2, <1>3, <1>4, <1>5, <1>6, <1>7 DEF Old!Next, Old!SenderSteps, Old!ReceiverSteps, Old!LinkedSome

\* Every step of artifacts/1 is, for each transfer, a step of its delivery.
LEMMA OldPromised ==
  ASSUME OldInv, OldInv', [Old!Next]_(Old!transferVars), NEW t \in Transfers, NodeAssumption
  PROVE  [Old!Promise(t)!Next]_(Old!Promise(t)!vars)
<1>1. oldPlace[t] \in {t, Nothing} /\ oldPlace'[t] \in {t, Nothing} /\ t # Nothing
      /\ (oldSend'[t] = "ok" => oldPlace'[t] = t)
  BY DEF OldInv, OldAt, NodeAssumption
<1>2. \/ UNCHANGED oldSend
      \/ UNCHANGED oldPlace /\ (oldSend[t] \in {"ok", "failed"} => oldSend'[t] = oldSend[t])
  BY OldTold DEF OldInv
<1>3. CASE UNCHANGED oldSend /\ oldPlace'[t] = oldPlace[t]
  BY <1>3 DEF Old!Promise!vars
<1>4. CASE UNCHANGED oldSend /\ oldPlace[t] = Nothing /\ oldPlace'[t] = t
  <2>1. Old!Promise(t)!Put
    BY <1>1, <1>4 DEF Old!Promise!Put
  <2> QED
    BY <2>1 DEF Old!Promise!Next
<1>5. CASE UNCHANGED oldSend /\ oldPlace[t] = t /\ oldPlace'[t] = Nothing
  <2>1. Old!Promise(t)!Withdraw
    BY <1>1, <1>5 DEF Old!Promise!Withdraw
  <2> QED
    BY <2>1 DEF Old!Promise!Next
<1>6. CASE UNCHANGED oldPlace /\ oldSend[t] \notin {"ok", "failed"} /\ oldSend'[t] = "ok"
  <2>1. Old!Promise(t)!Tell(t)
    BY <1>1, <1>6 DEF Old!Promise!Tell
  <2> QED
    BY <2>1 DEF Old!Promise!Next
<1>7. CASE UNCHANGED oldPlace /\ oldSend[t] \notin {"ok", "failed"} /\ oldSend'[t] = "failed"
  <2>1. Old!Promise(t)!Refuse({t})
    BY <1>1, <1>7 DEF Old!Promise!Refuse
  <2> QED
    BY <2>1 DEF Old!Promise!Next
<1>8. CASE UNCHANGED oldPlace /\ oldSend[t] \notin {"ok", "failed"} /\ oldSend'[t] \notin {"ok", "failed"}
  BY <1>8 DEF Old!Promise!vars
<1>9. CASE UNCHANGED oldPlace /\ oldSend[t] \in {"ok", "failed"} /\ oldSend'[t] = oldSend[t]
  BY <1>9 DEF Old!Promise!vars
<1> QED
  BY <1>1, <1>2, <1>3, <1>4, <1>5, <1>6, <1>7, <1>8, <1>9

LEMMA OldHolds == NodeAssumption => (Old!Spec => []OldInv)
<1> SUFFICES ASSUME NodeAssumption PROVE Old!Spec => []OldInv
  OBVIOUS
<1>1. Old!TransferInit => OldInv
  BY OldStart
<1>2. OldInv /\ [Old!Next]_(Old!transferVars) => OldInv'
  BY OldStep
<1> QED
  BY <1>1, <1>2, PTL DEF Old!Spec

\* Each transfer of artifacts/1 is a delivery as Delivery promises.
THEOREM OldDelivers == NodeAssumption => (Old!Spec => Old!Delivers)
<1> SUFFICES ASSUME NodeAssumption PROVE Old!Spec => Old!Delivers
  OBVIOUS
<1>1. Old!Spec => []OldInv
  BY OldHolds
<1>2. OldInv /\ OldInv' /\ [Old!Next]_(Old!transferVars)
        => [\A t \in Transfers : [Old!Promise(t)!Next]_(Old!Promise(t)!vars)]_(Old!transferVars)
  BY OldPromised
<1>3. Old!TransferInit => \A t \in Transfers : Old!Promise(t)!Init
  <2> SUFFICES ASSUME Old!TransferInit, NEW t \in Transfers PROVE Old!Promise(t)!Init
    OBVIOUS
  <2>1. oldSend = [u \in Transfers |-> "new"] /\ oldPlace = [u \in Transfers |-> Nothing]
    BY DEF Old!TransferInit, Old!Paths
  <2> QED
    BY <2>1 DEF Old!Promise!Init
<1> QED
  BY <1>1, <1>2, <1>3, PTL DEF Old!Spec, Old!Delivers

-----------------------------------------------------------------------------
(* Inputs.                                                                   *)

\* The types of inputs.
InputTypes ==
  /\ SenderTypes(inputSend, inputSent)
  /\ inputStreamS \in {"open", "closed"} /\ inputStreamR \in {"open", "closing", "closed"} /\ inputLinkUp \in BOOLEAN
  /\ inputChanR \in Seq(WireFrames) /\ inputChanS \in Seq(WireReplies)
  /\ inputRecv \in [Transfers -> WireReceives]
  /\ inputTemp \subseteq Transfers
  /\ inputPlace \in [{"name"} -> Transfers \cup {Nothing}]

\* What the sends and the reads of inputs do to the channels.
LEMMA InputToR ==
  ASSUME InputTypes, NEW f \in WireFrames, Input!ToR(f)
  PROVE  inputChanR' \in Seq(WireFrames) /\ Moves(inputChanR, inputChanR', 0, {f})
<1>1. inputChanR \in Seq(WireFrames)
  BY DEF InputTypes
<1>2. Moves(inputChanR, inputChanR, 0, {f}) /\ Moves(inputChanR, Append(inputChanR, f), 0, {f})
      /\ Append(inputChanR, f) \in Seq(WireFrames)
  BY <1>1, MovesStay, MovesAppend
<1> QED
  BY <1>1, <1>2 DEF Input!ToR

LEMMA InputToS ==
  ASSUME InputTypes, NEW f \in WireReplies, Input!ToS(f)
  PROVE  inputChanS' \in Seq(WireReplies) /\ Moves(inputChanS, inputChanS', 0, {f})
<1>1. inputChanS \in Seq(WireReplies)
  BY DEF InputTypes
<1>2. Moves(inputChanS, inputChanS, 0, {f}) /\ Moves(inputChanS, Append(inputChanS, f), 0, {f})
      /\ Append(inputChanS, f) \in Seq(WireReplies)
  BY <1>1, MovesStay, MovesAppend
<1> QED
  BY <1>1, <1>2 DEF Input!ToS

LEMMA InputStayR == ASSUME InputTypes PROVE Moves(inputChanR, inputChanR, 0, {})
BY MovesStay DEF InputTypes

LEMMA InputStayS == ASSUME InputTypes PROVE Moves(inputChanS, inputChanS, 0, {})
BY MovesStay DEF InputTypes

LEMMA InputReceives ==
  ASSUME InputTypes, NEW k, Input!Receive(k), NodeAssumption
  PROVE  /\ inputChanR' = Tail(inputChanR)
         /\ inputChanR' \in Seq(WireFrames) /\ Moves(inputChanR, inputChanR', 1, {}) /\ inputChanR # <<>>
         /\ Head(inputChanR).kind = k /\ Has(inputChanR, k, Head(inputChanR).of)
         /\ Head(inputChanR).n \in 0..Pieces
         /\ k # "close" => Head(inputChanR).of \in Transfers
         /\ k = "chunk" => Head(inputChanR).n < Pieces
         /\ k = "end" => Head(inputChanR).n = Pieces
<1>1. inputChanR \in Seq(WireFrames) /\ inputChanR # <<>> /\ Head(inputChanR).kind = k /\ inputChanR' = Tail(inputChanR)
  BY DEF InputTypes, Input!Receive
<1>2. Head(inputChanR) \in WireFrames
  BY <1>1, MovesTail
<1>3. PICK f \in WireFrames : f = Head(inputChanR)
  BY <1>2
<1>4. /\ f.n \in 0..Pieces /\ f.of \in Transfers \cup {Nothing} /\ (f.kind = "close" <=> f.of = Nothing)
      /\ (f.kind = "chunk" => f.n < Pieces) /\ (f.kind = "end" => f.n = Pieces)
  BY DEF WireFrames
<1> QED
  BY <1>1, <1>3, <1>4, MovesTail, InFront

LEMMA InputTaken ==
  ASSUME InputTypes, inputChanS # <<>>, NodeAssumption
  PROVE  /\ Tail(inputChanS) \in Seq(WireReplies) /\ Moves(inputChanS, Tail(inputChanS), 1, {})
         /\ Has(inputChanS, Head(inputChanS).kind, Head(inputChanS).of) /\ Of(inputChanS, Head(inputChanS).of)
         /\ Head(inputChanS).of \in Transfers /\ Head(inputChanS).n \in 0..Pieces
<1>1. inputChanS \in Seq(WireReplies)
  BY DEF InputTypes
<1>2. Head(inputChanS) \in WireReplies
  BY <1>1, MovesTail
<1>3. PICK f \in WireReplies : f = Head(inputChanS)
  BY <1>2
<1>4. f.n \in 0..Pieces /\ f.of \in Transfers
  BY DEF WireReplies, WireFrames
<1> QED
  BY <1>1, <1>3, <1>4, MovesTail, InFront

\* The sender's part of inputs.
LEMMA InputStarts ==
  ASSUME InputTypes, NodeAssumption, NEW t \in Transfers, Input!Start(t)
  PROVE  /\ InputTypes'
         /\ Moves(inputChanR, inputChanR', 0, {[kind |-> "begin", of |-> t, n |-> 0]})
<1>1. Input!ToR([kind |-> "begin", of |-> t, n |-> 0]) /\ inputSend' = [inputSend EXCEPT ![t] = "begin"]
      /\ UNCHANGED <<inputSent, inputStreamS, inputStreamR, inputLinkUp, inputChanS, inputRecv, inputTemp, inputPlace>>
  BY DEF Input!Start, Input!Frame
<1>2. inputChanR' \in Seq(WireFrames) /\ Moves(inputChanR, inputChanR', 0, {[kind |-> "begin", of |-> t, n |-> 0]})
  BY <1>1, WireFrame, InputToR
<1>3. SenderTypes(inputSend, inputSent)'
  <2>1. SenderTypes([inputSend EXCEPT ![t] = "begin"], inputSent)
    BY SenderStops DEF InputTypes
  <2> QED
    BY <1>1, <2>1
<1> QED
  BY <1>1, <1>2, <1>3 DEF InputTypes

LEMMA InputGivesUp ==
  ASSUME InputTypes, NodeAssumption, NEW t \in Transfers, Input!GiveUp(t)
  PROVE  /\ SenderTypes(inputSend, inputSent)'
         /\ inputChanR' \in Seq(WireFrames)
         /\ Moves(inputChanR, inputChanR', 0, {[kind |-> "cancel", of |-> t, n |-> 0]})
<1>1. Input!ToR([kind |-> "cancel", of |-> t, n |-> 0]) /\ inputSend' = [inputSend EXCEPT ![t] = "failed"] /\ inputSent' = inputSent
  BY DEF Input!GiveUp, Input!Frame
<1>2. SenderTypes([inputSend EXCEPT ![t] = "failed"], inputSent)
  BY SenderStops DEF InputTypes
<1> QED
  BY <1>1, <1>2, WireFrame, InputToR

LEMMA InputSends ==
  ASSUME InputTypes, NodeAssumption, NEW t \in Transfers, NEW i \in 0..Pieces, Input!SendChunk(t, i)
  PROVE  /\ SenderTypes(inputSend, inputSent)'
         /\ inputSend' = [inputSend EXCEPT ![t] = IF i < Pieces THEN "sending" ELSE "ended"]
         /\ inputChanR' \in Seq(WireFrames)
         /\ \E k \in {"chunk", "end"} : Moves(inputChanR, inputChanR', 0, {[kind |-> k, of |-> t, n |-> i]})
<1> DEFINE k == IF i < Pieces THEN "chunk" ELSE "end"
           x == IF i < Pieces THEN "sending" ELSE "ended"
<1>1. Input!ToR([kind |-> k, of |-> t, n |-> i]) /\ inputSend' = [inputSend EXCEPT ![t] = x]
      /\ inputSent' = [inputSent EXCEPT ![t] = i]
  BY DEF Input!SendChunk, Input!Frame
<1>2. [kind |-> k, of |-> t, n |-> i] \in WireFrames
  <2>1. Pieces \in Nat /\ i \in Nat /\ i <= Pieces
    BY DEF NodeAssumption
  <2>2. CASE i < Pieces
    BY <2>2, WireFrame
  <2>3. CASE i = Pieces
    BY <2>1, <2>3, WireFrame
  <2> QED
    BY <2>1, <2>2, <2>3
<1>3. SenderTypes([inputSend EXCEPT ![t] = x], [inputSent EXCEPT ![t] = i])
  BY SenderMoves DEF InputTypes
<1> QED
  BY <1>1, <1>2, <1>3, InputToR

\* A reply: the next chunk or the end is sent, success is taken, the sender gives
\* up, or the reply is too late.
LEMMA InputReplies ==
  ASSUME InputTypes, NodeAssumption, Input!Reply
  PROVE  /\ InputTypes'
         /\ inputChanS' = Tail(inputChanS) /\ inputChanS # <<>>
         /\ \E t \in Transfers, N \in SUBSET WireFrames :
              /\ t = Head(inputChanS).of /\ Moves(inputChanR, inputChanR', 0, N)
              /\ \A f \in N : f.of = t /\ f.kind \in {"chunk", "end", "cancel"}
              /\ \/ UNCHANGED inputSend /\ N = {}
                 \/ inputSend' = [inputSend EXCEPT ![t] = "ok"] /\ Head(inputChanS).kind = "ok" /\ inputSend[t] = "ended" /\ N = {}
                 \/ \E x \in {"failed", "sending", "ended"} :
                      inputSend' = [inputSend EXCEPT ![t] = x] /\ inputSend[t] \in {"begin", "sending", "ended"}
<1>1. inputChanS # <<>> /\ inputChanS' = Tail(inputChanS)
      /\ UNCHANGED <<inputStreamS, inputStreamR, inputLinkUp, inputRecv, inputTemp, inputPlace>>
  BY DEF Input!Reply
<1>2. PICK t \in Transfers : t = Head(inputChanS).of
  BY <1>1, InputTaken
<1>3. inputChanS' \in Seq(WireReplies) /\ Head(inputChanS).n \in 0..Pieces
  BY <1>1, InputTaken
<1>4. SenderTypes(inputSend, inputSent) /\ inputChanR \in Seq(WireFrames)
  BY DEF InputTypes
<1>5. SUFFICES /\ SenderTypes(inputSend, inputSent)' /\ inputChanR' \in Seq(WireFrames)
               /\ \E N \in SUBSET WireFrames :
                    /\ Moves(inputChanR, inputChanR', 0, N)
                    /\ \A f \in N : f.of = t /\ f.kind \in {"chunk", "end", "cancel"}
                    /\ \/ UNCHANGED inputSend /\ N = {}
                       \/ inputSend' = [inputSend EXCEPT ![t] = "ok"] /\ Head(inputChanS).kind = "ok" /\ inputSend[t] = "ended" /\ N = {}
                       \/ \E x \in {"failed", "sending", "ended"} :
                            inputSend' = [inputSend EXCEPT ![t] = x] /\ inputSend[t] \in {"begin", "sending", "ended"}
  BY <1>1, <1>2, <1>3, <1>5 DEF InputTypes
<1>6. ASSUME NEW i \in 0..Pieces, Input!SendChunk(t, i), inputSend[t] \in {"begin", "sending", "ended"}
      PROVE  /\ SenderTypes(inputSend, inputSent)' /\ inputChanR' \in Seq(WireFrames)
             /\ \E N \in SUBSET WireFrames, x \in {"failed", "sending", "ended"} :
                    /\ Moves(inputChanR, inputChanR', 0, N)
                    /\ \A f \in N : f.of = t /\ f.kind \in {"chunk", "end", "cancel"}
                    /\ inputSend' = [inputSend EXCEPT ![t] = x]
  <2>1. SenderTypes(inputSend, inputSent)' /\ inputChanR' \in Seq(WireFrames)
        /\ inputSend' = [inputSend EXCEPT ![t] = IF i < Pieces THEN "sending" ELSE "ended"]
    BY <1>6, InputSends
  <2>2. PICK k \in {"chunk", "end"} : Moves(inputChanR, inputChanR', 0, {[kind |-> k, of |-> t, n |-> i]})
    BY <1>6, InputSends
  <2>3. Moves(inputChanR, inputChanR', 0, {f \in {[kind |-> k, of |-> t, n |-> i]} : f \in WireFrames})
    <3>1. Len(inputChanR') \in Nat /\ \A j \in 1..Len(inputChanR') : inputChanR'[j] \in WireFrames
      BY <2>1
    <3> QED
      BY <2>2, <3>1 DEF Moves
  <2>4. PICK x \in {"failed", "sending", "ended"} : x = IF i < Pieces THEN "sending" ELSE "ended"
    OBVIOUS
  <2>5. PICK N \in SUBSET WireFrames : N = {f \in {[kind |-> k, of |-> t, n |-> i]} : f \in WireFrames}
    OBVIOUS
  <2>6. \A f \in N : f.of = t /\ f.kind \in {"chunk", "end", "cancel"}
    BY <2>5
  <2> QED
    BY <2>1, <2>3, <2>4, <2>5, <2>6
<1>7. CASE Head(inputChanS).kind = "ready" /\ Input!Expected(Head(inputChanS)) /\ Input!SendChunk(t, 0)
  <2>1. 0 \in 0..Pieces /\ inputSend[t] = "begin"
    BY <1>2, <1>7 DEF Input!Expected, NodeAssumption
  <2> QED
    BY <1>6, <1>7, <2>1
<1>8. CASE Head(inputChanS).kind = "ack" /\ Input!Expected(Head(inputChanS)) /\ Input!SendChunk(t, Head(inputChanS).n + 1)
  <2>1. inputSend[t] = "sending" /\ Head(inputChanS).n = inputSent[t]
    BY <1>2, <1>8 DEF Input!Expected
  <2>2. Head(inputChanS).n + 1 \in 0..Pieces
    BY <1>3, <1>4, <2>1 DEF SenderTypes, NodeAssumption
  <2> QED
    BY <1>6, <1>8, <2>1, <2>2
<1>9. CASE /\ Head(inputChanS).kind = "ok" /\ Input!Expected(Head(inputChanS))
           /\ inputSend' = [inputSend EXCEPT ![t] = "ok"] /\ UNCHANGED <<inputSent, inputChanR>>
  <2>1. inputSend[t] = "ended"
    BY <1>2, <1>9 DEF Input!Expected
  <2>2. SenderTypes([inputSend EXCEPT ![t] = "ok"], inputSent)
    BY <1>4, SenderStops
  <2>3. Moves(inputChanR, inputChanR', 0, {})
    BY <1>9, InputStayR
  <2>4. SenderTypes(inputSend, inputSent)'
    BY <1>9, <2>2
  <2> QED
    BY <1>4, <1>9, <2>1, <2>3, <2>4
<1>10. CASE inputSend[t] \in {"begin", "sending", "ended"} /\ Input!GiveUp(t)
  <2>1. SenderTypes(inputSend, inputSent)' /\ inputChanR' \in Seq(WireFrames)
        /\ Moves(inputChanR, inputChanR', 0, {[kind |-> "cancel", of |-> t, n |-> 0]})
    BY <1>10, InputGivesUp
  <2>2. PICK N \in SUBSET WireFrames : N = {[kind |-> "cancel", of |-> t, n |-> 0]}
    BY WireFrame
  <2>3. inputSend' = [inputSend EXCEPT ![t] = "failed"]
    BY <1>10 DEF Input!GiveUp
  <2>4. \A f \in N : f.of = t /\ f.kind \in {"chunk", "end", "cancel"}
    BY <2>2
  <2> QED
    BY <1>10, <2>1, <2>2, <2>3, <2>4
<1>11. CASE UNCHANGED <<inputSend, inputSent, inputChanR>>
  <2>1. Moves(inputChanR, inputChanR', 0, {})
    BY <1>11, InputStayR
  <2>2. SenderTypes(inputSend, inputSent)'
    BY <1>4, <1>11
  <2> QED
    BY <1>4, <1>11, <2>1, <2>2
<1> QED
  BY <1>2, <1>7, <1>8, <1>9, <1>10, <1>11 DEF Input!Reply, Input!Busy

LEMMA InputTimesOut ==
  ASSUME InputTypes, NodeAssumption, NEW t \in Transfers, Input!TimesOut(t)
  PROVE  /\ InputTypes' /\ inputSend' = [inputSend EXCEPT ![t] = "failed"]
         /\ Moves(inputChanR, inputChanR', 0, {[kind |-> "cancel", of |-> t, n |-> 0]})
<1>1. Input!GiveUp(t) /\ UNCHANGED <<inputStreamS, inputStreamR, inputLinkUp, inputChanS, inputRecv, inputTemp, inputPlace>>
  BY DEF Input!TimesOut
<1>2. inputSend' = [inputSend EXCEPT ![t] = "failed"]
  BY <1>1 DEF Input!GiveUp
<1> QED
  BY <1>1, <1>2, InputGivesUp DEF InputTypes

LEMMA InputCloses ==
  ASSUME InputTypes, NodeAssumption, Input!StreamCloses
  PROVE  InputTypes' /\ Moves(inputChanR, inputChanR', 0, {[kind |-> "close", of |-> Nothing, n |-> 0]})
<1>1. /\ inputSend' = [t \in Transfers |-> IF inputSend[t] \in Input!Busy THEN "failed" ELSE inputSend[t]]
      /\ inputChanR' = Append(inputChanR, [kind |-> "close", of |-> Nothing, n |-> 0]) /\ inputStreamS' = "closed"
      /\ UNCHANGED <<inputSent, inputStreamR, inputLinkUp, inputChanS, inputRecv, inputTemp, inputPlace>>
  BY DEF Input!StreamCloses, Input!Frame
<1>2. inputChanR \in Seq(WireFrames) /\ SenderTypes(inputSend, inputSent)
  BY DEF InputTypes
<1>3. inputChanR' \in Seq(WireFrames) /\ Moves(inputChanR, inputChanR', 0, {[kind |-> "close", of |-> Nothing, n |-> 0]})
  BY <1>1, <1>2, WireCloses, MovesAppend
<1>4. SenderTypes(inputSend, inputSent)'
  <2>1. SenderTypes([t \in Transfers |-> IF inputSend[t] \in Input!Busy THEN "failed" ELSE inputSend[t]], inputSent)
    BY <1>2, SendersStop
  <2> QED
    BY <1>1, <2>1
<1> QED
  BY <1>1, <1>3, <1>4 DEF InputTypes

LEMMA InputLoses ==
  ASSUME InputTypes, NodeAssumption, Input!LinkBreaks
  PROVE  InputTypes' /\ Moves(inputChanR, inputChanR', 0, {[kind |-> "close", of |-> Nothing, n |-> 0]})
<1>1. /\ inputSend' = [t \in Transfers |-> IF inputSend[t] \in Input!Busy THEN "failed" ELSE inputSend[t]]
      /\ inputStreamS' = "closed" /\ inputLinkUp' = FALSE /\ inputChanS' = <<>>
      /\ UNCHANGED <<inputSent, inputStreamR, inputRecv, inputTemp, inputPlace>>
  BY DEF Input!LinkBreaks
<1>2. inputChanR \in Seq(WireFrames) /\ SenderTypes(inputSend, inputSent)
  BY DEF InputTypes
<1>3. PICK i \in 0..Len(inputChanR) :
        inputChanR' = SubSeq(inputChanR, 1, i) \o <<[kind |-> "close", of |-> Nothing, n |-> 0]>>
  BY DEF Input!LinkBreaks, Input!Frame
<1>4. inputChanR' \in Seq(WireFrames) /\ Moves(inputChanR, inputChanR', 0, {[kind |-> "close", of |-> Nothing, n |-> 0]})
  BY <1>2, <1>3, WireCloses, MovesCut
<1>5. SenderTypes(inputSend, inputSent)'
  <2>1. SenderTypes([t \in Transfers |-> IF inputSend[t] \in Input!Busy THEN "failed" ELSE inputSend[t]], inputSent)
    BY <1>2, SendersStop
  <2> QED
    BY <1>1, <2>1
<1>6. inputChanS' \in Seq(WireReplies)
  BY <1>1
<1> QED
  BY <1>1, <1>4, <1>5, <1>6 DEF InputTypes

\* The receiver's part of inputs.
LEMMA InputBegins ==
  ASSUME InputTypes, NodeAssumption, NEW welcome, Input!Begin(welcome)
  PROVE  /\ InputTypes' /\ inputChanR' = Tail(inputChanR) /\ Has(inputChanR, "begin", Head(inputChanR).of)
         /\ Moves(inputChanR, inputChanR', 1, {})
         /\ Head(inputChanR).of \in Transfers /\ Head(inputChanR).kind = "begin" /\ inputChanR # <<>>
         /\ UNCHANGED <<inputSend, inputStreamR, inputPlace>>
         /\ \E k \in {"ready", "error"} : Moves(inputChanS, inputChanS', 0, {[kind |-> k, of |-> Head(inputChanR).of, n |-> 0]})
         /\ \/ UNCHANGED inputRecv
            \/ /\ inputStreamR = "open" /\ Head(inputChanR).of \in welcome
               /\ inputRecv' = [inputRecv EXCEPT ![Head(inputChanR).of] =
                                [Untaken EXCEPT !.phase = "receiving", !.work = "get", !.table = TRUE]]
<1>1. Input!Receive("begin") /\ UNCHANGED <<inputSend, inputSent, inputStreamS, inputStreamR, inputLinkUp, inputPlace>>
  BY DEF Input!Begin
<1>2. /\ inputChanR' = Tail(inputChanR) /\ inputChanR' \in Seq(WireFrames) /\ Has(inputChanR, "begin", Head(inputChanR).of)
      /\ Moves(inputChanR, inputChanR', 1, {}) /\ Head(inputChanR).of \in Transfers /\ Head(inputChanR).kind = "begin"
      /\ inputChanR # <<>>
  BY <1>1, InputReceives
<1>3. PICK t \in Transfers : t = Head(inputChanR).of
  BY <1>2
<1>4. SenderTypes(inputSend, inputSent)'
  BY <1>1 DEF InputTypes
<1>5. inputRecv \in [Transfers -> WireReceives] /\ inputTemp \subseteq Transfers
  BY DEF InputTypes
<1>6. [kind |-> "ready", of |-> t, n |-> 0] \in WireReplies /\ [kind |-> "error", of |-> t, n |-> 0] \in WireReplies
  BY WireFrame DEF WireReplies, NodeAssumption
<1>7. CASE inputStreamR = "open" /\ t \in welcome
  <2>1. /\ inputRecv' = [inputRecv EXCEPT ![t] = [Untaken EXCEPT !.phase = "receiving", !.work = "get", !.table = TRUE]]
        /\ inputTemp' = inputTemp \cup {t} /\ Input!ToS([kind |-> "ready", of |-> t, n |-> 0])
    BY <1>3, <1>7 DEF Input!Begin, Input!Frame, Input!Idle, Untaken
  <2>2. inputRecv' \in [Transfers -> WireReceives] /\ inputTemp' \subseteq Transfers
    BY <1>5, <2>1, WireStarts
  <2>3. inputChanS' \in Seq(WireReplies) /\ Moves(inputChanS, inputChanS', 0, {[kind |-> "ready", of |-> t, n |-> 0]})
    BY <1>6, <2>1, InputToS
  <2> QED
    BY <1>1, <1>2, <1>3, <1>4, <1>7, <2>1, <2>2, <2>3 DEF InputTypes
<1>8. CASE ~(inputStreamR = "open" /\ t \in welcome)
  <2>1. Input!ToS([kind |-> "error", of |-> t, n |-> 0]) /\ UNCHANGED <<inputRecv, inputTemp>>
    BY <1>3, <1>8 DEF Input!Begin, Input!Frame
  <2>2. inputChanS' \in Seq(WireReplies) /\ Moves(inputChanS, inputChanS', 0, {[kind |-> "error", of |-> t, n |-> 0]})
    BY <1>6, <2>1, InputToS
  <2> QED
    BY <1>1, <1>2, <1>3, <1>4, <2>1, <2>2 DEF InputTypes
<1> QED
  BY <1>7, <1>8

\* A receive that is registered changes as frames come, and none other does.
InputReads ==
  \A u \in Transfers :
    \/ inputRecv'[u] = inputRecv[u]
    \/ inputRecv[u].table /\ inputRecv'[u].table /\ inputRecv'[u].work = inputRecv[u].work

LEMMA InputMarks ==
  ASSUME NEW r \in WireReceives, r.table
  PROVE  Input!AbortMarked(r) \in WireReceives /\ Input!AbortMarked(r).table /\ Input!AbortMarked(r).work = r.work
<1>1. [r EXCEPT !.phase = "aborting"] \in WireReceives
  BY WireAborts
<1>2. [r EXCEPT !.phase = "aborting"].table = r.table /\ [r EXCEPT !.phase = "aborting"].work = r.work
  BY DEF WireReceives, WireShapes
<1> QED
  BY <1>1, <1>2 DEF Input!AbortMarked

LEMMA InputChunks ==
  ASSUME InputTypes, NodeAssumption, Input!Chunk
  PROVE  /\ InputTypes' /\ InputReads /\ UNCHANGED <<inputSend, inputStreamR, inputPlace, inputChanS>>
         /\ Moves(inputChanR, inputChanR', 1, {})
<1>1. Input!Receive("chunk")
      /\ UNCHANGED <<inputSend, inputSent, inputStreamS, inputStreamR, inputLinkUp, inputChanS, inputTemp, inputPlace>>
  BY DEF Input!Chunk
<1>2. /\ inputChanR' \in Seq(WireFrames) /\ Moves(inputChanR, inputChanR', 1, {}) /\ Head(inputChanR).of \in Transfers
      /\ Head(inputChanR).n \in 0..Pieces /\ Head(inputChanR).n < Pieces
  BY <1>1, InputReceives
<1>3. PICK t \in Transfers, i \in 0..Pieces : t = Head(inputChanR).of /\ i = Head(inputChanR).n /\ i < Pieces
  BY <1>2
<1>4. inputRecv \in [Transfers -> WireReceives] /\ SenderTypes(inputSend, inputSent)'
  BY <1>1 DEF InputTypes
<1>5. PICK r \in WireReceives : r = inputRecv[t]
  BY <1>4
<1>6. inputRecv' = [inputRecv EXCEPT ![t] =
        IF ~r.table THEN r
        ELSE IF r.phase = "receiving" /\ i = r.next
        THEN [[r EXCEPT !.queue = Append(@, i)] EXCEPT !.next = i + 1] ELSE Input!AbortMarked(r)]
  BY <1>3, <1>4, <1>5 DEF Input!Chunk, Input!Queued
<1>7. PICK s : s = IF ~r.table THEN r
               ELSE IF r.phase = "receiving" /\ i = r.next
               THEN [[r EXCEPT !.queue = Append(@, i)] EXCEPT !.next = i + 1] ELSE Input!AbortMarked(r)
  OBVIOUS
<1>8. s \in WireReceives /\ (s = r \/ (r.table /\ s.table /\ s.work = r.work))
  <2>1. CASE ~r.table
    BY <1>7, <2>1
  <2>2. CASE r.table /\ r.phase = "receiving" /\ i = r.next
    <3>1. s = [r EXCEPT !.queue = Append(r.queue, i), !.next = i + 1]
      BY <1>7, <2>2 DEF WireReceives, WireShapes
    <3>2. s \in WireReceives
      BY <1>3, <2>2, <3>1, WireQueues
    <3>3. s.table = r.table /\ s.work = r.work
      BY <3>1 DEF WireReceives, WireShapes
    <3> QED
      BY <2>2, <3>2, <3>3
  <2>3. CASE r.table /\ ~(r.phase = "receiving" /\ i = r.next)
    BY <1>7, <2>3, InputMarks
  <2> QED
    BY <2>1, <2>2, <2>3
<1>9. inputRecv' = [inputRecv EXCEPT ![t] = s]
  BY <1>6, <1>7
<1>10. inputRecv' \in [Transfers -> WireReceives] /\ InputReads
  BY <1>4, <1>5, <1>8, <1>9 DEF InputReads
<1> QED
  BY <1>1, <1>2, <1>4, <1>10 DEF InputTypes

LEMMA InputEnds ==
  ASSUME InputTypes, NodeAssumption, Input!End
  PROVE  /\ InputTypes' /\ InputReads /\ UNCHANGED <<inputSend, inputStreamR, inputPlace, inputChanS>>
         /\ Moves(inputChanR, inputChanR', 1, {})
<1>1. Input!Receive("end")
      /\ UNCHANGED <<inputSend, inputSent, inputStreamS, inputStreamR, inputLinkUp, inputChanS, inputTemp, inputPlace>>
  BY DEF Input!End
<1>2. /\ inputChanR' \in Seq(WireFrames) /\ Moves(inputChanR, inputChanR', 1, {}) /\ Head(inputChanR).of \in Transfers
      /\ Head(inputChanR).n = Pieces
  BY <1>1, InputReceives
<1>3. PICK t \in Transfers : t = Head(inputChanR).of
  BY <1>2
<1>4. inputRecv \in [Transfers -> WireReceives] /\ SenderTypes(inputSend, inputSent)'
  BY <1>1 DEF InputTypes
<1>5. PICK r \in WireReceives : r = inputRecv[t]
  BY <1>4
<1>6. inputRecv' = [inputRecv EXCEPT ![t] =
        IF ~r.table THEN r
        ELSE IF r.phase = "receiving" /\ Pieces = r.next
        THEN [[r EXCEPT !.queue = Append(@, Pieces)] EXCEPT !.phase = "ending"] ELSE Input!AbortMarked(r)]
  BY <1>2, <1>3, <1>4, <1>5 DEF Input!End, Input!Queued, Input!EndMark
<1>7. PICK s : s = IF ~r.table THEN r
               ELSE IF r.phase = "receiving" /\ Pieces = r.next
               THEN [[r EXCEPT !.queue = Append(@, Pieces)] EXCEPT !.phase = "ending"] ELSE Input!AbortMarked(r)
  OBVIOUS
<1>8. s \in WireReceives /\ (s = r \/ (r.table /\ s.table /\ s.work = r.work))
  <2>1. CASE ~r.table
    BY <1>7, <2>1
  <2>2. CASE r.table /\ r.phase = "receiving" /\ Pieces = r.next
    <3>1. s = [r EXCEPT !.queue = Append(r.queue, Pieces), !.phase = "ending"]
      BY <1>7, <2>2 DEF WireReceives, WireShapes
    <3>2. Pieces \in 0..Pieces
      BY DEF NodeAssumption
    <3>3. s \in WireReceives
      BY <2>2, <3>1, <3>2, WireQueues
    <3>4. s.table = r.table /\ s.work = r.work
      BY <3>1 DEF WireReceives, WireShapes
    <3> QED
      BY <2>2, <3>3, <3>4
  <2>3. CASE r.table /\ ~(r.phase = "receiving" /\ Pieces = r.next)
    BY <1>7, <2>3, InputMarks
  <2> QED
    BY <2>1, <2>2, <2>3
<1>9. inputRecv' = [inputRecv EXCEPT ![t] = s]
  BY <1>6, <1>7
<1>10. inputRecv' \in [Transfers -> WireReceives] /\ InputReads
  BY <1>4, <1>5, <1>8, <1>9 DEF InputReads
<1> QED
  BY <1>1, <1>2, <1>4, <1>10 DEF InputTypes

LEMMA InputCancels ==
  ASSUME InputTypes, NodeAssumption, Input!Cancel
  PROVE  /\ InputTypes' /\ InputReads /\ UNCHANGED <<inputSend, inputStreamR, inputPlace, inputChanS>>
         /\ Moves(inputChanR, inputChanR', 1, {})
<1>1. Input!Receive("cancel")
      /\ UNCHANGED <<inputSend, inputSent, inputStreamS, inputStreamR, inputLinkUp, inputChanS, inputTemp, inputPlace>>
  BY DEF Input!Cancel
<1>2. inputChanR' \in Seq(WireFrames) /\ Moves(inputChanR, inputChanR', 1, {}) /\ Head(inputChanR).of \in Transfers
  BY <1>1, InputReceives
<1>3. PICK t \in Transfers : t = Head(inputChanR).of
  BY <1>2
<1>4. inputRecv \in [Transfers -> WireReceives] /\ SenderTypes(inputSend, inputSent)'
  BY <1>1 DEF InputTypes
<1>5. PICK s : s = IF inputRecv[t].table THEN Input!AbortMarked(inputRecv[t]) ELSE inputRecv[t]
  OBVIOUS
<1>6. s \in WireReceives /\ (s = inputRecv[t] \/ (inputRecv[t].table /\ s.table /\ s.work = inputRecv[t].work))
  BY <1>4, <1>5, InputMarks
<1>7. inputRecv' = [inputRecv EXCEPT ![t] = s]
  BY <1>3, <1>5 DEF Input!Cancel
<1>8. inputRecv' \in [Transfers -> WireReceives] /\ InputReads
  BY <1>4, <1>6, <1>7 DEF InputReads
<1> QED
  BY <1>1, <1>2, <1>4, <1>8 DEF InputTypes

LEMMA InputReadsClose ==
  ASSUME InputTypes, NodeAssumption, Input!Close
  PROVE  /\ InputTypes' /\ InputReads /\ UNCHANGED <<inputSend, inputPlace, inputChanS>> /\ inputStreamR' = "closing"
         /\ Moves(inputChanR, inputChanR', 1, {})
<1>1. Input!Receive("close") /\ inputStreamR' = "closing"
      /\ UNCHANGED <<inputSend, inputSent, inputStreamS, inputLinkUp, inputChanS, inputTemp, inputPlace>>
      /\ inputRecv' = [t \in Transfers |-> IF inputRecv[t].table THEN Input!AbortMarked(inputRecv[t]) ELSE inputRecv[t]]
  BY DEF Input!Close
<1>2. inputChanR' \in Seq(WireFrames) /\ Moves(inputChanR, inputChanR', 1, {})
  BY <1>1, InputReceives
<1>3. inputRecv \in [Transfers -> WireReceives] /\ SenderTypes(inputSend, inputSent)'
  BY <1>1 DEF InputTypes
<1>4. ASSUME NEW u \in Transfers
      PROVE  inputRecv'[u] \in WireReceives
             /\ (inputRecv'[u] = inputRecv[u] \/ (inputRecv[u].table /\ inputRecv'[u].table /\ inputRecv'[u].work = inputRecv[u].work))
  BY <1>1, <1>3, InputMarks
<1>5. inputRecv' \in [Transfers -> WireReceives] /\ InputReads
  BY <1>1, <1>4 DEF InputReads
<1> QED
  BY <1>1, <1>2, <1>3, <1>5 DEF InputTypes

\* What a receive that failed leaves.
LEMMA InputCleans ==
  ASSUME InputTypes, NodeAssumption, NEW t \in Transfers, Input!CleanUp(t),
         UNCHANGED <<inputSend, inputSent, inputStreamS, inputStreamR, inputLinkUp, inputChanR>>
  PROVE  /\ InputTypes' /\ inputRecv' = [inputRecv EXCEPT ![t] = Untaken]
         /\ Moves(inputChanR, inputChanR', 0, {})
         /\ Moves(inputChanS, inputChanS', 0, {[kind |-> "error", of |-> t, n |-> 0]})
         /\ UNCHANGED inputPlace \/ inputPlace' = [inputPlace EXCEPT !["name"] = Nothing]
<1>1. /\ inputRecv' = [inputRecv EXCEPT ![t] = Untaken] /\ inputTemp' = inputTemp \ {t}
      /\ UNCHANGED inputPlace \/ inputPlace' = [inputPlace EXCEPT !["name"] = Nothing]
      /\ Input!ToS([kind |-> "error", of |-> t, n |-> 0])
  BY DEF Input!CleanUp, Input!Frame, Input!Idle, Untaken
<1>2. [kind |-> "error", of |-> t, n |-> 0] \in WireReplies
  BY WireFrame DEF WireReplies, NodeAssumption
<1>3. inputChanS' \in Seq(WireReplies) /\ Moves(inputChanS, inputChanS', 0, {[kind |-> "error", of |-> t, n |-> 0]})
  BY <1>1, <1>2, InputToS
<1>4. inputRecv' \in [Transfers -> WireReceives] /\ inputTemp' \subseteq Transfers
      /\ inputPlace' \in [{"name"} -> Transfers \cup {Nothing}]
  BY <1>1, WireStarts DEF InputTypes
<1>5. SenderTypes(inputSend, inputSent)' /\ Moves(inputChanR, inputChanR', 0, {})
  BY InputStayR DEF InputTypes
<1> QED
  BY <1>1, <1>3, <1>4, <1>5 DEF InputTypes

LEMMA InputRegistered ==
  ASSUME InputTypes, NEW t \in Transfers, inputRecv[t].work # "off" \/ inputRecv[t].table
  PROVE  inputRecv[t] \in WireReceives /\ inputRecv[t].table /\ inputRecv[t] # Untaken
BY DEF InputTypes, WireReceives, Queued, Untaken

\* The worker cleans up, is about to, or goes on: it writes and acknowledges, links
\* the file when the final path is free, and is done with it after that.
LEMMA InputWorks ==
  ASSUME InputTypes, NodeAssumption, NEW t \in Transfers, Input!Get(t) \/ Input!Write(t) \/ Input!Sync(t) \/ Input!Commit(t)
  PROVE  /\ InputTypes' /\ UNCHANGED <<inputSend, inputStreamR>> /\ inputRecv[t].table
         /\ Moves(inputChanR, inputChanR', 0, {})
         /\ \E k \in {"ack", "error"}, i \in 0..Pieces : Moves(inputChanS, inputChanS', 0, {[kind |-> k, of |-> t, n |-> i]})
         /\ \/ /\ inputRecv' = [inputRecv EXCEPT ![t] = Untaken]
               /\ UNCHANGED inputPlace \/ inputPlace' = [inputPlace EXCEPT !["name"] = Nothing]
            \/ \E r \in WireReceives :
                 /\ r.table /\ r.work # "linked" /\ inputRecv' = [inputRecv EXCEPT ![t] = r] /\ UNCHANGED inputPlace
            \/ \E r \in WireReceives :
                 /\ r.table /\ r.work = "linked" /\ inputRecv' = [inputRecv EXCEPT ![t] = r]
                 /\ inputPlace["name"] = Nothing /\ inputPlace' = [inputPlace EXCEPT !["name"] = t]
<1> DEFINE Same == UNCHANGED <<inputSend, inputSent, inputStreamS, inputStreamR, inputLinkUp, inputChanR>>
<1>1. Same
  BY DEF Input!Get, Input!Write, Input!Sync, Input!Commit
<1>2. inputRecv[t] \in WireReceives /\ inputRecv[t].table /\ inputRecv[t] # Untaken
  <2>1. inputRecv[t].work # "off"
    BY DEF Input!Get, Input!Write, Input!Sync, Input!Commit
  <2> QED
    BY <2>1, InputRegistered
<1>3. PICK r \in WireReceives : r = inputRecv[t]
  BY <1>2
<1>4. inputRecv \in [Transfers -> WireReceives] /\ SenderTypes(inputSend, inputSent)' /\ inputTemp \subseteq Transfers
      /\ inputPlace \in [{"name"} -> Transfers \cup {Nothing}] /\ inputChanS \in Seq(WireReplies)
  BY <1>1 DEF InputTypes
<1>5. 0 \in 0..Pieces /\ Moves(inputChanR, inputChanR', 0, {}) /\ Moves(inputChanS, inputChanS, 0, {[kind |-> "ack", of |-> t, n |-> 0]})
  BY <1>1, <1>4, InputStayR, MovesStay DEF NodeAssumption
<1>6. CASE Input!CleanUp(t)
  BY <1>1, <1>2, <1>5, <1>6, InputCleans
<1>7. ASSUME NEW s \in WireReceives, s.table, s.work # "linked", inputRecv' = [inputRecv EXCEPT ![t] = s],
             UNCHANGED <<inputTemp, inputPlace>>, inputChanS' \in Seq(WireReplies),
             NEW k \in {"ack", "error"}, NEW i \in 0..Pieces, Moves(inputChanS, inputChanS', 0, {[kind |-> k, of |-> t, n |-> i]})
      PROVE  /\ InputTypes' /\ UNCHANGED <<inputSend, inputStreamR>> /\ UNCHANGED inputPlace
             /\ \E j \in {"ack", "error"}, n \in 0..Pieces : Moves(inputChanS, inputChanS', 0, {[kind |-> j, of |-> t, n |-> n]})
             /\ \E q \in WireReceives : q.table /\ q.work # "linked" /\ inputRecv' = [inputRecv EXCEPT ![t] = q]
  <2>1. inputRecv' \in [Transfers -> WireReceives]
    BY <1>4, <1>7
  <2> QED
    BY <1>1, <1>4, <1>7, <2>1 DEF InputTypes
<1>8. CASE Input!Get(t) /\ ~Input!CleanUp(t)
  <2>1. /\ r.queue # <<>> /\ UNCHANGED <<inputChanS, inputTemp, inputPlace>>
        /\ inputRecv' = [inputRecv EXCEPT ![t].queue = Tail(@), ![t].work = IF Head(r.queue) = Pieces THEN "sync" ELSE "write",
                         ![t].got = IF Head(r.queue) = Pieces THEN @ ELSE @ + 1]
    BY <1>3, <1>8 DEF Input!Get, Input!EndMark
  <2>2. PICK s : s = IF Head(r.queue) = Pieces THEN [r EXCEPT !.queue = Tail(r.queue), !.work = "sync"]
                     ELSE [r EXCEPT !.queue = Tail(r.queue), !.work = "write", !.got = r.got + 1]
    OBVIOUS
  <2>3. s \in WireReceives
    BY <1>2, <1>3, <2>1, <2>2, WireTakes
  <2>4. s.table /\ s.work # "linked"
    BY <1>2, <1>3, <2>2 DEF WireReceives, WireShapes
  <2>5. inputRecv' = [inputRecv EXCEPT ![t] = s]
    BY <1>3, <1>4, <2>1, <2>2 DEF WireReceives, WireShapes
  <2>6. inputChanS' \in Seq(WireReplies) /\ Moves(inputChanS, inputChanS', 0, {[kind |-> "ack", of |-> t, n |-> 0]})
    BY <1>4, <1>5, <2>1
  <2> QED
    BY <1>2, <1>5, <1>7, <2>1, <2>3, <2>4, <2>5, <2>6
<1>9. CASE Input!Write(t)
  <2>1. /\ r.work = "write" /\ UNCHANGED <<inputTemp, inputPlace>>
        /\ inputRecv' = [inputRecv EXCEPT ![t].work = "get"] /\ Input!ToS([kind |-> "ack", of |-> t, n |-> r.got - 1])
    BY <1>3, <1>9 DEF Input!Write, Input!Frame
  <2>2. r.got - 1 \in 0..Pieces
    BY <2>1 DEF WireReceives, WireShapes, Queued, NodeAssumption
  <2>3. PICK s : s = [r EXCEPT !.work = "get"]
    OBVIOUS
  <2>4. s \in WireReceives
    BY <1>2, <1>3, <2>3, WireWorks
  <2>5. s.table /\ s.work # "linked"
    BY <1>2, <1>3, <2>3 DEF WireReceives, WireShapes
  <2>6. inputRecv' = [inputRecv EXCEPT ![t] = s]
    BY <1>3, <1>4, <2>1, <2>3
  <2>7. [kind |-> "ack", of |-> t, n |-> r.got - 1] \in WireReplies
    BY <2>2, WireFrame DEF WireReplies, NodeAssumption
  <2>8. inputChanS' \in Seq(WireReplies) /\ Moves(inputChanS, inputChanS', 0, {[kind |-> "ack", of |-> t, n |-> r.got - 1]})
    BY <2>1, <2>7, InputToS
  <2> QED
    BY <1>2, <1>5, <1>7, <2>1, <2>2, <2>4, <2>5, <2>6, <2>8
<1>10. CASE Input!Sync(t) /\ ~Input!CleanUp(t)
  <2>1. /\ UNCHANGED <<inputChanS, inputTemp, inputPlace>>
        /\ inputRecv' = [inputRecv EXCEPT ![t].phase = "committing", ![t].work = "commit"]
    BY <1>10 DEF Input!Sync
  <2>2. PICK s : s = [r EXCEPT !.phase = "committing", !.work = "commit"]
    OBVIOUS
  <2>3. s \in WireReceives
    BY <1>2, <1>3, <2>2, WireWorks
  <2>4. s.table /\ s.work # "linked"
    BY <1>2, <1>3, <2>2 DEF WireReceives, WireShapes
  <2>5. inputRecv' = [inputRecv EXCEPT ![t] = s]
    BY <1>3, <1>4, <2>1, <2>2 DEF WireReceives, WireShapes
  <2>6. inputChanS' \in Seq(WireReplies) /\ Moves(inputChanS, inputChanS', 0, {[kind |-> "ack", of |-> t, n |-> 0]})
    BY <1>4, <1>5, <2>1
  <2> QED
    BY <1>2, <1>5, <1>7, <2>1, <2>3, <2>4, <2>5, <2>6
<1>11. CASE Input!Commit(t) /\ ~Input!CleanUp(t)
  <2>1. /\ inputPlace["name"] = Nothing /\ inputPlace' = [inputPlace EXCEPT !["name"] = t] /\ inputTemp' = inputTemp \ {t}
        /\ inputRecv' = [inputRecv EXCEPT ![t].work = "linked"] /\ UNCHANGED inputChanS
    BY <1>11 DEF Input!Commit
  <2>2. PICK s : s = [r EXCEPT !.work = "linked"]
    OBVIOUS
  <2>3. s \in WireReceives
    BY <1>2, <1>3, <2>2, WireWorks
  <2>4. s.table /\ s.work = "linked"
    BY <1>2, <1>3, <2>2 DEF WireReceives, WireShapes
  <2>5. inputRecv' = [inputRecv EXCEPT ![t] = s]
    BY <1>3, <1>4, <2>1, <2>2
  <2>6. inputRecv' \in [Transfers -> WireReceives] /\ inputTemp' \subseteq Transfers
        /\ inputPlace' \in [{"name"} -> Transfers \cup {Nothing}]
    BY <1>4, <2>1, <2>3, <2>5
  <2>7. InputTypes'
    BY <1>1, <1>4, <2>1, <2>6 DEF InputTypes
  <2>8. Moves(inputChanS, inputChanS', 0, {[kind |-> "ack", of |-> t, n |-> 0]})
    BY <1>5, <2>1
  <2> QED
    BY <1>1, <1>2, <1>5, <2>1, <2>3, <2>4, <2>5, <2>7, <2>8
<1> QED
  BY <1>6, <1>8, <1>9, <1>10, <1>11

-----------------------------------------------------------------------------
(* A staged input is the one its handle names.                               *)

\* Something other than a call of u is under way to the receiver.
Under(c, u) == \E i \in 1..Len(c) : c[i].of = u /\ c[i].kind # "call"

LEMMA MovesUnder ==
  ASSUME NEW s, NEW t, NEW d, NEW N, Moves(s, t, d, N), NEW u, Under(t, u)
  PROVE  Under(s, u) \/ \E f \in N : f.of = u /\ f.kind # "call"
<1>1. \A i \in 1..Len(t) : (i + d \in 1..Len(s) /\ t[i] = s[i + d]) \/ t[i] \in N
  BY DEF Moves
<1> QED
  BY <1>1 DEF Under

LEMMA UnderHas == ASSUME NEW c, NEW k, NEW u, k # "call", Has(c, k, u) PROVE Under(c, u)
BY DEF Has, Under

InputActive(u) ==
  \/ inputSend[u] \in {"begin", "sending", "ended"} \/ inputRecv[u].table \/ Under(inputChanR, u)

\* While a receive is registered the final path is free or its own; who was
\* answered with success has the path, and a handle, for as long as the stream is
\* open; only a client that was answered calls with a handle.
InputAt(u) ==
  /\ inputRecv[u].table => inputPlace["name"] \in {u, Nothing}
  /\ inputRecv[u].work = "linked" => inputPlace["name"] = u
  /\ (Has(inputChanS, "ok", u) \/ inputSend[u] = "ok") /\ inputStreamR = "open" =>
       inputPlace["name"] = u /\ u \in handles /\ ~inputRecv[u].table
  /\ Has(inputChanR, "call", u) => inputSend[u] = "ok"
  /\ used[u] \subseteq {"own"}

\* The client stages one input at a time (Start without "together").
InputInv ==
  /\ InputTypes /\ handles \subseteq Transfers /\ calls \in 0..Calls
  /\ used \in [Transfers -> SUBSET {"own", "other", "refused"}]
  /\ \A t, u \in Transfers : InputActive(t) /\ InputActive(u) => t = u
  /\ \A u \in Transfers : InputAt(u)

\* What a step of the client does to an input.
LEMMA InputSender ==
  ASSUME InputInv, NEW u \in Transfers, UNCHANGED <<inputPlace, inputRecv, inputStreamR, handles, used>>,
         NEW N, Moves(inputChanR, inputChanR', 0, N), NEW d, Moves(inputChanS, inputChanS', d, {}),
         \A f \in N : f.kind = "call" /\ f.of = u => inputSend[u] = "ok",
         inputSend[u] = "ok" => inputSend'[u] = "ok",
         inputSend'[u] = "ok" => inputSend[u] = "ok" \/ Has(inputChanS, "ok", u)
  PROVE  InputAt(u)'
<1>1. InputAt(u)
  BY DEF InputInv
<1>2. Has(inputChanR', "call", u) => Has(inputChanR, "call", u) \/ inputSend[u] = "ok"
  BY MovesHas
<1>3. Has(inputChanS', "ok", u) => Has(inputChanS, "ok", u)
  BY MovesHas
<1> QED
  BY <1>1, <1>2, <1>3 DEF InputAt

LEMMA InputSenderOne ==
  ASSUME InputInv, NEW u \in Transfers, UNCHANGED inputRecv, NEW N, Moves(inputChanR, inputChanR', 0, N),
         \A f \in N : f.kind # "call" /\ f.of = u => inputSend[u] \in {"begin", "sending", "ended"},
         inputSend'[u] \in {"begin", "sending", "ended"} => inputSend[u] \in {"begin", "sending", "ended"},
         InputActive(u)'
  PROVE  InputActive(u)
<1>1. Under(inputChanR', u) => Under(inputChanR, u) \/ inputSend[u] \in {"begin", "sending", "ended"}
  BY MovesUnder
<1> QED
  BY <1>1 DEF InputActive

\* What a frame that is not a begin or a call does.
LEMMA InputReader ==
  ASSUME InputInv, NEW u \in Transfers, InputReads,
         UNCHANGED <<inputPlace, inputSend, inputChanS, handles, used>>,
         Moves(inputChanR, inputChanR', 1, {}), inputStreamR' = "open" => inputStreamR = "open"
  PROVE  InputAt(u)' /\ (InputActive(u)' => InputActive(u))
<1>1. InputAt(u)
  BY DEF InputInv
<1>2. Has(inputChanR', "call", u) => Has(inputChanR, "call", u)
  BY MovesHas
<1>3. Under(inputChanR', u) => Under(inputChanR, u)
  BY MovesUnder
<1>4. inputRecv'[u] = inputRecv[u]
      \/ (inputRecv[u].table /\ inputRecv'[u].table /\ inputRecv'[u].work = inputRecv[u].work)
  BY DEF InputReads
<1> QED
  BY <1>1, <1>2, <1>3, <1>4 DEF InputAt, InputActive

LEMMA InputBegun ==
  ASSUME InputInv, NodeAssumption, Input!BeginInput, NEW u \in Transfers
  PROVE  InputTypes' /\ InputAt(u)' /\ (InputActive(u)' => InputActive(u))
<1>1. InputTypes /\ InputAt(u) /\ inputRecv \in [Transfers -> WireReceives]
  BY DEF InputInv, InputTypes
<1>2. PICK W : W = {t \in Transfers : inputPlace["name"] = Nothing}
  OBVIOUS
<1>3. Input!Begin(W) /\ UNCHANGED <<handles, used, calls>>
  BY <1>2 DEF Input!BeginInput, Input!inputVars
<1>4. /\ InputTypes' /\ Moves(inputChanR, inputChanR', 1, {})
      /\ Has(inputChanR, "begin", Head(inputChanR).of) /\ UNCHANGED <<inputSend, inputStreamR, inputPlace>>
      /\ Head(inputChanR).of \in Transfers
      /\ \/ UNCHANGED inputRecv
         \/ /\ inputStreamR = "open" /\ Head(inputChanR).of \in W
            /\ inputRecv' = [inputRecv EXCEPT ![Head(inputChanR).of] =
                               [Untaken EXCEPT !.phase = "receiving", !.work = "get", !.table = TRUE]]
  BY <1>1, <1>3, InputBegins
<1>5. PICK t \in Transfers : t = Head(inputChanR).of
  BY <1>4
<1>6. PICK k \in {"ready", "error"} : Moves(inputChanS, inputChanS', 0, {[kind |-> k, of |-> t, n |-> 0]})
  BY <1>1, <1>3, <1>5, InputBegins
<1>7. Has(inputChanR', "call", u) => Has(inputChanR, "call", u)
  BY <1>4, MovesHas
<1>8. Under(inputChanR', u) => Under(inputChanR, u)
  BY <1>4, MovesUnder
<1>9. Has(inputChanS', "ok", u) => Has(inputChanS, "ok", u)
  <2>1. Has(inputChanS', "ok", u) =>
          Has(inputChanS, "ok", u) \/ \E f \in {[kind |-> k, of |-> t, n |-> 0]} : f.kind = "ok" /\ f.of = u
    BY <1>6, MovesHas
  <2> QED
    BY <2>1
<1>10. CASE inputRecv'[u] = inputRecv[u]
  BY <1>1, <1>3, <1>4, <1>7, <1>8, <1>9, <1>10 DEF InputAt, InputActive
<1>11. CASE inputRecv'[u] # inputRecv[u]
  <2>1. u = t /\ inputRecv'[u] = [Untaken EXCEPT !.phase = "receiving", !.work = "get", !.table = TRUE]
        /\ inputPlace["name"] = Nothing
    BY <1>1, <1>2, <1>4, <1>5, <1>11
  <2>2. inputRecv'[u].work # "linked" /\ u # Nothing
    BY <2>1 DEF Untaken, NodeAssumption
  <2>3. Under(inputChanR, u)
    BY <1>4, <1>5, <2>1, UnderHas
  <2> QED
    BY <1>1, <1>3, <1>4, <1>7, <1>9, <2>1, <2>2, <2>3 DEF InputAt, InputActive
<1> QED
  BY <1>4, <1>10, <1>11

\* What a step of the worker of an input, its abort or its mint leaves.
LEMMA InputWorker ==
  ASSUME InputInv, InputTypes', NodeAssumption, NEW t \in Transfers, NEW u \in Transfers, inputRecv[t].table,
         UNCHANGED <<inputSend, inputStreamR, used>>, Moves(inputChanR, inputChanR', 0, {}),
         NEW f, f.of = t, Moves(inputChanS, inputChanS', 0, {f}), handles \subseteq handles',
         u # t => inputRecv'[u] = inputRecv[u],
         \/ f.kind # "ok" /\ inputRecv'[t] = Untaken /\ inputPlace'["name"] \in {inputPlace["name"], Nothing}
         \/ f.kind # "ok" /\ inputRecv'[t].work # "linked" /\ inputPlace'["name"] = inputPlace["name"]
         \/ f.kind # "ok" /\ inputPlace'["name"] = t
         \/ /\ inputPlace["name"] = t /\ inputPlace'["name"] = t /\ inputRecv'[t] = Untaken
            /\ f.kind = "ok" => t \in handles'
  PROVE  InputAt(u)' /\ (InputActive(u)' => InputActive(u))
<1>1. InputAt(u) /\ InputAt(t) /\ InputTypes
  BY DEF InputInv
<1>2. Has(inputChanR', "call", u) => Has(inputChanR, "call", u)
  BY MovesHas
<1>3. Under(inputChanR', u) => Under(inputChanR, u)
  BY MovesUnder
<1>4. Has(inputChanS', "ok", u) => Has(inputChanS, "ok", u) \/ (f.kind = "ok" /\ u = t)
  BY MovesHas
<1>5. CASE u # t
  <2>1. ~inputRecv[u].table
    BY <1>5 DEF InputInv, InputActive
  <2>2. inputRecv[u].work # "linked"
    BY <1>1, <2>1, InputRegistered
  <2>3. inputPlace["name"] # u
    BY <1>1, <1>5 DEF InputAt, NodeAssumption
  <2>4. (Has(inputChanS', "ok", u) \/ inputSend[u] = "ok") => inputStreamR # "open"
    BY <1>1, <1>4, <1>5, <2>3 DEF InputAt
  <2> QED
    BY <1>1, <1>2, <1>3, <1>5, <2>1, <2>2, <2>4 DEF InputAt, InputActive
<1>6. CASE u = t
  <2>1. (Has(inputChanS, "ok", u) \/ inputSend[u] = "ok") => inputStreamR # "open"
    BY <1>1, <1>6 DEF InputAt
  <2>2. InputActive(u)
    BY <1>6 DEF InputActive
  <2>3. inputPlace["name"] \in {u, Nothing}
    BY <1>1, <1>6 DEF InputAt
  <2> QED
    BY <1>1, <1>2, <1>4, <1>6, <2>1, <2>2, <2>3, UntakenOff DEF InputAt
<1> QED
  BY <1>5, <1>6

LEMMA InputWorked ==
  ASSUME InputInv, NodeAssumption, NEW t \in Transfers, NEW u \in Transfers, Input!Worker(t), UNCHANGED <<handles, used>>
  PROVE  InputTypes' /\ InputAt(u)' /\ (InputActive(u)' => InputActive(u))
<1>1. InputTypes /\ inputRecv \in [Transfers -> WireReceives]
      /\ inputPlace \in [{"name"} -> Transfers \cup {Nothing}]
  BY DEF InputInv, InputTypes
<1>2. /\ InputTypes' /\ UNCHANGED <<inputSend, inputStreamR>> /\ inputRecv[t].table
      /\ Moves(inputChanR, inputChanR', 0, {})
      /\ \E k \in {"ack", "error"}, i \in 0..Pieces : Moves(inputChanS, inputChanS', 0, {[kind |-> k, of |-> t, n |-> i]})
      /\ \/ /\ inputRecv' = [inputRecv EXCEPT ![t] = Untaken]
            /\ UNCHANGED inputPlace \/ inputPlace' = [inputPlace EXCEPT !["name"] = Nothing]
         \/ \E r \in WireReceives :
              /\ r.table /\ r.work # "linked" /\ inputRecv' = [inputRecv EXCEPT ![t] = r] /\ UNCHANGED inputPlace
         \/ \E r \in WireReceives :
              /\ r.table /\ r.work = "linked" /\ inputRecv' = [inputRecv EXCEPT ![t] = r]
              /\ inputPlace["name"] = Nothing /\ inputPlace' = [inputPlace EXCEPT !["name"] = t]
  BY <1>1, InputWorks DEF Input!Worker
<1>3. PICK f : f.of = t /\ f.kind # "ok" /\ Moves(inputChanS, inputChanS', 0, {f})
  <2>1. PICK k \in {"ack", "error"}, i \in 0..Pieces : Moves(inputChanS, inputChanS', 0, {[kind |-> k, of |-> t, n |-> i]})
    BY <1>2
  <2> QED
    BY <2>1
<1>4. u # t => inputRecv'[u] = inputRecv[u]
  BY <1>1, <1>2
<1>5. \/ inputRecv'[t] = Untaken /\ inputPlace'["name"] \in {inputPlace["name"], Nothing}
      \/ inputRecv'[t].work # "linked" /\ inputPlace'["name"] = inputPlace["name"]
      \/ inputPlace'["name"] = t
  BY <1>1, <1>2
<1> QED
  BY <1>2, <1>3, <1>4, <1>5, InputWorker

LEMMA InputCleaned ==
  ASSUME InputInv, NodeAssumption, NEW t \in Transfers, NEW u \in Transfers, Input!CleanUp(t), inputRecv[t].table,
         UNCHANGED <<inputSend, inputSent, inputStreamS, inputStreamR, inputLinkUp, inputChanR, handles, used>>
  PROVE  InputTypes' /\ InputAt(u)' /\ (InputActive(u)' => InputActive(u))
<1>1. InputTypes /\ inputRecv \in [Transfers -> WireReceives]
      /\ inputPlace \in [{"name"} -> Transfers \cup {Nothing}]
  BY DEF InputInv, InputTypes
<1>2. /\ InputTypes' /\ inputRecv' = [inputRecv EXCEPT ![t] = Untaken]
      /\ Moves(inputChanR, inputChanR', 0, {})
      /\ Moves(inputChanS, inputChanS', 0, {[kind |-> "error", of |-> t, n |-> 0]})
      /\ UNCHANGED inputPlace \/ inputPlace' = [inputPlace EXCEPT !["name"] = Nothing]
  BY <1>1, InputCleans
<1>3. PICK f : f.of = t /\ f.kind # "ok" /\ Moves(inputChanS, inputChanS', 0, {f})
  BY <1>2
<1>4. u # t => inputRecv'[u] = inputRecv[u]
  BY <1>1, <1>2
<1>5. inputRecv'[t] = Untaken /\ inputPlace'["name"] \in {inputPlace["name"], Nothing}
  BY <1>1, <1>2
<1> QED
  BY <1>2, <1>3, <1>4, <1>5, InputWorker

LEMMA InputMinted ==
  ASSUME InputInv, NodeAssumption, NEW t \in Transfers, NEW u \in Transfers, Input!Minted(t)
  PROVE  InputTypes' /\ InputAt(u)' /\ (InputActive(u)' => InputActive(u)) /\ handles' \subseteq Transfers
<1>1. InputTypes /\ inputRecv \in [Transfers -> WireReceives] /\ inputRecv[t].work = "linked"
      /\ inputPlace["name"] = t /\ handles \subseteq Transfers
  BY DEF InputInv, InputTypes, Input!Minted, InputAt
<1>2. inputRecv[t].table /\ UNCHANGED <<inputSend, inputSent, inputStreamS, inputStreamR, inputLinkUp, inputChanR, used>>
  BY <1>1, InputRegistered DEF Input!Minted
<1>3. CASE inputRecv[t].phase = "aborting"
  BY <1>1, <1>2, <1>3, InputCleaned DEF Input!Minted
<1>4. CASE inputRecv[t].phase # "aborting"
  <2>1. PICK k \in {"ok", "error"} : k = IF inputStreamR = "open" THEN "ok" ELSE "error"
    OBVIOUS
  <2>2. inputRecv' = [inputRecv EXCEPT ![t] = Untaken] /\ Input!ToS([kind |-> k, of |-> t, n |-> 0])
        /\ UNCHANGED <<inputTemp, inputPlace>>
        /\ handles' = IF inputStreamR = "open" THEN handles \cup {t} ELSE handles
    BY <1>4, <2>1 DEF Input!Minted, Input!Frame, Input!Idle, Untaken
  <2>3. [kind |-> k, of |-> t, n |-> 0] \in WireReplies
    BY WireFrame DEF WireReplies, NodeAssumption
  <2>4. inputChanS' \in Seq(WireReplies) /\ Moves(inputChanS, inputChanS', 0, {[kind |-> k, of |-> t, n |-> 0]})
    BY <1>1, <2>2, <2>3, InputToS
  <2>5. InputTypes'
    <3>1. SenderTypes(inputSend, inputSent)'
      BY <1>1, <1>2 DEF InputTypes
    <3>2. inputRecv' \in [Transfers -> WireReceives]
      BY <1>1, <2>2, WireStarts
    <3> QED
      BY <1>1, <1>2, <2>2, <2>4, <3>1, <3>2 DEF InputTypes
  <2>6. Moves(inputChanR, inputChanR', 0, {})
    BY <1>1, <1>2, InputStayR
  <2>7. PICK f : f.of = t /\ f.kind = k /\ Moves(inputChanS, inputChanS', 0, {f})
    BY <2>4
  <2>8. u # t => inputRecv'[u] = inputRecv[u]
    BY <1>1, <2>2
  <2>9. inputPlace'["name"] = t /\ inputRecv'[t] = Untaken
    BY <1>1, <2>2
  <2>10. handles \subseteq handles' /\ (f.kind = "ok" => t \in handles') /\ handles' \subseteq Transfers
    BY <1>1, <2>1, <2>2, <2>7
  <2> QED
    BY <1>1, <1>2, <2>5, <2>6, <2>7, <2>8, <2>9, <2>10, InputWorker
<1> QED
  BY <1>3, <1>4

\* Steps that keep what each input has keep the invariant.
InputRest ==
  /\ handles \subseteq Transfers /\ calls \in 0..Calls
  /\ used \in [Transfers -> SUBSET {"own", "other", "refused"}]

LEMMA InputKept ==
  ASSUME InputInv, InputTypes', InputRest',
         \A u \in Transfers : InputAt(u)' /\ (InputActive(u)' => InputActive(u))
  PROVE  InputInv'
<1>1. \A t, u \in Transfers : InputActive(t)' /\ InputActive(u)' => t = u
  BY DEF InputInv
<1> QED
  BY <1>1 DEF InputInv, InputRest

LEMMA InputRests == InputInv /\ UNCHANGED <<handles, used, calls>> => InputRest /\ InputRest'
BY DEF InputInv, InputRest

LEMMA InputStarted == ASSUME InputInv, NodeAssumption, NEW t \in Transfers, Input!Start(t), UNCHANGED <<handles, used, calls>>
  PROVE InputInv'
<1>1. InputTypes /\ inputSend \in [Transfers -> {"new", "ok", "failed", "begin", "sending", "ended"}]
      /\ inputChanR \in Seq(WireFrames)
  BY DEF InputInv, InputTypes, SenderTypes
<1>2. InputTypes' /\ Moves(inputChanR, inputChanR', 0, {[kind |-> "begin", of |-> t, n |-> 0]})
  BY <1>1, InputStarts
<1>3. /\ inputSend[t] = "new" /\ inputSend' = [inputSend EXCEPT ![t] = "begin"]
      /\ UNCHANGED <<inputPlace, inputRecv, inputChanS, inputStreamR>>
      /\ \A u \in Transfers \ {t} :
           /\ inputSend[u] \notin {"begin", "sending", "ended"} /\ ~inputRecv[u].table
           /\ \A i \in 1..Len(inputChanR) : inputChanR[i].of # u
  BY DEF Input!Start, Input!Busy
<1>4. Moves(inputChanS, inputChanS', 0, {})
  BY <1>1, <1>3, InputStayS
<1>5. PICK N : N = {[kind |-> "begin", of |-> t, n |-> 0]}
  OBVIOUS
<1>6. \A f \in N : f.kind # "call" /\ f.of = t
  BY <1>5
<1>7. ASSUME NEW u \in Transfers PROVE InputAt(u)'
  <2>1. inputSend[u] = "ok" <=> inputSend'[u] = "ok"
    BY <1>1, <1>3
  <2> QED
    BY <1>2, <1>3, <1>4, <1>5, <1>6, <2>1, InputSender
<1>8. ASSUME NEW u \in Transfers, InputActive(u)' PROVE u = t
  <2>1. Under(inputChanR', u) => Under(inputChanR, u) \/ u = t
    BY <1>2, <1>5, <1>6, MovesUnder
  <2> QED
    BY <1>1, <1>3, <1>8, <2>1 DEF InputActive, Under
<1> QED
  BY <1>2, <1>7, <1>8, InputRests DEF InputInv, InputRest

LEMMA InputReplied == ASSUME InputInv, NodeAssumption, Input!Reply, UNCHANGED <<handles, used, calls>> PROVE InputInv'
<1>1. InputTypes /\ inputSend \in [Transfers -> {"new", "ok", "failed", "begin", "sending", "ended"}]
  BY DEF InputInv, InputTypes, SenderTypes
<1>2. InputTypes' /\ inputChanS' = Tail(inputChanS) /\ inputChanS # <<>>
  BY <1>1, InputReplies
<1>3. PICK t \in Transfers, N \in SUBSET WireFrames :
              /\ t = Head(inputChanS).of /\ Moves(inputChanR, inputChanR', 0, N)
              /\ \A f \in N : f.of = t /\ f.kind \in {"chunk", "end", "cancel"}
              /\ \/ UNCHANGED inputSend /\ N = {}
                 \/ inputSend' = [inputSend EXCEPT ![t] = "ok"] /\ Head(inputChanS).kind = "ok" /\ inputSend[t] = "ended" /\ N = {}
                 \/ \E x \in {"failed", "sending", "ended"} :
                      inputSend' = [inputSend EXCEPT ![t] = x] /\ inputSend[t] \in {"begin", "sending", "ended"}
  BY <1>1, InputReplies
<1>4. Moves(inputChanS, inputChanS', 1, {}) /\ Has(inputChanS, Head(inputChanS).kind, t)
  BY <1>1, <1>2, <1>3, InputTaken
<1>5. UNCHANGED <<inputPlace, inputRecv, inputStreamR>>
  BY DEF Input!Reply
<1>6. \A f \in N : f.kind # "call" /\ f.of = t
  BY <1>3
<1>7. ASSUME NEW u \in Transfers PROVE InputAt(u)' /\ (InputActive(u)' => InputActive(u))
  <2>1. inputSend[u] = "ok" => inputSend'[u] = "ok"
    BY <1>1, <1>3
  <2>2. inputSend'[u] = "ok" => inputSend[u] = "ok" \/ Has(inputChanS, "ok", u)
    BY <1>1, <1>3, <1>4
  <2>3. inputSend'[u] \in {"begin", "sending", "ended"} => inputSend[u] \in {"begin", "sending", "ended"}
    BY <1>1, <1>3
  <2>4. \A f \in N : f.kind # "call" /\ f.of = u => inputSend[u] \in {"begin", "sending", "ended"}
    BY <1>3
  <2>5. InputAt(u)'
    BY <1>3, <1>4, <1>5, <1>6, <2>1, <2>2, InputSender
  <2>6. InputActive(u)' => InputActive(u)
    BY <1>3, <1>5, <2>3, <2>4, InputSenderOne
  <2> QED
    BY <2>5, <2>6
<1> QED
  BY <1>2, <1>7, InputRests, InputKept

LEMMA InputTimedOut ==
  ASSUME InputInv, NodeAssumption, NEW t \in Transfers, Input!TimesOut(t), UNCHANGED <<handles, used, calls>>
  PROVE  InputInv'
<1>1. InputTypes /\ inputSend \in [Transfers -> {"new", "ok", "failed", "begin", "sending", "ended"}]
  BY DEF InputInv, InputTypes, SenderTypes
<1>2. InputTypes' /\ inputSend' = [inputSend EXCEPT ![t] = "failed"]
      /\ Moves(inputChanR, inputChanR', 0, {[kind |-> "cancel", of |-> t, n |-> 0]})
  BY <1>1, InputTimesOut
<1>3. inputSend[t] \in {"begin", "sending", "ended"} /\ UNCHANGED <<inputPlace, inputRecv, inputChanS, inputStreamR>>
  BY DEF Input!TimesOut, Input!Busy
<1>4. Moves(inputChanS, inputChanS', 0, {})
  BY <1>1, <1>3, InputStayS
<1>5. PICK N : N = {[kind |-> "cancel", of |-> t, n |-> 0]}
  OBVIOUS
<1>6. \A f \in N : f.kind # "call" /\ f.of = t
  BY <1>5
<1>7. ASSUME NEW u \in Transfers PROVE InputAt(u)' /\ (InputActive(u)' => InputActive(u))
  <2>1. inputSend[u] = "ok" <=> inputSend'[u] = "ok"
    BY <1>1, <1>2, <1>3
  <2>2. inputSend'[u] \in {"begin", "sending", "ended"} => inputSend[u] \in {"begin", "sending", "ended"}
    BY <1>1, <1>2
  <2>3. \A f \in N : f.kind # "call" /\ f.of = u => inputSend[u] \in {"begin", "sending", "ended"}
    BY <1>3, <1>6
  <2>4. InputAt(u)'
    BY <1>2, <1>3, <1>4, <1>5, <1>6, <2>1, InputSender
  <2>5. InputActive(u)' => InputActive(u)
    BY <1>2, <1>3, <1>5, <2>2, <2>3, InputSenderOne
  <2> QED
    BY <2>4, <2>5
<1> QED
  BY <1>2, <1>7, InputRests, InputKept

LEMMA InputClosed ==
  ASSUME InputInv, NodeAssumption, Input!StreamCloses \/ Input!LinkBreaks, UNCHANGED <<handles, used, calls>>
  PROVE  InputInv'
<1>1. InputTypes /\ inputSend \in [Transfers -> {"new", "ok", "failed", "begin", "sending", "ended"}]
  BY DEF InputInv, InputTypes, SenderTypes
<1>2. InputTypes' /\ Moves(inputChanR, inputChanR', 0, {[kind |-> "close", of |-> Nothing, n |-> 0]})
  BY <1>1, InputCloses, InputLoses
<1>3. UNCHANGED <<inputPlace, inputRecv, inputStreamR>> /\ (inputChanS' = inputChanS \/ inputChanS' = <<>>)
      /\ inputSend' = [t \in Transfers |-> IF inputSend[t] \in Input!Busy THEN "failed" ELSE inputSend[t]]
  BY DEF Input!StreamCloses, Input!LinkBreaks
<1>4. Moves(inputChanS, inputChanS', 0, {})
  <2>1. Moves(inputChanS, inputChanS, 0, {})
    BY <1>1, InputStayS
  <2>2. Moves(inputChanS, <<>>, 0, {})
    BY DEF Moves
  <2> QED
    BY <1>3, <2>1, <2>2
<1>5. PICK N : N = {[kind |-> "close", of |-> Nothing, n |-> 0]}
  OBVIOUS
<1>6. \A f \in N : f.kind # "call" /\ f.of \notin Transfers
  BY <1>5 DEF NodeAssumption
<1>7. ASSUME NEW u \in Transfers PROVE InputAt(u)' /\ (InputActive(u)' => InputActive(u))
  <2>1. inputSend[u] = "ok" <=> inputSend'[u] = "ok"
    BY <1>1, <1>3 DEF Input!Busy
  <2>2. inputSend'[u] \in {"begin", "sending", "ended"} => inputSend[u] \in {"begin", "sending", "ended"}
    BY <1>1, <1>3 DEF Input!Busy
  <2>3. InputAt(u)'
    BY <1>2, <1>3, <1>4, <1>5, <1>6, <2>1, InputSender
  <2>4. InputActive(u)' => InputActive(u)
    BY <1>2, <1>3, <1>5, <1>6, <2>2, InputSenderOne
  <2> QED
    BY <2>3, <2>4
<1> QED
  BY <1>2, <1>7, InputRests, InputKept

LEMMA InputUsed == ASSUME InputInv, NodeAssumption, NEW t \in Transfers, Input!Use(t) PROVE InputInv'
<1>1. InputTypes /\ calls \in 0..Calls /\ Calls \in Nat
  BY DEF InputInv, NodeAssumption
<1>2. /\ inputSend[t] = "ok" /\ calls < Calls /\ calls' = calls + 1
      /\ Input!ToR([kind |-> "call", of |-> t, n |-> 0])
      /\ UNCHANGED <<inputSend, inputSent, inputStreamS, inputStreamR, inputLinkUp, inputChanS, inputRecv, inputTemp,
                     inputPlace, handles, used>>
  BY DEF Input!Use, Input!Frame
<1>3. inputChanR' \in Seq(WireFrames) /\ Moves(inputChanR, inputChanR', 0, {[kind |-> "call", of |-> t, n |-> 0]})
  BY <1>1, <1>2, WireFrame, InputToR
<1>4. InputTypes'
  <2>1. SenderTypes(inputSend, inputSent)'
    BY <1>1, <1>2 DEF InputTypes
  <2> QED
    BY <1>1, <1>2, <1>3, <2>1 DEF InputTypes
<1>5. Moves(inputChanS, inputChanS', 0, {})
  BY <1>1, <1>2, InputStayS
<1>6. PICK N : N = {[kind |-> "call", of |-> t, n |-> 0]}
  OBVIOUS
<1>7. \A f \in N : f.kind = "call" /\ f.of = t
  BY <1>6
<1>8. ASSUME NEW u \in Transfers PROVE InputAt(u)' /\ (InputActive(u)' => InputActive(u))
  <2>1. \A f \in N : f.kind = "call" /\ f.of = u => inputSend[u] = "ok"
    BY <1>2, <1>7
  <2>2. InputAt(u)'
    BY <1>2, <1>3, <1>5, <1>6, <2>1, InputSender
  <2>3. InputActive(u)' => InputActive(u)
    BY <1>2, <1>3, <1>6, <1>7, InputSenderOne
  <2> QED
    BY <2>2, <2>3
<1>9. InputRest'
  BY <1>1, <1>2 DEF InputRest, InputInv
<1> QED
  BY <1>4, <1>8, <1>9, InputKept

\* A call is given its own input.
LEMMA InputRewritten == ASSUME InputInv, NodeAssumption, Input!Rewrite PROVE InputInv'
<1>1. InputTypes /\ used \in [Transfers -> SUBSET {"own", "other", "refused"}]
  BY DEF InputInv
<1>2. Input!Receive("call")
      /\ UNCHANGED <<inputSend, inputSent, inputStreamS, inputStreamR, inputLinkUp, inputChanS, inputRecv, inputTemp,
                     inputPlace, handles, calls>>
  BY DEF Input!Rewrite
<1>3. /\ inputChanR' \in Seq(WireFrames) /\ Moves(inputChanR, inputChanR', 1, {})
      /\ Has(inputChanR, "call", Head(inputChanR).of) /\ Head(inputChanR).of \in Transfers
  BY <1>1, <1>2, InputReceives
<1>4. PICK t \in Transfers : t = Head(inputChanR).of
  BY <1>3
<1>5. inputSend[t] = "ok"
  BY <1>3, <1>4 DEF InputInv, InputAt
<1>6. inputStreamR = "open" => t \in handles /\ inputPlace["name"] = t
  BY <1>5 DEF InputInv, InputAt
<1>7. used' = IF inputStreamR = "open" THEN [used EXCEPT ![t] = @ \cup {"own"}] ELSE used
  BY <1>4, <1>6 DEF Input!Rewrite
<1>8. InputTypes'
  <2>1. SenderTypes(inputSend, inputSent)'
    BY <1>1, <1>2 DEF InputTypes
  <2> QED
    BY <1>1, <1>2, <1>3, <2>1 DEF InputTypes
<1>9. InputRest'
  BY <1>1, <1>2, <1>7 DEF InputRest, InputInv
<1>10. ASSUME NEW u \in Transfers PROVE InputAt(u)' /\ (InputActive(u)' => InputActive(u))
  <2>1. InputAt(u)
    BY DEF InputInv
  <2>2. used'[u] \subseteq {"own"}
    BY <1>1, <1>7, <2>1 DEF InputAt
  <2>3. Has(inputChanR', "call", u) => Has(inputChanR, "call", u)
    BY <1>3, MovesHas
  <2>4. Under(inputChanR', u) => Under(inputChanR, u)
    BY <1>3, MovesUnder
  <2> QED
    BY <1>2, <2>1, <2>2, <2>3, <2>4 DEF InputAt, InputActive
<1> QED
  BY <1>8, <1>9, <1>10, InputKept

LEMMA InputPaths == NodeAssumption => Input!Paths = {"name"}
BY DEF Input!Paths, NodeAssumption

LEMMA InputRemoved == ASSUME InputInv, NodeAssumption, Input!StageRemoved PROVE InputInv'
<1>1. InputTypes
  BY DEF InputInv
<1>2. /\ \A t \in Transfers : ~inputRecv[t].table
      /\ inputStreamR' = "closed" /\ handles' = {} /\ inputTemp' = {} /\ inputPlace' = [f \in {"name"} |-> Nothing]
      /\ UNCHANGED <<inputSend, inputSent, inputStreamS, inputLinkUp, inputChanR, inputChanS, inputRecv, used, calls>>
  BY InputPaths DEF Input!StageRemoved
<1>3. InputTypes'
  <2>1. SenderTypes(inputSend, inputSent)'
    BY <1>1, <1>2 DEF InputTypes
  <2> QED
    BY <1>1, <1>2, <2>1 DEF InputTypes
<1>4. InputRest'
  BY <1>2 DEF InputRest, InputInv
<1>5. ASSUME NEW u \in Transfers PROVE InputAt(u)' /\ (InputActive(u)' => InputActive(u))
  <2>1. InputAt(u)
    BY DEF InputInv
  <2>2. inputRecv[u].work # "linked"
    BY <1>1, <1>2, InputRegistered
  <2> QED
    BY <1>2, <2>1, <2>2 DEF InputAt, InputActive
<1> QED
  BY <1>3, <1>4, <1>5, InputKept

\* Every step of the staging of inputs keeps the invariant.
LEMMA InputStep == ASSUME InputInv, NodeAssumption, [Input!Next]_(Input!vars) PROVE InputInv'
<1>1. InputTypes
  BY DEF InputInv
<1>2. CASE Input!InputReply
  BY <1>2, InputReplied DEF Input!InputReply, Input!inputVars
<1>3. CASE Input!InputSend
  BY <1>3, InputStarted, InputTimedOut DEF Input!InputSend, Input!inputVars
<1>4. CASE (Input!StreamCloses \/ Input!LinkBreaks) /\ UNCHANGED Input!inputVars
  BY <1>4, InputClosed DEF Input!inputVars
<1>5. CASE (Input!Chunk \/ Input!End \/ Input!Cancel \/ Input!Close) /\ UNCHANGED Input!inputVars
  <2>1. InputTypes' /\ InputReads /\ UNCHANGED <<inputSend, inputPlace, inputChanS>>
        /\ Moves(inputChanR, inputChanR', 1, {}) /\ (inputStreamR' = "open" => inputStreamR = "open")
    BY <1>1, <1>5, InputChunks, InputEnds, InputCancels, InputReadsClose
  <2>2. UNCHANGED <<handles, used, calls>>
    BY <1>5 DEF Input!inputVars
  <2>3. ASSUME NEW u \in Transfers PROVE InputAt(u)' /\ (InputActive(u)' => InputActive(u))
    BY <2>1, <2>2, InputReader
  <2> QED
    BY <2>1, <2>2, <2>3, InputRests, InputKept
<1>6. CASE Input!BeginInput
  <2>1. UNCHANGED <<handles, used, calls>>
    BY <1>6 DEF Input!BeginInput, Input!inputVars
  <2>2. PICK t \in Transfers : TRUE
    BY DEF NodeAssumption
  <2> QED
    BY <1>6, <2>1, <2>2, InputBegun, InputRests, InputKept
<1>7. CASE Input!InputWorker \/ Input!InputAbort
  <2>1. UNCHANGED <<handles, used, calls>>
    BY <1>7 DEF Input!InputWorker, Input!InputAbort, Input!inputVars
  <2>2. ASSUME NEW t \in Transfers, Input!Worker(t) \/ Input!Abort(t) PROVE InputInv'
    <3>1. ASSUME NEW u \in Transfers
          PROVE  InputTypes' /\ InputAt(u)' /\ (InputActive(u)' => InputActive(u))
      BY <2>1, <2>2, InputWorked, InputCleaned DEF Input!Abort
    <3> QED
      BY <2>1, <3>1, InputRests, InputKept
  <2> QED
    BY <1>7, <2>2 DEF Input!InputWorker, Input!InputAbort
<1>8. ASSUME NEW t \in Transfers, Input!Minted(t) PROVE InputInv'
  <2>1. ASSUME NEW u \in Transfers
        PROVE  InputTypes' /\ InputAt(u)' /\ (InputActive(u)' => InputActive(u)) /\ handles' \subseteq Transfers
    BY <1>8, InputMinted
  <2>2. UNCHANGED <<used, calls>>
    BY <1>8 DEF Input!Minted
  <2>3. InputRest'
    BY <2>1, <2>2 DEF InputInv, InputRest
  <2> QED
    BY <2>1, <2>3, InputKept
<1>9. CASE UNCHANGED Input!vars
  <2>1. UNCHANGED <<inputSend, inputSent, inputStreamS, inputStreamR, inputLinkUp, inputChanR, inputChanS,
                    inputRecv, inputTemp, inputPlace, handles, used, calls>>
    BY <1>9 DEF Input!vars, Input!transferVars
  <2>2. SenderTypes(inputSend, inputSent)'
    BY <1>1, <2>1 DEF InputTypes
  <2>3. InputTypes'
    BY <1>1, <2>1, <2>2 DEF InputTypes
  <2>4. ASSUME NEW u \in Transfers PROVE InputAt(u)' /\ (InputActive(u)' => InputActive(u))
    BY <2>1 DEF InputInv, InputAt, InputActive
  <2> QED
    BY <2>1, <2>3, <2>4, InputRests, InputKept
<1> QED
  BY <1>2, <1>3, <1>4, <1>5, <1>6, <1>7, <1>8, <1>9, InputUsed, InputRewritten, InputRemoved
     DEF Input!Next, Input!InputFrames, Input!InputChunk, Input!InputEnd, Input!InputCancel, Input!InputStream,
         Input!Mints, Input!Uses

LEMMA InputStart == NodeAssumption /\ Input!Init => InputInv
<1> SUFFICES ASSUME NodeAssumption, Input!Init PROVE InputInv
  OBVIOUS
<1>1. /\ inputSend = [t \in Transfers |-> "new"] /\ inputSent = [t \in Transfers |-> 0]
      /\ inputStreamS = "open" /\ inputStreamR = "open" /\ inputLinkUp = TRUE
      /\ inputChanR = <<>> /\ inputChanS = <<>>
      /\ inputRecv = [t \in Transfers |-> Untaken] /\ inputTemp = {}
      /\ inputPlace = [f \in {"name"} |-> Nothing]
      /\ handles = {} /\ used = [t \in Transfers |-> {}] /\ calls = 0
  BY InputPaths DEF Input!Init, Input!TransferInit, Input!Idle, Untaken
<1>2. SenderTypes(inputSend, inputSent)
  BY <1>1 DEF SenderTypes, NodeAssumption
<1>3. <<>> \in Seq(WireFrames) /\ <<>> \in Seq(WireReplies)
  OBVIOUS
<1>4. InputTypes
  BY <1>1, <1>2, <1>3, WireStarts DEF InputTypes
<1>5. ASSUME NEW u \in Transfers PROVE InputAt(u) /\ ~InputActive(u)
  <2>1. ~Under(<<>>, u)
    BY DEF Under
  <2> QED
    BY <1>1, <2>1, NothingUnderWay, UntakenOff DEF InputAt, InputActive
<1>6. InputRest
  BY <1>1 DEF InputRest, NodeAssumption
<1> QED
  BY <1>4, <1>5, <1>6 DEF InputInv, InputRest

LEMMA InputHolds == NodeAssumption => (Input!Spec => []InputInv)
<1> SUFFICES ASSUME NodeAssumption PROVE Input!Spec => []InputInv
  OBVIOUS
<1>1. Input!Init => InputInv
  BY InputStart
<1>2. InputInv /\ [Input!Next]_(Input!vars) => InputInv'
  BY InputStep
<1> QED
  BY <1>1, <1>2, PTL DEF Input!Spec

\* A handle the client was given names the file it staged with it, and a call is
\* given its own input, whatever is cancelled, times out or breaks
\* (_rewrite_input_descriptor_line, _receive_input).
THEOREM InputHandlesHold == NodeAssumption => (Input!Spec => []Input!HandlesHold)
<1> SUFFICES ASSUME NodeAssumption PROVE Input!Spec => []Input!HandlesHold
  OBVIOUS
<1>1. InputInv => Input!HandlesHold
  BY DEF InputInv, InputAt, Input!HandlesHold
<1>2. Input!Spec => []InputInv
  BY InputHolds
<1> QED
  BY <1>1, <1>2, PTL

-----------------------------------------------------------------------------
(* Frames of relayed requests: how many of one there are, and which come     *)
(* first.                                                                    *)

Places(s, x) == {i \in 1..Len(s) : s[i] = x}
Count(s, x) == Cardinality(Places(s, x))

\* No b comes after an a.
NoneAfter(s, a, b) == \A i, j \in 1..Len(s) : s[i] = a /\ s[j] = b => j < i

LEMMA PlacesFinite ==
  ASSUME NEW S, NEW s \in Seq(S), NEW x
  PROVE  IsFiniteSet(Places(s, x)) /\ Count(s, x) \in Nat
<1>1. Len(s) \in Nat
  OBVIOUS
<1>2. IsFiniteSet(1..Len(s))
  BY <1>1, FS_Interval
<1>3. Places(s, x) \in SUBSET (1..Len(s))
  BY DEF Places
<1>4. IsFiniteSet(Places(s, x))
  BY <1>2, <1>3, FS_Subset
<1> QED
  BY <1>4, FS_CardinalityType DEF Count

LEMMA CountNone ==
  ASSUME NEW S, NEW s \in Seq(S), NEW x
  PROVE  Count(s, x) = 0 <=> \A i \in 1..Len(s) : s[i] # x
<1>1. Count(s, x) = 0 <=> Places(s, x) = {}
  BY PlacesFinite, FS_EmptySet DEF Count
<1> QED
  BY <1>1 DEF Places

LEMMA CountEmpty == \A x, a, b : Count(<<>>, x) = 0 /\ NoneAfter(<<>>, a, b)
<1>1. Len(<<>>) = 0 /\ 1..0 = {}
  OBVIOUS
<1>2. \A x : Places(<<>>, x) = {}
  BY <1>1 DEF Places
<1> QED
  BY <1>1, <1>2, FS_EmptySet DEF NoneAfter, Count

LEMMA CountAppend ==
  ASSUME NEW S, NEW s \in Seq(S), NEW y \in S, NEW x
  PROVE  Count(Append(s, y), x) = IF x = y THEN Count(s, x) + 1 ELSE Count(s, x)
<1>0. Append(s, y) \in Seq(S)
  OBVIOUS
<1>1. PICK t \in Seq(S) : t = Append(s, y)
  BY <1>0
<1>2. /\ Len(s) \in Nat /\ Len(t) = Len(s) + 1
      /\ t[Len(s) + 1] = y
  BY <1>1
<1>3. \A i \in 1..Len(s) : t[i] = s[i]
  BY <1>1
<1>4. IsFiniteSet(Places(s, x)) /\ Len(s) + 1 \notin Places(s, x)
  <2>1. IsFiniteSet(Places(s, x))
    BY PlacesFinite
  <2>2. Len(s) + 1 \notin 1..Len(s)
    BY <1>2
  <2> QED
    BY <2>1, <2>2 DEF Places
<1>5. CASE x = y
  <2>1. Places(t, x) = Places(s, x) \cup {Len(s) + 1}
    BY <1>2, <1>3, <1>5 DEF Places
  <2> QED
    BY <1>1, <1>4, <1>5, <2>1, FS_AddElement, ZenonT(30) DEF Count
<1>6. CASE x # y
  <2>1. Places(t, x) = Places(s, x)
    BY <1>2, <1>3, <1>6 DEF Places
  <2> QED
    BY <1>1, <1>6, <2>1 DEF Count
<1> QED
  BY <1>5, <1>6

LEMMA CountTail ==
  ASSUME NEW S, NEW s \in Seq(S), s # <<>>, NEW x
  PROVE  Count(Tail(s), x) = IF x = Head(s) THEN Count(s, x) - 1 ELSE Count(s, x)
<1>0. Tail(s) \in Seq(S)
  OBVIOUS
<1>1. PICK t \in Seq(S) : t = Tail(s)
  BY <1>0
<1>2. Len(s) \in Nat /\ Len(s) >= 1 /\ Len(t) = Len(s) - 1 /\ Head(s) = s[1]
  BY <1>1
<1>3. \A i \in 1..Len(t) : t[i] = s[i + 1]
  BY <1>1
<1>4. PICK P : P = Places(s, x) \ {1}
  OBVIOUS
<1>5. IsFiniteSet(Places(s, x)) /\ IsFiniteSet(Places(t, x))
  BY PlacesFinite
<1>6. IsFiniteSet(P) /\ Cardinality(P) = IF 1 \in Places(s, x) THEN Count(s, x) - 1 ELSE Count(s, x)
  BY <1>4, <1>5, FS_RemoveElement DEF Count
<1>7. Cardinality(P) = Cardinality(Places(t, x))
  <2> DEFINE f == [i \in Places(t, x) |-> i + 1]
  <2>1. ASSUME NEW i \in Places(t, x) PROVE i \in Nat /\ i + 1 \in P
    BY <1>2, <1>3, <1>4, <2>1 DEF Places
  <2>2. ASSUME NEW j \in P PROVE j - 1 \in Places(t, x) /\ j \in Nat
    <3>1. j \in 1..Len(s) /\ s[j] = x /\ j # 1
      BY <1>4, <2>2 DEF Places
    <3>2. j - 1 \in 1..Len(t) /\ (j - 1) + 1 = j
      BY <1>2, <3>1
    <3>3. t[j - 1] = s[(j - 1) + 1]
      BY <1>3, <3>2
    <3> QED
      BY <3>1, <3>2, <3>3 DEF Places
  <2>3. f \in [Places(t, x) -> P]
    BY <2>1
  <2>4. \A a, b \in Places(t, x) : f[a] = f[b] => a = b
    BY <2>1
  <2>5. ASSUME NEW j \in P PROVE \E i \in Places(t, x) : f[i] = j
    BY <2>2, <2>5
  <2>6. f \in Bijection(Places(t, x), P)
    BY <2>3, <2>4, <2>5, Fun_IsBij
  <2>7. ExistsBijection(Places(t, x), P)
    BY <2>6, Fun_ExistsBij
  <2> QED
    BY <1>5, <2>7, FS_Bijection
<1>8. 1 \in Places(s, x) <=> x = Head(s)
  BY <1>2 DEF Places
<1> QED
  BY <1>1, <1>6, <1>7, <1>8 DEF Count

LEMMA AfterAppend ==
  ASSUME NEW S, NEW s \in Seq(S), NEW y \in S, NEW a, NEW b, a # b, NoneAfter(s, a, b), y # b \/ Count(s, a) = 0
  PROVE  NoneAfter(Append(s, y), a, b)
<1>0. Append(s, y) \in Seq(S)
  OBVIOUS
<1>1. PICK t \in Seq(S) : t = Append(s, y)
  BY <1>0
<1>2. /\ Len(s) \in Nat /\ Len(t) = Len(s) + 1 /\ t[Len(s) + 1] = y
  BY <1>1
<1>3. \A i \in 1..Len(s) : t[i] = s[i]
  BY <1>1
<1>4. y # b \/ \A i \in 1..Len(s) : s[i] # a
  BY CountNone
<1>5. ASSUME NEW i \in 1..Len(t), NEW j \in 1..Len(t), t[i] = a, t[j] = b PROVE j < i
  <2>1. CASE i \in 1..Len(s) /\ j \in 1..Len(s)
    BY <1>3, <1>5, <2>1 DEF NoneAfter
  <2>2. CASE i = Len(s) + 1 /\ j \in 1..Len(s)
    BY <1>2, <2>2
  <2>3. CASE j = Len(s) + 1
    <3>1. y = b /\ i # Len(s) + 1
      BY <1>2, <1>5, <2>3
    <3>2. i \in 1..Len(s) /\ s[i] = a
      BY <1>2, <1>3, <1>5, <3>1
    <3> QED
      BY <1>4, <3>1, <3>2
  <2> QED
    BY <1>2, <2>1, <2>2, <2>3
<1> QED
  BY <1>1, <1>5 DEF NoneAfter

LEMMA AfterTail ==
  ASSUME NEW S, NEW s \in Seq(S), s # <<>>, NEW a, NEW b, NoneAfter(s, a, b)
  PROVE  NoneAfter(Tail(s), a, b) /\ (Head(s) = a => Count(s, b) = 0)
<1>0. Tail(s) \in Seq(S)
  OBVIOUS
<1>1. PICK t \in Seq(S) : t = Tail(s)
  BY <1>0
<1>2. Len(s) \in Nat /\ Len(s) >= 1 /\ Len(t) = Len(s) - 1 /\ Head(s) = s[1]
  BY <1>1
<1>3. \A i \in 1..Len(t) : t[i] = s[i + 1]
  BY <1>1
<1>4. ASSUME NEW i \in 1..Len(t), NEW j \in 1..Len(t), t[i] = a, t[j] = b PROVE j < i
  <2>1. i + 1 \in 1..Len(s) /\ j + 1 \in 1..Len(s) /\ s[i + 1] = a /\ s[j + 1] = b /\ i \in Nat /\ j \in Nat
    BY <1>2, <1>3, <1>4
  <2>2. j + 1 < i + 1
    BY <2>1 DEF NoneAfter
  <2> QED
    BY <2>1, <2>2
<1>5. ASSUME Head(s) = a PROVE Count(s, b) = 0
  <2>1. 1 \in 1..Len(s) /\ s[1] = a
    BY <1>2, <1>5
  <2>2. ASSUME NEW j \in 1..Len(s), s[j] = b PROVE FALSE
    <3>1. j < 1
      BY <2>1, <2>2 DEF NoneAfter
    <3> QED
      BY <1>2, <3>1
  <2> QED
    BY <2>2, CountNone
<1> QED
  BY <1>1, <1>4, <1>5 DEF NoneAfter

-----------------------------------------------------------------------------
(* The relay, whatever its habits.                                           *)

AnyRelay == INSTANCE HttpRelay WITH
  Chunks <- Pieces, Habits <- {"fails", "slow", "leaves", "resets", "linkLost"}, kind <- relayKind,
  owner <- relayOwner, sent <- relaySent, up <- relayUp, link <- relayLink

RunningTask == {"demand", "head", "body"}
DownFrames == {"start", "chunk", "beat", "end", "error"}

RelayTypes ==
  /\ client \in [Requests -> {"new", "asked", "streaming", "whole", "cut", "error"}]
  /\ relayKind \in [Requests -> {"plain", "bodyless", "endless"}]
  /\ head \in [Requests -> {"none", "set", "failed"}]
  /\ body \in [Requests -> Seq({"chunk", "beat", "end", "abort"})]
  /\ got \in [Requests -> Nat] /\ relaySent \in [Requests -> 0..Pieces]
  /\ agent \in [Requests -> {"here", "left", "reset"}]
  /\ relayOwner \in [Requests -> {"off", "over"} \cup RunningTask]
  /\ ended \in [Requests -> BOOLEAN]
  /\ relayUp \in Seq({"ask", "cancel"} \X Requests)
  /\ down \in Seq(DownFrames \X Requests)
  /\ relayLink \in BOOLEAN

\* A request is asked once, and served by one task.  The end of a response follows
\* its chunks on the link and in the body, and while nothing was cut off every
\* chunk that was sent is written, in the body or under way: when the end is in
\* the body, all of them are.
RelayAt(q) ==
  /\ client[q] = "new" =>
       /\ relayOwner[q] = "off" /\ Count(relayUp, <<"ask", q>>) = 0 /\ body[q] = <<>>
       /\ \A x \in DownFrames : Count(down, <<x, q>>) = 0
  /\ Count(relayUp, <<"ask", q>>) # 0 => Count(relayUp, <<"ask", q>>) = 1 /\ relayOwner[q] = "off"
  /\ Count(body[q], "end") # 0 \/ Count(down, <<"end", q>>) # 0 => ended[q]
  /\ ended[q] => relayOwner[q] = "over" /\ (relayKind[q] # "bodyless" => relaySent[q] = Pieces)
  /\ NoneAfter(down, <<"end", q>>, <<"chunk", q>>) /\ NoneAfter(body[q], "end", "chunk")
  /\ Count(body[q], "end") # 0 => Count(down, <<"chunk", q>>) = 0
  /\ relayOwner[q] \in RunningTask => relayLink
  /\ client[q] \in {"new", "asked", "streaming"} /\ Count(body[q], "abort") = 0 =>
       got[q] + Count(body[q], "chunk") + Count(down, <<"chunk", q>>) = relaySent[q]
  /\ Count(body[q], "end") # 0 /\ relayKind[q] # "bodyless" => got[q] + Count(body[q], "chunk") = Pieces
  /\ got[q] + Count(body[q], "chunk") + Count(down, <<"chunk", q>>) <= relaySent[q]
  /\ client[q] = "whole" /\ relayKind[q] # "bodyless" => ended[q] /\ got[q] = Pieces

RelayInv ==
  /\ RelayTypes /\ (~relayLink => relayUp = <<>> /\ down = <<>>)
  /\ \A q \in Requests : RelayAt(q)

\* Nothing of the request q changed under way to the consumer, or to the owner.
SameDown(q) ==
  /\ \A x \in DownFrames : Count(down', <<x, q>>) = Count(down, <<x, q>>)
  /\ NoneAfter(down, <<"end", q>>, <<"chunk", q>>) => NoneAfter(down', <<"end", q>>, <<"chunk", q>>)
SameUp(q) == Count(relayUp', <<"ask", q>>) = Count(relayUp, <<"ask", q>>)
SameTask(q) == relayOwner'[q] = relayOwner[q] /\ relaySent'[q] = relaySent[q] /\ ended'[q] = ended[q]

LEMMA SameStays == \A q : (UNCHANGED down => SameDown(q)) /\ (UNCHANGED relayUp => SameUp(q))
BY DEF SameDown, SameUp

LEMMA RelayCounts ==
  ASSUME RelayTypes, NEW q \in Requests
  PROVE  /\ \A x : Count(body[q], x) \in Nat /\ Count(down, x) \in Nat /\ Count(relayUp, x) \in Nat
         /\ got[q] \in Nat /\ relaySent[q] \in 0..Pieces
<1>1. /\ body[q] \in Seq({"chunk", "beat", "end", "abort"}) /\ got[q] \in Nat /\ relaySent[q] \in 0..Pieces
      /\ relayUp \in Seq({"ask", "cancel"} \X Requests) /\ down \in Seq(DownFrames \X Requests)
  BY DEF RelayTypes
<1> QED
  BY <1>1, PlacesFinite

\* A request that a step does not concern.
LEMMA RelayOther ==
  ASSUME NEW q \in Requests, RelayAt(q), SameDown(q), SameUp(q), SameTask(q), relayKind' = relayKind,
         client'[q] = client[q], body'[q] = body[q], got'[q] = got[q],
         relayOwner[q] \in RunningTask => relayLink'
  PROVE  RelayAt(q)'
<1>1. "chunk" \in DownFrames /\ "end" \in DownFrames
  BY DEF DownFrames
<1> QED
  BY <1>1 DEF RelayAt, SameDown, SameUp, SameTask

\* What is sent.
LEMMA RelaySendsUp ==
  ASSUME RelayTypes, NEW x \in {"ask", "cancel"}, NEW r \in Requests, AnyRelay!SendUp(<<x, r>>)
  PROVE  /\ relayUp' \in Seq({"ask", "cancel"} \X Requests)
         /\ \A q \in Requests : x # "ask" \/ q # r => SameUp(q)
         /\ relayLink /\ x = "ask" => Count(relayUp', <<"ask", r>>) = Count(relayUp, <<"ask", r>>) + 1
<1>1. relayUp \in Seq({"ask", "cancel"} \X Requests) /\ <<x, r>> \in {"ask", "cancel"} \X Requests
  BY DEF RelayTypes
<1>2. relayUp' = IF relayLink THEN Append(relayUp, <<x, r>>) ELSE relayUp
  BY DEF AnyRelay!SendUp
<1>3. relayUp' \in Seq({"ask", "cancel"} \X Requests)
  <2>1. Append(relayUp, <<x, r>>) \in Seq({"ask", "cancel"} \X Requests)
    BY <1>1
  <2> QED
    BY <1>1, <1>2, <2>1
<1>4. \A q \in Requests : x # "ask" \/ q # r => SameUp(q)
  <2> TAKE q \in Requests
  <2> HAVE x # "ask" \/ q # r
  <2>1. <<"ask", q>> # <<x, r>>
    OBVIOUS
  <2>2. Count(Append(relayUp, <<x, r>>), <<"ask", q>>) = Count(relayUp, <<"ask", q>>)
    BY <1>1, <2>1, CountAppend
  <2> QED
    BY <1>2, <2>2 DEF SameUp
<1>5. x = "ask" => Count(Append(relayUp, <<x, r>>), <<"ask", r>>) = Count(relayUp, <<"ask", r>>) + 1
  BY <1>1, CountAppend
<1> QED
  BY <1>2, <1>3, <1>4, <1>5

LEMMA RelaySendsDown ==
  ASSUME RelayTypes, NEW x \in DownFrames, NEW r \in Requests, AnyRelay!SendDown(<<x, r>>)
  PROVE  /\ down' \in Seq(DownFrames \X Requests)
         /\ \A q \in Requests : q # r => SameDown(q)
         /\ \A y \in DownFrames : y # x => Count(down', <<y, r>>) = Count(down, <<y, r>>)
         /\ relayLink => Count(down', <<x, r>>) = Count(down, <<x, r>>) + 1
         /\ /\ NoneAfter(down, <<"end", r>>, <<"chunk", r>>)
            /\ x # "chunk" \/ Count(down, <<"end", r>>) = 0
            => NoneAfter(down', <<"end", r>>, <<"chunk", r>>)
<1>1. down \in Seq(DownFrames \X Requests) /\ <<x, r>> \in DownFrames \X Requests
  BY DEF RelayTypes
<1>2. down' = IF relayLink THEN Append(down, <<x, r>>) ELSE down
  BY DEF AnyRelay!SendDown
<1>3. down' \in Seq(DownFrames \X Requests)
  <2>1. Append(down, <<x, r>>) \in Seq(DownFrames \X Requests)
    BY <1>1
  <2> QED
    BY <1>1, <1>2, <2>1
<1>4. ASSUME NEW y \in DownFrames, NEW q \in Requests, y # x \/ q # r
      PROVE  Count(down', <<y, q>>) = Count(down, <<y, q>>)
  <2>1. <<y, q>> # <<x, r>>
    BY <1>4
  <2>2. Count(Append(down, <<x, r>>), <<y, q>>) = Count(down, <<y, q>>)
    BY <1>1, <2>1, CountAppend
  <2> QED
    BY <1>2, <2>2
<1>5. ASSUME NEW q \in Requests, NoneAfter(down, <<"end", q>>, <<"chunk", q>>),
             x # "chunk" \/ q # r \/ Count(down, <<"end", q>>) = 0
      PROVE  NoneAfter(down', <<"end", q>>, <<"chunk", q>>)
  <2>1. <<"end", q>> # <<"chunk", q>> /\ (<<x, r>> # <<"chunk", q>> \/ Count(down, <<"end", q>>) = 0)
    BY <1>5
  <2>2. NoneAfter(Append(down, <<x, r>>), <<"end", q>>, <<"chunk", q>>)
    BY <1>1, <1>5, <2>1, AfterAppend
  <2> QED
    BY <1>2, <1>5, <2>2
<1>6. Count(Append(down, <<x, r>>), <<x, r>>) = Count(down, <<x, r>>) + 1
  BY <1>1, CountAppend
<1>7. \A q \in Requests : q # r => SameDown(q)
  BY <1>4, <1>5 DEF SameDown
<1> QED
  BY <1>2, <1>3, <1>4, <1>5, <1>6, <1>7

\* What is read.
LEMMA RelayReadsUp ==
  ASSUME RelayTypes, NEW x \in {"ask", "cancel"}, NEW r \in Requests, relayUp # <<>>, Head(relayUp) = <<x, r>>,
         relayUp' = Tail(relayUp)
  PROVE  /\ relayUp' \in Seq({"ask", "cancel"} \X Requests)
         /\ \A q \in Requests : x # "ask" \/ q # r => SameUp(q)
         /\ x = "ask" => Count(relayUp', <<"ask", r>>) = Count(relayUp, <<"ask", r>>) - 1
<1>1. relayUp \in Seq({"ask", "cancel"} \X Requests)
  BY DEF RelayTypes
<1>2. relayUp' \in Seq({"ask", "cancel"} \X Requests)
  BY <1>1
<1>3. \A y : Count(Tail(relayUp), y) = IF y = Head(relayUp) THEN Count(relayUp, y) - 1 ELSE Count(relayUp, y)
  BY <1>1, CountTail
<1>4. \A q \in Requests : x # "ask" \/ q # r => <<"ask", q>> # <<x, r>>
  OBVIOUS
<1> QED
  BY <1>2, <1>3, <1>4 DEF SameUp

LEMMA RelayReadsDown ==
  ASSUME RelayTypes, NEW x \in DownFrames, NEW r \in Requests, down # <<>>, Head(down) = <<x, r>>,
         down' = Tail(down)
  PROVE  /\ down' \in Seq(DownFrames \X Requests)
         /\ \A q \in Requests : q # r => SameDown(q)
         /\ \A y \in DownFrames : y # x => Count(down', <<y, r>>) = Count(down, <<y, r>>)
         /\ Count(down', <<x, r>>) = Count(down, <<x, r>>) - 1 /\ Count(down, <<x, r>>) # 0
         /\ NoneAfter(down, <<"end", r>>, <<"chunk", r>>) =>
              /\ NoneAfter(down', <<"end", r>>, <<"chunk", r>>)
              /\ x = "end" => Count(down, <<"chunk", r>>) = 0
<1>1. down \in Seq(DownFrames \X Requests)
  BY DEF RelayTypes
<1>2. down' \in Seq(DownFrames \X Requests)
  BY <1>1
<1>3. \A y : Count(down', y) = IF y = Head(down) THEN Count(down, y) - 1 ELSE Count(down, y)
  BY <1>1, CountTail
<1>4. \A y \in DownFrames, q \in Requests : y # x \/ q # r => <<y, q>> # <<x, r>>
  OBVIOUS
<1>5. \A q \in Requests : NoneAfter(down, <<"end", q>>, <<"chunk", q>>) =>
        /\ NoneAfter(down', <<"end", q>>, <<"chunk", q>>)
        /\ Head(down) = <<"end", q>> => Count(down, <<"chunk", q>>) = 0
  BY <1>1, AfterTail
<1>6. \A y : Count(down', y) \in Nat /\ Count(down, y) \in Nat
  BY <1>1, <1>2, PlacesFinite
<1>7. Count(down', <<x, r>>) = Count(down, <<x, r>>) - 1
  BY <1>3
<1>8. Count(down, <<x, r>>) # 0
  BY <1>6, <1>7
<1>9. \A q \in Requests : q # r => SameDown(q)
  BY <1>3, <1>4, <1>5 DEF SameDown
<1> QED
  BY <1>2, <1>3, <1>4, <1>5, <1>7, <1>8, <1>9

-----------------------------------------------------------------------------
(* The steps of the relay.                                                   *)

\* A step that concerns the request r.
LEMMA RelayOne ==
  ASSUME RelayInv, NEW r \in Requests, RelayTypes', relayKind' = relayKind,
         ~relayLink' => relayUp' = <<>> /\ down' = <<>>,
         \A q \in Requests : q # r =>
           /\ SameDown(q) /\ SameUp(q) /\ SameTask(q)
           /\ client'[q] = client[q] /\ body'[q] = body[q] /\ got'[q] = got[q],
         relayLink => relayLink',
         RelayAt(r)'
  PROVE  RelayInv'
<1>1. ASSUME NEW q \in Requests, q # r
      PROVE  RelayAt(q)'
  <2>1. RelayAt(q) /\ (relayOwner[q] \in RunningTask => relayLink')
    BY DEF RelayInv, RelayAt
  <2> QED
    BY <1>1, <2>1, RelayOther
<1> QED
  BY <1>1 DEF RelayInv

\* The handler of the Agent's connection is over.
LEMMA RelayLeaves ==
  ASSUME RelayInv, NEW r \in Requests, NEW x \in {"whole", "cut", "error"}, client[r] # "new",
         AnyRelay!Leave(r, x), UNCHANGED <<got, relayOwner, relaySent, ended, down, relayLink>>,
         UNCHANGED relayUp \/ AnyRelay!SendUp(<<"cancel", r>>),
         x = "whole" /\ relayKind[r] # "bodyless" => ended[r] /\ got[r] = Pieces
  PROVE  RelayInv'
<1>1. RelayTypes /\ RelayAt(r)
  BY DEF RelayInv
<1>2. /\ relayUp' \in Seq({"ask", "cancel"} \X Requests) /\ \A q \in Requests : SameUp(q)
      /\ relayUp = <<>> /\ ~relayLink => relayUp' = <<>>
  <2>1. CASE UNCHANGED relayUp
    BY <1>1, <2>1, SameStays DEF RelayTypes
  <2>2. CASE AnyRelay!SendUp(<<"cancel", r>>)
    <3>1. "cancel" \in {"ask", "cancel"}
      OBVIOUS
    <3>2. relayUp' \in Seq({"ask", "cancel"} \X Requests) /\ \A q \in Requests : SameUp(q)
      BY <1>1, <2>2, <3>1, RelaySendsUp
    <3> QED
      BY <2>2, <3>2 DEF AnyRelay!SendUp
  <2> QED
    BY <2>1, <2>2
<1>3. /\ client' = [client EXCEPT ![r] = x] /\ body' = [body EXCEPT ![r] = <<>>]
      /\ relayKind' = relayKind /\ head' = head /\ agent' = agent
  BY DEF AnyRelay!Leave
<1>4. client'[r] = x /\ body'[r] = <<>> /\ \A q \in Requests : q # r => client'[q] = client[q] /\ body'[q] = body[q]
  BY <1>1, <1>3 DEF RelayTypes
<1>5. RelayTypes'
  <2>1. client' \in [Requests -> {"new", "asked", "streaming", "whole", "cut", "error"}]
    BY <1>1, <1>3 DEF RelayTypes
  <2>2. body' \in [Requests -> Seq({"chunk", "beat", "end", "abort"})]
    BY <1>1, <1>3 DEF RelayTypes
  <2> QED
    BY <1>1, <1>2, <1>3, <2>1, <2>2 DEF RelayTypes
<1>6. \A y, z : Count(body'[r], y) = 0 /\ NoneAfter(body'[r], y, z)
  BY <1>4, CountEmpty
<1>7. RelayAt(r)'
  <2>1. SameUp(r) /\ Count(down', <<"chunk", r>>) = Count(down, <<"chunk", r>>)
        /\ Count(down', <<"end", r>>) = Count(down, <<"end", r>>)
    BY <1>2
  <2>2. \A y : Count(body[r], y) \in Nat /\ Count(down, y) \in Nat /\ got[r] \in Nat
               /\ relaySent[r] \in 0..Pieces
    BY <1>1, RelayCounts
  <2>3. got[r] + Count(down, <<"chunk", r>>) <= relaySent[r]
    BY <1>1, <2>2 DEF RelayAt
  <2>4. got'[r] + Count(body'[r], "chunk") + Count(down', <<"chunk", r>>) <= relaySent'[r]
    BY <1>6, <2>1, <2>2, <2>3
  <2> QED
    BY <1>1, <1>3, <1>4, <1>6, <2>1, <2>4 DEF RelayAt, SameUp
<1>8. \A q \in Requests : SameDown(q) /\ SameTask(q)
  BY SameStays DEF SameTask
<1>9. ~relayLink' => relayUp' = <<>> /\ down' = <<>>
  BY <1>2 DEF RelayInv
<1> QED
  BY <1>2, <1>3, <1>4, <1>5, <1>7, <1>8, <1>9, RelayOne

LEMMA RelayAsk ==
  ASSUME RelayInv, NEW r \in Requests, AnyRelay!Ask(r)
  PROVE  RelayInv'
<1>1. /\ RelayTypes /\ RelayAt(r) /\ client[r] = "new" /\ relayLink' = relayLink
      /\ UNCHANGED <<relayKind, head, body, got, agent, relayOwner, relaySent, ended, down, relayLink>>
  BY DEF RelayInv, AnyRelay!Ask, AnyRelay!ownerVars
<1>2. \A q \in Requests : SameDown(q) /\ SameTask(q)
  BY <1>1, SameStays DEF SameTask
<1>3. CASE AnyRelay!SendUp(<<"ask", r>>) /\ relayLink /\ client' = [client EXCEPT ![r] = "asked"]
  <2>1. "ask" \in {"ask", "cancel"}
    OBVIOUS
  <2>2. /\ relayUp' \in Seq({"ask", "cancel"} \X Requests)
        /\ \A q \in Requests : q # r => SameUp(q)
        /\ Count(relayUp', <<"ask", r>>) = Count(relayUp, <<"ask", r>>) + 1
    BY <1>1, <1>3, <2>1, RelaySendsUp
  <2>3. client'[r] = "asked" /\ \A q \in Requests : q # r => client'[q] = client[q]
    BY <1>1, <1>3 DEF RelayTypes
  <2>4. RelayTypes'
    BY <1>1, <1>3, <2>2 DEF RelayTypes
  <2>5. Count(relayUp, <<"ask", r>>) = 0 /\ Count(relayUp', <<"ask", r>>) = 1
    BY <1>1, <2>2 DEF RelayAt
  <2>6. RelayAt(r)'
    BY <1>1, <2>3, <2>5 DEF RelayAt
  <2> QED
    BY <1>1, <1>2, <1>3, <2>2, <2>3, <2>4, <2>6, RelayOne
<1>4. CASE client' = [client EXCEPT ![r] = "error"] /\ UNCHANGED relayUp
  <2>1. client'[r] = "error" /\ \A q \in Requests : q # r => client'[q] = client[q]
    BY <1>1, <1>4 DEF RelayTypes
  <2>2. RelayTypes'
    BY <1>1, <1>4 DEF RelayTypes
  <2>3. RelayAt(r)'
    BY <1>1, <1>4, <2>1 DEF RelayAt
  <2>4. \A q \in Requests : SameUp(q)
    BY <1>4, SameStays
  <2>5. ~relayLink' => relayUp' = <<>> /\ down' = <<>>
    BY <1>1, <1>4 DEF RelayInv
  <2> QED
    BY <1>1, <1>2, <2>1, <2>2, <2>3, <2>4, <2>5, RelayOne
<1> QED
  BY <1>3, <1>4 DEF AnyRelay!Ask

LEMMA RelayGetsHead ==
  ASSUME RelayInv, NEW r \in Requests, AnyRelay!GetsHead(r)
  PROVE  RelayInv'
<1>1. /\ RelayTypes /\ RelayAt(r) /\ client[r] = "asked"
      /\ UNCHANGED <<got, relayOwner, relaySent, ended, relayUp, down, relayLink>>
  BY DEF RelayInv, AnyRelay!GetsHead, AnyRelay!ownerVars
<1>2. CASE AnyRelay!Leave(r, "error")
  BY <1>1, <1>2, RelayLeaves
<1>3. CASE AnyRelay!Leave(r, "whole") /\ relayKind[r] = "bodyless"
  BY <1>1, <1>3, RelayLeaves
<1>4. CASE client' = [client EXCEPT ![r] = "streaming"] /\ UNCHANGED <<relayKind, head, body, agent>>
  <2>1. client'[r] = "streaming" /\ \A q \in Requests : q # r => client'[q] = client[q]
    BY <1>1, <1>4 DEF RelayTypes
  <2>2. RelayTypes'
    BY <1>1, <1>4 DEF RelayTypes
  <2>3. RelayAt(r)'
    BY <1>1, <1>4, <2>1 DEF RelayAt
  <2>4. \A q \in Requests : SameUp(q) /\ SameDown(q) /\ SameTask(q)
    BY <1>1, SameStays DEF SameTask
  <2>5. ~relayLink' => relayUp' = <<>> /\ down' = <<>>
    BY <1>1 DEF RelayInv
  <2> QED
    BY <1>1, <1>4, <2>1, <2>2, <2>3, <2>4, <2>5, RelayOne
<1> QED
  BY <1>2, <1>3, <1>4 DEF AnyRelay!GetsHead

LEMMA RelayGivesUp ==
  ASSUME RelayInv, NEW r \in Requests, AnyRelay!GetsError(r) \/ AnyRelay!HeadLate(r) \/ AnyRelay!Breaks(r)
  PROVE  RelayInv'
<1>1. client[r] # "new"
  BY DEF AnyRelay!GetsError, AnyRelay!HeadLate, AnyRelay!Breaks
<1>2. UNCHANGED <<got, relayOwner, relaySent, ended, down, relayLink>>
  BY DEF AnyRelay!GetsError, AnyRelay!HeadLate, AnyRelay!Breaks, AnyRelay!ownerVars
<1>3. UNCHANGED relayUp \/ AnyRelay!SendUp(<<"cancel", r>>)
  BY DEF AnyRelay!GetsError, AnyRelay!HeadLate, AnyRelay!Breaks
<1>4. AnyRelay!Leave(r, "error") \/ AnyRelay!Leave(r, "cut")
  BY DEF AnyRelay!GetsError, AnyRelay!HeadLate, AnyRelay!Breaks
<1>5. CASE AnyRelay!Leave(r, "error")
  BY <1>1, <1>2, <1>3, <1>5, RelayLeaves
<1>6. CASE AnyRelay!Leave(r, "cut")
  BY <1>1, <1>2, <1>3, <1>6, RelayLeaves
<1> QED
  BY <1>4, <1>5, <1>6

LEMMA RelayEnds ==
  ASSUME RelayInv, NEW r \in Requests, AnyRelay!Ends(r)
  PROVE  RelayInv'
<1>1. /\ client[r] = "streaming" /\ body[r] # <<>> /\ Head(body[r]) = "end" /\ RelayTypes /\ RelayAt(r)
      /\ UNCHANGED <<got, relayOwner, relaySent, ended, down, relayLink>>
  BY DEF RelayInv, AnyRelay!Ends, AnyRelay!ownerVars
<1>2. UNCHANGED relayUp \/ AnyRelay!SendUp(<<"cancel", r>>)
  BY DEF AnyRelay!Ends
<1>3. body[r] \in Seq({"chunk", "beat", "end", "abort"})
  BY <1>1 DEF RelayTypes
<1>4. Count(body[r], "end") # 0
  <2>1. 1 \in 1..Len(body[r]) /\ body[r][1] = "end"
    BY <1>1, <1>3
  <2> QED
    BY <1>3, <2>1, CountNone
<1>5. Count(body[r], "chunk") = 0
  BY <1>1, <1>3, AfterTail DEF RelayAt
<1>6. got[r] \in Nat
  BY <1>1 DEF RelayTypes
<1>7. ended[r] /\ (relayKind[r] # "bodyless" => got[r] = Pieces)
  BY <1>1, <1>4, <1>5, <1>6 DEF RelayAt
<1>8. CASE AnyRelay!Leave(r, "whole")
  BY <1>1, <1>2, <1>7, <1>8, RelayLeaves
<1>9. CASE AnyRelay!Leave(r, "cut")
  BY <1>1, <1>2, <1>9, RelayLeaves
<1> QED
  BY <1>8, <1>9 DEF AnyRelay!Ends

LEMMA RelayWrites ==
  ASSUME RelayInv, NEW r \in Requests, AnyRelay!Writes(r)
  PROVE  RelayInv'
<1>1. /\ client[r] = "streaming" /\ body[r] # <<>> /\ Head(body[r]) \in {"chunk", "beat"}
      /\ RelayTypes /\ RelayAt(r) /\ UNCHANGED <<relayOwner, relaySent, ended, down, relayLink>>
  BY DEF RelayInv, AnyRelay!Writes, AnyRelay!ownerVars
<1>2. CASE agent[r] # "here"
  BY <1>1, <1>2, RelayLeaves DEF AnyRelay!Writes
<1>3. CASE agent[r] = "here"
  <2>1. /\ body' = [body EXCEPT ![r] = Tail(@)]
        /\ got' = [got EXCEPT ![r] = @ + (IF Head(body[r]) = "chunk" THEN 1 ELSE 0)]
        /\ UNCHANGED <<client, relayKind, head, agent, relayUp>>
    BY <1>3 DEF AnyRelay!Writes
  <2>2. body[r] \in Seq({"chunk", "beat", "end", "abort"}) /\ got[r] \in Nat
    BY <1>1 DEF RelayTypes
  <2>3. body'[r] = Tail(body[r]) /\ got'[r] = got[r] + (IF Head(body[r]) = "chunk" THEN 1 ELSE 0)
    BY <1>1, <2>1 DEF RelayTypes
  <2>4. \A q \in Requests : q # r => body'[q] = body[q] /\ got'[q] = got[q] /\ client'[q] = client[q]
    BY <1>1, <2>1 DEF RelayTypes
  <2>5. /\ \A y : Count(body'[r], y) = IF y = Head(body[r]) THEN Count(body[r], y) - 1 ELSE Count(body[r], y)
        /\ NoneAfter(body[r], "end", "chunk") => NoneAfter(body'[r], "end", "chunk")
    BY <1>1, <2>2, <2>3, CountTail, AfterTail
  <2>6. RelayTypes'
    <3>1. Tail(body[r]) \in Seq({"chunk", "beat", "end", "abort"})
      BY <1>1, <2>2
    <3>2. body' \in [Requests -> Seq({"chunk", "beat", "end", "abort"})]
      BY <1>1, <2>1, <3>1 DEF RelayTypes
    <3>3. got' \in [Requests -> Nat]
      BY <1>1, <2>1, <2>2, SMTT(30) DEF RelayTypes
    <3> QED
      BY <1>1, <2>1, <3>2, <3>3 DEF RelayTypes
  <2>7. /\ Count(body'[r], "end") = Count(body[r], "end") /\ Count(body'[r], "abort") = Count(body[r], "abort")
        /\ got'[r] + Count(body'[r], "chunk") = got[r] + Count(body[r], "chunk")
    <3>1. \A y : Count(body[r], y) \in Nat
      BY <2>2, PlacesFinite
    <3> QED
      BY <1>1, <2>2, <2>3, <2>5, <3>1
  <2>8. RelayAt(r)'
    <3>1. Count(down', <<"chunk", r>>) = Count(down, <<"chunk", r>>)
          /\ Count(down', <<"end", r>>) = Count(down, <<"end", r>>)
          /\ Count(relayUp', <<"ask", r>>) = Count(relayUp, <<"ask", r>>)
      BY <1>1, <2>1
    <3>2. client'[r] = "streaming"
      BY <1>1, <2>1
    <3> QED
      BY <1>1, <2>1, <2>5, <2>7, <3>1, <3>2 DEF RelayAt
  <2>9. \A q \in Requests : SameUp(q) /\ SameDown(q) /\ SameTask(q)
    BY <1>1, <2>1, SameStays DEF SameTask
  <2>10. ~relayLink' => relayUp' = <<>> /\ down' = <<>>
    BY <1>1, <2>1 DEF RelayInv
  <2> QED
    BY <1>1, <2>1, <2>4, <2>6, <2>8, <2>9, <2>10, RelayOne
<1> QED
  BY <1>2, <1>3

LEMMA RelayRunning ==
  ASSUME RelayInv, NEW r \in Requests, relayOwner[r] \in RunningTask
  PROVE  /\ relayLink /\ ~ended[r] /\ client[r] # "new" /\ Count(relayUp, <<"ask", r>>) = 0
         /\ Count(body[r], "end") = 0 /\ Count(down, <<"end", r>>) = 0
<1>1. RelayAt(r) /\ "off" \notin RunningTask /\ "over" \notin RunningTask
  BY DEF RelayInv, RunningTask
<1> QED
  BY <1>1 DEF RelayAt

\* The task of r goes on, and sends a frame or none.
LEMMA RelayServes ==
  ASSUME RelayInv, NEW r \in Requests, NEW o \in {"over"} \cup RunningTask,
         relayOwner[r] \in RunningTask, relayOwner' = [relayOwner EXCEPT ![r] = o],
         UNCHANGED <<client, relayKind, head, body, got, agent, relaySent, ended, relayLink>>,
         UNCHANGED relayUp,
         UNCHANGED down \/ \E x \in {"start", "beat", "error"} : AnyRelay!SendDown(<<x, r>>)
  PROVE  RelayInv'
<1>1. RelayTypes /\ RelayAt(r) /\ relayLink /\ ~ended[r] /\ client[r] # "new" /\ Count(relayUp, <<"ask", r>>) = 0
  BY RelayRunning DEF RelayInv
<1>2. "chunk" \in DownFrames /\ "end" \in DownFrames /\ {"start", "beat", "error"} \subseteq DownFrames
  BY DEF DownFrames
<1>3. /\ down' \in Seq(DownFrames \X Requests)
      /\ \A q \in Requests : q # r => SameDown(q)
      /\ Count(down', <<"chunk", r>>) = Count(down, <<"chunk", r>>)
      /\ Count(down', <<"end", r>>) = Count(down, <<"end", r>>)
      /\ NoneAfter(down, <<"end", r>>, <<"chunk", r>>) => NoneAfter(down', <<"end", r>>, <<"chunk", r>>)
  <2>1. CASE UNCHANGED down
    BY <1>1, <2>1, SameStays DEF RelayTypes
  <2>2. ASSUME NEW x \in {"start", "beat", "error"}, AnyRelay!SendDown(<<x, r>>)
        PROVE  <1>3
    <3>1. x \in DownFrames /\ x # "chunk" /\ x # "end"
      BY <1>2
    <3> QED
      BY <1>1, <1>2, <2>2, <3>1, RelaySendsDown
  <2> QED
    BY <2>1, <2>2
<1>4. relayOwner'[r] = o /\ \A q \in Requests : q # r => relayOwner'[q] = relayOwner[q]
  BY <1>1 DEF RelayTypes
<1>5. RelayTypes'
  <2>1. relayOwner' \in [Requests -> {"off", "over"} \cup RunningTask]
    BY <1>1 DEF RelayTypes
  <2> QED
    BY <1>1, <1>3, <2>1 DEF RelayTypes
<1>6. RelayAt(r)'
  BY <1>1, <1>3, <1>4 DEF RelayAt
<1>7. \A q \in Requests : q # r => SameUp(q) /\ SameTask(q)
  BY <1>4, SameStays DEF SameTask
<1> QED
  BY <1>1, <1>3, <1>5, <1>6, <1>7, RelayOne

LEMMA RelayTaskSteps ==
  ASSUME RelayInv, NEW r \in Requests,
         AnyRelay!OwnerAsks(r) \/ AnyRelay!OwnerFails(r) \/ AnyRelay!OwnerHead(r)
  PROVE  RelayInv'
<1>1. CASE AnyRelay!OwnerAsks(r)
  BY <1>1, RelayServes DEF AnyRelay!OwnerAsks, AnyRelay!clientVars, RunningTask
<1>2. CASE AnyRelay!OwnerFails(r)
  BY <1>2, RelayServes DEF AnyRelay!OwnerFails, AnyRelay!clientVars, AnyRelay!Running, RunningTask
<1>3. CASE AnyRelay!OwnerHead(r)
  BY <1>3, RelayServes DEF AnyRelay!OwnerHead, AnyRelay!clientVars, RunningTask
<1> QED
  BY <1>1, <1>2, <1>3

LEMMA RelayOwnerBody ==
  ASSUME NodeAssumption, RelayInv, NEW r \in Requests, AnyRelay!OwnerBody(r)
  PROVE  RelayInv'
<1>1. /\ relayOwner[r] = "body" /\ relayOwner[r] \in RunningTask
      /\ UNCHANGED <<client, relayKind, head, body, got, agent, relayOwner, ended, relayUp, relayLink>>
  BY DEF AnyRelay!OwnerBody, AnyRelay!clientVars, RunningTask
<1>2. /\ RelayTypes /\ RelayAt(r) /\ relayLink /\ ~ended[r] /\ client[r] # "new" /\ Count(relayUp, <<"ask", r>>) = 0
      /\ Count(body[r], "end") = 0 /\ Count(down, <<"end", r>>) = 0
  BY <1>1, RelayRunning DEF RelayInv
<1>3. CASE /\ relaySent[r] < Pieces /\ relaySent' = [relaySent EXCEPT ![r] = @ + 1]
           /\ AnyRelay!SendDown(<<"chunk", r>>)
  <2>1. "chunk" \in DownFrames /\ "end" \in DownFrames
    BY DEF DownFrames
  <2>2. /\ down' \in Seq(DownFrames \X Requests) /\ \A q \in Requests : q # r => SameDown(q)
        /\ Count(down', <<"end", r>>) = Count(down, <<"end", r>>)
        /\ Count(down', <<"chunk", r>>) = Count(down, <<"chunk", r>>) + 1
        /\ NoneAfter(down, <<"end", r>>, <<"chunk", r>>) => NoneAfter(down', <<"end", r>>, <<"chunk", r>>)
    BY <1>2, <1>3, <2>1, RelaySendsDown
  <2>3. relaySent'[r] = relaySent[r] + 1 /\ \A q \in Requests : q # r => relaySent'[q] = relaySent[q]
    BY <1>2, <1>3 DEF RelayTypes
  <2>4. RelayTypes'
    <3>1. relaySent[r] + 1 \in 0..Pieces
      BY <1>2, <1>3 DEF RelayTypes, NodeAssumption
    <3>2. relaySent' \in [Requests -> 0..Pieces]
      BY <1>2, <1>3, <3>1 DEF RelayTypes
    <3> QED
      BY <1>1, <1>2, <2>2, <3>2 DEF RelayTypes
  <2>5. RelayAt(r)'
    <3>1. /\ Count(body[r], "chunk") \in Nat /\ Count(down, <<"chunk", r>>) \in Nat /\ got[r] \in Nat
          /\ relaySent[r] \in Nat
      BY <1>2, RelayCounts
    <3>2. /\ client'[r] = client[r] /\ body'[r] = body[r] /\ got'[r] = got[r] /\ ended'[r] = ended[r]
          /\ relayOwner'[r] = relayOwner[r] /\ relayKind'[r] = relayKind[r] /\ relayUp' = relayUp
          /\ relayLink' = relayLink
      BY <1>1
    <3>3. NoneAfter(down', <<"end", r>>, <<"chunk", r>>)
      BY <1>2, <2>2 DEF RelayAt
    <3>4. /\ Count(body'[r], "chunk") = Count(body[r], "chunk") /\ Count(body'[r], "abort") = Count(body[r], "abort")
          /\ Count(body'[r], "end") = 0 /\ Count(relayUp', <<"ask", r>>) = 0 /\ Count(down', <<"end", r>>) = 0
          /\ NoneAfter(body'[r], "end", "chunk") <=> NoneAfter(body[r], "end", "chunk")
      BY <1>2, <2>2, <3>2
    <3>5. client[r] \in {"new", "asked", "streaming"} /\ Count(body[r], "abort") = 0 =>
            got[r] + Count(body[r], "chunk") + (Count(down, <<"chunk", r>>) + 1) = relaySent[r] + 1
      BY <1>2, <3>1 DEF RelayAt
    <3>6. got[r] + Count(body[r], "chunk") + (Count(down, <<"chunk", r>>) + 1) <= relaySent[r] + 1
      BY <1>2, <3>1 DEF RelayAt
    <3>7. client'[r] = "whole" /\ relayKind'[r] # "bodyless" => ended'[r] /\ got'[r] = Pieces
      BY <1>2, <3>2 DEF RelayAt
    <3>8. NoneAfter(body'[r], "end", "chunk")
      BY <1>2, <3>4 DEF RelayAt
    <3> QED
      BY <1>2, <2>2, <2>3, <3>2, <3>3, <3>4, <3>5, <3>6, <3>7, <3>8 DEF RelayAt
  <2>6. \A q \in Requests : q # r => SameUp(q) /\ SameTask(q)
    BY <1>1, <2>3, SameStays DEF SameTask
  <2> QED
    BY <1>1, <1>2, <2>2, <2>4, <2>5, <2>6, RelayOne
<1>4. CASE AnyRelay!SendDown(<<"beat", r>>) /\ UNCHANGED relaySent
  <2>1. relayOwner' = [relayOwner EXCEPT ![r] = relayOwner[r]]
    BY <1>1, <1>2 DEF RelayTypes
  <2>2. relayOwner[r] \in {"over"} \cup RunningTask
    BY <1>1
  <2> QED
    BY <1>1, <1>4, <2>1, <2>2, RelayServes
<1> QED
  BY <1>3, <1>4 DEF AnyRelay!OwnerBody

LEMMA RelayOwnerEnds ==
  ASSUME RelayInv, NEW r \in Requests, AnyRelay!OwnerEnds(r)
  PROVE  RelayInv'
<1>1. /\ relayOwner[r] = "body" /\ relayOwner[r] \in RunningTask
      /\ relayKind[r] = "bodyless" \/ relaySent[r] = Pieces
      /\ relayOwner' = [relayOwner EXCEPT ![r] = "over"] /\ ended' = [ended EXCEPT ![r] = TRUE]
      /\ AnyRelay!SendDown(<<"end", r>>)
      /\ UNCHANGED <<client, relayKind, head, body, got, agent, relaySent, relayUp, relayLink>>
  BY DEF AnyRelay!OwnerEnds, AnyRelay!clientVars, RunningTask
<1>2. /\ RelayTypes /\ RelayAt(r) /\ relayLink /\ ~ended[r] /\ client[r] # "new" /\ Count(relayUp, <<"ask", r>>) = 0
      /\ Count(body[r], "end") = 0 /\ Count(down, <<"end", r>>) = 0
  BY <1>1, RelayRunning DEF RelayInv
<1>3. "chunk" \in DownFrames /\ "end" \in DownFrames
  BY DEF DownFrames
<1>4. /\ down' \in Seq(DownFrames \X Requests) /\ \A q \in Requests : q # r => SameDown(q)
      /\ Count(down', <<"chunk", r>>) = Count(down, <<"chunk", r>>)
      /\ NoneAfter(down, <<"end", r>>, <<"chunk", r>>) => NoneAfter(down', <<"end", r>>, <<"chunk", r>>)
  BY <1>1, <1>2, <1>3, RelaySendsDown
<1>5. /\ relayOwner'[r] = "over" /\ ended'[r]
      /\ \A q \in Requests : q # r => relayOwner'[q] = relayOwner[q] /\ ended'[q] = ended[q]
  BY <1>1, <1>2 DEF RelayTypes
<1>6. RelayTypes'
  <2>1. /\ relayOwner' \in [Requests -> {"off", "over"} \cup RunningTask] /\ ended' \in [Requests -> BOOLEAN]
    BY <1>1, <1>2 DEF RelayTypes
  <2> QED
    BY <1>1, <1>2, <1>4, <2>1 DEF RelayTypes
<1>7. RelayAt(r)'
  <2>1. "over" \notin RunningTask
    BY DEF RunningTask
  <2> QED
    BY <1>1, <1>2, <1>4, <1>5, <2>1 DEF RelayAt
<1>8. \A q \in Requests : q # r => SameUp(q) /\ SameTask(q)
  BY <1>1, <1>5, SameStays DEF SameTask
<1> QED
  BY <1>1, <1>2, <1>4, <1>6, <1>7, <1>8, RelayOne

LEMMA RelayArrives ==
  ASSUME RelayInv, NEW r \in Requests, AnyRelay!Arrives(r)
  PROVE  RelayInv'
<1>1. /\ relayUp # <<>> /\ Head(relayUp) = <<"ask", r>> /\ relayUp' = Tail(relayUp)
      /\ UNCHANGED <<client, relayKind, head, body, got, agent, relaySent, ended, relayLink>>
      /\ RelayTypes /\ RelayAt(r)
  BY DEF RelayInv, AnyRelay!Arrives, AnyRelay!clientVars
<1>2. relayLink
  BY <1>1 DEF RelayInv
<1>3. /\ relayUp' \in Seq({"ask", "cancel"} \X Requests) /\ \A q \in Requests : q # r => SameUp(q)
      /\ Count(relayUp', <<"ask", r>>) = Count(relayUp, <<"ask", r>>) - 1
  <2>1. "ask" \in {"ask", "cancel"}
    OBVIOUS
  <2> QED
    BY <1>1, <2>1, RelayReadsUp
<1>4. /\ Count(relayUp, <<"ask", r>>) = 1 /\ Count(relayUp', <<"ask", r>>) = 0
      /\ relayOwner[r] = "off" /\ client[r] # "new" /\ ~ended[r]
  <2>1. Count(relayUp', <<"ask", r>>) \in Nat /\ Count(relayUp, <<"ask", r>>) \in Nat
    BY <1>1, <1>3, PlacesFinite DEF RelayTypes
  <2> QED
    BY <1>1, <1>3, <2>1 DEF RelayAt
<1>5. CASE relayOwner' = [relayOwner EXCEPT ![r] = "demand"] /\ UNCHANGED down
  <2>1. relayOwner'[r] = "demand" /\ \A q \in Requests : q # r => relayOwner'[q] = relayOwner[q]
    BY <1>1, <1>5 DEF RelayTypes
  <2>2. RelayTypes'
    <3>1. relayOwner' \in [Requests -> {"off", "over"} \cup RunningTask]
      BY <1>1, <1>5 DEF RelayTypes, RunningTask
    <3> QED
      BY <1>1, <1>3, <1>5, <3>1 DEF RelayTypes
  <2>3. RelayAt(r)'
    BY <1>1, <1>2, <1>4, <1>5, <2>1 DEF RelayAt
  <2>4. \A q \in Requests : q # r => SameDown(q) /\ SameTask(q)
    BY <1>1, <1>5, <2>1, SameStays DEF SameTask
  <2> QED
    BY <1>1, <1>2, <1>3, <2>2, <2>3, <2>4, RelayOne
<1>6. CASE AnyRelay!SendDown(<<"error", r>>) /\ UNCHANGED relayOwner
  <2>1. {"error", "chunk", "end"} \subseteq DownFrames
    BY DEF DownFrames
  <2>2. /\ down' \in Seq(DownFrames \X Requests) /\ \A q \in Requests : q # r => SameDown(q)
        /\ Count(down', <<"chunk", r>>) = Count(down, <<"chunk", r>>)
        /\ Count(down', <<"end", r>>) = Count(down, <<"end", r>>)
        /\ NoneAfter(down, <<"end", r>>, <<"chunk", r>>) => NoneAfter(down', <<"end", r>>, <<"chunk", r>>)
    BY <1>1, <1>6, <2>1, RelaySendsDown
  <2>3. RelayTypes'
    BY <1>1, <1>3, <1>6, <2>2 DEF RelayTypes
  <2>4. RelayAt(r)'
    BY <1>1, <1>2, <1>4, <1>6, <2>2 DEF RelayAt
  <2>5. \A q \in Requests : q # r => SameTask(q)
    BY <1>1, <1>6 DEF SameTask
  <2> QED
    BY <1>1, <1>2, <1>3, <2>2, <2>3, <2>4, <2>5, RelayOne
<1> QED
  BY <1>5, <1>6 DEF AnyRelay!Arrives

LEMMA RelayCancelled ==
  ASSUME RelayInv, NEW r \in Requests, AnyRelay!Cancelled(r)
  PROVE  RelayInv'
<1>1. /\ relayUp # <<>> /\ Head(relayUp) = <<"cancel", r>> /\ relayUp' = Tail(relayUp)
      /\ UNCHANGED <<client, relayKind, head, body, got, agent, relaySent, ended, down, relayLink>>
      /\ relayOwner' = [relayOwner EXCEPT ![r] = IF @ \in RunningTask THEN "over" ELSE @]
      /\ RelayTypes /\ RelayAt(r)
  BY DEF RelayInv, AnyRelay!Cancelled, AnyRelay!clientVars, AnyRelay!Running, RunningTask
<1>2. relayLink
  BY <1>1 DEF RelayInv
<1>3. relayUp' \in Seq({"ask", "cancel"} \X Requests) /\ \A q \in Requests : SameUp(q)
  <2>1. "cancel" \in {"ask", "cancel"} /\ "cancel" # "ask"
    OBVIOUS
  <2> QED
    BY <1>1, <2>1, RelayReadsUp
<1>4. /\ relayOwner'[r] = IF relayOwner[r] \in RunningTask THEN "over" ELSE relayOwner[r]
      /\ \A q \in Requests : q # r => relayOwner'[q] = relayOwner[q]
  BY <1>1 DEF RelayTypes
<1>5. RelayTypes'
  <2>1. relayOwner' \in [Requests -> {"off", "over"} \cup RunningTask]
    BY <1>1 DEF RelayTypes
  <2> QED
    BY <1>1, <1>3, <2>1 DEF RelayTypes
<1>6. RelayAt(r)'
  <2>1. "over" \notin RunningTask /\ "off" \notin RunningTask
    BY DEF RunningTask
  <2>2. Count(relayUp', <<"ask", r>>) = Count(relayUp, <<"ask", r>>)
    BY <1>3 DEF SameUp
  <2> QED
    BY <1>1, <1>4, <2>1, <2>2 DEF RelayAt
<1>7. \A q \in Requests : q # r => SameDown(q) /\ SameTask(q)
  BY <1>1, <1>4, SameStays DEF SameTask
<1> QED
  BY <1>1, <1>2, <1>3, <1>5, <1>6, <1>7, RelayOne

LEMMA RelayAgentLeaves ==
  ASSUME RelayInv, NEW r \in Requests, AnyRelay!AgentLeaves(r)
  PROVE  RelayInv'
<1>1. /\ UNCHANGED <<client, relayKind, head, body, got, relayOwner, relaySent, ended, relayUp, down, relayLink>>
      /\ RelayTypes
  BY DEF RelayInv, AnyRelay!AgentLeaves, AnyRelay!ownerVars
<1>2. agent' \in [Requests -> {"here", "left", "reset"}]
  BY <1>1 DEF RelayTypes, AnyRelay!AgentLeaves
<1>3. RelayTypes'
  BY <1>1, <1>2 DEF RelayTypes
<1> QED
  BY <1>1, <1>3 DEF RelayInv, RelayAt

\* Whether a response broke off.
LEMMA RelayBroken ==
  ASSUME RelayTypes, NEW r \in Requests
  PROVE  AnyRelay!Contains(body[r], "abort") <=> Count(body[r], "abort") # 0
<1>1. body[r] \in Seq({"chunk", "beat", "end", "abort"})
  BY DEF RelayTypes
<1> QED
  BY <1>1, CountNone DEF AnyRelay!Contains

\* A frame of r was read, and its body is now b.
LEMMA RelayFrame ==
  ASSUME RelayInv, NEW r \in Requests, NEW x \in DownFrames, down # <<>>, Head(down) = <<x, r>>,
         NEW b \in Seq({"chunk", "beat", "end", "abort"}), down' = Tail(down), body' = [body EXCEPT ![r] = b],
         head' \in [Requests -> {"none", "set", "failed"}],
         UNCHANGED <<client, relayKind, got, agent, relayOwner, relaySent, ended, relayUp, relayLink>>,
         \/ b = body[r] /\ (x = "chunk" => client[r] \notin {"asked", "streaming"} \/ Count(body[r], "abort") # 0)
         \/ \E y \in {"chunk", "beat", "end", "abort"} :
              /\ b = Append(body[r], y) /\ client[r] \in {"asked", "streaming"} /\ Count(body[r], "abort") = 0
              /\ y = x \/ (y = "abort" /\ x = "error")
  PROVE  RelayInv'
<1>1. RelayTypes /\ RelayAt(r) /\ relayLink /\ body[r] \in Seq({"chunk", "beat", "end", "abort"})
  BY DEF RelayInv, RelayTypes
<1>2. "chunk" \in DownFrames /\ "end" \in DownFrames
  BY DEF DownFrames
<1>3. /\ down' \in Seq(DownFrames \X Requests) /\ \A q \in Requests : q # r => SameDown(q)
      /\ \A y \in DownFrames : y # x => Count(down', <<y, r>>) = Count(down, <<y, r>>)
      /\ Count(down', <<x, r>>) = Count(down, <<x, r>>) - 1 /\ Count(down, <<x, r>>) # 0
      /\ NoneAfter(down', <<"end", r>>, <<"chunk", r>>)
      /\ x = "end" => Count(down, <<"chunk", r>>) = 0
  BY <1>1, RelayReadsDown DEF RelayAt
<1>4. client[r] # "new"
  BY <1>1, <1>3 DEF RelayAt
<1>5. body'[r] = b /\ \A q \in Requests : q # r => body'[q] = body[q]
  BY <1>1 DEF RelayTypes
<1>6. RelayTypes'
  <2>1. body' \in [Requests -> Seq({"chunk", "beat", "end", "abort"})]
    BY <1>1 DEF RelayTypes
  <2> QED
    BY <1>1, <1>3, <2>1 DEF RelayTypes
<1>7. /\ Count(body[r], "chunk") \in Nat /\ Count(down, <<"chunk", r>>) \in Nat /\ got[r] \in Nat
      /\ Count(down', <<"chunk", r>>) \in Nat /\ Count(body[r], "abort") \in Nat /\ Count(body[r], "end") \in Nat
      /\ relaySent[r] \in 0..Pieces /\ Count(down, <<"end", r>>) \in Nat /\ Count(down', <<"end", r>>) \in Nat
  BY <1>1, <1>3, RelayCounts, PlacesFinite
<1>8. Count(down, <<"end", r>>) = 0 => Count(down', <<"end", r>>) = 0
  BY <1>2, <1>3, <1>7
<1>9. /\ client'[r] = client[r] /\ got'[r] = got[r] /\ relayOwner'[r] = relayOwner[r] /\ ended'[r] = ended[r]
      /\ relayKind'[r] = relayKind[r] /\ relaySent'[r] = relaySent[r] /\ relayUp' = relayUp /\ relayLink' = relayLink
  OBVIOUS
<1>10. /\ client[r] = "whole" /\ relayKind[r] # "bodyless" => ended[r] /\ got[r] = Pieces
       /\ ended[r] => relayOwner[r] = "over" /\ (relayKind[r] # "bodyless" => relaySent[r] = Pieces)
       /\ Count(relayUp, <<"ask", r>>) # 0 => Count(relayUp, <<"ask", r>>) = 1 /\ relayOwner[r] = "off"
       /\ Count(down, <<"end", r>>) # 0 => ended[r]
       /\ Count(body[r], "end") # 0 => ended[r] /\ Count(down, <<"chunk", r>>) = 0
       /\ NoneAfter(body[r], "end", "chunk") /\ (relayOwner[r] \in RunningTask => relayLink)
       /\ Count(body[r], "end") # 0 /\ relayKind[r] # "bodyless" => got[r] + Count(body[r], "chunk") = Pieces
       /\ got[r] + Count(body[r], "chunk") + Count(down, <<"chunk", r>>) <= relaySent[r]
  BY <1>1 DEF RelayAt
<1>11. Count(down', <<"chunk", r>>) = IF x = "chunk" THEN Count(down, <<"chunk", r>>) - 1 ELSE Count(down, <<"chunk", r>>)
  BY <1>2, <1>3
<1>12. CASE b = body[r] /\ (x = "chunk" => client[r] \notin {"asked", "streaming"} \/ Count(body[r], "abort") # 0)
  <2>1. client[r] \in {"new", "asked", "streaming"} /\ Count(body[r], "abort") = 0 =>
          got[r] + Count(body[r], "chunk") + Count(down', <<"chunk", r>>) = relaySent[r]
    BY <1>1, <1>4, <1>11, <1>12 DEF RelayAt
  <2>2. got[r] + Count(body[r], "chunk") + Count(down', <<"chunk", r>>) <= relaySent[r]
    BY <1>7, <1>10, <1>11
  <2>3. Count(body[r], "end") # 0 => Count(down', <<"chunk", r>>) = 0
    BY <1>7, <1>10, <1>11
  <2>4. body'[r] = body[r]
    BY <1>5, <1>12
  <2>5. RelayAt(r)'
    BY <1>3, <1>4, <1>8, <1>9, <1>10, <2>1, <2>2, <2>3, <2>4 DEF RelayAt
  <2>6. \A q \in Requests : SameUp(q) /\ SameTask(q)
    BY SameStays DEF SameTask
  <2> QED
    BY <1>1, <1>3, <1>5, <1>6, <2>5, <2>6, RelayOne
<1>13. ASSUME NEW y \in {"chunk", "beat", "end", "abort"}, b = Append(body[r], y),
              client[r] \in {"asked", "streaming"}, Count(body[r], "abort") = 0,
              y = x \/ (y = "abort" /\ x = "error")
       PROVE  RelayInv'
  <2>1. \A z : Count(body'[r], z) = IF z = y THEN Count(body[r], z) + 1 ELSE Count(body[r], z)
    <3>1. \A z : Count(Append(body[r], y), z) = IF z = y THEN Count(body[r], z) + 1 ELSE Count(body[r], z)
      BY <1>1, CountAppend
    <3> QED
      BY <1>5, <1>13, <3>1
  <2>2. y = "chunk" => Count(down, <<"chunk", r>>) # 0 /\ Count(body[r], "end") = 0
    <3> HAVE y = "chunk"
    <3>1. x = "chunk"
      BY <1>13
    <3>2. Count(down, <<"chunk", r>>) # 0
      BY <1>3, <3>1
    <3>3. Count(body[r], "end") # 0 => Count(down, <<"chunk", r>>) = 0
      BY <1>10
    <3> QED
      BY <3>2, <3>3
  <2>3. NoneAfter(body'[r], "end", "chunk")
    <3>1. "end" # "chunk" /\ (y # "chunk" \/ Count(body[r], "end") = 0)
      BY <2>2
    <3>2. NoneAfter(Append(body[r], y), "end", "chunk")
      BY <1>1, <1>10, <3>1, AfterAppend
    <3> QED
      BY <1>5, <1>13, <3>2
  <2>4. got[r] + Count(body[r], "chunk") + Count(down, <<"chunk", r>>) = relaySent[r]
    BY <1>1, <1>13 DEF RelayAt
  <2>5. y = "chunk" <=> x = "chunk"
    BY <1>13
  <2>6. Count(body'[r], "chunk") + Count(down', <<"chunk", r>>) = Count(body[r], "chunk") + Count(down, <<"chunk", r>>)
    BY <1>7, <1>11, <2>1, <2>5, SMTT(30)
  <2>7. Count(body'[r], "chunk") \in Nat
    BY <1>7, <2>1, SMTT(30)
  <2>8. got[r] + Count(body'[r], "chunk") + Count(down', <<"chunk", r>>) = relaySent[r]
    BY <1>7, <2>4, <2>6, <2>7, SMTT(30)
  <2>9. Count(body'[r], "end") # 0 => ended[r] /\ Count(down', <<"chunk", r>>) = 0
    <3>1. CASE y = "end"
      <4>1. x = "end" /\ ended[r] /\ Count(down, <<"chunk", r>>) = 0
        BY <1>3, <1>10, <1>13, <3>1
      <4> QED
        BY <1>11, <4>1
    <3>2. CASE y # "end"
      <4>1. Count(body'[r], "end") = Count(body[r], "end")
        BY <2>1, <3>2
      <4>2. Count(body[r], "end") # 0 => x # "chunk"
        BY <2>2, <2>5
      <4> QED
        BY <1>10, <1>11, <4>1, <4>2
    <3> QED
      BY <3>1, <3>2
  <2>10. Count(body'[r], "end") # 0 /\ relayKind[r] # "bodyless" => got[r] + Count(body'[r], "chunk") = Pieces
    BY <1>7, <1>10, <2>7, <2>8, <2>9
  <2>11. RelayAt(r)'
    BY <1>3, <1>4, <1>7, <1>8, <1>9, <1>10, <2>3, <2>8, <2>9, <2>10, SMTT(30) DEF RelayAt
  <2>12. \A q \in Requests : SameUp(q) /\ SameTask(q)
    BY SameStays DEF SameTask
  <2> QED
    BY <1>1, <1>3, <1>5, <1>6, <2>11, <2>12, RelayOne
<1> QED
  BY <1>12, <1>13

LEMMA RelayFrameArrives ==
  ASSUME RelayInv, AnyRelay!FrameArrives
  PROVE  RelayInv'
<1>1. /\ RelayTypes /\ down # <<>> /\ down' = Tail(down) /\ down \in Seq(DownFrames \X Requests)
      /\ head \in [Requests -> {"none", "set", "failed"}]
      /\ body \in [Requests -> Seq({"chunk", "beat", "end", "abort"})]
      /\ UNCHANGED <<client, relayKind, got, agent, relayOwner, relaySent, ended, relayUp, relayLink>>
  BY DEF RelayInv, RelayTypes, AnyRelay!FrameArrives, AnyRelay!ownerVars
<1>2. Head(down) \in DownFrames \X Requests
  BY <1>1
<1>3. PICK x \in DownFrames, r \in Requests : Head(down) = <<x, r>>
  BY <1>2
<1>4. Head(down)[1] = x /\ Head(down)[2] = r
  BY <1>3
<1>5. /\ x = "start" =>
           /\ head' = [head EXCEPT ![r] = IF client[r] = "asked" /\ @ = "none" THEN "set" ELSE @]
           /\ UNCHANGED body
      /\ x = "error" => AnyRelay!ErrorArrives(r)
      /\ x \notin {"start", "error"} => AnyRelay!Adds(r, x) /\ UNCHANGED head
  BY <1>4 DEF AnyRelay!FrameArrives
<1>6. body[r] \in Seq({"chunk", "beat", "end", "abort"}) /\ body = [body EXCEPT ![r] = body[r]]
  BY <1>1
<1>7. CASE UNCHANGED body /\ x # "chunk" /\ head' \in [Requests -> {"none", "set", "failed"}]
  BY <1>1, <1>3, <1>6, <1>7, RelayFrame
<1>8. ASSUME NEW y \in {"chunk", "beat", "end", "abort"}, AnyRelay!Adds(r, y), UNCHANGED head,
             y = x \/ (y = "abort" /\ x = "error")
      PROVE  RelayInv'
  <2>1. AnyRelay!Contains(body[r], "abort") <=> Count(body[r], "abort") # 0
    BY <1>1, RelayBroken
  <2>2. CASE client[r] \in {"asked", "streaming"} /\ Count(body[r], "abort") = 0
    <3>1. body' = [body EXCEPT ![r] = Append(body[r], y)]
      BY <1>8, <2>1, <2>2 DEF AnyRelay!Adds, AnyRelay!Added, AnyRelay!Waits
    <3>2. Append(body[r], y) \in Seq({"chunk", "beat", "end", "abort"})
      BY <1>6
    <3> QED
      BY <1>1, <1>3, <1>8, <2>2, <3>1, <3>2, RelayFrame
  <2>3. CASE client[r] \notin {"asked", "streaming"} \/ Count(body[r], "abort") # 0
    <3>1. body' = [body EXCEPT ![r] = body[r]]
      BY <1>8, <2>1, <2>3 DEF AnyRelay!Adds, AnyRelay!Added, AnyRelay!Waits
    <3> QED
      BY <1>1, <1>3, <1>6, <1>8, <2>3, <3>1, RelayFrame
  <2> QED
    BY <2>2, <2>3
<1>9. CASE x = "start"
  <2>1. head' \in [Requests -> {"none", "set", "failed"}]
    BY <1>1, <1>5, <1>9
  <2> QED
    BY <1>5, <1>7, <1>9, <2>1
<1>10. CASE x = "error"
  <2>1. CASE client[r] = "asked" /\ head[r] = "none"
    <3>1. head' = [head EXCEPT ![r] = "failed"] /\ UNCHANGED body
      BY <1>5, <1>10, <2>1 DEF AnyRelay!ErrorArrives
    <3>2. head' \in [Requests -> {"none", "set", "failed"}]
      BY <1>1, <3>1
    <3> QED
      BY <1>7, <1>10, <3>1, <3>2
  <2>2. CASE ~(client[r] = "asked" /\ head[r] = "none")
    <3>1. AnyRelay!Adds(r, "abort") /\ UNCHANGED head
      BY <1>5, <1>10, <2>2 DEF AnyRelay!ErrorArrives
    <3> QED
      BY <1>8, <1>10, <3>1
  <2> QED
    BY <2>1, <2>2
<1>11. CASE x \notin {"start", "error"}
  <2>1. x \in {"chunk", "beat", "end"}
    BY <1>11 DEF DownFrames
  <2> QED
    BY <1>5, <1>8, <1>11, <2>1
<1> QED
  BY <1>9, <1>10, <1>11

LEMMA RelayLinkLost ==
  ASSUME RelayInv, AnyRelay!LinkLost
  PROVE  RelayInv'
<1>1. /\ RelayTypes /\ relayLink' = FALSE /\ relayUp' = <<>> /\ down' = <<>>
      /\ head' = [r \in Requests |-> IF client[r] = "asked" /\ head[r] = "none" THEN "failed" ELSE head[r]]
      /\ body' = [r \in Requests |-> AnyRelay!Added(r, "abort")]
      /\ relayOwner' = [r \in Requests |-> IF relayOwner[r] \in RunningTask THEN "over" ELSE relayOwner[r]]
      /\ UNCHANGED <<client, relayKind, got, agent, relaySent, ended>>
  BY DEF RelayInv, AnyRelay!LinkLost, AnyRelay!Running, RunningTask
<1>2. ASSUME NEW r \in Requests
      PROVE  /\ body'[r] \in Seq({"chunk", "beat", "end", "abort"})
             /\ \A y : y # "abort" => Count(body'[r], y) = Count(body[r], y)
             /\ client[r] \in {"asked", "streaming"} => Count(body'[r], "abort") # 0
             /\ client[r] \notin {"asked", "streaming"} => body'[r] = body[r]
             /\ NoneAfter(body[r], "end", "chunk") => NoneAfter(body'[r], "end", "chunk")
  <2>1. body[r] \in Seq({"chunk", "beat", "end", "abort"})
    BY <1>1 DEF RelayTypes
  <2>2. AnyRelay!Contains(body[r], "abort") <=> Count(body[r], "abort") # 0
    BY <1>1, RelayBroken
  <2>3. CASE client[r] \in {"asked", "streaming"} /\ Count(body[r], "abort") = 0
    <3>1. body'[r] = Append(body[r], "abort")
      BY <1>1, <2>2, <2>3 DEF AnyRelay!Added, AnyRelay!Waits
    <3>2. Append(body[r], "abort") \in Seq({"chunk", "beat", "end", "abort"})
      BY <2>1
    <3>3. \A y : Count(body'[r], y) = IF y = "abort" THEN Count(body[r], y) + 1 ELSE Count(body[r], y)
      BY <2>1, <3>1, CountAppend
    <3>4. Count(body'[r], "abort") # 0
      BY <2>3, <3>3
    <3>5. NoneAfter(body[r], "end", "chunk") => NoneAfter(body'[r], "end", "chunk")
      BY <2>1, <3>1, AfterAppend
    <3> QED
      BY <2>3, <3>1, <3>2, <3>3, <3>4, <3>5
  <2>4. CASE client[r] \notin {"asked", "streaming"} \/ Count(body[r], "abort") # 0
    <3>1. body'[r] = body[r]
      BY <1>1, <2>2, <2>4 DEF AnyRelay!Added, AnyRelay!Waits
    <3> QED
      BY <2>1, <2>4, <3>1
  <2> QED
    BY <2>3, <2>4
<1>3. RelayTypes'
  <2>1. body' \in [Requests -> Seq({"chunk", "beat", "end", "abort"})]
    BY <1>1, <1>2
  <2>2. head' \in [Requests -> {"none", "set", "failed"}] /\ relayOwner' \in [Requests -> {"off", "over"} \cup RunningTask]
    BY <1>1 DEF RelayTypes
  <2>3. <<>> \in Seq({"ask", "cancel"} \X Requests) /\ <<>> \in Seq(DownFrames \X Requests)
    OBVIOUS
  <2> QED
    BY <1>1, <2>1, <2>2, <2>3 DEF RelayTypes
<1>4. \A x, a, b : Count(relayUp', x) = 0 /\ Count(down', x) = 0 /\ NoneAfter(down', a, b)
  BY <1>1, CountEmpty
<1>5. ASSUME NEW r \in Requests
      PROVE  RelayAt(r)'
  <2>1. RelayAt(r) /\ got[r] \in Nat /\ relaySent[r] \in 0..Pieces
        /\ Count(body[r], "chunk") \in Nat /\ Count(down, <<"chunk", r>>) \in Nat
    BY <1>1, RelayCounts DEF RelayInv
  <2>2. /\ relayOwner'[r] = IF relayOwner[r] \in RunningTask THEN "over" ELSE relayOwner[r]
        /\ client'[r] = client[r] /\ got'[r] = got[r] /\ relaySent'[r] = relaySent[r] /\ ended'[r] = ended[r]
        /\ relayKind'[r] = relayKind[r]
    BY <1>1
  <2>3. Count(body'[r], "chunk") = Count(body[r], "chunk") /\ Count(body'[r], "end") = Count(body[r], "end")
    BY <1>2
  <2>4. client[r] = "new" => /\ relayOwner'[r] = "off" /\ body'[r] = <<>>
                             /\ got[r] + Count(body[r], "chunk") = relaySent[r]
    <3> HAVE client[r] = "new"
    <3>1. relayOwner[r] = "off" /\ body[r] = <<>> /\ Count(down, <<"chunk", r>>) = 0
      BY <2>1 DEF RelayAt, DownFrames
    <3>2. body'[r] = body[r]
      BY <1>2
    <3>3. Count(body[r], "abort") = 0
      BY <3>1, CountEmpty
    <3>4. got[r] + Count(body[r], "chunk") + Count(down, <<"chunk", r>>) = relaySent[r]
      BY <2>1, <3>3 DEF RelayAt
    <3> QED
      BY <2>1, <2>2, <3>1, <3>2, <3>4 DEF RunningTask
  <2>5. got[r] + Count(body[r], "chunk") <= relaySent[r]
    BY <2>1 DEF RelayAt
  <2>6. /\ got'[r] + Count(body'[r], "chunk") + Count(down', <<"chunk", r>>) <= relaySent'[r]
        /\ client'[r] = "new" => got'[r] + Count(body'[r], "chunk") + Count(down', <<"chunk", r>>) = relaySent'[r]
    BY <1>4, <2>1, <2>2, <2>3, <2>4, <2>5
  <2>7. NoneAfter(body'[r], "end", "chunk") /\ (client[r] \in {"asked", "streaming"} => Count(body'[r], "abort") # 0)
    BY <1>2, <2>1 DEF RelayAt
  <2>8. /\ client[r] = "whole" /\ relayKind[r] # "bodyless" => ended[r] /\ got[r] = Pieces
        /\ ended[r] => relayOwner[r] = "over" /\ (relayKind[r] # "bodyless" => relaySent[r] = Pieces)
        /\ Count(body[r], "end") # 0 => ended[r]
        /\ Count(body[r], "end") # 0 /\ relayKind[r] # "bodyless" => got[r] + Count(body[r], "chunk") = Pieces
    BY <2>1 DEF RelayAt
  <2>9. relayOwner'[r] \notin RunningTask /\ (ended[r] => relayOwner'[r] = "over")
    BY <2>2, <2>8 DEF RunningTask
  <2> QED
    BY <1>4, <2>2, <2>3, <2>4, <2>6, <2>7, <2>8, <2>9 DEF RelayAt
<1> QED
  BY <1>1, <1>3, <1>5 DEF RelayInv

LEMMA RelayReconnect ==
  ASSUME RelayInv, AnyRelay!Reconnect
  PROVE  RelayInv'
<1>1. /\ UNCHANGED <<client, relayKind, head, body, got, agent, relayOwner, relaySent, ended, relayUp, down>>
      /\ relayLink' = TRUE /\ RelayTypes
  BY DEF RelayInv, AnyRelay!Reconnect, AnyRelay!clientVars, AnyRelay!ownerVars
<1>2. RelayTypes'
  BY <1>1 DEF RelayTypes
<1> QED
  BY <1>1, <1>2 DEF RelayInv, RelayAt

LEMMA RelayStep ==
  ASSUME NodeAssumption, RelayInv, AnyRelay!Next
  PROVE  RelayInv'
<1>1. CASE AnyRelay!FrameArrives
  BY <1>1, RelayFrameArrives
<1>2. CASE AnyRelay!LinkLost
  BY <1>2, RelayLinkLost
<1>3. CASE AnyRelay!Reconnect
  BY <1>3, RelayReconnect
<1>4. ASSUME NEW r \in Requests, AnyRelay!Ask(r)
      PROVE  RelayInv'
  BY <1>4, RelayAsk
<1>5. ASSUME NEW r \in Requests, AnyRelay!AgentLeaves(r)
      PROVE  RelayInv'
  BY <1>5, RelayAgentLeaves
<1>6. ASSUME NEW r \in Requests, AnyRelay!Consumer(r)
      PROVE  RelayInv'
  BY <1>6, RelayGetsHead, RelayGivesUp, RelayWrites, RelayEnds DEF AnyRelay!Consumer
<1>7. ASSUME NEW r \in Requests, AnyRelay!Owner(r)
      PROVE  RelayInv'
  BY <1>7, RelayTaskSteps, RelayOwnerBody, RelayOwnerEnds DEF AnyRelay!Owner
<1>8. ASSUME NEW r \in Requests, AnyRelay!Arrives(r)
      PROVE  RelayInv'
  BY <1>8, RelayArrives
<1>9. ASSUME NEW r \in Requests, AnyRelay!Cancelled(r)
      PROVE  RelayInv'
  BY <1>9, RelayCancelled
<1> QED
  BY <1>1, <1>2, <1>3, <1>4, <1>5, <1>6, <1>7, <1>8, <1>9 DEF AnyRelay!Next

LEMMA RelayStart ==
  ASSUME NodeAssumption, AnyRelay!Init
  PROVE  RelayInv
<1>1. /\ client = [r \in Requests |-> "new"] /\ relayKind \in [Requests -> {"plain", "bodyless", "endless"}]
      /\ head = [r \in Requests |-> "none"] /\ body = [r \in Requests |-> <<>>]
      /\ got = [r \in Requests |-> 0] /\ relaySent = [r \in Requests |-> 0]
      /\ agent = [r \in Requests |-> "here"]
      /\ relayOwner = [r \in Requests |-> "off"] /\ ended = [r \in Requests |-> FALSE]
      /\ relayUp = <<>> /\ down = <<>> /\ relayLink = TRUE
  BY DEF AnyRelay!Init, AnyRelay!Kinds
<1>2. RelayTypes
  <2>1. 0 \in 0..Pieces
    BY DEF NodeAssumption
  <2>2. <<>> \in Seq({"chunk", "beat", "end", "abort"}) /\ <<>> \in Seq({"ask", "cancel"} \X Requests)
        /\ <<>> \in Seq(DownFrames \X Requests)
    OBVIOUS
  <2> QED
    BY <1>1, <2>1, <2>2 DEF RelayTypes
<1>3. ASSUME NEW r \in Requests
      PROVE  RelayAt(r)
  <2>1. /\ \A x, a, b : /\ Count(body[r], x) = 0 /\ Count(down, x) = 0 /\ Count(relayUp, x) = 0
                        /\ NoneAfter(body[r], a, b) /\ NoneAfter(down, a, b)
    BY <1>1, CountEmpty
  <2>2. /\ client[r] = "new" /\ relayOwner[r] = "off" /\ body[r] = <<>> /\ ~ended[r]
        /\ got[r] = 0 /\ relaySent[r] = 0
    BY <1>1
  <2> QED
    BY <2>1, <2>2 DEF RelayAt, RunningTask
<1> QED
  BY <1>1, <1>2, <1>3 DEF RelayInv

LEMMA RelayHolds == NodeAssumption => (AnyRelay!Spec => []RelayInv)
<1> SUFFICES ASSUME NodeAssumption
             PROVE  AnyRelay!Spec => []RelayInv
  OBVIOUS
<1>1. AnyRelay!Init => RelayInv
  BY RelayStart
<1>2. RelayInv /\ [AnyRelay!Next]_(AnyRelay!vars) => RelayInv'
  <2> SUFFICES ASSUME RelayInv, [AnyRelay!Next]_(AnyRelay!vars)
               PROVE  RelayInv'
    OBVIOUS
  <2>1. CASE AnyRelay!Next
    BY <2>1, RelayStep
  <2>2. CASE UNCHANGED AnyRelay!vars
    BY <2>2 DEF AnyRelay!vars, AnyRelay!clientVars, AnyRelay!ownerVars, RelayInv, RelayTypes, RelayAt
  <2> QED
    BY <2>1, <2>2
<1> QED
  BY <1>1, <1>2, PTL DEF AnyRelay!Spec

\* A response the Agent takes for whole is one that the service ended, every
\* piece of which was written, whatever fails (_relay_dispatch_request,
\* _relay_execute).
THEOREM WholeMeansAll == NodeAssumption => (AnyRelay!Spec => []AnyRelay!WholeMeansWhole)
<1> SUFFICES ASSUME NodeAssumption
             PROVE  AnyRelay!Spec => []AnyRelay!WholeMeansWhole
  OBVIOUS
<1>1. RelayInv => AnyRelay!WholeMeansWhole
  BY DEF RelayInv, RelayAt, AnyRelay!WholeMeansWhole
<1>2. AnyRelay!Spec => []RelayInv
  BY RelayHolds
<1> QED
  BY <1>1, <1>2, PTL

-----------------------------------------------------------------------------
(* The peer link, whatever its habits.                                       *)

AnyLink == INSTANCE PeerLink WITH Habits <- {"early", "stuffed", "ends"}

LEMMA LinkSizes == \A S : AnyLink!Cardinality(S) = Cardinality(S)
BY DEF AnyLink!Cardinality, Cardinality

\* The handlers that hold the acceptor's link or are on their way to it.
LinkedHandlers == {c \in Conns : handler[c] \in {"hello", "up", "failing"}}

\* The handlers, and the place they compete for: link_installing is set for as
\* long as one of them holds the link, which is why the next is refused.
LinkInv ==
  /\ handler \in [Conns -> {"none", "refuses", "hello", "up", "failing", "over"}]
  /\ installing \in BOOLEAN
  /\ LinkedHandlers # {} => installing
  /\ \A c, d \in LinkedHandlers : c = d

\* The connect loop and those who wait for its link.
QueryInv ==
  /\ caller \in {"idle", "hello", "up", "failing"}
  /\ query \in [Queries -> {"new", "asked", "answered", "failed"}]
  /\ caller # "up" => \A q \in Queries : query[q] # "asked"

-----------------------------------------------------------------------------
\* Moving one handler within the states that hold the link, or to one that
\* does not, adds none.
LEMMA NoLinkAdded ==
  ASSUME LinkInv, NEW c \in Conns,
         NEW to \in {"none", "refuses", "hello", "up", "failing", "over"},
         handler' = [handler EXCEPT ![c] = to],
         c \in LinkedHandlers \/ to \in {"none", "refuses", "over"},
         installing' = installing
  PROVE  LinkInv'
<1>1. LinkedHandlers' \subseteq LinkedHandlers
  BY DEF LinkInv, LinkedHandlers
<1> QED
  BY <1>1 DEF LinkInv

\* Every step keeps the invariant of the handlers.
LEMMA LinkStep == ASSUME LinkInv, [AnyLink!Next]_(AnyLink!vars) PROVE LinkInv'
<1> USE DEF LinkInv
<1>1. ASSUME NEW c \in Conns, AnyLink!Connect(c) PROVE LinkInv'
  BY <1>1, NoLinkAdded DEF AnyLink!Connect
<1>2. ASSUME NEW c \in Conns, AnyLink!Accept(c) PROVE LinkInv'
  <2>1. CASE AnyLink!ready \/ installing
    <3>1. installing' = installing
      BY <1>2, <2>1 DEF AnyLink!Accept, AnyLink!ready, LinkedHandlers
    <3> QED BY <1>2, <2>1, <3>1, NoLinkAdded DEF AnyLink!Accept
  <2>2. CASE ~(AnyLink!ready \/ installing)
    <3>1. LinkedHandlers = {}
      BY <2>2
    <3>2. handler' = [handler EXCEPT ![c] = "hello"] /\ installing' = TRUE
      BY <1>2, <2>2 DEF AnyLink!Accept
    <3>3. LinkedHandlers' = {c}
      BY <3>1, <3>2 DEF LinkedHandlers
    <3> QED BY <3>2, <3>3
  <2> QED BY <2>1, <2>2
<1>3. ASSUME NEW c \in Conns, AnyLink!Greet(c) PROVE LinkInv'
  BY <1>3, NoLinkAdded DEF AnyLink!Greet, LinkedHandlers
<1>4. ASSUME NEW c \in Conns, AnyLink!Refused(c) PROVE LinkInv'
  BY <1>4, NoLinkAdded DEF AnyLink!Refused
<1>5. ASSUME NEW c \in Conns, AnyLink!Loses(c) PROVE LinkInv'
  <2>1. c \in LinkedHandlers
    BY <1>5 DEF AnyLink!Loses, LinkedHandlers
  <2>2. CASE handler[c] = "up"
    <3>1. handler' = [handler EXCEPT ![c] = "failing"] /\ installing' = installing
      BY <1>5, <2>2 DEF AnyLink!Loses
    <3> QED BY <2>1, <3>1, NoLinkAdded
  <2>3. CASE handler[c] = "hello"
    <3>1. handler' = [handler EXCEPT ![c] = "over"] /\ installing' \in BOOLEAN
      BY <1>5, <2>3 DEF AnyLink!Loses
    <3>2. LinkedHandlers' = {}
      BY <2>1, <3>1 DEF LinkedHandlers
    <3> QED BY <3>1, <3>2
  <2> QED BY <1>5, <2>2, <2>3 DEF AnyLink!Loses
<1>6. ASSUME NEW c \in Conns, AnyLink!Failed(c) PROVE LinkInv'
  <2>1. c \in LinkedHandlers /\ handler' = [handler EXCEPT ![c] = "over"] /\ installing' \in BOOLEAN
    BY <1>6 DEF AnyLink!Failed, LinkedHandlers
  <2>2. LinkedHandlers' = {}
    BY <2>1 DEF LinkedHandlers
  <2> QED BY <2>1, <2>2
<1>7. CASE UNCHANGED <<handler, installing>>
  BY <1>7 DEF LinkedHandlers
<1>8. ASSUME NEW c \in Conns, AnyLink!Dies(c) PROVE LinkInv'
  BY <1>7, <1>8 DEF AnyLink!Dies
<1>9. ASSUME NEW q \in Queries, AnyLink!Query(q) \/ AnyLink!Answered(q) \/ AnyLink!Expires(q) PROVE LinkInv'
  BY <1>7, <1>9 DEF AnyLink!Query, AnyLink!Answered, AnyLink!Expires
<1>10. ASSUME AnyLink!Greeted \/ AnyLink!Ends \/ AnyLink!CallerLoses \/ AnyLink!CallerFailed \/ UNCHANGED AnyLink!vars PROVE LinkInv'
  BY <1>7, <1>10 DEF AnyLink!Greeted, AnyLink!Ends, AnyLink!CallerLoses, AnyLink!CallerFailed, AnyLink!vars
<1> QED
  BY <1>1, <1>2, <1>3, <1>4, <1>5, <1>6, <1>8, <1>9, <1>10 DEF AnyLink!Next

\* The acceptor never holds two links, whatever connections come, die and come
\* back while one is being failed (_accept_link, _install_link).
THEOREM OneLinkAtATime == AnyLink!Spec => []AnyLink!OneLink
<1>1. AnyLink!Init => LinkInv
  BY DEF AnyLink!Init, LinkInv, LinkedHandlers
<1>2. LinkInv /\ [AnyLink!Next]_(AnyLink!vars) => LinkInv'
  BY LinkStep
<1>3. LinkInv => AnyLink!OneLink
  <2> SUFFICES ASSUME LinkInv PROVE Cardinality(LinkedHandlers) <= 1
    BY LinkSizes DEF AnyLink!OneLink, LinkedHandlers
  <2>1. CASE LinkedHandlers = {}
    BY <2>1, FS_EmptySet
  <2>2. ASSUME NEW c \in LinkedHandlers PROVE Cardinality(LinkedHandlers) <= 1
    <3>1. LinkedHandlers = {c}
      BY <2>2 DEF LinkInv
    <3> QED BY <3>1, FS_Singleton
  <2> QED BY <2>1, <2>2
<1> QED
  BY <1>1, <1>2, <1>3, PTL DEF AnyLink!Spec

-----------------------------------------------------------------------------
\* Every step keeps the invariant of the queries.
LEMMA QueryStep == ASSUME QueryInv, [AnyLink!Next]_(AnyLink!vars) PROVE QueryInv'
<1> USE DEF QueryInv
<1>1. ASSUME NEW c \in Conns,
             AnyLink!Connect(c) \/ AnyLink!Accept(c) \/ AnyLink!Greet(c) \/ AnyLink!Refused(c) \/ AnyLink!Loses(c) \/ AnyLink!Failed(c)
      PROVE  QueryInv'
  BY <1>1 DEF AnyLink!Connect, AnyLink!Accept, AnyLink!Greet, AnyLink!Refused, AnyLink!Loses, AnyLink!Failed
<1>2. ASSUME NEW c \in Conns, AnyLink!Dies(c) PROVE QueryInv'
  BY <1>2 DEF AnyLink!Dies
<1>3. ASSUME NEW q \in Queries, AnyLink!Query(q) \/ AnyLink!Answered(q) \/ AnyLink!Expires(q) PROVE QueryInv'
  BY <1>3 DEF AnyLink!Query, AnyLink!Answered, AnyLink!Expires
<1>4. CASE AnyLink!CallerLoses
  BY <1>4 DEF AnyLink!CallerLoses
<1>5. ASSUME AnyLink!Greeted \/ AnyLink!Ends \/ AnyLink!CallerFailed \/ UNCHANGED AnyLink!vars PROVE QueryInv'
  BY <1>5 DEF AnyLink!Greeted, AnyLink!Ends, AnyLink!CallerFailed, AnyLink!vars
<1> QED
  BY <1>1, <1>2, <1>3, <1>4, <1>5 DEF AnyLink!Next

\* Nobody waits for an answer over a link that is gone: whatever ends the link
\* fails its queries before the next one is dialled (_fail_link_state).
THEOREM QueriesFailWithTheLink == AnyLink!Spec => []AnyLink!NoOrphanQuery
<1>1. AnyLink!Init => QueryInv
  BY DEF AnyLink!Init, QueryInv
<1>2. QueryInv => AnyLink!NoOrphanQuery
  BY DEF QueryInv, AnyLink!NoOrphanQuery
<1>3. QueryInv /\ [AnyLink!Next]_(AnyLink!vars) => QueryInv'
  BY QueryStep
<1> QED
  BY <1>1, <1>2, <1>3, PTL DEF AnyLink!Spec

\* The wires, and who waits for what crosses them, are in their states.
LEMMA LinkTyped ==
  ASSUME Deaths \in Nat, AnyLink!TypeOK, [AnyLink!Next]_(AnyLink!vars)
  PROVE  AnyLink!TypeOK'
<1> USE DEF AnyLink!TypeOK
<1>1. ASSUME NEW c \in Conns, AnyLink!Connect(c) PROVE AnyLink!TypeOK'
  BY <1>1 DEF AnyLink!Connect
<1>2. ASSUME NEW c \in Conns, AnyLink!Accept(c) \/ AnyLink!Greet(c) \/ AnyLink!Failed(c)
      PROVE  AnyLink!TypeOK'
  BY <1>2 DEF AnyLink!Accept, AnyLink!Greet, AnyLink!Failed
<1>3. ASSUME NEW c \in Conns, AnyLink!Refused(c) \/ AnyLink!Loses(c) PROVE AnyLink!TypeOK'
  BY <1>3 DEF AnyLink!Refused, AnyLink!Loses, AnyLink!Shut
<1>4. ASSUME NEW c \in Conns, AnyLink!Dies(c) PROVE AnyLink!TypeOK'
  BY <1>4 DEF AnyLink!Dies
<1>5. ASSUME NEW q \in Queries, AnyLink!Query(q) \/ AnyLink!Answered(q) \/ AnyLink!Expires(q)
      PROVE  AnyLink!TypeOK'
  BY <1>5 DEF AnyLink!Query, AnyLink!Answered, AnyLink!Expires
<1>6. CASE AnyLink!CallerLoses
  BY <1>6 DEF AnyLink!CallerLoses, AnyLink!Shut
<1>7. CASE AnyLink!Greeted \/ AnyLink!Ends \/ AnyLink!CallerFailed
  BY <1>7 DEF AnyLink!Greeted, AnyLink!Ends, AnyLink!CallerFailed
<1>8. CASE UNCHANGED AnyLink!vars
  BY <1>8 DEF AnyLink!vars
<1> QED
  BY <1>1, <1>2, <1>3, <1>4, <1>5, <1>6, <1>7, <1>8 DEF AnyLink!Next

LEMMA LinkTypes == Deaths \in Nat => (AnyLink!Spec => []AnyLink!TypeOK)
<1> SUFFICES ASSUME Deaths \in Nat PROVE AnyLink!Spec => []AnyLink!TypeOK
  OBVIOUS
<1>1. AnyLink!Init => AnyLink!TypeOK
  <2> SUFFICES ASSUME AnyLink!Init PROVE AnyLink!TypeOK
    OBVIOUS
  <2>1. /\ handler \in [Conns -> {"none", "refuses", "hello", "up", "failing", "over"}]
        /\ wire \in [Conns -> {"open", "closed", "dead"}]
        /\ query \in [Queries -> {"new", "asked", "answered", "failed"}]
    BY DEF AnyLink!Init
  <2>2. caller \in {"idle", "hello", "up", "failing"} /\ current \in Conns /\ deaths = 0
    BY DEF AnyLink!Init
  <2>3. installing \in BOOLEAN /\ stuffed \subseteq Conns
    BY DEF AnyLink!Init
  <2>4. deaths \in 0..Deaths
    BY <2>2
  <2> QED
    BY <2>1, <2>2, <2>3, <2>4 DEF AnyLink!TypeOK
<1>2. AnyLink!TypeOK /\ [AnyLink!Next]_(AnyLink!vars) => AnyLink!TypeOK'
  BY LinkTyped
<1> QED
  BY <1>1, <1>2, PTL DEF AnyLink!Spec

-----------------------------------------------------------------------------
(* A managed service, whatever its habits.                                   *)

AnyHttp == INSTANCE ManagedHttp WITH
  Habits <- {"spawnFails", "neverReady", "lateExit", "graceEnds", "linkLost"}, crashes <- httpCrashes

Working == {"spawn", "probe", "passed"}
Busy == {"ask", "wait"}

\* The tasks and the state machine agree: only the start task of the current
\* generation spawns, and it does so over nothing that lives; a task that stops
\* proves the exit before the state says so.
GenerationInv ==
  /\ gen \in Nat
  /\ state \in {"exited", "starting", "ready", "stopping", "failed"}
  /\ startTask \in Working \cup {"off", "over"}
  /\ stopTask \in Busy \cup {"off", "over"}
  /\ startTask \in Working <=> state = "starting"
  /\ stopTask \in Busy <=> state = "stopping"
  /\ startTask = "spawn" => alive = {}
  /\ AnyHttp!OneGeneration

\* The variables of the generation; all else leaves them alone.
genVars == <<gen, state, startTask, stopTask, alive>>

-----------------------------------------------------------------------------
\* A turn of start() begins a generation or leaves it alone.
LEMMA StartingStep == ASSUME GenerationInv, NEW x, AnyHttp!Starting(x) PROVE GenerationInv'
<1>1. CASE UNCHANGED <<state, gen, failed, startTask>>
  BY <1>1 DEF AnyHttp!Starting, GenerationInv, AnyHttp!OneGeneration, AnyHttp!procVars
<1>2. CASE AnyHttp!New
  BY <1>2 DEF AnyHttp!Starting, AnyHttp!New, GenerationInv, AnyHttp!OneGeneration, AnyHttp!procVars,
     Working, Busy
<1> QED
  BY <1>1, <1>2 DEF AnyHttp!Starting

\* A turn of stop() begins the stop of a generation or leaves it alone.
LEMMA StoppingStep == ASSUME GenerationInv, NEW x, AnyHttp!Stopping(x) PROVE GenerationInv'
BY DEF AnyHttp!Stopping, GenerationInv, AnyHttp!OneGeneration, AnyHttp!procVars, Working, Busy

\* So does every step of the generation's own tasks.
LEMMA TasksStep == ASSUME GenerationInv, AnyHttp!Generation PROVE GenerationInv'
<1> USE DEF GenerationInv, AnyHttp!OneGeneration, Working, Busy, AnyHttp!procVars
<1>1. CASE AnyHttp!Spawn
  BY <1>1 DEF AnyHttp!Spawn
<1>2. CASE AnyHttp!Passes
  BY <1>2 DEF AnyHttp!Passes
<1>3. CASE AnyHttp!BecomesReady
  BY <1>3 DEF AnyHttp!BecomesReady
<1>4. CASE AnyHttp!StartFails
  BY <1>4 DEF AnyHttp!StartFails
<1>5. CASE AnyHttp!Notices
  BY <1>5 DEF AnyHttp!Notices, AnyHttp!taskVars
<1>6. CASE AnyHttp!Asks
  BY <1>6 DEF AnyHttp!Asks
<1>7. CASE AnyHttp!Stops
  BY <1>7 DEF AnyHttp!Stops
<1> QED
  BY <1>1, <1>2, <1>3, <1>4, <1>5, <1>6, <1>7 DEF AnyHttp!Generation

\* Every step keeps the invariant of the generation.
LEMMA GenerationStep == ASSUME GenerationInv, [AnyHttp!Next]_(AnyHttp!vars) PROVE GenerationInv'
<1>1. ASSUME UNCHANGED genVars PROVE GenerationInv'
  BY <1>1 DEF GenerationInv, AnyHttp!OneGeneration, genVars
<1>2. CASE AnyHttp!Exits
  BY <1>2 DEF AnyHttp!Exits, GenerationInv, AnyHttp!OneGeneration, AnyHttp!taskVars
<1>3. CASE AnyHttp!LinkLost
  BY <1>1, <1>3 DEF AnyHttp!LinkLost, genVars, AnyHttp!taskVars, AnyHttp!procVars
<1>4. CASE AnyHttp!NodeStops
  BY <1>4, StoppingStep DEF AnyHttp!NodeStops
<1>5. CASE AnyHttp!NodeStopped
  BY <1>1, <1>5 DEF AnyHttp!NodeStopped, AnyHttp!Stopped, genVars, AnyHttp!taskVars, AnyHttp!procVars
<1>6. ASSUME NEW d \in Demands, AnyHttp!Demand(d) PROVE GenerationInv'
  BY <1>6, StartingStep DEF AnyHttp!Demand
<1>7. ASSUME NEW d \in Demands, AnyHttp!DemandWaited(d) \/ AnyHttp!Served(d) PROVE GenerationInv'
  BY <1>1, <1>7 DEF AnyHttp!DemandWaited, AnyHttp!Started, AnyHttp!Served, genVars, AnyHttp!taskVars,
     AnyHttp!procVars
<1>8. ASSUME NEW o \in Ops, NEW a \in AnyHttp!Actions, NEW e \in 0..MaxGen, AnyHttp!Operate(o, a, e)
      PROVE  GenerationInv'
  BY <1>1, <1>8 DEF AnyHttp!Operate, genVars, AnyHttp!taskVars, AnyHttp!procVars
<1>9. ASSUME NEW o \in Ops, AnyHttp!OpStops(o) PROVE GenerationInv'
  BY <1>9, StoppingStep DEF AnyHttp!OpStops
<1>10. ASSUME NEW o \in Ops, AnyHttp!OpStarts(o) PROVE GenerationInv'
  BY <1>10, StartingStep DEF AnyHttp!OpStarts
<1>11. ASSUME NEW o \in Ops, AnyHttp!Drained(o) \/ AnyHttp!OpStopped(o) \/ AnyHttp!OpStarted(o) PROVE GenerationInv'
  BY <1>1, <1>11 DEF AnyHttp!Drained, AnyHttp!OpStopped, AnyHttp!Stopped, AnyHttp!OpStarted,
     AnyHttp!Started, genVars, AnyHttp!taskVars, AnyHttp!procVars
<1>12. CASE UNCHANGED AnyHttp!vars
  BY <1>1, <1>12 DEF AnyHttp!vars, genVars, AnyHttp!taskVars, AnyHttp!procVars
<1> QED
  BY <1>2, <1>3, <1>4, <1>5, <1>6, <1>7, <1>8, <1>9, <1>10, <1>11, <1>12, TasksStep DEF AnyHttp!Next

\* Which always holds.
LEMMA GenerationHolds == AnyHttp!Spec => []GenerationInv
<1>1. AnyHttp!Init => GenerationInv
  BY DEF AnyHttp!Init, GenerationInv, AnyHttp!OneGeneration, Working, Busy
<1>2. GenerationInv /\ [AnyHttp!Next]_(AnyHttp!vars) => GenerationInv'
  BY GenerationStep
<1> QED
  BY <1>1, <1>2, PTL DEF AnyHttp!Spec

\* A registration never has two live processes, and none that the state machine
\* takes for gone (ManagedHttpBackend.start, _stop_generation).
THEOREM GenerationsAreOne == AnyHttp!Spec => []AnyHttp!OneGeneration
<1>1. GenerationInv => AnyHttp!OneGeneration
  BY DEF GenerationInv
<1> QED
  BY <1>1, GenerationHolds, PTL

-----------------------------------------------------------------------------
(* What an Operator is told.  The loss of the link is left out: the node's   *)
(* own stop is then under way, and a confirmed stop that finds it is         *)
(* reported at once.                                                         *)

\* Generation k is over for good.
Past(k) == k < gen \/ (k = gen /\ state \in {"exited", "failed"})

OpTypes ==
  op \in [Ops -> [do : AnyHttp!Actions \cup {"none"}, of : Nat,
                  at : AnyHttp!InStart \cup AnyHttp!InStop \cup {"new", "drains", "stops", "starts", "ok", "error"}]]

\* A stop or a restart is on its way to end generation op[o].of, or has ended
\* it; who has begun a stop still waits for it.
ActionInv ==
  /\ OpTypes
  /\ downing = "no"
  /\ state = "stopping" => \E o \in Ops : op[o].at = "stop1"
  /\ \A o \in Ops : op[o].do \in {"stop", "restart"} =>
       /\ op[o].at \notin {"new", "error"} => op[o].of <= gen
       /\ op[o].at \in AnyHttp!InStart \cup {"starts", "ok"} => Past(op[o].of)
       /\ op[o].at = "ok" /\ op[o].do = "restart" => op[o].of < gen

\* What is over stays over, and generations are counted upwards.
LEMMA PastStays ==
  ASSUME GenerationInv, [AnyHttp!Next]_(AnyHttp!vars)
  PROVE  /\ gen <= gen'
         /\ \A k \in Nat : Past(k) => Past(k)'
<1> USE DEF Past, GenerationInv
<1>1. ASSUME UNCHANGED <<gen, state>>
      PROVE  gen <= gen' /\ \A k \in Nat : Past(k) => Past(k)'
  BY <1>1
<1>2. ASSUME NEW x, AnyHttp!Starting(x) PROVE gen <= gen' /\ \A k \in Nat : Past(k) => Past(k)'
  BY <1>1, <1>2 DEF AnyHttp!Starting, AnyHttp!New
<1>3. ASSUME NEW x, AnyHttp!Stopping(x) PROVE gen <= gen' /\ \A k \in Nat : Past(k) => Past(k)'
  BY <1>1, <1>3 DEF AnyHttp!Stopping
<1>4. CASE AnyHttp!Generation
  BY <1>4 DEF AnyHttp!Generation, AnyHttp!Spawn, AnyHttp!Passes, AnyHttp!BecomesReady,
     AnyHttp!StartFails, AnyHttp!Notices, AnyHttp!Asks, AnyHttp!Stops, Working, Busy
<1>5. CASE AnyHttp!Exits \/ AnyHttp!LinkLost \/ UNCHANGED AnyHttp!vars
  BY <1>1, <1>5 DEF AnyHttp!Exits, AnyHttp!LinkLost, AnyHttp!vars
<1>6. CASE AnyHttp!NodeStops \/ AnyHttp!NodeStopped
  BY <1>1, <1>3, <1>6 DEF AnyHttp!NodeStops, AnyHttp!NodeStopped, AnyHttp!Stopped
<1>7. ASSUME NEW d \in Demands, AnyHttp!Demand(d) \/ AnyHttp!DemandWaited(d) \/ AnyHttp!Served(d)
      PROVE  gen <= gen' /\ \A k \in Nat : Past(k) => Past(k)'
  BY <1>1, <1>2, <1>7 DEF AnyHttp!Demand, AnyHttp!DemandWaited, AnyHttp!Started, AnyHttp!Served
<1>8. ASSUME NEW o \in Ops, NEW a \in AnyHttp!Actions, NEW e \in 0..MaxGen, AnyHttp!Operate(o, a, e)
      PROVE  gen <= gen' /\ \A k \in Nat : Past(k) => Past(k)'
  BY <1>1, <1>8 DEF AnyHttp!Operate
<1>9. ASSUME NEW o \in Ops, AnyHttp!Drained(o) \/ AnyHttp!OpStops(o) \/ AnyHttp!OpStopped(o) \/ AnyHttp!OpStarts(o) \/ AnyHttp!OpStarted(o)
      PROVE  gen <= gen' /\ \A k \in Nat : Past(k) => Past(k)'
  BY <1>1, <1>2, <1>3, <1>9 DEF AnyHttp!Drained, AnyHttp!OpStops, AnyHttp!OpStopped, AnyHttp!Stopped,
     AnyHttp!OpStarts, AnyHttp!OpStarted, AnyHttp!Started
<1> QED
  BY <1>4, <1>5, <1>6, <1>7, <1>8, <1>9 DEF AnyHttp!Next

\* A step that leaves the actions alone and begins no stop keeps the invariant.
LEMMA ActionsAlone ==
  ASSUME GenerationInv, ActionInv, [AnyHttp!Next]_(AnyHttp!vars), op' = op, downing' = downing,
         state' = "stopping" => state = "stopping"
  PROVE  ActionInv'
<1>1. gen <= gen' /\ \A k \in Nat : Past(k) => Past(k)'
  BY PastStays
<1>2. gen \in Nat /\ gen' \in Nat
  BY GenerationStep DEF GenerationInv
<1>3. \A o \in Ops : op[o].of \in Nat
  BY DEF ActionInv, OpTypes
<1> QED
  BY <1>1, <1>2, <1>3 DEF ActionInv, OpTypes

Ats == AnyHttp!InStart \cup AnyHttp!InStop \cup {"new", "drains", "stops", "starts", "ok", "error"}

\* So does a step in which one action goes on to x, when x is in order.
LEMMA ActionMoves ==
  ASSUME GenerationInv, ActionInv, [AnyHttp!Next]_(AnyHttp!vars), NEW o \in Ops, NEW x \in Ats,
         op' = [op EXCEPT ![o].at = x], downing' = downing,
         op[o].at \notin {"new", "error"},
         state' = "stopping" => x = "stop1" \/ (state = "stopping" /\ op[o].at # "stop1"),
         op[o].do \in {"stop", "restart"} =>
           /\ x \in AnyHttp!InStart \cup {"starts", "ok"} => Past(op[o].of)'
           /\ x = "ok" /\ op[o].do = "restart" => op[o].of < gen'
  PROVE  ActionInv'
<1>1. gen <= gen' /\ \A k \in Nat : Past(k) => Past(k)'
  BY PastStays
<1>2. gen \in Nat /\ gen' \in Nat
  BY GenerationStep DEF GenerationInv
<1>3. \A p \in Ops : op[p].of \in Nat /\ op'[p].of = op[p].of /\ op'[p].do = op[p].do
  BY DEF ActionInv, OpTypes
<1>4. op'[o].at = x /\ \A p \in Ops \ {o} : op'[p] = op[p]
  BY DEF ActionInv, OpTypes
<1>5. OpTypes'
  BY DEF ActionInv, OpTypes, Ats
<1>6. state' = "stopping" => \E p \in Ops : op'[p].at = "stop1"
  BY <1>4 DEF ActionInv
<1>7. ASSUME NEW p \in Ops, op'[p].do \in {"stop", "restart"}
      PROVE  /\ op'[p].at \notin {"new", "error"} => op'[p].of <= gen'
             /\ op'[p].at \in AnyHttp!InStart \cup {"starts", "ok"} => Past(op[p].of)'
             /\ op'[p].at = "ok" /\ op'[p].do = "restart" => op'[p].of < gen'
  <2>1. CASE p = o
    BY <1>1, <1>2, <1>3, <1>4, <1>7, <2>1 DEF ActionInv, Past
  <2>2. CASE p # o
    BY <1>1, <1>2, <1>3, <1>4, <1>7, <2>2 DEF ActionInv, Past
  <2> QED BY <2>1, <2>2
<1> QED
  BY <1>5, <1>6, <1>7 DEF ActionInv

\* A confirmed action begins when no other is under way, so nothing is stopping.
LEMMA OperateStep ==
  ASSUME GenerationInv, ActionInv, [AnyHttp!Next]_(AnyHttp!vars), NodeAssumption,
         NEW o \in Ops, NEW a \in AnyHttp!Actions, NEW e \in 0..MaxGen, AnyHttp!Operate(o, a, e)
  PROVE  ActionInv'
<1>1. state # "stopping" /\ state' = state /\ gen' = gen /\ downing' = downing
  BY DEF AnyHttp!Operate, AnyHttp!Unlocked, ActionInv
<1>2. gen \in Nat /\ e \in Nat
  BY DEF GenerationInv, NodeAssumption
<1>3. PICK now \in [do : AnyHttp!Actions, of : Nat, at : {"error", "drains", "stops", "starts", "ok"}] :
        /\ op' = [op EXCEPT ![o] = now]
        /\ now.at # "error" => now.of = gen
        /\ now.do # "drain" /\ now.at \in {"starts", "ok"} => state \notin {"ready", "starting"}
        /\ now.do = "restart" => now.at # "ok"
  <2>1. CASE ~AnyHttp!Named(e)
    <3> DEFINE row == [do |-> a, of |-> e, at |-> "error"]
    <3>1. op' = [op EXCEPT ![o] = row]
      BY <2>1 DEF AnyHttp!Operate
    <3>2. /\ row \in [do : AnyHttp!Actions, of : Nat, at : {"error", "drains", "stops", "starts", "ok"}]
          /\ row.at = "error"
      BY <1>2
    <3> HIDE DEF row
    <3> QED BY <3>1, <3>2
  <2>2. CASE AnyHttp!Named(e)
    <3> DEFINE then == CASE a = "drain" /\ AnyHttp!live -> "drains"
                         [] a # "drain" /\ AnyHttp!live -> "stops"
                         [] a = "restart" /\ ~AnyHttp!live -> "starts"
                         [] OTHER -> "ok"
    <3>1. op' = [op EXCEPT ![o] = [do |-> a, of |-> gen, at |-> then]]
      BY <2>2 DEF AnyHttp!Operate
    <3>2. /\ then \in {"drains", "stops", "starts", "ok"}
          /\ a # "drain" /\ then \in {"starts", "ok"} => ~AnyHttp!live
          /\ a = "restart" => then # "ok"
      BY DEF AnyHttp!Actions
    <3> HIDE DEF then
    <3> DEFINE row == [do |-> a, of |-> gen, at |-> then]
    <3>3. /\ row \in [do : AnyHttp!Actions, of : Nat, at : {"error", "drains", "stops", "starts", "ok"}]
          /\ row.do = a /\ row.of = gen /\ row.at = then
      BY <1>2, <3>2
    <3>4. op' = [op EXCEPT ![o] = row]
      BY <3>1
    <3> HIDE DEF row
    <3> QED BY <3>2, <3>3, <3>4 DEF AnyHttp!live
  <2> QED BY <2>1, <2>2
<1>4. op'[o] = now /\ \A p \in Ops \ {o} : op'[p] = op[p]
  BY <1>3 DEF ActionInv, OpTypes
<1>5. OpTypes'
  BY <1>3 DEF ActionInv, OpTypes
<1>6. ASSUME NEW p \in Ops, op'[p].do \in {"stop", "restart"}
      PROVE  /\ op'[p].at \notin {"new", "error"} => op'[p].of <= gen'
             /\ op'[p].at \in AnyHttp!InStart \cup {"starts", "ok"} => Past(op[p].of)'
             /\ op'[p].at = "ok" /\ op'[p].do = "restart" => op'[p].of < gen'
  <2>1. CASE p = o
    BY <1>1, <1>2, <1>3, <1>4, <1>6, <2>1 DEF Past, AnyHttp!InStart, GenerationInv, AnyHttp!Actions
  <2>2. CASE p # o
    BY <1>1, <1>2, <1>4, <1>6, <2>2 DEF ActionInv, Past
  <2> QED BY <2>1, <2>2
<1> QED
  BY <1>1, <1>5, <1>6 DEF ActionInv

\* What happens as long as the link is not lost.
Linked ==
  \/ AnyHttp!Generation \/ AnyHttp!Exits \/ AnyHttp!NodeStops \/ AnyHttp!NodeStopped
  \/ \E d \in Demands : AnyHttp!Demand(d) \/ AnyHttp!DemandWaited(d) \/ AnyHttp!Served(d)
  \/ \E o \in Ops :
       \/ \E a \in AnyHttp!Actions, e \in 0..MaxGen : AnyHttp!Operate(o, a, e)
       \/ AnyHttp!Drained(o) \/ AnyHttp!OpStops(o) \/ AnyHttp!OpStopped(o)
       \/ AnyHttp!OpStarts(o) \/ AnyHttp!OpStarted(o)

LEMMA LinkedRuns == [Linked]_(AnyHttp!vars) => [AnyHttp!Next]_(AnyHttp!vars)
BY DEF Linked, AnyHttp!Next

\* Every step keeps the invariant, unless the link is lost.
LEMMA ActionStep ==
  ASSUME GenerationInv, ActionInv, [Linked]_(AnyHttp!vars), NodeAssumption
  PROVE  ActionInv'
<1>0. [AnyHttp!Next]_(AnyHttp!vars)
  BY LinkedRuns
<1>1. ASSUME op' = op, downing' = downing, state' = "stopping" => state = "stopping"
      PROVE  ActionInv'
  BY <1>0, <1>1, ActionsAlone
<1>2. CASE AnyHttp!Generation
  BY <1>1, <1>2 DEF AnyHttp!Generation, AnyHttp!Spawn, AnyHttp!Passes, AnyHttp!BecomesReady,
     AnyHttp!StartFails, AnyHttp!Notices, AnyHttp!Asks, AnyHttp!Stops, AnyHttp!clientVars
<1>3. CASE AnyHttp!Exits \/ UNCHANGED AnyHttp!vars
  BY <1>1, <1>3 DEF AnyHttp!Exits, AnyHttp!vars, AnyHttp!clientVars
<1>4. ~AnyHttp!NodeStops /\ ~AnyHttp!NodeStopped
  BY DEF ActionInv, AnyHttp!NodeStops, AnyHttp!NodeStopped, AnyHttp!Stopped, AnyHttp!InStop
<1>5. ASSUME NEW d \in Demands, AnyHttp!Demand(d) \/ AnyHttp!DemandWaited(d) \/ AnyHttp!Served(d) PROVE ActionInv'
  BY <1>1, <1>5
     DEF AnyHttp!Demand, AnyHttp!DemandWaited, AnyHttp!Served, AnyHttp!Demanded, AnyHttp!DemandAt, AnyHttp!Starting, AnyHttp!Started, AnyHttp!New
<1>6. ASSUME NEW o \in Ops, NEW a \in AnyHttp!Actions, NEW e \in 0..MaxGen, AnyHttp!Operate(o, a, e)
      PROVE  ActionInv'
  BY <1>0, <1>6, OperateStep
<1>7. ASSUME NEW o \in Ops, AnyHttp!Drained(o) PROVE ActionInv'
  BY <1>0, <1>7, ActionMoves DEF AnyHttp!Drained, AnyHttp!OpAt, Ats, AnyHttp!InStart
<1>8. ASSUME NEW o \in Ops, AnyHttp!OpStops(o) PROVE ActionInv'
  <2>1. PICK x : op[o].at = "stops" /\ AnyHttp!Stopping(x) /\ AnyHttp!AfterStop(o, x)
    BY <1>8 DEF AnyHttp!OpStops
  <2>2. op[o].do \in {"stop", "restart"} => op[o].of \in Nat /\ op[o].of <= gen
    BY <2>1 DEF ActionInv, OpTypes
  <2>3. CASE x = "stopped"
    <3>1. state \in {"exited", "failed"} /\ state' = state /\ gen' = gen
      BY <2>1, <2>3 DEF AnyHttp!Stopping
    <3>2. PICK y \in {"starts", "ok"} :
            /\ op' = [op EXCEPT ![o].at = y] /\ downing' = downing
            /\ y = "ok" => op[o].do # "restart"
      BY <2>1, <2>3 DEF AnyHttp!AfterStop, AnyHttp!OpAt
    <3>3. op[o].do \in {"stop", "restart"} => Past(op[o].of)'
      BY <2>2, <3>1, <3>2 DEF Past, GenerationInv, ActionInv, OpTypes
    <3> QED
      BY <1>0, <2>1, <3>1, <3>2, <3>3, ActionMoves DEF Ats
  <2>4. CASE x # "stopped"
    <3>1. x \in {"stop1", "start1"} /\ (state' = "stopping" => x = "stop1")
      BY <2>1, <2>4 DEF AnyHttp!Stopping
    <3>2. PICK y \in Ats :
            /\ op' = [op EXCEPT ![o].at = y] /\ downing' = downing
            /\ state' = "stopping" => y = "stop1"
            /\ y \notin AnyHttp!InStart \cup {"starts", "ok"}
      <4>1. {"stop1", "start1"} \subseteq Ats \ (AnyHttp!InStart \cup {"starts", "ok"})
        BY DEF Ats, AnyHttp!InStart, AnyHttp!InStop
      <4>2. AnyHttp!OpAt(o, x)
        BY <2>1, <2>4 DEF AnyHttp!AfterStop
      <4> QED BY <3>1, <4>1, <4>2 DEF AnyHttp!OpAt
    <3> QED
      BY <1>0, <2>1, <3>2, ActionMoves
  <2> QED BY <2>3, <2>4
<1>9. ASSUME NEW o \in Ops, AnyHttp!OpStopped(o) PROVE ActionInv'
  <2>1. PICK x : AnyHttp!Stopped(op[o].at, x) /\ AnyHttp!AfterStop(o, x)
    BY <1>9 DEF AnyHttp!OpStopped
  <2>2. /\ op[o].at \in AnyHttp!InStop /\ state' = state /\ gen' = gen
        /\ state = "stopping" => op[o].at # "stop1"
    BY <2>1 DEF AnyHttp!Stopped, AnyHttp!Over, GenerationInv, Busy, AnyHttp!InStop
  <2>3. op[o].do \in {"stop", "restart"} => op[o].of \in Nat /\ op[o].of <= gen
    BY <2>2 DEF ActionInv, OpTypes, AnyHttp!InStop
  <2>4. CASE state \in {"exited", "failed"}
    <3>1. PICK y \in {"starts", "ok"} :
            /\ op' = [op EXCEPT ![o].at = y] /\ downing' = downing
            /\ y = "ok" => op[o].do # "restart"
      BY <2>1, <2>4 DEF AnyHttp!AfterStop, AnyHttp!OpAt, AnyHttp!Stopped
    <3>2. op[o].do \in {"stop", "restart"} => Past(op[o].of)'
      BY <2>2, <2>3, <2>4, <3>1 DEF Past, GenerationInv, ActionInv, OpTypes
    <3> QED
      BY <1>0, <2>2, <2>4, <3>1, <3>2, ActionMoves DEF Ats, AnyHttp!InStop
  <2>5. CASE state \notin {"exited", "failed"}
    <3>1. op' = [op EXCEPT ![o].at = "stops"] /\ downing' = downing
      BY <2>1, <2>5 DEF AnyHttp!AfterStop, AnyHttp!OpAt, AnyHttp!Stopped
    <3> QED
      BY <1>0, <2>2, <3>1, ActionMoves DEF Ats, AnyHttp!InStart, AnyHttp!InStop
  <2> QED BY <2>4, <2>5
<1>10. ASSUME NEW o \in Ops, AnyHttp!OpStarts(o) \/ AnyHttp!OpStarted(o) PROVE ActionInv'
  <2>1. PICK x \in {"ready", "failed", "refused", "start2", "stop2", "starts"} :
          /\ AnyHttp!AfterStart(o, x) /\ op[o].at \in AnyHttp!InStart \cup {"starts"}
          /\ state' = "stopping" => state = "stopping"
          /\ x = "ready" => state = "ready" /\ gen' = gen
    <3>1. CASE AnyHttp!OpStarts(o)
      BY <3>1 DEF AnyHttp!OpStarts, AnyHttp!Starting, AnyHttp!New
    <3>2. CASE AnyHttp!OpStarted(o)
      BY <3>2 DEF AnyHttp!OpStarted, AnyHttp!Started
    <3> QED BY <1>10, <3>1, <3>2
  <2>2. PICK y \in Ats :
          /\ op' = [op EXCEPT ![o].at = y] /\ downing' = downing
          /\ y = "ok" => x = "ready"
    <3>1. {"ok", "error", "start2", "stop2", "starts"} \subseteq Ats
      BY DEF Ats, AnyHttp!InStart
    <3>2. CASE x = "ready"
      BY <2>1, <3>1, <3>2 DEF AnyHttp!AfterStart, AnyHttp!OpAt
    <3>3. CASE x \in {"failed", "refused"}
      <4>1. AnyHttp!OpAt(o, "error")
        BY <2>1, <3>3 DEF AnyHttp!AfterStart
      <4> QED BY <3>1, <4>1 DEF AnyHttp!OpAt
    <3>4. CASE x \in {"start2", "stop2", "starts"}
      <4>1. AnyHttp!OpAt(o, x)
        BY <2>1, <3>4 DEF AnyHttp!AfterStart
      <4> QED BY <3>1, <3>4, <4>1 DEF AnyHttp!OpAt
    <3> QED BY <3>2, <3>3, <3>4
  <2>3. op[o].do \in {"stop", "restart"} =>
          /\ op[o].of \in Nat /\ Past(op[o].of) /\ Past(op[o].of)'
    <3>1. op[o].of \in Nat
      BY DEF ActionInv, OpTypes
    <3>2. op[o].do \in {"stop", "restart"} => Past(op[o].of)
      BY <2>1 DEF ActionInv
    <3>3. op[o].of \in Nat /\ Past(op[o].of) => Past(op[o].of)'
      <4>1. ASSUME NEW k \in Nat, Past(k) PROVE Past(k)'
        BY <1>0, <4>1, PastStays
      <4>2. ASSUME NEW k \in Nat, k = op[o].of, Past(k) PROVE op'[o].of = k /\ Past(k)'
        BY <2>2, <4>1, <4>2 DEF ActionInv, OpTypes
      <4> QED BY <4>2 DEF Past
    <3> QED BY <3>1, <3>2, <3>3
  <2>4. op[o].do \in {"stop", "restart"} /\ y = "ok" => op[o].of < gen'
    BY <2>1, <2>2, <2>3 DEF Past
  <2> QED
    BY <1>0, <2>1, <2>2, <2>3, <2>4, ActionMoves DEF AnyHttp!InStart
<1> QED
  BY <1>2, <1>3, <1>4, <1>5, <1>6, <1>7, <1>8, <1>9, <1>10 DEF Linked

\* As long as the link holds, a stop or a restart that is reported as applied has
\* ended the generation it was asked of (_lifecycle_managed_http_action).
THEOREM AppliedIsGone ==
  ASSUME NodeAssumption
  PROVE  AnyHttp!Init /\ [][Linked]_(AnyHttp!vars) => []AnyHttp!AppliedMeansGone
<1>1. AnyHttp!Init => GenerationInv /\ ActionInv
  BY DEF AnyHttp!Init, GenerationInv, AnyHttp!OneGeneration, Working, Busy, ActionInv, OpTypes
<1>2. GenerationInv /\ ActionInv /\ [Linked]_(AnyHttp!vars) => (GenerationInv /\ ActionInv)'
  BY GenerationStep, ActionStep, LinkedRuns
<1>3. GenerationInv /\ ActionInv => AnyHttp!AppliedMeansGone
  BY DEF GenerationInv, ActionInv, AnyHttp!OneGeneration, AnyHttp!AppliedMeansGone, Past, OpTypes
<1> QED
  BY <1>1, <1>2, <1>3, PTL
-----------------------------------------------------------------------------
(* Types.                                                                    *)

\* A generation that is begun has a number.
TypesInv == AnyHttp!TypeOK /\ (startTask = "spawn" => gen # 0)

\* Where a turn of start(), of stop() or of one of their waits leads.
LEMMA Turns ==
  /\ \A x : AnyHttp!Starting(x) => x \in AnyHttp!InStart \cup {"refused", "ready"}
  /\ \A at, x : AnyHttp!Started(at, x) => x \in {"ready", "failed", "starts"}
  /\ \A x : AnyHttp!Stopping(x) => x \in AnyHttp!InStop \cup {"stopped"}
  /\ \A at, x : AnyHttp!Stopped(at, x) => x \in {"stopped", "stops"}
BY DEF AnyHttp!Starting, AnyHttp!Started, AnyHttp!Stopping, AnyHttp!Stopped, AnyHttp!InStart, AnyHttp!InStop

\* They keep the types of the generation.
LEMMA TurnsTyped ==
  ASSUME NodeAssumption, TypesInv, NEW at, NEW x,
         AnyHttp!Starting(x) \/ AnyHttp!Started(at, x) \/ AnyHttp!Stopping(x) \/ AnyHttp!Stopped(at, x)
  PROVE  /\ state' \in {"exited", "starting", "ready", "stopping", "failed"} /\ gen' \in 0..MaxGen
         /\ failed' \in BOOLEAN /\ startTask' \in {"off", "spawn", "probe", "passed", "over"}
         /\ stopTask' \in {"off", "ask", "wait", "over"} /\ (startTask' = "spawn" => gen' # 0)
         /\ UNCHANGED <<alive, watched, httpCrashes, drain>>
<1> USE DEF TypesInv, AnyHttp!TypeOK, AnyHttp!procVars, AnyHttp!taskVars
<1>1. CASE AnyHttp!Starting(x)
  <2>1. CASE AnyHttp!New
    <3>1. /\ state' = "starting" /\ gen' = gen + 1 /\ gen < MaxGen /\ failed' = FALSE /\ startTask' = "spawn"
          /\ UNCHANGED <<stopTask, alive, watched, httpCrashes, drain>>
      BY <1>1, <2>1 DEF AnyHttp!Starting, AnyHttp!New
    <3>2. gen + 1 \in 0..MaxGen /\ gen + 1 # 0
      BY <3>1 DEF NodeAssumption
    <3> QED
      BY <3>1, <3>2
  <2>2. CASE UNCHANGED <<state, gen, failed, startTask>>
    BY <1>1, <2>2 DEF AnyHttp!Starting
  <2> QED
    BY <1>1, <2>1, <2>2 DEF AnyHttp!Starting
<1>2. CASE AnyHttp!Started(at, x)
  BY <1>2 DEF AnyHttp!Started
<1>3. CASE AnyHttp!Stopping(x)
  BY <1>3 DEF AnyHttp!Stopping
<1>4. CASE AnyHttp!Stopped(at, x)
  BY <1>4 DEF AnyHttp!Stopped
<1> QED
  BY <1>1, <1>2, <1>3, <1>4

LEMMA TypesStep ==
  ASSUME NodeAssumption, TypesInv, [AnyHttp!Next]_(AnyHttp!vars)
  PROVE  TypesInv'
<1> DEFINE DemandStates == AnyHttp!InStart \cup {"new", "starts", "served", "done", "cut", "refused", "failed"}
           OpStates == AnyHttp!InStart \cup AnyHttp!InStop \cup {"new", "drains", "stops", "starts", "ok", "error"}
           OpRecords == [do : AnyHttp!Actions \cup {"none"}, of : 0..MaxGen, at : OpStates]
           DownStates == AnyHttp!InStop \cup {"no", "stops", "over"}
<1>1. /\ demand \in [Demands -> DemandStates] /\ op \in [Ops -> OpRecords] /\ downing \in DownStates
      /\ drain \in BOOLEAN /\ MaxGen \in Nat \ {0} /\ Crashes \in Nat
  BY DEF TypesInv, AnyHttp!TypeOK, NodeAssumption
<1>2. ASSUME NEW at, NEW x, AnyHttp!Starting(x) \/ AnyHttp!Started(at, x) \/ AnyHttp!Stopping(x) \/ AnyHttp!Stopped(at, x),
             demand' \in [Demands -> DemandStates], op' \in [Ops -> OpRecords], downing' \in DownStates
      PROVE  TypesInv'
  BY <1>2, TurnsTyped DEF TypesInv, AnyHttp!TypeOK
<1>3. ASSUME NEW d \in Demands, NEW x \in DemandStates \cup {"ready"}, AnyHttp!Demanded(d, x)
      PROVE  demand' \in [Demands -> DemandStates] /\ UNCHANGED <<op, downing>>
  <2>1. (IF x = "ready" THEN "served" ELSE x) \in DemandStates
    OBVIOUS
  <2>2. demand' = [demand EXCEPT ![d] = IF x = "ready" THEN "served" ELSE x] /\ UNCHANGED <<op, downing>>
    BY <1>3 DEF AnyHttp!Demanded, AnyHttp!DemandAt
  <2> HIDE DEF DemandStates
  <2> QED
    BY <1>1, <2>1, <2>2
<1>4. ASSUME NEW o \in Ops, NEW x \in OpStates, AnyHttp!OpAt(o, x)
      PROVE  op' \in [Ops -> OpRecords] /\ UNCHANGED <<demand, downing>>
  <2>1. op' = [op EXCEPT ![o] = [op[o] EXCEPT !.at = x]] /\ UNCHANGED <<demand, downing>>
    BY <1>4 DEF AnyHttp!OpAt
  <2>2. [op[o] EXCEPT !.at = x] \in OpRecords
    <3> HIDE DEF OpStates
    <3> QED
      BY <1>1
  <2> HIDE DEF OpRecords
  <2> QED
    BY <1>1, <2>1, <2>2
<1> HIDE DEF OpRecords
<1>5. CASE AnyHttp!Generation
  <2> USE DEF TypesInv, AnyHttp!TypeOK, AnyHttp!clientVars, AnyHttp!taskVars, AnyHttp!procVars
  <2>1. CASE AnyHttp!Spawn
    <3>1. gen \in 1..MaxGen /\ alive' \subseteq alive \cup {gen} /\ alive \subseteq 1..MaxGen
      BY <1>1, <2>1 DEF AnyHttp!Spawn
    <3>2. /\ startTask' \in {"probe", "over"} /\ state' \in {state, "failed"} /\ failed' \in {failed, TRUE}
          /\ watched' \in {watched, TRUE}
          /\ UNCHANGED <<gen, stopTask, drain, demand, op, downing, httpCrashes>>
      BY <2>1 DEF AnyHttp!Spawn
    <3>3. alive' \subseteq 1..MaxGen
      BY <3>1
    <3> QED
      BY <3>2, <3>3, ZenonT(30)
  <2>2. CASE AnyHttp!Passes \/ AnyHttp!BecomesReady \/ AnyHttp!Notices \/ AnyHttp!Asks
    BY <1>1, <2>2, ZenonT(30) DEF AnyHttp!Passes, AnyHttp!BecomesReady, AnyHttp!Notices, AnyHttp!Asks
  <2>3. CASE AnyHttp!StartFails
    BY <1>1, <2>3 DEF AnyHttp!StartFails
  <2>4. CASE AnyHttp!Stops
    BY <1>1, <2>4 DEF AnyHttp!Stops, AnyHttp!CutServed
  <2> QED
    BY <1>5, <2>1, <2>2, <2>3, <2>4 DEF AnyHttp!Generation
<1>6. CASE AnyHttp!Exits
  BY <1>1, <1>6 DEF AnyHttp!Exits, AnyHttp!CutServed, TypesInv, AnyHttp!TypeOK, AnyHttp!taskVars
<1>7. CASE AnyHttp!LinkLost
  BY <1>1, <1>7 DEF AnyHttp!LinkLost, TypesInv, AnyHttp!TypeOK, AnyHttp!taskVars, AnyHttp!procVars,
     AnyHttp!InStop
<1>8. ASSUME NEW x, AnyHttp!Down(x), x \in AnyHttp!InStop \cup {"stopped", "stops"}
      PROVE  downing' \in DownStates /\ UNCHANGED <<demand, op>>
  BY <1>8 DEF AnyHttp!Down, AnyHttp!DowningAt
<1>9. CASE AnyHttp!NodeStops
  <2>1. PICK x \in AnyHttp!Outcomes : AnyHttp!Stopping(x) /\ AnyHttp!Down(x)
    BY <1>9 DEF AnyHttp!NodeStops
  <2> QED
    BY <1>1, <1>2, <1>8, <2>1, Turns
<1>10. CASE AnyHttp!NodeStopped
  <2>1. PICK x \in AnyHttp!Outcomes : AnyHttp!Stopped(downing, x) /\ AnyHttp!Down(x)
    BY <1>10 DEF AnyHttp!NodeStopped
  <2> QED
    BY <1>1, <1>2, <1>8, <2>1, Turns
<1>11. ASSUME NEW d \in Demands, AnyHttp!Demand(d) PROVE TypesInv'
  <2>1. PICK x \in AnyHttp!Outcomes : AnyHttp!Starting(x) /\ AnyHttp!Demanded(d, x)
    BY <1>11 DEF AnyHttp!Demand
  <2>2. x \in DemandStates \cup {"ready"}
    BY <2>1, Turns
  <2> QED
    BY <1>1, <1>2, <1>3, <2>1, <2>2
<1>12. ASSUME NEW d \in Demands, AnyHttp!DemandWaited(d) PROVE TypesInv'
  <2>1. PICK x \in AnyHttp!Outcomes : AnyHttp!Started(demand[d], x) /\ AnyHttp!Demanded(d, x)
    BY <1>12 DEF AnyHttp!DemandWaited
  <2>2. x \in DemandStates \cup {"ready"}
    BY <2>1, Turns
  <2> QED
    BY <1>1, <1>2, <1>3, <2>1, <2>2
<1>13. ASSUME NEW d \in Demands, AnyHttp!Served(d) PROVE TypesInv'
  BY <1>1, <1>13 DEF AnyHttp!Served, AnyHttp!DemandAt, TypesInv, AnyHttp!TypeOK, AnyHttp!taskVars,
     AnyHttp!procVars
<1>14. ASSUME NEW o \in Ops, NEW a \in AnyHttp!Actions, NEW e \in 0..MaxGen, AnyHttp!Operate(o, a, e) PROVE TypesInv'
  <2>1. /\ UNCHANGED <<state, gen, failed, startTask, stopTask, alive, watched, httpCrashes, demand, downing>>
        /\ drain' \in BOOLEAN /\ gen \in 0..MaxGen
    BY <1>1, <1>14 DEF AnyHttp!Operate, AnyHttp!taskVars, AnyHttp!procVars, TypesInv, AnyHttp!TypeOK
  <2>2. PICK k \in 0..MaxGen, y \in OpStates : op' = [op EXCEPT ![o] = [do |-> a, of |-> k, at |-> y]]
    BY <1>14, <2>1 DEF AnyHttp!Operate
  <2>3. [do |-> a, of |-> k, at |-> y] \in OpRecords
    BY DEF OpRecords
  <2>4. op' \in [Ops -> OpRecords]
    BY <1>1, <2>2, <2>3
  <2> QED
    BY <2>1, <2>4 DEF TypesInv, AnyHttp!TypeOK, OpRecords
<1>15. ASSUME NEW o \in Ops, AnyHttp!Drained(o) PROVE TypesInv'
  <2>1. op' \in [Ops -> OpRecords] /\ UNCHANGED <<demand, downing>>
    BY <1>4, <1>15 DEF AnyHttp!Drained
  <2> QED
    BY <1>15, <2>1 DEF AnyHttp!Drained, TypesInv, AnyHttp!TypeOK, OpRecords, AnyHttp!taskVars,
       AnyHttp!procVars
<1>16. ASSUME NEW o \in Ops, NEW x \in AnyHttp!InStop \cup {"stopped", "stops"}, AnyHttp!AfterStop(o, x)
       PROVE  op' \in [Ops -> OpRecords] /\ UNCHANGED <<demand, downing>>
  <2>1. (IF x # "stopped" THEN x ELSE IF op[o].do = "restart" THEN "starts" ELSE "ok") \in OpStates
    OBVIOUS
  <2> QED
    BY <1>4, <1>16, <2>1 DEF AnyHttp!AfterStop
<1>17. ASSUME NEW o \in Ops, NEW x \in AnyHttp!InStart \cup {"refused", "ready", "failed", "starts"}, AnyHttp!AfterStart(o, x)
       PROVE  op' \in [Ops -> OpRecords] /\ UNCHANGED <<demand, downing>>
  <2>1. (CASE x = "ready" -> "ok" [] x \in {"failed", "refused"} -> "error" [] OTHER -> x) \in OpStates
    OBVIOUS
  <2> QED
    BY <1>4, <1>17, <2>1 DEF AnyHttp!AfterStart
<1>18. ASSUME NEW o \in Ops, AnyHttp!OpStops(o) \/ AnyHttp!OpStopped(o) PROVE TypesInv'
  <2>1. PICK x \in AnyHttp!Outcomes : (AnyHttp!Stopping(x) \/ AnyHttp!Stopped(op[o].at, x)) /\ AnyHttp!AfterStop(o, x)
    BY <1>18 DEF AnyHttp!OpStops, AnyHttp!OpStopped
  <2>2. x \in AnyHttp!InStop \cup {"stopped", "stops"}
    BY <2>1, Turns
  <2> QED
    BY <1>1, <1>2, <1>16, <2>1, <2>2
<1>19. ASSUME NEW o \in Ops, AnyHttp!OpStarts(o) \/ AnyHttp!OpStarted(o) PROVE TypesInv'
  <2>1. PICK x \in AnyHttp!Outcomes : (AnyHttp!Starting(x) \/ AnyHttp!Started(op[o].at, x)) /\ AnyHttp!AfterStart(o, x)
    BY <1>19 DEF AnyHttp!OpStarts, AnyHttp!OpStarted
  <2>2. x \in AnyHttp!InStart \cup {"refused", "ready", "failed", "starts"}
    BY <2>1, Turns
  <2> QED
    BY <1>1, <1>2, <1>17, <2>1, <2>2
<1>20. CASE UNCHANGED AnyHttp!vars
  BY <1>20 DEF AnyHttp!vars, AnyHttp!taskVars, AnyHttp!procVars, AnyHttp!clientVars, TypesInv,
     AnyHttp!TypeOK
<1> QED
  BY <1>5, <1>6, <1>7, <1>9, <1>10, <1>11, <1>12, <1>13, <1>14, <1>15, <1>18, <1>19, <1>20 DEF AnyHttp!Next

\* The state machine, its tasks and those who wait for them are in one of their
\* states, and generations are numbered.
THEOREM ManagedTypes == ASSUME NodeAssumption PROVE AnyHttp!Spec => []AnyHttp!TypeOK
<1>1. AnyHttp!Init => TypesInv
  <2> SUFFICES ASSUME AnyHttp!Init PROVE TypesInv
    OBVIOUS
  <2>1. [do |-> "none", of |-> 0, at |-> "new"] \in
          [do : AnyHttp!Actions \cup {"none"}, of : 0..MaxGen,
           at : AnyHttp!InStart \cup AnyHttp!InStop \cup {"new", "drains", "stops", "starts", "ok", "error"}]
    BY DEF NodeAssumption
  <2>2. op \in [Ops -> [do : AnyHttp!Actions \cup {"none"}, of : 0..MaxGen,
                      at : AnyHttp!InStart \cup AnyHttp!InStop \cup {"new", "drains", "stops", "starts", "ok", "error"}]]
    BY <2>1 DEF AnyHttp!Init
  <2>3. demand \in [Demands -> AnyHttp!InStart \cup {"new", "starts", "served", "done", "cut", "refused", "failed"}]
    BY DEF AnyHttp!Init
  <2>4. /\ state = "exited" /\ gen = 0 /\ alive = {} /\ watched = FALSE /\ failed = FALSE
        /\ startTask = "off" /\ stopTask = "off" /\ drain = FALSE /\ downing = "no" /\ httpCrashes = 0
    BY DEF AnyHttp!Init
  <2>5. MaxGen \in Nat \ {0} /\ Crashes \in Nat
    BY DEF NodeAssumption
  <2>6. /\ state \in {"exited", "starting", "ready", "stopping", "failed"}
        /\ startTask \in {"off", "spawn", "probe", "passed", "over"} /\ startTask # "spawn"
        /\ stopTask \in {"off", "ask", "wait", "over"} /\ downing \in AnyHttp!InStop \cup {"no", "stops", "over"}
    BY <2>4
  <2>7. gen \in 0..MaxGen /\ httpCrashes \in 0..Crashes
    BY <2>4, <2>5
  <2>8. alive \subseteq 1..MaxGen
    BY <2>4
  <2>9. watched \in BOOLEAN /\ failed \in BOOLEAN /\ drain \in BOOLEAN
    BY <2>4
  <2> QED
    BY <2>2, <2>3, <2>6, <2>7, <2>8, <2>9 DEF TypesInv, AnyHttp!TypeOK
<1>2. TypesInv /\ [AnyHttp!Next]_(AnyHttp!vars) => TypesInv'
  BY TypesStep
<1>3. TypesInv => AnyHttp!TypeOK
  BY DEF TypesInv
<1> QED
  BY <1>1, <1>2, <1>3, PTL DEF AnyHttp!Spec

-----------------------------------------------------------------------------
(* The projection of the registry into a client's file, for every set of     *)
(* servers and of passes and all bounds, also when a command is killed at    *)
(* any point.                                                                *)

ProjectionAssumption ==
  /\ Changes \in Nat /\ Edits \in Nat /\ Kills \in Nat /\ Commands \in Nat
  /\ Operator \notin Reconcilers

ConfigFacts == Crashing!Forms \cup {"none", "odd"}
ConfigRows == Crashing!Forms \cup {"none", "blank"}
ConfigEntries == {"none"} \cup Crashing!Forms \cup Crashing!Users
ConfigSnaps == [id : Nat, facts : [Servers -> ConfigFacts], current : [Servers -> ConfigEntries],
          rows : [Servers -> ConfigRows], previous : [Servers -> ConfigEntries]]
ConfigPlaces == {"idle", "rows", "file", "stored", "applies", "replaces", "commits"}

\* What a command has read is of its type, the Operator wants nothing, and no
\* command gets to the file with a target that has no route.
ConfigRouted ==
  /\ snap \in [Crashing!Procs -> ConfigSnaps] /\ snap[Operator].facts = Crashing!Absent
  /\ \A p \in Crashing!Procs : pc[p] \in {"stored", "applies", "replaces", "commits"} =>
       \A s \in Servers : snap[p].facts[s] # "odd"

ConfigTypesInv == Crashing!TypeOK /\ envId <= commands + 1 /\ ConfigRouted

-----------------------------------------------------------------------------
(* Its types.                                                                *)

LEMMA ConfigBlankIsSnap == Crashing!Blank \in ConfigSnaps /\ Crashing!Blank.facts = Crashing!Absent
BY DEF Crashing!Blank, ConfigSnaps, Crashing!Absent, ConfigFacts, ConfigEntries, ConfigRows

\* Each part of what a command has read is replaced by something of its type.
LEMMA ConfigSnapParts ==
  ASSUME Crashing!TypeOK, NEW k \in ConfigSnaps
  PROVE  /\ [k EXCEPT !.id = envId] \in ConfigSnaps /\ [k EXCEPT !.id = envId].facts = k.facts
         /\ [[k EXCEPT !.facts = mirror] EXCEPT !.id = envId] \in ConfigSnaps
         /\ [k EXCEPT !.current = configFile] \in ConfigSnaps
         /\ [k EXCEPT !.current = configFile].facts = k.facts
         /\ [k EXCEPT !.rows = stored] \in ConfigSnaps /\ [k EXCEPT !.rows = stored].facts = k.facts
         /\ [k EXCEPT !.previous = configFile] \in ConfigSnaps
         /\ [k EXCEPT !.previous = configFile].facts = k.facts
<1>1. /\ envId \in Nat /\ mirror \in [Servers -> ConfigFacts] /\ stored \in [Servers -> ConfigRows]
      /\ configFile \in [Servers -> ConfigEntries]
  BY DEF Crashing!TypeOK, ConfigFacts, ConfigRows, ConfigEntries
<1>2. [k EXCEPT !.id = envId] \in ConfigSnaps /\ [k EXCEPT !.id = envId].facts = k.facts
  BY <1>1 DEF ConfigSnaps
<1>3. [[k EXCEPT !.facts = mirror] EXCEPT !.id = envId] \in ConfigSnaps
  BY <1>1 DEF ConfigSnaps
<1>4. /\ [k EXCEPT !.current = configFile] \in ConfigSnaps
      /\ [k EXCEPT !.current = configFile].facts = k.facts
  BY <1>1 DEF ConfigSnaps
<1>5. [k EXCEPT !.rows = stored] \in ConfigSnaps /\ [k EXCEPT !.rows = stored].facts = k.facts
  BY <1>1 DEF ConfigSnaps
<1>6. /\ [k EXCEPT !.previous = configFile] \in ConfigSnaps
      /\ [k EXCEPT !.previous = configFile].facts = k.facts
  BY <1>1 DEF ConfigSnaps
<1> QED
  BY <1>2, <1>3, <1>4, <1>5, <1>6

\* A command moves on, with something else read.
LEMMA ConfigRoutedMove ==
  ASSUME ConfigTypesInv, NEW p \in Crashing!Procs, NEW to \in ConfigPlaces, pc' = [pc EXCEPT ![p] = to],
         NEW k \in ConfigSnaps, snap' = [snap EXCEPT ![p] = k],
         p = Operator => k.facts = Crashing!Absent,
         to \in {"stored", "applies", "replaces", "commits"} => \A s \in Servers : k.facts[s] # "odd"
  PROVE  ConfigRouted' /\ pc' \in [Crashing!Procs -> ConfigPlaces]
<1>1. /\ pc \in [Crashing!Procs -> ConfigPlaces] /\ snap \in [Crashing!Procs -> ConfigSnaps]
      /\ Operator \in Crashing!Procs
  BY DEF ConfigTypesInv, Crashing!TypeOK, ConfigRouted, ConfigPlaces, Crashing!Procs
<1>2. /\ snap' \in [Crashing!Procs -> ConfigSnaps] /\ pc' \in [Crashing!Procs -> ConfigPlaces]
      /\ snap'[p] = k /\ pc'[p] = to
      /\ \A q \in Crashing!Procs \ {p} : snap'[q] = snap[q] /\ pc'[q] = pc[q]
  BY <1>1
<1>3. snap'[Operator].facts = Crashing!Absent
  BY <1>1, <1>2 DEF ConfigTypesInv, ConfigRouted
<1>4. ASSUME NEW q \in Crashing!Procs, pc'[q] \in {"stored", "applies", "replaces", "commits"},
             NEW s \in Servers
      PROVE  snap'[q].facts[s] # "odd"
  <2>1. CASE q = p
    BY <2>1, <1>2, <1>4
  <2>2. CASE q # p
    BY <2>2, <1>2, <1>4 DEF ConfigTypesInv, ConfigRouted
  <2> QED
    BY <2>1, <2>2
<1> QED
  BY <1>2, <1>3, <1>4 DEF ConfigRouted

\* A command that goes on with what it has read.
LEMMA ConfigRoutedGoto ==
  ASSUME ConfigTypesInv, NEW p \in Crashing!Procs, NEW to \in ConfigPlaces, pc' = [pc EXCEPT ![p] = to],
         UNCHANGED snap,
         to \in {"stored", "applies", "replaces", "commits"} =>
           pc[p] \in {"stored", "applies", "replaces", "commits"}
  PROVE  ConfigRouted' /\ pc' \in [Crashing!Procs -> ConfigPlaces]
<1>1. snap \in [Crashing!Procs -> ConfigSnaps] /\ Operator \in Crashing!Procs
  BY DEF ConfigTypesInv, ConfigRouted, Crashing!Procs
<1>2. snap[p] \in ConfigSnaps /\ snap' = [snap EXCEPT ![p] = snap[p]]
  BY <1>1
<1>3. p = Operator => snap[p].facts = Crashing!Absent
  BY DEF ConfigTypesInv, ConfigRouted
<1>4. to \in {"stored", "applies", "replaces", "commits"} => \A s \in Servers : snap[p].facts[s] # "odd"
  BY DEF ConfigTypesInv, ConfigRouted
<1> HIDE DEF ConfigRouted
<1> QED
  BY <1>2, <1>3, <1>4, ConfigRoutedMove

LEMMA ConfigRoutedEnd ==
  ASSUME ConfigTypesInv, NEW p \in Crashing!Procs, Crashing!End(p)
  PROVE  ConfigRouted' /\ pc' \in [Crashing!Procs -> ConfigPlaces]
BY ConfigBlankIsSnap, ConfigRoutedMove DEF Crashing!End, Crashing!Goto, ConfigPlaces

\* What a pass writes is of its type.
LEMMA ConfigRenderedType ==
  ASSUME NEW k \in ConfigSnaps, \A s \in Servers : k.facts[s] # "odd"
  PROVE  Crashing!Rendered(k) \in [Servers -> ConfigEntries]
BY DEF Crashing!Rendered, ConfigSnaps, ConfigFacts, ConfigEntries

LEMMA ConfigTypesStep ==
  ASSUME ProjectionAssumption, ConfigTypesInv, [Crashing!Next]_(Crashing!vars)
  PROVE  ConfigTypesInv'
<1> USE DEF ProjectionAssumption
<1>a. /\ pc \in [Crashing!Procs -> ConfigPlaces]
      /\ Operator \in Crashing!Procs /\ Reconcilers \subseteq Crashing!Procs
  BY DEF ConfigTypesInv, Crashing!TypeOK, ConfigPlaces, Crashing!Procs
<1>b. \A p \in Crashing!Procs : snap[p] \in ConfigSnaps
  BY DEF ConfigTypesInv, ConfigRouted
<1>1. ASSUME NEW s \in Servers, NEW form \in Crashing!Forms \cup {"none", "odd"},
             Crashing!Register(s, form)
      PROVE  ConfigTypesInv'
  BY <1>1 DEF Crashing!Register, ConfigTypesInv, Crashing!TypeOK, ConfigRouted, Crashing!environment
<1>2. ASSUME NEW s \in Servers, NEW entry \in {"none"} \cup Crashing!Forms \cup Crashing!Users,
             Crashing!Edit(s, entry)
      PROVE  ConfigTypesInv'
  BY <1>2 DEF Crashing!Edit, ConfigTypesInv, Crashing!TypeOK, ConfigRouted, Crashing!environment
<1>3. ASSUME NEW p \in Reconcilers, Crashing!Sync(p) PROVE ConfigTypesInv'
  <2>1. ConfigRouted' /\ pc' \in [Crashing!Procs -> ConfigPlaces]
    BY <1>3, <1>a, ConfigRoutedGoto DEF Crashing!Sync, Crashing!Goto, ConfigPlaces
  <2> QED
    BY <2>1, <1>3 DEF Crashing!Sync, ConfigTypesInv, Crashing!TypeOK, Crashing!environment,
       Crashing!bounds, ConfigPlaces
<1>4. ASSUME NEW p \in Reconcilers, Crashing!ReadRows(p) PROVE ConfigTypesInv'
  <2>1. ConfigRouted' /\ pc' \in [Crashing!Procs -> ConfigPlaces]
    <3>1. CASE env = "on"
      <4> DEFINE k == [[snap[p] EXCEPT !.facts = mirror] EXCEPT !.id = envId]
      <4>1. snap' = [snap EXCEPT ![p] = k] /\ pc' = [pc EXCEPT ![p] = "file"]
        BY <1>4, <3>1, <1>b, <1>a DEF Crashing!ReadRows, Crashing!Goto, ConfigSnaps
      <4>2. k \in ConfigSnaps
        BY <1>b, <1>a, ConfigSnapParts DEF ConfigTypesInv
      <4>3. p # Operator
        OBVIOUS
      <4> HIDE DEF k
      <4> QED
        BY <4>1, <4>2, <4>3, <1>a, ConfigRoutedMove DEF ConfigPlaces
    <3>2. CASE env # "on"
      BY <1>4, <3>2, <1>a, ConfigRoutedEnd DEF Crashing!ReadRows
    <3> QED
      BY <3>1, <3>2
  <2> QED
    BY <2>1, <1>4 DEF Crashing!ReadRows, ConfigTypesInv, Crashing!TypeOK, Crashing!environment,
       Crashing!bounds, ConfigPlaces
<1>5. ASSUME NEW p \in Reconcilers, Crashing!Commit(p) PROVE ConfigTypesInv'
  <2>1. ConfigRouted' /\ pc' \in [Crashing!Procs -> ConfigPlaces]
    BY <1>5, <1>a, ConfigRoutedEnd DEF Crashing!Commit
  <2>2. stored' \in [Servers -> ConfigRows] /\ (env = "gone" => stored' = stored)
    <3>1. pc[p] = "commits" /\ snap[p] \in ConfigSnaps
      BY <1>5, <1>a, <1>b DEF Crashing!Commit
    <3>2. \A s \in Servers : snap[p].facts[s] \in ConfigRows
      BY <3>1, <1>a DEF ConfigTypesInv, ConfigRouted, ConfigSnaps, ConfigFacts, ConfigRows
    <3>3. stored \in [Servers -> ConfigRows]
      BY DEF ConfigTypesInv, Crashing!TypeOK, ConfigRows
    <3> QED
      BY <1>5, <3>2, <3>3 DEF Crashing!Commit, ConfigRows
  <2> QED
    BY <2>1, <2>2, <1>5 DEF Crashing!Commit, ConfigTypesInv, Crashing!TypeOK, Crashing!environment,
       Crashing!bounds, ConfigPlaces, ConfigRows
<1>6. ASSUME NEW p \in Crashing!Procs, Crashing!ReadFile(p) PROVE ConfigTypesInv'
  <2>1. ConfigRouted' /\ pc' \in [Crashing!Procs -> ConfigPlaces]
    <3>1. CASE p # Operator /\ \E s \in Servers : snap[p].facts[s] = "odd"
      BY <1>6, <3>1, ConfigRoutedEnd DEF Crashing!ReadFile
    <3>2. CASE ~(p # Operator /\ \E s \in Servers : snap[p].facts[s] = "odd")
      <4> DEFINE k == [snap[p] EXCEPT !.current = configFile]
      <4>1. snap' = [snap EXCEPT ![p] = k] /\ pc' = [pc EXCEPT ![p] = "stored"]
        BY <1>6, <3>2 DEF Crashing!ReadFile, Crashing!Goto
      <4>2. k \in ConfigSnaps /\ k.facts = snap[p].facts
        BY <1>b, ConfigSnapParts DEF ConfigTypesInv
      <4>3. p = Operator => k.facts = Crashing!Absent
        BY <4>2 DEF ConfigTypesInv, ConfigRouted
      <4>4. \A s \in Servers : k.facts[s] # "odd"
        BY <3>2, <4>2, <4>3 DEF Crashing!Absent
      <4> HIDE DEF k
      <4> QED
        BY <4>1, <4>2, <4>3, <4>4, ConfigRoutedMove DEF ConfigPlaces
    <3> QED
      BY <3>1, <3>2
  <2> QED
    BY <2>1, <1>6 DEF Crashing!ReadFile, ConfigTypesInv, Crashing!TypeOK, Crashing!environment,
       Crashing!bounds, ConfigPlaces
<1>7. ASSUME NEW p \in Crashing!Procs, Crashing!ReadStored(p) PROVE ConfigTypesInv'
  <2> DEFINE k == [snap[p] EXCEPT !.rows = stored]
  <2>1. ConfigRouted' /\ pc' \in [Crashing!Procs -> ConfigPlaces]
    <3>1. CASE Crashing!End(p)
      BY <3>1, ConfigRoutedEnd
    <3>2. CASE snap' = [snap EXCEPT ![p] = k]
               /\ \E to \in {"commits", "applies"} : pc' = [pc EXCEPT ![p] = to]
      <4>1. PICK to \in {"commits", "applies"} : pc' = [pc EXCEPT ![p] = to]
        BY <3>2
      <4>2. k \in ConfigSnaps /\ k.facts = snap[p].facts
        BY <1>b, ConfigSnapParts DEF ConfigTypesInv
      <4>3. p = Operator => k.facts = Crashing!Absent
        BY <4>2 DEF ConfigTypesInv, ConfigRouted
      <4>4. \A s \in Servers : k.facts[s] # "odd"
        BY <4>2, <1>7 DEF ConfigTypesInv, ConfigRouted, Crashing!ReadStored
      <4> HIDE DEF k
      <4> QED
        BY <3>2, <4>1, <4>2, <4>3, <4>4, ConfigRoutedMove DEF ConfigPlaces
    <3> QED
      BY <1>7, <3>1, <3>2 DEF Crashing!ReadStored, Crashing!Goto
  <2> HIDE DEF k
  <2> QED
    BY <2>1, <1>7 DEF Crashing!ReadStored, ConfigTypesInv, Crashing!TypeOK, Crashing!environment,
       Crashing!bounds, ConfigPlaces
<1>8. ASSUME NEW p \in Crashing!Procs, Crashing!ReadPrevious(p) PROVE ConfigTypesInv'
  <2>1. ConfigRouted' /\ pc' \in [Crashing!Procs -> ConfigPlaces]
    <3> DEFINE k == [snap[p] EXCEPT !.previous = configFile]
    <3>1. snap' = [snap EXCEPT ![p] = k] /\ pc' = [pc EXCEPT ![p] = "replaces"]
      BY <1>8 DEF Crashing!ReadPrevious, Crashing!Goto
    <3>2. k \in ConfigSnaps /\ k.facts = snap[p].facts
      BY <1>b, ConfigSnapParts DEF ConfigTypesInv
    <3>3. (p = Operator => k.facts = Crashing!Absent) /\ \A s \in Servers : k.facts[s] # "odd"
      BY <3>2, <1>8 DEF ConfigTypesInv, ConfigRouted, Crashing!ReadPrevious
    <3> HIDE DEF k
    <3> QED
      BY <3>1, <3>2, <3>3, ConfigRoutedMove DEF ConfigPlaces
  <2> QED
    BY <2>1, <1>8 DEF Crashing!ReadPrevious, ConfigTypesInv, Crashing!TypeOK, Crashing!environment,
       Crashing!bounds, ConfigPlaces
<1>9. ASSUME NEW p \in Crashing!Procs, Crashing!Replace(p) PROVE ConfigTypesInv'
  <2>1. ConfigRouted' /\ pc' \in [Crashing!Procs -> ConfigPlaces]
    BY <1>9, ConfigRoutedGoto DEF Crashing!Replace, Crashing!Goto, ConfigPlaces
  <2>2. configFile' \in [Servers -> ConfigEntries]
    BY <1>9, <1>b, ConfigRenderedType DEF Crashing!Replace, ConfigTypesInv, ConfigRouted
  <2> QED
    BY <2>1, <2>2, <1>9 DEF Crashing!Replace, ConfigTypesInv, Crashing!TypeOK, Crashing!environment,
       Crashing!bounds, ConfigPlaces, ConfigEntries
<1>10. ASSUME NEW p \in Crashing!Procs, Crashing!Crash(p) PROVE ConfigTypesInv'
  <2>1. ConfigRouted' /\ pc' \in [Crashing!Procs -> ConfigPlaces]
    BY <1>10, ConfigRoutedEnd DEF Crashing!Crash
  <2> QED
    BY <2>1, <1>10 DEF Crashing!Crash, ConfigTypesInv, Crashing!TypeOK, Crashing!environment,
       ConfigPlaces
<1>11. CASE Crashing!Stop
  BY <1>11 DEF Crashing!Stop, Crashing!Command, ConfigTypesInv, Crashing!TypeOK, ConfigRouted
<1>12. CASE Crashing!Unenroll
  <2>1. ConfigRouted' /\ pc' \in [Crashing!Procs -> ConfigPlaces]
    <3> DEFINE k == [snap[Operator] EXCEPT !.id = envId]
    <3>1. snap' = [snap EXCEPT ![Operator] = k] /\ pc' = [pc EXCEPT ![Operator] = "file"]
      BY <1>12 DEF Crashing!Unenroll, Crashing!Goto
    <3>2. k \in ConfigSnaps /\ k.facts = Crashing!Absent
      BY <1>a, <1>b, ConfigSnapParts DEF ConfigTypesInv, ConfigRouted
    <3> HIDE DEF k
    <3> QED
      BY <3>1, <3>2, <1>a, ConfigRoutedMove DEF ConfigPlaces
  <2> QED
    BY <2>1, <1>12 DEF Crashing!Unenroll, Crashing!Command, ConfigTypesInv, Crashing!TypeOK,
       Crashing!environment, ConfigPlaces
<1>13. CASE Crashing!Unenrolled
  <2>1. ConfigRouted' /\ pc' \in [Crashing!Procs -> ConfigPlaces]
    BY <1>13, <1>a, ConfigRoutedEnd DEF Crashing!Unenrolled
  <2> QED
    BY <2>1, <1>13 DEF Crashing!Unenrolled, ConfigTypesInv, Crashing!TypeOK, Crashing!bounds,
       ConfigPlaces, Crashing!Absent
<1>14. CASE Crashing!Enroll
  BY <1>14 DEF Crashing!Enroll, Crashing!Command, ConfigTypesInv, Crashing!TypeOK, ConfigRouted,
     Crashing!Absent
<1>15. CASE UNCHANGED Crashing!vars
  BY <1>15 DEF Crashing!vars, ConfigTypesInv, Crashing!TypeOK, ConfigRouted
<1> QED
  BY <1>1, <1>2, <1>3, <1>4, <1>5, <1>6, <1>7, <1>8, <1>9, <1>10, <1>11, <1>12, <1>13, <1>14,
     <1>15 DEF Crashing!Next

LEMMA ConfigTypesInitial == ASSUME ProjectionAssumption, Crashing!Init PROVE ConfigTypesInv
BY ConfigBlankIsSnap DEF Crashing!Init, ProjectionAssumption, ConfigTypesInv, Crashing!TypeOK,
   ConfigRouted, Crashing!Absent, Crashing!Procs, Crashing!Users

\* Registry, file, fingerprints and commands are of their kinds; in particular
\* no command writes a target that has no route, and a registration that is gone
\* has no fingerprints left.
THEOREM ProjectionTypes == ASSUME ProjectionAssumption PROVE Crashing!Spec => []Crashing!TypeOK
<1>1. ConfigTypesInv => Crashing!TypeOK
  BY DEF ConfigTypesInv
<1> QED
  BY <1>1, ConfigTypesInitial, ConfigTypesStep, PTL DEF Crashing!Spec

-----------------------------------------------------------------------------
(* One command at a time.                                                   *)

\* Commands do not run at once, and the user leaves the file alone during one:
\* nothing locks it.  Both theorems are false without this.
Undisturbed == {"races", "overlaps"} \cap WatchHabits = {}

ConfigOneRuns == \A p, q \in Crashing!Procs : pc[p] # "idle" /\ pc[q] # "idle" => p = q

\* The file is as the command that runs has read it, until it replaces it.
ConfigReadIsCurrent ==
  \A p \in Crashing!Procs :
    /\ pc[p] \in {"stored", "applies", "replaces"} => snap[p].current = configFile
    /\ pc[p] \in {"applies", "replaces"} => snap[p].rows = stored
    /\ pc[p] = "replaces" => snap[p].previous = configFile

\* What unenroll found of the bridge's is all as it was written, so it goes.
ConfigOperatorRemoves ==
  /\ pc[Operator] \in {"applies", "replaces"} =>
       \A s \in Servers :
         Crashing!Live(snap[Operator], s) # "none" => s \in Crashing!Obsolete(snap[Operator])
  /\ pc[Operator] = "commits" => \A s \in Servers : configFile[s] \notin Crashing!Forms

\* An environment that is gone is left alone.
ConfigGoneIsClean ==
  env = "gone" =>
    /\ \A s \in Servers : configFile[s] \notin Crashing!Forms
    /\ \A p \in Crashing!Procs : pc[p] \in {"idle", "rows"}

ConfigPassInv == ConfigOneRuns /\ ConfigReadIsCurrent /\ ConfigOperatorRemoves /\ ConfigGoneIsClean

\* A command that runs is the only one.
LEMMA ConfigAlone ==
  ASSUME ConfigTypesInv, ConfigOneRuns, NEW p \in Crashing!Procs, NEW to, pc' = [pc EXCEPT ![p] = to],
         pc[p] # "idle" \/ \A q \in Crashing!Procs : pc[q] = "idle"
  PROVE  /\ ConfigOneRuns' /\ pc'[p] = to
         /\ \A q \in Crashing!Procs \ {p} : pc'[q] = "idle" /\ pc[q] = "idle"
BY DEF ConfigTypesInv, Crashing!TypeOK, ConfigOneRuns

\* It is enough to look at it.
LEMMA ConfigAloneStep ==
  ASSUME ConfigTypesInv, ConfigOneRuns, NEW p \in Crashing!Procs, NEW to, pc' = [pc EXCEPT ![p] = to],
         pc[p] # "idle" \/ \A q \in Crashing!Procs : pc[q] = "idle",
         to \in {"stored", "applies", "replaces"} => snap'[p].current = configFile',
         to \in {"applies", "replaces"} => snap'[p].rows = stored',
         to = "replaces" => snap'[p].previous = configFile'
  PROVE  ConfigOneRuns' /\ ConfigReadIsCurrent'
<1>1. ConfigOneRuns' /\ pc'[p] = to /\ \A q \in Crashing!Procs \ {p} : pc'[q] = "idle"
  BY ConfigAlone
<1> QED
  BY <1>1 DEF ConfigReadIsCurrent

\* A command that ends, or is killed, with an environment that is not gone.
LEMMA ConfigEndsPass ==
  ASSUME ConfigTypesInv, ConfigPassInv, NEW p \in Crashing!Procs, pc[p] # "idle", Crashing!End(p),
         env' = "gone" => \A s \in Servers : configFile'[s] \notin Crashing!Forms
  PROVE  ConfigPassInv'
<1>1. pc' = [pc EXCEPT ![p] = "idle"]
  BY DEF Crashing!End, Crashing!Goto
<1>2. \A q \in Crashing!Procs : pc'[q] = "idle"
  BY <1>1, ConfigAlone DEF ConfigPassInv
<1>3. Operator \in Crashing!Procs
  BY DEF Crashing!Procs
<1> QED
  BY <1>2, <1>3 DEF ConfigPassInv, ConfigOneRuns, ConfigReadIsCurrent, ConfigOperatorRemoves,
     ConfigGoneIsClean

\* What a command writes over an entry it has just read is none of the user's,
\* and of the bridge's only what the registry wants is left.
LEMMA ConfigRendersOwn ==
  ASSUME NEW k \in ConfigSnaps, k.previous = k.current, NEW s \in Servers
  PROVE  /\ k.current[s] \in Crashing!Users => Crashing!Rendered(k)[s] = k.current[s]
         /\ (Crashing!Live(k, s) # "none" => s \in Crashing!Obsolete(k)) /\ k.facts = Crashing!Absent =>
              Crashing!Rendered(k)[s] \notin Crashing!Forms
<1>1. k.rows[s] \in ConfigRows /\ k.current[s] \in ConfigEntries /\ k.previous[s] = k.current[s]
  BY DEF ConfigSnaps
<1>2. ASSUME k.current[s] \in Crashing!Users PROVE Crashing!Rendered(k)[s] = k.current[s]
  <2>1. s \notin Crashing!Adds(k) /\ s \notin Crashing!Updates(k) /\ s \notin Crashing!Removed(k)
    BY <1>1, <1>2 DEF Crashing!Adds, Crashing!Updates, Crashing!Removed, Crashing!Obsolete,
       Crashing!Live, Crashing!Users, Crashing!Owned, ConfigRows, Crashing!Forms
  <2> QED
    BY <2>1, <1>1 DEF Crashing!Rendered
<1>3. ASSUME Crashing!Live(k, s) # "none" => s \in Crashing!Obsolete(k), k.facts = Crashing!Absent
      PROVE  Crashing!Rendered(k)[s] \notin Crashing!Forms
  <2>1. s \notin Crashing!Adds(k) /\ s \notin Crashing!Updates(k)
    BY <1>3 DEF Crashing!Adds, Crashing!Updates, Crashing!Wanted, Crashing!Absent
  <2>2. CASE Crashing!Live(k, s) # "none"
    <3>1. s \in Crashing!Removed(k)
      BY <1>1, <1>3, <2>2 DEF Crashing!Removed
    <3> QED
      BY <2>1, <3>1 DEF Crashing!Rendered, Crashing!Forms
  <2>3. CASE Crashing!Live(k, s) = "none"
    <3>1. k.current[s] \notin Crashing!Forms
      BY <2>3 DEF Crashing!Live, Crashing!Owned, Crashing!Forms
    <3>2. s \notin Crashing!Removed(k)
      BY <2>3 DEF Crashing!Removed, Crashing!Obsolete
    <3> QED
      BY <2>1, <3>1, <3>2, <1>1 DEF Crashing!Rendered
  <2> QED
    BY <2>2, <2>3
<1> QED
  BY <1>2, <1>3

LEMMA ConfigPassStep ==
  ASSUME ProjectionAssumption, Undisturbed, ConfigTypesInv, ConfigPassInv, [Crashing!Next]_(Crashing!vars)
  PROVE  ConfigPassInv'
<1> USE DEF ProjectionAssumption
<1>a. /\ pc \in [Crashing!Procs -> ConfigPlaces]
      /\ Operator \in Crashing!Procs /\ Reconcilers \subseteq Crashing!Procs
  BY DEF ConfigTypesInv, Crashing!TypeOK, ConfigPlaces, Crashing!Procs
<1>b. \A p \in Crashing!Procs : snap[p] \in ConfigSnaps
  BY DEF ConfigTypesInv, ConfigRouted
<1>c. snap \in [Crashing!Procs -> ConfigSnaps]
  BY DEF ConfigTypesInv, ConfigRouted
<1>1. ASSUME NEW s \in Servers, NEW form \in Crashing!Forms \cup {"none", "odd"},
             Crashing!Register(s, form)
      PROVE  ConfigPassInv'
  BY <1>1 DEF Crashing!Register, ConfigPassInv, ConfigOneRuns, ConfigReadIsCurrent,
     ConfigOperatorRemoves, ConfigGoneIsClean, Crashing!environment, Crashing!Live, Crashing!Obsolete,
     Crashing!Wanted
<1>2. ASSUME NEW s \in Servers, NEW entry \in {"none"} \cup Crashing!Forms \cup Crashing!Users,
             Crashing!Edit(s, entry)
      PROVE  ConfigPassInv'
  <2>1. \A p \in Crashing!Procs : pc[p] = "idle" /\ pc'[p] = "idle"
    BY <1>2 DEF Crashing!Edit, Undisturbed
  <2>2. ASSUME env' = "gone" PROVE \A r \in Servers : configFile'[r] \notin Crashing!Forms
    <3>1. env = "gone" /\ stored = Crashing!Absent
      BY <2>2, <1>2 DEF Crashing!Edit, Crashing!environment, ConfigTypesInv, Crashing!TypeOK
    <3>2. entry \notin Crashing!Forms
      BY <3>1, <1>2 DEF Crashing!Edit, Crashing!Absent, Crashing!Forms, Crashing!Users
    <3> QED
      BY <3>1, <3>2, <1>2 DEF Crashing!Edit, ConfigPassInv, ConfigGoneIsClean, ConfigTypesInv,
         Crashing!TypeOK
  <2> QED
    BY <2>1, <2>2, <1>a DEF ConfigPassInv, ConfigOneRuns, ConfigReadIsCurrent, ConfigOperatorRemoves,
       ConfigGoneIsClean
<1>3. ASSUME NEW p \in Reconcilers, Crashing!Sync(p) PROVE ConfigPassInv'
  <2>1. pc' = [pc EXCEPT ![p] = "rows"] /\ \A q \in Crashing!Procs : pc[q] = "idle"
    BY <1>3 DEF Crashing!Sync, Crashing!MayStart, Crashing!Goto, Undisturbed
  <2>2. ConfigOneRuns' /\ ConfigReadIsCurrent'
    BY <2>1, <1>a, ConfigAloneStep DEF ConfigPassInv
  <2> QED
    BY <2>1, <2>2, <1>a, <1>3 DEF Crashing!Sync, ConfigPassInv, ConfigOperatorRemoves,
       ConfigGoneIsClean, Crashing!environment
<1>4. ASSUME NEW p \in Reconcilers, Crashing!ReadRows(p) PROVE ConfigPassInv'
  <2>1. CASE env = "on"
    <3>1. pc' = [pc EXCEPT ![p] = "file"] /\ pc[p] # "idle"
      BY <1>4, <2>1 DEF Crashing!ReadRows, Crashing!Goto
    <3>2. ConfigOneRuns' /\ ConfigReadIsCurrent'
      BY <3>1, <1>a, ConfigAloneStep DEF ConfigPassInv
    <3>3. pc'[Operator] = "idle"
      BY <3>1, <1>a, ConfigAlone DEF ConfigPassInv
    <3> QED
      BY <3>2, <3>3, <2>1, <1>4 DEF Crashing!ReadRows, ConfigPassInv, ConfigOperatorRemoves,
         ConfigGoneIsClean, Crashing!environment
  <2>2. CASE env # "on"
    BY <2>2, <1>4, <1>a, ConfigEndsPass DEF Crashing!ReadRows, Crashing!environment, ConfigPassInv,
       ConfigGoneIsClean
  <2> QED
    BY <2>1, <2>2
<1>5. ASSUME NEW p \in Reconcilers, Crashing!Commit(p) PROVE ConfigPassInv'
  BY <1>5, <1>a, ConfigEndsPass DEF Crashing!Commit, Crashing!environment, ConfigPassInv,
     ConfigGoneIsClean
<1>6. ASSUME NEW p \in Crashing!Procs, Crashing!ReadFile(p) PROVE ConfigPassInv'
  <2>a. pc[p] = "file" /\ env # "gone" /\ env' = env
    BY <1>6 DEF Crashing!ReadFile, Crashing!environment, ConfigPassInv, ConfigGoneIsClean
  <2>1. CASE Crashing!End(p)
    BY <2>a, <2>1, ConfigEndsPass
  <2>2. CASE snap' = [snap EXCEPT ![p].current = configFile] /\ Crashing!Goto(p, "stored")
    <3>1. pc' = [pc EXCEPT ![p] = "stored"]
      BY <2>2 DEF Crashing!Goto
    <3>2. snap'[p].current = configFile
      BY <2>2, <1>b, <1>c DEF ConfigSnaps
    <3>3. configFile' = configFile
      BY <1>6 DEF Crashing!ReadFile
    <3>4. ConfigOneRuns' /\ ConfigReadIsCurrent'
      BY <3>1, <3>2, <3>3, <2>a, ConfigAloneStep DEF ConfigPassInv
    <3>5. \A q \in Crashing!Procs : pc'[q] \in {"idle", "stored"}
      BY <3>1, <2>a, ConfigAlone DEF ConfigPassInv
    <3> QED
      BY <3>4, <3>5, <2>a, <1>a DEF ConfigPassInv, ConfigOperatorRemoves, ConfigGoneIsClean
  <2> QED
    BY <1>6, <2>1, <2>2 DEF Crashing!ReadFile
<1>7. ASSUME NEW p \in Crashing!Procs, Crashing!ReadStored(p) PROVE ConfigPassInv'
  <2> DEFINE k == [snap[p] EXCEPT !.rows = stored]
  <2>a. /\ pc[p] = "stored" /\ env # "gone" /\ env' = env /\ snap[p].current = configFile
        /\ UNCHANGED <<configFile, stored>>
    BY <1>7 DEF Crashing!ReadStored, Crashing!environment, ConfigPassInv, ConfigGoneIsClean,
       ConfigReadIsCurrent
  <2>b. k.current = configFile /\ k.rows = stored /\ k \in ConfigSnaps
    BY <2>a, <1>b, ConfigSnapParts DEF ConfigSnaps, ConfigTypesInv
  <2>1. CASE Crashing!End(p)
    BY <2>a, <2>1, ConfigEndsPass
  <2>2. CASE ~Crashing!End(p)
    <3>1. /\ snap' = [snap EXCEPT ![p] = k]
          /\ pc' = [pc EXCEPT ![p] =
                      IF Crashing!Adds(k) \cup Crashing!Updates(k) \cup Crashing!Obsolete(k) = {}
                        THEN "commits" ELSE "applies"]
          /\ p = Operator =>
               \A s \in Servers : Crashing!Live(k, s) # "none" => s \in Crashing!Obsolete(k)
      BY <1>7, <2>2 DEF Crashing!ReadStored, Crashing!Goto
    <3>2. snap'[p] = k
      BY <3>1, <1>c, <2>b
    <3>3. PICK to \in {"commits", "applies"} :
            /\ pc' = [pc EXCEPT ![p] = to]
            /\ to = "commits" => Crashing!Obsolete(k) = {}
      BY <3>1
    <3> HIDE DEF k
    <3>4. ConfigOneRuns' /\ ConfigReadIsCurrent'
      BY <3>2, <3>3, <2>a, <2>b, ConfigAloneStep DEF ConfigPassInv
    <3>5. pc'[p] = to /\ \A q \in Crashing!Procs \ {p} : pc'[q] = "idle"
      BY <3>3, <2>a, ConfigAlone DEF ConfigPassInv
    <3>6. ConfigOperatorRemoves'
      <4>1. CASE p # Operator
        BY <4>1, <3>5, <1>a DEF ConfigOperatorRemoves
      <4>2. CASE p = Operator /\ to = "applies"
        BY <4>2, <3>1, <3>2, <3>5 DEF ConfigOperatorRemoves
      <4>3. CASE p = Operator /\ to = "commits"
        <5>1. \A s \in Servers : Crashing!Live(k, s) = "none"
          BY <4>3, <3>1, <3>3
        <5>2. \A s \in Servers : configFile[s] \notin Crashing!Forms
          BY <5>1, <2>b DEF Crashing!Live, Crashing!Owned, Crashing!Forms
        <5> QED
          BY <4>3, <5>2, <3>5, <2>a DEF ConfigOperatorRemoves
      <4> QED
        BY <4>1, <4>2, <4>3
    <3> QED
      BY <3>4, <3>6, <2>a DEF ConfigPassInv, ConfigGoneIsClean
  <2> QED
    BY <2>1, <2>2
<1>8. ASSUME NEW p \in Crashing!Procs, Crashing!ReadPrevious(p) PROVE ConfigPassInv'
  <2> DEFINE k == [snap[p] EXCEPT !.previous = configFile]
  <2>1. /\ pc[p] = "applies" /\ env # "gone" /\ env' = env
        /\ snap[p].current = configFile /\ snap[p].rows = stored
        /\ UNCHANGED <<configFile, stored>>
        /\ pc' = [pc EXCEPT ![p] = "replaces"] /\ snap' = [snap EXCEPT ![p] = k]
    BY <1>8 DEF Crashing!ReadPrevious, Crashing!Goto, Crashing!environment, ConfigPassInv,
       ConfigGoneIsClean, ConfigReadIsCurrent
  <2>2. /\ k.previous = configFile /\ k.current = configFile /\ k.rows = stored /\ k \in ConfigSnaps
        /\ k.facts = snap[p].facts
    BY <2>1, <1>b, ConfigSnapParts DEF ConfigSnaps, ConfigTypesInv
  <2>3. snap'[p] = k
    BY <2>1, <1>c, <2>2
  <2>4. ConfigOneRuns' /\ ConfigReadIsCurrent'
    BY <2>1, <2>2, <2>3, ConfigAloneStep DEF ConfigPassInv
  <2>5. pc'[p] = "replaces" /\ \A q \in Crashing!Procs \ {p} : pc'[q] = "idle"
    BY <2>1, ConfigAlone DEF ConfigPassInv
  <2>6. ConfigOperatorRemoves'
    <3>1. CASE p # Operator
      BY <3>1, <2>5, <1>a DEF ConfigOperatorRemoves
    <3>2. CASE p = Operator
      <4>1. \A s \in Servers : Crashing!Live(snap[p], s) # "none" => s \in Crashing!Obsolete(snap[p])
        BY <3>2, <2>1 DEF ConfigPassInv, ConfigOperatorRemoves
      <4>2. \A s \in Servers : Crashing!Live(k, s) = Crashing!Live(snap[p], s)
        BY <2>1, <2>2 DEF Crashing!Live
      <4>3. k.rows = snap[p].rows
        BY <2>1, <2>2
      <4>4. Crashing!Obsolete(k) = Crashing!Obsolete(snap[p])
        BY <4>2, <4>3, <2>2 DEF Crashing!Obsolete, Crashing!Wanted
      <4> HIDE DEF k
      <4>5. \A s \in Servers : Crashing!Live(k, s) # "none" => s \in Crashing!Obsolete(k)
        BY <4>1, <4>2, <4>4
      <4> QED
        BY <3>2, <4>5, <2>3, <2>5 DEF ConfigOperatorRemoves
    <3> QED
      BY <3>1, <3>2
  <2> QED
    BY <2>4, <2>6, <2>1 DEF ConfigPassInv, ConfigGoneIsClean
<1>9. ASSUME NEW p \in Crashing!Procs, Crashing!Replace(p) PROVE ConfigPassInv'
  <2>1. /\ pc[p] = "replaces" /\ env # "gone" /\ env' = env
        /\ pc' = [pc EXCEPT ![p] = "commits"] /\ snap' = snap
        /\ configFile' = Crashing!Rendered(snap[p])
    BY <1>9 DEF Crashing!Replace, Crashing!Goto, Crashing!environment, ConfigPassInv, ConfigGoneIsClean
  <2>2. ConfigOneRuns' /\ ConfigReadIsCurrent'
    BY <2>1, ConfigAloneStep DEF ConfigPassInv
  <2>3. pc'[p] = "commits" /\ \A q \in Crashing!Procs \ {p} : pc'[q] = "idle"
    BY <2>1, ConfigAlone DEF ConfigPassInv
  <2>4. ConfigOperatorRemoves'
    <3>1. CASE p # Operator
      BY <3>1, <2>3, <1>a DEF ConfigOperatorRemoves
    <3>2. CASE p = Operator
      <4>1. /\ snap[p] \in ConfigSnaps /\ snap[p].previous = snap[p].current
            /\ snap[p].facts = Crashing!Absent
            /\ \A s \in Servers : Crashing!Live(snap[p], s) # "none" => s \in Crashing!Obsolete(snap[p])
        BY <3>2, <2>1, <1>b DEF ConfigPassInv, ConfigReadIsCurrent, ConfigOperatorRemoves,
           ConfigTypesInv, ConfigRouted
      <4>2. \A s \in Servers : configFile'[s] \notin Crashing!Forms
        BY <4>1, <2>1, ConfigRendersOwn
      <4> QED
        BY <3>2, <4>2, <2>3 DEF ConfigOperatorRemoves
    <3> QED
      BY <3>1, <3>2
  <2> QED
    BY <2>2, <2>4, <2>1 DEF ConfigPassInv, ConfigGoneIsClean
<1>10. ASSUME NEW p \in Crashing!Procs, Crashing!Crash(p) PROVE ConfigPassInv'
  BY <1>10, ConfigEndsPass DEF Crashing!Crash, Crashing!environment, ConfigPassInv, ConfigGoneIsClean
<1>11. CASE Crashing!Stop
  BY <1>11 DEF Crashing!Stop, ConfigPassInv, ConfigOneRuns, ConfigReadIsCurrent, ConfigOperatorRemoves,
     ConfigGoneIsClean, Crashing!Live, Crashing!Obsolete, Crashing!Wanted
<1>12. CASE Crashing!Unenroll
  <2>1. pc' = [pc EXCEPT ![Operator] = "file"] /\ \A q \in Crashing!Procs : pc[q] = "idle"
    BY <1>12 DEF Crashing!Unenroll, Crashing!MayStart, Crashing!Goto, Undisturbed
  <2>2. ConfigOneRuns' /\ ConfigReadIsCurrent'
    BY <2>1, <1>a, ConfigAloneStep DEF ConfigPassInv
  <2>3. pc'[Operator] = "file" /\ env' # "gone"
    BY <2>1, <1>a, <1>12 DEF Crashing!Unenroll, Crashing!environment
  <2> QED
    BY <2>2, <2>3 DEF ConfigPassInv, ConfigOperatorRemoves, ConfigGoneIsClean
<1>13. CASE Crashing!Unenrolled
  BY <1>13, <1>a, ConfigEndsPass DEF Crashing!Unenrolled, ConfigPassInv, ConfigOperatorRemoves
<1>14. CASE Crashing!Enroll
  <2>1. \A p \in Crashing!Procs : pc[p] = "idle" /\ pc'[p] = "idle"
    BY <1>14 DEF Crashing!Enroll, Crashing!MayStart, Undisturbed
  <2> QED
    BY <2>1, <1>14, <1>a DEF Crashing!Enroll, ConfigPassInv, ConfigOneRuns, ConfigReadIsCurrent,
       ConfigOperatorRemoves, ConfigGoneIsClean
<1>15. CASE UNCHANGED Crashing!vars
  BY <1>15 DEF Crashing!vars, Crashing!environment, ConfigPassInv, ConfigOneRuns, ConfigReadIsCurrent,
     ConfigOperatorRemoves, ConfigGoneIsClean, Crashing!Live, Crashing!Obsolete, Crashing!Wanted
<1> QED
  BY <1>1, <1>2, <1>3, <1>4, <1>5, <1>6, <1>7, <1>8, <1>9, <1>10, <1>11, <1>12, <1>13, <1>14,
     <1>15 DEF Crashing!Next

LEMMA ConfigPassInitial == ASSUME Crashing!Init PROVE ConfigPassInv
BY DEF Crashing!Init, ConfigPassInv, ConfigOneRuns, ConfigReadIsCurrent, ConfigOperatorRemoves,
   ConfigGoneIsClean, Crashing!Procs

\* While commands run one at a time and nobody edits the file during one, no
\* command changes an entry that the user made or changed, wherever it is killed.
THEOREM UsersOwnIsKept ==
  ASSUME ProjectionAssumption, Undisturbed
  PROVE  Crashing!Spec => Crashing!KeepsTheUsersOwn
<1> DEFINE Kept ==
      edits' = edits =>
        \A s \in Servers : configFile[s] \in Crashing!Users => configFile'[s] = configFile[s]
<1>1. ASSUME ConfigTypesInv, ConfigPassInv, [Crashing!Next]_(Crashing!vars) PROVE [Kept]_(Crashing!vars)
  <2> SUFFICES ASSUME edits' = edits, NEW s \in Servers, configFile[s] \in Crashing!Users,
                      configFile' # configFile
               PROVE  configFile'[s] = configFile[s]
    OBVIOUS
  <2>1. edits \in Nat
    BY <1>1 DEF ProjectionAssumption, ConfigTypesInv, Crashing!TypeOK
  <2>2. ASSUME NEW r, NEW entry, Crashing!Edit(r, entry) PROVE FALSE
    BY <2>1, <2>2 DEF Crashing!Edit
  <2>3. PICK p \in Crashing!Procs : Crashing!Replace(p)
    BY <1>1, <2>2 DEF Crashing!Next, Crashing!vars, Crashing!Register, Crashing!Sync, Crashing!ReadRows,
       Crashing!ReadFile, Crashing!ReadStored, Crashing!ReadPrevious, Crashing!Commit, Crashing!Crash,
       Crashing!Stop, Crashing!Unenroll, Crashing!Unenrolled, Crashing!Enroll
  <2>4. /\ snap[p] \in ConfigSnaps /\ snap[p].previous = configFile /\ snap[p].current = configFile
        /\ configFile' = Crashing!Rendered(snap[p])
    BY <1>1, <2>3 DEF Crashing!Replace, ConfigPassInv, ConfigReadIsCurrent, ConfigTypesInv, ConfigRouted
  <2> QED
    BY <2>4, ConfigRendersOwn
<1>2. Crashing!Init => ConfigTypesInv /\ ConfigPassInv
  BY ConfigTypesInitial, ConfigPassInitial
<1>3. ConfigTypesInv /\ ConfigPassInv /\ [Crashing!Next]_(Crashing!vars)
        => (ConfigTypesInv /\ ConfigPassInv)'
  BY ConfigTypesStep, ConfigPassStep
<1>4. Crashing!KeepsTheUsersOwn <=> [][Kept]_(Crashing!vars)
  BY DEF Crashing!KeepsTheUsersOwn
<1> HIDE DEF Kept
<1> QED
  BY <1>1, <1>2, <1>3, <1>4, PTL DEF Crashing!Spec

\* After `unenroll --remove-entries` the file holds nothing the bridge wrote, also
\* when passes of the watch come later and the user goes on to edit.
THEOREM RemovedStaysClean ==
  ASSUME ProjectionAssumption, Undisturbed
  PROVE  Crashing!Spec => []Crashing!RemovedIsClean
<1>1. Crashing!Init => ConfigTypesInv /\ ConfigPassInv
  BY ConfigTypesInitial, ConfigPassInitial
<1>2. ConfigTypesInv /\ ConfigPassInv /\ [Crashing!Next]_(Crashing!vars)
        => (ConfigTypesInv /\ ConfigPassInv)'
  BY ConfigTypesStep, ConfigPassStep
<1>3. ConfigPassInv => Crashing!RemovedIsClean
  BY DEF ConfigPassInv, ConfigGoneIsClean, Crashing!RemovedIsClean
<1> QED
  BY <1>1, <1>2, <1>3, PTL DEF Crashing!Spec

\* What the watch does is what it does where commands may be killed as well.
LEMMA WatchSteps ==
  ASSUME ProjectionAssumption, ConfigTypesInv, Watch!Next
  PROVE  Crashing!Next
<1>a. /\ Watch!Procs = Crashing!Procs /\ Watch!Forms = Crashing!Forms /\ Watch!Users = Crashing!Users
      /\ Watch!Absent = Crashing!Absent /\ Watch!Blank = Crashing!Blank
  BY DEF Watch!Procs, Crashing!Procs, Watch!Forms, Crashing!Forms, Watch!Users, Crashing!Users,
     Watch!Absent, Crashing!Absent, Watch!Blank, Crashing!Blank
<1>b. /\ Watch!environment = Crashing!environment /\ Watch!environment' = Crashing!environment'
      /\ UNCHANGED Watch!bounds <=> UNCHANGED Crashing!bounds
      /\ UNCHANGED Watch!environment <=> UNCHANGED Crashing!environment
  BY DEF Watch!environment, Crashing!environment, Watch!bounds, Crashing!bounds
<1>c. /\ \A p, to : Watch!Goto(p, to) <=> Crashing!Goto(p, to)
      /\ \A p : Watch!End(p) <=> Crashing!End(p)
      /\ \A p : Watch!MayStart(p) <=> Crashing!MayStart(p)
  BY <1>a DEF Watch!Goto, Crashing!Goto, Watch!End, Crashing!End, Watch!MayStart, Crashing!MayStart
<1>d. \A k, s : Watch!Wanted(k, s) <=> Crashing!Wanted(k, s)
  BY DEF Watch!Wanted, Crashing!Wanted
<1>e. \A k, s : Watch!Live(k, s) = Crashing!Live(k, s)
  BY DEF Watch!Live, Crashing!Live, Watch!Owned, Crashing!Owned, Watch!Forms, Crashing!Forms
<1>f. \A k : /\ Watch!Adds(k) = Crashing!Adds(k) /\ Watch!Updates(k) = Crashing!Updates(k)
             /\ Watch!Keeps(k) = Crashing!Keeps(k) /\ Watch!Obsolete(k) = Crashing!Obsolete(k)
  BY <1>d, <1>e DEF Watch!Adds, Crashing!Adds, Watch!Updates, Crashing!Updates, Watch!Keeps,
     Crashing!Keeps, Watch!Obsolete, Crashing!Obsolete
<1>g. \A k : /\ Watch!Removed(k) = Crashing!Removed(k) /\ Watch!Drifted(k) = Crashing!Drifted(k)
             /\ Watch!Configured(k) = Crashing!Configured(k)
  BY <1>f DEF Watch!Removed, Crashing!Removed, Watch!Drifted, Crashing!Drifted, Watch!Configured,
     Crashing!Configured
<1>h. \A k : Watch!Rendered(k) = Crashing!Rendered(k)
  BY <1>f, <1>g DEF Watch!Rendered, Crashing!Rendered
<1>i. ~(configCrashes < 0)
  BY DEF ProjectionAssumption, ConfigTypesInv, Crashing!TypeOK
<1>1. \A s, form : Watch!Register(s, form) => Crashing!Register(s, form)
  BY <1>b DEF Watch!Register, Crashing!Register
<1>2. \A s, entry : Watch!Edit(s, entry) => Crashing!Edit(s, entry)
  BY <1>a, <1>b DEF Watch!Edit, Crashing!Edit
<1>3. \A p : (Watch!Sync(p) => Crashing!Sync(p)) /\ (Watch!ReadRows(p) => Crashing!ReadRows(p))
  BY <1>b, <1>c DEF Watch!Sync, Crashing!Sync, Watch!ReadRows, Crashing!ReadRows
<1>4. \A p : Watch!ReadFile(p) => Crashing!ReadFile(p)
  BY <1>b, <1>c DEF Watch!ReadFile, Crashing!ReadFile
<1>5. \A p : Watch!ReadStored(p) => Crashing!ReadStored(p)
  BY <1>b, <1>c, <1>e, <1>f DEF Watch!ReadStored, Crashing!ReadStored
<1>6. \A p : Watch!ReadPrevious(p) => Crashing!ReadPrevious(p)
  BY <1>b, <1>c DEF Watch!ReadPrevious, Crashing!ReadPrevious
<1>7. \A p : Watch!Replace(p) => Crashing!Replace(p)
  BY <1>b, <1>c, <1>h DEF Watch!Replace, Crashing!Replace
<1>8. \A p : Watch!Commit(p) => Crashing!Commit(p)
  BY <1>b, <1>c, <1>d, <1>g DEF Watch!Commit, Crashing!Commit
<1>9. \A p : ~Watch!Crash(p)
  BY <1>i DEF Watch!Crash
<1>10. /\ (Watch!Stop => Crashing!Stop) /\ (Watch!Unenroll => Crashing!Unenroll)
       /\ (Watch!Unenrolled => Crashing!Unenrolled) /\ (Watch!Enroll => Crashing!Enroll)
  BY <1>a, <1>b, <1>c, <1>g DEF Watch!Stop, Crashing!Stop, Watch!Unenroll, Crashing!Unenroll,
     Watch!Unenrolled, Crashing!Unenrolled, Watch!Enroll, Crashing!Enroll, Watch!Command, Crashing!Command
<1> QED
  BY <1>a, <1>1, <1>2, <1>3, <1>4, <1>5, <1>6, <1>7, <1>8, <1>9, <1>10 DEF Watch!Next, Crashing!Next
=============================================================================
