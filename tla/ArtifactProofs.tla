--------------------------- MODULE ArtifactProofs ---------------------------
(* Theorems about ArtifactV2, for every number of chunks, of publishes and  *)
(* of losses of the link.                                                   *)
EXTENDS ArtifactV2, TLAPS

\* Publishes of the artifact do not overlap, a begin is through with the journal
\* before the read loop goes on to what follows it on its stream, and no kill
\* falls between the two halves of a commit (os.link, unlink).
Serialised == Habits \cap {"overlap", "slowDisk", "cuts"} = {}

Prefix(n) == [i \in 1..n |-> i]
Files == {Gone} \cup {Prefix(n) : n \in 0..Chunks}

Frames == [kind : {"begin", "again", "chunk", "end", "cancel", "close",
                   "ready", "ack", "committed", "ok", "error"},
           pub : Pubs, n : 0..Chunks, tok : Tokens \cup {None}]
Phases == {"none", "receiving", "ending", "committing", "completed", "aborting", "parked"}
Works == {"off", "seed", "get", "write", "ack", "sync", "commit", "unlink", "linked", "mark", "done"}
Receives == [phase : Phases, tok : Tokens \cup {None}, acked : 0..Chunks, got : 0..Chunks,
             next : Nat, queue : Seq(Nat), digest : Seq(Nat), work : Works, table : BOOLEAN,
             made : BOOLEAN, seq : Nat, park : {"no", "trunc", "note"}]
Receipts == [state : {"none", "partial", "committed"}, acked : 0..Chunks, chunks : Nat]

Types ==
  /\ pub \in [Pubs -> {"new", "retry", "ok", "failed"} \cup Running]
  /\ sent \in [Pubs -> 0..Chunks]
  /\ \A p \in Pubs : pub[p] = "sending" => sent[p] < Chunks
  /\ open \in [Pubs -> SUBSET {"S", "R"}]
  /\ known \in Tokens \cup {None}
  /\ link \in {"up", "broken"} /\ sees \in [{"S", "R"} -> {"up", "failing", "down"}]
  /\ toR \in Seq(Frames) /\ toS \in Seq(Frames)
  /\ \A i \in 1..Len(toS) : toS[i].kind = "ready" => toS[i].tok \in Tokens
  /\ begin \in [Pubs -> [at : {"no", "prune", "prepare"}, tok : Tokens \cup {None}]]
  /\ rec \in [Pubs -> Receives]
  /\ journal \in [Tokens -> Receipts]
  /\ old \in SUBSET Tokens

\* The frames of a publish that are under way.
BeginAt(p, i) == toR[i].pub = p /\ toR[i].kind = "begin"
CancelAt(p, i) == toR[i].pub = p /\ toR[i].kind = "cancel"
DataAt(p, i) == toR[i].pub = p /\ toR[i].kind \in {"chunk", "end"}
GoAt(p, i) == toS[i].pub = p /\ toS[i].kind \in {"ready", "ack"}
DoneAt(p, i) == toS[i].pub = p /\ toS[i].kind \in {"ok", "committed"}
Announced(p) == \E i \in 1..Len(toR) : BeginAt(p, i)
Sending(p) == \E i \in 1..Len(toR) : DataAt(p, i)
Answering(p) == \E i \in 1..Len(toS) : GoAt(p, i)
Arriving(p) == Announced(p) \/ begin[p].at # "no"

\* One thing of a publish is under way at a time: the begin, then a chunk or the
\* end, or the answer to it, or the chunk is in the hands of the worker.
Turn(p) ==
  /\ \A i, j \in 1..Len(toR) : DataAt(p, i) /\ DataAt(p, j) => i = j
  /\ \A i, j \in 1..Len(toS) : GoAt(p, i) /\ GoAt(p, j) => i = j
  /\ ~(Sending(p) /\ Answering(p))
  /\ Sending(p) \/ Answering(p) => rec[p].queue = <<>> /\ rec[p].work \notin {"write", "ack"}
  /\ Len(rec[p].queue) <= 1
  /\ rec[p].work \in {"write", "ack"} => rec[p].queue = <<>>

\* A publish begins once, with its first frame, and nothing is received for it
\* before its begin was handled or after it was told of success.
Course(p) ==
  /\ Arriving(p) => ~Sending(p) /\ ~Answering(p) /\ rec[p] = NoRec
  /\ ~(Announced(p) /\ begin[p].at # "no")
  /\ pub[p] = "new" =>
       /\ begin[p].at = "no" /\ rec[p] = NoRec
       /\ \A i \in 1..Len(toR) : toR[i].pub # p
       /\ \A i \in 1..Len(toS) : toS[i].pub # p
  /\ \A i \in 1..Len(toR) : BeginAt(p, i) => \A j \in 1..(i - 1) : toR[j].pub # p
  /\ (\E i \in 1..Len(toS) : DoneAt(p, i)) \/ pub[p] = "ok" => ~Arriving(p) /\ rec[p] = NoRec

\* What is under way, queued or in the worker's hands is the chunk after those
\* that were received.
Numbers(p) == rec[p].table =>
  /\ \A i \in 1..Len(toR) : toR[i].pub = p /\ toR[i].kind = "chunk" => toR[i].n = rec[p].got
  /\ \A i \in 1..Len(toS) : toS[i].pub = p /\ toS[i].kind = "ready" => toS[i].n = rec[p].got
  /\ \A i \in 1..Len(toS) : toS[i].pub = p /\ toS[i].kind = "ack" => toS[i].n + 1 = rec[p].got
  /\ rec[p].queue # <<>> => Head(rec[p].queue) \in {rec[p].got, EndMark}
  /\ rec[p].work \in {"write", "ack"} => rec[p].seq + 1 = rec[p].got
  /\ rec[p].acked <= rec[p].got
  /\ rec[p].work = "write" => rec[p].acked < rec[p].got
  /\ rec[p].work \in {"sync", "commit"} => rec[p].got = Chunks

\* What the nodes know of the link.
LinkInv == link = "up" => sees["S"] = "up" /\ sees["R"] = "up"

\* What the phase of a receive says of its worker, of its stream and of the link.
Phase(p) ==
  /\ rec[p].table <=> rec[p].phase \in {"receiving", "ending", "committing", "aborting", "parked"}
  /\ rec[p].work = "mark" => rec[p].phase = "completed"
  /\ ~rec[p].table /\ rec[p].work # "mark" => rec[p] = NoRec
  /\ rec[p].work \in {"commit", "unlink", "linked"} => rec[p].phase \in {"committing", "aborting"}
  /\ rec[p].phase = "committing" => rec[p].work \in {"commit", "unlink", "linked"}
  /\ rec[p] # NoRec => rec[p].tok \in Tokens
  /\ rec[p].park # "no" <=> rec[p].phase = "parked"
  /\ rec[p].phase = "parked" => sees["R"] = "failing"
  /\ rec[p].phase \in {"receiving", "ending"} => "R" \in open[p] /\ sees["R"] # "down"
  /\ begin[p].at # "no" /\ sees["R"] = "up" => "R" \in open[p]

Active(p) == Arriving(p) \/ rec[p].phase \in {"receiving", "ending", "parked"}
CancelFollows(p, j) == CancelAt(p, j) /\ \A i \in 1..Len(toR) : BeginAt(p, i) => i < j
Past(p) == \E q \in Pubs : p < q /\ pub[q] # "new"

OrderInv == \A p \in Pubs :
  /\ link = "up" /\ pub[p] \notin {"begin", "sending", "ended"} /\ Active(p) =>
       \E j \in 1..Len(toR) : CancelFollows(p, j)
  /\ \A q \in Pubs : p < q /\ Active(p) =>
       /\ begin[q].at = "no" /\ ~rec[q].table
       /\ \A k \in 1..Len(toR) : BeginAt(q, k) => \E j \in 1..(k - 1) : CancelFollows(p, j)
  /\ Past(p) =>
       /\ pub[p] \in {"ok", "failed"}
       /\ rec[p].table \/ Arriving(p) =>
            ~Sending(p) /\ rec[p].queue = <<>> /\ rec[p].work \in {"off", "seed", "get", "done"}

\* The receive that may use its file: no later publish has begun, or it is not
\* given up yet.  Its file holds what it received.
Leads(p) == ~Past(p) \/ rec[p].phase \in {"receiving", "ending", "parked"}
Written(r) == IF r.work = "write" THEN r.got - 1 ELSE r.got
FileInv ==
  /\ file \in [Tokens -> Files]
  /\ \A p \in Pubs :
       rec[p].table /\ Leads(p) /\ rec[p].park # "note" /\ file[rec[p].tok] # Gone
         => Len(file[rec[p].tok]) >= Written(rec[p])

Firm ==
  \/ \E p \in Pubs : pub[p] = "ok" \/ rec[p].work = "mark"
  \/ \E i \in 1..Len(toS) : toS[i].kind \in {"ok", "committed"}
  \/ \E t \in Tokens : journal[t].state = "committed"
Put == {"unlink", "linked"}
FirmInv ==
  /\ final \in {Gone, Whole}
  /\ \A p \in Pubs : rec[p].work \in Put => final = Whole
  /\ Firm => final = Whole /\ \A p \in Pubs : rec[p].work \in Put => ~rec[p].made

\* A partial file shares the bytes of the final one during its commit only.
TwinInv ==
  /\ twin \in Tokens \cup {None}
  /\ twin # None => \E q \in Pubs : rec[q].work = "unlink" /\ rec[q].tok = twin

-----------------------------------------------------------------------------
(* Frames under way.                                                         *)

\* What becomes of a channel s: d frames are taken from its front, the end may be
\* cut off, and what is new at the end is in N.
Moves(s, t, d, N) ==
  /\ d \in {0, 1}
  /\ \A i \in 1..Len(t) : IF i + d <= Len(s) THEN t[i] = s[i + d] ELSE t[i] \in N

LEMMA StayMoves ==
  ASSUME NEW s \in Seq(Frames), NEW N PROVE Moves(s, s, 0, N)
BY DEF Moves

LEMMA AppendMoves ==
  ASSUME NEW s \in Seq(Frames), NEW f \in Frames
  PROVE  /\ Append(s, f) \in Seq(Frames) /\ Moves(s, Append(s, f), 0, {f})
         /\ Len(Append(s, f)) = Len(s) + 1 /\ Append(s, f)[Len(s) + 1] = f
<1>1. Append(s, f) \in Seq(Frames) /\ Len(Append(s, f)) = Len(s) + 1 /\ Len(s) \in Nat
  OBVIOUS
<1>2. \A i \in 1..(Len(s) + 1) : Append(s, f)[i] = IF i <= Len(s) THEN s[i] ELSE f
  BY <1>1
<1> QED
  BY <1>1, <1>2 DEF Moves

LEMMA TailMoves ==
  ASSUME NEW s \in Seq(Frames), s # <<>>
  PROVE  /\ Tail(s) \in Seq(Frames) /\ Moves(s, Tail(s), 1, {})
         /\ Len(Tail(s)) = Len(s) - 1
         /\ Head(s) \in Frames /\ Len(s) >= 1 /\ Head(s) = s[1]
<1>1. Len(s) \in Nat /\ Len(s) >= 1
  OBVIOUS
<1>2. Len(Tail(s)) = Len(s) - 1 /\ \A i \in 1..Len(Tail(s)) : Tail(s)[i] = s[i + 1]
  OBVIOUS
<1> QED
  BY <1>1, <1>2 DEF Moves

LEMMA CutMoves ==
  ASSUME NEW s \in Seq(Frames), NEW n \in 0..Len(s)
  PROVE  SubSeq(s, 1, n) \in Seq(Frames) /\ Moves(s, SubSeq(s, 1, n), 0, {})
<1>1. Len(s) \in Nat /\ n \in Nat
  OBVIOUS
<1>2. Len(SubSeq(s, 1, n)) = n /\ \A i \in 1..n : SubSeq(s, 1, n)[i] = s[i]
  BY <1>1
<1> QED
  BY <1>1, <1>2 DEF Moves

LEMMA EmptyMoves ==
  ASSUME NEW s \in Seq(Frames)
  PROVE  <<>> \in Seq(Frames) /\ Moves(s, <<>>, 0, {})
BY DEF Moves

LEMMA TwoMove ==
  ASSUME NEW s \in Seq(Frames), NEW f \in Frames, NEW g \in Frames
  PROVE  /\ s \o <<f, g>> \in Seq(Frames) /\ Moves(s, s \o <<f, g>>, 0, {f, g})
         /\ Len(s \o <<f, g>>) = Len(s) + 2 /\ (s \o <<f, g>>)[Len(s) + 1] = f
<1>1. <<f, g>> \in Seq(Frames) /\ Len(<<f, g>>) = 2 /\ <<f, g>>[1] = f /\ <<f, g>>[2] = g
  OBVIOUS
<1>2. /\ s \o <<f, g>> \in Seq(Frames) /\ Len(s \o <<f, g>>) = Len(s) + 2
      /\ \A i \in 1..(Len(s) + 2) :
           (s \o <<f, g>>)[i] = IF i <= Len(s) THEN s[i] ELSE <<f, g>>[i - Len(s)]
  BY <1>1
<1> QED
  BY <1>1, <1>2 DEF Moves

\* The frames of the protocol are of the frame type.
LEMMA FrameType ==
  ASSUME NEW k \in {"begin", "again", "chunk", "end", "cancel", "close",
                    "ready", "ack", "committed", "ok", "error"},
         NEW p \in Pubs, NEW n \in 0..Chunks, NEW t \in Tokens \cup {None}
  PROVE  /\ Frame(k, p, n, t) \in Frames
         /\ Frame(k, p, n, t).kind = k /\ Frame(k, p, n, t).pub = p
         /\ Frame(k, p, n, t).n = n /\ Frame(k, p, n, t).tok = t
BY DEF Frame, Frames

\* A frame is appended, or lost in a broken transport.
LEMMA ToRMoves ==
  ASSUME Types, NEW f \in Frames, ToR(f)
  PROVE  toR' \in Seq(Frames) /\ Moves(toR, toR', 0, {f}) /\ Len(toR') >= Len(toR)
BY StayMoves, AppendMoves DEF ToR, Types

LEMMA ToSMoves ==
  ASSUME Types, NEW f \in Frames, ToS(f) \/ Answers(f) \/ UNCHANGED toS
  PROVE  toS' \in Seq(Frames) /\ Moves(toS, toS', 0, {f}) /\ Len(toS') <= Len(toS) + 1
<1>1. toS \in Seq(Frames)
  BY DEF Types
<1>2. toS' = toS \/ toS' = Append(toS, f)
  BY DEF ToS, Answers
<1>3. Len(toS) \in Nat
  BY <1>1
<1>4. CASE toS' = toS
  BY <1>1, <1>3, <1>4, StayMoves
<1>5. CASE toS' = Append(toS, f)
  <2>1. Append(toS, f) \in Seq(Frames) /\ Moves(toS, Append(toS, f), 0, {f})
        /\ Len(Append(toS, f)) = Len(toS) + 1
    BY <1>1, AppendMoves
  <2> QED
    BY <1>3, <1>5, <2>1
<1> QED
  BY <1>2, <1>4, <1>5

-----------------------------------------------------------------------------
(* Steps that send nothing that goes on and take nothing on.                 *)

\* The channels are moved, and p gets no frame that counts for its turn.
Quietly(p) ==
  \E d, e \in {0, 1}, N, M \in SUBSET Frames :
    /\ Moves(toR, toR', d, N) /\ Moves(toS, toS', e, M)
    /\ \A f \in N : f.pub = p => pub[p] # "new" /\ f.kind \notin {"begin", "chunk", "end"}
    /\ \A f \in M : f.pub = p => pub[p] # "new" /\ f.kind \notin {"ready", "ack", "ok", "committed"}

\* The frames of p that count afterwards were there before.
LEMMA QuietFrames ==
  ASSUME Types, Types', NEW p \in Pubs, Quietly(p)
  PROVE  /\ Sending(p)' => Sending(p)
         /\ Answering(p)' => Answering(p)
         /\ Announced(p)' => Announced(p)
         /\ (\E i \in 1..Len(toS) : DoneAt(p, i))' => \E i \in 1..Len(toS) : DoneAt(p, i)
<1>1. PICK d \in {0, 1}, e \in {0, 1}, N \in SUBSET Frames, M \in SUBSET Frames :
        /\ Moves(toR, toR', d, N) /\ Moves(toS, toS', e, M)
        /\ \A f \in N : f.pub = p => f.kind \notin {"begin", "chunk", "end"}
        /\ \A f \in M : f.pub = p => f.kind \notin {"ready", "ack", "ok", "committed"}
  BY DEF Quietly
<1>2. Len(toR) \in Nat /\ Len(toS) \in Nat /\ Len(toR') \in Nat /\ Len(toS') \in Nat
  BY DEF Types
<1>3. ASSUME NEW i \in 1..Len(toR'), toR'[i].pub = p, toR'[i].kind \in {"begin", "chunk", "end"}
      PROVE  i + d \in 1..Len(toR) /\ toR'[i] = toR[i + d]
  BY <1>1, <1>2, <1>3 DEF Moves
<1>4. ASSUME NEW i \in 1..Len(toS'), toS'[i].pub = p,
             toS'[i].kind \in {"ready", "ack", "ok", "committed"}
      PROVE  i + e \in 1..Len(toS) /\ toS'[i] = toS[i + e]
  BY <1>1, <1>2, <1>4 DEF Moves
<1>5. Sending(p)' => Sending(p)
  BY <1>3 DEF Sending, DataAt
<1>6. Answering(p)' => Answering(p)
  BY <1>4 DEF Answering, GoAt
<1>7. Announced(p)' => Announced(p)
  BY <1>3 DEF Announced, BeginAt
<1>8. (\E i \in 1..Len(toS) : DoneAt(p, i))' => \E i \in 1..Len(toS) : DoneAt(p, i)
  BY <1>4 DEF DoneAt
<1> QED
  BY <1>5, <1>6, <1>7, <1>8

\* Such a step keeps the turn of p when the worker takes up no chunk.
LEMMA TurnQuiet ==
  ASSUME Types, Types', NEW p \in Pubs, Turn(p), Quietly(p),
         rec'[p].queue \in {<<>>, rec[p].queue},
         rec'[p].work \in {"write", "ack"} => rec[p].work \in {"write", "ack"}
  PROVE  Turn(p)'
<1>1. PICK d \in {0, 1}, e \in {0, 1}, N \in SUBSET Frames, M \in SUBSET Frames :
        /\ Moves(toR, toR', d, N) /\ Moves(toS, toS', e, M)
        /\ \A f \in N : f.pub = p => f.kind \notin {"begin", "chunk", "end"}
        /\ \A f \in M : f.pub = p => f.kind \notin {"ready", "ack", "ok", "committed"}
  BY DEF Quietly
<1>2. Len(toR) \in Nat /\ Len(toS) \in Nat /\ Len(toR') \in Nat /\ Len(toS') \in Nat
  BY DEF Types
<1>3. ASSUME NEW i \in 1..Len(toR'), DataAt(p, i)'
      PROVE  i + d \in 1..Len(toR) /\ DataAt(p, i + d)
  BY <1>1, <1>2, <1>3 DEF Moves, DataAt
<1>4. ASSUME NEW i \in 1..Len(toS'), GoAt(p, i)'
      PROVE  i + e \in 1..Len(toS) /\ GoAt(p, i + e)
  BY <1>1, <1>2, <1>4 DEF Moves, GoAt
<1>5. \A i, j \in 1..Len(toR') : DataAt(p, i)' /\ DataAt(p, j)' => i = j
  <2> SUFFICES ASSUME NEW i \in 1..Len(toR'), NEW j \in 1..Len(toR'), DataAt(p, i)', DataAt(p, j)'
               PROVE  i = j
    OBVIOUS
  <2>1. i + d = j + d
    BY <1>3 DEF Turn
  <2> QED
    BY <2>1
<1>6. \A i, j \in 1..Len(toS') : GoAt(p, i)' /\ GoAt(p, j)' => i = j
  <2> SUFFICES ASSUME NEW i \in 1..Len(toS'), NEW j \in 1..Len(toS'), GoAt(p, i)', GoAt(p, j)'
               PROVE  i = j
    OBVIOUS
  <2>1. i + e = j + e
    BY <1>4 DEF Turn
  <2> QED
    BY <2>1
<1>7. (Sending(p)' => Sending(p)) /\ (Answering(p)' => Answering(p))
  BY QuietFrames
<1>8. Len(<<>>) = 0
  OBVIOUS
<1>9. /\ ~(Sending(p)' /\ Answering(p)')
      /\ Sending(p)' \/ Answering(p)' => rec'[p].queue = <<>> /\ rec'[p].work \notin {"write", "ack"}
      /\ Len(rec'[p].queue) <= 1
      /\ rec'[p].work \in {"write", "ack"} => rec'[p].queue = <<>>
  BY <1>7, <1>8 DEF Turn
<1> QED
  BY <1>5, <1>6, <1>9 DEF Turn

\* And its course, when nothing new is received for it.
LEMMA CourseQuiet ==
  ASSUME Types, Types', NEW p \in Pubs, Course(p), Quietly(p),
         begin'[p].at # "no" => begin[p].at # "no",
         rec'[p] = rec[p] \/ rec[p] # NoRec \/ rec'[p] = NoRec,
         pub'[p] = pub[p] \/ (pub[p] # "new" /\ pub'[p] \notin {"new", "ok"})
  PROVE  Course(p)'
<1>1. PICK d \in {0, 1}, e \in {0, 1}, N \in SUBSET Frames, M \in SUBSET Frames :
        /\ Moves(toR, toR', d, N) /\ Moves(toS, toS', e, M)
        /\ \A f \in N : f.pub = p => pub[p] # "new" /\ f.kind \notin {"begin", "chunk", "end"}
        /\ \A f \in M : f.pub = p => pub[p] # "new" /\ f.kind \notin {"ready", "ack", "ok", "committed"}
  BY DEF Quietly
<1>2. Len(toR) \in Nat /\ Len(toS) \in Nat /\ Len(toR') \in Nat /\ Len(toS') \in Nat
  BY DEF Types
<1>3. /\ Sending(p)' => Sending(p)
      /\ Answering(p)' => Answering(p)
      /\ Announced(p)' => Announced(p)
      /\ (\E i \in 1..Len(toS) : DoneAt(p, i))' => \E i \in 1..Len(toS) : DoneAt(p, i)
  BY QuietFrames
<1>4. Arriving(p)' => Arriving(p)
  BY <1>3 DEF Arriving
<1>5. ASSUME pub'[p] = "new"
      PROVE  /\ begin'[p].at = "no" /\ rec'[p] = NoRec
             /\ \A i \in 1..Len(toR') : toR'[i].pub # p
             /\ \A i \in 1..Len(toS') : toS'[i].pub # p
  <2>1. pub[p] = "new"
    BY <1>5
  <2>5. begin[p].at = "no" /\ rec[p] = NoRec
    BY <2>1 DEF Course
  <2>2. begin'[p].at = "no" /\ rec'[p] = NoRec
    BY <2>5
  <2>3. ASSUME NEW i \in 1..Len(toR'), toR'[i].pub = p PROVE FALSE
    <3>1. i + d \in 1..Len(toR) /\ toR'[i] = toR[i + d]
      BY <2>1, <2>3, <1>1, <1>2 DEF Moves
    <3> QED
      BY <2>1, <2>3, <3>1 DEF Course
  <2>4. ASSUME NEW i \in 1..Len(toS'), toS'[i].pub = p PROVE FALSE
    <3>1. i + e \in 1..Len(toS) /\ toS'[i] = toS[i + e]
      BY <2>1, <2>4, <1>1, <1>2 DEF Moves
    <3> QED
      BY <2>1, <2>4, <3>1 DEF Course
  <2> QED
    BY <2>2, <2>3, <2>4
<1>6. ASSUME NEW i \in 1..Len(toR'), BeginAt(p, i)', NEW j \in 1..(i - 1)
      PROVE  toR'[j].pub # p
  <2>1. i + d <= Len(toR) /\ BeginAt(p, i + d)
    BY <1>1, <1>2, <1>6 DEF Moves, BeginAt
  <2>2. j \in 1..Len(toR') /\ j + d <= Len(toR) /\ j + d \in 1..((i + d) - 1)
    BY <2>1, <1>2
  <2>3. toR'[j] = toR[j + d]
    BY <2>2, <1>1 DEF Moves
  <2>4. i + d \in 1..Len(toR)
    BY <2>1, <1>2
  <2> QED
    BY <2>1, <2>2, <2>3, <2>4 DEF Course
<1>7. /\ Arriving(p)' => ~Sending(p)' /\ ~Answering(p)' /\ rec'[p] = NoRec
      /\ ~(Announced(p)' /\ begin'[p].at # "no")
  BY <1>3, <1>4 DEF Course
<1>8. (\E i \in 1..Len(toS) : DoneAt(p, i))' \/ pub'[p] = "ok" => ~Arriving(p)' /\ rec'[p] = NoRec
  BY <1>3, <1>4 DEF Course
<1> QED
  BY <1>5, <1>6, <1>7, <1>8 DEF Course

\* And its numbers, when what the worker has in hand stays what it is.
LEMMA NumbersQuiet ==
  ASSUME Types, Types', NEW p \in Pubs, Numbers(p), Quietly(p),
         rec'[p].table =>
           /\ rec[p].table /\ rec'[p].got = rec[p].got /\ rec'[p].acked \in {rec[p].acked, rec[p].got}
           /\ rec'[p].queue \in {<<>>, rec[p].queue} /\ rec'[p].seq = rec[p].seq
           /\ rec'[p].work \in {"write", "ack"} => rec[p].work \in {"write", "ack"}
           /\ rec'[p].work = "write" => rec[p].work = "write" /\ rec'[p].acked = rec[p].acked
           /\ rec'[p].work \in {"sync", "commit"} => rec[p].work \in {"sync", "commit"} \/ rec[p].got = Chunks
  PROVE  Numbers(p)'
<1>1. PICK d \in {0, 1}, e \in {0, 1}, N \in SUBSET Frames, M \in SUBSET Frames :
        /\ Moves(toR, toR', d, N) /\ Moves(toS, toS', e, M)
        /\ \A f \in N : f.pub = p => f.kind \notin {"begin", "chunk", "end"}
        /\ \A f \in M : f.pub = p => f.kind \notin {"ready", "ack", "ok", "committed"}
  BY DEF Quietly
<1>2. Len(toR) \in Nat /\ Len(toS) \in Nat /\ Len(toR') \in Nat /\ Len(toS') \in Nat
  BY DEF Types
<1>3. ASSUME NEW i \in 1..Len(toR'), toR'[i].pub = p, toR'[i].kind = "chunk"
      PROVE  i + d \in 1..Len(toR) /\ toR'[i] = toR[i + d]
  BY <1>1, <1>2, <1>3 DEF Moves
<1>4. ASSUME NEW i \in 1..Len(toS'), toS'[i].pub = p, toS'[i].kind \in {"ready", "ack"}
      PROVE  i + e \in 1..Len(toS) /\ toS'[i] = toS[i + e]
  BY <1>1, <1>2, <1>4 DEF Moves
<1>5. SUFFICES ASSUME rec'[p].table PROVE Numbers(p)'
  BY DEF Numbers
<1>6. /\ \A i \in 1..Len(toR') : toR'[i].pub = p /\ toR'[i].kind = "chunk" => toR'[i].n = rec'[p].got
      /\ \A i \in 1..Len(toS') : toS'[i].pub = p /\ toS'[i].kind = "ready" => toS'[i].n = rec'[p].got
      /\ \A i \in 1..Len(toS') : toS'[i].pub = p /\ toS'[i].kind = "ack" => toS'[i].n + 1 = rec'[p].got
  BY <1>3, <1>4, <1>5, SMTT(30) DEF Numbers
<1>7. /\ rec'[p].queue # <<>> => Head(rec'[p].queue) \in {rec'[p].got, EndMark}
      /\ rec'[p].work \in {"write", "ack"} => rec'[p].seq + 1 = rec'[p].got
      /\ rec'[p].acked <= rec'[p].got
      /\ rec'[p].work = "write" => rec'[p].acked < rec'[p].got
      /\ rec'[p].work \in {"sync", "commit"} => rec'[p].got = Chunks
  <2>1. rec[p] \in Receives /\ rec[p].got \in Nat /\ rec[p].acked \in Nat
    BY SMTT(30) DEF Types, Receives
  <2> QED
    BY <1>5, <2>1 DEF Numbers
<1> QED
  BY <1>6, <1>7 DEF Numbers, EndMark

-----------------------------------------------------------------------------
(* Types.                                                                    *)

\* The constants, and the files of the model.
LEMMA Constants ==
  ASSUME ArtifactAssumption
  PROVE  /\ Chunks \in Nat /\ Chunks >= 1 /\ Pubs = Tokens /\ None \notin Tokens
         /\ Pubs \subseteq Nat /\ 0 \in 0..Chunks /\ EndMark \in Nat
         /\ NoRec \in Receives /\ NoReceipt \in Receipts
BY DEF ArtifactAssumption, Pubs, Tokens, None, EndMark, NoRec, NoReceipt, Receives, Receipts, Phases, Works

LEMMA PrefixFacts ==
  ASSUME NEW n \in Nat
  PROVE  /\ Prefix(n) \in Seq(Nat) /\ Len(Prefix(n)) = n
         /\ \A i \in 1..n : Prefix(n)[i] = i
         /\ Prefix(n) # Gone
<1>1. Prefix(n) \in Seq(Nat) /\ Len(Prefix(n)) = n /\ \A i \in 1..n : Prefix(n)[i] = i
  BY DEF Prefix
<1>2. Gone[1] = -1 /\ Len(Gone) = 1
  BY DEF Gone
<1>3. Prefix(n) # Gone
  <2>1. CASE n = 1
    BY <2>1, <1>1, <1>2
  <2>2. CASE n # 1
    BY <2>2, <1>1, <1>2
  <2> QED
    BY <2>1, <2>2
<1> QED
  BY <1>1, <1>3

\* Moving one receive to another one.
LEMMA RecType ==
  ASSUME Types, NEW p \in Pubs, NEW r \in Receives, rec' = [rec EXCEPT ![p] = r]
  PROVE  rec' \in [Pubs -> Receives] /\ rec'[p] = r /\ \A q \in Pubs \ {p} : rec'[q] = rec[q]
BY DEF Types

\* The next chunk or the end is sent.
LEMMA SendChunkType ==
  ASSUME ArtifactAssumption, Types, NEW p \in Pubs, NEW i \in 0..Chunks, SendChunk(p, i)
  PROVE  /\ sent' \in [Pubs -> 0..Chunks]
         /\ pub' \in [Pubs -> {"new", "retry", "ok", "failed"} \cup Running]
         /\ \A q \in Pubs : pub'[q] = "sending" => sent'[q] < Chunks
         /\ toR' \in Seq(Frames)
<1>1. /\ Frame("chunk", p, i, None) \in Frames /\ Frame("end", p, i, None) \in Frames
  BY FrameType
<1>2. toR' \in Seq(Frames)
  BY <1>1, ToRMoves DEF SendChunk
<1>3. Chunks \in Nat
  BY Constants
<1> QED
  BY <1>2, <1>3 DEF SendChunk, Types, Running

LEMMA GiveUpType ==
  ASSUME ArtifactAssumption, Types, NEW p \in Pubs, GiveUp(p)
  PROVE  /\ pub' = [pub EXCEPT ![p] = "failed"] /\ sent' = sent /\ known' = known
         /\ pub' \in [Pubs -> {"new", "retry", "ok", "failed"} \cup Running]
         /\ \A q \in Pubs : pub'[q] = "sending" => sent'[q] < Chunks
         /\ toR' \in Seq(Frames)
<1>1. Frame("cancel", p, 0, None) \in Frames
  BY FrameType, Constants
<1>2. toR' \in Seq(Frames)
  BY <1>1, ToRMoves DEF GiveUp
<1> QED
  BY <1>2 DEF GiveUp, Types

\* The frame at the head of a channel.
LEMMA HeadR ==
  ASSUME Types, toR # <<>>
  PROVE  /\ Head(toR) \in Frames /\ Head(toR) = toR[1] /\ Len(toR) >= 1 /\ Len(toR) \in Nat
         /\ Tail(toR) \in Seq(Frames) /\ Moves(toR, Tail(toR), 1, {})
         /\ Len(Tail(toR)) = Len(toR) - 1
         /\ Head(toR).pub \in Pubs /\ Head(toR).n \in 0..Chunks /\ Head(toR).tok \in Tokens \cup {None}
<1>1. toR \in Seq(Frames)
  BY DEF Types
<1>2. /\ Head(toR) \in Frames /\ Head(toR) = toR[1] /\ Len(toR) >= 1 /\ Len(toR) \in Nat
      /\ Tail(toR) \in Seq(Frames) /\ Moves(toR, Tail(toR), 1, {})
      /\ Len(Tail(toR)) = Len(toR) - 1
  BY <1>1, TailMoves
<1>3. \A f \in Frames : f.pub \in Pubs /\ f.n \in 0..Chunks /\ f.tok \in Tokens \cup {None}
  BY DEF Frames
<1> QED
  BY <1>2, <1>3

LEMMA HeadS ==
  ASSUME Types, toS # <<>>
  PROVE  /\ Head(toS) \in Frames /\ Head(toS) = toS[1] /\ Len(toS) >= 1 /\ Len(toS) \in Nat
         /\ Tail(toS) \in Seq(Frames) /\ Moves(toS, Tail(toS), 1, {})
         /\ Len(Tail(toS)) = Len(toS) - 1
         /\ Head(toS).pub \in Pubs /\ Head(toS).n \in 0..Chunks /\ Head(toS).tok \in Tokens \cup {None}
<1>1. toS \in Seq(Frames)
  BY DEF Types
<1>2. /\ Head(toS) \in Frames /\ Head(toS) = toS[1] /\ Len(toS) >= 1 /\ Len(toS) \in Nat
      /\ Tail(toS) \in Seq(Frames) /\ Moves(toS, Tail(toS), 1, {})
      /\ Len(Tail(toS)) = Len(toS) - 1
  BY <1>1, TailMoves
<1>3. \A f \in Frames : f.pub \in Pubs /\ f.n \in 0..Chunks /\ f.tok \in Tokens \cup {None}
  BY DEF Frames
<1> QED
  BY <1>2, <1>3

\* Ready frames keep naming a token.
ReadyNamed(s) == \A i \in 1..Len(s) : s[i].kind = "ready" => s[i].tok \in Tokens

LEMMA NamedMoves ==
  ASSUME Types, toS' \in Seq(Frames), NEW e \in {0, 1}, NEW M, Moves(toS, toS', e, M),
         \A f \in M : f.kind = "ready" => f.tok \in Tokens
  PROVE  ReadyNamed(toS')
<1>1. Len(toS) \in Nat /\ Len(toS') \in Nat /\ ReadyNamed(toS)
  BY DEF Types, ReadyNamed
<1> QED
  BY <1>1 DEF Moves, ReadyNamed

SenderTypes ==
  /\ pub \in [Pubs -> {"new", "retry", "ok", "failed"} \cup Running]
  /\ sent \in [Pubs -> 0..Chunks]
  /\ \A p \in Pubs : pub[p] = "sending" => sent[p] < Chunks
  /\ open \in [Pubs -> SUBSET {"S", "R"}]
  /\ known \in Tokens \cup {None}
  /\ toR \in Seq(Frames)

\* Steps of the sender.
LEMMA SenderTypesStep ==
  ASSUME ArtifactAssumption, Types, Sender PROVE SenderTypes' /\ toS' \in Seq(Frames) /\ ReadyNamed(toS')
<1> USE DEF SenderTypes
<1>0. toS \in Seq(Frames) /\ ReadyNamed(toS) /\ toR \in Seq(Frames)
  BY DEF Types, ReadyNamed
<1>1. CASE Reply
  <2>1. toS # <<>> /\ toS' = Tail(toS) /\ open' = open
    BY <1>1 DEF Reply
  <2>2. toS' \in Seq(Frames) /\ ReadyNamed(toS')
    BY <2>1, HeadS, NamedMoves
  <2>3. PICK p \in Pubs, n \in 0..Chunks, t \in Tokens \cup {None} :
          /\ Head(toS).pub = p /\ Head(toS).n = n /\ Head(toS).tok = t
          /\ Head(toS).kind = "ready" => t \in Tokens
    <3>1. 1 \in 1..Len(toS) /\ Head(toS) = toS[1] /\ Head(toS).pub \in Pubs
          /\ Head(toS).n \in 0..Chunks /\ Head(toS).tok \in Tokens \cup {None}
      BY <2>1, HeadS
    <3> QED
      BY <3>1, <1>0 DEF ReadyNamed
  <2>4. CASE Head(toS).kind = "ready" /\ pub[p] = "begin" /\ known' = t /\ SendChunk(p, n)
    BY <2>2, <2>3, <2>4, <2>1, SendChunkType DEF Types
  <2>5. CASE Head(toS).kind = "ack" /\ pub[p] = "sending" /\ n = sent[p] /\ SendChunk(p, n + 1) /\ UNCHANGED known
    <3>1. n + 1 \in 0..Chunks
      BY <2>5, Constants DEF Types
    <3> QED
      BY <2>2, <2>5, <2>1, <3>1, SendChunkType DEF Types
  <2>6. CASE pub' = [pub EXCEPT ![p] = "ok"] /\ UNCHANGED <<sent, known, toR>>
    BY <2>2, <2>6, <2>1, <1>0 DEF Types
  <2>7. CASE GiveUp(p)
    BY <2>2, <2>7, <2>1, GiveUpType DEF Types
  <2>8. CASE UNCHANGED <<sendVars, toR>>
    BY <2>2, <2>8, <2>1, <1>0 DEF Types, sendVars
  <2> QED
    BY <1>1, <2>3, <2>4, <2>5, <2>6, <2>7, <2>8 DEF Reply
<1>2. ASSUME NEW p \in Pubs, Publish(p) PROVE SenderTypes' /\ toS' \in Seq(Frames) /\ ReadyNamed(toS')
  <2>1. Frame("begin", p, 0, known) \in Frames
    BY FrameType, Constants DEF Types
  <2>2. toR' \in Seq(Frames)
    BY <1>2, <2>1, ToRMoves DEF Publish
  <2> QED
    BY <1>2, <1>0, <2>2 DEF Publish, Types, Running
<1>3. ASSUME NEW p \in Pubs, TimesOut(p) PROVE SenderTypes' /\ toS' \in Seq(Frames) /\ ReadyNamed(toS')
  BY <1>3, <1>0, GiveUpType DEF TimesOut, Types
<1>4. ASSUME NEW p \in Pubs, WriteFails(p) PROVE SenderTypes' /\ toS' \in Seq(Frames) /\ ReadyNamed(toS')
  BY <1>4, <1>0 DEF WriteFails, Types
<1>5. ASSUME NEW p \in Pubs, ClientCloses(p) PROVE SenderTypes' /\ toS' \in Seq(Frames) /\ ReadyNamed(toS')
  <2>1. Frame("cancel", p, 0, None) \in Frames /\ Frame("close", p, 0, None) \in Frames
    BY FrameType, Constants
  <2>2. toR' \in Seq(Frames)
    BY <1>5, <1>0, <2>1, TwoMove DEF ClientCloses
  <2> QED
    BY <1>5, <1>0, <2>2 DEF ClientCloses, Interrupted, Types, Running
<1>6. ASSUME NEW p \in Pubs, Again(p) PROVE SenderTypes' /\ toS' \in Seq(Frames) /\ ReadyNamed(toS')
  <2>1. Frame("again", p, 0, known) \in Frames
    BY FrameType, Constants DEF Types
  <2>2. toR' \in Seq(Frames)
    BY <1>6, <2>1, ToRMoves DEF Again
  <2> QED
    BY <1>6, <1>0, <2>2 DEF Again, Types, Running
<1>7. ASSUME NEW p \in Pubs, StopsRetrying(p) PROVE SenderTypes' /\ toS' \in Seq(Frames) /\ ReadyNamed(toS')
  BY <1>7, <1>0 DEF StopsRetrying, Types
<1> QED
  BY <1>1, <1>2, <1>3, <1>4, <1>5, <1>6, <1>7 DEF Sender

-----------------------------------------------------------------------------
(* Steps of the worker of one receive.                                       *)

Busy == {"write", "ack", "sync", "commit", "unlink", "linked", "mark"}
Kept == {"receiving", "ending", "parked"}

\* Receive p becomes r, at most f is sent, and the rest of the exchange stands.
Worked(p, r, f) ==
  /\ rec' = [rec EXCEPT ![p] = r] /\ r \in Receives
  /\ toS' \in Seq(Frames) /\ Moves(toS, toS', 0, {f}) /\ f \in Frames /\ f.pub = p
  /\ f.kind # "ready" /\ f.kind # "committed" /\ Len(toS') <= Len(toS) + 1
  /\ journal' \in [Tokens -> Receipts] /\ old' \in SUBSET Tokens
  /\ UNCHANGED <<pub, sent, known, open, link, sees, toR, begin>>

\* A receive goes on without taking up a chunk.
Calm(r, s) ==
  /\ s.queue \in {<<>>, r.queue}
  /\ s.work \in {"write", "ack"} => r.work \in {"write", "ack"}
  /\ r # NoRec
  /\ s.table =>
       /\ r.table /\ s.got = r.got /\ s.acked \in {r.acked, r.got} /\ s.seq = r.seq
       /\ s.work = "write" => r.work = "write" /\ s.acked = r.acked
       /\ s.work \in {"sync", "commit"} => r.work \in {"sync", "commit"} \/ r.got = Chunks

\* What is in the table was there, and a worker with nothing to do takes up nothing.
Onward(r, s) ==
  /\ r # NoRec /\ (s.table => r.table)
  /\ s.phase \in Kept => r.phase \in Kept
  /\ s.queue \in {<<>>, r.queue}
  /\ s.work \in Busy => r.work \in Busy \/ r.queue # <<>>

LEMMA WorkedTypes ==
  ASSUME Types, NEW p \in Pubs, NEW r, NEW f, Worked(p, r, f) PROVE Types'
<1>1. /\ pub' = pub /\ sent' = sent /\ known' = known /\ open' = open /\ toR' = toR /\ begin' = begin
      /\ link' = link /\ sees' = sees
      /\ journal' \in [Tokens -> Receipts] /\ old' \in SUBSET Tokens
  BY DEF Worked
<1>2. rec' \in [Pubs -> Receives] /\ toS' \in Seq(Frames)
  BY RecType DEF Worked
<1>3. ReadyNamed(toS')
  BY NamedMoves DEF Worked
<1> QED
  BY <1>1, <1>2, <1>3 DEF Types, ReadyNamed

\* Nothing happens to the others.
LEMMA WorkedOthers ==
  ASSUME Types, NEW p \in Pubs, NEW r, NEW f, Worked(p, r, f), NEW q \in Pubs, q # p,
         Turn(q), Course(q), Numbers(q), Phase(q)
  PROVE  Turn(q)' /\ Course(q)' /\ Numbers(q)' /\ Phase(q)' /\ rec'[q] = rec[q]
<1>1. Types'
  BY WorkedTypes
<1>2. rec'[q] = rec[q]
  BY RecType DEF Worked
<1>3. toR \in Seq(Frames) /\ toR' = toR
  BY DEF Types, Worked
<1>4. Quietly(q)
  <2>1. Moves(toR, toR', 0, {})
    BY <1>3, StayMoves
  <2>2. Moves(toS, toS', 0, {f}) /\ f \in Frames /\ f.pub = p
    BY DEF Worked
  <2> QED
    BY <2>1, <2>2 DEF Quietly
<1>5. begin' = begin /\ pub' = pub /\ open' = open /\ sees' = sees
  BY DEF Worked
<1>6. Turn(q)'
  BY <1>1, <1>2, <1>4, TurnQuiet
<1>7. Course(q)'
  BY <1>1, <1>2, <1>4, <1>5, CourseQuiet
<1>8. Numbers(q)'
  BY <1>1, <1>2, <1>4, NumbersQuiet
<1>9. Phase(q)'
  BY <1>2, <1>5 DEF Phase
<1> QED
  BY <1>2, <1>6, <1>7, <1>8, <1>9

\* And nothing to its own exchange when no chunk is taken up.
LEMMA WorkedCalm ==
  ASSUME Types, NEW p \in Pubs, NEW r, NEW f, Worked(p, r, f), f.kind = "error",
         Calm(rec[p], r), Turn(p), Course(p), Numbers(p)
  PROVE  Turn(p)' /\ Course(p)' /\ Numbers(p)'
<1>1. Types'
  BY WorkedTypes
<1>2. rec'[p] = r
  BY RecType DEF Worked
<1>3. toR \in Seq(Frames) /\ toR' = toR /\ pub[p] # "new"
  BY DEF Types, Worked, Calm, Course
<1>4. Quietly(p)
  <2>1. Moves(toR, toR', 0, {})
    BY <1>3, StayMoves
  <2>2. Moves(toS, toS', 0, {f}) /\ f \in Frames
    BY DEF Worked
  <2> QED
    BY <2>1, <2>2, <1>3 DEF Quietly
<1>5. begin' = begin /\ pub' = pub
  BY DEF Worked
<1>6. Turn(p)'
  BY <1>1, <1>2, <1>4, TurnQuiet DEF Calm
<1>7. Course(p)'
  BY <1>1, <1>2, <1>4, <1>5, CourseQuiet DEF Calm
<1>8. Numbers(p)'
  BY <1>1, <1>2, <1>4, NumbersQuiet DEF Calm
<1> QED
  BY <1>6, <1>7, <1>8

\* The order of publishes stands as well.
LEMMA WorkedOrder ==
  ASSUME OrderInv, Types, NEW p \in Pubs, NEW r, NEW f, Worked(p, r, f), Onward(rec[p], r),
         \A q \in Pubs : Course(q), \A q \in Pubs : Course(q)', r.table => r.work # "mark",
         rec[p].table => rec[p].work # "mark"
  PROVE  OrderInv'
<1>1. /\ rec'[p] = r /\ \A q \in Pubs \ {p} : rec'[q] = rec[q]
      /\ begin' = begin /\ pub' = pub /\ link' = link /\ toR' = toR
  BY RecType DEF Worked
<1>2. \A q \in Pubs : (Arriving(q)' <=> Arriving(q)) /\ (Sending(q)' <=> Sending(q)) /\ (Past(q)' <=> Past(q))
  BY <1>1 DEF Arriving, Announced, BeginAt, Sending, DataAt, Past
<1>3. \A q \in Pubs : (Active(q)' => Active(q)) /\ (rec'[q].table => rec[q].table)
  BY <1>1, <1>2 DEF Active, Onward, Kept
<1>4. \A q \in Pubs, j \in 1..Len(toR) : (CancelFollows(q, j)' <=> CancelFollows(q, j)) /\ (BeginAt(q, j)' <=> BeginAt(q, j))
  BY <1>1 DEF CancelFollows, CancelAt, BeginAt
<1>5. SUFFICES ASSUME NEW q \in Pubs
      PROVE  /\ link' = "up" /\ pub'[q] \notin {"begin", "sending", "ended"} /\ Active(q)' =>
                  \E j \in 1..Len(toR') : CancelFollows(q, j)'
             /\ \A u \in Pubs : q < u /\ Active(q)' =>
                  /\ begin'[u].at = "no" /\ ~rec'[u].table
                  /\ \A k \in 1..Len(toR') : BeginAt(u, k)' => \E j \in 1..(k - 1) : CancelFollows(q, j)'
             /\ Past(q)' =>
                  /\ pub'[q] \in {"ok", "failed"}
                  /\ rec'[q].table \/ Arriving(q)' =>
                       /\ ~Sending(q)' /\ rec'[q].queue = <<>>
                       /\ rec'[q].work \in {"off", "seed", "get", "done"}
  BY DEF OrderInv
<1>6. link' = "up" /\ pub'[q] \notin {"begin", "sending", "ended"} /\ Active(q)' =>
        \E j \in 1..Len(toR') : CancelFollows(q, j)'
  BY <1>1, <1>3, <1>4 DEF OrderInv
<1>7. ASSUME NEW u \in Pubs, q < u, Active(q)'
      PROVE  /\ begin'[u].at = "no" /\ ~rec'[u].table
             /\ \A k \in 1..Len(toR') : BeginAt(u, k)' => \E j \in 1..(k - 1) : CancelFollows(q, j)'
  <2>1. /\ begin[u].at = "no" /\ ~rec[u].table
        /\ \A k \in 1..Len(toR) : BeginAt(u, k) => \E j \in 1..(k - 1) : CancelFollows(q, j)
    BY <1>3, <1>7 DEF OrderInv
  <2>2. \A k \in 1..Len(toR) : \A j \in 1..(k - 1) : j \in 1..Len(toR)
    BY DEF Types
  <2> QED
    BY <1>1, <1>3, <1>4, <2>1, <2>2
<1>8. ASSUME Past(q)'
      PROVE  /\ pub'[q] \in {"ok", "failed"}
             /\ rec'[q].table \/ Arriving(q)' =>
                  /\ ~Sending(q)' /\ rec'[q].queue = <<>>
                  /\ rec'[q].work \in {"off", "seed", "get", "done"}
  <2>1. /\ pub[q] \in {"ok", "failed"}
        /\ rec[q].table \/ Arriving(q) =>
             /\ ~Sending(q) /\ rec[q].queue = <<>>
             /\ rec[q].work \in {"off", "seed", "get", "done"}
    BY <1>2, <1>8 DEF OrderInv
  <2>2. CASE Arriving(q)'
    <3>1. rec'[q] = NoRec
      BY <2>2 DEF Course
    <3> QED
      BY <2>1, <2>2, <3>1, <1>1, <1>2 DEF NoRec
  <2>3. CASE rec'[q].table /\ q # p
    BY <2>1, <2>3, <1>1, <1>2
  <2>4. CASE rec'[q].table /\ q = p
    <3>1. rec[p].queue = <<>> /\ rec[p].work \in {"off", "seed", "get", "done"} /\ ~Sending(q)
      BY <2>1, <2>4, <1>3
    <3>2. r.queue = <<>> /\ r.work \notin Busy /\ r.work \in Works
      BY <3>1 DEF Onward, Busy, Worked, Receives
    <3> QED
      BY <2>1, <2>4, <3>1, <3>2, <1>1, <1>2 DEF Busy, Works
  <2> QED
    BY <2>1, <2>2, <2>3, <2>4, <1>1
<1> QED
  BY <1>6, <1>7, <1>8

Core ==
  /\ Types
  /\ \A p \in Pubs : Turn(p) /\ Course(p) /\ Numbers(p) /\ Phase(p)
  /\ LinkInv /\ OrderInv

\* Steps of a worker that tell of nothing but a failure keep the core.
LEMMA CalmStep ==
  ASSUME Core, NEW p \in Pubs, NEW r, NEW f, Worked(p, r, f), f.kind = "error",
         Calm(rec[p], r), Onward(rec[p], r), Phase(p)'
  PROVE  Core'
<1>1. Types'
  BY WorkedTypes DEF Core
<1>2. Turn(p)' /\ Course(p)' /\ Numbers(p)'
  BY WorkedCalm DEF Core
<1>3. \A q \in Pubs : Turn(q)' /\ Course(q)' /\ Numbers(q)' /\ Phase(q)'
  BY <1>2, WorkedOthers DEF Core
<1>4. LinkInv'
  BY DEF Worked, Core, LinkInv
<1>5. (rec[p].table => rec[p].work # "mark") /\ (r.table => r.work # "mark")
  <2>1. rec'[p] = r
    BY RecType DEF Worked, Core
  <2> QED
    BY <2>1 DEF Core, Phase
<1>6. OrderInv'
  BY <1>3, <1>5, WorkedOrder DEF Core
<1> QED
  BY <1>1, <1>3, <1>4, <1>6 DEF Core

Stand == UNCHANGED <<pub, sent, known, open, link, sees, toR, begin>>

\* What is told of a failure, if anything.
LEMMA ErrorMoves ==
  ASSUME ArtifactAssumption, Types, NEW p \in Pubs,
         Answers(Frame("error", p, 0, None)) \/ UNCHANGED toS
  PROVE  \E f \in Frames : /\ f.pub = p /\ f.kind = "error"
                           /\ toS' \in Seq(Frames) /\ Moves(toS, toS', 0, {f})
                           /\ Len(toS') <= Len(toS) + 1
<1>1. Frame("error", p, 0, None) \in Frames /\ Frame("error", p, 0, None).pub = p
      /\ Frame("error", p, 0, None).kind = "error"
  BY FrameType, Constants
<1> QED
  BY <1>1, ToSMoves

LEMMA DiscardTypes ==
  ASSUME ArtifactAssumption, Types, NEW t \in Tokens, Discard(t)
  PROVE  journal' \in [Tokens -> Receipts] /\ old' \in SUBSET Tokens
BY Constants DEF Discard, Types

\* A failure of a worker.
LEMMA FailsStep ==
  ASSUME ArtifactAssumption, Core, NEW p \in Pubs, NEW r \in Receives,
         r = rec[p] \/ r = [rec[p] EXCEPT !.queue = <<>>], rec[p] # NoRec, rec[p].work # "mark",
         Fails(p, r), Stand
  PROVE  Core'
<1>1. rec[p] \in Receives /\ rec \in [Pubs -> Receives] /\ r.tok \in Tokens /\ r.tok = rec[p].tok
  BY ZenonT(30) DEF Core, Types, Phase, Receives
<1>2. PICK f \in Frames : /\ f.pub = p /\ f.kind = "error"
                         /\ toS' \in Seq(Frames) /\ Moves(toS, toS', 0, {f}) /\ Len(toS') <= Len(toS) + 1
  BY ErrorMoves DEF Fails, Core
<1>3. journal' \in [Tokens -> Receipts] /\ old' \in SUBSET Tokens
  BY <1>1, DiscardTypes DEF Fails, Core, Types
<1>4. CASE rec' = [rec EXCEPT ![p] = NoRec]
  <2>1. NoRec \in Receives
    BY Constants
  <2>2. Worked(p, NoRec, f)
    BY <1>2, <1>3, <1>4, <2>1 DEF Worked, Stand
  <2>3. Calm(rec[p], NoRec) /\ Onward(rec[p], NoRec)
    BY DEF Calm, Onward, NoRec, Busy, Kept
  <2>4. rec'[p] = NoRec /\ open' = open /\ sees' = sees /\ begin' = begin
    BY <1>1, <1>4 DEF Stand
  <2>5. Phase(p)'
    BY <2>4 DEF Phase, NoRec, Core
  <2> QED
    BY <2>2, <2>3, <2>5, <1>2, CalmStep
<1>5. CASE r.phase = "parked" /\ rec' = [rec EXCEPT ![p] = [r EXCEPT !.work = "done"]]
  <2> DEFINE s == [r EXCEPT !.work = "done"]
  <2>1. s \in Receives /\ s.phase = rec[p].phase /\ s.table = rec[p].table /\ s.work = "done"
        /\ s.queue \in {<<>>, rec[p].queue} /\ s.got = rec[p].got /\ s.acked = rec[p].acked
        /\ s.tok = rec[p].tok /\ s.park = rec[p].park /\ s.seq = rec[p].seq
    BY <1>1 DEF Receives, Works
  <2>2. Worked(p, s, f)
    BY <1>2, <1>3, <1>5, <2>1 DEF Worked, Stand
  <2>3. Calm(rec[p], s) /\ Onward(rec[p], s)
    BY <2>1 DEF Calm, Onward, Busy, Kept
  <2>4. rec'[p] = s /\ open' = open /\ sees' = sees /\ begin' = begin /\ s.phase = "parked"
    BY <1>1, <1>5, <2>1 DEF Stand
  <2>5. Phase(p)'
    BY <2>1, <2>4 DEF Phase, Core
  <2> QED
    BY <2>2, <2>3, <2>5, <1>2, CalmStep
<1> QED
  BY <1>4, <1>5 DEF Fails

\* A worker that goes on without a word.
LEMMA SilentStep ==
  ASSUME ArtifactAssumption, Core, NEW p \in Pubs, NEW s \in Receives, rec' = [rec EXCEPT ![p] = s],
         UNCHANGED <<toS, journal, old>>, Stand, Calm(rec[p], s), Onward(rec[p], s), Phase(p)'
  PROVE  Core'
<1>1. PICK f \in Frames : /\ f.pub = p /\ f.kind = "error"
                         /\ toS' \in Seq(Frames) /\ Moves(toS, toS', 0, {f}) /\ Len(toS') <= Len(toS) + 1
  BY ErrorMoves DEF Core
<1>2. Worked(p, s, f)
  BY <1>1 DEF Worked, Stand, Core, Types
<1> QED
  BY <1>1, <1>2, CalmStep

LEMMA AbortStep ==
  ASSUME ArtifactAssumption, Core, NEW p \in Pubs, Abort(p)
  PROVE  Core'
<1>1. rec[p].table /\ rec[p].phase = "aborting" /\ rec[p] # NoRec /\ rec[p].tok \in Tokens
  BY DEF Abort, Live, Core, Phase, NoRec
<1>2. PICK f \in Frames : /\ f.pub = p /\ f.kind = "error"
                         /\ toS' \in Seq(Frames) /\ Moves(toS, toS', 0, {f}) /\ Len(toS') <= Len(toS) + 1
  BY ErrorMoves DEF Abort, Core
<1>3. journal' \in [Tokens -> Receipts] /\ old' \in SUBSET Tokens
  BY <1>1, DiscardTypes DEF Abort, Core
<1>4. Worked(p, NoRec, f)
  BY <1>2, <1>3, Constants DEF Worked, Abort, sendVars, linkVars
<1>5. Calm(rec[p], NoRec) /\ Onward(rec[p], NoRec)
  BY <1>1 DEF Calm, Onward, NoRec, Busy, Kept
<1>6. rec'[p] = NoRec /\ open' = open /\ sees' = sees /\ begin' = begin
  BY DEF Abort, linkVars, Core, Types
<1>7. Phase(p)'
  BY <1>6 DEF Phase, NoRec, Core
<1> QED
  BY <1>2, <1>4, <1>5, <1>7, CalmStep

LEMMA SeedStep ==
  ASSUME ArtifactAssumption, Core, FileInv, NEW p \in Pubs, Seed(p)
  PROVE  Core'
<1>1. rec[p] \in Receives /\ rec[p].work = "seed" /\ rec[p] # NoRec /\ rec[p].tok \in Tokens
      /\ rec \in [Pubs -> Receives]
  BY DEF Seed, Work, Core, Phase, NoRec, Types
<1>2. Stand
  BY DEF Seed, Stand, sendVars, linkVars
<1>3. CASE Fails(p, rec[p])
  BY <1>1, <1>2, <1>3, FailsStep
<1>4. CASE /\ ~(rec[p].acked > 0 /\ (file[rec[p].tok] = Gone \/ Len(file[rec[p].tok]) < rec[p].acked))
           /\ rec' = [rec EXCEPT ![p].work = "get", ![p].digest =
                IF rec[p].acked = 0 THEN <<>> ELSE SubSeq(file[rec[p].tok], 1, rec[p].acked)]
           /\ UNCHANGED <<toS, file, journal, old>>
  <2> DEFINE d == IF rec[p].acked = 0 THEN <<>> ELSE SubSeq(file[rec[p].tok], 1, rec[p].acked)
             s == [rec[p] EXCEPT !.work = "get", !.digest = d]
  <2>1. d \in Seq(Nat)
    <3>1. rec[p].acked \in 0..Chunks
      BY <1>1 DEF Receives
    <3>2. CASE rec[p].acked # 0
      <4>1. file[rec[p].tok] \in Files /\ file[rec[p].tok] # Gone /\ rec[p].acked <= Len(file[rec[p].tok])
        BY <1>1, <1>4, <3>1, <3>2, Constants DEF FileInv
      <4>2. PICK n \in 0..Chunks : file[rec[p].tok] = Prefix(n)
        BY <4>1 DEF Files
      <4>3. n \in Nat /\ rec[p].acked \in Nat
        BY <3>1, Constants
      <4> HIDE DEF d
      <4>4. Prefix(n) \in Seq(Nat) /\ Len(Prefix(n)) = n
        BY <4>3, PrefixFacts
      <4>5. SubSeq(Prefix(n), 1, rec[p].acked) \in Seq(Nat)
        BY <4>1, <4>2, <4>3, <4>4
      <4> QED
        BY <3>2, <4>2, <4>5 DEF d
    <3> QED
      BY <3>2
  <2> HIDE DEF d
  <2>2. s \in Receives /\ s.phase = rec[p].phase /\ s.table = rec[p].table /\ s.work = "get"
        /\ s.queue = rec[p].queue /\ s.got = rec[p].got /\ s.acked = rec[p].acked
        /\ s.tok = rec[p].tok /\ s.park = rec[p].park /\ s.seq = rec[p].seq
    BY <1>1, <2>1 DEF Receives, Works
  <2>3. rec' = [rec EXCEPT ![p] = s]
    BY <1>1, <1>4 DEF d
  <2> HIDE DEF s
  <2>4. rec'[p] = s /\ open' = open /\ sees' = sees /\ begin' = begin
    BY <1>1, <1>2, <2>3 DEF Stand
  <2>5. Phase(p)'
    BY <1>1, <2>2, <2>4 DEF Phase, Core
  <2>6. Calm(rec[p], s) /\ Onward(rec[p], s)
    BY <1>1, <2>2 DEF Calm, Onward, Busy, Kept
  <2> QED
    BY <1>2, <1>4, <2>2, <2>3, <2>5, <2>6, SilentStep
<1> QED
  BY <1>3, <1>4 DEF Seed

\* A frame of p that is sent while nothing of it is under way.
LEMMA SentAlone ==
  ASSUME Types, NEW p \in Pubs, NEW r, NEW f, Worked(p, r, f), rec[p] # NoRec,
         Turn(p), Course(p), ~Sending(p), ~Answering(p),
         r.queue = <<>>, f.kind \in {"ack", "ok"} => r.work \notin {"write", "ack"},
         f.kind = "ok" => r = NoRec
  PROVE  /\ Turn(p)' /\ Course(p)'
         /\ ~Sending(p)' /\ \A i \in 1..Len(toS') : GoAt(p, i)' => toS'[i] = f
<1>1. toR' = toR /\ begin' = begin /\ pub' = pub /\ rec'[p] = r
  BY RecType DEF Worked
<1>2. Len(toS) \in Nat /\ Len(toS') \in Nat /\ Len(toS') <= Len(toS) + 1
  BY DEF Types, Worked
<1>3. \A i \in 1..Len(toS') : IF i <= Len(toS) THEN toS'[i] = toS[i] ELSE toS'[i] = f
  BY <1>2 DEF Worked, Moves
<1>4. ~Sending(p)' /\ (Announced(p)' <=> Announced(p)) /\ (Arriving(p)' <=> Arriving(p)) /\ ~Arriving(p)
  BY <1>1 DEF Sending, DataAt, Announced, BeginAt, Arriving, Course
<1>5. ASSUME NEW i \in 1..Len(toS'), GoAt(p, i)' PROVE i = Len(toS) + 1 /\ toS'[i] = f
  BY <1>2, <1>3, <1>5 DEF GoAt, Answering
<1>6. Answering(p)' => f.kind = "ack"
  BY <1>5 DEF Answering, GoAt, Worked
<1>7. Turn(p)'
  <2>1. \A i, j \in 1..Len(toR') : DataAt(p, i)' /\ DataAt(p, j)' => i = j
    BY <1>1, <1>4 DEF Sending
  <2>2. \A i, j \in 1..Len(toS') : GoAt(p, i)' /\ GoAt(p, j)' => i = j
    BY <1>5
  <2>3. Len(<<>>) = 0
    OBVIOUS
  <2> QED
    BY <1>1, <1>4, <1>6, <2>1, <2>2, <2>3 DEF Turn
<1>8. Course(p)'
  <2>1. pub'[p] # "new"
    BY <1>1 DEF Course
  <2>2. \A i \in 1..Len(toR') : BeginAt(p, i)' => \A j \in 1..(i - 1) : toR'[j].pub # p
    BY <1>1 DEF Course, BeginAt
  <2>3. (\E i \in 1..Len(toS') : DoneAt(p, i)') \/ pub'[p] = "ok" => ~Arriving(p)' /\ rec'[p] = NoRec
    <3>1. pub[p] # "ok" /\ ~(\E i \in 1..Len(toS) : DoneAt(p, i))
      BY DEF Course
    <3>2. ASSUME NEW i \in 1..Len(toS'), DoneAt(p, i)' PROVE f.kind = "ok"
      BY <1>2, <1>3, <3>1, <3>2 DEF DoneAt, Worked
    <3> QED
      BY <1>1, <1>4, <3>1, <3>2
  <2> QED
    BY <1>1, <1>4, <2>1, <2>2, <2>3 DEF Course
<1> QED
  BY <1>4, <1>5, <1>7, <1>8

\* What is left of the core after such a step.
LEMMA AloneStep ==
  ASSUME Core, NEW p \in Pubs, NEW r, NEW f, Worked(p, r, f), Onward(rec[p], r),
         Turn(p)', Course(p)', Numbers(p)', Phase(p)', r.table => rec[p].work # "mark"
  PROVE  Core'
<1>1. Types'
  BY WorkedTypes DEF Core
<1>2. \A q \in Pubs : Turn(q)' /\ Course(q)' /\ Numbers(q)' /\ Phase(q)'
  BY WorkedOthers DEF Core
<1>3. LinkInv'
  BY DEF Worked, Core, LinkInv
<1>4. (rec[p].table => rec[p].work # "mark") /\ (r.table => r.work # "mark")
  <2>1. rec'[p] = r
    BY RecType DEF Worked, Core
  <2> QED
    BY <2>1 DEF Core, Phase
<1>5. OrderInv'
  BY <1>2, <1>4, WorkedOrder DEF Core
<1> QED
  BY <1>1, <1>2, <1>3, <1>5 DEF Core

\* A queue of one.
LEMMA QueueOfOne ==
  ASSUME NEW q \in Seq(Nat), q # <<>>, Len(q) <= 1
  PROVE  Tail(q) = <<>> /\ Head(q) \in Nat /\ Len(q) = 1
<1>1. Len(q) = 1
  BY SMTT(30)
<1>2. Len(Tail(q)) = 0 /\ Tail(q) \in Seq(Nat)
  BY <1>1
<1>3. \A s \in Seq(Nat) : Len(s) = 0 => s = <<>>
  OBVIOUS
<1>4. Tail(q) = <<>>
  BY <1>2, <1>3
<1> QED
  BY <1>1, <1>4

LEMMA GetStep ==
  ASSUME ArtifactAssumption, Core, NEW p \in Pubs, Get(p)
  PROVE  Core'
<1>1. rec[p] \in Receives /\ rec[p].work = "get" /\ rec[p] # NoRec /\ rec[p].tok \in Tokens
      /\ rec \in [Pubs -> Receives] /\ rec[p].queue # <<>> /\ rec[p].queue \in Seq(Nat)
      /\ <<>> \in Seq(Nat)
  BY DEF Get, Work, Core, Phase, NoRec, Types, Receives
<1>2. Stand
  BY DEF Get, Stand, sendVars, linkVars
<1>3. Tail(rec[p].queue) = <<>> /\ Head(rec[p].queue) \in Nat
  BY <1>1, QueueOfOne DEF Core, Turn
<1>4. [rec[p] EXCEPT !.queue = Tail(@)] = [rec[p] EXCEPT !.queue = <<>>]
      /\ [rec[p] EXCEPT !.queue = <<>>] \in Receives
  BY <1>1, <1>3 DEF Receives
<1>5. CASE Fails(p, [rec[p] EXCEPT !.queue = <<>>])
  BY <1>1, <1>2, <1>4, <1>5, FailsStep
<1>6. CASE /\ rec[p].got = Chunks
           /\ rec' = [rec EXCEPT ![p] = [[rec[p] EXCEPT !.queue = <<>>] EXCEPT !.work = "sync"]]
           /\ UNCHANGED <<toS, file, journal, old>>
  <2> DEFINE s == [[rec[p] EXCEPT !.queue = <<>>] EXCEPT !.work = "sync"]
  <2>2. s \in Receives /\ s.phase = rec[p].phase /\ s.table = rec[p].table /\ s.work = "sync"
        /\ s.queue = <<>> /\ s.got = rec[p].got /\ s.acked = rec[p].acked
        /\ s.tok = rec[p].tok /\ s.park = rec[p].park /\ s.seq = rec[p].seq
    BY <1>1 DEF Receives, Works
  <2>3. rec' = [rec EXCEPT ![p] = s]
    BY <1>6
  <2> HIDE DEF s
  <2>4. rec'[p] = s /\ open' = open /\ sees' = sees /\ begin' = begin
    BY <1>1, <1>2, <2>3 DEF Stand
  <2>5. Phase(p)'
    BY <1>1, <2>2, <2>4 DEF Phase, Core
  <2>6. Calm(rec[p], s) /\ Onward(rec[p], s)
    <3>1. s.table
      BY <1>1, <2>2 DEF Core, Phase
    <3> QED
      BY <1>1, <1>6, <2>2, <3>1 DEF Calm, Onward, Busy, Kept
  <2> QED
    BY <1>2, <1>6, <2>2, <2>3, <2>5, <2>6, SilentStep
<1>7. CASE /\ Head(rec[p].queue) # EndMark /\ rec[p].phase \in {"receiving", "ending"} /\ rec[p].got < Chunks
           /\ rec' = [rec EXCEPT ![p] = [[rec[p] EXCEPT !.queue = <<>>] EXCEPT !.work = "write",
                        !.seq = Head(rec[p].queue), !.got = @ + 1,
                        !.digest = Append(@, Head(rec[p].queue) + 1)]]
           /\ UNCHANGED <<toS, file, journal, old>>
  <2> DEFINE i == Head(rec[p].queue)
             s == [[rec[p] EXCEPT !.queue = <<>>] EXCEPT !.work = "write", !.seq = i, !.got = @ + 1,
                     !.digest = Append(@, i + 1)]
  <2>1. rec[p].got + 1 \in 0..Chunks /\ Append(rec[p].digest, i + 1) \in Seq(Nat) /\ i \in Nat
    <3>1. rec[p].got \in 0..Chunks /\ rec[p].digest \in Seq(Nat) /\ i \in Nat
      BY <1>1, <1>3 DEF Receives
    <3>2. i + 1 \in Nat
      BY <3>1
    <3> HIDE DEF i
    <3>3. Append(rec[p].digest, i + 1) \in Seq(Nat)
      BY <3>1, <3>2
    <3> QED
      BY <3>1, <3>3, <1>7, Constants
  <2>2. s \in Receives /\ s.phase = rec[p].phase /\ s.table = rec[p].table /\ s.work = "write"
        /\ s.queue = <<>> /\ s.got = rec[p].got + 1 /\ s.acked = rec[p].acked
        /\ s.tok = rec[p].tok /\ s.park = rec[p].park /\ s.seq = i
    BY <1>1, <1>3, <2>1 DEF Receives, Works
  <2>3. rec' = [rec EXCEPT ![p] = s]
    BY <1>7
  <2> HIDE DEF s
  <2>4. rec'[p] = s /\ open' = open /\ sees' = sees /\ begin' = begin
    BY <1>1, <1>2, <2>3 DEF Stand
  <2>5. Phase(p)'
    BY <1>1, <2>2, <2>4 DEF Phase, Core
  <2>6. Onward(rec[p], s)
    BY <1>1, <2>2 DEF Onward, Busy, Kept
  <2>7. PICK f \in Frames : /\ f.pub = p /\ f.kind = "error"
                         /\ toS' \in Seq(Frames) /\ Moves(toS, toS', 0, {f}) /\ Len(toS') <= Len(toS) + 1
    BY <1>7, ErrorMoves DEF Core
  <2>8. Worked(p, s, f)
    BY <1>2, <1>7, <2>2, <2>3, <2>7 DEF Worked, Stand, Core, Types
  <2>9. ~Sending(p) /\ ~Answering(p) /\ Turn(p) /\ Course(p) /\ Types
    BY <1>1 DEF Core, Turn
  <2>10. /\ Turn(p)' /\ Course(p)'
         /\ ~Sending(p)' /\ \A k \in 1..Len(toS') : GoAt(p, k)' => toS'[k] = f
    BY <1>1, <2>2, <2>7, <2>8, <2>9, SentAlone
  <2>11. i = rec[p].got
    <3>1. rec[p].table
      BY <1>7 DEF Core, Phase
    <3> QED
      BY <1>1, <1>7, <3>1 DEF Core, Numbers
  <2>12. Numbers(p)'
    <3>1. /\ \A k \in 1..Len(toR') : ~(toR'[k].pub = p /\ toR'[k].kind = "chunk")
          /\ \A k \in 1..Len(toS') : ~(toS'[k].pub = p /\ toS'[k].kind \in {"ready", "ack"})
      BY <2>7, <2>10 DEF Sending, DataAt, GoAt
    <3>2. rec[p].acked <= rec[p].got /\ rec[p].got \in Nat /\ rec[p].acked \in Nat
      <4>1. rec[p].table
        BY <1>7 DEF Core, Phase
      <4> QED
        BY <1>1, <4>1, SMTT(30) DEF Core, Numbers, Receives
    <3> QED
      BY <2>2, <2>4, <2>11, <3>1, <3>2 DEF Numbers
  <2> QED
    BY <1>1, <2>5, <2>6, <2>8, <2>10, <2>12, AloneStep
<1> QED
  BY <1>4, <1>5, <1>6, <1>7 DEF Get

LEMMA WriteStep ==
  ASSUME ArtifactAssumption, Core, NEW p \in Pubs, Write(p)
  PROVE  Core'
<1>1. rec[p] \in Receives /\ rec[p].work = "write" /\ rec[p] # NoRec /\ rec[p].tok \in Tokens
      /\ rec \in [Pubs -> Receives]
  BY DEF Write, Work, Core, Phase, NoRec, Types
<1>2. Stand
  BY DEF Write, Stand, sendVars, linkVars
<1>3. CASE Fails(p, rec[p])
  BY <1>1, <1>2, <1>3, FailsStep
<1>4. CASE rec' = [rec EXCEPT ![p].work = "ack"] /\ UNCHANGED <<toS, journal, old>>
  <2> DEFINE s == [rec[p] EXCEPT !.work = "ack"]
  <2>2. s \in Receives /\ s.phase = rec[p].phase /\ s.table = rec[p].table /\ s.work = "ack"
        /\ s.queue = rec[p].queue /\ s.got = rec[p].got /\ s.acked = rec[p].acked
        /\ s.tok = rec[p].tok /\ s.park = rec[p].park /\ s.seq = rec[p].seq
    BY <1>1 DEF Receives, Works
  <2>3. rec' = [rec EXCEPT ![p] = s]
    BY <1>1, <1>4
  <2> HIDE DEF s
  <2>4. rec'[p] = s /\ open' = open /\ sees' = sees /\ begin' = begin
    BY <1>1, <1>2, <2>3 DEF Stand
  <2>5. Phase(p)'
    BY <1>1, <2>2, <2>4 DEF Phase, Core
  <2>6. Calm(rec[p], s) /\ Onward(rec[p], s)
    BY <1>1, <2>2 DEF Calm, Onward, Busy, Kept
  <2> QED
    BY <1>2, <1>4, <2>2, <2>3, <2>5, <2>6, SilentStep
<1> QED
  BY <1>3, <1>4 DEF Write

LEMMA SyncStep ==
  ASSUME ArtifactAssumption, Core, NEW p \in Pubs, Sync(p)
  PROVE  Core'
<1>1. rec[p] \in Receives /\ rec[p].work = "sync" /\ rec[p] # NoRec /\ rec[p].tok \in Tokens
      /\ rec \in [Pubs -> Receives]
  BY DEF Sync, Work, Core, Phase, NoRec, Types
<1>2. Stand
  BY DEF Sync, Stand, sendVars, linkVars
<1>3. CASE Fails(p, rec[p])
  BY <1>1, <1>2, <1>3, FailsStep
<1>4. CASE /\ rec[p].phase = "ending"
           /\ rec' = [rec EXCEPT ![p].phase = "committing", ![p].work = "commit"]
           /\ UNCHANGED <<toS, file, journal, old>>
  <2> DEFINE s == [rec[p] EXCEPT !.phase = "committing", !.work = "commit"]
  <2>2. s \in Receives /\ s.phase = "committing" /\ s.table = rec[p].table /\ s.work = "commit"
        /\ s.queue = rec[p].queue /\ s.got = rec[p].got /\ s.acked = rec[p].acked
        /\ s.tok = rec[p].tok /\ s.park = rec[p].park /\ s.seq = rec[p].seq
    BY <1>1 DEF Receives, Works, Phases
  <2>3. rec' = [rec EXCEPT ![p] = s]
    BY <1>1, <1>4
  <2> HIDE DEF s
  <2>4. rec'[p] = s /\ open' = open /\ sees' = sees /\ begin' = begin
    BY <1>1, <1>2, <2>3 DEF Stand
  <2>5. Phase(p)'
    <3>1. s # NoRec
      BY <2>2 DEF NoRec
    <3> QED
      BY <1>1, <1>4, <2>2, <2>4, <3>1 DEF Phase, Core
  <2>6. Calm(rec[p], s) /\ Onward(rec[p], s)
    BY <1>1, <2>2 DEF Calm, Onward, Busy, Kept
  <2> QED
    BY <1>2, <1>4, <2>2, <2>3, <2>5, <2>6, SilentStep
<1> QED
  BY <1>3, <1>4 DEF Sync

LEMMA CommitStep ==
  ASSUME ArtifactAssumption, Core, NEW p \in Pubs, Commit(p)
  PROVE  Core'
<1>1. rec[p] \in Receives /\ rec[p].work = "commit" /\ rec[p] # NoRec /\ rec[p].tok \in Tokens
      /\ rec \in [Pubs -> Receives]
  BY DEF Commit, Work, Core, Phase, NoRec, Types
<1>2. Stand
  BY DEF Commit, Stand, sendVars, linkVars
<1>3. CASE Fails(p, rec[p])
  BY <1>1, <1>2, <1>3, FailsStep
<1>4. ASSUME NEW w \in Put, NEW m \in BOOLEAN, rec' = [rec EXCEPT ![p].work = w, ![p].made = m],
             UNCHANGED <<toS, journal, old>>
      PROVE  Core'
  <2> DEFINE s == [rec[p] EXCEPT !.work = w, !.made = m]
  <2>2. s \in Receives /\ s.phase = rec[p].phase /\ s.table = rec[p].table /\ s.work \in Put
        /\ s.queue = rec[p].queue /\ s.got = rec[p].got /\ s.acked = rec[p].acked
        /\ s.tok = rec[p].tok /\ s.park = rec[p].park /\ s.seq = rec[p].seq
    BY <1>1, <1>4 DEF Receives, Works, Put
  <2>3. rec' = [rec EXCEPT ![p] = s]
    BY <1>1, <1>4
  <2> HIDE DEF s
  <2>4. rec'[p] = s /\ open' = open /\ sees' = sees /\ begin' = begin
    BY <1>1, <1>2, <2>3 DEF Stand
  <2>5. Phase(p)'
    BY <1>1, <2>2, <2>4 DEF Phase, Core, Put
  <2>6. Calm(rec[p], s) /\ Onward(rec[p], s)
    BY <1>1, <2>2 DEF Calm, Onward, Busy, Kept, Put
  <2> QED
    BY <1>2, <1>4, <2>2, <2>3, <2>5, <2>6, SilentStep
<1> QED
  BY <1>3, <1>4 DEF Commit, Put

LEMMA UnlinkStep ==
  ASSUME ArtifactAssumption, Core, NEW p \in Pubs, Unlink(p)
  PROVE  Core'
<1>1. rec[p] \in Receives /\ rec[p].work = "unlink" /\ rec[p] # NoRec /\ rec[p].tok \in Tokens
      /\ rec \in [Pubs -> Receives]
  BY DEF Unlink, Work, Core, Phase, NoRec, Types
<1>2. Stand /\ UNCHANGED <<toS, journal, old>>
  BY DEF Unlink, Stand, sendVars, linkVars
<1> DEFINE s == [rec[p] EXCEPT !.work = "linked"]
<1>3. s \in Receives /\ s.phase = rec[p].phase /\ s.table = rec[p].table /\ s.work = "linked"
      /\ s.queue = rec[p].queue /\ s.got = rec[p].got /\ s.acked = rec[p].acked
      /\ s.tok = rec[p].tok /\ s.park = rec[p].park /\ s.seq = rec[p].seq
  BY <1>1 DEF Receives, Works
<1>4. rec' = [rec EXCEPT ![p] = s]
  BY <1>1 DEF Unlink
<1> HIDE DEF s
<1>5. rec'[p] = s /\ open' = open /\ sees' = sees /\ begin' = begin
  BY <1>1, <1>2, <1>4 DEF Stand
<1>6. Phase(p)'
  BY <1>1, <1>3, <1>5 DEF Phase, Core
<1>7. Calm(rec[p], s) /\ Onward(rec[p], s)
  BY <1>1, <1>3 DEF Calm, Onward, Busy, Kept
<1> QED
  BY <1>2, <1>3, <1>4, <1>6, <1>7, SilentStep

LEMMA LinkedStep ==
  ASSUME ArtifactAssumption, Core, NEW p \in Pubs, Linked(p)
  PROVE  Core'
<1>1. rec[p] \in Receives /\ rec[p].work = "linked" /\ rec[p] # NoRec /\ rec[p].tok \in Tokens
      /\ rec \in [Pubs -> Receives]
  BY DEF Linked, Work, Core, Phase, NoRec, Types
<1>2. Stand
  BY DEF Linked, Stand, sendVars, linkVars
<1>3. CASE Fails(p, rec[p])
  BY <1>1, <1>2, <1>3, FailsStep
<1>4. CASE /\ rec[p].phase # "aborting"
           /\ rec' = [rec EXCEPT ![p].phase = "completed", ![p].table = FALSE, ![p].work = "mark"]
           /\ UNCHANGED <<toS, diskVars>>
  <2> DEFINE s == [rec[p] EXCEPT !.phase = "completed", !.table = FALSE, !.work = "mark"]
  <2>2. s \in Receives /\ s.phase = "completed" /\ s.table = FALSE /\ s.work = "mark"
        /\ s.queue = rec[p].queue /\ s.got = rec[p].got /\ s.acked = rec[p].acked
        /\ s.tok = rec[p].tok /\ s.park = rec[p].park /\ s.seq = rec[p].seq
    BY <1>1 DEF Receives, Works, Phases
  <2>3. rec' = [rec EXCEPT ![p] = s]
    BY <1>1, <1>4
  <2> HIDE DEF s
  <2>4. rec'[p] = s /\ open' = open /\ sees' = sees /\ begin' = begin
    BY <1>1, <1>2, <2>3 DEF Stand
  <2>5. Phase(p)'
    BY <1>1, <1>4, <2>2, <2>4 DEF Phase, Core
  <2>6. Calm(rec[p], s) /\ Onward(rec[p], s)
    BY <1>1, <2>2 DEF Calm, Onward, Busy, Kept
  <2>7. journal' = journal /\ old' = old /\ toS' = toS
    BY <1>4 DEF diskVars
  <2> QED
    BY <1>2, <2>7, <2>2, <2>3, <2>5, <2>6, SilentStep
<1> QED
  BY <1>3, <1>4 DEF Linked

LEMMA MarkStep ==
  ASSUME ArtifactAssumption, Core, NEW p \in Pubs, Mark(p)
  PROVE  Core'
<1>1. rec[p] \in Receives /\ rec[p].work = "mark" /\ rec[p] # NoRec /\ rec[p].tok \in Tokens
      /\ rec \in [Pubs -> Receives]
  BY DEF Mark, Work, Core, Phase, NoRec, Types
<1>2. Frame("ok", p, 0, None) \in Frames /\ Frame("ok", p, 0, None).pub = p /\ Frame("ok", p, 0, None).kind = "ok"
  BY FrameType, Constants
<1> DEFINE f == Frame("ok", p, 0, None)
<1>3. toS' \in Seq(Frames) /\ Moves(toS, toS', 0, {f}) /\ Len(toS') <= Len(toS) + 1
  BY <1>2, ToSMoves DEF Mark, Core
<1>4. journal' \in [Tokens -> Receipts] /\ old' \in SUBSET Tokens
  <2>1. [state |-> "committed", acked |-> rec[p].acked, chunks |-> rec[p].next] \in Receipts
    BY <1>1 DEF Receives, Receipts
  <2> QED
    BY <2>1, Constants DEF Mark
<1> HIDE DEF f
<1>5. rec' = [rec EXCEPT ![p] = NoRec] /\ NoRec \in Receives /\ Stand
  BY Constants DEF Mark, Stand, sendVars, linkVars
<1>6. Worked(p, NoRec, f)
  BY <1>2, <1>3, <1>4, <1>5 DEF Worked, Stand, f
<1>8. Onward(rec[p], NoRec)
  BY <1>1 DEF Onward, NoRec, Busy, Kept
<1>9. rec'[p] = NoRec /\ open' = open /\ sees' = sees /\ begin' = begin
  BY <1>1, <1>5 DEF Stand
<1>10. Phase(p)' /\ Numbers(p)'
  BY <1>9 DEF Phase, NoRec, Core, Numbers
<1>11. Turn(p)' /\ Course(p)'
  <2>1. Types' /\ Types /\ Course(p) /\ Turn(p)
    BY <1>6, WorkedTypes DEF Core
  <2>2. toR' = toR /\ toR \in Seq(Frames) /\ toS \in Seq(Frames) /\ pub' = pub
    BY <1>5 DEF Stand, Core, Types
  <2>3. Len(toS) \in Nat /\ Len(toS') \in Nat
    BY <1>3, <2>2
  <2>4. \A i \in 1..Len(toS') : IF i <= Len(toS) THEN toS'[i] = toS[i] ELSE toS'[i] = f
    BY <1>3, <2>3 DEF Moves
  <2>5. \A i \in 1..Len(toS') : GoAt(p, i)' => i \in 1..Len(toS) /\ GoAt(p, i)
    BY <1>2, <2>3, <2>4 DEF GoAt, f
  <2>6. (Answering(p)' => Answering(p)) /\ (Sending(p)' <=> Sending(p)) /\ (Arriving(p)' <=> Arriving(p))
        /\ ~Arriving(p) /\ (Announced(p)' <=> Announced(p))
    BY <1>1, <1>9, <2>1, <2>2, <2>5 DEF Answering, Sending, DataAt, Arriving, Announced, BeginAt, Course
  <2>7. Len(<<>>) = 0 /\ NoRec.queue = <<>> /\ NoRec.work = "off"
    BY DEF NoRec
  <2>8. Turn(p)'
    <3>1. \A i, j \in 1..Len(toR') : DataAt(p, i)' /\ DataAt(p, j)' => i = j
      BY <2>1, <2>2 DEF Turn, DataAt
    <3>2. \A i, j \in 1..Len(toS') : GoAt(p, i)' /\ GoAt(p, j)' => i = j
      BY <2>1, <2>5 DEF Turn
    <3> QED
      BY <1>9, <2>1, <2>6, <2>7, <3>1, <3>2 DEF Turn
  <2>9. Course(p)'
    <3>1. pub'[p] # "new" /\ ~(Announced(p)' /\ begin'[p].at # "no")
      BY <1>1, <1>9, <2>1, <2>2, <2>6 DEF Course
    <3>2. \A i \in 1..Len(toR') : BeginAt(p, i)' => \A j \in 1..(i - 1) : toR'[j].pub # p
      BY <2>1, <2>2 DEF Course, BeginAt
    <3> QED
      BY <1>9, <2>6, <3>1, <3>2 DEF Course
  <2> QED
    BY <2>8, <2>9
<1>12. NoRec.table = FALSE
  BY DEF NoRec
<1> QED
  BY <1>6, <1>8, <1>10, <1>11, <1>12, AloneStep

LEMMA AckStep ==
  ASSUME ArtifactAssumption, Core, NEW p \in Pubs, Ack(p)
  PROVE  Core'
<1>1. rec[p] \in Receives /\ rec[p].work = "ack" /\ rec[p] # NoRec /\ rec[p].tok \in Tokens
      /\ rec \in [Pubs -> Receives] /\ rec[p].table
  BY DEF Ack, Work, Core, Phase, NoRec, Types
<1>2. Stand
  BY DEF Ack, Stand, sendVars, linkVars
<1>3. CASE Fails(p, rec[p])
  BY <1>1, <1>2, <1>3, FailsStep
<1>4. CASE /\ sees["R"] # "up"
           /\ rec' = [rec EXCEPT ![p] =
                IF rec[p].phase \in {"receiving", "ending"}
                THEN [rec[p] EXCEPT !.acked = rec[p].got, !.phase = "parked", !.park = "trunc", !.work = "done"]
                ELSE [rec[p] EXCEPT !.acked = rec[p].got, !.work = "done"]]
           /\ UNCHANGED <<toS, file, journal, old>>
  <2> DEFINE s == IF rec[p].phase \in {"receiving", "ending"}
                  THEN [rec[p] EXCEPT !.acked = rec[p].got, !.phase = "parked", !.park = "trunc", !.work = "done"]
                  ELSE [rec[p] EXCEPT !.acked = rec[p].got, !.work = "done"]
  <2>2. s \in Receives /\ s.table = rec[p].table /\ s.work = "done"
        /\ s.queue = rec[p].queue /\ s.got = rec[p].got /\ s.acked = rec[p].got
        /\ s.tok = rec[p].tok /\ s.seq = rec[p].seq
    BY <1>1 DEF Receives, Works, Phases
  <2>1. IF rec[p].phase \in {"receiving", "ending"} THEN s.phase = "parked" /\ s.park = "trunc"
        ELSE s.phase = rec[p].phase /\ s.park = rec[p].park
    BY <1>1 DEF Receives
  <2>3. rec' = [rec EXCEPT ![p] = s]
    BY <1>1, <1>4
  <2> HIDE DEF s
  <2>4. rec'[p] = s /\ open' = open /\ sees' = sees /\ begin' = begin
    BY <1>1, <1>2, <2>3 DEF Stand
  <2>7. sees["R"] \in {"failing", "down"}
    BY <1>4 DEF Core, Types
  <2>5. Phase(p)'
    <3>1. s # NoRec
      BY <1>1, <2>2 DEF NoRec
    <3>2. rec[p].phase \in {"receiving", "ending"} => sees["R"] = "failing"
      BY <2>7 DEF Phase, Core
    <3> QED
      BY <1>1, <2>1, <2>2, <2>4, <3>1, <3>2 DEF Phase, Core
  <2>6. Calm(rec[p], s) /\ Onward(rec[p], s)
    BY <1>1, <2>1, <2>2 DEF Calm, Onward, Busy, Kept
  <2> QED
    BY <1>2, <1>4, <2>2, <2>3, <2>5, <2>6, SilentStep
<1>5. CASE /\ ToS(Frame("ack", p, rec[p].seq, None))
           /\ rec' = [rec EXCEPT ![p].work = "get", ![p].acked = rec[p].got, ![p].next = rec[p].seq + 1]
           /\ UNCHANGED <<file, journal, old>>
  <2> DEFINE s == [rec[p] EXCEPT !.work = "get", !.acked = rec[p].got, !.next = rec[p].seq + 1]
             f == Frame("ack", p, rec[p].seq, None)
  <2>1. rec[p].seq + 1 = rec[p].got /\ rec[p].seq \in 0..Chunks /\ rec[p].got \in Nat
    <3>1. rec[p].seq \in Nat /\ rec[p].got \in 0..Chunks
      BY <1>1 DEF Receives
    <3>2. rec[p].seq + 1 = rec[p].got
      BY <1>1 DEF Core, Numbers
    <3> QED
      BY <3>1, <3>2, Constants
  <2>2. s \in Receives /\ s.phase = rec[p].phase /\ s.table = rec[p].table /\ s.work = "get"
        /\ s.queue = rec[p].queue /\ s.got = rec[p].got /\ s.acked = rec[p].got
        /\ s.tok = rec[p].tok /\ s.park = rec[p].park /\ s.seq = rec[p].seq
    BY <1>1, <2>1 DEF Receives, Works
  <2>3. rec' = [rec EXCEPT ![p] = s]
    BY <1>1, <1>5
  <2> HIDE DEF s
  <2>4. rec'[p] = s /\ open' = open /\ sees' = sees /\ begin' = begin
    BY <1>1, <1>2, <2>3 DEF Stand
  <2>5. Phase(p)'
    BY <1>1, <2>2, <2>4 DEF Phase, Core
  <2>6. Onward(rec[p], s)
    BY <1>1, <2>2 DEF Onward, Busy, Kept
  <2>7. f \in Frames /\ f.pub = p /\ f.kind = "ack" /\ f.n = rec[p].seq
    BY <2>1, FrameType DEF None
  <2>8. toS' \in Seq(Frames) /\ Moves(toS, toS', 0, {f}) /\ Len(toS') <= Len(toS) + 1
    BY <1>5, <2>7, ToSMoves DEF Core
  <2> HIDE DEF f
  <2>9. Worked(p, s, f)
    BY <1>2, <1>5, <2>2, <2>3, <2>7, <2>8 DEF Worked, Stand, Core, Types
  <2>10. ~Sending(p) /\ ~Answering(p) /\ Turn(p) /\ Course(p) /\ Types /\ rec[p].queue = <<>>
    BY <1>1 DEF Core, Turn
  <2>11. /\ Turn(p)' /\ Course(p)'
         /\ ~Sending(p)' /\ \A k \in 1..Len(toS') : GoAt(p, k)' => toS'[k] = f
    BY <1>1, <2>2, <2>7, <2>9, <2>10, SentAlone
  <2>12. Numbers(p)'
    <3>1. /\ \A k \in 1..Len(toR') : ~(toR'[k].pub = p /\ toR'[k].kind = "chunk")
          /\ \A k \in 1..Len(toS') : toS'[k].pub = p /\ toS'[k].kind \in {"ready", "ack"} => toS'[k] = f
      BY <2>11 DEF Sending, DataAt, GoAt
    <3>2. s.acked <= s.got
      BY <2>1, <2>2
    <3> QED
      BY <2>1, <2>2, <2>4, <2>7, <2>10, <3>1, <3>2 DEF Numbers
  <2> QED
    BY <1>1, <2>5, <2>6, <2>9, <2>11, <2>12, AloneStep
<1> QED
  BY <1>3, <1>4, <1>5 DEF Ack

\* Every step of a worker and of an abort keeps the core.
LEMMA WorkerStep ==
  ASSUME ArtifactAssumption, Core, FileInv, NEW p \in Pubs, Worker(p) \/ Abort(p)
  PROVE  Core'
BY AbortStep, SeedStep, GetStep, WriteStep, AckStep, SyncStep, CommitStep, UnlinkStep, LinkedStep, MarkStep DEF Worker

-----------------------------------------------------------------------------
(* Steps of the exchange.                                                    *)

\* What a step of others, or one that takes up nothing, leaves of an exchange.
Stays(p) ==
  /\ Quietly(p)
  /\ begin'[p].at # "no" => begin[p].at # "no"
  /\ rec'[p] = rec[p] \/ rec'[p] = NoRec \/ Calm(rec[p], rec'[p])
  /\ pub'[p] = pub[p] \/ (pub[p] # "new" /\ pub'[p] \notin {"new", "ok"})

LEMMA StaysExchange ==
  ASSUME Types, Types', NEW p \in Pubs, Turn(p), Course(p), Numbers(p), Stays(p)
  PROVE  Turn(p)' /\ Course(p)' /\ Numbers(p)'
<1>1. NoRec.table = FALSE /\ NoRec.queue = <<>> /\ NoRec.work = "off"
  BY DEF NoRec
<1>2. Turn(p)'
  BY <1>1, TurnQuiet DEF Stays, Calm
<1>3. Course(p)'
  BY <1>1, CourseQuiet DEF Stays, Calm
<1>4. Numbers(p)'
  BY <1>1, NumbersQuiet DEF Stays, Calm
<1> QED
  BY <1>2, <1>3, <1>4

\* A cancel that follows its begin moves up with the channel.
LEMMA CancelKept ==
  ASSUME Types, Types', NEW p \in Pubs, NEW d \in {0, 1}, NEW N, Moves(toR, toR', d, N),
         \A f \in N : ~(f.pub = p /\ f.kind = "begin"),
         NEW j \in 1..Len(toR), CancelFollows(p, j), j - d \in 1..Len(toR')
  PROVE  CancelFollows(p, j - d)'
<1>1. Len(toR) \in Nat /\ Len(toR') \in Nat
  BY DEF Types
<1>2. toR'[j - d] = toR[j]
  BY <1>1 DEF Moves
<1>3. ASSUME NEW i \in 1..Len(toR'), BeginAt(p, i)' PROVE i < j - d
  <2>1. i + d \in 1..Len(toR) /\ BeginAt(p, i + d)
    BY <1>1, <1>3 DEF Moves, BeginAt
  <2>2. i + d < j
    BY <2>1 DEF CancelFollows
  <2> QED
    BY <2>2, <1>1
<1> QED
  BY <1>2, <1>3 DEF CancelFollows, CancelAt

\* A step that announces no publish: d frames are taken from the way to R, those
\* of N are new there, and the publishes of F have their cancel on the way.
Orderly(d, N, F) ==
  /\ d \in {0, 1} /\ Moves(toR, toR', d, N) /\ F \subseteq Pubs
  /\ \A f \in N : f.kind # "begin"
  /\ d = 1 => toR # <<>> /\ \A q \in Pubs : CancelAt(q, 1) => ~Active(q)'
  /\ link' = "up" => link = "up" /\ Len(toR') >= Len(toR) - d
  /\ \A q \in F : link' = "up" /\ Active(q)' => \E j \in 1..Len(toR') : CancelFollows(q, j)'
  /\ \A q \in Pubs :
       /\ pub'[q] = pub[q] \/ (pub[q] # "new" /\ pub'[q] # "new"
                               /\ (pub[q] \in {"ok", "failed"} => pub'[q] = pub[q]))
       /\ q \in F \/ pub'[q] \in {"begin", "sending", "ended"}
            \/ pub[q] \notin {"begin", "sending", "ended"}
       /\ (Arriving(q)' => Arriving(q)) /\ (rec'[q].phase \in Kept => Active(q))
       /\ begin'[q].at # "no" \/ rec'[q].table =>
            begin[q].at # "no" \/ rec[q].table \/ (toR # <<>> /\ BeginAt(q, 1))
       /\ Past(q) => /\ Sending(q)' => Sending(q)
                     /\ \/ rec'[q] = rec[q] \/ Onward(rec[q], rec'[q])
                        \/ rec'[q].queue = <<>> /\ rec'[q].work \in {"off", "seed"}

\* Such a step keeps the order.
LEMMA OrderKept ==
  ASSUME Types, Types', OrderInv, NEW d, NEW N, NEW F, Orderly(d, N, F)
  PROVE  OrderInv'
<1>1. Len(toR) \in Nat /\ Len(toR') \in Nat /\ toR \in Seq(Frames)
  BY DEF Types
<1>2. \A q \in Pubs : Active(q)' => Active(q)
  BY DEF Active, Kept, Orderly
<1>8. d \in {0, 1} /\ Moves(toR, toR', d, N) /\ \A f \in N : f.kind # "begin"
  BY DEF Orderly
<1>3. ASSUME NEW q \in Pubs, NEW j \in 1..Len(toR), CancelFollows(q, j), Active(q)',
             j - d <= Len(toR')
      PROVE  j - d \in 1..Len(toR') /\ CancelFollows(q, j - d)'
  <2>1. j - d >= 1
    <3>1. CASE d = 0
      BY <3>1, <1>1
    <3>2. CASE d = 1
      <4>1. j # 1
        BY <1>3, <3>2 DEF CancelFollows, Orderly
      <4> QED
        BY <4>1, <3>2, <1>1
    <3> QED
      BY <3>1, <3>2, <1>8
  <2>2. j - d \in 1..Len(toR')
    BY <1>1, <1>3, <1>8, <2>1
  <2> QED
    BY <1>3, <1>8, <2>2, CancelKept
<1>4. SUFFICES ASSUME NEW q \in Pubs
      PROVE  /\ link' = "up" /\ pub'[q] \notin {"begin", "sending", "ended"} /\ Active(q)' =>
                  \E j \in 1..Len(toR') : CancelFollows(q, j)'
             /\ \A u \in Pubs : q < u /\ Active(q)' =>
                  /\ begin'[u].at = "no" /\ ~rec'[u].table
                  /\ \A k \in 1..Len(toR') : BeginAt(u, k)' => \E j \in 1..(k - 1) : CancelFollows(q, j)'
             /\ Past(q)' =>
                  /\ pub'[q] \in {"ok", "failed"}
                  /\ rec'[q].table \/ Arriving(q)' =>
                       /\ ~Sending(q)' /\ rec'[q].queue = <<>>
                       /\ rec'[q].work \in {"off", "seed", "get", "done"}
  BY DEF OrderInv
<1>5. ASSUME link' = "up", pub'[q] \notin {"begin", "sending", "ended"}, Active(q)'
      PROVE  \E j \in 1..Len(toR') : CancelFollows(q, j)'
  <2>1. CASE q \in F
    BY <1>5, <2>1 DEF Orderly
  <2>2. CASE q \notin F
    <3>1. PICK j \in 1..Len(toR) : CancelFollows(q, j)
      BY <1>2, <1>5, <2>2 DEF OrderInv, Orderly
    <3>2. j - d <= Len(toR')
      BY <1>1, <1>5, <1>8 DEF Orderly
    <3> QED
      BY <1>3, <1>5, <3>1, <3>2
  <2> QED
    BY <2>1, <2>2
<1>6. ASSUME NEW u \in Pubs, q < u, Active(q)'
      PROVE  /\ begin'[u].at = "no" /\ ~rec'[u].table
             /\ \A k \in 1..Len(toR') : BeginAt(u, k)' => \E j \in 1..(k - 1) : CancelFollows(q, j)'
  <2>1. /\ begin[u].at = "no" /\ ~rec[u].table
        /\ \A k \in 1..Len(toR) : BeginAt(u, k) => \E j \in 1..(k - 1) : CancelFollows(q, j)
    BY <1>2, <1>6 DEF OrderInv
  <2>2. ~(toR # <<>> /\ BeginAt(u, 1))
    <3>1. toR # <<>> => 1 \in 1..Len(toR)
      BY <1>1
    <3>2. 1..(1 - 1) = {}
      OBVIOUS
    <3> QED
      BY <2>1, <3>1, <3>2
  <2>3. begin'[u].at = "no" /\ ~rec'[u].table
    BY <2>1, <2>2 DEF Orderly
  <2>4. ASSUME NEW k \in 1..Len(toR'), BeginAt(u, k)' PROVE \E j \in 1..(k - 1) : CancelFollows(q, j)'
    <3>1. k + d \in 1..Len(toR) /\ BeginAt(u, k + d)
      BY <1>1, <1>8, <2>4 DEF Moves, BeginAt
    <3>2. PICK j \in 1..(k + d - 1) : CancelFollows(q, j)
      BY <1>1, <1>8, <2>1, <3>1
    <3>3. j \in 1..Len(toR) /\ j - d <= Len(toR') /\ j - d <= k - 1
      BY <1>1, <1>8, <3>1, <3>2
    <3>4. j - d \in 1..Len(toR') /\ CancelFollows(q, j - d)'
      BY <1>3, <1>6, <3>2, <3>3
    <3> QED
      BY <1>1, <1>8, <3>3, <3>4
  <2> QED
    BY <2>3, <2>4
<1>7. ASSUME Past(q)'
      PROVE  /\ pub'[q] \in {"ok", "failed"}
             /\ rec'[q].table \/ Arriving(q)' =>
                  /\ ~Sending(q)' /\ rec'[q].queue = <<>>
                  /\ rec'[q].work \in {"off", "seed", "get", "done"}
  <2>1. Past(q)
    BY <1>7 DEF Past, Orderly
  <2>2. /\ pub[q] \in {"ok", "failed"}
        /\ rec[q].table \/ Arriving(q) =>
             /\ ~Sending(q) /\ rec[q].queue = <<>>
             /\ rec[q].work \in {"off", "seed", "get", "done"}
    BY <2>1 DEF OrderInv
  <2>3. toR # <<>> => 1 \in 1..Len(toR)
    BY <1>1
  <2>4. rec'[q].table \/ Arriving(q)' => rec[q].table \/ Arriving(q)
    BY <2>3 DEF Arriving, Announced, Orderly
  <2>5. rec'[q].work \in Works
    BY DEF Types, Receives
  <2>6. Onward(rec[q], rec'[q]) /\ rec[q].queue = <<>> /\ rec[q].work \in {"off", "seed", "get", "done"}
          => rec'[q].queue = <<>> /\ rec'[q].work \in {"off", "seed", "get", "done"}
    BY <2>5 DEF Onward, Busy, Works
  <2> QED
    BY <2>1, <2>2, <2>4, <2>6 DEF Orderly
<1> QED
  BY <1>5, <1>6, <1>7

\* Frames that move up, are cut off or stay are quiet.
LEMMA QuietMoves ==
  ASSUME NEW p \in Pubs, NEW d \in {0, 1}, NEW e \in {0, 1}, Moves(toR, toR', d, {}), Moves(toS, toS', e, {})
  PROVE  Quietly(p)
BY DEF Quietly

LEMMA QuietSame ==
  ASSUME Types, NEW p \in Pubs, UNCHANGED <<toR, toS>>
  PROVE  Quietly(p) /\ Moves(toR, toR', 0, {}) /\ Len(toR') >= Len(toR)
<1>1. toR \in Seq(Frames) /\ toS \in Seq(Frames)
  BY DEF Types
<1>2. Moves(toR, toR', 0, {}) /\ Moves(toS, toS', 0, {}) /\ Len(toR) \in Nat
  BY <1>1, StayMoves
<1> QED
  BY <1>2, QuietMoves

LEMMA ParkTruncatesStep ==
  ASSUME ArtifactAssumption, Core, NEW p \in Pubs, ParkTruncates(p)
  PROVE  Core'
<1>1. rec[p] \in Receives /\ rec[p].park = "trunc" /\ rec[p] # NoRec /\ rec[p].phase = "parked"
      /\ rec \in [Pubs -> Receives]
  BY DEF ParkTruncates, Core, Phase, NoRec, Types
<1>2. Stand /\ UNCHANGED <<toS, journal, old>>
  BY DEF ParkTruncates, Stand, sendVars, linkVars
<1> DEFINE s == [rec[p] EXCEPT !.park = "note"]
<1>3. s \in Receives /\ s.phase = rec[p].phase /\ s.table = rec[p].table /\ s.work = rec[p].work
        /\ s.queue = rec[p].queue /\ s.got = rec[p].got /\ s.acked = rec[p].acked
        /\ s.tok = rec[p].tok /\ s.park = "note" /\ s.seq = rec[p].seq
  BY <1>1 DEF Receives
<1>4. rec' = [rec EXCEPT ![p] = s]
  BY <1>1 DEF ParkTruncates
<1> HIDE DEF s
<1>5. rec'[p] = s /\ open' = open /\ sees' = sees /\ begin' = begin
  BY <1>1, <1>2, <1>4 DEF Stand
<1>6. Phase(p)'
  BY <1>1, <1>3, <1>5 DEF Phase, Core
<1>7. Calm(rec[p], s) /\ Onward(rec[p], s)
  BY <1>1, <1>3 DEF Calm, Onward, Busy, Kept
<1> QED
  BY <1>2, <1>3, <1>4, <1>6, <1>7, SilentStep

LEMMA ParkRecordsStep ==
  ASSUME ArtifactAssumption, Core, NEW p \in Pubs, ParkRecords(p)
  PROVE  Core'
<1>1. rec[p] \in Receives /\ rec[p].park = "note" /\ rec[p] # NoRec /\ rec[p].tok \in Tokens
      /\ rec \in [Pubs -> Receives]
  BY DEF ParkRecords, Core, Phase, NoRec, Types
<1>2. Stand /\ UNCHANGED toS /\ rec' = [rec EXCEPT ![p] = NoRec] /\ NoRec \in Receives
  BY Constants DEF ParkRecords, Stand, sendVars, linkVars
<1>3. PICK f \in Frames : /\ f.pub = p /\ f.kind = "error"
                         /\ toS' \in Seq(Frames) /\ Moves(toS, toS', 0, {f}) /\ Len(toS') <= Len(toS) + 1
  BY <1>2, ErrorMoves DEF Core
<1>4. journal' \in [Tokens -> Receipts] /\ old' \in SUBSET Tokens
  <2>1. [state |-> "partial", acked |-> rec[p].acked, chunks |-> rec[p].next] \in Receipts
    BY <1>1 DEF Receives, Receipts
  <2> QED
    BY <1>1, <2>1 DEF ParkRecords, Core, Types
<1>5. Worked(p, NoRec, f)
  BY <1>2, <1>3, <1>4 DEF Worked, Stand
<1>6. Calm(rec[p], NoRec) /\ Onward(rec[p], NoRec)
  BY <1>1 DEF Calm, Onward, NoRec, Busy, Kept
<1>7. rec'[p] = NoRec /\ open' = open /\ sees' = sees /\ begin' = begin
  BY <1>1, <1>2 DEF Stand
<1>8. Phase(p)'
  BY <1>7 DEF Phase, NoRec, Core
<1> QED
  BY <1>3, <1>5, <1>6, <1>8, CalmStep

\* Steps that leave the exchange, the publishes and the link alone.
LEMMA AsideStep ==
  ASSUME Core, Types', \A q \in Pubs : Phase(q)', LinkInv',
         UNCHANGED <<toR, toS, pub>>, link' = "up" => link = "up",
         \A q \in Pubs :
           /\ begin'[q].at # "no" => begin[q].at # "no"
           /\ \/ rec'[q] = rec[q] \/ (Calm(rec[q], rec'[q]) /\ Onward(rec[q], rec'[q]))
              \/ rec'[q] = NoRec
  PROVE  Core'
<1>1. Types /\ OrderInv /\ Len(toR) \in Nat /\ toR' = toR
  BY DEF Core, Types
<1>2. \A q \in Pubs : Turn(q)' /\ Course(q)' /\ Numbers(q)'
  BY <1>1, StaysExchange, QuietSame DEF Core, Stays
<1>3. Moves(toR, toR', 0, {})
  BY <1>1, StayMoves DEF Types
<1>4. NoRec.queue = <<>> /\ NoRec.work = "off" /\ NoRec.phase = "none" /\ NoRec.table = FALSE
  BY DEF NoRec
<1>5. OrderInv'
  <2>1. link' = "up" => link = "up" /\ Len(toR') >= Len(toR) - 0
    BY <1>1
  <2>2. \A q \in Pubs :
           /\ pub'[q] = pub[q]
           /\ pub'[q] \in {"begin", "sending", "ended"}
                \/ pub[q] \notin {"begin", "sending", "ended"}
           /\ (Arriving(q)' => Arriving(q)) /\ (rec'[q].phase \in Kept => Active(q))
           /\ begin'[q].at # "no" \/ rec'[q].table => begin[q].at # "no" \/ rec[q].table
           /\ Past(q) => /\ Sending(q)' => Sending(q)
                         /\ \/ rec'[q] = rec[q] \/ Onward(rec[q], rec'[q])
                            \/ rec'[q].queue = <<>> /\ rec'[q].work \in {"off", "seed"}
    <3> SUFFICES ASSUME NEW q \in Pubs
                 PROVE /\ (Arriving(q)' => Arriving(q)) /\ (rec'[q].phase \in Kept => Active(q))
                       /\ begin'[q].at # "no" \/ rec'[q].table => begin[q].at # "no" \/ rec[q].table
                       /\ Sending(q)' => Sending(q)
                       /\ \/ rec'[q] = rec[q] \/ Onward(rec[q], rec'[q])
                          \/ rec'[q].queue = <<>> /\ rec'[q].work \in {"off", "seed"}
      OBVIOUS
    <3>1. (Arriving(q)' => Arriving(q)) /\ (Sending(q)' => Sending(q))
      BY DEF Arriving, Announced, BeginAt, Sending, DataAt
    <3>2. rec'[q].phase \in Kept => Active(q)
      BY <1>4 DEF Active, Onward, Kept
    <3> QED
      BY <1>4, <3>1, <3>2 DEF Onward
  <2>3. Orderly(0, {}, {})
    BY <1>3, <2>1, <2>2 DEF Orderly
  <2> QED
    BY <1>1, <2>3, OrderKept
<1> QED
  BY <1>2, <1>5 DEF Core

LEMMA ParkStartsStep ==
  ASSUME ArtifactAssumption, Core, NEW p \in Pubs, ParkStarts(p)
  PROVE  Core'
<1>1. rec[p] \in Receives /\ rec \in [Pubs -> Receives] /\ open \in [Pubs -> SUBSET {"S", "R"}]
      /\ sees["R"] = "failing"
  BY DEF ParkStarts, Core, Types
<1> DEFINE s == IF rec[p].table /\ rec[p].phase \in {"receiving", "ending"}
                THEN [rec[p] EXCEPT !.phase = "parked", !.park = "trunc"] ELSE rec[p]
<1>2. s \in Receives /\ s.table = rec[p].table /\ s.work = rec[p].work
        /\ s.queue = rec[p].queue /\ s.got = rec[p].got /\ s.acked = rec[p].acked
        /\ s.tok = rec[p].tok /\ s.seq = rec[p].seq
  BY <1>1 DEF Receives, Phases
<1>3. IF rec[p].table /\ rec[p].phase \in {"receiving", "ending"} THEN s.phase = "parked" /\ s.park = "trunc" /\ s # NoRec
      ELSE s = rec[p]
  BY <1>1, <1>2 DEF Receives, NoRec
<1>4. rec' = [rec EXCEPT ![p] = s]
  BY DEF ParkStarts
<1> HIDE DEF s
<1>5. /\ rec'[p] = s /\ (\A q \in Pubs \ {p} : rec'[q] = rec[q]) /\ rec' \in [Pubs -> Receives]
      /\ open' \in [Pubs -> SUBSET {"S", "R"}] /\ \A q \in Pubs \ {p} : open'[q] = open[q]
  BY <1>1, <1>2, <1>4 DEF ParkStarts
<1>6. UNCHANGED <<pub, sent, known, link, sees, toR, toS, begin, journal, old>>
  BY DEF ParkStarts, sendVars, linkVars, diskVars
<1>7. Types'
  BY <1>5, <1>6 DEF Types, Core
<1>8. Phase(p)'
  <2>1. CASE s = rec[p]
    BY <2>1, <1>1, <1>3, <1>5, <1>6 DEF Phase, Core
  <2>2. CASE rec[p].table /\ rec[p].phase \in {"receiving", "ending"}
    <3>1. rec[p] # NoRec /\ rec[p].work \notin {"commit", "unlink", "linked", "mark"} /\ rec[p].tok \in Tokens
      BY <2>2 DEF Phase, Core, NoRec
    <3> QED
      BY <2>2, <3>1, <1>1, <1>2, <1>3, <1>5, <1>6 DEF Phase
  <2> QED
    BY <2>1, <2>2, <1>3
<1>9. \A q \in Pubs : Phase(q)'
  BY <1>5, <1>6, <1>8 DEF Phase, Core
<1>10. LinkInv'
  BY <1>6 DEF LinkInv, Core
<1>11. s = rec[p] \/ (Calm(rec[p], s) /\ Onward(rec[p], s))
  <2>1. CASE ~(rec[p].table /\ rec[p].phase \in {"receiving", "ending"})
    BY <2>1, <1>3
  <2>2. CASE rec[p].table /\ rec[p].phase \in {"receiving", "ending"}
    <3>1. rec[p] # NoRec
      BY <2>2 DEF NoRec
    <3> QED
      BY <2>2, <3>1, <1>2, <1>3 DEF Calm, Onward, Kept
  <2> QED
    BY <2>1, <2>2
<1> QED
  BY <1>5, <1>6, <1>7, <1>9, <1>10, <1>11, AsideStep

-----------------------------------------------------------------------------
(* The link.                                                                 *)

\* When nothing is active and nothing under way, the order is what it was.
LEMMA OrderIdle ==
  ASSUME Types, OrderInv, toR' = <<>>, pub' = pub,
         \A q \in Pubs : /\ ~Active(q)' /\ begin'[q].at = "no"
                         /\ rec'[q] = rec[q] \/ rec'[q] = NoRec
  PROVE  OrderInv'
<1>1. \A q \in Pubs : ~Sending(q)' /\ ~Arriving(q)' /\ (Past(q)' <=> Past(q))
  BY DEF Sending, Arriving, Announced, Past
<1>2. NoRec.queue = <<>> /\ NoRec.work = "off" /\ NoRec.table = FALSE
  BY DEF NoRec
<1> QED
  BY <1>1, <1>2 DEF OrderInv

LEMMA BreakStep ==
  ASSUME ArtifactAssumption, Core, Break PROVE Core'
<1>1. Types /\ toR \in Seq(Frames) /\ toS \in Seq(Frames)
  BY DEF Core, Types
<1>2. /\ link' = "broken" /\ UNCHANGED <<pub, sent, known, open, sees, begin, rec, journal, old>>
  BY DEF Break, sendVars, diskVars
<1>3. PICK i \in 0..Len(toR), j \in 0..Len(toS) : toR' = SubSeq(toR, 1, i) /\ toS' = SubSeq(toS, 1, j)
  BY DEF Break
<1>4. toR' \in Seq(Frames) /\ Moves(toR, toR', 0, {}) /\ toS' \in Seq(Frames) /\ Moves(toS, toS', 0, {})
  BY <1>1, <1>3, CutMoves
<1>5. ReadyNamed(toS')
  BY <1>1, <1>4, NamedMoves
<1>6. Types'
  BY <1>1, <1>2, <1>4, <1>5 DEF Types, ReadyNamed
<1>7. \A q \in Pubs : Turn(q)' /\ Course(q)' /\ Numbers(q)'
  BY <1>1, <1>2, <1>4, <1>6, QuietMoves, StaysExchange DEF Core, Stays
<1>8. LinkInv' /\ \A q \in Pubs : Phase(q)'
  BY <1>2 DEF LinkInv, Phase, Core
<1>9. OrderInv'
  <2>1. Len(toR) \in Nat /\ Len(toR') \in Nat
    BY <1>1, <1>4
  <2>2. \A q \in Pubs : (Arriving(q)' => Arriving(q)) /\ (Sending(q)' => Sending(q))
    <3> SUFFICES ASSUME NEW q \in Pubs PROVE (Arriving(q)' => Arriving(q)) /\ (Sending(q)' => Sending(q))
      OBVIOUS
    <3>1. Quietly(q)
      BY <1>4, QuietMoves
    <3> QED
      BY <1>1, <1>2, <1>6, <3>1, QuietFrames DEF Arriving
  <2>3. Orderly(0, {}, Pubs)
    BY <1>2, <1>4, <2>2 DEF Orderly, Active, Kept
  <2> QED
    BY <1>1, <1>6, <2>3, OrderKept DEF Core
<1> QED
  BY <1>6, <1>7, <1>8, <1>9 DEF Core

LEMMA SenderNoticesStep ==
  ASSUME ArtifactAssumption, Core, SenderNotices PROVE Core'
<1>1. Types /\ toR \in Seq(Frames) /\ toS \in Seq(Frames)
  BY DEF Core, Types
<1>2. /\ link' = link /\ link = "broken"
      /\ UNCHANGED <<sent, known, toR, toS, begin, rec, journal, old>>
      /\ sees' = [sees EXCEPT !["S"] = "down"]
      /\ open' = [p \in Pubs |-> open[p] \ {"S"}]
      /\ pub' = [p \in Pubs |-> Interrupted(p)]
  BY DEF SenderNotices, diskVars
<1>3. \A q \in Pubs : \/ pub'[q] = pub[q]
                      \/ pub[q] \in Running /\ pub'[q] \in {"retry", "failed"}
  BY <1>2 DEF Interrupted
<1>4. Types'
  <2>1. pub' \in [Pubs -> {"new", "retry", "ok", "failed"} \cup Running]
    BY <1>1, <1>2, <1>3 DEF Types
  <2>2. open' \in [Pubs -> SUBSET {"S", "R"}] /\ sees' \in [{"S", "R"} -> {"up", "failing", "down"}]
    BY <1>1, <1>2 DEF Types
  <2> QED
    BY <1>1, <1>2, <1>3, <2>1, <2>2 DEF Types
<1>5. \A q \in Pubs : Quietly(q)
  BY <1>1, <1>2, QuietSame
<1>6. \A q \in Pubs : Turn(q)' /\ Course(q)' /\ Numbers(q)'
  BY <1>1, <1>2, <1>3, <1>4, <1>5, StaysExchange DEF Core, Stays, Running
<1>7. sees'["R"] = sees["R"] /\ \A q \in Pubs : "R" \in open[q] => "R" \in open'[q]
  BY <1>1, <1>2 DEF Types
<1>8. LinkInv' /\ \A q \in Pubs : Phase(q)'
  BY <1>2, <1>7 DEF LinkInv, Phase, Core
<1>9. OrderInv'
  <2>1. Moves(toR, toR', 0, {})
    BY <1>1, <1>2, StayMoves
  <2>2. \A q \in Pubs : (Arriving(q)' => Arriving(q)) /\ (Sending(q)' => Sending(q))
    BY <1>2 DEF Arriving, Announced, BeginAt, Sending, DataAt
  <2>3. Orderly(0, {}, Pubs)
    BY <1>2, <1>3, <2>1, <2>2 DEF Orderly, Active, Kept, Running
  <2> QED
    BY <1>1, <1>4, <2>3, OrderKept DEF Core
<1> QED
  BY <1>4, <1>6, <1>8, <1>9 DEF Core

LEMMA ReceiverNoticesStep ==
  ASSUME ArtifactAssumption, Core, ReceiverNotices PROVE Core'
<1>1. /\ UNCHANGED <<pub, sent, known, open, link, toR, toS, begin, rec, journal, old>> /\ link = "broken"
      /\ sees' = [sees EXCEPT !["R"] = "failing"] /\ sees["R"] = "up"
  BY DEF ReceiverNotices, sendVars, diskVars
<1>2. Types' /\ sees'["R"] = "failing"
  BY <1>1 DEF Types, Core
<1>3. LinkInv' /\ \A q \in Pubs : Phase(q)'
  BY <1>1, <1>2 DEF LinkInv, Phase, Core
<1> QED
  BY <1>1, <1>2, <1>3, AsideStep

LEMMA ReceiverDownStep ==
  ASSUME ArtifactAssumption, Core, ReceiverDown PROVE Core'
<1>1. /\ UNCHANGED <<pub, sent, known, open, link, toR, toS, begin, rec, journal, old>>
      /\ sees' = [sees EXCEPT !["R"] = "down"] /\ sees["R"] = "failing"
      /\ \A p \in Pubs : "R" \notin open[p] /\ rec[p].park = "no"
  BY DEF ReceiverDown, sendVars, diskVars
<1>2. Types' /\ sees'["R"] = "down"
  BY <1>1 DEF Types, Core
<1>3. LinkInv' /\ \A q \in Pubs : Phase(q)'
  BY <1>1, <1>2 DEF LinkInv, Phase, Core
<1> QED
  BY <1>1, <1>2, <1>3, AsideStep

LEMMA ReconnectStep ==
  ASSUME ArtifactAssumption, Serialised, Core, Reconnect PROVE Core'
<1>1. Types /\ toR \in Seq(Frames) /\ toS \in Seq(Frames)
  BY DEF Core, Types
<1>2. /\ UNCHANGED <<pub, sent, known, open, begin, rec, journal, old>>
      /\ sees["R"] = "down" /\ link' = "up" /\ sees' = [n \in {"S", "R"} |-> "up"]
      /\ toR' = <<>> /\ toS' = <<>>
      /\ \A p \in Pubs : begin[p].at = "no"
  BY DEF Reconnect, sendVars, diskVars, Serialised
<1>3. Types'
  <2>1. <<>> \in Seq(Frames) /\ Len(<<>>) = 0
    OBVIOUS
  <2> QED
    BY <1>1, <1>2, <2>1 DEF Types
<1>4. Moves(toR, toR', 0, {}) /\ Moves(toS, toS', 0, {})
  BY <1>1, <1>2, EmptyMoves
<1>5. \A q \in Pubs : Turn(q)' /\ Course(q)' /\ Numbers(q)'
  BY <1>1, <1>2, <1>3, <1>4, QuietMoves, StaysExchange DEF Core, Stays
<1>6. \A q \in Pubs : rec[q].phase \notin Kept
  BY <1>2 DEF Core, Phase, Kept
<1>7. LinkInv' /\ \A q \in Pubs : Phase(q)'
  BY <1>2, <1>6 DEF LinkInv, Phase, Core, Kept
<1>8. OrderInv'
  <2>1. \A q \in Pubs : ~Active(q)'
    BY <1>2, <1>6 DEF Active, Arriving, Announced, Kept
  <2> QED
    BY <1>1, <1>2, <2>1, OrderIdle DEF Core
<1> QED
  BY <1>3, <1>5, <1>7, <1>8 DEF Core

LEMMA RestartStep ==
  ASSUME ArtifactAssumption, Core, Restart PROVE Core'
<1>1. Types /\ toR \in Seq(Frames) /\ toS \in Seq(Frames)
  BY DEF Core, Types
<1>2. /\ UNCHANGED <<pub, sent, known, journal, old>>
      /\ link' = "broken" /\ sees' = [sees EXCEPT !["R"] = "down"]
      /\ toR' = <<>> /\ \A q \in Pubs : rec'[q] = NoRec /\ begin'[q] = [at |-> "no", tok |-> None]
  BY DEF Restart, sendVars
<1>3. PICK j \in 0..Len(toS) : toS' = SubSeq(toS, 1, j)
  BY DEF Restart
<1>4. /\ toR' \in Seq(Frames) /\ Moves(toR, toR', 0, {})
      /\ toS' \in Seq(Frames) /\ Moves(toS, toS', 0, {})
  BY <1>1, <1>2, <1>3, CutMoves, EmptyMoves
<1>5. ReadyNamed(toS')
  BY <1>1, <1>4, NamedMoves
<1>6. Types'
  <2>1. /\ open' \in [Pubs -> SUBSET {"S", "R"}] /\ rec' \in [Pubs -> Receives]
        /\ begin' \in [Pubs -> [at : {"no", "prune", "prepare"}, tok : Tokens \cup {None}]]
    BY <1>1, Constants DEF Restart, Types
  <2> QED
    BY <1>1, <1>2, <1>4, <1>5, <2>1 DEF Types, ReadyNamed
<1>7. \A q \in Pubs : Turn(q)' /\ Course(q)' /\ Numbers(q)'
  BY <1>1, <1>2, <1>4, <1>6, QuietMoves, StaysExchange DEF Core, Stays
<1>8. LinkInv' /\ \A q \in Pubs : Phase(q)'
  <2>1. LinkInv'
    BY <1>2 DEF LinkInv
  <2>2. \A q \in Pubs : rec'[q] = NoRec /\ begin'[q].at = "no"
    BY <1>2
  <2>3. /\ NoRec.table = FALSE /\ NoRec.phase = "none" /\ NoRec.work = "off" /\ NoRec.park = "no"
    BY DEF NoRec
  <2> QED
    BY <2>1, <2>2, <2>3 DEF Phase
<1>9. OrderInv'
  <2>1. \A q \in Pubs : ~Active(q)'
    BY <1>2 DEF Active, Arriving, Announced, NoRec
  <2> QED
    BY <1>1, <1>2, <2>1, OrderIdle DEF Core
<1> QED
  BY <1>6, <1>7, <1>8, <1>9 DEF Core

LEMMA AgesStep ==
  ASSUME ArtifactAssumption, Core, NEW t \in Tokens, Ages(t) PROVE Core'
<1>1. UNCHANGED <<pub, sent, known, open, link, sees, toR, toS, begin, rec, journal>>
  BY DEF Ages, sendVars, linkVars
<1>2. Types'
  BY <1>1 DEF Types, Core, Ages
<1>3. LinkInv' /\ \A q \in Pubs : Phase(q)'
  BY <1>1 DEF LinkInv, Phase, Core
<1> QED
  BY <1>1, <1>2, <1>3, AsideStep

LEMMA PruneTypes ==
  ASSUME ArtifactAssumption, Types, Prune
  PROVE  journal' \in [Tokens -> Receipts] /\ old' \in SUBSET Tokens
BY Constants DEF Prune, Types

LEMMA BeginPrunesStep ==
  ASSUME ArtifactAssumption, Core, NEW p \in Pubs, BeginPrunes(p) PROVE Core'
<1>1. /\ UNCHANGED <<pub, sent, known, open, link, sees, toR, toS, rec>>
      /\ begin[p].at = "prune" /\ begin' = [begin EXCEPT ![p].at = "prepare"]
  BY DEF BeginPrunes, sendVars, linkVars
<1>2. journal' \in [Tokens -> Receipts] /\ old' \in SUBSET Tokens
  BY PruneTypes DEF BeginPrunes, Core
<1>3. begin' \in [Pubs -> [at : {"no", "prune", "prepare"}, tok : Tokens \cup {None}]]
      /\ \A q \in Pubs : begin'[q].at # "no" => begin[q].at # "no"
  BY <1>1 DEF Types, Core
<1>4. Types'
  BY <1>1, <1>2, <1>3 DEF Types, Core
<1>5. LinkInv' /\ \A q \in Pubs : Phase(q)'
  BY <1>1, <1>3 DEF LinkInv, Phase, Core
<1> QED
  BY <1>1, <1>3, <1>4, <1>5, AsideStep

-----------------------------------------------------------------------------
(* Frames that reach the receiver.                                           *)

\* A frame is taken that nothing goes on with.
LEMMA TakenStep ==
  ASSUME Core, Types', LinkInv', \A q \in Pubs : Phase(q)', UNCHANGED <<pub, link>>,
         toR # <<>>, toR' = Tail(toR), \A q \in Pubs : CancelAt(q, 1) => ~Active(q)',
         NEW M \in SUBSET Frames, Moves(toS, toS', 0, M),
         \A f \in M : f.kind = "error" /\ pub[f.pub] # "new",
         \A q \in Pubs :
           /\ begin'[q].at # "no" => begin[q].at # "no"
           /\ rec'[q] = rec[q] \/ (Calm(rec[q], rec'[q]) /\ Onward(rec[q], rec'[q]))
  PROVE  Core'
<1>1. Types /\ OrderInv /\ Moves(toR, toR', 1, {}) /\ Len(toR') = Len(toR) - 1
  BY HeadR DEF Core
<1>2. \A q \in Pubs : Quietly(q)
  BY <1>1 DEF Quietly
<1>3. \A q \in Pubs : Turn(q)' /\ Course(q)' /\ Numbers(q)'
  BY <1>1, <1>2, StaysExchange DEF Core, Stays
<1>4. \A q \in Pubs : /\ Arriving(q)' => Arriving(q)
                      /\ Sending(q)' => Sending(q)
  BY <1>1, <1>2, QuietFrames DEF Arriving
<1>5. Orderly(1, {}, {})
  <2>1. \A q \in Pubs :
           /\ rec'[q].phase \in Kept => Active(q)
           /\ begin'[q].at # "no" \/ rec'[q].table => begin[q].at # "no" \/ rec[q].table
    BY DEF Active, Onward, Kept
  <2>2. Len(toR') >= Len(toR) - 1
    <3>1. Len(toR) \in Nat
      BY <1>1 DEF Types
    <3> QED
      BY <1>1, <3>1
  <2> QED
    BY <1>1, <1>4, <2>1, <2>2 DEF Orderly
<1>6. OrderInv'
  BY <1>1, <1>5, OrderKept
<1> QED
  BY <1>3, <1>6 DEF Core

\* The frame that is taken.
LEMMA Taken ==
  ASSUME Core, NEW k, Receive(k)
  PROVE  /\ toR # <<>> /\ toR' = Tail(toR) /\ sees["R"] = "up" /\ Head(toR) = toR[1]
         /\ Head(toR).kind \in k /\ Head(toR).pub \in Pubs /\ pub[Head(toR).pub] # "new"
         /\ toR' \in Seq(Frames) /\ Moves(toR, toR', 1, {}) /\ Len(toR') = Len(toR) - 1
         /\ Len(toR) \in Nat /\ 1 \in 1..Len(toR) /\ Head(toR).n \in 0..Chunks
         /\ Head(toR).tok \in Tokens \cup {None}
<1>1. toR # <<>> /\ toR' = Tail(toR) /\ sees["R"] = "up" /\ Head(toR).kind \in k
  BY DEF Receive
<1>2. /\ Head(toR) = toR[1] /\ Head(toR).pub \in Pubs /\ Len(toR) \in Nat /\ Len(toR) >= 1
      /\ toR' \in Seq(Frames) /\ Moves(toR, toR', 1, {}) /\ Len(toR') = Len(toR) - 1
      /\ Head(toR).n \in 0..Chunks /\ Head(toR).tok \in Tokens \cup {None}
  BY <1>1, HeadR DEF Core
<1>3. 1 \in 1..Len(toR)
  BY <1>2
<1>4. pub[Head(toR).pub] # "new"
  BY <1>2, <1>3 DEF Core, Course
<1> QED
  BY <1>1, <1>2, <1>3, <1>4

\* What an abort makes of a receive.
LEMMA Aborted ==
  ASSUME Core, NEW p \in Pubs, rec[p].table, rec[p].phase # "parked",
         NEW s, s = [rec[p] EXCEPT !.phase = "aborting"]
  PROVE  /\ s \in Receives /\ Calm(rec[p], s) /\ Onward(rec[p], s)
         /\ s.phase = "aborting" /\ s.table /\ s.park = "no" /\ s.work = rec[p].work
         /\ s.work # "mark" /\ s.tok \in Tokens
<1>0. rec[p] \in Receives /\ rec[p] # NoRec
  BY DEF Core, Types, NoRec
<1>1. /\ rec[p] \in Receives /\ rec[p] # NoRec /\ rec[p].park = "no"
      /\ rec[p].work # "mark" /\ rec[p].tok \in Tokens
  BY <1>0 DEF Core, Phase
<1>2. s \in Receives /\ s.phase = "aborting" /\ s.table = rec[p].table /\ s.work = rec[p].work
        /\ s.queue = rec[p].queue /\ s.got = rec[p].got /\ s.acked = rec[p].acked
        /\ s.tok = rec[p].tok /\ s.park = rec[p].park /\ s.seq = rec[p].seq
  BY <1>1 DEF Receives, Phases
<1> QED
  BY <1>1, <1>2 DEF Calm, Onward, Kept

\* A frame of p whose handler leaves the receive or marks it for an abort.
LEMMA LeavesOrAborts ==
  ASSUME ArtifactAssumption, Core, NEW k, Receive(k),
         NEW p \in Pubs, p = Head(toR).pub,
         NEW s, s = rec[p] \/ (rec[p].table /\ s = [rec[p] EXCEPT !.phase = "aborting"]),
         rec' = [rec EXCEPT ![p] = s],
         UNCHANGED <<pub, sent, known, link, sees, toS, begin, journal, old>>,
         open' = open \/ (open' = [open EXCEPT ![p] = @ \ {"R"}] /\ begin[p].at = "no"
                          /\ s.phase \notin {"receiving", "ending"}),
         Head(toR).kind = "cancel" => begin[p].at = "no" /\ s.phase \notin Kept
  PROVE  Core'
<1>1. /\ toR # <<>> /\ toR' = Tail(toR) /\ sees["R"] = "up" /\ Head(toR) = toR[1]
      /\ toR' \in Seq(Frames) /\ Moves(toR, toR', 1, {}) /\ Len(toR') = Len(toR) - 1
      /\ Len(toR) \in Nat /\ 1 \in 1..Len(toR)
  BY Taken
<1>2. /\ Types /\ rec \in [Pubs -> Receives] /\ open \in [Pubs -> SUBSET {"S", "R"}]
      /\ toS \in Seq(Frames) /\ rec[p].phase # "parked"
  BY <1>1 DEF Core, Types, Phase
<1>3. s \in Receives
  BY <1>2, Aborted
<1>4. rec' \in [Pubs -> Receives] /\ rec'[p] = s /\ \A q \in Pubs \ {p} : rec'[q] = rec[q]
  BY <1>2, <1>3
<1>5. /\ open' \in [Pubs -> SUBSET {"S", "R"}] /\ \A q \in Pubs \ {p} : open'[q] = open[q]
  BY <1>2
<1>6. Types'
  BY <1>1, <1>2, <1>4, <1>5 DEF Types
<1>7. LinkInv'
  BY DEF LinkInv, Core
<1>8. Phase(p)'
  <2>1. CASE s = rec[p]
    BY <2>1, <1>4 DEF Phase, Core
  <2>2. CASE rec[p].table /\ s = [rec[p] EXCEPT !.phase = "aborting"]
    <3>1. s.phase = "aborting" /\ s.table /\ s.park = "no" /\ s.work # "mark" /\ s.tok \in Tokens
      BY <1>2, <2>2, Aborted
    <3>2. begin[p].at # "no" /\ sees["R"] = "up" => "R" \in open[p]
      BY DEF Phase, Core
    <3> QED
      BY <3>1, <3>2, <1>4 DEF Phase
  <2> QED
    BY <2>1, <2>2
<1>9. \A q \in Pubs : Phase(q)'
  BY <1>4, <1>5, <1>8 DEF Phase, Core
<1>10. \A q \in Pubs : rec'[q] = rec[q] \/ (Calm(rec[q], rec'[q]) /\ Onward(rec[q], rec'[q]))
  BY <1>2, <1>4, Aborted
<1>11. \A q \in Pubs : CancelAt(q, 1) => ~Active(q)'
  <2> SUFFICES ASSUME CancelAt(p, 1) PROVE ~Active(p)'
    BY <1>1 DEF CancelAt
  <2>1. begin'[p].at = "no" /\ rec'[p].phase \notin Kept
    BY <1>1, <1>4 DEF CancelAt
  <2>2. ASSUME NEW i \in 1..Len(toR'), BeginAt(p, i)' PROVE FALSE
    <3>1. i + 1 \in 1..Len(toR) /\ BeginAt(p, i + 1) /\ 1 \in 1..(i + 1 - 1)
      BY <1>1, <2>2 DEF Moves, BeginAt
    <3> QED
      BY <1>1, <3>1 DEF Core, Course, CancelAt
  <2> QED
    BY <2>1, <2>2 DEF Active, Arriving, Announced, Kept
<1>12. Moves(toS, toS', 0, {})
  BY <1>2, StayMoves
<1> QED
  BY <1>1, <1>6, <1>7, <1>9, <1>10, <1>11, <1>12, TakenStep

LEMMA CancelStep ==
  ASSUME ArtifactAssumption, Serialised, Core, Cancel PROVE Core'
<1> DEFINE p == Head(toR).pub
           s == IF rec[p].table THEN AbortMarked(rec[p]) ELSE rec[p]
<1>1. Receive({"cancel"}) /\ begin[p].at = "no" /\ rec' = [rec EXCEPT ![p] = s]
      /\ UNCHANGED <<pub, sent, known, open, link, sees, toS, begin, journal, old>>
  BY DEF Cancel, Serialised, sendVars, linkVars, diskVars
<1>2. p \in Pubs /\ sees["R"] = "up"
  BY <1>1, Taken
<1>3. rec[p].phase \notin {"completed", "parked"} \/ ~rec[p].table
  BY <1>2 DEF Core, Phase
<1>4. s = rec[p] \/ (rec[p].table /\ s = [rec[p] EXCEPT !.phase = "aborting"])
  BY DEF AbortMarked
<1>5. s.phase \notin Kept
  <2>1. CASE rec[p].table
    <3>1. rec[p] \in Receives
      BY <1>2 DEF Core, Types
    <3> QED
      BY <2>1, <3>1, <1>3 DEF AbortMarked, Kept, Receives
  <2>2. CASE ~rec[p].table
    BY <2>2, <1>2 DEF Core, Phase, Kept
  <2> QED
    BY <2>1, <2>2
<1> HIDE DEF p, s
<1>6. p = Head(toR).pub
  BY DEF p
<1> QED
  BY <1>1, <1>2, <1>4, <1>5, <1>6, LeavesOrAborts

LEMMA CloseStep ==
  ASSUME ArtifactAssumption, Serialised, Core, Close PROVE Core'
<1> DEFINE p == Head(toR).pub
           s == [rec[p] EXCEPT !.phase = IF rec[p].table /\ @ # "completed" THEN "aborting" ELSE @]
<1>1. Receive({"close"}) /\ begin[p].at = "no"
      /\ UNCHANGED <<pub, sent, known, link, sees, toS, begin, journal, old>>
      /\ open' = [open EXCEPT ![p] = @ \ {"R"}]
  BY DEF Close, Serialised, sendVars, linkVars, diskVars
<1>2. p \in Pubs /\ sees["R"] = "up" /\ Head(toR).kind = "close"
  BY <1>1, Taken
<1>3. rec[p] \in Receives /\ rec \in [Pubs -> Receives]
  BY <1>2 DEF Core, Types
<1>4. rec' = [rec EXCEPT ![p] = s]
  BY <1>3 DEF Close
<1>5. s = rec[p] \/ (rec[p].table /\ s = [rec[p] EXCEPT !.phase = "aborting"])
  BY <1>3 DEF Receives
<1>6. s.phase \notin {"receiving", "ending"}
  <2>1. CASE rec[p].table /\ rec[p].phase # "completed"
    BY <1>3, <2>1 DEF Receives
  <2>2. CASE ~(rec[p].table /\ rec[p].phase # "completed")
    BY <1>2, <1>3, <2>2 DEF Core, Phase, Receives
  <2> QED
    BY <2>1, <2>2
<1> HIDE DEF p, s
<1>7. p = Head(toR).pub
  BY DEF p
<1> QED
  BY <1>1, <1>2, <1>4, <1>5, <1>6, <1>7, LeavesOrAborts

\* A chunk or the end that is taken up.
LEMMA TakenUp ==
  ASSUME ArtifactAssumption, Core, NEW k, Receive(k),
         NEW p \in Pubs, p = Head(toR).pub, Head(toR).kind \in {"chunk", "end"},
         rec[p].table, rec[p].phase = "receiving",
         NEW m \in Nat, m = IF Head(toR).kind = "chunk" THEN Head(toR).n ELSE EndMark,
         NEW s \in Receives, s.queue = Append(rec[p].queue, m), s.phase \in {"receiving", "ending"},
         s.table, s.work = rec[p].work, s.got = rec[p].got, s.acked = rec[p].acked,
         s.tok = rec[p].tok, s.park = rec[p].park, s.seq = rec[p].seq,
         rec' = [rec EXCEPT ![p] = s],
         UNCHANGED <<pub, sent, known, open, link, sees, toS, begin, journal, old>>
  PROVE  Core'
<1>1. /\ toR # <<>> /\ toR' = Tail(toR) /\ sees["R"] = "up" /\ Head(toR) = toR[1]
      /\ toR' \in Seq(Frames) /\ Moves(toR, toR', 1, {}) /\ Len(toR') = Len(toR) - 1
      /\ Len(toR) \in Nat /\ 1 \in 1..Len(toR)
  BY Taken
<1>2. /\ Types /\ rec \in [Pubs -> Receives] /\ toS \in Seq(Frames) /\ rec[p] \in Receives
      /\ Turn(p) /\ Course(p) /\ Numbers(p) /\ Phase(p) /\ OrderInv
  BY DEF Core, Types
<1>3. rec' \in [Pubs -> Receives] /\ rec'[p] = s /\ \A q \in Pubs \ {p} : rec'[q] = rec[q]
  BY <1>2
<1>4. Types'
  BY <1>1, <1>2, <1>3 DEF Types
<1>5. LinkInv'
  BY DEF LinkInv, Core
<1>6. Sending(p) /\ DataAt(p, 1)
  BY <1>1 DEF Sending, DataAt
<1>7. ~Answering(p) /\ rec[p].queue = <<>> /\ rec[p].work \notin {"write", "ack"} /\ rec[p] # NoRec
  <2>1. NoRec.table = FALSE
    BY DEF NoRec
  <2> QED
    BY <1>2, <1>6, <2>1 DEF Turn
<1>8. Append(<<>>, m) = <<m>> /\ Len(<<m>>) = 1 /\ Head(<<m>>) = m /\ <<m>> # <<>>
  OBVIOUS
<1>9. s.queue = <<m>>
  BY <1>7, <1>8
<1>10. ~Sending(p)'
  <2> SUFFICES ASSUME NEW i \in 1..Len(toR'), DataAt(p, i)' PROVE FALSE
    BY DEF Sending
  <2>1. i + 1 \in 1..Len(toR) /\ DataAt(p, i + 1)
    BY <1>1 DEF Moves, DataAt
  <2>2. i + 1 = 1
    BY <1>1, <1>2, <1>6, <2>1 DEF Turn
  <2> QED
    BY <2>2
<1>11. \A q \in Pubs : Quietly(q)
  <2>1. Moves(toS, toS', 0, {})
    BY <1>2, StayMoves
  <2> QED
    BY <1>1, <2>1, QuietMoves
<1>12. \A q \in Pubs : /\ Sending(q)' => Sending(q)
                       /\ Answering(q)' => Answering(q)
                       /\ Arriving(q)' => Arriving(q)
  BY <1>2, <1>4, <1>11, QuietFrames DEF Arriving
<1>13. Turn(p)'
  <2>1. \A i, j \in 1..Len(toR') : DataAt(p, i)' /\ DataAt(p, j)' => i = j
    BY <1>10 DEF Sending
  <2>2. \A i, j \in 1..Len(toS') : GoAt(p, i)' /\ GoAt(p, j)' => i = j
    <3>1. toS' = toS /\ \A i \in 1..Len(toS) : GoAt(p, i)' <=> GoAt(p, i)
      BY DEF GoAt
    <3>2. \A i, j \in 1..Len(toS) : GoAt(p, i) /\ GoAt(p, j) => i = j
      BY <1>2 DEF Turn
    <3> QED
      BY <3>1, <3>2
  <2>3. Len(rec'[p].queue) = 1 /\ rec'[p].work \notin {"write", "ack"} /\ ~Sending(p)' /\ ~Answering(p)'
    BY <1>3, <1>7, <1>8, <1>9, <1>10, <1>12
  <2> QED
    BY <2>1, <2>2, <2>3, SMTT(30) DEF Turn
<1>14. Course(p)'
  BY <1>2, <1>3, <1>4, <1>7, <1>11, CourseQuiet
<1>15. Numbers(p)'
  <2>1. /\ \A i \in 1..Len(toR') : ~(toR'[i].pub = p /\ toR'[i].kind = "chunk")
        /\ \A i \in 1..Len(toS') : ~(toS'[i].pub = p /\ toS'[i].kind \in {"ready", "ack"})
    BY <1>7, <1>10, <1>12 DEF Sending, DataAt, Answering, GoAt
  <2>2. m \in {rec[p].got, EndMark}
    BY <1>1, <1>2 DEF Numbers
  <2>3. Head(s.queue) = m
    BY <1>8, <1>9
  <2> QED
    BY <1>2, <1>3, <1>7, <2>1, <2>2, <2>3 DEF Numbers
<1>16. \A q \in Pubs : Turn(q)' /\ Course(q)' /\ Numbers(q)'
  BY <1>3, <1>4, <1>11, <1>13, <1>14, <1>15, StaysExchange DEF Core, Stays
<1>17. Phase(p)'
  BY <1>2, <1>3, <1>7 DEF Phase
<1>18. \A q \in Pubs : Phase(q)'
  BY <1>3, <1>17 DEF Phase, Core
<1>19. Orderly(1, {}, {})
  <2>1. ~Past(p)
    BY <1>2, <1>6 DEF OrderInv
  <2>2. \A q \in Pubs : ~CancelAt(q, 1)
    BY <1>1 DEF CancelAt
  <2>3. rec'[p].phase \in Kept => Active(p)
    BY <1>2 DEF Active
  <2>4. \A q \in Pubs \ {p} : rec'[q].phase \in Kept => Active(q)
    BY <1>3 DEF Active, Kept
  <2>5. Len(toR') >= Len(toR) - 1
    BY <1>1
  <2> QED
    BY <1>1, <1>3, <1>12, <2>1, <2>2, <2>3, <2>4, <2>5 DEF Orderly
<1>20. OrderInv'
  BY <1>2, <1>4, <1>19, OrderKept
<1> QED
  BY <1>4, <1>5, <1>16, <1>18, <1>20 DEF Core

LEMMA ChunkStep ==
  ASSUME ArtifactAssumption, Core, Chunk PROVE Core'
<1> DEFINE p == Head(toR).pub
           n == Head(toR).n
           s == IF ~rec[p].table THEN rec[p]
                ELSE IF rec[p].phase = "receiving" /\ n = rec[p].next
                THEN [rec[p] EXCEPT !.queue = Append(@, n), !.next = @ + 1] ELSE AbortMarked(rec[p])
<1>1. Receive({"chunk"}) /\ rec' = [rec EXCEPT ![p] = s]
      /\ UNCHANGED <<pub, sent, known, open, link, sees, toS, begin, journal, old>>
  BY DEF Chunk, sendVars, linkVars, diskVars
<1>2. p \in Pubs /\ Head(toR).kind = "chunk" /\ n \in 0..Chunks
  BY <1>1, Taken
<1>3. rec[p] \in Receives
  BY <1>2 DEF Core, Types
<1>4. CASE rec[p].table /\ rec[p].phase = "receiving" /\ n = rec[p].next
  <2> DEFINE r == [rec[p] EXCEPT !.queue = Append(@, n), !.next = @ + 1]
  <2>1. n \in Nat
    BY <1>2, Constants
  <2> HIDE DEF n
  <2>2. Append(rec[p].queue, n) \in Seq(Nat) /\ rec[p].next + 1 \in Nat
    BY <1>3, <2>1 DEF Receives
  <2>3. /\ r \in Receives /\ r.queue = Append(rec[p].queue, n) /\ r.phase = "receiving"
        /\ r.table = rec[p].table /\ r.work = rec[p].work /\ r.got = rec[p].got /\ r.acked = rec[p].acked
        /\ r.tok = rec[p].tok /\ r.park = rec[p].park /\ r.seq = rec[p].seq
    BY <1>3, <1>4, <2>2 DEF Receives
  <2>4. rec' = [rec EXCEPT ![p] = r]
    BY <1>1, <1>4 DEF n
  <2>5. n = IF Head(toR).kind = "chunk" THEN Head(toR).n ELSE EndMark
    BY <1>2 DEF n
  <2> HIDE DEF p, r
  <2>6. p = Head(toR).pub
    BY DEF p
  <2> QED
    BY <1>1, <1>2, <1>4, <2>1, <2>3, <2>4, <2>5, <2>6, TakenUp
<1>5. CASE ~(rec[p].table /\ rec[p].phase = "receiving" /\ n = rec[p].next)
  <2>1. s = rec[p] \/ (rec[p].table /\ s = [rec[p] EXCEPT !.phase = "aborting"])
    BY <1>5 DEF AbortMarked
  <2>2. p = Head(toR).pub
    OBVIOUS
  <2> HIDE DEF p, s
  <2> QED
    BY <1>1, <1>2, <2>1, <2>2, LeavesOrAborts
<1> QED
  BY <1>4, <1>5

LEMMA EndStep ==
  ASSUME ArtifactAssumption, Core, End PROVE Core'
<1> DEFINE p == Head(toR).pub
           n == Head(toR).n
           s == IF ~rec[p].table THEN rec[p]
                ELSE IF rec[p].phase = "receiving" /\ n = rec[p].next
                THEN [rec[p] EXCEPT !.queue = Append(@, EndMark), !.phase = "ending"]
                ELSE AbortMarked(rec[p])
<1>1. Receive({"end"}) /\ rec' = [rec EXCEPT ![p] = s]
      /\ UNCHANGED <<pub, sent, known, open, link, sees, toS, begin, journal, old>>
  BY DEF End, sendVars, linkVars, diskVars
<1>2. p \in Pubs /\ Head(toR).kind = "end" /\ EndMark \in Nat
  BY <1>1, Taken, Constants
<1>3. rec[p] \in Receives
  BY <1>2 DEF Core, Types
<1>4. CASE rec[p].table /\ rec[p].phase = "receiving" /\ n = rec[p].next
  <2> DEFINE r == [rec[p] EXCEPT !.queue = Append(@, EndMark), !.phase = "ending"]
  <2>2. Append(rec[p].queue, EndMark) \in Seq(Nat)
    BY <1>2, <1>3 DEF Receives
  <2>3. /\ r \in Receives /\ r.queue = Append(rec[p].queue, EndMark) /\ r.phase = "ending"
        /\ r.table = rec[p].table /\ r.work = rec[p].work /\ r.got = rec[p].got /\ r.acked = rec[p].acked
        /\ r.tok = rec[p].tok /\ r.park = rec[p].park /\ r.seq = rec[p].seq
    BY <1>3, <2>2 DEF Receives, Phases
  <2>4. rec' = [rec EXCEPT ![p] = r]
    BY <1>1, <1>4
  <2>5. EndMark = IF Head(toR).kind = "chunk" THEN Head(toR).n ELSE EndMark
    BY <1>2
  <2> HIDE DEF p, r
  <2>6. p = Head(toR).pub
    BY DEF p
  <2> QED
    BY <1>1, <1>2, <1>4, <2>3, <2>4, <2>5, <2>6, TakenUp
<1>5. CASE ~(rec[p].table /\ rec[p].phase = "receiving" /\ n = rec[p].next)
  <2>1. s = rec[p] \/ (rec[p].table /\ s = [rec[p] EXCEPT !.phase = "aborting"])
    BY <1>5 DEF AbortMarked
  <2>2. p = Head(toR).pub
    OBVIOUS
  <2> HIDE DEF p, s
  <2> QED
    BY <1>1, <1>2, <2>1, <2>2, LeavesOrAborts
<1> QED
  BY <1>4, <1>5

\* A begin that is accepted goes from the channel to the journal.
LEMMA BeginAccepted ==
  ASSUME ArtifactAssumption, Core, Begin, NEW p \in Pubs, p = Head(toR).pub,
         NEW t, t = Head(toR).tok, Head(toR).kind = "begin", "R" \in open[p],
         begin' = [begin EXCEPT ![p] = [at |-> "prune", tok |-> t]], UNCHANGED toS
  PROVE  Core'
<1>1. Receive({"begin", "again"})
      /\ UNCHANGED <<pub, sent, known, open, link, sees, rec, journal, old>>
  BY DEF Begin, sendVars, linkVars, diskVars
<1>2. /\ toR # <<>> /\ toR' = Tail(toR) /\ sees["R"] = "up" /\ Head(toR) = toR[1]
      /\ toR' \in Seq(Frames) /\ Moves(toR, toR', 1, {}) /\ Len(toR') = Len(toR) - 1
      /\ Len(toR) \in Nat /\ 1 \in 1..Len(toR) /\ pub[p] # "new"
      /\ t \in Tokens \cup {None}
  BY <1>1, Taken
<1>3. /\ Types /\ toS \in Seq(Frames) /\ OrderInv
      /\ begin \in [Pubs -> [at : {"no", "prune", "prepare"}, tok : Tokens \cup {None}]]
  BY DEF Core, Types
<1>4. LinkInv'
  BY <1>1 DEF LinkInv, Core
<1>5. \A q \in Pubs : ~CancelAt(q, 1)
  BY <1>2 DEF CancelAt
<1>6. UNCHANGED toS
  OBVIOUS
<1>21. /\ begin' \in [Pubs -> [at : {"no", "prune", "prepare"}, tok : Tokens \cup {None}]]
       /\ begin'[p].at = "prune" /\ \A q \in Pubs \ {p} : begin'[q] = begin[q]
  BY <1>2, <1>3, <1>6
<1>22. Types'
  BY <1>1, <1>2, <1>3, <1>6, <1>21 DEF Types
<1>23. \A q \in Pubs : Phase(q)'
  BY <1>1, <1>2, <1>6, <1>21 DEF Phase, Core
<1>24. BeginAt(p, 1) /\ Announced(p) /\ Arriving(p)
  BY <1>2, <1>6 DEF BeginAt, Announced, Arriving
<1>25. Moves(toS, toS', 0, {})
  BY <1>3, <1>6, StayMoves
<1>26. \A q \in Pubs : Quietly(q)
  BY <1>2, <1>25, QuietMoves
<1>27. \A q \in Pubs : /\ Sending(q)' => Sending(q)
                       /\ Answering(q)' => Answering(q)
                       /\ Announced(q)' => Announced(q)
                       /\ (\E i \in 1..Len(toS) : DoneAt(q, i))' => \E i \in 1..Len(toS) : DoneAt(q, i)
  BY <1>3, <1>22, <1>26, QuietFrames
<1>28. ~Announced(p)'
  <2> SUFFICES ASSUME NEW i \in 1..Len(toR'), BeginAt(p, i)' PROVE FALSE
    BY DEF Announced
  <2>1. i + 1 \in 1..Len(toR) /\ BeginAt(p, i + 1) /\ 1 \in 1..(i + 1 - 1)
    BY <1>2 DEF Moves, BeginAt
  <2>2. toR[1].pub = p
    BY <1>24 DEF BeginAt
  <2> QED
    BY <1>2, <2>1, <2>2 DEF Core, Course
<1>29. Turn(p)' /\ Numbers(p)'
  BY <1>1, <1>2, <1>3, <1>22, <1>26, TurnQuiet, NumbersQuiet DEF Core
<1>30. Course(p)'
  <2>1. Course(p) /\ rec'[p] = NoRec /\ pub'[p] = pub[p] /\ pub[p] # "new"
    BY <1>1, <1>2, <1>24 DEF Core, Course
  <2>2. \A i \in 1..Len(toR') : BeginAt(p, i)' => \A j \in 1..(i - 1) : toR'[j].pub # p
    BY <1>28 DEF Announced
  <2>3. ~Sending(p)' /\ ~Answering(p)'
    BY <1>24, <1>27, <2>1 DEF Course
  <2>4. ~((\E i \in 1..Len(toS') : DoneAt(p, i)') \/ pub'[p] = "ok")
    BY <1>2, <1>24, <1>27, <2>1 DEF Course
  <2> QED
    BY <1>28, <2>1, <2>2, <2>3, <2>4 DEF Course
<1>31. \A q \in Pubs : Turn(q)' /\ Course(q)' /\ Numbers(q)'
  <2>1. \A q \in Pubs \ {p} : Stays(q)
    BY <1>1, <1>21, <1>26 DEF Stays
  <2> QED
    BY <1>3, <1>22, <1>29, <1>30, <2>1, StaysExchange DEF Core
<1>32. Orderly(1, {}, {})
  <2>1. \A q \in Pubs : Arriving(q)' => Arriving(q)
    BY <1>21, <1>24, <1>27 DEF Arriving
  <2>2. \A q \in Pubs : rec'[q].phase \in Kept => Active(q)
    BY <1>1 DEF Active, Kept
  <2>3. Len(toR') >= Len(toR) - 1
    BY <1>2
  <2> QED
    BY <1>1, <1>2, <1>5, <1>21, <1>24, <1>27, <2>1, <2>2, <2>3 DEF Orderly
<1>33. OrderInv'
  BY <1>3, <1>22, <1>32, OrderKept
<1> QED
  BY <1>4, <1>22, <1>23, <1>31, <1>33 DEF Core

LEMMA BeginStep ==
  ASSUME ArtifactAssumption, Core, Begin PROVE Core'
<1> DEFINE p == Head(toR).pub
           t == Head(toR).tok
<1>1. Receive({"begin", "again"})
      /\ UNCHANGED <<pub, sent, known, open, link, sees, rec, journal, old>>
  BY DEF Begin, sendVars, linkVars, diskVars
<1>2. /\ toR # <<>> /\ toR' = Tail(toR) /\ sees["R"] = "up" /\ Head(toR) = toR[1]
      /\ toR' \in Seq(Frames) /\ Moves(toR, toR', 1, {}) /\ Len(toR') = Len(toR) - 1
      /\ Len(toR) \in Nat /\ 1 \in 1..Len(toR) /\ p \in Pubs /\ pub[p] # "new"
      /\ Head(toR).kind \in {"begin", "again"} /\ t \in Tokens \cup {None}
  BY <1>1, Taken
<1>3. /\ Types /\ toS \in Seq(Frames) /\ OrderInv
      /\ begin \in [Pubs -> [at : {"no", "prune", "prepare"}, tok : Tokens \cup {None}]]
  BY DEF Core, Types
<1>4. LinkInv'
  BY <1>1 DEF LinkInv, Core
<1>5. \A q \in Pubs : ~CancelAt(q, 1)
  BY <1>2 DEF CancelAt
<1>6. CASE ToS(Frame("error", p, 0, None)) /\ UNCHANGED begin
  <2> DEFINE f == Frame("error", p, 0, None)
  <2>1. f \in Frames /\ f.kind = "error" /\ f.pub = p
    BY <1>2, FrameType, Constants
  <2>2. toS' \in Seq(Frames) /\ Moves(toS, toS', 0, {f})
    BY <1>3, <1>6, <2>1, ToSMoves
  <2> HIDE DEF f, p
  <2>3. ReadyNamed(toS')
    BY <1>3, <2>1, <2>2, NamedMoves
  <2>4. Types'
    BY <1>1, <1>2, <1>3, <1>6, <2>2, <2>3 DEF Types, ReadyNamed
  <2>5. \A q \in Pubs : Phase(q)'
    BY <1>1, <1>6 DEF Phase, Core
  <2>6. {f} \in SUBSET Frames /\ \A g \in {f} : g.kind = "error" /\ pub[g.pub] # "new"
    BY <1>2, <2>1
  <2> QED
    BY <1>1, <1>2, <1>4, <1>5, <1>6, <2>2, <2>4, <2>5, <2>6, TakenStep
<1>7. CASE /\ Head(toR).kind = "begin" /\ "R" \in open[p]
           /\ begin' = [begin EXCEPT ![p] = [at |-> "prune", tok |-> t]]
           /\ UNCHANGED toS
  <2>1. p = Head(toR).pub /\ t = Head(toR).tok
    OBVIOUS
  <2> HIDE DEF p, t
  <2> QED
    BY <1>2, <1>7, <2>1, BeginAccepted
<1> QED
  BY <1>6, <1>7 DEF Begin

-----------------------------------------------------------------------------
(* A begin that is through with the journal.                                 *)

Fresh(r) ==
  /\ r \in Receives /\ r.table /\ r.phase \in {"receiving", "aborting"} /\ r.tok \in Tokens
  /\ r.queue = <<>> /\ r.work = "seed" /\ r.acked = r.got /\ r.park = "no"

LEMMA PreparedStep ==
  ASSUME ArtifactAssumption, Core, NEW p \in Pubs, begin[p].at = "prepare",
         begin' = [begin EXCEPT ![p] = [at |-> "no", tok |-> None]],
         UNCHANGED <<pub, sent, known, open, link, sees, toR>>,
         journal' \in [Tokens -> Receipts], old' \in SUBSET Tokens,
         NEW r, rec' = [rec EXCEPT ![p] = r],
         r = NoRec \/ (Fresh(r) /\ (r.phase = "receiving" => sees["R"] = "up")),
         NEW f \in Frames, f.pub = p, f.kind \in {"ready", "committed", "error"},
         toS' \in Seq(Frames), Moves(toS, toS', 0, {f}), Len(toS') <= Len(toS) + 1,
         f.kind = "ready" => r # NoRec /\ f.n = r.got /\ f.tok \in Tokens,
         f.kind = "committed" => r = NoRec
  PROVE  Core'
<1>1. /\ Types /\ toR \in Seq(Frames) /\ toS \in Seq(Frames) /\ OrderInv /\ rec \in [Pubs -> Receives]
      /\ begin \in [Pubs -> [at : {"no", "prune", "prepare"}, tok : Tokens \cup {None}]]
      /\ Course(p) /\ Phase(p)
  BY DEF Core, Types
<1>2. Arriving(p) /\ ~Announced(p) /\ ~Sending(p) /\ ~Answering(p) /\ rec[p] = NoRec
      /\ pub[p] \notin {"new", "ok"} /\ ~(\E i \in 1..Len(toS) : DoneAt(p, i))
  <2>1. Arriving(p)
    BY DEF Arriving
  <2> QED
    BY <1>1, <2>1 DEF Course
<1>3. /\ NoRec \in Receives /\ NoRec.table = FALSE /\ NoRec.queue = <<>> /\ NoRec.work = "off"
      /\ NoRec.phase = "none" /\ NoRec.park = "no" /\ Len(<<>>) = 0
  BY Constants DEF NoRec
<1>4. r \in Receives /\ r.queue = <<>> /\ r.work \in {"off", "seed"}
  BY <1>3 DEF Fresh
<1>5. rec' \in [Pubs -> Receives] /\ rec'[p] = r /\ \A q \in Pubs \ {p} : rec'[q] = rec[q]
  BY <1>1, <1>4
<1>6. /\ begin' \in [Pubs -> [at : {"no", "prune", "prepare"}, tok : Tokens \cup {None}]]
      /\ begin'[p].at = "no" /\ \A q \in Pubs \ {p} : begin'[q] = begin[q]
  BY <1>1
<1>7. ReadyNamed(toS')
  BY <1>1, NamedMoves
<1>8. Types'
  BY <1>1, <1>5, <1>6, <1>7 DEF Types, ReadyNamed
<1>9. LinkInv'
  BY DEF LinkInv, Core
<1>10. Phase(p)'
  <2>1. CASE r = NoRec
    BY <2>1, <1>3, <1>5, <1>6 DEF Phase
  <2>2. CASE Fresh(r) /\ (r.phase = "receiving" => sees["R"] = "up")
    BY <2>2, <1>1, <1>3, <1>5, <1>6 DEF Phase, Fresh
  <2> QED
    BY <2>1, <2>2
<1>11. \A q \in Pubs : Phase(q)'
  BY <1>5, <1>6, <1>10 DEF Phase, Core
<1>12. Moves(toR, toR', 0, {})
  BY <1>1, StayMoves
<1>13. \A q \in Pubs \ {p} : Quietly(q)
  BY <1>12 DEF Quietly
<1>14. \A q \in Pubs \ {p} : Turn(q)' /\ Course(q)' /\ Numbers(q)'
  <2>1. \A q \in Pubs \ {p} : Stays(q)
    BY <1>5, <1>6, <1>13 DEF Stays
  <2> QED
    BY <1>1, <1>8, <2>1, StaysExchange DEF Core
<1>15. \A q \in Pubs : (Announced(q)' <=> Announced(q)) /\ (Sending(q)' <=> Sending(q))
  BY DEF Announced, BeginAt, Sending, DataAt
<1>16. ~Arriving(p)' /\ ~Sending(p)'
  BY <1>2, <1>6, <1>15 DEF Arriving
<1>17. Len(toS) \in Nat /\ Len(toS') \in Nat
  BY <1>1
<1>18. \A i \in 1..Len(toS') : IF i <= Len(toS) THEN toS'[i] = toS[i] ELSE toS'[i] = f
  BY <1>17 DEF Moves
<1>19. ASSUME NEW i \in 1..Len(toS'), GoAt(p, i)' PROVE i = Len(toS) + 1 /\ toS'[i] = f
  BY <1>2, <1>17, <1>18, <1>19 DEF GoAt, Answering
<1>20. ASSUME NEW i \in 1..Len(toS'), DoneAt(p, i)' PROVE f.kind = "committed"
  BY <1>2, <1>17, <1>18, <1>20 DEF DoneAt
<1>21. Turn(p)'
  <2>1. \A i, j \in 1..Len(toR') : DataAt(p, i)' /\ DataAt(p, j)' => i = j
    BY <1>16 DEF Sending
  <2>2. \A i, j \in 1..Len(toS') : GoAt(p, i)' /\ GoAt(p, j)' => i = j
    BY <1>19
  <2> QED
    BY <1>3, <1>4, <1>5, <1>16, <2>1, <2>2 DEF Turn
<1>22. Course(p)'
  <2>1. pub'[p] \notin {"new", "ok"} /\ ~Announced(p)'
    BY <1>2, <1>15
  <2>2. \A i \in 1..Len(toR') : ~BeginAt(p, i)'
    BY <2>1 DEF Announced
  <2> QED
    BY <1>5, <1>6, <1>16, <1>20, <2>1, <2>2 DEF Course
<1>23. Numbers(p)'
  <2>1. \A i \in 1..Len(toR') : ~(toR'[i].pub = p /\ toR'[i].kind = "chunk")
    BY <1>16 DEF Sending, DataAt
  <2>2. \A i \in 1..Len(toS') : toS'[i].pub = p /\ toS'[i].kind \in {"ready", "ack"} => toS'[i] = f
    BY <1>19 DEF GoAt
  <2>3. r.table => r.acked = r.got /\ r.got \in Nat /\ r.work = "seed" /\ r.queue = <<>>
    BY <1>3, Constants DEF Fresh, Receives
  <2> QED
    BY <1>5, <2>1, <2>2, <2>3 DEF Numbers
<1>24. Orderly(0, {}, {})
  <2>1. \A q \in Pubs : Arriving(q)' => Arriving(q)
    BY <1>6, <1>15, <1>16 DEF Arriving
  <2>2. \A q \in Pubs : rec'[q].phase \in Kept => Active(q)
    BY <1>2, <1>5 DEF Active, Kept
  <2>3. \A q \in Pubs : begin'[q].at # "no" \/ rec'[q].table => begin[q].at # "no" \/ rec[q].table
    BY <1>5, <1>6
  <2>4. Len(toR') >= Len(toR) - 0 /\ toR' = toR
    BY <1>1
  <2>5. \A q \in Pubs : rec'[q] = rec[q] \/ (rec'[q].queue = <<>> /\ rec'[q].work \in {"off", "seed"})
    BY <1>4, <1>5
  <2> QED
    BY <1>12, <1>15, <2>1, <2>2, <2>3, <2>4, <2>5 DEF Orderly
<1>25. OrderInv'
  BY <1>1, <1>8, <1>24, OrderKept
<1>26. \A q \in Pubs : Turn(q)' /\ Course(q)' /\ Numbers(q)'
  BY <1>14, <1>21, <1>22, <1>23
<1> QED
  BY <1>8, <1>9, <1>11, <1>25, <1>26 DEF Core

\* A receive that starts.
Started(p, t, n, r, f) ==
  /\ f.pub = p /\ f.kind \in {"ready", "error"}
  /\ rec' = [rec EXCEPT ![p] = r] /\ Fresh(r) /\ r.tok = t /\ r.got = n
  /\ r.phase = "receiving" => sees["R"] = "up"
  /\ toS' \in Seq(Frames) /\ Moves(toS, toS', 0, {f}) /\ Len(toS') <= Len(toS) + 1
  /\ f.kind = "ready" => f.n = n /\ f.tok \in Tokens

LEMMA StartsFresh ==
  ASSUME ArtifactAssumption, Core, NEW p \in Pubs, NEW t \in Tokens, NEW n \in 0..Chunks, NEW next \in Nat,
         Starts(p, t, n, next)
  PROVE  \E r \in Receives, f \in Frames : Started(p, t, n, r, f)
<1>1. NoRec \in Receives /\ Types
  BY Constants DEF Core
<1>2. CASE /\ sees["R"] = "up" /\ ToS(Frame("ready", p, n, t))
           /\ rec' = [rec EXCEPT ![p] = [NoRec EXCEPT !.phase = "receiving", !.tok = t,
                !.acked = n, !.got = n, !.next = next, !.work = "seed", !.table = TRUE]]
  <2> DEFINE r == [NoRec EXCEPT !.phase = "receiving", !.tok = t,
                !.acked = n, !.got = n, !.next = next, !.work = "seed", !.table = TRUE]
             f == Frame("ready", p, n, t)
  <2>1. f \in Frames /\ f.pub = p /\ f.kind = "ready" /\ f.n = n /\ f.tok = t
    BY FrameType
  <2>2. toS' \in Seq(Frames) /\ Moves(toS, toS', 0, {f}) /\ Len(toS') <= Len(toS) + 1
    BY <1>1, <1>2, <2>1, ToSMoves
  <2>3. Fresh(r) /\ r.tok = t /\ r.got = n
    BY <1>1 DEF Fresh, NoRec, Receives, Phases, Works
  <2>4. r \in Receives
    BY <2>3 DEF Fresh
  <2> HIDE DEF r, f
  <2> QED
    BY <1>2, <2>1, <2>2, <2>3, <2>4 DEF r, Started
<1>3. CASE /\ UNCHANGED toS
           /\ rec' = [rec EXCEPT ![p] = [NoRec EXCEPT !.phase = "aborting", !.tok = t,
                !.acked = n, !.got = n, !.next = next, !.work = "seed", !.table = TRUE]]
  <2> DEFINE r == [NoRec EXCEPT !.phase = "aborting", !.tok = t,
                !.acked = n, !.got = n, !.next = next, !.work = "seed", !.table = TRUE]
  <2>1. PICK f \in Frames : /\ f.pub = p /\ f.kind = "error"
                         /\ toS' \in Seq(Frames) /\ Moves(toS, toS', 0, {f}) /\ Len(toS') <= Len(toS) + 1
    BY <1>1, <1>3, ErrorMoves
  <2>2. Fresh(r) /\ r.tok = t /\ r.got = n /\ r.phase = "aborting"
    BY <1>1 DEF Fresh, NoRec, Receives, Phases, Works
  <2>3. r \in Receives
    BY <2>2 DEF Fresh
  <2> HIDE DEF r
  <2> QED
    BY <1>3, <2>1, <2>2, <2>3 DEF r, Started
<1> QED
  BY <1>2, <1>3 DEF Starts

\* The receipt a begin finds.
ReceiptOf(p) == IF begin[p].tok = None THEN NoReceipt ELSE journal[begin[p].tok]
ParkedFor(p) == ReceiptOf(p).state = "partial" /\ file[begin[p].tok] # Gone

LEMMA BeginPreparesStep ==
  ASSUME ArtifactAssumption, Core, NEW p \in Pubs, BeginPrepares(p) PROVE Core'
<1> DEFINE t == begin[p].tok
           receipt == ReceiptOf(p)
           parked == ParkedFor(p)
<1>1. /\ begin[p].at = "prepare" /\ begin' = [begin EXCEPT ![p] = [at |-> "no", tok |-> None]]
      /\ UNCHANGED <<pub, sent, known, open, link, sees, toR>>
  BY DEF BeginPrepares, sendVars, linkVars
<1>2. /\ Types /\ rec \in [Pubs -> Receives] /\ rec[p] = NoRec /\ journal \in [Tokens -> Receipts]
      /\ old \in SUBSET Tokens /\ p \in Tokens
  BY <1>1, Constants DEF Core, Types, Course, Arriving
<1>3. receipt \in Receipts /\ NoReceipt.state = "none" /\ (t = None \/ t \in Tokens) /\ (receipt.state = "partial" => t \in Tokens)
  BY <1>2, Constants DEF ReceiptOf, Types, NoReceipt
<1>4. rec = [rec EXCEPT ![p] = NoRec]
  BY <1>2
<1>5. CASE /\ Answers(Frame(IF final # Gone THEN "committed" ELSE "error", p, 0, None))
           /\ UNCHANGED <<rec, diskVars>>
  <2> DEFINE f == Frame(IF final # Gone THEN "committed" ELSE "error", p, 0, None)
  <2>1. f \in Frames /\ f.pub = p /\ f.kind \in {"committed", "error"}
    BY FrameType, Constants
  <2>2. toS' \in Seq(Frames) /\ Moves(toS, toS', 0, {f}) /\ Len(toS') <= Len(toS) + 1
    BY <1>2, <1>5, <2>1, ToSMoves
  <2>3. journal' \in [Tokens -> Receipts] /\ old' \in SUBSET Tokens /\ rec' = [rec EXCEPT ![p] = NoRec]
    BY <1>2, <1>4, <1>5 DEF diskVars
  <2> HIDE DEF f
  <2> QED
    BY <1>1, <2>1, <2>2, <2>3, PreparedStep
<1>6. CASE /\ Answers(Frame("error", p, 0, None)) /\ Prune /\ UNCHANGED rec
  <2>1. PICK f \in Frames : /\ f.pub = p /\ f.kind = "error"
                         /\ toS' \in Seq(Frames) /\ Moves(toS, toS', 0, {f}) /\ Len(toS') <= Len(toS) + 1
    BY <1>2, <1>6, ErrorMoves
  <2>2. journal' \in [Tokens -> Receipts] /\ old' \in SUBSET Tokens /\ rec' = [rec EXCEPT ![p] = NoRec]
    BY <1>2, <1>4, <1>6, PruneTypes
  <2> QED
    BY <1>1, <2>1, <2>2, PreparedStep
<1>7. CASE /\ parked /\ Starts(p, t, receipt.acked, receipt.chunks)
           /\ UNCHANGED <<journal, old>>
  <2>1. t \in Tokens /\ receipt.acked \in 0..Chunks /\ receipt.chunks \in Nat
    BY <1>3, <1>7 DEF Receipts, ParkedFor
  <2> DEFINE n == receipt.acked
             m == receipt.chunks
  <2> HIDE DEF t, receipt, parked
  <2>2. n \in 0..Chunks /\ m \in Nat /\ Starts(p, t, n, m)
    BY <1>7, <2>1
  <2> HIDE DEF n, m
  <2>3. PICK r \in Receives, f \in Frames : Started(p, t, n, r, f)
    BY <2>1, <2>2, StartsFresh
  <2>4. r # NoRec
    BY <2>3 DEF Started, Fresh, NoRec
  <2>5. journal' \in [Tokens -> Receipts] /\ old' \in SUBSET Tokens
    BY <1>2, <1>7
  <2> QED
    BY <1>1, <2>3, <2>4, <2>5, PreparedStep DEF Started
<1>8. CASE /\ Starts(p, p, 0, 0)
           /\ journal' = [u \in Tokens |->
                IF u = p THEN [state |-> "partial", acked |-> 0, chunks |-> 0]
                ELSE IF u = t THEN NoReceipt ELSE journal[u]]
           /\ old' = old \ {p, t}
  <2>1. 0 \in 0..Chunks /\ 0 \in Nat
    BY Constants
  <2>2. journal' \in [Tokens -> Receipts] /\ old' \in SUBSET Tokens
    <3>1. [state |-> "partial", acked |-> 0, chunks |-> 0] \in Receipts
      BY <2>1 DEF Receipts
    <3> QED
      BY <1>2, <1>8, <3>1, Constants
  <2> HIDE DEF t, receipt, parked
  <2>3. PICK r \in Receives, f \in Frames : Started(p, p, 0, r, f)
    BY <1>2, <1>8, <2>1, StartsFresh
  <2>4. r # NoRec
    BY <2>3 DEF Started, Fresh, NoRec
  <2> QED
    BY <1>1, <2>2, <2>3, <2>4, PreparedStep DEF Started
<1> QED
  BY <1>5, <1>6, <1>7, <1>8 DEF BeginPrepares, ReceiptOf, ParkedFor

-----------------------------------------------------------------------------
(* The sender.                                                               *)

\* Steps of the sender leave the receiver and the link alone.
LEMMA SenderFrame ==
  ASSUME Sender PROVE UNCHANGED <<link, sees, begin, rec, journal, old, file, final>>
BY DEF Sender, Reply, Publish, TimesOut, WriteFails, ClientCloses, Again, StopsRetrying, linkVars, diskVars

\* What is kept when the way to the sender moves up and the receiver is left alone.
LEMMA SenderKeeps ==
  ASSUME ArtifactAssumption, Core, Sender,
         \A p \in Pubs : "R" \in open[p] => "R" \in open'[p]
  PROVE  Types' /\ LinkInv' /\ \A p \in Pubs : Phase(p)'
<1>1. UNCHANGED <<link, sees, begin, rec, journal, old>>
  BY SenderFrame
<1>2. Types /\ SenderTypes' /\ toS' \in Seq(Frames) /\ ReadyNamed(toS')
  BY SenderTypesStep DEF Core
<1>3. Types'
  BY <1>1, <1>2 DEF Types, SenderTypes, ReadyNamed
<1>4. LinkInv'
  BY <1>1 DEF LinkInv, Core
<1>5. \A p \in Pubs : Phase(p)'
  BY <1>1 DEF Phase, Core
<1> QED
  BY <1>3, <1>4, <1>5

\* A step that ends or repeats publishes and sends nothing that goes on.
LEMMA SenderQuiet ==
  ASSUME ArtifactAssumption, Core, Sender,
         \A p \in Pubs : "R" \in open[p] => "R" \in open'[p],
         NEW e \in {0, 1}, Moves(toS, toS', e, {}),
         NEW N \in SUBSET Frames, Moves(toR, toR', 0, N), Len(toR') >= Len(toR),
         \A f \in N : pub[f.pub] # "new" /\ f.kind \notin {"begin", "chunk", "end"},
         NEW F \in SUBSET Pubs,
         \A q \in F : link' = "up" /\ Active(q)' => \E j \in 1..Len(toR') : CancelFollows(q, j)',
         \A q \in Pubs :
           /\ pub'[q] = pub[q] \/ (pub[q] \in Running \cup {"retry"} /\ pub'[q] \in {"failed", "retry", "again"})
           /\ q \in F \/ pub'[q] \in {"begin", "sending", "ended"}
                \/ pub[q] \notin {"begin", "sending", "ended"}
  PROVE  Core'
<1>1. Types /\ Types' /\ LinkInv' /\ OrderInv /\ \A p \in Pubs : Phase(p)'
  BY SenderKeeps DEF Core
<1>2. UNCHANGED <<link, sees, begin, rec>>
  BY SenderFrame
<1>3. \A q \in Pubs : Quietly(q)
  BY DEF Quietly
<1>4. \A q \in Pubs : Stays(q)
  BY <1>2, <1>3 DEF Stays, Running
<1>5. \A q \in Pubs : Turn(q)' /\ Course(q)' /\ Numbers(q)'
  BY <1>1, <1>4, StaysExchange DEF Core
<1>6. \A q \in Pubs : /\ Sending(q)' => Sending(q)
                      /\ Arriving(q)' => Arriving(q)
  BY <1>1, <1>2, <1>3, QuietFrames DEF Arriving
<1>7. Orderly(0, N, F)
  <2>1. \A q \in Pubs : rec'[q].phase \in Kept => Active(q)
    BY <1>2 DEF Active, Kept
  <2>2. Len(toR') >= Len(toR) - 0
    BY <1>1 DEF Types
  <2> QED
    BY <1>2, <1>6, <2>1, <2>2 DEF Orderly, Running
<1>8. OrderInv'
  BY <1>1, <1>7, OrderKept
<1> QED
  BY <1>1, <1>5, <1>8 DEF Core

\* A cancel at the end of the channel follows its begin.
LEMMA CancelAtEnd ==
  ASSUME Types, Types', NEW p \in Pubs, NEW f, f.kind = "cancel", f.pub = p,
         link = "up", NEW g, toR' = Append(toR, f) \/ (toR' = toR \o <<f, g>> /\ g \in Frames /\ g.kind # "begin"), f \in Frames
  PROVE  \E j \in 1..Len(toR') : CancelFollows(p, j)'
<1>1. toR \in Seq(Frames) /\ Len(toR) \in Nat
  BY DEF Types
<1>2. /\ Len(toR) + 1 \in 1..Len(toR') /\ toR'[Len(toR) + 1] = f
      /\ Len(toR') <= Len(toR) + 2
      /\ \A i \in 1..Len(toR') : i > Len(toR) + 1 => toR'[i].kind # "begin"
  <2>1. CASE toR' = Append(toR, f)
    <3>1. Len(Append(toR, f)) = Len(toR) + 1 /\ Append(toR, f)[Len(toR) + 1] = f
      BY <1>1
    <3> QED
      BY <1>1, <2>1, <3>1
  <2>2. CASE toR' = toR \o <<f, g>> /\ g \in Frames /\ g.kind # "begin"
    <3>1. /\ Len(toR \o <<f, g>>) = Len(toR) + 2 /\ (toR \o <<f, g>>)[Len(toR) + 1] = f
          /\ (toR \o <<f, g>>)[Len(toR) + 2] = g
      BY <1>1, <2>2
    <3>2. Len(toR') = Len(toR) + 2 /\ toR'[Len(toR) + 1] = f /\ toR'[Len(toR) + 2] = g
      BY <2>2, <3>1
    <3>3. ASSUME NEW i \in 1..Len(toR'), i > Len(toR) + 1 PROVE toR'[i].kind # "begin"
      <4>1. i = Len(toR) + 2
        BY <1>1, <3>2, <3>3
      <4> QED
        BY <2>2, <3>2, <4>1
    <3> QED
      BY <1>1, <3>2, <3>3
  <2> QED
    BY <2>1, <2>2
<1>3. PICK n \in 1..Len(toR') : n = Len(toR) + 1
  BY <1>2
<1>4. CancelAt(p, n)'
  BY <1>2, <1>3 DEF CancelAt
<1>5. ASSUME NEW i \in 1..Len(toR'), BeginAt(p, i)' PROVE i < n
  <2>1. toR'[i].kind = "begin"
    BY <1>5 DEF BeginAt
  <2>2. i # Len(toR) + 1 /\ ~(i > Len(toR) + 1)
    BY <1>2, <2>1
  <2>3. Len(toR') \in Nat
    BY DEF Types
  <2>4. i \in Int
    BY <2>3
  <2> QED
    BY <1>1, <1>3, <2>2, <2>4
<1> QED
  BY <1>3, <1>4, <1>5 DEF CancelFollows

\* An attempt that fails sends its cancel.
LEMMA GiveUpStep ==
  ASSUME ArtifactAssumption, Core, Sender, NEW p \in Pubs, pub[p] \in Running, GiveUp(p), open' = open,
         NEW e \in {0, 1}, Moves(toS, toS', e, {})
  PROVE  Core'
<1> DEFINE f == Frame("cancel", p, 0, None)
           N == {f}
           F == {p}
<1>1. Types /\ Types'
  BY SenderKeeps DEF Core
<1>2. f \in Frames /\ f.kind = "cancel" /\ f.pub = p
  BY FrameType, Constants
<1>3. link' = link /\ pub' = [pub EXCEPT ![p] = "failed"] /\ ToR(f)
  BY SenderFrame DEF GiveUp
<1> HIDE DEF f
<1>4. Moves(toR, toR', 0, N) /\ Len(toR') >= Len(toR)
  BY <1>1, <1>2, <1>3, ToRMoves
<1>5. link' = "up" => \E j \in 1..Len(toR') : CancelFollows(p, j)'
  BY <1>1, <1>2, <1>3, CancelAtEnd DEF ToR
<1>6. \A h \in N : pub[h.pub] # "new" /\ h.kind \notin {"begin", "chunk", "end"}
  BY <1>2 DEF Running
<1>7. \A q \in Pubs : /\ pub'[q] = pub[q] \/ (pub[q] \in Running \cup {"retry"} /\ pub'[q] \in {"failed", "retry", "again"})
                      /\ q \in F \/ pub'[q] = pub[q]
  BY <1>1, <1>3 DEF Types
<1>8. N \in SUBSET Frames /\ F \in SUBSET Pubs
  BY <1>2
<1>9. /\ \A q \in Pubs : "R" \in open[q] => "R" \in open'[q]
      /\ \A q \in F : link' = "up" /\ Active(q)' => \E j \in 1..Len(toR') : CancelFollows(q, j)'
      /\ \A q \in Pubs : q \in F \/ pub'[q] \in {"begin", "sending", "ended"}
                           \/ pub[q] \notin {"begin", "sending", "ended"}
  BY <1>5, <1>7
<1> HIDE DEF N, F
<1> QED
  BY <1>4, <1>6, <1>7, <1>8, <1>9, SenderQuiet

LEMMA TimesOutStep ==
  ASSUME ArtifactAssumption, Core, NEW p \in Pubs, TimesOut(p) PROVE Core'
<1>1. toS \in Seq(Frames)
  BY DEF Core, Types
<1>2. Moves(toS, toS', 0, {})
  BY <1>1, StayMoves DEF TimesOut
<1> QED
  BY <1>2, GiveUpStep DEF TimesOut, Sender

\* Steps of the sender that send nothing.
LEMMA SilentSender ==
  ASSUME ArtifactAssumption, Core, Sender, toR' = toR, NEW e \in {0, 1}, Moves(toS, toS', e, {}),
         \A q \in Pubs : "R" \in open[q] => "R" \in open'[q],
         \A q \in Pubs :
           /\ pub'[q] = pub[q] \/ (pub[q] \in Running \cup {"retry"} /\ pub'[q] \in {"failed", "retry", "again"})
           /\ link = "broken" \/ pub'[q] \in {"begin", "sending", "ended"}
                \/ pub[q] \notin {"begin", "sending", "ended"}
  PROVE  Core'
<1> DEFINE F == IF link = "broken" THEN Pubs ELSE {}
<1>1. toR \in Seq(Frames) /\ link' = link
  BY SenderFrame DEF Core, Types
<1>2. Moves(toR, toR', 0, {}) /\ Len(toR') >= Len(toR)
  BY <1>1, StayMoves
<1>3. {} \in SUBSET Frames /\ F \in SUBSET Pubs
  OBVIOUS
<1>4. \A q \in F : link' = "up" /\ Active(q)' => \E j \in 1..Len(toR') : CancelFollows(q, j)'
  BY <1>1
<1>5. \A q \in Pubs : q \in F \/ pub'[q] \in {"begin", "sending", "ended"}
                        \/ pub[q] \notin {"begin", "sending", "ended"}
  OBVIOUS
<1> HIDE DEF F
<1> QED
  BY <1>2, <1>3, <1>4, <1>5, SenderQuiet

LEMMA WriteFailsStep ==
  ASSUME ArtifactAssumption, Core, NEW p \in Pubs, WriteFails(p) PROVE Core'
<1>1. toS \in Seq(Frames) /\ pub \in [Pubs -> {"new", "retry", "ok", "failed"} \cup Running]
  BY DEF Core, Types
<1>2. Moves(toS, toS', 0, {})
  BY <1>1, StayMoves DEF WriteFails
<1> QED
  BY <1>1, <1>2, SilentSender DEF WriteFails, Sender

LEMMA StopsRetryingStep ==
  ASSUME ArtifactAssumption, Core, NEW p \in Pubs, StopsRetrying(p) PROVE Core'
<1>1. toS \in Seq(Frames) /\ pub \in [Pubs -> {"new", "retry", "ok", "failed"} \cup Running]
  BY DEF Core, Types
<1>2. Moves(toS, toS', 0, {})
  BY <1>1, StayMoves DEF StopsRetrying
<1> QED
  BY <1>1, <1>2, SilentSender DEF StopsRetrying, Sender

LEMMA AgainStep ==
  ASSUME ArtifactAssumption, Core, NEW p \in Pubs, Again(p) PROVE Core'
<1> DEFINE f == Frame("again", p, 0, known)
           N == {f}
<1>1. Types /\ toS \in Seq(Frames) /\ pub \in [Pubs -> {"new", "retry", "ok", "failed"} \cup Running]
  BY DEF Core, Types
<1>2. f \in Frames /\ f.kind = "again" /\ f.pub = p
  BY <1>1, FrameType, Constants DEF Types
<1>3. ToR(f) /\ pub[p] = "retry" /\ pub' = [pub EXCEPT ![p] = "again"] /\ open' = open /\ toS' = toS
  BY DEF Again
<1> HIDE DEF f
<1>4. Moves(toR, toR', 0, N) /\ Len(toR') >= Len(toR)
  BY <1>1, <1>2, <1>3, ToRMoves
<1>5. Moves(toS, toS', 0, {})
  BY <1>1, <1>3, StayMoves
<1>6. \A h \in N : pub[h.pub] # "new" /\ h.kind \notin {"begin", "chunk", "end"}
  BY <1>2, <1>3
<1>7. \A q \in Pubs : /\ pub'[q] = pub[q] \/ (pub[q] \in Running \cup {"retry"} /\ pub'[q] \in {"failed", "retry", "again"})
                      /\ pub'[q] \in {"begin", "sending", "ended"} \/ pub[q] \notin {"begin", "sending", "ended"}
  BY <1>1, <1>3
<1>8. N \in SUBSET Frames /\ {} \in SUBSET Pubs
  BY <1>2
<1>9. Sender
  BY DEF Sender
<1> HIDE DEF N
<1> QED
  BY <1>3, <1>4, <1>5, <1>6, <1>7, <1>8, <1>9, SenderQuiet

LEMMA ClientClosesStep ==
  ASSUME ArtifactAssumption, Core, NEW p \in Pubs, ClientCloses(p) PROVE Core'
<1> DEFINE f == Frame("cancel", p, 0, None)
           g == Frame("close", p, 0, None)
           N == {f, g}
           F == {p}
<1>1. Sender
  BY DEF Sender
<1>2. Types /\ toR \in Seq(Frames) /\ toS \in Seq(Frames)
      /\ pub \in [Pubs -> {"new", "retry", "ok", "failed"} \cup Running] /\ open \in [Pubs -> SUBSET {"S", "R"}]
  BY DEF Core, Types
<1>3. f \in Frames /\ f.kind = "cancel" /\ f.pub = p /\ g \in Frames /\ g.kind = "close" /\ g.pub = p
  BY FrameType, Constants
<1>4. /\ pub[p] \in Running /\ pub' = [pub EXCEPT ![p] = Interrupted(p)] /\ toS' = toS
      /\ link' = link /\ link \in {"up", "broken"}
      /\ toR' = IF link = "up" THEN toR \o <<f, g>> ELSE toR
      /\ open' = [open EXCEPT ![p] = @ \ {"S"}]
  BY DEF ClientCloses, linkVars, Core, Types
<1> HIDE DEF f, g
<1>5. \A q \in Pubs : "R" \in open[q] => "R" \in open'[q]
  BY <1>2, <1>4
<1>6. Types'
  BY <1>1, <1>5, SenderKeeps
<1>7. Moves(toR, toR', 0, N) /\ Len(toR') >= Len(toR)
  <2>1. Len(toR) \in Nat
    BY <1>2
  <2>2. CASE link = "up"
    <3>1. toR' = toR \o <<f, g>>
      BY <1>4, <2>2
    <3>2. Moves(toR, toR \o <<f, g>>, 0, N) /\ Len(toR \o <<f, g>>) = Len(toR) + 2
      BY <1>2, <1>3, TwoMove
    <3> HIDE DEF N
    <3> QED
      BY <2>1, <3>1, <3>2
  <2>3. CASE link # "up"
    BY <2>1, <2>3, <1>2, <1>4, StayMoves
  <2> QED
    BY <2>2, <2>3
<1>8. link' = "up" => \E j \in 1..Len(toR') : CancelFollows(p, j)'
  BY <1>2, <1>3, <1>4, <1>6, CancelAtEnd
<1>9. \A h \in N : pub[h.pub] # "new" /\ h.kind \notin {"begin", "chunk", "end"}
  BY <1>3, <1>4 DEF Running
<1>10. Interrupted(p) \in {"retry", "failed"}
  BY <1>4 DEF Interrupted
<1>11. \A q \in Pubs : /\ pub'[q] = pub[q] \/ (pub[q] \in Running \cup {"retry"} /\ pub'[q] \in {"failed", "retry", "again"})
                       /\ q \in F \/ pub'[q] = pub[q]
  BY <1>2, <1>4, <1>10
<1>12. Moves(toS, toS', 0, {})
  BY <1>2, <1>4, StayMoves
<1>13. N \in SUBSET Frames /\ F \in SUBSET Pubs
  BY <1>3
<1>14. /\ \A q \in F : link' = "up" /\ Active(q)' => \E j \in 1..Len(toR') : CancelFollows(q, j)'
       /\ \A q \in Pubs : q \in F \/ pub'[q] \in {"begin", "sending", "ended"}
                            \/ pub[q] \notin {"begin", "sending", "ended"}
  BY <1>8, <1>11
<1> HIDE DEF N, F
<1> QED
  BY <1>1, <1>5, <1>7, <1>9, <1>11, <1>12, <1>13, <1>14, SenderQuiet

\* An answer that the attempt waited for is followed by the next chunk or the end.
LEMMA SendStep ==
  ASSUME ArtifactAssumption, Core, Sender, toS # <<>>, toS' = Tail(toS), open' = open,
         NEW p \in Pubs, Head(toS).pub = p, Head(toS).kind \in {"ready", "ack"},
         pub[p] \in {"begin", "sending"}, NEW n \in 0..Chunks, SendChunk(p, n),
         n = IF Head(toS).kind = "ready" THEN Head(toS).n ELSE Head(toS).n + 1
  PROVE  Core'
<1>1. Types /\ Types' /\ LinkInv' /\ OrderInv /\ \A q \in Pubs : Phase(q)'
  BY SenderKeeps DEF Core
<1>2. UNCHANGED <<link, sees, begin, rec>>
  BY SenderFrame
<1>3. /\ toR \in Seq(Frames) /\ toS \in Seq(Frames) /\ Len(toR) \in Nat /\ Len(toS) \in Nat
      /\ toR' \in Seq(Frames) /\ Len(toR') \in Nat /\ Len(toS') \in Nat
      /\ pub \in [Pubs -> {"new", "retry", "ok", "failed"} \cup Running]
      /\ Turn(p) /\ Course(p) /\ Numbers(p)
  BY <1>1 DEF Core, Types
<1>4. PICK h \in Frames : /\ h.pub = p /\ h.n = n /\ h.kind \in {"chunk", "end"}
                          /\ ToR(h)
  <2>1. /\ Frame("chunk", p, n, None) \in Frames /\ Frame("end", p, n, None) \in Frames
        /\ Frame("chunk", p, n, None).pub = p /\ Frame("end", p, n, None).pub = p
        /\ Frame("chunk", p, n, None).n = n /\ Frame("end", p, n, None).n = n
        /\ Frame("chunk", p, n, None).kind = "chunk" /\ Frame("end", p, n, None).kind = "end"
    BY FrameType
  <2> QED
    BY <2>1 DEF SendChunk
<1>5. /\ pub'[p] \in {"sending", "ended"} /\ \A q \in Pubs \ {p} : pub'[q] = pub[q]
  BY <1>3 DEF SendChunk
<1>6. Moves(toR, toR', 0, {h}) /\ Len(toR') >= Len(toR) /\ Moves(toS, toS', 1, {}) /\ toS[1] = Head(toS)
      /\ 1 \in 1..Len(toS) /\ Len(toR') <= Len(toR) + 1
  <2>1. Moves(toS, toS', 1, {}) /\ toS[1] = Head(toS) /\ 1 \in 1..Len(toS)
    BY <1>1, HeadS
  <2>2. Len(toR') <= Len(toR) + 1
    BY <1>3, <1>4 DEF ToR
  <2> QED
    BY <1>1, <1>4, <2>1, <2>2, ToRMoves
<1>7. GoAt(p, 1) /\ Answering(p)
  BY <1>6 DEF GoAt, Answering
<1>8. ~Sending(p) /\ ~Arriving(p) /\ rec[p].queue = <<>> /\ rec[p].work \notin {"write", "ack"}
  BY <1>3, <1>7 DEF Turn, Course
<1>9. ~Answering(p)'
  <2> SUFFICES ASSUME NEW i \in 1..Len(toS'), GoAt(p, i)' PROVE FALSE
    BY DEF Answering
  <2>1. i + 1 \in 1..Len(toS) /\ GoAt(p, i + 1)
    BY <1>3, <1>6 DEF Moves, GoAt
  <2>2. i + 1 = 1
    BY <1>3, <1>6, <1>7, <2>1 DEF Turn
  <2> QED
    BY <2>2
<1>10. \A i \in 1..Len(toR') : IF i <= Len(toR) THEN toR'[i] = toR[i] ELSE toR'[i] = h
  BY <1>3, <1>6 DEF Moves
<1>11. ASSUME NEW i \in 1..Len(toR'), DataAt(p, i)' PROVE i = Len(toR) + 1 /\ toR'[i] = h
  BY <1>3, <1>6, <1>8, <1>10, <1>11 DEF DataAt, Sending
<1>12. \A q \in Pubs : Announced(q)' => Announced(q)
  <2> SUFFICES ASSUME NEW q \in Pubs, NEW i \in 1..Len(toR'), BeginAt(q, i)' PROVE Announced(q)
    BY DEF Announced
  <2>1. i <= Len(toR)
    BY <1>4, <1>10 DEF BeginAt
  <2> QED
    BY <1>3, <1>10, <2>1 DEF BeginAt, Announced
<1>13. \A q \in Pubs : Arriving(q)' => Arriving(q)
  BY <1>2, <1>12 DEF Arriving
<1>14. Turn(p)'
  <2>1. \A i, j \in 1..Len(toR') : DataAt(p, i)' /\ DataAt(p, j)' => i = j
    BY <1>11
  <2>2. \A i, j \in 1..Len(toS') : GoAt(p, i)' /\ GoAt(p, j)' => i = j
    BY <1>9 DEF Answering
  <2>3. Len(rec'[p].queue) <= 1 /\ rec'[p].queue = <<>> /\ rec'[p].work \notin {"write", "ack"}
    BY <1>2, <1>3, <1>8 DEF Turn
  <2> QED
    BY <1>9, <2>1, <2>2, <2>3 DEF Turn
<1>15. Course(p)'
  <2>1. ~Arriving(p)' /\ ~Announced(p)'
    BY <1>8, <1>13 DEF Arriving
  <2>2. \A i \in 1..Len(toR') : ~BeginAt(p, i)'
    BY <2>1 DEF Announced
  <2>3. ASSUME NEW i \in 1..Len(toS'), DoneAt(p, i)' PROVE rec'[p] = NoRec
    <3>1. i + 1 \in 1..Len(toS) /\ DoneAt(p, i + 1)
      BY <1>3, <1>6, <2>3 DEF Moves, DoneAt
    <3> QED
      BY <1>2, <1>3, <3>1 DEF Course
  <2> QED
    BY <1>5, <2>1, <2>2, <2>3 DEF Course
<1>16. Numbers(p)'
  <2>1. ASSUME rec[p].table PROVE n = rec[p].got
    <3>1. toS[1].pub = p /\ toS[1].kind \in {"ready", "ack"}
      BY <1>6
    <3>2. toS[1].kind = "ready" => toS[1].n = rec[p].got
      BY <1>3, <1>6, <2>1, <3>1 DEF Numbers
    <3>3. toS[1].kind = "ack" => toS[1].n + 1 = rec[p].got
      BY <1>3, <1>6, <2>1, <3>1 DEF Numbers
    <3> QED
      BY <1>6, <3>1, <3>2, <3>3
  <2>2. ASSUME rec[p].table, NEW i \in 1..Len(toR'), toR'[i].pub = p, toR'[i].kind = "chunk"
        PROVE  toR'[i].n = rec'[p].got
    <3>1. toR'[i] = h
      BY <1>11, <2>2 DEF DataAt
    <3> QED
      BY <1>2, <1>4, <2>1, <2>2, <3>1
  <2>3. \A i \in 1..Len(toS') : ~(toS'[i].pub = p /\ toS'[i].kind \in {"ready", "ack"})
    BY <1>9 DEF Answering, GoAt
  <2> QED
    BY <1>2, <1>3, <1>8, <2>2, <2>3 DEF Numbers
<1>17. \A q \in Pubs \ {p} : Turn(q)' /\ Course(q)' /\ Numbers(q)'
  <2>1. \A q \in Pubs \ {p} : Quietly(q)
    BY <1>4, <1>6 DEF Quietly
  <2>2. \A q \in Pubs \ {p} : Stays(q)
    BY <1>2, <1>5, <2>1 DEF Stays
  <2> QED
    BY <1>1, <2>2, StaysExchange DEF Core
<1>18. Orderly(0, {h}, {})
  <2>1. ~Past(p)
    BY <1>1 DEF OrderInv
  <2>2. \A q \in Pubs : Past(q) => (Sending(q)' => Sending(q))
    <3> SUFFICES ASSUME NEW q \in Pubs, q # p, NEW i \in 1..Len(toR'), DataAt(q, i)' PROVE Sending(q)
      BY <2>1 DEF Sending
    <3>1. i <= Len(toR)
      BY <1>4, <1>10 DEF DataAt
    <3> QED
      BY <1>3, <1>10, <3>1 DEF DataAt, Sending
  <2>3. \A q \in Pubs : rec'[q].phase \in Kept => Active(q)
    BY <1>2 DEF Active, Kept
  <2>4. \A q \in Pubs : /\ pub'[q] = pub[q] \/ (pub[q] # "new" /\ pub'[q] # "new" /\ pub[q] \notin {"ok", "failed"})
                        /\ pub'[q] = pub[q] \/ pub'[q] \in {"begin", "sending", "ended"}
    BY <1>5
  <2>5. Len(toR') >= Len(toR) - 0 /\ h.kind # "begin"
    BY <1>3, <1>4, <1>6
  <2> QED
    BY <1>2, <1>6, <1>13, <2>2, <2>3, <2>4, <2>5 DEF Orderly
<1>19. OrderInv'
  BY <1>1, <1>18, OrderKept
<1> QED
  BY <1>1, <1>14, <1>15, <1>16, <1>17, <1>19 DEF Core

\* A publisher is told of success.
LEMMA ToldStep ==
  ASSUME ArtifactAssumption, Core, Sender, toS # <<>>, toS' = Tail(toS), open' = open, toR' = toR,
         NEW p \in Pubs, Head(toS).pub = p, Head(toS).kind \in {"ok", "committed"},
         pub[p] \in Running, pub' = [pub EXCEPT ![p] = "ok"]
  PROVE  Core'
<1>1. Types /\ Types' /\ LinkInv' /\ OrderInv /\ \A q \in Pubs : Phase(q)'
  BY SenderKeeps DEF Core
<1>2. UNCHANGED <<link, sees, begin, rec>>
  BY SenderFrame
<1>3. /\ toR \in Seq(Frames) /\ Len(toR) \in Nat
      /\ pub \in [Pubs -> {"new", "retry", "ok", "failed"} \cup Running] /\ rec \in [Pubs -> Receives]
      /\ Turn(p) /\ Course(p) /\ Numbers(p)
  BY <1>1 DEF Core, Types
<1>4. Moves(toS, toS', 1, {}) /\ toS[1] = Head(toS) /\ 1 \in 1..Len(toS)
  BY <1>1, HeadS
<1>5. Moves(toR, toR', 0, {})
  BY <1>3, StayMoves
<1>6. \A q \in Pubs : Quietly(q)
  BY <1>4, <1>5, QuietMoves
<1>7. pub'[p] = "ok" /\ pub[p] \notin {"new", "ok", "failed"} /\ \A q \in Pubs \ {p} : pub'[q] = pub[q]
  BY <1>3 DEF Running
<1>8. ~Arriving(p) /\ rec[p] = NoRec
  <2>1. DoneAt(p, 1)
    BY <1>4 DEF DoneAt
  <2> QED
    BY <1>3, <1>4, <2>1 DEF Course
<1>9. \A q \in Pubs : /\ Sending(q)' => Sending(q)
                      /\ Arriving(q)' => Arriving(q)
                      /\ Announced(q)' => Announced(q)
  BY <1>1, <1>2, <1>6, QuietFrames DEF Arriving
<1>10. Turn(p)' /\ Numbers(p)'
  BY <1>1, <1>2, <1>3, <1>6, TurnQuiet, NumbersQuiet
<1>11. Course(p)'
  <2>1. ~Arriving(p)' /\ ~Announced(p)'
    BY <1>8, <1>9 DEF Arriving
  <2>2. \A i \in 1..Len(toR') : ~BeginAt(p, i)'
    BY <2>1 DEF Announced
  <2> QED
    BY <1>2, <1>7, <1>8, <2>1, <2>2 DEF Course
<1>12. \A q \in Pubs \ {p} : Turn(q)' /\ Course(q)' /\ Numbers(q)'
  <2>1. \A q \in Pubs \ {p} : Stays(q)
    BY <1>2, <1>6, <1>7 DEF Stays
  <2> QED
    BY <1>1, <2>1, StaysExchange DEF Core
<1>13. Orderly(0, {}, {p})
  <2>1. ~Active(p)'
    <3>1. NoRec.phase = "none"
      BY DEF NoRec
    <3> QED
      BY <1>2, <1>8, <1>9, <3>1 DEF Active
  <2>2. \A q \in Pubs : rec'[q].phase \in Kept => Active(q)
    BY <1>2 DEF Active, Kept
  <2>3. Len(toR') >= Len(toR) - 0
    BY <1>3
  <2>4. \A q \in Pubs :
          /\ pub'[q] = pub[q] \/ (pub[q] # "new" /\ pub'[q] # "new" /\ (pub[q] \in {"ok", "failed"} => pub'[q] = pub[q]))
          /\ q \in {p} \/ pub'[q] \in {"begin", "sending", "ended"} \/ pub[q] \notin {"begin", "sending", "ended"}
    BY <1>7
  <2>5. \A q \in {p} : ~Active(q)'
    BY <2>1
  <2> QED
    BY <1>2, <1>5, <1>9, <2>2, <2>3, <2>4, <2>5 DEF Orderly
<1>14. OrderInv'
  BY <1>1, <1>13, OrderKept
<1> QED
  BY <1>1, <1>10, <1>11, <1>12, <1>14 DEF Core

LEMMA ReplyStep ==
  ASSUME ArtifactAssumption, Core, Reply PROVE Core'
<1>1. /\ toS # <<>> /\ toS' = Tail(toS) /\ UNCHANGED <<open, link>> /\ Sender
  BY DEF Reply, linkVars, Sender
<1>2. PICK f \in Frames, p \in Pubs, n \in 0..Chunks : f = Head(toS) /\ f.pub = p /\ f.n = n
  BY <1>1, HeadS DEF Core
<1>3. Types /\ Moves(toS, toS', 1, {}) /\ pub \in [Pubs -> {"new", "retry", "ok", "failed"} \cup Running]
  BY <1>1, HeadS DEF Core, Types
<1>4. CASE f.kind = "ready" /\ pub[p] = "begin" /\ SendChunk(p, n)
  BY <1>1, <1>2, <1>4, SendStep
<1>5. CASE f.kind = "ack" /\ pub[p] = "sending" /\ n = sent[p] /\ SendChunk(p, n + 1)
  <2>1. n + 1 \in 0..Chunks
    BY <1>3, <1>5, Constants DEF Types
  <2> DEFINE m == n + 1
  <2>2. m \in 0..Chunks /\ SendChunk(p, m) /\ m = IF Head(toS).kind = "ready" THEN Head(toS).n ELSE Head(toS).n + 1
    BY <2>1, <1>2, <1>5
  <2> HIDE DEF m
  <2> QED
    BY <1>1, <1>2, <1>5, <2>2, SendStep
<1>6. CASE f.kind \in {"ok", "committed"} /\ pub[p] \in Running /\ pub' = [pub EXCEPT ![p] = "ok"] /\ toR' = toR
  BY <1>1, <1>2, <1>6, ToldStep
<1>7. CASE pub[p] \in Running /\ GiveUp(p)
  BY <1>1, <1>3, <1>7, GiveUpStep
<1>8. CASE UNCHANGED <<sendVars, toR>>
  BY <1>1, <1>3, <1>8, SilentSender DEF sendVars
<1> QED
  BY <1>2, <1>4, <1>5, <1>6, <1>7, <1>8 DEF Reply, Running

\* A publish that comes when the ones before it are over.
LEMMA PublishStep ==
  ASSUME ArtifactAssumption, Serialised, Core, NEW p \in Pubs, Publish(p) PROVE Core'
<1>1. /\ pub[p] = "new" /\ \A q \in Pubs : q < p => pub[q] # "new"
      /\ \A q \in Pubs : pub[q] \notin Running \cup {"retry"} /\ ~rec[q].table /\ begin[q].at = "no"
      /\ pub' = [pub EXCEPT ![p] = "begin"] /\ open' = [open EXCEPT ![p] = {"S", "R"}]
      /\ ToR(Frame("begin", p, 0, known)) /\ UNCHANGED <<toS, link, begin, rec>> /\ Sender
  BY DEF Publish, Serialised, Live, linkVars, Sender
<1>2. \A q \in Pubs : "R" \in open[q] => "R" \in open'[q]
  BY <1>1 DEF Core, Types
<1>3. Types /\ Types' /\ LinkInv' /\ OrderInv /\ \A q \in Pubs : Course(q) /\ Phase(q)'
  BY <1>1, <1>2, SenderKeeps DEF Core
<1>4. /\ toR \in Seq(Frames) /\ toS \in Seq(Frames) /\ Len(toR) \in Nat /\ Len(toR') \in Nat
      /\ pub \in [Pubs -> {"new", "retry", "ok", "failed"} \cup Running] /\ Pubs \subseteq Nat
  BY <1>3, Constants DEF Types
<1>5. PICK f \in Frames : f.pub = p /\ f.kind = "begin" /\ ToR(f)
  BY <1>1, <1>3, FrameType, Constants DEF Types
<1>6. Moves(toR, toR', 0, {f}) /\ Len(toR') >= Len(toR)
  BY <1>3, <1>5, ToRMoves
<1>7. \A i \in 1..Len(toR') : IF i <= Len(toR) THEN toR'[i] = toR[i] ELSE toR'[i] = f
  BY <1>4, <1>6 DEF Moves
<1>8. Len(toR') <= Len(toR) + 1 /\ (link # "up" => Len(toR') = Len(toR))
  BY <1>4, <1>5 DEF ToR
<1>9. pub'[p] = "begin" /\ \A q \in Pubs \ {p} : pub'[q] = pub[q]
  BY <1>1, <1>4
<1>10. /\ begin[p].at = "no" /\ rec[p] = NoRec
       /\ \A i \in 1..Len(toR) : toR[i].pub # p
       /\ \A i \in 1..Len(toS) : toS[i].pub # p
  BY <1>1, <1>3 DEF Course
<1>11. NoRec.queue = <<>> /\ NoRec.work = "off" /\ NoRec.table = FALSE /\ NoRec.phase = "none" /\ Len(<<>>) = 0
  BY DEF NoRec
<1>12. ASSUME NEW i \in 1..Len(toR'), toR'[i].pub = p PROVE i = Len(toR) + 1 /\ toR'[i] = f
  BY <1>4, <1>7, <1>8, <1>10, <1>12
<1>13. Turn(p)'
  <2>1. \A i \in 1..Len(toR') : ~DataAt(p, i)'
    BY <1>5, <1>12 DEF DataAt
  <2>2. \A i \in 1..Len(toS') : ~GoAt(p, i)'
    BY <1>1, <1>10 DEF GoAt
  <2> QED
    BY <1>1, <1>10, <1>11, <2>1, <2>2 DEF Turn, Sending, Answering
<1>14. Course(p)'
  <2>1. ~Sending(p)' /\ ~Answering(p)' /\ \A i \in 1..Len(toS') : ~DoneAt(p, i)'
    <3>1. \A i \in 1..Len(toR') : ~DataAt(p, i)'
      BY <1>5, <1>12 DEF DataAt
    <3>2. \A i \in 1..Len(toS') : ~GoAt(p, i)' /\ ~DoneAt(p, i)'
      BY <1>1, <1>10 DEF GoAt, DoneAt
    <3> QED
      BY <3>1, <3>2 DEF Sending, Answering
  <2>2. ASSUME NEW i \in 1..Len(toR'), BeginAt(p, i)', NEW j \in 1..(i - 1) PROVE toR'[j].pub # p
    <3>1. i = Len(toR) + 1
      BY <1>12, <2>2 DEF BeginAt
    <3>2. j \in 1..Len(toR) /\ j \in 1..Len(toR')
      BY <3>1, <1>4
    <3> QED
      BY <1>7, <1>10, <3>2
  <2> QED
    BY <1>1, <1>9, <1>10, <2>1, <2>2 DEF Course
<1>15. Numbers(p)'
  BY <1>1, <1>10, <1>11 DEF Numbers
<1>16. \A q \in Pubs \ {p} : Quietly(q)
  <2>1. Moves(toS, toS', 0, {})
    BY <1>1, <1>4, StayMoves
  <2> QED
    BY <1>5, <1>6, <2>1 DEF Quietly
<1>17. \A q \in Pubs \ {p} : Turn(q)' /\ Course(q)' /\ Numbers(q)'
  <2>1. \A q \in Pubs \ {p} : Stays(q)
    BY <1>1, <1>9, <1>16 DEF Stays
  <2> QED
    BY <1>3, <2>1, StaysExchange DEF Core
<1>18. \A q \in Pubs \ {p} : (Announced(q)' => Announced(q)) /\ (Sending(q)' => Sending(q))
                             /\ (Active(q)' => Active(q))
  BY <1>1, <1>3, <1>16, QuietFrames DEF Active, Arriving
<1>19. ASSUME NEW q \in Pubs \ {p}, NEW j \in 1..Len(toR), CancelFollows(q, j)
       PROVE  j \in 1..Len(toR') /\ CancelFollows(q, j)'
  <2>1. j \in 1..Len(toR') /\ toR'[j] = toR[j]
    BY <1>4, <1>6, <1>7
  <2>2. ASSUME NEW i \in 1..Len(toR'), BeginAt(q, i)' PROVE i < j
    <3>1. i <= Len(toR)
      BY <1>5, <1>7, <2>2 DEF BeginAt
    <3>2. i \in 1..Len(toR) /\ BeginAt(q, i)
      BY <1>4, <1>7, <2>2, <3>1 DEF BeginAt
    <3> QED
      BY <1>19, <3>2 DEF CancelFollows
  <2> QED
    BY <1>19, <2>1, <2>2 DEF CancelFollows, CancelAt
<1>20. ASSUME NEW q \in Pubs, pub[q] = "new", q # p PROVE ~Active(q)'
  <2>1. ~Announced(q) /\ rec[q] = NoRec /\ begin[q].at = "no"
    BY <1>3, <1>20 DEF Course, Announced, BeginAt
  <2> QED
    BY <1>11, <1>18, <1>20, <2>1 DEF Active, Arriving
<1>21. SUFFICES ASSUME NEW q \in Pubs
       PROVE  /\ link' = "up" /\ pub'[q] \notin {"begin", "sending", "ended"} /\ Active(q)' =>
                   \E j \in 1..Len(toR') : CancelFollows(q, j)'
              /\ \A u \in Pubs : q < u /\ Active(q)' =>
                   /\ begin'[u].at = "no" /\ ~rec'[u].table
                   /\ \A k \in 1..Len(toR') : BeginAt(u, k)' => \E j \in 1..(k - 1) : CancelFollows(q, j)'
              /\ Past(q)' =>
                   /\ pub'[q] \in {"ok", "failed"}
                   /\ rec'[q].table \/ Arriving(q)' =>
                        /\ ~Sending(q)' /\ rec'[q].queue = <<>>
                        /\ rec'[q].work \in {"off", "seed", "get", "done"}
  <2>1. OrderInv'
    BY <1>21 DEF OrderInv
  <2>2. \A q \in Pubs : Turn(q)' /\ Course(q)' /\ Numbers(q)'
    BY <1>13, <1>14, <1>15, <1>17
  <2> QED
    BY <1>3, <2>1, <2>2 DEF Core
<1>22. ASSUME link' = "up", pub'[q] \notin {"begin", "sending", "ended"}, Active(q)'
       PROVE  \E j \in 1..Len(toR') : CancelFollows(q, j)'
  <2>1. q # p
    BY <1>9, <1>22
  <2>2. PICK j \in 1..Len(toR) : CancelFollows(q, j)
    BY <1>1, <1>3, <1>9, <1>18, <1>22, <2>1 DEF OrderInv
  <2> QED
    BY <1>19, <2>1, <2>2
<1>23. ASSUME NEW u \in Pubs, q < u, Active(q)'
       PROVE  /\ begin'[u].at = "no" /\ ~rec'[u].table
              /\ \A k \in 1..Len(toR') : BeginAt(u, k)' => \E j \in 1..(k - 1) : CancelFollows(q, j)'
  <2>1. begin'[u].at = "no" /\ ~rec'[u].table
    BY <1>1
  <2>2. ASSUME NEW k \in 1..Len(toR'), BeginAt(u, k)' PROVE \E j \in 1..(k - 1) : CancelFollows(q, j)'
    <3>1. CASE q = p
      <4>1. ~Past(p)
        BY <1>1, <1>3 DEF OrderInv
      <4>2. pub[u] = "new" /\ u # p
        BY <1>4, <1>23, <3>1, <4>1 DEF Past
      <4>3. k \in 1..Len(toR) /\ toR[k].pub = u
        BY <1>4, <1>5, <1>7, <2>2, <4>2 DEF BeginAt
      <4> QED
        BY <1>3, <4>2, <4>3 DEF Course
    <3>2. CASE q # p /\ u = p
      <4>1. k = Len(toR) + 1 /\ link = "up"
        BY <1>4, <1>5, <1>8, <1>12, <2>2, <3>2 DEF BeginAt, ToR
      <4>2. Active(q) /\ pub[q] \notin {"begin", "sending", "ended"}
        BY <1>1, <1>18, <1>23, <3>2 DEF Running
      <4>3. PICK j \in 1..Len(toR) : CancelFollows(q, j)
        BY <1>3, <4>1, <4>2 DEF OrderInv
      <4>4. j \in 1..(k - 1)
        BY <1>4, <4>1
      <4> QED
        BY <1>19, <3>2, <4>3, <4>4
    <3>3. CASE q # p /\ u # p
      <4>1. k \in 1..Len(toR) /\ BeginAt(u, k)
        BY <1>4, <1>5, <1>7, <2>2, <3>3 DEF BeginAt
      <4>2. PICK j \in 1..(k - 1) : CancelFollows(q, j)
        BY <1>3, <1>18, <1>23, <3>3, <4>1 DEF OrderInv
      <4>3. j \in 1..Len(toR)
        BY <1>4, <4>1
      <4> QED
        BY <1>19, <3>3, <4>2, <4>3
    <3> QED
      BY <3>1, <3>2, <3>3
  <2> QED
    BY <2>1, <2>2
<1>24. ASSUME Past(q)'
       PROVE  /\ pub'[q] \in {"ok", "failed"}
              /\ rec'[q].table \/ Arriving(q)' =>
                   /\ ~Sending(q)' /\ rec'[q].queue = <<>>
                   /\ rec'[q].work \in {"off", "seed", "get", "done"}
  <2>1. PICK u \in Pubs : q < u /\ pub'[u] # "new"
    BY <1>24 DEF Past
  <2>2. q # p
    <3>1. ~Past(p)
      BY <1>1, <1>3 DEF OrderInv
    <3>2. CASE q = p
      <4>1. u # p /\ pub[u] # "new"
        BY <1>4, <1>9, <2>1, <3>2
      <4> QED
        BY <2>1, <3>1, <3>2, <4>1 DEF Past
    <3> QED
      BY <3>2
  <2>3. pub[q] # "new"
    <3>1. CASE u = p
      BY <1>1, <2>1, <3>1
    <3>2. CASE u # p
      <4>1. Past(q)
        BY <1>9, <2>1, <3>2 DEF Past
      <4> QED
        BY <1>3, <4>1 DEF OrderInv
    <3> QED
      BY <3>1, <3>2
  <2>4. pub'[q] \in {"ok", "failed"}
    BY <1>1, <1>4, <1>9, <2>2, <2>3
  <2>5. Arriving(q)' => ~Sending(q)' /\ rec'[q] = NoRec
    BY <1>17, <2>2 DEF Course
  <2> QED
    BY <1>1, <1>11, <2>4, <2>5
<1> QED
  BY <1>22, <1>23, <1>24

LEMMA SenderStep ==
  ASSUME ArtifactAssumption, Serialised, Core, Sender PROVE Core'
BY ReplyStep, PublishStep, TimesOutStep, WriteFailsStep, ClientClosesStep, AgainStep, StopsRetryingStep DEF Sender

-----------------------------------------------------------------------------
(* The exchange of every publish stays in order.                             *)

LEMMA CoreStep ==
  ASSUME ArtifactAssumption, Serialised, Core, FileInv, [Next]_vars PROVE Core'
<1>1. CASE Sender
  BY <1>1, SenderStep
<1>2. CASE ReceivesFrame
  BY <1>2, BeginStep, ChunkStep, EndStep, CancelStep, CloseStep DEF ReceivesFrame
<1>3. CASE LinkFails
  BY <1>3, SenderNoticesStep, ReceiverNoticesStep, ReceiverDownStep, ReconnectStep DEF LinkFails
<1>4. CASE Break \/ Restart
  BY <1>4, BreakStep, RestartStep
<1>5. ASSUME NEW p \in Pubs, Beginning(p) PROVE Core'
  BY <1>5, BeginPrunesStep, BeginPreparesStep DEF Beginning
<1>6. ASSUME NEW p \in Pubs, Abort(p) \/ Worker(p) PROVE Core'
  BY <1>6, WorkerStep
<1>7. ASSUME NEW p \in Pubs, Parking(p) PROVE Core'
  BY <1>7, ParkStartsStep, ParkTruncatesStep, ParkRecordsStep DEF Parking
<1>8. ASSUME NEW t \in Tokens, Ages(t) PROVE Core'
  BY <1>8, AgesStep
<1>9. CASE UNCHANGED vars
  <2>1. UNCHANGED <<pub, sent, known, open, link, sees, toR, toS, begin, rec, journal, old>>
    BY <1>9 DEF vars, sendVars, linkVars, diskVars
  <2>2. \A p \in Pubs : /\ Arriving(p)' = Arriving(p) /\ Announced(p)' = Announced(p)
                        /\ Sending(p)' = Sending(p) /\ Answering(p)' = Answering(p)
    BY <2>1 DEF Arriving, Announced, BeginAt, Sending, DataAt, Answering, GoAt
  <2>3. Types' /\ LinkInv'
    BY <2>1 DEF Types, LinkInv, Core
  <2>4. \A p \in Pubs : Turn(p)'
    BY <2>1, <2>2 DEF Core, Turn, DataAt, GoAt
  <2>5. \A p \in Pubs : Course(p)'
    BY <2>1, <2>2 DEF Core, Course, BeginAt, DoneAt
  <2>6. \A p \in Pubs : Numbers(p)' /\ Phase(p)'
    BY <2>1 DEF Core, Numbers, Phase
  <2>7. OrderInv'
    BY <2>1, <2>2 DEF Core, OrderInv, BeginAt, Active, CancelFollows, CancelAt, Past
  <2> QED
    BY <2>3, <2>4, <2>5, <2>6, <2>7 DEF Core
<1> QED
  BY <1>1, <1>2, <1>3, <1>4, <1>5, <1>6, <1>7, <1>8, <1>9 DEF Next

LEMMA CoreInit ==
  ASSUME ArtifactAssumption, Init PROVE Core
<1>1. /\ NoRec \in Receives /\ NoRec.table = FALSE /\ NoRec.queue = <<>> /\ NoRec.work = "off"
      /\ NoRec.phase = "none" /\ NoRec.park = "no" /\ Len(<<>>) = 0 /\ NoReceipt \in Receipts
      /\ 0 \in 0..Chunks /\ 1..0 = {}
  BY Constants DEF NoRec
<1>2. Len(toR) = 0 /\ Len(toS) = 0 /\ \A p \in Pubs : pub[p] = "new" /\ begin[p].at = "no" /\ rec[p] = NoRec
  BY <1>1 DEF Init
<1>3. \A p \in Pubs : ~Sending(p) /\ ~Answering(p) /\ ~Announced(p) /\ ~Arriving(p) /\ ~Active(p) /\ ~Past(p)
  BY <1>1, <1>2 DEF Sending, Answering, Announced, Arriving, Active, Past
<1>4. \A p \in Pubs : Turn(p) /\ Course(p) /\ Numbers(p) /\ Phase(p)
  BY <1>1, <1>2, <1>3 DEF Turn, Course, Numbers, Phase
<1>5. Types
  BY <1>1 DEF Init, Types, Running
<1>6. LinkInv
  BY DEF Init, LinkInv
<1>7. OrderInv
  BY <1>2, <1>3 DEF OrderInv
<1> QED
  BY <1>4, <1>5, <1>6, <1>7 DEF Core

-----------------------------------------------------------------------------
(* The disk.                                                                 *)

\* A receive makes no commit.
Makes(r, s) == s.work \in {"unlink", "linked", "mark"} => s.work = r.work /\ s.made = r.made

\* A receive goes on with no more in its file than it had.
Remains(r, s) ==
  /\ s.table => /\ r.table /\ s.tok = r.tok
                /\ s.park = "note" \/ (r.park # "note" /\ Written(s) <= Written(r))
                /\ s.phase \in Kept => r.phase \in Kept
  /\ Makes(r, s)

\* No one is told of success who was not before.
Told ==
  /\ \A q \in Pubs : pub'[q] = pub[q] \/ (pub'[q] # "new" /\ (pub'[q] = "ok" => Firm))
  /\ \A i \in 1..Len(toS') : toS'[i].kind \in {"ok", "committed"} => Firm
  /\ \A t \in Tokens : journal'[t].state = "committed" => Firm

\* Files may only go.
Shrinks == /\ file' \in [Tokens -> Files]
           /\ \A t \in Tokens : file'[t] = file[t] \/ file'[t] = Gone

Settled == Told /\ Shrinks /\ \A q \in Pubs : Remains(rec[q], rec'[q])

LEMMA FilesKept ==
  ASSUME ArtifactAssumption, Core, Core', FileInv, Settled PROVE FileInv'
<1>1. /\ file' \in [Tokens -> Files]
      /\ \A t \in Tokens : file'[t] = file[t] \/ file'[t] = Gone
      /\ \A q \in Pubs : Remains(rec[q], rec'[q])
      /\ \A q \in Pubs : pub[q] # "new" => pub'[q] # "new"
  BY DEF Settled, Shrinks, Told
<1>2. SUFFICES ASSUME NEW p \in Pubs, rec'[p].table, Leads(p)', rec'[p].park # "note", file'[rec'[p].tok] # Gone
      PROVE  Len(file'[rec'[p].tok]) >= Written(rec'[p])
  BY <1>1 DEF FileInv
<1>3. /\ rec[p].table /\ rec'[p].tok = rec[p].tok /\ Written(rec'[p]) <= Written(rec[p])
      /\ rec[p].park # "note" /\ rec[p].tok \in Tokens
      /\ rec'[p].phase \in Kept => rec[p].phase \in Kept
  <2>1. NoRec.table = FALSE
    BY DEF NoRec
  <2> QED
    BY <1>1, <1>2, <2>1 DEF Remains, Core, Phase
<1>4. Leads(p)
  <2>1. Past(p) => Past(p)'
    BY <1>1 DEF Past
  <2> QED
    BY <1>2, <1>3, <2>1 DEF Leads, Kept
<1>5. file'[rec'[p].tok] = file[rec[p].tok]
  BY <1>1, <1>2, <1>3
<1>6. Len(file[rec[p].tok]) >= Written(rec[p])
  BY <1>2, <1>3, <1>4, <1>5 DEF FileInv
<1>7. Len(file[rec[p].tok]) \in Nat
  <2>1. PICK n \in 0..Chunks : file[rec[p].tok] = Prefix(n)
    BY <1>2, <1>3, <1>5 DEF FileInv, Files
  <2>2. n \in Nat
    BY <2>1, Constants
  <2> QED
    BY <2>1, <2>2, PrefixFacts
<1>8. Written(rec[p]) \in Int /\ Written(rec'[p]) \in Int
  <2>1. rec[p].got \in Nat /\ rec'[p].got \in Nat
    BY SMTT(30) DEF Core, Types, Receives
  <2> QED
    BY <2>1 DEF Written
<1> QED
  BY <1>3, <1>5, <1>6, <1>7, <1>8

LEMMA FirmKept ==
  ASSUME FirmInv, Told, \A q \in Pubs : Makes(rec[q], rec'[q]), final' = final PROVE FirmInv'
<1>1. \A q \in Pubs : rec'[q].work = "mark" => rec[q].work = "mark"
  BY DEF Makes
<1>2. \A q \in Pubs : rec'[q].work \in Put => rec[q].work \in Put /\ rec'[q].made = rec[q].made
  BY DEF Makes, Put
<1>3. Firm' => Firm
  <2>1. (\E q \in Pubs : pub[q] = "ok" \/ rec[q].work = "mark")' => Firm
    BY <1>1 DEF Told, Firm
  <2>2. (\E i \in 1..Len(toS) : toS[i].kind \in {"ok", "committed"})' => Firm
    BY DEF Told
  <2>3. (\E t \in Tokens : journal[t].state = "committed")' => Firm
    BY DEF Told
  <2> QED
    BY <2>1, <2>2, <2>3 DEF Firm
<1> QED
  BY <1>2, <1>3 DEF FirmInv

\* What is under way to the sender tells of success only what was told before.
LEMMA SaidMoves ==
  ASSUME Types, toS' \in Seq(Frames), NEW e \in {0, 1}, NEW M, Moves(toS, toS', e, M),
         \A f \in M : f.kind \in {"ok", "committed"} => Firm
  PROVE  \A i \in 1..Len(toS') : toS'[i].kind \in {"ok", "committed"} => Firm
<1>1. Len(toS) \in Nat /\ Len(toS') \in Nat
  BY DEF Types
<1> QED
  BY <1>1 DEF Moves, Firm

LEMMA ErrorSaid ==
  ASSUME ArtifactAssumption, Types, NEW p \in Pubs, Answers(Frame("error", p, 0, None)) \/ UNCHANGED toS
  PROVE  \A i \in 1..Len(toS') : toS'[i].kind \in {"ok", "committed"} => Firm
<1>1. PICK f \in Frames : /\ f.pub = p /\ f.kind = "error"
                         /\ toS' \in Seq(Frames) /\ Moves(toS, toS', 0, {f})
  BY ErrorMoves
<1> QED
  BY <1>1, SaidMoves

\* A step that leaves the disk and the receives alone.
LEMMA AsideSettled ==
  ASSUME FileInv, Types, UNCHANGED <<rec, file, journal>>,
         \A q \in Pubs : pub'[q] = pub[q] \/ (pub'[q] # "new" /\ (pub'[q] = "ok" => Firm)),
         \A i \in 1..Len(toS') : toS'[i].kind \in {"ok", "committed"} => Firm
  PROVE  Settled
<1>1. Told
  BY DEF Told, Firm
<1>2. Shrinks
  BY DEF Shrinks, FileInv
<1>3. \A q \in Pubs : Remains(rec[q], rec'[q])
  <2>1. \A q \in Pubs : rec[q].got \in Nat
    BY DEF Types, Receives
  <2>2. \A q \in Pubs : Written(rec[q]) \in Int
    BY <2>1 DEF Written
  <2> QED
    BY <2>2 DEF Remains, Makes
<1> QED
  BY <1>1, <1>2, <1>3 DEF Settled

LEMMA SenderSettled ==
  ASSUME ArtifactAssumption, Core, FileInv, Sender PROVE Settled
<1>1. UNCHANGED <<rec, file, journal>>
  BY SenderFrame
<1>2. Types /\ toS \in Seq(Frames) /\ pub \in [Pubs -> {"new", "retry", "ok", "failed"} \cup Running]
  BY DEF Core, Types
<1>3. CASE Reply
  <2>1. toS # <<>> /\ toS' = Tail(toS)
    BY <1>3 DEF Reply
  <2>2. toS' \in Seq(Frames) /\ Moves(toS, toS', 1, {}) /\ Head(toS) = toS[1] /\ 1 \in 1..Len(toS)
        /\ Head(toS).pub \in Pubs
    BY <1>2, <2>1, HeadS
  <2>3. \A i \in 1..Len(toS') : toS'[i].kind \in {"ok", "committed"} => Firm
    BY <1>2, <2>2, SaidMoves
  <2>4. Head(toS).kind \in {"ok", "committed"} => Firm
    BY <2>2 DEF Firm
  <2>5. \A q \in Pubs : pub'[q] = pub[q] \/ (pub'[q] # "new" /\ (pub'[q] = "ok" => Firm))
    BY <1>2, <1>3, <2>2, <2>4 DEF Reply, SendChunk, GiveUp, sendVars
  <2> QED
    BY <1>1, <1>2, <2>3, <2>5, AsideSettled
<1>4. ASSUME NEW p \in Pubs,
             Publish(p) \/ TimesOut(p) \/ WriteFails(p) \/ ClientCloses(p) \/ Again(p) \/ StopsRetrying(p)
      PROVE  Settled
  <2>1. toS' = toS
    BY <1>4 DEF Publish, TimesOut, WriteFails, ClientCloses, Again, StopsRetrying
  <2>2. \A q \in Pubs : pub'[q] = pub[q] \/ (pub'[q] # "new" /\ pub'[q] # "ok")
    BY <1>2, <1>4 DEF Publish, TimesOut, WriteFails, ClientCloses, Again, StopsRetrying, GiveUp, Interrupted
  <2>3. \A i \in 1..Len(toS') : toS'[i].kind \in {"ok", "committed"} => Firm
    BY <2>1 DEF Firm
  <2> QED
    BY <1>1, <1>2, <2>2, <2>3, AsideSettled
<1> QED
  BY <1>3, <1>4 DEF Sender

LEMMA LinkSettled ==
  ASSUME ArtifactAssumption, Core, FileInv, LinkFails \/ Break PROVE Settled
<1>1. Types /\ toS \in Seq(Frames) /\ pub \in [Pubs -> {"new", "retry", "ok", "failed"} \cup Running]
  BY DEF Core, Types
<1>2. UNCHANGED <<rec, file, journal>>
  BY DEF LinkFails, SenderNotices, ReceiverNotices, ReceiverDown, Reconnect, Break, diskVars
<1>3. \A q \in Pubs : pub'[q] = pub[q] \/ (pub'[q] # "new" /\ pub'[q] # "ok")
  BY <1>1 DEF LinkFails, SenderNotices, ReceiverNotices, ReceiverDown, Reconnect, Break, Interrupted, sendVars, Running
<1>4. \A i \in 1..Len(toS') : toS'[i].kind \in {"ok", "committed"} => Firm
  <2>1. CASE LinkFails
    <3>1. toS' = toS \/ toS' = <<>>
      BY <2>1 DEF LinkFails, SenderNotices, ReceiverNotices, ReceiverDown, Reconnect
    <3>2. Len(<<>>) = 0 /\ 1..0 = {}
      OBVIOUS
    <3> QED
      BY <3>1, <3>2 DEF Firm
  <2>2. CASE Break
    <3>1. PICK j \in 0..Len(toS) : toS' = SubSeq(toS, 1, j)
      BY <2>2 DEF Break
    <3> QED
      BY <1>1, <3>1, CutMoves, SaidMoves
  <2> QED
    BY <2>1, <2>2
<1> QED
  BY <1>1, <1>2, <1>3, <1>4, AsideSettled

LEMMA AgesSettled ==
  ASSUME ArtifactAssumption, Core, FileInv, NEW t \in Tokens, Ages(t) PROVE Settled
BY AsideSettled DEF Ages, Core, Firm, sendVars

LEMMA BeginSettled ==
  ASSUME ArtifactAssumption, Core, FileInv, Begin PROVE Settled
<1>1. Types /\ UNCHANGED <<rec, file, journal, pub>> /\ Head(toR).pub \in Pubs
  BY HeadR DEF Begin, Receive, Core, diskVars, sendVars
<1>2. \A i \in 1..Len(toS') : toS'[i].kind \in {"ok", "committed"} => Firm
  <2>1. CASE UNCHANGED toS
    BY <2>1 DEF Firm
  <2>2. CASE ToS(Frame("error", Head(toR).pub, 0, None))
    <3> DEFINE f == Frame("error", Head(toR).pub, 0, None)
    <3>1. f \in Frames /\ f.kind = "error"
      BY <1>1, FrameType, Constants
    <3>2. toS' \in Seq(Frames) /\ Moves(toS, toS', 0, {f})
      BY <1>1, <2>2, <3>1, ToSMoves
    <3> HIDE DEF f
    <3> QED
      BY <1>1, <3>1, <3>2, SaidMoves
  <2> QED
    BY <2>1, <2>2 DEF Begin
<1> QED
  BY <1>1, <1>2, AsideSettled

\* A receive becomes another one and the disk is left alone.
LEMMA RecSettled ==
  ASSUME ArtifactAssumption, Core, FileInv, NEW p \in Pubs, NEW s, rec' = [rec EXCEPT ![p] = s],
         Remains(rec[p], s), pub' = pub, Shrinks,
         \A t \in Tokens : journal'[t].state = "committed" => Firm,
         \A i \in 1..Len(toS') : toS'[i].kind \in {"ok", "committed"} => Firm
  PROVE  Settled
<1>1. Told
  BY DEF Told
<1>2. rec \in [Pubs -> Receives] /\ \A q \in Pubs : rec[q].got \in Nat
  BY DEF Core, Types, Receives
<1>3. \A q \in Pubs : Written(rec[q]) \in Int
  BY <1>2 DEF Written
<1>4. \A q \in Pubs : Remains(rec[q], rec[q])
  BY <1>3 DEF Remains, Makes
<1>5. \A q \in Pubs : Remains(rec[q], rec'[q])
  BY <1>2, <1>4
<1> QED
  BY <1>1, <1>5 DEF Settled

LEMMA SameFiles ==
  ASSUME FileInv, UNCHANGED <<file, journal, toS>>
  PROVE  /\ Shrinks
         /\ \A t \in Tokens : journal'[t].state = "committed" => Firm
         /\ \A i \in 1..Len(toS') : toS'[i].kind \in {"ok", "committed"} => Firm
BY DEF FileInv, Shrinks, Firm

LEMMA GoneRemains ==
  ASSUME NEW r PROVE Remains(r, NoRec)
BY DEF NoRec, Remains, Makes

\* Frames of a transfer.
LEMMA FrameSettled ==
  ASSUME ArtifactAssumption, Core, FileInv, Chunk \/ End \/ Cancel \/ Close PROVE Settled
<1> DEFINE p == Head(toR).pub
<1>1. p \in Pubs /\ pub' = pub /\ UNCHANGED <<file, journal, toS>>
  <2>1. toR # <<>>
    BY DEF Chunk, End, Cancel, Close, Receive
  <2>2. pub' = pub /\ UNCHANGED <<file, journal, toS>>
    BY DEF Chunk, End, Cancel, Close, diskVars, sendVars
  <2> QED
    BY <2>1, <2>2, HeadR DEF Core
<1>2. rec[p] \in Receives /\ rec[p].got \in Nat /\ rec \in [Pubs -> Receives]
  <2>1. rec[p] \in Receives /\ rec \in [Pubs -> Receives]
    BY <1>1 DEF Core, Types
  <2> HIDE DEF p
  <2> QED
    BY <2>1 DEF Receives
<1>3. PICK s : /\ rec' = [rec EXCEPT ![p] = s]
               /\ s.table = rec[p].table /\ s.tok = rec[p].tok /\ s.got = rec[p].got /\ s.work = rec[p].work
               /\ s.park = rec[p].park /\ s.made = rec[p].made
               /\ s.phase \in {rec[p].phase, "aborting"} \/ (s.phase = "ending" /\ rec[p].phase = "receiving")
  <2>1. CASE Chunk
    <3> DEFINE n == Head(toR).n
               r == rec[p]
               s == IF ~r.table THEN r
                    ELSE IF r.phase = "receiving" /\ n = r.next
                    THEN [r EXCEPT !.queue = Append(@, n), !.next = @ + 1] ELSE AbortMarked(r)
    <3>1. rec' = [rec EXCEPT ![p] = s]
      BY <2>1 DEF Chunk
    <3>2. /\ s.table = r.table /\ s.tok = r.tok /\ s.got = r.got /\ s.work = r.work
          /\ s.park = r.park /\ s.made = r.made /\ s.phase \in {r.phase, "aborting"}
      BY <1>2, SMTT(30) DEF Receives, AbortMarked
    <3> QED
      BY <3>1, <3>2
  <2>2. CASE End
    <3> DEFINE n == Head(toR).n
               r == rec[p]
               s == IF ~r.table THEN r
                    ELSE IF r.phase = "receiving" /\ n = r.next
                    THEN [r EXCEPT !.queue = Append(@, EndMark), !.phase = "ending"] ELSE AbortMarked(r)
    <3>1. rec' = [rec EXCEPT ![p] = s]
      BY <2>2 DEF End
    <3>2. /\ s.table = r.table /\ s.tok = r.tok /\ s.got = r.got /\ s.work = r.work
          /\ s.park = r.park /\ s.made = r.made
          /\ s.phase \in {r.phase, "aborting"} \/ (s.phase = "ending" /\ r.phase = "receiving")
      BY <1>2, SMTT(30) DEF Receives, AbortMarked
    <3> QED
      BY <3>1, <3>2
  <2>3. CASE Cancel
    <3> DEFINE r == rec[p]
               s == IF r.table THEN AbortMarked(r) ELSE r
    <3>1. rec' = [rec EXCEPT ![p] = s]
      BY <2>3 DEF Cancel
    <3>2. /\ s.table = r.table /\ s.tok = r.tok /\ s.got = r.got /\ s.work = r.work
          /\ s.park = r.park /\ s.made = r.made /\ s.phase \in {r.phase, "aborting"}
      BY <1>2 DEF Receives, AbortMarked
    <3> QED
      BY <3>1, <3>2
  <2>4. CASE Close
    <3> DEFINE r == rec[p]
               s == [r EXCEPT !.phase = IF r.table /\ @ # "completed" THEN "aborting" ELSE @]
    <3>1. rec' = [rec EXCEPT ![p] = s]
      BY <1>1, <1>2, <2>4 DEF Close
    <3>2. /\ s.table = r.table /\ s.tok = r.tok /\ s.got = r.got /\ s.work = r.work
          /\ s.park = r.park /\ s.made = r.made /\ s.phase \in {r.phase, "aborting"}
      BY <1>2 DEF Receives
    <3> QED
      BY <3>1, <3>2
  <2> QED
    BY <2>1, <2>2, <2>3, <2>4, SMTT(30)
<1> HIDE DEF p
<1>4. Remains(rec[p], s)
  <2>1. Written(s) = Written(rec[p]) /\ Written(s) \in Int
    BY <1>2, <1>3 DEF Written
  <2> QED
    BY <1>3, <2>1 DEF Remains, Makes, Kept
<1> QED
  BY <1>1, <1>3, <1>4, SameFiles, RecSettled

LEMMA RestartSettled ==
  ASSUME ArtifactAssumption, Core, FileInv, Restart PROVE Settled
<1>1. Types /\ toS \in Seq(Frames) /\ Gone \in Files
  BY DEF Core, Types, Files
<1>2. PICK j \in 0..Len(toS) : toS' = SubSeq(toS, 1, j)
  BY DEF Restart
<1>3. \A i \in 1..Len(toS') : toS'[i].kind \in {"ok", "committed"} => Firm
  BY <1>1, <1>2, CutMoves, SaidMoves
<1>4. Told
  BY <1>3 DEF Told, Restart, sendVars, Firm
<1>5. Shrinks
  BY <1>1 DEF Restart, Shrinks, FileInv
<1>6. \A q \in Pubs : Remains(rec[q], rec'[q])
  BY GoneRemains DEF Restart
<1> QED
  BY <1>4, <1>5, <1>6 DEF Settled

LEMMA PruneFiles ==
  ASSUME FileInv, Prune
  PROVE  Shrinks /\ \A t \in Tokens : journal'[t].state = "committed" => Firm
<1>1. Gone \in Files /\ NoReceipt.state = "none"
  BY DEF Files, NoReceipt
<1>2. Shrinks
  BY <1>1 DEF Prune, Shrinks, FileInv
<1>3. \A t \in Tokens : journal'[t].state = "committed" => journal[t].state = "committed"
  BY <1>1 DEF Prune
<1> QED
  BY <1>2, <1>3 DEF Firm

LEMMA BeginPrunesSettled ==
  ASSUME ArtifactAssumption, Core, FileInv, NEW p \in Pubs, BeginPrunes(p) PROVE Settled
<1>1. rec \in [Pubs -> Receives] /\ rec[p].got \in Nat
  BY DEF Core, Types, Receives
<1>2. rec' = [rec EXCEPT ![p] = rec[p]] /\ pub' = pub /\ toS' = toS
  BY <1>1 DEF BeginPrunes, sendVars
<1>3. Written(rec[p]) \in Int
  BY <1>1 DEF Written
<1>4. Remains(rec[p], rec[p])
  BY <1>3 DEF Remains, Makes
<1>5. Shrinks /\ \A t \in Tokens : journal'[t].state = "committed" => Firm
  BY PruneFiles DEF BeginPrunes
<1>6. \A i \in 1..Len(toS') : toS'[i].kind \in {"ok", "committed"} => Firm
  BY <1>2 DEF Firm
<1> QED
  BY <1>2, <1>4, <1>5, <1>6, RecSettled

-----------------------------------------------------------------------------
\* The partial file and the receipt of a token go.
LEMMA DiscardFiles ==
  ASSUME FileInv, Core, NEW t \in Tokens, Discard(t)
  PROVE  Shrinks /\ \A u \in Tokens : journal'[u].state = "committed" => Firm
<1>1. Gone \in Files /\ NoReceipt.state = "none" /\ journal \in [Tokens -> Receipts]
  BY DEF Files, NoReceipt, Core, Types
<1>2. Shrinks
  BY <1>1 DEF Discard, Shrinks, FileInv
<1>3. \A u \in Tokens : journal'[u].state = "committed" => journal[u].state = "committed"
  BY <1>1 DEF Discard
<1> QED
  BY <1>2, <1>3 DEF Firm


LEMMA FailsSettled ==
  ASSUME ArtifactAssumption, Core, FileInv, NEW p \in Pubs, NEW r \in Receives,
         r.phase = rec[p].phase, r.table = rec[p].table, r.tok = rec[p].tok, r.got = rec[p].got, r.park = rec[p].park,
         rec[p] # NoRec, rec[p].work = "write" => rec[p].park = "note",
         Fails(p, r), pub' = pub
  PROVE  Settled
<1>1. rec[p] \in Receives /\ rec \in [Pubs -> Receives] /\ rec[p].got \in Nat /\ rec[p].tok \in Tokens
  BY DEF Core, Types, Receives, Phase
<1>2. CASE r.phase = "parked" /\ rec' = [rec EXCEPT ![p] = [r EXCEPT !.work = "done"]] /\ UNCHANGED <<toS, file, journal, old>>
  <2> DEFINE s == [r EXCEPT !.work = "done"]
  <2>1. /\ s.table = rec[p].table /\ s.tok = rec[p].tok /\ s.got = rec[p].got /\ s.park = rec[p].park
        /\ s.phase = rec[p].phase /\ s.work = "done"
    BY DEF Receives
  <2> HIDE DEF s
  <2>2. s.park = "note" \/ (Written(s) <= Written(rec[p]))
    BY <1>1, <2>1 DEF Written
  <2>3. Remains(rec[p], s)
    BY <2>1, <2>2 DEF Remains, Makes
  <2>4. rec' = [rec EXCEPT ![p] = s]
    BY <1>2 DEF s
  <2> QED
    BY <1>2, <2>3, <2>4, SameFiles, RecSettled
<1>3. CASE rec' = [rec EXCEPT ![p] = NoRec] /\ Discard(r.tok) /\ Answers(Frame("error", p, 0, None))
  BY <1>1, <1>3, DiscardFiles, ErrorSaid, GoneRemains, RecSettled DEF Core
<1> QED
  BY <1>2, <1>3 DEF Fails

\* A worker at one of its steps.
LEMMA AtWork ==
  ASSUME ArtifactAssumption, Core, NEW p \in Pubs, rec[p].work # "off"
  PROVE  /\ rec[p] \in Receives /\ rec \in [Pubs -> Receives] /\ rec[p].got \in Nat /\ rec[p] # NoRec
         /\ rec[p].tok \in Tokens /\ (rec[p].work # "mark" => rec[p].table)
BY DEF Core, Types, Receives, Phase, NoRec

LEMMA SeedSettled ==
  ASSUME ArtifactAssumption, Core, FileInv, NEW p \in Pubs, Seed(p) PROVE Settled
<1>1. /\ rec[p].work = "seed" /\ pub' = pub
      /\ rec[p] \in Receives /\ rec \in [Pubs -> Receives] /\ rec[p].got \in Nat /\ rec[p] # NoRec
  BY AtWork DEF Seed, Work, sendVars
<1>2. CASE Fails(p, rec[p])
  BY <1>1, <1>2, FailsSettled
<1>3. CASE /\ rec' = [rec EXCEPT ![p].work = "get", ![p].digest =
                IF rec[p].acked = 0 THEN <<>> ELSE SubSeq(file[rec[p].tok], 1, rec[p].acked)]
           /\ UNCHANGED <<toS, file, journal, old>>
  <2> DEFINE d == IF rec[p].acked = 0 THEN <<>> ELSE SubSeq(file[rec[p].tok], 1, rec[p].acked)
  <2> HIDE DEF d
  <2> DEFINE s == [rec[p] EXCEPT !.work = "get", !.digest = d]
  <2>1. /\ s.table = rec[p].table /\ s.tok = rec[p].tok /\ s.got = rec[p].got /\ s.park = rec[p].park
        /\ s.phase = rec[p].phase /\ s.work = "get"
    BY <1>1 DEF Receives
  <2>2. rec' = [rec EXCEPT ![p] = s]
    BY <1>1, <1>3 DEF d
  <2> HIDE DEF s
  <2>3. Remains(rec[p], s)
    BY <1>1, <2>1 DEF Remains, Makes, Written
  <2> QED
    BY <1>1, <1>3, <2>2, <2>3, SameFiles, RecSettled
<1> QED
  BY <1>2, <1>3 DEF Seed

LEMMA GetSettled ==
  ASSUME ArtifactAssumption, Core, FileInv, NEW p \in Pubs, Get(p) PROVE Settled
<1>1. /\ rec[p].work = "get" /\ pub' = pub /\ rec[p].queue # <<>>
      /\ rec[p] \in Receives /\ rec \in [Pubs -> Receives] /\ rec[p].got \in Nat /\ rec[p] # NoRec
  BY AtWork DEF Get, Work, sendVars
<1> DEFINE q == [rec[p] EXCEPT !.queue = Tail(@)]
<1>2. CASE Fails(p, q)
  <2>1. Tail(rec[p].queue) \in Seq(Nat)
    BY <1>1 DEF Receives
  <2>2. /\ q \in Receives
        /\ q.phase = rec[p].phase /\ q.table = rec[p].table /\ q.tok = rec[p].tok /\ q.got = rec[p].got
        /\ q.park = rec[p].park
    BY <1>1, <2>1 DEF Receives
  <2> HIDE DEF q
  <2> QED
    BY <1>1, <1>2, <2>2, FailsSettled
<1>3. CASE rec' = [rec EXCEPT ![p] = [q EXCEPT !.work = "sync"]] /\ UNCHANGED <<toS, file, journal, old>>
  <2> DEFINE s == [q EXCEPT !.work = "sync"]
  <2>1. /\ s.table = rec[p].table /\ s.tok = rec[p].tok /\ s.got = rec[p].got /\ s.park = rec[p].park
        /\ s.phase = rec[p].phase /\ s.work = "sync"
    BY <1>1 DEF Receives
  <2> HIDE DEF s
  <2>2. Remains(rec[p], s)
    BY <1>1, <2>1 DEF Remains, Makes, Written
  <2>3. rec' = [rec EXCEPT ![p] = s]
    BY <1>3 DEF s
  <2> QED
    BY <1>1, <1>3, <2>2, <2>3, SameFiles, RecSettled
<1>4. CASE /\ rec' = [rec EXCEPT ![p] = [q EXCEPT !.work = "write", !.seq = Head(rec[p].queue),
                        !.got = @ + 1, !.digest = Append(@, Head(rec[p].queue) + 1)]]
           /\ UNCHANGED <<toS, file, journal, old>>
  <2> DEFINE s == [q EXCEPT !.work = "write", !.seq = Head(rec[p].queue),
                        !.got = @ + 1, !.digest = Append(@, Head(rec[p].queue) + 1)]
  <2>1. /\ s.table = rec[p].table /\ s.tok = rec[p].tok /\ s.got = rec[p].got + 1 /\ s.park = rec[p].park
        /\ s.phase = rec[p].phase /\ s.work = "write"
    BY <1>1 DEF Receives
  <2> HIDE DEF s
  <2>2. Remains(rec[p], s)
    BY <1>1, <2>1 DEF Remains, Makes, Written
  <2>3. rec' = [rec EXCEPT ![p] = s]
    BY <1>4 DEF s
  <2> QED
    BY <1>1, <1>4, <2>2, <2>3, SameFiles, RecSettled
<1> QED
  BY <1>2, <1>3, <1>4 DEF Get

LEMMA AckSettled ==
  ASSUME ArtifactAssumption, Core, FileInv, NEW p \in Pubs, Ack(p) PROVE Settled
<1>1. /\ rec[p].work = "ack" /\ pub' = pub
      /\ rec[p] \in Receives /\ rec \in [Pubs -> Receives] /\ rec[p].got \in Nat /\ rec[p] # NoRec /\ rec[p].table
  BY AtWork DEF Ack, Work, sendVars
<1>2. CASE Fails(p, rec[p])
  BY <1>1, <1>2, FailsSettled
<1>3. CASE /\ ToS(Frame("ack", p, rec[p].seq, None))
           /\ rec' = [rec EXCEPT ![p].work = "get", ![p].acked = rec[p].got, ![p].next = rec[p].seq + 1]
           /\ UNCHANGED <<file, journal, old>>
  <2> DEFINE s == [rec[p] EXCEPT !.work = "get", !.acked = rec[p].got, !.next = rec[p].seq + 1]
  <2>1. /\ s.table = rec[p].table /\ s.tok = rec[p].tok /\ s.got = rec[p].got /\ s.park = rec[p].park
        /\ s.phase = rec[p].phase /\ s.work = "get"
    BY <1>1 DEF Receives
  <2>2. rec' = [rec EXCEPT ![p] = s]
    BY <1>1, <1>3
  <2> HIDE DEF s
  <2>3. Remains(rec[p], s)
    BY <1>1, <2>1 DEF Remains, Makes, Written
  <2>4. \A i \in 1..Len(toS') : toS'[i].kind \in {"ok", "committed"} => Firm
    <3>1. rec[p].seq + 1 = rec[p].got /\ rec[p].got \in 0..Chunks /\ rec[p].seq \in Nat /\ Chunks \in Nat
      BY <1>1, Constants DEF Core, Numbers, Receives
    <3>2. rec[p].seq \in 0..Chunks
      BY <3>1
    <3> DEFINE f == Frame("ack", p, rec[p].seq, None)
    <3>3. f \in Frames /\ f.kind = "ack"
      BY <3>2, FrameType
    <3>4. toS' \in Seq(Frames) /\ Moves(toS, toS', 0, {f})
      BY <1>3, <3>3, ToSMoves DEF Core
    <3> HIDE DEF f
    <3> QED
      BY <3>3, <3>4, SaidMoves DEF Core
  <2>5. Shrinks /\ \A t \in Tokens : journal'[t].state = "committed" => Firm
    BY <1>3 DEF Shrinks, FileInv, Firm
  <2> QED
    BY <1>1, <1>3, <2>2, <2>3, <2>4, <2>5, RecSettled
<1>4. CASE /\ rec' = [rec EXCEPT ![p] =
                IF rec[p].phase \in {"receiving", "ending"}
                THEN [rec[p] EXCEPT !.acked = rec[p].got, !.phase = "parked", !.park = "trunc", !.work = "done"]
                ELSE [rec[p] EXCEPT !.acked = rec[p].got, !.work = "done"]]
           /\ UNCHANGED <<toS, file, journal, old>>
  <2> DEFINE s == IF rec[p].phase \in {"receiving", "ending"}
                  THEN [rec[p] EXCEPT !.acked = rec[p].got, !.phase = "parked", !.park = "trunc", !.work = "done"]
                  ELSE [rec[p] EXCEPT !.acked = rec[p].got, !.work = "done"]
  <2>1. /\ s.table = rec[p].table /\ s.tok = rec[p].tok /\ s.got = rec[p].got /\ s.work = "done"
        /\ s.phase \in Kept => rec[p].phase \in Kept
        /\ s.park = rec[p].park \/ (s.park = "trunc" /\ rec[p].phase \in {"receiving", "ending"})
    BY <1>1 DEF Receives, Kept
  <2> HIDE DEF s
  <2>2. rec[p].phase \in {"receiving", "ending"} => rec[p].park = "no"
    BY <1>1 DEF Core, Phase, Receives
  <2>3. Remains(rec[p], s)
    BY <1>1, <2>1, <2>2 DEF Remains, Makes, Written
  <2>4. rec' = [rec EXCEPT ![p] = s]
    BY <1>4 DEF s
  <2> QED
    BY <1>1, <1>4, <2>3, <2>4, SameFiles, RecSettled
<1> QED
  BY <1>2, <1>3, <1>4 DEF Ack

LEMMA SyncSettled ==
  ASSUME ArtifactAssumption, Core, FileInv, NEW p \in Pubs, Sync(p) PROVE Settled
<1>1. /\ rec[p].work = "sync" /\ pub' = pub
      /\ rec[p] \in Receives /\ rec \in [Pubs -> Receives] /\ rec[p].got \in Nat /\ rec[p] # NoRec /\ rec[p].table
  BY AtWork DEF Sync, Work, sendVars
<1>2. CASE Fails(p, rec[p])
  BY <1>1, <1>2, FailsSettled
<1>3. CASE /\ rec[p].phase = "ending"
           /\ rec' = [rec EXCEPT ![p].phase = "committing", ![p].work = "commit"]
           /\ UNCHANGED <<toS, file, journal, old>>
  <2> DEFINE s == [rec[p] EXCEPT !.phase = "committing", !.work = "commit"]
  <2>1. /\ s.table = rec[p].table /\ s.tok = rec[p].tok /\ s.got = rec[p].got /\ s.park = rec[p].park
        /\ s.phase = "committing" /\ s.work = "commit"
    BY <1>1 DEF Receives
  <2>2. rec' = [rec EXCEPT ![p] = s]
    BY <1>1, <1>3
  <2> HIDE DEF s
  <2>3. Remains(rec[p], s)
    BY <1>1, <2>1 DEF Remains, Makes, Written, Kept
  <2> QED
    BY <1>1, <1>3, <2>2, <2>3, SameFiles, RecSettled
<1> QED
  BY <1>2, <1>3 DEF Sync

LEMMA AbortSettled ==
  ASSUME ArtifactAssumption, Core, FileInv, NEW p \in Pubs, Abort(p) PROVE Settled
<1>1. rec[p].table /\ rec[p].tok \in Tokens /\ pub' = pub
  BY DEF Abort, Live, Core, Phase, NoRec, sendVars
<1>2. rec' = [rec EXCEPT ![p] = NoRec] /\ Discard(rec[p].tok) /\ Answers(Frame("error", p, 0, None))
  BY DEF Abort
<1> QED
  BY <1>1, <1>2, DiscardFiles, ErrorSaid, GoneRemains, RecSettled DEF Core

LEMMA MarkSettled ==
  ASSUME ArtifactAssumption, Core, FileInv, NEW p \in Pubs, Mark(p) PROVE Settled
<1>1. rec[p].work = "mark" /\ pub' = pub /\ Firm /\ Gone \in Files
  BY DEF Mark, Work, sendVars, Firm, Files
<1>2. Shrinks
  BY <1>1 DEF Mark, Shrinks, FileInv
<1> QED
  BY <1>1, <1>2, GoneRemains, RecSettled DEF Mark

LEMMA ParkRecordsSettled ==
  ASSUME ArtifactAssumption, Core, FileInv, NEW p \in Pubs, ParkRecords(p) PROVE Settled
<1>1. pub' = pub /\ UNCHANGED <<file, toS>> /\ journal \in [Tokens -> Receipts]
  BY DEF ParkRecords, sendVars, Core, Types
<1>2. Shrinks /\ \A i \in 1..Len(toS') : toS'[i].kind \in {"ok", "committed"} => Firm
  BY <1>1 DEF Shrinks, FileInv, Firm
<1>3. \A t \in Tokens : journal'[t].state = "committed" => journal[t].state = "committed"
  BY <1>1 DEF ParkRecords
<1> QED
  BY <1>1, <1>2, <1>3, GoneRemains, RecSettled DEF ParkRecords, Firm

LEMMA ParkStartsSettled ==
  ASSUME ArtifactAssumption, Core, FileInv, NEW p \in Pubs, ParkStarts(p) PROVE Settled
<1>1. pub' = pub /\ UNCHANGED <<file, toS, journal>> /\ rec[p] \in Receives /\ rec[p].got \in Nat
  BY DEF ParkStarts, sendVars, diskVars, Core, Types, Receives
<1> DEFINE s == IF rec[p].table /\ rec[p].phase \in {"receiving", "ending"}
                THEN [rec[p] EXCEPT !.phase = "parked", !.park = "trunc"] ELSE rec[p]
<1>2. rec' = [rec EXCEPT ![p] = s]
  BY DEF ParkStarts
<1>3. /\ s.table = rec[p].table /\ s.tok = rec[p].tok /\ s.got = rec[p].got /\ s.work = rec[p].work
      /\ s.made = rec[p].made
      /\ s.phase \in Kept => rec[p].phase \in Kept
      /\ s.park = rec[p].park \/ (s.park = "trunc" /\ rec[p].phase \in {"receiving", "ending"})
  BY <1>1 DEF Receives, Kept
<1> HIDE DEF s
<1>4. rec[p].phase \in {"receiving", "ending"} => rec[p].park = "no"
  BY <1>1 DEF Core, Phase, Receives
<1>5. Remains(rec[p], s)
  BY <1>1, <1>3, <1>4 DEF Remains, Makes, Written
<1> QED
  BY <1>1, <1>2, <1>5, SameFiles, RecSettled

-----------------------------------------------------------------------------
(* Steps that write to a file.                                               *)

\* There is one receive that may use its file.
LEMMA LeadsAlone ==
  ASSUME ArtifactAssumption, Core, NEW p \in Pubs, NEW q \in Pubs, p # q,
         begin[p].at # "no" \/ (rec[p].table /\ Leads(p)), rec[q].table, Leads(q)
  PROVE  FALSE
<1>1. NoRec.table = FALSE /\ p \in Nat /\ q \in Nat
  BY Constants DEF NoRec
<1>2. pub[p] # "new" /\ pub[q] # "new"
  BY <1>1 DEF Core, Course
<1>3. CASE p < q
  <2>1. Past(p)
    BY <1>2, <1>3 DEF Past
  <2>2. Active(p)
    BY <2>1 DEF Leads, Active, Arriving
  <2> QED
    BY <1>3, <2>2 DEF Core, OrderInv
<1>4. CASE q < p
  <2>1. Past(q)
    BY <1>2, <1>4 DEF Past
  <2>2. Active(q)
    BY <2>1 DEF Leads, Active
  <2> QED
    BY <1>4, <2>2 DEF Core, OrderInv
<1> QED
  BY <1>1, <1>3, <1>4

LEMMA FilesLed ==
  ASSUME ArtifactAssumption, Core, NEW p \in Pubs,
         begin[p].at # "no" \/ (rec[p].table /\ Leads(p)),
         file' \in [Tokens -> Files], pub' = pub, NEW s, rec' = [rec EXCEPT ![p] = s],
         s.table /\ s.park # "note" /\ file'[s.tok] # Gone => Len(file'[s.tok]) >= Written(s)
  PROVE  FileInv'
<1>1. rec'[p] = s /\ \A q \in Pubs \ {p} : rec'[q] = rec[q]
  BY DEF Core, Types
<1>2. ASSUME NEW q \in Pubs \ {p}, rec'[q].table, Leads(q)' PROVE FALSE
  <2>1. Leads(q) /\ rec[q].table
    BY <1>1, <1>2 DEF Leads, Past
  <2> QED
    BY <2>1, LeadsAlone
<1> QED
  BY <1>1, <1>2 DEF FileInv

\* A worker that wrote, synced or commits has not been given up for another one.
LEMMA WritersLead ==
  ASSUME Core, NEW p \in Pubs, rec[p].work \in {"write", "ack", "sync", "commit", "unlink", "linked"}
  PROVE  ~Past(p) /\ Leads(p) /\ rec[p].table /\ rec[p].tok \in Tokens
<1>1. rec[p] # NoRec /\ rec[p].table
  BY DEF Core, Phase, NoRec
<1>2. ~Past(p)
  BY <1>1 DEF Core, OrderInv
<1> QED
  BY <1>1, <1>2 DEF Leads, Core, Phase

LEMMA PrefixIsFile ==
  ASSUME ArtifactAssumption, NEW n \in 0..Chunks
  PROVE  Prefix(n) \in Files /\ Len(Prefix(n)) = n /\ n \in Nat /\ Prefix(n) # Gone
<1>1. n \in Nat
  BY Constants
<1> QED
  BY <1>1, PrefixFacts DEF Files

LEMMA FileOf ==
  ASSUME ArtifactAssumption, FileInv, NEW t \in Tokens
  PROVE  file[t] = Gone \/ \E n \in 0..Chunks : file[t] = Prefix(n) /\ Len(file[t]) = n /\ file[t] # Gone
<1>1. file[t] \in Files
  BY DEF FileInv
<1> QED
  BY <1>1, PrefixIsFile DEF Files

\* A handle that truncates to what is there leaves a prefix.
LEMMA TruncatedPrefix ==
  ASSUME ArtifactAssumption, NEW m \in 0..Chunks, NEW n \in 0..m
  PROVE  Truncated(Prefix(m), n) = Prefix(n) /\ n \in 0..Chunks
<1>1. m \in Nat /\ n \in Nat /\ n <= m /\ n \in 0..Chunks
  BY Constants
<1>2. Len(Prefix(m)) = m /\ Prefix(m) # Gone /\ \A i \in 1..m : Prefix(m)[i] = i
  BY <1>1, PrefixFacts
<1>3. \A k \in 1..n : k <= m /\ k \in 1..m
  BY <1>1
<1>4. Truncated(Prefix(m), n) = [k \in 1..n |-> IF k <= m THEN Prefix(m)[k] ELSE 0]
  BY <1>2 DEF Truncated
<1> HIDE DEF Prefix
<1>5. [k \in 1..n |-> IF k <= m THEN Prefix(m)[k] ELSE 0] = [k \in 1..n |-> k]
  BY <1>2, <1>3
<1> QED
  BY <1>1, <1>4, <1>5 DEF Prefix

\* The next chunk written at the end of a prefix or inside of it leaves a prefix.
LEMMA WrittenPrefix ==
  ASSUME ArtifactAssumption, NEW m \in 0..Chunks, NEW g \in 1..Chunks, m >= g - 1
  PROVE  /\ [k \in 1..Max2(g, m) |-> IF k = g THEN g ELSE IF k <= m THEN Prefix(m)[k] ELSE 0] = Prefix(Max2(g, m))
         /\ Max2(g, m) \in 0..Chunks /\ Max2(g, m) >= g
<1>1. m \in Nat /\ g \in Nat /\ Chunks \in Nat
  BY Constants
<1>2. Max2(g, m) \in 0..Chunks /\ Max2(g, m) >= g /\ Max2(g, m) \in Nat
  BY <1>1 DEF Max2
<1>3. \A i \in 1..m : Prefix(m)[i] = i
  BY <1>1, PrefixFacts
<1>4. \A k \in 1..Max2(g, m) : k # g => k \in 1..m /\ k <= m
  BY <1>1 DEF Max2
<1> HIDE DEF Prefix
<1>5. [k \in 1..Max2(g, m) |-> IF k = g THEN g ELSE IF k <= m THEN Prefix(m)[k] ELSE 0]
        = [k \in 1..Max2(g, m) |-> k]
  BY <1>3, <1>4
<1> QED
  BY <1>2, <1>5 DEF Prefix

LEMMA WriteFiles ==
  ASSUME ArtifactAssumption, Core, Core', FileInv, NEW p \in Pubs, Write(p) PROVE FileInv' /\ Told /\ \A q \in Pubs : Makes(rec[q], rec'[q])
<1>1. /\ rec[p].work = "write" /\ pub' = pub
      /\ rec[p] \in Receives /\ rec \in [Pubs -> Receives] /\ rec[p].got \in Nat /\ rec[p] # NoRec /\ rec[p].table
  BY AtWork DEF Write, Work, sendVars
<1>2. CASE rec[p].park = "note" /\ Fails(p, rec[p])
  <2>1. Settled
    BY <1>1, <1>2, FailsSettled
  <2> QED
    BY <2>1, FilesKept DEF Settled, Remains
<1>3. CASE /\ rec[p].park # "note"
           /\ file' = [file EXCEPT ![rec[p].tok] =
                IF @ = Gone THEN Gone
                ELSE [k \in 1..Max2(rec[p].got, Len(@)) |->
                        IF k = rec[p].got THEN rec[p].seq + 1 ELSE IF k <= Len(@) THEN @[k] ELSE 0]]
           /\ rec' = [rec EXCEPT ![p].work = "ack"]
           /\ UNCHANGED <<toS, journal, old>>
  <2> DEFINE t == rec[p].tok
             g == rec[p].got
             s == [rec[p] EXCEPT !.work = "ack"]
  <2>1. ~Past(p) /\ Leads(p) /\ t \in Tokens
    BY <1>1, WritersLead
  <2>2. g \in 1..Chunks /\ rec[p].seq + 1 = g
    <3>1. rec[p].seq \in Nat /\ g \in 0..Chunks /\ Chunks \in Nat
      BY <1>1, Constants DEF Receives
    <3>2. rec[p].seq + 1 = g
      BY <1>1 DEF Core, Numbers
    <3> HIDE DEF g
    <3> QED
      BY <3>1, <3>2
  <2>3. file \in [Tokens -> Files] /\ Gone \in Files
    BY DEF FileInv, Files
  <2>4. file' \in [Tokens -> Files] /\ (file'[t] # Gone => Len(file'[t]) >= g)
    <3>1. CASE file[t] = Gone
      <4>1. file' = [file EXCEPT ![t] = Gone]
        BY <1>3, <2>1, <2>3, <3>1
      <4> QED
        BY <2>1, <2>3, <4>1
    <3>2. CASE file[t] # Gone
      <4>1. PICK m \in 0..Chunks : file[t] = Prefix(m) /\ Len(file[t]) = m
        BY <2>1, <3>2, FileOf
      <4>2. m >= g - 1
        <5>1. Len(file[t]) >= Written(rec[p])
          BY <1>1, <1>3, <2>1, <3>2 DEF FileInv
        <5> QED
          BY <1>1, <4>1, <5>1 DEF Written
      <4> HIDE DEF t, g
      <4> DEFINE n == Max2(g, m)
      <4>3. [k \in 1..n |-> IF k = g THEN g ELSE IF k <= m THEN Prefix(m)[k] ELSE 0] = Prefix(n)
            /\ n \in 0..Chunks /\ n >= g
        BY <2>2, <4>2, WrittenPrefix
      <4>4. file' = [file EXCEPT ![t] = [k \in 1..n |-> IF k = g THEN g ELSE IF k <= m THEN Prefix(m)[k] ELSE 0]]
        BY <1>3, <2>1, <2>2, <2>3, <3>2, <4>1 DEF t, g
      <4> HIDE DEF n
      <4>5. Prefix(n) \in Files /\ Len(Prefix(n)) = n
        BY <4>3, PrefixIsFile
      <4>6. file' = [file EXCEPT ![t] = Prefix(n)]
        BY <4>3, <4>4
      <4>7. file'[t] = Prefix(n) /\ file' \in [Tokens -> Files]
        BY <2>1, <2>3, <4>5, <4>6
      <4> QED
        BY <4>3, <4>5, <4>7
    <3> QED
      BY <3>1, <3>2
  <2>5. s.table /\ s.tok = t /\ s.got = g /\ s.work = "ack"
    BY <1>1 DEF Receives
  <2>6. rec' = [rec EXCEPT ![p] = s]
    BY <1>1, <1>3
  <2> HIDE DEF s
  <2>7. FileInv'
    BY <1>1, <2>1, <2>4, <2>5, <2>6, FilesLed DEF Written
  <2>8. Told
    BY <1>1, <1>3 DEF Told, Firm
  <2>9. \A q \in Pubs : Makes(rec[q], rec'[q])
    BY <1>1, <2>5, <2>6 DEF Makes
  <2> QED
    BY <2>7, <2>8, <2>9
<1> QED
  BY <1>2, <1>3 DEF Write

LEMMA ParkTruncatesFiles ==
  ASSUME ArtifactAssumption, Core, FileInv, NEW p \in Pubs, ParkTruncates(p)
  PROVE  FileInv' /\ Told /\ \A q \in Pubs : Makes(rec[q], rec'[q])
<1> DEFINE t == rec[p].tok
           a == rec[p].acked
           s == [rec[p] EXCEPT !.park = "note"]
<1>1. /\ rec[p].park = "trunc" /\ pub' = pub /\ UNCHANGED <<toS, journal>> /\ rec' = [rec EXCEPT ![p].park = "note"]
      /\ file' = [file EXCEPT ![t] = Truncated(@, a)]
  BY DEF ParkTruncates, sendVars
<1>2. rec[p] \in Receives /\ rec \in [Pubs -> Receives] /\ rec[p] # NoRec /\ a \in 0..Chunks /\ rec[p].got \in Nat
  BY <1>1, SMTT(30) DEF Core, Types, Receives, NoRec
<1>3. t \in Tokens /\ rec[p].phase = "parked" /\ rec[p].table
  BY <1>1, <1>2 DEF Core, Phase
<1>4. Leads(p) /\ file \in [Tokens -> Files] /\ Gone \in Files
  BY <1>3 DEF Leads, FileInv, Files
<1>5. file' \in [Tokens -> Files]
  <2>1. CASE file[t] = Gone
    <3>1. file' = [file EXCEPT ![t] = Gone]
      BY <1>1, <1>3, <1>4, <2>1 DEF Truncated
    <3> QED
      BY <1>4, <3>1
  <2>2. CASE file[t] # Gone
    <3>1. PICK m \in 0..Chunks : file[t] = Prefix(m) /\ Len(file[t]) = m
      BY <1>3, <2>2, FileOf
    <3>2. m >= Written(rec[p])
      BY <1>1, <1>3, <1>4, <2>2, <3>1 DEF FileInv
    <3>3. a <= Written(rec[p])
      BY <1>2, <1>3 DEF Core, Numbers, Written
    <3>4. a \in 0..m
      BY <1>2, <3>1, <3>2, <3>3, Constants DEF Written
    <3> HIDE DEF a, t
    <3>5. Truncated(Prefix(m), a) = Prefix(a) /\ a \in 0..Chunks
      BY <3>4, TruncatedPrefix
    <3>6. file' = [file EXCEPT ![t] = Prefix(a)]
      BY <1>1, <1>3, <1>4, <3>1, <3>5
    <3> QED
      BY <1>3, <1>4, <3>5, <3>6, PrefixIsFile
  <2> QED
    BY <2>1, <2>2
<1>6. s.park = "note" /\ s.work = rec[p].work /\ s.made = rec[p].made
  BY <1>2 DEF Receives
<1>7. rec' = [rec EXCEPT ![p] = s]
  BY <1>1, <1>2
<1> HIDE DEF s
<1>8. FileInv'
  BY <1>1, <1>3, <1>4, <1>5, <1>6, <1>7, FilesLed
<1>9. Told
  BY <1>1 DEF Told, Firm
<1>10. \A q \in Pubs : Makes(rec[q], rec'[q])
  BY <1>2, <1>6, <1>7 DEF Makes
<1> QED
  BY <1>8, <1>9, <1>10

\* A begin that opens a file starts with what is left of it.
LEMMA StartsFiles ==
  ASSUME ArtifactAssumption, Core, NEW p \in Pubs, begin[p].at # "no", pub' = pub,
         NEW t \in Tokens, NEW n \in 0..Chunks, NEW next \in Nat, Starts(p, t, n, next),
         NEW a, file' = [file EXCEPT ![t] = a], file \in [Tokens -> Files], a = Prefix(n) \/ a = Gone
  PROVE  FileInv' /\ (\A i \in 1..Len(toS') : toS'[i].kind \in {"ok", "committed"} => Firm)
         /\ \A q \in Pubs : Makes(rec[q], rec'[q])
<1>1. PICK r \in Receives, f \in Frames : Started(p, t, n, r, f)
  BY StartsFresh
<1>2. a \in Files /\ Gone \in Files
  BY PrefixIsFile DEF Files
<1>3. file' \in [Tokens -> Files] /\ file'[t] = a
  BY <1>2
<1>4. r.tok = t /\ r.got = n /\ r.work = "seed" /\ rec' = [rec EXCEPT ![p] = r]
  BY <1>1 DEF Started, Fresh
<1>5. Written(r) = n /\ n \in Nat
  BY <1>4, Constants DEF Written
<1>6. file'[r.tok] # Gone => Len(file'[r.tok]) >= Written(r)
  <2>1. Len(Prefix(n)) = n
    BY PrefixIsFile
  <2> QED
    BY <1>3, <1>4, <1>5, <2>1
<1>7. FileInv'
  BY <1>3, <1>4, <1>6, FilesLed
<1>8. \A i \in 1..Len(toS') : toS'[i].kind \in {"ok", "committed"} => Firm
  BY <1>1, SaidMoves DEF Started, Core
<1>9. \A q \in Pubs : Makes(rec[q], rec'[q])
  BY <1>4 DEF Makes, Core, Types
<1> QED
  BY <1>7, <1>8, <1>9

LEMMA BeginPreparesFiles ==
  ASSUME ArtifactAssumption, Core, Core', FileInv, NEW p \in Pubs, BeginPrepares(p)
  PROVE  FileInv' /\ Told /\ (\A q \in Pubs : Makes(rec[q], rec'[q]))
<1> DEFINE t == begin[p].tok
           receipt == ReceiptOf(p)
           parked == ParkedFor(p)
<1>1. begin[p].at # "no" /\ pub' = pub
  BY DEF BeginPrepares, sendVars
<1>2. /\ Types /\ journal \in [Tokens -> Receipts] /\ file \in [Tokens -> Files] /\ p \in Tokens
  BY Constants DEF Core, Types, FileInv
<1>3. receipt \in Receipts /\ NoReceipt.state = "none" /\ (t = None \/ t \in Tokens) /\ (receipt.state # "none" => t \in Tokens /\ receipt = journal[t])
  BY <1>2, Constants DEF ReceiptOf, Types, NoReceipt
<1>4. CASE /\ Answers(Frame(IF final # Gone THEN "committed" ELSE "error", p, 0, None))
           /\ UNCHANGED <<rec, diskVars>> /\ receipt.state = "committed"
  <2> DEFINE f == Frame(IF final # Gone THEN "committed" ELSE "error", p, 0, None)
  <2>1. f \in Frames
    BY FrameType, Constants
  <2>2. toS' \in Seq(Frames) /\ Moves(toS, toS', 0, {f})
    BY <1>2, <1>4, <2>1, ToSMoves
  <2>3. Firm
    BY <1>3, <1>4 DEF Firm
  <2> HIDE DEF f
  <2>4. \A i \in 1..Len(toS') : toS'[i].kind \in {"ok", "committed"} => Firm
    BY <2>3
  <2>5. Settled
    BY <1>1, <1>2, <1>4, <2>4, AsideSettled DEF diskVars
  <2> QED
    BY <1>4, <2>5, FilesKept DEF Settled, Remains, diskVars
<1>5. CASE /\ Answers(Frame("error", p, 0, None)) /\ Prune /\ UNCHANGED rec
  <2>1. rec \in [Pubs -> Receives] /\ rec[p].got \in Nat
    BY <1>2 DEF Types, Receives
  <2>2. rec' = [rec EXCEPT ![p] = rec[p]]
    BY <1>5, <2>1
  <2>3. Remains(rec[p], rec[p])
    BY <2>1 DEF Remains, Makes, Written
  <2>4. Settled
    BY <1>1, <1>2, <1>5, <2>2, <2>3, PruneFiles, ErrorSaid, RecSettled
  <2> QED
    BY <1>5, <2>4, FilesKept DEF Settled, Remains, Prune
<1>6. CASE /\ parked /\ Len(file[t]) >= receipt.acked /\ Starts(p, t, receipt.acked, receipt.chunks)
           /\ file' = [file EXCEPT ![t] = Truncated(@, receipt.acked)]
           /\ UNCHANGED <<journal, old>>
  <2> DEFINE n == receipt.acked
             m == receipt.chunks
  <2>1. t \in Tokens /\ n \in 0..Chunks /\ m \in Nat /\ file[t] # Gone
    BY <1>3, <1>6 DEF Receipts, ParkedFor
  <2>2. PICK k \in 0..Chunks : file[t] = Prefix(k) /\ Len(file[t]) = k
    BY <2>1, FileOf
  <2> HIDE DEF t, receipt, parked
  <2>3. Starts(p, t, n, m) /\ file' = [file EXCEPT ![t] = Truncated(file[t], n)] /\ k >= n
    BY <1>6, <2>2
  <2> HIDE DEF n, m
  <2>4. n \in 0..k
    BY <2>1, <2>2, <2>3, Constants
  <2>5. Truncated(file[t], n) = Prefix(n)
    BY <2>2, <2>4, TruncatedPrefix
  <2>6. FileInv' /\ (\A i \in 1..Len(toS') : toS'[i].kind \in {"ok", "committed"} => Firm)
        /\ \A q \in Pubs : Makes(rec[q], rec'[q])
    BY <1>1, <1>2, <2>1, <2>3, <2>5, StartsFiles
  <2>7. Told
    BY <1>1, <1>6, <2>6 DEF Told, Firm
  <2> QED
    BY <1>6, <2>6, <2>7
<1>7. CASE /\ Starts(p, p, 0, 0)
           /\ file' = [file EXCEPT ![p] = <<>>]
           /\ journal' = [u \in Tokens |->
                IF u = p THEN [state |-> "partial", acked |-> 0, chunks |-> 0]
                ELSE IF u = t THEN NoReceipt ELSE journal[u]]
           /\ UNCHANGED final
  <2>1. 0 \in 0..Chunks /\ 0 \in Nat
    BY Constants
  <2>2. <<>> = Prefix(0)
    BY DEF Prefix
  <2>3. FileInv' /\ (\A i \in 1..Len(toS') : toS'[i].kind \in {"ok", "committed"} => Firm)
        /\ \A q \in Pubs : Makes(rec[q], rec'[q])
    BY <1>1, <1>2, <1>7, <2>1, <2>2, StartsFiles
  <2>4. \A u \in Tokens : journal'[u].state = "committed" => journal[u].state = "committed"
    BY <1>3, <1>7
  <2>5. Told
    BY <1>1, <2>3, <2>4 DEF Told, Firm
  <2> QED
    BY <1>7, <2>3, <2>5
<1> QED
  BY <1>4, <1>5, <1>6, <1>7 DEF BeginPrepares, ReceiptOf, ParkedFor

-----------------------------------------------------------------------------
(* The commit.                                                               *)

\* One receive at a time commits or has linked its file.
LEMMA CommitsAlone ==
  ASSUME ArtifactAssumption, Core, NEW p \in Pubs, NEW q \in Pubs,
         rec[p].work \in {"commit", "unlink", "linked"}, rec[q].work \in Put
  PROVE  p = q
<1>1. /\ Leads(p) /\ rec[p].table /\ Leads(q) /\ rec[q].table
  BY WritersLead DEF Put
<1> QED
  BY <1>1, LeadsAlone

\* A receive that is about to commit has the whole file.
LEMMA CommitsWhole ==
  ASSUME ArtifactAssumption, Core, FileInv, NEW p \in Pubs, rec[p].work = "commit", file[rec[p].tok] # Gone
  PROVE  file[rec[p].tok] = Whole
<1>1. rec[p] \in Receives /\ rec[p].got \in Nat /\ rec[p] # NoRec /\ rec[p].table
  BY AtWork
<1>2. Leads(p) /\ rec[p].tok \in Tokens
  BY WritersLead
<1>3. PICK m \in 0..Chunks : file[rec[p].tok] = Prefix(m) /\ Len(file[rec[p].tok]) = m
  BY <1>2, FileOf
<1>4. rec[p].got = Chunks /\ rec[p].park # "note"
  BY <1>1 DEF Core, Numbers, Phase
<1>5. m >= Chunks
  BY <1>1, <1>2, <1>3, <1>4 DEF FileInv, Written
<1>6. m = Chunks
  BY <1>3, <1>5, Constants
<1> QED
  BY <1>3, <1>6 DEF Prefix, Whole

\* The file is under its final name: it was there, or the commit has linked it.
LEMMA PutFiles ==
  ASSUME ArtifactAssumption, Core, FileInv, FirmInv, NEW p \in Pubs, rec[p].work \in {"commit", "unlink"},
         NEW w \in Put, NEW m \in BOOLEAN, NEW s, rec' = [rec EXCEPT ![p] = s],
         s.work = w, s.made = m, s.tok = rec[p].tok, s.table => Written(s) = Written(rec[p]) /\ s.park = rec[p].park,
         UNCHANGED <<pub, toS, journal>>, file' \in [Tokens -> Files],
         file'[rec[p].tok] \in {Gone, file[rec[p].tok]}, final' = Whole, Firm => ~m
  PROVE  FileInv' /\ FirmInv'
<1>1. rec[p] \in Receives /\ rec \in [Pubs -> Receives] /\ rec[p].table /\ Leads(p) /\ rec[p].tok \in Tokens
  BY AtWork, WritersLead
<1>2. FileInv'
  BY <1>1, FilesLed DEF FileInv
<1>3. rec'[p] = s /\ \A q \in Pubs \ {p} : rec'[q] = rec[q]
  BY <1>1
<1>4. Firm' => Firm
  BY <1>1, <1>3 DEF Firm, Put
<1>5. \A q \in Pubs : rec'[q].work \in Put => q = p
  BY <1>3, CommitsAlone
<1>6. FirmInv'
  BY <1>3, <1>4, <1>5 DEF FirmInv
<1> QED
  BY <1>2, <1>6

LEMMA CommitFiles ==
  ASSUME ArtifactAssumption, Core, Core', FileInv, FirmInv, NEW p \in Pubs, Commit(p)
  PROVE  FileInv' /\ FirmInv' /\ final' \in {final, Whole}
<1>1. /\ rec[p].work = "commit" /\ pub' = pub
      /\ rec[p] \in Receives /\ rec \in [Pubs -> Receives] /\ rec[p].got \in Nat /\ rec[p] # NoRec /\ rec[p].table
  BY AtWork DEF Commit, Work, sendVars
<1>2. rec[p].tok \in Tokens /\ file \in [Tokens -> Files] /\ Gone \in Files
  BY <1>1, WritersLead DEF FileInv, Files
<1>3. CASE Fails(p, rec[p]) /\ final' = final
  <2>1. Settled
    BY <1>1, <1>3, FailsSettled
  <2> QED
    BY <1>3, <2>1, FilesKept, FirmKept DEF Settled, Remains
<1>4. CASE /\ final # Gone /\ final' = final
           /\ file' = [file EXCEPT ![rec[p].tok] = Gone]
           /\ rec' = [rec EXCEPT ![p].work = "linked", ![p].made = FALSE]
           /\ UNCHANGED <<toS, journal, old>>
  <2> DEFINE s == [rec[p] EXCEPT !.work = "linked", !.made = FALSE]
  <2>1. s.tok = rec[p].tok /\ s.work = "linked" /\ s.made = FALSE /\ s.got = rec[p].got /\ s.park = rec[p].park
    BY <1>1 DEF Receives
  <2>2. rec' = [rec EXCEPT ![p] = s]
    BY <1>1, <1>4
  <2> HIDE DEF s
  <2>3. final' = Whole /\ file' \in [Tokens -> Files] /\ file'[rec[p].tok] = Gone
    BY <1>2, <1>4 DEF FirmInv
  <2> QED
    BY <1>1, <1>4, <2>1, <2>2, <2>3, PutFiles DEF Put, Written
<1>5. CASE /\ final = Gone /\ file[rec[p].tok] # Gone /\ final' = file[rec[p].tok]
           /\ rec' = [rec EXCEPT ![p].work = "unlink", ![p].made = TRUE]
           /\ UNCHANGED <<toS, file, journal, old>>
  <2> DEFINE s == [rec[p] EXCEPT !.work = "unlink", !.made = TRUE]
  <2>1. s.tok = rec[p].tok /\ s.work = "unlink" /\ s.made = TRUE /\ s.got = rec[p].got /\ s.park = rec[p].park
    BY <1>1 DEF Receives
  <2>2. rec' = [rec EXCEPT ![p] = s]
    BY <1>1, <1>5
  <2> HIDE DEF s
  <2>3. final' = Whole /\ ~Firm
    <3>1. Whole = Prefix(Chunks) /\ Chunks \in 0..Chunks
      BY Constants DEF Whole, Prefix
    <3>2. Whole # Gone
      BY <3>1, PrefixIsFile
    <3> QED
      BY <1>1, <1>5, <3>2, CommitsWhole DEF FirmInv
  <2> QED
    BY <1>1, <1>2, <1>5, <2>1, <2>2, <2>3, PutFiles DEF Put, Written
<1> QED
  BY <1>3, <1>4, <1>5 DEF Commit, Refuses

LEMMA UnlinkFiles ==
  ASSUME ArtifactAssumption, Core, Core', FileInv, FirmInv, NEW p \in Pubs, Unlink(p)
  PROVE  FileInv' /\ FirmInv' /\ final' = final
<1>1. /\ rec[p].work = "unlink" /\ pub' = pub /\ UNCHANGED <<toS, journal, final>>
      /\ rec[p] \in Receives /\ rec \in [Pubs -> Receives] /\ rec[p].got \in Nat /\ rec[p] # NoRec /\ rec[p].table
  BY AtWork DEF Unlink, Work, sendVars
<1>2. rec[p].tok \in Tokens /\ file \in [Tokens -> Files] /\ Gone \in Files
  BY <1>1, WritersLead DEF FileInv, Files
<1> DEFINE s == [rec[p] EXCEPT !.work = "linked"]
<1>3. s.tok = rec[p].tok /\ s.work = "linked" /\ s.made = rec[p].made /\ s.got = rec[p].got /\ s.park = rec[p].park
  BY <1>1 DEF Receives
<1>4. rec' = [rec EXCEPT ![p] = s]
  BY <1>1 DEF Unlink
<1> HIDE DEF s
<1>5. final' = Whole /\ (Firm => ~rec[p].made) /\ rec[p].made \in BOOLEAN
  BY <1>1 DEF FirmInv, Put, Receives
<1>6. file' \in [Tokens -> Files] /\ file'[rec[p].tok] = Gone
  BY <1>2 DEF Unlink
<1> QED
  BY <1>1, <1>3, <1>4, <1>5, <1>6, PutFiles DEF Put, Written

LEMMA LinkedFiles ==
  ASSUME ArtifactAssumption, Core, Core', FileInv, FirmInv, NEW p \in Pubs, Linked(p)
  PROVE  /\ FileInv' /\ FirmInv'
         /\ final' = final \/ (final = Whole /\ final' = Gone /\ ~Firm)
<1>1. /\ rec[p].work = "linked" /\ pub' = pub
      /\ rec[p] \in Receives /\ rec \in [Pubs -> Receives] /\ rec[p].got \in Nat /\ rec[p] # NoRec /\ rec[p].table
  BY AtWork DEF Linked, Work, sendVars
<1>2. Leads(p) /\ rec[p].tok \in Tokens
  BY <1>1, WritersLead
<1>3. CASE /\ rec[p].phase = "aborting"
           /\ final' = IF rec[p].made THEN Gone ELSE final
           /\ Fails(p, rec[p])
  <2>1. Settled
    BY <1>1, <1>3, FailsSettled
  <2>2. FileInv'
    BY <2>1, FilesKept
  <2>3. CASE final' = final
    BY <2>1, <2>2, <2>3, FirmKept DEF Settled, Remains
  <2>4. CASE rec[p].made
    <3>1. ~Firm /\ final = Whole /\ final' = Gone
      BY <1>1, <1>3, <2>4 DEF FirmInv, Put
    <3>2. rec'[p].work \notin Put
      <4>1. NoRec.work = "off"
        BY DEF NoRec
      <4>2. rec' = [rec EXCEPT ![p] = NoRec] \/ rec' = [rec EXCEPT ![p] = [rec[p] EXCEPT !.work = "done"]]
        BY <1>3 DEF Fails
      <4>3. [rec[p] EXCEPT !.work = "done"].work = "done"
        BY <1>1 DEF Receives
      <4> QED
        BY <1>1, <4>1, <4>2, <4>3 DEF Put
    <3>3. \A q \in Pubs : Makes(rec[q], rec'[q])
      BY <2>1 DEF Settled, Remains
    <3>4. \A q \in Pubs : rec'[q].work \notin Put
      <4>1. \A q \in Pubs : rec'[q].work \in Put => rec[q].work \in Put
        BY <3>3 DEF Makes, Put
      <4> QED
        BY <1>1, <3>2, <4>1, CommitsAlone
    <3>5. \A q \in Pubs : rec'[q].work = "mark" => rec[q].work = "mark"
      BY <3>3 DEF Makes
    <3>6. ~Firm'
      BY <2>1, <3>1, <3>5 DEF Settled, Told, Firm
    <3>7. FirmInv'
      BY <3>1, <3>4, <3>6 DEF FirmInv
    <3> QED
      BY <2>2, <3>1, <3>7
  <2> QED
    BY <1>3, <2>3, <2>4
<1>4. CASE /\ rec' = [rec EXCEPT ![p].phase = "completed", ![p].table = FALSE, ![p].work = "mark"]
           /\ UNCHANGED <<toS, diskVars>>
  <2> DEFINE s == [rec[p] EXCEPT !.phase = "completed", !.table = FALSE, !.work = "mark"]
  <2>1. s.table = FALSE /\ s.work = "mark"
    BY <1>1 DEF Receives
  <2>2. rec' = [rec EXCEPT ![p] = s]
    BY <1>1, <1>4
  <2> HIDE DEF s
  <2>3. file' = file /\ file \in [Tokens -> Files] /\ final' = final /\ final = Whole
    BY <1>1, <1>4 DEF FileInv, diskVars, FirmInv, Put
  <2>4. FileInv'
    BY <1>1, <1>2, <2>1, <2>2, <2>3, FilesLed
  <2>5. \A q \in Pubs : rec'[q].work \notin Put
    <3>1. rec'[p].work = "mark" /\ \A q \in Pubs \ {p} : rec'[q] = rec[q]
      BY <1>1, <2>1, <2>2
    <3> QED
      BY <1>1, <3>1, CommitsAlone DEF Put
  <2>6. FirmInv'
    BY <2>3, <2>5 DEF FirmInv
  <2> QED
    BY <2>3, <2>4, <2>6
<1> QED
  BY <1>3, <1>4 DEF Linked

-----------------------------------------------------------------------------
(* The file under its final name.                                            *)

\* It appears with a commit; it goes again only when nobody was told of it.
Moved ==
  \/ final' = final
  \/ pub' = pub /\ final = Gone /\ final' = Whole
  \/ pub' = pub /\ final = Whole /\ final' = Gone /\ ~Firm

Inv == Core /\ FileInv /\ FirmInv /\ TwinInv

\* Whoever else may use its file finds that no other name has its bytes.
LEMMA NoTwin ==
  ASSUME ArtifactAssumption, Core, TwinInv, NEW p \in Pubs,
         begin[p].at # "no" \/ (rec[p].table /\ Leads(p) /\ rec[p].work # "unlink")
  PROVE  twin = None
<1> SUFFICES ASSUME twin # None PROVE FALSE
  OBVIOUS
<1>1. PICK q \in Pubs : rec[q].work = "unlink"
  BY DEF TwinInv
<1>2. Leads(q) /\ rec[q].table
  BY <1>1, WritersLead
<1>3. p # q
  BY <1>1 DEF Core, Course, Arriving, NoRec
<1> QED
  BY <1>2, <1>3, LeadsAlone

\* So what it does to its file leaves the final one alone.
LEMMA FinalStays ==
  ASSUME ArtifactAssumption, Core, TwinInv, NEW p \in Pubs,
         BeginPrepares(p) \/ ParkTruncates(p) \/ Write(p)
  PROVE  final' = final /\ twin' \in {twin, None}
<1>1. ASSUME NEW t \in Tokens, twin = None, Alters(t) PROVE final' = final /\ twin' = twin
  BY <1>1, Constants DEF Alters
<1>2. CASE BeginPrepares(p)
  <2>1. twin = None
    BY <1>2, NoTwin DEF BeginPrepares
  <2>2. begin[p].tok \in Tokens \cup {None}
    BY DEF Core, Types
  <2> QED
    BY <1>1, <1>2, <2>1, <2>2 DEF BeginPrepares, Prune, Removes, diskVars, NoReceipt
<1>3. CASE ParkTruncates(p)
  <2>1. rec[p].table /\ rec[p].phase = "parked" /\ rec[p].tok \in Tokens /\ rec[p].work # "unlink"
    BY <1>3 DEF ParkTruncates, Core, Phase, NoRec
  <2>2. twin = None
    BY <2>1, NoTwin DEF Leads
  <2> QED
    BY <1>1, <1>3, <2>1, <2>2 DEF ParkTruncates
<1>4. CASE Write(p)
  <2>1. rec[p].work = "write"
    BY <1>4 DEF Write, Work
  <2>2. twin = None /\ rec[p].tok \in Tokens
    BY <2>1, WritersLead, NoTwin
  <2> QED
    BY <1>1, <1>4, <2>2 DEF Write, Fails, Discard, Removes
<1> QED
  BY <1>2, <1>3, <1>4

\* A commit that is half done goes on.
LEMMA TwinKept ==
  ASSUME TwinInv, twin' \in {twin, None},
         \A q \in Pubs : rec[q].work = "unlink" => rec'[q].work = "unlink" /\ rec'[q].tok = rec[q].tok
  PROVE  TwinInv'
BY DEF TwinInv

LEMMA TwinOthers ==
  ASSUME ArtifactAssumption, Core, TwinInv, NEW p \in Pubs, NEW s, rec' = [rec EXCEPT ![p] = s],
         rec[p].work # "unlink", twin' \in {twin, None}
  PROVE  TwinInv'
<1>1. \A q \in Pubs \ {p} : rec'[q] = rec[q]
  BY DEF Core, Types
<1> QED
  BY <1>1, TwinKept

LEMMA WorkerTwin ==
  ASSUME ArtifactAssumption, Core, TwinInv, NEW p \in Pubs, Worker(p) PROVE TwinInv'
<1>1. rec \in [Pubs -> Receives]
  BY DEF Core, Types
<1>2. ASSUME NEW r, Fails(p, r) PROVE twin' \in {twin, None} /\ \E s : rec' = [rec EXCEPT ![p] = s]
  BY <1>2 DEF Fails, Discard, Removes
<1>3. CASE Seed(p)
  <2>1. rec[p].work # "unlink"
    BY <1>3 DEF Seed, Work
  <2>2. twin' \in {twin, None} /\ \E s : rec' = [rec EXCEPT ![p] = s]
    BY <1>1, <1>2, <1>3 DEF Seed
  <2> QED
    BY <2>1, <2>2, TwinOthers
<1>4. CASE Get(p)
  <2>1. rec[p].work # "unlink"
    BY <1>4 DEF Get, Work
  <2>2. twin' \in {twin, None} /\ \E s : rec' = [rec EXCEPT ![p] = s]
    BY <1>1, <1>2, <1>4 DEF Get
  <2> QED
    BY <2>1, <2>2, TwinOthers
<1>5. CASE Write(p)
  <2>1. rec[p].work # "unlink"
    BY <1>5 DEF Write, Work
  <2>2. \E s : rec' = [rec EXCEPT ![p] = s]
    <3>1. CASE Fails(p, rec[p])
      BY <1>2, <3>1
    <3>2. CASE rec' = [rec EXCEPT ![p].work = "ack"]
      BY <1>1, <3>2
    <3> QED
      BY <1>5, <3>1, <3>2 DEF Write
  <2> QED
    BY <1>5, <2>1, <2>2, FinalStays, TwinOthers
<1>6. CASE Ack(p)
  <2>1. rec[p].work # "unlink"
    BY <1>6 DEF Ack, Work
  <2>2. twin' \in {twin, None} /\ \E s : rec' = [rec EXCEPT ![p] = s]
    BY <1>1, <1>2, <1>6 DEF Ack
  <2> QED
    BY <2>1, <2>2, TwinOthers
<1>7. CASE Sync(p)
  <2>1. rec[p].work # "unlink"
    BY <1>7 DEF Sync, Work
  <2>2. twin' \in {twin, None} /\ \E s : rec' = [rec EXCEPT ![p] = s]
    BY <1>1, <1>2, <1>7 DEF Sync
  <2> QED
    BY <2>1, <2>2, TwinOthers
<1>8. CASE Commit(p)
  <2>1. rec[p].work = "commit"
    BY <1>8 DEF Commit, Work
  <2>2. CASE twin' \in {twin, None} /\ \E s : rec' = [rec EXCEPT ![p] = s]
    BY <2>1, <2>2, TwinOthers
  <2>3. CASE twin' = rec[p].tok /\ rec' = [rec EXCEPT ![p].work = "unlink", ![p].made = TRUE]
    <3>1. rec'[p].work = "unlink" /\ rec'[p].tok = rec[p].tok /\ rec[p].tok \in Tokens
      BY <1>1, <2>1, <2>3, WritersLead DEF Receives
    <3> QED
      BY <2>3, <3>1 DEF TwinInv
  <2> QED
    BY <1>1, <1>2, <1>8, <2>2, <2>3 DEF Commit
<1>9. CASE Unlink(p)
  BY <1>9 DEF Unlink, TwinInv
<1>10. CASE Linked(p)
  <2>1. rec[p].work # "unlink"
    BY <1>10 DEF Linked, Work
  <2>2. twin' \in {twin, None} /\ \E s : rec' = [rec EXCEPT ![p] = s]
    BY <1>1, <1>2, <1>10 DEF Linked, diskVars
  <2> QED
    BY <2>1, <2>2, TwinOthers
<1>11. CASE Mark(p)
  <2>1. rec[p].work # "unlink"
    BY <1>11 DEF Mark, Work
  <2>2. twin' \in {twin, None} /\ rec' = [rec EXCEPT ![p] = NoRec]
    BY <1>11 DEF Mark, Removes
  <2> QED
    BY <2>1, <2>2, TwinOthers
<1> QED
  BY <1>3, <1>4, <1>5, <1>6, <1>7, <1>8, <1>9, <1>10, <1>11 DEF Worker

LEMMA TwinStep ==
  ASSUME ArtifactAssumption, Serialised, Core, TwinInv, [Next]_vars PROVE TwinInv'
<1>1. rec \in [Pubs -> Receives]
  BY DEF Core, Types
<1>2. CASE UNCHANGED <<rec, twin>>
  BY <1>2, TwinKept
<1>3. CASE Sender \/ LinkFails \/ Break \/ Begin \/ UNCHANGED vars \/ \E t \in Tokens : Ages(t)
  <2>1. UNCHANGED <<rec, twin>>
    <3>1. CASE Sender
      BY <3>1 DEF Sender, Reply, Publish, TimesOut, WriteFails, ClientCloses, Again, StopsRetrying, diskVars
    <3>2. CASE LinkFails \/ Break \/ Begin
      BY <3>2 DEF LinkFails, SenderNotices, ReceiverNotices, ReceiverDown, Reconnect, Break, Begin, diskVars
    <3>3. CASE UNCHANGED vars \/ \E t \in Tokens : Ages(t)
      BY <3>3 DEF vars, diskVars, Ages
    <3> QED
      BY <1>3, <3>1, <3>2, <3>3
  <2> QED
    BY <1>2, <2>1
<1>4. CASE Chunk \/ End \/ Cancel \/ Close
  <2> DEFINE p == Head(toR).pub
  <2>1. p \in Pubs /\ twin' = twin
    BY <1>4, HeadR DEF Chunk, End, Cancel, Close, Receive, Core, Types, diskVars
  <2>3. rec[p] \in Receives
    BY <1>1, <2>1
  <2>4. AbortMarked(rec[p]).work = rec[p].work /\ AbortMarked(rec[p]).tok = rec[p].tok
    BY <2>3 DEF AbortMarked, Receives
  <2>2. /\ \A q \in Pubs \ {p} : rec'[q] = rec[q]
        /\ rec'[p].work = rec[p].work /\ rec'[p].tok = rec[p].tok
    <3>1. CASE Chunk
      <4> DEFINE r == rec[p]
                 f == Head(toR)
                 s == IF ~r.table THEN r
                      ELSE IF r.phase = "receiving" /\ f.n = r.next
                      THEN [r EXCEPT !.queue = Append(@, f.n), !.next = @ + 1] ELSE AbortMarked(r)
      <4>1. rec' = [rec EXCEPT ![p] = s]
        BY <3>1 DEF Chunk
      <4>2. s.work = rec[p].work /\ s.tok = rec[p].tok
        <5> HIDE DEF f
        <5> QED
          BY <2>3, <2>4 DEF Receives
      <4> HIDE DEF s
      <4> QED
        BY <1>1, <2>1, <4>1, <4>2
    <3>2. CASE End
      <4> DEFINE r == rec[p]
                 f == Head(toR)
                 s == IF ~r.table THEN r
                      ELSE IF r.phase = "receiving" /\ f.n = r.next
                      THEN [r EXCEPT !.queue = Append(@, EndMark), !.phase = "ending"] ELSE AbortMarked(r)
      <4>1. rec' = [rec EXCEPT ![p] = s]
        BY <3>2 DEF End
      <4>2. s.work = rec[p].work /\ s.tok = rec[p].tok
        <5> HIDE DEF f
        <5> QED
          BY <2>3, <2>4 DEF Receives
      <4> HIDE DEF s
      <4> QED
        BY <1>1, <2>1, <4>1, <4>2
    <3>3. CASE Cancel
      <4>1. \E s : rec' = [rec EXCEPT ![p] = s] /\ s.work = rec[p].work /\ s.tok = rec[p].tok
        BY <2>3, <2>4, <3>3 DEF Cancel
      <4> QED
        BY <1>1, <2>1, <4>1
    <3>4. CASE Close
      BY <1>1, <2>1, <2>3, <3>4 DEF Close, Receives
    <3> QED
      BY <1>4, <3>1, <3>2, <3>3, <3>4
  <2> HIDE DEF p
  <2> QED
    BY <2>1, <2>2, TwinKept
<1>5. CASE Restart
  <2>1. twin = None /\ \A q \in Pubs : rec[q].work # "unlink"
    BY <1>5 DEF Restart, Serialised, TwinInv
  <2> QED
    BY <1>5, <2>1, TwinKept DEF Restart, Removes
<1>6. ASSUME NEW p \in Pubs, Worker(p) PROVE TwinInv'
  BY <1>6, WorkerTwin
<1>7. ASSUME NEW p \in Pubs, Abort(p) PROVE TwinInv'
  BY <1>7, TwinOthers DEF Abort, Discard, Removes
<1>8. ASSUME NEW p \in Pubs, BeginPrunes(p) PROVE TwinInv'
  BY <1>8, TwinKept DEF BeginPrunes, Prune, Removes
<1>9. ASSUME NEW p \in Pubs, BeginPrepares(p) PROVE TwinInv'
  <2>1. rec[p].work # "unlink"
    BY <1>9 DEF BeginPrepares, Core, Course, Arriving, NoRec
  <2>2. UNCHANGED rec \/ \E s : rec' = [rec EXCEPT ![p] = s]
    BY <1>9 DEF BeginPrepares, Starts
  <2> QED
    BY <1>9, <2>1, <2>2, FinalStays, TwinKept, TwinOthers
<1>10. ASSUME NEW p \in Pubs, Parking(p) PROVE TwinInv'
  <2>1. CASE ParkTruncates(p)
    <3>1. rec[p].work # "unlink"
      BY <2>1 DEF ParkTruncates, Core, Phase
    <3>2. \E s : rec' = [rec EXCEPT ![p] = s]
      BY <1>1, <2>1 DEF ParkTruncates
    <3> QED
      BY <2>1, <3>1, <3>2, FinalStays, TwinOthers
  <2>2. CASE ParkRecords(p)
    <3>1. rec[p].work # "unlink"
      BY <2>2 DEF ParkRecords, Core, Phase
    <3> QED
      BY <2>2, <3>1, TwinOthers DEF ParkRecords
  <2>3. CASE ParkStarts(p)
    <3>1. /\ \A q \in Pubs \ {p} : rec'[q] = rec[q]
          /\ rec'[p].work = rec[p].work /\ rec'[p].tok = rec[p].tok
      BY <1>1, <2>3 DEF ParkStarts, Receives
    <3> QED
      BY <2>3, <3>1, TwinKept DEF ParkStarts, diskVars
  <2> QED
    BY <1>10, <2>1, <2>2, <2>3 DEF Parking
<1> QED
  BY <1>3, <1>4, <1>5, <1>6, <1>7, <1>8, <1>9, <1>10 DEF Next, ReceivesFrame, Beginning

LEMMA SettledKeeps ==
  ASSUME ArtifactAssumption, Inv, Core', Settled, final' = final PROVE FileInv' /\ FirmInv' /\ Moved
<1>1. FileInv'
  BY FilesKept DEF Inv
<1>2. FirmInv'
  BY FirmKept DEF Inv, Settled, Remains
<1> QED
  BY <1>1, <1>2 DEF Moved

LEMMA WorkerFiles ==
  ASSUME ArtifactAssumption, Inv, Core', NEW p \in Pubs, Worker(p) PROVE FileInv' /\ FirmInv' /\ Moved
<1>1. Core /\ FileInv /\ FirmInv
  BY DEF Inv
<1>2. CASE Seed(p) \/ Get(p) \/ Ack(p) \/ Sync(p) \/ Mark(p)
  <2>1. final' = final
    BY <1>2 DEF Seed, Get, Ack, Sync, Mark
  <2>2. Settled
    BY <1>1, <1>2, SeedSettled, GetSettled, AckSettled, SyncSettled, MarkSettled
  <2> QED
    BY <2>1, <2>2, SettledKeeps
<1>3. CASE Write(p)
  <2>1. final' = final
    BY <1>3, FinalStays DEF Inv
  <2>2. FileInv' /\ Told /\ \A q \in Pubs : Makes(rec[q], rec'[q])
    BY <1>1, <1>3, WriteFiles
  <2> QED
    BY <1>1, <2>1, <2>2, FirmKept DEF Moved
<1>4. CASE Commit(p)
  <2>1. FileInv' /\ FirmInv' /\ final' \in {final, Whole} /\ pub' = pub
    BY <1>1, <1>4, CommitFiles DEF Commit, sendVars
  <2> QED
    BY <1>1, <2>1 DEF Moved, FirmInv
<1>6. CASE Unlink(p)
  BY <1>1, <1>6, UnlinkFiles DEF Moved
<1>5. CASE Linked(p)
  <2>1. pub' = pub
    BY <1>5 DEF Linked, sendVars
  <2> QED
    BY <1>1, <1>5, <2>1, LinkedFiles DEF Moved
<1> QED
  BY <1>2, <1>3, <1>4, <1>5, <1>6 DEF Worker

LEMMA FilesStep ==
  ASSUME ArtifactAssumption, Serialised, Inv, Core', [Next]_vars PROVE FileInv' /\ FirmInv' /\ Moved
<1>1. Core /\ FileInv /\ FirmInv
  BY DEF Inv
<1>2. CASE Sender \/ ReceivesFrame \/ LinkFails \/ Break \/ Restart
  <2>1. final' = final
    <3>1. CASE Sender
      BY <3>1 DEF Sender, Reply, Publish, TimesOut, WriteFails, ClientCloses, Again, StopsRetrying, diskVars
    <3>2. CASE ReceivesFrame
      BY <3>2 DEF ReceivesFrame, Begin, Chunk, End, Cancel, Close, diskVars
    <3>3. CASE LinkFails \/ Break \/ Restart
      BY <3>3 DEF LinkFails, SenderNotices, ReceiverNotices, ReceiverDown, Reconnect, Break, Restart, diskVars
    <3> QED
      BY <1>2, <3>1, <3>2, <3>3
  <2>2. Settled
    BY <1>1, <1>2, SenderSettled, BeginSettled, FrameSettled, LinkSettled, RestartSettled DEF ReceivesFrame
  <2> QED
    BY <2>1, <2>2, SettledKeeps
<1>3. ASSUME NEW p \in Pubs, BeginPrunes(p) \/ Abort(p) \/ ParkStarts(p) \/ ParkRecords(p)
      PROVE  FileInv' /\ FirmInv' /\ Moved
  <2>1. final' = final
    BY <1>3 DEF BeginPrunes, Prune, Abort, ParkStarts, ParkRecords, diskVars
  <2>2. Settled
    BY <1>1, <1>3, BeginPrunesSettled, AbortSettled, ParkStartsSettled, ParkRecordsSettled
  <2> QED
    BY <2>1, <2>2, SettledKeeps
<1>4. ASSUME NEW p \in Pubs, BeginPrepares(p) \/ ParkTruncates(p)
      PROVE  FileInv' /\ FirmInv' /\ Moved
  <2>1. FileInv' /\ Told /\ (\A q \in Pubs : Makes(rec[q], rec'[q])) /\ final' = final
    BY <1>1, <1>4, BeginPreparesFiles, ParkTruncatesFiles, FinalStays DEF Inv
  <2> QED
    BY <1>1, <2>1, FirmKept DEF Moved
<1>5. ASSUME NEW t \in Tokens, Ages(t) PROVE FileInv' /\ FirmInv' /\ Moved
  <2>1. Settled /\ final' = final
    BY <1>1, <1>5, AgesSettled DEF Ages
  <2> QED
    BY <2>1, SettledKeeps
<1>6. CASE UNCHANGED vars
  <2>1. UNCHANGED <<pub, rec, file, journal, toS, final>>
    BY <1>6 DEF vars, sendVars, diskVars
  <2>2. Settled
    BY <1>1, <2>1, AsideSettled DEF Core, Firm
  <2> QED
    BY <2>1, <2>2, SettledKeeps
<1> QED
  BY <1>2, <1>3, <1>4, <1>5, <1>6, WorkerFiles DEF Next, Beginning, Parking

LEMMA InvStep ==
  ASSUME ArtifactAssumption, Serialised, Inv, [Next]_vars PROVE Inv' /\ Moved
<1>1. Core'
  BY CoreStep DEF Inv
<1> QED
  BY <1>1, FilesStep, TwinStep DEF Inv

LEMMA InvInit ==
  ASSUME ArtifactAssumption, Init PROVE Inv
<1>1. Core
  BY CoreInit
<1>2. /\ \A p \in Pubs : pub[p] = "new" /\ rec[p] = NoRec
      /\ toS = <<>> /\ Len(toS) = 0 /\ 1..0 = {}
      /\ \A t \in Tokens : journal[t] = NoReceipt
      /\ NoRec.table = FALSE /\ NoRec.work = "off" /\ NoReceipt.state = "none"
  BY DEF Init, NoRec, NoReceipt
<1>3. FileInv
  BY <1>2 DEF Init, FileInv, Files
<1>4. FirmInv
  BY <1>2 DEF Init, FirmInv, Firm, Put
<1> QED
  BY <1>1, <1>3, <1>4 DEF Inv, Init, TwinInv

LEMMA AlwaysInv == ArtifactAssumption /\ Serialised => (Spec => []Inv)
<1> SUFFICES ASSUME ArtifactAssumption, Serialised PROVE Spec => []Inv
  OBVIOUS
<1>1. Init => Inv
  BY InvInit
<1>2. Inv /\ [Next]_vars => Inv'
  BY InvStep
<1> QED
  BY <1>1, <1>2, PTL DEF Spec

\* What a publisher was told is final; it is told of success one at a time, and
\* only of a file that will stay.
LEMMA Tellings ==
  ASSUME ArtifactAssumption, Core, [Next]_vars
  PROVE  \/ \E p \in Pubs : pub[p] \in Running /\ pub' = [pub EXCEPT ![p] = "ok"] /\ Firm /\ final' = final
         \/ \A q \in Pubs : pub'[q] = pub[q] \/ (pub[q] \notin {"ok", "failed"} /\ pub'[q] # "ok")
<1>1. /\ Types /\ toS \in Seq(Frames)
      /\ pub \in [Pubs -> {"new", "retry", "ok", "failed"} \cup Running]
      /\ {"ok", "failed"} \cap Running = {}
  BY DEF Core, Types, Running
<1> DEFINE Others == \A q \in Pubs : pub'[q] = pub[q] \/ (pub[q] \notin {"ok", "failed"} /\ pub'[q] # "ok")
           Success == \E p \in Pubs : pub[p] \in Running /\ pub' = [pub EXCEPT ![p] = "ok"] /\ Firm /\ final' = final
<1>2. ASSUME NEW p \in Pubs, NEW v, pub[p] \notin {"ok", "failed"}, v # "ok", pub' = [pub EXCEPT ![p] = v]
      PROVE  Others
  BY <1>1, <1>2
<1>3. CASE Reply
  <2>1. toS # <<>>
    BY <1>3 DEF Reply
  <2>2. Head(toS) = toS[1] /\ 1 \in 1..Len(toS) /\ Head(toS).pub \in Pubs
    BY <1>1, <2>1, HeadS
  <2>3. Head(toS).kind \in {"ok", "committed"} => Firm
    BY <2>2 DEF Firm
  <2> DEFINE f == Head(toS)
             p == f.pub
  <2>4. CASE f.kind = "ready" /\ pub[p] = "begin" /\ SendChunk(p, f.n)
    BY <1>1, <1>2, <2>2, <2>4 DEF SendChunk
  <2>5. CASE f.kind = "ack" /\ pub[p] = "sending" /\ SendChunk(p, f.n + 1)
    BY <1>1, <1>2, <2>2, <2>5 DEF SendChunk
  <2>6. CASE /\ <<f.kind, pub[p]>> \in {<<"committed", "begin">>, <<"ok", "ended">>}
             /\ pub' = [pub EXCEPT ![p] = "ok"] /\ final' = final
    BY <2>2, <2>3, <2>6 DEF Running
  <2>7. CASE pub[p] \in Running /\ GiveUp(p)
    BY <1>1, <1>2, <2>2, <2>7 DEF GiveUp
  <2>8. CASE UNCHANGED <<sendVars, toR>>
    BY <2>8 DEF sendVars
  <2> QED
    BY <1>3, <2>4, <2>5, <2>6, <2>7, <2>8 DEF Reply, diskVars
<1>4. ASSUME NEW p \in Pubs,
             Publish(p) \/ TimesOut(p) \/ WriteFails(p) \/ ClientCloses(p) \/ Again(p) \/ StopsRetrying(p)
      PROVE  Others
  BY <1>1, <1>4 DEF Publish, TimesOut, WriteFails, ClientCloses, Again, StopsRetrying, GiveUp, Interrupted
<1>5. CASE ReceivesFrame \/ LinkFails \/ Break \/ Restart
  BY <1>1, <1>5, SMTT(30) DEF ReceivesFrame, Begin, Chunk, End, Cancel,
     Close, LinkFails, SenderNotices, ReceiverNotices,
     ReceiverDown, Reconnect, Break, Restart, sendVars, Interrupted
<1>6. ASSUME NEW p \in Pubs, Beginning(p) \/ Abort(p) \/ Worker(p) \/ Parking(p) PROVE pub' = pub
  BY <1>6 DEF Beginning, BeginPrunes, BeginPrepares, Abort, Worker, Seed, Get, Write, Ack, Sync, Commit, Unlink, Linked, Mark,
     Parking, ParkStarts, ParkTruncates, ParkRecords, sendVars
<1>7. CASE UNCHANGED vars \/ \E t \in Tokens : Ages(t)
  BY <1>7 DEF vars, sendVars, Ages
<1> QED
  BY <1>3, <1>4, <1>5, <1>6, <1>7 DEF Next, Sender

-----------------------------------------------------------------------------
(* The delivery that is promised.                                            *)

LEMMA WholeStands == ArtifactAssumption => Whole # Gone /\ Whole = Prefix(Chunks)
<1> SUFFICES ASSUME ArtifactAssumption PROVE Whole # Gone /\ Whole = Prefix(Chunks)
  OBVIOUS
<1>1. Chunks \in 0..Chunks
  BY Constants
<1>2. Whole = Prefix(Chunks)
  BY DEF Whole, Prefix
<1> QED
  BY <1>1, <1>2, PrefixIsFile

\* What a publisher was told.
Heard(q) == IF pub[q] \in {"ok", "failed"} THEN pub[q] ELSE "none"

\* The delivery begins as the promised one does.
LEMMA InitDelivers == ASSUME ArtifactAssumption, Init PROVE Promise!Init
BY DEF Init, Promise!Init

\* Every step of the artifact is one of the promise, or nothing to it.
LEMMA StepDelivers ==
  ASSUME ArtifactAssumption, Serialised, Inv, [Next]_vars PROVE [Promise!Next]_Promise!vars
<1> DEFINE shown == IF final = Gone THEN "none" ELSE IF final = Whole THEN "whole" ELSE "torn"
           told == [p \in Pubs |-> Heard(p)]
<1>1. Inv' /\ Moved
  BY InvStep
<1>2. Whole # Gone
  BY WholeStands
<1>3. CASE \E p \in Pubs : pub[p] \in Running /\ pub' = [pub EXCEPT ![p] = "ok"] /\ Firm /\ final' = final
  <2>1. PICK p \in Pubs : pub[p] \in Running /\ pub' = [pub EXCEPT ![p] = "ok"] /\ Firm /\ final' = final
    BY <1>3
  <2>2. final = Whole
    BY <2>1 DEF Inv, FirmInv
  <2>3. pub'[p] = "ok" /\ \A q \in Pubs \ {p} : pub'[q] = pub[q]
    BY <2>1 DEF Inv, Core, Types
  <2>4. told[p] = "none"
    BY <2>1 DEF Heard, Running
  <2>5. told' = [told EXCEPT ![p] = "ok"]
    BY <2>3 DEF Heard
  <2>6. Promise!Tell(p)
    BY <1>2, <2>1, <2>2, <2>4, <2>5 DEF Promise!Tell, Heard
  <2> QED
    BY <2>6 DEF Promise!Next
<1>4. CASE \A q \in Pubs : pub'[q] = pub[q] \/ (pub[q] \notin {"ok", "failed"} /\ pub'[q] # "ok")
  <2>1. CASE final' = final
    <3>1. PICK P \in SUBSET Pubs : P = {q \in Pubs : pub[q] \notin {"ok", "failed"} /\ pub'[q] = "failed"}
      OBVIOUS
    <3>2. \A q \in P : told[q] = "none"
      BY <3>1 DEF Heard
    <3>3. told' = [q \in Pubs |-> IF q \in P THEN "failed" ELSE told[q]]
      BY <1>4, <3>1 DEF Heard
    <3>4. shown' = shown
      BY <2>1
    <3>5. Promise!Refuse(P)
      BY <3>2, <3>3, <3>4 DEF Promise!Refuse, Heard
    <3> QED
      BY <3>5 DEF Promise!Next
  <2>2. CASE pub' = pub /\ final = Gone /\ final' = Whole
    <3>1. told' = told
      BY <2>2 DEF Heard
    <3>2. Promise!Put
      BY <1>2, <2>2, <3>1 DEF Promise!Put, Heard
    <3> QED
      BY <3>2 DEF Promise!Next
  <2>3. CASE pub' = pub /\ final = Whole /\ final' = Gone /\ ~Firm
    <3>1. told' = told
      BY <2>3 DEF Heard
    <3>2. \A q \in Pubs : told[q] # "ok"
      BY <2>3 DEF Heard, Firm
    <3>3. Promise!Withdraw
      BY <1>2, <2>3, <3>1, <3>2 DEF Promise!Withdraw, Heard
    <3> QED
      BY <3>3 DEF Promise!Next
  <2> QED
    BY <1>1, <2>1, <2>2, <2>3 DEF Moved
<1> QED
  BY <1>3, <1>4, Tellings DEF Inv

\* The delivery is the promised one: with publishes of the artifact one after
\* the other, through retries, parks, aborts during the commit, timeouts and
\* restarts of the receiver, none of them between the link and the unlink of a
\* commit (Serialised), the file appears complete, is taken back only from
\* publishers who were not told of it, and success is told only while it is
\* there (_publish_local_artifact, _commit_artifact_v2_file).
THEOREM ArtifactDelivers == ArtifactAssumption /\ Serialised => (Spec => Delivers)
<1> SUFFICES ASSUME ArtifactAssumption, Serialised PROVE Spec => Delivers
  OBVIOUS
<1>1. Init => Promise!Init
  BY InitDelivers
<1>2. Inv /\ [Next]_vars => [Promise!Next]_Promise!vars
  BY StepDelivers
<1>3. Spec => []Inv
  BY AlwaysInv
<1> QED
  BY <1>1, <1>2, <1>3, PTL DEF Spec, Delivers, Promise!Spec

\* The file under its final name is complete, through everything but a kill
\* between the link and the unlink of a commit and publishes that overlap
\* (Serialised; _commit_artifact_v2_file).
THEOREM ArtifactCommitsWhole == ArtifactAssumption /\ Serialised => (Spec => []CommittedWhole)
<1> SUFFICES ASSUME ArtifactAssumption, Serialised PROVE Spec => []CommittedWhole
  OBVIOUS
<1>1. Inv => CommittedWhole
  BY DEF Inv, FirmInv, CommittedWhole
<1>2. Spec => []Inv
  BY AlwaysInv
<1> QED
  BY <1>1, <1>2, PTL

\* A partial file is a prefix of the publisher's bytes, so what a receipt calls
\* acknowledged and is there holds no hole and nothing of another attempt, as
\* far as Serialised goes (_park_artifact_v2, _prepare_artifact_receive_v2).
THEOREM ArtifactPrefixesTrue == ArtifactAssumption /\ Serialised => (Spec => []PrefixesTrue)
<1> SUFFICES ASSUME ArtifactAssumption, Serialised PROVE Spec => []PrefixesTrue
  OBVIOUS
<1>1. Inv => PrefixesTrue
  <2> SUFFICES ASSUME Inv, NEW t \in Tokens, file[t] # Gone, NEW i \in 1..journal[t].acked, i <= Len(file[t])
               PROVE  file[t][i] = i
    BY DEF PrefixesTrue
  <2>1. PICK n \in 0..Chunks : file[t] = Prefix(n) /\ Len(file[t]) = n
    BY FileOf DEF Inv
  <2>2. journal[t].acked \in Nat
    BY Constants DEF Inv, Core, Types, Receipts
  <2>3. i \in 1..n
    BY <2>1, <2>2
  <2> QED
    BY <2>1, <2>3 DEF Prefix
<1>2. Spec => []Inv
  BY AlwaysInv
<1> QED
  BY <1>1, <1>2, PTL

\* Tasks, receives and receipts of the delivery are in one of their states, as
\* far as Serialised goes (ArtifactReceiveStateV2).
THEOREM ArtifactTypes == ArtifactAssumption /\ Serialised => (Spec => []TypeOK)
<1> SUFFICES ASSUME ArtifactAssumption, Serialised PROVE Spec => []TypeOK
  OBVIOUS
<1>1. Inv => TypeOK
  BY DEF Inv, Core, Types, TypeOK, Receives, Receipts, Phases, Works, TwinInv
<1>2. Spec => []Inv
  BY AlwaysInv
<1> QED
  BY <1>1, <1>2, PTL
=============================================================================
