----------------------------- MODULE AgentsProofs -----------------------------
(* Theorems about the facade, and what follows in MCAgents from the theorems *)
(* about all its programs.                                                   *)
EXTENDS MCAgents, ProgramProofs

-----------------------------------------------------------------------------
(* The sessions of the facade: FacadeSession, with any habits.               *)

AnyFacade == INSTANCE FacadeSession WITH
  Sessions <- Opened, Posts <- Posted, IdOf <- Named, Habits <- {"exits", "spawnFails", "asks",
  "stalls", "late", "deletes", "leaves", "oversize", "idles", "shutdown"}, pc <- facadePc,
  pending <- facadePending, closed <- facadeClosed, proc <- facadeProc, stalled <- facadeStalled,
  inbound <- facadeInbound, queue <- facadeQueue

FacadeAssumption ==
  /\ On \in [Posted \cup Gets -> Opened] /\ Sse \subseteq Posted
  /\ Opened \cap (Posted \cup Gets) = {} /\ Posted \cap Gets = {}
  /\ (Opened \cup Posted) \cap {"refused", "lost", "deleted", "timeout", "close", "request", "exit"} = {}
  /\ MaxInflight \in Nat /\ MaxQueue \in Nat /\ None \notin Opened \cup Posted

FacadeMarks == {"lost", "close", "request"}

FacadeTypes ==
  /\ facadePc \in [AnyFacade!Askers \cup Gets -> {"idle", "spawns", "registers", "attaches", "sends", "writes",
                                               "waits", "streams", "done"}]
  /\ answer \in [AnyFacade!Askers ->
                   AnyFacade!Askers \cup {None, "refused", "lost", "deleted", "timeout", "close"}]
  /\ facadePending \subseteq AnyFacade!Askers
  /\ table \subseteq Opened /\ deleted \subseteq Opened /\ dead \subseteq Opened /\ ending \subseteq Opened
  /\ facadeClosed \subseteq Opened /\ facadeStalled \subseteq Opened
  /\ facadeProc \in [Opened -> {"none", "runs", "over"}]
  /\ wlock \in [Opened -> AnyFacade!Askers \cup {None}]
  /\ todo \in [Opened -> SUBSET AnyFacade!Askers]
  /\ facadeInbound \in [Opened -> Seq(AnyFacade!Askers \cup {"request", "exit"})]
  /\ chans \in [Opened -> SUBSET AnyFacade!Streamers]
  /\ facadeQueue \in [AnyFacade!Streamers -> Seq(AnyFacade!Askers \cup FacadeMarks)]
  /\ \A c \in AnyFacade!Streamers : Len(facadeQueue[c]) <= MaxQueue
  /\ disp \in [Opened -> {"idle", "offers", "refuses", "writes", "over"}]
  /\ serverRequest \in [Opened -> {"none", "asked", "offered", "refused", "lost"}]

\* An initialize, and a registration, whatever there is room for and whatever
\* the ids are.
FacadeCreates(s) ==
  /\ facadePc[s] = "idle"
  /\ \/ table' = table \cup {s} /\ facadePc' = [facadePc EXCEPT ![s] = "spawns"] /\ answer' = answer
     \/ table' = table /\ facadePc' = [facadePc EXCEPT ![s] = "done"] /\ answer' = [answer EXCEPT ![s] = "refused"]
  /\ UNCHANGED <<facadePending, deleted, dead, ending, AnyFacade!process, AnyFacade!pipes, chans, facadeQueue>>

FacadeRegisters(a) ==
  /\ facadePc[a] = "registers"
  /\ \/ AnyFacade!Fails(a, "lost") \/ AnyFacade!Fails(a, "refused")
     \/ /\ facadePending' = facadePending \cup {a}
        /\ facadePc' = [facadePc EXCEPT ![a] = IF a \in Sse THEN "attaches" ELSE "sends"]
        /\ UNCHANGED <<answer, AnyFacade!lives, chans, facadeQueue>>
  /\ UNCHANGED <<AnyFacade!process, AnyFacade!pipes>>

\* The dispatch of an answer that reaches the request it is for, or nobody.
FacadeAnswers(s) ==
  /\ AnyFacade!TakesItem(s) /\ Head(facadeInbound[s]) \in AnyFacade!Askers
  /\ \E hit \in SUBSET ({Head(facadeInbound[s])} \cap AnyFacade!PendingOn(s)) :
       /\ facadePending' = facadePending \ hit
       /\ answer' = [a \in AnyFacade!Askers |-> IF a \in hit /\ ~AnyFacade!HasChannel(a)
                                                THEN Head(facadeInbound[s]) ELSE answer[a]]
       /\ facadeQueue' = [c \in AnyFacade!Streamers |->
                            IF c \in hit /\ AnyFacade!HasChannel(c)
                            THEN AnyFacade!Put(facadeQueue[c], <<Head(facadeInbound[s]), "close">>)
                            ELSE facadeQueue[c]]
  /\ UNCHANGED <<facadePc, AnyFacade!lives, AnyFacade!process, wlock, todo, chans, disp, serverRequest>>

LEMMA FacadePuts ==
  ASSUME NEW S, NEW q \in Seq(S), NEW items \in Seq(S), MaxQueue \in Nat, Len(q) <= MaxQueue
  PROVE  AnyFacade!Put(q, items) \in Seq(S) /\ Len(AnyFacade!Put(q, items)) <= MaxQueue
<1> DEFINE n == IF Len(q) + Len(items) < MaxQueue THEN Len(q) + Len(items) ELSE MaxQueue
           r == q \o items
<1>1. r \in Seq(S) /\ Len(r) = Len(q) + Len(items) /\ Len(q) \in Nat /\ Len(items) \in Nat
  BY ConcatProperties, LenProperties
<1>2. n \in Nat /\ n <= Len(r) /\ n <= MaxQueue
  BY <1>1
<1>3. \A i \in 1..n : r[i] \in S
  BY <1>1, <1>2, ElementOfSeq
<1>4. SubSeq(r, 1, n) \in Seq(S) /\ Len(SubSeq(r, 1, n)) = IF 1 <= n THEN n - 1 + 1 ELSE 0
  <2> HIDE DEF r, n
  <2> QED
    BY <1>2, <1>3, SubSeqProperties
<1>5. AnyFacade!Put(q, items) = SubSeq(r, 1, n)
  BY DEF AnyFacade!Put
<1> QED
  BY <1>2, <1>4, <1>5

LEMMA FacadeSpawnTyped ==
  ASSUME FacadeAssumption, FacadeTypes, NEW s \in Opened, AnyFacade!Spawn(s)
  PROVE  FacadeTypes'
BY DEF FacadeAssumption, FacadeTypes, AnyFacade!Spawn, AnyFacade!lives, AnyFacade!pipes,
   AnyFacade!Askers, AnyFacade!Streamers

LEMMA FacadeSpawnFailsTyped ==
  ASSUME FacadeAssumption, FacadeTypes, NEW s \in Opened, AnyFacade!SpawnFails(s)
  PROVE  FacadeTypes'
BY DEF FacadeAssumption, FacadeTypes, AnyFacade!SpawnFails, AnyFacade!lives, AnyFacade!process,
   AnyFacade!pipes,
   AnyFacade!Askers, AnyFacade!Streamers

LEMMA FacadeSendTooLongTyped ==
  ASSUME FacadeAssumption, FacadeTypes, NEW p \in Posted, AnyFacade!SendTooLong(p)
  PROVE  FacadeTypes'
BY DEF FacadeAssumption, FacadeTypes, AnyFacade!SendTooLong, AnyFacade!lives, AnyFacade!process,
   AnyFacade!pipes,
   AnyFacade!Askers, AnyFacade!Streamers

LEMMA FacadeReplyTyped ==
  ASSUME FacadeAssumption, FacadeTypes, NEW a \in AnyFacade!Askers, AnyFacade!Reply(a)
  PROVE  FacadeTypes'
BY DEF FacadeAssumption, FacadeTypes, AnyFacade!Reply, AnyFacade!lives, AnyFacade!process, AnyFacade!pipes,
   AnyFacade!Askers, AnyFacade!Streamers

LEMMA FacadeStreamGivesUpTyped ==
  ASSUME FacadeAssumption, FacadeTypes, NEW c \in AnyFacade!Streamers, AnyFacade!StreamGivesUp(c)
  PROVE  FacadeTypes'
BY DEF FacadeAssumption, FacadeTypes, AnyFacade!StreamGivesUp, AnyFacade!lives, AnyFacade!process,
   AnyFacade!pipes,
   AnyFacade!Askers, AnyFacade!Streamers

LEMMA FacadeBackendAnswersTyped ==
  ASSUME FacadeAssumption, FacadeTypes, NEW s \in Opened, AnyFacade!BackendAnswers(s)
  PROVE  FacadeTypes'
BY DEF FacadeAssumption, FacadeTypes, AnyFacade!BackendAnswers, AnyFacade!lives, AnyFacade!process,
   AnyFacade!Askers, AnyFacade!Streamers

LEMMA FacadeBackendAsksTyped ==
  ASSUME FacadeAssumption, FacadeTypes, NEW s \in Opened, AnyFacade!BackendAsks(s)
  PROVE  FacadeTypes'
BY DEF FacadeAssumption, FacadeTypes, AnyFacade!BackendAsks, AnyFacade!lives, AnyFacade!process,
   AnyFacade!Askers, AnyFacade!Streamers

LEMMA FacadeBackendStallsTyped ==
  ASSUME FacadeAssumption, FacadeTypes, NEW s \in Opened, AnyFacade!BackendStalls(s)
  PROVE  FacadeTypes'
BY DEF FacadeAssumption, FacadeTypes, AnyFacade!BackendStalls, AnyFacade!lives, AnyFacade!pipes,
   AnyFacade!Askers, AnyFacade!Streamers

LEMMA FacadeBackendExitsTyped ==
  ASSUME FacadeAssumption, FacadeTypes, NEW s \in Opened, AnyFacade!BackendExits(s)
  PROVE  FacadeTypes'
BY DEF FacadeAssumption, FacadeTypes, AnyFacade!BackendExits, AnyFacade!lives,
   AnyFacade!Askers, AnyFacade!Streamers

LEMMA FacadeDispatchRequestTyped ==
  ASSUME FacadeAssumption, FacadeTypes, NEW s \in Opened, AnyFacade!DispatchRequest(s)
  PROVE  FacadeTypes'
BY DEF FacadeAssumption, FacadeTypes, AnyFacade!DispatchRequest, AnyFacade!TakesItem, AnyFacade!lives,
   AnyFacade!process,
   AnyFacade!Askers, AnyFacade!Streamers

LEMMA FacadeRefusedTyped ==
  ASSUME FacadeAssumption, FacadeTypes, NEW s \in Opened, AnyFacade!Refused(s)
  PROVE  FacadeTypes'
BY DEF FacadeAssumption, FacadeTypes, AnyFacade!Refused, AnyFacade!lives, AnyFacade!process,
   AnyFacade!Askers, AnyFacade!Streamers

LEMMA FacadeNames ==
  ASSUME FacadeAssumption
  PROVE  /\ Opened \subseteq AnyFacade!Askers /\ Posted \subseteq AnyFacade!Askers
         /\ Sse \subseteq AnyFacade!Askers /\ Sse \subseteq AnyFacade!Streamers /\ Gets \subseteq AnyFacade!Streamers
         /\ Sse \cap Opened = {} /\ Sse \subseteq Posted /\ Gets \cap AnyFacade!Askers = {}
         /\ AnyFacade!Streamers \subseteq AnyFacade!Askers \cup Gets /\ AnyFacade!Streamers \cap Opened = {}
         /\ \A c \in AnyFacade!Streamers \cup Posted : On[c] \in Opened
         /\ \A a \in AnyFacade!Askers : AnyFacade!SessionOf(a) \in Opened
         /\ \A s \in Opened : AnyFacade!SessionOf(s) = s
         /\ \A p \in Posted : AnyFacade!SessionOf(p) = On[p] /\ p \notin Opened
         /\ \A a \in AnyFacade!Askers : a \notin {"refused", "lost", "deleted", "timeout", "close", "request", "exit"}
         /\ None \notin AnyFacade!Askers
BY DEF FacadeAssumption, AnyFacade!Askers, AnyFacade!Streamers, AnyFacade!SessionOf

LEMMA FacadeCreateTyped ==
  ASSUME FacadeAssumption, FacadeTypes, NEW s \in Opened, FacadeCreates(s)
  PROVE  FacadeTypes'
<1>1. facadePc' \in {[facadePc EXCEPT ![s] = "spawns"], [facadePc EXCEPT ![s] = "done"]}
      /\ answer' \in {answer, [answer EXCEPT ![s] = "refused"]}
      /\ table' \in {table, table \cup {s}}
  BY DEF FacadeCreates
<1>2. UNCHANGED <<facadePending, deleted, dead, ending, facadeClosed, facadeProc, facadeStalled, wlock, todo,
                  facadeInbound, disp, serverRequest, chans, facadeQueue>>
  BY DEF FacadeCreates, AnyFacade!process, AnyFacade!pipes
<1> QED
  BY <1>1, <1>2, ZenonT(30) DEF FacadeTypes

LEMMA FacadePostTyped ==
  ASSUME FacadeAssumption, FacadeTypes, NEW p \in Posted, AnyFacade!Post(p)
  PROVE  FacadeTypes'
<1>1. facadePc' \in {[facadePc EXCEPT ![p] = "registers"], [facadePc EXCEPT ![p] = "done"]}
      /\ answer' \in {answer, [answer EXCEPT ![p] = "refused"]}
  BY DEF AnyFacade!Post
<1>2. UNCHANGED <<facadePending, table, deleted, dead, ending, facadeClosed, facadeProc, facadeStalled, wlock,
                  todo, facadeInbound, disp, serverRequest, chans, facadeQueue>>
  BY DEF AnyFacade!Post, AnyFacade!lives, AnyFacade!process, AnyFacade!pipes
<1> QED
  BY <1>1, <1>2, ZenonT(30) DEF FacadeTypes

LEMMA FacadeAttachTyped ==
  ASSUME FacadeAssumption, FacadeTypes, NEW p \in Sse, AnyFacade!Attach(p)
  PROVE  FacadeTypes'
<1>1. facadePc' \in {[facadePc EXCEPT ![p] = "sends"], [facadePc EXCEPT ![p] = "done"]}
      /\ answer' \in {answer, [answer EXCEPT ![p] = "refused"]}
      /\ (chans' = chans \/ chans' = [chans EXCEPT ![On[p]] = @ \cup {p}])
  BY DEF AnyFacade!Attach
<1>2. UNCHANGED <<facadePending, table, deleted, dead, ending, facadeClosed, facadeProc, facadeStalled, wlock,
                  todo, facadeInbound, disp, serverRequest, facadeQueue>>
  BY DEF AnyFacade!Attach, AnyFacade!lives, AnyFacade!process, AnyFacade!pipes
<1>3. chans' \in [Opened -> SUBSET AnyFacade!Streamers]
  <2>1. p \in AnyFacade!Streamers /\ On[p] \in Opened
    BY FacadeNames
  <2>2. chans[On[p]] \cup {p} \in SUBSET AnyFacade!Streamers
    BY <2>1 DEF FacadeTypes
  <2>3. chans \in [Opened -> SUBSET AnyFacade!Streamers]
    BY DEF FacadeTypes
  <2> QED
    BY <1>1, <2>1, <2>2, <2>3
<1> QED
  BY <1>1, <1>2, <1>3, ZenonT(30) DEF FacadeTypes

LEMMA FacadeOpenTyped ==
  ASSUME FacadeAssumption, FacadeTypes, NEW g \in Gets, AnyFacade!Open(g)
  PROVE  FacadeTypes'
<1>1. facadePc' \in {[facadePc EXCEPT ![g] = "streams"], [facadePc EXCEPT ![g] = "done"]}
      /\ (chans' = chans \/ chans' = [chans EXCEPT ![On[g]] = @ \cup {g}])
  BY DEF AnyFacade!Open
<1>2. UNCHANGED <<answer, facadePending, table, deleted, dead, ending, facadeClosed, facadeProc, facadeStalled,
                  wlock, todo, facadeInbound, disp, serverRequest, facadeQueue>>
  BY DEF AnyFacade!Open, AnyFacade!lives, AnyFacade!process, AnyFacade!pipes
<1>3. chans' \in [Opened -> SUBSET AnyFacade!Streamers]
  <2>1. g \in AnyFacade!Streamers /\ On[g] \in Opened
    BY FacadeNames
  <2>2. chans[On[g]] \cup {g} \in SUBSET AnyFacade!Streamers
    BY <2>1 DEF FacadeTypes
  <2>3. chans \in [Opened -> SUBSET AnyFacade!Streamers]
    BY DEF FacadeTypes
  <2> QED
    BY <1>1, <2>1, <2>2, <2>3
<1> QED
  BY <1>1, <1>2, <1>3 DEF FacadeTypes

LEMMA FacadeStreamTyped ==
  ASSUME FacadeAssumption, FacadeTypes, NEW c \in AnyFacade!Streamers, AnyFacade!Stream(c)
  PROVE  FacadeTypes'
<1>1. facadeQueue[c] \in Seq(AnyFacade!Askers \cup FacadeMarks) /\ facadeQueue[c] # <<>>
  BY DEF FacadeTypes, AnyFacade!Stream
<1>2. /\ Head(facadeQueue[c]) \in AnyFacade!Askers \cup FacadeMarks
      /\ Tail(facadeQueue[c]) \in Seq(AnyFacade!Askers \cup FacadeMarks)
      /\ Len(Tail(facadeQueue[c])) <= Len(facadeQueue[c])
      /\ Len(facadeQueue[c]) \in Nat /\ Len(Tail(facadeQueue[c])) \in Nat
  BY <1>1, HeadTailProperties, LenProperties
<1>3. /\ facadeQueue' = [facadeQueue EXCEPT ![c] = Tail(@)]
      /\ facadePc' \in {facadePc, [facadePc EXCEPT ![c] = "done"]}
      /\ (chans' = chans \/ chans' = [chans EXCEPT ![On[c]] = @ \ {c}])
  BY DEF AnyFacade!Stream
<1>4. answer' = answer \/ (c \in Sse /\ Head(facadeQueue[c]) # "request"
                            /\ answer' = [answer EXCEPT ![c] = Head(facadeQueue[c])])
  BY DEF AnyFacade!Stream
<1>5. UNCHANGED <<facadePending, table, deleted, dead, ending, facadeClosed, facadeProc, facadeStalled,
                  wlock, todo, facadeInbound, disp, serverRequest>>
  BY DEF AnyFacade!Stream, AnyFacade!lives, AnyFacade!process, AnyFacade!pipes
<1>6. answer' \in [AnyFacade!Askers ->
                     AnyFacade!Askers \cup {None, "refused", "lost", "deleted", "timeout", "close"}]
  BY <1>2, <1>4 DEF FacadeTypes, FacadeMarks
<1>7. /\ facadeQueue' \in [AnyFacade!Streamers -> Seq(AnyFacade!Askers \cup FacadeMarks)]
      /\ \A d \in AnyFacade!Streamers : Len(facadeQueue'[d]) <= MaxQueue
  <2>1. facadeQueue' \in [AnyFacade!Streamers -> Seq(AnyFacade!Askers \cup FacadeMarks)]
    BY <1>2, <1>3 DEF FacadeTypes
  <2>2. ASSUME NEW d \in AnyFacade!Streamers PROVE Len(facadeQueue'[d]) <= MaxQueue
    <3>1. CASE d = c
      BY <1>2, <1>3, <3>1 DEF FacadeTypes, FacadeAssumption
    <3>2. CASE d # c
      BY <1>3, <3>2 DEF FacadeTypes
    <3> QED
      BY <3>1, <3>2
  <2> QED
    BY <2>1, <2>2
<1>8. chans' \in [Opened -> SUBSET AnyFacade!Streamers]
  <2>1. On[c] \in Opened
    BY FacadeNames
  <2>2. chans[On[c]] \ {c} \in SUBSET AnyFacade!Streamers
    BY <2>1 DEF FacadeTypes
  <2> QED
    BY <1>3, <2>1, <2>2, ZenonT(30) DEF FacadeTypes
<1>9. facadePc' \in [AnyFacade!Askers \cup Gets -> {"idle", "spawns", "registers", "attaches", "sends", "writes",
                                               "waits", "streams", "done"}]
  BY <1>3 DEF FacadeTypes
<1> QED
  BY <1>5, <1>6, <1>7, <1>8, <1>9 DEF FacadeTypes

LEMMA FacadeRefuseTyped ==
  ASSUME FacadeAssumption, FacadeTypes, NEW s \in Opened, AnyFacade!Refuse(s)
  PROVE  FacadeTypes'
<1>1. /\ wlock' \in {wlock, [wlock EXCEPT ![s] = s]}
      /\ disp' \in {[disp EXCEPT ![s] = "writes"], [disp EXCEPT ![s] = "idle"]}
  BY DEF AnyFacade!Refuse
<1>2. UNCHANGED <<facadePc, answer, facadePending, table, deleted, dead, ending, facadeClosed, facadeProc,
                  facadeStalled, todo, facadeInbound, serverRequest, chans, facadeQueue>>
  BY DEF AnyFacade!Refuse, AnyFacade!lives, AnyFacade!process
<1>3. wlock' \in [Opened -> AnyFacade!Askers \cup {None}]
  BY <1>1, FacadeNames, SMTT(30) DEF FacadeTypes
<1> QED
  BY <1>1, <1>2, <1>3 DEF FacadeTypes

LEMMA FacadeStopTyped ==
  ASSUME FacadeAssumption, FacadeTypes, NEW s \in Opened, AnyFacade!Stop(s)
  PROVE  FacadeTypes'
<1>1. /\ ending' = ending \ {s} /\ facadeClosed' = facadeClosed \cup {s}
      /\ facadeProc' \in {facadeProc, [facadeProc EXCEPT ![s] = "over"]}
      /\ facadeInbound' \in {facadeInbound, [facadeInbound EXCEPT ![s] = Append(@, "exit")]}
  BY DEF AnyFacade!Stop
<1>2. UNCHANGED <<facadePc, answer, facadePending, table, deleted, dead, facadeStalled, wlock, todo, chans,
                  facadeQueue, disp, serverRequest>>
  BY DEF AnyFacade!Stop
<1>3. facadeInbound' \in [Opened -> Seq(AnyFacade!Askers \cup {"request", "exit"})]
  <2>1. Append(facadeInbound[s], "exit") \in Seq(AnyFacade!Askers \cup {"request", "exit"})
    BY AppendProperties DEF FacadeTypes
  <2> QED
    BY <1>1, <2>1, ZenonT(30) DEF FacadeTypes
<1> QED
  BY <1>1, <1>2, <1>3 DEF FacadeTypes

\* What closing a session does to the streams and to the table.
LEMMA FacadeClosesTyped ==
  ASSUME FacadeAssumption, FacadeTypes, NEW s \in Opened, AnyFacade!Closes(s)
  PROVE  /\ facadePending' \subseteq AnyFacade!Askers
         /\ table' \subseteq Opened /\ deleted' \subseteq Opened /\ dead' \subseteq Opened /\ ending' \subseteq Opened
         /\ chans' \in [Opened -> SUBSET AnyFacade!Streamers]
         /\ facadeQueue' \in [AnyFacade!Streamers -> Seq(AnyFacade!Askers \cup FacadeMarks)]
         /\ \A c \in AnyFacade!Streamers : Len(facadeQueue'[c]) <= MaxQueue
<1>1. facadeQueue' = [c \in AnyFacade!Streamers |->
                        IF c \in chans[s] THEN AnyFacade!Put(facadeQueue[c], <<"close">>) ELSE facadeQueue[c]]
  BY DEF AnyFacade!Closes
<1>2. ASSUME NEW c \in AnyFacade!Streamers
      PROVE  facadeQueue'[c] \in Seq(AnyFacade!Askers \cup FacadeMarks) /\ Len(facadeQueue'[c]) <= MaxQueue
  <2>1. <<"close">> \in Seq(AnyFacade!Askers \cup FacadeMarks)
    BY DEF FacadeMarks
  <2> QED
    BY <1>1, <2>1, FacadePuts DEF FacadeTypes, FacadeAssumption
<1>3. facadeQueue' \in [AnyFacade!Streamers -> Seq(AnyFacade!Askers \cup FacadeMarks)]
  BY <1>1, <1>2
<1> QED
  BY <1>2, <1>3 DEF AnyFacade!Closes, FacadeTypes

LEMMA FacadeFailsTyped ==
  ASSUME FacadeAssumption, FacadeTypes, NEW a \in AnyFacade!Askers, NEW why \in {"lost", "refused", "timeout"},
         AnyFacade!Fails(a, why), wlock' \in [Opened -> AnyFacade!Askers \cup {None}],
         UNCHANGED <<AnyFacade!process, todo, facadeInbound, disp, serverRequest>>
  PROVE  FacadeTypes'
<1>1. facadePc' = [facadePc EXCEPT ![a] = "done"]
  BY DEF AnyFacade!Fails
<1>2. answer' \in [AnyFacade!Askers ->
                     AnyFacade!Askers \cup {None, "refused", "lost", "deleted", "timeout", "close"}]
  BY DEF AnyFacade!Fails, FacadeTypes
<1>3. /\ facadePending' \subseteq AnyFacade!Askers
      /\ table' \subseteq Opened /\ deleted' \subseteq Opened /\ dead' \subseteq Opened /\ ending' \subseteq Opened
      /\ chans' \in [Opened -> SUBSET AnyFacade!Streamers]
      /\ facadeQueue' \in [AnyFacade!Streamers -> Seq(AnyFacade!Askers \cup FacadeMarks)]
      /\ \A c \in AnyFacade!Streamers : Len(facadeQueue'[c]) <= MaxQueue
  <2>1. CASE a \in Opened
    BY <2>1, FacadeClosesTyped DEF AnyFacade!Fails
  <2>2. CASE a \notin Opened
    BY <2>2 DEF AnyFacade!Fails, AnyFacade!lives, FacadeTypes
  <2> QED
    BY <2>1, <2>2
<1> QED
  BY <1>1, <1>2, <1>3 DEF FacadeTypes, AnyFacade!process

\* forward raised BackendGone.
LEMMA FacadeGoneTyped ==
  ASSUME FacadeAssumption, FacadeTypes, NEW a \in AnyFacade!Askers, AnyFacade!Gone(a),
         wlock' \in [Opened -> AnyFacade!Askers \cup {None}],
         UNCHANGED <<AnyFacade!process, todo, facadeInbound, disp, serverRequest>>
  PROVE  FacadeTypes'
<1>1. CASE a \in Sse
  <2>1. /\ facadeQueue' = [facadeQueue EXCEPT ![a] = AnyFacade!Put(@, <<"lost", "close">>)]
        /\ facadePending' = facadePending \ {a}
        /\ facadePc' = [facadePc EXCEPT ![a] = "streams"]
        /\ UNCHANGED <<answer, table, deleted, dead, ending, chans>>
    BY <1>1 DEF AnyFacade!Gone, AnyFacade!lives
  <2>2. a \in AnyFacade!Streamers
    BY <1>1 DEF AnyFacade!Streamers
  <2>3. /\ AnyFacade!Put(facadeQueue[a], <<"lost", "close">>) \in Seq(AnyFacade!Askers \cup FacadeMarks)
        /\ Len(AnyFacade!Put(facadeQueue[a], <<"lost", "close">>)) <= MaxQueue
    <3>1. <<"lost", "close">> \in Seq(AnyFacade!Askers \cup FacadeMarks)
      BY DEF FacadeMarks
    <3> QED
      BY <2>2, <3>1, FacadePuts DEF FacadeTypes, FacadeAssumption
  <2>4. /\ facadeQueue' \in [AnyFacade!Streamers -> Seq(AnyFacade!Askers \cup FacadeMarks)]
        /\ \A c \in AnyFacade!Streamers : Len(facadeQueue'[c]) <= MaxQueue
    BY <2>1, <2>2, <2>3 DEF FacadeTypes
  <2> QED
    BY <2>1, <2>4 DEF FacadeTypes, AnyFacade!process
<1>2. CASE a \notin Sse
  BY <1>2, FacadeFailsTyped DEF AnyFacade!Gone
<1> QED
  BY <1>1, <1>2

LEMMA FacadeSendTyped ==
  ASSUME FacadeAssumption, FacadeTypes, NEW a \in AnyFacade!Askers, AnyFacade!Send(a)
  PROVE  FacadeTypes'
<1>1. CASE AnyFacade!Gone(a) /\ wlock' = wlock
  BY <1>1, FacadeGoneTyped DEF AnyFacade!Send, FacadeTypes
<1>2. CASE /\ wlock' = [wlock EXCEPT ![AnyFacade!SessionOf(a)] = a]
           /\ facadePc' = [facadePc EXCEPT ![a] = "writes"]
           /\ UNCHANGED <<answer, facadePending, AnyFacade!lives, chans, facadeQueue>>
  BY <1>2 DEF AnyFacade!Send, FacadeTypes, AnyFacade!process, AnyFacade!lives
<1> QED
  BY <1>1, <1>2 DEF AnyFacade!Send

LEMMA FacadeWrittenTyped ==
  ASSUME FacadeAssumption, FacadeTypes, NEW a \in AnyFacade!Askers, AnyFacade!Written(a)
  PROVE  FacadeTypes'
<1>1. wlock' \in [Opened -> AnyFacade!Askers \cup {None}]
  BY DEF AnyFacade!Written, FacadeTypes
<1>2. CASE AnyFacade!Gone(a) /\ todo' = todo
  BY <1>1, <1>2, FacadeGoneTyped DEF AnyFacade!Written
<1>3. CASE /\ todo' = [todo EXCEPT ![AnyFacade!SessionOf(a)] = @ \cup {a}]
           /\ facadePc' = [facadePc EXCEPT ![a] = IF a \in Sse THEN "streams" ELSE "waits"]
           /\ UNCHANGED <<answer, facadePending, AnyFacade!lives, chans, facadeQueue>>
  <2>1. todo' \in [Opened -> SUBSET AnyFacade!Askers]
    <3>1. todo[AnyFacade!SessionOf(a)] \cup {a} \in SUBSET AnyFacade!Askers
      BY FacadeNames DEF FacadeTypes
    <3> QED
      BY <1>3, <3>1 DEF FacadeTypes
  <2>2. UNCHANGED <<answer, facadePending, table, deleted, dead, ending, chans, facadeQueue, facadeClosed,
                    facadeProc, facadeStalled, facadeInbound, disp, serverRequest>>
    BY <1>3 DEF AnyFacade!Written, AnyFacade!process, AnyFacade!lives
  <2> QED
    BY <1>1, <1>3, <2>1, <2>2 DEF FacadeTypes
<1> QED
  BY <1>2, <1>3 DEF AnyFacade!Written

LEMMA FacadeTimesOutTyped ==
  ASSUME FacadeAssumption, FacadeTypes, NEW a \in AnyFacade!Askers, AnyFacade!TimesOut(a)
  PROVE  FacadeTypes'
<1>1. wlock' \in [Opened -> AnyFacade!Askers \cup {None}]
  BY DEF AnyFacade!TimesOut, AnyFacade!pipes, FacadeTypes
<1> QED
  BY <1>1, FacadeFailsTyped DEF AnyFacade!TimesOut, AnyFacade!pipes

LEMMA FacadeRegistersTyped ==
  ASSUME FacadeAssumption, FacadeTypes, NEW a \in AnyFacade!Askers, FacadeRegisters(a)
  PROVE  FacadeTypes'
<1>1. wlock' \in [Opened -> AnyFacade!Askers \cup {None}]
  BY DEF FacadeRegisters, AnyFacade!pipes, FacadeTypes
<1>2. CASE AnyFacade!Fails(a, "lost") \/ AnyFacade!Fails(a, "refused")
  BY <1>1, <1>2, FacadeFailsTyped DEF FacadeRegisters, AnyFacade!pipes
<1>3. CASE /\ facadePending' = facadePending \cup {a}
           /\ facadePc' = [facadePc EXCEPT ![a] = IF a \in Sse THEN "attaches" ELSE "sends"]
           /\ UNCHANGED <<answer, AnyFacade!lives, chans, facadeQueue>>
  BY <1>3 DEF FacadeRegisters, FacadeTypes, AnyFacade!process, AnyFacade!pipes, AnyFacade!lives
<1> QED
  BY <1>2, <1>3 DEF FacadeRegisters

\* The dispatcher takes an item.
LEMMA FacadeTakesTyped ==
  ASSUME FacadeTypes, NEW s \in Opened, AnyFacade!TakesItem(s)
  PROVE  /\ facadeInbound' \in [Opened -> Seq(AnyFacade!Askers \cup {"request", "exit"})]
         /\ Head(facadeInbound[s]) \in AnyFacade!Askers \cup {"request", "exit"}
<1>1. facadeInbound[s] \in Seq(AnyFacade!Askers \cup {"request", "exit"}) /\ facadeInbound[s] # <<>>
  BY DEF FacadeTypes, AnyFacade!TakesItem
<1>2. /\ Tail(facadeInbound[s]) \in Seq(AnyFacade!Askers \cup {"request", "exit"})
      /\ Head(facadeInbound[s]) \in AnyFacade!Askers \cup {"request", "exit"}
  BY <1>1, HeadTailProperties
<1> QED
  BY <1>2 DEF FacadeTypes, AnyFacade!TakesItem

LEMMA FacadeAnswersTyped ==
  ASSUME FacadeAssumption, FacadeTypes, NEW s \in Opened, FacadeAnswers(s)
  PROVE  FacadeTypes'
<1> DEFINE item == Head(facadeInbound[s])
<1>1. item \in AnyFacade!Askers /\ facadeInbound' \in [Opened -> Seq(AnyFacade!Askers \cup {"request", "exit"})]
  BY FacadeTakesTyped DEF FacadeAnswers
<1>2. PICK hit \in SUBSET ({item} \cap AnyFacade!PendingOn(s)) :
        /\ facadePending' = facadePending \ hit
        /\ answer' = [a \in AnyFacade!Askers |-> IF a \in hit /\ ~AnyFacade!HasChannel(a)
                                                 THEN item ELSE answer[a]]
        /\ facadeQueue' = [c \in AnyFacade!Streamers |->
                             IF c \in hit /\ AnyFacade!HasChannel(c)
                             THEN AnyFacade!Put(facadeQueue[c], <<item, "close">>)
                             ELSE facadeQueue[c]]
  BY DEF FacadeAnswers
<1>3. UNCHANGED <<facadePc, table, deleted, dead, ending, facadeClosed, facadeProc, facadeStalled, wlock, todo,
                  chans, disp, serverRequest>>
  BY DEF FacadeAnswers, AnyFacade!lives, AnyFacade!process
<1>4. answer' \in [AnyFacade!Askers ->
                     AnyFacade!Askers \cup {None, "refused", "lost", "deleted", "timeout", "close"}]
  BY <1>1, <1>2 DEF FacadeTypes
<1>5. ASSUME NEW c \in AnyFacade!Streamers
      PROVE  facadeQueue'[c] \in Seq(AnyFacade!Askers \cup FacadeMarks) /\ Len(facadeQueue'[c]) <= MaxQueue
  <2>1. <<item, "close">> \in Seq(AnyFacade!Askers \cup FacadeMarks)
    BY <1>1 DEF FacadeMarks
  <2>2. /\ AnyFacade!Put(facadeQueue[c], <<item, "close">>) \in Seq(AnyFacade!Askers \cup FacadeMarks)
        /\ Len(AnyFacade!Put(facadeQueue[c], <<item, "close">>)) <= MaxQueue
    BY <2>1, FacadePuts DEF FacadeTypes, FacadeAssumption
  <2> QED
    BY <1>2, <2>2 DEF FacadeTypes
<1>6. facadeQueue' \in [AnyFacade!Streamers -> Seq(AnyFacade!Askers \cup FacadeMarks)]
  <2> HIDE DEF item
  <2> QED
    BY <1>2, <1>5
<1>7. facadePending' \subseteq AnyFacade!Askers
  BY <1>2 DEF FacadeTypes
<1> QED
  BY <1>1, <1>3, <1>4, <1>5, <1>6, <1>7 DEF FacadeTypes

LEMMA FacadeOfferTyped ==
  ASSUME FacadeAssumption, FacadeTypes, NEW s \in Opened, AnyFacade!Offer(s)
  PROVE  FacadeTypes'
<1>1. facadeQueue' = [c \in AnyFacade!Streamers |->
                        IF c \in chans[s] THEN AnyFacade!Put(facadeQueue[c], <<"request">>) ELSE facadeQueue[c]]
  BY DEF AnyFacade!Offer
<1>2. ASSUME NEW c \in AnyFacade!Streamers
      PROVE  facadeQueue'[c] \in Seq(AnyFacade!Askers \cup FacadeMarks) /\ Len(facadeQueue'[c]) <= MaxQueue
  <2>1. <<"request">> \in Seq(AnyFacade!Askers \cup FacadeMarks)
    BY DEF FacadeMarks
  <2> QED
    BY <1>1, <2>1, FacadePuts DEF FacadeTypes, FacadeAssumption
<1>3. facadeQueue' \in [AnyFacade!Streamers -> Seq(AnyFacade!Askers \cup FacadeMarks)]
  BY <1>1, <1>2
<1>4. UNCHANGED <<facadePc, answer, facadePending, table, deleted, dead, ending, facadeClosed, facadeProc,
                  facadeStalled, wlock, todo, facadeInbound, chans>>
  BY DEF AnyFacade!Offer, AnyFacade!lives, AnyFacade!process
<1>5. /\ disp' = [disp EXCEPT ![s] = "idle"]
      /\ serverRequest' \in {[serverRequest EXCEPT ![s] = "offered"], [serverRequest EXCEPT ![s] = "lost"]}
  BY DEF AnyFacade!Offer
<1> QED
  BY <1>2, <1>3, <1>4, <1>5 DEF FacadeTypes

\* What the exit of the backend tells the requests and the streams.
LEMMA FacadeExitTells ==
  ASSUME NEW s \in Opened, AnyFacade!DispatchExit(s), s \notin deleted
  PROVE  /\ dead' = dead \cup {s} /\ facadePending' = facadePending \ AnyFacade!PendingOn(s)
         /\ chans' = [chans EXCEPT ![s] = {}]
         /\ \E doomed \in SUBSET AnyFacade!PendingOn(s), shut \in SUBSET chans[s] :
              /\ answer' = [a \in AnyFacade!Askers |-> IF a \in doomed /\ ~AnyFacade!HasChannel(a)
                                                       THEN "lost" ELSE answer[a]]
              /\ facadeQueue' = [c \in AnyFacade!Streamers |->
                    IF c \in doomed \cap Sse /\ AnyFacade!HasChannel(c)
                    THEN AnyFacade!Put(facadeQueue[c], <<"lost", "close">>)
                    ELSE IF c \in shut THEN AnyFacade!Put(facadeQueue[c], <<"close">>) ELSE facadeQueue[c]]
<1> DEFINE full == {c \in chans[s] : Len(facadeQueue[c]) >= MaxQueue - 1}
           tellings == IF full \cap AnyFacade!PendingOn(s) = {} THEN {AnyFacade!PendingOn(s)}
                       ELSE {t \in SUBSET AnyFacade!PendingOn(s) : ~(full \cap AnyFacade!PendingOn(s) \subseteq t)}
           shuts == IF full = {} THEN {chans[s]} ELSE SUBSET (chans[s] \ full)
           Effect(doomed, shut) ==
              /\ answer' = [a \in AnyFacade!Askers |-> IF a \in doomed /\ ~AnyFacade!HasChannel(a)
                                                       THEN "lost" ELSE answer[a]]
              /\ facadeQueue' = [c \in AnyFacade!Streamers |->
                    IF c \in doomed \cap Sse /\ AnyFacade!HasChannel(c)
                    THEN AnyFacade!Put(facadeQueue[c], <<"lost", "close">>)
                    ELSE IF c \in shut THEN AnyFacade!Put(facadeQueue[c], <<"close">>) ELSE facadeQueue[c]]
<1>1. /\ dead' = dead \cup {s} /\ facadePending' = facadePending \ AnyFacade!PendingOn(s)
      /\ chans' = [chans EXCEPT ![s] = {}]
      /\ \E doomed \in tellings : \E shut \in shuts : Effect(doomed, shut)
  BY Zenon DEF AnyFacade!DispatchExit
<1>2. tellings \subseteq SUBSET AnyFacade!PendingOn(s) /\ shuts \subseteq SUBSET chans[s]
  OBVIOUS
<1> HIDE DEF full, tellings, shuts, Effect
<1>3. \E doomed \in SUBSET AnyFacade!PendingOn(s), shut \in SUBSET chans[s] : Effect(doomed, shut)
  BY <1>1, <1>2
<1> QED
  BY <1>1, <1>3 DEF Effect

LEMMA FacadeDispatchExitTyped ==
  ASSUME FacadeAssumption, FacadeTypes, NEW s \in Opened, AnyFacade!DispatchExit(s)
  PROVE  FacadeTypes'
<1>1. facadeInbound' \in [Opened -> Seq(AnyFacade!Askers \cup {"request", "exit"})]
  BY FacadeTakesTyped DEF AnyFacade!DispatchExit
<1>2. UNCHANGED <<facadePc, table, deleted, ending, facadeClosed, facadeProc, facadeStalled, wlock, todo,
                  serverRequest>> /\ disp' = [disp EXCEPT ![s] = "over"]
  BY DEF AnyFacade!DispatchExit, AnyFacade!process
<1>3. CASE s \in deleted
  BY <1>1, <1>2, <1>3 DEF AnyFacade!DispatchExit, FacadeTypes
<1>4. CASE s \notin deleted
  <2>1. /\ dead' = dead \cup {s} /\ facadePending' = facadePending \ AnyFacade!PendingOn(s)
        /\ chans' = [chans EXCEPT ![s] = {}]
    BY <1>4, FacadeExitTells
  <2>2. PICK doomed \in SUBSET AnyFacade!PendingOn(s), shut \in SUBSET chans[s] :
             /\ answer' = [a \in AnyFacade!Askers |-> IF a \in doomed /\ ~AnyFacade!HasChannel(a)
                                                      THEN "lost" ELSE answer[a]]
             /\ facadeQueue' = [c \in AnyFacade!Streamers |->
                   IF c \in doomed \cap Sse /\ AnyFacade!HasChannel(c)
                   THEN AnyFacade!Put(facadeQueue[c], <<"lost", "close">>)
                   ELSE IF c \in shut THEN AnyFacade!Put(facadeQueue[c], <<"close">>) ELSE facadeQueue[c]]
    BY <1>4, FacadeExitTells, SMTT(30)
  <2>3. ASSUME NEW c \in AnyFacade!Streamers
        PROVE  facadeQueue'[c] \in Seq(AnyFacade!Askers \cup FacadeMarks) /\ Len(facadeQueue'[c]) <= MaxQueue
    <3>1. /\ <<"lost", "close">> \in Seq(AnyFacade!Askers \cup FacadeMarks)
          /\ <<"close">> \in Seq(AnyFacade!Askers \cup FacadeMarks)
      BY DEF FacadeMarks
    <3>2. facadeQueue[c] \in Seq(AnyFacade!Askers \cup FacadeMarks) /\ Len(facadeQueue[c]) <= MaxQueue
          /\ MaxQueue \in Nat
      BY DEF FacadeTypes, FacadeAssumption
    <3>3. \A items \in {<<"lost", "close">>, <<"close">>} :
            /\ AnyFacade!Put(facadeQueue[c], items) \in Seq(AnyFacade!Askers \cup FacadeMarks)
            /\ Len(AnyFacade!Put(facadeQueue[c], items)) <= MaxQueue
      BY <3>1, <3>2, FacadePuts
    <3> QED
      BY <2>2, <3>2, <3>3
  <2>4. facadeQueue' \in [AnyFacade!Streamers -> Seq(AnyFacade!Askers \cup FacadeMarks)]
    BY <2>2, <2>3
  <2>5. answer' \in [AnyFacade!Askers ->
                     AnyFacade!Askers \cup {None, "refused", "lost", "deleted", "timeout", "close"}]
    BY <2>2 DEF FacadeTypes
  <2> QED
    BY <1>1, <1>2, <2>1, <2>3, <2>4, <2>5 DEF FacadeTypes
<1> QED
  BY <1>3, <1>4

\* A session is deleted, reaped or shut down.
LEMMA FacadeClosesTellingTyped ==
  ASSUME FacadeAssumption, FacadeTypes, NEW s \in Opened, AnyFacade!ClosesTelling(s), disp' = disp
  PROVE  FacadeTypes'
<1>1. answer' \in [AnyFacade!Askers ->
                     AnyFacade!Askers \cup {None, "refused", "lost", "deleted", "timeout", "close"}]
  BY DEF AnyFacade!ClosesTelling, FacadeTypes
<1> QED
  BY <1>1, FacadeClosesTyped DEF AnyFacade!ClosesTelling, AnyFacade!process, FacadeTypes

\* The steps of all, and those that only some take.
FacadeSessionStep(s) ==
  \/ FacadeCreates(s) \/ AnyFacade!Spawn(s) \/ AnyFacade!SpawnFails(s) \/ AnyFacade!BackendAnswers(s)
  \/ AnyFacade!BackendAsks(s) \/ AnyFacade!BackendStalls(s) \/ AnyFacade!BackendExits(s) \/ FacadeAnswers(s)
  \/ AnyFacade!DispatchRequest(s) \/ AnyFacade!Offer(s) \/ AnyFacade!Refuse(s) \/ AnyFacade!Refused(s)
  \/ AnyFacade!DispatchExit(s) \/ AnyFacade!Reap(s) \/ AnyFacade!Stop(s)

FacadeStep ==
  \/ \E s \in Opened : FacadeSessionStep(s)
  \/ \E a \in AnyFacade!Askers : FacadeRegisters(a) \/ AnyFacade!Send(a) \/ AnyFacade!Written(a)
                                 \/ AnyFacade!Reply(a)
  \/ \E p \in Posted : AnyFacade!Post(p)
  \/ \E p \in Sse : AnyFacade!Attach(p)
  \/ \E g \in Gets : AnyFacade!Open(g)
  \/ \E c \in AnyFacade!Streamers : AnyFacade!Stream(c) \/ AnyFacade!StreamGivesUp(c)

FacadeNext ==
  \/ FacadeStep
  \/ \E a \in AnyFacade!Askers : AnyFacade!TimesOut(a)
  \/ \E p \in Posted : AnyFacade!SendTooLong(p)
  \/ \E s \in Opened : AnyFacade!Delete(s)

LEMMA FacadeSessionTyped ==
  ASSUME FacadeAssumption, FacadeTypes, NEW s \in Opened, FacadeSessionStep(s) PROVE FacadeTypes'
BY FacadeCreateTyped, FacadeSpawnTyped, FacadeSpawnFailsTyped, FacadeBackendAnswersTyped,
   FacadeBackendAsksTyped, FacadeBackendStallsTyped, FacadeBackendExitsTyped, FacadeAnswersTyped,
   FacadeDispatchRequestTyped, FacadeOfferTyped, FacadeRefuseTyped, FacadeRefusedTyped,
   FacadeDispatchExitTyped, FacadeClosesTellingTyped, FacadeStopTyped DEF FacadeSessionStep, AnyFacade!Reap

LEMMA FacadeTypesStep == ASSUME FacadeAssumption, FacadeTypes, FacadeNext PROVE FacadeTypes'
<1>1. ASSUME NEW a \in AnyFacade!Askers,
             FacadeRegisters(a) \/ AnyFacade!Send(a) \/ AnyFacade!Written(a) \/ AnyFacade!Reply(a)
               \/ AnyFacade!TimesOut(a)
      PROVE  FacadeTypes'
  BY <1>1, FacadeRegistersTyped, FacadeSendTyped, FacadeWrittenTyped, FacadeReplyTyped, FacadeTimesOutTyped
<1>2. ASSUME NEW p \in Posted, AnyFacade!Post(p) \/ AnyFacade!SendTooLong(p) PROVE FacadeTypes'
  BY <1>2, FacadePostTyped, FacadeSendTooLongTyped
<1>3. ASSUME NEW p \in Sse, AnyFacade!Attach(p) PROVE FacadeTypes'
  BY <1>3, FacadeAttachTyped
<1>4. ASSUME NEW g \in Gets, AnyFacade!Open(g) PROVE FacadeTypes'
  BY <1>4, FacadeOpenTyped
<1>5. ASSUME NEW c \in AnyFacade!Streamers, AnyFacade!Stream(c) \/ AnyFacade!StreamGivesUp(c) PROVE FacadeTypes'
  BY <1>5, FacadeStreamTyped, FacadeStreamGivesUpTyped
<1>6. ASSUME NEW s \in Opened, AnyFacade!Delete(s) PROVE FacadeTypes'
  BY <1>6, FacadeClosesTellingTyped DEF AnyFacade!Delete
<1> QED
  BY <1>1, <1>2, <1>3, <1>4, <1>5, <1>6, FacadeSessionTyped DEF FacadeNext, FacadeStep

\* An answer, given or on its way in the queue of a stream, is that of the
\* request itself.
FacadeOwnInv ==
  /\ \A a \in AnyFacade!Askers : answer[a] \in AnyFacade!Askers => answer[a] = a
  /\ \A c \in AnyFacade!Streamers : facadeQueue[c] \in Seq({c} \cup FacadeMarks)

LEMMA FacadeOwnKept ==
  ASSUME FacadeAssumption, FacadeTypes, FacadeOwnInv,
         \A a \in AnyFacade!Askers : answer'[a] \in {answer[a], a, "refused", "lost", "deleted", "timeout", "close"},
         \A c \in AnyFacade!Streamers :
           \/ facadeQueue'[c] = facadeQueue[c]
           \/ \E items \in Seq({c} \cup FacadeMarks) : facadeQueue'[c] = AnyFacade!Put(facadeQueue[c], items)
  PROVE  FacadeOwnInv'
<1>1. ASSUME NEW a \in AnyFacade!Askers, answer'[a] \in AnyFacade!Askers PROVE answer'[a] = a
  BY <1>1, FacadeNames DEF FacadeOwnInv
<1>2. ASSUME NEW c \in AnyFacade!Streamers PROVE facadeQueue'[c] \in Seq({c} \cup FacadeMarks)
  <2>1. facadeQueue[c] \in Seq({c} \cup FacadeMarks) /\ Len(facadeQueue[c]) <= MaxQueue /\ MaxQueue \in Nat
    BY DEF FacadeOwnInv, FacadeTypes, FacadeAssumption
  <2>2. ASSUME NEW items \in Seq({c} \cup FacadeMarks), facadeQueue'[c] = AnyFacade!Put(facadeQueue[c], items)
        PROVE  facadeQueue'[c] \in Seq({c} \cup FacadeMarks)
    BY <2>1, <2>2, FacadePuts
  <2> QED
    BY <2>1, <2>2
<1>3. AnyFacade!Askers' = AnyFacade!Askers /\ AnyFacade!Streamers' = AnyFacade!Streamers
  BY DEF AnyFacade!Askers, AnyFacade!Streamers
<1> QED
  BY <1>1, <1>2, <1>3 DEF FacadeOwnInv

\* Closing a session tells its streams to end.
LEMMA FacadeOwnClosed ==
  ASSUME FacadeTypes, NEW s \in Opened, AnyFacade!Closes(s), NEW c \in AnyFacade!Streamers
  PROVE  \/ facadeQueue'[c] = facadeQueue[c]
         \/ \E items \in Seq({c} \cup FacadeMarks) : facadeQueue'[c] = AnyFacade!Put(facadeQueue[c], items)
<1>1. <<"close">> \in Seq({c} \cup FacadeMarks)
  BY DEF FacadeMarks
<1> QED
  BY <1>1 DEF AnyFacade!Closes

LEMMA FacadeOwnFailed ==
  ASSUME FacadeAssumption, FacadeTypes, FacadeOwnInv, NEW a \in AnyFacade!Askers,
         NEW why \in {"lost", "refused", "timeout"}, AnyFacade!Fails(a, why)
  PROVE  FacadeOwnInv'
<1>1. \A x \in AnyFacade!Askers : answer'[x] \in {answer[x], x, "refused", "lost", "deleted", "timeout", "close"}
  BY DEF AnyFacade!Fails, FacadeTypes
<1>2. ASSUME NEW c \in AnyFacade!Streamers
      PROVE  \/ facadeQueue'[c] = facadeQueue[c]
             \/ \E items \in Seq({c} \cup FacadeMarks) : facadeQueue'[c] = AnyFacade!Put(facadeQueue[c], items)
  BY FacadeOwnClosed DEF AnyFacade!Fails
<1> QED
  BY <1>1, <1>2, FacadeOwnKept

LEMMA FacadeOwnGone ==
  ASSUME FacadeAssumption, FacadeTypes, FacadeOwnInv, NEW a \in AnyFacade!Askers, AnyFacade!Gone(a)
  PROVE  FacadeOwnInv'
<1>1. CASE a \in Sse
  <2>1. answer' = answer /\ facadeQueue' = [facadeQueue EXCEPT ![a] = AnyFacade!Put(@, <<"lost", "close">>)]
    BY <1>1 DEF AnyFacade!Gone
  <2>2. ASSUME NEW c \in AnyFacade!Streamers
        PROVE  \/ facadeQueue'[c] = facadeQueue[c]
               \/ \E items \in Seq({c} \cup FacadeMarks) : facadeQueue'[c] = AnyFacade!Put(facadeQueue[c], items)
    <3>1. <<"lost", "close">> \in Seq({c} \cup FacadeMarks)
      BY DEF FacadeMarks
    <3>2. facadeQueue'[c] = facadeQueue[c] \/ facadeQueue'[c] = AnyFacade!Put(facadeQueue[c], <<"lost", "close">>)
      BY <2>1 DEF FacadeTypes
    <3> QED
      BY <3>1, <3>2
  <2> QED
    BY <2>1, <2>2, FacadeOwnKept
<1>2. CASE a \notin Sse
  BY <1>2, FacadeOwnFailed DEF AnyFacade!Gone
<1> QED
  BY <1>1, <1>2

LEMMA FacadeOwnStreams ==
  ASSUME FacadeAssumption, FacadeTypes, FacadeOwnInv, NEW c \in AnyFacade!Streamers, AnyFacade!Stream(c)
  PROVE  FacadeOwnInv'
<1>1. facadeQueue[c] \in Seq({c} \cup FacadeMarks) /\ facadeQueue[c] # <<>>
  BY DEF FacadeOwnInv, AnyFacade!Stream
<1>2. Head(facadeQueue[c]) \in {c} \cup FacadeMarks /\ Tail(facadeQueue[c]) \in Seq({c} \cup FacadeMarks)
  BY <1>1, HeadTailProperties
<1>3. facadeQueue' = [facadeQueue EXCEPT ![c] = Tail(@)]
      /\ (answer' = answer \/ answer' = [answer EXCEPT ![c] = Head(facadeQueue[c])])
  BY DEF AnyFacade!Stream
<1>4. ASSUME NEW a \in AnyFacade!Askers, answer'[a] \in AnyFacade!Askers PROVE answer'[a] = a
  <2>1. CASE answer'[a] = answer[a]
    BY <1>4, <2>1 DEF FacadeOwnInv
  <2>2. CASE answer'[a] # answer[a]
    <3>1. a = c /\ answer'[a] = Head(facadeQueue[c])
      BY <1>3, <2>2 DEF FacadeTypes
    <3> QED
      BY <1>2, <1>4, <3>1, FacadeNames DEF FacadeMarks
  <2> QED
    BY <2>1, <2>2
<1>5. ASSUME NEW d \in AnyFacade!Streamers PROVE facadeQueue'[d] \in Seq({d} \cup FacadeMarks)
  <2>1. CASE d = c
    BY <1>2, <1>3, <2>1 DEF FacadeTypes
  <2>2. CASE d # c
    BY <1>3, <2>2 DEF FacadeTypes, FacadeOwnInv
  <2> QED
    BY <2>1, <2>2
<1>6. AnyFacade!Askers' = AnyFacade!Askers /\ AnyFacade!Streamers' = AnyFacade!Streamers
  BY DEF AnyFacade!Askers, AnyFacade!Streamers
<1> QED
  BY <1>4, <1>5, <1>6 DEF FacadeOwnInv

LEMMA FacadeOwnAnswered ==
  ASSUME FacadeAssumption, FacadeTypes, FacadeOwnInv, NEW s \in Opened, FacadeAnswers(s)
  PROVE  FacadeOwnInv'
<1> DEFINE item == Head(facadeInbound[s])
<1>1. PICK hit \in SUBSET ({item} \cap AnyFacade!PendingOn(s)) :
        /\ answer' = [a \in AnyFacade!Askers |-> IF a \in hit /\ ~AnyFacade!HasChannel(a)
                                                 THEN item ELSE answer[a]]
        /\ facadeQueue' = [c \in AnyFacade!Streamers |->
                             IF c \in hit /\ AnyFacade!HasChannel(c)
                             THEN AnyFacade!Put(facadeQueue[c], <<item, "close">>)
                             ELSE facadeQueue[c]]
  BY DEF FacadeAnswers
<1>2. \A a \in AnyFacade!Askers : answer'[a] \in {answer[a], a}
  BY <1>1
<1>3. ASSUME NEW c \in AnyFacade!Streamers
      PROVE  \/ facadeQueue'[c] = facadeQueue[c]
             \/ \E items \in Seq({c} \cup FacadeMarks) : facadeQueue'[c] = AnyFacade!Put(facadeQueue[c], items)
  <2>1. <<c, "close">> \in Seq({c} \cup FacadeMarks)
    BY DEF FacadeMarks
  <2>2. facadeQueue'[c] = facadeQueue[c] \/ facadeQueue'[c] = AnyFacade!Put(facadeQueue[c], <<c, "close">>)
    BY <1>1
  <2> QED
    BY <2>1, <2>2
<1> QED
  BY <1>2, <1>3, FacadeOwnKept

LEMMA FacadeOwnOffered ==
  ASSUME FacadeAssumption, FacadeTypes, FacadeOwnInv, NEW s \in Opened, AnyFacade!Offer(s)
  PROVE  FacadeOwnInv'
<1>1. facadeQueue' = [c \in AnyFacade!Streamers |->
                        IF c \in chans[s] THEN AnyFacade!Put(facadeQueue[c], <<"request">>) ELSE facadeQueue[c]]
      /\ answer' = answer
  BY DEF AnyFacade!Offer
<1>2. ASSUME NEW c \in AnyFacade!Streamers
      PROVE  \/ facadeQueue'[c] = facadeQueue[c]
             \/ \E items \in Seq({c} \cup FacadeMarks) : facadeQueue'[c] = AnyFacade!Put(facadeQueue[c], items)
  <2>1. <<"request">> \in Seq({c} \cup FacadeMarks)
    BY DEF FacadeMarks
  <2> QED
    BY <1>1, <2>1
<1> QED
  BY <1>1, <1>2, FacadeOwnKept

LEMMA FacadeOwnExits ==
  ASSUME FacadeAssumption, FacadeTypes, FacadeOwnInv, NEW s \in Opened, AnyFacade!DispatchExit(s)
  PROVE  FacadeOwnInv'
<1>1. CASE s \in deleted
  <2>1. answer' = answer /\ facadeQueue' = facadeQueue
    BY <1>1 DEF AnyFacade!DispatchExit
  <2> QED
    BY <2>1, FacadeOwnKept
<1>2. CASE s \notin deleted
  <2>1. PICK doomed \in SUBSET AnyFacade!PendingOn(s), shut \in SUBSET chans[s] :
             /\ answer' = [a \in AnyFacade!Askers |-> IF a \in doomed /\ ~AnyFacade!HasChannel(a)
                                                      THEN "lost" ELSE answer[a]]
             /\ facadeQueue' = [c \in AnyFacade!Streamers |->
                   IF c \in doomed \cap Sse /\ AnyFacade!HasChannel(c)
                   THEN AnyFacade!Put(facadeQueue[c], <<"lost", "close">>)
                   ELSE IF c \in shut THEN AnyFacade!Put(facadeQueue[c], <<"close">>) ELSE facadeQueue[c]]
    BY <1>2, FacadeExitTells
  <2>2. \A a \in AnyFacade!Askers : answer'[a] \in {answer[a], "lost"}
    BY <2>1
  <2>3. ASSUME NEW c \in AnyFacade!Streamers
        PROVE  \/ facadeQueue'[c] = facadeQueue[c]
               \/ \E items \in Seq({c} \cup FacadeMarks) : facadeQueue'[c] = AnyFacade!Put(facadeQueue[c], items)
    <3>1. <<"lost", "close">> \in Seq({c} \cup FacadeMarks) /\ <<"close">> \in Seq({c} \cup FacadeMarks)
      BY DEF FacadeMarks
    <3>2. \/ facadeQueue'[c] = facadeQueue[c]
          \/ facadeQueue'[c] = AnyFacade!Put(facadeQueue[c], <<"lost", "close">>)
          \/ facadeQueue'[c] = AnyFacade!Put(facadeQueue[c], <<"close">>)
      BY <2>1
    <3> QED
      BY <3>1, <3>2
  <2> QED
    BY <2>2, <2>3, FacadeOwnKept
<1> QED
  BY <1>1, <1>2

LEMMA FacadeOwnClosesTelling ==
  ASSUME FacadeAssumption, FacadeTypes, FacadeOwnInv, NEW s \in Opened, AnyFacade!ClosesTelling(s)
  PROVE  FacadeOwnInv'
<1>1. \A a \in AnyFacade!Askers : answer'[a] \in {answer[a], "deleted"}
  BY DEF AnyFacade!ClosesTelling
<1>2. ASSUME NEW c \in AnyFacade!Streamers
      PROVE  \/ facadeQueue'[c] = facadeQueue[c]
             \/ \E items \in Seq({c} \cup FacadeMarks) : facadeQueue'[c] = AnyFacade!Put(facadeQueue[c], items)
  BY FacadeOwnClosed DEF AnyFacade!ClosesTelling
<1> QED
  BY <1>1, <1>2, FacadeOwnKept

LEMMA FacadeOwnStep == ASSUME FacadeAssumption, FacadeTypes, FacadeOwnInv, FacadeNext PROVE FacadeOwnInv'
<1>1. ASSUME facadeQueue' = facadeQueue,
             \E x \in AnyFacade!Askers, why \in {"refused", "timeout"} :
               answer' = answer \/ answer' = [answer EXCEPT ![x] = why]
      PROVE  FacadeOwnInv'
  <2>1. \A a \in AnyFacade!Askers :
          answer'[a] \in {answer[a], a, "refused", "lost", "deleted", "timeout", "close"}
    BY <1>1 DEF FacadeTypes
  <2> QED
    BY <1>1, <2>1, FacadeOwnKept
<1>2. ASSUME NEW s \in Opened, FacadeSessionStep(s) PROVE FacadeOwnInv'
  <2>1. CASE FacadeCreates(s) \/ AnyFacade!Spawn(s) \/ AnyFacade!SpawnFails(s)
    BY <1>1, <2>1, FacadeNames DEF FacadeCreates, AnyFacade!Spawn, AnyFacade!SpawnFails
  <2>2. CASE \/ AnyFacade!BackendAnswers(s) \/ AnyFacade!BackendAsks(s) \/ AnyFacade!BackendStalls(s)
             \/ AnyFacade!BackendExits(s) \/ AnyFacade!DispatchRequest(s) \/ AnyFacade!Refuse(s)
             \/ AnyFacade!Refused(s) \/ AnyFacade!Stop(s)
    <3>1. answer' = answer /\ facadeQueue' = facadeQueue
      BY <2>2 DEF AnyFacade!BackendAnswers, AnyFacade!BackendAsks, AnyFacade!BackendStalls,
         AnyFacade!BackendExits, AnyFacade!DispatchRequest, AnyFacade!Refuse, AnyFacade!Refused, AnyFacade!Stop
    <3> QED
      BY <3>1, FacadeOwnKept
  <2> QED
    BY <1>2, <2>1, <2>2, FacadeOwnAnswered, FacadeOwnOffered, FacadeOwnExits, FacadeOwnClosesTelling
       DEF FacadeSessionStep, AnyFacade!Reap
<1>3. ASSUME NEW a \in AnyFacade!Askers,
             FacadeRegisters(a) \/ AnyFacade!Send(a) \/ AnyFacade!Written(a) \/ AnyFacade!Reply(a)
               \/ AnyFacade!TimesOut(a)
      PROVE  FacadeOwnInv'
  <2>1. CASE AnyFacade!Fails(a, "lost") \/ AnyFacade!Fails(a, "refused") \/ AnyFacade!Fails(a, "timeout")
               \/ AnyFacade!Gone(a)
    BY <2>1, FacadeOwnFailed, FacadeOwnGone
  <2>2. CASE answer' = answer /\ facadeQueue' = facadeQueue
    BY <2>2, FacadeOwnKept
  <2> QED
    BY <1>3, <2>1, <2>2
       DEF FacadeRegisters, AnyFacade!Send, AnyFacade!Written, AnyFacade!Reply, AnyFacade!TimesOut
<1>4. ASSUME NEW p \in Posted, AnyFacade!Post(p) \/ AnyFacade!SendTooLong(p) PROVE FacadeOwnInv'
  BY <1>1, <1>4, FacadeNames DEF AnyFacade!Post, AnyFacade!SendTooLong
<1>5. ASSUME NEW p \in Sse, AnyFacade!Attach(p) PROVE FacadeOwnInv'
  BY <1>1, <1>5, FacadeNames DEF AnyFacade!Attach
<1>6. ASSUME NEW g \in Gets, AnyFacade!Open(g) PROVE FacadeOwnInv'
  <2>1. answer' = answer /\ facadeQueue' = facadeQueue
    BY <1>6 DEF AnyFacade!Open
  <2> QED
    BY <2>1, FacadeOwnKept
<1>7. ASSUME NEW c \in AnyFacade!Streamers, AnyFacade!StreamGivesUp(c) PROVE FacadeOwnInv'
  <2>1. facadeQueue' = facadeQueue
    BY <1>7 DEF AnyFacade!StreamGivesUp
  <2>2. answer' = IF c \in Sse /\ answer[c] = None THEN [answer EXCEPT ![c] = "timeout"] ELSE answer
    BY <1>7, Zenon DEF AnyFacade!StreamGivesUp
  <2>3. \A a \in AnyFacade!Askers : answer'[a] \in {answer[a], "timeout"}
    BY <2>2 DEF FacadeTypes
  <2> QED
    BY <2>1, <2>3, FacadeOwnKept
<1>8. ASSUME NEW s \in Opened, AnyFacade!Delete(s) PROVE FacadeOwnInv'
  BY <1>8, FacadeOwnClosesTelling DEF AnyFacade!Delete
<1> QED
  BY <1>2, <1>3, <1>4, <1>5, <1>6, <1>7, <1>8, FacadeOwnStreams DEF FacadeNext, FacadeStep

\* A request that was not registered yet is not pending and has no answer; a
\* pending request with a JSON answer is on its way and has no answer.
FacadeSlotsInv ==
  /\ \A a \in AnyFacade!Askers :
       facadePc[a] \in {"idle", "spawns", "registers"} => answer[a] = None /\ a \notin facadePending
  /\ \A a \in facadePending \ Sse : facadePc[a] \in {"sends", "writes", "waits"} /\ answer[a] = None

\* A deleted session is over and its process is stopped or about to be.
FacadeOrphanInv == \A s \in deleted : facadePc[s] = "done" /\ (s \in ending \/ facadeProc[s] # "runs")

\* A request that a step of another touches stays where it is; what is doomed to
\* it takes it out of the pending ones, unless a stream is to say it.
FacadeStands(a) ==
  /\ facadePc'[a] = facadePc[a] /\ (a \in facadePending' => a \in facadePending)
  /\ \/ answer'[a] = answer[a]
     \/ a \in facadePending /\ (a \notin facadePending' \/ a \in Sse)

LEMMA FacadeSlotsKept ==
  ASSUME FacadeTypes, FacadeSlotsInv, facadePending' \subseteq AnyFacade!Askers,
         \A a \in AnyFacade!Askers :
           \/ FacadeStands(a)
           \/ /\ facadePc'[a] \in {"idle", "spawns", "registers"} => answer'[a] = None /\ a \notin facadePending'
              /\ a \in facadePending' \ Sse => facadePc'[a] \in {"sends", "writes", "waits"} /\ answer'[a] = None
  PROVE  FacadeSlotsInv'
<1>1. ASSUME NEW a \in AnyFacade!Askers
      PROVE  /\ facadePc'[a] \in {"idle", "spawns", "registers"} => answer'[a] = None /\ a \notin facadePending'
             /\ a \in facadePending' \ Sse => facadePc'[a] \in {"sends", "writes", "waits"} /\ answer'[a] = None
  BY DEF FacadeStands, FacadeSlotsInv
<1>2. AnyFacade!Askers' = AnyFacade!Askers
  BY DEF AnyFacade!Askers
<1> QED
  BY <1>1, <1>2 DEF FacadeSlotsInv

\* A closing session tells those that wait for its backend.
LEMMA FacadeClosesStands ==
  ASSUME FacadeTypes, NEW s \in Opened, AnyFacade!Closes(s), NEW a \in AnyFacade!Askers, facadePc'[a] = facadePc[a],
         answer'[a] = IF a \in AnyFacade!Told(s) THEN "deleted" ELSE answer[a]
  PROVE  FacadeStands(a)
BY DEF AnyFacade!Closes, AnyFacade!Told, AnyFacade!PendingOn, FacadeStands

LEMMA FacadeFailsStands ==
  ASSUME FacadeAssumption, FacadeTypes, NEW b \in AnyFacade!Askers, NEW why \in {"lost", "refused", "timeout"},
         AnyFacade!Fails(b, why)
  PROVE  facadePc' = [facadePc EXCEPT ![b] = "done"] /\ b \notin facadePending'
         /\ (\A a \in AnyFacade!Askers \ {b} : FacadeStands(a))
         /\ facadePending' \subseteq facadePending
<1>0. facadePc' = [facadePc EXCEPT ![b] = "done"]
  BY DEF AnyFacade!Fails
<1>1. CASE b \in Opened
  <2>1. /\ AnyFacade!Closes(b)
        /\ answer' = [x \in AnyFacade!Askers |-> IF x = b THEN why ELSE
                                                 IF x \in AnyFacade!Told(b) THEN "deleted" ELSE answer[x]]
    BY <1>1 DEF AnyFacade!Fails
  <2>2. b \notin facadePending' /\ facadePending' \subseteq facadePending
    BY <1>1, <2>1, FacadeNames DEF AnyFacade!Closes, AnyFacade!PendingOn
  <2>3. ASSUME NEW a \in AnyFacade!Askers \ {b} PROVE FacadeStands(a)
    <3>1. facadePc'[a] = facadePc[a] /\ answer'[a] = IF a \in AnyFacade!Told(b) THEN "deleted" ELSE answer[a]
      BY <1>0, <2>1 DEF FacadeTypes
    <3> QED
      BY <1>1, <2>1, <3>1, FacadeClosesStands
  <2> QED
    BY <1>0, <2>2, <2>3
<1>2. CASE b \notin Opened
  <2>1. answer' = [answer EXCEPT ![b] = why] /\ facadePending' = facadePending \ {b}
    BY <1>2 DEF AnyFacade!Fails
  <2> QED
    BY <1>0, <2>1 DEF FacadeStands, FacadeTypes
<1> QED
  BY <1>1, <1>2

LEMMA FacadeFailsSlots ==
  ASSUME FacadeAssumption, FacadeTypes, FacadeSlotsInv, NEW b \in AnyFacade!Askers,
         NEW why \in {"lost", "refused", "timeout"}, AnyFacade!Fails(b, why)
  PROVE  FacadeSlotsInv'
<1>1. facadePc'[b] = "done" /\ b \notin facadePending' /\ facadePending' \subseteq AnyFacade!Askers
      /\ \A a \in AnyFacade!Askers \ {b} : FacadeStands(a)
  BY FacadeFailsStands DEF FacadeTypes
<1> QED
  BY <1>1, FacadeSlotsKept

LEMMA FacadeGoneSlots ==
  ASSUME FacadeAssumption, FacadeTypes, FacadeSlotsInv, NEW b \in AnyFacade!Askers, AnyFacade!Gone(b)
  PROVE  FacadeSlotsInv'
<1>1. CASE b \in Sse
  <2>1. facadePc' = [facadePc EXCEPT ![b] = "streams"] /\ facadePending' = facadePending \ {b} /\ answer' = answer
    BY <1>1 DEF AnyFacade!Gone
  <2> QED
    BY <2>1, FacadeSlotsKept DEF FacadeStands, FacadeTypes
<1>2. CASE b \notin Sse
  BY <1>2, FacadeFailsSlots DEF AnyFacade!Gone
<1> QED
  BY <1>1, <1>2

LEMMA FacadeAnswersSlots ==
  ASSUME FacadeAssumption, FacadeTypes, FacadeSlotsInv, NEW s \in Opened, FacadeAnswers(s)
  PROVE  FacadeSlotsInv'
<1> DEFINE item == Head(facadeInbound[s])
<1>1. PICK hit \in SUBSET ({item} \cap AnyFacade!PendingOn(s)) :
        /\ facadePending' = facadePending \ hit
        /\ answer' = [a \in AnyFacade!Askers |-> IF a \in hit /\ ~AnyFacade!HasChannel(a)
                                                 THEN item ELSE answer[a]]
  BY DEF FacadeAnswers
<1>2. facadePc' = facadePc
  BY DEF FacadeAnswers
<1>3. ASSUME NEW a \in AnyFacade!Askers PROVE FacadeStands(a)
  BY <1>1, <1>2 DEF FacadeStands, AnyFacade!PendingOn
<1> QED
  BY <1>1, <1>3, FacadeSlotsKept DEF FacadeTypes

LEMMA FacadeExitSlots ==
  ASSUME FacadeAssumption, FacadeTypes, FacadeSlotsInv, NEW s \in Opened, AnyFacade!DispatchExit(s)
  PROVE  FacadeSlotsInv'
<1>0. facadePc' = facadePc
  BY DEF AnyFacade!DispatchExit
<1>1. CASE s \in deleted
  <2>1. answer' = answer /\ facadePending' = facadePending
    BY <1>1 DEF AnyFacade!DispatchExit
  <2> QED
    BY <1>0, <2>1, FacadeSlotsKept DEF FacadeStands, FacadeTypes
<1>2. CASE s \notin deleted
  <2>1. PICK doomed \in SUBSET AnyFacade!PendingOn(s) :
          answer' = [a \in AnyFacade!Askers |-> IF a \in doomed /\ ~AnyFacade!HasChannel(a) THEN "lost" ELSE answer[a]]
    BY <1>2, FacadeExitTells
  <2>2. facadePending' = facadePending \ AnyFacade!PendingOn(s)
    BY <1>2, FacadeExitTells
  <2>3. \A a \in AnyFacade!Askers : FacadeStands(a)
    BY <1>0, <2>1, <2>2 DEF FacadeStands, AnyFacade!PendingOn
  <2> QED
    BY <2>2, <2>3, FacadeSlotsKept DEF FacadeTypes
<1> QED
  BY <1>1, <1>2

LEMMA FacadeClosesTellingSlots ==
  ASSUME FacadeAssumption, FacadeTypes, FacadeSlotsInv, NEW s \in Opened, AnyFacade!ClosesTelling(s)
  PROVE  FacadeSlotsInv'
<1>1. facadePc' = facadePc /\ AnyFacade!Closes(s) /\ facadePending' \subseteq AnyFacade!Askers
  BY DEF AnyFacade!ClosesTelling, AnyFacade!Closes, FacadeTypes
<1>2. ASSUME NEW a \in AnyFacade!Askers PROVE FacadeStands(a)
  <2>1. answer'[a] = IF a \in AnyFacade!Told(s) THEN "deleted" ELSE answer[a]
    BY DEF AnyFacade!ClosesTelling
  <2> QED
    BY <1>1, <2>1, FacadeClosesStands
<1> QED
  BY <1>1, <1>2, FacadeSlotsKept

LEMMA FacadeSessionSlots ==
  ASSUME FacadeAssumption, FacadeTypes, FacadeSlotsInv, NEW s \in Opened, FacadeSessionStep(s)
  PROVE  FacadeSlotsInv'
<1>0. s \in AnyFacade!Askers /\ s \notin Sse /\ facadePending \subseteq AnyFacade!Askers
  BY FacadeNames DEF FacadeTypes
<1>1. CASE FacadeCreates(s) \/ AnyFacade!Spawn(s) \/ AnyFacade!SpawnFails(s)
  <2>1. /\ facadePc[s] \in {"idle", "spawns"} /\ facadePending' = facadePending
        /\ \/ facadePc' \in {[facadePc EXCEPT ![s] = "spawns"], [facadePc EXCEPT ![s] = "registers"]}
              /\ answer' = answer
           \/ facadePc' = [facadePc EXCEPT ![s] = "done"] /\ answer' = [answer EXCEPT ![s] = "refused"]
    BY <1>1 DEF FacadeCreates, AnyFacade!Spawn, AnyFacade!SpawnFails
  <2>2. \A a \in AnyFacade!Askers \ {s} : FacadeStands(a)
    BY <2>1 DEF FacadeStands, FacadeTypes
  <2> QED
    BY <1>0, <2>1, <2>2, FacadeSlotsKept DEF FacadeSlotsInv, FacadeTypes
<1>2. CASE facadePc' = facadePc /\ answer' = answer /\ facadePending' = facadePending
  BY <1>0, <1>2, FacadeSlotsKept DEF FacadeStands
<1>3. CASE AnyFacade!DispatchExit(s) \/ AnyFacade!Reap(s) \/ FacadeAnswers(s)
  BY <1>3, FacadeExitSlots, FacadeClosesTellingSlots, FacadeAnswersSlots DEF AnyFacade!Reap
<1>4. CASE \/ AnyFacade!BackendAnswers(s) \/ AnyFacade!BackendAsks(s) \/ AnyFacade!BackendStalls(s)
           \/ AnyFacade!BackendExits(s) \/ AnyFacade!DispatchRequest(s) \/ AnyFacade!Offer(s)
           \/ AnyFacade!Refuse(s) \/ AnyFacade!Refused(s) \/ AnyFacade!Stop(s)
  BY <1>2, <1>4
     DEF AnyFacade!BackendAnswers, AnyFacade!BackendAsks, AnyFacade!BackendStalls, AnyFacade!BackendExits,
         AnyFacade!DispatchRequest, AnyFacade!Offer, AnyFacade!Refuse, AnyFacade!Refused, AnyFacade!Stop
<1> QED
  BY <1>1, <1>3, <1>4 DEF FacadeSessionStep

LEMMA FacadeHandlerSlots ==
  ASSUME FacadeAssumption, FacadeTypes, FacadeSlotsInv, NEW b \in AnyFacade!Askers,
         FacadeRegisters(b) \/ AnyFacade!Send(b) \/ AnyFacade!Written(b) \/ AnyFacade!Reply(b)
           \/ AnyFacade!TimesOut(b)
  PROVE  FacadeSlotsInv'
<1>1. CASE AnyFacade!Fails(b, "lost") \/ AnyFacade!Fails(b, "refused") \/ AnyFacade!Fails(b, "timeout")
             \/ AnyFacade!Gone(b)
  BY <1>1, FacadeFailsSlots, FacadeGoneSlots
<1>2. CASE /\ facadePc[b] = "registers" /\ facadePending' = facadePending \cup {b} /\ answer' = answer
           /\ facadePc' = [facadePc EXCEPT ![b] = IF b \in Sse THEN "attaches" ELSE "sends"]
  <2>1. \A a \in AnyFacade!Askers \ {b} : FacadeStands(a)
    BY <1>2 DEF FacadeStands, FacadeTypes
  <2>2. answer'[b] = None /\ facadePc'[b] = IF b \in Sse THEN "attaches" ELSE "sends"
    BY <1>2 DEF FacadeSlotsInv, FacadeTypes
  <2>3. facadePending' \subseteq AnyFacade!Askers
    BY <1>2 DEF FacadeTypes
  <2> QED
    BY <2>1, <2>2, <2>3, FacadeSlotsKept
<1>3. CASE /\ facadePc[b] \in {"sends", "writes"} /\ facadePending' = facadePending /\ answer' = answer
           /\ \/ facadePc' = [facadePc EXCEPT ![b] = "writes"]
              \/ facadePc' = [facadePc EXCEPT ![b] = IF b \in Sse THEN "streams" ELSE "waits"]
  <2>1. \A a \in AnyFacade!Askers \ {b} : FacadeStands(a)
    BY <1>3 DEF FacadeStands, FacadeTypes
  <2>2. /\ facadePc'[b] \in {"writes", "streams", "waits"}
        /\ b \in facadePending' \ Sse => facadePc'[b] \in {"writes", "waits"} /\ answer'[b] = None
    BY <1>3 DEF FacadeSlotsInv, FacadeTypes
  <2>3. facadePending' \subseteq AnyFacade!Askers
    BY <1>3 DEF FacadeTypes
  <2> QED
    BY <2>1, <2>2, <2>3, FacadeSlotsKept
<1>4. CASE AnyFacade!Reply(b)
  <2>0. facadePc[b] = "waits" /\ answer[b] # None /\ facadePc' = [facadePc EXCEPT ![b] = "done"]
        /\ answer' = answer /\ facadePending' = facadePending
    BY <1>4 DEF AnyFacade!Reply
  <2>1. \A a \in AnyFacade!Askers \ {b} : FacadeStands(a)
    BY <2>0 DEF FacadeStands, FacadeTypes
  <2>2. facadePc'[b] = "done" /\ b \notin facadePending' \ Sse
    BY <2>0 DEF FacadeSlotsInv, FacadeTypes
  <2>3. facadePending' \subseteq AnyFacade!Askers
    BY <2>0 DEF FacadeTypes
  <2> QED
    BY <2>1, <2>2, <2>3, FacadeSlotsKept
<1>5. CASE FacadeRegisters(b)
  BY <1>1, <1>2, <1>5 DEF FacadeRegisters
<1>6. CASE AnyFacade!Send(b)
  BY <1>1, <1>3, <1>6 DEF AnyFacade!Send
<1>7. CASE AnyFacade!Written(b)
  BY <1>1, <1>3, <1>7 DEF AnyFacade!Written
<1>8. CASE AnyFacade!TimesOut(b)
  BY <1>1, <1>8 DEF AnyFacade!TimesOut
<1> QED
  BY <1>4, <1>5, <1>6, <1>7, <1>8

LEMMA FacadeSlotsStep ==
  ASSUME FacadeAssumption, FacadeTypes, FacadeSlotsInv,
         FacadeStep \/ (\E a \in AnyFacade!Askers : AnyFacade!TimesOut(a)) \/ \E s \in Opened : AnyFacade!Delete(s)
  PROVE  FacadeSlotsInv'
<1>0. facadePending \subseteq AnyFacade!Askers
  BY DEF FacadeTypes
<1>1. ASSUME NEW p \in Posted, AnyFacade!Post(p) PROVE FacadeSlotsInv'
  <2>1. /\ facadePc[p] = "idle" /\ facadePending' = facadePending
        /\ \/ facadePc' = [facadePc EXCEPT ![p] = "registers"] /\ answer' = answer
           \/ facadePc' = [facadePc EXCEPT ![p] = "done"] /\ answer' = [answer EXCEPT ![p] = "refused"]
    BY <1>1 DEF AnyFacade!Post
  <2>2. p \in AnyFacade!Askers /\ \A a \in AnyFacade!Askers \ {p} : FacadeStands(a)
    BY <2>1, FacadeNames DEF FacadeStands, FacadeTypes
  <2>3. /\ facadePc'[p] \in {"idle", "spawns", "registers"} => answer'[p] = None
        /\ p \notin facadePending'
    BY <2>1, <2>2 DEF FacadeSlotsInv, FacadeTypes
  <2> QED
    BY <1>0, <2>1, <2>2, <2>3, FacadeSlotsKept
<1>2. ASSUME NEW p \in Sse, AnyFacade!Attach(p) PROVE FacadeSlotsInv'
  <2>1. /\ facadePc' \in {[facadePc EXCEPT ![p] = "sends"], [facadePc EXCEPT ![p] = "done"]}
        /\ facadePending' = facadePending /\ answer' \in {answer, [answer EXCEPT ![p] = "refused"]}
    BY <1>2 DEF AnyFacade!Attach
  <2>2. p \in AnyFacade!Askers /\ facadePc'[p] \in {"sends", "done"}
        /\ \A a \in AnyFacade!Askers \ {p} : FacadeStands(a)
    BY <2>1, FacadeNames DEF FacadeStands, FacadeTypes
  <2> QED
    BY <1>0, <2>1, <2>2, FacadeSlotsKept
<1>3. ASSUME NEW g \in Gets, AnyFacade!Open(g) PROVE FacadeSlotsInv'
  <2>1. /\ facadePc' \in {[facadePc EXCEPT ![g] = "streams"], [facadePc EXCEPT ![g] = "done"]}
        /\ facadePending' = facadePending /\ answer' = answer
    BY <1>3 DEF AnyFacade!Open
  <2>2. \A a \in AnyFacade!Askers : FacadeStands(a)
    BY <2>1, FacadeNames DEF FacadeStands, FacadeTypes
  <2> QED
    BY <1>0, <2>1, <2>2, FacadeSlotsKept
<1>4. ASSUME NEW c \in AnyFacade!Streamers, AnyFacade!Stream(c) \/ AnyFacade!StreamGivesUp(c) PROVE FacadeSlotsInv'
  <2>1. facadePc[c] = "streams" /\ facadePending' = facadePending
        /\ facadePc' \in {facadePc, [facadePc EXCEPT ![c] = "done"]}
    BY <1>4 DEF AnyFacade!Stream, AnyFacade!StreamGivesUp
  <2>2. answer' = answer \/ (c \in Sse /\ \E x : answer' = [answer EXCEPT ![c] = x])
    <3>1. CASE AnyFacade!Stream(c)
      <4>1. answer' = IF c \in Sse /\ answer[c] = None /\ Head(facadeQueue[c]) # "request"
                      THEN [answer EXCEPT ![c] = Head(facadeQueue[c])] ELSE answer
        BY <3>1, Zenon DEF AnyFacade!Stream
      <4> QED
        BY <4>1
    <3>2. CASE AnyFacade!StreamGivesUp(c)
      <4>1. answer' = IF c \in Sse /\ answer[c] = None THEN [answer EXCEPT ![c] = "timeout"] ELSE answer
        BY <3>2, Zenon DEF AnyFacade!StreamGivesUp
      <4> QED
        BY <4>1
    <3> QED
      BY <1>4, <3>1, <3>2
  <2>3. \A a \in AnyFacade!Askers \ {c} : FacadeStands(a)
    BY <2>1, <2>2 DEF FacadeStands, FacadeTypes
  <2>4. c \in AnyFacade!Askers => c \in Sse /\ facadePc'[c] \in {"streams", "done"}
    BY <2>1, FacadeNames DEF FacadeTypes, AnyFacade!Streamers
  <2> QED
    BY <1>0, <2>1, <2>3, <2>4, FacadeSlotsKept
<1>5. ASSUME NEW s \in Opened, AnyFacade!Delete(s) PROVE FacadeSlotsInv'
  BY <1>5, FacadeClosesTellingSlots DEF AnyFacade!Delete
<1> QED
  BY <1>1, <1>2, <1>3, <1>4, <1>5, FacadeSessionSlots, FacadeHandlerSlots DEF FacadeStep

\* A step that closes nothing.
LEMMA FacadeOrphanOpen ==
  ASSUME FacadeTypes, FacadeOrphanInv, deleted' = deleted, ending' = ending, facadeProc' = facadeProc,
         \A s \in Opened : facadePc[s] = "done" => facadePc'[s] = "done"
  PROVE  FacadeOrphanInv'
BY DEF FacadeOrphanInv, FacadeTypes

LEMMA FacadeOrphanClosed ==
  ASSUME FacadeTypes, FacadeOrphanInv, NEW s \in Opened, AnyFacade!Closes(s), facadeProc' = facadeProc,
         (facadePc' = facadePc /\ facadePc[s] = "done") \/ facadePc' = [facadePc EXCEPT ![s] = "done"]
  PROVE  FacadeOrphanInv'
<1>1. deleted' = deleted \cup {s} /\ ending' = ending \cup ({s} \ deleted)
  BY DEF AnyFacade!Closes
<1>2. s \in AnyFacade!Askers \cup Gets
  BY DEF AnyFacade!Askers
<1>3. facadePc'[s] = "done" /\ \A x \in Opened \ {s} : facadePc'[x] = facadePc[x]
  <2>1. CASE facadePc' = facadePc /\ facadePc[s] = "done"
    BY <2>1
  <2>2. CASE facadePc' = [facadePc EXCEPT ![s] = "done"]
    BY <1>2, <2>2 DEF FacadeTypes
  <2> QED
    BY <2>1, <2>2
<1>4. ASSUME NEW x \in deleted' PROVE facadePc'[x] = "done" /\ (x \in ending' \/ facadeProc'[x] # "runs")
  <2>1. CASE x = s
    BY <1>1, <1>3, <2>1 DEF FacadeOrphanInv
  <2>2. CASE x # s
    <3>1. x \in deleted /\ x \in Opened
      BY <1>1, <2>2 DEF FacadeTypes
    <3> QED
      BY <1>1, <1>3, <2>2, <3>1 DEF FacadeOrphanInv
  <2> QED
    BY <2>1, <2>2
<1> QED
  BY <1>4 DEF FacadeOrphanInv

LEMMA FacadeOrphanFailed ==
  ASSUME FacadeAssumption, FacadeTypes, FacadeOrphanInv, NEW b \in AnyFacade!Askers,
         NEW why \in {"lost", "refused", "timeout"}, AnyFacade!Fails(b, why), facadeProc' = facadeProc
  PROVE  FacadeOrphanInv'
<1>0. facadePc' = [facadePc EXCEPT ![b] = "done"]
  BY DEF AnyFacade!Fails
<1>1. CASE b \in Opened
  BY <1>0, <1>1, FacadeOrphanClosed DEF AnyFacade!Fails
<1>2. CASE b \notin Opened
  <2>1. deleted' = deleted /\ ending' = ending
    BY <1>2 DEF AnyFacade!Fails, AnyFacade!lives
  <2>2. \A s \in Opened : facadePc[s] = "done" => facadePc'[s] = "done"
    BY <1>0, <1>2, FacadeNames DEF FacadeTypes
  <2> QED
    BY <2>1, <2>2, FacadeOrphanOpen
<1> QED
  BY <1>1, <1>2

LEMMA FacadeOrphanGone ==
  ASSUME FacadeAssumption, FacadeTypes, FacadeOrphanInv, NEW b \in AnyFacade!Askers, AnyFacade!Gone(b),
         facadeProc' = facadeProc
  PROVE  FacadeOrphanInv'
<1>1. CASE b \in Sse
  <2>1. deleted' = deleted /\ ending' = ending /\ facadePc' = [facadePc EXCEPT ![b] = "streams"]
    BY <1>1 DEF AnyFacade!Gone, AnyFacade!lives
  <2>2. \A s \in Opened : facadePc'[s] = facadePc[s]
    BY <1>1, <2>1, FacadeNames DEF FacadeTypes
  <2> QED
    BY <2>1, <2>2, FacadeOrphanOpen
<1>2. CASE b \notin Sse
  BY <1>2, FacadeOrphanFailed DEF AnyFacade!Gone
<1> QED
  BY <1>1, <1>2

LEMMA FacadeOrphanSession ==
  ASSUME FacadeAssumption, FacadeTypes, FacadeOrphanInv, NEW s \in Opened, FacadeSessionStep(s)
  PROVE  FacadeOrphanInv'
<1>0. \A x \in Opened : x \in DOMAIN facadePc /\ x \in DOMAIN facadeProc
  BY DEF FacadeTypes, AnyFacade!Askers
<1>1. CASE FacadeCreates(s) \/ AnyFacade!SpawnFails(s)
  <2>1. deleted' = deleted /\ ending' = ending /\ facadeProc' = facadeProc /\ facadePc[s] # "done"
        /\ facadePc' \in {[facadePc EXCEPT ![s] = "spawns"], [facadePc EXCEPT ![s] = "done"]}
    BY <1>1 DEF FacadeCreates, AnyFacade!SpawnFails, AnyFacade!lives, AnyFacade!process
  <2> QED
    BY <1>0, <2>1, FacadeOrphanOpen
<1>2. CASE AnyFacade!Spawn(s)
  <2>1. deleted' = deleted /\ ending' = ending /\ facadePc[s] = "spawns"
        /\ facadePc' = [facadePc EXCEPT ![s] = "registers"] /\ facadeProc' = [facadeProc EXCEPT ![s] = "runs"]
    BY <1>2 DEF AnyFacade!Spawn, AnyFacade!lives
  <2> QED
    BY <1>0, <2>1 DEF FacadeOrphanInv, FacadeTypes
<1>3. CASE \/ AnyFacade!BackendAnswers(s) \/ AnyFacade!BackendAsks(s) \/ AnyFacade!BackendStalls(s)
           \/ FacadeAnswers(s) \/ AnyFacade!DispatchRequest(s) \/ AnyFacade!Offer(s)
           \/ AnyFacade!Refuse(s) \/ AnyFacade!Refused(s) \/ AnyFacade!DispatchExit(s)
  <2>1. deleted' = deleted /\ ending' = ending /\ facadeProc' = facadeProc /\ facadePc' = facadePc
    BY <1>3
       DEF AnyFacade!BackendAnswers, AnyFacade!BackendAsks, AnyFacade!BackendStalls, FacadeAnswers,
           AnyFacade!DispatchRequest, AnyFacade!Offer, AnyFacade!Refuse, AnyFacade!Refused,
           AnyFacade!DispatchExit, AnyFacade!lives, AnyFacade!process
  <2> QED
    BY <2>1, FacadeOrphanOpen
<1>4. CASE AnyFacade!BackendExits(s)
  <2>1. deleted' = deleted /\ ending' = ending /\ facadePc' = facadePc
        /\ facadeProc' = [facadeProc EXCEPT ![s] = "over"]
    BY <1>4 DEF AnyFacade!BackendExits, AnyFacade!lives
  <2> QED
    BY <1>0, <2>1 DEF FacadeOrphanInv, FacadeTypes
<1>5. CASE AnyFacade!Reap(s)
  BY <1>5, FacadeOrphanClosed DEF AnyFacade!Reap, AnyFacade!ClosesTelling, AnyFacade!process
<1>6. CASE AnyFacade!Stop(s)
  <2>1. /\ deleted' = deleted /\ ending' = ending \ {s} /\ facadePc' = facadePc
        /\ facadeProc' = IF facadeProc[s] = "runs" THEN [facadeProc EXCEPT ![s] = "over"] ELSE facadeProc
    BY <1>6 DEF AnyFacade!Stop
  <2>2. facadeProc'[s] # "runs" /\ \A x \in Opened \ {s} : facadeProc'[x] = facadeProc[x]
    BY <1>0, <2>1
  <2> QED
    BY <1>0, <2>1, <2>2 DEF FacadeOrphanInv, FacadeTypes
<1> QED
  BY <1>1, <1>2, <1>3, <1>4, <1>5, <1>6 DEF FacadeSessionStep

LEMMA FacadeOrphanHandler ==
  ASSUME FacadeAssumption, FacadeTypes, FacadeOrphanInv, NEW b \in AnyFacade!Askers,
         FacadeRegisters(b) \/ AnyFacade!Send(b) \/ AnyFacade!Written(b) \/ AnyFacade!Reply(b)
           \/ AnyFacade!TimesOut(b)
  PROVE  FacadeOrphanInv'
<1>0. facadeProc' = facadeProc /\ facadePc[b] # "done"
  BY DEF FacadeRegisters, AnyFacade!Send, AnyFacade!Written, AnyFacade!Reply, AnyFacade!TimesOut,
     AnyFacade!process
<1>1. CASE AnyFacade!Fails(b, "lost") \/ AnyFacade!Fails(b, "refused") \/ AnyFacade!Fails(b, "timeout")
             \/ AnyFacade!Gone(b)
  BY <1>0, <1>1, FacadeOrphanFailed, FacadeOrphanGone
<1>2. CASE UNCHANGED AnyFacade!lives /\ \E x : facadePc' = [facadePc EXCEPT ![b] = x]
  <2>1. deleted' = deleted /\ ending' = ending
    BY <1>2 DEF AnyFacade!lives
  <2>2. \A s \in Opened : facadePc[s] = "done" => facadePc'[s] = "done"
    BY <1>0, <1>2 DEF FacadeTypes, AnyFacade!Askers
  <2> QED
    BY <1>0, <2>1, <2>2, FacadeOrphanOpen
<1>3. CASE FacadeRegisters(b)
  <2>1. CASE AnyFacade!Fails(b, "lost") \/ AnyFacade!Fails(b, "refused")
    BY <1>1, <2>1
  <2>2. CASE UNCHANGED AnyFacade!lives /\ facadePc' = [facadePc EXCEPT ![b] = IF b \in Sse THEN "attaches" ELSE "sends"]
    BY <1>2, <2>2
  <2> QED
    BY <1>3, <2>1, <2>2 DEF FacadeRegisters
<1>4. CASE AnyFacade!Send(b)
  <2>1. CASE AnyFacade!Gone(b)
    BY <1>1, <2>1
  <2>2. CASE UNCHANGED AnyFacade!lives /\ facadePc' = [facadePc EXCEPT ![b] = "writes"]
    BY <1>2, <2>2
  <2> QED
    BY <1>4, <2>1, <2>2 DEF AnyFacade!Send
<1>5. CASE AnyFacade!Written(b)
  <2>1. CASE AnyFacade!Gone(b)
    BY <1>1, <2>1
  <2>2. CASE UNCHANGED AnyFacade!lives /\ facadePc' = [facadePc EXCEPT ![b] = IF b \in Sse THEN "streams" ELSE "waits"]
    BY <1>2, <2>2
  <2> QED
    BY <1>5, <2>1, <2>2 DEF AnyFacade!Written
<1>6. CASE AnyFacade!Reply(b)
  BY <1>2, <1>6 DEF AnyFacade!Reply
<1>7. CASE AnyFacade!TimesOut(b)
  BY <1>1, <1>7 DEF AnyFacade!TimesOut
<1> QED
  BY <1>3, <1>4, <1>5, <1>6, <1>7

LEMMA FacadeOrphanStep ==
  ASSUME FacadeAssumption, FacadeTypes, FacadeOrphanInv,
         \/ FacadeStep \/ \E a \in AnyFacade!Askers : AnyFacade!TimesOut(a)
         \/ \E p \in Posted : AnyFacade!SendTooLong(p)
         \/ \E s \in Opened : facadePc[s] = "done" /\ AnyFacade!Delete(s)
  PROVE  FacadeOrphanInv'
<1>1. ASSUME NEW c \in AnyFacade!Streamers \cup Posted, deleted' = deleted, ending' = ending,
             facadeProc' = facadeProc,
             facadePc' = facadePc \/ \E x : facadePc' = [facadePc EXCEPT ![c] = x]
      PROVE  FacadeOrphanInv'
  <2>1. \A s \in Opened : facadePc'[s] = facadePc[s]
    BY <1>1, FacadeNames DEF FacadeTypes
  <2> QED
    BY <1>1, <2>1, FacadeOrphanOpen
<1>2. ASSUME NEW p \in Posted, AnyFacade!Post(p) \/ AnyFacade!SendTooLong(p) PROVE FacadeOrphanInv'
  <2>1. deleted' = deleted /\ ending' = ending /\ facadeProc' = facadeProc
        /\ facadePc' \in {[facadePc EXCEPT ![p] = "registers"], [facadePc EXCEPT ![p] = "done"]}
    BY <1>2 DEF AnyFacade!Post, AnyFacade!SendTooLong, AnyFacade!lives, AnyFacade!process
  <2> QED
    BY <1>1, <2>1
<1>3. ASSUME NEW p \in Sse, AnyFacade!Attach(p) PROVE FacadeOrphanInv'
  <2>1. deleted' = deleted /\ ending' = ending /\ facadeProc' = facadeProc
        /\ facadePc' \in {[facadePc EXCEPT ![p] = "sends"], [facadePc EXCEPT ![p] = "done"]}
    BY <1>3 DEF AnyFacade!Attach, AnyFacade!lives, AnyFacade!process
  <2> QED
    BY <1>1, <2>1, FacadeNames
<1>4. ASSUME NEW g \in Gets, AnyFacade!Open(g) PROVE FacadeOrphanInv'
  <2>1. deleted' = deleted /\ ending' = ending /\ facadeProc' = facadeProc
        /\ facadePc' \in {[facadePc EXCEPT ![g] = "streams"], [facadePc EXCEPT ![g] = "done"]}
    BY <1>4 DEF AnyFacade!Open, AnyFacade!lives, AnyFacade!process
  <2> QED
    BY <1>1, <2>1, FacadeNames
<1>5. ASSUME NEW c \in AnyFacade!Streamers, AnyFacade!Stream(c) \/ AnyFacade!StreamGivesUp(c) PROVE FacadeOrphanInv'
  <2>1. deleted' = deleted /\ ending' = ending /\ facadeProc' = facadeProc
        /\ facadePc' \in {facadePc, [facadePc EXCEPT ![c] = "done"]}
    BY <1>5 DEF AnyFacade!Stream, AnyFacade!StreamGivesUp, AnyFacade!lives, AnyFacade!process
  <2> QED
    BY <1>1, <2>1
<1>6. ASSUME NEW s \in Opened, facadePc[s] = "done", AnyFacade!Delete(s) PROVE FacadeOrphanInv'
  BY <1>6, FacadeOrphanClosed DEF AnyFacade!Delete, AnyFacade!ClosesTelling, AnyFacade!process
<1> QED
  BY <1>2, <1>3, <1>4, <1>5, <1>6, FacadeOrphanSession, FacadeOrphanHandler DEF FacadeStep

\* The backend of a session, or the dispatcher in its turn, has a request.
FacadeHolds(s, a) == a \in todo[s] \/ \E i \in DOMAIN facadeInbound[s] : facadeInbound[s][i] = a

\* No two pending requests of a session have the same id, ...
FacadeIdsApart ==
  \A a, b \in facadePending :
    AnyFacade!SessionOf(a) = AnyFacade!SessionOf(b) /\ Named[a] = Named[b] => a = b

\* ... a request is pending from its registration until it is answered or its
\* session is lost, and a session is only closed when nothing of it runs, ...
FacadeIdsPlace(a) ==
  /\ a \in facadePending => /\ AnyFacade!SessionOf(a) \notin dead \cup deleted
                            /\ facadePc[a] \notin {"idle", "spawns", "registers"}
  /\ facadePc[a] \in {"attaches", "sends", "writes"} =>
       a \in facadePending \/ AnyFacade!SessionOf(a) \in dead \cup deleted
  /\ AnyFacade!SessionOf(a) \in deleted => facadePc[a] = "done" \/ (a \in Posted /\ facadePc[a] = "idle")
  /\ a \in Posted /\ facadePc[a] # "idle" => facadePc[On[a]] = "done"

\* ... and the backend has each request at most once, and only while it is
\* pending or its session lost.
FacadeIdsPipes ==
  /\ \A s \in Opened, a \in AnyFacade!Askers : FacadeHolds(s, a) =>
       /\ AnyFacade!SessionOf(a) = s /\ facadePc[a] \in {"waits", "streams", "done"}
       /\ (a \in facadePending \/ s \in dead \cup deleted)
  /\ \A s \in Opened : \A i \in DOMAIN facadeInbound[s] : facadeInbound[s][i] \notin todo[s]
  /\ \A s \in Opened : \A i, j \in DOMAIN facadeInbound[s] :
       facadeInbound[s][i] = facadeInbound[s][j] /\ facadeInbound[s][i] \in AnyFacade!Askers => i = j

FacadeIdsInv ==
  /\ FacadeIdsApart
  /\ \A a \in AnyFacade!Askers : FacadeIdsPlace(a)
  /\ FacadeIdsPipes

\* A registration that checks the ids.
FacadeRegistersApart(a) ==
  /\ facadePc[a] = "registers"
  /\ \/ AnyFacade!Fails(a, "lost") \/ AnyFacade!Fails(a, "refused")
     \/ /\ AnyFacade!SessionOf(a) \notin dead
        /\ \A b \in AnyFacade!PendingOn(AnyFacade!SessionOf(a)) : Named[b] # Named[a]
        /\ facadePending' = facadePending \cup {a}
        /\ facadePc' = [facadePc EXCEPT ![a] = IF a \in Sse THEN "attaches" ELSE "sends"]
        /\ UNCHANGED <<answer, AnyFacade!lives, chans, facadeQueue>>
  /\ UNCHANGED <<AnyFacade!process, AnyFacade!pipes>>

\* The steps of clients that choose their ids themselves.
FacadeIdsNext ==
  \/ \E s \in Opened : FacadeSessionStep(s)
  \/ \E a \in AnyFacade!Askers : FacadeRegistersApart(a) \/ AnyFacade!Send(a) \/ AnyFacade!Written(a)
                                 \/ AnyFacade!Reply(a)
  \/ \E p \in Posted : AnyFacade!Post(p) \/ AnyFacade!SendTooLong(p)
  \/ \E p \in Sse : AnyFacade!Attach(p)
  \/ \E g \in Gets : AnyFacade!Open(g)
  \/ \E c \in AnyFacade!Streamers : AnyFacade!Stream(c) \/ AnyFacade!StreamGivesUp(c)

\* A request that has been sent stays sent, and is pending until its session is
\* lost.
FacadeStaysSent(a) ==
  facadePc[a] \in {"waits", "streams", "done"} =>
    /\ facadePc'[a] \in {"waits", "streams", "done"}
    /\ a \in facadePending \ facadePending' => AnyFacade!SessionOf(a) \in dead' \cup deleted'

LEMMA FacadePipesKept ==
  ASSUME FacadeTypes, FacadeIdsPipes, todo' = todo, facadeInbound' = facadeInbound,
         dead \subseteq dead', deleted \subseteq deleted',
         \A a \in AnyFacade!Askers : FacadeStaysSent(a)
  PROVE  FacadeIdsPipes'
<1>1. ASSUME NEW s \in Opened, NEW a \in AnyFacade!Askers, FacadeHolds(s, a)'
      PROVE  /\ AnyFacade!SessionOf(a) = s /\ facadePc'[a] \in {"waits", "streams", "done"}
             /\ (a \in facadePending' \/ s \in dead' \cup deleted')
  <2>1. FacadeHolds(s, a)
    BY <1>1 DEF FacadeHolds
  <2>2. AnyFacade!SessionOf(a) = s /\ facadePc[a] \in {"waits", "streams", "done"}
        /\ (a \in facadePending \/ s \in dead \cup deleted)
    BY <2>1 DEF FacadeIdsPipes
  <2> QED
    BY <2>2 DEF FacadeStaysSent
<1>2. AnyFacade!Askers' = AnyFacade!Askers /\ \A a : AnyFacade!SessionOf(a)' = AnyFacade!SessionOf(a)
  BY DEF AnyFacade!Askers, AnyFacade!SessionOf
<1> QED
  BY <1>1, <1>2 DEF FacadeIdsPipes

\* Something else than an answer is put into the inbound queue.
LEMMA FacadePipesNoticed ==
  ASSUME FacadeAssumption, FacadeTypes, FacadeIdsPipes, NEW s \in Opened, NEW mark \in {"request", "exit"}, todo' = todo,
         facadeInbound' = [facadeInbound EXCEPT ![s] = Append(@, mark)],
         dead' = dead, deleted' = deleted, facadePc' = facadePc, facadePending' = facadePending
  PROVE  FacadeIdsPipes'
<1>1. /\ facadeInbound[s] \in Seq(AnyFacade!Askers \cup {"request", "exit"})
      /\ facadeInbound'[s] = Append(facadeInbound[s], mark)
      /\ \A x \in Opened \ {s} : facadeInbound'[x] = facadeInbound[x]
  BY DEF FacadeTypes
<1>2. /\ DOMAIN facadeInbound[s] = 1..Len(facadeInbound[s]) /\ Len(facadeInbound[s]) \in Nat
      /\ DOMAIN facadeInbound'[s] = 1..(Len(facadeInbound[s]) + 1)
      /\ \A i \in DOMAIN facadeInbound[s] : facadeInbound'[s][i] = facadeInbound[s][i]
      /\ facadeInbound'[s][Len(facadeInbound[s]) + 1] = mark
  BY <1>1, AppendProperties
<1>3. mark \notin AnyFacade!Askers
  BY FacadeNames
<1>4. \A x \in Opened : \A i \in DOMAIN facadeInbound'[x] :
        facadeInbound'[x][i] \in AnyFacade!Askers =>
          i \in DOMAIN facadeInbound[x] /\ facadeInbound'[x][i] = facadeInbound[x][i]
  <2>1. ASSUME NEW i \in DOMAIN facadeInbound'[s], facadeInbound'[s][i] \in AnyFacade!Askers
        PROVE  i \in DOMAIN facadeInbound[s] /\ facadeInbound'[s][i] = facadeInbound[s][i]
    BY <1>2, <1>3, <2>1
  <2> QED
    BY <1>1, <2>1
<1>5. ASSUME NEW x \in Opened, NEW a \in AnyFacade!Askers, FacadeHolds(x, a)' PROVE FacadeHolds(x, a)
  BY <1>4, <1>5 DEF FacadeHolds
<1>6. \A x \in Opened : \A i \in DOMAIN facadeInbound'[x] : facadeInbound'[x][i] \notin todo[x]
  <2>1. ASSUME NEW x \in Opened, NEW i \in DOMAIN facadeInbound'[x] PROVE facadeInbound'[x][i] \notin todo[x]
    <3>1. todo[x] \subseteq AnyFacade!Askers
      BY DEF FacadeTypes
    <3> QED
      BY <1>4, <3>1 DEF FacadeIdsPipes
  <2> QED
    BY <2>1
<1>7. \A x \in Opened : \A i, j \in DOMAIN facadeInbound'[x] :
        facadeInbound'[x][i] = facadeInbound'[x][j] /\ facadeInbound'[x][i] \in AnyFacade!Askers => i = j
  BY <1>4 DEF FacadeIdsPipes
<1>8. AnyFacade!Askers' = AnyFacade!Askers /\ \A a : AnyFacade!SessionOf(a)' = AnyFacade!SessionOf(a)
  BY DEF AnyFacade!Askers, AnyFacade!SessionOf
<1> QED
  BY <1>5, <1>6, <1>7, <1>8 DEF FacadeIdsPipes

\* The backend answers a request it had.
LEMMA FacadePipesAnswered ==
  ASSUME FacadeAssumption, FacadeTypes, FacadeIdsPipes, NEW s \in Opened, AnyFacade!BackendAnswers(s)
  PROVE  FacadeIdsPipes'
<1>0. dead' = dead /\ deleted' = deleted /\ facadePc' = facadePc /\ facadePending' = facadePending
  BY DEF AnyFacade!BackendAnswers, AnyFacade!lives
<1>1. PICK b \in todo[s] : /\ todo' = [todo EXCEPT ![s] = @ \ {b}]
                           /\ facadeInbound' = [facadeInbound EXCEPT ![s] = Append(@, b)]
  BY DEF AnyFacade!BackendAnswers
<1>2. /\ facadeInbound[s] \in Seq(AnyFacade!Askers \cup {"request", "exit"}) /\ b \in AnyFacade!Askers
      /\ facadeInbound'[s] = Append(facadeInbound[s], b) /\ todo'[s] = todo[s] \ {b}
      /\ \A x \in Opened \ {s} : facadeInbound'[x] = facadeInbound[x] /\ todo'[x] = todo[x]
  BY <1>1 DEF FacadeTypes
<1>3. /\ DOMAIN facadeInbound[s] = 1..Len(facadeInbound[s]) /\ Len(facadeInbound[s]) \in Nat
      /\ DOMAIN facadeInbound'[s] = 1..(Len(facadeInbound[s]) + 1)
      /\ \A i \in DOMAIN facadeInbound[s] : facadeInbound'[s][i] = facadeInbound[s][i]
      /\ facadeInbound'[s][Len(facadeInbound[s]) + 1] = b
  BY <1>2, AppendProperties
<1>4. \A i \in DOMAIN facadeInbound'[s] : facadeInbound'[s][i] # b =>
        i \in DOMAIN facadeInbound[s] /\ facadeInbound'[s][i] = facadeInbound[s][i]
  BY <1>3
<1>5. \A i \in DOMAIN facadeInbound'[s] : facadeInbound'[s][i] = b => i = Len(facadeInbound[s]) + 1
  <2>1. \A i \in DOMAIN facadeInbound[s] : facadeInbound[s][i] # b
    BY DEF FacadeIdsPipes
  <2> QED
    BY <1>3, <2>1
<1>6. ASSUME NEW x \in Opened, NEW a \in AnyFacade!Askers, FacadeHolds(x, a)' PROVE FacadeHolds(x, a)
  <2>1. CASE x = s
    BY <1>2, <1>4, <1>6, <2>1 DEF FacadeHolds
  <2>2. CASE x # s
    BY <1>2, <1>6, <2>2 DEF FacadeHolds
  <2> QED
    BY <2>1, <2>2
<1>7. ASSUME NEW x \in Opened, NEW i \in DOMAIN facadeInbound'[x] PROVE facadeInbound'[x][i] \notin todo'[x]
  <2>1. CASE x = s
    BY <1>2, <1>4, <2>1 DEF FacadeIdsPipes
  <2>2. CASE x # s
    BY <1>2, <2>2 DEF FacadeIdsPipes
  <2> QED
    BY <2>1, <2>2
<1>8. ASSUME NEW x \in Opened, NEW i \in DOMAIN facadeInbound'[x], NEW j \in DOMAIN facadeInbound'[x],
             facadeInbound'[x][i] = facadeInbound'[x][j], facadeInbound'[x][i] \in AnyFacade!Askers
      PROVE  i = j
  <2>1. CASE x = s
    <3>1. CASE facadeInbound'[s][i] = b
      BY <1>5, <1>8, <2>1, <3>1
    <3>2. CASE facadeInbound'[s][i] # b
      BY <1>4, <1>8, <2>1, <3>2 DEF FacadeIdsPipes
    <3> QED
      BY <3>1, <3>2
  <2>2. CASE x # s
    BY <1>2, <1>8, <2>2 DEF FacadeIdsPipes
  <2> QED
    BY <2>1, <2>2
<1>9. AnyFacade!Askers' = AnyFacade!Askers /\ \A a : AnyFacade!SessionOf(a)' = AnyFacade!SessionOf(a)
  BY DEF AnyFacade!Askers, AnyFacade!SessionOf
<1> QED
  BY <1>0, <1>6, <1>7, <1>8, <1>9 DEF FacadeIdsPipes

\* The dispatcher takes an item.
LEMMA FacadePipesTaken ==
  ASSUME FacadeAssumption, FacadeTypes, FacadeIdsPipes, NEW s \in Opened, AnyFacade!TakesItem(s), todo' = todo,
         dead \subseteq dead', deleted \subseteq deleted',
         \A a \in AnyFacade!Askers : FacadeStaysSent(a) \/ (a = Head(facadeInbound[s])
                                     /\ facadePc'[a] = facadePc[a])
  PROVE  FacadeIdsPipes'
<1>1. /\ facadeInbound[s] \in Seq(AnyFacade!Askers \cup {"request", "exit"}) /\ facadeInbound[s] # <<>>
      /\ facadeInbound'[s] = Tail(facadeInbound[s])
      /\ \A x \in Opened \ {s} : facadeInbound'[x] = facadeInbound[x]
  BY DEF FacadeTypes, AnyFacade!TakesItem
<1>2. /\ DOMAIN facadeInbound[s] = 1..Len(facadeInbound[s]) /\ Len(facadeInbound[s]) \in Nat
      /\ Len(facadeInbound[s]) > 0
      /\ DOMAIN facadeInbound'[s] = 1..(Len(facadeInbound[s]) - 1)
      /\ \A i \in DOMAIN facadeInbound'[s] : facadeInbound'[s][i] = facadeInbound[s][i + 1]
      /\ Head(facadeInbound[s]) = facadeInbound[s][1]
  BY <1>1, HeadTailProperties
<1>3. \A i \in DOMAIN facadeInbound'[s] : /\ i \in Int /\ i + 1 \in DOMAIN facadeInbound[s] /\ i + 1 # 1
                                          /\ facadeInbound'[s][i] = facadeInbound[s][i + 1]
  BY <1>2
<1>4. ASSUME NEW x \in Opened, NEW a \in AnyFacade!Askers, FacadeHolds(x, a)'
      PROVE  FacadeHolds(x, a) /\ (x = s => a # Head(facadeInbound[s]))
  <2>1. CASE x # s
    BY <1>1, <1>4, <2>1 DEF FacadeHolds
  <2>2. CASE x = s /\ a \in todo[s]
    <3>1. 1 \in DOMAIN facadeInbound[s]
      BY <1>2
    <3> QED
      BY <1>2, <2>2, <3>1 DEF FacadeHolds, FacadeIdsPipes
  <2>3. CASE x = s /\ a \notin todo[s]
    <3>1. PICK i \in DOMAIN facadeInbound'[s] : facadeInbound'[s][i] = a
      BY <1>4, <2>3 DEF FacadeHolds
    <3>2. i + 1 \in DOMAIN facadeInbound[s] /\ facadeInbound[s][i + 1] = a /\ i + 1 # 1 /\ 1 \in DOMAIN facadeInbound[s]
      BY <1>2, <1>3, <3>1
    <3>3. a # facadeInbound[s][1]
      BY <3>2 DEF FacadeIdsPipes
    <3> QED
      BY <1>2, <2>3, <3>2, <3>3 DEF FacadeHolds
  <2> QED
    BY <2>1, <2>2, <2>3
<1>5. ASSUME NEW x \in Opened, NEW a \in AnyFacade!Askers, FacadeHolds(x, a)'
      PROVE  /\ AnyFacade!SessionOf(a) = x /\ facadePc'[a] \in {"waits", "streams", "done"}
             /\ (a \in facadePending' \/ x \in dead' \cup deleted')
  <2>1. /\ AnyFacade!SessionOf(a) = x /\ facadePc[a] \in {"waits", "streams", "done"}
        /\ (a \in facadePending \/ x \in dead \cup deleted)
    BY <1>4, <1>5 DEF FacadeIdsPipes
  <2>2. CASE FacadeStaysSent(a)
    BY <2>1, <2>2 DEF FacadeStaysSent
  <2>3. CASE ~FacadeStaysSent(a)
    <3>1. a = Head(facadeInbound[s]) /\ x # s
      BY <1>4, <1>5, <2>3
    <3>2. FacadeHolds(s, a)
      <4>1. 1 \in DOMAIN facadeInbound[s] /\ facadeInbound[s][1] = a
        BY <1>2, <3>1
      <4> QED
        BY <4>1 DEF FacadeHolds
    <3>3. AnyFacade!SessionOf(a) = s
      BY <3>2 DEF FacadeIdsPipes
    <3> QED
      BY <2>1, <3>1, <3>3
  <2> QED
    BY <2>2, <2>3
<1>6. ASSUME NEW x \in Opened, NEW i \in DOMAIN facadeInbound'[x] PROVE facadeInbound'[x][i] \notin todo[x]
  <2>1. \E j \in DOMAIN facadeInbound[x] : facadeInbound'[x][i] = facadeInbound[x][j]
    <3>1. CASE x = s
      BY <1>3, <3>1
    <3>2. CASE x # s
      BY <1>1, <3>2
    <3> QED
      BY <3>1, <3>2
  <2> QED
    BY <2>1 DEF FacadeIdsPipes
<1>7. ASSUME NEW x \in Opened, NEW i \in DOMAIN facadeInbound'[x], NEW j \in DOMAIN facadeInbound'[x],
             facadeInbound'[x][i] = facadeInbound'[x][j], facadeInbound'[x][i] \in AnyFacade!Askers
      PROVE  i = j
  <2>1. CASE x = s
    <3>1. i \in Int /\ j \in Int /\ i + 1 = j + 1
      BY <1>3, <1>7, <2>1 DEF FacadeIdsPipes
    <3> QED
      BY <3>1
  <2>2. CASE x # s
    BY <1>1, <1>7, <2>2 DEF FacadeIdsPipes
  <2> QED
    BY <2>1, <2>2
<1>8. AnyFacade!Askers' = AnyFacade!Askers /\ \A a : AnyFacade!SessionOf(a)' = AnyFacade!SessionOf(a)
  BY DEF AnyFacade!Askers, AnyFacade!SessionOf
<1> QED
  BY <1>5, <1>6, <1>7, <1>8 DEF FacadeIdsPipes

\* A request is written to the backend.
LEMMA FacadePipesWritten ==
  ASSUME FacadeAssumption, FacadeTypes, FacadeIdsInv, NEW b \in AnyFacade!Askers, facadePc[b] = "writes",
         todo' = [todo EXCEPT ![AnyFacade!SessionOf(b)] = @ \cup {b}], facadeInbound' = facadeInbound,
         facadePc' = [facadePc EXCEPT ![b] = IF b \in Sse THEN "streams" ELSE "waits"],
         facadePending' = facadePending, dead' = dead, deleted' = deleted
  PROVE  FacadeIdsPipes'
<1> DEFINE t == AnyFacade!SessionOf(b)
<1>1. t \in Opened /\ todo'[t] = todo[t] \cup {b} /\ (\A x \in Opened \ {t} : todo'[x] = todo[x])
      /\ facadePc'[b] \in {"waits", "streams"} /\ (\A a \in AnyFacade!Askers \ {b} : facadePc'[a] = facadePc[a])
      /\ (b \in facadePending \/ t \in dead \cup deleted)
  BY FacadeNames DEF FacadeTypes, FacadeIdsInv, FacadeIdsPlace
<1>2. \A x \in Opened : ~FacadeHolds(x, b)
  BY DEF FacadeIdsInv, FacadeIdsPipes
<1>3. ASSUME NEW x \in Opened, NEW a \in AnyFacade!Askers, FacadeHolds(x, a)'
      PROVE  FacadeHolds(x, a) \/ (x = t /\ a = b)
  BY <1>1, <1>3 DEF FacadeHolds
<1>4. ASSUME NEW x \in Opened, NEW a \in AnyFacade!Askers, FacadeHolds(x, a)'
      PROVE  /\ AnyFacade!SessionOf(a) = x /\ facadePc'[a] \in {"waits", "streams", "done"}
             /\ (a \in facadePending \/ x \in dead \cup deleted)
  <2>1. CASE x = t /\ a = b
    BY <1>1, <2>1
  <2>2. CASE FacadeHolds(x, a)
    <3>1. a # b
      BY <1>2, <2>2
    <3> QED
      BY <1>1, <2>2, <3>1 DEF FacadeIdsInv, FacadeIdsPipes
  <2> QED
    BY <1>3, <1>4, <2>1, <2>2
<1>5. ASSUME NEW x \in Opened, NEW i \in DOMAIN facadeInbound[x] PROVE facadeInbound[x][i] \notin todo'[x]
  <2>1. facadeInbound[x][i] # b
    BY <1>2 DEF FacadeHolds
  <2> QED
    BY <1>1, <2>1 DEF FacadeIdsInv, FacadeIdsPipes
<1>6. AnyFacade!Askers' = AnyFacade!Askers /\ \A a : AnyFacade!SessionOf(a)' = AnyFacade!SessionOf(a)
  BY DEF AnyFacade!Askers, AnyFacade!SessionOf
<1> QED
  BY <1>4, <1>5, <1>6 DEF FacadeIdsInv, FacadeIdsPipes

LEMMA FacadeIdsFewer ==
  ASSUME FacadeIdsApart, facadePending' \subseteq facadePending
  PROVE  FacadeIdsApart'
<1>1. \A a : AnyFacade!SessionOf(a)' = AnyFacade!SessionOf(a)
  BY DEF AnyFacade!SessionOf
<1> QED
  BY <1>1 DEF FacadeIdsApart

\* One of them makes a step, and no session is lost.
LEMMA FacadeIdsMoved ==
  ASSUME FacadeAssumption, FacadeTypes, FacadeIdsInv, NEW b \in AnyFacade!Askers \cup Gets, NEW x,
         dead' = dead, deleted' = deleted, facadePc' = [facadePc EXCEPT ![b] = x],
         facadePending' \ {b} = facadePending \ {b}, facadePc[b] # "done" \/ b \notin Opened,
         b \in AnyFacade!Askers => FacadeIdsPlace(b)'
  PROVE  \A a \in AnyFacade!Askers : FacadeIdsPlace(a)'
<1>1. ASSUME NEW a \in AnyFacade!Askers, a # b PROVE FacadeIdsPlace(a)'
  <2>1. facadePc'[a] = facadePc[a] /\ (a \in facadePending' <=> a \in facadePending)
    BY <1>1 DEF FacadeTypes
  <2>2. a \in Posted /\ facadePc[On[a]] = "done" => facadePc'[On[a]] = "done"
    BY FacadeNames DEF FacadeTypes, AnyFacade!Askers
  <2>3. FacadeIdsPlace(a) /\ AnyFacade!SessionOf(a)' = AnyFacade!SessionOf(a)
    BY DEF FacadeIdsInv, AnyFacade!SessionOf
  <2> QED
    BY <2>1, <2>2, <2>3 DEF FacadeIdsPlace
<1> QED
  BY <1>1

\* The same, when it leaves the queues alone and takes no request from pending
\* that was sent.
LEMMA FacadeIdsMovedInv ==
  ASSUME FacadeAssumption, FacadeTypes, FacadeIdsInv, NEW b \in AnyFacade!Askers \cup Gets, NEW x,
         dead' = dead, deleted' = deleted, facadePc' = [facadePc EXCEPT ![b] = x],
         todo' = todo, facadeInbound' = facadeInbound,
         facadePending' \ {b} = facadePending \ {b}, FacadeIdsApart',
         facadePc[b] # "done" \/ b \notin Opened, b \in AnyFacade!Askers => FacadeIdsPlace(b)',
         facadePc[b] \in {"waits", "streams", "done"} =>
           x \in {"waits", "streams", "done"} /\ facadePending' = facadePending
  PROVE  FacadeIdsInv'
<1>1. \A a \in AnyFacade!Askers : FacadeIdsPlace(a)'
  BY FacadeIdsMoved
<1>2. ASSUME NEW a \in AnyFacade!Askers PROVE FacadeStaysSent(a)
  <2>1. CASE a = b
    BY <2>1 DEF FacadeStaysSent, FacadeTypes
  <2>2. CASE a # b
    BY <2>2 DEF FacadeStaysSent, FacadeTypes
  <2> QED
    BY <2>1, <2>2
<1>3. FacadeIdsPipes'
  BY <1>2, FacadePipesKept DEF FacadeIdsInv
<1>4. AnyFacade!Askers' = AnyFacade!Askers
  BY DEF AnyFacade!Askers
<1> QED
  BY <1>1, <1>3, <1>4 DEF FacadeIdsInv

LEMMA FacadeIdsSame ==
  ASSUME FacadeTypes, FacadeIdsInv, dead' = dead, deleted' = deleted, facadePc' = facadePc,
         facadePending' = facadePending, FacadeIdsPipes'
  PROVE  FacadeIdsInv'
<1>1. AnyFacade!Askers' = AnyFacade!Askers /\ \A a : AnyFacade!SessionOf(a)' = AnyFacade!SessionOf(a)
  BY DEF AnyFacade!Askers, AnyFacade!SessionOf
<1>2. FacadeIdsApart'
  BY FacadeIdsFewer DEF FacadeIdsInv
<1>3. \A a \in AnyFacade!Askers : FacadeIdsPlace(a)'
  BY <1>1 DEF FacadeIdsInv, FacadeIdsPlace
<1> QED
  BY <1>1, <1>2, <1>3 DEF FacadeIdsInv

LEMMA FacadeIdsStill ==
  ASSUME FacadeTypes, FacadeIdsInv, dead' = dead, deleted' = deleted, facadePc' = facadePc,
         facadePending' = facadePending, todo' = todo, facadeInbound' = facadeInbound
  PROVE  FacadeIdsInv'
<1>1. FacadeIdsPipes'
  BY FacadePipesKept DEF FacadeStaysSent, FacadeIdsInv
<1> QED
  BY <1>1, FacadeIdsSame

\* A session is closed of which nothing runs.
LEMMA FacadeIdsClosed ==
  ASSUME FacadeAssumption, FacadeTypes, FacadeIdsInv, NEW s \in Opened, AnyFacade!Closes(s), AnyFacade!Idle(s),
         facadePc' = [facadePc EXCEPT ![s] = "done"], todo' = todo, facadeInbound' = facadeInbound
  PROVE  FacadeIdsInv'
<1>1. /\ dead' = dead /\ deleted' = deleted \cup {s} /\ facadePending' = facadePending \ AnyFacade!PendingOn(s)
  BY DEF AnyFacade!Closes
<1>2. /\ s \in AnyFacade!Askers /\ facadePc'[s] = "done"
      /\ \A a \in AnyFacade!Askers \ {s} : facadePc'[a] = facadePc[a]
  BY FacadeNames DEF FacadeTypes
<1>3. \A a \in AnyFacade!Askers :
        a \in facadePending' <=> a \in facadePending /\ AnyFacade!SessionOf(a) # s
  BY <1>1 DEF AnyFacade!PendingOn
<1>4. ASSUME NEW a \in AnyFacade!Askers PROVE FacadeIdsPlace(a)'
  <2>0. FacadeIdsPlace(a) /\ AnyFacade!SessionOf(a)' = AnyFacade!SessionOf(a)
    BY DEF FacadeIdsInv, AnyFacade!SessionOf
  <2>1. CASE a = s
    BY <1>1, <1>2, <1>3, <2>1, FacadeNames DEF FacadeIdsPlace
  <2>2. CASE a # s
    <3>1. facadePc'[a] = facadePc[a]
      BY <1>2, <2>2
    <3>2. a \in Posted /\ facadePc[On[a]] = "done" => facadePc'[On[a]] = "done"
      BY <1>2, FacadeNames
    <3>3. AnyFacade!SessionOf(a) = s => a \in Posted /\ facadePc[a] \in {"idle", "done"}
      BY <2>2 DEF AnyFacade!Idle, AnyFacade!SessionOf, AnyFacade!Askers
    <3> QED
      BY <1>1, <1>3, <2>0, <3>1, <3>2, <3>3 DEF FacadeIdsPlace
  <2> QED
    BY <2>1, <2>2
<1>5. ASSUME NEW a \in AnyFacade!Askers PROVE FacadeStaysSent(a)
  BY <1>1, <1>2, <1>3 DEF FacadeStaysSent
<1>6. FacadeIdsPipes'
  BY <1>1, <1>5, FacadePipesKept DEF FacadeIdsInv
<1>7. FacadeIdsApart'
  BY <1>1, FacadeIdsFewer DEF FacadeIdsInv
<1>8. AnyFacade!Askers' = AnyFacade!Askers
  BY DEF AnyFacade!Askers
<1> QED
  BY <1>4, <1>6, <1>7, <1>8 DEF FacadeIdsInv

LEMMA FacadeIdsFailed ==
  ASSUME FacadeAssumption, FacadeTypes, FacadeIdsInv, NEW b \in AnyFacade!Askers,
         facadePc[b] \in {"registers", "sends", "writes"}, NEW why, AnyFacade!Fails(b, why),
         todo' = todo, facadeInbound' = facadeInbound
  PROVE  FacadeIdsInv'
<1>0. facadePc' = [facadePc EXCEPT ![b] = "done"]
  BY DEF AnyFacade!Fails
<1>1. CASE b \in Opened
  <2>1. AnyFacade!Idle(b)
    BY <1>1, FacadeNames DEF AnyFacade!Idle, FacadeIdsInv, FacadeIdsPlace
  <2> QED
    BY <1>0, <1>1, <2>1, FacadeIdsClosed DEF AnyFacade!Fails
<1>2. CASE b \notin Opened
  <2>1. dead' = dead /\ deleted' = deleted /\ facadePending' = facadePending \ {b}
    BY <1>2 DEF AnyFacade!Fails, AnyFacade!lives
  <2>2. FacadeIdsApart'
    BY <2>1, FacadeIdsFewer DEF FacadeIdsInv
  <2>3. FacadeIdsPlace(b)'
    <3>1. facadePc'[b] = "done" /\ b \in Posted /\ facadePc'[On[b]] = facadePc[On[b]]
      BY <1>0, <1>2, FacadeNames DEF FacadeTypes, AnyFacade!Askers
    <3> QED
      BY <2>1, <3>1 DEF FacadeIdsInv, FacadeIdsPlace
  <2> QED
    BY <1>0, <1>2, <2>1, <2>2, <2>3, FacadeIdsMovedInv
<1> QED
  BY <1>1, <1>2

LEMMA FacadeIdsGone ==
  ASSUME FacadeAssumption, FacadeTypes, FacadeIdsInv, NEW b \in AnyFacade!Askers,
         facadePc[b] \in {"sends", "writes"}, AnyFacade!Gone(b), todo' = todo, facadeInbound' = facadeInbound
  PROVE  FacadeIdsInv'
<1>1. CASE b \in Sse
  <2>1. dead' = dead /\ deleted' = deleted /\ facadePending' = facadePending \ {b}
        /\ facadePc' = [facadePc EXCEPT ![b] = "streams"]
    BY <1>1 DEF AnyFacade!Gone, AnyFacade!lives
  <2>2. FacadeIdsApart'
    BY <2>1, FacadeIdsFewer DEF FacadeIdsInv
  <2>3. FacadeIdsPlace(b)'
    <3>1. /\ facadePc'[b] = "streams" /\ b \in Posted /\ facadePc'[On[b]] = facadePc[On[b]]
          /\ AnyFacade!SessionOf(b)' = AnyFacade!SessionOf(b)
      BY <1>1, <2>1, FacadeNames DEF FacadeTypes, AnyFacade!Askers, AnyFacade!SessionOf
    <3> QED
      BY <2>1, <3>1 DEF FacadeIdsInv, FacadeIdsPlace
  <2>4. b \notin Opened /\ facadePending' \ {b} = facadePending \ {b}
    BY <1>1, <2>1, FacadeNames
  <2> QED
    BY <2>1, <2>2, <2>3, <2>4, FacadeIdsMovedInv
<1>2. CASE b \notin Sse
  BY <1>2, FacadeIdsFailed DEF AnyFacade!Gone
<1> QED
  BY <1>1, <1>2

LEMMA FacadeIdsRegistered ==
  ASSUME FacadeAssumption, FacadeTypes, FacadeIdsInv, NEW b \in AnyFacade!Askers, FacadeRegistersApart(b)
  PROVE  FacadeIdsInv'
<1> DEFINE s == AnyFacade!SessionOf(b)
<1>0. facadePc[b] = "registers" /\ todo' = todo /\ facadeInbound' = facadeInbound
  BY DEF FacadeRegistersApart, AnyFacade!pipes
<1>1. CASE AnyFacade!Fails(b, "lost") \/ AnyFacade!Fails(b, "refused")
  BY <1>0, <1>1, FacadeIdsFailed
<1>2. CASE /\ s \notin dead /\ \A c \in AnyFacade!PendingOn(s) : Named[c] # Named[b]
           /\ facadePending' = facadePending \cup {b}
           /\ facadePc' = [facadePc EXCEPT ![b] = IF b \in Sse THEN "attaches" ELSE "sends"]
           /\ UNCHANGED <<answer, AnyFacade!lives, chans, facadeQueue>>
  <2>1. dead' = dead /\ deleted' = deleted /\ s \notin deleted
    BY <1>0, <1>2 DEF AnyFacade!lives, FacadeIdsInv, FacadeIdsPlace
  <2>2. FacadeIdsApart'
    <3>1. \A a : AnyFacade!SessionOf(a)' = AnyFacade!SessionOf(a)
      BY DEF AnyFacade!SessionOf
    <3>2. \A c \in facadePending : AnyFacade!SessionOf(c) = s => Named[c] # Named[b]
      BY <1>2 DEF AnyFacade!PendingOn
    <3> QED
      BY <1>2, <3>1, <3>2 DEF FacadeIdsInv, FacadeIdsApart
  <2>3. FacadeIdsPlace(b)'
    <3>1. /\ facadePc'[b] \in {"attaches", "sends"} /\ AnyFacade!SessionOf(b)' = s
          /\ b \in Posted => facadePc'[On[b]] = facadePc[On[b]]
      BY <1>2, FacadeNames DEF FacadeTypes, AnyFacade!Askers, AnyFacade!SessionOf
    <3> QED
      BY <1>0, <1>2, <2>1, <3>1 DEF FacadeIdsInv, FacadeIdsPlace
  <2> QED
    BY <1>0, <1>2, <2>1, <2>2, <2>3, FacadeIdsMovedInv
<1> QED
  BY <1>1, <1>2 DEF FacadeRegistersApart

LEMMA FacadeIdsSends ==
  ASSUME FacadeAssumption, FacadeTypes, FacadeIdsInv, NEW b \in AnyFacade!Askers, AnyFacade!Send(b)
  PROVE  FacadeIdsInv'
<1>0. facadePc[b] = "sends" /\ todo' = todo /\ facadeInbound' = facadeInbound
  BY DEF AnyFacade!Send
<1>1. CASE AnyFacade!Gone(b)
  BY <1>0, <1>1, FacadeIdsGone
<1>2. CASE facadePc' = [facadePc EXCEPT ![b] = "writes"] /\ UNCHANGED <<answer, facadePending, AnyFacade!lives, chans, facadeQueue>>
  <2>1. dead' = dead /\ deleted' = deleted /\ facadePending' = facadePending
    BY <1>2 DEF AnyFacade!lives
  <2>2. FacadeIdsApart'
    BY <2>1, FacadeIdsFewer DEF FacadeIdsInv
  <2>3. FacadeIdsPlace(b)'
    <3>1. /\ facadePc'[b] = "writes" /\ AnyFacade!SessionOf(b)' = AnyFacade!SessionOf(b)
          /\ b \in Posted => facadePc'[On[b]] = facadePc[On[b]]
      BY <1>2, FacadeNames DEF FacadeTypes, AnyFacade!Askers, AnyFacade!SessionOf
    <3> QED
      BY <1>0, <2>1, <3>1 DEF FacadeIdsInv, FacadeIdsPlace
  <2> QED
    BY <1>0, <1>2, <2>1, <2>2, <2>3, FacadeIdsMovedInv
<1> QED
  BY <1>1, <1>2 DEF AnyFacade!Send

LEMMA FacadeIdsWritten ==
  ASSUME FacadeAssumption, FacadeTypes, FacadeIdsInv, NEW b \in AnyFacade!Askers, AnyFacade!Written(b)
  PROVE  FacadeIdsInv'
<1>0. facadePc[b] = "writes" /\ facadeInbound' = facadeInbound
  BY DEF AnyFacade!Written
<1>1. CASE AnyFacade!Gone(b) /\ todo' = todo
  BY <1>0, <1>1, FacadeIdsGone
<1>2. CASE /\ todo' = [todo EXCEPT ![AnyFacade!SessionOf(b)] = @ \cup {b}]
           /\ facadePc' = [facadePc EXCEPT ![b] = IF b \in Sse THEN "streams" ELSE "waits"]
           /\ UNCHANGED <<answer, facadePending, AnyFacade!lives, chans, facadeQueue>>
  <2>1. dead' = dead /\ deleted' = deleted /\ facadePending' = facadePending
    BY <1>2 DEF AnyFacade!lives
  <2>2. FacadeIdsApart'
    BY <2>1, FacadeIdsFewer DEF FacadeIdsInv
  <2>3. FacadeIdsPlace(b)'
    <3>1. /\ facadePc'[b] \in {"streams", "waits"} /\ AnyFacade!SessionOf(b)' = AnyFacade!SessionOf(b)
          /\ b \in Posted => facadePc'[On[b]] = facadePc[On[b]]
      BY <1>2, FacadeNames DEF FacadeTypes, AnyFacade!Askers, AnyFacade!SessionOf
    <3> QED
      BY <1>0, <2>1, <3>1 DEF FacadeIdsInv, FacadeIdsPlace
  <2>4. FacadeIdsPipes'
    BY <1>0, <1>2, <2>1, FacadePipesWritten
  <2>5. \A a \in AnyFacade!Askers : FacadeIdsPlace(a)'
    BY <1>0, <1>2, <2>1, <2>3, FacadeIdsMoved
  <2>6. AnyFacade!Askers' = AnyFacade!Askers
    BY DEF AnyFacade!Askers
  <2> QED
    BY <2>2, <2>4, <2>5, <2>6 DEF FacadeIdsInv
<1> QED
  BY <1>1, <1>2 DEF AnyFacade!Written

LEMMA FacadeIdsAnswered ==
  ASSUME FacadeAssumption, FacadeTypes, FacadeIdsInv, NEW s \in Opened, FacadeAnswers(s)
  PROVE  FacadeIdsInv'
<1> DEFINE item == Head(facadeInbound[s])
<1>1. PICK hit \in SUBSET ({item} \cap AnyFacade!PendingOn(s)) : facadePending' = facadePending \ hit
  BY DEF FacadeAnswers
<1>2. /\ facadePc' = facadePc /\ dead' = dead /\ deleted' = deleted /\ todo' = todo /\ AnyFacade!TakesItem(s)
      /\ item \in AnyFacade!Askers
  BY DEF FacadeAnswers, AnyFacade!lives
<1>3. facadePc[item] \in {"waits", "streams", "done"}
  <2>1. FacadeHolds(s, item)
    <3>1. facadeInbound[s] \in Seq(AnyFacade!Askers \cup {"request", "exit"}) /\ facadeInbound[s] # <<>>
      BY DEF FacadeTypes, FacadeAnswers, AnyFacade!TakesItem
    <3>2. 1 \in DOMAIN facadeInbound[s] /\ facadeInbound[s][1] = item
      BY <3>1, HeadTailProperties
    <3> QED
      BY <3>2 DEF FacadeHolds
  <2> QED
    BY <1>2, <2>1 DEF FacadeIdsInv, FacadeIdsPipes
<1>4. FacadeIdsPipes'
  <2> HIDE DEF item
  <2>1. ASSUME NEW a \in AnyFacade!Askers, a # item PROVE FacadeStaysSent(a)
    BY <1>1, <1>2, <2>1 DEF FacadeStaysSent
  <2> QED
    BY <1>2, <2>1, FacadePipesTaken DEF FacadeIdsInv, item
<1>5. FacadeIdsApart'
  BY <1>1, FacadeIdsFewer DEF FacadeIdsInv
<1>6. ASSUME NEW a \in AnyFacade!Askers PROVE FacadeIdsPlace(a)'
  <2>1. FacadeIdsPlace(a) /\ AnyFacade!SessionOf(a)' = AnyFacade!SessionOf(a)
    BY DEF FacadeIdsInv, AnyFacade!SessionOf
  <2>2. (a \in facadePending' => a \in facadePending) /\ (a # item => (a \in facadePending' <=> a \in facadePending))
    BY <1>1
  <2> HIDE DEF item
  <2> QED
    BY <1>2, <1>3, <2>1, <2>2 DEF FacadeIdsPlace
<1>7. AnyFacade!Askers' = AnyFacade!Askers
  BY DEF AnyFacade!Askers
<1> QED
  BY <1>4, <1>5, <1>6, <1>7 DEF FacadeIdsInv

LEMMA FacadeIdsExits ==
  ASSUME FacadeAssumption, FacadeTypes, FacadeIdsInv, NEW s \in Opened, AnyFacade!DispatchExit(s)
  PROVE  FacadeIdsInv'
<1>1. /\ facadePc' = facadePc /\ deleted' = deleted /\ todo' = todo /\ AnyFacade!TakesItem(s)
  BY DEF AnyFacade!DispatchExit
<1>2. /\ dead \subseteq dead' /\ facadePending' \subseteq facadePending
      /\ \A a \in AnyFacade!Askers : a \in facadePending \ facadePending' => AnyFacade!SessionOf(a) \in dead' \cup deleted'
      /\ \A a \in AnyFacade!Askers : a \in facadePending' => AnyFacade!SessionOf(a) \notin dead' \ dead
  <2>1. CASE s \in deleted
    BY <2>1 DEF AnyFacade!DispatchExit
  <2>2. CASE s \notin deleted
    <3>1. dead' = dead \cup {s} /\ facadePending' = facadePending \ AnyFacade!PendingOn(s)
      BY <2>2, FacadeExitTells
    <3> QED
      BY <3>1 DEF AnyFacade!PendingOn
  <2> QED
    BY <2>1, <2>2
<1>3. \A a \in AnyFacade!Askers : FacadeStaysSent(a)
  BY <1>1, <1>2 DEF FacadeStaysSent
<1>4. FacadeIdsPipes'
  BY <1>1, <1>2, <1>3, FacadePipesTaken DEF FacadeIdsInv
<1>5. FacadeIdsApart'
  BY <1>2, FacadeIdsFewer DEF FacadeIdsInv
<1>6. ASSUME NEW a \in AnyFacade!Askers PROVE FacadeIdsPlace(a)'
  <2>1. FacadeIdsPlace(a) /\ AnyFacade!SessionOf(a)' = AnyFacade!SessionOf(a)
    BY DEF FacadeIdsInv, AnyFacade!SessionOf
  <2> QED
    BY <1>1, <1>2, <2>1 DEF FacadeIdsPlace
<1>7. AnyFacade!Askers' = AnyFacade!Askers
  BY DEF AnyFacade!Askers
<1> QED
  BY <1>4, <1>5, <1>6, <1>7 DEF FacadeIdsInv

LEMMA FacadeIdsSession ==
  ASSUME FacadeAssumption, FacadeTypes, FacadeIdsInv, NEW s \in Opened, FacadeSessionStep(s)
  PROVE  FacadeIdsInv'
<1>1. CASE FacadeCreates(s) \/ AnyFacade!Spawn(s) \/ AnyFacade!SpawnFails(s)
  <2>1. /\ dead' = dead /\ deleted' = deleted /\ todo' = todo /\ facadeInbound' = facadeInbound
        /\ facadePending' = facadePending /\ facadePc[s] \in {"idle", "spawns"}
    BY <1>1 DEF FacadeCreates, AnyFacade!Spawn, AnyFacade!SpawnFails, AnyFacade!lives, AnyFacade!pipes
  <2>2. PICK x \in {"spawns", "registers", "done"} : facadePc' = [facadePc EXCEPT ![s] = x]
    BY <1>1 DEF FacadeCreates, AnyFacade!Spawn, AnyFacade!SpawnFails
  <2>3. FacadeIdsApart'
    BY <2>1, FacadeIdsFewer DEF FacadeIdsInv
  <2>4. s \in AnyFacade!Askers /\ s \notin Posted /\ facadePc'[s] = x /\ AnyFacade!SessionOf(s)' = s /\ AnyFacade!SessionOf(s) = s
    BY <2>2, FacadeNames DEF FacadeTypes, AnyFacade!SessionOf
  <2>5. FacadeIdsPlace(s)'
    BY <2>1, <2>4 DEF FacadeIdsInv, FacadeIdsPlace
  <2> QED
    BY <2>1, <2>2, <2>3, <2>4, <2>5, FacadeIdsMovedInv
<1>2. CASE AnyFacade!BackendAnswers(s)
  <2>1. dead' = dead /\ deleted' = deleted /\ facadePc' = facadePc /\ facadePending' = facadePending
    BY <1>2 DEF AnyFacade!BackendAnswers, AnyFacade!lives
  <2>2. FacadeIdsPipes'
    BY <1>2, FacadePipesAnswered DEF FacadeIdsInv
  <2> QED
    BY <2>1, <2>2, FacadeIdsSame
<1>3. CASE \/ AnyFacade!BackendAsks(s) \/ AnyFacade!BackendExits(s)
           \/ (AnyFacade!Stop(s) /\ facadeProc[s] = "runs")
  <2>1. /\ dead' = dead /\ deleted' = deleted /\ facadePc' = facadePc /\ facadePending' = facadePending /\ todo' = todo
        /\ \E mark \in {"request", "exit"} : facadeInbound' = [facadeInbound EXCEPT ![s] = Append(@, mark)]
    BY <1>3 DEF AnyFacade!BackendAsks, AnyFacade!BackendExits, AnyFacade!Stop, AnyFacade!lives
  <2>2. FacadeIdsPipes'
    BY <2>1, FacadePipesNoticed DEF FacadeIdsInv
  <2> QED
    BY <2>1, <2>2, FacadeIdsSame
<1>4. CASE \/ AnyFacade!BackendStalls(s) \/ AnyFacade!Offer(s) \/ AnyFacade!Refuse(s) \/ AnyFacade!Refused(s)
           \/ (AnyFacade!Stop(s) /\ facadeProc[s] # "runs")
  <2>1. /\ dead' = dead /\ deleted' = deleted /\ facadePc' = facadePc /\ facadePending' = facadePending /\ todo' = todo
        /\ facadeInbound' = facadeInbound
    BY <1>4 DEF AnyFacade!BackendStalls, AnyFacade!Offer, AnyFacade!Refuse, AnyFacade!Refused,
       AnyFacade!Stop,
       AnyFacade!lives, AnyFacade!pipes
  <2> QED
    BY <2>1, FacadeIdsStill
<1>5. CASE AnyFacade!DispatchRequest(s)
  <2>1. /\ dead' = dead /\ deleted' = deleted /\ facadePc' = facadePc /\ facadePending' = facadePending /\ todo' = todo
        /\ AnyFacade!TakesItem(s)
    BY <1>5 DEF AnyFacade!DispatchRequest, AnyFacade!lives
  <2>2. FacadeIdsPipes'
    BY <2>1, FacadePipesTaken DEF FacadeStaysSent, FacadeIdsInv
  <2> QED
    BY <2>1, <2>2, FacadeIdsSame
<1>6. CASE AnyFacade!Reap(s)
  <2>1. /\ AnyFacade!Closes(s) /\ AnyFacade!Idle(s) /\ facadePc' = facadePc /\ facadePc[s] = "done"
        /\ todo' = todo /\ facadeInbound' = facadeInbound
    BY <1>6 DEF AnyFacade!Reap, AnyFacade!ClosesTelling
  <2>2. facadePc' = [facadePc EXCEPT ![s] = "done"]
    BY <2>1 DEF FacadeTypes
  <2> QED
    BY <2>1, <2>2, FacadeIdsClosed
<1> QED
  BY <1>1, <1>2, <1>3, <1>4, <1>5, <1>6, FacadeIdsAnswered, FacadeIdsExits DEF FacadeSessionStep

LEMMA FacadeIdsStep ==
  ASSUME FacadeAssumption, FacadeTypes, FacadeIdsInv, FacadeIdsNext PROVE FacadeIdsInv'
<1>1. ASSUME NEW b \in AnyFacade!Askers, AnyFacade!Reply(b) PROVE FacadeIdsInv'
  <2>1. /\ dead' = dead /\ deleted' = deleted /\ todo' = todo /\ facadeInbound' = facadeInbound
        /\ facadePending' = facadePending /\ facadePc[b] = "waits" /\ facadePc' = [facadePc EXCEPT ![b] = "done"]
    BY <1>1 DEF AnyFacade!Reply, AnyFacade!lives, AnyFacade!pipes
  <2>2. FacadeIdsApart'
    BY <2>1, FacadeIdsFewer DEF FacadeIdsInv
  <2>3. /\ facadePc'[b] = "done" /\ AnyFacade!SessionOf(b)' = AnyFacade!SessionOf(b)
        /\ b \in Posted => facadePc'[On[b]] = facadePc[On[b]]
    BY <2>1, FacadeNames DEF FacadeTypes, AnyFacade!Askers, AnyFacade!SessionOf
  <2>4. FacadeIdsPlace(b)'
    BY <2>1, <2>3 DEF FacadeIdsInv, FacadeIdsPlace
  <2> QED
    BY <2>1, <2>2, <2>4, FacadeIdsMovedInv
<1>2. ASSUME NEW p \in Posted, AnyFacade!Post(p) \/ AnyFacade!SendTooLong(p) PROVE FacadeIdsInv'
  <2>1. /\ dead' = dead /\ deleted' = deleted /\ todo' = todo /\ facadeInbound' = facadeInbound
        /\ facadePending' = facadePending
        /\ \/ facadePc[p] = "idle" /\ facadePc[On[p]] = "done" /\ facadePc' = [facadePc EXCEPT ![p] = "done"]
           \/ /\ facadePc[p] = "idle" /\ facadePc[On[p]] = "done" /\ On[p] \notin deleted
              /\ facadePc' = [facadePc EXCEPT ![p] = "registers"]
           \/ facadePc[p] = "sends" /\ facadePc' = [facadePc EXCEPT ![p] = "done"]
    BY <1>2 DEF AnyFacade!Post, AnyFacade!SendTooLong, AnyFacade!lives, AnyFacade!pipes
  <2>2. FacadeIdsApart'
    BY <2>1, FacadeIdsFewer DEF FacadeIdsInv
  <2>3. /\ p \in AnyFacade!Askers /\ p \notin Opened /\ AnyFacade!SessionOf(p)' = On[p] /\ AnyFacade!SessionOf(p) = On[p]
        /\ facadePc'[On[p]] = facadePc[On[p]] /\ facadePc'[p] \in {"registers", "done"}
        /\ facadePc'[p] = "registers" => On[p] \notin deleted /\ facadePc[p] = "idle"
    BY <2>1, FacadeNames DEF FacadeTypes, AnyFacade!Askers, AnyFacade!SessionOf
  <2>4. FacadeIdsPlace(p)'
    <3>1. /\ facadePc[p] \in {"idle", "sends"} /\ FacadeIdsPlace(p) /\ facadePc[On[p]] = "done"
      BY <2>1, <2>3 DEF FacadeIdsInv, FacadeIdsPlace
    <3> QED
      BY <2>1, <2>3, <3>1 DEF FacadeIdsPlace
  <2>5. PICK x : facadePc' = [facadePc EXCEPT ![p] = x]
    BY <2>1
  <2> QED
    BY <2>1, <2>2, <2>3, <2>4, <2>5, FacadeIdsMovedInv
<1>3. ASSUME NEW p \in Sse, AnyFacade!Attach(p) PROVE FacadeIdsInv'
  <2>1. /\ dead' = dead /\ deleted' = deleted /\ todo' = todo /\ facadeInbound' = facadeInbound
        /\ facadePending' = facadePending /\ facadePc[p] = "attaches"
    BY <1>3 DEF AnyFacade!Attach, AnyFacade!lives, AnyFacade!pipes
  <2>2. PICK x \in {"done", "sends"} : facadePc' = [facadePc EXCEPT ![p] = x]
    BY <1>3 DEF AnyFacade!Attach
  <2>3. FacadeIdsApart'
    BY <2>1, FacadeIdsFewer DEF FacadeIdsInv
  <2>4. /\ p \in AnyFacade!Askers /\ p \in Posted /\ p \notin Opened /\ AnyFacade!SessionOf(p)' = AnyFacade!SessionOf(p)
        /\ facadePc'[On[p]] = facadePc[On[p]] /\ facadePc'[p] = x
    BY <2>2, FacadeNames DEF FacadeTypes, AnyFacade!Askers, AnyFacade!SessionOf
  <2>5. FacadeIdsPlace(p)'
    BY <2>1, <2>4 DEF FacadeIdsInv, FacadeIdsPlace
  <2> QED
    BY <2>1, <2>2, <2>3, <2>4, <2>5, FacadeIdsMovedInv
<1>4. ASSUME NEW g \in Gets, AnyFacade!Open(g) PROVE FacadeIdsInv'
  <2>1. /\ dead' = dead /\ deleted' = deleted /\ todo' = todo /\ facadeInbound' = facadeInbound
        /\ facadePending' = facadePending /\ facadePc[g] = "idle"
    BY <1>4 DEF AnyFacade!Open, AnyFacade!lives, AnyFacade!pipes
  <2>2. PICK x : facadePc' = [facadePc EXCEPT ![g] = x]
    BY <1>4 DEF AnyFacade!Open
  <2>3. FacadeIdsApart'
    BY <2>1, FacadeIdsFewer DEF FacadeIdsInv
  <2>4. g \notin AnyFacade!Askers
    BY FacadeNames
  <2> QED
    BY <2>1, <2>2, <2>3, <2>4, FacadeIdsMovedInv
<1>5. ASSUME NEW c \in AnyFacade!Streamers, AnyFacade!Stream(c) \/ AnyFacade!StreamGivesUp(c) PROVE FacadeIdsInv'
  <2>1. /\ dead' = dead /\ deleted' = deleted /\ todo' = todo /\ facadeInbound' = facadeInbound
        /\ facadePending' = facadePending /\ facadePc[c] = "streams"
        /\ (facadePc' = facadePc \/ facadePc' = [facadePc EXCEPT ![c] = "done"])
    BY <1>5 DEF AnyFacade!Stream, AnyFacade!StreamGivesUp, AnyFacade!lives, AnyFacade!pipes
  <2>2. CASE facadePc' = facadePc
    BY <2>1, <2>2, FacadeIdsStill
  <2>3. CASE facadePc' = [facadePc EXCEPT ![c] = "done"]
    <3>1. FacadeIdsApart'
      BY <2>1, FacadeIdsFewer DEF FacadeIdsInv
    <3>2. ASSUME c \in AnyFacade!Askers PROVE FacadeIdsPlace(c)'
      <4>1. /\ c \in Posted /\ c \notin Opened /\ AnyFacade!SessionOf(c)' = AnyFacade!SessionOf(c)
            /\ facadePc'[On[c]] = facadePc[On[c]] /\ facadePc'[c] = "done"
        BY <2>3, <3>2, FacadeNames DEF FacadeTypes, AnyFacade!Askers, AnyFacade!SessionOf
      <4> QED
        BY <2>1, <3>2, <4>1 DEF FacadeIdsInv, FacadeIdsPlace
    <3> QED
      BY <2>1, <2>3, <3>1, <3>2, FacadeNames, FacadeIdsMovedInv
  <2> QED
    BY <2>1, <2>2, <2>3
<1> QED
  BY <1>1, <1>2, <1>3, <1>4, <1>5, FacadeIdsSession, FacadeIdsRegistered, FacadeIdsSends, FacadeIdsWritten
     DEF FacadeIdsNext

\* A step of the facade in one of the settings is a step with all habits.

LEMMA FacadeSteps ==
  ASSUME NEW x
  PROVE  /\ Facade!Create(x) => FacadeCreates(x)
         /\ Facade!Register(x) => FacadeRegisters(x)
         /\ Facade!Spawn(x) => AnyFacade!Spawn(x)
         /\ Facade!SpawnFails(x) => AnyFacade!SpawnFails(x)
         /\ Facade!BackendAnswers(x) => AnyFacade!BackendAnswers(x)
         /\ Facade!BackendAsks(x) => AnyFacade!BackendAsks(x)
         /\ Facade!BackendStalls(x) => AnyFacade!BackendStalls(x)
         /\ Facade!BackendExits(x) => AnyFacade!BackendExits(x)
         /\ Facade!DispatchRequest(x) => AnyFacade!DispatchRequest(x)
         /\ Facade!Offer(x) => AnyFacade!Offer(x)
         /\ Facade!Refuse(x) => AnyFacade!Refuse(x)
         /\ Facade!Refused(x) => AnyFacade!Refused(x)
         /\ Facade!DispatchExit(x) => AnyFacade!DispatchExit(x)
         /\ Facade!Stop(x) => AnyFacade!Stop(x)
         /\ Facade!Reap(x) => AnyFacade!Reap(x)
         /\ Facade!Send(x) => AnyFacade!Send(x)
         /\ Facade!Written(x) => AnyFacade!Written(x)
         /\ Facade!Reply(x) => AnyFacade!Reply(x)
         /\ Facade!TimesOut(x) => AnyFacade!TimesOut(x)
         /\ Facade!Post(x) => AnyFacade!Post(x)
         /\ Facade!SendTooLong(x) => AnyFacade!SendTooLong(x)
         /\ Facade!Attach(x) => AnyFacade!Attach(x)
         /\ Facade!Open(x) => AnyFacade!Open(x)
         /\ Facade!Stream(x) => AnyFacade!Stream(x)
         /\ Facade!StreamGivesUp(x) => AnyFacade!StreamGivesUp(x)
         /\ Facade!Delete(x) => AnyFacade!Delete(x)
<1>1. Facade!Spawn(x) => AnyFacade!Spawn(x)
  BY DEF Facade!Spawn, AnyFacade!Spawn, Facade!lives, AnyFacade!lives, Facade!pipes, AnyFacade!pipes
<1>2. Facade!SpawnFails(x) => AnyFacade!SpawnFails(x)
  BY DEF Facade!SpawnFails, AnyFacade!SpawnFails, Facade!lives, AnyFacade!lives, Facade!process,
     AnyFacade!process, Facade!pipes, AnyFacade!pipes
<1>3. Facade!BackendAnswers(x) => AnyFacade!BackendAnswers(x)
  BY DEF Facade!BackendAnswers, AnyFacade!BackendAnswers, Facade!lives, AnyFacade!lives, Facade!process,
     AnyFacade!process
<1>4. Facade!BackendAsks(x) => AnyFacade!BackendAsks(x)
  BY DEF Facade!BackendAsks, AnyFacade!BackendAsks, Facade!lives, AnyFacade!lives, Facade!process,
     AnyFacade!process
<1>5. Facade!BackendStalls(x) => AnyFacade!BackendStalls(x)
  BY DEF Facade!BackendStalls, AnyFacade!BackendStalls, Facade!lives, AnyFacade!lives, Facade!pipes,
     AnyFacade!pipes
<1>6. Facade!BackendExits(x) => AnyFacade!BackendExits(x)
  BY DEF Facade!BackendExits, AnyFacade!BackendExits, Facade!lives, AnyFacade!lives
<1>7. Facade!DispatchRequest(x) => AnyFacade!DispatchRequest(x)
  BY DEF Facade!DispatchRequest, AnyFacade!DispatchRequest, Facade!TakesItem, AnyFacade!TakesItem,
     Facade!lives, AnyFacade!lives, Facade!process, AnyFacade!process
<1>8. Facade!Offer(x) => AnyFacade!Offer(x)
  BY DEF Facade!Offer, AnyFacade!Offer, Facade!Put, AnyFacade!Put, Facade!Streamers,
     AnyFacade!Streamers, Facade!lives, AnyFacade!lives, Facade!process, AnyFacade!process
<1>9. Facade!Refuse(x) => AnyFacade!Refuse(x)
  BY DEF Facade!Refuse, AnyFacade!Refuse, Facade!Running, AnyFacade!Running, Facade!lives,
     AnyFacade!lives, Facade!process, AnyFacade!process
<1>10. Facade!Refused(x) => AnyFacade!Refused(x)
  BY DEF Facade!Refused, AnyFacade!Refused, Facade!lives, AnyFacade!lives, Facade!process,
     AnyFacade!process
<1>11. Facade!DispatchExit(x) => AnyFacade!DispatchExit(x)
  BY DEF Facade!DispatchExit, AnyFacade!DispatchExit, Facade!TakesItem, AnyFacade!TakesItem,
     Facade!PendingOn, AnyFacade!PendingOn, Facade!SessionOf, AnyFacade!SessionOf, Facade!HasChannel,
     AnyFacade!HasChannel, Facade!Put, AnyFacade!Put, Facade!Askers, AnyFacade!Askers, Facade!Streamers,
     AnyFacade!Streamers, Facade!process, AnyFacade!process
<1>12. Facade!Stop(x) => AnyFacade!Stop(x)
  BY DEF Facade!Stop, AnyFacade!Stop
<1>13. Facade!Reap(x) => AnyFacade!Reap(x)
  BY DEF Facade!Reap, AnyFacade!Reap, Facade!Idle, AnyFacade!Idle, Facade!ClosesTelling,
     AnyFacade!ClosesTelling, Facade!Closes, AnyFacade!Closes, Facade!Told, AnyFacade!Told,
     Facade!PendingOn, AnyFacade!PendingOn, Facade!SessionOf, AnyFacade!SessionOf, Facade!HasChannel,
     AnyFacade!HasChannel, Facade!Put, AnyFacade!Put, Facade!Askers, AnyFacade!Askers, Facade!Streamers,
     AnyFacade!Streamers, Facade!process, AnyFacade!process
<1>14. Facade!Send(x) => AnyFacade!Send(x)
  BY DEF Facade!Send, AnyFacade!Send, Facade!Gone, AnyFacade!Gone, Facade!Fails, AnyFacade!Fails,
     Facade!Closes, AnyFacade!Closes, Facade!Told, AnyFacade!Told, Facade!PendingOn,
     AnyFacade!PendingOn, Facade!SessionOf, AnyFacade!SessionOf, Facade!HasChannel,
     AnyFacade!HasChannel, Facade!Put, AnyFacade!Put, Facade!Askers, AnyFacade!Askers, Facade!Streamers,
     AnyFacade!Streamers, Facade!Running, AnyFacade!Running, Facade!lives, AnyFacade!lives,
     Facade!process, AnyFacade!process
<1>15. Facade!Written(x) => AnyFacade!Written(x)
  BY DEF Facade!Written, AnyFacade!Written, Facade!Gone, AnyFacade!Gone, Facade!Fails, AnyFacade!Fails,
     Facade!Closes, AnyFacade!Closes, Facade!Told, AnyFacade!Told, Facade!PendingOn,
     AnyFacade!PendingOn, Facade!SessionOf, AnyFacade!SessionOf, Facade!HasChannel,
     AnyFacade!HasChannel, Facade!Put, AnyFacade!Put, Facade!Askers, AnyFacade!Askers, Facade!Streamers,
     AnyFacade!Streamers, Facade!lives, AnyFacade!lives, Facade!process, AnyFacade!process
<1>16. Facade!Reply(x) => AnyFacade!Reply(x)
  BY DEF Facade!Reply, AnyFacade!Reply, Facade!lives, AnyFacade!lives, Facade!process,
     AnyFacade!process, Facade!pipes, AnyFacade!pipes
<1>17. Facade!TimesOut(x) => AnyFacade!TimesOut(x)
  BY DEF Facade!TimesOut, AnyFacade!TimesOut, Facade!Fails, AnyFacade!Fails, Facade!Closes,
     AnyFacade!Closes, Facade!Told, AnyFacade!Told, Facade!PendingOn, AnyFacade!PendingOn,
     Facade!SessionOf, AnyFacade!SessionOf, Facade!HasChannel, AnyFacade!HasChannel, Facade!Put,
     AnyFacade!Put, Facade!Askers, AnyFacade!Askers, Facade!Streamers, AnyFacade!Streamers,
     Facade!lives, AnyFacade!lives, Facade!process, AnyFacade!process, Facade!pipes, AnyFacade!pipes
<1>18. Facade!Post(x) => AnyFacade!Post(x)
  BY DEF Facade!Post, AnyFacade!Post, Facade!lives, AnyFacade!lives, Facade!process, AnyFacade!process,
     Facade!pipes, AnyFacade!pipes
<1>19. Facade!SendTooLong(x) => AnyFacade!SendTooLong(x)
  BY DEF Facade!SendTooLong, AnyFacade!SendTooLong, Facade!lives, AnyFacade!lives, Facade!process,
     AnyFacade!process, Facade!pipes, AnyFacade!pipes
<1>20. Facade!Attach(x) => AnyFacade!Attach(x)
  BY DEF Facade!Attach, AnyFacade!Attach, Facade!lives, AnyFacade!lives, Facade!process,
     AnyFacade!process, Facade!pipes, AnyFacade!pipes
<1>21. Facade!Open(x) => AnyFacade!Open(x)
  BY DEF Facade!Open, AnyFacade!Open, Facade!lives, AnyFacade!lives, Facade!process, AnyFacade!process,
     Facade!pipes, AnyFacade!pipes
<1>22. Facade!Stream(x) => AnyFacade!Stream(x)
  BY DEF Facade!Stream, AnyFacade!Stream, Facade!lives, AnyFacade!lives, Facade!process,
     AnyFacade!process, Facade!pipes, AnyFacade!pipes
<1>23. Facade!StreamGivesUp(x) => AnyFacade!StreamGivesUp(x)
  BY DEF Facade!StreamGivesUp, AnyFacade!StreamGivesUp, Facade!lives, AnyFacade!lives, Facade!process,
     AnyFacade!process, Facade!pipes, AnyFacade!pipes
<1>24. Facade!Delete(x) => AnyFacade!Delete(x)
  BY DEF Facade!Delete, AnyFacade!Delete, Facade!ClosesTelling, AnyFacade!ClosesTelling, Facade!Closes,
     AnyFacade!Closes, Facade!Told, AnyFacade!Told, Facade!PendingOn, AnyFacade!PendingOn,
     Facade!SessionOf, AnyFacade!SessionOf, Facade!HasChannel, AnyFacade!HasChannel, Facade!Put,
     AnyFacade!Put, Facade!Askers, AnyFacade!Askers, Facade!Streamers, AnyFacade!Streamers,
     Facade!process, AnyFacade!process
<1>25. Facade!Create(x) => FacadeCreates(x)
  BY DEF Facade!Create, FacadeCreates, Facade!process, AnyFacade!process, Facade!pipes, AnyFacade!pipes
<1>26. Facade!Register(x) => FacadeRegisters(x)
  BY DEF Facade!Register, FacadeRegisters, Facade!Fails, AnyFacade!Fails, Facade!Closes,
     AnyFacade!Closes, Facade!Told, AnyFacade!Told, Facade!PendingOn, AnyFacade!PendingOn,
     Facade!SessionOf, AnyFacade!SessionOf, Facade!HasChannel, AnyFacade!HasChannel, Facade!Put,
     AnyFacade!Put, Facade!Askers, AnyFacade!Askers, Facade!Streamers, AnyFacade!Streamers,
     Facade!lives, AnyFacade!lives, Facade!process, AnyFacade!process, Facade!pipes, AnyFacade!pipes
<1> QED
  BY <1>1, <1>2, <1>3, <1>4, <1>5, <1>6, <1>7, <1>8, <1>9, <1>10, <1>11, <1>12, <1>13, <1>14, <1>15,
     <1>16, <1>17, <1>18, <1>19, <1>20, <1>21, <1>22, <1>23, <1>24, <1>25, <1>26

LEMMA IdsSteps ==
  ASSUME NEW x
  PROVE  /\ Ids!Create(x) => FacadeCreates(x)
         /\ Ids!Register(x) => FacadeRegistersApart(x)
         /\ Ids!Spawn(x) => AnyFacade!Spawn(x)
         /\ Ids!SpawnFails(x) => AnyFacade!SpawnFails(x)
         /\ Ids!BackendAnswers(x) => AnyFacade!BackendAnswers(x)
         /\ Ids!BackendAsks(x) => AnyFacade!BackendAsks(x)
         /\ Ids!BackendStalls(x) => AnyFacade!BackendStalls(x)
         /\ Ids!BackendExits(x) => AnyFacade!BackendExits(x)
         /\ Ids!DispatchRequest(x) => AnyFacade!DispatchRequest(x)
         /\ Ids!Offer(x) => AnyFacade!Offer(x)
         /\ Ids!Refuse(x) => AnyFacade!Refuse(x)
         /\ Ids!Refused(x) => AnyFacade!Refused(x)
         /\ Ids!DispatchExit(x) => AnyFacade!DispatchExit(x)
         /\ Ids!Stop(x) => AnyFacade!Stop(x)
         /\ Ids!Reap(x) => AnyFacade!Reap(x)
         /\ Ids!Send(x) => AnyFacade!Send(x)
         /\ Ids!Written(x) => AnyFacade!Written(x)
         /\ Ids!Reply(x) => AnyFacade!Reply(x)
         /\ Ids!TimesOut(x) => AnyFacade!TimesOut(x)
         /\ Ids!Post(x) => AnyFacade!Post(x)
         /\ Ids!SendTooLong(x) => AnyFacade!SendTooLong(x)
         /\ Ids!Attach(x) => AnyFacade!Attach(x)
         /\ Ids!Open(x) => AnyFacade!Open(x)
         /\ Ids!Stream(x) => AnyFacade!Stream(x)
         /\ Ids!StreamGivesUp(x) => AnyFacade!StreamGivesUp(x)
         /\ Ids!Delete(x) => AnyFacade!Delete(x)
<1>1. Ids!Spawn(x) => AnyFacade!Spawn(x)
  BY DEF Ids!Spawn, AnyFacade!Spawn, Ids!lives, AnyFacade!lives, Ids!pipes, AnyFacade!pipes
<1>2. Ids!SpawnFails(x) => AnyFacade!SpawnFails(x)
  BY DEF Ids!SpawnFails, AnyFacade!SpawnFails, Ids!lives, AnyFacade!lives, Ids!process,
     AnyFacade!process, Ids!pipes, AnyFacade!pipes
<1>3. Ids!BackendAnswers(x) => AnyFacade!BackendAnswers(x)
  BY DEF Ids!BackendAnswers, AnyFacade!BackendAnswers, Ids!lives, AnyFacade!lives, Ids!process,
     AnyFacade!process
<1>4. Ids!BackendAsks(x) => AnyFacade!BackendAsks(x)
  BY DEF Ids!BackendAsks, AnyFacade!BackendAsks, Ids!lives, AnyFacade!lives, Ids!process,
     AnyFacade!process
<1>5. Ids!BackendStalls(x) => AnyFacade!BackendStalls(x)
  BY DEF Ids!BackendStalls, AnyFacade!BackendStalls, Ids!lives, AnyFacade!lives, Ids!pipes,
     AnyFacade!pipes
<1>6. Ids!BackendExits(x) => AnyFacade!BackendExits(x)
  BY DEF Ids!BackendExits, AnyFacade!BackendExits, Ids!lives, AnyFacade!lives
<1>7. Ids!DispatchRequest(x) => AnyFacade!DispatchRequest(x)
  BY DEF Ids!DispatchRequest, AnyFacade!DispatchRequest, Ids!TakesItem, AnyFacade!TakesItem, Ids!lives,
     AnyFacade!lives, Ids!process, AnyFacade!process
<1>8. Ids!Offer(x) => AnyFacade!Offer(x)
  BY DEF Ids!Offer, AnyFacade!Offer, Ids!Put, AnyFacade!Put, Ids!Streamers, AnyFacade!Streamers,
     Ids!lives, AnyFacade!lives, Ids!process, AnyFacade!process
<1>9. Ids!Refuse(x) => AnyFacade!Refuse(x)
  BY DEF Ids!Refuse, AnyFacade!Refuse, Ids!Running, AnyFacade!Running, Ids!lives, AnyFacade!lives,
     Ids!process, AnyFacade!process
<1>10. Ids!Refused(x) => AnyFacade!Refused(x)
  BY DEF Ids!Refused, AnyFacade!Refused, Ids!lives, AnyFacade!lives, Ids!process, AnyFacade!process
<1>11. Ids!DispatchExit(x) => AnyFacade!DispatchExit(x)
  BY DEF Ids!DispatchExit, AnyFacade!DispatchExit, Ids!TakesItem, AnyFacade!TakesItem, Ids!PendingOn,
     AnyFacade!PendingOn, Ids!SessionOf, AnyFacade!SessionOf, Ids!HasChannel, AnyFacade!HasChannel,
     Ids!Put, AnyFacade!Put, Ids!Askers, AnyFacade!Askers, Ids!Streamers, AnyFacade!Streamers,
     Ids!process, AnyFacade!process
<1>12. Ids!Stop(x) => AnyFacade!Stop(x)
  BY DEF Ids!Stop, AnyFacade!Stop
<1>13. Ids!Reap(x) => AnyFacade!Reap(x)
  BY SMTT(30) DEF Ids!Reap, AnyFacade!Reap, Ids!Idle, AnyFacade!Idle,
     Ids!ClosesTelling, AnyFacade!ClosesTelling,
     Ids!Closes, AnyFacade!Closes, Ids!Told, AnyFacade!Told, Ids!PendingOn, AnyFacade!PendingOn,
     Ids!SessionOf, AnyFacade!SessionOf, Ids!HasChannel, AnyFacade!HasChannel, Ids!Put, AnyFacade!Put,
     Ids!Askers, AnyFacade!Askers, Ids!Streamers, AnyFacade!Streamers, Ids!process, AnyFacade!process
<1>14. Ids!Send(x) => AnyFacade!Send(x)
  BY DEF Ids!Send, AnyFacade!Send, Ids!Gone, AnyFacade!Gone, Ids!Fails, AnyFacade!Fails, Ids!Closes,
     AnyFacade!Closes, Ids!Told, AnyFacade!Told, Ids!PendingOn, AnyFacade!PendingOn, Ids!SessionOf,
     AnyFacade!SessionOf, Ids!HasChannel, AnyFacade!HasChannel, Ids!Put, AnyFacade!Put, Ids!Askers,
     AnyFacade!Askers, Ids!Streamers, AnyFacade!Streamers, Ids!Running, AnyFacade!Running, Ids!lives,
     AnyFacade!lives, Ids!process, AnyFacade!process
<1>15. Ids!Written(x) => AnyFacade!Written(x)
  BY DEF Ids!Written, AnyFacade!Written, Ids!Gone, AnyFacade!Gone, Ids!Fails, AnyFacade!Fails,
     Ids!Closes, AnyFacade!Closes, Ids!Told, AnyFacade!Told, Ids!PendingOn, AnyFacade!PendingOn,
     Ids!SessionOf, AnyFacade!SessionOf, Ids!HasChannel, AnyFacade!HasChannel, Ids!Put, AnyFacade!Put,
     Ids!Askers, AnyFacade!Askers, Ids!Streamers, AnyFacade!Streamers, Ids!lives, AnyFacade!lives,
     Ids!process, AnyFacade!process
<1>16. Ids!Reply(x) => AnyFacade!Reply(x)
  BY DEF Ids!Reply, AnyFacade!Reply, Ids!lives, AnyFacade!lives, Ids!process, AnyFacade!process,
     Ids!pipes, AnyFacade!pipes
<1>17. Ids!TimesOut(x) => AnyFacade!TimesOut(x)
  BY DEF Ids!TimesOut, AnyFacade!TimesOut, Ids!Fails, AnyFacade!Fails, Ids!Closes, AnyFacade!Closes,
     Ids!Told, AnyFacade!Told, Ids!PendingOn, AnyFacade!PendingOn, Ids!SessionOf, AnyFacade!SessionOf,
     Ids!HasChannel, AnyFacade!HasChannel, Ids!Put, AnyFacade!Put, Ids!Askers, AnyFacade!Askers,
     Ids!Streamers, AnyFacade!Streamers, Ids!lives, AnyFacade!lives, Ids!process, AnyFacade!process,
     Ids!pipes, AnyFacade!pipes
<1>18. Ids!Post(x) => AnyFacade!Post(x)
  BY DEF Ids!Post, AnyFacade!Post, Ids!lives, AnyFacade!lives, Ids!process, AnyFacade!process,
     Ids!pipes, AnyFacade!pipes
<1>19. Ids!SendTooLong(x) => AnyFacade!SendTooLong(x)
  BY DEF Ids!SendTooLong, AnyFacade!SendTooLong, Ids!lives, AnyFacade!lives, Ids!process,
     AnyFacade!process, Ids!pipes, AnyFacade!pipes
<1>20. Ids!Attach(x) => AnyFacade!Attach(x)
  BY DEF Ids!Attach, AnyFacade!Attach, Ids!lives, AnyFacade!lives, Ids!process, AnyFacade!process,
     Ids!pipes, AnyFacade!pipes
<1>21. Ids!Open(x) => AnyFacade!Open(x)
  BY DEF Ids!Open, AnyFacade!Open, Ids!lives, AnyFacade!lives, Ids!process, AnyFacade!process,
     Ids!pipes, AnyFacade!pipes
<1>22. Ids!Stream(x) => AnyFacade!Stream(x)
  BY DEF Ids!Stream, AnyFacade!Stream, Ids!lives, AnyFacade!lives, Ids!process, AnyFacade!process,
     Ids!pipes, AnyFacade!pipes
<1>23. Ids!StreamGivesUp(x) => AnyFacade!StreamGivesUp(x)
  BY DEF Ids!StreamGivesUp, AnyFacade!StreamGivesUp, Ids!lives, AnyFacade!lives, Ids!process,
     AnyFacade!process, Ids!pipes, AnyFacade!pipes
<1>24. Ids!Delete(x) => AnyFacade!Delete(x)
  BY DEF Ids!Delete, AnyFacade!Delete, Ids!ClosesTelling, AnyFacade!ClosesTelling, Ids!Closes,
     AnyFacade!Closes, Ids!Told, AnyFacade!Told, Ids!PendingOn, AnyFacade!PendingOn, Ids!SessionOf,
     AnyFacade!SessionOf, Ids!HasChannel, AnyFacade!HasChannel, Ids!Put, AnyFacade!Put, Ids!Askers,
     AnyFacade!Askers, Ids!Streamers, AnyFacade!Streamers, Ids!process, AnyFacade!process
<1>25. Ids!Create(x) => FacadeCreates(x)
  BY DEF Ids!Create, FacadeCreates, Ids!process, AnyFacade!process, Ids!pipes, AnyFacade!pipes
<1>26. Ids!Register(x) => FacadeRegistersApart(x)
  BY DEF Ids!Register, FacadeRegistersApart, Ids!Fails, AnyFacade!Fails, Ids!Closes, AnyFacade!Closes,
     Ids!Told, AnyFacade!Told, Ids!PendingOn, AnyFacade!PendingOn, Ids!SessionOf, AnyFacade!SessionOf,
     Ids!HasChannel, AnyFacade!HasChannel, Ids!Put, AnyFacade!Put, Ids!Askers, AnyFacade!Askers,
     Ids!Streamers, AnyFacade!Streamers, Ids!lives, AnyFacade!lives, Ids!process, AnyFacade!process,
     Ids!pipes, AnyFacade!pipes
<1> QED
  BY <1>1, <1>2, <1>3, <1>4, <1>5, <1>6, <1>7, <1>8, <1>9, <1>10, <1>11, <1>12, <1>13, <1>14, <1>15,
     <1>16, <1>17, <1>18, <1>19, <1>20, <1>21, <1>22, <1>23, <1>24, <1>25, <1>26

LEMMA ShutdownSteps ==
  ASSUME NEW x
  PROVE  /\ Shutdown!Create(x) => FacadeCreates(x)
         /\ Shutdown!Register(x) => FacadeRegisters(x)
         /\ Shutdown!Spawn(x) => AnyFacade!Spawn(x)
         /\ Shutdown!SpawnFails(x) => AnyFacade!SpawnFails(x)
         /\ Shutdown!BackendAnswers(x) => AnyFacade!BackendAnswers(x)
         /\ Shutdown!BackendAsks(x) => AnyFacade!BackendAsks(x)
         /\ Shutdown!BackendStalls(x) => AnyFacade!BackendStalls(x)
         /\ Shutdown!BackendExits(x) => AnyFacade!BackendExits(x)
         /\ Shutdown!DispatchRequest(x) => AnyFacade!DispatchRequest(x)
         /\ Shutdown!Offer(x) => AnyFacade!Offer(x)
         /\ Shutdown!Refuse(x) => AnyFacade!Refuse(x)
         /\ Shutdown!Refused(x) => AnyFacade!Refused(x)
         /\ Shutdown!DispatchExit(x) => AnyFacade!DispatchExit(x)
         /\ Shutdown!Stop(x) => AnyFacade!Stop(x)
         /\ Shutdown!Reap(x) => AnyFacade!Reap(x)
         /\ Shutdown!Send(x) => AnyFacade!Send(x)
         /\ Shutdown!Written(x) => AnyFacade!Written(x)
         /\ Shutdown!Reply(x) => AnyFacade!Reply(x)
         /\ Shutdown!TimesOut(x) => AnyFacade!TimesOut(x)
         /\ Shutdown!Post(x) => AnyFacade!Post(x)
         /\ Shutdown!SendTooLong(x) => AnyFacade!SendTooLong(x)
         /\ Shutdown!Attach(x) => AnyFacade!Attach(x)
         /\ Shutdown!Open(x) => AnyFacade!Open(x)
         /\ Shutdown!Stream(x) => AnyFacade!Stream(x)
         /\ Shutdown!StreamGivesUp(x) => AnyFacade!StreamGivesUp(x)
         /\ Shutdown!Delete(x) => AnyFacade!Delete(x)
<1>1. Shutdown!Spawn(x) => AnyFacade!Spawn(x)
  BY DEF Shutdown!Spawn, AnyFacade!Spawn, Shutdown!lives, AnyFacade!lives, Shutdown!pipes,
     AnyFacade!pipes
<1>2. Shutdown!SpawnFails(x) => AnyFacade!SpawnFails(x)
  BY DEF Shutdown!SpawnFails, AnyFacade!SpawnFails, Shutdown!lives, AnyFacade!lives, Shutdown!process,
     AnyFacade!process, Shutdown!pipes, AnyFacade!pipes
<1>3. Shutdown!BackendAnswers(x) => AnyFacade!BackendAnswers(x)
  BY DEF Shutdown!BackendAnswers, AnyFacade!BackendAnswers, Shutdown!lives, AnyFacade!lives,
     Shutdown!process, AnyFacade!process
<1>4. Shutdown!BackendAsks(x) => AnyFacade!BackendAsks(x)
  BY DEF Shutdown!BackendAsks, AnyFacade!BackendAsks, Shutdown!lives, AnyFacade!lives, Shutdown!process,
     AnyFacade!process
<1>5. Shutdown!BackendStalls(x) => AnyFacade!BackendStalls(x)
  BY DEF Shutdown!BackendStalls, AnyFacade!BackendStalls, Shutdown!lives, AnyFacade!lives,
     Shutdown!pipes, AnyFacade!pipes
<1>6. Shutdown!BackendExits(x) => AnyFacade!BackendExits(x)
  BY DEF Shutdown!BackendExits, AnyFacade!BackendExits, Shutdown!lives, AnyFacade!lives
<1>7. Shutdown!DispatchRequest(x) => AnyFacade!DispatchRequest(x)
  BY DEF Shutdown!DispatchRequest, AnyFacade!DispatchRequest, Shutdown!TakesItem, AnyFacade!TakesItem,
     Shutdown!lives, AnyFacade!lives, Shutdown!process, AnyFacade!process
<1>8. Shutdown!Offer(x) => AnyFacade!Offer(x)
  BY DEF Shutdown!Offer, AnyFacade!Offer, Shutdown!Put, AnyFacade!Put, Shutdown!Streamers,
     AnyFacade!Streamers, Shutdown!lives, AnyFacade!lives, Shutdown!process, AnyFacade!process
<1>9. Shutdown!Refuse(x) => AnyFacade!Refuse(x)
  BY DEF Shutdown!Refuse, AnyFacade!Refuse, Shutdown!Running, AnyFacade!Running, Shutdown!lives,
     AnyFacade!lives, Shutdown!process, AnyFacade!process
<1>10. Shutdown!Refused(x) => AnyFacade!Refused(x)
  BY DEF Shutdown!Refused, AnyFacade!Refused, Shutdown!lives, AnyFacade!lives, Shutdown!process,
     AnyFacade!process
<1>11. Shutdown!DispatchExit(x) => AnyFacade!DispatchExit(x)
  BY DEF Shutdown!DispatchExit, AnyFacade!DispatchExit, Shutdown!TakesItem, AnyFacade!TakesItem,
     Shutdown!PendingOn, AnyFacade!PendingOn, Shutdown!SessionOf, AnyFacade!SessionOf,
     Shutdown!HasChannel, AnyFacade!HasChannel, Shutdown!Put, AnyFacade!Put, Shutdown!Askers,
     AnyFacade!Askers, Shutdown!Streamers, AnyFacade!Streamers, Shutdown!process, AnyFacade!process
<1>12. Shutdown!Stop(x) => AnyFacade!Stop(x)
  BY DEF Shutdown!Stop, AnyFacade!Stop
<1>13. Shutdown!Reap(x) => AnyFacade!Reap(x)
  BY SMTT(30) DEF Shutdown!Reap, AnyFacade!Reap, Shutdown!Idle, AnyFacade!Idle, Shutdown!ClosesTelling,
     AnyFacade!ClosesTelling, Shutdown!Closes, AnyFacade!Closes, Shutdown!Told, AnyFacade!Told,
     Shutdown!PendingOn, AnyFacade!PendingOn, Shutdown!SessionOf, AnyFacade!SessionOf,
     Shutdown!HasChannel, AnyFacade!HasChannel, Shutdown!Put, AnyFacade!Put, Shutdown!Askers,
     AnyFacade!Askers, Shutdown!Streamers, AnyFacade!Streamers, Shutdown!process, AnyFacade!process
<1>14. Shutdown!Send(x) => AnyFacade!Send(x)
  BY DEF Shutdown!Send, AnyFacade!Send, Shutdown!Gone, AnyFacade!Gone, Shutdown!Fails, AnyFacade!Fails,
     Shutdown!Closes, AnyFacade!Closes, Shutdown!Told, AnyFacade!Told, Shutdown!PendingOn,
     AnyFacade!PendingOn, Shutdown!SessionOf, AnyFacade!SessionOf, Shutdown!HasChannel,
     AnyFacade!HasChannel, Shutdown!Put, AnyFacade!Put, Shutdown!Askers, AnyFacade!Askers,
     Shutdown!Streamers, AnyFacade!Streamers, Shutdown!Running, AnyFacade!Running, Shutdown!lives,
     AnyFacade!lives, Shutdown!process, AnyFacade!process
<1>15. Shutdown!Written(x) => AnyFacade!Written(x)
  BY DEF Shutdown!Written, AnyFacade!Written, Shutdown!Gone, AnyFacade!Gone, Shutdown!Fails,
     AnyFacade!Fails, Shutdown!Closes, AnyFacade!Closes, Shutdown!Told, AnyFacade!Told,
     Shutdown!PendingOn, AnyFacade!PendingOn, Shutdown!SessionOf, AnyFacade!SessionOf,
     Shutdown!HasChannel, AnyFacade!HasChannel, Shutdown!Put, AnyFacade!Put, Shutdown!Askers,
     AnyFacade!Askers, Shutdown!Streamers, AnyFacade!Streamers, Shutdown!lives, AnyFacade!lives,
     Shutdown!process, AnyFacade!process
<1>16. Shutdown!Reply(x) => AnyFacade!Reply(x)
  BY DEF Shutdown!Reply, AnyFacade!Reply, Shutdown!lives, AnyFacade!lives, Shutdown!process,
     AnyFacade!process, Shutdown!pipes, AnyFacade!pipes
<1>17. Shutdown!TimesOut(x) => AnyFacade!TimesOut(x)
  BY DEF Shutdown!TimesOut, AnyFacade!TimesOut, Shutdown!Fails, AnyFacade!Fails, Shutdown!Closes,
     AnyFacade!Closes, Shutdown!Told, AnyFacade!Told, Shutdown!PendingOn, AnyFacade!PendingOn,
     Shutdown!SessionOf, AnyFacade!SessionOf, Shutdown!HasChannel, AnyFacade!HasChannel, Shutdown!Put,
     AnyFacade!Put, Shutdown!Askers, AnyFacade!Askers, Shutdown!Streamers, AnyFacade!Streamers,
     Shutdown!lives, AnyFacade!lives, Shutdown!process, AnyFacade!process, Shutdown!pipes,
     AnyFacade!pipes
<1>18. Shutdown!Post(x) => AnyFacade!Post(x)
  BY DEF Shutdown!Post, AnyFacade!Post, Shutdown!lives, AnyFacade!lives, Shutdown!process,
     AnyFacade!process, Shutdown!pipes, AnyFacade!pipes
<1>19. Shutdown!SendTooLong(x) => AnyFacade!SendTooLong(x)
  BY DEF Shutdown!SendTooLong, AnyFacade!SendTooLong, Shutdown!lives, AnyFacade!lives, Shutdown!process,
     AnyFacade!process, Shutdown!pipes, AnyFacade!pipes
<1>20. Shutdown!Attach(x) => AnyFacade!Attach(x)
  BY DEF Shutdown!Attach, AnyFacade!Attach, Shutdown!lives, AnyFacade!lives, Shutdown!process,
     AnyFacade!process, Shutdown!pipes, AnyFacade!pipes
<1>21. Shutdown!Open(x) => AnyFacade!Open(x)
  BY DEF Shutdown!Open, AnyFacade!Open, Shutdown!lives, AnyFacade!lives, Shutdown!process,
     AnyFacade!process, Shutdown!pipes, AnyFacade!pipes
<1>22. Shutdown!Stream(x) => AnyFacade!Stream(x)
  BY DEF Shutdown!Stream, AnyFacade!Stream, Shutdown!lives, AnyFacade!lives, Shutdown!process,
     AnyFacade!process, Shutdown!pipes, AnyFacade!pipes
<1>23. Shutdown!StreamGivesUp(x) => AnyFacade!StreamGivesUp(x)
  BY DEF Shutdown!StreamGivesUp, AnyFacade!StreamGivesUp, Shutdown!lives, AnyFacade!lives,
     Shutdown!process, AnyFacade!process, Shutdown!pipes, AnyFacade!pipes
<1>24. Shutdown!Delete(x) => AnyFacade!Delete(x)
  BY DEF Shutdown!Delete, AnyFacade!Delete, Shutdown!ClosesTelling, AnyFacade!ClosesTelling,
     Shutdown!Closes, AnyFacade!Closes, Shutdown!Told, AnyFacade!Told, Shutdown!PendingOn,
     AnyFacade!PendingOn, Shutdown!SessionOf, AnyFacade!SessionOf, Shutdown!HasChannel,
     AnyFacade!HasChannel, Shutdown!Put, AnyFacade!Put, Shutdown!Askers, AnyFacade!Askers,
     Shutdown!Streamers, AnyFacade!Streamers, Shutdown!process, AnyFacade!process
<1>25. Shutdown!Create(x) => FacadeCreates(x)
  BY DEF Shutdown!Create, FacadeCreates, Shutdown!process, AnyFacade!process, Shutdown!pipes,
     AnyFacade!pipes
<1>26. Shutdown!Register(x) => FacadeRegisters(x)
  BY DEF Shutdown!Register, FacadeRegisters, Shutdown!Fails, AnyFacade!Fails, Shutdown!Closes,
     AnyFacade!Closes, Shutdown!Told, AnyFacade!Told, Shutdown!PendingOn, AnyFacade!PendingOn,
     Shutdown!SessionOf, AnyFacade!SessionOf, Shutdown!HasChannel, AnyFacade!HasChannel, Shutdown!Put,
     AnyFacade!Put, Shutdown!Askers, AnyFacade!Askers, Shutdown!Streamers, AnyFacade!Streamers,
     Shutdown!lives, AnyFacade!lives, Shutdown!process, AnyFacade!process, Shutdown!pipes,
     AnyFacade!pipes
<1> QED
  BY <1>1, <1>2, <1>3, <1>4, <1>5, <1>6, <1>7, <1>8, <1>9, <1>10, <1>11, <1>12, <1>13, <1>14, <1>15,
     <1>16, <1>17, <1>18, <1>19, <1>20, <1>21, <1>22, <1>23, <1>24, <1>25, <1>26

\* The dispatcher finds the request an answer is for, if any: when ids are not
\* used twice, and when requests that are pending at once have ids apart.
LEMMA FacadeFindsItsOwn ==
  ASSUME FacadeTypes, NEW s, Facade!DispatchAnswer(s) PROVE FacadeAnswers(s)
<1> DEFINE item == Head(facadeInbound[s])
           hit == {a \in AnyFacade!PendingOn(s) :
                     [b \in Opened \cup Posted |-> b][a] = [b \in Opened \cup Posted |-> b][item]}
<1>1. AnyFacade!TakesItem(s) /\ item \in AnyFacade!Askers
  BY DEF Facade!DispatchAnswer, Facade!TakesItem, AnyFacade!TakesItem, Facade!Askers, AnyFacade!Askers
<1>2. /\ facadePending' = facadePending \ hit
      /\ answer' = [a \in AnyFacade!Askers |-> IF a \in hit /\ ~AnyFacade!HasChannel(a)
                                               THEN item ELSE answer[a]]
      /\ facadeQueue' = [c \in AnyFacade!Streamers |-> IF c \in hit /\ AnyFacade!HasChannel(c)
                                                       THEN AnyFacade!Put(facadeQueue[c], <<item, "close">>)
                                                       ELSE facadeQueue[c]]
  BY DEF Facade!DispatchAnswer, Facade!PendingOn, AnyFacade!PendingOn, Facade!SessionOf,
     AnyFacade!SessionOf,
     Facade!Askers, AnyFacade!Askers, Facade!Streamers, AnyFacade!Streamers, Facade!HasChannel,
     AnyFacade!HasChannel, Facade!Put, AnyFacade!Put
<1>3. UNCHANGED <<facadePc, AnyFacade!lives, AnyFacade!process, wlock, todo, chans, disp, serverRequest>>
  BY DEF Facade!DispatchAnswer, Facade!lives, AnyFacade!lives, Facade!process, AnyFacade!process
<1>4. hit \in SUBSET ({item} \cap AnyFacade!PendingOn(s))
  BY <1>1 DEF AnyFacade!PendingOn, FacadeTypes, AnyFacade!Askers
<1> HIDE DEF hit
<1> QED
  BY <1>1, <1>2, <1>3, <1>4 DEF FacadeAnswers

LEMMA ShutdownFindsItsOwn ==
  ASSUME FacadeTypes, NEW s, Shutdown!DispatchAnswer(s) PROVE FacadeAnswers(s)
<1> DEFINE item == Head(facadeInbound[s])
           hit == {a \in AnyFacade!PendingOn(s) :
                     [b \in Opened \cup Posted |-> b][a] = [b \in Opened \cup Posted |-> b][item]}
<1>1. AnyFacade!TakesItem(s) /\ item \in AnyFacade!Askers
  BY DEF Shutdown!DispatchAnswer, Shutdown!TakesItem, AnyFacade!TakesItem, Shutdown!Askers, AnyFacade!Askers
<1>2. /\ facadePending' = facadePending \ hit
      /\ answer' = [a \in AnyFacade!Askers |-> IF a \in hit /\ ~AnyFacade!HasChannel(a)
                                               THEN item ELSE answer[a]]
      /\ facadeQueue' = [c \in AnyFacade!Streamers |-> IF c \in hit /\ AnyFacade!HasChannel(c)
                                                       THEN AnyFacade!Put(facadeQueue[c], <<item, "close">>)
                                                       ELSE facadeQueue[c]]
  BY DEF Shutdown!DispatchAnswer, Shutdown!PendingOn, AnyFacade!PendingOn, Shutdown!SessionOf,
     AnyFacade!SessionOf,
     Shutdown!Askers, AnyFacade!Askers, Shutdown!Streamers, AnyFacade!Streamers, Shutdown!HasChannel,
     AnyFacade!HasChannel, Shutdown!Put, AnyFacade!Put
<1>3. UNCHANGED <<facadePc, AnyFacade!lives, AnyFacade!process, wlock, todo, chans, disp, serverRequest>>
  BY DEF Shutdown!DispatchAnswer, Shutdown!lives, AnyFacade!lives, Shutdown!process, AnyFacade!process
<1>4. hit \in SUBSET ({item} \cap AnyFacade!PendingOn(s))
  BY <1>1 DEF AnyFacade!PendingOn, FacadeTypes, AnyFacade!Askers
<1> HIDE DEF hit
<1> QED
  BY <1>1, <1>2, <1>3, <1>4 DEF FacadeAnswers

LEMMA IdsFindsItsOwn ==
  ASSUME FacadeTypes, FacadeIdsInv, NEW s \in Opened, Ids!DispatchAnswer(s) PROVE FacadeAnswers(s)
<1> DEFINE item == Head(facadeInbound[s])
           hit == {a \in AnyFacade!PendingOn(s) : Named[a] = Named[item]}
<1>1. AnyFacade!TakesItem(s) /\ item \in AnyFacade!Askers
  BY DEF Ids!DispatchAnswer, Ids!TakesItem, AnyFacade!TakesItem, Ids!Askers, AnyFacade!Askers
<1>2. /\ facadePending' = facadePending \ hit
      /\ answer' = [a \in AnyFacade!Askers |-> IF a \in hit /\ ~AnyFacade!HasChannel(a)
                                               THEN item ELSE answer[a]]
      /\ facadeQueue' = [c \in AnyFacade!Streamers |-> IF c \in hit /\ AnyFacade!HasChannel(c)
                                                       THEN AnyFacade!Put(facadeQueue[c], <<item, "close">>)
                                                       ELSE facadeQueue[c]]
  BY DEF Ids!DispatchAnswer, Ids!PendingOn, AnyFacade!PendingOn, Ids!SessionOf, AnyFacade!SessionOf,
     Ids!Askers, AnyFacade!Askers, Ids!Streamers, AnyFacade!Streamers, Ids!HasChannel,
     AnyFacade!HasChannel, Ids!Put, AnyFacade!Put
<1>3. UNCHANGED <<facadePc, AnyFacade!lives, AnyFacade!process, wlock, todo, chans, disp, serverRequest>>
  BY DEF Ids!DispatchAnswer, Ids!lives, AnyFacade!lives, Ids!process, AnyFacade!process
<1>4. FacadeHolds(s, item)
  <2>1. facadeInbound[s] \in Seq(AnyFacade!Askers \cup {"request", "exit"}) /\ facadeInbound[s] # <<>>
    BY <1>1 DEF FacadeTypes, AnyFacade!TakesItem
  <2>2. 1 \in DOMAIN facadeInbound[s] /\ facadeInbound[s][1] = item
    BY <2>1, HeadTailProperties
  <2> QED
    BY <2>2 DEF FacadeHolds
<1>5. ASSUME NEW a \in hit PROVE a = item
  <2>1. a \in facadePending /\ AnyFacade!SessionOf(a) = s /\ Named[a] = Named[item] /\ a \in AnyFacade!Askers
    BY DEF AnyFacade!PendingOn, FacadeTypes
  <2>2. s \notin dead \cup deleted
    BY <2>1 DEF FacadeIdsInv, FacadeIdsPlace
  <2>3. item \in facadePending /\ AnyFacade!SessionOf(item) = s
    BY <1>1, <1>4, <2>2 DEF FacadeIdsInv, FacadeIdsPipes
  <2> QED
    BY <2>1, <2>3 DEF FacadeIdsInv, FacadeIdsApart
<1>6. hit \in SUBSET ({item} \cap AnyFacade!PendingOn(s))
  BY <1>5
<1> HIDE DEF hit
<1> QED
  BY <1>1, <1>2, <1>3, <1>6 DEF FacadeAnswers

\* What each setting does.
LEMMA FacadeDoes ==
  ASSUME FacadeTypes, Facade!Next
  PROVE  \/ FacadeStep \/ \E a \in AnyFacade!Askers : AnyFacade!TimesOut(a)
         \/ \E s \in Opened : facadePc[s] = "done" /\ AnyFacade!Delete(s)
<1>0. Facade!Askers = AnyFacade!Askers /\ Facade!Streamers = AnyFacade!Streamers
  BY DEF Facade!Askers, AnyFacade!Askers, Facade!Streamers, AnyFacade!Streamers
<1>1. ASSUME NEW s \in Opened,
             \/ Facade!Create(s) \/ Facade!Spawn(s) \/ Facade!SpawnFails(s) \/ Facade!BackendAnswers(s)
             \/ Facade!BackendAsks(s) \/ Facade!BackendStalls(s) \/ Facade!BackendExits(s)
             \/ Facade!DispatchAnswer(s) \/ Facade!DispatchRequest(s) \/ Facade!Offer(s) \/ Facade!Refuse(s)
             \/ Facade!Refused(s) \/ Facade!DispatchExit(s) \/ Facade!Reap(s) \/ Facade!Stop(s)
      PROVE  FacadeSessionStep(s)
  BY <1>1, FacadeSteps, FacadeFindsItsOwn DEF FacadeSessionStep
<1>2. ASSUME NEW s \in Opened, Facade!Delete(s) PROVE facadePc[s] = "done" /\ AnyFacade!Delete(s)
  <2>1. facadePc[s] = "done"
    BY <1>2 DEF Facade!Delete
  <2> QED
    BY <1>2, <2>1, FacadeSteps
<1>3. ASSUME NEW p, Facade!SendTooLong(p) PROVE FALSE
  BY <1>3 DEF Facade!SendTooLong
<1>4. ASSUME NEW a \in Facade!Askers,
             Facade!Register(a) \/ Facade!Send(a) \/ Facade!Written(a) \/ Facade!Reply(a) \/ Facade!TimesOut(a)
      PROVE  FacadeStep \/ \E b \in AnyFacade!Askers : AnyFacade!TimesOut(b)
  BY <1>0, <1>4, FacadeSteps DEF FacadeStep
<1>5. ASSUME NEW p \in Posted, Facade!Post(p) PROVE FacadeStep
  BY <1>5, FacadeSteps DEF FacadeStep
<1>6. ASSUME NEW p \in Sse, Facade!Attach(p) PROVE FacadeStep
  BY <1>6, FacadeSteps DEF FacadeStep
<1>7. ASSUME NEW g \in Gets, Facade!Open(g) PROVE FacadeStep
  BY <1>7, FacadeSteps DEF FacadeStep
<1>8. ASSUME NEW c \in Facade!Streamers, Facade!Stream(c) \/ Facade!StreamGivesUp(c) PROVE FacadeStep
  BY <1>0, <1>8, FacadeSteps DEF FacadeStep
<1> QED
  BY <1>1, <1>2, <1>3, <1>4, <1>5, <1>6, <1>7, <1>8 DEF Facade!Next, FacadeStep

LEMMA ShutdownDoes ==
  ASSUME FacadeTypes, Shutdown!Next
  PROVE  FacadeNext
<1>0. Shutdown!Askers = AnyFacade!Askers /\ Shutdown!Streamers = AnyFacade!Streamers
  BY DEF Shutdown!Askers, AnyFacade!Askers, Shutdown!Streamers, AnyFacade!Streamers
<1>1. ASSUME NEW s \in Opened,
             \/ Shutdown!Create(s) \/ Shutdown!Spawn(s) \/ Shutdown!SpawnFails(s) \/ Shutdown!BackendAnswers(s)
             \/ Shutdown!BackendAsks(s) \/ Shutdown!BackendStalls(s) \/ Shutdown!BackendExits(s)
             \/ Shutdown!DispatchAnswer(s) \/ Shutdown!DispatchRequest(s) \/ Shutdown!Offer(s) \/ Shutdown!Refuse(s)
             \/ Shutdown!Refused(s) \/ Shutdown!DispatchExit(s) \/ Shutdown!Reap(s) \/ Shutdown!Stop(s)
      PROVE  FacadeSessionStep(s)
  BY <1>1, ShutdownSteps, ShutdownFindsItsOwn DEF FacadeSessionStep
<1>2. ASSUME NEW s \in Opened, Shutdown!Delete(s) PROVE FacadeNext
  BY <1>2, ShutdownSteps DEF FacadeNext
<1>3. ASSUME NEW p \in Posted, Shutdown!SendTooLong(p) PROVE FacadeNext
  BY <1>3, ShutdownSteps DEF FacadeNext
<1>4. ASSUME NEW a \in Shutdown!Askers,
             Shutdown!Register(a) \/ Shutdown!Send(a) \/ Shutdown!Written(a) \/ Shutdown!Reply(a)
               \/ Shutdown!TimesOut(a)
      PROVE  FacadeNext
  BY <1>0, <1>4, ShutdownSteps DEF FacadeStep, FacadeNext
<1>5. ASSUME NEW p \in Posted, Shutdown!Post(p) PROVE FacadeStep
  BY <1>5, ShutdownSteps DEF FacadeStep
<1>6. ASSUME NEW p \in Sse, Shutdown!Attach(p) PROVE FacadeStep
  BY <1>6, ShutdownSteps DEF FacadeStep
<1>7. ASSUME NEW g \in Gets, Shutdown!Open(g) PROVE FacadeStep
  BY <1>7, ShutdownSteps DEF FacadeStep
<1>8. ASSUME NEW c \in Shutdown!Streamers, Shutdown!Stream(c) \/ Shutdown!StreamGivesUp(c) PROVE FacadeStep
  BY <1>0, <1>8, ShutdownSteps DEF FacadeStep
<1> QED
  BY <1>1, <1>2, <1>3, <1>4, <1>5, <1>6, <1>7, <1>8 DEF Shutdown!Next, FacadeStep, FacadeNext

LEMMA IdsDoes ==
  ASSUME FacadeTypes, FacadeIdsInv, Ids!Next
  PROVE  FacadeIdsNext
<1>0. Ids!Askers = AnyFacade!Askers /\ Ids!Streamers = AnyFacade!Streamers
  BY DEF Ids!Askers, AnyFacade!Askers, Ids!Streamers, AnyFacade!Streamers
<1>1. ASSUME NEW s \in Opened,
             \/ Ids!Create(s) \/ Ids!Spawn(s) \/ Ids!SpawnFails(s) \/ Ids!BackendAnswers(s)
             \/ Ids!BackendAsks(s) \/ Ids!BackendStalls(s) \/ Ids!BackendExits(s)
             \/ Ids!DispatchAnswer(s) \/ Ids!DispatchRequest(s) \/ Ids!Offer(s) \/ Ids!Refuse(s)
             \/ Ids!Refused(s) \/ Ids!DispatchExit(s) \/ Ids!Reap(s) \/ Ids!Stop(s)
      PROVE  FacadeSessionStep(s)
  BY <1>1, IdsSteps, IdsFindsItsOwn DEF FacadeSessionStep
<1>2. ASSUME NEW s, Ids!Delete(s) PROVE FALSE
  BY <1>2 DEF Ids!Delete
<1>3. ASSUME NEW a, Ids!TimesOut(a) PROVE FALSE
  BY <1>3 DEF Ids!TimesOut
<1>4. ASSUME NEW a \in Ids!Askers, Ids!Register(a) \/ Ids!Send(a) \/ Ids!Written(a) \/ Ids!Reply(a)
      PROVE  FacadeIdsNext
  BY <1>0, <1>4, IdsSteps DEF FacadeIdsNext
<1>5. ASSUME NEW p \in Posted, Ids!Post(p) \/ Ids!SendTooLong(p) PROVE FacadeIdsNext
  BY <1>5, IdsSteps DEF FacadeIdsNext
<1>6. ASSUME NEW p \in Sse, Ids!Attach(p) PROVE FacadeIdsNext
  BY <1>6, IdsSteps DEF FacadeIdsNext
<1>7. ASSUME NEW g \in Gets, Ids!Open(g) PROVE FacadeIdsNext
  BY <1>7, IdsSteps DEF FacadeIdsNext
<1>8. ASSUME NEW c \in Ids!Streamers, Ids!Stream(c) \/ Ids!StreamGivesUp(c) PROVE FacadeIdsNext
  BY <1>0, <1>8, IdsSteps DEF FacadeIdsNext
<1> QED
  BY <1>1, <1>2, <1>3, <1>4, <1>5, <1>6, <1>7, <1>8 DEF Ids!Next, FacadeIdsNext

\* Clients with ids of their own do what all do.
LEMMA FacadeIdsAreSteps ==
  ASSUME FacadeIdsNext
  PROVE  FacadeStep \/ \E p \in Posted : AnyFacade!SendTooLong(p)
<1>1. \A a : FacadeRegistersApart(a) => FacadeRegisters(a)
  BY DEF FacadeRegistersApart, FacadeRegisters
<1> QED
  BY <1>1 DEF FacadeIdsNext, FacadeStep

\* What the facade keeps, in each setting.
FacadeInv ==
  /\ FacadeTypes /\ FacadeOwnInv
  /\ part = "facade" => FacadeSlotsInv
  /\ part = "ids" => FacadeIdsInv
  /\ part # "shutdown" => FacadeOrphanInv

LEMMA FacadeInitial == ASSUME FacadeAssumption, Facade!Init PROVE FacadeInv
<1>0. Facade!Askers = AnyFacade!Askers /\ Facade!Streamers = AnyFacade!Streamers
  BY DEF Facade!Askers, AnyFacade!Askers, Facade!Streamers, AnyFacade!Streamers
<1>1. /\ facadePc = [a \in AnyFacade!Askers \cup Gets |-> "idle"] /\ answer = [a \in AnyFacade!Askers |-> None]
      /\ facadePending = {} /\ table = {} /\ deleted = {} /\ dead = {} /\ ending = {}
      /\ facadeClosed = {} /\ facadeStalled = {}
      /\ facadeProc = [s \in Opened |-> "none"] /\ wlock = [s \in Opened |-> None]
      /\ todo = [s \in Opened |-> {}] /\ facadeInbound = [s \in Opened |-> <<>>]
      /\ chans = [s \in Opened |-> {}] /\ facadeQueue = [c \in AnyFacade!Streamers |-> <<>>]
      /\ disp = [s \in Opened |-> "idle"] /\ serverRequest = [s \in Opened |-> "none"]
  BY <1>0 DEF Facade!Init
<1>2. FacadeTypes
  <2>1. \A S : <<>> \in Seq(S)
    OBVIOUS
  <2>2. \A c \in AnyFacade!Streamers : Len(facadeQueue[c]) <= MaxQueue
    BY <1>1 DEF FacadeAssumption
  <2> QED
    BY <1>1, <2>1, <2>2 DEF FacadeTypes
<1>3. FacadeOwnInv
  BY <1>1, FacadeNames DEF FacadeOwnInv
<1>4. FacadeSlotsInv /\ FacadeOrphanInv
  BY <1>1 DEF FacadeSlotsInv, FacadeOrphanInv
<1>5. FacadeIdsInv
  <2>1. FacadeIdsApart
    BY <1>1 DEF FacadeIdsApart
  <2>2. \A a \in AnyFacade!Askers : FacadeIdsPlace(a)
    BY <1>1, FacadeNames DEF FacadeIdsPlace
  <2>3. \A s \in Opened : DOMAIN facadeInbound[s] = {}
    BY <1>1
  <2>4. FacadeIdsPipes
    BY <1>1, <2>3 DEF FacadeIdsPipes, FacadeHolds
  <2> QED
    BY <2>1, <2>2, <2>4 DEF FacadeIdsInv
<1> QED
  BY <1>2, <1>3, <1>4, <1>5 DEF FacadeInv

LEMMA FacadeKeeps ==
  ASSUME FacadeAssumption, FacadeInv, part' = part,
         \/ part = "facade" /\ Facade!Next
         \/ part = "ids" /\ Ids!Next
         \/ part = "shutdown" /\ Shutdown!Next
         \/ UNCHANGED facadeVars
  PROVE  FacadeInv'
<1>0. FacadeTypes /\ FacadeOwnInv
  BY DEF FacadeInv
<1>1. CASE part = "facade" /\ Facade!Next
  <2>1. \/ FacadeStep \/ \E a \in AnyFacade!Askers : AnyFacade!TimesOut(a)
        \/ \E s \in Opened : facadePc[s] = "done" /\ AnyFacade!Delete(s)
    BY <1>0, <1>1, FacadeDoes
  <2>2. FacadeNext
    BY <2>1 DEF FacadeNext
  <2>3. FacadeSlotsInv /\ FacadeOrphanInv
    BY <1>1 DEF FacadeInv
  <2>4. FacadeTypes' /\ FacadeOwnInv'
    BY <1>0, <2>2, FacadeTypesStep, FacadeOwnStep
  <2>5. FacadeSlotsInv'
    BY <1>0, <2>1, <2>3, FacadeSlotsStep
  <2>6. FacadeOrphanInv'
    BY <1>0, <2>1, <2>3, FacadeOrphanStep
  <2> QED
    BY <1>1, <2>4, <2>5, <2>6 DEF FacadeInv
<1>2. CASE part = "ids" /\ Ids!Next
  <2>1. FacadeIdsInv /\ FacadeOrphanInv
    BY <1>2 DEF FacadeInv
  <2>2. FacadeIdsNext
    BY <1>0, <1>2, <2>1, IdsDoes
  <2>3. FacadeStep \/ \E p \in Posted : AnyFacade!SendTooLong(p)
    BY <2>2, FacadeIdsAreSteps
  <2>4. FacadeNext
    BY <2>3 DEF FacadeNext
  <2>5. FacadeTypes' /\ FacadeOwnInv'
    BY <1>0, <2>4, FacadeTypesStep, FacadeOwnStep
  <2>6. FacadeIdsInv'
    BY <1>0, <2>1, <2>2, FacadeIdsStep
  <2>7. FacadeOrphanInv'
    BY <1>0, <2>1, <2>3, FacadeOrphanStep
  <2> QED
    BY <1>2, <2>5, <2>6, <2>7 DEF FacadeInv
<1>3. CASE part = "shutdown" /\ Shutdown!Next
  <2>1. FacadeNext
    BY <1>0, <1>3, ShutdownDoes
  <2>2. FacadeTypes' /\ FacadeOwnInv'
    BY <1>0, <2>1, FacadeTypesStep, FacadeOwnStep
  <2> QED
    BY <1>3, <2>2 DEF FacadeInv
<1>4. CASE UNCHANGED facadeVars
  <2>1. UNCHANGED <<facadePc, answer, facadePending, table, deleted, dead, ending, facadeClosed, facadeProc,
                    facadeStalled, wlock, todo, facadeInbound, chans, facadeQueue, disp, serverRequest>>
    BY <1>4 DEF facadeVars
  <2>2. /\ AnyFacade!Askers' = AnyFacade!Askers /\ AnyFacade!Streamers' = AnyFacade!Streamers
        /\ \A a : AnyFacade!SessionOf(a)' = AnyFacade!SessionOf(a)
    BY DEF AnyFacade!Askers, AnyFacade!Streamers, AnyFacade!SessionOf
  <2>3. FacadeTypes' /\ FacadeOwnInv'
    BY <1>0, <2>1, <2>2 DEF FacadeTypes, FacadeOwnInv
  <2>4. FacadeSlotsInv => FacadeSlotsInv'
    BY <2>1, <2>2 DEF FacadeSlotsInv
  <2>5. FacadeOrphanInv => FacadeOrphanInv'
    BY <2>1 DEF FacadeOrphanInv
  <2>6. FacadeIdsInv => FacadeIdsInv'
    BY <1>0, <2>1, FacadeIdsStill
  <2> QED
    BY <2>3, <2>4, <2>5, <2>6 DEF FacadeInv
<1> QED
  BY <1>1, <1>2, <1>3, <1>4

\* What follows from it.
LEMMA FacadeGivesItsOwn == ASSUME FacadeInv PROVE Facade!OwnAnswer
BY DEF FacadeInv, FacadeOwnInv, Facade!OwnAnswer, Facade!Askers, AnyFacade!Askers

LEMMA FacadeLeaksNothing ==
  ASSUME FacadeInv
  PROVE  (part = "facade" => Facade!SlotsReturn) /\ (part # "shutdown" => Facade!NoOrphan)
BY DEF FacadeInv, FacadeSlotsInv, FacadeOrphanInv, Facade!SlotsReturn, Facade!NoOrphan

LEMMA FacadeTyped == ASSUME FacadeAssumption, FacadeInv PROVE Facade!TypeOK
<1>0. Facade!Askers = AnyFacade!Askers /\ Facade!Streamers = AnyFacade!Streamers
  BY DEF Facade!Askers, AnyFacade!Askers, Facade!Streamers, AnyFacade!Streamers
<1>1. ASSUME NEW s \in Opened PROVE Facade!Range(facadeInbound[s]) \subseteq AnyFacade!Askers \cup {"request", "exit"}
  <2>1. facadeInbound[s] \in Seq(AnyFacade!Askers \cup {"request", "exit"})
    BY DEF FacadeInv, FacadeTypes
  <2>2. \A i \in DOMAIN facadeInbound[s] : facadeInbound[s][i] \in AnyFacade!Askers \cup {"request", "exit"}
    BY <2>1
  <2> QED
    BY <2>2 DEF Facade!Range
<1> QED
  BY <1>0, <1>1 DEF FacadeInv, FacadeTypes, Facade!TypeOK

LEMMA FacadeConstants == FacadeAssumption
BY AgentsAssumption DEF FacadeAssumption

-----------------------------------------------------------------------------
(* What runs is a behaviour of the program, and what does not run is one     *)
(* that stutters.                                                            *)

LEMMA ProxyRuns == Spec => Stateless!Spec
<1>1. Init => Stateless!Init
  BY DEF Init
<1>2. [Next]_vars => [Stateless!Next]_(Stateless!vars)
  BY DEF Next, vars, proxyVars, Stateless!vars
<1> QED
  BY <1>1, <1>2, PTL DEF Spec, Stateless!Spec

LEMMA PoolRuns == Spec => Pool!Spec
<1>1. Init => Pool!Init
  BY DEF Init
<1>2. [Next]_vars => [Pool!Next]_(Pool!vars)
  BY DEF Next, vars, poolVars, Pool!vars
<1> QED
  BY <1>1, <1>2, PTL DEF Spec, Pool!Spec

LEMMA LegacyRuns == Spec => Legacy!Spec
<1>1. Init => Legacy!Init
  BY DEF Init
<1>2. [Next]_vars => [Legacy!Next]_(Legacy!vars)
  BY DEF Next, vars, legacyVars, Legacy!vars
<1> QED
  BY <1>1, <1>2, PTL DEF Spec, Legacy!Spec

LEMMA DeferredRuns == Spec => Deferred!Spec
<1>1. Init => Deferred!Init
  BY DEF Init
<1>2. [Next]_vars => [Deferred!Next]_(Deferred!vars)
  BY DEF Next, vars, deferredVars, Deferred!vars
<1> QED
  BY <1>1, <1>2, PTL DEF Spec, Deferred!Spec

LEMMA AdapterRuns == Spec => Failing!Spec
<1>1. Init => Failing!Init
  BY DEF Init, Adapter!Init, Failing!Init, Adapter!Senders, Failing!Senders
<1>2. [Next]_vars => Adapter!Next \/ Failing!Next \/ UNCHANGED adapterVars
  BY DEF Next, vars
<1>3. UNCHANGED adapterVars => UNCHANGED Failing!vars
  BY DEF adapterVars, Failing!vars
<1>4. [Next]_vars => [Failing!Next]_(Failing!vars)
  BY <1>2, <1>3, AdapterSteps
<1> QED
  BY <1>1, <1>4, PTL DEF Spec, Failing!Spec

LEMMA ConnRuns == Spec => Conn!Spec
<1>1. Init => Conn!Init
  BY DEF Init
<1>2. [Next]_vars => Conn!Next \/ UNCHANGED connVars
  BY DEF Next, vars
<1>3. UNCHANGED connVars => UNCHANGED Conn!vars
  BY DEF connVars, Conn!vars, Conn!mainVars, Conn!sessVars, Conn!bookVars, Conn!nodeVars, Conn!agentVars
<1> QED
  BY <1>1, <1>2, <1>3, PTL DEF Spec, Conn!Spec

LEMMA FacadeIsKept == Spec => []FacadeInv
<1>1. Init => FacadeInv
  BY FacadeConstants, FacadeInitial DEF Init
<1>2. FacadeInv /\ [Next]_vars => FacadeInv'
  <2>1. [Next]_vars => /\ part' = part
                       /\ \/ part = "facade" /\ Facade!Next
                          \/ part = "ids" /\ Ids!Next
                          \/ part = "shutdown" /\ Shutdown!Next
                          \/ UNCHANGED facadeVars
    BY DEF Next, vars
  <2> QED
    BY <2>1, FacadeConstants, FacadeKeeps
<1> QED
  BY <1>1, <1>2, PTL DEF Spec

-----------------------------------------------------------------------------
\* A client that is told that its call may be sent again is told the truth: the
\* server has not had it. It holds in the facade, the stateless adapter, the
\* legacy projection and the deferred tools, for every set of requests and every
\* number of places, pages and connections (outcomeUnknown).
THEOREM ToldSafeIsUnsent == Spec => []SafeMeansUnsent
<1>1. ProxyUntouchedInv => Stateless!UntouchedMeansUntouched
  BY DEF ProxyUntouchedInv, Stateless!UntouchedMeansUntouched
<1>2. LegacySentInv => Legacy!SafeMeansUnsent
  BY DEF LegacySentInv
<1>3. DeferredInv => Deferred!SafeMeansUnsent
  BY DEF DeferredInv
<1>4. Pool!Spec => []Pool!SafeMeansUnsent
  BY PoolConstants, PoolSafeIsUnsent
<1>5. Stateless!UntouchedMeansUntouched /\ Pool!SafeMeansUnsent
        /\ Legacy!SafeMeansUnsent /\ Deferred!SafeMeansUnsent => SafeMeansUnsent
  BY DEF SafeMeansUnsent
<1> QED
  BY <1>1, <1>2, <1>3, <1>4, <1>5, ProxyHolds, LegacyHolds, DeferredHolds, ProxyRuns, PoolRuns,
     LegacyRuns, DeferredRuns, PTL

\* Tools are called and shown from the newest catalog of the connection in use,
\* unless the notice of a newer one is still on its way: for every number of
\* pages, of catalogs and of connections (_catalog in deferred_tools.py).
THEOREM CatalogStaysCurrent == Spec => []CatalogIsCurrent
<1>1. DeferredInv => CatalogIsCurrent
  BY DeferredConstants, DeferredFreshIsCurrent DEF DeferredInv, CatalogIsCurrent
<1> QED
  BY <1>1, DeferredHolds, DeferredRuns, PTL

\* A cancellation that was taken is respected: the client sees no result of the
\* request after it (_ModernPending.emit), and the legacy projection forwards it
\* for no other request (_forward_cancel).
THEOREM CancellationsAreRespected == Spec => CancelIsRespected
<1>1. Pool!Spec => Pool!NoResultAfterCancel
  BY PoolConstants, PoolCancelledHasNoResult
<1> QED
  BY <1>1, LegacyHolds, PoolRuns, LegacyRuns, PTL DEF CancelIsRespected

\* The facade never has more subprocesses of stateless requests than places,
\* also when one outlives its kill (_release in the facade).
THEOREM ProxiesStayBounded == Spec => []Stateless!ProcessesBounded
<1>1. ASSUME Stateless!TypeOK, ProxyPlacesInv PROVE Stateless!ProcessesBounded
  <2> DEFINE running == {p \in Proxied : Stateless!Alive(p)}
  <2>1. running \subseteq proxies /\ proxies \subseteq Proxied
    BY <1>1 DEF Stateless!TypeOK, ProxyPlacesInv
  <2>2. IsFiniteSet(proxies)
    BY <2>1, ProxyConstants, FS_Subset DEF ProxyAssumption
  <2>3. Cardinality(running) <= Cardinality(proxies) /\ Cardinality(running) \in Nat /\ Cardinality(proxies) \in Nat
    BY <2>1, <2>2, FS_Subset, FS_CardinalityType
  <2>4. Cardinality(proxies) <= Places /\ Places \in Nat
    BY <1>1, ProxyConstants DEF ProxyPlacesInv, ProxyAssumption
  <2>5. Cardinality(running) <= Places
    BY ONLY <2>3, <2>4
  <2> QED
    BY <2>5, ProxySizes DEF Stateless!ProcessesBounded
<1> QED
  BY <1>1, ProxyHolds, ProxyRuns, PTL

\* A request gets one answer, and its own: from the facade when all its clients
\* use one id (_rewrite_id), and through the adapter's retry after a lost session
\* (_recover_session_loss).  A request of the connector gets an answer and an
\* error only if it went astray: it was not in the books when it was answered, or
\* failed with the loss of a session it was not sent in (_publish_agent_line,
\* _on_session_lost, _maybe_reload_engine).
THEOREM EachIsAnsweredOnce == Spec => []OnceAnswered
<1>1. ConnInv => Conn!AnsweredTwiceIsAstray
  BY ConnTwiceIsAstray
<1>2. FacadeInv => Facade!OwnAnswer
  BY FacadeGivesItsOwn
<1>3. AdapterInv => Adapter!OnceEach
  BY DEF AdapterInv, AdapterCallInv, Adapter!OnceEach
<1>4. Conn!AnsweredTwiceIsAstray /\ Facade!OwnAnswer /\ Adapter!OnceEach => OnceAnswered
  BY DEF OnceAnswered
<1> QED
  BY <1>1, <1>2, <1>3, <1>4, ConnRuns, ConnKeeps, FacadeIsKept, AdapterRuns, AdapterKeeps, PTL

\* No place is lost and no process left over: the facade's requests in flight
\* return their places, a closed session has no process, and there are never more
\* subprocesses of stateless requests than places.
THEOREM NothingIsLeaked == Spec => []NothingLeaks
<1>1. FacadeInv => (part = "facade" => Facade!SlotsReturn) /\ (part # "shutdown" => Facade!NoOrphan)
  BY FacadeLeaksNothing
<1>2. FacadeInv /\ Stateless!ProcessesBounded => NothingLeaks
  BY <1>1 DEF NothingLeaks
<1> QED
  BY <1>2, FacadeIsKept, ProxiesStayBounded, PTL

\* The connector sends no call a second time, in whatever session, also when it
\* was sent while the handshake was still being replayed, and none of which it
\* told the Agent that it was lost or not delivered (_publish_agent_line); and
\* the adapter gives up no session that the remote still knows, however late the
\* 404 of an older one is read, and opens none beside it (_recover_session_loss).
THEOREM NothingIsReplayed == Spec => NeverReplayed
<1>1. Conn!Spec => Conn!NeverReplayed
  <2> DEFINE Sent == \A m \in Business : connReached'[m] # connReached[m] =>
                       connReached[m] = {} /\ errors[m] = 0
  <2>1. ConnInv /\ [Conn!Next]_(Conn!vars) => [Sent]_(Conn!vars)
    BY ConnConstants, ConnSendsOnce
  <2>2. Conn!NeverReplayed <=> [][Sent]_(Conn!vars)
    BY DEF Conn!NeverReplayed
  <2> HIDE DEF Sent
  <2> QED
    BY <2>1, <2>2, ConnKeeps, PTL DEF Conn!Spec
<1>2. Failing!Spec => Adapter!HealthySessionStays
  <2> DEFINE Stays == (session \in live /\ adapterMain = "runs") => (session' = session /\ made' = made)
  <2>1. AdapterInv /\ [Failing!Next]_(Failing!vars) => [Stays]_(Adapter!vars)
    BY AdapterConstants, AdapterKeepsItsSession
  <2>2. Adapter!HealthySessionStays <=> [][Stays]_(Adapter!vars)
    BY DEF Adapter!HealthySessionStays
  <2> HIDE DEF Stays
  <2> QED
    BY <2>1, <2>2, AdapterKeeps, PTL DEF Failing!Spec
<1> QED
  BY <1>1, <1>2, ConnRuns, AdapterRuns, PTL DEF NeverReplayed

\* The variables of every program keep their types, and its places and queues
\* their limits: the pool of the stateless adapter (MAX_INFLIGHT_REQUESTS), the
\* queue of the legacy projection and the streams of the facade.
THEOREM AgentsTyped == Spec => []TypeOK
<1>1. ConnInv => Conn!TypeOK
  BY ConnTyped
<1>2. FacadeInv => Facade!TypeOK
  BY FacadeConstants, FacadeTyped
<1>3. AdapterInv => Adapter!TypeOK
  BY AdapterConstants, AdapterTyped DEF Adapter!TypeOK, Failing!TypeOK, Adapter!Senders, Failing!Senders
<1>4. LegacySentInv => Legacy!TypeOK
  BY LegacyTyped
<1>5. DeferredInv => Deferred!TypeOK
  BY DeferredConstants, DeferredTyped DEF DeferredInv
<1>6. Conn!TypeOK /\ Facade!TypeOK /\ Stateless!TypeOK /\ Adapter!TypeOK
        /\ Pool!TypeOK /\ Legacy!TypeOK /\ Deferred!TypeOK => TypeOK
  BY DEF TypeOK
<1> QED
  BY <1>1, <1>2, <1>3, <1>4, <1>5, <1>6, ConnRuns, ConnKeeps, FacadeIsKept, ProxyRuns, ProxyHolds,
     AdapterRuns, AdapterKeeps, PoolRuns, PoolTyped, LegacyRuns, LegacyHolds, DeferredRuns,
     DeferredHolds, PTL
===============================================================================
