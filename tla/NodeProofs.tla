----------------------------- MODULE NodeProofs -----------------------------
(* What follows for a node in MCNode from the theorems about its components: *)
(* what runs is a behaviour of the component, what does not run stutters.    *)
EXTENDS MCNode, PartsProofs

\* One component runs for good.
LEMMA PartStays == [Next]_vars => part' = part
BY DEF Next, vars

LEMMA DownedIsFixed == Spec => [](part = "downed") \/ [](part # "downed")
<1>1. [Next]_vars => part' = part
  BY PartStays
<1>2. part = "downed" \/ part # "downed"
  OBVIOUS
<1>3. part = "downed" /\ part' = part => (part = "downed")'
  OBVIOUS
<1>4. part # "downed" /\ part' = part => (part # "downed")'
  OBVIOUS
<1> QED
  BY <1>1, <1>2, <1>3, <1>4, PTL DEF Spec

LEMMA RepublishIsFixed == Spec => [](part = "republish") \/ [](part # "republish")
<1>1. [Next]_vars => part' = part
  BY PartStays
<1>2. part = "republish" \/ part # "republish"
  OBVIOUS
<1>3. part = "republish" /\ part' = part => (part = "republish")'
  OBVIOUS
<1>4. part # "republish" /\ part' = part => (part # "republish")'
  OBVIOUS
<1> QED
  BY <1>1, <1>2, <1>3, <1>4, PTL DEF Spec

-----------------------------------------------------------------------------
(* What runs is a behaviour of the component, and what does not run is one   *)
(* that stutters.                                                            *)

LEMMA LinkRuns == Spec => AnyLink!Spec
<1>1. Init => AnyLink!Init
  BY DEF Init, Link!Init, AnyLink!Init
<1>2. Link!Next => AnyLink!Next
  <2>1. /\ (Link!Greeted <=> AnyLink!Greeted) /\ (Link!CallerLoses <=> AnyLink!CallerLoses)
        /\ (Link!CallerFailed <=> AnyLink!CallerFailed) /\ (Link!Ends => AnyLink!Ends)
    BY DEF Link!Greeted, AnyLink!Greeted, Link!CallerLoses, AnyLink!CallerLoses, Link!Shut, AnyLink!Shut,
       Link!CallerFailed, AnyLink!CallerFailed, Link!Ends, AnyLink!Ends
  <2>2. ASSUME NEW c \in Conns
        PROVE  /\ (Link!Connect(c) <=> AnyLink!Connect(c)) /\ (Link!Accept(c) <=> AnyLink!Accept(c))
               /\ (Link!Greet(c) <=> AnyLink!Greet(c)) /\ (Link!Refused(c) <=> AnyLink!Refused(c))
               /\ (Link!Dies(c) => AnyLink!Dies(c)) /\ (Link!Loses(c) <=> AnyLink!Loses(c))
               /\ (Link!Failed(c) <=> AnyLink!Failed(c))
    BY DEF Link!Connect, AnyLink!Connect, Link!Accept, AnyLink!Accept, Link!ready, AnyLink!ready,
       Link!Greet, AnyLink!Greet, Link!Refused, AnyLink!Refused, Link!Dies, AnyLink!Dies,
       Link!Loses, AnyLink!Loses, Link!Failed, AnyLink!Failed, Link!Shut, AnyLink!Shut
  <2>3. ASSUME NEW q \in Queries
        PROVE  /\ (Link!Query(q) <=> AnyLink!Query(q)) /\ (Link!Answered(q) <=> AnyLink!Answered(q))
               /\ (Link!Expires(q) <=> AnyLink!Expires(q))
    BY DEF Link!Query, AnyLink!Query, Link!Answered, AnyLink!Answered, Link!Expires, AnyLink!Expires
  <2> QED
    BY <2>1, <2>2, <2>3 DEF Link!Next, AnyLink!Next
<1>3. [Next]_vars => [AnyLink!Next]_(AnyLink!vars)
  BY <1>2 DEF Next, vars, peerVars, AnyLink!vars
<1> QED
  BY <1>1, <1>3, PTL DEF Spec, AnyLink!Spec

\* The relay with its habits is one with all of them.
LEMMA RelaySizes ==
  \A S : Relay!Cardinality(S) = AnyRelay!Cardinality(S) /\ Relays!Cardinality(S) = AnyRelay!Cardinality(S)
BY DEF Relay!Cardinality, Relays!Cardinality, AnyRelay!Cardinality

LEMMA RelayRuns == Spec => AnyRelay!Spec
<1>1. Init => AnyRelay!Init
  BY DEF Init, Relay!Init, AnyRelay!Init, Relay!Kinds, AnyRelay!Kinds
<1>2. Relay!Next => AnyRelay!Next
  <2> SUFFICES ASSUME Relay!Next PROVE AnyRelay!Next
    OBVIOUS
  <2>1. CASE Relay!FrameArrives
    BY <2>1 DEF Relay!FrameArrives, Relay!ErrorArrives, Relay!Adds, Relay!Added, Relay!Waits,
       Relay!Contains, Relay!ownerVars,
       AnyRelay!FrameArrives, AnyRelay!ErrorArrives, AnyRelay!Adds, AnyRelay!Added, AnyRelay!Waits,
       AnyRelay!Contains, AnyRelay!ownerVars, AnyRelay!Next
  <2>2. CASE Relay!LinkLost
    BY <2>2 DEF Relay!LinkLost, Relay!Added, Relay!Waits, Relay!Contains, Relay!Running,
       AnyRelay!LinkLost, AnyRelay!Added, AnyRelay!Waits, AnyRelay!Contains, AnyRelay!Running, AnyRelay!Next
  <2>3. CASE Relay!Reconnect
    BY <2>3 DEF Relay!Reconnect, Relay!clientVars, Relay!ownerVars,
       AnyRelay!Reconnect, AnyRelay!clientVars, AnyRelay!ownerVars, AnyRelay!Next
  <2>4. ASSUME NEW r \in Requests, Relay!Ask(r) PROVE AnyRelay!Next
    <3>1. AnyRelay!Ask(r)
      BY <2>4 DEF Relay!Ask, Relay!SendUp, Relay!ownerVars, AnyRelay!Ask, AnyRelay!SendUp,
         AnyRelay!ownerVars
    <3> QED
      BY <3>1 DEF AnyRelay!Next
  <2>5. ASSUME NEW r \in Requests, Relay!AgentLeaves(r) PROVE AnyRelay!Next
    <3>1. AnyRelay!AgentLeaves(r)
      BY <2>5 DEF Relay!AgentLeaves, Relay!Waits, Relay!ownerVars, AnyRelay!AgentLeaves, AnyRelay!Waits,
         AnyRelay!ownerVars
    <3> QED
      BY <3>1 DEF AnyRelay!Next
  <2>6. ASSUME NEW r \in Requests, Relay!GetsHead(r) PROVE AnyRelay!Next
    <3>1. AnyRelay!GetsHead(r)
      BY <2>6 DEF Relay!GetsHead, Relay!Leave, Relay!ownerVars, AnyRelay!GetsHead, AnyRelay!Leave,
         AnyRelay!ownerVars
    <3> QED
      BY <3>1 DEF AnyRelay!Consumer, AnyRelay!Next
  <2>7. ASSUME NEW r \in Requests, Relay!GetsError(r) PROVE AnyRelay!Next
    <3>1. AnyRelay!GetsError(r)
      BY <2>7 DEF Relay!GetsError, Relay!Leave, Relay!ownerVars, AnyRelay!GetsError, AnyRelay!Leave,
         AnyRelay!ownerVars
    <3> QED
      BY <3>1 DEF AnyRelay!Consumer, AnyRelay!Next
  <2>8. ASSUME NEW r \in Requests, Relay!HeadLate(r) PROVE AnyRelay!Next
    <3>1. AnyRelay!HeadLate(r)
      BY <2>8 DEF Relay!HeadLate, Relay!Leave, Relay!SendUp, Relay!ownerVars, AnyRelay!HeadLate,
         AnyRelay!Leave, AnyRelay!SendUp, AnyRelay!ownerVars
    <3> QED
      BY <3>1 DEF AnyRelay!Consumer, AnyRelay!Next
  <2>9. ASSUME NEW r \in Requests, Relay!Writes(r) PROVE AnyRelay!Next
    <3>1. AnyRelay!Writes(r)
      BY <2>9 DEF Relay!Writes, Relay!Leave, Relay!SendUp, Relay!ownerVars, AnyRelay!Writes,
         AnyRelay!Leave, AnyRelay!SendUp, AnyRelay!ownerVars
    <3> QED
      BY <3>1 DEF AnyRelay!Consumer, AnyRelay!Next
  <2>10. ASSUME NEW r \in Requests, Relay!Ends(r) PROVE AnyRelay!Next
    <3>1. AnyRelay!Ends(r)
      BY <2>10 DEF Relay!Ends, Relay!Leave, Relay!SendUp, Relay!ownerVars, AnyRelay!Ends, AnyRelay!Leave,
         AnyRelay!SendUp, AnyRelay!ownerVars
    <3> QED
      BY <3>1 DEF AnyRelay!Consumer, AnyRelay!Next
  <2>11. ASSUME NEW r \in Requests, Relay!Breaks(r) PROVE AnyRelay!Next
    <3>1. AnyRelay!Breaks(r)
      BY <2>11 DEF Relay!Breaks, Relay!Leave, Relay!SendUp, Relay!ownerVars, AnyRelay!Breaks,
         AnyRelay!Leave, AnyRelay!SendUp, AnyRelay!ownerVars
    <3> QED
      BY <3>1 DEF AnyRelay!Consumer, AnyRelay!Next
  <2>12. ASSUME NEW r \in Requests, Relay!OwnerAsks(r) PROVE AnyRelay!Next
    <3>1. AnyRelay!OwnerAsks(r)
      BY <2>12 DEF Relay!OwnerAsks, Relay!clientVars, AnyRelay!OwnerAsks, AnyRelay!clientVars
    <3> QED
      BY <3>1 DEF AnyRelay!Owner, AnyRelay!Next
  <2>13. ASSUME NEW r \in Requests, Relay!OwnerFails(r) PROVE AnyRelay!Next
    <3>1. AnyRelay!OwnerFails(r)
      BY <2>13 DEF Relay!OwnerFails, Relay!SendDown, Relay!Running, Relay!clientVars, AnyRelay!OwnerFails,
         AnyRelay!SendDown, AnyRelay!Running, AnyRelay!clientVars
    <3> QED
      BY <3>1 DEF AnyRelay!Owner, AnyRelay!Next
  <2>14. ASSUME NEW r \in Requests, Relay!OwnerHead(r) PROVE AnyRelay!Next
    <3>1. AnyRelay!OwnerHead(r)
      BY <2>14 DEF Relay!OwnerHead, Relay!SendDown, Relay!clientVars, AnyRelay!OwnerHead,
         AnyRelay!SendDown, AnyRelay!clientVars
    <3> QED
      BY <3>1 DEF AnyRelay!Owner, AnyRelay!Next
  <2>15. ASSUME NEW r \in Requests, Relay!OwnerBody(r) PROVE AnyRelay!Next
    <3>1. AnyRelay!OwnerBody(r)
      BY <2>15 DEF Relay!OwnerBody, Relay!SendDown, Relay!Contains, Relay!clientVars, AnyRelay!OwnerBody,
         AnyRelay!SendDown, AnyRelay!Contains, AnyRelay!clientVars
    <3> QED
      BY <3>1 DEF AnyRelay!Owner, AnyRelay!Next
  <2>16. ASSUME NEW r \in Requests, Relay!OwnerEnds(r) PROVE AnyRelay!Next
    <3>1. AnyRelay!OwnerEnds(r)
      BY <2>16 DEF Relay!OwnerEnds, Relay!SendDown, Relay!clientVars, AnyRelay!OwnerEnds,
         AnyRelay!SendDown, AnyRelay!clientVars
    <3> QED
      BY <3>1 DEF AnyRelay!Owner, AnyRelay!Next
  <2>17. ASSUME NEW r \in Requests, Relay!Arrives(r) PROVE AnyRelay!Next
    <3>1. AnyRelay!Arrives(r)
      BY <2>17, RelaySizes DEF Relay!Arrives, Relay!SendDown, Relay!clientVars, Relay!Tasks, Relay!Running,
         AnyRelay!Arrives, AnyRelay!SendDown, AnyRelay!clientVars, AnyRelay!Tasks, AnyRelay!Running
    <3> QED
      BY <3>1 DEF AnyRelay!Next
  <2>18. ASSUME NEW r \in Requests, Relay!Cancelled(r) PROVE AnyRelay!Next
    <3>1. AnyRelay!Cancelled(r)
      BY <2>18 DEF Relay!Cancelled, Relay!Running, Relay!clientVars, AnyRelay!Cancelled, AnyRelay!Running,
         AnyRelay!clientVars
    <3> QED
      BY <3>1 DEF AnyRelay!Next
  <2> QED
    BY <2>1, <2>2, <2>3, <2>4, <2>5, <2>6, <2>7, <2>8, <2>9, <2>10, <2>11, <2>12, <2>13, <2>14, <2>15,
       <2>16, <2>17, <2>18 DEF Relay!Next, Relay!Consumer, Relay!Owner
<1>3. Relays!Next => AnyRelay!Next
  <2> SUFFICES ASSUME Relays!Next PROVE AnyRelay!Next
    OBVIOUS
  <2>1. CASE Relays!FrameArrives
    BY <2>1 DEF Relays!FrameArrives, Relays!ErrorArrives, Relays!Adds, Relays!Added, Relays!Waits,
       Relays!Contains, Relays!ownerVars,
       AnyRelay!FrameArrives, AnyRelay!ErrorArrives, AnyRelay!Adds, AnyRelay!Added, AnyRelay!Waits,
       AnyRelay!Contains, AnyRelay!ownerVars, AnyRelay!Next
  <2>2. CASE Relays!LinkLost
    BY <2>2 DEF Relays!LinkLost, Relays!Added, Relays!Waits, Relays!Contains, Relays!Running,
       AnyRelay!LinkLost, AnyRelay!Added, AnyRelay!Waits, AnyRelay!Contains, AnyRelay!Running, AnyRelay!Next
  <2>3. CASE Relays!Reconnect
    BY <2>3 DEF Relays!Reconnect, Relays!clientVars, Relays!ownerVars,
       AnyRelay!Reconnect, AnyRelay!clientVars, AnyRelay!ownerVars, AnyRelay!Next
  <2>4. ASSUME NEW r \in Requests, Relays!Ask(r) PROVE AnyRelay!Next
    <3>1. AnyRelay!Ask(r)
      BY <2>4 DEF Relays!Ask, Relays!SendUp, Relays!ownerVars, AnyRelay!Ask, AnyRelay!SendUp,
         AnyRelay!ownerVars
    <3> QED
      BY <3>1 DEF AnyRelay!Next
  <2>5. ASSUME NEW r \in Requests, Relays!AgentLeaves(r) PROVE AnyRelay!Next
    <3>1. AnyRelay!AgentLeaves(r)
      BY <2>5 DEF Relays!AgentLeaves, Relays!Waits, Relays!ownerVars, AnyRelay!AgentLeaves, AnyRelay!Waits,
         AnyRelay!ownerVars
    <3> QED
      BY <3>1 DEF AnyRelay!Next
  <2>6. ASSUME NEW r \in Requests, Relays!GetsHead(r) PROVE AnyRelay!Next
    <3>1. AnyRelay!GetsHead(r)
      BY <2>6 DEF Relays!GetsHead, Relays!Leave, Relays!ownerVars, AnyRelay!GetsHead, AnyRelay!Leave,
         AnyRelay!ownerVars
    <3> QED
      BY <3>1 DEF AnyRelay!Consumer, AnyRelay!Next
  <2>7. ASSUME NEW r \in Requests, Relays!GetsError(r) PROVE AnyRelay!Next
    <3>1. AnyRelay!GetsError(r)
      BY <2>7 DEF Relays!GetsError, Relays!Leave, Relays!ownerVars, AnyRelay!GetsError, AnyRelay!Leave,
         AnyRelay!ownerVars
    <3> QED
      BY <3>1 DEF AnyRelay!Consumer, AnyRelay!Next
  <2>8. ASSUME NEW r \in Requests, Relays!HeadLate(r) PROVE AnyRelay!Next
    <3>1. AnyRelay!HeadLate(r)
      BY <2>8 DEF Relays!HeadLate, Relays!Leave, Relays!SendUp, Relays!ownerVars, AnyRelay!HeadLate,
         AnyRelay!Leave, AnyRelay!SendUp, AnyRelay!ownerVars
    <3> QED
      BY <3>1 DEF AnyRelay!Consumer, AnyRelay!Next
  <2>9. ASSUME NEW r \in Requests, Relays!Writes(r) PROVE AnyRelay!Next
    <3>1. AnyRelay!Writes(r)
      BY <2>9 DEF Relays!Writes, Relays!Leave, Relays!SendUp, Relays!ownerVars, AnyRelay!Writes,
         AnyRelay!Leave, AnyRelay!SendUp, AnyRelay!ownerVars
    <3> QED
      BY <3>1 DEF AnyRelay!Consumer, AnyRelay!Next
  <2>10. ASSUME NEW r \in Requests, Relays!Ends(r) PROVE AnyRelay!Next
    <3>1. AnyRelay!Ends(r)
      BY <2>10 DEF Relays!Ends, Relays!Leave, Relays!SendUp, Relays!ownerVars, AnyRelay!Ends,
         AnyRelay!Leave, AnyRelay!SendUp, AnyRelay!ownerVars
    <3> QED
      BY <3>1 DEF AnyRelay!Consumer, AnyRelay!Next
  <2>11. ASSUME NEW r \in Requests, Relays!Breaks(r) PROVE AnyRelay!Next
    <3>1. AnyRelay!Breaks(r)
      BY <2>11 DEF Relays!Breaks, Relays!Leave, Relays!SendUp, Relays!ownerVars, AnyRelay!Breaks,
         AnyRelay!Leave, AnyRelay!SendUp, AnyRelay!ownerVars
    <3> QED
      BY <3>1 DEF AnyRelay!Consumer, AnyRelay!Next
  <2>12. ASSUME NEW r \in Requests, Relays!OwnerAsks(r) PROVE AnyRelay!Next
    <3>1. AnyRelay!OwnerAsks(r)
      BY <2>12 DEF Relays!OwnerAsks, Relays!clientVars, AnyRelay!OwnerAsks, AnyRelay!clientVars
    <3> QED
      BY <3>1 DEF AnyRelay!Owner, AnyRelay!Next
  <2>13. ASSUME NEW r \in Requests, Relays!OwnerFails(r) PROVE AnyRelay!Next
    <3>1. AnyRelay!OwnerFails(r)
      BY <2>13 DEF Relays!OwnerFails, Relays!SendDown, Relays!Running, Relays!clientVars,
         AnyRelay!OwnerFails, AnyRelay!SendDown, AnyRelay!Running, AnyRelay!clientVars
    <3> QED
      BY <3>1 DEF AnyRelay!Owner, AnyRelay!Next
  <2>14. ASSUME NEW r \in Requests, Relays!OwnerHead(r) PROVE AnyRelay!Next
    <3>1. AnyRelay!OwnerHead(r)
      BY <2>14 DEF Relays!OwnerHead, Relays!SendDown, Relays!clientVars, AnyRelay!OwnerHead,
         AnyRelay!SendDown, AnyRelay!clientVars
    <3> QED
      BY <3>1 DEF AnyRelay!Owner, AnyRelay!Next
  <2>15. ASSUME NEW r \in Requests, Relays!OwnerBody(r) PROVE AnyRelay!Next
    <3>1. AnyRelay!OwnerBody(r)
      BY <2>15 DEF Relays!OwnerBody, Relays!SendDown, Relays!Contains, Relays!clientVars,
         AnyRelay!OwnerBody, AnyRelay!SendDown, AnyRelay!Contains, AnyRelay!clientVars
    <3> QED
      BY <3>1 DEF AnyRelay!Owner, AnyRelay!Next
  <2>16. ASSUME NEW r \in Requests, Relays!OwnerEnds(r) PROVE AnyRelay!Next
    <3>1. AnyRelay!OwnerEnds(r)
      BY <2>16 DEF Relays!OwnerEnds, Relays!SendDown, Relays!clientVars, AnyRelay!OwnerEnds,
         AnyRelay!SendDown, AnyRelay!clientVars
    <3> QED
      BY <3>1 DEF AnyRelay!Owner, AnyRelay!Next
  <2>17. ASSUME NEW r \in Requests, Relays!Arrives(r) PROVE AnyRelay!Next
    <3>1. AnyRelay!Arrives(r)
      BY <2>17, RelaySizes DEF Relays!Arrives, Relays!SendDown, Relays!clientVars, Relays!Tasks,
         Relays!Running, AnyRelay!Arrives, AnyRelay!SendDown, AnyRelay!clientVars, AnyRelay!Tasks,
         AnyRelay!Running
    <3> QED
      BY <3>1 DEF AnyRelay!Next
  <2>18. ASSUME NEW r \in Requests, Relays!Cancelled(r) PROVE AnyRelay!Next
    <3>1. AnyRelay!Cancelled(r)
      BY <2>18 DEF Relays!Cancelled, Relays!Running, Relays!clientVars, AnyRelay!Cancelled,
         AnyRelay!Running, AnyRelay!clientVars
    <3> QED
      BY <3>1 DEF AnyRelay!Next
  <2> QED
    BY <2>1, <2>2, <2>3, <2>4, <2>5, <2>6, <2>7, <2>8, <2>9, <2>10, <2>11, <2>12, <2>13, <2>14, <2>15,
       <2>16, <2>17, <2>18 DEF Relays!Next, Relays!Consumer, Relays!Owner
<1>4. [Next]_vars => [AnyRelay!Next]_(AnyRelay!vars)
  BY <1>2, <1>3 DEF Next, vars, relayVars, AnyRelay!vars, AnyRelay!clientVars, AnyRelay!ownerVars
<1> QED
  BY <1>1, <1>4, PTL DEF Spec, AnyRelay!Spec

LEMMA OldRuns == Spec => Old!Spec
<1>1. Init => Old!TransferInit
  BY DEF Init
<1>2. [Next]_vars => [Old!Next]_(Old!transferVars)
  BY DEF Next, vars, oldVars, Old!transferVars
<1> QED
  BY <1>1, <1>2, PTL DEF Spec, Old!Spec

LEMMA InputRuns == Spec => Input!Spec
<1>1. Init => Input!Init
  BY DEF Init
<1>2. [Next]_vars => [Input!Next]_(Input!vars)
  BY DEF Next, vars, inputVars, Input!vars, Input!transferVars
<1> QED
  BY <1>1, <1>2, PTL DEF Spec, Input!Spec

LEMMA PublishRuns == Spec /\ [](part # "republish") => Publish!Spec
<1>1. Init => Publish!Init
  BY DEF Init
<1>2. part # "republish" /\ [Next]_vars => [Publish!Next]_(Publish!vars)
  BY DEF Next, vars, publishVars, Publish!vars, Publish!sendVars, Publish!linkVars, Publish!diskVars
<1> QED
  BY <1>1, <1>2, PTL DEF Spec, Publish!Spec

LEMMA RepublishRuns == Spec /\ [](part # "publish") => Republish!Spec
<1>1. Init => Republish!Init
  BY DEF Init, Publish!Init, Republish!Init, Publish!Pubs, Republish!Pubs, Publish!None, Republish!None,
     Publish!Tokens, Republish!Tokens, Publish!NoRec, Republish!NoRec, Publish!Gone, Republish!Gone,
     Publish!NoReceipt, Republish!NoReceipt
<1>2. part # "publish" /\ [Next]_vars => [Republish!Next]_(Republish!vars)
  BY DEF Next, vars, publishVars, Republish!vars, Republish!sendVars, Republish!linkVars, Republish!diskVars
<1> QED
  BY <1>1, <1>2, PTL DEF Spec, Republish!Spec

LEMMA SessionRuns == Spec => Session!Spec
<1>1. Init => Session!Init
  BY DEF Init
<1>2. [Next]_vars => [Session!Next]_(Session!vars)
  BY DEF Next, vars, sessionVars, Session!vars, Session!queueVars, Session!clientVars, Session!requestVars,
     Session!workVars, Session!initVars, Session!leaseVars
<1> QED
  BY <1>1, <1>2, PTL DEF Spec, Session!Spec

\* A service that is managed takes the steps it takes with any habit.
LEMMA HttpSteps == Http!Next => Linked
<1>1. \A x : /\ (Http!Starting(x) => AnyHttp!Starting(x))
             /\ (Http!Stopping(x) => AnyHttp!Stopping(x))
  BY DEF Http!Starting, AnyHttp!Starting, Http!Stopping, AnyHttp!Stopping, Http!New, AnyHttp!New,
     Http!StopFirst, AnyHttp!StopFirst, Http!procVars, AnyHttp!procVars
<1>2. \A at, x : /\ (Http!Started(at, x) => AnyHttp!Started(at, x))
                 /\ (Http!Stopped(at, x) => AnyHttp!Stopped(at, x))
  BY DEF Http!Started, AnyHttp!Started, Http!Stopped, AnyHttp!Stopped, Http!Over, AnyHttp!Over,
     Http!InStart,
     AnyHttp!InStart, Http!InStop, AnyHttp!InStop, Http!taskVars, AnyHttp!taskVars, Http!procVars,
     AnyHttp!procVars
<1>3. Http!Generation => AnyHttp!Generation
  <2>1. Http!Spawn => AnyHttp!Spawn
    BY DEF Http!Spawn, AnyHttp!Spawn, Http!CutServed, AnyHttp!CutServed, Http!taskVars, AnyHttp!taskVars,
       Http!procVars, AnyHttp!procVars, Http!clientVars, AnyHttp!clientVars
  <2>2. Http!Passes => AnyHttp!Passes
    BY DEF Http!Passes, AnyHttp!Passes, Http!CutServed, AnyHttp!CutServed, Http!taskVars, AnyHttp!taskVars,
       Http!procVars, AnyHttp!procVars, Http!clientVars, AnyHttp!clientVars
  <2>3. Http!BecomesReady => AnyHttp!BecomesReady
    BY DEF Http!BecomesReady, AnyHttp!BecomesReady, Http!CutServed, AnyHttp!CutServed, Http!taskVars,
       AnyHttp!taskVars, Http!procVars, AnyHttp!procVars, Http!clientVars, AnyHttp!clientVars
  <2>4. Http!StartFails => AnyHttp!StartFails
    BY DEF Http!StartFails, AnyHttp!StartFails, Http!CutServed, AnyHttp!CutServed, Http!taskVars,
       AnyHttp!taskVars, Http!procVars, AnyHttp!procVars, Http!clientVars, AnyHttp!clientVars
  <2>5. Http!Notices => AnyHttp!Notices
    BY DEF Http!Notices, AnyHttp!Notices, Http!CutServed, AnyHttp!CutServed, Http!taskVars,
       AnyHttp!taskVars,
       Http!procVars, AnyHttp!procVars, Http!clientVars, AnyHttp!clientVars
  <2>6. Http!Asks => AnyHttp!Asks
    BY DEF Http!Asks, AnyHttp!Asks, Http!CutServed, AnyHttp!CutServed, Http!taskVars, AnyHttp!taskVars,
       Http!procVars, AnyHttp!procVars, Http!clientVars, AnyHttp!clientVars
  <2>7. Http!Stops => AnyHttp!Stops
    BY DEF Http!Stops, AnyHttp!Stops, Http!CutServed, AnyHttp!CutServed, Http!taskVars, AnyHttp!taskVars,
       Http!procVars, AnyHttp!procVars, Http!clientVars, AnyHttp!clientVars
  <2> QED
    BY <2>1, <2>2, <2>3, <2>4, <2>5, <2>6, <2>7 DEF Http!Generation, AnyHttp!Generation
<1>4. Http!Exits => AnyHttp!Exits
  BY DEF Http!Exits, AnyHttp!Exits, Http!CutServed, AnyHttp!CutServed, Http!taskVars, AnyHttp!taskVars
<1>5. ~Http!LinkLost
  BY DEF Http!LinkLost
<1>6. (Http!NodeStops => AnyHttp!NodeStops) /\ (Http!NodeStopped => AnyHttp!NodeStopped)
  BY <1>1, <1>2 DEF Http!NodeStops, AnyHttp!NodeStops, Http!NodeStopped, AnyHttp!NodeStopped, Http!Down,
     AnyHttp!Down, Http!DowningAt, AnyHttp!DowningAt, Http!Outcomes, AnyHttp!Outcomes, Http!InStart,
     AnyHttp!InStart, Http!InStop, AnyHttp!InStop
<1>7. ASSUME NEW d \in Demands
      PROVE  /\ (Http!Demand(d) => AnyHttp!Demand(d)) /\ (Http!DemandWaited(d) => AnyHttp!DemandWaited(d))
             /\ (Http!Served(d) => AnyHttp!Served(d))
  BY <1>1, <1>2 DEF Http!Demand, AnyHttp!Demand, Http!DemandWaited, AnyHttp!DemandWaited, Http!Served,
     AnyHttp!Served, Http!Demanded, AnyHttp!Demanded, Http!DemandAt, AnyHttp!DemandAt, Http!Outcomes,
     AnyHttp!Outcomes, Http!InStart, AnyHttp!InStart, Http!InStop, AnyHttp!InStop, Http!taskVars,
     AnyHttp!taskVars, Http!procVars, AnyHttp!procVars
<1>8. ASSUME NEW o \in Ops
      PROVE  /\ \A a, e : Http!Operate(o, a, e) => AnyHttp!Operate(o, a, e)
             /\ (Http!Drained(o) => AnyHttp!Drained(o))
  BY DEF Http!Operate, AnyHttp!Operate, Http!Drained, AnyHttp!Drained, Http!Unlocked, AnyHttp!Unlocked,
     Http!Named, AnyHttp!Named, Http!live, AnyHttp!live, Http!inflight, AnyHttp!inflight, Http!OpAt,
     AnyHttp!OpAt, Http!taskVars, AnyHttp!taskVars, Http!procVars, AnyHttp!procVars
<1>9. ASSUME NEW o \in Ops
      PROVE  /\ (Http!OpStops(o) => AnyHttp!OpStops(o)) /\ (Http!OpStopped(o) => AnyHttp!OpStopped(o))
             /\ (Http!OpStarts(o) => AnyHttp!OpStarts(o)) /\ (Http!OpStarted(o) => AnyHttp!OpStarted(o))
  <2>1. \A x : /\ (Http!AfterStop(o, x) => AnyHttp!AfterStop(o, x))
               /\ (Http!AfterStart(o, x) => AnyHttp!AfterStart(o, x))
    BY DEF Http!AfterStop, AnyHttp!AfterStop, Http!AfterStart, AnyHttp!AfterStart, Http!OpAt, AnyHttp!OpAt
  <2> QED
    BY <1>1, <1>2, <2>1 DEF Http!OpStops, AnyHttp!OpStops, Http!OpStopped, AnyHttp!OpStopped, Http!OpStarts,
       AnyHttp!OpStarts, Http!OpStarted, AnyHttp!OpStarted, Http!Outcomes, AnyHttp!Outcomes, Http!InStart,
       AnyHttp!InStart, Http!InStop, AnyHttp!InStop
<1> QED
  BY <1>3, <1>4, <1>5, <1>6, <1>7, <1>8, <1>9 DEF Http!Next, AnyHttp!Next, Http!Actions, AnyHttp!Actions,
     Linked

LEMMA DownedSteps == Downed!Next => AnyHttp!Next
<1>1. \A x : /\ (Downed!Starting(x) => AnyHttp!Starting(x))
             /\ (Downed!Stopping(x) => AnyHttp!Stopping(x))
  BY DEF Downed!Starting, AnyHttp!Starting, Downed!Stopping, AnyHttp!Stopping, Downed!New, AnyHttp!New,
     Downed!StopFirst, AnyHttp!StopFirst, Downed!procVars, AnyHttp!procVars
<1>2. \A at, x : /\ (Downed!Started(at, x) => AnyHttp!Started(at, x))
                 /\ (Downed!Stopped(at, x) => AnyHttp!Stopped(at, x))
  BY DEF Downed!Started, AnyHttp!Started, Downed!Stopped, AnyHttp!Stopped, Downed!Over, AnyHttp!Over,
     Downed!InStart, AnyHttp!InStart, Downed!InStop, AnyHttp!InStop, Downed!taskVars, AnyHttp!taskVars,
     Downed!procVars, AnyHttp!procVars
<1>3. Downed!Generation => AnyHttp!Generation
  <2>1. Downed!Spawn => AnyHttp!Spawn
    BY DEF Downed!Spawn, AnyHttp!Spawn, Downed!CutServed, AnyHttp!CutServed, Downed!taskVars,
       AnyHttp!taskVars, Downed!procVars, AnyHttp!procVars, Downed!clientVars, AnyHttp!clientVars
  <2>2. Downed!Passes => AnyHttp!Passes
    BY DEF Downed!Passes, AnyHttp!Passes, Downed!CutServed, AnyHttp!CutServed, Downed!taskVars,
       AnyHttp!taskVars, Downed!procVars, AnyHttp!procVars, Downed!clientVars, AnyHttp!clientVars
  <2>3. Downed!BecomesReady => AnyHttp!BecomesReady
    BY DEF Downed!BecomesReady, AnyHttp!BecomesReady, Downed!CutServed, AnyHttp!CutServed, Downed!taskVars,
       AnyHttp!taskVars, Downed!procVars, AnyHttp!procVars, Downed!clientVars, AnyHttp!clientVars
  <2>4. Downed!StartFails => AnyHttp!StartFails
    BY DEF Downed!StartFails, AnyHttp!StartFails, Downed!CutServed, AnyHttp!CutServed, Downed!taskVars,
       AnyHttp!taskVars, Downed!procVars, AnyHttp!procVars, Downed!clientVars, AnyHttp!clientVars
  <2>5. Downed!Notices => AnyHttp!Notices
    BY DEF Downed!Notices, AnyHttp!Notices, Downed!CutServed, AnyHttp!CutServed, Downed!taskVars,
       AnyHttp!taskVars, Downed!procVars, AnyHttp!procVars, Downed!clientVars, AnyHttp!clientVars
  <2>6. Downed!Asks => AnyHttp!Asks
    BY DEF Downed!Asks, AnyHttp!Asks, Downed!CutServed, AnyHttp!CutServed, Downed!taskVars,
       AnyHttp!taskVars,
       Downed!procVars, AnyHttp!procVars, Downed!clientVars, AnyHttp!clientVars
  <2>7. Downed!Stops => AnyHttp!Stops
    BY DEF Downed!Stops, AnyHttp!Stops, Downed!CutServed, AnyHttp!CutServed, Downed!taskVars,
       AnyHttp!taskVars, Downed!procVars, AnyHttp!procVars, Downed!clientVars, AnyHttp!clientVars
  <2> QED
    BY <2>1, <2>2, <2>3, <2>4, <2>5, <2>6, <2>7 DEF Downed!Generation, AnyHttp!Generation
<1>4. Downed!Exits => AnyHttp!Exits
  BY DEF Downed!Exits, AnyHttp!Exits, Downed!CutServed, AnyHttp!CutServed, Downed!taskVars, AnyHttp!taskVars
<1>5. Downed!LinkLost => AnyHttp!LinkLost
  BY DEF Downed!LinkLost, AnyHttp!LinkLost, Downed!InStart, AnyHttp!InStart, Downed!taskVars,
     AnyHttp!taskVars, Downed!procVars, AnyHttp!procVars
<1>6. (Downed!NodeStops => AnyHttp!NodeStops) /\ (Downed!NodeStopped => AnyHttp!NodeStopped)
  BY <1>1, <1>2 DEF Downed!NodeStops, AnyHttp!NodeStops, Downed!NodeStopped, AnyHttp!NodeStopped,
     Downed!Down, AnyHttp!Down, Downed!DowningAt, AnyHttp!DowningAt, Downed!Outcomes, AnyHttp!Outcomes,
     Downed!InStart, AnyHttp!InStart, Downed!InStop, AnyHttp!InStop
<1>7. ASSUME NEW d \in Demands
      PROVE  /\ (Downed!Demand(d) => AnyHttp!Demand(d)) /\ (Downed!DemandWaited(d) => AnyHttp!DemandWaited(d))
             /\ (Downed!Served(d) => AnyHttp!Served(d))
  BY <1>1, <1>2 DEF Downed!Demand, AnyHttp!Demand, Downed!DemandWaited, AnyHttp!DemandWaited, Downed!Served,
     AnyHttp!Served, Downed!Demanded, AnyHttp!Demanded, Downed!DemandAt, AnyHttp!DemandAt, Downed!Outcomes,
     AnyHttp!Outcomes, Downed!InStart, AnyHttp!InStart, Downed!InStop, AnyHttp!InStop, Downed!taskVars,
     AnyHttp!taskVars, Downed!procVars, AnyHttp!procVars
<1>8. ASSUME NEW o \in Ops
      PROVE  /\ \A a, e : Downed!Operate(o, a, e) => AnyHttp!Operate(o, a, e)
             /\ (Downed!Drained(o) => AnyHttp!Drained(o))
  BY DEF Downed!Operate, AnyHttp!Operate, Downed!Drained, AnyHttp!Drained, Downed!Unlocked,
     AnyHttp!Unlocked,
     Downed!Named, AnyHttp!Named, Downed!live, AnyHttp!live, Downed!inflight, AnyHttp!inflight, Downed!OpAt,
     AnyHttp!OpAt, Downed!taskVars, AnyHttp!taskVars, Downed!procVars, AnyHttp!procVars
<1>9. ASSUME NEW o \in Ops
      PROVE  /\ (Downed!OpStops(o) => AnyHttp!OpStops(o)) /\ (Downed!OpStopped(o) => AnyHttp!OpStopped(o))
             /\ (Downed!OpStarts(o) => AnyHttp!OpStarts(o)) /\ (Downed!OpStarted(o) => AnyHttp!OpStarted(o))
  <2>1. \A x : /\ (Downed!AfterStop(o, x) => AnyHttp!AfterStop(o, x))
               /\ (Downed!AfterStart(o, x) => AnyHttp!AfterStart(o, x))
    BY DEF Downed!AfterStop, AnyHttp!AfterStop, Downed!AfterStart, AnyHttp!AfterStart, Downed!OpAt,
       AnyHttp!OpAt
  <2> QED
    BY <1>1, <1>2, <2>1 DEF Downed!OpStops, AnyHttp!OpStops, Downed!OpStopped, AnyHttp!OpStopped,
       Downed!OpStarts, AnyHttp!OpStarts, Downed!OpStarted, AnyHttp!OpStarted, Downed!Outcomes,
       AnyHttp!Outcomes, Downed!InStart, AnyHttp!InStart, Downed!InStop, AnyHttp!InStop
<1> QED
  BY <1>3, <1>4, <1>5, <1>6, <1>7, <1>8, <1>9 DEF Downed!Next, AnyHttp!Next, Downed!Actions, AnyHttp!Actions

LEMMA HttpInits == Init => AnyHttp!Init
BY DEF Init, Http!Init, AnyHttp!Init

LEMMA HttpRuns == Spec => AnyHttp!Spec
<1>1. [Next]_vars => [AnyHttp!Next]_(AnyHttp!vars)
  BY HttpSteps, DownedSteps, LinkedRuns
     DEF Next, vars, httpVars, AnyHttp!vars, AnyHttp!taskVars, AnyHttp!procVars, AnyHttp!clientVars
<1> QED
  BY <1>1, HttpInits, PTL DEF Spec, AnyHttp!Spec

LEMMA HttpLinked == Spec /\ [](part # "downed") => AnyHttp!Init /\ [][Linked]_(AnyHttp!vars)
<1>1. part # "downed" /\ [Next]_vars => [Linked]_(AnyHttp!vars)
  BY HttpSteps
     DEF Next, vars, httpVars, AnyHttp!vars, AnyHttp!taskVars, AnyHttp!procVars, AnyHttp!clientVars
<1> QED
  BY <1>1, HttpInits, PTL DEF Spec

LEMMA ConfigRuns == NodeAssumption => (Spec => Crashing!Spec)
<1> SUFFICES ASSUME NodeAssumption PROVE Spec => Crashing!Spec
  OBVIOUS
<1>0. ProjectionAssumption
  BY DEF NodeAssumption, ProjectionAssumption
<1>1. Init => Crashing!Init
  BY DEF Init, Watch!Init, Crashing!Init, Watch!Absent, Crashing!Absent, Watch!Blank, Crashing!Blank,
     Watch!Procs, Crashing!Procs
<1>2. Crashing!Init => ConfigTypesInv
  BY <1>0, ConfigTypesInitial
<1>3. ConfigTypesInv /\ [Next]_vars => [Crashing!Next]_(Crashing!vars)
  <2>1. [Next]_vars => Watch!Next \/ Crashing!Next \/ UNCHANGED configVars
    BY DEF Next, vars
  <2>2. UNCHANGED configVars => UNCHANGED Crashing!vars
    BY DEF configVars, Crashing!vars
  <2> QED
    BY <1>0, <2>1, <2>2, WatchSteps
<1>4. ConfigTypesInv /\ [Crashing!Next]_(Crashing!vars) => ConfigTypesInv'
  BY <1>0, ConfigTypesStep
<1> QED
  BY <1>1, <1>2, <1>3, <1>4, PTL DEF Spec, Crashing!Spec

-----------------------------------------------------------------------------
\* However connections die, components fail and actions race, there is one link,
\* nobody waits on one that is gone, and a managed service has one generation,
\* which a stop or a restart that was applied has ended.
THEOREM NodeHasOne == NodeAssumption => (Spec => []OneAtATime)
<1> SUFFICES ASSUME NodeAssumption PROVE Spec => []OneAtATime
  OBVIOUS
<1>1. AnyLink!Spec => [](AnyLink!OneLink /\ AnyLink!NoOrphanQuery)
  BY OneLinkAtATime, QueriesFailWithTheLink, PTL
<1>2. AnyLink!OneLink /\ AnyLink!NoOrphanQuery => Link!OneLink /\ Link!NoOrphanQuery
  <2>1. \A S : AnyLink!Cardinality(S) = Link!Cardinality(S)
    BY DEF AnyLink!Cardinality, Link!Cardinality
  <2> QED
    BY <2>1 DEF AnyLink!OneLink, Link!OneLink, AnyLink!NoOrphanQuery, Link!NoOrphanQuery
<1>3. AnyHttp!Spec => []AnyHttp!OneGeneration
  BY GenerationsAreOne
<1>4. AnyHttp!Init /\ [][Linked]_(AnyHttp!vars) => []AnyHttp!AppliedMeansGone
  BY AppliedIsGone
<1>5. /\ AnyHttp!OneGeneration => Http!OneGeneration
      /\ AnyHttp!AppliedMeansGone => Http!AppliedMeansGone
  BY DEF AnyHttp!OneGeneration, Http!OneGeneration, AnyHttp!AppliedMeansGone, Http!AppliedMeansGone
<1>6. part = "downed" => part # "http"
  OBVIOUS
<1>7. Link!OneLink /\ Link!NoOrphanQuery /\ Http!OneGeneration /\ Http!AppliedMeansGone
        => OneAtATime
  BY DEF OneAtATime
<1>8. Link!OneLink /\ Link!NoOrphanQuery /\ Http!OneGeneration /\ part # "http" => OneAtATime
  BY DEF OneAtATime
<1>9. Spec => [](Link!OneLink /\ Link!NoOrphanQuery)
  BY <1>1, <1>2, LinkRuns, PTL
<1>10. Spec => []Http!OneGeneration
  BY <1>3, <1>5, HttpRuns, PTL
<1>11. Spec /\ [](part # "downed") => []Http!AppliedMeansGone
  BY <1>4, <1>5, HttpLinked, PTL
<1> QED
  BY <1>6, <1>7, <1>8, <1>9, <1>10, <1>11, DownedIsFixed, PTL

\* No command changes what the user made or changed in the client's file, wherever
\* it is killed, and an environment that was unenrolled with its entries holds
\* nothing the bridge wrote.
THEOREM NodeKeepsTheUsersOwn == NodeAssumption => (Spec => KeepsTheUsersOwn)
<1> SUFFICES ASSUME NodeAssumption PROVE Spec => KeepsTheUsersOwn
  OBVIOUS
<1>1. ProjectionAssumption /\ Undisturbed
  BY DEF NodeAssumption, ProjectionAssumption, Undisturbed
<1>2. Crashing!Spec => Crashing!KeepsTheUsersOwn /\ []Crashing!RemovedIsClean
  BY <1>1, UsersOwnIsKept, RemovedStaysClean
<1>3. Crashing!KeepsTheUsersOwn <=> Watch!KeepsTheUsersOwn
  BY DEF Crashing!KeepsTheUsersOwn, Watch!KeepsTheUsersOwn, Crashing!Users, Watch!Users,
     Crashing!vars, Watch!vars
<1>4. Crashing!RemovedIsClean => Watch!RemovedIsClean
  BY DEF Crashing!RemovedIsClean, Watch!RemovedIsClean, Crashing!Forms, Watch!Forms,
     Crashing!Procs, Watch!Procs
<1> QED
  BY <1>2, <1>3, <1>4, ConfigRuns, PTL DEF KeepsTheUsersOwn

-----------------------------------------------------------------------------
(* Deliveries.                                                               *)

\* A node meets what its delivery supposes: publishes of one artifact do not
\* overlap, and a begin is through with the journal before its stream goes on.
LEMMA PublishSupposes ==
  NodeAssumption => /\ Publish!ArtifactAssumption /\ Publish!Serialised
                    /\ Republish!ArtifactAssumption /\ Republish!Serialised
BY DEF NodeAssumption, Publish!ArtifactAssumption, Publish!AllHabits, Publish!Serialised,
   Republish!ArtifactAssumption, Republish!AllHabits, Republish!Serialised

\* What both promise is the same.
LEMMA RepublishDelivers == Republish!Delivers => Publish!Delivers
<1>1. Republish!Promise!Init => Publish!Promise!Init
  BY DEF Republish!Promise!Init, Publish!Promise!Init, Republish!Gone, Publish!Gone, Republish!Whole,
     Publish!Whole, Republish!Pubs, Publish!Pubs
<1>2. [Republish!Promise!Next]_(Republish!Promise!vars) => [Publish!Promise!Next]_(Publish!Promise!vars)
  BY DEF Republish!Promise!Next, Publish!Promise!Next, Republish!Promise!vars, Publish!Promise!vars,
     Republish!Promise!Put, Publish!Promise!Put, Republish!Promise!Withdraw, Publish!Promise!Withdraw,
     Republish!Promise!Tell, Publish!Promise!Tell, Republish!Promise!Refuse, Publish!Promise!Refuse,
     Republish!Gone, Publish!Gone, Republish!Whole, Publish!Whole, Republish!Pubs, Publish!Pubs
<1> QED
  BY <1>1, <1>2, PTL DEF Republish!Delivers, Publish!Delivers, Republish!Promise!Spec, Publish!Promise!Spec

\* Whatever retries, parks, breaks, cancellations and restarts happen, but for a
\* restart between the link and the unlink of a commit, a file is delivered as
\* Delivery promises, its publishes one after the other (_publish_local_artifact,
\* _commit_artifact_v2_file, _receive_artifact).
THEOREM NodeDelivers == NodeAssumption => (Spec => Delivers)
<1> SUFFICES ASSUME NodeAssumption PROVE Spec => Delivers
  OBVIOUS
<1>1. Publish!Spec => Publish!Delivers
  BY PublishSupposes, Publish!ArtifactDelivers
<1>2. Republish!Spec => Republish!Delivers
  BY PublishSupposes, Republish!ArtifactDelivers
<1>3. Old!Spec => Old!Delivers
  BY OldDelivers
<1>4. part = "republish" => part # "publish"
  OBVIOUS
<1> QED
  BY <1>1, <1>2, <1>3, <1>4, RepublishDelivers, RepublishIsFixed, PublishRuns, RepublishRuns, OldRuns, PTL
     DEF Delivers

\* What is taken for complete is complete and one's own: the acknowledged prefix
\* of a parked transfer, the input a handle names, the relayed response.
THEOREM NodeNothingTorn == NodeAssumption => (Spec => []NothingTorn)
<1> SUFFICES ASSUME NodeAssumption PROVE Spec => []NothingTorn
  OBVIOUS
<1>1. Publish!Spec => []Publish!PrefixesTrue
  BY PublishSupposes, Publish!ArtifactPrefixesTrue
<1>2. Republish!Spec => []Republish!PrefixesTrue
  BY PublishSupposes, Republish!ArtifactPrefixesTrue
<1>3. Republish!PrefixesTrue => Publish!PrefixesTrue
  BY DEF Republish!PrefixesTrue, Publish!PrefixesTrue, Republish!Tokens, Publish!Tokens, Republish!Pubs,
     Publish!Pubs, Republish!Gone, Publish!Gone
<1>4. Input!Spec => []Input!HandlesHold
  BY InputHandlesHold
<1>5. AnyRelay!Spec => []AnyRelay!WholeMeansWhole
  BY WholeMeansAll
<1>6. AnyRelay!WholeMeansWhole => Relay!WholeMeansWhole
  BY DEF AnyRelay!WholeMeansWhole, Relay!WholeMeansWhole
<1>7. part = "republish" => part # "publish"
  OBVIOUS
<1>8. Publish!PrefixesTrue /\ Input!HandlesHold /\ Relay!WholeMeansWhole => NothingTorn
  BY DEF NothingTorn
<1> QED
  BY <1>1, <1>2, <1>3, <1>4, <1>5, <1>6, <1>7, <1>8, RepublishIsFixed, PublishRuns, RepublishRuns,
     InputRuns,
     RelayRuns, PTL

-----------------------------------------------------------------------------
(* Types.                                                                    *)

LEMMA OldTyped == NodeAssumption /\ OldInv => Old!TransferTypeOK
<1> SUFFICES ASSUME NodeAssumption, OldInv PROVE Old!TransferTypeOK
  OBVIOUS
<1>1. OldTypes
  BY DEF OldInv
<1>2. Old!Paths = Transfers
  BY DEF Old!Paths
<1>3. ASSUME NEW t \in Transfers
      PROVE  /\ oldRecv[t].phase \in {"none", "receiving", "ending", "committing", "completed", "aborting"}
             /\ oldRecv[t].work \in {"off", "get", "write", "sync", "commit", "linked"}
             /\ oldRecv[t].got \in 0..Pieces
  BY <1>1 DEF OldTypes, WireReceives, WireShapes
<1> QED
  BY <1>1, <1>2, <1>3 DEF OldTypes, SenderTypes, Old!TransferTypeOK, Old!Busy

LEMMA InputTyped == NodeAssumption /\ InputInv => Input!TypeOK
<1> SUFFICES ASSUME NodeAssumption, InputInv PROVE Input!TypeOK
  OBVIOUS
<1>1. InputTypes
  BY DEF InputInv
<1>2. Input!Paths = {"name"}
  BY InputPaths
<1>3. ASSUME NEW t \in Transfers
      PROVE  /\ inputRecv[t].phase \in {"none", "receiving", "ending", "committing", "completed", "aborting"}
             /\ inputRecv[t].work \in {"off", "get", "write", "sync", "commit", "linked"}
             /\ inputRecv[t].got \in 0..Pieces
  BY <1>1 DEF InputTypes, WireReceives, WireShapes
<1>4. Input!TransferTypeOK
  BY <1>1, <1>2, <1>3 DEF InputTypes, SenderTypes, Input!TransferTypeOK, Input!Busy
<1> QED
  BY <1>4 DEF InputInv, Input!TypeOK

LEMMA RelayTyped == NodeAssumption /\ RelayInv => Relay!TypeOK
<1> SUFFICES ASSUME NodeAssumption, RelayInv PROVE Relay!TypeOK
  OBVIOUS
<1>1. RelayTypes /\ Pieces \in Nat
  BY DEF RelayInv, NodeAssumption
<1>2. ASSUME NEW r \in Requests PROVE got[r] \in 0..Pieces
  <2>1. got[r] + Count(body[r], "chunk") + Count(down, <<"chunk", r>>) <= relaySent[r]
    BY DEF RelayInv, RelayAt
  <2>2. /\ Count(body[r], "chunk") \in Nat /\ Count(down, <<"chunk", r>>) \in Nat
        /\ got[r] \in Nat /\ relaySent[r] \in 0..Pieces
    BY <1>1, RelayCounts
  <2> QED
    BY <1>1, <2>1, <2>2
<1>3. got \in [Requests -> 0..Pieces]
  <2>1. got \in [Requests -> Nat]
    BY <1>1 DEF RelayTypes
  <2> QED
    BY <1>2, <2>1
<1> QED
  BY <1>1, <1>3 DEF RelayTypes, RunningTask, DownFrames, Relay!TypeOK, Relay!Kinds, Relay!Running,
     Relay!Frames

\* The bounds of the session are what its theorems suppose.
LEMMA SessionSupposes == Session!QueueAssumption /\ Session!SessionAssumption
<1>1. \A S : Session!IsFiniteSet(S) <=> IsFiniteSet(S)
  BY DEF Session!IsFiniteSet, IsFiniteSet
<1>2. \A S : Session!Cardinality(S) = Cardinality(S)
  BY DEF Session!Cardinality, Cardinality
<1>3. IsFiniteSet({"old", "new"}) /\ Cardinality({"old", "new"}) = 2
  <2>1. {"old", "new"} = {"old"} \cup {"new"} /\ "old" \notin {"new"}
    OBVIOUS
  <2>2. IsFiniteSet({"new"}) /\ Cardinality({"new"}) = 1
    BY FS_Singleton
  <2> QED
    BY <2>1, <2>2, FS_AddElement
<1>4. Session!QueueAssumption
  BY <1>1, <1>3 DEF Session!QueueAssumption, Session!Bridge, Session!None
<1>5. Session!SessionAssumption
  BY <1>2, <1>3 DEF Session!SessionAssumption, Session!AllHabits
<1> QED
  BY <1>4, <1>5

\* Every component keeps its variables in their types.
THEOREM NodeTypes == NodeAssumption => (Spec => []TypeOK)
<1> SUFFICES ASSUME NodeAssumption PROVE Spec => []TypeOK
  OBVIOUS
<1>1. Publish!Spec => []Publish!TypeOK
  BY PublishSupposes, Publish!ArtifactTypes
<1>2. Republish!Spec => []Republish!TypeOK
  BY PublishSupposes, Republish!ArtifactTypes
<1>3. Republish!TypeOK => Publish!TypeOK
  BY DEF Republish!TypeOK, Publish!TypeOK, Republish!Tokens, Publish!Tokens, Republish!Pubs, Publish!Pubs,
     Republish!Running, Publish!Running, Republish!None, Publish!None
<1>4. Old!Spec => []Old!TransferTypeOK
  <2>1. Old!Spec => []OldInv
    BY OldHolds
  <2> QED
    BY <2>1, OldTyped, PTL
<1>5. Input!Spec => []Input!TypeOK
  <2>1. Input!Spec => []InputInv
    BY InputHolds
  <2> QED
    BY <2>1, InputTyped, PTL
<1>6. AnyRelay!Spec => []Relay!TypeOK
  <2>1. AnyRelay!Spec => []RelayInv
    BY RelayHolds
  <2> QED
    BY <2>1, RelayTyped, PTL
<1>7. AnyLink!Spec => []AnyLink!TypeOK
  BY LinkTypes DEF NodeAssumption
<1>8. AnyLink!TypeOK => Link!TypeOK
  BY DEF AnyLink!TypeOK, Link!TypeOK
<1>9. AnyHttp!Spec => []AnyHttp!TypeOK
  BY ManagedTypes
<1>10. AnyHttp!TypeOK => Http!TypeOK
  BY DEF AnyHttp!TypeOK, Http!TypeOK, AnyHttp!InStart, Http!InStart, AnyHttp!InStop, Http!InStop,
     AnyHttp!Actions, Http!Actions
<1>12. Crashing!Spec => []Crashing!TypeOK
  <2>1. ProjectionAssumption
    BY DEF NodeAssumption, ProjectionAssumption
  <2> QED
    BY <2>1, ProjectionTypes
<1>15. Session!Spec => []Session!TypeOK
  BY SessionSupposes, Session!SessionTypes
<1>16. part = "republish" => part # "publish"
  OBVIOUS
<1>17. /\ Publish!TypeOK /\ Old!TransferTypeOK /\ Input!TypeOK /\ Relay!TypeOK
       /\ Link!TypeOK /\ Http!TypeOK /\ Crashing!TypeOK /\ Session!TypeOK
       => TypeOK
  BY DEF TypeOK
<1>18. Spec => []Publish!TypeOK
  BY <1>1, <1>2, <1>3, <1>16, RepublishIsFixed, PublishRuns, RepublishRuns, PTL
<1>19. Spec => []Http!TypeOK
  BY <1>9, <1>10, HttpRuns, PTL
<1>20. Spec => []Crashing!TypeOK
  BY <1>12, ConfigRuns, PTL
<1> QED
  BY <1>4, <1>5, <1>6, <1>7, <1>8, <1>15, <1>17, <1>18, <1>19, <1>20, OldRuns, InputRuns, RelayRuns,
     LinkRuns,
     SessionRuns, PTL
=============================================================================
