---------------------------- MODULE ProgramProofs ----------------------------
(* Theorems about the programs of MCAgents, each on its own: what its steps  *)
(* keep.                                                                     *)
EXTENDS AgentParts, FiniteSetTheorems, SequenceTheorems, TLAPS

-----------------------------------------------------------------------------
(* Stateless requests at the facade: FacadeModern.                           *)

ProxyAssumption ==
  /\ IsFiniteSet(Proxied) /\ Places \in Nat
  /\ None \notin {"preflight", "business", "cancel", "answered", "untouched", "unknown", "gone"}

\* An answer that calls the request untouched is the last thing its handler does,
\* and by then the writer thread is stopped or was never started.
ProxyUntouchedInv ==
  /\ proxyReached \subseteq proxyStarted
  /\ \A p \in Proxied :
       /\ proxyWriter[p] = "business" => p \in proxyStarted
       /\ proxyPc[p] \in {"idle", "reads", "spawns"} => proxyWriter[p] = "none" /\ p \notin proxyStarted
       /\ proxyPc[p] \in {"reports", "done"} => p \in stopped \/ proxyWriter[p] = "none"
       /\ proxyReply[p] = "untouched" => proxyPc[p] = "done" /\ p \notin proxyStarted

\* Whoever has a process, or is about to start one, has a place for it.
ProxyPlacesInv ==
  /\ Cardinality(proxies) <= Places
  /\ \A p \in Proxied :
       /\ Stateless!Alive(p) => p \in proxies
       /\ proxyPc[p] = "spawns" => p \in proxies
       /\ proxyPc[p] \in {"idle", "reads", "spawns"} => proxyProc[p] = "none" /\ p \notin quiet

\* What is done in the name of one request.
ProxyActs(p) ==
  \/ Stateless!Accept(p) \/ Stateless!CreateProxy(p) \/ Stateless!RefuseUnread(p) \/ Stateless!Spawn(p)
  \/ Stateless!WriterTakes(p) \/ Stateless!WriterWrites(p) \/ Stateless!BackendAnswers(p)
       \/ Stateless!BackendExits(p)
  \/ Stateless!Receive(p) \/ Stateless!GiveUp(p) \/ Stateless!Hush(p) \/ Stateless!Kill(p)
  \/ Stateless!FindsClosed(p) \/ Stateless!DiesLater(p) \/ Stateless!Report(p)

\* The instance counts as its module does.
LEMMA ProxySizes == \A S : Stateless!Cardinality(S) = Cardinality(S)
BY DEF Stateless!Cardinality, Cardinality

LEMMA ProxyInitial ==
  ASSUME ProxyAssumption, Stateless!Init
  PROVE  Stateless!TypeOK /\ ProxyUntouchedInv /\ ProxyPlacesInv
<1>1. Stateless!TypeOK
  BY DEF Stateless!Init, Stateless!TypeOK
<1>2. ProxyUntouchedInv
  BY DEF Stateless!Init, ProxyUntouchedInv, ProxyAssumption
<1>3. ProxyPlacesInv
  BY FS_EmptySet DEF Stateless!Init, ProxyPlacesInv, Stateless!Alive, ProxyAssumption
<1> QED
  BY <1>1, <1>2, <1>3

LEMMA ProxyTypesStep ==
  ASSUME ProxyAssumption, Stateless!TypeOK, [Stateless!Next]_(Stateless!vars)
  PROVE  Stateless!TypeOK'
<1>1. CASE UNCHANGED Stateless!vars
  BY <1>1 DEF Stateless!TypeOK, Stateless!vars
<1>2. CASE Stateless!StopServer
  BY <1>2 DEF Stateless!TypeOK, Stateless!StopServer, Stateless!pump
<1> SUFFICES ASSUME NEW p \in Proxied, ProxyActs(p)
     PROVE Stateless!TypeOK'
  BY <1>1, <1>2 DEF Stateless!Next, ProxyActs
<1>3. CASE Stateless!Accept(p)
  BY <1>3 DEF Stateless!TypeOK, Stateless!Accept, Stateless!pump
<1>4. CASE Stateless!CreateProxy(p)
  BY <1>4 DEF Stateless!TypeOK, Stateless!CreateProxy, Stateless!pump
<1>5. CASE Stateless!RefuseUnread(p)
  BY <1>5 DEF Stateless!TypeOK, Stateless!RefuseUnread, Stateless!pump
<1>6. CASE Stateless!Spawn(p)
  BY <1>6 DEF Stateless!TypeOK, Stateless!Spawn, Stateless!pump
<1>7. CASE Stateless!WriterTakes(p)
  BY <1>7 DEF Stateless!TypeOK, Stateless!WriterTakes, Stateless!pump
<1>8. CASE Stateless!WriterWrites(p)
  BY <1>8 DEF Stateless!TypeOK, Stateless!WriterWrites, Stateless!pump
<1>9. CASE Stateless!BackendAnswers(p) \/ Stateless!BackendExits(p)
  BY <1>9 DEF Stateless!TypeOK, Stateless!BackendAnswers, Stateless!BackendExits, Stateless!pump
<1>10. CASE Stateless!Receive(p)
  BY <1>10 DEF Stateless!TypeOK, Stateless!Receive, Stateless!pump, Stateless!Talking
<1>11. CASE Stateless!GiveUp(p)
  BY <1>11 DEF Stateless!TypeOK, Stateless!GiveUp, Stateless!pump
<1>12. CASE Stateless!Hush(p)
  BY <1>12 DEF Stateless!TypeOK, Stateless!Hush, Stateless!pump
<1>13. CASE Stateless!Kill(p)
  BY <1>13 DEF Stateless!TypeOK, Stateless!Kill, Stateless!pump
<1>14. CASE Stateless!FindsClosed(p) \/ Stateless!DiesLater(p)
  BY <1>14 DEF Stateless!TypeOK, Stateless!FindsClosed, Stateless!DiesLater, Stateless!pump
<1>15. CASE Stateless!Report(p)
  BY <1>15 DEF Stateless!TypeOK, Stateless!Report, Stateless!pump
<1> QED
  BY <1>3, <1>4, <1>5, <1>6, <1>7, <1>8, <1>9, <1>10, <1>11, <1>12, <1>13, <1>14, <1>15 DEF ProxyActs

LEMMA ProxyUntouchedStep ==
  ASSUME ProxyAssumption, Stateless!TypeOK, ProxyUntouchedInv, [Stateless!Next]_(Stateless!vars)
  PROVE  ProxyUntouchedInv'
<1> USE DEF ProxyAssumption, Stateless!TypeOK, ProxyUntouchedInv
<1>1. CASE UNCHANGED Stateless!vars
  BY <1>1 DEF Stateless!vars
<1>2. CASE Stateless!StopServer
  BY <1>2 DEF Stateless!StopServer, Stateless!pump
<1> SUFFICES ASSUME NEW p \in Proxied, ProxyActs(p)
     PROVE ProxyUntouchedInv'
  BY <1>1, <1>2 DEF Stateless!Next, ProxyActs
<1>3. CASE Stateless!Accept(p)
  BY <1>3 DEF Stateless!Accept, Stateless!pump
<1>4. CASE Stateless!CreateProxy(p)
  BY <1>4 DEF Stateless!CreateProxy, Stateless!pump
<1>5. CASE Stateless!RefuseUnread(p)
  BY <1>5 DEF Stateless!RefuseUnread, Stateless!pump
<1>6. CASE Stateless!Spawn(p)
  BY <1>6 DEF Stateless!Spawn, Stateless!pump
<1>7. CASE Stateless!WriterTakes(p)
  BY <1>7 DEF Stateless!WriterTakes, Stateless!pump
<1>8. CASE Stateless!WriterWrites(p)
  BY <1>8 DEF Stateless!WriterWrites, Stateless!pump
<1>9. CASE Stateless!BackendAnswers(p) \/ Stateless!BackendExits(p)
  BY <1>9 DEF Stateless!BackendAnswers, Stateless!BackendExits, Stateless!pump
<1>10. CASE Stateless!Receive(p)
  BY <1>10 DEF Stateless!Receive, Stateless!pump, Stateless!Talking
<1>11. CASE Stateless!GiveUp(p)
  BY <1>11 DEF Stateless!GiveUp, Stateless!pump, Stateless!Talking
<1>12. CASE Stateless!Hush(p)
  BY <1>12 DEF Stateless!Hush, Stateless!pump
<1>13. CASE Stateless!Kill(p)
  BY <1>13 DEF Stateless!Kill, Stateless!pump
<1>14. CASE Stateless!FindsClosed(p) \/ Stateless!DiesLater(p)
  BY <1>14 DEF Stateless!FindsClosed, Stateless!DiesLater, Stateless!pump
<1>15. CASE Stateless!Report(p)
  BY <1>15 DEF Stateless!Report, Stateless!pump, Stateless!Unknown
<1> QED
  BY <1>3, <1>4, <1>5, <1>6, <1>7, <1>8, <1>9, <1>10, <1>11, <1>12, <1>13, <1>14, <1>15 DEF ProxyActs

LEMMA ProxyPlacesStep ==
  ASSUME ProxyAssumption, Stateless!TypeOK, ProxyPlacesInv, [Stateless!Next]_(Stateless!vars)
  PROVE  ProxyPlacesInv'
<1> USE DEF ProxyAssumption, Stateless!TypeOK, ProxyPlacesInv, Stateless!Alive
<1>0. IsFiniteSet(proxies) /\ Cardinality(proxies) \in Nat
  BY FS_Subset, FS_CardinalityType
<1>1. CASE UNCHANGED Stateless!vars
  BY <1>1 DEF Stateless!vars
<1>2. CASE Stateless!StopServer
  BY <1>2 DEF Stateless!StopServer, Stateless!pump
<1> SUFFICES ASSUME NEW p \in Proxied, ProxyActs(p)
     PROVE ProxyPlacesInv'
  BY <1>1, <1>2 DEF Stateless!Next, ProxyActs
<1>a. Cardinality(proxies \cup {p}) <= Cardinality(proxies) + 1
  <2>1. Cardinality(proxies \cup {p}) = IF p \in proxies THEN Cardinality(proxies) ELSE Cardinality(proxies) + 1
    BY ONLY <1>0, FS_AddElement
  <2> QED
    BY ONLY <1>0, <2>1
<1>b. Cardinality(proxies \ {p}) <= Cardinality(proxies)
  <2>1. Cardinality(proxies \ {p}) = IF p \in proxies THEN Cardinality(proxies) - 1 ELSE Cardinality(proxies)
    BY ONLY <1>0, FS_RemoveElement
  <2> QED
    BY ONLY <1>0, <2>1
<1>c. Cardinality(proxies \cup {p}) \in Nat /\ Cardinality(proxies \ {p}) \in Nat
  BY ONLY <1>0, FS_AddElement, FS_RemoveElement, FS_CardinalityType
<1>3. CASE Stateless!Accept(p)
  BY <1>3 DEF Stateless!Accept, Stateless!pump
<1>4. CASE Stateless!CreateProxy(p)
  <2>1. Cardinality(proxies') <= Places
    <3>1. proxies' = proxies \cup {p} /\ Cardinality(proxies) < Places
      BY ONLY <1>4, ProxySizes DEF Stateless!CreateProxy
    <3>2. Places \in Nat
      OBVIOUS
    <3> QED
      BY ONLY <1>0, <1>a, <1>c, <3>1, <3>2
  <2>2. proxies' = proxies \cup {p} /\ proxyProc' = proxyProc /\ quiet' = quiet
          /\ proxyPc' = [proxyPc EXCEPT ![p] = "spawns"]
    BY <1>4 DEF Stateless!CreateProxy
  <2>3. proxyPc[p] = "reads"
    BY <1>4 DEF Stateless!CreateProxy
  <2> QED
    BY <2>1, <2>2, <2>3
<1>5. CASE Stateless!RefuseUnread(p)
  BY <1>5 DEF Stateless!RefuseUnread, Stateless!pump
<1>6. CASE Stateless!Spawn(p)
  BY <1>6, <1>0, <1>b, <1>c DEF Stateless!Spawn, Stateless!pump
<1>7. CASE Stateless!WriterTakes(p)
  BY <1>7 DEF Stateless!WriterTakes, Stateless!pump
<1>8. CASE Stateless!WriterWrites(p)
  BY <1>8 DEF Stateless!WriterWrites, Stateless!pump
<1>9. CASE Stateless!BackendAnswers(p) \/ Stateless!BackendExits(p)
  BY <1>9 DEF Stateless!BackendAnswers, Stateless!BackendExits, Stateless!pump
<1>10. CASE Stateless!Receive(p)
  BY <1>10 DEF Stateless!Receive, Stateless!pump, Stateless!Talking
<1>11. CASE Stateless!GiveUp(p)
  BY <1>11 DEF Stateless!GiveUp, Stateless!pump, Stateless!Talking
<1>12. CASE Stateless!Hush(p)
  BY <1>12 DEF Stateless!Hush, Stateless!pump, Stateless!Talking
<1>13. CASE Stateless!Kill(p)
  <2>1. proxyPc[p] \notin {"idle", "reads", "spawns"}
    BY <1>13 DEF Stateless!Kill
  <2>2. CASE proxyProc' = [proxyProc EXCEPT ![p] = "over"] /\ proxies' = proxies \ {p}
    BY <1>13, <1>0, <1>b, <1>c, <2>1, <2>2 DEF Stateless!Kill
  <2>3. CASE UNCHANGED <<proxyProc, proxies>>
    BY <1>13, <2>1, <2>3 DEF Stateless!Kill
  <2> QED
    BY <1>13, <2>2, <2>3 DEF Stateless!Kill
<1>14. CASE Stateless!FindsClosed(p) \/ Stateless!DiesLater(p)
  BY <1>14 DEF Stateless!FindsClosed, Stateless!DiesLater, Stateless!pump
<1>15. CASE Stateless!Report(p)
  <2>1. proxyPc[p] = "reports" /\ proxyPc' = [proxyPc EXCEPT ![p] = "done"] /\ quiet' = quiet
    BY <1>15 DEF Stateless!Report
  <2>2. CASE proxyProc' = [proxyProc EXCEPT ![p] = "over"] /\ proxies' = proxies \ {p}
    <3>1. Cardinality(proxies') <= Places
      BY <1>0, <1>b, <1>c, <2>2
    <3> QED
      BY <2>1, <2>2, <3>1
  <2>3. CASE UNCHANGED <<proxyProc, proxies>>
    BY <2>1, <2>3
  <2> QED
    BY <1>15, <2>2, <2>3 DEF Stateless!Report
<1> QED
  BY <1>3, <1>4, <1>5, <1>6, <1>7, <1>8, <1>9, <1>10, <1>11, <1>12, <1>13, <1>14, <1>15 DEF ProxyActs

-----------------------------------------------------------------------------
(* The projection of a legacy client on a modern server: LegacyModern.       *)

LegacyAnswers == {"ok", "overload", "refused", "safe", "failed", "unknown", "dropped"}
LegacyAssumption == QueueSize \in Nat /\ None \notin Legacy!Requests \cup LegacyAnswers

\* No id is used twice.
LegacyUnique == \A a, b \in Legacy!Requests : LegacyIds[a] = LegacyIds[b] => a = b

\* Where the main thread has a request in its hands, and where it has not sent it.
LegacyUnsent == {"starts", "enters", "checks", "rechecks", "writes"}
LegacyServing == LegacyUnsent \cup {"wrote", "waits"}

LegacyTypes ==
  /\ legacyQueue \in Seq(Legacy!Requests) /\ Len(legacyQueue) <= QueueSize
  /\ pend \in Legacy!Requests \cup {None} /\ legacyCur \in Legacy!Requests \cup {None}
  /\ legacyInflight \in Legacy!Requests \cup {None} /\ written \in BOOLEAN
  /\ markers \subseteq {LegacyIds[r] : r \in Legacy!Requests}
  /\ legacyPc \in LegacyServing \cup {"idle", "clears", "leaves", "ends", "over"}
  /\ legacyReader \in [step : {"idle", "looks", "acts"}, of : Legacy!Requests \cup {None},
                       seen : Legacy!Requests \cup {None}, wrote : BOOLEAN]
  /\ backend \in {"none", "up", "dead"}
  /\ legacyGot \subseteq legacySent /\ legacySent \subseteq Legacy!Requests /\ forwarded \subseteq legacySent
  /\ cancel \in [Legacy!Requests -> {"no", "sent", "purged", "marked", "forwarded"}]
  /\ verdict \in LegacyAnswers \cup {None}
  /\ legacyReply \in [Legacy!Requests -> LegacyAnswers \cup {None}]

\* Each request is at one place, and what is known as written was.
LegacyPlaceInv ==
  /\ legacyCur # None <=> legacyPc \in LegacyServing \cup {"clears", "leaves"}
  /\ legacyPc \in LegacyUnsent => legacyCur \notin legacySent
  /\ legacyPc \in {"wrote", "waits"} => legacyCur \in legacySent
  /\ written => legacyInflight \in legacySent
  /\ legacyReader.wrote => legacyReader.seen \in legacySent

LegacyQueueInv ==
  /\ \A i \in DOMAIN legacyQueue :
       /\ legacyQueue[i] # legacyCur /\ legacyQueue[i] \notin legacySent /\ legacyReply[legacyQueue[i]] = None
       /\ \A j \in DOMAIN legacyQueue : legacyQueue[i] = legacyQueue[j] => i = j

\* What the client is told of a request that was sent.
LegacyVerdictInv ==
  /\ legacyPc \in LegacyServing => verdict = None
  /\ legacyPc \in LegacyServing \cup {"clears"} => legacyReply[legacyCur] = None
  /\ legacyPc = "clears" /\ verdict \in {"safe", "overload", "dropped"} => legacyCur \notin legacySent

\* A mark, and what follows from it, is about a request that was cancelled.
LegacyCancelInv ==
  /\ \A r \in Legacy!Requests : LegacyIds[r] \in markers => cancel[r] # "no"
  /\ legacyReader.step # "idle" => legacyReader.of \in Legacy!Requests /\ cancel[legacyReader.of] # "no"
  /\ legacyPc = "clears" /\ verdict = "dropped" => cancel[legacyCur] # "no"

LegacySentInv == LegacyTypes /\ LegacyPlaceInv /\ LegacyQueueInv /\ LegacyVerdictInv /\ Legacy!SafeMeansUnsent

LEMMA LegacyInitial ==
  ASSUME LegacyAssumption, Legacy!Init
  PROVE  LegacySentInv /\ LegacyCancelInv /\ Legacy!CancelHitsItsOwn
<1>1. LegacyTypes
  <2>1. legacyQueue \in Seq(Legacy!Requests) /\ Len(legacyQueue) = 0
    BY EmptySeq DEF Legacy!Init
  <2>2. legacyReader \in [step : {"idle", "looks", "acts"}, of : Legacy!Requests \cup {None},
                        seen : Legacy!Requests \cup {None}, wrote : BOOLEAN]
    BY DEF Legacy!Init, Legacy!Idle
  <2>3. Len(legacyQueue) <= QueueSize
    BY <2>1 DEF LegacyAssumption
  <2>4. legacySent = {} /\ legacyGot = {} /\ forwarded = {} /\ markers = {}
    BY DEF Legacy!Init
  <2> QED
    BY <2>1, <2>2, <2>3, <2>4 DEF Legacy!Init, LegacyTypes, LegacyServing, LegacyUnsent
<1> QED
 BY <1>1 DEF LegacyAssumption, Legacy!Init, LegacySentInv, LegacyTypes, LegacyPlaceInv, LegacyQueueInv,
    LegacyVerdictInv, Legacy!SafeMeansUnsent, LegacyCancelInv, Legacy!CancelHitsItsOwn, Legacy!Idle,
    LegacyAnswers, LegacyServing, LegacyUnsent

\* A queue from which something was removed.
LEMMA PurgedIsPart ==
  ASSUME NEW id, legacyQueue \in Seq(Legacy!Requests),
         \A i, j \in DOMAIN legacyQueue : legacyQueue[i] = legacyQueue[j] => i = j
  PROVE  /\ Legacy!Purged(id) \in Seq(Legacy!Requests) /\ Len(Legacy!Purged(id)) <= Len(legacyQueue)
         /\ \A i \in DOMAIN Legacy!Purged(id) : \E k \in DOMAIN legacyQueue :
              Legacy!Purged(id)[i] = legacyQueue[k]
         /\ \A i, j \in DOMAIN Legacy!Purged(id) : Legacy!Purged(id)[i] = Legacy!Purged(id)[j] => i = j
<1> DEFINE hits == {i \in DOMAIN legacyQueue : LegacyIds[legacyQueue[i]] = id}
<1>1. CASE hits = {}
  <2>1. Legacy!Purged(id) = legacyQueue
    BY <1>1 DEF Legacy!Purged
  <2> QED
    BY <2>1
<1>2. CASE hits # {}
  <2> DEFINE k == CHOOSE i \in hits : TRUE
             rest == SubSeq(legacyQueue, 1, k - 1) \o SubSeq(legacyQueue, k + 1, Len(legacyQueue))
  <2>1. k \in DOMAIN legacyQueue
    BY <1>2
  <2>2. Legacy!Purged(id) = rest
    BY <1>2 DEF Legacy!Purged, Legacy!RemoveAt
  <2> HIDE DEF k
  <2> DEFINE a == SubSeq(legacyQueue, 1, k - 1)
             b == SubSeq(legacyQueue, k + 1, Len(legacyQueue))
  <2>3. DOMAIN legacyQueue = 1 .. Len(legacyQueue) /\ Len(legacyQueue) \in Nat /\ k \in Int
    BY <2>1, LenProperties
  <2>4. a \in Seq(Legacy!Requests) /\ Len(a) = k - 1 /\ \A i \in 1 .. k - 1 : a[i] = legacyQueue[i]
    BY <2>1, <2>3, SubSeqProperties
  <2>5. b \in Seq(Legacy!Requests) /\ Len(b) = Len(legacyQueue) - k
          /\ \A i \in 1 .. Len(legacyQueue) - k : b[i] = legacyQueue[k + i]
    BY <2>1, <2>3, SubSeqProperties
  <2>6. /\ rest \in Seq(Legacy!Requests) /\ Len(rest) = Len(legacyQueue) - 1
             /\ DOMAIN rest = 1 .. Len(legacyQueue) - 1
        /\ \A i \in 1 .. Len(legacyQueue) - 1 : rest[i] = IF i < k THEN legacyQueue[i] ELSE legacyQueue[i + 1]
    <3> HIDE DEF a, b
    <3>1. /\ a \o b \in Seq(Legacy!Requests) /\ Len(a \o b) = Len(legacyQueue) - 1
          /\ \A i \in 1 .. Len(legacyQueue) - 1 : (a \o b)[i] = IF i <= k - 1 THEN a[i] ELSE b[i - (k - 1)]
      <4>1. Len(a) + Len(b) = Len(legacyQueue) - 1
        BY <2>3, <2>4, <2>5
      <4>2. /\ a \o b \in Seq(Legacy!Requests) /\ Len(a \o b) = Len(a) + Len(b)
            /\ \A i \in 1 .. Len(a) + Len(b) : (a \o b)[i] = IF i <= Len(a) THEN a[i] ELSE b[i - Len(a)]
        BY <2>4, <2>5, ConcatProperties, ZenonT(30)
      <4> QED
        BY <4>1, <4>2, <2>4
    <3>2. DOMAIN (a \o b) = 1 .. Len(legacyQueue) - 1
      BY <3>1, LenProperties
    <3>3. \A i \in 1 .. Len(legacyQueue) - 1 :
            (a \o b)[i] = IF i < k THEN legacyQueue[i] ELSE legacyQueue[i + 1]
      <4> SUFFICES ASSUME NEW i \in 1 .. Len(legacyQueue) - 1
                   PROVE  (a \o b)[i] = IF i < k THEN legacyQueue[i] ELSE legacyQueue[i + 1]
        OBVIOUS
      <4>1. CASE i < k
        <5>1. i \in 1 .. k - 1 /\ i <= k - 1
          BY <4>1, <2>3
        <5> QED
          BY <4>1, <5>1, <3>1, <2>4
      <4>2. CASE ~(i < k)
        <5>1. i - (k - 1) \in 1 .. Len(legacyQueue) - k /\ k + (i - (k - 1)) = i + 1 /\ ~(i <= k - 1)
          BY <4>2, <2>3
        <5> QED
          BY <4>2, <5>1, <3>1, <2>5
      <4> QED
        BY <4>1, <4>2
    <3> QED
      BY <3>1, <3>2, <3>3 DEF a, b
  <2> HIDE DEF rest
  <2>7. \A i, j \in DOMAIN rest : rest[i] = rest[j] => i = j
    <3> SUFFICES ASSUME NEW i \in 1 .. Len(legacyQueue) - 1, NEW j \in 1 .. Len(legacyQueue) - 1,
          rest[i] = rest[j]
                 PROVE  i = j
      BY <2>6
    <3> DEFINE at(n) == IF n < k THEN n ELSE n + 1
    <3>1. at(i) \in DOMAIN legacyQueue /\ at(j) \in DOMAIN legacyQueue
      BY <2>1, <2>3
    <3>2. legacyQueue[at(i)] = legacyQueue[at(j)]
      BY <2>6
    <3>3. at(i) = at(j)
      BY <3>1, <3>2
    <3> QED
      BY <3>3, <2>1, <2>3
  <2>8. \A i \in DOMAIN rest : \E n \in DOMAIN legacyQueue : rest[i] = legacyQueue[n]
    BY <2>1, <2>3, <2>6
  <2> QED
    BY <2>2, <2>3, <2>6, <2>7, <2>8
<1> QED
  BY <1>1, <1>2

\* The first request leaves the queue.
LEMMA TailIsPart ==
  ASSUME legacyQueue \in Seq(Legacy!Requests), legacyQueue # <<>>
  PROVE  /\ Tail(legacyQueue) \in Seq(Legacy!Requests) /\ Len(Tail(legacyQueue)) = Len(legacyQueue) - 1
         /\ Head(legacyQueue) \in Legacy!Requests /\ Head(legacyQueue) = legacyQueue[1]
              /\ 1 \in DOMAIN legacyQueue
         /\ \A i \in DOMAIN Tail(legacyQueue) : i + 1 \in DOMAIN legacyQueue
              /\ Tail(legacyQueue)[i] = legacyQueue[i + 1]
                                         /\ i \in Nat \ {0}
OBVIOUS

LEMMA LegacySentStep ==
  ASSUME LegacyAssumption, LegacySentInv, [Legacy!Next]_(Legacy!vars) PROVE LegacySentInv'
<1> USE DEF LegacySentInv, LegacyTypes, LegacyPlaceInv, LegacyQueueInv, LegacyVerdictInv,
       Legacy!SafeMeansUnsent, LegacyAssumption, Legacy!queued, Legacy!flying, Legacy!process,
       Legacy!Idle, LegacyServing, LegacyUnsent, LegacyAnswers
<1>1. ASSUME NEW r \in Legacy!Requests, Legacy!ReadRequest(r) PROVE LegacySentInv'
  <2>1. LegacyTypes'
    BY <1>1, SMTT(30) DEF Legacy!ReadRequest, Legacy!Unseen
  <2>2. LegacyPlaceInv'
    BY <1>1 DEF Legacy!ReadRequest, Legacy!Unseen
  <2>3. LegacyQueueInv'
    <3>1. CASE legacyQueue' = legacyQueue
      BY <1>1, <3>1, LenProperties DEF Legacy!ReadRequest, Legacy!Unseen
    <3>2. CASE legacyQueue' = Append(legacyQueue, r) /\ legacyReply' = legacyReply
      <4>1. DOMAIN legacyQueue' = 1 .. Len(legacyQueue) + 1 /\ Len(legacyQueue) \in Nat
              /\ DOMAIN legacyQueue = 1 .. Len(legacyQueue)
        BY <3>2, LenProperties, AppendProperties
      <4>2. legacyQueue'[Len(legacyQueue) + 1] = r
              /\ \A i \in 1 .. Len(legacyQueue) : legacyQueue'[i] = legacyQueue[i]
        BY <3>2, AppendProperties
      <4>3. \A i \in DOMAIN legacyQueue' : i = Len(legacyQueue) + 1 \/ i \in 1 .. Len(legacyQueue)
        BY <4>1
      <4>4. \A i \in 1 .. Len(legacyQueue) : legacyQueue[i] # r
        BY <1>1 DEF Legacy!ReadRequest, Legacy!Unseen
      <4>5. r # legacyCur /\ r \notin legacySent /\ legacyReply[r] = None /\ legacyCur' = legacyCur
              /\ legacySent' = legacySent
        BY <1>1 DEF Legacy!ReadRequest, Legacy!Unseen
      <4> QED
        BY <3>2, <4>1, <4>2, <4>3, <4>4, <4>5
    <3> QED
      BY <1>1, <3>1, <3>2 DEF Legacy!ReadRequest
  <2>4. LegacyVerdictInv'
    BY <1>1 DEF Legacy!ReadRequest, Legacy!Unseen
  <2>5. Legacy!SafeMeansUnsent'
    BY <1>1 DEF Legacy!ReadRequest, Legacy!Unseen
  <2> QED
    BY <2>1, <2>2, <2>3, <2>4, <2>5
<1>2. ASSUME NEW r \in Legacy!Requests, Legacy!ReadCancel(r) PROVE LegacySentInv'
  <2>1. LegacyTypes'
    <3>1. legacyQueue' \in Seq(Legacy!Requests) /\ Len(legacyQueue') <= QueueSize
      BY <1>2, PurgedIsPart, LenProperties DEF Legacy!ReadCancel
    <3>2. legacyReader' \in [step : {"idle", "looks", "acts"}, of : Legacy!Requests \cup {None},
                         seen : Legacy!Requests \cup {None}, wrote : BOOLEAN]
      BY <1>2 DEF Legacy!ReadCancel
    <3>3. cancel' \in [Legacy!Requests -> {"no", "sent", "purged", "marked", "forwarded"}]
      BY <1>2 DEF Legacy!ReadCancel
    <3> QED
      BY <1>2, <3>1, <3>2, <3>3 DEF Legacy!ReadCancel
  <2>2. LegacyPlaceInv'
    BY <1>2, PurgedIsPart DEF Legacy!ReadCancel
  <2>3. LegacyQueueInv'
    BY <1>2, PurgedIsPart DEF Legacy!ReadCancel
  <2>4. LegacyVerdictInv'
    BY <1>2, PurgedIsPart DEF Legacy!ReadCancel
  <2>5. Legacy!SafeMeansUnsent'
    BY <1>2, PurgedIsPart DEF Legacy!ReadCancel
  <2> QED
    BY <2>1, <2>2, <2>3, <2>4, <2>5
<1>3. ASSUME NEW r \in Legacy!Requests, Legacy!Answer(r) PROVE LegacySentInv'
  BY <1>3 DEF Legacy!Answer
<1>4. CASE Legacy!LookInFlight
  <2>1. LegacyTypes'
    BY <1>4, ZenonT(30) DEF Legacy!LookInFlight
  <2>2. LegacyPlaceInv'
    BY <1>4 DEF Legacy!LookInFlight
  <2>3. LegacyQueueInv'
    BY <1>4 DEF Legacy!LookInFlight
  <2>4. LegacyVerdictInv'
    BY <1>4 DEF Legacy!LookInFlight
  <2>5. Legacy!SafeMeansUnsent'
    BY <1>4 DEF Legacy!LookInFlight
  <2> QED
    BY <2>1, <2>2, <2>3, <2>4, <2>5
<1>5. CASE Legacy!Forward
  <2>1. LegacyTypes'
    <3>1. legacyReader.seen \in legacySent /\ legacyReader' = Legacy!Idle
      BY <1>5 DEF Legacy!Forward, Legacy!Hits
    <3>2. forwarded' \subseteq legacySent
      BY <1>5, <3>1 DEF Legacy!Forward
    <3>3. cancel' \in [Legacy!Requests -> {"no", "sent", "purged", "marked", "forwarded"}]
      BY <1>5 DEF Legacy!Forward
    <3>4. UNCHANGED <<legacyQueue, pend, markers, legacyInflight, written, legacyPc, legacyCur, verdict,
            backend, legacyGot, legacySent, legacyReply>>
      BY <1>5 DEF Legacy!Forward
    <3> QED
      BY <3>1, <3>2, <3>3, <3>4
  <2>2. LegacyPlaceInv'
    BY <1>5 DEF Legacy!Forward, Legacy!Hits
  <2>3. LegacyQueueInv'
    BY <1>5 DEF Legacy!Forward, Legacy!Hits
  <2>4. LegacyVerdictInv'
    BY <1>5 DEF Legacy!Forward, Legacy!Hits
  <2>5. Legacy!SafeMeansUnsent'
    BY <1>5 DEF Legacy!Forward, Legacy!Hits
  <2> QED
    BY <2>1, <2>2, <2>3, <2>4, <2>5
<1>6. CASE Legacy!Mark
  <2>1. LegacyTypes'
    BY <1>6 DEF Legacy!Mark, Legacy!Hits
  <2>2. LegacyPlaceInv'
    BY <1>6 DEF Legacy!Mark, Legacy!Hits
  <2>3. LegacyQueueInv'
    BY <1>6 DEF Legacy!Mark, Legacy!Hits
  <2>4. LegacyVerdictInv'
    BY <1>6 DEF Legacy!Mark, Legacy!Hits
  <2>5. Legacy!SafeMeansUnsent'
    BY <1>6 DEF Legacy!Mark, Legacy!Hits
  <2> QED
    BY <2>1, <2>2, <2>3, <2>4, <2>5
<1>7. CASE Legacy!ReadEof \/ Legacy!Exit \/ Legacy!Stall \/ Legacy!Teardown \/ UNCHANGED Legacy!vars
  BY <1>7 DEF Legacy!ReadEof, Legacy!Exit, Legacy!Stall, Legacy!Teardown, Legacy!vars
<1>8. CASE Legacy!Pop
  <2>1. LegacyTypes'
    <3>1. legacyQueue' \in Seq(Legacy!Requests) /\ Len(legacyQueue') <= QueueSize
      <4>1. CASE legacyQueue' = <<>>
        BY <4>1, EmptySeq
      <4>2. CASE legacyQueue # <<>> /\ legacyQueue' = Tail(legacyQueue)
        BY <4>2, TailIsPart, LenProperties
      <4> QED
        BY <1>8, <4>1, <4>2 DEF Legacy!Pop
    <3>2. legacyCur' \in Legacy!Requests \cup {None} /\ pend' \in Legacy!Requests \cup {None}
      BY <1>8, TailIsPart DEF Legacy!Pop
    <3> QED
      BY <1>8, <3>1, <3>2 DEF Legacy!Pop
  <2>2. LegacyPlaceInv'
    BY <1>8, TailIsPart DEF Legacy!Pop
  <2>3. LegacyQueueInv'
    <3>1. CASE legacyQueue' = <<>>
      BY <3>1
    <3>2. CASE legacyQueue # <<>> /\ legacyQueue' = Tail(legacyQueue) /\ legacyCur' = Head(legacyQueue)
      <4>1. legacyReply' = legacyReply /\ legacySent' = legacySent
        BY <1>8 DEF Legacy!Pop
      <4>2. ASSUME NEW i \in DOMAIN legacyQueue'
              PROVE i + 1 # 1 /\ i + 1 \in DOMAIN legacyQueue /\ legacyQueue'[i] = legacyQueue[i + 1]
        BY <3>2, TailIsPart
      <4>3. ASSUME NEW i \in DOMAIN legacyQueue', NEW j \in DOMAIN legacyQueue', i + 1 = j + 1 PROVE i = j
        BY <3>2, <4>3, TailIsPart
      <4>4. legacyCur' = legacyQueue[1] /\ 1 \in DOMAIN legacyQueue
        BY <3>2, TailIsPart
      <4> QED
        BY <4>1, <4>2, <4>3, <4>4
    <3> QED
      BY <1>8, <3>1, <3>2 DEF Legacy!Pop
  <2>4. LegacyVerdictInv'
    BY <1>8, TailIsPart DEF Legacy!Pop
  <2>5. Legacy!SafeMeansUnsent'
    BY <1>8, TailIsPart DEF Legacy!Pop
  <2> QED
    BY <2>1, <2>2, <2>3, <2>4, <2>5
<1>9. CASE Legacy!Start
  BY <1>9 DEF Legacy!Start, Legacy!Ensured, Legacy!Tell
<1>10. CASE Legacy!Enter
  BY <1>10, ZenonT(30) DEF Legacy!Enter, Legacy!Tell
<1>11. CASE Legacy!Check
  BY <1>11 DEF Legacy!Check, Legacy!Tell
<1>12. CASE Legacy!Write
  BY <1>12 DEF Legacy!Write, Legacy!Tell
<1>13. CASE Legacy!Wrote
  BY <1>13 DEF Legacy!Wrote
<1>14. CASE Legacy!Await
  BY <1>14 DEF Legacy!Await, Legacy!Tell, Legacy!Discovered
<1>15. CASE Legacy!Leave
  <2>1. LegacyTypes'
    <3>1. legacyReply' \in [Legacy!Requests -> LegacyAnswers \cup {None}]
      BY <1>15 DEF Legacy!Leave
    <3> HIDE DEF LegacyAnswers
    <3> QED
      BY <1>15, <3>1 DEF Legacy!Leave
  <2>2. LegacyPlaceInv'
    BY <1>15 DEF Legacy!Leave
  <2>3. LegacyQueueInv'
    BY <1>15 DEF Legacy!Leave
  <2>4. LegacyVerdictInv'
    BY <1>15 DEF Legacy!Leave
  <2>5. Legacy!SafeMeansUnsent'
    BY <1>15 DEF Legacy!Leave
  <2> QED
    BY <2>1, <2>2, <2>3, <2>4, <2>5
<1> QED
  BY <1>1, <1>2, <1>3, <1>4, <1>5, <1>6, <1>7, <1>8, <1>9, <1>10, <1>11, <1>12, <1>13, <1>14,
     <1>15 DEF Legacy!Next

LEMMA LegacyCancelStep ==
  ASSUME LegacyAssumption, LegacyUnique, LegacySentInv, LegacyCancelInv, Legacy!CancelHitsItsOwn,
         [Legacy!Next]_(Legacy!vars)
  PROVE  LegacyCancelInv' /\ Legacy!CancelHitsItsOwn'
<1> USE DEF LegacySentInv, LegacyTypes, LegacyPlaceInv, LegacyQueueInv, LegacyVerdictInv,
       LegacyCancelInv, Legacy!CancelHitsItsOwn, LegacyAssumption, LegacyUnique, Legacy!queued,
       Legacy!flying, Legacy!process, Legacy!Idle, LegacyServing, LegacyUnsent, LegacyAnswers
<1>1. ASSUME NEW r \in Legacy!Requests, Legacy!ReadRequest(r) PROVE LegacyCancelInv' /\ Legacy!CancelHitsItsOwn'
  BY <1>1 DEF Legacy!ReadRequest, Legacy!Unseen
<1>2. ASSUME NEW r \in Legacy!Requests, Legacy!ReadCancel(r) PROVE LegacyCancelInv' /\ Legacy!CancelHitsItsOwn'
  BY <1>2 DEF Legacy!ReadCancel
<1>3. ASSUME NEW r \in Legacy!Requests, Legacy!Answer(r) PROVE LegacyCancelInv' /\ Legacy!CancelHitsItsOwn'
  BY <1>3 DEF Legacy!Answer
<1>4. CASE Legacy!LookInFlight
  BY <1>4 DEF Legacy!LookInFlight
<1>5. CASE Legacy!Forward
  BY <1>5 DEF Legacy!Forward, Legacy!Hits
<1>6. CASE Legacy!Mark
  BY <1>6 DEF Legacy!Mark, Legacy!Hits
<1>7. CASE Legacy!ReadEof \/ Legacy!Exit \/ Legacy!Stall \/ Legacy!Teardown \/ UNCHANGED Legacy!vars
  BY <1>7 DEF Legacy!ReadEof, Legacy!Exit, Legacy!Stall, Legacy!Teardown, Legacy!vars
<1>8. CASE Legacy!Pop
  BY <1>8 DEF Legacy!Pop
<1>9. CASE Legacy!Start
  BY <1>9 DEF Legacy!Start, Legacy!Ensured, Legacy!Tell
<1>10. CASE Legacy!Enter
  BY <1>10 DEF Legacy!Enter, Legacy!Tell
<1>11. CASE Legacy!Check
  BY <1>11 DEF Legacy!Check, Legacy!Tell
<1>12. CASE Legacy!Write
  BY <1>12 DEF Legacy!Write, Legacy!Tell
<1>13. CASE Legacy!Wrote
  BY <1>13 DEF Legacy!Wrote
<1>14. CASE Legacy!Await
  BY <1>14 DEF Legacy!Await, Legacy!Tell, Legacy!Discovered
<1>15. CASE Legacy!Leave
  BY <1>15 DEF Legacy!Leave
<1> QED
  BY <1>1, <1>2, <1>3, <1>4, <1>5, <1>6, <1>7, <1>8, <1>9, <1>10, <1>11, <1>12, <1>13, <1>14,
     <1>15 DEF Legacy!Next

-----------------------------------------------------------------------------
(* The tools that are shown when they are asked for: DeferredTools.          *)

DeferredAssumption ==
  /\ MaxReal \in Nat /\ MaxPeers \in Nat /\ Pages \in Nat \ {0}
  /\ None \notin Deferred!Requests \cup {"init", "list", "call", "ok", "safe", "unknown"}

DeferredExchanging == {"sends", "waits", "tidies"}
DeferredWorking == DeferredExchanging \cup {"greets", "looks", "asks init", "asks list", "asks call", "adopts",
  "expands"}
DeferredStops == DeferredWorking \cup {"idle", "connects", "collapses", "refuses", "gives up", "abandons"}
DeferredVersions == (1 .. MaxPeers) \X (0 .. MaxReal)
DeferredNotes == {"init", "list", "call"}
DeferredReports == {<<"answer", v>> : v \in 0 .. MaxReal}

\* The input thread.
DeferredInputTypes ==
  /\ asked \subseteq Deferred!Requests /\ deferredWithdrawn \subseteq asked
  /\ deferredInbound \in Seq(Deferred!Requests)
       /\ \A i \in DOMAIN deferredInbound : deferredInbound[i] \in asked
  /\ cancelling \in [step : {"idle", "acts"}, of : Deferred!Requests \cup {None}, on : Nat]

\* The connection: whatever makes its end known belongs to one of its own.
DeferredLinkTypes ==
  /\ deferredClosed \in BOOLEAN /\ peer \in 0 .. MaxPeers /\ real \in 0 .. MaxReal
  /\ tidying \in Nat /\ (IF deferredClosed THEN tidying ELSE tidying + 1) <= peer

\* The exchange is about the request that is served.
DeferredServeInv ==
  /\ deferredCur \in Deferred!Requests \cup {None} /\ deferredInflight = deferredCur
       /\ (deferredCur = None) = (deferredPc = "idle") /\ deferredPc \in DeferredStops
  /\ deferredPending \in [of : Deferred!Requests \cup {None}, what : DeferredNotes \cup {None}]
  /\ deferredPc \in DeferredExchanging
       => deferredPending.of = deferredCur /\ deferredPending.what \in DeferredNotes
  /\ deferredPc \notin DeferredExchanging => deferredPending = Deferred!Quiet
  /\ deferredPc \in DeferredWorking => peer > 0
  /\ deferredPc = "asks call" \/ deferredPending.what = "call" => deferredCur \in DeferredCalls

\* The catalog, and the pages that become one.
DeferredViewTypes ==
  /\ expanded \in BOOLEAN
  /\ catalog = None \/ catalog \subseteq DeferredVersions
  /\ epoch \in Nat /\ seen \in Nat /\ seen <= epoch

\* The pages become a catalog when they are all there.
DeferredPageTypes ==
  /\ pages \in Seq(DeferredVersions) /\ Len(pages) <= Pages
  /\ deferredPc = "asks list" \/ deferredPending.what = "list" => Len(pages) < Pages
  /\ deferredPc = "adopts" => Len(pages) = Pages

DeferredMessageTypes ==
  /\ event \in DeferredReports \cup {Deferred!Unset, Deferred!Failure}
  /\ back \in Seq(DeferredReports \cup {Deferred!Changed}) /\ owed \in BOOLEAN

\* At most one answer is owed, on its way or taken, and only while it is waited for.
DeferredOneAnswer ==
  /\ deferredClosed => back = <<>> /\ ~owed
  /\ \A i, j \in DOMAIN back : back[i] # Deferred!Changed /\ back[j] # Deferred!Changed => i = j
  /\ owed => \A i \in DOMAIN back : back[i] = Deferred!Changed
  /\ owed \/ (\E i \in DOMAIN back : back[i] # Deferred!Changed)
       => deferredPc = "waits" /\ event = Deferred!Unset
  /\ event \in DeferredReports => deferredPc = "waits"
  /\ event = Deferred!Failure /\ deferredPc \in DeferredExchanging => deferredClosed

DeferredGhostTypes == deferredSent \subseteq DeferredCalls
  /\ deferredReply \in [Deferred!Requests -> {None, "ok", "safe", "unknown"}]

DeferredFlowInv ==
  DeferredInputTypes /\ DeferredLinkTypes /\ DeferredServeInv /\ DeferredViewTypes /\ DeferredPageTypes
    /\ DeferredMessageTypes /\ DeferredOneAnswer /\ DeferredGhostTypes

\* A request is at one place on its way, and is not sent before it is served.
DeferredSentInv ==
  /\ \A i, j \in DOMAIN deferredInbound : deferredInbound[i] = deferredInbound[j] => i = j
  /\ \A i \in DOMAIN deferredInbound : deferredInbound[i] # deferredCur
       /\ deferredReply[deferredInbound[i]] = None /\ deferredInbound[i] \notin deferredSent
  /\ \A r \in Deferred!Requests \ asked : r # deferredCur /\ deferredReply[r] = None /\ r \notin deferredSent
  /\ deferredCur # None => deferredReply[deferredCur] = None
  /\ deferredCur \in deferredSent => deferredPending.what = "call" /\ deferredPc \in {"waits", "tidies"}

\* A change of the catalog is on its way, and has not been read.
DeferredNoticed == \E i \in DOMAIN back : back[i] = Deferred!Changed

DeferredListing == deferredPc = "asks list" \/ deferredPending.what = "list" \/ deferredPc = "adopts"
DeferredGreeting == deferredPc = "asks init" \/ deferredPending.what = "init"

\* An answer on its way is of the newest catalog, or the notice comes after it.
DeferredBackInv ==
  \A i \in DOMAIN back : back[i] # Deferred!Changed =>
    back[i][2] = real \/ \E j \in DOMAIN back : i < j /\ back[j] = Deferred!Changed

\* One that was taken is, or its notice is on its way, or was read since.
DeferredEventInv == event \in DeferredReports /\ ~deferredClosed
  => event[2] = real \/ DeferredNoticed \/ seen # epoch

DeferredPagesInv ==
  DeferredListing => \A i \in DOMAIN pages :
    pages[i][1] = peer /\ (~deferredClosed => pages[i][2] = real \/ DeferredNoticed \/ seen # epoch)

\* The catalog is that of the connection in use, once the server was greeted.
DeferredCatalogInv == ~deferredClosed /\ catalog # None /\ ~DeferredGreeting
  => catalog = {<<peer, real>>} \/ DeferredNoticed

DeferredFreshInv == DeferredBackInv /\ DeferredEventInv /\ DeferredPagesInv /\ DeferredCatalogInv

LEMMA DeferredStrings == Deferred!Unset \notin DeferredReports /\ Deferred!Failure \notin DeferredReports
  /\ Deferred!Changed \notin DeferredReports /\ Deferred!Unset # Deferred!Failure
BY DEF Deferred!Unset, Deferred!Failure, Deferred!Changed, DeferredReports

LEMMA DeferredInitial == ASSUME DeferredAssumption, Deferred!Init PROVE DeferredFlowInv
<1>1. deferredInbound \in Seq(Deferred!Requests) /\ pages \in Seq(DeferredVersions)
        /\ back \in Seq(DeferredReports \cup {Deferred!Changed})
      /\ Len(pages) = 0 /\ DOMAIN deferredInbound = {} /\ DOMAIN back = {}
  BY EmptySeq DEF Deferred!Init
<1>2. DeferredInputTypes
  BY <1>1 DEF Deferred!Init, Deferred!Idle, DeferredInputTypes
<1>3. DeferredLinkTypes
  BY DEF Deferred!Init, DeferredLinkTypes, DeferredAssumption
<1>4. DeferredServeInv
  BY DEF Deferred!Init, DeferredServeInv, Deferred!Quiet, DeferredAssumption, DeferredExchanging,
     DeferredWorking, DeferredStops, DeferredNotes
<1>5. DeferredViewTypes /\ DeferredPageTypes
  <2>1. deferredPc = "idle" /\ deferredPending.what = None /\ None # "list" /\ Pages \in Nat /\ epoch = 0
          /\ seen = 0 /\ catalog = None
    BY DEF Deferred!Init, DeferredAssumption, Deferred!Quiet
  <2>2. pages \in Seq(DeferredVersions) /\ Len(pages) <= Pages
    BY <1>1, <2>1
  <2>3. deferredPc # "asks list" /\ deferredPc # "adopts" /\ deferredPending.what # "list"
    BY <2>1
  <2>4. epoch \in Nat /\ seen \in Nat /\ seen <= epoch
    BY <2>1
  <2>5. expanded \in BOOLEAN
    BY DEF Deferred!Init
  <2> QED
    BY <2>1, <2>2, <2>3, <2>4, <2>5, Zenon DEF DeferredViewTypes, DeferredPageTypes
<1>6. DeferredMessageTypes /\ DeferredOneAnswer
  BY <1>1, DeferredStrings DEF Deferred!Init, DeferredMessageTypes, DeferredOneAnswer,
     DeferredExchanging
<1>7. DeferredGhostTypes
  BY DEF Deferred!Init, DeferredGhostTypes
<1> QED
  BY <1>2, <1>3, <1>4, <1>5, <1>6, <1>7 DEF DeferredFlowInv

\* What goes the way of the messages.
LEMMA BackGrows ==
  ASSUME NEW S, NEW q \in Seq(S), NEW m \in S
  PROVE  /\ Append(q, m) \in Seq(S) /\ DOMAIN Append(q, m) = 1 .. Len(q) + 1 /\ DOMAIN q = 1 .. Len(q)
         /\ Len(q) \in Nat /\ Len(Append(q, m)) = Len(q) + 1
         /\ \A i \in DOMAIN q : i \in DOMAIN Append(q, m) /\ Append(q, m)[i] = q[i]
         /\ Len(q) + 1 \in DOMAIN Append(q, m) /\ Append(q, m)[Len(q) + 1] = m
         /\ \A i \in DOMAIN Append(q, m) : i \in DOMAIN q \/ i = Len(q) + 1
<1>1. DOMAIN q = 1 .. Len(q) /\ Len(q) \in Nat
  BY LenProperties
<1>2. Append(q, m) \in Seq(S) /\ Len(Append(q, m)) = Len(q) + 1
  BY AppendProperties
<1>3. DOMAIN Append(q, m) = 1 .. Len(q) + 1
  BY <1>2, LenProperties
<1>4. \A i \in 1 .. Len(q) : Append(q, m)[i] = q[i]
  BY AppendProperties
<1>5. Append(q, m)[Len(q) + 1] = m
  BY AppendProperties
<1> QED
  BY <1>1, <1>2, <1>3, <1>4, <1>5

LEMMA BackShrinks ==
  ASSUME NEW S, NEW q \in Seq(S), q # <<>>
  PROVE  /\ Tail(q) \in Seq(S) /\ Head(q) = q[1] /\ 1 \in DOMAIN q /\ Head(q) \in S
         /\ \A i \in DOMAIN Tail(q) : i \in Nat /\ i + 1 # 1 /\ i + 1 \in DOMAIN q /\ Tail(q)[i] = q[i + 1]
         /\ \A i \in DOMAIN q : i \in Nat /\ (i # 1 => i - 1 \in DOMAIN Tail(q) /\ Tail(q)[i - 1] = q[i])
<1>1. DOMAIN q = 1 .. Len(q) /\ Len(q) \in Nat /\ Len(q) # 0
  BY LenProperties, EmptySeq
<1>2. Head(q) \in S /\ Tail(q) \in Seq(S) /\ Len(Tail(q)) = Len(q) - 1
  BY HeadTailProperties
<1>3. \A i \in 1 .. Len(q) - 1 : Tail(q)[i] = q[i + 1]
  BY <1>2, HeadTailProperties
<1>4. DOMAIN Tail(q) = 1 .. Len(q) - 1
  BY <1>2, LenProperties
<1> QED
  BY <1>1, <1>2, <1>3, <1>4

LEMMA DeferredInputStep ==
  ASSUME DeferredAssumption, DeferredInputTypes, DeferredLinkTypes, DeferredServeInv,
         [Deferred!Next]_(Deferred!vars)
  PROVE  DeferredInputTypes'
<1> USE DEF Deferred!input, Deferred!view, Deferred!link, Deferred!exchange, Deferred!serving,
       Deferred!down, Deferred!ghosts
<1>1. CASE UNCHANGED <<asked, deferredWithdrawn, deferredInbound, cancelling>>
  BY <1>1 DEF DeferredInputTypes
<1>2. ASSUME NEW r \in Deferred!Requests, Deferred!Ask(r) PROVE DeferredInputTypes'
  BY <1>2, BackGrows DEF DeferredInputTypes, Deferred!Ask
<1>3. ASSUME NEW r \in Deferred!Requests, Deferred!Cancel(r) PROVE DeferredInputTypes'
  <2>1. cancelling' \in [step : {"idle", "acts"}, of : Deferred!Requests \cup {None}, on : Nat]
    <3>1. peer \in Nat
      BY DEF DeferredLinkTypes, DeferredAssumption
    <3> QED
      BY <1>3, <3>1 DEF Deferred!Cancel, Deferred!Idle
  <2>2. asked' = asked /\ deferredInbound' = deferredInbound /\ r \in asked
          /\ deferredWithdrawn' = deferredWithdrawn \cup {r}
    BY <1>3 DEF Deferred!Cancel
  <2> QED
    BY <2>1, <2>2 DEF DeferredInputTypes
<1>4. CASE Deferred!CancelPending
  BY <1>4 DEF DeferredInputTypes, Deferred!CancelPending, Deferred!Idle
<1>5. CASE Deferred!Serve
  BY <1>5, BackShrinks DEF DeferredInputTypes, Deferred!Serve
<1>6. CASE Deferred!Drop \/ Deferred!Tidy \/ Deferred!ReceiveChange \/ Deferred!ReceiveAnswer \/ Deferred!Answer
        \/ Deferred!Change \/ Deferred!Refuse \/ Deferred!Collapse
  BY <1>1, <1>6 DEF Deferred!Drop, Deferred!FailPeer, Deferred!Tidy, Deferred!Invalidate,
     Deferred!ReceiveChange, Deferred!ReceiveAnswer, Deferred!Answer, Deferred!Change, Deferred!Refuse,
     Deferred!Done, Deferred!Collapse
<1>7. CASE Deferred!Connected \/ Deferred!Dial \/ Deferred!DialFails \/ Deferred!Begin \/ Deferred!Send
        \/ Deferred!TooLarge \/ Deferred!GivesUp \/ Deferred!Tidies
  BY <1>1, <1>7 DEF Deferred!Connected, Deferred!Goto, Deferred!Dial, Deferred!DialFails,
     Deferred!Done, Deferred!Invalidate, Deferred!Begin, Deferred!Send, Deferred!TooLarge,
     Deferred!GivesUp, Deferred!FailPeer, Deferred!Tidies
<1>8. CASE Deferred!Failed \/ Deferred!GiveUp \/ Deferred!Initialized \/ Deferred!ContractChanged
        \/ Deferred!Greet \/ Deferred!Look \/ Deferred!Page \/ Deferred!Adopt
  BY <1>1, <1>8 DEF Deferred!Failed, Deferred!Ended, Deferred!Done, Deferred!Goto, Deferred!GiveUp,
     Deferred!Invalidate, Deferred!Initialized, Deferred!ContractChanged, Deferred!Greet,
     Deferred!Look, Deferred!Page, Deferred!Adopt
<1>9. CASE Deferred!Expand \/ Deferred!Returned
  BY <1>1, <1>9 DEF Deferred!Expand, Deferred!Done, Deferred!Returned, Deferred!Ended
<1>10. CASE UNCHANGED Deferred!vars
  BY <1>1, <1>10 DEF Deferred!vars
<1> QED
  BY <1>1, <1>2, <1>3, <1>4, <1>5, <1>6, <1>7, <1>8, <1>9, <1>10 DEF Deferred!Next

LEMMA DeferredLinkStep ==
  ASSUME DeferredAssumption, DeferredLinkTypes, [Deferred!Next]_(Deferred!vars)
  PROVE  DeferredLinkTypes'
<1> USE DEF Deferred!input, Deferred!view, Deferred!link, Deferred!exchange, Deferred!serving,
       Deferred!down, Deferred!ghosts
<1>1. CASE UNCHANGED <<deferredClosed, peer, real, tidying>>
  BY <1>1 DEF DeferredLinkTypes
<1>2. CASE Deferred!Drop
  BY <1>2 DEF DeferredLinkTypes, Deferred!Drop, Deferred!FailPeer, DeferredAssumption
<1>3. CASE Deferred!Tidy
  BY <1>3 DEF DeferredLinkTypes, Deferred!Tidy, Deferred!Invalidate, DeferredAssumption
<1>4. CASE Deferred!Change
  BY <1>4 DEF DeferredLinkTypes, Deferred!Change, DeferredAssumption
<1>5. CASE Deferred!GivesUp
  BY <1>5 DEF DeferredLinkTypes, Deferred!GivesUp, Deferred!FailPeer, Deferred!Goto, DeferredAssumption
<1>6. CASE Deferred!ContractChanged
  BY <1>6 DEF DeferredLinkTypes, Deferred!ContractChanged, Deferred!Ended, Deferred!Done,
     Deferred!Invalidate, DeferredAssumption
<1>7. CASE Deferred!Dial
  <2>1. deferredClosed /\ ~deferredClosed' /\ deferredClosed' \in BOOLEAN /\ peer' = peer + 1 /\ peer < MaxPeers
    BY <1>7 DEF Deferred!Dial
  <2>2. tidying' = tidying /\ real' = real
    BY <1>7 DEF Deferred!Dial
  <2>3. tidying \in Nat /\ tidying <= peer /\ peer \in Nat /\ MaxPeers \in Nat /\ real \in 0 .. MaxReal
    BY <2>1 DEF DeferredLinkTypes, DeferredAssumption
  <2>4. tidying' \in Nat /\ tidying' + 1 <= peer' /\ peer' \in 0 .. MaxPeers
    BY <2>1, <2>2, <2>3
  <2> QED
    BY <2>1, <2>2, <2>3, <2>4 DEF DeferredLinkTypes
<1>8. ASSUME NEW r \in Deferred!Requests, Deferred!Ask(r) \/ Deferred!Cancel(r)
        PROVE UNCHANGED <<deferredClosed, peer, real, tidying>>
  BY <1>8 DEF Deferred!Ask, Deferred!Cancel
<1>9. CASE Deferred!CancelPending \/ Deferred!ReceiveChange \/ Deferred!ReceiveAnswer \/ Deferred!Answer
        \/ Deferred!Serve \/ Deferred!Refuse
  BY <1>1, <1>9 DEF Deferred!Ask, Deferred!Cancel, Deferred!CancelPending, Deferred!Idle,
     Deferred!ReceiveChange, Deferred!Invalidate, Deferred!ReceiveAnswer, Deferred!Answer,
     Deferred!Serve, Deferred!Refuse, Deferred!Done
<1>10. CASE Deferred!Collapse \/ Deferred!Connected \/ Deferred!DialFails \/ Deferred!Begin \/ Deferred!Send
         \/ Deferred!TooLarge \/ Deferred!Tidies \/ Deferred!Failed
  BY <1>1, <1>10 DEF Deferred!Collapse, Deferred!Done, Deferred!Connected, Deferred!Goto,
     Deferred!DialFails, Deferred!Invalidate, Deferred!Begin, Deferred!Send, Deferred!TooLarge,
     Deferred!Tidies, Deferred!Failed, Deferred!Ended
<1>11. CASE Deferred!GiveUp \/ Deferred!Initialized \/ Deferred!Greet \/ Deferred!Look \/ Deferred!Page
         \/ Deferred!Adopt \/ Deferred!Expand \/ Deferred!Returned
  BY <1>1, <1>11 DEF Deferred!GiveUp, Deferred!Done, Deferred!Invalidate, Deferred!Initialized,
     Deferred!Ended, Deferred!Goto, Deferred!Greet, Deferred!Look, Deferred!Page, Deferred!Adopt,
     Deferred!Expand, Deferred!Returned
<1>12. CASE UNCHANGED Deferred!vars
  BY <1>1, <1>12 DEF Deferred!vars
<1> QED
  BY <1>1, <1>2, <1>3, <1>4, <1>5, <1>6, <1>7, <1>8, <1>9, <1>10, <1>11, <1>12 DEF Deferred!Next

\* The thread has done with its request.
LEMMA DeferredRests ==
  ASSUME DeferredAssumption, deferredPc' = "idle", deferredCur' = None, deferredInflight' = None,
         deferredPending' = Deferred!Quiet
  PROVE  DeferredServeInv'
<1>1. deferredPending' \in [of : Deferred!Requests \cup {None}, what : DeferredNotes \cup {None}]
  BY DEF Deferred!Quiet
<1>2. deferredPending'.what = None /\ None # "call"
  BY DEF Deferred!Quiet, DeferredAssumption
<1> QED
  BY <1>1, <1>2 DEF DeferredServeInv, DeferredExchanging, DeferredWorking, DeferredStops

LEMMA DeferredServeStep ==
  ASSUME DeferredAssumption, DeferredInputTypes, DeferredLinkTypes, DeferredServeInv,
         [Deferred!Next]_(Deferred!vars)
  PROVE  DeferredServeInv'
<1> USE DEF Deferred!input, Deferred!view, Deferred!link, Deferred!exchange, Deferred!serving,
       Deferred!down, Deferred!ghosts
<1>1. CASE UNCHANGED <<deferredCur, deferredInflight, deferredPc, deferredPending, peer>>
  BY <1>1 DEF DeferredServeInv
<1>2. CASE Deferred!Serve
  BY <1>2, BackShrinks DEF DeferredServeInv, Deferred!Serve, DeferredInputTypes, DeferredLinkTypes,
     DeferredAssumption, DeferredStops, DeferredWorking, DeferredExchanging, DeferredNotes,
     Deferred!Quiet
<1>3. CASE Deferred!Refuse
  BY <1>3 DEF DeferredServeInv, Deferred!Refuse, Deferred!Done, DeferredInputTypes, DeferredLinkTypes,
     DeferredAssumption, DeferredStops, DeferredWorking, DeferredExchanging, DeferredNotes,
     Deferred!Quiet
<1>4. CASE Deferred!Collapse
  BY <1>4 DEF DeferredServeInv, Deferred!Collapse, Deferred!Done, DeferredInputTypes,
     DeferredLinkTypes, DeferredAssumption, DeferredStops, DeferredWorking, DeferredExchanging,
     DeferredNotes, Deferred!Quiet
<1>5. CASE Deferred!Connected
  BY <1>5 DEF DeferredServeInv, Deferred!Connected, Deferred!Goto, DeferredInputTypes,
     DeferredLinkTypes, DeferredAssumption, DeferredStops, DeferredWorking, DeferredExchanging,
     DeferredNotes, Deferred!Quiet
<1>6. CASE Deferred!Dial
  <2>1. deferredPc = "connects" /\ deferredPc' = "asks init" /\ peer' = peer + 1
          /\ UNCHANGED <<deferredCur, deferredInflight,
     deferredPending>>
    BY <1>6 DEF Deferred!Dial, Deferred!Goto
  <2>2. deferredPending = Deferred!Quiet /\ deferredCur # None
    BY <2>1 DEF DeferredServeInv, DeferredExchanging
  <2>3. peer' > 0
    <3>1. peer \in Nat
      BY DEF DeferredLinkTypes, DeferredAssumption
    <3>2. peer' = peer + 1
      BY <2>1
    <3> QED
      BY ONLY <3>1, <3>2
  <2>4. deferredPending.what = None /\ None # "call"
    BY <2>2 DEF Deferred!Quiet, DeferredAssumption
  <2> QED
    BY <2>1, <2>2, <2>3, <2>4 DEF DeferredServeInv, DeferredExchanging, DeferredWorking, DeferredStops
<1>7. CASE Deferred!DialFails
  BY <1>7 DEF DeferredServeInv, Deferred!DialFails, Deferred!Done, Deferred!Invalidate,
     DeferredInputTypes, DeferredLinkTypes, DeferredAssumption, DeferredStops, DeferredWorking,
     DeferredExchanging, DeferredNotes, Deferred!Quiet
<1>8. CASE Deferred!Begin
  <2>1. deferredPc \in {"asks init", "asks list", "asks call"}
          /\ UNCHANGED <<deferredCur, deferredInflight, peer>>
    BY <1>8 DEF Deferred!Begin, Deferred!Goto
  <2>2. deferredPending = Deferred!Quiet /\ deferredCur # None /\ peer > 0
          /\ (deferredPc = "asks call" => deferredCur \in DeferredCalls)
    BY <2>1 DEF DeferredServeInv, DeferredExchanging, DeferredWorking
  <2>3. deferredPending.what = None /\ None # "call"
    BY <2>2 DEF Deferred!Quiet, DeferredAssumption
  <2>4. CASE deferredPc' \in {"abandons", "gives up"} /\ deferredPending' = deferredPending
    BY <2>1, <2>2, <2>3, <2>4 DEF DeferredServeInv, DeferredExchanging, DeferredWorking, DeferredStops
  <2>5. CASE deferredPc' = "sends" /\ deferredPending' = [of |-> deferredCur, what |-> Deferred!What]
    <3>1. Deferred!What \in DeferredNotes /\ (Deferred!What = "call" => deferredPc = "asks call")
      BY <2>1 DEF Deferred!What, DeferredNotes
    <3> HIDE DEF Deferred!What
    <3> QED
      BY <2>1, <2>2, <2>5, <3>1 DEF DeferredServeInv, DeferredExchanging, DeferredWorking, DeferredStops
  <2> QED
    BY <1>8, <2>4, <2>5 DEF Deferred!Begin, Deferred!Goto
<1>9. CASE Deferred!Send
  BY <1>9 DEF DeferredServeInv, Deferred!Send, Deferred!Goto, DeferredInputTypes, DeferredLinkTypes,
     DeferredAssumption, DeferredStops, DeferredWorking, DeferredExchanging, DeferredNotes,
     Deferred!Quiet
<1>10. CASE Deferred!TooLarge
  BY <1>10 DEF DeferredServeInv, Deferred!TooLarge, Deferred!Goto, DeferredInputTypes,
     DeferredLinkTypes, DeferredAssumption, DeferredStops, DeferredWorking, DeferredExchanging,
     DeferredNotes, Deferred!Quiet
<1>11. CASE Deferred!GivesUp
  BY <1>11 DEF DeferredServeInv, Deferred!GivesUp, Deferred!FailPeer, Deferred!Goto,
     DeferredInputTypes, DeferredLinkTypes, DeferredAssumption, DeferredStops, DeferredWorking,
     DeferredExchanging, DeferredNotes, Deferred!Quiet
<1>12. CASE Deferred!Tidies
  BY <1>12 DEF DeferredServeInv, Deferred!Tidies, Deferred!Goto, Deferred!Invalidate,
     DeferredInputTypes, DeferredLinkTypes, DeferredAssumption, DeferredStops, DeferredWorking,
     DeferredExchanging, DeferredNotes, Deferred!Quiet
<1>13. CASE Deferred!Failed
  BY <1>13 DEF DeferredServeInv, Deferred!Failed, Deferred!Ended, Deferred!Done, Deferred!Goto,
     DeferredInputTypes, DeferredLinkTypes, DeferredAssumption, DeferredStops, DeferredWorking,
     DeferredExchanging, DeferredNotes, Deferred!Quiet
<1>14. CASE Deferred!GiveUp
  <2>1. deferredPc' = "idle" /\ deferredCur' = None /\ deferredInflight' = None
    BY <1>14 DEF Deferred!GiveUp, Deferred!Done
  <2>2. deferredPending' = Deferred!Quiet
    BY <1>14 DEF DeferredServeInv, DeferredExchanging, Deferred!GiveUp
  <2> QED
    BY <2>1, <2>2, DeferredRests
<1>15. CASE Deferred!Initialized
  BY <1>15 DEF DeferredServeInv, Deferred!Initialized, Deferred!Ended, Deferred!Goto,
     Deferred!Invalidate, DeferredInputTypes, DeferredLinkTypes, DeferredAssumption, DeferredStops,
     DeferredWorking, DeferredExchanging, DeferredNotes, Deferred!Quiet
<1>16. CASE Deferred!ContractChanged
  BY <1>16 DEF DeferredServeInv, Deferred!ContractChanged, Deferred!Ended, Deferred!Done,
     Deferred!Invalidate, DeferredInputTypes, DeferredLinkTypes, DeferredAssumption, DeferredStops,
     DeferredWorking, DeferredExchanging, DeferredNotes, Deferred!Quiet
<1>17. CASE Deferred!Greet
  BY <1>17 DEF DeferredServeInv, Deferred!Greet, Deferred!Done, DeferredInputTypes, DeferredLinkTypes,
     DeferredAssumption, DeferredStops, DeferredWorking, DeferredExchanging, DeferredNotes,
     Deferred!Quiet
<1>18. CASE Deferred!Look
  BY <1>18 DEF DeferredServeInv, Deferred!Look, DeferredInputTypes, DeferredLinkTypes,
     DeferredAssumption, DeferredStops, DeferredWorking, DeferredExchanging, DeferredNotes,
     Deferred!Quiet
<1>19. CASE Deferred!Page
  BY <1>19 DEF DeferredServeInv, Deferred!Page, Deferred!Ended, Deferred!Goto, DeferredInputTypes,
     DeferredLinkTypes, DeferredAssumption, DeferredStops, DeferredWorking, DeferredExchanging,
     DeferredNotes, Deferred!Quiet
<1>20. CASE Deferred!Adopt
  BY <1>20 DEF DeferredServeInv, Deferred!Adopt, Deferred!Goto, DeferredInputTypes, DeferredLinkTypes,
     DeferredAssumption, DeferredStops, DeferredWorking, DeferredExchanging, DeferredNotes,
     Deferred!Quiet
<1>21. CASE Deferred!Expand
  <2>1. deferredPc' = "idle" /\ deferredCur' = None /\ deferredInflight' = None
    BY <1>21 DEF Deferred!Expand, Deferred!Done
  <2>2. deferredPending' = Deferred!Quiet
    BY <1>21 DEF DeferredServeInv, DeferredExchanging, Deferred!Expand
  <2> QED
    BY <2>1, <2>2, DeferredRests
<1>22. CASE Deferred!Returned
  BY <1>22 DEF DeferredServeInv, Deferred!Returned, Deferred!Ended, Deferred!Done, DeferredInputTypes,
     DeferredLinkTypes, DeferredAssumption, DeferredStops, DeferredWorking, DeferredExchanging,
     DeferredNotes, Deferred!Quiet
<1>23. ASSUME NEW r \in Deferred!Requests, Deferred!Ask(r) \/ Deferred!Cancel(r)
         PROVE UNCHANGED <<deferredCur, deferredInflight, deferredPc,
     deferredPending, peer>>
  BY <1>23 DEF Deferred!Ask, Deferred!Cancel
<1>24. CASE Deferred!CancelPending \/ Deferred!Drop \/ Deferred!Tidy \/ Deferred!ReceiveChange
         \/ Deferred!ReceiveAnswer \/ Deferred!Answer
  BY <1>1, <1>24 DEF Deferred!Ask, Deferred!Cancel, Deferred!CancelPending, Deferred!Idle,
     Deferred!Drop, Deferred!FailPeer, Deferred!Tidy, Deferred!Invalidate, Deferred!ReceiveChange,
     Deferred!ReceiveAnswer, Deferred!Answer
<1>25. CASE Deferred!Change
  BY <1>1, <1>25 DEF Deferred!Change
<1>26. CASE UNCHANGED Deferred!vars
  BY <1>1, <1>26 DEF Deferred!vars
<1> QED
  BY <1>1, <1>2, <1>3, <1>4, <1>5, <1>6, <1>7, <1>8, <1>9, <1>10, <1>11, <1>12, <1>13, <1>14, <1>15,
     <1>16, <1>17, <1>18, <1>19, <1>20, <1>21, <1>22, <1>23, <1>24, <1>25, <1>26 DEF Deferred!Next

\* The catalog is given up.
LEMMA DeferredInvalidated ==
  ASSUME DeferredViewTypes, Deferred!Invalidate, seen' = seen PROVE DeferredViewTypes'
<1>1. epoch' \in Nat /\ seen' \in Nat /\ seen' <= epoch' /\ expanded' \in BOOLEAN /\ catalog' = None
  BY DEF DeferredViewTypes, Deferred!Invalidate
<1> QED
  BY <1>1 DEF DeferredViewTypes

LEMMA DeferredViewStep ==
  ASSUME DeferredAssumption, DeferredPageTypes, DeferredViewTypes, [Deferred!Next]_(Deferred!vars)
  PROVE  DeferredViewTypes'
<1> USE DEF Deferred!input, Deferred!view, Deferred!link, Deferred!exchange, Deferred!serving,
       Deferred!down, Deferred!ghosts
<1>1. CASE UNCHANGED <<expanded, catalog, epoch, seen>>
  BY <1>1 DEF DeferredViewTypes
<1>2. CASE Deferred!Tidy
  <2>1. Deferred!Invalidate /\ seen' = seen
    BY <1>2 DEF Deferred!Tidy
  <2> QED
    BY <2>1, DeferredInvalidated
<1>3. CASE Deferred!ReceiveChange
  <2>1. Deferred!Invalidate /\ seen' = seen
    BY <1>3 DEF Deferred!ReceiveChange
  <2> QED
    BY <2>1, DeferredInvalidated
<1>4. CASE Deferred!DialFails
  <2>1. Deferred!Invalidate /\ seen' = seen
    BY <1>4 DEF Deferred!DialFails, Deferred!Done
  <2> QED
    BY <2>1, DeferredInvalidated
<1>5. CASE Deferred!Tidies
  <2>1. Deferred!Invalidate /\ seen' = seen
    BY <1>5 DEF Deferred!Tidies, Deferred!Goto
  <2> QED
    BY <2>1, DeferredInvalidated
<1>6. CASE Deferred!ContractChanged
  <2>1. Deferred!Invalidate /\ seen' = seen
    BY <1>6 DEF Deferred!ContractChanged, Deferred!Done
  <2> QED
    BY <2>1, DeferredInvalidated
<1>7. CASE Deferred!Collapse
  <2>1. epoch' = epoch + 1 /\ seen' = seen /\ expanded' = FALSE /\ catalog' = None
    BY <1>7 DEF Deferred!Collapse, Deferred!Done
  <2>2. epoch' \in Nat /\ seen' \in Nat /\ seen' <= epoch'
    BY <2>1 DEF DeferredViewTypes
  <2> QED
    BY <2>1, <2>2 DEF DeferredViewTypes
<1>8. CASE Deferred!Initialized
  <2>1. CASE Deferred!Invalidate /\ seen' = seen
    BY <2>1, DeferredInvalidated
  <2>2. CASE UNCHANGED <<expanded, catalog, epoch, seen>>
    BY <1>1, <2>2
  <2> QED
    BY <1>8, <2>1, <2>2 DEF Deferred!Initialized, Deferred!Goto
<1>9. CASE Deferred!GiveUp
  <2>1. CASE Deferred!Invalidate /\ seen' = seen
    BY <2>1, DeferredInvalidated
  <2>2. CASE UNCHANGED <<expanded, catalog, epoch, seen>>
    BY <1>1, <2>2
  <2> QED
    BY <1>9, <2>1, <2>2 DEF Deferred!GiveUp, Deferred!Done
<1>10. CASE Deferred!Adopt
  <2>1. catalog' = catalog \/ catalog' = Deferred!Range(pages)
    BY <1>10 DEF Deferred!Adopt
  <2>2. Deferred!Range(pages) \subseteq DeferredVersions
    <3>1. \A i \in DOMAIN pages : pages[i] \in DeferredVersions
      BY LenProperties DEF DeferredPageTypes
    <3> QED
      BY <3>1 DEF Deferred!Range
  <2>3. expanded' = expanded /\ epoch' = epoch /\ seen' = seen
    BY <1>10 DEF Deferred!Adopt, Deferred!Goto
  <2> QED
    BY <2>1, <2>2, <2>3 DEF DeferredViewTypes
<1>11. CASE Deferred!Look
  <2>1. seen' = epoch /\ epoch' = epoch /\ catalog' = catalog /\ expanded' = expanded
    BY <1>11 DEF Deferred!Look
  <2>2. epoch \in Nat
    BY DEF DeferredViewTypes
  <2>3. epoch <= epoch
    BY <2>2
  <2> QED
    BY <2>1, <2>2, <2>3 DEF DeferredViewTypes
<1>12. CASE Deferred!Expand
  BY <1>12 DEF DeferredViewTypes, Deferred!Expand, Deferred!Done
<1>13. ASSUME NEW r \in Deferred!Requests, Deferred!Ask(r) \/ Deferred!Cancel(r)
         PROVE UNCHANGED <<expanded, catalog, epoch,
     seen>>
  BY <1>13 DEF Deferred!Ask, Deferred!Cancel
<1>14. CASE Deferred!CancelPending \/ Deferred!Drop \/ Deferred!ReceiveAnswer \/ Deferred!Answer
         \/ Deferred!Change \/ Deferred!Serve
  BY <1>1, <1>14 DEF Deferred!Ask, Deferred!Cancel, Deferred!CancelPending, Deferred!Idle,
     Deferred!Drop, Deferred!FailPeer, Deferred!ReceiveAnswer, Deferred!Answer, Deferred!Change,
     Deferred!Serve
<1>15. CASE Deferred!Refuse \/ Deferred!Connected \/ Deferred!Dial \/ Deferred!Begin \/ Deferred!Send
         \/ Deferred!TooLarge \/ Deferred!GivesUp \/ Deferred!Failed
  BY <1>1, <1>15 DEF Deferred!Refuse, Deferred!Done, Deferred!Connected, Deferred!Goto, Deferred!Dial,
     Deferred!Begin, Deferred!Send, Deferred!TooLarge, Deferred!GivesUp, Deferred!FailPeer,
     Deferred!Failed, Deferred!Ended
<1>16. CASE Deferred!Greet \/ Deferred!Page \/ Deferred!Returned
  BY <1>1, <1>16 DEF Deferred!Greet, Deferred!Done, Deferred!Page, Deferred!Ended, Deferred!Goto,
     Deferred!Returned
<1>17. CASE UNCHANGED Deferred!vars
  BY <1>1, <1>17 DEF Deferred!vars
<1> QED
  BY <1>1, <1>2, <1>3, <1>4, <1>5, <1>6, <1>7, <1>8, <1>9, <1>10, <1>11, <1>12, <1>13, <1>14, <1>15,
     <1>16, <1>17 DEF Deferred!Next

LEMMA DeferredPagesRest ==
  ASSUME DeferredAssumption, pages' = <<>>, deferredPc' \notin {"asks list", "adopts"},
         deferredPending'.what # "list"
  PROVE  DeferredPageTypes'
<1>1. pages' \in Seq(DeferredVersions) /\ Len(pages') = 0
  BY EmptySeq
<1>2. Len(pages') <= Pages
  <2>1. Pages \in Nat
    BY DEF DeferredAssumption
  <2>2. Len(pages') = 0
    BY <1>1
  <2> QED
    BY ONLY <2>1, <2>2
<1> QED
  BY <1>1, <1>2 DEF DeferredPageTypes

LEMMA DeferredPagesStay ==
  ASSUME DeferredPageTypes, pages' = pages, deferredPc' \notin {"asks list", "adopts"},
         deferredPending'.what # "list"
  PROVE  DeferredPageTypes'
BY DEF DeferredPageTypes

LEMMA DeferredNoneIsNoNote ==
  ASSUME DeferredAssumption PROVE Deferred!Quiet.what = None /\ None \notin {"init", "list", "call"}
BY DEF Deferred!Quiet, DeferredAssumption

LEMMA DeferredPageStep ==
  ASSUME DeferredAssumption, DeferredLinkTypes, DeferredMessageTypes, DeferredServeInv,
         DeferredPageTypes, [Deferred!Next]_(Deferred!vars)
  PROVE  DeferredPageTypes'
<1> USE DEF Deferred!input, Deferred!view, Deferred!link, Deferred!exchange, Deferred!serving,
       Deferred!down, Deferred!ghosts
<1>1. CASE UNCHANGED <<pages, deferredPc, deferredPending>>
  BY <1>1 DEF DeferredPageTypes
<1>2. CASE Deferred!Serve
  <2>1. pages' = pages /\ deferredPc' \notin {"asks list", "adopts"}
    BY <1>2 DEF Deferred!Serve, Deferred!Goto
  <2>2. deferredPending'.what # "list"
    BY <1>2, DeferredNoneIsNoNote DEF DeferredServeInv, DeferredExchanging, Deferred!Serve,
       Deferred!Goto, Deferred!Ended
  <2> QED
    BY <2>1, <2>2, DeferredPagesStay
<1>3. CASE Deferred!Refuse
  <2>1. pages' = <<>> /\ deferredPc' = "idle"
    BY <1>3 DEF Deferred!Refuse, Deferred!Done
  <2>2. deferredPending' = Deferred!Quiet
    BY <1>3 DEF DeferredServeInv, DeferredExchanging, Deferred!Refuse, Deferred!Ended
  <2> QED
    BY <2>1, <2>2, DeferredPagesRest, DeferredNoneIsNoNote
<1>4. CASE Deferred!Collapse
  <2>1. pages' = <<>> /\ deferredPc' = "idle"
    BY <1>4 DEF Deferred!Collapse, Deferred!Done
  <2>2. deferredPending' = Deferred!Quiet
    BY <1>4 DEF DeferredServeInv, DeferredExchanging, Deferred!Collapse, Deferred!Ended
  <2> QED
    BY <2>1, <2>2, DeferredPagesRest, DeferredNoneIsNoNote
<1>5. CASE Deferred!Connected
  <2>1. pages' = pages /\ deferredPc' \notin {"asks list", "adopts"}
    BY <1>5 DEF Deferred!Connected, Deferred!Goto
  <2>2. deferredPending'.what # "list"
    BY <1>5, DeferredNoneIsNoNote DEF DeferredServeInv, DeferredExchanging, Deferred!Connected,
       Deferred!Goto, Deferred!Ended
  <2> QED
    BY <2>1, <2>2, DeferredPagesStay
<1>6. CASE Deferred!Dial
  <2>1. pages' = pages /\ deferredPc' \notin {"asks list", "adopts"}
    BY <1>6 DEF Deferred!Dial, Deferred!Goto
  <2>2. deferredPending'.what # "list"
    BY <1>6, DeferredNoneIsNoNote DEF DeferredServeInv, DeferredExchanging, Deferred!Dial,
       Deferred!Goto, Deferred!Ended
  <2> QED
    BY <2>1, <2>2, DeferredPagesStay
<1>7. CASE Deferred!DialFails
  <2>1. pages' = <<>> /\ deferredPc' = "idle"
    BY <1>7 DEF Deferred!DialFails, Deferred!Done
  <2>2. deferredPending' = Deferred!Quiet
    BY <1>7 DEF DeferredServeInv, DeferredExchanging, Deferred!DialFails, Deferred!Ended
  <2> QED
    BY <2>1, <2>2, DeferredPagesRest, DeferredNoneIsNoNote
<1>8. CASE Deferred!Begin
  <2>1. CASE pages' = pages /\ deferredPc' \in {"abandons", "gives up"} /\ deferredPending' = deferredPending
    <3>1. deferredPending = Deferred!Quiet
      BY <1>8 DEF Deferred!Begin, DeferredServeInv, DeferredExchanging
    <3> QED
      BY <2>1, <3>1, DeferredPagesStay, DeferredNoneIsNoNote
  <2>2. CASE pages' = pages /\ deferredPc' = "sends"
          /\ deferredPending' = [of |-> deferredCur, what |-> Deferred!What]
    <3>1. Deferred!What = "list" => deferredPc = "asks list"
      BY <1>8 DEF Deferred!What, Deferred!Begin
    <3> HIDE DEF Deferred!What
    <3> QED
      BY <2>2, <3>1 DEF DeferredPageTypes
  <2> QED
    BY <1>8, <2>1, <2>2 DEF Deferred!Begin, Deferred!Goto
<1>9. CASE Deferred!Send
  BY <1>9 DEF DeferredPageTypes, Deferred!Send, Deferred!Goto
<1>10. CASE Deferred!TooLarge
  <2>1. pages' = pages /\ deferredPc' \notin {"asks list", "adopts"}
    BY <1>10 DEF Deferred!TooLarge, Deferred!Goto
  <2>2. deferredPending'.what # "list"
    BY <1>10, DeferredNoneIsNoNote DEF DeferredServeInv, DeferredExchanging, Deferred!TooLarge,
       Deferred!Goto, Deferred!Ended
  <2> QED
    BY <2>1, <2>2, DeferredPagesStay
<1>11. CASE Deferred!GivesUp
  BY <1>11 DEF DeferredPageTypes, Deferred!GivesUp, Deferred!FailPeer, Deferred!Goto
<1>12. CASE Deferred!Tidies
  BY <1>12 DEF DeferredPageTypes, Deferred!Tidies, Deferred!Goto, Deferred!Invalidate
<1>13. CASE Deferred!Failed
  <2>1. deferredPending' = Deferred!Quiet
    BY <1>13 DEF Deferred!Failed, Deferred!Ended
  <2>2. CASE Deferred!Done("unknown")
    <3>1. pages' = <<>> /\ deferredPc' = "idle"
      BY <2>2 DEF Deferred!Done
    <3> QED
      BY <2>1, <3>1, DeferredPagesRest, DeferredNoneIsNoNote
  <2>3. CASE pages' = pages /\ deferredPc' \in {"abandons", "gives up"}
    BY <2>1, <2>3, DeferredPagesStay, DeferredNoneIsNoNote
  <2> QED
    BY <1>13, <2>2, <2>3 DEF Deferred!Failed, Deferred!Goto
<1>14. CASE Deferred!GiveUp
  <2>1. pages' = <<>> /\ deferredPc' = "idle"
    BY <1>14 DEF Deferred!GiveUp, Deferred!Done
  <2>2. deferredPending' = Deferred!Quiet
    BY <1>14 DEF DeferredServeInv, DeferredExchanging, Deferred!GiveUp, Deferred!Ended
  <2> QED
    BY <2>1, <2>2, DeferredPagesRest, DeferredNoneIsNoNote
<1>15. CASE Deferred!Initialized
  <2>1. pages' = pages /\ deferredPc' \notin {"asks list", "adopts"}
    BY <1>15 DEF Deferred!Initialized, Deferred!Goto
  <2>2. deferredPending'.what # "list"
    BY <1>15, DeferredNoneIsNoNote DEF DeferredServeInv, DeferredExchanging, Deferred!Initialized,
       Deferred!Goto, Deferred!Ended
  <2> QED
    BY <2>1, <2>2, DeferredPagesStay
<1>16. CASE Deferred!ContractChanged
  <2>1. pages' = <<>> /\ deferredPc' = "idle"
    BY <1>16 DEF Deferred!ContractChanged, Deferred!Done
  <2>2. deferredPending' = Deferred!Quiet
    BY <1>16 DEF DeferredServeInv, DeferredExchanging, Deferred!ContractChanged, Deferred!Ended
  <2> QED
    BY <2>1, <2>2, DeferredPagesRest, DeferredNoneIsNoNote
<1>17. CASE Deferred!Greet
  <2>1. pages' = <<>> /\ deferredPc' = "idle"
    BY <1>17 DEF Deferred!Greet, Deferred!Done
  <2>2. deferredPending' = Deferred!Quiet
    BY <1>17 DEF DeferredServeInv, DeferredExchanging, Deferred!Greet, Deferred!Ended
  <2> QED
    BY <2>1, <2>2, DeferredPagesRest, DeferredNoneIsNoNote
<1>18. CASE Deferred!Look
  <2>1. pages' = <<>> /\ deferredPc' \in {"asks list", "asks call", "expands"}
    BY <1>18 DEF Deferred!Look
  <2>2. deferredPending' = Deferred!Quiet
    BY <1>18 DEF Deferred!Look, DeferredServeInv, DeferredExchanging
  <2>3. pages' \in Seq(DeferredVersions) /\ Len(pages') = 0
    BY <2>1, EmptySeq
  <2>4. Pages \in Nat /\ Pages # 0
    BY DEF DeferredAssumption
  <2>5. Len(pages') <= Pages /\ Len(pages') < Pages
    BY <2>3, <2>4
  <2> QED
    BY <2>1, <2>2, <2>3, <2>5, DeferredNoneIsNoNote DEF DeferredPageTypes
<1>19. CASE Deferred!Page
  <2>1. event[2] \in 0 .. MaxReal /\ peer \in 1 .. MaxPeers
    <3>1. event \in DeferredReports /\ deferredPc = "waits"
      BY <1>19 DEF Deferred!Page, Deferred!Ended, DeferredMessageTypes
    <3>2. event[2] \in 0 .. MaxReal
      BY <3>1 DEF DeferredReports
    <3>3. peer \in 0 .. MaxPeers /\ peer > 0 /\ MaxPeers \in Nat
      BY <3>1 DEF DeferredLinkTypes, DeferredServeInv, DeferredWorking, DeferredExchanging,
         DeferredAssumption
    <3> QED
      BY <3>2, <3>3
  <2>2. <<peer, event[2]>> \in DeferredVersions
    BY <2>1 DEF DeferredVersions
  <2>3. pages' = Append(pages, <<peer, event[2]>>) /\ Len(pages) < Pages /\ deferredPending' = Deferred!Quiet
    BY <1>19 DEF Deferred!Page, Deferred!Ended, DeferredPageTypes
  <2>4. pages' \in Seq(DeferredVersions) /\ Len(pages') = Len(pages) + 1 /\ Len(pages) \in Nat
    <3>1. pages \in Seq(DeferredVersions)
      BY DEF DeferredPageTypes
    <3> DEFINE page == <<peer, event[2]>>
    <3>2. page \in DeferredVersions /\ pages' = Append(pages, page)
      BY <2>2, <2>3
    <3> HIDE DEF page
    <3> QED
      BY <3>1, <3>2, BackGrows
  <2>5. deferredPc' = IF Len(pages') < Pages THEN "asks list" ELSE "adopts"
    BY <1>19 DEF Deferred!Page, Deferred!Goto
  <2>6. Len(pages') <= Pages /\ (~(Len(pages') < Pages) => Len(pages') = Pages)
    BY <2>3, <2>4 DEF DeferredAssumption
  <2> QED
    BY <2>3, <2>4, <2>5, <2>6, DeferredNoneIsNoNote DEF DeferredPageTypes
<1>20. CASE Deferred!Adopt
  <2>1. pages' = pages /\ deferredPc' \notin {"asks list", "adopts"}
    BY <1>20 DEF Deferred!Adopt, Deferred!Goto
  <2>2. deferredPending'.what # "list"
    BY <1>20, DeferredNoneIsNoNote DEF DeferredServeInv, DeferredExchanging, Deferred!Adopt,
       Deferred!Goto, Deferred!Ended
  <2> QED
    BY <2>1, <2>2, DeferredPagesStay
<1>21. CASE Deferred!Expand
  <2>1. pages' = <<>> /\ deferredPc' = "idle"
    BY <1>21 DEF Deferred!Expand, Deferred!Done
  <2>2. deferredPending' = Deferred!Quiet
    BY <1>21 DEF DeferredServeInv, DeferredExchanging, Deferred!Expand, Deferred!Ended
  <2> QED
    BY <2>1, <2>2, DeferredPagesRest, DeferredNoneIsNoNote
<1>22. CASE Deferred!Returned
  <2>1. pages' = <<>> /\ deferredPc' = "idle"
    BY <1>22 DEF Deferred!Returned, Deferred!Done
  <2>2. deferredPending' = Deferred!Quiet
    BY <1>22 DEF DeferredServeInv, DeferredExchanging, Deferred!Returned, Deferred!Ended
  <2> QED
    BY <2>1, <2>2, DeferredPagesRest, DeferredNoneIsNoNote
<1>23. ASSUME NEW r \in Deferred!Requests, Deferred!Ask(r) \/ Deferred!Cancel(r)
         PROVE UNCHANGED <<pages, deferredPc, deferredPending>>
  BY <1>23 DEF Deferred!Ask, Deferred!Cancel
<1>24. CASE Deferred!CancelPending \/ Deferred!Drop \/ Deferred!Tidy \/ Deferred!ReceiveChange
         \/ Deferred!ReceiveAnswer \/ Deferred!Answer
  BY <1>1, <1>24 DEF Deferred!Ask, Deferred!Cancel, Deferred!CancelPending, Deferred!Idle,
     Deferred!Drop, Deferred!FailPeer, Deferred!Tidy, Deferred!Invalidate, Deferred!ReceiveChange,
     Deferred!ReceiveAnswer, Deferred!Answer
<1>25. CASE Deferred!Change
  BY <1>1, <1>25 DEF Deferred!Change
<1>26. CASE UNCHANGED Deferred!vars
  BY <1>1, <1>26 DEF Deferred!vars
<1> QED
  BY <1>1, <1>2, <1>3, <1>4, <1>5, <1>6, <1>7, <1>8, <1>9, <1>10, <1>11, <1>12, <1>13, <1>14, <1>15,
     <1>16, <1>17, <1>18, <1>19, <1>20, <1>21, <1>22, <1>23, <1>24, <1>25, <1>26 DEF Deferred!Next

LEMMA DeferredMessageStep ==
  ASSUME DeferredAssumption, DeferredLinkTypes, DeferredMessageTypes, [Deferred!Next]_(Deferred!vars)
  PROVE  DeferredMessageTypes'
<1> USE DEF Deferred!input, Deferred!view, Deferred!link, Deferred!exchange, Deferred!serving,
       Deferred!down, Deferred!ghosts
<1>1. CASE UNCHANGED <<event, back, owed>>
  BY <1>1 DEF DeferredMessageTypes
<1>2. CASE Deferred!Drop
  BY <1>2, EmptySeq DEF DeferredMessageTypes, Deferred!Drop, Deferred!FailPeer
<1>3. CASE Deferred!ReceiveChange
  BY <1>3, BackShrinks DEF DeferredMessageTypes, Deferred!ReceiveChange, Deferred!Invalidate
<1>4. CASE Deferred!ReceiveAnswer
  BY <1>4, BackShrinks DEF DeferredMessageTypes, Deferred!ReceiveAnswer
<1>5. CASE Deferred!Answer
  <2>1. back' = Append(back, <<"answer", real>>) /\ owed' = FALSE /\ event' = event
    BY <1>5 DEF Deferred!Answer
  <2> DEFINE message == <<"answer", real>>
  <2>2. message \in DeferredReports \cup {Deferred!Changed}
    BY DEF DeferredLinkTypes, DeferredReports
  <2>3. back' = Append(back, message)
    BY <2>1
  <2> HIDE DEF message
  <2>4. back' \in Seq(DeferredReports \cup {Deferred!Changed})
    BY <2>2, <2>3, BackGrows DEF DeferredMessageTypes
  <2> QED
    BY <2>1, <2>4 DEF DeferredMessageTypes
<1>6. CASE Deferred!Change
  BY <1>6, BackGrows DEF DeferredMessageTypes, Deferred!Change
<1>7. CASE Deferred!Dial
  BY <1>7, EmptySeq DEF DeferredMessageTypes, Deferred!Dial, Deferred!Goto
<1>8. CASE Deferred!Begin
  BY <1>8, EmptySeq DEF DeferredMessageTypes, Deferred!Begin, Deferred!Goto
<1>9. CASE Deferred!Send
  BY <1>9, EmptySeq DEF DeferredMessageTypes, Deferred!Send, Deferred!Goto
<1>10. CASE Deferred!TooLarge
  BY <1>10, EmptySeq DEF DeferredMessageTypes, Deferred!TooLarge, Deferred!Goto
<1>11. CASE Deferred!GivesUp
  BY <1>11, EmptySeq DEF DeferredMessageTypes, Deferred!GivesUp, Deferred!FailPeer, Deferred!Goto
<1>12. CASE Deferred!Failed
  BY <1>12, EmptySeq DEF DeferredMessageTypes, Deferred!Failed, Deferred!Ended, Deferred!Done,
     Deferred!Goto
<1>13. CASE Deferred!Initialized
  BY <1>13, EmptySeq DEF DeferredMessageTypes, Deferred!Initialized, Deferred!Ended, Deferred!Goto,
     Deferred!Invalidate
<1>14. CASE Deferred!ContractChanged
  BY <1>14, EmptySeq DEF DeferredMessageTypes, Deferred!ContractChanged, Deferred!Ended, Deferred!Done,
     Deferred!Invalidate
<1>15. CASE Deferred!Page
  BY <1>15, EmptySeq DEF DeferredMessageTypes, Deferred!Page, Deferred!Ended, Deferred!Goto
<1>16. CASE Deferred!Returned
  BY <1>16, EmptySeq DEF DeferredMessageTypes, Deferred!Returned, Deferred!Ended, Deferred!Done
<1>17. ASSUME NEW r \in Deferred!Requests, Deferred!Ask(r) \/ Deferred!Cancel(r)
         PROVE UNCHANGED <<event, back, owed>>
  BY <1>17 DEF Deferred!Ask, Deferred!Cancel
<1>18. CASE Deferred!CancelPending \/ Deferred!Tidy \/ Deferred!Serve \/ Deferred!Refuse \/ Deferred!Collapse
         \/ Deferred!Connected
  BY <1>1, <1>18 DEF Deferred!Ask, Deferred!Cancel, Deferred!CancelPending, Deferred!Idle,
     Deferred!Tidy, Deferred!Invalidate, Deferred!Serve, Deferred!Refuse, Deferred!Done,
     Deferred!Collapse, Deferred!Connected, Deferred!Goto
<1>19. CASE Deferred!DialFails \/ Deferred!Tidies \/ Deferred!GiveUp \/ Deferred!Greet \/ Deferred!Look
         \/ Deferred!Adopt \/ Deferred!Expand
  BY <1>1, <1>19 DEF Deferred!DialFails, Deferred!Done, Deferred!Invalidate, Deferred!Tidies,
     Deferred!Goto, Deferred!GiveUp, Deferred!Greet, Deferred!Look, Deferred!Adopt, Deferred!Expand
<1>20. CASE UNCHANGED Deferred!vars
  BY <1>1, <1>20 DEF Deferred!vars
<1> QED
  BY <1>1, <1>2, <1>3, <1>4, <1>5, <1>6, <1>7, <1>8, <1>9, <1>10, <1>11, <1>12, <1>13, <1>14, <1>15,
     <1>16, <1>17, <1>18, <1>19, <1>20 DEF Deferred!Next

LEMMA DeferredAnswerStep ==
  ASSUME DeferredAssumption, DeferredLinkTypes, DeferredMessageTypes, DeferredServeInv,
         DeferredOneAnswer, [Deferred!Next]_(Deferred!vars)
  PROVE  DeferredOneAnswer'
<1> USE DEF Deferred!input, Deferred!view, Deferred!link, Deferred!exchange, Deferred!serving,
       Deferred!down, Deferred!ghosts
<1>1. CASE UNCHANGED <<deferredClosed, back, owed, deferredPc, event>>
  BY <1>1 DEF DeferredOneAnswer
<1>2. CASE Deferred!Drop
  <2>1. deferredClosed' /\ back' = <<>> /\ owed' = FALSE /\ deferredPc' = deferredPc
        /\ event' = IF deferredPending # Deferred!Quiet
             /\ event = Deferred!Unset THEN Deferred!Failure ELSE event
    BY <1>2 DEF Deferred!Drop, Deferred!FailPeer
  <2>2. DOMAIN back' = {}
    BY <2>1
  <2>3. event' \in DeferredReports => event \in DeferredReports
    BY <2>1, DeferredStrings
  <2> QED
    BY <2>1, <2>2, <2>3 DEF DeferredOneAnswer
<1>3. CASE Deferred!ReceiveChange
  <2>1. back # <<>> /\ Head(back) = Deferred!Changed /\ back' = Tail(back)
          /\ UNCHANGED <<deferredClosed, owed, deferredPc, event>> /\ ~deferredClosed
    BY <1>3 DEF Deferred!ReceiveChange
  <2>2. \A i \in DOMAIN back' : i \in Nat /\ i + 1 \in DOMAIN back /\ back'[i] = back[i + 1]
    BY <2>1, BackShrinks DEF DeferredMessageTypes
  <2>3. \A i, j \in DOMAIN back' : back'[i] # Deferred!Changed /\ back'[j] # Deferred!Changed => i = j
    <3> SUFFICES ASSUME NEW i \in DOMAIN back', NEW j \in DOMAIN back', back'[i] # Deferred!Changed,
          back'[j] # Deferred!Changed
                 PROVE  i = j
      OBVIOUS
    <3>1. i + 1 = j + 1
      BY <2>2 DEF DeferredOneAnswer
    <3> QED
      BY <2>2, <3>1
  <2>4. \A i \in DOMAIN back' : \E k \in DOMAIN back : back'[i] = back[k]
    BY <2>2
  <2> QED
    BY <2>1, <2>3, <2>4 DEF DeferredOneAnswer
<1>4. CASE Deferred!ReceiveAnswer
  <2>1. back # <<>> /\ Head(back) # Deferred!Changed /\ back' = Tail(back)
          /\ UNCHANGED <<deferredClosed, owed, deferredPc>> /\ ~deferredClosed
        /\ event' = Head(back)
    BY <1>4 DEF Deferred!ReceiveAnswer
  <2>2. \A i \in DOMAIN back' : i \in Nat /\ i + 1 # 1 /\ i + 1 \in DOMAIN back /\ back'[i] = back[i + 1]
    BY <2>1, BackShrinks DEF DeferredMessageTypes
  <2>3. 1 \in DOMAIN back /\ Head(back) = back[1] /\ Head(back) \in DeferredReports
    BY <2>1, BackShrinks DEF DeferredMessageTypes
  <2>4. \A i \in DOMAIN back' : back'[i] = Deferred!Changed
    BY <2>1, <2>2, <2>3 DEF DeferredOneAnswer
  <2>5. deferredPc = "waits" /\ ~owed
    BY <2>1, <2>3 DEF DeferredOneAnswer
  <2>6. event' # Deferred!Failure
    BY <2>1, <2>3, DeferredStrings
  <2> QED
    BY <2>1, <2>4, <2>5, <2>6 DEF DeferredOneAnswer, DeferredMessageTypes
<1>5. CASE Deferred!Answer
  BY <1>5, BackGrows, DeferredStrings DEF DeferredOneAnswer, Deferred!Answer, DeferredMessageTypes,
     DeferredServeInv, DeferredExchanging
<1>6. CASE Deferred!Change
  <2>1. UNCHANGED <<deferredClosed, owed, deferredPc, event>>
    BY <1>6 DEF Deferred!Change
  <2>2. CASE back' = back
    BY <1>1, <2>1, <2>2
  <2>3. CASE ~deferredClosed /\ back' = Append(back, Deferred!Changed)
    <3>1. /\ \A i \in DOMAIN back : back'[i] = back[i]
          /\ \A i \in DOMAIN back' : i \in DOMAIN back \/ back'[i] = Deferred!Changed
      <4>1. back \in Seq(DeferredReports \cup {Deferred!Changed})
              /\ Deferred!Changed \in DeferredReports \cup {Deferred!Changed}
        BY DEF DeferredMessageTypes
      <4> QED
        BY <4>1, <2>3, BackGrows
    <3> QED
      BY <2>1, <2>3, <3>1 DEF DeferredOneAnswer
  <2> QED
    BY <1>6, <2>2, <2>3 DEF Deferred!Change
<1>7. CASE Deferred!Serve
  BY <1>7, EmptySeq, DeferredStrings DEF DeferredOneAnswer, Deferred!Serve, DeferredMessageTypes,
     DeferredServeInv, DeferredExchanging
<1>8. CASE Deferred!Refuse
  BY <1>8, EmptySeq, DeferredStrings DEF DeferredOneAnswer, Deferred!Refuse, Deferred!Done,
     DeferredMessageTypes, DeferredServeInv, DeferredExchanging
<1>9. CASE Deferred!Collapse
  BY <1>9, EmptySeq, DeferredStrings DEF DeferredOneAnswer, Deferred!Collapse, Deferred!Done,
     DeferredMessageTypes, DeferredServeInv, DeferredExchanging
<1>10. CASE Deferred!Connected
  BY <1>10, EmptySeq, DeferredStrings DEF DeferredOneAnswer, Deferred!Connected, Deferred!Goto,
     DeferredMessageTypes, DeferredServeInv, DeferredExchanging
<1>11. CASE Deferred!Dial
  BY <1>11, EmptySeq, DeferredStrings DEF DeferredOneAnswer, Deferred!Dial, Deferred!Goto,
     DeferredMessageTypes, DeferredServeInv, DeferredExchanging
<1>12. CASE Deferred!DialFails
  BY <1>12, EmptySeq, DeferredStrings DEF DeferredOneAnswer, Deferred!DialFails, Deferred!Done,
     Deferred!Invalidate, DeferredMessageTypes, DeferredServeInv, DeferredExchanging
<1>13. CASE Deferred!Begin
  BY <1>13, EmptySeq, DeferredStrings DEF DeferredOneAnswer, Deferred!Begin, Deferred!Goto,
     DeferredMessageTypes, DeferredServeInv, DeferredExchanging
<1>14. CASE Deferred!Send
  BY <1>14, EmptySeq, DeferredStrings DEF DeferredOneAnswer, Deferred!Send, Deferred!Goto,
     DeferredMessageTypes, DeferredServeInv, DeferredExchanging
<1>15. CASE Deferred!TooLarge
  BY <1>15, EmptySeq, DeferredStrings DEF DeferredOneAnswer, Deferred!TooLarge, Deferred!Goto,
     DeferredMessageTypes, DeferredServeInv, DeferredExchanging
<1>16. CASE Deferred!GivesUp
  BY <1>16, EmptySeq, DeferredStrings DEF DeferredOneAnswer, Deferred!GivesUp, Deferred!FailPeer,
     Deferred!Goto, DeferredMessageTypes, DeferredServeInv, DeferredExchanging
<1>17. CASE Deferred!Tidies
  BY <1>17, EmptySeq, DeferredStrings DEF DeferredOneAnswer, Deferred!Tidies, Deferred!Goto,
     Deferred!Invalidate, DeferredMessageTypes, DeferredServeInv, DeferredExchanging
<1>18. CASE Deferred!Failed
  BY <1>18, EmptySeq, DeferredStrings DEF DeferredOneAnswer, Deferred!Failed, Deferred!Ended,
     Deferred!Done, Deferred!Goto, DeferredMessageTypes, DeferredServeInv, DeferredExchanging
<1>19. CASE Deferred!GiveUp
  BY <1>19, EmptySeq, DeferredStrings DEF DeferredOneAnswer, Deferred!GiveUp, Deferred!Done,
     Deferred!Invalidate, DeferredMessageTypes, DeferredServeInv, DeferredExchanging
<1>20. CASE Deferred!Initialized
  BY <1>20, EmptySeq, DeferredStrings DEF DeferredOneAnswer, Deferred!Initialized, Deferred!Ended,
     Deferred!Goto, Deferred!Invalidate, DeferredMessageTypes, DeferredServeInv, DeferredExchanging
<1>21. CASE Deferred!ContractChanged
  BY <1>21, EmptySeq, DeferredStrings DEF DeferredOneAnswer, Deferred!ContractChanged, Deferred!Ended,
     Deferred!Done, Deferred!Invalidate, DeferredMessageTypes, DeferredServeInv, DeferredExchanging
<1>22. CASE Deferred!Greet
  BY <1>22, EmptySeq, DeferredStrings DEF DeferredOneAnswer, Deferred!Greet, Deferred!Done,
     DeferredMessageTypes, DeferredServeInv, DeferredExchanging
<1>23. CASE Deferred!Look
  BY <1>23, EmptySeq, DeferredStrings DEF DeferredOneAnswer, Deferred!Look, DeferredMessageTypes,
     DeferredServeInv, DeferredExchanging
<1>24. CASE Deferred!Page
  BY <1>24, EmptySeq, DeferredStrings DEF DeferredOneAnswer, Deferred!Page, Deferred!Ended,
     Deferred!Goto, DeferredMessageTypes, DeferredServeInv, DeferredExchanging
<1>25. CASE Deferred!Adopt
  BY <1>25, EmptySeq, DeferredStrings DEF DeferredOneAnswer, Deferred!Adopt, Deferred!Goto,
     DeferredMessageTypes, DeferredServeInv, DeferredExchanging
<1>26. CASE Deferred!Expand
  BY <1>26, EmptySeq, DeferredStrings DEF DeferredOneAnswer, Deferred!Expand, Deferred!Done,
     DeferredMessageTypes, DeferredServeInv, DeferredExchanging
<1>27. CASE Deferred!Returned
  BY <1>27, EmptySeq, DeferredStrings DEF DeferredOneAnswer, Deferred!Returned, Deferred!Ended,
     Deferred!Done, DeferredMessageTypes, DeferredServeInv, DeferredExchanging
<1>28. ASSUME NEW r \in Deferred!Requests, Deferred!Ask(r) \/ Deferred!Cancel(r)
         PROVE UNCHANGED <<deferredClosed, back, owed, deferredPc,
     event>>
  BY <1>28 DEF Deferred!Ask, Deferred!Cancel
<1>29. CASE Deferred!CancelPending \/ Deferred!Tidy
  BY <1>1, <1>29 DEF Deferred!Ask, Deferred!Cancel, Deferred!CancelPending, Deferred!Idle,
     Deferred!Tidy, Deferred!Invalidate
<1>30. CASE UNCHANGED Deferred!vars
  BY <1>1, <1>30 DEF Deferred!vars
<1> QED
  BY <1>1, <1>2, <1>3, <1>4, <1>5, <1>6, <1>7, <1>8, <1>9, <1>10, <1>11, <1>12, <1>13, <1>14, <1>15,
     <1>16, <1>17, <1>18, <1>19, <1>20, <1>21, <1>22, <1>23, <1>24, <1>25, <1>26, <1>27, <1>28, <1>29,
     <1>30 DEF Deferred!Next

LEMMA DeferredGhostStep ==
  ASSUME DeferredAssumption, DeferredServeInv, DeferredGhostTypes, [Deferred!Next]_(Deferred!vars)
  PROVE  DeferredGhostTypes'
<1> USE DEF Deferred!input, Deferred!view, Deferred!link, Deferred!exchange, Deferred!serving,
       Deferred!down, Deferred!ghosts
<1>1. CASE UNCHANGED <<deferredSent, deferredReply>>
  BY <1>1 DEF DeferredGhostTypes
<1>2. CASE Deferred!Refuse
  BY <1>2 DEF DeferredGhostTypes, Deferred!Refuse, Deferred!Done, DeferredServeInv
<1>3. CASE Deferred!Collapse
  BY <1>3 DEF DeferredGhostTypes, Deferred!Collapse, Deferred!Done, DeferredServeInv
<1>4. CASE Deferred!DialFails
  BY <1>4 DEF DeferredGhostTypes, Deferred!DialFails, Deferred!Done, Deferred!Invalidate,
     DeferredServeInv
<1>5. CASE Deferred!Send
  BY <1>5 DEF DeferredGhostTypes, Deferred!Send, Deferred!Goto, DeferredServeInv
<1>6. CASE Deferred!Failed
  BY <1>6 DEF DeferredGhostTypes, Deferred!Failed, Deferred!Ended, Deferred!Done, Deferred!Goto,
     DeferredServeInv
<1>7. CASE Deferred!GiveUp
  BY <1>7 DEF DeferredGhostTypes, Deferred!GiveUp, Deferred!Done, Deferred!Invalidate, DeferredServeInv
<1>8. CASE Deferred!ContractChanged
  BY <1>8 DEF DeferredGhostTypes, Deferred!ContractChanged, Deferred!Ended, Deferred!Done,
     Deferred!Invalidate, DeferredServeInv
<1>9. CASE Deferred!Greet
  BY <1>9 DEF DeferredGhostTypes, Deferred!Greet, Deferred!Done, DeferredServeInv
<1>10. CASE Deferred!Expand
  BY <1>10 DEF DeferredGhostTypes, Deferred!Expand, Deferred!Done, DeferredServeInv
<1>11. CASE Deferred!Returned
  BY <1>11 DEF DeferredGhostTypes, Deferred!Returned, Deferred!Ended, Deferred!Done, DeferredServeInv
<1>12. ASSUME NEW r \in Deferred!Requests, Deferred!Ask(r) \/ Deferred!Cancel(r)
         PROVE UNCHANGED <<deferredSent, deferredReply>>
  BY <1>12 DEF Deferred!Ask, Deferred!Cancel
<1>13. CASE Deferred!CancelPending \/ Deferred!Drop \/ Deferred!Tidy \/ Deferred!ReceiveChange
         \/ Deferred!ReceiveAnswer \/ Deferred!Answer
  BY <1>1, <1>13 DEF Deferred!Ask, Deferred!Cancel, Deferred!CancelPending, Deferred!Idle,
     Deferred!Drop, Deferred!FailPeer, Deferred!Tidy, Deferred!Invalidate, Deferred!ReceiveChange,
     Deferred!ReceiveAnswer, Deferred!Answer
<1>14. CASE Deferred!Change \/ Deferred!Serve \/ Deferred!Connected \/ Deferred!Dial \/ Deferred!Begin
         \/ Deferred!TooLarge \/ Deferred!GivesUp \/ Deferred!Tidies
  BY <1>1, <1>14 DEF Deferred!Change, Deferred!Serve, Deferred!Connected, Deferred!Goto, Deferred!Dial,
     Deferred!Begin, Deferred!TooLarge, Deferred!GivesUp, Deferred!FailPeer, Deferred!Tidies,
     Deferred!Invalidate
<1>15. CASE Deferred!Initialized \/ Deferred!Look \/ Deferred!Page \/ Deferred!Adopt
  BY <1>1, <1>15 DEF Deferred!Initialized, Deferred!Ended, Deferred!Goto, Deferred!Invalidate,
     Deferred!Look, Deferred!Page, Deferred!Adopt
<1>16. CASE UNCHANGED Deferred!vars
  BY <1>1, <1>16 DEF Deferred!vars
<1> QED
  BY <1>1, <1>2, <1>3, <1>4, <1>5, <1>6, <1>7, <1>8, <1>9, <1>10, <1>11, <1>12, <1>13, <1>14, <1>15,
     <1>16 DEF Deferred!Next

LEMMA DeferredFlowStep ==
  ASSUME DeferredAssumption, DeferredFlowInv, [Deferred!Next]_(Deferred!vars) PROVE DeferredFlowInv'
BY DeferredInputStep, DeferredLinkStep, DeferredServeStep, DeferredViewStep, DeferredPageStep,
   DeferredMessageStep, DeferredAnswerStep, DeferredGhostStep DEF DeferredFlowInv

\* The request that was served is answered.
LEMMA DeferredAnswersCur ==
  ASSUME DeferredAssumption, DeferredInputTypes, DeferredGhostTypes, DeferredSentInv,
         Deferred!SafeMeansUnsent, deferredCur \in Deferred!Requests,
         NEW why \in {"ok", "safe", "unknown"}, why = "safe" => deferredCur \notin deferredSent,
         UNCHANGED <<asked, deferredInbound, deferredSent>>, deferredCur' = None,
         deferredReply' = [deferredReply EXCEPT ![deferredCur] = why]
  PROVE  DeferredSentInv' /\ Deferred!SafeMeansUnsent'
<1>1. /\ None \notin Deferred!Requests /\ deferredCur' \notin deferredSent' /\ deferredReply'[deferredCur] = why
      /\ \A r \in Deferred!Requests \ {deferredCur} : deferredReply'[r] = deferredReply[r]
  BY DEF DeferredAssumption, DeferredGhostTypes, Deferred!Requests
<1>2. \A i \in DOMAIN deferredInbound : deferredInbound[i] \in Deferred!Requests
        /\ deferredInbound[i] # deferredCur
  BY DEF DeferredInputTypes, DeferredSentInv
<1>3. DeferredSentInv'
  BY <1>1, <1>2 DEF DeferredSentInv
<1>4. DeferredCalls \subseteq Deferred!Requests
  BY DEF Deferred!Requests
<1>5. Deferred!SafeMeansUnsent'
  BY <1>1, <1>4 DEF Deferred!SafeMeansUnsent
<1> QED
  BY <1>3, <1>5

\* The thread goes on with its request, which it has not sent.
LEMMA DeferredGoesOn ==
  ASSUME DeferredSentInv, Deferred!SafeMeansUnsent,
         UNCHANGED <<asked, deferredInbound, deferredSent, deferredCur, deferredReply>>,
         deferredCur \in deferredSent => deferredPending'.what = "call" /\ deferredPc' \in {"waits", "tidies"}
  PROVE  DeferredSentInv' /\ Deferred!SafeMeansUnsent'
BY DEF DeferredSentInv, Deferred!SafeMeansUnsent

LEMMA DeferredSentStep ==
  ASSUME DeferredAssumption, DeferredInputTypes, DeferredServeInv, DeferredGhostTypes, DeferredSentInv,
         Deferred!SafeMeansUnsent, [Deferred!Next]_(Deferred!vars)
  PROVE  (DeferredSentInv /\ Deferred!SafeMeansUnsent)'
<1> USE DEF Deferred!input, Deferred!view, Deferred!link, Deferred!exchange, Deferred!serving,
       Deferred!down, Deferred!ghosts
<1>1. CASE UNCHANGED <<asked, deferredInbound, deferredSent, deferredCur, deferredReply, deferredPending,
        deferredPc>>
  BY <1>1 DEF DeferredSentInv, Deferred!SafeMeansUnsent
<1>2. ASSUME NEW r \in Deferred!Requests, Deferred!Ask(r) PROVE (DeferredSentInv /\ Deferred!SafeMeansUnsent)'
  <2>1. deferredInbound' = Append(deferredInbound, r) /\ r \notin asked /\ asked' = asked \cup {r}
        /\ UNCHANGED <<deferredCur, deferredReply, deferredSent, deferredPending, deferredPc>>
    BY <1>2 DEF Deferred!Ask
  <2>2. /\ \A i \in DOMAIN deferredInbound : deferredInbound[i] \in asked
        /\ \A i \in DOMAIN deferredInbound' :
             deferredInbound'[i] = IF i \in DOMAIN deferredInbound THEN deferredInbound[i] ELSE r
        /\ \A i, j \in DOMAIN deferredInbound' : i \notin DOMAIN deferredInbound
             /\ j \notin DOMAIN deferredInbound => i = j
    BY <2>1, BackGrows DEF DeferredInputTypes
  <2>3. r # deferredCur /\ deferredReply[r] = None /\ r \notin deferredSent
    BY <2>1 DEF DeferredSentInv
  <2> QED
    BY <2>1, <2>2, <2>3 DEF DeferredSentInv, Deferred!SafeMeansUnsent
<1>3. CASE Deferred!Serve
  <2>1. deferredInbound # <<>> /\ deferredInbound' = Tail(deferredInbound)
          /\ deferredCur' = Head(deferredInbound) /\ UNCHANGED <<asked,
     deferredReply, deferredSent>>
    BY <1>3 DEF Deferred!Serve
  <2>2. /\ \A i \in DOMAIN deferredInbound' : i + 1 # 1 /\ i + 1 \in DOMAIN deferredInbound
             /\ deferredInbound'[i] = deferredInbound[i + 1] /\ i \in Nat
        /\ 1 \in DOMAIN deferredInbound /\ Head(deferredInbound) = deferredInbound[1]
    BY <2>1, BackShrinks DEF DeferredInputTypes
  <2>3. \A i, j \in DOMAIN deferredInbound' : deferredInbound'[i] = deferredInbound'[j] => i = j
    <3> SUFFICES ASSUME NEW i \in DOMAIN deferredInbound', NEW j \in DOMAIN deferredInbound',
     deferredInbound'[i] = deferredInbound'[j]
                     PROVE  i = j
      OBVIOUS
    <3>1. i + 1 = j + 1
      BY <2>2 DEF DeferredSentInv
    <3> QED
      BY <2>2, <3>1
  <2>4. \A i \in DOMAIN deferredInbound' : deferredInbound'[i] # deferredCur'
          /\ deferredReply[deferredInbound'[i]] = None /\ deferredInbound'[i] \notin deferredSent
    BY <2>1, <2>2 DEF DeferredSentInv
  <2>5. deferredCur' \in asked /\ deferredCur' \notin deferredSent /\ deferredReply[deferredCur'] = None
    BY <2>1, <2>2 DEF DeferredSentInv, DeferredInputTypes
  <2> QED
    BY <2>1, <2>3, <2>4, <2>5 DEF DeferredSentInv, Deferred!SafeMeansUnsent
<1>4. CASE Deferred!Refuse
  <2>1. UNCHANGED <<asked, deferredInbound, deferredSent>> /\ deferredCur' = None
    BY <1>4 DEF Deferred!Refuse, Deferred!Done
  <2>2. deferredCur \in Deferred!Requests
    BY <1>4 DEF Deferred!Refuse, Deferred!Ended, DeferredServeInv
  <2>3. PICK why \in {"safe"} : deferredReply' = [deferredReply EXCEPT ![deferredCur] = why]
    BY <1>4 DEF Deferred!Refuse, Deferred!Done
  <2>4. why = "safe" => deferredCur \notin deferredSent
    BY <1>4 DEF Deferred!Refuse, DeferredSentInv
  <2> QED
    BY <2>1, <2>2, <2>3, <2>4, DeferredAnswersCur
<1>5. CASE Deferred!Collapse
  <2>1. UNCHANGED <<asked, deferredInbound, deferredSent>> /\ deferredCur' = None
    BY <1>5 DEF Deferred!Collapse, Deferred!Done
  <2>2. deferredCur \in Deferred!Requests
    BY <1>5 DEF Deferred!Collapse, Deferred!Ended, DeferredServeInv
  <2>3. PICK why \in {"ok"} : deferredReply' = [deferredReply EXCEPT ![deferredCur] = why]
    BY <1>5 DEF Deferred!Collapse, Deferred!Done
  <2>4. why = "safe" => deferredCur \notin deferredSent
    BY <1>5 DEF Deferred!Collapse, DeferredSentInv
  <2> QED
    BY <2>1, <2>2, <2>3, <2>4, DeferredAnswersCur
<1>6. CASE Deferred!DialFails
  <2>1. UNCHANGED <<asked, deferredInbound, deferredSent>> /\ deferredCur' = None
    BY <1>6 DEF Deferred!DialFails, Deferred!Done
  <2>2. deferredCur \in Deferred!Requests
    BY <1>6 DEF Deferred!DialFails, Deferred!Ended, DeferredServeInv
  <2>3. PICK why \in {"safe"} : deferredReply' = [deferredReply EXCEPT ![deferredCur] = why]
    BY <1>6 DEF Deferred!DialFails, Deferred!Done
  <2>4. why = "safe" => deferredCur \notin deferredSent
    BY <1>6 DEF Deferred!DialFails, DeferredSentInv
  <2> QED
    BY <2>1, <2>2, <2>3, <2>4, DeferredAnswersCur
<1>7. CASE Deferred!GiveUp
  <2>1. UNCHANGED <<asked, deferredInbound, deferredSent>> /\ deferredCur' = None
    BY <1>7 DEF Deferred!GiveUp, Deferred!Done
  <2>2. deferredCur \in Deferred!Requests
    BY <1>7 DEF Deferred!GiveUp, Deferred!Ended, DeferredServeInv
  <2>3. PICK why \in {"safe"} : deferredReply' = [deferredReply EXCEPT ![deferredCur] = why]
    BY <1>7 DEF Deferred!GiveUp, Deferred!Done
  <2>4. why = "safe" => deferredCur \notin deferredSent
    BY <1>7 DEF Deferred!GiveUp, DeferredSentInv
  <2> QED
    BY <2>1, <2>2, <2>3, <2>4, DeferredAnswersCur
<1>8. CASE Deferred!ContractChanged
  <2>1. UNCHANGED <<asked, deferredInbound, deferredSent>> /\ deferredCur' = None
    BY <1>8 DEF Deferred!ContractChanged, Deferred!Done
  <2>2. deferredCur \in Deferred!Requests
    BY <1>8 DEF Deferred!ContractChanged, Deferred!Ended, DeferredServeInv
  <2>3. PICK why \in {"safe"} : deferredReply' = [deferredReply EXCEPT ![deferredCur] = why]
    BY <1>8 DEF Deferred!ContractChanged, Deferred!Done
  <2>4. why = "safe" => deferredCur \notin deferredSent
    BY <1>8 DEF Deferred!ContractChanged, DeferredSentInv, Deferred!Ended
  <2> QED
    BY <2>1, <2>2, <2>3, <2>4, DeferredAnswersCur
<1>9. CASE Deferred!Greet
  <2>1. UNCHANGED <<asked, deferredInbound, deferredSent>> /\ deferredCur' = None
    BY <1>9 DEF Deferred!Greet, Deferred!Done
  <2>2. deferredCur \in Deferred!Requests
    BY <1>9 DEF Deferred!Greet, Deferred!Ended, DeferredServeInv
  <2>3. PICK why \in {"ok"} : deferredReply' = [deferredReply EXCEPT ![deferredCur] = why]
    BY <1>9 DEF Deferred!Greet, Deferred!Done
  <2>4. why = "safe" => deferredCur \notin deferredSent
    BY <1>9 DEF Deferred!Greet, DeferredSentInv
  <2> QED
    BY <2>1, <2>2, <2>3, <2>4, DeferredAnswersCur
<1>10. CASE Deferred!Expand
  <2>1. UNCHANGED <<asked, deferredInbound, deferredSent>> /\ deferredCur' = None
    BY <1>10 DEF Deferred!Expand, Deferred!Done
  <2>2. deferredCur \in Deferred!Requests
    BY <1>10 DEF Deferred!Expand, Deferred!Ended, DeferredServeInv
  <2>3. PICK why \in {"ok", "safe"} : deferredReply' = [deferredReply EXCEPT ![deferredCur] = why]
    BY <1>10 DEF Deferred!Expand, Deferred!Done
  <2>4. why = "safe" => deferredCur \notin deferredSent
    BY <1>10 DEF Deferred!Expand, DeferredSentInv
  <2> QED
    BY <2>1, <2>2, <2>3, <2>4, DeferredAnswersCur
<1>11. CASE Deferred!Returned
  <2>1. UNCHANGED <<asked, deferredInbound, deferredSent>> /\ deferredCur' = None
    BY <1>11 DEF Deferred!Returned, Deferred!Done
  <2>2. deferredCur \in Deferred!Requests
    BY <1>11 DEF Deferred!Returned, Deferred!Ended, DeferredServeInv
  <2>3. PICK why \in {"ok"} : deferredReply' = [deferredReply EXCEPT ![deferredCur] = why]
    BY <1>11 DEF Deferred!Returned, Deferred!Done
  <2>4. why = "safe" => deferredCur \notin deferredSent
    BY <1>11 DEF Deferred!Returned, DeferredSentInv
  <2> QED
    BY <2>1, <2>2, <2>3, <2>4, DeferredAnswersCur
<1>12. CASE Deferred!Connected
  <2>1. UNCHANGED <<asked, deferredInbound, deferredSent, deferredCur, deferredReply>>
    BY <1>12 DEF Deferred!Connected, Deferred!Goto
  <2>2. deferredCur \notin deferredSent
    BY <1>12 DEF Deferred!Connected, DeferredSentInv, Deferred!Ended
  <2> QED
    BY <2>1, <2>2, DeferredGoesOn, Zenon
<1>13. CASE Deferred!Dial
  <2>1. UNCHANGED <<asked, deferredInbound, deferredSent, deferredCur, deferredReply>>
    BY <1>13 DEF Deferred!Dial, Deferred!Goto
  <2>2. deferredCur \notin deferredSent
    BY <1>13 DEF Deferred!Dial, DeferredSentInv, Deferred!Ended
  <2> QED
    BY <2>1, <2>2, DeferredGoesOn, Zenon
<1>14. CASE Deferred!Begin
  <2>1. UNCHANGED <<asked, deferredInbound, deferredSent, deferredCur, deferredReply>>
    BY <1>14 DEF Deferred!Begin, Deferred!Goto
  <2>2. deferredCur \notin deferredSent
    BY <1>14 DEF Deferred!Begin, DeferredSentInv, Deferred!Ended
  <2> QED
    BY <2>1, <2>2, DeferredGoesOn, Zenon
<1>15. CASE Deferred!TooLarge
  <2>1. UNCHANGED <<asked, deferredInbound, deferredSent, deferredCur, deferredReply>>
    BY <1>15 DEF Deferred!TooLarge, Deferred!Goto
  <2>2. deferredCur \notin deferredSent
    BY <1>15 DEF Deferred!TooLarge, DeferredSentInv, Deferred!Ended
  <2> QED
    BY <2>1, <2>2, DeferredGoesOn, Zenon
<1>16. CASE Deferred!Initialized
  <2>1. UNCHANGED <<asked, deferredInbound, deferredSent, deferredCur, deferredReply>>
    BY <1>16 DEF Deferred!Initialized, Deferred!Goto
  <2>2. deferredCur \notin deferredSent
    BY <1>16 DEF Deferred!Initialized, DeferredSentInv, Deferred!Ended
  <2> QED
    BY <2>1, <2>2, DeferredGoesOn, Zenon
<1>17. CASE Deferred!Look
  <2>1. UNCHANGED <<asked, deferredInbound, deferredSent, deferredCur, deferredReply>>
    BY <1>17 DEF Deferred!Look, Deferred!Goto
  <2>2. deferredCur \notin deferredSent
    BY <1>17 DEF Deferred!Look, DeferredSentInv, Deferred!Ended
  <2> QED
    BY <2>1, <2>2, DeferredGoesOn, Zenon
<1>18. CASE Deferred!Page
  <2>1. UNCHANGED <<asked, deferredInbound, deferredSent, deferredCur, deferredReply>>
    BY <1>18 DEF Deferred!Page, Deferred!Goto
  <2>2. deferredCur \notin deferredSent
    BY <1>18 DEF Deferred!Page, DeferredSentInv, Deferred!Ended
  <2> QED
    BY <2>1, <2>2, DeferredGoesOn, Zenon
<1>19. CASE Deferred!Adopt
  <2>1. UNCHANGED <<asked, deferredInbound, deferredSent, deferredCur, deferredReply>>
    BY <1>19 DEF Deferred!Adopt, Deferred!Goto
  <2>2. deferredCur \notin deferredSent
    BY <1>19 DEF Deferred!Adopt, DeferredSentInv, Deferred!Ended
  <2> QED
    BY <2>1, <2>2, DeferredGoesOn, Zenon
<1>20. CASE Deferred!GivesUp
  <2>1. UNCHANGED <<asked, deferredInbound, deferredSent, deferredCur, deferredReply, deferredPending>>
          /\ deferredPc' = "tidies"
    BY <1>20 DEF Deferred!GivesUp, Deferred!Goto
  <2>2. deferredCur \notin deferredSent \/ deferredPending'.what = "call"
    BY <2>1 DEF DeferredSentInv
  <2> QED
    BY <2>1, <2>2, DeferredGoesOn
<1>21. CASE Deferred!Tidies
  <2>1. UNCHANGED <<asked, deferredInbound, deferredSent, deferredCur, deferredReply, deferredPending>>
          /\ deferredPc' = "waits"
    BY <1>21 DEF Deferred!Tidies, Deferred!Goto
  <2>2. deferredCur \notin deferredSent \/ deferredPending'.what = "call"
    BY <2>1 DEF DeferredSentInv
  <2> QED
    BY <2>1, <2>2, DeferredGoesOn
<1>22. CASE Deferred!Send
  <2>1. UNCHANGED <<asked, deferredInbound, deferredCur, deferredReply, deferredPending>>
          /\ deferredPc = "sends" /\ deferredPc' = "waits"
    BY <1>22 DEF Deferred!Send, Deferred!Goto
  <2>2. CASE deferredSent' = deferredSent
    <3>1. deferredCur \notin deferredSent
      BY <2>1 DEF DeferredSentInv
    <3> QED
      BY <2>1, <2>2, <3>1, DeferredGoesOn
  <2>3. CASE deferredPending.what = "call" /\ deferredSent' = deferredSent \cup {deferredCur}
    <3>1. deferredCur \in Deferred!Requests /\ deferredCur \in asked /\ deferredCur # None
      BY <2>1 DEF DeferredServeInv, DeferredSentInv
    <3>2. deferredReply[deferredCur] = None /\ None # "safe"
            /\ \A i \in DOMAIN deferredInbound : deferredInbound[i] # deferredCur
      BY <3>1 DEF DeferredSentInv, DeferredAssumption
    <3> QED
      BY <2>1, <2>3, <3>1, <3>2 DEF DeferredSentInv, Deferred!SafeMeansUnsent
  <2> QED
    BY <1>22, <2>2, <2>3 DEF Deferred!Send
<1>23. CASE Deferred!Failed
  <2>1. CASE deferredPending.what = "call"
    <3>1. UNCHANGED <<asked, deferredInbound,
     deferredSent>> /\ deferredCur' = None /\ deferredReply' = [deferredReply EXCEPT ![deferredCur] = "unknown"]
      BY <1>23, <2>1 DEF Deferred!Failed, Deferred!Done
    <3>2. deferredCur \in Deferred!Requests
      BY <1>23 DEF Deferred!Failed, Deferred!Ended, DeferredServeInv
    <3> QED
      BY <3>1, <3>2, DeferredAnswersCur
  <2>2. CASE deferredPending.what # "call"
    <3>1. UNCHANGED <<asked, deferredInbound, deferredSent, deferredCur, deferredReply>>
      BY <1>23, <2>2 DEF Deferred!Failed, Deferred!Goto
    <3>2. deferredCur \notin deferredSent
      BY <2>2 DEF DeferredSentInv
    <3> QED
      BY <3>1, <3>2, DeferredGoesOn, Zenon
  <2> QED
    BY <2>1, <2>2
<1>24. ASSUME NEW r \in Deferred!Requests, Deferred!Cancel(r)
         PROVE UNCHANGED <<asked, deferredInbound, deferredSent, deferredCur, deferredReply,
     deferredPending, deferredPc>>
  BY <1>24 DEF Deferred!Cancel
<1>25. CASE Deferred!CancelPending \/ Deferred!Drop \/ Deferred!Tidy \/ Deferred!ReceiveChange
         \/ Deferred!ReceiveAnswer \/ Deferred!Answer \/ Deferred!Change
  BY <1>1, <1>25 DEF Deferred!Cancel, Deferred!CancelPending, Deferred!Idle, Deferred!Drop,
     Deferred!FailPeer, Deferred!Tidy, Deferred!Invalidate, Deferred!ReceiveChange,
     Deferred!ReceiveAnswer, Deferred!Answer, Deferred!Change
<1>26. CASE UNCHANGED Deferred!vars
  BY <1>1, <1>26 DEF Deferred!vars
<1> QED
  BY <1>1, <1>2, <1>3, <1>4, <1>5, <1>6, <1>7, <1>8, <1>9, <1>10, <1>11, <1>12, <1>13, <1>14, <1>15,
     <1>16, <1>17, <1>18, <1>19, <1>20, <1>21, <1>22, <1>23, <1>24, <1>25, <1>26 DEF Deferred!Next

\* While the connection stands a notice stays until it is read, and a change gives one.
DeferredHeld == ~deferredClosed' => ~deferredClosed /\ (DeferredNoticed' \/ (real' = real /\ ~DeferredNoticed))
\* The epoch only grows.
DeferredGrown == seen' = seen /\ (seen' = epoch' => seen = epoch)

LEMMA DeferredHeldStep ==
  ASSUME DeferredAssumption, DeferredLinkTypes, DeferredMessageTypes, DeferredOneAnswer,
         ~Deferred!Dial, ~Deferred!ReceiveChange, [Deferred!Next]_(Deferred!vars)
  PROVE  DeferredHeld
<1> USE DEF Deferred!input, Deferred!view, Deferred!link, Deferred!exchange, Deferred!serving,
       Deferred!down, Deferred!ghosts
<1>1. CASE UNCHANGED <<deferredClosed, back, real>>
  BY <1>1 DEF DeferredHeld, DeferredNoticed
<1>2. CASE Deferred!Change
  <2>1. CASE deferredClosed
    BY <1>2, <2>1 DEF Deferred!Change, DeferredHeld
  <2>2. CASE ~deferredClosed
    <3>1. back \in Seq(DeferredReports \cup {Deferred!Changed})
            /\ Deferred!Changed \in DeferredReports \cup {Deferred!Changed}
      BY DEF DeferredMessageTypes
    <3>2. back' = Append(back, Deferred!Changed)
      BY <1>2, <2>2 DEF Deferred!Change
    <3>3. Len(back) + 1 \in DOMAIN back' /\ back'[Len(back) + 1] = Deferred!Changed
      BY <3>1, <3>2, BackGrows
    <3> QED
      BY <2>2, <3>3 DEF DeferredHeld, DeferredNoticed
  <2> QED
    BY <2>1, <2>2
<1>3. CASE Deferred!Answer
  <2>1. real' = real /\ ~deferredClosed
    BY <1>3 DEF Deferred!Answer
  <2> DEFINE message == <<"answer", real>>
  <2>2. message \in DeferredReports \cup {Deferred!Changed} /\ message # Deferred!Changed
    BY DEF DeferredLinkTypes, DeferredReports, Deferred!Changed
  <2>3. back' = Append(back, message)
    BY <1>3 DEF Deferred!Answer
  <2> HIDE DEF message
  <2>4. \A i \in DOMAIN back : i \in DOMAIN back' /\ back'[i] = back[i]
    BY <2>2, <2>3, BackGrows DEF DeferredMessageTypes
  <2>5. DeferredNoticed => DeferredNoticed'
    BY <2>4 DEF DeferredNoticed
  <2> QED
    BY <2>1, <2>5 DEF DeferredHeld
<1>4. CASE Deferred!ReceiveAnswer
  <2>1. real' = real /\ ~deferredClosed /\ back # <<>> /\ back' = Tail(back) /\ Head(back) # Deferred!Changed
    BY <1>4 DEF Deferred!ReceiveAnswer
  <2>2. /\ \A i \in DOMAIN back : i # 1 => i - 1 \in DOMAIN back' /\ back'[i - 1] = back[i]
        /\ Head(back) = back[1]
    BY <2>1, BackShrinks DEF DeferredMessageTypes
  <2>3. DeferredNoticed => DeferredNoticed'
    BY <2>1, <2>2 DEF DeferredNoticed
  <2> QED
    BY <2>1, <2>3 DEF DeferredHeld
<1>5. CASE Deferred!Dial
  BY <1>5
<1>6. CASE Deferred!ReceiveChange
  BY <1>6
<1>7. CASE Deferred!Drop
  BY <1>7 DEF DeferredHeld, DeferredNoticed, Deferred!Drop, Deferred!FailPeer
<1>8. CASE Deferred!GivesUp
  BY <1>8 DEF DeferredHeld, DeferredNoticed, Deferred!GivesUp, Deferred!FailPeer, Deferred!Goto
<1>9. CASE Deferred!ContractChanged
  BY <1>9 DEF DeferredHeld, DeferredNoticed, Deferred!ContractChanged, Deferred!Ended, Deferred!Done,
     Deferred!Invalidate
<1>10. CASE Deferred!Send
  BY <1>10 DEF DeferredHeld, DeferredNoticed, Deferred!Send, Deferred!Goto
<1>11. ASSUME NEW r \in Deferred!Requests, Deferred!Ask(r) \/ Deferred!Cancel(r)
         PROVE UNCHANGED <<deferredClosed, back, real>>
  BY <1>11 DEF Deferred!Ask, Deferred!Cancel
<1>12. CASE Deferred!CancelPending \/ Deferred!Tidy \/ Deferred!Serve \/ Deferred!Refuse \/ Deferred!Collapse
         \/ Deferred!Connected
  BY <1>1, <1>12 DEF Deferred!Ask, Deferred!Cancel, Deferred!CancelPending, Deferred!Idle,
     Deferred!Tidy, Deferred!Invalidate, Deferred!Serve, Deferred!Refuse, Deferred!Done,
     Deferred!Collapse, Deferred!Connected, Deferred!Goto
<1>13. CASE Deferred!DialFails \/ Deferred!Begin \/ Deferred!TooLarge \/ Deferred!Tidies \/ Deferred!Failed
         \/ Deferred!GiveUp \/ Deferred!Initialized \/ Deferred!Greet
  BY <1>1, <1>13 DEF Deferred!DialFails, Deferred!Done, Deferred!Invalidate, Deferred!Begin,
     Deferred!Goto, Deferred!TooLarge, Deferred!Tidies, Deferred!Failed, Deferred!Ended,
     Deferred!GiveUp, Deferred!Initialized, Deferred!Greet
<1>14. CASE Deferred!Look \/ Deferred!Page \/ Deferred!Adopt \/ Deferred!Expand \/ Deferred!Returned
  BY <1>1, <1>14 DEF Deferred!Look, Deferred!Page, Deferred!Ended, Deferred!Goto, Deferred!Adopt,
     Deferred!Expand, Deferred!Done, Deferred!Returned
<1>15. CASE UNCHANGED Deferred!vars
  BY <1>1, <1>15 DEF Deferred!vars
<1> QED
  BY <1>1, <1>2, <1>3, <1>4, <1>5, <1>6, <1>7, <1>8, <1>9, <1>10, <1>11, <1>12, <1>13, <1>14,
     <1>15 DEF Deferred!Next

LEMMA DeferredGrownStep ==
  ASSUME DeferredAssumption, DeferredViewTypes, ~Deferred!Look, [Deferred!Next]_(Deferred!vars)
  PROVE  DeferredGrown
<1> USE DEF Deferred!input, Deferred!view, Deferred!link, Deferred!exchange, Deferred!serving,
       Deferred!down, Deferred!ghosts
<1>1. CASE UNCHANGED <<seen, epoch>>
  BY <1>1 DEF DeferredGrown
<1>2. CASE Deferred!Tidy
  <2>1. epoch' = epoch + 1 /\ seen' = seen
    BY <1>2 DEF Deferred!Tidy, Deferred!Invalidate
  <2> QED
    BY <2>1 DEF DeferredGrown, DeferredViewTypes
<1>3. CASE Deferred!ReceiveChange
  <2>1. epoch' = epoch + 1 /\ seen' = seen
    BY <1>3 DEF Deferred!ReceiveChange, Deferred!Invalidate
  <2> QED
    BY <2>1 DEF DeferredGrown, DeferredViewTypes
<1>4. CASE Deferred!Collapse
  <2>1. epoch' = epoch + 1 /\ seen' = seen
    BY <1>4 DEF Deferred!Collapse, Deferred!Invalidate, Deferred!Done
  <2> QED
    BY <2>1 DEF DeferredGrown, DeferredViewTypes
<1>5. CASE Deferred!DialFails
  <2>1. epoch' = epoch + 1 /\ seen' = seen
    BY <1>5 DEF Deferred!DialFails, Deferred!Invalidate, Deferred!Done
  <2> QED
    BY <2>1 DEF DeferredGrown, DeferredViewTypes
<1>6. CASE Deferred!Tidies
  <2>1. epoch' = epoch + 1 /\ seen' = seen
    BY <1>6 DEF Deferred!Tidies, Deferred!Invalidate, Deferred!Goto
  <2> QED
    BY <2>1 DEF DeferredGrown, DeferredViewTypes
<1>7. CASE Deferred!ContractChanged
  <2>1. epoch' = epoch + 1 /\ seen' = seen
    BY <1>7 DEF Deferred!ContractChanged, Deferred!Invalidate, Deferred!Done
  <2> QED
    BY <2>1 DEF DeferredGrown, DeferredViewTypes
<1>8. CASE Deferred!GiveUp
  <2>1. CASE UNCHANGED <<seen, epoch>>
    BY <1>1, <2>1
  <2>2. CASE epoch' = epoch + 1 /\ seen' = seen
    BY <2>2 DEF DeferredGrown, DeferredViewTypes
  <2> QED
    BY <1>8, <2>1, <2>2 DEF Deferred!GiveUp, Deferred!Done, Deferred!Invalidate
<1>9. CASE Deferred!Initialized
  <2>1. CASE UNCHANGED <<seen, epoch>>
    BY <1>1, <2>1
  <2>2. CASE epoch' = epoch + 1 /\ seen' = seen
    BY <2>2 DEF DeferredGrown, DeferredViewTypes
  <2> QED
    BY <1>9, <2>1, <2>2 DEF Deferred!Initialized, Deferred!Goto, Deferred!Invalidate
<1>10. CASE Deferred!Look
  BY <1>10
<1>11. CASE Deferred!Adopt
  BY <1>11, <1>1 DEF Deferred!Adopt, Deferred!Goto
<1>12. ASSUME NEW r \in Deferred!Requests, Deferred!Ask(r) \/ Deferred!Cancel(r) PROVE UNCHANGED <<seen, epoch>>
  BY <1>12 DEF Deferred!Ask, Deferred!Cancel
<1>13. CASE Deferred!CancelPending \/ Deferred!Drop \/ Deferred!ReceiveAnswer \/ Deferred!Answer
         \/ Deferred!Change \/ Deferred!Serve
  BY <1>1, <1>13 DEF Deferred!Ask, Deferred!Cancel, Deferred!CancelPending, Deferred!Idle,
     Deferred!Drop, Deferred!FailPeer, Deferred!ReceiveAnswer, Deferred!Answer, Deferred!Change,
     Deferred!Serve
<1>14. CASE Deferred!Refuse \/ Deferred!Connected \/ Deferred!Dial \/ Deferred!Begin \/ Deferred!Send
         \/ Deferred!TooLarge \/ Deferred!GivesUp \/ Deferred!Failed
  BY <1>1, <1>14 DEF Deferred!Refuse, Deferred!Done, Deferred!Connected, Deferred!Goto, Deferred!Dial,
     Deferred!Begin, Deferred!Send, Deferred!TooLarge, Deferred!GivesUp, Deferred!FailPeer,
     Deferred!Failed, Deferred!Ended
<1>15. CASE Deferred!Greet \/ Deferred!Page \/ Deferred!Expand \/ Deferred!Returned
  BY <1>1, <1>15 DEF Deferred!Greet, Deferred!Done, Deferred!Page, Deferred!Ended, Deferred!Goto,
     Deferred!Expand, Deferred!Returned
<1>16. CASE UNCHANGED Deferred!vars
  BY <1>1, <1>16 DEF Deferred!vars
<1> QED
  BY <1>1, <1>2, <1>3, <1>4, <1>5, <1>6, <1>7, <1>8, <1>9, <1>10, <1>11, <1>12, <1>13, <1>14, <1>15,
     <1>16 DEF Deferred!Next

LEMMA DeferredBackStep ==
  ASSUME DeferredAssumption, DeferredLinkTypes, DeferredMessageTypes, DeferredOneAnswer,
         DeferredBackInv, [Deferred!Next]_(Deferred!vars)
  PROVE  DeferredBackInv'
<1> USE DEF Deferred!input, Deferred!view, Deferred!link, Deferred!exchange, Deferred!serving,
       Deferred!down, Deferred!ghosts
<1>1. CASE UNCHANGED <<back, real>>
  BY <1>1 DEF DeferredBackInv
<1>2. CASE Deferred!Change
  <2>1. CASE deferredClosed
    <3>1. DOMAIN back' = {}
      BY <1>2, <2>1, EmptySeq DEF Deferred!Change, DeferredOneAnswer
    <3> QED
      BY <3>1 DEF DeferredBackInv
  <2>2. CASE ~deferredClosed
    <3>1. back \in Seq(DeferredReports \cup {Deferred!Changed})
            /\ Deferred!Changed \in DeferredReports \cup {Deferred!Changed}
      BY DEF DeferredMessageTypes
    <3>2. back' = Append(back, Deferred!Changed)
      BY <1>2, <2>2 DEF Deferred!Change
    <3>3. /\ Len(back) + 1 \in DOMAIN back' /\ back'[Len(back) + 1] = Deferred!Changed
               /\ DOMAIN back = 1 .. Len(back)
          /\ \A i \in DOMAIN back' : i \in DOMAIN back \/ i = Len(back) + 1
          /\ Len(back) \in Nat
      BY <3>1, <3>2, BackGrows
    <3>4. ASSUME NEW i \in DOMAIN back', back'[i] # Deferred!Changed
          PROVE  \E j \in DOMAIN back' : i < j /\ back'[j] = Deferred!Changed
      <4>1. i \in DOMAIN back
        BY <3>3, <3>4
      <4>2. i < Len(back) + 1
        BY <3>3, <4>1
      <4> QED
        BY <3>3, <4>2
    <3> QED
      BY <3>4 DEF DeferredBackInv
  <2> QED
    BY <2>1, <2>2
<1>3. CASE Deferred!Answer
  <2>1. real' = real /\ ~deferredClosed /\ owed
    BY <1>3 DEF Deferred!Answer
  <2> DEFINE message == <<"answer", real>>
  <2>2. message \in DeferredReports \cup {Deferred!Changed} /\ message[2] = real
    BY DEF DeferredLinkTypes, DeferredReports
  <2>3. back' = Append(back, message)
    BY <1>3 DEF Deferred!Answer
  <2> HIDE DEF message
  <2>4. \A i \in DOMAIN back' : back'[i] = IF i \in DOMAIN back THEN back[i] ELSE message
    BY <2>2, <2>3, BackGrows DEF DeferredMessageTypes
  <2>5. \A i \in DOMAIN back : back[i] = Deferred!Changed
    BY <2>1 DEF DeferredOneAnswer
  <2> QED
    BY <2>1, <2>2, <2>4, <2>5 DEF DeferredBackInv
<1>4. CASE Deferred!ReceiveAnswer
  <2>1. real' = real /\ back # <<>> /\ back' = Tail(back)
    BY <1>4 DEF Deferred!ReceiveAnswer
  <2>2. /\ \A i \in DOMAIN back' : i \in Nat /\ i + 1 \in DOMAIN back /\ back'[i] = back[i + 1]
        /\ \A i \in DOMAIN back : i \in Nat /\ (i # 1 => i - 1 \in DOMAIN back' /\ back'[i - 1] = back[i])
        /\ \A i \in DOMAIN back' : i + 1 # 1
    BY <2>1, BackShrinks DEF DeferredMessageTypes
  <2>3. ASSUME NEW i \in DOMAIN back', back'[i] # Deferred!Changed, back'[i][2] # real'
        PROVE  \E j \in DOMAIN back' : i < j /\ back'[j] = Deferred!Changed
    <3>1. PICK j \in DOMAIN back : i + 1 < j /\ back[j] = Deferred!Changed
      BY <2>1, <2>2, <2>3 DEF DeferredBackInv
    <3>2. j # 1 /\ i < j - 1
      BY <3>1, <2>2
    <3> QED
      BY <3>1, <3>2, <2>2
  <2> QED
    BY <2>3 DEF DeferredBackInv
<1>5. CASE Deferred!ReceiveChange
  <2>1. real' = real /\ back # <<>> /\ back' = Tail(back)
    BY <1>5 DEF Deferred!ReceiveChange
  <2>2. /\ \A i \in DOMAIN back' : i \in Nat /\ i + 1 \in DOMAIN back /\ back'[i] = back[i + 1]
        /\ \A i \in DOMAIN back : i \in Nat /\ (i # 1 => i - 1 \in DOMAIN back' /\ back'[i - 1] = back[i])
        /\ \A i \in DOMAIN back' : i + 1 # 1
    BY <2>1, BackShrinks DEF DeferredMessageTypes
  <2>3. ASSUME NEW i \in DOMAIN back', back'[i] # Deferred!Changed, back'[i][2] # real'
        PROVE  \E j \in DOMAIN back' : i < j /\ back'[j] = Deferred!Changed
    <3>1. PICK j \in DOMAIN back : i + 1 < j /\ back[j] = Deferred!Changed
      BY <2>1, <2>2, <2>3 DEF DeferredBackInv
    <3>2. j # 1 /\ i < j - 1
      BY <3>1, <2>2
    <3> QED
      BY <3>1, <3>2, <2>2
  <2> QED
    BY <2>3 DEF DeferredBackInv
<1>6. CASE Deferred!Drop
  <2>1. DOMAIN back' = {}
    BY <1>6, EmptySeq DEF Deferred!Drop, Deferred!FailPeer
  <2> QED
    BY <2>1 DEF DeferredBackInv
<1>7. CASE Deferred!GivesUp
  <2>1. DOMAIN back' = {}
    BY <1>7, EmptySeq DEF Deferred!GivesUp, Deferred!FailPeer
  <2> QED
    BY <2>1 DEF DeferredBackInv
<1>8. CASE Deferred!Dial
  <2>1. DOMAIN back' = {}
    <3>1. back' = <<>>
      BY <1>8 DEF Deferred!Dial
    <3> QED
      BY <3>1, EmptySeq
  <2> QED
    BY <2>1 DEF DeferredBackInv
<1>9. CASE Deferred!ContractChanged
  <2>1. DOMAIN back' = {}
    BY <1>9, EmptySeq DEF Deferred!ContractChanged
  <2> QED
    BY <2>1 DEF DeferredBackInv
<1>10. CASE Deferred!Send
  BY <1>10 DEF DeferredBackInv, Deferred!Send, Deferred!Goto
<1>11. ASSUME NEW r \in Deferred!Requests, Deferred!Ask(r) \/ Deferred!Cancel(r) PROVE UNCHANGED <<back, real>>
  BY <1>11 DEF Deferred!Ask, Deferred!Cancel
<1>12. CASE Deferred!CancelPending \/ Deferred!Tidy \/ Deferred!Serve \/ Deferred!Refuse \/ Deferred!Collapse
         \/ Deferred!Connected
  BY <1>1, <1>12 DEF Deferred!Ask, Deferred!Cancel, Deferred!CancelPending, Deferred!Idle,
     Deferred!Tidy, Deferred!Invalidate, Deferred!Serve, Deferred!Refuse, Deferred!Done,
     Deferred!Collapse, Deferred!Connected, Deferred!Goto
<1>13. CASE Deferred!DialFails \/ Deferred!Begin \/ Deferred!TooLarge \/ Deferred!Tidies \/ Deferred!Failed
         \/ Deferred!GiveUp \/ Deferred!Initialized \/ Deferred!Greet
  BY <1>1, <1>13 DEF Deferred!DialFails, Deferred!Done, Deferred!Invalidate, Deferred!Begin,
     Deferred!Goto, Deferred!TooLarge, Deferred!Tidies, Deferred!Failed, Deferred!Ended,
     Deferred!GiveUp, Deferred!Initialized, Deferred!Greet
<1>14. CASE Deferred!Look \/ Deferred!Page \/ Deferred!Adopt \/ Deferred!Expand \/ Deferred!Returned
  BY <1>1, <1>14 DEF Deferred!Look, Deferred!Page, Deferred!Ended, Deferred!Goto, Deferred!Adopt,
     Deferred!Expand, Deferred!Done, Deferred!Returned
<1>15. CASE UNCHANGED Deferred!vars
  BY <1>1, <1>15 DEF Deferred!vars
<1> QED
  BY <1>1, <1>2, <1>3, <1>4, <1>5, <1>6, <1>7, <1>8, <1>9, <1>10, <1>11, <1>12, <1>13, <1>14,
     <1>15 DEF Deferred!Next

LEMMA DeferredEventKept ==
  ASSUME DeferredEventInv, event' \in DeferredReports => event' = event, DeferredHeld, DeferredGrown
  PROVE  DeferredEventInv'
<1> SUFFICES ASSUME event' \in DeferredReports, ~deferredClosed', seen' = epoch'
      PROVE event'[2] = real' \/ DeferredNoticed'
  BY DEF DeferredEventInv
<1>1. ~deferredClosed /\ event = event' /\ seen = epoch
  BY DEF DeferredHeld, DeferredGrown
<1>2. event[2] = real \/ DeferredNoticed
  BY <1>1 DEF DeferredEventInv
<1> QED
  BY <1>1, <1>2 DEF DeferredHeld

LEMMA DeferredEventStep ==
  ASSUME DeferredAssumption, DeferredLinkTypes, DeferredMessageTypes, DeferredServeInv,
         DeferredViewTypes, DeferredOneAnswer, DeferredBackInv, DeferredEventInv,
         [Deferred!Next]_(Deferred!vars)
  PROVE  DeferredEventInv'
<1>1. CASE Deferred!ReceiveAnswer
  <2>1. /\ real' = real /\ ~deferredClosed /\ back # <<>> /\ back' = Tail(back) /\ event' = Head(back)
             /\ Head(back) # Deferred!Changed
        /\ UNCHANGED <<seen, epoch>>
    BY <1>1 DEF Deferred!ReceiveAnswer, Deferred!view, Deferred!serving
  <2>2. /\ 1 \in DOMAIN back /\ Head(back) = back[1]
        /\ \A i \in DOMAIN back : i \in Nat /\ (i # 1 => i - 1 \in DOMAIN back' /\ back'[i - 1] = back[i])
    BY <2>1, BackShrinks DEF DeferredMessageTypes
  <2>3. back[1][2] = real \/ \E j \in DOMAIN back : 1 < j /\ back[j] = Deferred!Changed
    BY <2>1, <2>2 DEF DeferredBackInv
  <2>4. event'[2] = real' \/ DeferredNoticed'
    BY <2>1, <2>2, <2>3 DEF DeferredNoticed
  <2> QED
    BY <2>4 DEF DeferredEventInv
<1>2. CASE Deferred!ReceiveChange
  <2>1. epoch' = epoch + 1 /\ seen' = seen
    BY <1>2 DEF Deferred!ReceiveChange, Deferred!Invalidate, Deferred!serving
  <2>2. seen' # epoch'
    BY <2>1 DEF DeferredViewTypes
  <2> QED
    BY <2>2 DEF DeferredEventInv
<1>3. CASE Deferred!Dial \/ Deferred!Look
  <2>1. deferredPc # "waits" /\ event' = event
    BY <1>3 DEF Deferred!Dial, Deferred!Look, Deferred!exchange
  <2>2. event' \notin DeferredReports
    BY <2>1 DEF DeferredOneAnswer, DeferredReports, DeferredLinkTypes, DeferredAssumption,
       DeferredMessageTypes
  <2> QED
    BY <2>2 DEF DeferredEventInv
<1>4. CASE ~Deferred!ReceiveAnswer /\ ~Deferred!ReceiveChange /\ ~Deferred!Dial /\ ~Deferred!Look
  <2>1. DeferredHeld /\ DeferredGrown
    BY <1>4, DeferredHeldStep, DeferredGrownStep
  <2>2. event' \in DeferredReports => event' = event
    <3>1. CASE UNCHANGED event
      BY <3>1
    <3>2. CASE event' \in {Deferred!Unset, Deferred!Failure}
      BY <3>2, DeferredStrings
    <3> QED
      <4>1. ASSUME NEW r \in Deferred!Requests, Deferred!Ask(r) \/ Deferred!Cancel(r) PROVE UNCHANGED event
        BY <4>1 DEF Deferred!Ask, Deferred!Cancel, Deferred!exchange
      <4>2. CASE Deferred!CancelPending \/ Deferred!Tidy \/ Deferred!Answer \/ Deferred!Change \/ Deferred!Serve
              \/ Deferred!Refuse \/ Deferred!Collapse \/ Deferred!Connected \/ Deferred!DialFails
                 \/ Deferred!Begin \/ Deferred!Send \/ Deferred!TooLarge \/ Deferred!Tidies \/ Deferred!GiveUp
                      \/ Deferred!Greet \/ Deferred!Adopt \/ Deferred!Expand \/ UNCHANGED Deferred!vars
        BY <3>1, <3>2, <4>2 DEF Deferred!CancelPending, Deferred!Tidy, Deferred!Answer,
           Deferred!Change, Deferred!Serve, Deferred!Refuse, Deferred!Collapse, Deferred!Connected,
           Deferred!DialFails, Deferred!Begin, Deferred!Send, Deferred!TooLarge, Deferred!Tidies,
           Deferred!GiveUp, Deferred!Greet, Deferred!Adopt, Deferred!Expand, Deferred!vars,
           Deferred!exchange
      <4>3. CASE Deferred!Drop \/ Deferred!GivesUp \/ Deferred!Failed \/ Deferred!Initialized
              \/ Deferred!ContractChanged \/ Deferred!Page \/ Deferred!Returned
        BY <3>1, <3>2, <4>3 DEF Deferred!Drop, Deferred!GivesUp, Deferred!FailPeer, Deferred!Failed,
           Deferred!Initialized, Deferred!ContractChanged, Deferred!Page, Deferred!Returned,
           Deferred!Ended
      <4> QED
        BY <1>4, <3>1, <4>1, <4>2, <4>3 DEF Deferred!Next
  <2> QED
    BY <2>1, <2>2, DeferredEventKept
<1> QED
  BY <1>1, <1>2, <1>3, <1>4

LEMMA DeferredPagesKept ==
  ASSUME DeferredPagesInv, DeferredListing' => DeferredListing, UNCHANGED <<pages, peer>>,
         DeferredHeld, DeferredGrown
  PROVE  DeferredPagesInv'
<1> SUFFICES ASSUME DeferredListing', NEW i \in DOMAIN pages'
             PROVE  pages'[i][1] = peer'
               /\ (~deferredClosed' => pages'[i][2] = real' \/ DeferredNoticed' \/ seen' # epoch')
  BY DEF DeferredPagesInv
<1>1. i \in DOMAIN pages /\ pages'[i] = pages[i] /\ peer' = peer
  OBVIOUS
<1>2. pages[i][1] = peer /\ (~deferredClosed => pages[i][2] = real \/ DeferredNoticed \/ seen # epoch)
  BY <1>1 DEF DeferredPagesInv
<1>3. ~deferredClosed' /\ seen' = epoch' => pages'[i][2] = real' \/ DeferredNoticed'
  BY <1>1, <1>2 DEF DeferredHeld, DeferredGrown
<1> QED
  BY <1>1, <1>2, <1>3

LEMMA DeferredPagesFresh ==
  ASSUME DeferredAssumption, DeferredLinkTypes, DeferredMessageTypes, DeferredServeInv,
         DeferredViewTypes, DeferredPageTypes, DeferredOneAnswer, DeferredEventInv, DeferredPagesInv,
         [Deferred!Next]_(Deferred!vars)
  PROVE  DeferredPagesInv'
<1> DEFINE Unlisted == deferredPc' \notin {"asks list", "adopts"} /\ deferredPending' = Deferred!Quiet
<1>1. Unlisted => DeferredPagesInv'
  BY DeferredNoneIsNoNote DEF DeferredPagesInv, DeferredListing
<1> HIDE DEF Unlisted
<1>2. CASE Deferred!Refuse \/ Deferred!Collapse \/ Deferred!DialFails \/ Deferred!GiveUp \/ Deferred!Greet
        \/ Deferred!Expand \/ Deferred!ContractChanged \/ Deferred!Returned
  <2>1. deferredPc' = "idle"
    BY <1>2 DEF Deferred!Refuse, Deferred!Collapse, Deferred!DialFails, Deferred!GiveUp,
       Deferred!Greet, Deferred!Expand, Deferred!ContractChanged, Deferred!Returned, Deferred!Done
  <2>2. deferredPending' = Deferred!Quiet
    <3>1. CASE Deferred!Refuse \/ Deferred!Collapse \/ Deferred!DialFails \/ Deferred!GiveUp \/ Deferred!Greet
            \/ Deferred!Expand
      BY <3>1 DEF Deferred!Refuse, Deferred!Collapse, Deferred!DialFails, Deferred!GiveUp,
         Deferred!Greet, Deferred!Expand, Deferred!exchange, DeferredServeInv, DeferredExchanging
    <3>2. CASE Deferred!ContractChanged \/ Deferred!Returned
      BY <3>2 DEF Deferred!ContractChanged, Deferred!Returned, Deferred!Ended
    <3> QED
      BY <1>2, <3>1, <3>2
  <2> QED
    BY <1>1, <2>1, <2>2 DEF Unlisted
<1>3. CASE Deferred!Dial
  <2>1. deferredPc' = "asks init" /\ deferredPending' = Deferred!Quiet
    BY <1>3 DEF Deferred!Dial, Deferred!Goto, Deferred!exchange, DeferredServeInv, DeferredExchanging
  <2> QED
    BY <1>1, <2>1 DEF Unlisted
<1>4. CASE Deferred!Look
  <2>1. pages' = <<>>
    BY <1>4 DEF Deferred!Look
  <2>2. DOMAIN pages' = {}
    BY <2>1, EmptySeq
  <2> QED
    BY <2>2 DEF DeferredPagesInv
<1>5. CASE Deferred!ReceiveChange
  <2>1. epoch' = epoch + 1 /\ UNCHANGED <<seen, pages, peer, deferredPc, deferredPending>>
    BY <1>5 DEF Deferred!ReceiveChange, Deferred!Invalidate, Deferred!serving, Deferred!link,
       Deferred!exchange
  <2>2. seen' # epoch'
    BY <2>1 DEF DeferredViewTypes
  <2>3. DeferredListing => DeferredListing'
    BY <2>1 DEF DeferredListing
  <2>4. DeferredListing' => DeferredListing
    BY <2>1 DEF DeferredListing
  <2> QED
    BY <2>1, <2>2, <2>4 DEF DeferredPagesInv
<1>6. CASE Deferred!Page
  <2>1. DeferredListing /\ event \in DeferredReports
          /\ UNCHANGED <<deferredClosed, real, back, peer, seen, epoch>>
        /\ pages' = Append(pages, <<peer, event[2]>>)
    BY <1>6, DeferredStrings DEF Deferred!Page, Deferred!Ended, DeferredListing, Deferred!Goto,
       Deferred!link, Deferred!down, Deferred!view, DeferredMessageTypes
  <2>2. ~deferredClosed => event[2] = real \/ DeferredNoticed \/ seen # epoch
    BY <2>1 DEF DeferredEventInv
  <2> DEFINE page == <<peer, event[2]>>
  <2>3. page[1] = peer /\ page[2] = event[2]
    OBVIOUS
  <2>4. page \in DeferredVersions
    <3>1. event[2] \in 0 .. MaxReal
      BY <2>1 DEF DeferredReports
    <3>2. peer \in 1 .. MaxPeers
      <4>1. deferredPc = "waits"
        BY <1>6 DEF Deferred!Page, Deferred!Ended
      <4>2. peer \in 0 .. MaxPeers /\ peer > 0 /\ MaxPeers \in Nat
        BY <4>1 DEF DeferredLinkTypes, DeferredServeInv, DeferredWorking, DeferredExchanging,
           DeferredAssumption
      <4> QED
        BY ONLY <4>2
    <3> QED
      BY <3>1, <3>2 DEF DeferredVersions
  <2>5. pages' = Append(pages, page)
    BY <2>1
  <2> HIDE DEF page
  <2>6. \A i \in DOMAIN pages' : pages'[i] = IF i \in DOMAIN pages THEN pages[i] ELSE page
    <3>1. pages \in Seq(DeferredVersions)
      BY DEF DeferredPageTypes
    <3>2. Append(pages, page)[Len(pages) + 1] = page /\ Len(pages) + 1 \notin DOMAIN pages
      BY <2>4, <3>1, BackGrows
    <3>3. \A i \in DOMAIN pages : Append(pages, page)[i] = pages[i]
      BY <2>4, <3>1, BackGrows
    <3>4. \A i \in DOMAIN Append(pages, page) : i \in DOMAIN pages \/ i = Len(pages) + 1
      BY <2>4, <3>1, BackGrows
    <3> QED
      BY <2>5, <3>2, <3>3, <3>4
  <2>7. DeferredNoticed' = DeferredNoticed
    BY <2>1 DEF DeferredNoticed
  <2> SUFFICES ASSUME NEW i \in DOMAIN pages'
               PROVE  pages'[i][1] = peer'
                 /\ (~deferredClosed' => pages'[i][2] = real' \/ DeferredNoticed' \/ seen' # epoch')
    BY DEF DeferredPagesInv
  <2>8. CASE i \in DOMAIN pages
    <3>1. pages[i][1] = peer /\ (~deferredClosed => pages[i][2] = real \/ DeferredNoticed \/ seen # epoch)
      BY <2>1, <2>8 DEF DeferredPagesInv
    <3> QED
      BY <2>1, <2>6, <2>7, <2>8, <3>1
  <2>9. CASE i \notin DOMAIN pages
    BY <2>1, <2>2, <2>3, <2>6, <2>7, <2>9
  <2> QED
    BY <2>8, <2>9
<1>7. CASE Deferred!Failed
  <2>1. deferredPc' \notin {"asks list", "adopts"} /\ deferredPending' = Deferred!Quiet
    BY <1>7 DEF Deferred!Failed, Deferred!Ended, Deferred!Done, Deferred!Goto
  <2> QED
    BY <1>1, <2>1 DEF Unlisted
<1>8. CASE Deferred!Initialized
  <2>1. deferredPc' \notin {"asks list", "adopts"} /\ deferredPending' = Deferred!Quiet
    BY <1>8 DEF Deferred!Initialized, Deferred!Ended, Deferred!Goto
  <2> QED
    BY <1>1, <2>1 DEF Unlisted
<1>9. CASE Deferred!Serve \/ Deferred!Connected \/ Deferred!TooLarge
  <2>1. deferredPc' \notin {"asks list", "adopts"}
    BY <1>9 DEF Deferred!Serve, Deferred!Connected, Deferred!TooLarge, Deferred!Goto
  <2>2. deferredPending' = Deferred!Quiet
    BY <1>9 DEF Deferred!Serve, Deferred!Connected, Deferred!TooLarge, Deferred!exchange,
       DeferredServeInv, DeferredExchanging
  <2> QED
    BY <1>1, <2>1, <2>2 DEF Unlisted
<1>10. CASE ~Deferred!Dial /\ ~Deferred!ReceiveChange /\ ~Deferred!Look /\ UNCHANGED <<pages, peer>>
         /\ (DeferredListing' => DeferredListing)
  BY <1>10, DeferredHeldStep, DeferredGrownStep, DeferredPagesKept
<1>11. CASE Deferred!Begin
  <2>1. UNCHANGED <<pages, peer>>
    BY <1>11 DEF Deferred!Begin, Deferred!link
  <2>2. CASE Deferred!Goto(IF Deferred!What = "list" THEN "abandons" ELSE "gives up")
          /\ UNCHANGED Deferred!exchange
    <3>1. deferredPc' \notin {"asks list", "adopts"}
      BY <2>2 DEF Deferred!Goto
    <3>2. deferredPending' = Deferred!Quiet
      BY <1>11, <2>2 DEF Deferred!Begin, Deferred!exchange, DeferredServeInv, DeferredExchanging
    <3> QED
      BY <1>1, <3>1, <3>2 DEF Unlisted
  <2>3. CASE deferredPending' = [of |-> deferredCur, what |-> Deferred!What] /\ deferredPc' = "sends"
    <3>1. Deferred!What = "list" => deferredPc = "asks list"
      BY <1>11 DEF Deferred!What, Deferred!Begin
    <3> HIDE DEF Deferred!What
    <3>2. DeferredListing' => DeferredListing
      BY <2>3, <3>1 DEF DeferredListing
    <3>3. ~Deferred!Dial /\ ~Deferred!ReceiveChange /\ ~Deferred!Look
      <4>1. deferredPc \in {"asks init", "asks list", "asks call"} /\ deferredPc' = "sends"
        BY <1>11, <2>3 DEF Deferred!Begin
      <4> QED
        BY <4>1 DEF Deferred!Dial, Deferred!ReceiveChange, Deferred!Look, Deferred!serving
    <3> QED
      BY <1>10, <2>1, <3>2, <3>3
  <2> QED
    BY <1>11, <2>2, <2>3 DEF Deferred!Begin, Deferred!Goto
<1>12. CASE Deferred!Adopt
  <2>1. UNCHANGED <<pages, peer>> /\ deferredPc = "adopts" /\ deferredPc' # "adopts"
    BY <1>12 DEF Deferred!Adopt, Deferred!link, Deferred!Goto
  <2>2. DeferredListing /\ ~Deferred!Dial /\ ~Deferred!ReceiveChange /\ ~Deferred!Look
    BY <2>1 DEF DeferredListing, Deferred!Dial, Deferred!ReceiveChange, Deferred!Look, Deferred!serving
  <2> QED
    BY <1>10, <2>1, <2>2
<1>13. CASE UNCHANGED <<pages, peer, deferredPending>>
         /\ (deferredPc' \in {"asks list", "adopts"} => deferredPc' = deferredPc) /\ ~Deferred!Dial
              /\ ~Deferred!ReceiveChange /\ ~Deferred!Look
  <2>1. DeferredListing' => DeferredListing
    BY <1>13 DEF DeferredListing
  <2> QED
    BY <1>10, <1>13, <2>1
<1>14. CASE Deferred!Send \/ Deferred!GivesUp \/ Deferred!Tidies
  <2>1. UNCHANGED <<pages, peer, deferredPending>> /\ deferredPc' \notin {"asks list", "adopts"}
    BY <1>14 DEF Deferred!Send, Deferred!GivesUp, Deferred!Tidies, Deferred!Goto, Deferred!link,
       Deferred!exchange
  <2>2. ~Deferred!Dial /\ ~Deferred!ReceiveChange /\ ~Deferred!Look
    BY <1>14 DEF Deferred!Send, Deferred!GivesUp, Deferred!Tidies, Deferred!Goto, Deferred!Dial,
       Deferred!ReceiveChange, Deferred!Look, Deferred!serving
  <2> QED
    BY <1>13, <2>1, <2>2
<1>15. ASSUME NEW r \in Deferred!Requests, Deferred!Ask(r) \/ Deferred!Cancel(r)
         PROVE UNCHANGED <<pages, peer, deferredPending, deferredPc>>
  BY <1>15 DEF Deferred!Ask, Deferred!Cancel, Deferred!serving, Deferred!link, Deferred!exchange
<1>16. CASE Deferred!CancelPending \/ Deferred!Drop \/ Deferred!Tidy \/ Deferred!ReceiveAnswer
         \/ Deferred!Answer \/ Deferred!Change \/ UNCHANGED Deferred!vars
  <2>1. UNCHANGED <<pages, peer, deferredPending, deferredPc>>
    BY <1>16 DEF Deferred!CancelPending, Deferred!Drop, Deferred!Tidy, Deferred!ReceiveAnswer,
       Deferred!Answer, Deferred!Change, Deferred!vars, Deferred!serving, Deferred!link,
       Deferred!exchange
  <2> QED
    BY <1>3, <1>4, <1>5, <1>13, <2>1
<1> QED
  BY <1>2, <1>3, <1>4, <1>5, <1>6, <1>7, <1>8, <1>9, <1>11, <1>12, <1>13, <1>14, <1>15,
     <1>16 DEF Deferred!Next

LEMMA DeferredCatalogKept ==
  ASSUME DeferredCatalogInv, UNCHANGED <<catalog, peer>>, DeferredHeld,
         ~deferredClosed' /\ ~DeferredGreeting' => ~DeferredGreeting
  PROVE  DeferredCatalogInv'
<1> SUFFICES ASSUME ~deferredClosed', catalog' # None, ~DeferredGreeting'
      PROVE catalog' = {<<peer', real'>>} \/ DeferredNoticed'
  BY DEF DeferredCatalogInv
<1>1. catalog = {<<peer, real>>} \/ DeferredNoticed
  BY DEF DeferredCatalogInv, DeferredHeld
<1>2. CASE DeferredNoticed'
  BY <1>2
<1>3. CASE real' = real /\ ~DeferredNoticed
  BY <1>1, <1>3
<1> QED
  BY <1>2, <1>3 DEF DeferredHeld

LEMMA DeferredCatalogFresh ==
  ASSUME DeferredAssumption, DeferredLinkTypes, DeferredMessageTypes, DeferredServeInv,
         DeferredViewTypes, DeferredPageTypes, DeferredOneAnswer, DeferredPagesInv, DeferredCatalogInv,
         [Deferred!Next]_(Deferred!vars)
  PROVE  DeferredCatalogInv'
<1>1. CASE catalog' = None \/ deferredClosed'
  BY <1>1 DEF DeferredCatalogInv
<1>2. CASE Deferred!Tidy \/ Deferred!ReceiveChange \/ Deferred!Collapse \/ Deferred!DialFails \/ Deferred!Tidies
        \/ Deferred!ContractChanged \/ Deferred!Drop \/ Deferred!GivesUp
  BY <1>1, <1>2 DEF Deferred!Tidy, Deferred!ReceiveChange, Deferred!Collapse, Deferred!DialFails,
     Deferred!Tidies, Deferred!ContractChanged, Deferred!Drop, Deferred!GivesUp, Deferred!Invalidate,
     Deferred!FailPeer
<1>3. CASE Deferred!Dial
  <2>1. DeferredGreeting'
    BY <1>3 DEF Deferred!Dial, Deferred!Goto, DeferredGreeting
  <2> QED
    BY <2>1 DEF DeferredCatalogInv
<1>4. CASE ~Deferred!Dial /\ ~Deferred!ReceiveChange /\ UNCHANGED <<catalog, peer>>
        /\ (~deferredClosed' /\ ~DeferredGreeting' => ~DeferredGreeting)
  BY <1>4, DeferredHeldStep, DeferredCatalogKept
<1>5. CASE Deferred!Adopt
  <2>1. CASE UNCHANGED catalog
    <3>1. UNCHANGED <<catalog, peer>> /\ ~Deferred!Dial /\ ~Deferred!ReceiveChange
      BY <1>5, <2>1 DEF Deferred!Adopt, Deferred!Dial, Deferred!ReceiveChange, Deferred!Goto,
         Deferred!link, Deferred!serving
    <3>2. ~DeferredGreeting
      BY <1>5, DeferredNoneIsNoNote DEF Deferred!Adopt, DeferredGreeting, DeferredServeInv,
         DeferredExchanging
    <3> QED
      BY <1>4, <3>1, <3>2
  <2>2. CASE catalog' = Deferred!Range(pages) /\ ~deferredClosed /\ epoch = seen
    <3>1. deferredPc = "adopts" /\ UNCHANGED <<peer, real, back>>
      BY <1>5 DEF Deferred!Adopt, Deferred!link, Deferred!down
    <3>2. \A i \in DOMAIN pages : pages[i][1] = peer /\ (pages[i][2] = real \/ DeferredNoticed)
      BY <2>2, <3>1 DEF DeferredPagesInv, DeferredListing
    <3>3. DeferredNoticed' = DeferredNoticed
      BY <3>1 DEF DeferredNoticed
    <3>4. CASE ~DeferredNoticed
      <4>1. pages \in Seq(DeferredVersions) /\ Len(pages) = Pages /\ Pages \in Nat /\ Pages # 0
        BY <3>1 DEF DeferredPageTypes, DeferredAssumption
      <4>2. DOMAIN pages = 1 .. Len(pages)
        BY <4>1, LenProperties
      <4>3. 1 \in DOMAIN pages
        BY <4>1, <4>2
      <4>4. \A i \in DOMAIN pages : pages[i] \in DeferredVersions
        BY <4>1, <4>2, LenProperties
      <4>5. \A i \in DOMAIN pages : pages[i] = <<peer, real>>
        <5> SUFFICES ASSUME NEW i \in DOMAIN pages PROVE pages[i] = <<peer, real>>
          OBVIOUS
        <5>1. pages[i] = <<pages[i][1], pages[i][2]>>
          BY <4>4 DEF DeferredVersions
        <5> QED
          BY <5>1, <3>2, <3>4
      <4>6. Deferred!Range(pages) = {<<peer, real>>}
        BY <4>3, <4>5 DEF Deferred!Range
      <4> QED
        BY <2>2, <3>1, <4>6 DEF DeferredCatalogInv
    <3> QED
      BY <3>3, <3>4 DEF DeferredCatalogInv
  <2> QED
    BY <1>5, <2>1, <2>2 DEF Deferred!Adopt, Deferred!view
<1>6. CASE Deferred!Initialized
  <2>1. CASE deferredClosed
    BY <1>1, <1>6, <2>1 DEF Deferred!Initialized, Deferred!link
  <2>2. CASE ~deferredClosed
    BY <1>1, <1>6, <2>2 DEF Deferred!Initialized, Deferred!Invalidate
  <2> QED
    BY <2>1, <2>2
<1>7. CASE Deferred!Begin
  <2>1. CASE deferredClosed
    BY <1>1, <1>7, <2>1 DEF Deferred!Begin, Deferred!link
  <2>2. CASE ~deferredClosed
    <3>1. deferredPc' = "sends" /\ deferredPending' = [of |-> deferredCur, what |-> Deferred!What]
            /\ UNCHANGED <<catalog, peer>> /\ deferredPc # "sends"
      BY <1>7, <2>2 DEF Deferred!Begin, Deferred!Goto, Deferred!link, Deferred!view
    <3>2. deferredPc = "asks init" => Deferred!What = "init"
      BY DEF Deferred!What
    <3>3. deferredPending = Deferred!Quiet
      BY <1>7 DEF Deferred!Begin, DeferredServeInv, DeferredExchanging
    <3>4. DeferredGreeting => DeferredGreeting'
      <4> HIDE DEF Deferred!What
      <4> QED
        BY <3>1, <3>2, <3>3, DeferredNoneIsNoNote DEF DeferredGreeting
    <3>5. ~Deferred!Dial /\ ~Deferred!ReceiveChange
      BY <3>1 DEF Deferred!Dial, Deferred!ReceiveChange, Deferred!Goto, Deferred!serving
    <3> QED
      BY <1>4, <3>1, <3>4, <3>5
  <2> QED
    BY <2>1, <2>2
<1>8. CASE Deferred!Failed
  <2>1. deferredClosed /\ UNCHANGED deferredClosed
    BY <1>8 DEF Deferred!Failed, Deferred!Ended, Deferred!link, DeferredOneAnswer, DeferredExchanging
  <2> QED
    BY <1>1, <2>1
<1>9. CASE Deferred!GiveUp
  <2>1. CASE catalog' = None
    BY <1>1, <2>1
  <2>2. CASE UNCHANGED catalog
    <3>1. UNCHANGED <<catalog, peer>> /\ deferredPc \in {"gives up", "abandons"}
      BY <1>9, <2>2 DEF Deferred!GiveUp, Deferred!link
    <3>2. ~DeferredGreeting
      BY <3>1, DeferredNoneIsNoNote DEF DeferredGreeting, DeferredServeInv, DeferredExchanging
    <3>3. ~Deferred!Dial /\ ~Deferred!ReceiveChange
      BY <1>9, <3>1 DEF Deferred!GiveUp, Deferred!Done, Deferred!Dial, Deferred!ReceiveChange,
         Deferred!Goto, Deferred!serving
    <3> QED
      BY <1>4, <3>1, <3>2, <3>3
  <2> QED
    BY <1>9, <2>1, <2>2 DEF Deferred!GiveUp, Deferred!Invalidate, Deferred!view
<1>10. CASE Deferred!Serve \/ Deferred!Refuse \/ Deferred!Connected \/ Deferred!Greet \/ Deferred!Look
         \/ Deferred!Expand
  <2>1. UNCHANGED <<catalog, peer>>
    BY <1>10 DEF Deferred!Serve, Deferred!Refuse, Deferred!Connected, Deferred!Greet, Deferred!Look,
       Deferred!Expand, Deferred!view, Deferred!link
  <2>2. deferredPc \in {"idle", "refuses", "connects", "greets", "looks", "expands"} /\ deferredPc' # deferredPc
          /\ deferredPc' # "asks init"
    BY <1>10 DEF Deferred!Serve, Deferred!Refuse, Deferred!Connected, Deferred!Greet, Deferred!Look,
       Deferred!Expand, Deferred!Goto, Deferred!Done
  <2>3. ~DeferredGreeting
    BY <2>2, DeferredNoneIsNoNote DEF DeferredGreeting, DeferredServeInv, DeferredExchanging
  <2>4. ~Deferred!Dial /\ ~Deferred!ReceiveChange
    BY <2>2 DEF Deferred!Dial, Deferred!ReceiveChange, Deferred!Goto, Deferred!serving
  <2> QED
    BY <1>4, <2>1, <2>3, <2>4
<1>11. CASE Deferred!TooLarge \/ Deferred!Page \/ Deferred!Returned
  <2>1. UNCHANGED <<catalog, peer>>
    BY <1>11 DEF Deferred!TooLarge, Deferred!Page, Deferred!Returned, Deferred!view, Deferred!link
  <2>2. deferredPc \in DeferredExchanging /\ deferredPending.what # "init" /\ deferredPc' # deferredPc
          /\ deferredPc' # "asks init"
    BY <1>11 DEF Deferred!TooLarge, Deferred!Page, Deferred!Returned, Deferred!Ended, Deferred!Goto,
       Deferred!Done, DeferredExchanging
  <2>3. ~DeferredGreeting
    BY <2>2 DEF DeferredGreeting, DeferredExchanging
  <2>4. ~Deferred!Dial /\ ~Deferred!ReceiveChange
    BY <2>2 DEF Deferred!Dial, Deferred!ReceiveChange, Deferred!Goto, Deferred!serving
  <2> QED
    BY <1>4, <2>1, <2>3, <2>4
<1>12. CASE UNCHANGED <<catalog, peer, deferredPc, deferredPending>> /\ ~Deferred!ReceiveChange
  <2>1. ~Deferred!Dial
    BY <1>12 DEF Deferred!Dial, Deferred!Goto
  <2>2. DeferredGreeting => DeferredGreeting'
    BY <1>12 DEF DeferredGreeting
  <2> QED
    BY <1>4, <1>12, <2>1, <2>2
<1>13. CASE Deferred!Send
  <2>1. UNCHANGED <<catalog, peer, deferredPending>> /\ deferredPc = "sends" /\ deferredPc' = "waits"
    BY <1>13 DEF Deferred!Send, Deferred!Goto, Deferred!view, Deferred!link, Deferred!exchange
  <2>2. (DeferredGreeting => DeferredGreeting') /\ ~Deferred!Dial /\ ~Deferred!ReceiveChange
    BY <2>1 DEF DeferredGreeting, Deferred!Dial, Deferred!ReceiveChange, Deferred!serving
  <2> QED
    BY <1>4, <2>1, <2>2
<1>14. ASSUME NEW r \in Deferred!Requests, Deferred!Ask(r) \/ Deferred!Cancel(r)
         PROVE UNCHANGED <<catalog, peer, deferredPc, deferredPending>>
  BY <1>14 DEF Deferred!Ask, Deferred!Cancel, Deferred!serving, Deferred!link, Deferred!exchange,
     Deferred!view
<1>15. CASE Deferred!CancelPending \/ Deferred!ReceiveAnswer \/ Deferred!Answer \/ Deferred!Change
         \/ UNCHANGED Deferred!vars
  <2>1. UNCHANGED <<catalog, peer, deferredPending, deferredPc>>
    BY <1>15 DEF Deferred!CancelPending, Deferred!ReceiveAnswer, Deferred!Answer, Deferred!Change,
       Deferred!vars, Deferred!serving, Deferred!link, Deferred!exchange, Deferred!view
  <2> QED
    BY <1>2, <1>12, <2>1
<1> QED
  BY <1>2, <1>3, <1>5, <1>6, <1>7, <1>8, <1>9, <1>10, <1>11, <1>12, <1>13, <1>14,
     <1>15 DEF Deferred!Next

LEMMA DeferredFreshStep ==
  ASSUME DeferredAssumption, DeferredFlowInv, DeferredFreshInv, [Deferred!Next]_(Deferred!vars)
  PROVE  DeferredFreshInv'
BY DeferredBackStep, DeferredEventStep, DeferredPagesFresh, DeferredCatalogFresh
   DEF DeferredFlowInv, DeferredFreshInv

LEMMA DeferredFreshIsCurrent ==
  ASSUME DeferredAssumption, DeferredFlowInv, DeferredFreshInv PROVE Deferred!CatalogIsCurrent
<1> SUFFICES ASSUME deferredPc \in {"expands", "asks call"}, catalog # None, ~deferredClosed
             PROVE  catalog = {<<peer, real>>} \/ Deferred!Changed \in Deferred!Range(back)
  BY DEF Deferred!CatalogIsCurrent
<1>1. ~DeferredGreeting
  BY DeferredNoneIsNoNote DEF DeferredFlowInv, DeferredServeInv, DeferredGreeting, DeferredExchanging
<1>2. catalog = {<<peer, real>>} \/ DeferredNoticed
  BY <1>1 DEF DeferredFreshInv, DeferredCatalogInv
<1>3. DeferredNoticed => Deferred!Changed \in Deferred!Range(back)
  BY DEF DeferredNoticed, Deferred!Range
<1> QED
  BY <1>2, <1>3

LEMMA DeferredBegins ==
  ASSUME DeferredAssumption, Deferred!Init
  PROVE  DeferredSentInv /\ Deferred!SafeMeansUnsent /\ DeferredFreshInv
<1>1. DOMAIN deferredInbound = {} /\ DOMAIN back = {} /\ DOMAIN pages = {} /\ deferredCur = None
        /\ deferredSent = {} /\ deferredClosed /\ event = Deferred!Unset
  BY EmptySeq DEF Deferred!Init
<1>2. \A r \in Deferred!Requests : r # None /\ deferredReply[r] = None
  BY DEF Deferred!Init, DeferredAssumption
<1>3. DeferredSentInv
  BY <1>1, <1>2 DEF DeferredSentInv
<1>4. Deferred!SafeMeansUnsent
  BY <1>1 DEF Deferred!SafeMeansUnsent
<1>5. DeferredFreshInv
  BY <1>1, DeferredStrings DEF DeferredFreshInv, DeferredBackInv, DeferredEventInv, DeferredPagesInv,
     DeferredCatalogInv
<1> QED
  BY <1>3, <1>4, <1>5

-----------------------------------------------------------------------------
(* Stateless requests at the adapter: AdapterModern.                         *)

(* Theorems about AdapterModern, for every set of requests, however many of *)
(* them are in flight, whatever fails and whoever cancels.                  *)

PoolStops == {"new", "queued", "ignored", "probes", "connects", "posts", "body", "reads",
              "emits", "refused", "raised", "reports", "pops", "over"}
PoolReplies == {None, "refused", "safe", "unknown", "result", "error"}

\* The types the proofs need.
PoolTypes ==
  /\ poolPc \in [Pooled -> PoolStops]
  /\ reason \in [Pooled -> {None, "cancelled", "timeout"}]
  /\ poolStarted \in [Pooled -> BOOLEAN] /\ unknown \in [Pooled -> BOOLEAN]
  /\ poolGot \in [Pooled -> {None, "result", "error"}]
  /\ poolReply \in [Pooled -> PoolReplies]

\* Where a request is once its mark was set, and once its client was told that
\* nothing was sent.
PoolMarked == {"body", "reads", "emits", "raised", "reports", "pops", "over"}
PoolClosing == {"pops", "over"}

\* The mark of a tools/call is set before its bytes leave, it is what the error
\* report repeats, and after a report that calls the request safe the pool
\* thread does not come back to the write.
PoolMarkInv ==
  \A r \in PooledTools :
    /\ r \in delivered => poolStarted[r]
    /\ poolPc[r] = "body" => poolStarted[r]
    /\ poolStarted[r] => poolPc[r] \in PoolMarked
    /\ poolPc[r] \in {"raised", "reports"} => unknown[r] = poolStarted[r]
    /\ poolReply[r] \in {"safe", "refused"} => poolPc[r] \in PoolClosing /\ ~poolStarted[r]

\* A request the client took back has a reason, which its token never loses.
PoolTokenInv ==
  /\ poolWithdrawn \subseteq Pooled
  /\ \A r \in poolWithdrawn : reason[r] # None

-----------------------------------------------------------------------------
\* Every step keeps the types.
LEMMA PoolTypesStep == ASSUME PoolTypes, [Pool!Next]_(Pool!vars) PROVE PoolTypes'
<1> USE DEF PoolTypes, PoolStops, PoolReplies, Pool!Goto, Pool!Raise, Pool!token, Pool!client
<1>1. ASSUME NEW r \in Pooled, Pool!Handle(r) PROVE PoolTypes'
  BY <1>1 DEF Pool!Handle
<1>2. ASSUME NEW r \in Pooled, Pool!Cancel(r) \/ Pool!TimesOut(r) PROVE PoolTypes'
  BY <1>2 DEF Pool!Cancel, Pool!TimesOut, Pool!CancelToken
<1>3. ASSUME NEW r \in Pooled, Pool!Work(r) \/ Pool!Preflight(r) \/ Pool!Connect(r) PROVE PoolTypes'
  BY <1>3 DEF Pool!Work, Pool!Preflight, Pool!Connect, Pool!Steps
<1>4. ASSUME NEW r \in Pooled, Pool!PreflightRefuses(r) \/ Pool!Refused(r) PROVE PoolTypes'
  BY <1>4 DEF Pool!PreflightRefuses, Pool!Refused
<1>5. ASSUME NEW r \in Pooled, Pool!Send(r) PROVE PoolTypes'
  BY <1>5 DEF Pool!Send
<1>6. ASSUME NEW r \in Pooled, Pool!SendBody(r) PROVE PoolTypes'
  BY <1>6 DEF Pool!SendBody
<1>7. ASSUME NEW r \in Pooled, Pool!Receive(r) \/ Pool!Fails(r) PROVE PoolTypes'
  BY <1>7 DEF Pool!Receive, Pool!Fails
<1>8. ASSUME NEW r \in Pooled, Pool!Emit(r) PROVE PoolTypes'
  BY <1>8 DEF Pool!Emit
<1>9. ASSUME NEW r \in Pooled, Pool!Silence(r) \/ Pool!Report(r) \/ Pool!Pop(r) PROVE PoolTypes'
  BY <1>9 DEF Pool!Silence, Pool!Report, Pool!Pop
<1>10. ASSUME Pool!Shutdown \/ Pool!Joined \/ UNCHANGED Pool!vars PROVE PoolTypes'
  BY <1>10 DEF Pool!Shutdown, Pool!Joined, Pool!CancelToken, Pool!vars
<1> QED
  BY <1>1, <1>2, <1>3, <1>4, <1>5, <1>6, <1>7, <1>8, <1>9, <1>10 DEF Pool!Next

\* So they hold always.
LEMMA PoolTypesHold == Pool!Spec => []PoolTypes
<1>1. Pool!Init => PoolTypes
  BY DEF Pool!Init, PoolTypes, PoolStops, PoolReplies
<1>2. PoolTypes /\ [Pool!Next]_(Pool!vars) => PoolTypes'
  BY PoolTypesStep
<1> QED
  BY <1>1, <1>2, PTL DEF Pool!Spec

-----------------------------------------------------------------------------
\* Every step keeps the invariant of the mark.
LEMMA PoolMarkStep ==
  ASSUME Pool!AdapterAssumption, PoolTypes, PoolMarkInv, [Pool!Next]_(Pool!vars) PROVE PoolMarkInv'
<1> USE DEF Pool!AdapterAssumption, PoolTypes, PoolStops, PoolReplies, PoolMarkInv, PoolMarked,
       PoolClosing, Pool!Goto, Pool!Raise, Pool!token, Pool!client
<1>1. ASSUME NEW r \in Pooled, Pool!Handle(r) PROVE PoolMarkInv'
  BY <1>1 DEF Pool!Handle
<1>2. ASSUME NEW r \in Pooled, Pool!Cancel(r) \/ Pool!TimesOut(r) PROVE PoolMarkInv'
  BY <1>2 DEF Pool!Cancel, Pool!TimesOut
<1>3. ASSUME NEW r \in Pooled, Pool!Work(r) \/ Pool!Preflight(r) \/ Pool!Connect(r) PROVE PoolMarkInv'
  BY <1>3 DEF Pool!Work, Pool!Preflight, Pool!Connect, Pool!Steps
<1>4. ASSUME NEW r \in Pooled, Pool!PreflightRefuses(r) \/ Pool!Refused(r) PROVE PoolMarkInv'
  BY <1>4 DEF Pool!PreflightRefuses, Pool!Refused
<1>5. ASSUME NEW r \in Pooled, Pool!Send(r) PROVE PoolMarkInv'
  BY <1>5 DEF Pool!Send
<1>6. ASSUME NEW r \in Pooled, Pool!SendBody(r) PROVE PoolMarkInv'
  <2>1. poolPc[r] = "body" /\ poolReply' = poolReply /\ poolStarted' = poolStarted
    BY <1>6 DEF Pool!SendBody
  <2>2. CASE reason[r] # None
    BY <1>6, <2>1, <2>2 DEF Pool!SendBody
  <2>3. CASE reason[r] = None
    <3>1. delivered' = delivered \cup {r}
      BY <1>6, <2>3 DEF Pool!SendBody
    <3>2. \/ poolPc' = [poolPc EXCEPT ![r] = "reads"] /\ unknown' = unknown
          \/ poolPc' = [poolPc EXCEPT ![r] = "raised"] /\ unknown' = [unknown EXCEPT ![r] = poolStarted[r]]
      BY <1>6, <2>3 DEF Pool!SendBody
    <3> QED BY <2>1, <3>1, <3>2
  <2> QED BY <2>2, <2>3
<1>7. ASSUME NEW r \in Pooled, Pool!Receive(r) \/ Pool!Fails(r) PROVE PoolMarkInv'
  BY <1>7 DEF Pool!Receive, Pool!Fails
<1>8. ASSUME NEW r \in Pooled, Pool!Emit(r) PROVE PoolMarkInv'
  BY <1>8 DEF Pool!Emit
<1>9. ASSUME NEW r \in Pooled, Pool!Silence(r) \/ Pool!Report(r) \/ Pool!Pop(r) PROVE PoolMarkInv'
  BY <1>9 DEF Pool!Silence, Pool!Report, Pool!Pop
<1>10. ASSUME Pool!Shutdown \/ Pool!Joined \/ UNCHANGED Pool!vars PROVE PoolMarkInv'
  BY <1>10 DEF Pool!Shutdown, Pool!Joined, Pool!vars
<1> QED
  BY <1>1, <1>2, <1>3, <1>4, <1>5, <1>6, <1>7, <1>8, <1>9, <1>10 DEF Pool!Next

\* A tools/call whose client was told that it may be sent again never reached
\* the remote and never will (begin_business_send, outcomeUnknown).
THEOREM PoolSafeIsUnsent ==
  ASSUME Pool!AdapterAssumption PROVE Pool!Spec => []Pool!SafeMeansUnsent
<1>1. Pool!Init => PoolMarkInv
  BY Pool!AdapterAssumption DEF Pool!Init, PoolMarkInv, PoolClosing, Pool!AdapterAssumption
<1>2. PoolMarkInv => Pool!SafeMeansUnsent
  BY DEF PoolMarkInv, Pool!SafeMeansUnsent
<1>3. PoolTypes /\ PoolMarkInv /\ [Pool!Next]_(Pool!vars) => PoolMarkInv'
  BY PoolMarkStep
<1> QED
  BY <1>1, <1>2, <1>3, PoolTypesHold, PTL DEF Pool!Spec

-----------------------------------------------------------------------------
\* Every step keeps the invariant of the tokens: a reason, once there, stays.
LEMMA PoolTokenStep ==
  ASSUME Pool!AdapterAssumption, PoolTypes, PoolTokenInv, [Pool!Next]_(Pool!vars)
  PROVE  PoolTokenInv'
<1> USE DEF Pool!AdapterAssumption, PoolTypes, PoolTokenInv, Pool!Goto, Pool!Raise, Pool!token,
       Pool!client
<1>1. CASE UNCHANGED <<reason, poolWithdrawn>>
  BY <1>1
<1>2. ASSUME NEW r \in Pooled, Pool!Cancel(r) PROVE PoolTokenInv'
  BY <1>2 DEF Pool!Cancel, Pool!CancelToken
<1>3. ASSUME NEW r \in Pooled, Pool!TimesOut(r) PROVE PoolTokenInv'
  BY <1>3 DEF Pool!TimesOut, Pool!CancelToken
<1>4. CASE Pool!Shutdown
  BY <1>4 DEF Pool!Shutdown, Pool!CancelToken
<1>5. ASSUME NEW r \in Pooled,
             Pool!Handle(r) \/ Pool!Work(r) \/ Pool!Preflight(r) \/ Pool!PreflightRefuses(r) \/ Pool!Refused(r)
               \/ Pool!Connect(r)
      PROVE  PoolTokenInv'
  BY <1>1, <1>5 DEF Pool!Handle, Pool!Work, Pool!Preflight, Pool!Connect, Pool!Steps,
     Pool!PreflightRefuses, Pool!Refused
<1>6. ASSUME NEW r \in Pooled, Pool!Send(r) \/ Pool!SendBody(r) \/ Pool!Receive(r) \/ Pool!Fails(r)
        \/ Pool!Emit(r)
      PROVE  PoolTokenInv'
  BY <1>1, <1>6 DEF Pool!Send, Pool!SendBody, Pool!Receive, Pool!Fails, Pool!Emit
<1>7. ASSUME NEW r \in Pooled, Pool!Silence(r) \/ Pool!Report(r) \/ Pool!Pop(r) PROVE PoolTokenInv'
  BY <1>1, <1>7 DEF Pool!Silence, Pool!Report, Pool!Pop
<1>8. ASSUME Pool!Joined \/ UNCHANGED Pool!vars PROVE PoolTokenInv'
  BY <1>1, <1>8 DEF Pool!Joined, Pool!vars
<1> QED
  BY <1>2, <1>3, <1>4, <1>5, <1>6, <1>7, <1>8 DEF Pool!Next

\* Only the emission under the token's lock writes a result, and it looks at
\* the reason in the same step.
LEMMA PoolEmitLooks ==
  ASSUME Pool!AdapterAssumption, PoolTypes, [Pool!Next]_(Pool!vars), NEW r \in Pooled,
         reason[r] # None, poolReply'[r] # poolReply[r]
  PROVE  poolReply'[r] \notin {"result", "error"}
<1> USE DEF Pool!AdapterAssumption, PoolTypes, PoolReplies, Pool!Goto, Pool!Raise, Pool!token,
       Pool!client
<1>1. CASE UNCHANGED poolReply
  BY <1>1
<1>2. ASSUME NEW s \in Pooled, Pool!Handle(s) PROVE poolReply'[r] \notin {"result", "error"}
  BY <1>2 DEF Pool!Handle
<1>3. ASSUME NEW s \in Pooled, Pool!Refused(s) \/ Pool!Report(s) PROVE poolReply'[r] \notin {"result", "error"}
  BY <1>3 DEF Pool!Refused, Pool!Report
<1>4. ASSUME NEW s \in Pooled, Pool!Emit(s) PROVE poolReply'[r] \notin {"result", "error"}
  BY <1>4 DEF Pool!Emit
<1>5. ASSUME NEW s \in Pooled,
             Pool!Cancel(s) \/ Pool!TimesOut(s) \/ Pool!Work(s) \/ Pool!Preflight(s) \/ Pool!PreflightRefuses(s)
               \/ Pool!Connect(s)
      PROVE  poolReply'[r] \notin {"result", "error"}
  BY <1>1, <1>5 DEF Pool!Cancel, Pool!TimesOut, Pool!Work, Pool!Preflight, Pool!Connect, Pool!Steps,
     Pool!PreflightRefuses
<1>6. ASSUME NEW s \in Pooled,
             Pool!Send(s) \/ Pool!SendBody(s) \/ Pool!Receive(s) \/ Pool!Fails(s) \/ Pool!Silence(s)
               \/ Pool!Pop(s)
      PROVE  poolReply'[r] \notin {"result", "error"}
  BY <1>1, <1>6 DEF Pool!Send, Pool!SendBody, Pool!Receive, Pool!Fails, Pool!Silence, Pool!Pop
<1>7. ASSUME Pool!Shutdown \/ Pool!Joined \/ UNCHANGED Pool!vars PROVE poolReply'[r] \notin {"result", "error"}
  BY <1>1, <1>7 DEF Pool!Shutdown, Pool!Joined, Pool!vars
<1> QED
  BY <1>2, <1>3, <1>4, <1>5, <1>6, <1>7 DEF Pool!Next

\* Once a cancellation was taken the client sees no result of that request,
\* however close it was to being written (_ModernPending.emit).
THEOREM PoolCancelledHasNoResult ==
  ASSUME Pool!AdapterAssumption PROVE Pool!Spec => Pool!NoResultAfterCancel
<1>1. Pool!Init => PoolTokenInv
  BY DEF Pool!Init, PoolTokenInv
<1>2. PoolTypes /\ PoolTokenInv /\ [Pool!Next]_(Pool!vars) => PoolTokenInv'
  BY PoolTokenStep
<1>3. PoolTypes /\ PoolTokenInv /\ [Pool!Next]_(Pool!vars)
        => [\A r \in poolWithdrawn : poolReply'[r] # poolReply[r]
          => poolReply'[r] \notin {"result", "error"}]_(Pool!vars)
  BY PoolEmitLooks DEF PoolTokenInv
<1> QED
  BY <1>1, <1>2, <1>3, PoolTypesHold, PTL DEF Pool!Spec, Pool!NoResultAfterCancel

-----------------------------------------------------------------------------
(* The adapter of a Streamable HTTP remote: HttpAdapter.                     *)

AdapterAssumption ==
  /\ "get" \notin Calls \cup Notices /\ Remotes \in Nat \ {0}
  /\ None \notin {"get"} \cup Calls \cup Notices

AdapterTypes ==
  /\ session \in 0..Remotes /\ adapterInitialized \in BOOLEAN
  /\ reinit \in Failing!Senders \cup {None}
  /\ adapterPc \in [Failing!Senders -> {"idle", "posts", "streams", "lost", "clears", "reinits", "probes",
                                        "adopts", "abandons", "retries", "done"}]
  /\ used \in [Failing!Senders -> 0..Remotes] /\ adapterGot \in [Failing!Senders -> 0..Remotes]
  /\ retried \subseteq Calls
  /\ made \in 0..Remotes /\ live \subseteq 1..made
  /\ adapterMain \in {"starts", "runs", "deletes", "ended"} /\ deleting \in 0..Remotes
  /\ executed \in [Calls -> Nat] /\ answered \in [Calls -> Nat]

\* Whoever holds the lock of the re-initialization found no session, and nobody
\* else makes one; whoever is about to give a session up used one that the
\* remote has forgotten.
AdapterSessionInv ==
  /\ session <= made /\ (~adapterInitialized => session = 0)
  /\ adapterMain = "starts" => session = 0 /\ made = 0 /\ \A x \in Failing!Senders : adapterPc[x] = "idle"
  /\ reinit # None => adapterPc[reinit] \in {"probes", "adopts", "abandons"}
  /\ \A x \in Failing!Senders :
       /\ used[x] <= made
       /\ adapterPc[x] \in {"lost", "clears"} => used[x] \notin live
       /\ adapterPc[x] \in {"probes", "adopts", "abandons"} => reinit = x /\ session = 0
       /\ adapterPc[x] = "adopts" => adapterGot[x] \in 1..made

\* A call that is not over was neither executed nor answered.
AdapterCallInv ==
  \A c \in Calls :
    /\ executed[c] <= 1 /\ answered[c] <= 1
    /\ adapterPc[c] # "done" => executed[c] = 0 /\ answered[c] = 0

AdapterInv == AdapterTypes /\ AdapterSessionInv /\ AdapterCallInv

\* What one sender does.
AdapterActs(x) ==
  \/ Failing!Begin(x) \/ Failing!Served(x) \/ Failing!Failed(x) \/ Failing!SessionGone(x)
  \/ Failing!Compare(x) \/ Failing!Clear(x) \/ Failing!Reinitialize(x) \/ Failing!Probe(x)
  \/ Failing!Adopt(x) \/ Failing!Abandon(x) \/ Failing!Retry(x)

LEMMA AdapterInitial == ASSUME AdapterAssumption, Failing!Init PROVE AdapterInv
<1>1. AdapterTypes
  <2>1. 0 \in 0..Remotes /\ live \subseteq 1..made
    BY DEF AdapterAssumption, Failing!Init
  <2> QED
    BY <2>1 DEF Failing!Init, AdapterTypes
<1>2. AdapterSessionInv
  BY DEF AdapterAssumption, Failing!Init, AdapterSessionInv, Failing!Senders
<1>3. AdapterCallInv
  BY DEF AdapterAssumption, Failing!Init, AdapterCallInv, Failing!Senders
<1> QED
  BY <1>1, <1>2, <1>3 DEF AdapterInv

LEMMA AdapterTyped == ASSUME AdapterAssumption, AdapterInv PROVE Failing!TypeOK
<1>1. (reinit # None) <=> \E x \in Failing!Senders : adapterPc[x] \in {"probes", "adopts", "abandons"}
  BY DEF AdapterAssumption, AdapterInv, AdapterTypes, AdapterSessionInv, Failing!Senders
<1>2. (reinit # None) = (\E x \in Failing!Senders : adapterPc[x] \in {"probes", "adopts", "abandons"})
  BY <1>1, Zenon
<1> QED
  BY <1>2 DEF AdapterInv, AdapterTypes, Failing!TypeOK

\* The step of a sender changes the entries of that sender and of no other.
LEMMA AdapterActorStep ==
  ASSUME AdapterAssumption, AdapterInv, NEW x \in Failing!Senders, AdapterActs(x)
  PROVE  AdapterTypes' /\ AdapterSessionInv' /\ AdapterCallInv'
<1> USE DEF AdapterAssumption, AdapterInv, AdapterTypes, AdapterSessionInv, AdapterCallInv, Failing!Goto,
            Failing!client, Failing!remote, Failing!ghosts, Failing!reader
<1>s. Calls \subseteq Failing!Senders /\ "get" \in Failing!Senders /\ None \notin Failing!Senders
      /\ "get" \notin Calls
  BY DEF Failing!Senders
<1>1. CASE Failing!Begin(x)
  BY <1>1, <1>s DEF Failing!Begin
<1>2. CASE Failing!Served(x)
  BY <1>2, <1>s DEF Failing!Served, Failing!Executed, Failing!Answered
<1>3. CASE Failing!Failed(x)
  BY <1>3, <1>s DEF Failing!Failed, Failing!Executed, Failing!Answered
<1>4. CASE Failing!SessionGone(x)
  BY <1>4, <1>s DEF Failing!SessionGone, Failing!Answered
<1>5. CASE Failing!Compare(x)
  BY <1>5, <1>s DEF Failing!Compare
<1>6. CASE Failing!Clear(x)
  <2>1. 0 \in 0..Remotes /\ (session' = session \/ session' = 0)
    BY <1>6 DEF Failing!Clear
  <2>2. AdapterTypes'
    BY <1>6, <2>1 DEF Failing!Clear
  <2>3. AdapterSessionInv'
    BY <1>6, <1>s, <2>1 DEF Failing!Clear
  <2>4. AdapterCallInv'
    BY <1>6, <1>s DEF Failing!Clear
  <2> QED
    BY <2>2, <2>3, <2>4
<1>7. CASE Failing!Reinitialize(x)
  BY <1>7, <1>s DEF Failing!Reinitialize
<1>8. CASE Failing!Probe(x)
  <2>1. CASE made < Remotes
    <3>1. made + 1 \in 0..Remotes /\ live \cup {made + 1} \subseteq 1..(made + 1)
      BY <2>1
    <3>e. /\ made' = made + 1 /\ live' = live \cup {made + 1}
          /\ adapterGot' = [adapterGot EXCEPT ![x] = made + 1]
          /\ adapterPc' = [adapterPc EXCEPT ![x] = "adopts"]
          /\ adapterPc[x] = "probes"
          /\ UNCHANGED <<session, adapterInitialized, reinit, used, retried, executed, answered,
                        adapterMain, deleting>>
      BY <1>8, <2>1 DEF Failing!Probe
    <3>2. AdapterTypes'
      BY <3>e, <3>1
    <3>3. AdapterSessionInv'
      BY <3>e, <1>s, <3>1
    <3>4. AdapterCallInv'
      BY <1>8, <1>s, <2>1 DEF Failing!Probe
    <3> QED
      BY <3>2, <3>3, <3>4
  <2>2. CASE ~(made < Remotes)
    <3>e. /\ adapterPc' = [adapterPc EXCEPT ![x] = "abandons"] /\ adapterPc[x] = "probes"
          /\ UNCHANGED <<session, adapterInitialized, reinit, used, adapterGot, retried, executed, answered,
                        made, live, adapterMain, deleting>>
      BY <1>8, <2>2 DEF Failing!Probe
    <3> QED
      BY <3>e, <1>s
  <2> QED
    BY <2>1, <2>2
<1>9. CASE Failing!Adopt(x)
  BY <1>9, <1>s DEF Failing!Adopt
<1>10. CASE Failing!Abandon(x)
  BY <1>10, <1>s DEF Failing!Abandon, Failing!Answered
<1>11. CASE Failing!Retry(x)
  BY <1>11, <1>s DEF Failing!Retry
<1> QED
  BY <1>1, <1>2, <1>3, <1>4, <1>5, <1>6, <1>7, <1>8, <1>9, <1>10, <1>11 DEF AdapterActs

LEMMA AdapterStep ==
  ASSUME AdapterAssumption, AdapterInv, [Failing!Next]_(Failing!vars) PROVE AdapterInv'
<1> USE DEF AdapterAssumption, AdapterInv, AdapterTypes, AdapterSessionInv, AdapterCallInv, Failing!Goto,
            Failing!client, Failing!remote, Failing!ghosts, Failing!reader
<1>s. Calls \subseteq Failing!Senders /\ "get" \in Failing!Senders /\ "get" \notin Calls
  BY DEF Failing!Senders
<1>1. CASE Failing!Initialize
  <2>1. 1 \in 0..Remotes /\ {1} \subseteq 1..1 /\ made = 0
    BY <1>1 DEF Failing!Initialize
  <2>2. AdapterTypes'
    BY <1>1, <2>1 DEF Failing!Initialize
  <2>3. AdapterSessionInv'
    BY <1>1, <1>s, <2>1 DEF Failing!Initialize
  <2> QED
    BY <1>1, <2>2, <2>3 DEF Failing!Initialize
<1>2. CASE Failing!Interrupted
  BY <1>2, <1>s DEF Failing!Interrupted
<1>3. CASE Failing!End \/ Failing!EndDelete
  <2>1. CASE Failing!End
    BY <2>1 DEF Failing!End
  <2>2. CASE Failing!EndDelete
    <3>1. 0 \in 0..Remotes /\ live \ {deleting} \subseteq 1..made
      OBVIOUS
    <3>2. AdapterTypes'
      BY <2>2, <3>1 DEF Failing!EndDelete
    <3>3. AdapterSessionInv'
      BY <2>2, <3>1 DEF Failing!EndDelete
    <3> QED
      BY <2>2, <3>2, <3>3 DEF Failing!EndDelete
  <2> QED
    BY <1>3, <2>1, <2>2
<1>4. ASSUME NEW x \in Failing!Senders, AdapterActs(x) PROVE AdapterInv'
  BY <1>4, AdapterActorStep
<1>5. ASSUME NEW n \in live, Failing!Lose(n) PROVE AdapterInv'
  BY <1>5 DEF Failing!Lose
<1>6. CASE UNCHANGED Failing!vars
  BY <1>6 DEF Failing!vars
<1> QED
  BY <1>1, <1>2, <1>3, <1>4, <1>5, <1>6 DEF Failing!Next, AdapterActs

\* No late 404 of an older session takes a session away that the remote knows,
\* and nobody opens another beside it.
LEMMA AdapterKeepsItsSession ==
  ASSUME AdapterAssumption, AdapterInv, [Failing!Next]_(Failing!vars),
         session \in live, adapterMain = "runs"
  PROVE  session' = session /\ made' = made
<1> USE DEF AdapterAssumption, AdapterInv, AdapterTypes, AdapterSessionInv, Failing!client, Failing!remote
<1>0. session # 0 /\ adapterInitialized
  OBVIOUS
<1>1. ASSUME NEW x \in Failing!Senders, AdapterActs(x) PROVE session' = session /\ made' = made
  <2>1. CASE Failing!Clear(x)
    BY <1>0, <2>1 DEF Failing!Clear
  <2>2. CASE Failing!Reinitialize(x)
    BY <1>0, <2>2 DEF Failing!Reinitialize
  <2>3. CASE Failing!Probe(x) \/ Failing!Adopt(x)
    BY <1>0, <2>3 DEF Failing!Probe, Failing!Adopt
  <2> QED
    BY <1>1, <2>1, <2>2, <2>3 DEF AdapterActs, Failing!Begin, Failing!Served, Failing!Failed,
       Failing!SessionGone, Failing!Compare, Failing!Abandon, Failing!Retry
<1> QED
  BY <1>0, <1>1 DEF Failing!Next, AdapterActs, Failing!Initialize, Failing!Interrupted, Failing!End,
     Failing!EndDelete, Failing!Lose, Failing!vars

\* A remote that only forgets sessions does nothing that one does not that may
\* fail as well.
LEMMA AdapterSteps == Adapter!Next => Failing!Next
<1>a. /\ Adapter!Senders = Failing!Senders
      /\ UNCHANGED Adapter!client <=> UNCHANGED Failing!client
      /\ UNCHANGED Adapter!remote <=> UNCHANGED Failing!remote
      /\ UNCHANGED Adapter!ghosts <=> UNCHANGED Failing!ghosts
      /\ UNCHANGED Adapter!reader <=> UNCHANGED Failing!reader
  BY DEF Adapter!Senders, Failing!Senders, Adapter!client, Failing!client, Adapter!remote, Failing!remote,
     Adapter!ghosts, Failing!ghosts, Adapter!reader, Failing!reader
<1>b. /\ \A x, to : Adapter!Goto(x, to) <=> Failing!Goto(x, to)
      /\ \A x : Adapter!Answered(x) = Failing!Answered(x) /\ Adapter!Executed(x) = Failing!Executed(x)
  BY DEF Adapter!Goto, Failing!Goto, Adapter!Answered, Failing!Answered, Adapter!Executed, Failing!Executed
<1>1. (Adapter!Initialize => Failing!Initialize) /\ (Adapter!Interrupted => Failing!Interrupted)
  BY <1>a, <1>b DEF Adapter!Initialize, Failing!Initialize, Adapter!Interrupted, Failing!Interrupted
<1>2. ~Adapter!End /\ (Adapter!EndDelete => Failing!EndDelete)
  BY <1>a DEF Adapter!End, Adapter!EndDelete, Failing!EndDelete
<1>3. \A x : /\ Adapter!Begin(x) => Failing!Begin(x)
             /\ Adapter!Served(x) => Failing!Served(x)
             /\ ~Adapter!Failed(x)
             /\ Adapter!SessionGone(x) => Failing!SessionGone(x)
  BY <1>a, <1>b DEF Adapter!Begin, Failing!Begin, Adapter!Served, Failing!Served, Adapter!Failed,
     Adapter!SessionGone, Failing!SessionGone
<1>4. \A x : /\ Adapter!Compare(x) => Failing!Compare(x)
             /\ Adapter!Clear(x) => Failing!Clear(x)
             /\ Adapter!Reinitialize(x) => Failing!Reinitialize(x)
  BY <1>a, <1>b DEF Adapter!Compare, Failing!Compare, Adapter!Clear, Failing!Clear,
     Adapter!Reinitialize, Failing!Reinitialize
<1>5. \A x : /\ Adapter!Probe(x) => Failing!Probe(x)
             /\ Adapter!Adopt(x) => Failing!Adopt(x)
             /\ Adapter!Abandon(x) => Failing!Abandon(x)
             /\ Adapter!Retry(x) => Failing!Retry(x)
  BY <1>a, <1>b DEF Adapter!Probe, Failing!Probe, Adapter!Adopt, Failing!Adopt, Adapter!Abandon,
     Failing!Abandon, Adapter!Retry, Failing!Retry
<1>6. \A n : Adapter!Lose(n) => Failing!Lose(n)
  BY <1>a DEF Adapter!Lose, Failing!Lose
<1> QED
  BY <1>a, <1>1, <1>2, <1>3, <1>4, <1>5, <1>6 DEF Adapter!Next, Failing!Next

-----------------------------------------------------------------------------
(* The persistent connector: Connector.                                      *)

ConnAssumption ==
  /\ {"hello", "replayed"} \cap Business = {} /\ Links \in Nat \ {0}
  /\ None \notin {"hello", "replayed"} \cup Business

ConnMessages == Business \cup {"hello"}

ConnTypes ==
  /\ connMain \in {"opens", "waits", "drains", "notes", "marks", "runs", "hands", "over"}
  /\ engine \in {"old", "found", "bare", "new"}
  /\ sess \in 0..Links /\ sock \in 0..Links
  /\ up \in BOOLEAN /\ lost \in BOOLEAN /\ ready \in BOOLEAN
  /\ connReader \in [1..Links -> {"off", "absorbs", "reads", "loses", "over"}]
  /\ conn \in [1..Links -> {"none", "open", "eof", "shut"}]
  /\ fresh \in [1..Links -> SUBSET (ConnMessages \cup {"replayed"})]
  /\ connWriter \in [m : ConnMessages \cup {None},
                     at : {"off", "reads", "took", "queues", "sends", "sent", "noted", "missed", "ends"},
                     s : 0..Links]
  /\ queued \in BOOLEAN /\ cached \in BOOLEAN
  /\ connPending \subseteq ConnMessages /\ uncertain \subseteq ConnMessages
  /\ connFailed \subseteq ConnMessages
  /\ connReached \in [ConnMessages \cup {"replayed"} -> SUBSET (1..Links)]
  /\ connAnswered \in [ConnMessages \cup {"replayed"} -> SUBSET (1..Links)]
  /\ told \in [ConnMessages -> 0..1] /\ errors \in [ConnMessages -> 0..1]
  /\ astray \subseteq ConnMessages

ConnBooks == connPending \cup uncertain

\* The node may still answer x in session s, or the answer is not read yet.
ConnUnread(x, s) == s \in connReached[x] /\ (s \notin connAnswered[x] \/ x \in fresh[s])

\* Nothing became of m: no session has it, and the Agent was told nothing.
ConnUnsent(m) ==
  m \notin ConnBooks /\ errors[m] = 0 /\ told[m] = 0 /\ connReached[m] = {}

\* What is read was answered, what is answered was sent, in a session that was opened.
ConnSentInv ==
  /\ \A x \in ConnMessages \cup {"replayed"} :
       connReached[x] \subseteq 1..sess /\ connAnswered[x] \subseteq connReached[x]
  /\ \A s \in 1..Links : \A x \in fresh[s] : s \in connAnswered[x]
  /\ connMain \in {"waits", "drains", "notes", "marks", "runs", "hands"} => sess > 0
  /\ sock <= sess

\* What a thread has in its hands is in no book, and before it is sent it is new.
ConnWriterInv ==
  /\ IF connWriter.at \in {"took", "queues", "sends"}
       THEN connWriter.m \in ConnMessages /\ ConnUnsent(connWriter.m)
       ELSE IF connWriter.at \in {"sent", "noted", "missed"}
       THEN connWriter.m \in ConnMessages \ ConnBooks /\ errors[connWriter.m] = 0
       ELSE connWriter.m = None
  /\ connWriter.m = "hello" => ~queued /\ connMain # "notes"
  /\ connWriter.at = "queues" => connWriter.m = "hello"
  /\ connWriter.at \in {"sends", "sent", "noted", "missed"} => connWriter.s \in 1..sess
  /\ queued => ConnUnsent("hello")
  /\ connMain = "notes" => ~queued /\ "hello" \notin ConnBooks /\ errors["hello"] = 0

\* A request reaches the node in one session.
ConnReachInv == \A m \in ConnMessages : \A s, t \in connReached[m] : s = t

\* Who is told of a loss is in no book.
ConnBooksInv ==
  \A m \in ConnMessages : (m \in ConnBooks => errors[m] = 0) /\ (m \in connFailed => errors[m] = 1)

\* Unless a request went astray, the loss it was told of is that of its own
\* session, and one that is answered is in no book.
ConnAstrayInv ==
  \A m \in ConnMessages \ astray :
    /\ errors[m] > 0 => told[m] = 0 /\ \A t \in connReached[m] : connReader[t] \notin {"absorbs", "reads"}
    /\ told[m] > 0 => m \notin ConnBooks

\* An answer that is still to come is the first.
ConnUnreadInv == \A m \in Business : \A t \in 1..Links : ConnUnread(m, t) => told[m] = 0

\* Of two answers to the handshake in a session one is absorbed, and there are
\* two in the session the Agent's own was sent in only.
ConnHelloInv ==
  \A t \in 1..Links :
    /\ connReader[t] = "reads" =>
         /\ ~(ConnUnread("hello", t) /\ ConnUnread("replayed", t))
         /\ ConnUnread("replayed", t) => t \in connReached["hello"]
    /\ told["hello"] > 0 /\ t \in connReached["hello"] =>
         /\ connReader[t] # "absorbs"
         /\ connReader[t] = "reads" => ~ConnUnread("hello", t) /\ ~ConnUnread("replayed", t)

ConnInv ==
  /\ ConnTypes /\ ConnSentInv /\ ConnWriterInv /\ ConnReachInv
  /\ ConnBooksInv /\ ConnAstrayInv /\ ConnUnreadInv /\ ConnHelloInv

LEMMA ConnReachedIs ==
  ASSUME ConnAssumption, ConnInv, NEW m \in ConnMessages, NEW s \in 1..Links, s <= sess, ConnUnsent(m),
         connReached' = [connReached EXCEPT ![m] = @ \cup {s}],
         UNCHANGED <<sess, fresh, connAnswered, told, errors, astray, connReader, connPending, uncertain>>
  PROVE  /\ connReached'[m] = {s}
         /\ \A x \in (ConnMessages \cup {"replayed"}) \ {m} : connReached'[x] = connReached[x]
         /\ \A x \in ConnMessages \cup {"replayed"} :
              connReached'[x] \subseteq 1..sess' /\ connAnswered'[x] \subseteq connReached'[x]
         /\ ConnReachInv' /\ ConnAstrayInv' /\ ConnUnreadInv' /\ ConnHelloInv'
<1>t. ConnTypes /\ ConnSentInv /\ ConnReachInv /\ ConnAstrayInv /\ ConnUnreadInv /\ ConnHelloInv
  BY DEF ConnInv
<1>m. ConnMessages = Business \cup {"hello"} /\ "replayed" \notin ConnMessages /\ "hello" \notin Business
  BY DEF ConnMessages, ConnAssumption
<1>1. /\ connReached'[m] = {s}
      /\ \A x \in (ConnMessages \cup {"replayed"}) \ {m} : connReached'[x] = connReached[x]
  BY ONLY <1>t, ConnUnsent(m), connReached' = [connReached EXCEPT ![m] = @ \cup {s}], m \in ConnMessages
  DEF ConnTypes, ConnUnsent
<1>2. \A x \in ConnMessages \cup {"replayed"} :
         connReached'[x] \subseteq 1..sess' /\ connAnswered'[x] \subseteq connReached'[x]
  <2>1. connAnswered[m] = {} /\ connReached[m] = {}
    BY ONLY <1>t, ConnUnsent(m), m \in ConnMessages DEF ConnSentInv, ConnUnsent
  <2>2. s \in 1..sess
    BY ONLY s \in 1..Links, s <= sess, <1>t DEF ConnTypes
  <2> QED
    BY <1>t, <1>1, <2>1, <2>2 DEF ConnSentInv
<1>3. ConnReachInv'
  BY ONLY <1>t, <1>1, m \in ConnMessages DEF ConnReachInv
<1>4. ConnAstrayInv'
  <2>1. errors'[m] = 0 /\ told'[m] = 0
    BY DEF ConnUnsent
  <2> QED
    BY <1>t, <1>1, <2>1 DEF ConnAstrayInv, ConnBooks
<1>5. ConnUnreadInv'
  <2>1. told'[m] = 0
    BY DEF ConnUnsent
  <2> QED
    BY <1>t, <1>m, <1>1, <2>1 DEF ConnUnreadInv, ConnUnread
<1>6. ConnHelloInv'
  <2>1. CASE m = "hello"
    <3>1. told'["hello"] = 0 /\ connReached["hello"] = {} /\ connReached'["replayed"] = connReached["replayed"]
      BY <1>m, <1>1, <2>1 DEF ConnUnsent
    <3>2. ASSUME NEW t \in 1..Links, connReader[t] = "reads" PROVE ~ConnUnread("replayed", t)
      BY <1>t, <3>1, <3>2 DEF ConnHelloInv
    <3> QED
      BY <3>1, <3>2 DEF ConnHelloInv, ConnUnread
  <2>2. CASE m # "hello"
    BY <1>t, <1>m, <1>1, <2>2 DEF ConnHelloInv, ConnUnread
  <2> QED
    BY <2>1, <2>2
<1> QED
  BY <1>1, <1>2, <1>3, <1>4, <1>5, <1>6

LEMMA ConnTakeStep ==
  ASSUME ConnAssumption, ConnInv, NEW m \in ConnMessages, Conn!Take(m)
  PROVE  ConnInv'
<1>e. UNCHANGED <<connMain, engine, sess, ready, sock, up, lost, connReader, conn, connPending, uncertain, connFailed, fresh, connReached, connAnswered, queued, told, errors, astray>>
  BY DEF Conn!Take, Conn!mainVars, Conn!sessVars, Conn!bookVars, Conn!nodeVars, Conn!agentVars
<1>m. ConnUnsent(m) /\ (m = "hello" => ~queued /\ connMain # "notes") /\ connWriter.at = "reads"
  BY DEF ConnInv, ConnTypes, Conn!Take, Conn!Seen, Conn!Books, ConnBooks, ConnUnsent
<1>w. connWriter' = [m |-> m, at |-> "took", s |-> 0]
  BY DEF Conn!Take, Conn!Idle
<1>1. ConnTypes'
  <2>1. connWriter' \in [m : ConnMessages \cup {None},
             at : {"off", "reads", "took", "queues", "sends", "sent", "noted", "missed", "ends"}, s : 0..Links]
    BY <1>w DEF ConnInv, ConnTypes, ConnAssumption
  <2>2. cached' \in BOOLEAN
    BY DEF ConnInv, ConnAssumption, ConnTypes, Conn!Take, ConnMessages, Conn!Messages, Conn!Lines, Conn!Sessions, Conn!Idle, Conn!Books, Conn!Greets, Conn!RequestOf, Conn!Scanning, Conn!Seen
  <2> QED
    BY <1>e, <2>1, <2>2 DEF ConnInv, ConnTypes
<1>2. ConnSentInv'
  BY <1>e DEF ConnInv, ConnSentInv
<1>3. ConnWriterInv'
  BY <1>e DEF ConnInv, Conn!Take, ConnAssumption, ConnTypes, ConnWriterInv, ConnUnsent, ConnBooks, ConnMessages, Conn!Messages, Conn!Lines, Conn!Sessions, Conn!Idle, Conn!Books, Conn!Greets, Conn!RequestOf, Conn!Scanning, Conn!Seen
<1>4. ConnReachInv'
  BY <1>e DEF ConnInv, ConnReachInv
<1>5. ConnBooksInv'
  BY <1>e DEF ConnInv, ConnBooksInv, ConnBooks
<1>6. ConnAstrayInv'
  BY <1>e DEF ConnInv, ConnAstrayInv, ConnBooks
<1>7. ConnUnreadInv'
  BY <1>e DEF ConnInv, ConnUnreadInv, ConnUnread
<1>8. ConnHelloInv'
  BY <1>e DEF ConnInv, ConnHelloInv, ConnUnread
<1> QED
  BY <1>1, <1>2, <1>3, <1>4, <1>5, <1>6, <1>7, <1>8 DEF ConnInv

LEMMA ConnRouteStep ==
  ASSUME ConnAssumption, ConnInv, Conn!Route
  PROVE  ConnInv'
<1>e. UNCHANGED <<connMain, engine, sess, ready, sock, up, lost, connReader, conn, connPending, uncertain, fresh, connReached, connAnswered, queued, cached, told, astray>>
  BY DEF Conn!Route, Conn!mainVars, Conn!sessVars, Conn!bookVars, Conn!nodeVars, Conn!agentVars
<1>m. connWriter.at = "took" /\ connWriter.m \in ConnMessages /\ ConnUnsent(connWriter.m)
  BY DEF ConnInv, ConnWriterInv, Conn!Route
<1>b. connWriter.m \notin connFailed
  BY <1>m DEF ConnInv, ConnBooksInv, ConnUnsent
<1>f. \/ /\ up /\ sock # 0 /\ connWriter' = [connWriter EXCEPT !.at = "sends", !.s = sock]
         /\ UNCHANGED <<connFailed, errors>>
      \/ connWriter.m = "hello" /\ connWriter' = [connWriter EXCEPT !.at = "queues"] /\ UNCHANGED <<connFailed, errors>>
      \/ /\ connWriter.m # "hello" /\ connWriter' = [m |-> None, at |-> "reads", s |-> 0]
         /\ connFailed' = connFailed \cup {connWriter.m} /\ errors'[connWriter.m] = 1
         /\ \A m \in ConnMessages \ {connWriter.m} : errors'[m] = errors[m]
  BY <1>m, <1>b DEF ConnInv, ConnTypes, Conn!Route, Conn!FailOnce, Conn!Messages, ConnMessages, ConnUnsent, Conn!Idle
<1>w. \/ connWriter'.m = connWriter.m /\ connWriter'.at = "sends" /\ connWriter'.s \in 1..sess /\ UNCHANGED errors
      \/ connWriter.m = "hello" /\ connWriter'.m = "hello" /\ connWriter'.at = "queues" /\ UNCHANGED errors
      \/ /\ connWriter.m # "hello" /\ connWriter'.m = None /\ connWriter'.at = "reads"
         /\ \A m \in ConnMessages \ {connWriter.m} : errors'[m] = errors[m]
  <2>1. up /\ sock # 0 => sock \in 1..sess
    BY DEF ConnInv, ConnTypes, ConnSentInv, ConnAssumption
  <2>2. connWriter \in [m : ConnMessages \cup {None},
             at : {"off", "reads", "took", "queues", "sends", "sent", "noted", "missed", "ends"}, s : 0..Links]
    BY DEF ConnInv, ConnTypes
  <2>3. connWriter' = [connWriter EXCEPT !.at = "sends", !.s = sock] =>
          connWriter'.m = connWriter.m /\ connWriter'.at = "sends" /\ connWriter'.s = sock
    BY ONLY <2>2
  <2>4. connWriter' = [connWriter EXCEPT !.at = "queues"] =>
          connWriter'.m = connWriter.m /\ connWriter'.at = "queues" /\ connWriter'.s = connWriter.s
    BY ONLY <2>2
  <2>5. connWriter' = [m |-> None, at |-> "reads", s |-> 0] => connWriter'.m = None /\ connWriter'.at = "reads"
    BY ONLY TRUE
  <2> QED
    BY ONLY <1>f, <2>1, <2>3, <2>4, <2>5
<1>1. ConnTypes'
  <2>1. connWriter' \in [m : ConnMessages \cup {None},
             at : {"off", "reads", "took", "queues", "sends", "sent", "noted", "missed", "ends"}, s : 0..Links]
    <3>1. connWriter \in [m : ConnMessages \cup {None},
               at : {"off", "reads", "took", "queues", "sends", "sent", "noted", "missed", "ends"}, s : 0..Links]
      BY DEF ConnInv, ConnTypes
    <3>2. sock \in 0..Links /\ 0 \in 0..Links
      BY DEF ConnInv, ConnTypes, ConnAssumption
    <3>3. \/ connWriter' = [connWriter EXCEPT !.at = "sends", !.s = sock]
          \/ connWriter' = [connWriter EXCEPT !.at = "queues"]
          \/ connWriter' = [m |-> None, at |-> "reads", s |-> 0]
      BY ONLY <1>f
    <3>4. CASE connWriter' = [connWriter EXCEPT !.at = "sends", !.s = sock]
      BY ONLY <3>1, <3>2, <3>4
    <3>5. CASE connWriter' = [connWriter EXCEPT !.at = "queues"]
      BY ONLY <3>1, <3>5
    <3>6. CASE connWriter' = [m |-> None, at |-> "reads", s |-> 0]
      BY ONLY <3>2, <3>6
    <3> QED
      BY ONLY <3>3, <3>4, <3>5, <3>6
  <2>2. connFailed' \subseteq ConnMessages
    BY <1>m, <1>f DEF ConnInv, ConnTypes
  <2>3. errors' \in [ConnMessages -> 0..1]
    BY <1>m, <1>b DEF ConnInv, ConnTypes, Conn!Route, Conn!FailOnce, Conn!Messages, ConnMessages, ConnUnsent
  <2> QED
    BY <1>e, <2>1, <2>2, <2>3 DEF ConnInv, ConnTypes
<1>2. ConnSentInv'
  BY <1>e DEF ConnInv, ConnSentInv
<1>3. ConnWriterInv'
  <2>1. "hello" \in ConnMessages /\ None # "hello"
    BY DEF ConnMessages, ConnAssumption
  <2> QED
    BY <1>e, <1>m, <1>w, <2>1 DEF ConnInv, ConnWriterInv, ConnUnsent, ConnBooks
<1>4. ConnReachInv'
  BY <1>e DEF ConnInv, ConnReachInv
<1>5. ConnBooksInv'
  BY <1>e, <1>m, <1>f DEF ConnInv, ConnBooksInv, ConnBooks, ConnUnsent
<1>6. ConnAstrayInv'
  BY <1>e, <1>m, <1>f DEF ConnInv, ConnAstrayInv, ConnBooks, ConnUnsent
<1>7. ConnUnreadInv'
  BY <1>e DEF ConnInv, ConnUnreadInv, ConnUnread
<1>8. ConnHelloInv'
  BY <1>e DEF ConnInv, ConnHelloInv, ConnUnread
<1> QED
  BY <1>1, <1>2, <1>3, <1>4, <1>5, <1>6, <1>7, <1>8 DEF ConnInv

LEMMA ConnQueueStep ==
  ASSUME ConnAssumption, ConnInv, Conn!Queue
  PROVE  ConnInv'
<1>e. UNCHANGED <<connMain, engine, sess, ready, sock, up, lost, connReader, conn, connPending, uncertain, connFailed, fresh, connReached, connAnswered, cached, told, errors>>
  BY DEF Conn!Queue, Conn!mainVars, Conn!sessVars, Conn!bookVars, Conn!nodeVars, Conn!agentVars
<1>m. connWriter.m \in ConnMessages
  BY DEF ConnInv, ConnWriterInv, Conn!Queue
<1>1. ConnTypes'
  <2>1. connWriter' \in [m : ConnMessages \cup {None},
             at : {"off", "reads", "took", "queues", "sends", "sent", "noted", "missed", "ends"}, s : 0..Links]
    BY DEF ConnInv, ConnAssumption, ConnTypes, Conn!Queue, ConnMessages, Conn!Messages, Conn!Lines, Conn!Sessions, Conn!Idle, Conn!Books, Conn!Greets, Conn!RequestOf, Conn!Scanning, Conn!Seen
  <2>2. queued' \in BOOLEAN
    BY DEF ConnInv, ConnAssumption, ConnTypes, Conn!Queue, ConnMessages, Conn!Messages, Conn!Lines, Conn!Sessions, Conn!Idle, Conn!Books, Conn!Greets, Conn!RequestOf, Conn!Scanning, Conn!Seen
  <2>3. astray' \subseteq ConnMessages
    BY <1>m DEF ConnInv, ConnTypes, Conn!Queue
  <2> QED
    BY <1>e, <2>1, <2>2, <2>3 DEF ConnInv, ConnTypes
<1>2. ConnSentInv'
  BY <1>e DEF ConnInv, ConnSentInv
<1>3. ConnWriterInv'
  BY <1>e DEF ConnInv, Conn!Queue, ConnAssumption, ConnTypes, ConnWriterInv, ConnUnsent, ConnBooks, ConnMessages, Conn!Messages, Conn!Lines, Conn!Sessions, Conn!Idle, Conn!Books, Conn!Greets, Conn!RequestOf, Conn!Scanning, Conn!Seen
<1>4. ConnReachInv'
  BY <1>e DEF ConnInv, ConnReachInv
<1>5. ConnBooksInv'
  BY <1>e DEF ConnInv, ConnBooksInv, ConnBooks
<1>6. ConnAstrayInv'
  BY <1>e DEF ConnInv, Conn!Queue, ConnAssumption, ConnTypes, ConnAstrayInv, ConnBooks, ConnMessages, Conn!Messages, Conn!Lines, Conn!Sessions, Conn!Idle, Conn!Books, Conn!Greets, Conn!RequestOf, Conn!Scanning, Conn!Seen
<1>7. ConnUnreadInv'
  BY <1>e DEF ConnInv, ConnUnreadInv, ConnUnread
<1>8. ConnHelloInv'
  BY <1>e DEF ConnInv, ConnHelloInv, ConnUnread
<1> QED
  BY <1>1, <1>2, <1>3, <1>4, <1>5, <1>6, <1>7, <1>8 DEF ConnInv

LEMMA ConnSendStep ==
  ASSUME ConnAssumption, ConnInv, Conn!Send
  PROVE  ConnInv'
<1>e. UNCHANGED <<connMain, engine, sess, ready, sock, up, lost, connReader, conn, connPending, uncertain, connFailed, fresh, connAnswered, queued, cached, told, errors, astray>>
  BY DEF Conn!Send, Conn!mainVars, Conn!sessVars, Conn!bookVars, Conn!nodeVars, Conn!agentVars
<1>m. /\ connWriter.at = "sends" /\ connWriter.m \in ConnMessages /\ ConnUnsent(connWriter.m)
      /\ connWriter.s \in 1..Links /\ connWriter.s <= sess /\ sess \in 0..Links
      /\ (connWriter.m = "hello" => ~queued /\ connMain # "notes")
  BY DEF ConnInv, ConnTypes, ConnWriterInv, Conn!Send
<1>f. \/ connReached' = [connReached EXCEPT ![connWriter.m] = @ \cup {connWriter.s}]
      \/ UNCHANGED connReached
  BY DEF Conn!Send
<1>w. \E at \in {"sent", "missed"} : connWriter' = [connWriter EXCEPT !.at = at]
  BY DEF Conn!Send
<1>x. connWriter'.m = connWriter.m /\ connWriter'.s = connWriter.s /\ connWriter'.at \in {"sent", "missed"}
  BY <1>w DEF ConnInv, ConnTypes
<1>g. \/ /\ connReached'[connWriter.m] = {connWriter.s}
         /\ \A x \in (ConnMessages \cup {"replayed"}) \ {connWriter.m} : connReached'[x] = connReached[x]
         /\ \A x \in ConnMessages \cup {"replayed"} :
              connReached'[x] \subseteq 1..sess' /\ connAnswered'[x] \subseteq connReached'[x]
         /\ ConnReachInv' /\ ConnAstrayInv' /\ ConnUnreadInv' /\ ConnHelloInv'
      \/ UNCHANGED connReached
  BY <1>e, <1>m, <1>f, ConnReachedIs
<1>1. ConnTypes'
  <2>1. connWriter' \in [m : ConnMessages \cup {None},
             at : {"off", "reads", "took", "queues", "sends", "sent", "noted", "missed", "ends"}, s : 0..Links]
    BY DEF ConnInv, ConnAssumption, ConnTypes, Conn!Send, ConnMessages, Conn!Messages, Conn!Lines, Conn!Sessions, Conn!Idle, Conn!Books, Conn!Greets, Conn!RequestOf, Conn!Scanning, Conn!Seen
  <2>2. connReached' \in [ConnMessages \cup {"replayed"} -> SUBSET (1..Links)]
    BY <1>m, <1>f DEF ConnInv, ConnTypes
  <2> QED
    BY <1>e, <2>1, <2>2 DEF ConnInv, ConnTypes
<1>2. ConnSentInv'
  BY <1>e, <1>g DEF ConnInv, ConnSentInv
<1>3. ConnWriterInv'
  <2>1. queued => ConnUnsent("hello")'
    BY <1>e, <1>m, <1>g DEF ConnInv, ConnWriterInv, ConnUnsent, ConnBooks, ConnMessages
  <2> QED
    BY <1>e, <1>m, <1>x, <2>1 DEF ConnInv, ConnWriterInv, ConnUnsent, ConnBooks
<1>4. ConnReachInv'
  BY <1>e, <1>g DEF ConnInv, ConnReachInv
<1>5. ConnBooksInv'
  BY <1>e DEF ConnInv, ConnBooksInv, ConnBooks
<1>6. ConnAstrayInv'
  BY <1>e, <1>g DEF ConnInv, ConnAstrayInv, ConnBooks
<1>7. ConnUnreadInv'
  BY <1>e, <1>g DEF ConnInv, ConnUnreadInv, ConnUnread
<1>8. ConnHelloInv'
  BY <1>e, <1>g DEF ConnInv, ConnHelloInv, ConnUnread
<1> QED
  BY <1>1, <1>2, <1>3, <1>4, <1>5, <1>6, <1>7, <1>8 DEF ConnInv

LEMMA ConnLookStep ==
  ASSUME ConnAssumption, ConnInv, Conn!Look
  PROVE  ConnInv'
<1>e. UNCHANGED <<connMain, engine, sess, ready, sock, up, lost, connReader, conn, connPending, uncertain, connFailed, fresh, connReached, connAnswered, queued, cached, told, errors, astray>>
  BY DEF Conn!Look, Conn!mainVars, Conn!sessVars, Conn!bookVars, Conn!nodeVars, Conn!agentVars
<1>1. ConnTypes'
  <2>1. connWriter' \in [m : ConnMessages \cup {None},
             at : {"off", "reads", "took", "queues", "sends", "sent", "noted", "missed", "ends"}, s : 0..Links]
    BY DEF ConnInv, ConnAssumption, ConnTypes, Conn!Look, ConnMessages, Conn!Messages, Conn!Lines, Conn!Sessions, Conn!Idle, Conn!Books, Conn!Greets, Conn!RequestOf, Conn!Scanning, Conn!Seen
  <2> QED
    BY <1>e, <2>1 DEF ConnInv, ConnTypes
<1>2. ConnSentInv'
  BY <1>e DEF ConnInv, ConnSentInv
<1>3. ConnWriterInv'
  BY <1>e DEF ConnInv, Conn!Look, ConnAssumption, ConnTypes, ConnWriterInv, ConnUnsent, ConnBooks, ConnMessages, Conn!Messages, Conn!Lines, Conn!Sessions, Conn!Idle, Conn!Books, Conn!Greets, Conn!RequestOf, Conn!Scanning, Conn!Seen
<1>4. ConnReachInv'
  BY <1>e DEF ConnInv, ConnReachInv
<1>5. ConnBooksInv'
  BY <1>e DEF ConnInv, ConnBooksInv, ConnBooks
<1>6. ConnAstrayInv'
  BY <1>e DEF ConnInv, ConnAstrayInv, ConnBooks
<1>7. ConnUnreadInv'
  BY <1>e DEF ConnInv, ConnUnreadInv, ConnUnread
<1>8. ConnHelloInv'
  BY <1>e DEF ConnInv, ConnHelloInv, ConnUnread
<1> QED
  BY <1>1, <1>2, <1>3, <1>4, <1>5, <1>6, <1>7, <1>8 DEF ConnInv

LEMMA ConnNotesStep ==
  ASSUME ConnAssumption, ConnInv, Conn!Notes
  PROVE  ConnInv'
<1>e. UNCHANGED <<connMain, engine, sess, ready, sock, up, lost, connReader, conn, connFailed, fresh, connReached, connAnswered, queued, cached, told, errors>>
  BY DEF Conn!Notes, Conn!mainVars, Conn!sessVars, Conn!bookVars, Conn!nodeVars, Conn!agentVars
<1>m. connWriter.m \in ConnMessages /\ errors[connWriter.m] = 0
  BY DEF ConnInv, ConnWriterInv, Conn!Notes
<1>b. ConnBooks' \subseteq ConnBooks \cup {connWriter.m}
  BY DEF Conn!Notes, ConnBooks
<1>1. ConnTypes'
  <2>1. connWriter' \in [m : ConnMessages \cup {None},
             at : {"off", "reads", "took", "queues", "sends", "sent", "noted", "missed", "ends"}, s : 0..Links]
    BY DEF ConnInv, ConnAssumption, ConnTypes, Conn!Notes, Conn!Strays, ConnMessages, Conn!Messages, Conn!Lines, Conn!Sessions, Conn!Idle, Conn!Books, Conn!Greets, Conn!RequestOf, Conn!Scanning, Conn!Seen
  <2>2. connPending' \subseteq ConnMessages
    BY <1>m DEF ConnInv, ConnTypes, Conn!Notes, Conn!Strays
  <2>3. uncertain' \subseteq ConnMessages
    BY <1>m DEF ConnInv, ConnTypes, Conn!Notes, Conn!Strays
  <2>4. astray' \subseteq ConnMessages
    BY <1>m DEF ConnInv, ConnTypes, Conn!Notes, Conn!Strays
  <2> QED
    BY <1>e, <2>1, <2>2, <2>3, <2>4 DEF ConnInv, ConnTypes
<1>2. ConnSentInv'
  BY <1>e DEF ConnInv, ConnSentInv
<1>3. ConnWriterInv'
  BY <1>e DEF ConnInv, Conn!Notes, Conn!Strays, ConnAssumption, ConnTypes, ConnWriterInv, ConnUnsent, ConnBooks, ConnMessages, Conn!Messages, Conn!Lines, Conn!Sessions, Conn!Idle, Conn!Books, Conn!Greets, Conn!RequestOf, Conn!Scanning, Conn!Seen
<1>4. ConnReachInv'
  BY <1>e DEF ConnInv, ConnReachInv
<1>5. ConnBooksInv'
  BY <1>e, <1>m, <1>b DEF ConnInv, ConnBooksInv
<1>6. ConnAstrayInv'
  BY <1>e DEF ConnInv, Conn!Notes, Conn!Strays, ConnAssumption, ConnTypes, ConnAstrayInv, ConnBooks, ConnMessages, Conn!Messages, Conn!Lines, Conn!Sessions, Conn!Idle, Conn!Books, Conn!Greets, Conn!RequestOf, Conn!Scanning, Conn!Seen
<1>7. ConnUnreadInv'
  BY <1>e DEF ConnInv, ConnUnreadInv, ConnUnread
<1>8. ConnHelloInv'
  BY <1>e DEF ConnInv, ConnHelloInv, ConnUnread
<1> QED
  BY <1>1, <1>2, <1>3, <1>4, <1>5, <1>6, <1>7, <1>8 DEF ConnInv

LEMMA ConnStdinEndsStep ==
  ASSUME ConnAssumption, ConnInv, Conn!StdinEnds
  PROVE  ConnInv'
<1>e. UNCHANGED <<connMain, engine, sess, ready, sock, up, lost, connReader, conn, connPending, uncertain, connFailed, fresh, connReached, connAnswered, queued, cached, told, errors, astray>>
  BY DEF Conn!StdinEnds, Conn!mainVars, Conn!sessVars, Conn!bookVars, Conn!nodeVars, Conn!agentVars
<1>1. ConnTypes'
  <2>1. connWriter' \in [m : ConnMessages \cup {None},
             at : {"off", "reads", "took", "queues", "sends", "sent", "noted", "missed", "ends"}, s : 0..Links]
    BY DEF ConnInv, ConnAssumption, ConnTypes, Conn!StdinEnds, ConnMessages, Conn!Messages, Conn!Lines, Conn!Sessions, Conn!Idle, Conn!Books, Conn!Greets, Conn!RequestOf, Conn!Scanning, Conn!Seen
  <2> QED
    BY <1>e, <2>1 DEF ConnInv, ConnTypes
<1>2. ConnSentInv'
  BY <1>e DEF ConnInv, ConnSentInv
<1>3. ConnWriterInv'
  BY <1>e DEF ConnInv, Conn!StdinEnds, ConnAssumption, ConnTypes, ConnWriterInv, ConnUnsent, ConnBooks, ConnMessages, Conn!Messages, Conn!Lines, Conn!Sessions, Conn!Idle, Conn!Books, Conn!Greets, Conn!RequestOf, Conn!Scanning, Conn!Seen
<1>4. ConnReachInv'
  BY <1>e DEF ConnInv, ConnReachInv
<1>5. ConnBooksInv'
  BY <1>e DEF ConnInv, ConnBooksInv, ConnBooks
<1>6. ConnAstrayInv'
  BY <1>e DEF ConnInv, ConnAstrayInv, ConnBooks
<1>7. ConnUnreadInv'
  BY <1>e DEF ConnInv, ConnUnreadInv, ConnUnread
<1>8. ConnHelloInv'
  BY <1>e DEF ConnInv, ConnHelloInv, ConnUnread
<1> QED
  BY <1>1, <1>2, <1>3, <1>4, <1>5, <1>6, <1>7, <1>8 DEF ConnInv

LEMMA ConnAnswersStep ==
  ASSUME ConnAssumption, ConnInv, NEW x \in ConnMessages \cup {"replayed"}, NEW s \in 1..Links, Conn!Answers(x, s)
  PROVE  ConnInv'
<1>e. UNCHANGED <<connMain, engine, sess, ready, sock, up, lost, connReader, conn, connPending, uncertain, connFailed, connReached, connWriter, queued, cached, told, errors, astray>>
  BY DEF Conn!Answers, Conn!mainVars, Conn!sessVars, Conn!bookVars, Conn!nodeVars, Conn!agentVars
<1>1. ConnTypes'
  <2>1. fresh' \in [1..Links -> SUBSET (ConnMessages \cup {"replayed"})]
    BY DEF ConnInv, ConnAssumption, ConnTypes, Conn!Answers, ConnMessages, Conn!Messages, Conn!Lines, Conn!Sessions, Conn!Idle, Conn!Books, Conn!Greets, Conn!RequestOf, Conn!Scanning, Conn!Seen
  <2>2. connAnswered' \in [ConnMessages \cup {"replayed"} -> SUBSET (1..Links)]
    BY DEF ConnInv, ConnAssumption, ConnTypes, Conn!Answers, ConnMessages, Conn!Messages, Conn!Lines, Conn!Sessions, Conn!Idle, Conn!Books, Conn!Greets, Conn!RequestOf, Conn!Scanning, Conn!Seen
  <2> QED
    BY <1>e, <2>1, <2>2 DEF ConnInv, ConnTypes
<1>2. ConnSentInv'
  BY <1>e DEF ConnInv, Conn!Answers, ConnAssumption, ConnTypes, ConnSentInv, ConnMessages, Conn!Messages, Conn!Lines, Conn!Sessions, Conn!Idle, Conn!Books, Conn!Greets, Conn!RequestOf, Conn!Scanning, Conn!Seen
<1>3. ConnWriterInv'
  BY <1>e DEF ConnInv, ConnWriterInv, ConnUnsent, ConnBooks
<1>4. ConnReachInv'
  BY <1>e DEF ConnInv, ConnReachInv
<1>5. ConnBooksInv'
  BY <1>e DEF ConnInv, ConnBooksInv, ConnBooks
<1>6. ConnAstrayInv'
  BY <1>e DEF ConnInv, ConnAstrayInv, ConnBooks
<1>7. ConnUnreadInv'
  BY <1>e DEF ConnInv, Conn!Answers, ConnAssumption, ConnTypes, ConnUnreadInv, ConnUnread, ConnMessages, Conn!Messages, Conn!Lines, Conn!Sessions, Conn!Idle, Conn!Books, Conn!Greets, Conn!RequestOf, Conn!Scanning, Conn!Seen
<1>8. ConnHelloInv'
  BY <1>e DEF ConnInv, Conn!Answers, ConnAssumption, ConnTypes, ConnHelloInv, ConnUnread, ConnMessages, Conn!Messages, Conn!Lines, Conn!Sessions, Conn!Idle, Conn!Books, Conn!Greets, Conn!RequestOf, Conn!Scanning, Conn!Seen
<1> QED
  BY <1>1, <1>2, <1>3, <1>4, <1>5, <1>6, <1>7, <1>8 DEF ConnInv

LEMMA ConnNodeClosesStep ==
  ASSUME ConnAssumption, ConnInv, NEW s \in 1..Links, Conn!NodeCloses(s)
  PROVE  ConnInv'
<1>e. UNCHANGED <<connMain, engine, sess, ready, sock, up, lost, connReader, connPending, uncertain, connFailed, fresh, connReached, connAnswered, connWriter, queued, cached, told, errors, astray>>
  BY DEF Conn!NodeCloses, Conn!mainVars, Conn!sessVars, Conn!bookVars, Conn!nodeVars, Conn!agentVars
<1>1. ConnTypes'
  <2>1. conn' \in [1..Links -> {"none", "open", "eof", "shut"}]
    BY DEF ConnInv, ConnAssumption, ConnTypes, Conn!NodeCloses, ConnMessages, Conn!Messages, Conn!Lines, Conn!Sessions, Conn!Idle, Conn!Books, Conn!Greets, Conn!RequestOf, Conn!Scanning, Conn!Seen
  <2> QED
    BY <1>e, <2>1 DEF ConnInv, ConnTypes
<1>2. ConnSentInv'
  BY <1>e DEF ConnInv, ConnSentInv
<1>3. ConnWriterInv'
  BY <1>e DEF ConnInv, ConnWriterInv, ConnUnsent, ConnBooks
<1>4. ConnReachInv'
  BY <1>e DEF ConnInv, ConnReachInv
<1>5. ConnBooksInv'
  BY <1>e DEF ConnInv, ConnBooksInv, ConnBooks
<1>6. ConnAstrayInv'
  BY <1>e DEF ConnInv, ConnAstrayInv, ConnBooks
<1>7. ConnUnreadInv'
  BY <1>e DEF ConnInv, ConnUnreadInv, ConnUnread
<1>8. ConnHelloInv'
  BY <1>e DEF ConnInv, ConnHelloInv, ConnUnread
<1> QED
  BY <1>1, <1>2, <1>3, <1>4, <1>5, <1>6, <1>7, <1>8 DEF ConnInv

LEMMA ConnAbsorbsStep ==
  ASSUME ConnAssumption, ConnInv, NEW s \in 1..Links, Conn!Absorbs(s)
  PROVE  ConnInv'
<1>e. UNCHANGED <<connMain, engine, sess, sock, up, lost, conn, connPending, uncertain, connFailed, connReached, connAnswered, connWriter, queued, cached, errors>>
  BY DEF Conn!Absorbs, Conn!mainVars, Conn!sessVars, Conn!bookVars, Conn!nodeVars, Conn!agentVars
<1>p. PICK x \in fresh[s], before \in SUBSET (fresh[s] \cap Business) :
         /\ x \in {"hello", "replayed"}
         /\ fresh' = [fresh EXCEPT ![s] = @ \ (before \cup {x})]
         /\ told' = [m \in Conn!Messages |-> IF m \in before THEN told[m] + 1 ELSE told[m]]
         /\ astray' = astray \cup before
  BY DEF Conn!Absorbs, Conn!Greets
<1>t. ConnTypes /\ ConnSentInv /\ ConnReachInv /\ ConnAstrayInv /\ ConnUnreadInv /\ ConnHelloInv
  BY DEF ConnInv
<1>c. "hello" \notin Business /\ "replayed" \notin Business /\ ConnMessages = Business \cup {"hello"}
  BY DEF ConnAssumption, ConnMessages
<1>m. \A y \in before : s \in connAnswered[y] /\ s \in connReached[y] /\ told[y] = 0 /\ y \in Business
  <2>1. SUFFICES ASSUME NEW y \in before PROVE s \in connAnswered[y] /\ s \in connReached[y] /\ told[y] = 0
    BY <1>p
  <2>2. y \in fresh[s] /\ y \in Business
    BY <1>p
  <2>3. s \in connAnswered[y] /\ s \in connReached[y]
    BY <1>t, <1>c, <2>2 DEF ConnSentInv
  <2>4. ConnUnread(y, s)
    BY <2>2, <2>3 DEF ConnUnread
  <2> QED
    BY <1>t, <2>2, <2>3, <2>4 DEF ConnUnreadInv
<1>x. s \in connAnswered[x] /\ s \in connReached[x]
  BY <1>t, <1>p, <1>c DEF ConnSentInv
<1>f. /\ \A y \in before : told'[y] = 1
      /\ \A y \in ConnMessages \ before : told'[y] = told[y]
      /\ fresh'[s] = fresh[s] \ (before \cup {x})
      /\ \A t \in 1..Links : t # s => fresh'[t] = fresh[t]
  BY <1>p, <1>t, <1>m, <1>c DEF ConnTypes, Conn!Messages
<1>r. /\ connReader[s] = "absorbs" /\ connReader'[s] = "reads"
      /\ \A t \in 1..Links : t # s => connReader'[t] = connReader[t]
  BY <1>t DEF ConnTypes, Conn!Absorbs
<1>u. \A y \in ConnMessages \cup {"replayed"}, t \in 1..Links : ConnUnread(y, t)' => ConnUnread(y, t)
  BY <1>e, <1>f DEF ConnUnread
<1>1. ConnTypes'
  <2>1. fresh' \in [1..Links -> SUBSET (ConnMessages \cup {"replayed"})]
    BY <1>p, <1>t DEF ConnTypes
  <2>2. told' \in [ConnMessages -> 0..1]
    BY <1>p, <1>t, <1>m, <1>c DEF ConnTypes, Conn!Messages
  <2>3. astray' \subseteq ConnMessages
    BY <1>p, <1>t, <1>c DEF ConnTypes
  <2>4. connReader' \in [1..Links -> {"off", "absorbs", "reads", "loses", "over"}]
    BY DEF ConnInv, ConnAssumption, ConnTypes, Conn!Absorbs, ConnMessages, Conn!Messages, Conn!Lines, Conn!Sessions, Conn!Idle, Conn!Books, Conn!Greets, Conn!RequestOf, Conn!Scanning, Conn!Seen
  <2>5. ready' \in BOOLEAN
    BY DEF ConnInv, ConnAssumption, ConnTypes, Conn!Absorbs, ConnMessages, Conn!Messages, Conn!Lines, Conn!Sessions, Conn!Idle, Conn!Books, Conn!Greets, Conn!RequestOf, Conn!Scanning, Conn!Seen
  <2> QED
    BY <1>e, <2>1, <2>2, <2>3, <2>4, <2>5 DEF ConnInv, ConnTypes
<1>2. ConnSentInv'
  BY <1>e, <1>t, <1>f DEF ConnSentInv
<1>3. ConnWriterInv'
  <2>1. \A y \in ConnMessages : ConnUnsent(y) => ConnUnsent(y)'
    BY <1>e, <1>f, <1>m DEF ConnUnsent, ConnBooks
  <2> QED
    BY <1>e, <1>c, <2>1 DEF ConnInv, ConnWriterInv, ConnBooks
<1>4. ConnReachInv'
  BY <1>e DEF ConnInv, ConnReachInv
<1>5. ConnBooksInv'
  BY <1>e DEF ConnInv, ConnBooksInv, ConnBooks
<1>6. ConnAstrayInv'
  <2>1. SUFFICES ASSUME NEW m \in ConnMessages \ astray'
        PROVE  /\ errors'[m] > 0 => told'[m] = 0 /\ \A t \in connReached'[m] : connReader'[t] \notin {"absorbs", "reads"}
               /\ told'[m] > 0 => m \notin ConnBooks'
    BY DEF ConnAstrayInv
  <2>2. m \notin astray /\ m \notin before /\ told'[m] = told[m]
    BY <1>p, <1>f
  <2>3. \A t \in connReached[m] : t \in 1..Links
    BY <1>t DEF ConnTypes
  <2> QED
    BY <1>e, <1>t, <1>r, <2>2, <2>3 DEF ConnAstrayInv, ConnBooks
<1>7. ConnUnreadInv'
  <2>1. SUFFICES ASSUME NEW y \in Business, NEW t \in 1..Links, ConnUnread(y, t)' PROVE told'[y] = 0
    BY DEF ConnUnreadInv
  <2>2. ConnUnread(y, t) /\ told[y] = 0 /\ t \in connReached[y] /\ y \in ConnMessages
    BY <1>t, <1>c, <1>u, <2>1 DEF ConnUnreadInv, ConnUnread
  <2>3. CASE y \in before
    <3>1. t = s
      BY <1>t, <1>m, <2>2, <2>3 DEF ConnReachInv
    <3>2. ~ConnUnread(y, s)'
      BY <1>e, <1>f, <1>m, <2>3 DEF ConnUnread
    <3> QED
      BY <2>1, <3>1, <3>2
  <2> QED
    BY <1>f, <2>2, <2>3
<1>8. ConnHelloInv'
  <2>1. told'["hello"] = told["hello"]
    BY <1>f, <1>m, <1>c
  <2>2. ~ConnUnread(x, s)'
    BY <1>e, <1>f, <1>x DEF ConnUnread
  <2>3. x = "hello" => s \in connReached["hello"]
    BY <1>x
  <2>4. ~(told["hello"] > 0 /\ s \in connReached["hello"])
    BY <1>t, <1>r DEF ConnHelloInv
  <2>5. ASSUME NEW t \in 1..Links, t # s
        PROVE  /\ connReader'[t] = "reads" =>
                    /\ ~(ConnUnread("hello", t)' /\ ConnUnread("replayed", t)')
                    /\ ConnUnread("replayed", t)' => t \in connReached'["hello"]
               /\ told'["hello"] > 0 /\ t \in connReached'["hello"] =>
                    /\ connReader'[t] # "absorbs"
                    /\ connReader'[t] = "reads" => ~ConnUnread("hello", t)' /\ ~ConnUnread("replayed", t)'
    BY <1>e, <1>t, <1>c, <1>r, <1>u, <2>1, <2>5 DEF ConnHelloInv
  <2>6. ~(ConnUnread("hello", s)' /\ ConnUnread("replayed", s)')
    BY <1>p, <2>2
  <2>7. ConnUnread("replayed", s)' => s \in connReached'["hello"]
    BY <1>e, <1>p, <1>x, <2>2
  <2> QED
    BY <1>e, <2>1, <2>4, <2>5, <2>6, <2>7 DEF ConnHelloInv
<1> QED
  BY <1>1, <1>2, <1>3, <1>4, <1>5, <1>6, <1>7, <1>8 DEF ConnInv

LEMMA ConnReadsStep ==
  ASSUME ConnAssumption, ConnInv, NEW s \in 1..Links, Conn!Reads(s)
  PROVE  ConnInv'
<1>e. UNCHANGED <<connMain, engine, sess, ready, sock, up, lost, connReader, conn, connFailed, connReached, connAnswered, connWriter, queued, cached, errors, astray>>
  BY DEF Conn!Reads, Conn!mainVars, Conn!sessVars, Conn!bookVars, Conn!nodeVars, Conn!agentVars
<1>p. PICK x \in fresh[s] :
         /\ fresh' = [fresh EXCEPT ![s] = @ \ {x}]
         /\ connPending' = connPending \ {Conn!RequestOf(x)} /\ uncertain' = uncertain \ {Conn!RequestOf(x)}
         /\ told' = [told EXCEPT ![Conn!RequestOf(x)] = @ + 1]
  BY DEF Conn!Reads
<1> DEFINE m == IF x \in {"hello", "replayed"} THEN "hello" ELSE x
<1>n. Conn!RequestOf(x) = m
  BY DEF Conn!RequestOf, Conn!Greets
<1>t. ConnTypes /\ ConnSentInv /\ ConnReachInv /\ ConnAstrayInv /\ ConnUnreadInv /\ ConnHelloInv
  BY DEF ConnInv
<1>c. /\ "hello" \notin Business /\ "replayed" \notin Business /\ ConnMessages = Business \cup {"hello"}
      /\ m \in ConnMessages /\ x \in ConnMessages \cup {"replayed"} /\ (m # "hello" => m = x /\ x \in Business)
  BY <1>p, <1>t DEF ConnAssumption, ConnMessages, ConnTypes
<1>r. connReader[s] = "reads"
  BY DEF Conn!Reads
<1>x. s \in connAnswered[x] /\ s \in connReached[x] /\ ConnUnread(x, s)
  BY <1>t, <1>p, <1>c DEF ConnSentInv, ConnUnread
<1>m. told[m] = 0 /\ s \in connReached[m]
  <2>1. CASE m # "hello"
    BY <1>t, <1>c, <1>x, <2>1 DEF ConnUnreadInv
  <2>2. CASE x = "hello"
    BY <1>t, <1>x, <1>r, <1>c, <2>2 DEF ConnHelloInv, ConnTypes
  <2>3. CASE x = "replayed"
    <3>1. s \in connReached["hello"]
      BY <1>t, <1>x, <1>r, <2>3 DEF ConnHelloInv
    <3>2. told["hello"] = 0
      BY <1>t, <1>x, <1>r, <1>c, <2>3, <3>1 DEF ConnHelloInv, ConnTypes
    <3> QED
      BY <2>3, <3>1, <3>2
  <2> QED
    BY <1>c, <2>1, <2>2, <2>3
<1>f. /\ told'[m] = 1 /\ \A y \in ConnMessages \ {m} : told'[y] = told[y]
      /\ fresh'[s] = fresh[s] \ {x}
      /\ \A t \in 1..Links : t # s => fresh'[t] = fresh[t]
      /\ ConnBooks' = ConnBooks \ {m}
  BY <1>p, <1>n, <1>t, <1>m, <1>c DEF ConnTypes, ConnBooks
<1>u. \A y \in ConnMessages \cup {"replayed"}, t \in 1..Links : ConnUnread(y, t)' => ConnUnread(y, t)
  BY <1>e, <1>f DEF ConnUnread
<1>v. ~ConnUnread(x, s)'
  BY <1>e, <1>f, <1>x DEF ConnUnread
<1> HIDE DEF m
<1>1. ConnTypes'
  <2>1. fresh' \in [1..Links -> SUBSET (ConnMessages \cup {"replayed"})]
    BY <1>p, <1>t DEF ConnTypes
  <2>2. connPending' \subseteq ConnMessages
    BY <1>p, <1>t DEF ConnTypes
  <2>3. uncertain' \subseteq ConnMessages
    BY <1>p, <1>t DEF ConnTypes
  <2>4. told' \in [ConnMessages -> 0..1]
    BY <1>p, <1>n, <1>t, <1>m, <1>c DEF ConnTypes
  <2> QED
    BY <1>e, <2>1, <2>2, <2>3, <2>4 DEF ConnInv, ConnTypes
<1>2. ConnSentInv'
  BY <1>e, <1>t, <1>f DEF ConnSentInv
<1>3. ConnWriterInv'
  <2>1. \A y \in ConnMessages : ConnUnsent(y) => ConnUnsent(y)'
    BY <1>e, <1>f, <1>m DEF ConnUnsent
  <2> QED
    BY <1>e, <1>c, <1>f, <2>1 DEF ConnInv, ConnWriterInv
<1>4. ConnReachInv'
  BY <1>e DEF ConnInv, ConnReachInv
<1>5. ConnBooksInv'
  BY <1>e, <1>f DEF ConnInv, ConnBooksInv
<1>6. ConnAstrayInv'
  <2>1. m \notin astray => errors[m] = 0
    BY <1>t, <1>m, <1>r, <1>c DEF ConnAstrayInv, ConnTypes
  <2> QED
    BY <1>e, <1>t, <1>f, <2>1 DEF ConnAstrayInv
<1>7. ConnUnreadInv'
  <2>1. SUFFICES ASSUME NEW y \in Business, NEW t \in 1..Links, ConnUnread(y, t)' PROVE told'[y] = 0
    BY DEF ConnUnreadInv
  <2>2. ConnUnread(y, t) /\ told[y] = 0 /\ t \in connReached[y] /\ y \in ConnMessages
    BY <1>t, <1>c, <1>u, <2>1 DEF ConnUnreadInv, ConnUnread
  <2>3. CASE y = m
    <3>1. t = s /\ y = x
      BY <1>t, <1>m, <1>c, <2>2, <2>3 DEF ConnReachInv
    <3> QED
      BY <1>v, <2>1, <3>1
  <2> QED
    BY <1>f, <2>2, <2>3
<1>8. ConnHelloInv'
  <2>1. CASE m # "hello"
    <3>1. told'["hello"] = told["hello"]
      BY <1>f, <1>c, <2>1
    <3> QED
      BY <1>e, <1>t, <1>c, <1>u, <3>1 DEF ConnHelloInv
  <2>2. CASE m = "hello"
    <3>1. x \in {"hello", "replayed"}
      BY <1>c, <2>2 DEF m
    <3>2. ~ConnUnread("hello", s)' /\ ~ConnUnread("replayed", s)'
      BY <1>t, <1>c, <1>r, <1>u, <1>v, <1>x, <3>1 DEF ConnHelloInv
    <3>3. \A t \in connReached["hello"] : t = s
      BY <1>t, <1>m, <1>c, <2>2 DEF ConnReachInv
    <3> QED
      BY <1>e, <1>t, <1>c, <1>r, <1>u, <3>2, <3>3 DEF ConnHelloInv
  <2> QED
    BY <2>1, <2>2
<1> QED
  BY <1>1, <1>2, <1>3, <1>4, <1>5, <1>6, <1>7, <1>8 DEF ConnInv

LEMMA ConnEndsStep ==
  ASSUME ConnAssumption, ConnInv, NEW s \in 1..Links, Conn!Ends(s)
  PROVE  ConnInv'
<1>e. UNCHANGED <<connMain, engine, sess, ready, lost, connPending, uncertain, connFailed, fresh, connReached, connAnswered, connWriter, queued, cached, told, errors, astray>>
  BY DEF Conn!Ends, Conn!mainVars, Conn!sessVars, Conn!bookVars, Conn!nodeVars, Conn!agentVars
<1>1. ConnTypes'
  <2>1. sock' \in 0..Links
    BY DEF ConnInv, ConnAssumption, ConnTypes, Conn!Ends, ConnMessages, Conn!Messages, Conn!Lines, Conn!Sessions, Conn!Idle, Conn!Books, Conn!Greets, Conn!RequestOf, Conn!Scanning, Conn!Seen
  <2>2. up' \in BOOLEAN
    BY DEF ConnInv, ConnAssumption, ConnTypes, Conn!Ends, ConnMessages, Conn!Messages, Conn!Lines, Conn!Sessions, Conn!Idle, Conn!Books, Conn!Greets, Conn!RequestOf, Conn!Scanning, Conn!Seen
  <2>3. connReader' \in [1..Links -> {"off", "absorbs", "reads", "loses", "over"}]
    BY DEF ConnInv, ConnAssumption, ConnTypes, Conn!Ends, ConnMessages, Conn!Messages, Conn!Lines, Conn!Sessions, Conn!Idle, Conn!Books, Conn!Greets, Conn!RequestOf, Conn!Scanning, Conn!Seen
  <2>4. conn' \in [1..Links -> {"none", "open", "eof", "shut"}]
    BY DEF ConnInv, ConnAssumption, ConnTypes, Conn!Ends, ConnMessages, Conn!Messages, Conn!Lines, Conn!Sessions, Conn!Idle, Conn!Books, Conn!Greets, Conn!RequestOf, Conn!Scanning, Conn!Seen
  <2> QED
    BY <1>e, <2>1, <2>2, <2>3, <2>4 DEF ConnInv, ConnTypes
<1>2. ConnSentInv'
  BY <1>e DEF ConnInv, Conn!Ends, ConnAssumption, ConnTypes, ConnSentInv, ConnMessages, Conn!Messages, Conn!Lines, Conn!Sessions, Conn!Idle, Conn!Books, Conn!Greets, Conn!RequestOf, Conn!Scanning, Conn!Seen
<1>3. ConnWriterInv'
  BY <1>e DEF ConnInv, ConnWriterInv, ConnUnsent, ConnBooks
<1>4. ConnReachInv'
  BY <1>e DEF ConnInv, ConnReachInv
<1>5. ConnBooksInv'
  BY <1>e DEF ConnInv, ConnBooksInv, ConnBooks
<1>6. ConnAstrayInv'
  BY <1>e DEF ConnInv, Conn!Ends, ConnAssumption, ConnTypes, ConnAstrayInv, ConnBooks, ConnMessages, Conn!Messages, Conn!Lines, Conn!Sessions, Conn!Idle, Conn!Books, Conn!Greets, Conn!RequestOf, Conn!Scanning, Conn!Seen
<1>7. ConnUnreadInv'
  BY <1>e DEF ConnInv, ConnUnreadInv, ConnUnread
<1>8. ConnHelloInv'
  BY <1>e DEF ConnInv, Conn!Ends, ConnAssumption, ConnTypes, ConnHelloInv, ConnUnread, ConnMessages, Conn!Messages, Conn!Lines, Conn!Sessions, Conn!Idle, Conn!Books, Conn!Greets, Conn!RequestOf, Conn!Scanning, Conn!Seen
<1> QED
  BY <1>1, <1>2, <1>3, <1>4, <1>5, <1>6, <1>7, <1>8 DEF ConnInv

LEMMA ConnEndsQuietlyStep ==
  ASSUME ConnAssumption, ConnInv, NEW s \in 1..Links, Conn!EndsQuietly(s)
  PROVE  ConnInv'
<1>e. UNCHANGED <<connMain, engine, sess, ready, sock, up, lost, connPending, uncertain, connFailed, fresh, connReached, connAnswered, connWriter, queued, cached, told, errors>>
  BY DEF Conn!EndsQuietly, Conn!mainVars, Conn!sessVars, Conn!bookVars, Conn!nodeVars, Conn!agentVars
<1>1. ConnTypes'
  <2>1. connReader' \in [1..Links -> {"off", "absorbs", "reads", "loses", "over"}]
    BY DEF ConnInv, ConnAssumption, ConnTypes, Conn!EndsQuietly, ConnMessages, Conn!Messages, Conn!Lines, Conn!Sessions, Conn!Idle, Conn!Books, Conn!Greets, Conn!RequestOf, Conn!Scanning, Conn!Seen
  <2>2. conn' \in [1..Links -> {"none", "open", "eof", "shut"}]
    BY DEF ConnInv, ConnAssumption, ConnTypes, Conn!EndsQuietly, ConnMessages, Conn!Messages, Conn!Lines, Conn!Sessions, Conn!Idle, Conn!Books, Conn!Greets, Conn!RequestOf, Conn!Scanning, Conn!Seen
  <2>3. astray' \subseteq ConnMessages
    BY DEF ConnInv, ConnAssumption, ConnTypes, Conn!EndsQuietly, ConnMessages, Conn!Messages, Conn!Lines, Conn!Sessions, Conn!Idle, Conn!Books, Conn!Greets, Conn!RequestOf, Conn!Scanning, Conn!Seen
  <2> QED
    BY <1>e, <2>1, <2>2, <2>3 DEF ConnInv, ConnTypes
<1>2. ConnSentInv'
  BY <1>e DEF ConnInv, ConnSentInv
<1>3. ConnWriterInv'
  BY <1>e DEF ConnInv, ConnWriterInv, ConnUnsent, ConnBooks
<1>4. ConnReachInv'
  BY <1>e DEF ConnInv, ConnReachInv
<1>5. ConnBooksInv'
  BY <1>e DEF ConnInv, ConnBooksInv, ConnBooks
<1>6. ConnAstrayInv'
  BY <1>e DEF ConnInv, Conn!EndsQuietly, ConnAssumption, ConnTypes, ConnAstrayInv, ConnBooks, ConnMessages, Conn!Messages, Conn!Lines, Conn!Sessions, Conn!Idle, Conn!Books, Conn!Greets, Conn!RequestOf, Conn!Scanning, Conn!Seen
<1>7. ConnUnreadInv'
  BY <1>e DEF ConnInv, ConnUnreadInv, ConnUnread
<1>8. ConnHelloInv'
  BY <1>e DEF ConnInv, Conn!EndsQuietly, ConnAssumption, ConnTypes, ConnHelloInv, ConnUnread, ConnMessages, Conn!Messages, Conn!Lines, Conn!Sessions, Conn!Idle, Conn!Books, Conn!Greets, Conn!RequestOf, Conn!Scanning, Conn!Seen
<1> QED
  BY <1>1, <1>2, <1>3, <1>4, <1>5, <1>6, <1>7, <1>8 DEF ConnInv

LEMMA ConnLosesStep ==
  ASSUME ConnAssumption, ConnInv, NEW s \in 1..Links, Conn!Loses(s)
  PROVE  ConnInv'
<1>e. UNCHANGED <<connMain, engine, sess, ready, sock, up, conn, fresh, connReached, connAnswered, connWriter, queued, cached, told>>
  BY DEF Conn!Loses, Conn!mainVars, Conn!sessVars, Conn!bookVars, Conn!nodeVars, Conn!agentVars
<1>1. ConnTypes'
  <2>1. connReader' \in [1..Links -> {"off", "absorbs", "reads", "loses", "over"}]
    BY DEF ConnInv, ConnAssumption, ConnTypes, Conn!Loses, Conn!FailOnce, ConnMessages, Conn!Messages, Conn!Lines, Conn!Sessions, Conn!Idle, Conn!Books, Conn!Greets, Conn!RequestOf, Conn!Scanning, Conn!Seen
  <2>2. lost' \in BOOLEAN
    BY DEF ConnInv, ConnAssumption, ConnTypes, Conn!Loses, Conn!FailOnce, ConnMessages, Conn!Messages, Conn!Lines, Conn!Sessions, Conn!Idle, Conn!Books, Conn!Greets, Conn!RequestOf, Conn!Scanning, Conn!Seen
  <2>3. connFailed' \subseteq ConnMessages
    BY DEF ConnInv, ConnAssumption, ConnTypes, Conn!Loses, Conn!FailOnce, ConnMessages, Conn!Messages, Conn!Lines, Conn!Sessions, Conn!Idle, Conn!Books, Conn!Greets, Conn!RequestOf, Conn!Scanning, Conn!Seen
  <2>4. errors' \in [ConnMessages -> 0..1]
    <3>1. errors' = [m \in ConnMessages |-> IF m \in ConnBooks \ connFailed THEN errors[m] + 1 ELSE errors[m]]
      BY DEF Conn!Loses, Conn!FailOnce, Conn!Messages, ConnMessages, Conn!Books, ConnBooks
    <3> QED
      BY <3>1 DEF ConnInv, ConnTypes, ConnBooksInv
  <2>5. astray' \subseteq ConnMessages
    BY DEF ConnInv, ConnAssumption, ConnTypes, Conn!Loses, Conn!FailOnce, ConnMessages, Conn!Messages, Conn!Lines, Conn!Sessions, Conn!Idle, Conn!Books, Conn!Greets, Conn!RequestOf, Conn!Scanning, Conn!Seen
  <2>6. connPending' \subseteq ConnMessages
    BY DEF ConnInv, ConnAssumption, ConnTypes, Conn!Loses, Conn!FailOnce, ConnMessages, Conn!Messages, Conn!Lines, Conn!Sessions, Conn!Idle, Conn!Books, Conn!Greets, Conn!RequestOf, Conn!Scanning, Conn!Seen
  <2>7. uncertain' \subseteq ConnMessages
    BY DEF ConnInv, ConnAssumption, ConnTypes, Conn!Loses, Conn!FailOnce, ConnMessages, Conn!Messages, Conn!Lines, Conn!Sessions, Conn!Idle, Conn!Books, Conn!Greets, Conn!RequestOf, Conn!Scanning, Conn!Seen
  <2> QED
    BY <1>e, <2>1, <2>2, <2>3, <2>4, <2>5, <2>6, <2>7 DEF ConnInv, ConnTypes
<1>2. ConnSentInv'
  BY <1>e DEF ConnInv, ConnSentInv
<1>3. ConnWriterInv'
  BY <1>e DEF ConnInv, Conn!Loses, Conn!FailOnce, ConnAssumption, ConnTypes, ConnWriterInv, ConnUnsent, ConnBooks, ConnMessages, Conn!Messages, Conn!Lines, Conn!Sessions, Conn!Idle, Conn!Books, Conn!Greets, Conn!RequestOf, Conn!Scanning, Conn!Seen
<1>4. ConnReachInv'
  BY <1>e DEF ConnInv, ConnReachInv
<1>5. ConnBooksInv'
  BY <1>e DEF ConnInv, Conn!Loses, Conn!FailOnce, ConnAssumption, ConnTypes, ConnBooksInv, ConnBooks, ConnMessages, Conn!Messages, Conn!Lines, Conn!Sessions, Conn!Idle, Conn!Books, Conn!Greets, Conn!RequestOf, Conn!Scanning, Conn!Seen
<1>6. ConnAstrayInv'
  BY <1>e DEF ConnInv, Conn!Loses, Conn!FailOnce, ConnAssumption, ConnTypes, ConnAstrayInv, ConnBooks, ConnMessages, Conn!Messages, Conn!Lines, Conn!Sessions, Conn!Idle, Conn!Books, Conn!Greets, Conn!RequestOf, Conn!Scanning, Conn!Seen
<1>7. ConnUnreadInv'
  BY <1>e DEF ConnInv, ConnUnreadInv, ConnUnread
<1>8. ConnHelloInv'
  BY <1>e DEF ConnInv, Conn!Loses, Conn!FailOnce, ConnAssumption, ConnTypes, ConnHelloInv, ConnUnread, ConnMessages, Conn!Messages, Conn!Lines, Conn!Sessions, Conn!Idle, Conn!Books, Conn!Greets, Conn!RequestOf, Conn!Scanning, Conn!Seen
<1> QED
  BY <1>1, <1>2, <1>3, <1>4, <1>5, <1>6, <1>7, <1>8 DEF ConnInv

LEMMA ConnFindsStep ==
  ASSUME ConnAssumption, ConnInv, Conn!Finds
  PROVE  ConnInv'
<1>e. UNCHANGED <<connMain, sess, ready, sock, up, lost, connReader, conn, connPending, uncertain, connFailed, fresh, connReached, connAnswered, connWriter, queued, cached, told, errors, astray>>
  BY DEF Conn!Finds, Conn!mainVars, Conn!sessVars, Conn!bookVars, Conn!nodeVars, Conn!agentVars
<1>1. ConnTypes'
  <2>1. engine' \in {"old", "found", "bare", "new"}
    BY DEF ConnInv, ConnAssumption, ConnTypes, Conn!Finds, ConnMessages, Conn!Messages, Conn!Lines, Conn!Sessions, Conn!Idle, Conn!Books, Conn!Greets, Conn!RequestOf, Conn!Scanning, Conn!Seen
  <2> QED
    BY <1>e, <2>1 DEF ConnInv, ConnTypes
<1>2. ConnSentInv'
  BY <1>e DEF ConnInv, ConnSentInv
<1>3. ConnWriterInv'
  BY <1>e DEF ConnInv, ConnWriterInv, ConnUnsent, ConnBooks
<1>4. ConnReachInv'
  BY <1>e DEF ConnInv, ConnReachInv
<1>5. ConnBooksInv'
  BY <1>e DEF ConnInv, ConnBooksInv, ConnBooks
<1>6. ConnAstrayInv'
  BY <1>e DEF ConnInv, ConnAstrayInv, ConnBooks
<1>7. ConnUnreadInv'
  BY <1>e DEF ConnInv, ConnUnreadInv, ConnUnread
<1>8. ConnHelloInv'
  BY <1>e DEF ConnInv, ConnHelloInv, ConnUnread
<1> QED
  BY <1>1, <1>2, <1>3, <1>4, <1>5, <1>6, <1>7, <1>8 DEF ConnInv

LEMMA ConnAdoptsStep ==
  ASSUME ConnAssumption, ConnInv, Conn!Adopts
  PROVE  ConnInv'
<1>e. UNCHANGED <<sess, ready, sock, up, lost, connReader, conn, fresh, connReached, connAnswered, connWriter, queued, told, errors>>
  BY DEF Conn!Adopts, Conn!mainVars, Conn!sessVars, Conn!bookVars, Conn!nodeVars, Conn!agentVars
<1>1. ConnTypes'
  <2>1. engine' \in {"old", "found", "bare", "new"}
    BY DEF ConnInv, ConnAssumption, ConnTypes, Conn!Adopts, ConnMessages, Conn!Messages, Conn!Lines, Conn!Sessions, Conn!Idle, Conn!Books, Conn!Greets, Conn!RequestOf, Conn!Scanning, Conn!Seen
  <2>2. connMain' \in {"opens", "waits", "drains", "notes", "marks", "runs", "hands", "over"}
    BY DEF ConnInv, ConnAssumption, ConnTypes, Conn!Adopts, ConnMessages, Conn!Messages, Conn!Lines, Conn!Sessions, Conn!Idle, Conn!Books, Conn!Greets, Conn!RequestOf, Conn!Scanning, Conn!Seen
  <2>3. connPending' \subseteq ConnMessages
    BY DEF ConnInv, ConnAssumption, ConnTypes, Conn!Adopts, ConnMessages, Conn!Messages, Conn!Lines, Conn!Sessions, Conn!Idle, Conn!Books, Conn!Greets, Conn!RequestOf, Conn!Scanning, Conn!Seen
  <2>4. uncertain' \subseteq ConnMessages
    BY DEF ConnInv, ConnAssumption, ConnTypes, Conn!Adopts, ConnMessages, Conn!Messages, Conn!Lines, Conn!Sessions, Conn!Idle, Conn!Books, Conn!Greets, Conn!RequestOf, Conn!Scanning, Conn!Seen
  <2>5. connFailed' \subseteq ConnMessages
    BY DEF ConnInv, ConnAssumption, ConnTypes, Conn!Adopts, ConnMessages, Conn!Messages, Conn!Lines, Conn!Sessions, Conn!Idle, Conn!Books, Conn!Greets, Conn!RequestOf, Conn!Scanning, Conn!Seen
  <2>6. cached' \in BOOLEAN
    BY DEF ConnInv, ConnAssumption, ConnTypes, Conn!Adopts, ConnMessages, Conn!Messages, Conn!Lines, Conn!Sessions, Conn!Idle, Conn!Books, Conn!Greets, Conn!RequestOf, Conn!Scanning, Conn!Seen
  <2>7. astray' \subseteq ConnMessages
    BY DEF ConnInv, ConnAssumption, ConnTypes, Conn!Adopts, ConnMessages, Conn!Messages, Conn!Lines, Conn!Sessions, Conn!Idle, Conn!Books, Conn!Greets, Conn!RequestOf, Conn!Scanning, Conn!Seen
  <2> QED
    BY <1>e, <2>1, <2>2, <2>3, <2>4, <2>5, <2>6, <2>7 DEF ConnInv, ConnTypes
<1>2. ConnSentInv'
  BY <1>e DEF ConnInv, Conn!Adopts, ConnAssumption, ConnTypes, ConnSentInv, ConnMessages, Conn!Messages, Conn!Lines, Conn!Sessions, Conn!Idle, Conn!Books, Conn!Greets, Conn!RequestOf, Conn!Scanning, Conn!Seen
<1>3. ConnWriterInv'
  BY <1>e DEF ConnInv, Conn!Adopts, ConnAssumption, ConnTypes, ConnWriterInv, ConnUnsent, ConnBooks, ConnMessages, Conn!Messages, Conn!Lines, Conn!Sessions, Conn!Idle, Conn!Books, Conn!Greets, Conn!RequestOf, Conn!Scanning, Conn!Seen
<1>4. ConnReachInv'
  BY <1>e DEF ConnInv, ConnReachInv
<1>5. ConnBooksInv'
  BY <1>e DEF ConnInv, Conn!Adopts, ConnAssumption, ConnTypes, ConnBooksInv, ConnBooks, ConnMessages, Conn!Messages, Conn!Lines, Conn!Sessions, Conn!Idle, Conn!Books, Conn!Greets, Conn!RequestOf, Conn!Scanning, Conn!Seen
<1>6. ConnAstrayInv'
  BY <1>e DEF ConnInv, Conn!Adopts, ConnAssumption, ConnTypes, ConnAstrayInv, ConnBooks, ConnMessages, Conn!Messages, Conn!Lines, Conn!Sessions, Conn!Idle, Conn!Books, Conn!Greets, Conn!RequestOf, Conn!Scanning, Conn!Seen
<1>7. ConnUnreadInv'
  BY <1>e DEF ConnInv, ConnUnreadInv, ConnUnread
<1>8. ConnHelloInv'
  BY <1>e DEF ConnInv, ConnHelloInv, ConnUnread
<1> QED
  BY <1>1, <1>2, <1>3, <1>4, <1>5, <1>6, <1>7, <1>8 DEF ConnInv

LEMMA ConnHandsStep ==
  ASSUME ConnAssumption, ConnInv, Conn!Hands
  PROVE  ConnInv'
<1>e. UNCHANGED <<engine, sess, ready, connReader, connPending, uncertain, connFailed, fresh, connReached, connAnswered, connWriter, queued, cached, told, errors>>
  BY DEF Conn!Hands, Conn!mainVars, Conn!sessVars, Conn!bookVars, Conn!nodeVars, Conn!agentVars
<1>1. ConnTypes'
  <2>1. connMain' \in {"opens", "waits", "drains", "notes", "marks", "runs", "hands", "over"}
    BY DEF ConnInv, ConnAssumption, ConnTypes, Conn!Hands, ConnMessages, Conn!Messages, Conn!Lines, Conn!Sessions, Conn!Idle, Conn!Books, Conn!Greets, Conn!RequestOf, Conn!Scanning, Conn!Seen
  <2>2. lost' \in BOOLEAN
    BY DEF ConnInv, ConnAssumption, ConnTypes, Conn!Hands, ConnMessages, Conn!Messages, Conn!Lines, Conn!Sessions, Conn!Idle, Conn!Books, Conn!Greets, Conn!RequestOf, Conn!Scanning, Conn!Seen
  <2>3. up' \in BOOLEAN
    BY DEF ConnInv, ConnAssumption, ConnTypes, Conn!Hands, ConnMessages, Conn!Messages, Conn!Lines, Conn!Sessions, Conn!Idle, Conn!Books, Conn!Greets, Conn!RequestOf, Conn!Scanning, Conn!Seen
  <2>4. sock' \in 0..Links
    BY DEF ConnInv, ConnAssumption, ConnTypes, Conn!Hands, ConnMessages, Conn!Messages, Conn!Lines, Conn!Sessions, Conn!Idle, Conn!Books, Conn!Greets, Conn!RequestOf, Conn!Scanning, Conn!Seen
  <2>5. conn' \in [1..Links -> {"none", "open", "eof", "shut"}]
    BY DEF ConnInv, ConnAssumption, ConnTypes, Conn!Hands, ConnMessages, Conn!Messages, Conn!Lines, Conn!Sessions, Conn!Idle, Conn!Books, Conn!Greets, Conn!RequestOf, Conn!Scanning, Conn!Seen
  <2>6. astray' \subseteq ConnMessages
    BY DEF ConnInv, ConnAssumption, ConnTypes, Conn!Hands, ConnMessages, Conn!Messages, Conn!Lines, Conn!Sessions, Conn!Idle, Conn!Books, Conn!Greets, Conn!RequestOf, Conn!Scanning, Conn!Seen
  <2> QED
    BY <1>e, <2>1, <2>2, <2>3, <2>4, <2>5, <2>6 DEF ConnInv, ConnTypes
<1>2. ConnSentInv'
  BY <1>e DEF ConnInv, Conn!Hands, ConnAssumption, ConnTypes, ConnSentInv, ConnMessages, Conn!Messages, Conn!Lines, Conn!Sessions, Conn!Idle, Conn!Books, Conn!Greets, Conn!RequestOf, Conn!Scanning, Conn!Seen
<1>3. ConnWriterInv'
  BY <1>e DEF ConnInv, Conn!Hands, ConnAssumption, ConnTypes, ConnWriterInv, ConnUnsent, ConnBooks, ConnMessages, Conn!Messages, Conn!Lines, Conn!Sessions, Conn!Idle, Conn!Books, Conn!Greets, Conn!RequestOf, Conn!Scanning, Conn!Seen
<1>4. ConnReachInv'
  BY <1>e DEF ConnInv, ConnReachInv
<1>5. ConnBooksInv'
  BY <1>e DEF ConnInv, ConnBooksInv, ConnBooks
<1>6. ConnAstrayInv'
  BY <1>e DEF ConnInv, Conn!Hands, ConnAssumption, ConnTypes, ConnAstrayInv, ConnBooks, ConnMessages, Conn!Messages, Conn!Lines, Conn!Sessions, Conn!Idle, Conn!Books, Conn!Greets, Conn!RequestOf, Conn!Scanning, Conn!Seen
<1>7. ConnUnreadInv'
  BY <1>e DEF ConnInv, ConnUnreadInv, ConnUnread
<1>8. ConnHelloInv'
  BY <1>e DEF ConnInv, ConnHelloInv, ConnUnread
<1> QED
  BY <1>1, <1>2, <1>3, <1>4, <1>5, <1>6, <1>7, <1>8 DEF ConnInv

LEMMA ConnFailsStep ==
  ASSUME ConnAssumption, ConnInv, Conn!Fails
  PROVE  ConnInv'
<1>e. UNCHANGED <<connMain, engine, sess, ready, sock, up, lost, connReader, conn, connPending, uncertain, connFailed, fresh, connReached, connAnswered, queued, cached, told, errors, astray>>
  BY DEF Conn!Fails, Conn!mainVars, Conn!sessVars, Conn!bookVars, Conn!nodeVars, Conn!agentVars
<1>1. ConnTypes'
  <2>1. connWriter' \in [m : ConnMessages \cup {None},
             at : {"off", "reads", "took", "queues", "sends", "sent", "noted", "missed", "ends"}, s : 0..Links]
    BY DEF ConnInv, ConnAssumption, ConnTypes, Conn!Fails, ConnMessages, Conn!Messages, Conn!Lines, Conn!Sessions, Conn!Idle, Conn!Books, Conn!Greets, Conn!RequestOf, Conn!Scanning, Conn!Seen
  <2> QED
    BY <1>e, <2>1 DEF ConnInv, ConnTypes
<1>2. ConnSentInv'
  BY <1>e DEF ConnInv, ConnSentInv
<1>3. ConnWriterInv'
  BY <1>e DEF ConnInv, Conn!Fails, ConnAssumption, ConnTypes, ConnWriterInv, ConnUnsent, ConnBooks, ConnMessages, Conn!Messages, Conn!Lines, Conn!Sessions, Conn!Idle, Conn!Books, Conn!Greets, Conn!RequestOf, Conn!Scanning, Conn!Seen
<1>4. ConnReachInv'
  BY <1>e DEF ConnInv, ConnReachInv
<1>5. ConnBooksInv'
  BY <1>e DEF ConnInv, ConnBooksInv, ConnBooks
<1>6. ConnAstrayInv'
  BY <1>e DEF ConnInv, ConnAstrayInv, ConnBooks
<1>7. ConnUnreadInv'
  BY <1>e DEF ConnInv, ConnUnreadInv, ConnUnread
<1>8. ConnHelloInv'
  BY <1>e DEF ConnInv, ConnHelloInv, ConnUnread
<1> QED
  BY <1>1, <1>2, <1>3, <1>4, <1>5, <1>6, <1>7, <1>8 DEF ConnInv

LEMMA ConnOpensStep ==
  ASSUME ConnAssumption, ConnInv, Conn!Opens
  PROVE  ConnInv'
<1>e. UNCHANGED <<engine, up, connPending, uncertain, connFailed, fresh, connAnswered, connWriter, queued, cached, told, errors, astray>>
  BY DEF Conn!Opens, Conn!mainVars, Conn!sessVars, Conn!bookVars, Conn!nodeVars, Conn!agentVars
<1>t. ConnTypes /\ ConnSentInv /\ ConnAstrayInv /\ ConnHelloInv
  BY DEF ConnInv
<1>c. "replayed" \notin ConnMessages /\ "hello" \in ConnMessages
  BY DEF ConnAssumption, ConnMessages
<1>p. /\ sess \in 0..Links /\ sess + 1 \in 1..Links /\ sess' = sess + 1
      /\ connReader' = [connReader EXCEPT ![sess + 1] = IF cached THEN "absorbs" ELSE "reads"]
      /\ connReached' = [connReached EXCEPT !["replayed"] = IF cached THEN @ \cup {sess + 1} ELSE @]
  <2>1. Links \in Nat /\ sess \in 0..Links /\ sess < Links
    BY <1>t DEF ConnTypes, Conn!Opens, ConnAssumption
  <2>2. /\ sess' = sess + 1
        /\ connReader' = [connReader EXCEPT ![sess + 1] = IF cached THEN "absorbs" ELSE "reads"]
        /\ connReached' = [connReached EXCEPT !["replayed"] = IF cached THEN @ \cup {sess + 1} ELSE @]
    BY DEF Conn!Opens
  <2> QED
    BY ONLY <2>1, <2>2
<1>f. /\ connReader'[sess + 1] = IF cached THEN "absorbs" ELSE "reads"
      /\ \A t \in 1..Links : t # sess + 1 => connReader'[t] = connReader[t]
      /\ \A m \in ConnMessages : connReached'[m] = connReached[m]
      /\ connReached'["replayed"] = IF cached THEN connReached["replayed"] \cup {sess + 1} ELSE connReached["replayed"]
  BY <1>t, <1>c, <1>p DEF ConnTypes
<1>n. \A x \in ConnMessages \cup {"replayed"} : sess + 1 \notin connReached[x]
  BY <1>t, <1>p DEF ConnSentInv
<1>1. ConnTypes'
  <2>1. sess' \in 0..Links
    BY DEF ConnInv, ConnAssumption, ConnTypes, Conn!Opens, ConnMessages, Conn!Messages, Conn!Lines, Conn!Sessions, Conn!Idle, Conn!Books, Conn!Greets, Conn!RequestOf, Conn!Scanning, Conn!Seen
  <2>2. sock' \in 0..Links
    BY DEF ConnInv, ConnAssumption, ConnTypes, Conn!Opens, ConnMessages, Conn!Messages, Conn!Lines, Conn!Sessions, Conn!Idle, Conn!Books, Conn!Greets, Conn!RequestOf, Conn!Scanning, Conn!Seen
  <2>3. lost' \in BOOLEAN
    BY DEF ConnInv, ConnAssumption, ConnTypes, Conn!Opens, ConnMessages, Conn!Messages, Conn!Lines, Conn!Sessions, Conn!Idle, Conn!Books, Conn!Greets, Conn!RequestOf, Conn!Scanning, Conn!Seen
  <2>4. conn' \in [1..Links -> {"none", "open", "eof", "shut"}]
    BY DEF ConnInv, ConnAssumption, ConnTypes, Conn!Opens, ConnMessages, Conn!Messages, Conn!Lines, Conn!Sessions, Conn!Idle, Conn!Books, Conn!Greets, Conn!RequestOf, Conn!Scanning, Conn!Seen
  <2>5. connReader' \in [1..Links -> {"off", "absorbs", "reads", "loses", "over"}]
    BY DEF ConnInv, ConnAssumption, ConnTypes, Conn!Opens, ConnMessages, Conn!Messages, Conn!Lines, Conn!Sessions, Conn!Idle, Conn!Books, Conn!Greets, Conn!RequestOf, Conn!Scanning, Conn!Seen
  <2>6. connReached' \in [ConnMessages \cup {"replayed"} -> SUBSET (1..Links)]
    BY DEF ConnInv, ConnAssumption, ConnTypes, Conn!Opens, ConnMessages, Conn!Messages, Conn!Lines, Conn!Sessions, Conn!Idle, Conn!Books, Conn!Greets, Conn!RequestOf, Conn!Scanning, Conn!Seen
  <2>7. ready' \in BOOLEAN
    BY DEF ConnInv, ConnAssumption, ConnTypes, Conn!Opens, ConnMessages, Conn!Messages, Conn!Lines, Conn!Sessions, Conn!Idle, Conn!Books, Conn!Greets, Conn!RequestOf, Conn!Scanning, Conn!Seen
  <2>8. connMain' \in {"opens", "waits", "drains", "notes", "marks", "runs", "hands", "over"}
    BY DEF ConnInv, ConnAssumption, ConnTypes, Conn!Opens, ConnMessages, Conn!Messages, Conn!Lines, Conn!Sessions, Conn!Idle, Conn!Books, Conn!Greets, Conn!RequestOf, Conn!Scanning, Conn!Seen
  <2> QED
    BY <1>e, <2>1, <2>2, <2>3, <2>4, <2>5, <2>6, <2>7, <2>8 DEF ConnInv, ConnTypes
<1>2. ConnSentInv'
  <2>1. sock' = sess + 1
    BY DEF Conn!Opens
  <2>2. \A x \in ConnMessages \cup {"replayed"} :
          connReached'[x] \subseteq 1..(sess + 1) /\ connAnswered'[x] \subseteq connReached'[x]
    BY <1>e, <1>t, <1>p, <1>f DEF ConnSentInv
  <2> QED
    BY <1>e, <1>t, <1>p, <2>1, <2>2 DEF ConnSentInv
<1>3. ConnWriterInv'
  <2>1. \A m \in ConnMessages : ConnUnsent(m) => ConnUnsent(m)'
    BY <1>e, <1>f DEF ConnUnsent, ConnBooks
  <2>2. connMain' = "waits"
    BY DEF Conn!Opens
  <2> QED
    BY <1>e, <1>c, <1>p, <2>1, <2>2 DEF ConnInv, ConnWriterInv, ConnBooks
<1>4. ConnReachInv'
  BY <1>f DEF ConnInv, ConnReachInv
<1>5. ConnBooksInv'
  BY <1>e DEF ConnInv, ConnBooksInv, ConnBooks
<1>6. ConnAstrayInv'
  BY <1>e, <1>t, <1>p, <1>f, <1>n DEF ConnAstrayInv, ConnBooks, ConnSentInv
<1>7. ConnUnreadInv'
  BY <1>e, <1>f DEF ConnInv, ConnUnreadInv, ConnUnread, ConnMessages
<1>8. ConnHelloInv'
  <2>1. ASSUME NEW t \in 1..Links, t # sess + 1
        PROVE  /\ ConnUnread("hello", t)' <=> ConnUnread("hello", t)
               /\ ConnUnread("replayed", t)' <=> ConnUnread("replayed", t)
    BY <1>e, <1>c, <1>f, <2>1 DEF ConnUnread
  <2>2. ASSUME NEW t \in 1..Links, t = sess + 1
        PROVE  /\ ~ConnUnread("hello", t)' /\ t \notin connReached'["hello"]
               /\ connReader'[t] = "reads" => ~ConnUnread("replayed", t)'
    <3>1. t \notin connReached'["hello"]
      BY <1>c, <1>f, <1>n, <2>2
    <3>2. connReader'[t] = "reads" => t \notin connReached'["replayed"]
      BY <1>f, <1>n, <2>2
    <3> QED
      BY <3>1, <3>2 DEF ConnUnread
  <2>3. connReached'["hello"] = connReached["hello"] /\ told' = told
    BY <1>e, <1>c, <1>f
  <2> QED
    BY <1>t, <1>f, <2>1, <2>2, <2>3 DEF ConnHelloInv
<1> QED
  BY <1>1, <1>2, <1>3, <1>4, <1>5, <1>6, <1>7, <1>8 DEF ConnInv

LEMMA ConnWaitsStep ==
  ASSUME ConnAssumption, ConnInv, Conn!Waits
  PROVE  ConnInv'
<1>e. UNCHANGED <<engine, sess, ready, sock, up, lost, connReader, conn, connPending, uncertain, connFailed, fresh, connReached, connAnswered, connWriter, queued, cached, told, errors, astray>>
  BY DEF Conn!Waits, Conn!mainVars, Conn!sessVars, Conn!bookVars, Conn!nodeVars, Conn!agentVars
<1>1. ConnTypes'
  <2>1. connMain' \in {"opens", "waits", "drains", "notes", "marks", "runs", "hands", "over"}
    BY DEF ConnInv, ConnAssumption, ConnTypes, Conn!Waits, ConnMessages, Conn!Messages, Conn!Lines, Conn!Sessions, Conn!Idle, Conn!Books, Conn!Greets, Conn!RequestOf, Conn!Scanning, Conn!Seen
  <2> QED
    BY <1>e, <2>1 DEF ConnInv, ConnTypes
<1>2. ConnSentInv'
  BY <1>e DEF ConnInv, Conn!Waits, ConnAssumption, ConnTypes, ConnSentInv, ConnMessages, Conn!Messages, Conn!Lines, Conn!Sessions, Conn!Idle, Conn!Books, Conn!Greets, Conn!RequestOf, Conn!Scanning, Conn!Seen
<1>3. ConnWriterInv'
  BY <1>e DEF ConnInv, Conn!Waits, ConnAssumption, ConnTypes, ConnWriterInv, ConnUnsent, ConnBooks, ConnMessages, Conn!Messages, Conn!Lines, Conn!Sessions, Conn!Idle, Conn!Books, Conn!Greets, Conn!RequestOf, Conn!Scanning, Conn!Seen
<1>4. ConnReachInv'
  BY <1>e DEF ConnInv, ConnReachInv
<1>5. ConnBooksInv'
  BY <1>e DEF ConnInv, ConnBooksInv, ConnBooks
<1>6. ConnAstrayInv'
  BY <1>e DEF ConnInv, ConnAstrayInv, ConnBooks
<1>7. ConnUnreadInv'
  BY <1>e DEF ConnInv, ConnUnreadInv, ConnUnread
<1>8. ConnHelloInv'
  BY <1>e DEF ConnInv, ConnHelloInv, ConnUnread
<1> QED
  BY <1>1, <1>2, <1>3, <1>4, <1>5, <1>6, <1>7, <1>8 DEF ConnInv

LEMMA ConnDrainSendsStep ==
  ASSUME ConnAssumption, ConnInv, Conn!DrainSends
  PROVE  ConnInv'
<1>e. UNCHANGED <<engine, sess, ready, up, lost, connReader, conn, connPending, uncertain, connFailed, fresh, connAnswered, connWriter, told, errors, astray>>
  BY DEF Conn!DrainSends, Conn!mainVars, Conn!sessVars, Conn!bookVars, Conn!nodeVars, Conn!agentVars
<1>m. /\ connMain = "drains" /\ queued /\ ConnUnsent("hello") /\ "hello" \in ConnMessages
      /\ sess \in 1..Links /\ sess <= sess /\ connWriter.m # "hello"
  BY DEF ConnInv, ConnTypes, ConnWriterInv, ConnSentInv, ConnMessages, Conn!DrainSends
<1>f. \/ /\ connMain' = "notes" /\ queued' = FALSE
         /\ connReached' = [connReached EXCEPT !["hello"] = @ \cup {sess}] \/ UNCHANGED connReached
      \/ connMain' = "opens" /\ UNCHANGED <<queued, connReached>>
  <2>1. connReached' = [connReached EXCEPT !["hello"] = @ \cup {}] => UNCHANGED connReached
    BY DEF ConnInv, ConnTypes, ConnMessages
  <2> QED
    BY <2>1 DEF Conn!DrainSends
<1>h. sock' <= sess'
  <2>1. sock' \in {0, sock}
    BY DEF Conn!DrainSends
  <2> QED
    BY <1>e, <2>1 DEF ConnInv, ConnSentInv, ConnTypes
<1>g. \/ /\ connReached'["hello"] = {sess}
         /\ \A x \in (ConnMessages \cup {"replayed"}) \ {"hello"} : connReached'[x] = connReached[x]
         /\ \A x \in ConnMessages \cup {"replayed"} :
              connReached'[x] \subseteq 1..sess' /\ connAnswered'[x] \subseteq connReached'[x]
         /\ ConnReachInv' /\ ConnAstrayInv' /\ ConnUnreadInv' /\ ConnHelloInv'
      \/ UNCHANGED connReached
  BY <1>e, <1>m, <1>f, ConnReachedIs
<1>1. ConnTypes'
  <2>1. cached' \in BOOLEAN
    BY DEF ConnInv, ConnAssumption, ConnTypes, Conn!DrainSends, ConnMessages, Conn!Messages, Conn!Lines, Conn!Sessions, Conn!Idle, Conn!Books, Conn!Greets, Conn!RequestOf, Conn!Scanning, Conn!Seen
  <2>2. connReached' \in [ConnMessages \cup {"replayed"} -> SUBSET (1..Links)]
    <3>1. connReached \in [ConnMessages \cup {"replayed"} -> SUBSET (1..Links)]
      BY DEF ConnInv, ConnTypes
    <3> QED
      BY ONLY <1>m, <1>f, <3>1
  <2>3. queued' \in BOOLEAN
    BY DEF ConnInv, ConnAssumption, ConnTypes, Conn!DrainSends, ConnMessages, Conn!Messages, Conn!Lines, Conn!Sessions, Conn!Idle, Conn!Books, Conn!Greets, Conn!RequestOf, Conn!Scanning, Conn!Seen
  <2>4. connMain' \in {"opens", "waits", "drains", "notes", "marks", "runs", "hands", "over"}
    BY DEF ConnInv, ConnAssumption, ConnTypes, Conn!DrainSends, ConnMessages, Conn!Messages, Conn!Lines, Conn!Sessions, Conn!Idle, Conn!Books, Conn!Greets, Conn!RequestOf, Conn!Scanning, Conn!Seen
  <2>5. sock' \in 0..Links
    <3>1. sock' \in {0, sock}
      BY DEF Conn!DrainSends
    <3> QED
      BY <3>1 DEF ConnInv, ConnTypes, ConnAssumption
  <2> QED
    BY <1>e, <2>1, <2>2, <2>3, <2>4, <2>5 DEF ConnInv, ConnTypes
<1>2. ConnSentInv'
  BY <1>e, <1>m, <1>g, <1>h DEF ConnInv, ConnSentInv
<1>3. ConnWriterInv'
  <2>1. ASSUME NEW m \in ConnMessages, m # "hello" PROVE connReached'[m] = connReached[m]
    BY <1>g, <2>1
  <2>2. ConnUnsent("hello") => "hello" \notin ConnBooks /\ errors["hello"] = 0
    BY DEF ConnUnsent
  <2> QED
    BY <1>e, <1>m, <1>f, <2>1, <2>2 DEF ConnInv, ConnWriterInv, ConnUnsent, ConnBooks
<1>4. ConnReachInv'
  BY <1>e, <1>g DEF ConnInv, ConnReachInv
<1>5. ConnBooksInv'
  BY <1>e DEF ConnInv, ConnBooksInv, ConnBooks
<1>6. ConnAstrayInv'
  BY <1>e, <1>g DEF ConnInv, ConnAstrayInv, ConnBooks
<1>7. ConnUnreadInv'
  BY <1>e, <1>g DEF ConnInv, ConnUnreadInv, ConnUnread
<1>8. ConnHelloInv'
  BY <1>e, <1>g DEF ConnInv, ConnHelloInv, ConnUnread
<1> QED
  BY <1>1, <1>2, <1>3, <1>4, <1>5, <1>6, <1>7, <1>8 DEF ConnInv

LEMMA ConnDrainNotesStep ==
  ASSUME ConnAssumption, ConnInv, Conn!DrainNotes
  PROVE  ConnInv'
<1>e. UNCHANGED <<engine, sess, ready, sock, up, lost, connReader, conn, uncertain, connFailed, fresh, connReached, connAnswered, connWriter, queued, cached, told, errors>>
  BY DEF Conn!DrainNotes, Conn!mainVars, Conn!sessVars, Conn!bookVars, Conn!nodeVars, Conn!agentVars
<1>m. "hello" \in ConnMessages /\ errors["hello"] = 0
  BY DEF ConnInv, ConnWriterInv, ConnMessages, Conn!DrainNotes
<1>b. ConnBooks' \subseteq ConnBooks \cup {"hello"}
  BY <1>e DEF Conn!DrainNotes, ConnBooks, Conn!Books
<1>1. ConnTypes'
  <2>1. connMain' \in {"opens", "waits", "drains", "notes", "marks", "runs", "hands", "over"}
    BY DEF ConnInv, ConnAssumption, ConnTypes, Conn!DrainNotes, Conn!Strays, ConnMessages, Conn!Messages, Conn!Lines, Conn!Sessions, Conn!Idle, Conn!Books, Conn!Greets, Conn!RequestOf, Conn!Scanning, Conn!Seen
  <2>2. connPending' \subseteq ConnMessages
    BY DEF ConnInv, ConnAssumption, ConnTypes, Conn!DrainNotes, Conn!Strays, ConnMessages, Conn!Messages, Conn!Lines, Conn!Sessions, Conn!Idle, Conn!Books, Conn!Greets, Conn!RequestOf, Conn!Scanning, Conn!Seen
  <2>3. astray' \subseteq ConnMessages
    BY DEF ConnInv, ConnAssumption, ConnTypes, Conn!DrainNotes, Conn!Strays, ConnMessages, Conn!Messages, Conn!Lines, Conn!Sessions, Conn!Idle, Conn!Books, Conn!Greets, Conn!RequestOf, Conn!Scanning, Conn!Seen
  <2> QED
    BY <1>e, <2>1, <2>2, <2>3 DEF ConnInv, ConnTypes
<1>2. ConnSentInv'
  BY <1>e DEF ConnInv, Conn!DrainNotes, Conn!Strays, ConnAssumption, ConnTypes, ConnSentInv, ConnMessages, Conn!Messages, Conn!Lines, Conn!Sessions, Conn!Idle, Conn!Books, Conn!Greets, Conn!RequestOf, Conn!Scanning, Conn!Seen
<1>3. ConnWriterInv'
  BY <1>e DEF ConnInv, Conn!DrainNotes, Conn!Strays, ConnAssumption, ConnTypes, ConnWriterInv, ConnUnsent, ConnBooks, ConnMessages, Conn!Messages, Conn!Lines, Conn!Sessions, Conn!Idle, Conn!Books, Conn!Greets, Conn!RequestOf, Conn!Scanning, Conn!Seen
<1>4. ConnReachInv'
  BY <1>e DEF ConnInv, ConnReachInv
<1>5. ConnBooksInv'
  BY <1>e, <1>m, <1>b DEF ConnInv, ConnBooksInv
<1>6. ConnAstrayInv'
  BY <1>e DEF ConnInv, Conn!DrainNotes, Conn!Strays, ConnAssumption, ConnTypes, ConnAstrayInv, ConnBooks, ConnMessages, Conn!Messages, Conn!Lines, Conn!Sessions, Conn!Idle, Conn!Books, Conn!Greets, Conn!RequestOf, Conn!Scanning, Conn!Seen
<1>7. ConnUnreadInv'
  BY <1>e DEF ConnInv, ConnUnreadInv, ConnUnread
<1>8. ConnHelloInv'
  BY <1>e DEF ConnInv, ConnHelloInv, ConnUnread
<1> QED
  BY <1>1, <1>2, <1>3, <1>4, <1>5, <1>6, <1>7, <1>8 DEF ConnInv

LEMMA ConnDrainedStep ==
  ASSUME ConnAssumption, ConnInv, Conn!Drained
  PROVE  ConnInv'
<1>e. UNCHANGED <<engine, sess, ready, sock, up, lost, connReader, conn, connPending, uncertain, connFailed, fresh, connReached, connAnswered, connWriter, queued, cached, told, errors, astray>>
  BY DEF Conn!Drained, Conn!mainVars, Conn!sessVars, Conn!bookVars, Conn!nodeVars, Conn!agentVars
<1>1. ConnTypes'
  <2>1. connMain' \in {"opens", "waits", "drains", "notes", "marks", "runs", "hands", "over"}
    BY DEF ConnInv, ConnAssumption, ConnTypes, Conn!Drained, ConnMessages, Conn!Messages, Conn!Lines, Conn!Sessions, Conn!Idle, Conn!Books, Conn!Greets, Conn!RequestOf, Conn!Scanning, Conn!Seen
  <2> QED
    BY <1>e, <2>1 DEF ConnInv, ConnTypes
<1>2. ConnSentInv'
  BY <1>e DEF ConnInv, Conn!Drained, ConnAssumption, ConnTypes, ConnSentInv, ConnMessages, Conn!Messages, Conn!Lines, Conn!Sessions, Conn!Idle, Conn!Books, Conn!Greets, Conn!RequestOf, Conn!Scanning, Conn!Seen
<1>3. ConnWriterInv'
  BY <1>e DEF ConnInv, Conn!Drained, ConnAssumption, ConnTypes, ConnWriterInv, ConnUnsent, ConnBooks, ConnMessages, Conn!Messages, Conn!Lines, Conn!Sessions, Conn!Idle, Conn!Books, Conn!Greets, Conn!RequestOf, Conn!Scanning, Conn!Seen
<1>4. ConnReachInv'
  BY <1>e DEF ConnInv, ConnReachInv
<1>5. ConnBooksInv'
  BY <1>e DEF ConnInv, ConnBooksInv, ConnBooks
<1>6. ConnAstrayInv'
  BY <1>e DEF ConnInv, ConnAstrayInv, ConnBooks
<1>7. ConnUnreadInv'
  BY <1>e DEF ConnInv, ConnUnreadInv, ConnUnread
<1>8. ConnHelloInv'
  BY <1>e DEF ConnInv, ConnHelloInv, ConnUnread
<1> QED
  BY <1>1, <1>2, <1>3, <1>4, <1>5, <1>6, <1>7, <1>8 DEF ConnInv

LEMMA ConnGoesUpStep ==
  ASSUME ConnAssumption, ConnInv, Conn!GoesUp
  PROVE  ConnInv'
<1>e. UNCHANGED <<engine, sess, ready, sock, lost, connReader, conn, connPending, uncertain, connFailed, fresh, connReached, connAnswered, queued, cached, told, errors, astray>>
  BY DEF Conn!GoesUp, Conn!mainVars, Conn!sessVars, Conn!bookVars, Conn!nodeVars, Conn!agentVars
<1>1. ConnTypes'
  <2>1. up' \in BOOLEAN
    BY DEF ConnInv, ConnAssumption, ConnTypes, Conn!GoesUp, ConnMessages, Conn!Messages, Conn!Lines, Conn!Sessions, Conn!Idle, Conn!Books, Conn!Greets, Conn!RequestOf, Conn!Scanning, Conn!Seen
  <2>2. connMain' \in {"opens", "waits", "drains", "notes", "marks", "runs", "hands", "over"}
    BY DEF ConnInv, ConnAssumption, ConnTypes, Conn!GoesUp, ConnMessages, Conn!Messages, Conn!Lines, Conn!Sessions, Conn!Idle, Conn!Books, Conn!Greets, Conn!RequestOf, Conn!Scanning, Conn!Seen
  <2>3. connWriter' \in [m : ConnMessages \cup {None},
             at : {"off", "reads", "took", "queues", "sends", "sent", "noted", "missed", "ends"}, s : 0..Links]
    BY DEF ConnInv, ConnAssumption, ConnTypes, Conn!GoesUp, ConnMessages, Conn!Messages, Conn!Lines, Conn!Sessions, Conn!Idle, Conn!Books, Conn!Greets, Conn!RequestOf, Conn!Scanning, Conn!Seen
  <2> QED
    BY <1>e, <2>1, <2>2, <2>3 DEF ConnInv, ConnTypes
<1>2. ConnSentInv'
  BY <1>e DEF ConnInv, Conn!GoesUp, ConnAssumption, ConnTypes, ConnSentInv, ConnMessages, Conn!Messages, Conn!Lines, Conn!Sessions, Conn!Idle, Conn!Books, Conn!Greets, Conn!RequestOf, Conn!Scanning, Conn!Seen
<1>3. ConnWriterInv'
  BY <1>e DEF ConnInv, Conn!GoesUp, ConnAssumption, ConnTypes, ConnWriterInv, ConnUnsent, ConnBooks, ConnMessages, Conn!Messages, Conn!Lines, Conn!Sessions, Conn!Idle, Conn!Books, Conn!Greets, Conn!RequestOf, Conn!Scanning, Conn!Seen
<1>4. ConnReachInv'
  BY <1>e DEF ConnInv, ConnReachInv
<1>5. ConnBooksInv'
  BY <1>e DEF ConnInv, ConnBooksInv, ConnBooks
<1>6. ConnAstrayInv'
  BY <1>e DEF ConnInv, ConnAstrayInv, ConnBooks
<1>7. ConnUnreadInv'
  BY <1>e DEF ConnInv, ConnUnreadInv, ConnUnread
<1>8. ConnHelloInv'
  BY <1>e DEF ConnInv, ConnHelloInv, ConnUnread
<1> QED
  BY <1>1, <1>2, <1>3, <1>4, <1>5, <1>6, <1>7, <1>8 DEF ConnInv

LEMMA ConnReconnectsStep ==
  ASSUME ConnAssumption, ConnInv, Conn!Reconnects
  PROVE  ConnInv'
<1>e. UNCHANGED <<engine, sess, ready, sock, up, connReader, conn, connPending, uncertain, connFailed, fresh, connReached, connAnswered, connWriter, queued, cached, told, errors, astray>>
  BY DEF Conn!Reconnects, Conn!mainVars, Conn!sessVars, Conn!bookVars, Conn!nodeVars, Conn!agentVars
<1>1. ConnTypes'
  <2>1. lost' \in BOOLEAN
    BY DEF ConnInv, ConnAssumption, ConnTypes, Conn!Reconnects, ConnMessages, Conn!Messages, Conn!Lines, Conn!Sessions, Conn!Idle, Conn!Books, Conn!Greets, Conn!RequestOf, Conn!Scanning, Conn!Seen
  <2>2. connMain' \in {"opens", "waits", "drains", "notes", "marks", "runs", "hands", "over"}
    BY DEF ConnInv, ConnAssumption, ConnTypes, Conn!Reconnects, ConnMessages, Conn!Messages, Conn!Lines, Conn!Sessions, Conn!Idle, Conn!Books, Conn!Greets, Conn!RequestOf, Conn!Scanning, Conn!Seen
  <2> QED
    BY <1>e, <2>1, <2>2 DEF ConnInv, ConnTypes
<1>2. ConnSentInv'
  BY <1>e DEF ConnInv, Conn!Reconnects, ConnAssumption, ConnTypes, ConnSentInv, ConnMessages, Conn!Messages, Conn!Lines, Conn!Sessions, Conn!Idle, Conn!Books, Conn!Greets, Conn!RequestOf, Conn!Scanning, Conn!Seen
<1>3. ConnWriterInv'
  BY <1>e DEF ConnInv, Conn!Reconnects, ConnAssumption, ConnTypes, ConnWriterInv, ConnUnsent, ConnBooks, ConnMessages, Conn!Messages, Conn!Lines, Conn!Sessions, Conn!Idle, Conn!Books, Conn!Greets, Conn!RequestOf, Conn!Scanning, Conn!Seen
<1>4. ConnReachInv'
  BY <1>e DEF ConnInv, ConnReachInv
<1>5. ConnBooksInv'
  BY <1>e DEF ConnInv, ConnBooksInv, ConnBooks
<1>6. ConnAstrayInv'
  BY <1>e DEF ConnInv, ConnAstrayInv, ConnBooks
<1>7. ConnUnreadInv'
  BY <1>e DEF ConnInv, ConnUnreadInv, ConnUnread
<1>8. ConnHelloInv'
  BY <1>e DEF ConnInv, ConnHelloInv, ConnUnread
<1> QED
  BY <1>1, <1>2, <1>3, <1>4, <1>5, <1>6, <1>7, <1>8 DEF ConnInv

LEMMA ConnExitsStep ==
  ASSUME ConnAssumption, ConnInv, Conn!Exits
  PROVE  ConnInv'
<1>e. UNCHANGED <<engine, sess, ready, sock, lost, connReader, conn, connPending, uncertain, connFailed, fresh, connReached, connAnswered, connWriter, queued, cached, told, errors, astray>>
  BY DEF Conn!Exits, Conn!mainVars, Conn!sessVars, Conn!bookVars, Conn!nodeVars, Conn!agentVars
<1>1. ConnTypes'
  <2>1. connMain' \in {"opens", "waits", "drains", "notes", "marks", "runs", "hands", "over"}
    BY DEF ConnInv, ConnAssumption, ConnTypes, Conn!Exits, ConnMessages, Conn!Messages, Conn!Lines, Conn!Sessions, Conn!Idle, Conn!Books, Conn!Greets, Conn!RequestOf, Conn!Scanning, Conn!Seen
  <2>2. up' \in BOOLEAN
    BY DEF ConnInv, ConnAssumption, ConnTypes, Conn!Exits, ConnMessages, Conn!Messages, Conn!Lines, Conn!Sessions, Conn!Idle, Conn!Books, Conn!Greets, Conn!RequestOf, Conn!Scanning, Conn!Seen
  <2> QED
    BY <1>e, <2>1, <2>2 DEF ConnInv, ConnTypes
<1>2. ConnSentInv'
  BY <1>e DEF ConnInv, Conn!Exits, ConnAssumption, ConnTypes, ConnSentInv, ConnMessages, Conn!Messages, Conn!Lines, Conn!Sessions, Conn!Idle, Conn!Books, Conn!Greets, Conn!RequestOf, Conn!Scanning, Conn!Seen
<1>3. ConnWriterInv'
  BY <1>e DEF ConnInv, Conn!Exits, ConnAssumption, ConnTypes, ConnWriterInv, ConnUnsent, ConnBooks, ConnMessages, Conn!Messages, Conn!Lines, Conn!Sessions, Conn!Idle, Conn!Books, Conn!Greets, Conn!RequestOf, Conn!Scanning, Conn!Seen
<1>4. ConnReachInv'
  BY <1>e DEF ConnInv, ConnReachInv
<1>5. ConnBooksInv'
  BY <1>e DEF ConnInv, ConnBooksInv, ConnBooks
<1>6. ConnAstrayInv'
  BY <1>e DEF ConnInv, ConnAstrayInv, ConnBooks
<1>7. ConnUnreadInv'
  BY <1>e DEF ConnInv, ConnUnreadInv, ConnUnread
<1>8. ConnHelloInv'
  BY <1>e DEF ConnInv, ConnHelloInv, ConnUnread
<1> QED
  BY <1>1, <1>2, <1>3, <1>4, <1>5, <1>6, <1>7, <1>8 DEF ConnInv

LEMMA ConnInitial == ASSUME ConnAssumption, Conn!Init PROVE ConnInv
<1>1. ConnTypes
  <2>1. connWriter = [m |-> None, at |-> "off", s |-> 0]
    BY DEF Conn!Init, Conn!Idle
  <2>2. 0 \in 0..Links /\ 0 \in 0..1
    BY DEF ConnAssumption
  <2>3. connWriter \in [m : ConnMessages \cup {None},
                        at : {"off", "reads", "took", "queues", "sends", "sent", "noted", "missed", "ends"},
                        s : 0..Links]
    BY ONLY <2>1, <2>2
  <2> QED
    BY <2>2, <2>3 DEF Conn!Init, ConnTypes, Conn!Sessions, Conn!Lines, Conn!Messages, ConnMessages
<1>2. ConnSentInv
  BY DEF Conn!Init, ConnSentInv, Conn!Sessions, Conn!Lines, Conn!Messages, ConnMessages
<1>3. ConnWriterInv
  BY DEF Conn!Init, Conn!Idle, ConnWriterInv, ConnAssumption
<1>4. ConnReachInv /\ ConnBooksInv /\ ConnAstrayInv /\ ConnUnreadInv /\ ConnHelloInv
  BY DEF Conn!Init, ConnReachInv, ConnBooksInv, ConnBooks, ConnAstrayInv, ConnUnreadInv, ConnUnread,
     ConnHelloInv, Conn!Sessions, Conn!Lines, Conn!Messages, ConnMessages
<1> QED
  BY <1>1, <1>2, <1>3, <1>4 DEF ConnInv

LEMMA ConnStep == ASSUME ConnAssumption, ConnInv, [Conn!Next]_(Conn!vars) PROVE ConnInv'
<1>s. Conn!Messages = ConnMessages /\ Conn!Lines = ConnMessages \cup {"replayed"} /\ Conn!Sessions = 1..Links
  BY DEF Conn!Messages, Conn!Lines, Conn!Sessions, ConnMessages
<1>1. CASE Conn!Writer
  BY <1>1, ConnRouteStep, ConnQueueStep, ConnSendStep, ConnLookStep, ConnNotesStep DEF Conn!Writer
<1>2. CASE Conn!Main
  BY <1>2, ConnAdoptsStep, ConnHandsStep, ConnFailsStep, ConnOpensStep, ConnWaitsStep, ConnDrainSendsStep,
     ConnDrainNotesStep, ConnDrainedStep, ConnGoesUpStep, ConnReconnectsStep, ConnExitsStep DEF Conn!Main
<1>3. CASE Conn!Finds \/ Conn!StdinEnds
  BY <1>3, ConnFindsStep, ConnStdinEndsStep
<1>4. ASSUME NEW m \in ConnMessages, Conn!Take(m) PROVE ConnInv'
  BY <1>4, ConnTakeStep
<1>5. ASSUME NEW s \in 1..Links,
             Conn!Reader(s) \/ Conn!NodeCloses(s) \/ \E x \in Conn!Lines : Conn!Answers(x, s)
      PROVE  ConnInv'
  <2>1. CASE Conn!Reader(s)
    BY <2>1, ConnAbsorbsStep, ConnReadsStep, ConnEndsStep, ConnEndsQuietlyStep,
       ConnLosesStep DEF Conn!Reader
  <2>2. CASE Conn!NodeCloses(s)
    BY <2>2, ConnNodeClosesStep
  <2>3. ASSUME NEW x \in ConnMessages \cup {"replayed"}, Conn!Answers(x, s) PROVE ConnInv'
    BY <2>3, ConnAnswersStep
  <2> QED
    BY <1>s, <1>5, <2>1, <2>2, <2>3
<1>6. CASE UNCHANGED Conn!vars
  <2>1. UNCHANGED connVars
    BY <1>6 DEF connVars, Conn!vars, Conn!mainVars, Conn!sessVars, Conn!bookVars, Conn!nodeVars, Conn!agentVars
  <2>2. ConnTypes' /\ ConnSentInv'
    BY <2>1 DEF connVars, ConnInv, ConnTypes, ConnSentInv
  <2>3. ConnWriterInv' /\ ConnReachInv' /\ ConnBooksInv'
    BY <2>1 DEF connVars, ConnInv, ConnWriterInv, ConnUnsent, ConnBooks, ConnReachInv, ConnBooksInv
  <2>4. ConnAstrayInv' /\ ConnUnreadInv' /\ ConnHelloInv'
    BY <2>1 DEF connVars, ConnInv, ConnAstrayInv, ConnBooks, ConnUnreadInv, ConnUnread, ConnHelloInv
  <2> QED
    BY <2>2, <2>3, <2>4 DEF ConnInv
<1> QED
  BY <1>s, <1>1, <1>2, <1>3, <1>4, <1>5, <1>6 DEF Conn!Next

\* A call reaches the node from the hands of the Agent's thread only, and before
\* the Agent is told anything of it.
LEMMA ConnSendsOnce ==
  ASSUME ConnAssumption, ConnInv, [Conn!Next]_(Conn!vars), NEW m \in Business, connReached'[m] # connReached[m]
  PROVE  connReached[m] = {} /\ errors[m] = 0
<1>s. m \in ConnMessages /\ m \notin {"hello", "replayed"}
  BY DEF ConnAssumption, ConnMessages
<1>t. connReached \in [ConnMessages \cup {"replayed"} -> SUBSET (1..Links)]
  BY DEF ConnInv, ConnTypes
<1>1. CASE Conn!Send
  <2>1. connWriter.m = m
    BY <1>1, <1>s, <1>t DEF Conn!Send
  <2> QED
    BY <1>1, <2>1 DEF Conn!Send, ConnInv, ConnWriterInv, ConnUnsent
<1>2. CASE Conn!DrainSends
  BY <1>2, <1>s, <1>t DEF Conn!DrainSends
<1>3. CASE Conn!Opens
  BY <1>3, <1>s, <1>t DEF Conn!Opens
<1>4. CASE Conn!Writer /\ ~Conn!Send
  BY <1>4 DEF Conn!Writer, Conn!Route, Conn!Queue, Conn!Look, Conn!Notes, Conn!nodeVars
<1>5. CASE Conn!Main /\ ~Conn!DrainSends /\ ~Conn!Opens
  BY <1>5 DEF Conn!Main, Conn!Adopts, Conn!Hands, Conn!Fails, Conn!Waits, Conn!DrainNotes, Conn!Drained,
     Conn!GoesUp, Conn!Reconnects, Conn!Exits, Conn!nodeVars
<1>6. CASE Conn!Finds \/ Conn!StdinEnds \/ \E x \in Conn!Messages : Conn!Take(x)
  BY <1>6 DEF Conn!Finds, Conn!StdinEnds, Conn!Take, Conn!nodeVars
<1>7. ASSUME NEW s \in Conn!Sessions,
             Conn!Reader(s) \/ Conn!NodeCloses(s) \/ \E x \in Conn!Lines : Conn!Answers(x, s)
      PROVE  FALSE
  BY <1>7 DEF Conn!Reader, Conn!Absorbs, Conn!Reads, Conn!Ends, Conn!EndsQuietly, Conn!Loses,
     Conn!NodeCloses, Conn!Answers, Conn!nodeVars
<1>8. CASE UNCHANGED Conn!vars
  BY <1>8 DEF Conn!vars, Conn!nodeVars
<1> QED
  BY <1>1, <1>2, <1>3, <1>4, <1>5, <1>6, <1>7, <1>8 DEF Conn!Next

\* Two answers mean that the request was in no book when it was answered, or not
\* in that of its own session.
LEMMA ConnTwiceIsAstray == ASSUME ConnInv PROVE Conn!AnsweredTwiceIsAstray
<1>1. SUFFICES ASSUME NEW m \in ConnMessages, told[m] + errors[m] > 1 PROVE m \in astray
  BY DEF Conn!AnsweredTwiceIsAstray, Conn!Messages, ConnMessages
<1>2. told[m] \in 0..1 /\ errors[m] \in 0..1
  BY DEF ConnInv, ConnTypes
<1>3. m \notin astray => (errors[m] > 0 => told[m] = 0)
  BY DEF ConnInv, ConnAstrayInv
<1> QED
  BY <1>1, <1>2, <1>3

-----------------------------------------------------------------------------
(* The constants of the programs are what their proofs need.                 *)

LEMMA ProxyConstants == ProxyAssumption
BY AgentsAssumption DEF ProxyAssumption

LEMMA PoolConstants == Pool!AdapterAssumption
BY AgentsAssumption DEF Pool!AdapterAssumption

LEMMA LegacyConstants == LegacyAssumption /\ LegacyUnique
<1>1. LegacyAssumption
  BY AgentsAssumption DEF LegacyAssumption, LegacyAnswers, Legacy!Requests
<1>2. LegacyUnique
  BY DEF LegacyUnique, LegacyIds, Legacy!Requests
<1> QED
  BY <1>1, <1>2

LEMMA DeferredConstants == DeferredAssumption
BY AgentsAssumption DEF DeferredAssumption, Deferred!Requests

LEMMA AdapterConstants == AdapterAssumption
BY AgentsAssumption DEF AdapterAssumption

LEMMA ConnConstants == ConnAssumption
BY AgentsAssumption DEF ConnAssumption

-----------------------------------------------------------------------------
(* What each program keeps.                                                  *)

LEMMA ProxyHolds == Stateless!Spec => [](Stateless!TypeOK /\ ProxyUntouchedInv /\ ProxyPlacesInv)
<1>1. Stateless!Init => Stateless!TypeOK /\ ProxyUntouchedInv /\ ProxyPlacesInv
  BY ProxyConstants, ProxyInitial
<1>2. Stateless!TypeOK /\ ProxyUntouchedInv /\ ProxyPlacesInv /\ [Stateless!Next]_(Stateless!vars)
        => (Stateless!TypeOK /\ ProxyUntouchedInv /\ ProxyPlacesInv)'
  BY ProxyConstants, ProxyTypesStep, ProxyUntouchedStep, ProxyPlacesStep
<1> QED
  BY <1>1, <1>2, PTL DEF Stateless!Spec

LEMMA LegacyHolds == Legacy!Spec => [](LegacySentInv /\ LegacyCancelInv /\ Legacy!CancelHitsItsOwn)
<1>1. Legacy!Init => LegacySentInv /\ LegacyCancelInv /\ Legacy!CancelHitsItsOwn
  BY LegacyConstants, LegacyInitial
<1>2. LegacySentInv /\ LegacyCancelInv /\ Legacy!CancelHitsItsOwn /\ [Legacy!Next]_(Legacy!vars)
        => (LegacySentInv /\ LegacyCancelInv /\ Legacy!CancelHitsItsOwn)'
  BY LegacyConstants, LegacySentStep, LegacyCancelStep
<1> QED
  BY <1>1, <1>2, PTL DEF Legacy!Spec

\* What the deferred tools keep.
DeferredInv ==
  /\ DeferredFlowInv
  /\ DeferredSentInv /\ Deferred!SafeMeansUnsent
  /\ DeferredFreshInv

LEMMA DeferredHolds == Deferred!Spec => []DeferredInv
<1>1. Deferred!Init => DeferredInv
  BY DeferredConstants, DeferredInitial, DeferredBegins DEF DeferredInv
<1>2. DeferredInv /\ [Deferred!Next]_(Deferred!vars) => DeferredInv'
  <2> SUFFICES ASSUME DeferredInv, [Deferred!Next]_(Deferred!vars) PROVE DeferredInv'
    OBVIOUS
  <2>1. DeferredFlowInv'
    BY DeferredConstants, DeferredFlowStep DEF DeferredInv
  <2>2. (DeferredSentInv /\ Deferred!SafeMeansUnsent)'
    <3>1. DeferredInputTypes /\ DeferredServeInv /\ DeferredGhostTypes
      BY DEF DeferredInv, DeferredFlowInv
    <3> QED
      BY <3>1, DeferredConstants, DeferredSentStep DEF DeferredInv
  <2>3. DeferredFreshInv'
    BY DeferredConstants, DeferredFreshStep DEF DeferredInv
  <2> QED
    BY <2>1, <2>2, <2>3 DEF DeferredInv
<1> QED
  BY <1>1, <1>2, PTL DEF Deferred!Spec

LEMMA AdapterKeeps == Failing!Spec => []AdapterInv
BY AdapterConstants, AdapterInitial, AdapterStep, PTL DEF Failing!Spec

LEMMA ConnKeeps == Conn!Spec => []ConnInv
BY ConnConstants, ConnInitial, ConnStep, PTL DEF Conn!Spec

-----------------------------------------------------------------------------
(* The types, which follow from what each program keeps.                     *)

LEMMA ConnTyped == ASSUME ConnInv PROVE Conn!TypeOK
BY DEF ConnInv, ConnTypes, Conn!TypeOK, Conn!Sessions, Conn!Lines, Conn!Messages, ConnMessages

LEMMA LegacyTyped == ASSUME LegacySentInv PROVE Legacy!TypeOK
<1>1. Legacy!Range(legacyQueue) \subseteq Legacy!Requests
  <2>1. legacyQueue \in Seq(Legacy!Requests)
    BY DEF LegacySentInv, LegacyTypes
  <2> QED
    BY <2>1 DEF Legacy!Range
<1>2. legacyReply \in [Legacy!Requests ->
                       {None, "ok", "overload", "refused", "safe", "failed", "unknown", "dropped"}]
  BY DEF LegacySentInv, LegacyTypes, LegacyAnswers
<1>3. legacyReader.step \in {"idle", "looks", "acts"}
  BY DEF LegacySentInv, LegacyTypes
<1>4. legacyPc \in {"idle", "starts", "enters", "checks", "rechecks", "writes", "wrote", "waits", "clears",
                    "leaves", "ends", "over"}
  BY DEF LegacySentInv, LegacyTypes, LegacyServing, LegacyUnsent
<1> QED
  BY <1>1, <1>2, <1>3, <1>4 DEF LegacySentInv, LegacyTypes, Legacy!TypeOK

LEMMA DeferredTyped == ASSUME DeferredAssumption, DeferredFlowInv PROVE Deferred!TypeOK
<1>1. Deferred!Range(deferredInbound) \subseteq asked
  <2>1. \A i \in DOMAIN deferredInbound : deferredInbound[i] \in asked
    BY DEF DeferredFlowInv, DeferredInputTypes
  <2> QED
    BY <2>1 DEF Deferred!Range
<1>2. tidying \in 0 .. MaxPeers
  BY DEF DeferredFlowInv, DeferredLinkTypes, DeferredAssumption
<1>3. deferredPending = Deferred!Quiet \/ deferredPending.of = deferredCur
  BY DEF DeferredFlowInv, DeferredServeInv
<1>4. (deferredPending # Deferred!Quiet) = (deferredPc \in {"sends", "waits", "tidies"})
  <2>1. deferredPc \in DeferredExchanging => deferredPending # Deferred!Quiet
    <3>1. deferredPc \in DeferredExchanging => deferredPending.what \in DeferredNotes
      BY DEF DeferredFlowInv, DeferredServeInv
    <3> QED
      BY <3>1, DeferredNoneIsNoNote DEF DeferredNotes
  <2>2. deferredPc \notin DeferredExchanging => deferredPending = Deferred!Quiet
    BY DEF DeferredFlowInv, DeferredServeInv
  <2> QED
    BY <2>1, <2>2 DEF DeferredExchanging
<1>5. cancelling.step \in {"idle", "acts"}
  BY DEF DeferredFlowInv, DeferredInputTypes
<1>6. /\ asked \subseteq Deferred!Requests /\ deferredWithdrawn \subseteq asked
      /\ deferredClosed \in BOOLEAN /\ peer \in 0 .. MaxPeers /\ real \in 0 .. MaxReal
  BY DEF DeferredFlowInv, DeferredInputTypes, DeferredLinkTypes
<1>7. deferredInflight = deferredCur /\ (deferredCur = None) = (deferredPc = "idle")
  BY DEF DeferredFlowInv, DeferredServeInv
<1>8. expanded \in BOOLEAN /\ (catalog = None \/ catalog \subseteq (1 .. MaxPeers) \X (0 .. MaxReal))
  BY DEF DeferredFlowInv, DeferredViewTypes, DeferredVersions
<1>9. seen <= epoch /\ Len(pages) <= Pages
  BY DEF DeferredFlowInv, DeferredViewTypes, DeferredPageTypes
<1>10. /\ \A i, j \in DOMAIN back : back[i] # Deferred!Changed /\ back[j] # Deferred!Changed => i = j
       /\ deferredSent \subseteq DeferredCalls
  BY DEF DeferredFlowInv, DeferredOneAnswer, DeferredGhostTypes
<1> QED
  BY <1>1, <1>2, <1>3, <1>4, <1>5, <1>6, <1>7, <1>8, <1>9, <1>10 DEF Deferred!TypeOK

\* The requests in the pool are never more than its places.
PoolPlacesInv ==
  /\ poolPending \subseteq Pooled /\ IsFiniteSet(poolPending) /\ Cardinality(poolPending) <= PoolPlaces
  /\ poolMain \in {"runs", "joins", "over"}
  /\ delivered \subseteq Pooled /\ poolWithdrawn \subseteq Pooled

LEMMA PoolSizes == \A S : Pool!Cardinality(S) = Cardinality(S)
BY DEF Pool!Cardinality, Cardinality

LEMMA PoolPlacesStep ==
  ASSUME PoolPlaces \in Nat, PoolPlacesInv, [Pool!Next]_(Pool!vars) PROVE PoolPlacesInv'
<1> USE DEF PoolPlacesInv, Pool!token, Pool!client
<1>1. ASSUME NEW r \in Pooled, Pool!Handle(r) PROVE PoolPlacesInv'
  <2>1. CASE poolPending' = poolPending
    BY <1>1, <2>1 DEF Pool!Handle
  <2>2. CASE poolPending' = poolPending \cup {r} /\ ~(Cardinality(poolPending) >= PoolPlaces)
    <3>1. IsFiniteSet(poolPending') /\ Cardinality(poolPending')
            = IF r \in poolPending THEN Cardinality(poolPending) ELSE Cardinality(poolPending) + 1
      BY <2>2, FS_AddElement
    <3>2. Cardinality(poolPending) \in Nat
      BY FS_CardinalityType
    <3>3. Cardinality(poolPending') <= PoolPlaces
      BY ONLY <3>1, <3>2, <2>2, PoolPlaces \in Nat
    <3> QED
      BY <1>1, <2>2, <3>1, <3>3 DEF Pool!Handle
  <2> QED
    BY <1>1, <2>1, <2>2, PoolSizes DEF Pool!Handle
<1>2. ASSUME NEW r \in Pooled, Pool!Pop(r) PROVE PoolPlacesInv'
  <2>1. IsFiniteSet(poolPending') /\ Cardinality(poolPending')
          = IF r \in poolPending THEN Cardinality(poolPending) - 1 ELSE Cardinality(poolPending)
    BY <1>2, FS_RemoveElement DEF Pool!Pop
  <2>2. Cardinality(poolPending) \in Nat
    BY FS_CardinalityType
  <2>3. Cardinality(poolPending') <= PoolPlaces
    BY ONLY <2>1, <2>2, PoolPlacesInv, PoolPlaces \in Nat DEF PoolPlacesInv
  <2> QED
    BY <1>2, <2>1, <2>3 DEF Pool!Pop
<1>3. CASE UNCHANGED <<poolPending, poolMain, delivered, poolWithdrawn>>
  BY <1>3
<1>4. ASSUME NEW r \in Pooled, Pool!Cancel(r) \/ Pool!SendBody(r) PROVE PoolPlacesInv'
  BY <1>4 DEF Pool!Cancel, Pool!SendBody
<1>5. CASE Pool!Shutdown \/ Pool!Joined
  BY <1>5 DEF Pool!Shutdown, Pool!Joined
<1>6. ASSUME NEW r \in Pooled,
             Pool!TimesOut(r) \/ Pool!Work(r) \/ Pool!Preflight(r) \/ Pool!PreflightRefuses(r) \/ Pool!Refused(r)
               \/ Pool!Connect(r)
      PROVE  PoolPlacesInv'
  BY <1>3, <1>6 DEF Pool!TimesOut, Pool!Work, Pool!Preflight, Pool!PreflightRefuses, Pool!Refused,
     Pool!Connect, Pool!Steps
<1>7. ASSUME NEW r \in Pooled,
             Pool!Send(r) \/ Pool!Receive(r) \/ Pool!Fails(r) \/ Pool!Emit(r) \/ Pool!Silence(r) \/ Pool!Report(r)
      PROVE  PoolPlacesInv'
  BY <1>3, <1>7 DEF Pool!Send, Pool!Receive, Pool!Fails, Pool!Emit, Pool!Silence, Pool!Report
<1>8. CASE UNCHANGED Pool!vars
  BY <1>3, <1>8 DEF Pool!vars
<1> QED
  BY <1>1, <1>2, <1>4, <1>5, <1>6, <1>7, <1>8 DEF Pool!Next

LEMMA PoolTyped == Pool!Spec => []Pool!TypeOK
<1>1. Pool!Init => PoolPlacesInv
  BY AgentsAssumption, FS_EmptySet DEF Pool!Init, PoolPlacesInv
<1>2. PoolPlacesInv /\ [Pool!Next]_(Pool!vars) => PoolPlacesInv'
  BY AgentsAssumption, PoolPlacesStep
<1>3. PoolTypes /\ PoolPlacesInv => Pool!TypeOK
  BY PoolSizes DEF PoolTypes, PoolStops, PoolReplies, PoolPlacesInv, Pool!TypeOK
<1> QED
  BY <1>1, <1>2, <1>3, PoolTypesHold, PTL DEF Pool!Spec
==============================================================================
