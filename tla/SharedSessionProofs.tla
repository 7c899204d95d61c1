------------------------- MODULE SharedSessionProofs -------------------------
(* Theorems about SharedQueue and SharedSession, for every set of clients   *)
(* of either era, every limit and every choice of habits: the queue alone   *)
(* (its round robin, its limits in requests, its byte counters), then the   *)
(* session that runs it.                                                    *)
EXTENDS SharedSession, FiniteSetTheorems, TLAPS

-----------------------------------------------------------------------------
(* The queue by itself.                                                     *)

\* Identities are numbers, and neither None nor the Bridge is a client.
LEMMA Names ==
  /\ Ids \subseteq Nat \ {0} /\ IsFiniteSet(Ids)
  /\ Clients \subseteq Owners /\ Bridge \in Owners
  /\ None \notin Owners /\ Bridge \notin Clients
<1>1. Ids \subseteq Nat \ {0}
  BY QueueAssumption DEF QueueAssumption, Ids
<1>2. IsFiniteSet(Ids)
  BY FS_Interval, QueueAssumption DEF QueueAssumption, Ids
<1>3. None \notin Owners
  BY QueueAssumption DEF QueueAssumption, Owners, None, Bridge
<1> QED
  BY <1>1, <1>2, <1>3, QueueAssumption DEF QueueAssumption, Owners

\* A put gives the next identity to the lane and leaves the others alone.
LEMMA PutLanes ==
  ASSUME LanesTypeOK, NEW o \in Owners, NEW n, Put(o, n)
  PROVE  /\ LanesTypeOK' /\ last + 1 \in Ids
         /\ Lane(o)' = Lane(o) \cup {last + 1}
         /\ \A d \in Owners \ {o} : Lane(d)' \subseteq Lane(d)
         /\ Queued' = Queued \cup {last + 1}
         /\ owner' = [owner EXCEPT ![last + 1] = o]
<1>1. last + 1 \in Ids /\ last' = last + 1 /\ last' \in 0..MaxId
  BY QueueAssumption DEF QueueAssumption, LanesTypeOK, Put, Ids
<1>2. owner' = [owner EXCEPT ![last + 1] = o] /\ passed' = passed
  BY DEF Put
<1>3. owner' \in [Ids -> Owners \cup {None}]
  BY <1>1, <1>2 DEF LanesTypeOK
<1>4. Waiting \subseteq Clients
  BY DEF Waiting
<1>5. ahead' \in [Clients -> SUBSET Clients]
  BY <1>4 DEF LanesTypeOK, Put
<1>6. LanesTypeOK'
  BY <1>1, <1>2, <1>3, <1>5 DEF LanesTypeOK
<1>7. o # None
  BY Names
<1>8. \A i \in Ids : owner'[i] = IF i = last + 1 THEN o ELSE owner[i]
  BY <1>1, <1>2 DEF LanesTypeOK
<1>9. Lane(o)' = Lane(o) \cup {last + 1}
  BY <1>1, <1>8 DEF Lane
<1>10. \A d \in Owners \ {o} : Lane(d)' \subseteq Lane(d)
  BY <1>8 DEF Lane
<1>11. Queued' = Queued \cup {last + 1}
  BY <1>1, <1>7, <1>8 DEF Queued
<1> QED
  BY <1>1, <1>2, <1>6, <1>9, <1>10, <1>11

\* What is removed leaves its lane, and nothing else changes.
LEMMA RemoveLanes ==
  ASSUME LanesTypeOK, NEW S, Remove(S)
  PROVE  /\ owner' \in [Ids -> Owners \cup {None}] /\ last' \in 0..MaxId
         /\ \A o \in Owners : Lane(o)' = Lane(o) \ S
         /\ Queued' = Queued \ S
         /\ Waiting' = Left(S)
<1>1. \A i \in Ids : owner'[i] = IF i \in S THEN None ELSE owner[i]
  BY DEF Remove
<1>2. owner' \in [Ids -> Owners \cup {None}] /\ last' \in 0..MaxId
  BY DEF LanesTypeOK, Remove
<1>3. ASSUME NEW o \in Owners PROVE Lane(o)' = Lane(o) \ S
  BY <1>1, Names DEF Lane
<1>4. Queued' = Queued \ S
  BY <1>1 DEF Queued
<1>5. Waiting' = Left(S)
  BY <1>3, Names DEF Waiting, Left
<1> QED
  BY <1>2, <1>3, <1>4, <1>5

\* After clear nothing is queued.
LEMMA ClearLanes ==
  ASSUME LanesTypeOK, Clear
  PROVE  /\ LanesTypeOK' /\ Queued' = {} /\ Waiting' = {}
         /\ \A o \in Owners : Lane(o)' = {}
<1>1. \A i \in Ids : owner'[i] = None
  BY DEF Clear
<1>2. LanesTypeOK'
  BY DEF LanesTypeOK, Clear, NeverPassed
<1>3. Queued' = {}
  BY <1>1 DEF Queued
<1>4. \A o \in Owners : Lane(o)' = {}
  BY <1>1, Names DEF Lane
<1>5. Waiting' = {}
  BY <1>4, Names DEF Waiting
<1> QED
  BY <1>2, <1>3, <1>4, <1>5

-----------------------------------------------------------------------------
(* Types.                                                                   *)

LEMMA DiscardType ==
  ASSUME LanesTypeOK, NEW S, Discard(S)
  PROVE  LanesTypeOK'
<1>1. Remove(S)
  BY DEF Discard
<1>2. ahead' \in [Clients -> SUBSET Clients]
  BY DEF LanesTypeOK, Discard
<1>3. passed' \in [Clients -> [Clients -> Nat]]
  BY DEF LanesTypeOK, Discard
<1> QED
  BY <1>1, <1>2, <1>3, RemoveLanes DEF LanesTypeOK

LEMMA TakeType ==
  ASSUME LanesTypeOK, NEW i \in Ids, Take(i)
  PROVE  LanesTypeOK'
<1>1. Remove({i})
  BY DEF Take
<1>2. Left({i}) \subseteq Clients
  BY DEF Left
<1>3. ahead' \in [Clients -> SUBSET Clients]
  BY <1>2 DEF LanesTypeOK, Take
<1>4. passed' \in [Clients -> [Clients -> Nat]]
  BY DEF LanesTypeOK, Take
<1> QED
  BY <1>1, <1>3, <1>4, RemoveLanes DEF LanesTypeOK

\* The lanes keep their type, so identities stay within their bound.
LEMMA LanesTypeStep ==
  ASSUME LanesTypeOK, [QueueNext]_queueVars
  PROVE  LanesTypeOK'
<1>1. ASSUME NEW o \in Owners, NEW n \in Sizes, Put(o, n) PROVE LanesTypeOK'
  BY <1>1, PutLanes
<1>2. ASSUME NEW S \in SUBSET Queued, Discard(S) PROVE LanesTypeOK'
  BY <1>2, DiscardType
<1>3. ASSUME NEW i \in Ids, Take(i) PROVE LanesTypeOK'
  BY <1>3, TakeType
<1>4. CASE Clear
  BY <1>4, ClearLanes
<1>5. CASE UNCHANGED queueVars
  BY <1>5 DEF queueVars, LanesTypeOK
<1> QED
  BY <1>1, <1>2, <1>3, <1>4, <1>5 DEF QueueNext

LEMMA InitialLanes ==
  ASSUME QueueInit
  PROVE  /\ LanesTypeOK /\ Queued = {} /\ Waiting = {}
         /\ \A o \in Owners : Lane(o) = {}
<1>1. \A i \in Ids : owner[i] = None
  BY DEF QueueInit
<1>2. LanesTypeOK
  BY QueueAssumption DEF QueueAssumption, LanesTypeOK, QueueInit, NeverPassed
<1>3. Queued = {} /\ \A o \in Owners : Lane(o) = {}
  BY <1>1, Names DEF Queued, Lane
<1>4. Waiting = {}
  BY <1>3, Names DEF Waiting
<1> QED
  BY <1>2, <1>3, <1>4
-----------------------------------------------------------------------------
(* The limits.                                                              *)

\* One more element, or none.
LEMMA OneMore ==
  ASSUME NEW S, NEW x, IsFiniteSet(S)
  PROVE  /\ IsFiniteSet(S \cup {x}) /\ Cardinality(S \cup {x}) \in Nat
         /\ Cardinality(S \cup {x}) <= Cardinality(S) + 1
<1>1. Cardinality(S) \in Nat
  BY FS_CardinalityType
<1>2. IsFiniteSet(S \cup {x}) /\ Cardinality(S \cup {x}) \in {Cardinality(S), Cardinality(S) + 1}
  BY FS_AddElement
<1> QED
  BY <1>1, <1>2

LEMMA FiniteLanes ==
  /\ \A o \in Owners : IsFiniteSet(Lane(o)) /\ Cardinality(Lane(o)) \in Nat
  /\ IsFiniteSet(Queued) /\ Cardinality(Queued) \in Nat
<1>1. \A o \in Owners : Lane(o) \subseteq Ids
  BY DEF Lane
<1>2. Queued \subseteq Ids
  BY DEF Queued
<1> QED
  BY <1>1, <1>2, Names, FS_Subset, FS_CardinalityType

\* Whatever only loses requests stays within the limits.
LEMMA FewerRequests ==
  ASSUME QueueBounded, \A o \in Owners : Lane(o)' \subseteq Lane(o),
         (Queued \ Lane(Bridge))' \subseteq Queued \ Lane(Bridge)
  PROVE  QueueBounded'
<1>1. \A o \in Owners : Cardinality(Lane(o)') \in Nat /\ Cardinality(Lane(o)') <= Cardinality(Lane(o))
  BY FiniteLanes, FS_Subset, FS_CardinalityType
<1>2. IsFiniteSet(Queued \ Lane(Bridge))
  BY FiniteLanes, FS_Subset
<1>3. /\ Cardinality((Queued \ Lane(Bridge))') \in Nat
      /\ Cardinality(Queued \ Lane(Bridge)) \in Nat
      /\ Cardinality((Queued \ Lane(Bridge))') <= Cardinality(Queued \ Lane(Bridge))
  BY <1>2, FS_Subset, FS_CardinalityType
<1>4. \A c \in Clients : Cardinality(Lane(c)') <= MaxClientRequests
  <2> SUFFICES ASSUME NEW c \in Clients PROVE Cardinality(Lane(c)') <= MaxClientRequests
    OBVIOUS
  <2>1. c \in Owners
    BY Names
  <2>2. Cardinality(Lane(c)) <= MaxClientRequests
    BY DEF QueueBounded
  <2> QED
    BY <1>1, <2>1, <2>2, FiniteLanes, QueueAssumption DEF QueueAssumption
<1>5. Cardinality(Lane(Bridge)') <= MaxInternal
  <2>1. Cardinality(Lane(Bridge)) <= MaxInternal
    BY DEF QueueBounded
  <2> QED
    BY <1>1, <2>1, Names, FiniteLanes, QueueAssumption DEF QueueAssumption
<1>6. Cardinality((Queued \ Lane(Bridge))') <= MaxRequests
  BY <1>3, QueueAssumption DEF QueueAssumption, QueueBounded
<1> QED
  BY <1>4, <1>5, <1>6 DEF QueueBounded

\* put_nowait looks at the limits before it adds.
LEMMA PutBounded ==
  ASSUME LanesTypeOK, QueueBounded, NEW o \in Owners, NEW n, Put(o, n)
  PROVE  QueueBounded'
<1> DEFINE i == last + 1
<1>1. /\ Lane(o)' = Lane(o) \cup {i} /\ Queued' = Queued \cup {i} /\ i \in Ids
      /\ \A d \in Owners \ {o} : Lane(d)' \subseteq Lane(d)
  BY PutLanes
<1>2. ~Refused(o, n)
  BY DEF Put
<1>3. /\ IsFiniteSet(Lane(o)') /\ Cardinality(Lane(o)') \in Nat
      /\ Cardinality(Lane(o)') <= Cardinality(Lane(o)) + 1
  BY <1>1, FiniteLanes, OneMore
<1>4. \A d \in Owners \ {o} : /\ Cardinality(Lane(d)') \in Nat
                              /\ Cardinality(Lane(d)') <= Cardinality(Lane(d))
  BY <1>1, FiniteLanes, FS_Subset, FS_CardinalityType
<1>5. \A c \in Clients \ {o} : Cardinality(Lane(c)') <= MaxClientRequests
  <2> SUFFICES ASSUME NEW c \in Clients \ {o} PROVE Cardinality(Lane(c)') <= MaxClientRequests
    OBVIOUS
  <2>1. Cardinality(Lane(c)) <= MaxClientRequests /\ c \in Owners \ {o}
    BY Names DEF QueueBounded
  <2> QED
    BY <1>4, <2>1, FiniteLanes, QueueAssumption DEF QueueAssumption
<1>6. CASE o = Bridge
  <2>1. Cardinality(Lane(Bridge)) < MaxInternal
    BY <1>2, <1>6, Names, FiniteLanes, QueueAssumption DEF Refused, QueueAssumption
  <2>2. Cardinality(Lane(Bridge)') <= MaxInternal
    BY <1>3, <1>6, <2>1, FiniteLanes, Names, QueueAssumption DEF QueueAssumption
  <2>3. (Queued \ Lane(Bridge))' \subseteq Queued \ Lane(Bridge)
    BY <1>1, <1>6
  <2>4. IsFiniteSet(Queued \ Lane(Bridge))
    BY FiniteLanes, FS_Subset
  <2>5. /\ Cardinality((Queued \ Lane(Bridge))') \in Nat
        /\ Cardinality(Queued \ Lane(Bridge)) \in Nat
        /\ Cardinality((Queued \ Lane(Bridge))') <= Cardinality(Queued \ Lane(Bridge))
    BY <2>3, <2>4, FS_Subset, FS_CardinalityType
  <2>6. Cardinality((Queued \ Lane(Bridge))') <= MaxRequests
    BY <2>5, QueueAssumption DEF QueueAssumption, QueueBounded
  <2>7. \A c \in Clients : Cardinality(Lane(c)') <= MaxClientRequests
    BY <1>5, <1>6, Names
  <2> QED
    BY <2>2, <2>6, <2>7 DEF QueueBounded
<1>7. CASE o # Bridge
  <2>1. Cardinality(Lane(o)) < MaxClientRequests /\ Cardinality(Queued) < MaxRequests
    BY <1>2, <1>7, FiniteLanes, QueueAssumption DEF Refused, QueueAssumption
  <2>2. \A c \in Clients : Cardinality(Lane(c)') <= MaxClientRequests
    BY <1>3, <1>5, <2>1, FiniteLanes, QueueAssumption DEF QueueAssumption
  <2>3. Cardinality(Lane(Bridge)) <= MaxInternal /\ Bridge \in Owners \ {o}
    BY <1>7, Names DEF QueueBounded
  <2>4. Cardinality(Lane(Bridge)') <= MaxInternal
    BY <1>4, <2>3, FiniteLanes, QueueAssumption DEF QueueAssumption
  <2>5. /\ IsFiniteSet(Queued') /\ Cardinality(Queued') \in Nat
        /\ Cardinality(Queued') <= Cardinality(Queued) + 1
    BY <1>1, FiniteLanes, OneMore
  <2>6. /\ Cardinality((Queued \ Lane(Bridge))') \in Nat
        /\ Cardinality((Queued \ Lane(Bridge))') <= Cardinality(Queued')
    <3>1. (Queued \ Lane(Bridge))' \subseteq Queued'
      OBVIOUS
    <3> QED
      BY <2>5, <3>1, FS_Subset, FS_CardinalityType
  <2>7. Cardinality((Queued \ Lane(Bridge))') <= MaxRequests
    BY <2>1, <2>5, <2>6, FiniteLanes, QueueAssumption DEF QueueAssumption
  <2> QED
    BY <2>2, <2>4, <2>7 DEF QueueBounded
<1> QED
  BY <1>6, <1>7

LEMMA BoundedStep ==
  ASSUME LanesTypeOK, QueueBounded, [QueueNext]_queueVars
  PROVE  QueueBounded'
<1>1. ASSUME NEW o \in Owners, NEW n \in Sizes, Put(o, n) PROVE QueueBounded'
  BY <1>1, PutBounded
<1>2. ASSUME NEW S, Remove(S) PROVE QueueBounded'
  <2>1. \A o \in Owners : Lane(o)' \subseteq Lane(o)
    BY <1>2, RemoveLanes
  <2>2. (Queued \ Lane(Bridge))' \subseteq Queued \ Lane(Bridge)
    BY <1>2, RemoveLanes, Names
  <2> QED
    BY <2>1, <2>2, FewerRequests
<1>3. ASSUME NEW S \in SUBSET Queued, Discard(S) PROVE QueueBounded'
  BY <1>2, <1>3 DEF Discard
<1>4. ASSUME NEW i \in Ids, Take(i) PROVE QueueBounded'
  BY <1>2, <1>4 DEF Take
<1>5. CASE Clear
  <2>1. \A o \in Owners : Lane(o)' \subseteq Lane(o)
    BY <1>5, ClearLanes
  <2>2. (Queued \ Lane(Bridge))' \subseteq Queued \ Lane(Bridge)
    BY <1>5, ClearLanes
  <2> QED
    BY <2>1, <2>2, FewerRequests
<1>6. CASE UNCHANGED queueVars
  BY <1>6 DEF queueVars, QueueBounded, Lane, Queued
<1> QED
  BY <1>1, <1>3, <1>4, <1>5, <1>6 DEF QueueNext

\* For every limit and every order of puts, withdrawals and gets, no lane and
\* not the backend as a whole holds more requests than its limit
\* (MAX_SHARED_CLIENT_QUEUED_REQUESTS, MAX_SHARED_INTERNAL_QUEUED_REQUESTS,
\* MAX_SHARED_QUEUED_REQUESTS).
THEOREM LimitsHold == QueueSpec => []QueueBounded
<1>1. QueueInit => LanesTypeOK /\ QueueBounded
  <2> SUFFICES ASSUME QueueInit PROVE LanesTypeOK /\ QueueBounded
    OBVIOUS
  <2>1. Queued \ Lane(Bridge) = {} /\ \A o \in Owners : Lane(o) = {}
    BY InitialLanes
  <2>2. Cardinality(Lane(Bridge)) = 0 /\ \A c \in Clients : Cardinality(Lane(c)) = 0
    BY <2>1, Names, FS_EmptySet
  <2>3. Cardinality(Queued \ Lane(Bridge)) = 0
    BY <2>1, FS_EmptySet
  <2> QED
    BY <2>2, <2>3, InitialLanes, QueueAssumption DEF QueueBounded, QueueAssumption
<1>2. LanesTypeOK /\ QueueBounded /\ [QueueNext]_queueVars => (LanesTypeOK /\ QueueBounded)'
  BY LanesTypeStep, BoundedStep
<1> QED
  BY <1>1, <1>2, PTL DEF QueueSpec

-----------------------------------------------------------------------------
(* The round robin.                                                         *)

\* Identities that were not given out are not queued; so a put touches only
\* its own lane.
Fresh == \A i \in Ids : i > last => owner[i] = None

LEMMA FreshStep ==
  ASSUME LanesTypeOK, Fresh, [QueueNext]_queueVars
  PROVE  Fresh'
<1>1. ASSUME NEW o \in Owners, NEW n \in Sizes, Put(o, n) PROVE Fresh'
  <2>1. last' = last + 1 /\ owner' = [owner EXCEPT ![last + 1] = o]
    BY <1>1 DEF Put
  <2>2. last \in Int
    BY QueueAssumption DEF LanesTypeOK, QueueAssumption
  <2>3. ASSUME NEW i \in Ids, i > last + 1 PROVE owner'[i] = owner[i] /\ i > last
    <3>1. i \in Int
      BY Names
    <3>2. i > last /\ i # last + 1
      BY <2>2, <2>3, <3>1
    <3> QED
      BY <2>1, <3>2 DEF LanesTypeOK
  <2> QED
    BY <2>1, <2>3 DEF Fresh
<1>2. ASSUME NEW S, Remove(S) PROVE Fresh'
  BY <1>2 DEF Fresh, Remove
<1>3. ASSUME NEW S \in SUBSET Queued, Discard(S) PROVE Fresh'
  BY <1>2, <1>3 DEF Discard
<1>4. ASSUME NEW i \in Ids, Take(i) PROVE Fresh'
  BY <1>2, <1>4 DEF Take
<1>5. CASE Clear
  BY <1>5 DEF Clear, Fresh
<1>6. CASE UNCHANGED queueVars
  BY <1>6 DEF queueVars, Fresh
<1> QED
  BY <1>1, <1>3, <1>4, <1>5, <1>6 DEF QueueNext

\* Who was served while c waits stands behind c, and nobody was served twice.
Rotation ==
  /\ \A c \in Clients \ Waiting : \A d \in Clients : passed[c][d] = 0
  /\ \A c \in Waiting : \A d \in Clients :
       /\ passed[c][d] <= 1
       /\ passed[c][d] # 0 => c # d /\ (d \in Waiting => c \in ahead[d])

LEMMA PutRotation ==
  ASSUME LanesTypeOK, Fresh, Rotation, NEW o \in Owners, NEW n, Put(o, n)
  PROVE  Rotation'
<1>1. passed' = passed
  BY DEF Put
<1>2. \A c \in Clients : c # o => Lane(c)' = Lane(c)
  <2> SUFFICES ASSUME NEW c \in Clients, c # o PROVE Lane(c)' = Lane(c)
    OBVIOUS
  <2>1. last + 1 \notin Lane(c)
    BY Names, QueueAssumption DEF Fresh, Lane, LanesTypeOK, QueueAssumption
  <2>2. Lane(c)' \subseteq Lane(c)
    BY PutLanes, Names
  <2>3. \A i \in Ids \ {last + 1} : owner'[i] = owner[i]
    BY DEF Put, LanesTypeOK
  <2> QED
    BY <2>1, <2>2, <2>3 DEF Lane
<1>3. Waiting' = Waiting \cup ({o} \cap Clients)
  BY <1>2, PutLanes DEF Waiting
<1>4. \A d \in Clients : ahead'[d] = IF d = o /\ d \notin Waiting THEN Waiting ELSE ahead[d]
  BY DEF Put, LanesTypeOK, Waiting
<1>5. ASSUME NEW c \in Clients \ Waiting', NEW d \in Clients PROVE passed'[c][d] = 0
  BY <1>1, <1>3, <1>5 DEF Rotation
<1>6. ASSUME NEW c \in Waiting', NEW d \in Clients
      PROVE  /\ passed'[c][d] <= 1
             /\ passed'[c][d] # 0 => c # d /\ (d \in Waiting' => c \in ahead'[d])
  <2>1. c \in Clients
    BY <1>6 DEF Waiting
  <2>2. CASE c \notin Waiting
    BY <1>1, <2>1, <2>2 DEF Rotation
  <2>3. CASE c \in Waiting
    BY <1>1, <1>3, <1>4, <2>3 DEF Rotation
  <2> QED
    BY <2>2, <2>3
<1> QED
  BY <1>5, <1>6 DEF Rotation

LEMMA DiscardRotation ==
  ASSUME LanesTypeOK, Rotation, NEW S, Discard(S)
  PROVE  Rotation'
<1>1. Waiting' = Left(S)
  BY RemoveLanes DEF Discard
<1>2. Left(S) \subseteq Waiting /\ Waiting \subseteq Clients
  BY DEF Left, Waiting
<1>3. \A c \in Clients : ahead'[c] = IF c \in Left(S) THEN ahead[c] \cap Left(S) ELSE {}
  BY DEF Discard
<1>4. \A c, d \in Clients : passed'[c][d] = IF c \in Left(S) THEN passed[c][d] ELSE 0
  BY DEF Discard
<1>5. ASSUME NEW c \in Clients \ Waiting', NEW d \in Clients PROVE passed'[c][d] = 0
  BY <1>1, <1>4, <1>5
<1>6. ASSUME NEW c \in Waiting', NEW d \in Clients
      PROVE  /\ passed'[c][d] <= 1
             /\ passed'[c][d] # 0 => c # d /\ (d \in Waiting' => c \in ahead'[d])
  <2>1. c \in Left(S) /\ c \in Waiting /\ c \in Clients /\ passed'[c][d] = passed[c][d]
    BY <1>1, <1>2, <1>4, <1>6
  <2> QED
    BY <1>1, <1>2, <1>3, <2>1 DEF Rotation
<1> QED
  BY <1>5, <1>6 DEF Rotation

LEMMA TakeRotation ==
  ASSUME LanesTypeOK, Rotation, NEW i \in Ids, Take(i)
  PROVE  Rotation'
<1> DEFINE o == owner[i]
<1> DEFINE L == Left({i})
<1>1. Waiting' = L
  BY RemoveLanes DEF Take
<1>2. L \subseteq Waiting /\ Waiting \subseteq Clients
  BY DEF Left, Waiting
<1>3. \A c \in Clients : ahead'[c] = IF c \notin L THEN {}
                                     ELSE IF c = o THEN L \ {c} ELSE ahead[c] \cap (L \ {o})
  BY DEF Take
<1>4. \A c, d \in Clients : passed'[c][d] = IF c = o \/ c \notin L THEN 0
                                            ELSE IF d = o THEN passed[c][d] + 1 ELSE passed[c][d]
  BY DEF Take
<1>5. o \in Clients => o \in Waiting /\ ahead[o] = {}
  <2>1. Turn(o)
    BY DEF Take
  <2>2. CASE Lane(Bridge) # {}
    BY <2>1, <2>2, Names DEF Turn
  <2>3. CASE Lane(Bridge) = {}
    BY <2>1, <2>3 DEF Turn
  <2> QED
    BY <2>2, <2>3
<1> HIDE DEF o, L
<1>6. ASSUME NEW c \in Clients \ Waiting', NEW d \in Clients PROVE passed'[c][d] = 0
  BY <1>1, <1>4, <1>6
<1>7. ASSUME NEW c \in Waiting', NEW d \in Clients
      PROVE  /\ passed'[c][d] <= 1
             /\ passed'[c][d] # 0 => c # d /\ (d \in Waiting' => c \in ahead'[d])
  <2>1. c \in L /\ c \in Waiting /\ c \in Clients
    BY <1>1, <1>2, <1>7
  <2>2. passed[c][d] \in Nat
    BY <2>1 DEF LanesTypeOK
  <2>3. CASE c = o
    BY <1>4, <2>1, <2>3
  <2>4. CASE c # o /\ d = o
    <3>1. passed[c][d] = 0
      BY <1>5, <2>1, <2>4 DEF Rotation
    <3>2. passed'[c][d] = 1
      BY <1>4, <2>1, <2>4, <3>1
    <3>3. d \in Waiting' => c \in ahead'[d]
      BY <1>1, <1>3, <2>1, <2>4
    <3> QED
      BY <2>4, <3>2, <3>3
  <2>5. CASE c # o /\ d # o
    <3>1. passed'[c][d] = passed[c][d]
      BY <1>4, <2>1, <2>5
    <3>2. d \in Waiting' /\ c \in ahead[d] => c \in ahead'[d]
      BY <1>1, <1>3, <2>1, <2>5
    <3> QED
      BY <1>1, <1>2, <2>1, <3>1, <3>2 DEF Rotation
  <2> QED
    BY <2>3, <2>4, <2>5
<1> QED
  BY <1>6, <1>7 DEF Rotation

LEMMA RotationStep ==
  ASSUME LanesTypeOK, Fresh, Rotation, [QueueNext]_queueVars
  PROVE  Rotation'
<1>1. ASSUME NEW o \in Owners, NEW n \in Sizes, Put(o, n) PROVE Rotation'
  BY <1>1, PutRotation
<1>2. ASSUME NEW S \in SUBSET Queued, Discard(S) PROVE Rotation'
  BY <1>2, DiscardRotation
<1>3. ASSUME NEW i \in Ids, Take(i) PROVE Rotation'
  BY <1>3, TakeRotation
<1>4. CASE Clear
  <2>1. Waiting' = {} /\ \A c, d \in Clients : passed'[c][d] = 0
    BY <1>4, ClearLanes DEF Clear, NeverPassed
  <2> QED
    BY <2>1 DEF Rotation
<1>5. CASE UNCHANGED queueVars
  BY <1>5 DEF queueVars, Rotation, Waiting, Lane
<1> QED
  BY <1>1, <1>2, <1>3, <1>4, <1>5 DEF QueueNext

LEMMA InitialRotation == QueueInit => Fresh /\ Rotation
<1>1. QueueInit => Fresh
  BY DEF QueueInit, Fresh
<1>2. ASSUME QueueInit PROVE Rotation
  <2>1. Waiting = {} /\ \A c, d \in Clients : passed[c][d] = 0
    BY <1>2, InitialLanes DEF QueueInit, NeverPassed
  <2> QED
    BY <2>1 DEF Rotation
<1> QED
  BY <1>1, <1>2

\* For every number of clients: while a client waits, no other client is served
\* twice, however lanes are filled, emptied by cancellation and filled again.
THEOREM RoundRobin == QueueSpec => []NoOvertaking
<1>1. QueueInit => LanesTypeOK /\ Fresh /\ Rotation
  BY InitialLanes, InitialRotation
<1>2. LanesTypeOK /\ Fresh /\ Rotation /\ [QueueNext]_queueVars
      => (LanesTypeOK /\ Fresh /\ Rotation)'
  BY LanesTypeStep, FreshStep, RotationStep
<1>3. Rotation => NoOvertaking
  BY DEF Rotation, NoOvertaking
<1> QED
  BY <1>1, <1>2, <1>3, PTL DEF QueueSpec

-----------------------------------------------------------------------------
(* Sums over a set.  Bytes adds with MapThenSumSet, a fold by choosing one  *)
(* element after the other.  That the order does not matter is shown on a   *)
(* minimal counterexample: among the subsets of a finite set, any family    *)
(* that is not empty has a member without a smaller one in it.              *)

\* The element the fold takes first.
OneOf(s) == CHOOSE x \in s : TRUE
\* The sum of the weights w of the elements of S.
Total(w, S) == MapThenSumSet(LAMBDA i : w[i], S)
\* f gives every subset of S its sum, one element after the other.
Counts(w, S, f) ==
  f = [s \in SUBSET S |-> IF s = {} THEN 0 ELSE w[OneOf(s)] + f[s \ {OneOf(s)}]]

\* The sum is what some such function gives.
LEMMA TotalIs == ASSUME NEW w, NEW S PROVE Total(w, S) = (CHOOSE f : Counts(w, S, f))[S]
BY DEF Total, Counts, MapThenSumSet, MapThenFoldSet, OneOf

\* The bytes of a set of requests are the sum of their sizes.
LEMMA BytesIs == ASSUME NEW S PROVE Bytes(S) = Total(size, S)
BY DEF Bytes, Total, MapThenSumSet, MapThenFoldSet

\* Every family of subsets of a finite set has a minimal member.
LEMMA MinimalSet ==
  ASSUME NEW S, IsFiniteSet(S), NEW T \in SUBSET (SUBSET S), T # {}
  PROVE  \E A \in T : \A B \in T : B \subseteq A => B = A
<1>1. T \subseteq FiniteSubsetsOf(S)
  BY FS_Subset DEF FiniteSubsetsOf
<1>2. PICK A \in T : \A B \in T : ~ (<<B, A>> \in StrictSubsetOrdering(S))
  BY <1>1, FS_StrictSubsetOrderingWellFounded, WFMin
<1>3. \A B \in T : B \subseteq A /\ B # A => <<B, A>> \in StrictSubsetOrdering(S)
  BY <1>1 DEF StrictSubsetOrdering, FiniteSubsetsOf
<1>4. \A B \in T : B \subseteq A => B = A
  <2> SUFFICES ASSUME NEW B \in T, B \subseteq A, B # A PROVE FALSE
    OBVIOUS
  <2>1. <<B, A>> \in StrictSubsetOrdering(S)
    BY <1>3
  <2> QED
    BY <1>2, <2>1
<1> QED
  BY <1>4

\* The element taken is one of the set.
LEMMA OneOfIs == ASSUME NEW S, S # {} PROVE OneOf(S) \in S
BY DEF OneOf

\* What such a function gives a subset.
LEMMA CountsStep ==
  ASSUME NEW w, NEW S, NEW f, Counts(w, S, f), NEW A \in SUBSET S
  PROVE  f[A] = IF A = {} THEN 0 ELSE w[OneOf(A)] + f[A \ {OneOf(A)}]
BY DEF Counts

\* Two of them agree where both are defined.
LEMMA CountsAgree ==
  ASSUME NEW w, NEW S, IsFiniteSet(S), NEW f, Counts(w, S, f),
         NEW T, NEW g, Counts(w, T, g), S \subseteq T
  PROVE  \A A \in SUBSET S : f[A] = g[A]
<1> DEFINE Bad == {A \in SUBSET S : f[A] # g[A]}
<1> SUFFICES ASSUME Bad # {} PROVE FALSE
  OBVIOUS
<1>0. Bad \in SUBSET (SUBSET S)
  OBVIOUS
<1>1. PICK A \in Bad : \A B \in Bad : B \subseteq A => B = A
  <2> HIDE DEF Bad
  <2> QED
    BY <1>0, MinimalSet
<1>2. /\ f[A] = IF A = {} THEN 0 ELSE w[OneOf(A)] + f[A \ {OneOf(A)}]
      /\ g[A] = IF A = {} THEN 0 ELSE w[OneOf(A)] + g[A \ {OneOf(A)}]
  BY <1>1, CountsStep
<1>3. CASE A = {}
  BY <1>1, <1>2, <1>3
<1>4. CASE A # {}
  <2>1. A \ {OneOf(A)} \notin Bad
    BY <1>1, <1>4, OneOfIs
  <2> QED
    BY <1>1, <1>2, <1>4, <2>1
<1> QED
  BY <1>3, <1>4

\* Where such functions exist, a sum follows from that of one element less.
LEMMA TotalStepIf ==
  ASSUME NEW w, NEW A, IsFiniteSet(A), \E f : Counts(w, A, f),
         A # {} => \E f : Counts(w, A \ {OneOf(A)}, f)
  PROVE  Total(w, A) = IF A = {} THEN 0 ELSE w[OneOf(A)] + Total(w, A \ {OneOf(A)})
<1> DEFINE F(B) == CHOOSE f : Counts(w, B, f)
           B == A \ {OneOf(A)}
<1>1. Counts(w, A, F(A)) /\ Total(w, A) = F(A)[A] /\ Total(w, B) = F(B)[B]
  BY TotalIs
<1>2. F(A)[A] = IF A = {} THEN 0 ELSE w[OneOf(A)] + F(A)[B]
  BY <1>1, CountsStep
<1>3. ASSUME A # {} PROVE F(A)[B] = F(B)[B]
  <2>1. Counts(w, B, F(B))
    BY <1>3
  <2>2. IsFiniteSet(B) /\ B \subseteq A
    BY FS_Subset
  <2> HIDE DEF F, B
  <2> QED
    BY <1>1, <2>1, <2>2, CountsAgree
<1> QED
  BY <1>1, <1>2, <1>3

\* They exist for every finite set.
LEMMA CountsExists ==
  ASSUME NEW w, NEW S, IsFiniteSet(S) PROVE \E f : Counts(w, S, f)
<1> DEFINE Bad == {A \in SUBSET S : ~ \E f : Counts(w, A, f)}
<1> SUFFICES ASSUME Bad # {} PROVE FALSE
  OBVIOUS
<1>0. Bad \in SUBSET (SUBSET S)
  OBVIOUS
<1>1. PICK A \in Bad : \A B \in Bad : B \subseteq A => B = A
  <2> HIDE DEF Bad
  <2> QED
    BY <1>0, MinimalSet
<1>2. A \in SUBSET S /\ ~ \E f : Counts(w, A, f)
  OBVIOUS
<1>3. \A B \in SUBSET A : B # A => \E f : Counts(w, B, f)
  BY <1>1, <1>2
<1> DEFINE g == [s \in SUBSET A |->
                   IF s = A THEN IF A = {} THEN 0 ELSE w[OneOf(A)] + Total(w, A \ {OneOf(A)})
                   ELSE Total(w, s)]
<1>4. ASSUME NEW s \in SUBSET A
      PROVE  g[s] = IF s = {} THEN 0 ELSE w[OneOf(s)] + g[s \ {OneOf(s)}]
  <2>1. s # {} => s \ {OneOf(s)} \in SUBSET A /\ s \ {OneOf(s)} # A /\ s \ {OneOf(s)} # s
    BY OneOfIs
  <2>2. CASE s = A
    BY <2>1, <2>2
  <2>3. CASE s # A
    <3>1. IsFiniteSet(s)
      BY <1>2, FS_Subset
    <3>2. Total(w, s) = IF s = {} THEN 0 ELSE w[OneOf(s)] + Total(w, s \ {OneOf(s)})
      BY <1>3, <2>1, <2>3, <3>1, TotalStepIf
    <3>3. g[s] = Total(w, s) /\ (s # {} => g[s \ {OneOf(s)}] = Total(w, s \ {OneOf(s)}))
      BY <2>1, <2>3
    <3> QED
      BY <3>2, <3>3
  <2> QED
    BY <2>2, <2>3
<1>5. Counts(w, A, g)
  <2>1. g = [s \in SUBSET A |-> g[s]]
    OBVIOUS
  <2> HIDE DEF g
  <2> QED
    BY <1>4, <2>1 DEF Counts
<1> QED
  BY <1>2, <1>5

\* The sum of a set in one step.
LEMMA TotalStep ==
  ASSUME NEW w, NEW A, IsFiniteSet(A)
  PROVE  Total(w, A) = IF A = {} THEN 0 ELSE w[OneOf(A)] + Total(w, A \ {OneOf(A)})
<1>1. IsFiniteSet(A \ {OneOf(A)})
  BY FS_Subset
<1> QED
  BY <1>1, CountsExists, TotalStepIf

\* A sum of natural numbers is one.
LEMMA TotalType ==
  ASSUME NEW S, IsFiniteSet(S), NEW w, \A i \in S : w[i] \in Nat
  PROVE  Total(w, S) \in Nat
<1> DEFINE Bad == {A \in SUBSET S : Total(w, A) \notin Nat}
<1> SUFFICES ASSUME Bad # {} PROVE FALSE
  OBVIOUS
<1>0. Bad \in SUBSET (SUBSET S)
  OBVIOUS
<1>1. PICK A \in Bad : \A B \in Bad : B \subseteq A => B = A
  <2> HIDE DEF Bad
  <2> QED
    BY <1>0, MinimalSet
<1>2. A \in SUBSET S /\ IsFiniteSet(A) /\ Total(w, A) \notin Nat
  BY FS_Subset
<1>3. A # {}
  BY <1>2, TotalStep
<1>4. OneOf(A) \in A /\ A \ {OneOf(A)} \in SUBSET S /\ A \ {OneOf(A)} # A
  BY <1>2, <1>3, OneOfIs
<1>5. Total(w, A \ {OneOf(A)}) \in Nat /\ w[OneOf(A)] \in Nat
  BY <1>1, <1>2, <1>4
<1> QED
  BY <1>2, <1>3, <1>5, TotalStep

\* Any element may be taken first.
LEMMA TotalRemove ==
  ASSUME NEW S, IsFiniteSet(S), NEW w, \A i \in S : w[i] \in Nat, NEW y \in S
  PROVE  Total(w, S) = w[y] + Total(w, S \ {y})
<1> DEFINE Good(A) == \A x \in A : Total(w, A) = w[x] + Total(w, A \ {x})
           Bad == {A \in SUBSET S : ~ Good(A)}
<1>a. CASE Bad = {}
  <2>1. S \in SUBSET S /\ S \notin Bad
    BY <1>a
  <2> QED
    BY <2>1
<1>b. SUFFICES ASSUME Bad # {} PROVE FALSE
  BY <1>a
<1>0. Bad \in SUBSET (SUBSET S)
  OBVIOUS
<1>1. PICK A \in Bad : \A B \in Bad : B \subseteq A => B = A
  <2> HIDE DEF Bad
  <2> QED
    BY <1>b, <1>0, MinimalSet
<1>2. PICK x \in A : Total(w, A) # w[x] + Total(w, A \ {x})
  OBVIOUS
<1> DEFINE p == OneOf(A)
<1>3. A \in SUBSET S /\ IsFiniteSet(A) /\ A # {} /\ p \in A
  BY <1>2, FS_Subset, OneOfIs
<1>4. Total(w, A) = w[p] + Total(w, A \ {p}) /\ p # x
  BY <1>2, <1>3, TotalStep
<1>5. Good(A \ {p}) /\ Good(A \ {x})
  <2>1. A \ {p} \in SUBSET S /\ A \ {x} \in SUBSET S /\ A \ {p} # A /\ A \ {x} # A
    BY <1>2, <1>3
  <2> QED
    BY <1>1, <2>1
<1>6. /\ Total(w, A \ {p}) = w[x] + Total(w, (A \ {p}) \ {x})
      /\ Total(w, A \ {x}) = w[p] + Total(w, (A \ {x}) \ {p})
  BY <1>3, <1>4, <1>5
<1>7. (A \ {p}) \ {x} = (A \ {x}) \ {p} /\ IsFiniteSet((A \ {x}) \ {p})
  BY <1>3, FS_Subset
<1>8. w[x] \in Nat /\ w[p] \in Nat /\ Total(w, (A \ {x}) \ {p}) \in Nat
  <2>1. \A i \in (A \ {x}) \ {p} : w[i] \in Nat
    BY <1>3
  <2> HIDE DEF p
  <2> QED
    BY <1>2, <1>3, <1>7, <2>1, TotalType
<1>9. Total(w, A \ {p}) = w[x] + Total(w, (A \ {x}) \ {p})
  BY <1>6, <1>7
<1>10. Total(w, A) = w[x] + Total(w, A \ {x})
  BY <1>4, <1>6, <1>8, <1>9
<1> QED
  BY <1>2, <1>10

\* A set may be added up in two parts.
LEMMA TotalSplit ==
  ASSUME NEW S, IsFiniteSet(S), NEW w, \A i \in S : w[i] \in Nat, NEW R
  PROVE  Total(w, S) = Total(w, S \cap R) + Total(w, S \ R)
<1>5. ASSUME NEW C \in SUBSET S, NEW x \in C PROVE Total(w, C) = w[x] + Total(w, C \ {x})
  <2>1. IsFiniteSet(C) /\ \A i \in C : w[i] \in Nat
    BY FS_Subset
  <2> QED
    BY <2>1, TotalRemove
<1> DEFINE Good(A) == Total(w, A) = Total(w, A \cap R) + Total(w, A \ R)
           Bad == {A \in SUBSET S : ~ Good(A)}
<1> SUFFICES ASSUME Bad # {} PROVE FALSE
  OBVIOUS
<1>0. Bad \in SUBSET (SUBSET S)
  OBVIOUS
<1>1. PICK A \in Bad : \A B \in Bad : B \subseteq A => B = A
  <2> HIDE DEF Bad
  <2> QED
    BY <1>0, MinimalSet
<1>2. A \in SUBSET S /\ ~ Good(A) /\ IsFiniteSet(A)
  BY FS_Subset
<1>3. CASE A = {}
  <2>1. A \cap R = {} /\ A \ R = {} /\ Total(w, {}) = 0
    BY <1>3, FS_EmptySet, TotalStep
  <2> QED
    BY <1>2, <1>3, <2>1
<1>4. ASSUME NEW x \in A PROVE FALSE
  <2> DEFINE B == A \ {x}
  <2>1. Good(B) /\ B \in SUBSET S
    BY <1>1, <1>2
  <2>2. Total(w, A) = w[x] + Total(w, B)
    BY <1>2, <1>5
  <2>3. /\ w[x] \in Nat /\ Total(w, B \cap R) \in Nat /\ Total(w, B \ R) \in Nat
    <3>1. /\ IsFiniteSet(B \cap R) /\ IsFiniteSet(B \ R)
          /\ \A i \in B \cap R : w[i] \in Nat
          /\ \A i \in B \ R : w[i] \in Nat
      BY <1>2, FS_Subset
    <3> QED
      BY <1>2, <3>1, TotalType
  <2>4. CASE x \in R
    <3>1. B \ R = A \ R /\ B \cap R = (A \cap R) \ {x} /\ A \cap R \in SUBSET S /\ x \in A \cap R
      BY <1>2, <2>4
    <3>2. Total(w, A \cap R) = w[x] + Total(w, (A \cap R) \ {x})
      BY <1>5, <3>1, Zenon
    <3>4. Total(w, A \cap R) = w[x] + Total(w, B \cap R) /\ Total(w, A \ R) = Total(w, B \ R)
      BY <3>1, <3>2, Zenon
    <3>3. Good(A)
      BY <2>1, <2>2, <2>3, <3>4
    <3> QED
      BY <1>2, <3>3
  <2>5. CASE x \notin R
    <3>1. B \cap R = A \cap R /\ B \ R = (A \ R) \ {x} /\ A \ R \in SUBSET S /\ x \in A \ R
      BY <1>2, <2>5
    <3>2. Total(w, A \ R) = w[x] + Total(w, (A \ R) \ {x})
      BY <1>5, <3>1, Zenon
    <3>4. Total(w, A \ R) = w[x] + Total(w, B \ R) /\ Total(w, A \cap R) = Total(w, B \cap R)
      BY <3>1, <3>2, Zenon
    <3>3. Good(A)
      BY <2>1, <2>2, <2>3, <3>4
    <3> QED
      BY <1>2, <3>3
  <2> QED
    BY <2>4, <2>5
<1> QED
  BY <1>3, <1>4

\* Only the weights of the members count.
LEMMA TotalAgrees ==
  ASSUME NEW S, IsFiniteSet(S), NEW w, NEW v, \A i \in S : w[i] = v[i]
  PROVE  Total(w, S) = Total(v, S)
<1> DEFINE Bad == {A \in SUBSET S : Total(w, A) # Total(v, A)}
<1> SUFFICES ASSUME Bad # {} PROVE FALSE
  OBVIOUS
<1>0. Bad \in SUBSET (SUBSET S)
  OBVIOUS
<1>1. PICK A \in Bad : \A B \in Bad : B \subseteq A => B = A
  <2> HIDE DEF Bad
  <2> QED
    BY <1>0, MinimalSet
<1>2. A \in SUBSET S /\ IsFiniteSet(A) /\ Total(w, A) # Total(v, A)
  BY FS_Subset
<1>3. /\ Total(w, A) = IF A = {} THEN 0 ELSE w[OneOf(A)] + Total(w, A \ {OneOf(A)})
      /\ Total(v, A) = IF A = {} THEN 0 ELSE v[OneOf(A)] + Total(v, A \ {OneOf(A)})
  BY <1>2, TotalStep
<1>4. A # {}
  BY <1>2, <1>3
<1>5. OneOf(A) \in A /\ A \ {OneOf(A)} \in SUBSET S /\ A \ {OneOf(A)} # A
  BY <1>2, <1>4, OneOfIs
<1>6. Total(w, A \ {OneOf(A)}) = Total(v, A \ {OneOf(A)})
  BY <1>1, <1>5
<1> QED
  BY <1>2, <1>3, <1>4, <1>5, <1>6

\* One more request: the others weigh what they weighed.
LEMMA TotalAdd ==
  ASSUME NEW S \in SUBSET Ids, NEW k \in Ids, k \notin S, NEW n \in Nat,
         NEW w \in [Ids -> Nat], NEW v, v[k] = n, \A i \in S : v[i] = w[i]
  PROVE  Total(v, S \cup {k}) = Total(w, S) + n
<1>1. IsFiniteSet(S) /\ IsFiniteSet(S \cup {k})
  BY Names, FS_Subset
<1>2. v[k] = n /\ (\A i \in S : v[i] = w[i]) /\ \A i \in S \cup {k} : v[i] \in Nat
  OBVIOUS
<1>3. Total(v, S) = Total(w, S)
  BY <1>1, <1>2, TotalAgrees
<1>4. Total(v, S \cup {k}) = v[k] + Total(v, (S \cup {k}) \ {k})
  <2> DEFINE T == S \cup {k}
  <2>1. IsFiniteSet(T) /\ k \in T /\ \A i \in T : v[i] \in Nat
    BY <1>1, <1>2
  <2> HIDE DEF T
  <2>2. Total(v, T) = v[k] + Total(v, T \ {k})
    BY <2>1, TotalRemove
  <2> QED
    BY <2>2 DEF T
<1>5. (S \cup {k}) \ {k} = S
  OBVIOUS
<1>6. Total(w, S) \in Nat
  BY <1>1, TotalType
<1>7. Total(v, S \cup {k}) = n + Total(w, S)
  BY <1>2, <1>3, <1>4, <1>5, Zenon
<1> QED
  BY <1>3, <1>6, <1>7

\* Requests that go take their bytes with them.
LEMMA TotalLess ==
  ASSUME NEW S \in SUBSET Ids, NEW R,
         NEW w \in [Ids -> Nat], NEW v, v = [i \in Ids |-> IF i \in R THEN 0 ELSE w[i]]
  PROVE  /\ Total(v, S \ R) \in Nat /\ Total(w, S) \in Nat
         /\ Total(v, S \ R) <= Total(w, S)
         /\ Total(v, S \ R) = Total(w, S) - Total(w, S \cap R)
<1>1. IsFiniteSet(S) /\ IsFiniteSet(S \ R) /\ IsFiniteSet(S \cap R)
  BY Names, FS_Subset
<1>2. \A i \in S : w[i] \in Nat
  OBVIOUS
<1>3. Total(w, S) = Total(w, S \cap R) + Total(w, S \ R)
  BY <1>1, <1>2, TotalSplit
<1>4. \A i \in S \ R : v[i] = w[i]
  OBVIOUS
<1>5. Total(v, S \ R) = Total(w, S \ R)
  BY <1>1, <1>4, TotalAgrees
<1>6. Total(w, S \ R) \in Nat /\ Total(w, S \cap R) \in Nat
  <2>1. (\A i \in S \ R : w[i] \in Nat) /\ \A i \in S \cap R : w[i] \in Nat
    OBVIOUS
  <2> QED
    BY <1>1, <2>1, TotalType
<1> QED
  BY <1>3, <1>5, <1>6

\* Nothing weighs nothing.
LEMMA TotalNone == ASSUME NEW w PROVE Total(w, {}) = 0
BY FS_EmptySet, TotalStep

-----------------------------------------------------------------------------
(* The byte counters.                                                       *)

\* BytesAccounted with its sums written as Total, which has no variable in it.
Accounts ==
  /\ \A o \in Owners : laneBytes[o] = Total(size, Lane(o))
  /\ queuedBytes = Total(size, Queued)
  /\ \A c \in Clients : laneBytes[c] <= MaxClientBytes
  /\ queuedBytes - laneBytes[Bridge] <= MaxBytes

\* It is the property the runs check.
LEMMA AccountsIs == Accounts => BytesAccounted
BY BytesIs DEF Accounts, BytesAccounted

\* The type of the counters.
Counters ==
  /\ size \in [Ids -> Nat] /\ laneBytes \in [Owners -> Int] /\ queuedBytes \in Int

\* A lane holds queued requests, and they have identities.
LEMMA LanesInIds == Queued \in SUBSET Ids /\ \A o \in Owners : Lane(o) \in SUBSET Queued
<1>1. Queued \in SUBSET Ids
  BY DEF Queued
<1>2. \A o \in Owners : Lane(o) \in SUBSET Queued
  BY Names DEF Queued, Lane
<1> QED
  BY <1>1, <1>2

\* What the clients of the backend have queued together.
LEMMA ClientBytes ==
  ASSUME Counters, Accounts
  PROVE  /\ queuedBytes - laneBytes[Bridge] = Total(size, Queued \ Lane(Bridge))
         /\ \A o \in Owners : laneBytes[o] \in Nat
         /\ queuedBytes \in Nat
<1>1. IsFiniteSet(Queued) /\ \A o \in Owners : IsFiniteSet(Lane(o))
  BY FiniteLanes
<1>2. Queued \in SUBSET Ids /\ \A o \in Owners : Lane(o) \in SUBSET Queued
  BY LanesInIds
<1>3. \A i \in Queued : size[i] \in Nat
  BY <1>2 DEF Counters
<1>4. Total(size, Queued) = Total(size, Queued \cap Lane(Bridge)) + Total(size, Queued \ Lane(Bridge))
  BY <1>1, <1>3, TotalSplit
<1>5. Queued \cap Lane(Bridge) = Lane(Bridge)
  BY <1>2, Names
<1>6. ASSUME NEW o \in Owners PROVE laneBytes[o] \in Nat
  <2>1. IsFiniteSet(Lane(o)) /\ \A i \in Lane(o) : size[i] \in Nat
    BY <1>1, <1>2, <1>3
  <2>2. Total(size, Lane(o)) \in Nat
    BY <2>1, TotalType
  <2> QED
    BY <2>2 DEF Accounts
<1>7. Total(size, Queued \ Lane(Bridge)) \in Nat
  <2>1. IsFiniteSet(Queued \ Lane(Bridge)) /\ \A i \in Queued \ Lane(Bridge) : size[i] \in Nat
    BY <1>1, <1>3, FS_Subset
  <2> QED
    BY <2>1, TotalType
<1>8. laneBytes[Bridge] = Total(size, Lane(Bridge)) /\ queuedBytes = Total(size, Queued)
  BY Names DEF Accounts
<1>9. queuedBytes = laneBytes[Bridge] + Total(size, Queued \ Lane(Bridge))
  BY <1>4, <1>5, <1>8, Zenon
<1>10. laneBytes[Bridge] \in Nat
  BY <1>6, Names
<1> QED
  BY <1>6, <1>7, <1>9, <1>10

\* put_nowait adds the request to its lane and to the total, after it has
\* looked at both limits.
LEMMA PutAccounts ==
  ASSUME LanesTypeOK, Fresh, Counters, Accounts, NEW o \in Owners, NEW n \in Sizes, Put(o, n)
  PROVE  Counters' /\ Accounts'
<1> DEFINE k == last + 1
<1>1. /\ k \in Ids /\ Lane(o)' = Lane(o) \cup {k} /\ Queued' = Queued \cup {k}
      /\ owner' = [owner EXCEPT ![k] = o]
  BY PutLanes
<1>2. k \notin Queued
  <2>1. k > last
    BY QueueAssumption DEF LanesTypeOK, QueueAssumption
  <2> QED
    BY <1>1, <2>1 DEF Fresh, Queued
<1>3. n \in Nat /\ n # 0
  BY QueueAssumption DEF QueueAssumption
<1>4. /\ size' = [size EXCEPT ![k] = n] /\ laneBytes' = [laneBytes EXCEPT ![o] = @ + n]
      /\ queuedBytes' = queuedBytes + n /\ ~ Refused(o, n)
  BY DEF Put
<1> HIDE DEF k
<1>5. Counters'
  BY <1>1, <1>3, <1>4 DEF Counters
<1>6. \A d \in Owners \ {o} : Lane(d)' = Lane(d)
  <2> SUFFICES ASSUME NEW d \in Owners \ {o} PROVE Lane(d)' = Lane(d)
    OBVIOUS
  <2>1. \A i \in Ids : owner'[i] = IF i = k THEN o ELSE owner[i]
    BY <1>1 DEF LanesTypeOK
  <2>2. k \notin Lane(d)
    BY <1>2, LanesInIds
  <2> QED
    BY <2>1, <2>2 DEF Lane
<1>7. size \in [Ids -> Nat]
  BY DEF Counters
<1>8. ASSUME NEW S \in SUBSET Queued
      PROVE  /\ Total(size', S) = Total(size, S)
             /\ Total(size', S \cup {k}) = Total(size, S) + n
  <2>1. S \in SUBSET Ids /\ k \in Ids /\ k \notin S
    BY <1>1, <1>2, LanesInIds
  <2>2. n \in Nat /\ size' = [size EXCEPT ![k] = n]
    BY <1>3, <1>4
  <2>3. size'[k] = n /\ \A i \in S : size'[i] = size[i]
    BY <1>7, <2>1, <2>2
  <2>4. Total(size', S \cup {k}) = Total(size, S) + n
    <3>1. n \in Nat /\ k \in Ids /\ k \notin S /\ S \in SUBSET Ids
      BY <2>1, <2>2
    <3>2. size'[k] = n /\ (\A i \in S : size'[i] = size[i]) /\ size \in [Ids -> Nat]
      BY <1>7, <2>3
    <3> QED
      BY <3>1, <3>2, TotalAdd
  <2>5. Total(size', S) = Total(size, S)
    BY <2>1, <2>3, Names, FS_Subset, TotalAgrees
  <2> QED
    BY <2>4, <2>5
<1>9. ASSUME NEW d \in Owners PROVE laneBytes'[d] = Total(size', Lane(d)')
  <2>1. Lane(d) \in SUBSET Queued /\ laneBytes[d] = Total(size, Lane(d))
    BY LanesInIds DEF Accounts
  <2>2. CASE d = o
    <3>1. laneBytes'[d] = laneBytes[d] + n
      BY <1>4, <2>2 DEF Counters
    <3>2. Total(size', Lane(d)') = Total(size, Lane(d)) + n
      BY <1>1, <1>8, <2>1, <2>2, Zenon
    <3> QED
      BY <2>1, <3>1, <3>2
  <2>3. CASE d # o
    <3>1. laneBytes'[d] = laneBytes[d]
      BY <1>4, <2>3 DEF Counters
    <3>2. Total(size', Lane(d)') = Total(size, Lane(d))
      BY <1>6, <1>8, <2>1, <2>3, Zenon
    <3> QED
      BY <2>1, <3>1, <3>2
  <2> QED
    BY <2>2, <2>3
<1>10. queuedBytes' = Total(size', Queued')
  <2>1. Total(size', Queued \cup {k}) = Total(size, Queued) + n
    BY <1>8
  <2>2. queuedBytes = Total(size, Queued)
    BY DEF Accounts
  <2> QED
    BY <1>1, <1>4, <2>1, <2>2, Zenon
<1>11. /\ laneBytes[Bridge] \in Nat /\ queuedBytes \in Nat
       /\ \A c \in Clients : laneBytes[c] \in Nat /\ laneBytes[c] <= MaxClientBytes
       /\ queuedBytes - laneBytes[Bridge] <= MaxBytes
  BY ClientBytes, Names DEF Accounts
<1>12. \A c \in Clients : laneBytes'[c] <= MaxClientBytes
  <2> SUFFICES ASSUME NEW c \in Clients PROVE laneBytes'[c] <= MaxClientBytes
    OBVIOUS
  <2>1. CASE c = o
    <3>1. laneBytes[o] + n <= MaxClientBytes
      BY <1>3, <1>4, <1>11, <2>1, Names, QueueAssumption DEF Refused, QueueAssumption
    <3> QED
      BY <1>4, <2>1, <3>1, Names DEF Counters
  <2>2. CASE c # o
    BY <1>4, <1>11, <2>2, Names DEF Counters
  <2> QED
    BY <2>1, <2>2
<1>13. queuedBytes' - laneBytes'[Bridge] <= MaxBytes
  <2>1. CASE o = Bridge
    <3>1. laneBytes'[Bridge] = laneBytes[Bridge] + n
      BY <1>4, <2>1 DEF Counters
    <3> QED
      BY <1>3, <1>4, <1>11, <3>1, QueueAssumption DEF QueueAssumption
  <2>2. CASE o # Bridge
    <3>1. laneBytes'[Bridge] = laneBytes[Bridge]
      BY <1>4, <2>2, Names DEF Counters
    <3>2. queuedBytes + n <= MaxBytes
      BY <1>3, <1>4, <1>11, <2>2, QueueAssumption DEF Refused, QueueAssumption
    <3> QED
      BY <1>3, <1>4, <1>11, <3>1, <3>2, QueueAssumption DEF QueueAssumption
  <2> QED
    BY <2>1, <2>2
<1>14. Accounts'
  BY <1>9, <1>10, <1>12, <1>13 DEF Accounts
<1> QED
  BY <1>5, <1>14

\* What discard and get take out goes out of both counters.
LEMMA RemoveAccounts ==
  ASSUME LanesTypeOK, Counters, Accounts, NEW S, Remove(S)
  PROVE  Counters' /\ Accounts'
<1>1. /\ size' = [i \in Ids |-> IF i \in S THEN 0 ELSE size[i]]
      /\ laneBytes' = [o \in Owners |-> laneBytes[o] - Total(size, Lane(o) \cap S)]
      /\ queuedBytes' = queuedBytes - Total(size, Queued \cap S)
  BY BytesIs DEF Remove
<1>2. (\A o \in Owners : Lane(o)' = Lane(o) \ S) /\ Queued' = Queued \ S
  BY RemoveLanes
<1>3. size \in [Ids -> Nat]
  BY DEF Counters
<1>4. ASSUME NEW T \in SUBSET Ids
      PROVE  /\ Total(size', T \ S) \in Nat /\ Total(size, T) \in Nat
             /\ Total(size', T \ S) <= Total(size, T)
             /\ Total(size', T \ S) = Total(size, T) - Total(size, T \cap S)
  BY <1>1, <1>3, TotalLess
<1>5. ASSUME NEW o \in Owners
      PROVE  /\ laneBytes'[o] = Total(size', Lane(o)') /\ laneBytes'[o] \in Nat
             /\ laneBytes'[o] <= laneBytes[o]
  <2>1. Lane(o) \in SUBSET Ids /\ laneBytes[o] = Total(size, Lane(o))
    BY LanesInIds DEF Accounts
  <2>2. laneBytes'[o] = laneBytes[o] - Total(size, Lane(o) \cap S)
    BY <1>1
  <2>3. Total(size', Lane(o)') = Total(size', Lane(o) \ S)
    BY <1>2, Zenon
  <2> QED
    BY <1>4, <2>1, <2>2, <2>3
<1>6. queuedBytes' = Total(size', Queued') /\ queuedBytes' \in Nat
  <2>1. queuedBytes = Total(size, Queued)
    BY DEF Accounts
  <2>2. Total(size', Queued') = Total(size', Queued \ S)
    BY <1>2, Zenon
  <2> QED
    BY <1>1, <1>4, <2>1, <2>2, LanesInIds
<1>7. Counters'
  <2>1. size' \in [Ids -> Nat]
    BY <1>1, <1>3
  <2>2. laneBytes' \in [Owners -> Int]
    <3>1. laneBytes' = [o \in Owners |-> laneBytes'[o]]
      BY <1>1
    <3> QED
      BY <1>5, <3>1
  <2> QED
    BY <1>6, <2>1, <2>2 DEF Counters
<1>8. \A c \in Clients : laneBytes'[c] <= MaxClientBytes
  <2> SUFFICES ASSUME NEW c \in Clients PROVE laneBytes'[c] <= MaxClientBytes
    OBVIOUS
  <2>1. laneBytes[c] \in Int /\ laneBytes[c] <= MaxClientBytes /\ c \in Owners
    BY Names DEF Accounts, Counters
  <2> QED
    BY <1>5, <2>1, QueueAssumption DEF QueueAssumption
<1>9. queuedBytes' - laneBytes'[Bridge] <= MaxBytes
  <2> DEFINE T == Queued \ Lane(Bridge)
  <2>1. queuedBytes - laneBytes[Bridge] = Total(size, T)
    BY ClientBytes
  <2>2. T \in SUBSET Ids
    BY LanesInIds
  <2>3. (Queued \ Lane(Bridge))' = T \ S
    BY <1>2, Names
  <2>4. Counters' /\ (\A o \in Owners : laneBytes'[o] = Total(size', Lane(o)'))
        /\ queuedBytes' = Total(size', Queued')
    BY <1>5, <1>6, <1>7
  <2>5. queuedBytes' - laneBytes'[Bridge] = Total(size', T \ S)
    <3>1. IsFiniteSet(Queued') /\ \A i \in Queued' : size'[i] \in Nat
      <4>1. Queued' \in SUBSET Ids
        BY <1>2, LanesInIds
      <4> QED
        BY <2>4, <4>1, Names, FS_Subset DEF Counters
    <3>2. Total(size', Queued') = Total(size', Queued' \cap Lane(Bridge)') + Total(size', Queued' \ Lane(Bridge)')
      BY <3>1, TotalSplit
    <3>3. Queued' \cap Lane(Bridge)' = Lane(Bridge)' /\ Queued' \ Lane(Bridge)' = T \ S
      BY <1>2, <2>3, Names, LanesInIds
    <3>4. queuedBytes' = laneBytes'[Bridge] + Total(size', T \ S)
      BY <2>4, <3>2, <3>3, Names, Zenon
    <3>5. laneBytes'[Bridge] \in Nat /\ Total(size', T \ S) \in Nat
      BY <1>4, <1>5, <2>2, Names
    <3> QED
      BY <3>4, <3>5
  <2>6. Total(size', T \ S) \in Nat /\ Total(size, T) \in Nat /\ Total(size', T \ S) <= Total(size, T)
    BY <1>4, <2>2
  <2>7. Total(size, T) <= MaxBytes
    BY <2>1 DEF Accounts
  <2> HIDE DEF T
  <2> QED
    BY <2>5, <2>6, <2>7, QueueAssumption DEF QueueAssumption
<1>10. Accounts'
  BY <1>5, <1>6, <1>8, <1>9 DEF Accounts
<1> QED
  BY <1>7, <1>10

\* An empty queue weighs nothing.
LEMMA NothingAccounts ==
  ASSUME size = [i \in Ids |-> 0], laneBytes = [o \in Owners |-> 0], queuedBytes = 0,
         Queued = {}, \A o \in Owners : Lane(o) = {}
  PROVE  Counters /\ Accounts
<1>1. Total(size, {}) = 0
  BY TotalNone
<1>2. Counters
  BY DEF Counters
<1>3. (\A o \in Owners : laneBytes[o] = Total(size, Lane(o))) /\ queuedBytes = Total(size, Queued)
  BY <1>1
<1>4. (\A c \in Clients : laneBytes[c] <= MaxClientBytes) /\ queuedBytes - laneBytes[Bridge] <= MaxBytes
  BY Names, QueueAssumption DEF QueueAssumption
<1> QED
  BY <1>2, <1>3, <1>4 DEF Accounts

\* clear resets both counters.
LEMMA ClearAccounts ==
  ASSUME LanesTypeOK, Clear
  PROVE  Counters' /\ Accounts'
<1>1. /\ size' = [i \in Ids |-> 0] /\ laneBytes' = [o \in Owners |-> 0] /\ queuedBytes' = 0
      /\ Queued' = {} /\ \A o \in Owners : Lane(o)' = {}
  BY ClearLanes DEF Clear
<1>2. Total(size', {}) = 0
  BY TotalNone
<1>3. Counters'
  BY <1>1 DEF Counters
<1>4. /\ \A o \in Owners : laneBytes'[o] = Total(size', Lane(o)')
      /\ queuedBytes' = Total(size', Queued')
  BY <1>1, <1>2
<1>5. /\ \A c \in Clients : laneBytes'[c] <= MaxClientBytes
      /\ queuedBytes' - laneBytes'[Bridge] <= MaxBytes
  BY <1>1, Names, QueueAssumption DEF QueueAssumption
<1> QED
  BY <1>3, <1>4, <1>5 DEF Accounts

\* Every operation keeps the counters exact.
LEMMA AccountsStep ==
  ASSUME LanesTypeOK, Fresh, Counters, Accounts, [QueueNext]_queueVars
  PROVE  Counters' /\ Accounts'
<1>1. ASSUME NEW o \in Owners, NEW n \in Sizes, Put(o, n) PROVE Counters' /\ Accounts'
  BY <1>1, PutAccounts
<1>2. ASSUME NEW S \in SUBSET Queued, Discard(S) PROVE Counters' /\ Accounts'
  BY <1>2, RemoveAccounts DEF Discard
<1>3. ASSUME NEW i \in Ids, Take(i) PROVE Counters' /\ Accounts'
  BY <1>3, RemoveAccounts DEF Take
<1>4. CASE Clear
  BY <1>4, ClearAccounts
<1>5. CASE UNCHANGED queueVars
  <2>1. /\ size' = size /\ laneBytes' = laneBytes /\ queuedBytes' = queuedBytes
        /\ Queued' = Queued /\ \A o \in Owners : Lane(o)' = Lane(o)
    BY <1>5 DEF queueVars, Queued, Lane
  <2> QED
    BY <2>1 DEF Counters, Accounts
<1> QED
  BY <1>1, <1>2, <1>3, <1>4, <1>5 DEF QueueNext

\* For every limit and every set of request sizes: in any order of puts,
\* discards and gets the byte counters of put_nowait, discard and get are the
\* sizes of what is queued, and no client and not the backend as a whole
\* exceeds its bytes (MAX_SHARED_CLIENT_QUEUED_BYTES, MAX_SHARED_QUEUED_BYTES).
THEOREM BytesStayAccounted == QueueSpec => [](QueueTypeOK /\ BytesAccounted)
<1>1. QueueInit => LanesTypeOK /\ Fresh /\ Counters /\ Accounts
  BY InitialLanes, InitialRotation, NothingAccounts DEF QueueInit
<1>2. LanesTypeOK /\ Fresh /\ Counters /\ Accounts /\ [QueueNext]_queueVars
      => (LanesTypeOK /\ Fresh /\ Counters /\ Accounts)'
  BY LanesTypeStep, FreshStep, AccountsStep
<1>3. LanesTypeOK /\ Counters /\ Accounts => QueueTypeOK /\ BytesAccounted
  BY AccountsIs DEF QueueTypeOK, Counters
<1> QED
  BY <1>1, <1>2, <1>3, PTL DEF QueueSpec

-----------------------------------------------------------------------------
(* What a step does to the queue, the pending table and the worker.         *)

Quiet == UNCHANGED <<queueVars, pend, workVars>>

Enters ==
  \E o \in Owners, n \in Sizes :
    Put(o, n) /\ pend' = pend \cup {last + 1} /\ UNCHANGED workVars

Leaves ==
  \E S \in SUBSET pend : cur \notin S /\ Discard(S) /\ pend' = pend \ S /\ UNCHANGED workVars

Begins == cur = 0 /\ (\E i \in Ids : Take(i) /\ cur' = i) /\ UNCHANGED <<pend, reader>>

Answered ==
  /\ cur \in pend /\ pend' = pend \ {cur} /\ UNCHANGED queueVars
  /\ (reader' = cur /\ cur' = cur) \/ (cur' = 0 /\ reader' = reader)

Done == reader # 0 /\ reader' = 0 /\ cur' = 0 /\ UNCHANGED <<queueVars, pend>>

Over == Clear /\ pend' = {} /\ cur' = 0 /\ reader' = 0

Effect == Quiet \/ Enters \/ Leaves \/ Begins \/ Answered \/ Done \/ Over

\* Requests of the Bridge, and calls, enter the queue and the table together.
LEMMA OwnEnters ==
  ASSUME NEW c, NEW k, EnqueueOwn(c, k), UNCHANGED workVars
  PROVE  Enters
<1>1. Put(Bridge, 1) /\ pend' = pend \cup {last + 1}
  BY DEF EnqueueOwn, Register
<1>2. Bridge \in Owners /\ 1 \in Sizes
  BY Names, SessionAssumption DEF SessionAssumption
<1> QED
  BY <1>1, <1>2 DEF Enters

LEMMA SubmitEnters ==
  ASSUME NEW c \in Clients, NEW k, Submit(c, k), UNCHANGED workVars
  PROVE  Quiet \/ Enters
<1>1. CASE UNCHANGED <<queueVars, requestVars, lease>>
  BY <1>1 DEF Quiet, requestVars
<1>2. CASE (\E n \in Sizes : Put(c, n)) /\ Register(c, k)
  <2>1. PICK n \in Sizes : Put(c, n)
    BY <1>2
  <2>2. c \in Owners /\ pend' = pend \cup {last + 1}
    BY <1>2, Names DEF Register
  <2> QED
    BY <2>1, <2>2 DEF Enters
<1> QED
  BY <1>1, <1>2 DEF Submit

LEMMA EndsOver == Ends => Over
BY DEF Ends, Over

LEMMA StopIfUnusedEffect ==
  ASSUME NEW c \in Clients, StopIfUnused(c)
  PROVE  Quiet \/ Over
BY EndsOver DEF StopIfUnused, Quiet, requestVars

LEMMA ConsumerEffect ==
  ASSUME NEW c \in Clients, Consumer(c)
  PROVE  Effect
<1>1. CASE Attach(c) \/ HelloWakes(c) \/ Eof(c) \/ BootTimesOut(c)
  BY <1>1 DEF Attach, HelloWakes, Eof, BootTimesOut, Effect, Quiet, requestVars
<1>2. CASE Hello(c)
  <2>1. UNCHANGED workVars
    BY <1>2 DEF Hello
  <2>2. CASE EnqueueOwn(c, "initialize")
    BY <2>1, <2>2, OwnEnters DEF Effect
  <2>3. CASE UNCHANGED <<queueVars, requestVars>>
    BY <2>1, <2>3 DEF Effect, Quiet, requestVars
  <2> QED
    BY <1>2, <2>2, <2>3 DEF Hello
<1>3. ASSUME NEW k \in CallKinds, Call(c, k) PROVE Effect
  <2>1. UNCHANGED workVars
    BY <1>3 DEF Call
  <2>2. CASE Submit(c, k)
    BY <2>1, <2>2, SubmitEnters DEF Effect
  <2>3. CASE UNCHANGED <<queueVars, requestVars>>
    BY <2>1, <2>3 DEF Effect, Quiet, requestVars
  <2>4. CASE EnqueueOwn(Bridge, "initialize")
    BY <2>1, <2>4, OwnEnters DEF Effect
  <2> QED
    BY <1>3, <2>2, <2>3, <2>4 DEF Call, Bootstrap
<1>4. CASE BootEnds(c) \/ WaitEnds(c)
  <2>1. UNCHANGED workVars
    BY <1>4 DEF BootEnds, WaitEnds
  <2>2. CASE Submit(c, held[c])
    BY <2>1, <2>2, SubmitEnters DEF Effect
  <2>3. CASE UNCHANGED <<queueVars, requestVars>>
    BY <2>1, <2>3 DEF Effect, Quiet, requestVars
  <2> QED
    BY <1>4, <2>2, <2>3 DEF BootEnds, WaitEnds
<1>5. ASSUME NEW i \in Ids, Cancel(c, i) PROVE Effect
  <2>1. {i} \in SUBSET pend /\ cur \notin {i} /\ Discard({i}) /\ pend' = pend \ {i}
    BY <1>5 DEF Cancel, OwnPending
  <2>2. UNCHANGED workVars
    BY <1>5 DEF Cancel
  <2> QED
    BY <2>1, <2>2 DEF Effect, Leaves
<1> QED
  BY <1>1, <1>2, <1>3, <1>4, <1>5 DEF Consumer

LEMMA DetachEffect ==
  ASSUME NEW c \in Clients, Detach(c)
  PROVE  Effect
<1>1. CASE Close(c)
  <2> DEFINE W == {i \in OwnPending(c) : i # cur /\ kind[i] # "initialize"}
  <2>1. W \in SUBSET pend /\ cur \notin W
    BY DEF OwnPending
  <2>2. Discard(W) /\ pend' = pend \ W /\ UNCHANGED workVars
    BY <1>1 DEF Close
  <2> HIDE DEF W
  <2> QED
    BY <2>1, <2>2 DEF Effect, Leaves
<1>2. CASE DetachGoesOn(c)
  <2>1. CASE Ends
    BY <2>1, EndsOver DEF Effect
  <2>2. CASE EnqueueOwn(Bridge, "release") /\ UNCHANGED workVars
    BY <2>2, OwnEnters DEF Effect
  <2>3. CASE StopIfUnused(c)
    BY <2>3, StopIfUnusedEffect DEF Effect
  <2> QED
    BY <1>2, <2>1, <2>2, <2>3 DEF DetachGoesOn
<1>3. CASE CleanupEnds(c) \/ DetachTimesOut(c)
  BY <1>3, EndsOver, StopIfUnusedEffect DEF CleanupEnds, DetachTimesOut, Effect
<1> QED
  BY <1>1, <1>2, <1>3 DEF Detach

LEMMA StepEffect == [Next]_vars => Effect
<1> SUFFICES ASSUME [Next]_vars PROVE Effect
  OBVIOUS
<1>1. ASSUME NEW c \in Clients, Consumer(c) \/ Detach(c) PROVE Effect
  BY <1>1, ConsumerEffect, DetachEffect
<1>2. CASE Dispatch
  BY <1>2 DEF Dispatch, Effect, Begins, requestVars
<1>3. ASSUME NEW outcome \in {"ok", "error"}, Answer(outcome) PROVE Effect
  BY <1>3 DEF Answer, SendOrDone, Effect, Answered
<1>4. CASE Acked
  BY <1>4 DEF Acked, Effect, Done
<1>5. CASE SendFails
  BY <1>5, EndsOver DEF SendFails, Effect
<1>6. CASE UNCHANGED vars
  BY <1>6 DEF vars, Effect, Quiet, requestVars
<1> QED
  BY <1>1, <1>2, <1>3, <1>4, <1>5, <1>6 DEF Next

-----------------------------------------------------------------------------
(* Queue, table and worker agree.                                           *)

\* The active request is out of the queue but was put before, and the request
\* whose answer is being sent is the active one and no longer pending.
WorkInv ==
  /\ LanesTypeOK /\ Fresh
  /\ TablesAgree /\ pend \subseteq Ids
  /\ cur \in Nat /\ cur <= last /\ cur \notin Queued
  /\ reader # 0 => reader = cur /\ cur \notin pend

\* Every step is a step of the queue: what a detach or a cancellation withdraws
\* is queued.
LEMMA EffectIsQueueStep ==
  ASSUME WorkInv, Effect
  PROVE  [QueueNext]_queueVars
<1>1. CASE Quiet
  BY <1>1 DEF Quiet
<1>2. CASE Enters
  BY <1>2 DEF Enters, QueueNext
<1>3. CASE Leaves
  <2>1. PICK S \in SUBSET pend : cur \notin S /\ Discard(S)
    BY <1>3 DEF Leaves
  <2>2. S \in SUBSET Queued
    BY <2>1 DEF WorkInv, TablesAgree
  <2> QED
    BY <2>1, <2>2 DEF QueueNext
<1>4. CASE Begins
  BY <1>4 DEF Begins, QueueNext
<1>5. CASE Answered \/ Done
  BY <1>5 DEF Answered, Done
<1>6. CASE Over
  BY <1>6 DEF Over, QueueNext
<1> QED
  BY <1>1, <1>2, <1>3, <1>4, <1>5, <1>6 DEF Effect

LEMMA WorkInitial == Init => WorkInv
<1> SUFFICES ASSUME Init PROVE WorkInv
  OBVIOUS
<1>1. QueueInit /\ pend = {} /\ cur = 0 /\ reader = 0
  BY DEF Init
<1>2. LanesTypeOK /\ Queued = {} /\ Fresh
  BY <1>1, InitialLanes, InitialRotation
<1>3. last = 0
  BY <1>1 DEF QueueInit
<1> QED
  BY <1>1, <1>2, <1>3 DEF WorkInv, TablesAgree

LEMMA WorkStep ==
  ASSUME WorkInv, Effect
  PROVE  WorkInv'
<1>1. LanesTypeOK' /\ Fresh'
  BY EffectIsQueueStep, LanesTypeStep, FreshStep DEF WorkInv
<1>2. last \in Nat /\ Queued \subseteq Ids
  BY QueueAssumption DEF WorkInv, LanesTypeOK, QueueAssumption, Queued
<1>3. CASE Quiet
  BY <1>1, <1>3 DEF Quiet, WorkInv, TablesAgree, workVars, queueVars, Queued
<1>4. CASE Enters
  <2>1. PICK o \in Owners, n \in Sizes :
          Put(o, n) /\ pend' = pend \cup {last + 1} /\ UNCHANGED workVars
    BY <1>4 DEF Enters
  <2>2. Queued' = Queued \cup {last + 1}
    BY <2>1, PutLanes DEF WorkInv
  <2>3. last' = last + 1 /\ cur' = cur /\ reader' = reader /\ cur # last + 1
    BY <1>2, <2>1 DEF Put, workVars, WorkInv
  <2>4. TablesAgree' /\ pend' \subseteq Ids
    <3>1. last + 1 \in Ids
      BY <2>1, PutLanes DEF WorkInv
    <3> QED
      BY <2>1, <2>2, <2>3, <3>1 DEF WorkInv, TablesAgree
  <2>5. cur' \in Nat /\ cur' <= last'
    BY <1>2, <2>3 DEF WorkInv
  <2> QED
    BY <1>1, <2>1, <2>2, <2>3, <2>4, <2>5 DEF WorkInv
<1>5. CASE Leaves
  <2>1. PICK S \in SUBSET pend :
          cur \notin S /\ Discard(S) /\ pend' = pend \ S /\ UNCHANGED workVars
    BY <1>5 DEF Leaves
  <2>2. Queued' = Queued \ S /\ last' = last
    BY <2>1, RemoveLanes DEF WorkInv, Discard, Remove
  <2>3. cur' = cur /\ reader' = reader
    BY <2>1 DEF workVars
  <2> QED
    BY <1>1, <2>1, <2>2, <2>3 DEF WorkInv, TablesAgree
<1>6. CASE Begins
  <2>1. PICK i \in Ids : Take(i) /\ cur' = i
    BY <1>6 DEF Begins
  <2>2. Queued' = Queued \ {i} /\ last' = last
    BY <2>1, RemoveLanes DEF WorkInv, Take, Remove
  <2>3. owner[i] # None /\ i \in Nat /\ 0 \notin Ids
    BY <2>1, Names DEF Take
  <2>4. i <= last
    BY <1>2, <2>1, <2>3 DEF WorkInv, Fresh
  <2>5. pend' = pend /\ reader' = reader /\ cur = 0
    BY <1>6 DEF Begins
  <2>6. pend = Queued /\ reader = 0
    BY <2>3, <2>5 DEF WorkInv, TablesAgree
  <2>7. i \in Queued
    BY <2>1, <2>3 DEF Queued
  <2>8. TablesAgree' /\ pend' \subseteq Ids
    BY <2>1, <2>2, <2>5, <2>6, <2>7, <1>2 DEF TablesAgree
  <2>9. cur' \in Nat /\ cur' <= last' /\ cur' \notin Queued'
    BY <2>1, <2>2, <2>3, <2>4
  <2> QED
    BY <1>1, <2>5, <2>6, <2>8, <2>9 DEF WorkInv
<1>7. CASE Answered \/ Done
  <2>1. Queued' = Queued /\ last' = last /\ 0 \notin Queued
    BY <1>2, <1>7, Names DEF Answered, Done, queueVars, Queued
  <2>2. CASE Answered
    <3>1. cur \in pend /\ pend' = pend \ {cur} /\ reader = 0
      BY <2>2 DEF Answered, WorkInv
    <3>2. TablesAgree' /\ pend' \subseteq Ids
      BY <2>1, <3>1 DEF WorkInv, TablesAgree
    <3>3. cur' \in {0, cur} /\ (reader' # 0 => reader' = cur /\ cur' = cur)
      BY <2>2, <3>1 DEF Answered
    <3> QED
      BY <1>1, <1>2, <2>1, <3>1, <3>2, <3>3 DEF WorkInv
  <2>3. CASE Done
    <3>1. pend' = pend /\ cur' = 0 /\ reader' = 0 /\ cur \notin pend
      BY <2>3 DEF Done, WorkInv
    <3>2. TablesAgree' /\ pend' \subseteq Ids
      BY <2>1, <3>1 DEF WorkInv, TablesAgree
    <3> QED
      BY <1>1, <1>2, <2>1, <3>1, <3>2 DEF WorkInv
  <2> QED
    BY <1>7, <2>2, <2>3
<1>8. CASE Over
  <2>1. Queued' = {} /\ last' = last
    BY <1>8, ClearLanes DEF Over, WorkInv, Clear
  <2>2. pend' = {} /\ cur' = 0 /\ reader' = 0
    BY <1>8 DEF Over
  <2> QED
    BY <1>1, <1>2, <2>1, <2>2 DEF WorkInv, TablesAgree
<1> QED
  BY <1>3, <1>4, <1>5, <1>6, <1>7, <1>8 DEF Effect

\* No path of the code (dispatch, answer, cancellation, detach, a full queue,
\* the end of the generation) leaves a request in the queue only, or in the
\* table of pending requests without being queued or active.
THEOREM QueueAndTableAgree == Spec => []TablesAgree
<1>1. WorkInv /\ [Next]_vars => WorkInv'
  BY WorkStep, StepEffect
<1>2. WorkInv => TablesAgree
  BY DEF WorkInv
<1> QED
  BY <1>1, <1>2, WorkInitial, PTL DEF Spec

\* The sessions use the queue as SharedQueue specifies it: each step of a
\* client, of the worker or of a detach is one of its operations or none.
THEOREM ImplementsQueue == Spec => QueueSpec
<1>1. Init => QueueInit
  BY DEF Init
<1>2. WorkInv /\ [Next]_vars => WorkInv' /\ [QueueNext]_queueVars
  BY WorkStep, StepEffect, EffectIsQueueStep
<1> QED
  BY <1>1, <1>2, WorkInitial, PTL DEF Spec, QueueSpec

\* So in every session the limits hold and the round robin is fair.
THEOREM SessionLimitsHold == Spec => []QueueBounded
BY ImplementsQueue, LimitsHold, PTL

THEOREM SessionRoundRobin == Spec => []NoOvertaking
BY ImplementsQueue, RoundRobin, PTL

\* And cancellations, detaches and the end of a generation leave no byte behind.
THEOREM SessionBytesAccounted == Spec => []BytesAccounted
<1>1. Spec => [](QueueTypeOK /\ BytesAccounted)
  BY ImplementsQueue, BytesStayAccounted, PTL
<1> QED
  BY <1>1, PTL

-----------------------------------------------------------------------------
(* The lease.                                                               *)

StatesOK ==
  /\ life \in [Clients -> {"new", "on", "eof", "closing", "left"}]
  /\ cons \in [Clients -> {"idle", "hello", "boot", "wait"}]
  /\ det \in [Clients -> {"off", "cancel", "clean", "over"}]
  /\ lease \in Clients \cup {None}

\* A client whose task waits is attached, so a call that goes on afterwards takes
\* the lease for a client that somebody will detach.
LeaseInv ==
  /\ StatesOK
  /\ \A c \in Clients : cons[c] # "idle" => life[c] = "on"
  /\ LeaseIsWatched

LEMMA SubmitLease ==
  ASSUME NEW c \in Clients, NEW k, Submit(c, k)
  PROVE  lease' \in {lease, c}
BY DEF Submit

LEMMA ConsumerLease ==
  ASSUME LeaseInv, NEW c \in Clients, Consumer(c)
  PROVE  LeaseInv'
<1>1. CASE Attach(c) \/ Eof(c) \/ Hello(c)
  BY <1>1 DEF Attach, Eof, Hello, Reads, LeaseInv, StatesOK, LeaseIsWatched, clients, leaseVars
<1>2. CASE HelloWakes(c) \/ BootTimesOut(c)
  BY <1>2 DEF HelloWakes, BootTimesOut, StopsWaiting, LeaseInv, StatesOK, LeaseIsWatched,
     clients, leaseVars
<1>3. ASSUME NEW k \in CallKinds, Call(c, k) PROVE LeaseInv'
  <2>1. life' = life /\ det' = det /\ life[c] = "on"
    BY <1>3 DEF Call, Reads
  <2>2. lease' \in {lease, c}
    BY <1>3, SubmitLease DEF Call
  <2>3. cons' = cons \/ \E v \in {"boot", "wait"} : cons' = [cons EXCEPT ![c] = v]
    BY <1>3 DEF Call, Bootstrap
  <2> QED
    BY <2>1, <2>2, <2>3 DEF LeaseInv, StatesOK, LeaseIsWatched, clients
<1>4. CASE BootEnds(c) \/ WaitEnds(c)
  <2>1. life' = life /\ det' = det /\ cons' = [cons EXCEPT ![c] = "idle"] /\ life[c] = "on"
    BY <1>4 DEF BootEnds, WaitEnds, StopsWaiting, LeaseInv
  <2>2. lease' \in {lease, c}
    BY <1>4, SubmitLease DEF BootEnds, WaitEnds
  <2> QED
    BY <2>1, <2>2 DEF LeaseInv, StatesOK, LeaseIsWatched, clients
<1>5. ASSUME NEW i \in Ids, Cancel(c, i) PROVE LeaseInv'
  BY <1>5 DEF Cancel, LeaseInv, StatesOK, LeaseIsWatched, clients, clientVars, leaseVars
<1> QED
  BY <1>1, <1>2, <1>3, <1>4, <1>5 DEF Consumer

LEMMA DetachLease ==
  ASSUME LeaseInv, NEW c \in Clients, Detach(c)
  PROVE  LeaseInv'
<1>1. CASE Close(c)
  BY <1>1 DEF Close, StopsWaiting, LeaseInv, StatesOK, LeaseIsWatched, clients
<1>2. ASSUME Ends, UNCHANGED <<clientVars, det>> PROVE LeaseInv'
  BY <1>2 DEF Ends, LeaseInv, StatesOK, LeaseIsWatched, clientVars
<1>3. ASSUME StopIfUnused(c), UNCHANGED clientVars, lease # c PROVE LeaseInv'
  BY <1>3 DEF StopIfUnused, Ends, LeaseInv, StatesOK, LeaseIsWatched, clientVars, clients
<1>4. CASE DetachGoesOn(c)
  <2>1. CASE lease # c
    BY <1>3, <1>4, <2>1 DEF DetachGoesOn
  <2>2. CASE Ends /\ UNCHANGED <<det, detId>>
    BY <1>2, <1>4, <2>2 DEF DetachGoesOn
  <2>3. CASE det' = [det EXCEPT ![c] = "clean"] /\ UNCHANGED lease
    BY <1>4, <2>3 DEF DetachGoesOn, LeaseInv, StatesOK, LeaseIsWatched, clientVars, clients
  <2> QED
    BY <1>4, <2>1, <2>2, <2>3 DEF DetachGoesOn
<1>5. CASE CleanupEnds(c)
  BY <1>2, <1>3, <1>5, Names, QueueAssumption DEF CleanupEnds, QueueAssumption
<1>6. CASE DetachTimesOut(c)
  BY <1>2, <1>6 DEF DetachTimesOut
<1> QED
  BY <1>1, <1>4, <1>5, <1>6 DEF Detach

LEMMA LeaseStep == LeaseInv /\ [Next]_vars => LeaseInv'
<1> SUFFICES ASSUME LeaseInv, [Next]_vars PROVE LeaseInv'
  OBVIOUS
<1>1. ASSUME NEW c \in Clients, Consumer(c) \/ Detach(c) PROVE LeaseInv'
  BY <1>1, ConsumerLease, DetachLease
<1>2. CASE Dispatch
  BY <1>2 DEF Dispatch, LeaseInv, StatesOK, LeaseIsWatched, clients, clientVars, leaseVars
<1>3. ASSUME NEW outcome \in {"ok", "error"}, Answer(outcome) PROVE LeaseInv'
  BY <1>3 DEF Answer, LeaseInv, StatesOK, LeaseIsWatched, clients, clientVars
<1>4. CASE Acked
  <2>1. cons' = cons /\ det' = det /\ lease' = lease
    BY <1>4 DEF Acked, leaseVars
  <2>2. life' = life \/ \E c \in Clients : life[c] = "eof" /\ life' = [life EXCEPT ![c] = "closing"]
    BY <1>4 DEF Acked, clients
  <2> QED
    BY <2>1, <2>2 DEF LeaseInv, StatesOK, LeaseIsWatched, clients
<1>5. CASE SendFails
  BY <1>5 DEF SendFails, Ends, LeaseInv, StatesOK, LeaseIsWatched, clients, clientVars
<1>6. CASE UNCHANGED vars
  BY <1>6 DEF vars, LeaseInv, StatesOK, LeaseIsWatched, clients, clientVars, leaseVars
<1> QED
  BY <1>1, <1>2, <1>3, <1>4, <1>5, <1>6 DEF Next

\* However the owner leaves (with its release queued, active, refused, failed or
\* never confirmed), the lease has an attached owner or a detach that releases it
\* or ends the generation: it is never blocked for good by a client that is gone.
THEOREM LeaseStaysWatched == Spec => []LeaseIsWatched
<1>1. Init => LeaseInv
  BY DEF Init, LeaseInv, StatesOK, LeaseIsWatched
<1>2. LeaseInv /\ [Next]_vars => LeaseInv'
  BY LeaseStep
<1>3. LeaseInv => LeaseIsWatched
  BY DEF LeaseInv
<1> QED
  BY <1>1, <1>2, <1>3, PTL DEF Spec

-----------------------------------------------------------------------------
(* Answers.                                                                 *)

AnswerOf(i) == answers[i] = IF Settled(i) THEN 1 ELSE 0

\* Identities not given out belong to nobody, and only clients that were
\* attached asked for anything.
AnswerInv ==
  /\ asker \in [Ids -> Owners \cup {None}] /\ answers \in [Ids -> Nat]
  /\ \A i \in Ids : i > last => asker[i] = None /\ answers[i] = 0
  /\ \A i \in Ids : asker[i] \in Clients => life[asker[i]] # "new"
  /\ \A i \in Ids : asker[i] \in clients => AnswerOf(i)

SessionInv == WorkInv /\ LeaseInv /\ AnswerInv

LEMMA WorkFacts ==
  ASSUME WorkInv
  PROVE  /\ last \in Nat /\ \A i \in Ids : i \in Nat \ {0}
         /\ \A i \in pend : i \in Ids /\ i <= last
         /\ reader # 0 => reader \in Nat /\ reader <= last /\ reader \notin pend
<1>1. last \in Nat /\ \A i \in Ids : i \in Nat \ {0}
  BY Names, QueueAssumption DEF WorkInv, LanesTypeOK, QueueAssumption
<1>2. \A i \in Queued : i <= last
  BY <1>1 DEF WorkInv, Fresh, Queued
<1>3. \A i \in pend : i \in Ids /\ i <= last
  BY <1>2 DEF WorkInv, TablesAgree
<1> QED
  BY <1>1, <1>3 DEF WorkInv

\* A request that is registered is not answered yet.
LEMMA RegisterAnswers ==
  ASSUME SessionInv, NEW c \in Owners, NEW k, c \in Clients => life[c] # "new",
         Register(c, k), last + 1 \in Ids, last' = last + 1,
         UNCHANGED <<life, reader>>
  PROVE  AnswerInv'
<1> DEFINE n == last + 1
<1>1. last \in Nat /\ (\A i \in Ids : i \in Nat) /\ reader # n
  BY WorkFacts DEF SessionInv
<1>2. /\ asker' = [asker EXCEPT ![n] = c] /\ pend' = pend \cup {n}
      /\ answers' = answers /\ reader' = reader /\ life' = life /\ last' = n
  BY DEF Register
<1>3. asker' \in [Ids -> Owners \cup {None}] /\ answers' \in [Ids -> Nat]
  BY <1>2 DEF SessionInv, AnswerInv
<1>4. \A i \in Ids : i > last' => asker'[i] = None /\ answers'[i] = 0
  BY <1>1, <1>2 DEF SessionInv, AnswerInv
<1>5. \A i \in Ids : asker'[i] \in Clients => life'[asker'[i]] # "new"
  BY <1>2 DEF SessionInv, AnswerInv
<1>6. ASSUME NEW i \in Ids, asker'[i] \in clients' PROVE AnswerOf(i)'
  <2>1. CASE i = n
    BY <1>1, <1>2, <2>1 DEF SessionInv, AnswerInv, AnswerOf, Settled
  <2>2. CASE i # n
    <3>1. asker'[i] = asker[i] /\ asker[i] \in clients
      BY <1>2, <1>6, <2>2 DEF SessionInv, AnswerInv, clients
    <3>2. AnswerOf(i)
      BY <3>1 DEF SessionInv, AnswerInv
    <3> QED
      BY <1>2, <2>2, <3>2 DEF AnswerOf, Settled
  <2> QED
    BY <2>1, <2>2
<1> HIDE DEF n
<1> QED
  BY <1>3, <1>4, <1>5, <1>6 DEF AnswerInv

\* Nothing is registered, settled or answered, and who is attached stays so.
LEMMA SameAnswers ==
  ASSUME AnswerInv, UNCHANGED <<last, asker, answers, pend, reader>>,
         life' \in [Clients -> {"new", "on", "eof", "closing", "left"}],
         \A c \in Clients : life[c] # "new" => life'[c] # "new",
         \A c \in Clients : c \in clients' => c \in clients \/ life[c] = "new"
  PROVE  AnswerInv'
<1>1. \A i \in Ids : AnswerOf(i) => AnswerOf(i)'
  BY DEF AnswerOf, Settled
<1>2. \A i \in Ids : asker[i] \in clients' => asker[i] \in clients
  BY DEF AnswerInv, clients
<1> QED
  BY <1>1, <1>2 DEF AnswerInv

LEMMA EndsAnswers ==
  ASSUME AnswerInv, Ends
  PROVE  AnswerInv'
<1>1. (\A i \in Ids : asker'[i] = None /\ answers'[i] = 0) /\ None \notin Clients
  BY QueueAssumption DEF Ends, QueueAssumption
<1>2. \A i \in Ids : asker'[i] \notin clients'
  BY <1>1 DEF clients
<1>3. asker' \in [Ids -> Owners \cup {None}] /\ answers' \in [Ids -> Nat]
  BY DEF Ends
<1> QED
  BY <1>1, <1>2, <1>3 DEF AnswerInv

LEMMA SubmitAnswers ==
  ASSUME SessionInv, NEW c \in Clients, life[c] = "on", NEW k, Submit(c, k),
         UNCHANGED <<life, reader>>
  PROVE  AnswerInv'
<1>1. CASE UNCHANGED <<queueVars, requestVars, lease>>
  BY <1>1, SameAnswers DEF SessionInv, queueVars, requestVars, LeaseInv, StatesOK, clients
<1>2. CASE (\E n \in Sizes : Put(c, n)) /\ Register(c, k)
  <2>1. c \in Owners
    BY Names
  <2>2. last + 1 \in Ids /\ last' = last + 1
    BY <1>2, <2>1, PutLanes DEF SessionInv, WorkInv, Put
  <2> QED
    BY <1>2, <2>1, <2>2, RegisterAnswers
<1> QED
  BY <1>1, <1>2 DEF Submit

LEMMA OwnAnswers ==
  ASSUME SessionInv, NEW c \in Owners, NEW k, c \in Clients => life[c] # "new",
         EnqueueOwn(c, k), UNCHANGED <<life, reader>>
  PROVE  AnswerInv'
<1>1. last + 1 \in Ids /\ last' = last + 1
  BY PutLanes, Names DEF SessionInv, WorkInv, EnqueueOwn, Put
<1> QED
  BY <1>1, RegisterAnswers DEF EnqueueOwn

LEMMA ConsumerAnswers ==
  ASSUME SessionInv, NEW c \in Clients, Consumer(c)
  PROVE  AnswerInv'
<1> USE DEF SessionInv
<1>1. LeaseInv'
  BY ConsumerLease
<1>2. life' \in [Clients -> {"new", "on", "eof", "closing", "left"}]
  BY <1>1 DEF LeaseInv, StatesOK
<1>3. CASE Attach(c) \/ Eof(c) \/ HelloWakes(c) \/ BootTimesOut(c)
  <2>1. UNCHANGED <<last, asker, answers, pend, reader>>
    BY <1>3 DEF Attach, Eof, HelloWakes, BootTimesOut, queueVars, requestVars, workVars
  <2>2. /\ \A d \in Clients : life[d] # "new" => life'[d] # "new"
        /\ \A d \in Clients : d \in clients' => d \in clients \/ life[d] = "new"
    BY <1>3 DEF Attach, Eof, HelloWakes, BootTimesOut, Reads, clients, LeaseInv, StatesOK
  <2> QED
    BY <1>2, <2>1, <2>2, SameAnswers
<1>4. CASE Hello(c)
  <2>1. life[c] = "on" /\ reader' = reader /\ c \in Owners
    BY <1>4, Names DEF Hello, Reads, workVars
  <2>2. CASE EnqueueOwn(c, "initialize") /\ UNCHANGED life
    BY <2>1, <2>2, OwnAnswers
  <2>3. CASE UNCHANGED <<queueVars, requestVars>>
    <3>1. life' = life \/ life' = [life EXCEPT ![c] = "closing"]
      BY <1>4 DEF Hello
    <3>2. /\ \A d \in Clients : life[d] # "new" => life'[d] # "new"
          /\ \A d \in Clients : d \in clients' => d \in clients \/ life[d] = "new"
      BY <2>1, <3>1 DEF clients, LeaseInv, StatesOK
    <3> QED
      BY <1>2, <2>1, <2>3, <3>2, SameAnswers DEF queueVars, requestVars
  <2> QED
    BY <1>4, <2>2, <2>3 DEF Hello
<1>5. ASSUME NEW k \in CallKinds, Call(c, k) PROVE AnswerInv'
  <2>1. life[c] = "on" /\ UNCHANGED <<life, reader>>
    BY <1>5 DEF Call, Reads, workVars
  <2>2. CASE Submit(c, k)
    BY <2>1, <2>2, SubmitAnswers
  <2>3. CASE UNCHANGED <<queueVars, requestVars>>
    BY <1>2, <2>1, <2>3, SameAnswers DEF queueVars, requestVars, clients
  <2>4. CASE EnqueueOwn(Bridge, "initialize")
    BY <2>1, <2>4, OwnAnswers, Names
  <2> QED
    BY <1>5, <2>2, <2>3, <2>4 DEF Call, Bootstrap
<1>6. CASE BootEnds(c) \/ WaitEnds(c)
  <2>1. life[c] = "on" /\ UNCHANGED <<life, reader>>
    BY <1>6 DEF BootEnds, WaitEnds, LeaseInv, workVars
  <2>2. CASE Submit(c, held[c])
    BY <2>1, <2>2, SubmitAnswers
  <2>3. CASE UNCHANGED <<queueVars, requestVars>>
    BY <1>2, <2>1, <2>3, SameAnswers DEF queueVars, requestVars, clients
  <2> QED
    BY <1>6, <2>2, <2>3 DEF BootEnds, WaitEnds
<1>7. ASSUME NEW i \in Ids, Cancel(c, i) PROVE AnswerInv'
  <2>1. /\ i \in pend /\ asker[i] = c /\ life[c] = "on" /\ pend' = pend \ {i}
        /\ answers' = [answers EXCEPT ![i] = @ + 1]
        /\ UNCHANGED <<life, asker, reader, last>>
    BY <1>7 DEF Cancel, OwnPending, Reads, clientVars, workVars, Discard, Remove
  <2>2. i # 0 /\ i # reader /\ i <= last
    BY <2>1, WorkFacts DEF WorkInv
  <2>3. answers[i] = 0 /\ AnswerOf(i)'
    BY <2>1, <2>2 DEF AnswerInv, AnswerOf, Settled, clients
  <2>4. \A j \in Ids \ {i} : AnswerOf(j) => AnswerOf(j)'
    BY <2>1 DEF AnswerOf, Settled, AnswerInv
  <2>5. answers' \in [Ids -> Nat] /\ clients' = clients
    BY <2>1 DEF AnswerInv, clients
  <2>6. \A j \in Ids : j > last' => answers'[j] = 0
    BY <2>1, <2>2, WorkFacts DEF AnswerInv
  <2> QED
    BY <2>1, <2>3, <2>4, <2>5, <2>6 DEF AnswerInv
<1> QED
  BY <1>3, <1>4, <1>5, <1>6, <1>7 DEF Consumer

LEMMA StopIfUnusedAnswers ==
  ASSUME SessionInv, NEW c \in Clients, StopIfUnused(c), UNCHANGED clientVars
  PROVE  AnswerInv'
<1>1. CASE Ends
  BY <1>1, EndsAnswers DEF SessionInv
<1>2. CASE UNCHANGED <<queueVars, up, requestVars, workVars, lease>>
  BY <1>2, SameAnswers DEF SessionInv, queueVars, requestVars, workVars, clientVars, clients,
     LeaseInv, StatesOK
<1> QED
  BY <1>1, <1>2 DEF StopIfUnused

LEMMA DetachAnswers ==
  ASSUME SessionInv, NEW c \in Clients, Detach(c)
  PROVE  AnswerInv'
<1> USE DEF SessionInv
<1>1. CASE Close(c)
  <2>1. PICK W \in SUBSET pend :
          /\ \A i \in W : asker[i] = c
          /\ pend' = pend \ W
    BY <1>1 DEF Close, OwnPending
  <2>2. /\ life' = [life EXCEPT ![c] = "left"]
        /\ UNCHANGED <<asker, answers, reader, last>>
    BY <1>1 DEF Close, workVars, Discard, Remove
  <2>3. clients' = clients \ {c}
    BY <2>2 DEF clients, LeaseInv, StatesOK
  <2>4. \A i \in Ids : asker[i] # c /\ AnswerOf(i) => AnswerOf(i)'
    BY <2>1, <2>2 DEF AnswerOf, Settled
  <2>5. \A i \in Ids : asker'[i] \in Clients => life'[asker'[i]] # "new"
    BY <2>2 DEF AnswerInv, LeaseInv, StatesOK
  <2> QED
    BY <2>2, <2>3, <2>4, <2>5 DEF AnswerInv
<1>2. CASE DetachGoesOn(c)
  <2>1. CASE Ends
    BY <2>1, EndsAnswers
  <2>2. CASE EnqueueOwn(Bridge, "release") /\ UNCHANGED workVars
    BY <1>2, <2>2, OwnAnswers, Names DEF DetachGoesOn, clientVars, workVars
  <2>3. CASE StopIfUnused(c)
    BY <1>2, <2>3, StopIfUnusedAnswers DEF DetachGoesOn
  <2> QED
    BY <1>2, <2>1, <2>2, <2>3 DEF DetachGoesOn
<1>3. CASE CleanupEnds(c)
  BY <1>3, EndsAnswers, StopIfUnusedAnswers DEF CleanupEnds
<1>4. CASE DetachTimesOut(c)
  BY <1>4, EndsAnswers DEF DetachTimesOut
<1> QED
  BY <1>1, <1>2, <1>3, <1>4 DEF Detach

\* The answer is on its way, or nobody is there to get it.
LEMMA AnswerAnswers ==
  ASSUME SessionInv, NEW outcome \in {"ok", "error"}, Answer(outcome)
  PROVE  AnswerInv'
<1> USE DEF SessionInv
<1>1. cur \in pend /\ pend' = pend \ {cur} /\ reader = 0 /\ cur # 0 /\ cur \in Ids
  BY WorkFacts DEF Answer, WorkInv
<1>2. UNCHANGED <<life, asker, answers, last>> /\ clients' = clients
  BY DEF Answer, clientVars, queueVars, clients
<1>3. asker[cur] \in clients => reader' = cur
  BY DEF Answer, SendOrDone
<1>4. reader' \in {0, cur}
  BY <1>1 DEF Answer, SendOrDone
<1>5. ASSUME NEW i \in Ids, asker[i] \in clients, AnswerOf(i) PROVE AnswerOf(i)'
  BY <1>1, <1>2, <1>3, <1>4, <1>5 DEF AnswerOf, Settled
<1> QED
  BY <1>2, <1>5 DEF AnswerInv

LEMMA AckedAnswers ==
  ASSUME SessionInv, Acked
  PROVE  AnswerInv'
<1> USE DEF SessionInv
<1>1. /\ reader \in Ids /\ reader <= last /\ reader \notin pend /\ reader # 0
      /\ reader' = 0 /\ UNCHANGED <<pend, asker, last>>
  <2>1. reader # 0 /\ reader' = 0 /\ UNCHANGED <<pend, asker, last>>
    BY DEF Acked, queueVars
  <2>2. reader \in Nat /\ reader <= last /\ reader \notin pend
    BY <2>1, WorkFacts
  <2>3. reader \in Ids
    BY <2>1, <2>2, QueueAssumption DEF WorkInv, LanesTypeOK, Ids, QueueAssumption
  <2> QED
    BY <2>1, <2>2, <2>3
<1> DEFINE c == asker[reader]
<1>2. \A i \in Ids \ {reader} : Settled(i) <=> Settled(i)'
  BY <1>1 DEF Settled
<1>3. ~Settled(reader)
  BY <1>1 DEF Settled
<1>4. CASE c \in clients
  <2>1. answers' = [answers EXCEPT ![reader] = @ + 1] /\ answers[reader] = 0
    BY <1>1, <1>3, <1>4 DEF Acked, AnswerInv, AnswerOf
  <2>2. clients' = clients /\ \A d \in Clients : life[d] # "new" => life'[d] # "new"
    BY <1>4 DEF Acked, clients, LeaseInv, StatesOK
  <2>3. \A i \in Ids : AnswerOf(i) => AnswerOf(i)'
    <3>1. ASSUME NEW i \in Ids, i = reader PROVE AnswerOf(i)'
      <4>1. answers'[i] = 1
        BY <1>1, <2>1, <3>1 DEF AnswerInv
      <4>2. i \notin pend' /\ reader' # i
        BY <1>1, <3>1
      <4> QED
        BY <4>1, <4>2 DEF AnswerOf, Settled
    <3>2. ASSUME NEW i \in Ids \ {reader}, AnswerOf(i) PROVE AnswerOf(i)'
      <4>1. answers'[i] = answers[i]
        BY <2>1, <3>2 DEF AnswerInv
      <4> QED
        BY <1>1, <3>2, <4>1 DEF AnswerOf, Settled
    <3> QED
      BY <3>1, <3>2
  <2>4. answers' \in [Ids -> Nat] /\ \A i \in Ids : i > last => answers'[i] = answers[i]
    BY <1>1, <2>1, WorkFacts DEF AnswerInv
  <2> QED
    BY <1>1, <2>2, <2>3, <2>4 DEF AnswerInv
<1>5. CASE c \notin clients
  <2>1. UNCHANGED <<answers, life>> /\ clients' = clients
    BY <1>5 DEF Acked, clients
  <2>2. ASSUME NEW i \in Ids, asker[i] \in clients, AnswerOf(i) PROVE AnswerOf(i)'
    BY <1>2, <1>5, <2>1, <2>2 DEF AnswerOf
  <2> QED
    BY <1>1, <2>1, <2>2 DEF AnswerInv
<1> QED
  BY <1>4, <1>5

LEMMA AnswerStep == SessionInv /\ [Next]_vars => AnswerInv'
<1> SUFFICES ASSUME SessionInv, [Next]_vars PROVE AnswerInv'
  OBVIOUS
<1>1. ASSUME NEW c \in Clients, Consumer(c) \/ Detach(c) PROVE AnswerInv'
  BY <1>1, ConsumerAnswers, DetachAnswers
<1>2. CASE Dispatch
  BY <1>2, SameAnswers DEF Dispatch, Take, Remove, requestVars, clientVars, clients, SessionInv,
     LeaseInv, StatesOK
<1>3. ASSUME NEW outcome \in {"ok", "error"}, Answer(outcome) PROVE AnswerInv'
  BY <1>3, AnswerAnswers
<1>4. CASE Acked
  BY <1>4, AckedAnswers
<1>5. CASE SendFails
  BY <1>5, EndsAnswers DEF SendFails, SessionInv
<1>6. CASE UNCHANGED vars
  BY <1>6, SameAnswers DEF vars, queueVars, requestVars, workVars, clientVars, clients,
     SessionInv, LeaseInv, StatesOK
<1> QED
  BY <1>1, <1>2, <1>3, <1>4, <1>5, <1>6 DEF Next

LEMMA SessionInitial == Init => SessionInv
<1> SUFFICES ASSUME Init PROVE LeaseInv /\ AnswerInv
  BY WorkInitial DEF SessionInv
<1>1. LeaseInv
  BY DEF Init, LeaseInv, StatesOK, LeaseIsWatched
<1>2. /\ asker = [i \in Ids |-> None] /\ answers = [i \in Ids |-> 0]
      /\ None \notin Clients
  BY QueueAssumption DEF Init, QueueAssumption
<1>3. AnswerInv
  BY <1>2 DEF AnswerInv, clients
<1> QED
  BY <1>1, <1>3

LEMMA SessionStep == SessionInv /\ [Next]_vars => SessionInv'
BY WorkStep, StepEffect, LeaseStep, AnswerStep DEF SessionInv

\* Whatever cancellation, dispatch, answer and the end of other clients race:
\* each call of an attached client is answered once, and not before it is done.
THEOREM AnsweredOnce == Spec => []OneAnswer
<1>1. SessionInv => OneAnswer
  BY DEF SessionInv, AnswerInv, AnswerOf, OneAnswer
<1> QED
  BY <1>1, SessionInitial, SessionStep, PTL DEF Spec

-----------------------------------------------------------------------------
(* What a step does to the requests themselves.                             *)

\* The requests somebody still works on.
Live == pend \cup ({cur} \ {0})

\* Some of them are done, or withdrawn, or go from the queue to the worker.
Shrinks ==
  /\ pend' \subseteq pend /\ Live' \subseteq Live
  /\ Queued' \subseteq Queued /\ \A i \in Queued' : owner'[i] = owner[i]
  /\ UNCHANGED <<kind, asker>>

\* One more is queued in lane o: a asks for k.
Joins(o, a, k) == (\E n \in Sizes : Put(o, n)) /\ Register(a, k) /\ UNCHANGED workVars

RequestTypes ==
  /\ hello \in [Clients -> {"no", "asked", "answered", "failed"}]
  /\ held \in [Clients -> CallKinds \cup {None}]
  /\ kind \in [Ids -> CallKinds \cup {"initialize", None}]
  /\ detId \in [Clients -> Ids \cup {0}]

TypedSession == SessionInv /\ RequestTypes

LEMMA QuietShrinks ==
  ASSUME UNCHANGED <<queueVars, kind, asker>>, pend' \subseteq pend, cur' \in {0, cur}
  PROVE  Shrinks
<1>1. Live' \subseteq Live
  BY DEF Live
<1>2. Queued' = Queued /\ owner' = owner
  BY DEF queueVars, Queued
<1> QED
  BY <1>1, <1>2 DEF Shrinks

LEMMA DiscardShrinks ==
  ASSUME WorkInv, NEW S \in SUBSET pend, Discard(S), pend' = pend \ S,
         UNCHANGED <<kind, asker, cur>>
  PROVE  Shrinks
<1>1. Queued' = Queued \ S
  BY RemoveLanes DEF WorkInv, Discard
<1>2. \A i \in Ids : owner'[i] = IF i \in S THEN None ELSE owner[i]
  BY DEF Discard, Remove
<1>3. \A i \in Queued' : owner'[i] = owner[i]
  BY <1>1, <1>2 DEF Queued
<1>4. Live' \subseteq Live
  BY DEF Live
<1> QED
  BY <1>1, <1>3, <1>4 DEF Shrinks

LEMMA DispatchShrinks ==
  ASSUME WorkInv, Dispatch
  PROVE  Shrinks
<1>1. PICK i \in Ids : Take(i) /\ cur' = i
  BY DEF Dispatch
<1>2. Queued' = Queued \ {i}
  BY <1>1, RemoveLanes DEF WorkInv, Take
<1>3. \A j \in Ids : owner'[j] = IF j \in {i} THEN None ELSE owner[j]
  BY <1>1 DEF Take, Remove
<1>4. \A j \in Queued' : owner'[j] = owner[j]
  BY <1>2, <1>3 DEF Queued
<1>5. i \in pend
  BY <1>1 DEF Take, Queued, WorkInv, TablesAgree
<1>6. pend' = pend /\ UNCHANGED <<kind, asker>>
  BY DEF Dispatch, requestVars
<1>7. Live' \subseteq Live
  BY <1>1, <1>5, <1>6 DEF Live
<1> QED
  BY <1>2, <1>4, <1>6, <1>7 DEF Shrinks

LEMMA JoinFacts ==
  ASSUME TypedSession, NEW o \in Owners, NEW a, NEW k, Joins(o, a, k)
  PROVE  /\ last + 1 \in Ids /\ last + 1 \notin Live /\ last + 1 \notin Queued
         /\ last + 1 # cur /\ cur' = cur
         /\ \A i \in pend : i < last + 1
         /\ pend' = pend \cup {last + 1} /\ Live' = Live \cup {last + 1}
         /\ Queued' = Queued \cup {last + 1}
         /\ kind'[last + 1] = k /\ asker'[last + 1] = a /\ owner'[last + 1] = o
         /\ \A i \in Ids \ {last + 1} :
              kind'[i] = kind[i] /\ asker'[i] = asker[i] /\ owner'[i] = owner[i]
<1> DEFINE n == last + 1
<1>1. last \in Nat /\ (\A i \in pend : i \in Ids /\ i <= last) /\ cur \in Nat /\ cur <= last
  BY WorkFacts DEF TypedSession, SessionInv, WorkInv
<1>2. \A i \in Ids : i \in Nat
  BY WorkFacts DEF TypedSession, SessionInv
<1>3. /\ n \in Ids /\ Queued' = Queued \cup {n} /\ owner' = [owner EXCEPT ![n] = o]
  BY PutLanes DEF Joins, TypedSession, SessionInv, WorkInv
<1>4. /\ kind' = [kind EXCEPT ![n] = k] /\ asker' = [asker EXCEPT ![n] = a]
      /\ pend' = pend \cup {n} /\ cur' = cur
  BY DEF Joins, Register, workVars
<1>5. n \notin Queued
  BY <1>1 DEF TypedSession, SessionInv, WorkInv, TablesAgree
<1>6. (\A i \in pend : i < n) /\ n # cur /\ n \notin pend /\ n # 0
  BY <1>1, <1>2
<1>7. n \notin Live /\ Live' = Live \cup {n}
  BY <1>4, <1>6 DEF Live
<1>8. kind'[n] = k /\ asker'[n] = a /\ owner'[n] = o
  BY <1>3, <1>4 DEF TypedSession, SessionInv, AnswerInv, RequestTypes, WorkInv, LanesTypeOK
<1>9. \A i \in Ids \ {n} : kind'[i] = kind[i] /\ asker'[i] = asker[i] /\ owner'[i] = owner[i]
  BY <1>3, <1>4 DEF TypedSession, SessionInv, AnswerInv, RequestTypes, WorkInv, LanesTypeOK
<1> QED
  BY <1>3, <1>4, <1>5, <1>6, <1>7, <1>8, <1>9

LEMMA OwnJoins ==
  ASSUME NEW a, NEW k, EnqueueOwn(a, k), UNCHANGED workVars
  PROVE  Joins(Bridge, a, k) /\ Bridge \in Owners
<1>1. 1 \in Sizes /\ Bridge \in Owners
  BY Names, SessionAssumption DEF SessionAssumption
<1> QED
  BY <1>1 DEF EnqueueOwn, Joins

LEMMA SubmitJoins ==
  ASSUME NEW c \in Clients, NEW k, Submit(c, k), UNCHANGED workVars
  PROVE  \/ UNCHANGED <<queueVars, requestVars, lease>>
         \/ /\ Joins(c, c, k) /\ c \in Owners /\ ~LeaseBusy(c, k)
            /\ lease' = IF k = "leased" /\ lease = None THEN c ELSE lease
BY Names DEF Submit, Joins

LEMMA RegisterTypes ==
  ASSUME RequestTypes, NEW a, NEW k \in CallKinds \cup {"initialize", None}, Register(a, k)
  PROVE  kind' \in [Ids -> CallKinds \cup {"initialize", None}]
BY DEF Register, RequestTypes

LEMMA SubmitTypes ==
  ASSUME RequestTypes, NEW c, NEW k \in CallKinds \cup {None}, Submit(c, k)
  PROVE  kind' \in [Ids -> CallKinds \cup {"initialize", None}]
<1>1. CASE UNCHANGED <<queueVars, requestVars, lease>>
  BY <1>1 DEF requestVars, RequestTypes
<1>2. CASE Register(c, k)
  BY <1>2, RegisterTypes
<1> QED
  BY <1>1, <1>2 DEF Submit

LEMMA ConsumerTypes ==
  ASSUME RequestTypes, NEW c \in Clients, Consumer(c)
  PROVE  RequestTypes'
<1>1. CASE Attach(c) \/ Eof(c)
  BY <1>1 DEF Attach, Eof, RequestTypes, requestVars, leaseVars
<1>2. CASE HelloWakes(c) \/ BootTimesOut(c)
  BY <1>2 DEF HelloWakes, BootTimesOut, StopsWaiting, HelloResult, RequestTypes, requestVars,
     leaseVars
<1>3. CASE Hello(c)
  <2>1. hello' \in [Clients -> {"no", "asked", "answered", "failed"}]
    BY <1>3 DEF Hello, HelloResult, RequestTypes
  <2>2. UNCHANGED <<held, detId>>
    BY <1>3 DEF Hello, leaseVars
  <2>3. kind' \in [Ids -> CallKinds \cup {"initialize", None}]
    BY <1>3, RegisterTypes DEF Hello, EnqueueOwn, requestVars, RequestTypes
  <2> QED
    BY <2>1, <2>2, <2>3 DEF RequestTypes
<1>4. ASSUME NEW k \in CallKinds, Call(c, k) PROVE RequestTypes'
  <2>1. UNCHANGED <<hello, detId>>
    BY <1>4 DEF Call
  <2>2. held' \in [Clients -> CallKinds \cup {None}]
    BY <1>4 DEF Call, Bootstrap, RequestTypes
  <2>3. kind' \in [Ids -> CallKinds \cup {"initialize", None}]
    <3>1. CASE Submit(c, k)
      BY <3>1, SubmitTypes
    <3>2. CASE EnqueueOwn(Bridge, "initialize")
      BY <3>2, RegisterTypes DEF EnqueueOwn
    <3>3. CASE UNCHANGED <<queueVars, requestVars>>
      BY <3>3 DEF requestVars, RequestTypes
    <3> QED
      BY <1>4, <3>1, <3>2, <3>3 DEF Call, Bootstrap
  <2> QED
    BY <2>1, <2>2, <2>3 DEF RequestTypes
<1>5. CASE BootEnds(c) \/ WaitEnds(c)
  <2>1. UNCHANGED <<hello, detId>> /\ held' = [held EXCEPT ![c] = None]
    BY <1>5 DEF BootEnds, WaitEnds, StopsWaiting
  <2>2. held[c] \in CallKinds \cup {None}
    BY DEF RequestTypes
  <2>3. kind' \in [Ids -> CallKinds \cup {"initialize", None}]
    <3>1. CASE Submit(c, held[c])
      BY <2>2, <3>1, SubmitTypes
    <3>2. CASE UNCHANGED <<queueVars, requestVars>>
      BY <3>2 DEF requestVars, RequestTypes
    <3> QED
      BY <1>5, <3>1, <3>2 DEF BootEnds, WaitEnds
  <2> QED
    BY <2>1, <2>3 DEF RequestTypes
<1>6. ASSUME NEW i \in Ids, Cancel(c, i) PROVE RequestTypes'
  BY <1>6 DEF Cancel, RequestTypes, clientVars, leaseVars
<1> QED
  BY <1>1, <1>2, <1>3, <1>4, <1>5, <1>6 DEF Consumer

LEMMA EndsTypes ==
  ASSUME RequestTypes, Ends, UNCHANGED <<clientVars, detId>>
  PROVE  RequestTypes'
BY DEF Ends, RequestTypes, clientVars

LEMMA StopIfUnusedTypes ==
  ASSUME RequestTypes, NEW c, StopIfUnused(c), UNCHANGED clientVars
  PROVE  RequestTypes'
BY EndsTypes DEF StopIfUnused, RequestTypes, clientVars, requestVars

LEMMA DetachTypes ==
  ASSUME TypedSession, NEW c \in Clients, Detach(c)
  PROVE  RequestTypes'
<1>1. RequestTypes
  BY DEF TypedSession
<1>2. CASE Close(c)
  <2>1. cur \in OwnPending(c) => cur \in Ids
    BY WorkFacts DEF TypedSession, SessionInv, OwnPending
  <2>2. detId' \in [Clients -> Ids \cup {0}]
    BY <1>1, <1>2, <2>1 DEF Close, RequestTypes
  <2>3. UNCHANGED <<hello, kind>> /\ held' = [held EXCEPT ![c] = None]
    BY <1>2 DEF Close, StopsWaiting
  <2> QED
    BY <1>1, <2>2, <2>3 DEF RequestTypes
<1>3. CASE DetachGoesOn(c)
  <2>1. CASE EnqueueOwn(Bridge, "release") /\ detId' = [detId EXCEPT ![c] = last + 1]
    <3>1. last + 1 \in Ids
      BY <2>1, PutLanes, Names DEF EnqueueOwn, TypedSession, SessionInv, WorkInv
    <3>2. kind' \in [Ids -> CallKinds \cup {"initialize", None}]
      BY <1>1, <2>1, RegisterTypes DEF EnqueueOwn, CallKinds
    <3>3. UNCHANGED <<hello, held>>
      BY <1>3 DEF DetachGoesOn, clientVars
    <3> QED
      BY <1>1, <2>1, <3>1, <3>2, <3>3 DEF RequestTypes
  <2> QED
    BY <1>1, <1>3, <2>1, EndsTypes, StopIfUnusedTypes DEF DetachGoesOn
<1>4. CASE CleanupEnds(c) \/ DetachTimesOut(c)
  BY <1>1, <1>4, EndsTypes, StopIfUnusedTypes DEF CleanupEnds, DetachTimesOut
<1> QED
  BY <1>2, <1>3, <1>4 DEF Detach

LEMMA TypesStep == TypedSession /\ [Next]_vars => RequestTypes'
<1> SUFFICES ASSUME TypedSession, [Next]_vars PROVE RequestTypes'
  OBVIOUS
<1> RequestTypes
  BY DEF TypedSession
<1>1. ASSUME NEW c \in Clients, Consumer(c) \/ Detach(c) PROVE RequestTypes'
  BY <1>1, ConsumerTypes, DetachTypes
<1>2. CASE Dispatch
  BY <1>2 DEF Dispatch, requestVars, clientVars, leaseVars, RequestTypes
<1>3. ASSUME NEW outcome \in {"ok", "error"}, Answer(outcome) PROVE RequestTypes'
  BY <1>3 DEF Answer, clientVars, RequestTypes
<1>4. CASE Acked
  BY <1>4 DEF Acked, HelloResult, leaseVars, RequestTypes
<1>5. CASE SendFails
  BY <1>5, EndsTypes DEF SendFails
<1>6. CASE UNCHANGED vars
  BY <1>6 DEF vars, clientVars, requestVars, leaseVars, RequestTypes
<1> QED
  BY <1>1, <1>2, <1>3, <1>4, <1>5, <1>6 DEF Next

-----------------------------------------------------------------------------
(* The end of a client's input.                                             *)

ClosingIsDone == \A c \in Clients : life[c] = "closing" => OwnPending(c) = {}

\* A legacy client may send nothing before its initialize is answered, and only
\* clients of the modern era have calls that wait for the physical session.
SilentIsDone == \A c \in Clients \ Modern : hello[c] = "no" => OwnPending(c) = {}

WaitersAreModern == \A c \in Clients : cons[c] \in {"boot", "wait"} => c \in Modern

FirstInv == ClosingIsDone /\ SilentIsDone /\ WaitersAreModern

\* Where the clients may go while FirstInv holds.
ClientsMove ==
  /\ \A c \in Clients : life'[c] = "closing" => life[c] = "closing" \/ OwnPending(c) = {}
  /\ \A c \in Clients : hello'[c] = "no" => hello[c] = "no"
  /\ \A c \in Clients : cons'[c] \in {"boot", "wait"} =>
                          cons[c] \in {"boot", "wait"} \/ c \in Modern

LEMMA OwnShrinks ==
  ASSUME NEW c, Shrinks
  PROVE  OwnPending(c)' \subseteq OwnPending(c)
BY DEF Shrinks, OwnPending

LEMMA OwnJoined ==
  ASSUME TypedSession, NEW o \in Owners, NEW a, NEW k, Joins(o, a, k), NEW c, c # a
  PROVE  OwnPending(c)' = OwnPending(c)
<1>1. /\ pend' = pend \cup {last + 1} /\ asker'[last + 1] = a
      /\ \A i \in Ids \ {last + 1} : asker'[i] = asker[i]
      /\ last + 1 \notin pend /\ pend \subseteq Ids
  BY JoinFacts DEF Live, TypedSession, SessionInv, WorkInv
<1> QED
  BY <1>1 DEF OwnPending

LEMMA FirstShrinks ==
  ASSUME FirstInv, Shrinks, ClientsMove
  PROVE  FirstInv'
<1>1. \A c \in Clients : OwnPending(c)' \subseteq OwnPending(c)
  BY OwnShrinks
<1>2. ClosingIsDone'
  BY <1>1 DEF FirstInv, ClosingIsDone, ClientsMove
<1>3. SilentIsDone'
  BY <1>1 DEF FirstInv, SilentIsDone, ClientsMove
<1>4. WaitersAreModern'
  BY DEF FirstInv, WaitersAreModern, ClientsMove
<1> QED
  BY <1>2, <1>3, <1>4 DEF FirstInv

LEMMA FirstJoins ==
  ASSUME TypedSession, FirstInv, ClientsMove,
         NEW o \in Owners, NEW a, NEW k, Joins(o, a, k),
         a \in Clients => life'[a] # "closing" /\ (a \in Modern \/ hello'[a] # "no")
  PROVE  FirstInv'
<1>1. \A c \in Clients : c # a => OwnPending(c)' = OwnPending(c)
  BY OwnJoined
<1>2. ClosingIsDone'
  BY <1>1 DEF FirstInv, ClosingIsDone, ClientsMove
<1>3. SilentIsDone'
  BY <1>1 DEF FirstInv, SilentIsDone, ClientsMove
<1>4. WaitersAreModern'
  BY DEF FirstInv, WaitersAreModern, ClientsMove
<1> QED
  BY <1>2, <1>3, <1>4 DEF FirstInv

LEMMA FirstEnds ==
  ASSUME FirstInv, Ends, UNCHANGED clientVars
  PROVE  FirstInv'
<1>1. \A c : OwnPending(c)' = {}
  BY DEF Ends, OwnPending
<1> QED
  BY <1>1 DEF FirstInv, ClosingIsDone, SilentIsDone, WaitersAreModern, clientVars

LEMMA QuietWork ==
  ASSUME UNCHANGED <<queueVars, requestVars>>, UNCHANGED workVars
  PROVE  Shrinks
BY QuietShrinks DEF requestVars, workVars

LEMMA ConsumerFirst ==
  ASSUME TypedSession, FirstInv, NEW c \in Clients, Consumer(c)
  PROVE  FirstInv'
<1> USE DEF TypedSession, SessionInv
<1>1. ASSUME ~\E i \in Ids : Cancel(c, i) PROVE UNCHANGED workVars
  BY <1>1 DEF Consumer, Attach, Hello, HelloWakes, Call, BootEnds, BootTimesOut, WaitEnds, Eof
<1>2. CASE Attach(c) \/ Eof(c) \/ HelloWakes(c) \/ BootTimesOut(c)
  <2>1. UNCHANGED <<queueVars, requestVars>> /\ UNCHANGED workVars
    BY <1>2 DEF Attach, Eof, HelloWakes, BootTimesOut
  <2>2. ClientsMove
    BY <1>2 DEF Attach, Eof, HelloWakes, HelloResult, BootTimesOut, StopsWaiting, ClientsMove,
       LeaseInv, StatesOK, RequestTypes
  <2> QED
    BY <2>1, <2>2, QuietWork, FirstShrinks
<1>3. CASE Hello(c)
  <2>1. /\ UNCHANGED workVars /\ c \notin Modern /\ hello[c] = "no" /\ OwnPending(c) = {}
        /\ life[c] = "on"
    BY <1>3 DEF Hello, Reads, FirstInv, SilentIsDone
  <2>2. life' = life \/ life' = [life EXCEPT ![c] = "closing"]
    BY <1>3 DEF Hello
  <2>3. hello' = [hello EXCEPT ![c] = IF template = None THEN "asked" ELSE HelloResult]
    BY <1>3 DEF Hello
  <2>4. \E v \in {"hello", "idle"} : cons' = [cons EXCEPT ![c] = v]
    BY <1>3 DEF Hello
  <2>5. ClientsMove
    BY <2>1, <2>2, <2>3, <2>4 DEF ClientsMove, HelloResult, LeaseInv, StatesOK, RequestTypes
  <2>6. CASE EnqueueOwn(c, "initialize") /\ UNCHANGED life
    <3>1. hello'[c] # "no" /\ life'[c] # "closing"
      BY <2>1, <2>3, <2>6 DEF HelloResult, RequestTypes
    <3> QED
      BY <2>1, <2>5, <2>6, <3>1, OwnJoins, FirstJoins
  <2>7. CASE UNCHANGED <<queueVars, requestVars>>
    BY <2>1, <2>5, <2>7, QuietWork, FirstShrinks
  <2> QED
    BY <1>3, <2>6, <2>7 DEF Hello
<1>4. ASSUME NEW k \in CallKinds, Call(c, k) PROVE FirstInv'
  <2>1. /\ UNCHANGED workVars /\ UNCHANGED <<life, hello>> /\ life[c] = "on"
        /\ c \in Modern \/ hello[c] # "no"
    BY <1>4 DEF Call, Reads
  <2>2. cons' = cons \/ (c \in Modern /\ \E v : cons' = [cons EXCEPT ![c] = v])
    BY <1>4 DEF Call, Bootstrap
  <2>3. ClientsMove
    BY <2>1, <2>2 DEF ClientsMove, LeaseInv, StatesOK
  <2>4. CASE Submit(c, k)
    BY <2>1, <2>3, <2>4, SubmitJoins, QuietWork, FirstShrinks, FirstJoins
  <2>5. CASE UNCHANGED <<queueVars, requestVars>>
    BY <2>1, <2>3, <2>5, QuietWork, FirstShrinks
  <2>6. CASE EnqueueOwn(Bridge, "initialize")
    BY <2>1, <2>3, <2>6, OwnJoins, Names, FirstJoins
  <2> QED
    BY <1>4, <2>4, <2>5, <2>6 DEF Call, Bootstrap
<1>5. CASE BootEnds(c) \/ WaitEnds(c)
  <2>1. /\ UNCHANGED workVars /\ UNCHANGED <<life, hello>> /\ life[c] = "on"
        /\ cons[c] \in {"boot", "wait"}
    BY <1>5 DEF BootEnds, WaitEnds, LeaseInv
  <2>2. cons' = [cons EXCEPT ![c] = "idle"] /\ c \in Modern
    BY <1>5, <2>1 DEF BootEnds, WaitEnds, StopsWaiting, FirstInv, WaitersAreModern
  <2>3. ClientsMove
    BY <2>1, <2>2 DEF ClientsMove, LeaseInv, StatesOK
  <2>4. CASE Submit(c, held[c])
    BY <2>1, <2>2, <2>3, <2>4, SubmitJoins, QuietWork, FirstShrinks, FirstJoins
  <2>5. CASE UNCHANGED <<queueVars, requestVars>>
    BY <2>1, <2>3, <2>5, QuietWork, FirstShrinks
  <2> QED
    BY <1>5, <2>4, <2>5 DEF BootEnds, WaitEnds
<1>6. ASSUME NEW i \in Ids, Cancel(c, i) PROVE FirstInv'
  <2>1. {i} \in SUBSET pend /\ Discard({i}) /\ pend' = pend \ {i} /\ UNCHANGED <<kind, asker, cur>>
    BY <1>6 DEF Cancel, OwnPending, workVars
  <2>2. Shrinks
    BY <2>1, DiscardShrinks
  <2>3. ClientsMove
    BY <1>6 DEF Cancel, ClientsMove, clientVars
  <2> QED
    BY <2>2, <2>3, FirstShrinks
<1> QED
  BY <1>2, <1>3, <1>4, <1>5, <1>6 DEF Consumer

LEMMA SameClientsMove == UNCHANGED clientVars => ClientsMove
BY DEF clientVars, ClientsMove

LEMMA CloseShrinks ==
  ASSUME WorkInv, NEW c, Close(c)
  PROVE  Shrinks
<1> DEFINE W == {i \in OwnPending(c) : i # cur /\ kind[i] # "initialize"}
<1>1. W \in SUBSET pend
  BY DEF OwnPending
<1>2. Discard(W) /\ pend' = pend \ W /\ UNCHANGED <<kind, asker, cur>>
  BY DEF Close, workVars
<1> HIDE DEF W
<1> QED
  BY <1>1, <1>2, DiscardShrinks

LEMMA DetachFirst ==
  ASSUME TypedSession, FirstInv, NEW c \in Clients, Detach(c)
  PROVE  FirstInv'
<1> USE DEF TypedSession, SessionInv
<1>1. CASE Close(c)
  <2>1. /\ life' = [life EXCEPT ![c] = "left"] /\ hello' = hello
        /\ cons' = [cons EXCEPT ![c] = "idle"]
    BY <1>1 DEF Close, StopsWaiting
  <2>2. ClientsMove
    BY <2>1 DEF ClientsMove, LeaseInv, StatesOK
  <2> QED
    BY <1>1, <2>2, CloseShrinks, FirstShrinks
<1>2. ASSUME StopIfUnused(c), UNCHANGED clientVars PROVE FirstInv'
  BY <1>2, FirstEnds, QuietWork, SameClientsMove, FirstShrinks DEF StopIfUnused
<1>3. CASE DetachGoesOn(c)
  <2>1. UNCHANGED clientVars
    BY <1>3 DEF DetachGoesOn
  <2>2. CASE EnqueueOwn(Bridge, "release") /\ UNCHANGED workVars
    BY <2>1, <2>2, OwnJoins, Names, SameClientsMove, FirstJoins
  <2> QED
    BY <1>2, <1>3, <2>1, <2>2, FirstEnds DEF DetachGoesOn
<1>4. CASE CleanupEnds(c) \/ DetachTimesOut(c)
  BY <1>2, <1>4, FirstEnds DEF CleanupEnds, DetachTimesOut
<1> QED
  BY <1>1, <1>3, <1>4 DEF Detach

LEMMA AnswerShrinks ==
  ASSUME NEW outcome, Answer(outcome)
  PROVE  Shrinks
<1>1. UNCHANGED <<queueVars, kind, asker>> /\ pend' \subseteq pend /\ cur' \in {0, cur}
  BY DEF Answer, SendOrDone
<1> QED
  BY <1>1, QuietShrinks

LEMMA FirstStep == TypedSession /\ FirstInv /\ [Next]_vars => FirstInv'
<1> SUFFICES ASSUME TypedSession, FirstInv, [Next]_vars PROVE FirstInv'
  OBVIOUS
<1>1. ASSUME NEW c \in Clients, Consumer(c) \/ Detach(c) PROVE FirstInv'
  BY <1>1, ConsumerFirst, DetachFirst
<1>2. CASE Dispatch
  <2>1. Shrinks
    BY <1>2, DispatchShrinks DEF TypedSession, SessionInv
  <2> QED
    BY <1>2, <2>1, SameClientsMove, FirstShrinks DEF Dispatch
<1>3. ASSUME NEW outcome \in {"ok", "error"}, Answer(outcome) PROVE FirstInv'
  <2>1. Shrinks
    BY <1>3, AnswerShrinks
  <2> QED
    BY <1>3, <2>1, SameClientsMove, FirstShrinks DEF Answer
<1>4. CASE Acked
  <2>1. Shrinks
    BY <1>4, QuietShrinks DEF Acked
  <2>2. /\ cons' = cons
        /\ \/ life' = life
           \/ \E c \in Clients : OwnPending(c) = {} /\ life' = [life EXCEPT ![c] = "closing"]
    BY <1>4 DEF Acked, clients
  <2>3. hello' = hello \/ \E c \in Clients : hello' = [hello EXCEPT ![c] = HelloResult]
    BY <1>4 DEF Acked, clients
  <2>4. ClientsMove
    BY <2>2, <2>3 DEF ClientsMove, HelloResult, TypedSession, SessionInv, LeaseInv, StatesOK,
       RequestTypes
  <2> QED
    BY <2>1, <2>4, FirstShrinks
<1>5. CASE SendFails
  BY <1>5, FirstEnds DEF SendFails
<1>6. CASE UNCHANGED vars
  <2>1. UNCHANGED <<queueVars, requestVars>> /\ UNCHANGED workVars /\ UNCHANGED clientVars
    BY <1>6 DEF vars
  <2> QED
    BY <2>1, QuietWork, SameClientsMove, FirstShrinks
<1> QED
  BY <1>1, <1>2, <1>3, <1>4, <1>5, <1>6 DEF Next

LEMMA TypedInitial == Init => TypedSession
<1> SUFFICES ASSUME Init PROVE RequestTypes
  BY SessionInitial DEF TypedSession
<1> QED
  BY DEF Init, RequestTypes

LEMMA TypedStep == TypedSession /\ [Next]_vars => TypedSession'
BY SessionStep, TypesStep DEF TypedSession

-----------------------------------------------------------------------------
(* Types.                                                                   *)

\* The rest of the state: the physical session, and whom the tasks wait for.
RestTypes ==
  /\ up \in BOOLEAN /\ initPending \in BOOLEAN /\ template \in {None, "ok", "error"}
  /\ bootId \in [Clients -> Ids \cup {0}]
  /\ asks \in 0..MaxAsks

\* The request a task of the Bridge enters has an identity.
LEMMA OwnIdentity ==
  ASSUME LanesTypeOK, NEW a, NEW k, EnqueueOwn(a, k)
  PROVE  last + 1 \in Ids
<1>1. Put(Bridge, 1) /\ Bridge \in Owners
  BY Names DEF EnqueueOwn
<1> QED
  BY <1>1, PutLanes

LEMMA ConsumerRest ==
  ASSUME LanesTypeOK, RestTypes, NEW c \in Clients, Consumer(c)
  PROVE  RestTypes'
<1>1. CASE Attach(c) \/ HelloWakes(c) \/ Eof(c)
  BY <1>1 DEF Attach, HelloWakes, Eof, RestTypes, initVars
<1>2. CASE Hello(c)
  BY <1>2 DEF Hello, RestTypes
<1>3. ASSUME NEW k \in CallKinds, Call(c, k) PROVE RestTypes'
  <2>1. asks' \in 0..MaxAsks /\ up' = up /\ template' = template
    BY <1>3, SessionAssumption DEF Call, RestTypes, SessionAssumption
  <2>2. CASE Bootstrap(c, k)
    <3>1. initPending' \in {initPending, TRUE}
      BY <2>2 DEF Bootstrap
    <3>2. bootId' = bootId \/ (last + 1 \in Ids /\ bootId' = [bootId EXCEPT ![c] = last + 1])
      BY <2>2, OwnIdentity DEF Bootstrap
    <3> QED
      BY <2>1, <3>1, <3>2 DEF RestTypes
  <2>3. CASE UNCHANGED <<initPending, bootId>>
    BY <2>1, <2>3 DEF RestTypes
  <2> QED
    BY <1>3, <2>2, <2>3 DEF Call
<1>4. CASE BootEnds(c) \/ BootTimesOut(c) \/ WaitEnds(c)
  BY <1>4 DEF BootEnds, BootTimesOut, WaitEnds, StopsWaiting, RestTypes, initVars
<1>5. ASSUME NEW i \in Ids, Cancel(c, i) PROVE RestTypes'
  BY <1>5 DEF Cancel, RestTypes, initVars, clientVars
<1> QED
  BY <1>1, <1>2, <1>3, <1>4, <1>5 DEF Consumer

LEMMA DetachRest ==
  ASSUME RestTypes, NEW c \in Clients, Detach(c)
  PROVE  RestTypes'
<1>1. up' \in {up, FALSE}
  BY DEF Detach, Close, DetachGoesOn, CleanupEnds, DetachTimesOut, StopIfUnused, Ends
<1>2. UNCHANGED <<initPending, template, asks>>
  BY DEF Detach, Close, DetachGoesOn, CleanupEnds, DetachTimesOut, initVars
<1>3. bootId' = bootId \/ bootId' = [bootId EXCEPT ![c] = 0]
  BY DEF Detach, Close, DetachGoesOn, CleanupEnds, DetachTimesOut, clientVars, StopsWaiting
<1> QED
  BY <1>1, <1>2, <1>3 DEF RestTypes

LEMMA RestStep == LanesTypeOK /\ RestTypes /\ [Next]_vars => RestTypes'
<1> SUFFICES ASSUME LanesTypeOK, RestTypes, [Next]_vars PROVE RestTypes'
  OBVIOUS
<1>1. ASSUME NEW c \in Clients, Consumer(c) \/ Detach(c) PROVE RestTypes'
  BY <1>1, ConsumerRest, DetachRest
<1>2. CASE Dispatch \/ Acked
  BY <1>2 DEF Dispatch, Acked, RestTypes, initVars, clientVars
<1>3. ASSUME NEW outcome \in {"ok", "error"}, Answer(outcome) PROVE RestTypes'
  BY <1>3 DEF Answer, RestTypes, clientVars
<1>4. CASE SendFails
  BY <1>4 DEF SendFails, Ends, RestTypes, initVars, clientVars
<1>5. CASE UNCHANGED vars
  BY <1>5 DEF vars, RestTypes, initVars, clientVars
<1> QED
  BY <1>1, <1>2, <1>3, <1>4, <1>5 DEF Next

\* Every variable of the sessions keeps its type, the queue's included: the tasks
\* are in one of their states, identities do not run out and no request is active
\* or answered that never was.
THEOREM SessionTypes == Spec => []TypeOK
<1>1. Init => TypedSession /\ RestTypes
  <2> SUFFICES ASSUME Init PROVE RestTypes
    BY TypedInitial
  <2>1. asks \in 0..MaxAsks
    BY SessionAssumption DEF Init, SessionAssumption
  <2>2. up \in BOOLEAN /\ initPending \in BOOLEAN
    BY DEF Init
  <2>3. template \in {None, "ok", "error"} /\ bootId \in [Clients -> Ids \cup {0}]
    BY DEF Init
  <2> QED
    BY <2>1, <2>2, <2>3 DEF RestTypes
<1>2. TypedSession /\ RestTypes /\ [Next]_vars => (TypedSession /\ RestTypes)'
  BY TypedStep, RestStep DEF TypedSession, SessionInv, WorkInv
<1>3. TypedSession /\ RestTypes /\ QueueTypeOK => TypeOK
  <2> SUFFICES ASSUME TypedSession, RestTypes, QueueTypeOK PROVE TypeOK
    OBVIOUS
  <2>1. cur \in Ids \cup {0} /\ reader \in {0, cur}
    BY QueueAssumption
       DEF TypedSession, SessionInv, WorkInv, LanesTypeOK, Ids, QueueAssumption
  <2> QED
    BY <2>1 DEF TypeOK, TypedSession, SessionInv, WorkInv, LeaseInv, StatesOK, AnswerInv,
       RequestTypes, RestTypes
<1>4. Spec => [](QueueTypeOK /\ BytesAccounted)
  BY ImplementsQueue, BytesStayAccounted, PTL
<1> QED
  BY <1>1, <1>2, <1>3, <1>4, PTL DEF Spec

-----------------------------------------------------------------------------
(* Answers before the end.                                                  *)

\* At the end of a client's input the node closes its stream only when nothing of
\* the client is pending: a call that was queued is answered first, also one that
\* was held back until the physical session was there.
THEOREM ClosesAfterAnswers == Spec => []AnswersFirst
<1>1. Init => TypedSession /\ FirstInv
  <2> SUFFICES ASSUME Init PROVE FirstInv
    BY TypedInitial
  <2> QED
    BY DEF Init, FirstInv, ClosingIsDone, SilentIsDone, WaitersAreModern, OwnPending
<1>2. TypedSession /\ FirstInv /\ [Next]_vars => (TypedSession /\ FirstInv)'
  BY TypedStep, FirstStep
<1>3. TypedSession /\ FirstInv => AnswersFirst
  BY DEF FirstInv, ClosingIsDone, AnswersFirst
<1> QED
  BY <1>1, <1>2, <1>3, PTL DEF Spec

-----------------------------------------------------------------------------
(* The lease is honoured.                                                   *)

\* A call about the lease that is queued or active is its owner's.
LeasedIsOwners ==
  \A i \in Live : kind[i] = "leased" => asker[i] \in Clients /\ lease = asker[i]

\* So is a release, or it is the cleanup of an owner that left.
ReleaseIsOwners ==
  \A i \in pend : kind[i] = "release" =>
    lease # None /\ IF asker[i] = Bridge THEN det[lease] = "clean" ELSE asker[i] = lease

OneRelease == \A i, j \in pend : kind[i] = "release" /\ kind[j] = "release" => i = j

\* It comes after the owner's calls in the owner's lane.
ReleaseIsLast ==
  \A i, j \in pend :
    kind[i] = "release" /\ kind[j] = "leased" => j < i /\ asker[i] = asker[j]

ReleaseIsAlone ==
  cur \in pend /\ kind[cur] = "release" => \A j \in pend : kind[j] # "leased"

LanesAreAskers ==
  \A i \in Queued : kind[i] \in {"leased", "release"} => owner[i] = asker[i]

\* Of a client that left only the call its detach waits for is pending, and
\* perhaps the initialize the others need.
GoneAskNothing ==
  \A c \in Clients : life[c] = "left" =>
    \A i \in OwnPending(c) : kind[i] = "initialize" \/ (det[c] = "cancel" /\ detId[c] = i)

GoneDetach == \A c \in Clients : det[c] = "off" <=> life[c] # "left"

\* A call about the lease that its task still routes is not behind a release.
HoldsACall(c) == cons[c] \in {"boot", "wait"} /\ held[c] # "plain"

HeldIsFirst ==
  \A c \in Clients : HoldsACall(c) => \A i \in OwnPending(c) : kind[i] # "release"

CallInv ==
  /\ LeasedIsOwners
  /\ ReleaseIsOwners
  /\ OneRelease
  /\ ReleaseIsLast
  /\ ReleaseIsAlone
  /\ LanesAreAskers
  /\ GoneAskNothing
  /\ GoneDetach
  /\ HeldIsFirst

\* What a step may do to the clients' tasks while CallInv holds.
HoldsOn ==
  \A c \in Clients : HoldsACall(c)' =>
    HoldsACall(c) \/ \A i \in OwnPending(c) : kind[i] # "release"

NobodyLeaves == \A c \in Clients : life'[c] = "left" <=> life[c] = "left"

LEMMA CallShrinks ==
  ASSUME TypedSession, CallInv, Shrinks, HoldsOn, NobodyLeaves, cur' \in {0, cur},
         UNCHANGED leaseVars
  PROVE  CallInv'
<1>1. /\ pend' \subseteq pend /\ Live' \subseteq Live
      /\ Queued' \subseteq Queued /\ \A i \in Queued' : owner'[i] = owner[i]
      /\ kind' = kind /\ asker' = asker /\ lease' = lease /\ det' = det /\ detId' = detId
  BY DEF Shrinks, leaseVars
<1>2. \A c : OwnPending(c)' \subseteq OwnPending(c)
  BY OwnShrinks
<1>3. LeasedIsOwners'
  BY <1>1 DEF CallInv, LeasedIsOwners
<1>4. ReleaseIsOwners'
  BY <1>1 DEF CallInv, ReleaseIsOwners
<1>5. OneRelease' /\ ReleaseIsLast'
  BY <1>1 DEF CallInv, OneRelease, ReleaseIsLast
<1>6. ReleaseIsAlone'
  <2>1. 0 \notin pend
    BY WorkFacts DEF TypedSession, SessionInv
  <2> QED
    BY <1>1, <2>1 DEF CallInv, ReleaseIsAlone
<1>7. LanesAreAskers'
  BY <1>1 DEF CallInv, LanesAreAskers
<1>8. GoneAskNothing' /\ GoneDetach'
  BY <1>1, <1>2 DEF CallInv, GoneAskNothing, GoneDetach, NobodyLeaves
<1>9. HeldIsFirst'
  BY <1>1, <1>2 DEF CallInv, HeldIsFirst, HoldsOn
<1> QED
  BY <1>3, <1>4, <1>5, <1>6, <1>7, <1>8, <1>9 DEF CallInv

LEMMA CallEnds ==
  ASSUME TypedSession, CallInv, Ends, UNCHANGED clientVars, UNCHANGED <<det, detId>>
  PROVE  CallInv'
<1>1. pend' = {} /\ cur' = 0 /\ Live' = {}
  BY DEF Ends, Live
<1>2. Queued' = {}
  BY ClearLanes DEF Ends, TypedSession, SessionInv, WorkInv
<1>3. \A c : OwnPending(c)' = {}
  BY <1>1 DEF OwnPending
<1>4. LeasedIsOwners' /\ ReleaseIsOwners' /\ OneRelease' /\ ReleaseIsLast' /\ ReleaseIsAlone'
  BY <1>1 DEF LeasedIsOwners, ReleaseIsOwners, OneRelease, ReleaseIsLast, ReleaseIsAlone
<1>5. LanesAreAskers' /\ GoneAskNothing' /\ HeldIsFirst'
  BY <1>2, <1>3 DEF LanesAreAskers, GoneAskNothing, HeldIsFirst
<1>6. GoneDetach'
  BY DEF CallInv, GoneDetach, clientVars
<1> QED
  BY <1>4, <1>5, <1>6 DEF CallInv

\* The worker takes the oldest of a lane, so no call of the owner is left behind a
\* release that runs.
LEMMA CallDispatch ==
  ASSUME TypedSession, CallInv, Dispatch
  PROVE  CallInv'
<1> USE DEF TypedSession, SessionInv
<1>1. PICK i \in Ids : Take(i) /\ cur' = i
  BY DEF Dispatch
<1>2. Shrinks /\ pend' = pend /\ UNCHANGED clientVars /\ UNCHANGED leaseVars
  BY DispatchShrinks DEF Dispatch, requestVars
<1>3. /\ Live' \subseteq Live
      /\ Queued' \subseteq Queued /\ \A j \in Queued' : owner'[j] = owner[j]
      /\ kind' = kind /\ asker' = asker /\ lease' = lease /\ det' = det /\ detId' = detId
      /\ life' = life /\ cons' = cons /\ held' = held
  BY <1>2 DEF Shrinks, clientVars, leaseVars
<1>4. \A c : OwnPending(c)' = OwnPending(c)
  BY <1>2, <1>3 DEF OwnPending
<1>5. LeasedIsOwners' /\ ReleaseIsOwners' /\ OneRelease' /\ ReleaseIsLast'
  BY <1>2, <1>3 DEF CallInv, LeasedIsOwners, ReleaseIsOwners, OneRelease, ReleaseIsLast
<1>6. LanesAreAskers'
  BY <1>3 DEF CallInv, LanesAreAskers
<1>7. GoneAskNothing' /\ GoneDetach' /\ HeldIsFirst'
  BY <1>3, <1>4 DEF CallInv, GoneAskNothing, GoneDetach, HeldIsFirst, HoldsACall
<1>8. ReleaseIsAlone'
  <2> SUFFICES ASSUME kind[i] = "release", NEW j \in pend, kind[j] = "leased"
               PROVE  FALSE
    BY <1>1, <1>2, <1>3 DEF ReleaseIsAlone
  <2>1. i \in Queued /\ \A l \in Lane(owner[i]) : i <= l
    BY <1>1 DEF Take, Queued
  <2>2. i \in pend /\ cur = 0
    BY <2>1 DEF WorkInv, TablesAgree, Dispatch
  <2>3. j \in Queued
    BY <2>2, WorkFacts DEF WorkInv, TablesAgree
  <2>4. j < i /\ asker[i] = asker[j]
    BY <2>2 DEF CallInv, ReleaseIsLast
  <2>5. owner[j] = owner[i]
    BY <2>1, <2>3, <2>4 DEF CallInv, LanesAreAskers
  <2>6. i <= j
    BY <2>1, <2>3, <2>5 DEF Lane, Queued
  <2>7. i \in Nat /\ j \in Nat
    BY <2>2, WorkFacts
  <2> QED
    BY <2>4, <2>6, <2>7
<1> QED
  BY <1>5, <1>6, <1>7, <1>8 DEF CallInv

LEMMA CallAnswer ==
  ASSUME TypedSession, CallInv, NEW outcome \in {"ok", "error"}, Answer(outcome)
  PROVE  CallInv'
<1>1. Shrinks /\ UNCHANGED clientVars /\ cur' \in {0, cur} /\ UNCHANGED <<det, detId>>
  BY AnswerShrinks DEF Answer, SendOrDone
<1>2. HoldsOn /\ NobodyLeaves
  BY <1>1 DEF HoldsOn, HoldsACall, NobodyLeaves, clientVars
<1>3. CASE lease' = lease
  BY <1>1, <1>2, <1>3, CallShrinks DEF leaseVars
<1>4. CASE lease' # lease
  <2>1. cur \in pend /\ pend' = pend \ {cur} /\ kind[cur] = "release" /\ kind' = kind
    BY <1>4 DEF Answer
  <2>2. \A i \in pend' : kind[i] # "release" /\ kind[i] # "leased"
    BY <2>1 DEF CallInv, OneRelease, ReleaseIsAlone
  <2>3. \A i \in Live' : kind[i] # "leased"
    BY <1>1, <2>1, <2>2 DEF Live
  <2>4. /\ LeasedIsOwners' /\ ReleaseIsOwners' /\ OneRelease' /\ ReleaseIsLast'
        /\ ReleaseIsAlone'
    BY <2>1, <2>2, <2>3 DEF LeasedIsOwners, ReleaseIsOwners, OneRelease, ReleaseIsLast,
       ReleaseIsAlone
  <2>5. LanesAreAskers'
    BY <1>1 DEF CallInv, LanesAreAskers, Shrinks
  <2>6. GoneAskNothing' /\ GoneDetach' /\ HeldIsFirst'
    <3>1. \A c : OwnPending(c)' \subseteq OwnPending(c)
      BY <1>1, OwnShrinks
    <3> QED
      BY <1>1, <2>1, <3>1 DEF CallInv, GoneAskNothing, GoneDetach, HeldIsFirst, HoldsACall,
         clientVars
  <2> QED
    BY <2>4, <2>5, <2>6 DEF CallInv
<1> QED
  BY <1>3, <1>4

LEMMA LiveAreIds ==
  ASSUME TypedSession
  PROVE  pend \subseteq Ids /\ Queued \subseteq Ids /\ Live \subseteq Ids
<1>1. cur \in Nat /\ cur <= last /\ last \in 0..MaxId /\ MaxId \in Nat
  BY QueueAssumption DEF TypedSession, SessionInv, WorkInv, LanesTypeOK, QueueAssumption
<1>2. cur # 0 => cur \in Ids
  BY <1>1 DEF Ids
<1> QED
  BY <1>2 DEF Live, Queued, TypedSession, SessionInv, WorkInv

\* An initialize joins.
LEMMA CallInitialize ==
  ASSUME TypedSession, CallInv, NEW o \in Owners, NEW a, Joins(o, a, "initialize"),
         HoldsOn, NobodyLeaves, UNCHANGED leaseVars
  PROVE  CallInv'
<1> DEFINE n == last + 1
<1>1. /\ n \in Ids /\ n \notin Live /\ n \notin Queued /\ n # cur /\ cur' = cur
      /\ pend' = pend \cup {n} /\ Live' = Live \cup {n} /\ Queued' = Queued \cup {n}
      /\ kind'[n] = "initialize" /\ asker'[n] = a
      /\ \A i \in Ids \ {n} : kind'[i] = kind[i] /\ asker'[i] = asker[i] /\ owner'[i] = owner[i]
  BY JoinFacts
<1>2. n \notin pend /\ pend \subseteq Ids /\ Queued \subseteq Ids /\ Live \subseteq Ids
  BY <1>1, LiveAreIds DEF Live
<1>3. lease' = lease /\ det' = det /\ detId' = detId
  BY DEF leaseVars
<1> HIDE DEF n
<1>4. LeasedIsOwners'
  BY <1>1, <1>2, <1>3 DEF CallInv, LeasedIsOwners
<1>5. ReleaseIsOwners'
  BY <1>1, <1>2, <1>3 DEF CallInv, ReleaseIsOwners
<1>6. OneRelease'
  BY <1>1, <1>2 DEF CallInv, OneRelease
<1>7. ReleaseIsLast'
  BY <1>1, <1>2 DEF CallInv, ReleaseIsLast
<1>8. ReleaseIsAlone'
  BY <1>1, <1>2 DEF CallInv, ReleaseIsAlone
<1>9. LanesAreAskers'
  BY <1>1, <1>2 DEF CallInv, LanesAreAskers
<1>10. \A c : \A i \in OwnPending(c)' : i = n \/ (i \in OwnPending(c) /\ kind'[i] = kind[i])
  BY <1>1, <1>2 DEF OwnPending
<1>11. GoneAskNothing' /\ GoneDetach'
  BY <1>1, <1>3, <1>10 DEF CallInv, GoneAskNothing, GoneDetach, NobodyLeaves
<1>12. HeldIsFirst'
  BY <1>1, <1>10 DEF CallInv, HeldIsFirst, HoldsOn
<1> QED
  BY <1>4, <1>5, <1>6, <1>7, <1>8, <1>9, <1>11, <1>12 DEF CallInv

\* A client's call joins.  What it does not wait for is not about the lease.
LEMMA CallJoins ==
  ASSUME TypedSession, CallInv, NEW c \in Clients, NEW k, Joins(c, c, k),
         life[c] = "on", ~LeaseBusy(c, k), k # "initialize",
         lease' = IF k = "leased" /\ lease = None THEN c ELSE lease,
         k # "plain" => \A i \in OwnPending(c) : kind[i] # "release",
         HoldsOn, ~HoldsACall(c)', NobodyLeaves, UNCHANGED <<det, detId>>
  PROVE  CallInv'
<1> DEFINE n == last + 1
<1>1. /\ n \in Ids /\ n \notin Live /\ n \notin Queued /\ n # cur /\ cur' = cur
      /\ pend' = pend \cup {n} /\ Live' = Live \cup {n} /\ Queued' = Queued \cup {n}
      /\ kind'[n] = k /\ asker'[n] = c /\ owner'[n] = c /\ \A i \in pend : i < n
      /\ \A i \in Ids \ {n} : kind'[i] = kind[i] /\ asker'[i] = asker[i] /\ owner'[i] = owner[i]
  BY JoinFacts, Names
<1>2. n \notin pend /\ pend \subseteq Ids /\ Queued \subseteq Ids /\ Live \subseteq Ids
  BY <1>1, LiveAreIds DEF Live
<1> HIDE DEF n
<1>3. lease \in Clients \cup {None} /\ None \notin Clients /\ Bridge \notin Clients
  BY QueueAssumption DEF TypedSession, SessionInv, LeaseInv, StatesOK, QueueAssumption
<1>4. k = "leased" => lease \in {c, None} /\ lease' = c
  BY DEF LeaseBusy
<1>5. k = "release" => lease = c /\ lease' = c
  BY <1>3 DEF LeaseBusy
<1>6. lease # None => lease' = lease
  OBVIOUS
\* The owner is attached, so there is no cleanup of its lease.
<1>7. k \in {"leased", "release"} => \A i \in pend : kind[i] # "release"
  <2> SUFFICES ASSUME k \in {"leased", "release"}, NEW i \in pend, kind[i] = "release"
               PROVE  FALSE
    OBVIOUS
  <2>1. lease = c /\ (IF asker[i] = Bridge THEN det[c] = "clean" ELSE asker[i] = c)
    BY <1>4, <1>5 DEF CallInv, ReleaseIsOwners
  <2>2. det[c] = "off"
    BY DEF CallInv, GoneDetach
  <2>3. i \in OwnPending(c)
    BY <2>1, <2>2 DEF OwnPending
  <2> QED
    BY <2>3
<1>8. \A i \in Live : kind[i] = "leased" => lease # None
  BY <1>3 DEF CallInv, LeasedIsOwners
<1>9. LeasedIsOwners'
  BY <1>1, <1>2, <1>4, <1>6, <1>8 DEF CallInv, LeasedIsOwners
<1>10. ReleaseIsOwners'
  <2> SUFFICES ASSUME NEW i \in pend', kind'[i] = "release"
               PROVE  lease' # None /\ IF asker'[i] = Bridge THEN det[lease'] = "clean"
                                       ELSE asker'[i] = lease'
    BY DEF ReleaseIsOwners
  <2>1. CASE i = n
    BY <1>1, <1>3, <1>5, <2>1
  <2>2. CASE i # n
    BY <1>1, <1>2, <1>6, <2>2 DEF CallInv, ReleaseIsOwners
  <2> QED
    BY <2>1, <2>2
<1>11. OneRelease'
  BY <1>1, <1>2, <1>7 DEF CallInv, OneRelease
<1>12. ReleaseIsLast'
  <2> SUFFICES ASSUME NEW i \in pend', NEW j \in pend', kind'[i] = "release", kind'[j] = "leased"
               PROVE  j < i /\ asker'[i] = asker'[j]
    BY DEF ReleaseIsLast
  <2>1. CASE i = n
    <3>1. j \in pend /\ j # n /\ kind[j] = "leased"
      BY <1>1, <1>2, <2>1
    <3>2. j < n /\ asker'[j] = lease /\ lease = c
      BY <1>1, <1>2, <1>5, <2>1, <3>1 DEF CallInv, LeasedIsOwners, Live, TypedSession,
         SessionInv, WorkInv
    <3> QED
      BY <1>1, <2>1, <3>2
  <2>2. CASE i # n
    <3>1. i \in pend /\ kind[i] = "release" /\ j # n
      BY <1>1, <1>2, <1>7, <2>2
    <3> QED
      BY <1>1, <1>2, <3>1 DEF CallInv, ReleaseIsLast
  <2> QED
    BY <2>1, <2>2
<1>13. ReleaseIsAlone'
  BY <1>1, <1>2, <1>7 DEF CallInv, ReleaseIsAlone
<1>14. LanesAreAskers'
  BY <1>1, <1>2 DEF CallInv, LanesAreAskers
<1>15. \A d : \A i \in OwnPending(d)' :
         (d = c /\ i = n) \/ (i \in OwnPending(d) /\ kind'[i] = kind[i])
  BY <1>1, <1>2 DEF OwnPending
<1>16. GoneAskNothing' /\ GoneDetach'
  BY <1>15 DEF CallInv, GoneAskNothing, GoneDetach, NobodyLeaves
<1>17. HeldIsFirst'
  BY <1>15 DEF CallInv, HeldIsFirst, HoldsOn
<1> QED
  BY <1>9, <1>10, <1>11, <1>12, <1>13, <1>14, <1>16, <1>17 DEF CallInv

\* Nothing about the lease is pending when its owner's detach has settled.
LEMMA SettledOwner ==
  ASSUME TypedSession, CallInv, NEW c \in Clients, det[c] = "cancel", Settled(detId[c]), lease = c
  PROVE  \A i \in pend : kind[i] \notin {"leased", "release"}
<1> SUFFICES ASSUME NEW i \in pend, kind[i] \in {"leased", "release"} PROVE FALSE
  OBVIOUS
<1>1. asker[i] = c
  BY Names DEF CallInv, LeasedIsOwners, ReleaseIsOwners, Live, WorkInv, TypedSession, SessionInv
<1>2. i \in OwnPending(c) /\ life[c] = "left"
  BY <1>1 DEF OwnPending, CallInv, GoneDetach
<1>3. detId[c] = i
  BY <1>2 DEF CallInv, GoneAskNothing
<1>4. i # 0
  BY WorkFacts DEF TypedSession, SessionInv
<1> QED
  BY <1>3, <1>4 DEF Settled

\* The cleanup of the lease joins.
LEMMA CallCleanup ==
  ASSUME TypedSession, CallInv, NEW c \in Clients, det[c] = "cancel", Settled(detId[c]), lease = c,
         Joins(Bridge, Bridge, "release"), det' = [det EXCEPT ![c] = "clean"],
         detId' = [detId EXCEPT ![c] = last + 1], lease' = lease, UNCHANGED clientVars
  PROVE  CallInv'
<1> DEFINE n == last + 1
<1>1. /\ n \in Ids /\ n \notin Live /\ n \notin Queued /\ n # cur /\ cur' = cur
      /\ pend' = pend \cup {n} /\ Live' = Live \cup {n} /\ Queued' = Queued \cup {n}
      /\ kind'[n] = "release" /\ asker'[n] = Bridge /\ owner'[n] = Bridge
      /\ \A i \in Ids \ {n} : kind'[i] = kind[i] /\ asker'[i] = asker[i] /\ owner'[i] = owner[i]
  BY JoinFacts, Names
<1>2. n \notin pend /\ pend \subseteq Ids /\ Queued \subseteq Ids /\ Live \subseteq Ids
  BY <1>1, LiveAreIds DEF Live
<1> HIDE DEF n
<1>3. \A i \in pend : kind[i] \notin {"leased", "release"}
  BY SettledOwner
<1>4. \A i \in pend' : kind'[i] # "leased" /\ (kind'[i] = "release" => i = n)
  BY <1>1, <1>2, <1>3
<1>5. c # None /\ det'[c] = "clean"
  BY QueueAssumption DEF QueueAssumption, TypedSession, SessionInv, LeaseInv, StatesOK
<1>6. LeasedIsOwners'
  BY <1>1, <1>2 DEF CallInv, LeasedIsOwners
<1>7. ReleaseIsOwners'
  BY <1>1, <1>4, <1>5 DEF ReleaseIsOwners
<1>8. OneRelease' /\ ReleaseIsLast' /\ ReleaseIsAlone'
  BY <1>4 DEF OneRelease, ReleaseIsLast, ReleaseIsAlone
<1>9. LanesAreAskers'
  BY <1>1, <1>2 DEF CallInv, LanesAreAskers
<1>10. \A d \in Clients : OwnPending(d)' = OwnPending(d)
  BY <1>1, <1>2, Names DEF OwnPending
<1>11. \A d \in Clients : \A i \in OwnPending(d) :
         kind'[i] = kind[i] /\ kind[i] \notin {"leased", "release"}
  BY <1>1, <1>2, <1>3 DEF OwnPending
<1>12. GoneAskNothing'
  <2> SUFFICES ASSUME NEW d \in Clients, life[d] = "left", NEW i \in OwnPending(d)
               PROVE  kind[i] = "initialize" \/ (det'[d] = "cancel" /\ detId'[d] = i)
    BY <1>10, <1>11 DEF GoneAskNothing, clientVars
  <2>1. kind[i] = "initialize" \/ (det[d] = "cancel" /\ detId[d] = i)
    BY DEF CallInv, GoneAskNothing
  <2>2. CASE d = c
    <3>1. i \in pend /\ i # 0
      BY WorkFacts DEF OwnPending, TypedSession, SessionInv
    <3> QED
      BY <2>1, <2>2, <3>1 DEF Settled
  <2>3. CASE d # c
    BY <2>1, <2>3
  <2> QED
    BY <2>2, <2>3
<1>13. GoneDetach'
  BY DEF CallInv, GoneDetach, clientVars, TypedSession, SessionInv, LeaseInv, StatesOK
<1>14. HeldIsFirst'
  BY <1>10, <1>11 DEF CallInv, HeldIsFirst, HoldsACall, clientVars
<1> QED
  BY <1>6, <1>7, <1>8, <1>9, <1>12, <1>13, <1>14 DEF CallInv

\* The detach of a client without a lease is over.
LEMMA CallOver ==
  ASSUME TypedSession, CallInv, NEW c \in Clients, det[c] \in {"cancel", "clean"},
         Settled(detId[c]), lease # c, StopIfUnused(c), UNCHANGED clientVars,
         det[c] = "clean" => lease = None
  PROVE  CallInv'
<1>1. det' = [det EXCEPT ![c] = "over"] /\ detId' = detId
  BY DEF StopIfUnused
<1>2. \A i \in OwnPending(c) : kind[i] = "initialize"
  <2> SUFFICES ASSUME NEW i \in OwnPending(c), kind[i] # "initialize" PROVE FALSE
    OBVIOUS
  <2>1. life[c] = "left"
    BY DEF CallInv, GoneDetach
  <2>2. detId[c] = i
    BY <2>1 DEF CallInv, GoneAskNothing
  <2>3. i \in pend /\ i # 0
    BY WorkFacts DEF OwnPending, TypedSession, SessionInv
  <2> QED
    BY <2>2, <2>3 DEF Settled
<1>3. GoneDetach'
  BY <1>1 DEF CallInv, GoneDetach, clientVars, TypedSession, SessionInv, LeaseInv, StatesOK
<1>4. CASE UNCHANGED <<queueVars, up, requestVars, workVars, lease>>
  <2>1. UNCHANGED <<kind, asker, pend, cur, lease, owner, life, cons, held>>
    BY <1>4 DEF requestVars, workVars, queueVars, clientVars
  <2>2. Live' = Live /\ Queued' = Queued /\ \A d : OwnPending(d)' = OwnPending(d)
    BY <2>1 DEF Live, Queued, OwnPending
  <2>3. ReleaseIsOwners'
    BY <1>1, <2>1 DEF CallInv, ReleaseIsOwners, TypedSession, SessionInv, LeaseInv, StatesOK
  <2>4. LeasedIsOwners' /\ OneRelease' /\ ReleaseIsLast' /\ ReleaseIsAlone' /\ LanesAreAskers'
    BY <2>1, <2>2 DEF CallInv, LeasedIsOwners, OneRelease, ReleaseIsLast, ReleaseIsAlone,
       LanesAreAskers
  <2>5. GoneAskNothing'
    <3> SUFFICES ASSUME NEW d \in Clients, life[d] = "left", NEW i \in OwnPending(d)
                 PROVE  kind[i] = "initialize" \/ (det'[d] = "cancel" /\ detId'[d] = i)
      BY <2>1, <2>2 DEF GoneAskNothing
    <3>1. kind[i] = "initialize" \/ (det[d] = "cancel" /\ detId[d] = i)
      BY DEF CallInv, GoneAskNothing
    <3> QED
      BY <1>1, <1>2, <3>1
  <2>6. HeldIsFirst'
    BY <2>1, <2>2 DEF CallInv, HeldIsFirst, HoldsACall
  <2> QED
    BY <1>3, <2>3, <2>4, <2>5, <2>6 DEF CallInv
<1>5. CASE Ends
  <2>1. pend' = {} /\ cur' = 0 /\ Live' = {} /\ \A d : OwnPending(d)' = {}
    BY <1>5 DEF Ends, Live, OwnPending
  <2>2. Queued' = {}
    BY <1>5, ClearLanes DEF Ends, TypedSession, SessionInv, WorkInv
  <2>3. LeasedIsOwners' /\ ReleaseIsOwners' /\ OneRelease' /\ ReleaseIsLast' /\ ReleaseIsAlone'
    BY <2>1 DEF LeasedIsOwners, ReleaseIsOwners, OneRelease, ReleaseIsLast, ReleaseIsAlone
  <2>4. LanesAreAskers' /\ GoneAskNothing' /\ HeldIsFirst'
    BY <2>1, <2>2 DEF LanesAreAskers, GoneAskNothing, HeldIsFirst
  <2> QED
    BY <1>3, <2>3, <2>4 DEF CallInv
<1> QED
  BY <1>4, <1>5 DEF StopIfUnused

LEMMA CallClose ==
  ASSUME TypedSession, CallInv, NEW c \in Clients, Close(c)
  PROVE  CallInv'
<1>1. /\ life' = [life EXCEPT ![c] = "left"] /\ det' = [det EXCEPT ![c] = "cancel"]
      /\ cons' = [cons EXCEPT ![c] = "idle"] /\ held' = [held EXCEPT ![c] = None]
      /\ detId' = [detId EXCEPT ![c] = IF cur \in OwnPending(c) THEN cur ELSE 0]
      /\ cur' = cur /\ lease' = lease /\ kind' = kind /\ asker' = asker
      /\ pend' = pend \ {i \in OwnPending(c) : i # cur /\ kind[i] # "initialize"}
  BY DEF Close, StopsWaiting, workVars
<1>2. /\ pend' \subseteq pend /\ Live' \subseteq Live
      /\ Queued' \subseteq Queued /\ \A i \in Queued' : owner'[i] = owner[i]
  BY CloseShrinks DEF Shrinks, TypedSession, SessionInv
<1>3. det[c] = "off"
  BY DEF CallInv, GoneDetach, Close, clients
<1>4. LeasedIsOwners'
  BY <1>1, <1>2 DEF CallInv, LeasedIsOwners
<1>5. ReleaseIsOwners'
  BY <1>1, <1>2, <1>3 DEF CallInv, ReleaseIsOwners, TypedSession, SessionInv, LeaseInv, StatesOK
<1>6. OneRelease' /\ ReleaseIsLast' /\ ReleaseIsAlone'
  BY <1>1, <1>2 DEF CallInv, OneRelease, ReleaseIsLast, ReleaseIsAlone
<1>7. LanesAreAskers'
  BY <1>1, <1>2 DEF CallInv, LanesAreAskers
<1>8. GoneAskNothing'
  <2> SUFFICES ASSUME NEW d \in Clients, life'[d] = "left", NEW i \in OwnPending(d)'
               PROVE  kind[i] = "initialize" \/ (det'[d] = "cancel" /\ detId'[d] = i)
    BY <1>1 DEF GoneAskNothing
  <2>1. i \in OwnPending(d)
    BY <1>1, <1>2 DEF OwnPending
  <2>2. CASE d = c
    <3>1. i = cur \/ kind[i] = "initialize"
      BY <1>1, <2>1, <2>2 DEF OwnPending
    <3> QED
      BY <1>1, <2>1, <2>2, <3>1 DEF TypedSession, RequestTypes, SessionInv, LeaseInv, StatesOK
  <2>3. CASE d # c
    BY <1>1, <2>1, <2>3 DEF CallInv, GoneAskNothing
  <2> QED
    BY <2>2, <2>3
<1>9. GoneDetach'
  BY <1>1 DEF CallInv, GoneDetach, TypedSession, SessionInv, LeaseInv, StatesOK
<1>10. HeldIsFirst'
  <2>1. \A d : OwnPending(d)' \subseteq OwnPending(d)
    BY <1>1, <1>2 DEF OwnPending
  <2>2. \A d \in Clients : HoldsACall(d)' => HoldsACall(d)
    BY <1>1 DEF HoldsACall, TypedSession, SessionInv, LeaseInv, StatesOK, RequestTypes
  <2> QED
    BY <1>1, <2>1, <2>2 DEF CallInv, HeldIsFirst
<1> QED
  BY <1>4, <1>5, <1>6, <1>7, <1>8, <1>9, <1>10 DEF CallInv

\* A client that waits for the answer to a release holds no call about the lease.
LEMMA SendsFirst ==
  ASSUME "pipelines" \notin Habits, NEW c \in Clients, NEW k, MaySend(c, k), k # "plain"
  PROVE  \A i \in OwnPending(c) : kind[i] # "release"
BY DEF MaySend

LEMMA CallSubmit ==
  ASSUME TypedSession, CallInv, NEW c \in Clients, NEW k, Submit(c, k), life[c] = "on",
         k # "initialize", k # "plain" => \A i \in OwnPending(c) : kind[i] # "release",
         UNCHANGED workVars, HoldsOn, ~HoldsACall(c)', NobodyLeaves, UNCHANGED <<det, detId>>
  PROVE  CallInv'
<1>1. CASE UNCHANGED <<queueVars, requestVars, lease>>
  <2>1. Shrinks /\ cur' = cur
    BY <1>1, QuietWork DEF workVars
  <2> QED
    BY <1>1, <2>1, CallShrinks DEF leaseVars
<1>2. CASE /\ Joins(c, c, k) /\ ~LeaseBusy(c, k)
           /\ lease' = IF k = "leased" /\ lease = None THEN c ELSE lease
  BY <1>2, CallJoins
<1> QED
  BY <1>1, <1>2, SubmitJoins

LEMMA ConsumerCall ==
  ASSUME "pipelines" \notin Habits, TypedSession, CallInv, NEW c \in Clients, Consumer(c)
  PROVE  CallInv'
<1> USE DEF TypedSession, SessionInv
<1>1. CASE Attach(c) \/ Eof(c) \/ HelloWakes(c) \/ BootTimesOut(c)
  <2>1. Shrinks /\ cur' = cur
    BY <1>1, QuietWork DEF Attach, Eof, HelloWakes, BootTimesOut, workVars
  <2>2. UNCHANGED leaseVars
    BY <1>1 DEF Attach, Eof, HelloWakes, BootTimesOut
  <2>3. NobodyLeaves
    BY <1>1 DEF Attach, Eof, HelloWakes, BootTimesOut, Reads, NobodyLeaves, LeaseInv, StatesOK
  <2>4. HoldsOn
    BY <1>1 DEF Attach, Eof, HelloWakes, BootTimesOut, StopsWaiting, HoldsOn, HoldsACall,
       LeaseInv, StatesOK, RequestTypes
  <2> QED
    BY <2>1, <2>2, <2>3, <2>4, CallShrinks
<1>2. CASE Hello(c)
  <2>1. /\ UNCHANGED workVars /\ UNCHANGED leaseVars /\ held' = held /\ life[c] = "on"
        /\ \E v \in {"hello", "idle"} : cons' = [cons EXCEPT ![c] = v]
        /\ life' = life \/ life' = [life EXCEPT ![c] = "closing"]
    BY <1>2 DEF Hello, Reads
  <2>2. NobodyLeaves /\ HoldsOn
    BY <2>1 DEF NobodyLeaves, HoldsOn, HoldsACall, LeaseInv, StatesOK
  <2>3. CASE EnqueueOwn(c, "initialize")
    BY <2>1, <2>2, <2>3, OwnJoins, CallInitialize
  <2>4. CASE UNCHANGED <<queueVars, requestVars>>
    BY <2>1, <2>2, <2>4, QuietWork, CallShrinks DEF workVars
  <2> QED
    BY <1>2, <2>3, <2>4 DEF Hello
<1>3. ASSUME NEW k \in CallKinds, Call(c, k) PROVE CallInv'
  <2>1. /\ UNCHANGED workVars /\ UNCHANGED <<life, det, detId>> /\ life[c] = "on"
        /\ cons[c] = "idle" /\ MaySend(c, k)
    BY <1>3 DEF Call, Reads
  <2>2. NobodyLeaves /\ k # "initialize"
    BY <2>1 DEF NobodyLeaves, CallKinds
  <2>3. k # "plain" => \A i \in OwnPending(c) : kind[i] # "release"
    BY <2>1, SendsFirst
  <2>4. \/ UNCHANGED <<cons, held>>
        \/ held' = [held EXCEPT ![c] = k] /\ \E v : cons' = [cons EXCEPT ![c] = v]
    BY <1>3 DEF Call, Bootstrap
  <2>5. HoldsOn
    BY <2>3, <2>4 DEF HoldsOn, HoldsACall, LeaseInv, StatesOK, RequestTypes
  <2>6. CASE Submit(c, k) /\ UNCHANGED <<cons, held>>
    <3>1. ~HoldsACall(c)'
      BY <2>1, <2>6 DEF HoldsACall
    <3> QED
      BY <2>1, <2>2, <2>3, <2>5, <2>6, <3>1, CallSubmit
  <2>7. CASE UNCHANGED <<queueVars, requestVars>> /\ lease' = lease
    BY <2>1, <2>2, <2>5, <2>7, QuietWork, CallShrinks DEF workVars, leaseVars
  <2>8. CASE EnqueueOwn(Bridge, "initialize") /\ lease' = lease
    BY <2>1, <2>2, <2>5, <2>8, OwnJoins, CallInitialize DEF leaseVars
  <2> QED
    BY <1>3, <2>6, <2>7, <2>8 DEF Call, Bootstrap
<1>4. CASE BootEnds(c) \/ WaitEnds(c)
  <2>1. /\ UNCHANGED workVars /\ UNCHANGED <<life, det, detId>> /\ life[c] = "on"
        /\ cons[c] \in {"boot", "wait"} /\ cons' = [cons EXCEPT ![c] = "idle"]
        /\ held' = [held EXCEPT ![c] = None]
    BY <1>4 DEF BootEnds, WaitEnds, StopsWaiting, LeaseInv
  <2>2. NobodyLeaves /\ HoldsOn /\ ~HoldsACall(c)'
    BY <2>1 DEF NobodyLeaves, HoldsOn, HoldsACall, LeaseInv, StatesOK, RequestTypes
  <2>3. held[c] # "plain" => \A i \in OwnPending(c) : kind[i] # "release"
    BY <2>1 DEF CallInv, HeldIsFirst, HoldsACall
  <2>4. CASE Submit(c, held[c])
    <3>1. held[c] # "initialize"
      BY DEF RequestTypes, CallKinds, None
    <3> QED
      BY <2>1, <2>2, <2>3, <2>4, <3>1, CallSubmit
  <2>5. CASE UNCHANGED <<queueVars, requestVars, lease>>
    BY <2>1, <2>2, <2>5, QuietWork, CallShrinks DEF workVars, leaseVars
  <2> QED
    BY <1>4, <2>4, <2>5 DEF BootEnds, WaitEnds
<1>5. ASSUME NEW i \in Ids, Cancel(c, i) PROVE CallInv'
  <2>1. /\ {i} \in SUBSET pend /\ Discard({i}) /\ pend' = pend \ {i}
        /\ UNCHANGED <<kind, asker, cur>>
    BY <1>5 DEF Cancel, OwnPending, workVars
  <2>2. UNCHANGED clientVars /\ UNCHANGED leaseVars
    BY <1>5 DEF Cancel
  <2>3. NobodyLeaves /\ HoldsOn
    BY <2>2 DEF NobodyLeaves, HoldsOn, HoldsACall, clientVars
  <2> QED
    BY <2>1, <2>2, <2>3, DiscardShrinks, CallShrinks
<1> QED
  BY <1>1, <1>2, <1>3, <1>4, <1>5 DEF Consumer

LEMMA DetachCall ==
  ASSUME TypedSession, CallInv, NEW c \in Clients, Detach(c)
  PROVE  CallInv'
<1>1. CASE Close(c)
  BY <1>1, CallClose
<1>2. CASE DetachGoesOn(c)
  <2>1. det[c] = "cancel" /\ Settled(detId[c]) /\ UNCHANGED clientVars
    BY <1>2 DEF DetachGoesOn
  <2>2. CASE lease = c
    <3>1. CASE /\ EnqueueOwn(Bridge, "release")
               /\ det' = [det EXCEPT ![c] = "clean"]
               /\ detId' = [detId EXCEPT ![c] = last + 1]
               /\ UNCHANGED <<up, workVars, lease>>
      <4>1. UNCHANGED workVars /\ lease' = lease
        BY <3>1
      <4>2. Joins(Bridge, Bridge, "release")
        BY <3>1, <4>1, OwnJoins
      <4> QED
        BY <2>1, <2>2, <3>1, <4>1, <4>2, CallCleanup
    <3>2. CASE Ends /\ UNCHANGED <<det, detId>>
      BY <2>1, <3>2, CallEnds
    <3> QED
      BY <1>2, <2>2, <3>1, <3>2 DEF DetachGoesOn
  <2>3. CASE lease # c
    BY <1>2, <2>1, <2>3, CallOver DEF DetachGoesOn
  <2> QED
    BY <2>2, <2>3
<1>3. CASE CleanupEnds(c)
  <2>1. CASE lease = None
    <3>1. lease # c
      BY <2>1, QueueAssumption DEF QueueAssumption
    <3> QED
      BY <1>3, <2>1, <3>1, CallOver DEF CleanupEnds
  <2>2. CASE lease # None
    BY <1>3, <2>2, CallEnds DEF CleanupEnds
  <2> QED
    BY <2>1, <2>2
<1>4. CASE DetachTimesOut(c)
  BY <1>4, CallEnds DEF DetachTimesOut
<1> QED
  BY <1>1, <1>2, <1>3, <1>4 DEF Detach

LEMMA CallStep ==
  ASSUME "pipelines" \notin Habits, TypedSession, CallInv, [Next]_vars
  PROVE  CallInv'
<1>1. ASSUME NEW c \in Clients, Consumer(c) \/ Detach(c) PROVE CallInv'
  BY <1>1, ConsumerCall, DetachCall
<1>2. CASE Dispatch
  BY <1>2, CallDispatch
<1>3. ASSUME NEW outcome \in {"ok", "error"}, Answer(outcome) PROVE CallInv'
  BY <1>3, CallAnswer
<1>4. CASE Acked
  <2>1. Shrinks /\ cur' = 0 /\ UNCHANGED leaseVars /\ UNCHANGED <<cons, held>>
    BY <1>4, QuietShrinks DEF Acked
  <2>2. \/ life' = life
        \/ \E c \in Clients : life[c] = "eof" /\ life' = [life EXCEPT ![c] = "closing"]
    BY <1>4 DEF Acked, clients
  <2>3. NobodyLeaves /\ HoldsOn
    BY <2>1, <2>2 DEF NobodyLeaves, HoldsOn, HoldsACall, TypedSession, SessionInv, LeaseInv,
       StatesOK
  <2> QED
    BY <2>1, <2>3, CallShrinks
<1>5. CASE SendFails
  BY <1>5, CallEnds DEF SendFails
<1>6. CASE UNCHANGED vars
  <2>1. /\ UNCHANGED <<queueVars, requestVars>> /\ UNCHANGED workVars /\ UNCHANGED clientVars
        /\ UNCHANGED leaseVars
    BY <1>6 DEF vars
  <2>2. NobodyLeaves /\ HoldsOn
    BY <2>1 DEF NobodyLeaves, HoldsOn, HoldsACall, clientVars
  <2> QED
    BY <2>1, <2>2, QuietWork, CallShrinks DEF workVars
<1> QED
  BY <1>1, <1>2, <1>3, <1>4, <1>5, <1>6 DEF Next

LEMMA CallInitial == Init => CallInv
<1> SUFFICES ASSUME Init PROVE CallInv
  OBVIOUS
<1>1. /\ pend = {} /\ cur = 0 /\ owner = [i \in Ids |-> None]
      /\ life = [c \in Clients |-> "new"] /\ det = [c \in Clients |-> "off"]
      /\ cons = [c \in Clients |-> "idle"]
  BY DEF Init, QueueInit
<1>2. Queued = {} /\ Live = {} /\ \A c : OwnPending(c) = {}
  BY <1>1 DEF Queued, Live, OwnPending
<1>3. LeasedIsOwners /\ ReleaseIsOwners /\ OneRelease /\ ReleaseIsLast /\ ReleaseIsAlone
  BY <1>1, <1>2 DEF LeasedIsOwners, ReleaseIsOwners, OneRelease, ReleaseIsLast, ReleaseIsAlone
<1>4. LanesAreAskers /\ GoneAskNothing /\ GoneDetach /\ HeldIsFirst
  BY <1>1, <1>2 DEF LanesAreAskers, GoneAskNothing, GoneDetach, HeldIsFirst
<1> QED
  BY <1>3, <1>4 DEF CallInv

\* While clients wait for the answer to a release, the process works on a call
\* about the resource only for the client that owns it, and the lease is watched
\* until it is free: no order of calls, cancellations, cleanups of owners that
\* left, and late or failed answers gives it to two.  (A client that does not wait
\* can break this: SharedSessionLease.cfg.)
THEOREM LeaseIsKept ==
  ASSUME "pipelines" \notin Habits
  PROVE  Spec => []LeaseKept
<1>1. Init => TypedSession /\ CallInv
  BY TypedInitial, CallInitial
<1>2. TypedSession /\ CallInv /\ [Next]_vars => (TypedSession /\ CallInv)'
  BY TypedStep, CallStep
<1>3. TypedSession /\ CallInv => LeaseKept
  <2> SUFFICES ASSUME TypedSession, CallInv PROVE LeaseHonoured /\ LeaseIsWatched
    BY DEF LeaseKept
  <2>1. LeaseHonoured
    BY DEF LeaseHonoured, CallInv, LeasedIsOwners, Live
  <2> QED
    BY <2>1 DEF TypedSession, SessionInv, LeaseInv
<1> QED
  BY <1>1, <1>2, <1>3, PTL DEF Spec
=============================================================================
