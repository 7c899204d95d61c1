----------------------------- MODULE SharedQueue -----------------------------
(***************************************************************************)
(* SharedRequestQueue (bridge_runtime.py): the requests that wait for one  *)
(* shared MCP process.  Each client has a lane of its own and the Bridge   *)
(* one for its own requests; lanes are bounded in requests and in bytes,   *)
(* first in first out, and are served in turn, the Bridge's lane first.    *)
(* Requests get increasing identities, so the order of a lane is theirs.   *)
(***************************************************************************)
EXTENDS Integers, FiniteSets, FiniteSetsExt

CONSTANTS
  Clients,            \* logical clients of the shared process
  MaxId,              \* bound: requests ever queued
  Sizes,              \* encoded sizes of requests considered
  MaxRequests,        \* MAX_SHARED_QUEUED_REQUESTS
  MaxClientRequests,  \* MAX_SHARED_CLIENT_QUEUED_REQUESTS
  MaxInternal,        \* MAX_SHARED_INTERNAL_QUEUED_REQUESTS
  MaxBytes,           \* MAX_SHARED_QUEUED_BYTES
  MaxClientBytes,     \* MAX_SHARED_CLIENT_QUEUED_BYTES
  MaxMessage          \* MAX_SHARED_JSONRPC_BYTES

Bridge == "bridge"
None == "none"

ASSUME QueueAssumption ==
  /\ MaxId \in Nat /\ Sizes \subseteq Nat \ {0}
  /\ MaxRequests \in Nat /\ MaxClientRequests \in Nat /\ MaxInternal \in Nat
  /\ MaxBytes \in Nat /\ MaxClientBytes \in Nat /\ MaxMessage \in Nat
  /\ Bridge \notin Clients /\ None \notin Clients
  /\ IsFiniteSet(Clients)

Ids == 1..MaxId
Owners == Clients \cup {Bridge}

VARIABLES
  last,        \* the youngest identity given out
  owner,       \* owners: the lane of a queued request, None for all others
  size,        \* its encoded size
  ahead,       \* order of the OrderedDict lanes: ahead[c] are the lanes before c's
  laneBytes,   \* lane_bytes
  queuedBytes, \* queued_bytes
  passed       \* passed[c][d]: how often d was served while c waits (history)

queueVars == <<last, owner, size, ahead, laneBytes, queuedBytes, passed>>

Queued == {i \in Ids : owner[i] # None}

Lane(o) == {i \in Ids : owner[i] = o}

\* The clients with a lane.
Waiting == {c \in Clients : Lane(c) # {}}

NeverPassed == [c \in Clients |-> [d \in Clients |-> 0]]

QueueInit ==
  /\ last = 0
  /\ owner = [i \in Ids |-> None]
  /\ size = [i \in Ids |-> 0]
  /\ ahead = [c \in Clients |-> {}]
  /\ laneBytes = [o \in Owners |-> 0]
  /\ queuedBytes = 0
  /\ passed = NeverPassed

\* Faulty variants: a bound is off by one; the total is not looked at.
RefusedLate(o, n) ==
  \/ n > MaxMessage
  \/ o = Bridge /\ (Cardinality(Lane(o)) >= MaxInternal \/ laneBytes[o] + n > MaxMessage)
  \/ o # Bridge /\ \/ Cardinality(Lane(o)) > MaxClientRequests
                   \/ laneBytes[o] + n > MaxClientBytes
                   \/ Cardinality(Queued) >= MaxRequests
                   \/ queuedBytes + n > MaxBytes

\* The limits of put_nowait.  The Bridge's own requests have a capacity of
\* their own: a full backend does not refuse them.
Refused(o, n) ==
  \/ n > MaxMessage
  \/ o = Bridge /\ (Cardinality(Lane(o)) >= MaxInternal \/ laneBytes[o] + n > MaxMessage)
  \/ o # Bridge /\ \/ Cardinality(Lane(o)) >= MaxClientRequests
                   \/ laneBytes[o] + n > MaxClientBytes
                   \/ Cardinality(Queued) >= MaxRequests
                   \/ queuedBytes + n > MaxBytes

\* put_nowait: a lane that was empty goes to the end.
Put(o, n) ==
  /\ last < MaxId /\ ~Refused(o, n)
  /\ last' = last + 1
  /\ owner' = [owner EXCEPT ![last + 1] = o]
  /\ size' = [size EXCEPT ![last + 1] = n]
  /\ ahead' = IF o \in Clients /\ Lane(o) = {} THEN [ahead EXCEPT ![o] = Waiting] ELSE ahead
  /\ laneBytes' = [laneBytes EXCEPT ![o] = @ + n]
  /\ queuedBytes' = queuedBytes + n
  /\ UNCHANGED passed

Bytes(S) == MapThenSumSet(LAMBDA i : size[i], S)

\* Faulty variant: the total keeps the bytes of what was removed.
RemoveUncounted(S) ==
  /\ owner' = [i \in Ids |-> IF i \in S THEN None ELSE owner[i]]
  /\ size' = [i \in Ids |-> IF i \in S THEN 0 ELSE size[i]]
  /\ laneBytes' = [o \in Owners |-> laneBytes[o] - Bytes(Lane(o) \cap S)]
  /\ UNCHANGED <<last, queuedBytes>>

\* What discard does to the entries of S.
Remove(S) ==
  /\ owner' = [i \in Ids |-> IF i \in S THEN None ELSE owner[i]]
  /\ size' = [i \in Ids |-> IF i \in S THEN 0 ELSE size[i]]
  /\ laneBytes' = [o \in Owners |-> laneBytes[o] - Bytes(Lane(o) \cap S)]
  /\ queuedBytes' = queuedBytes - Bytes(Queued \cap S)
  /\ UNCHANGED last

\* The lanes that still hold a request when those of S are gone.
Left(S) == {c \in Clients : Lane(c) \ S # {}}

\* discard, of one request or of several without a pause: empty lanes vanish.
Discard(S) ==
  /\ Remove(S)
  /\ ahead' = [c \in Clients |-> IF c \in Left(S) THEN ahead[c] \cap Left(S) ELSE {}]
  /\ passed' = [c \in Clients |-> IF c \in Left(S) THEN passed[c] ELSE [d \in Clients |-> 0]]

\* The lane get() serves next, and the request it takes.
Turn(o) ==
  IF Lane(Bridge) # {} THEN o = Bridge ELSE o \in Waiting /\ ahead[o] = {}

\* Faulty variant: a lane that was served keeps its place.
TakeInPlace(i) ==
  /\ owner[i] # None /\ Turn(owner[i])
  /\ \A j \in Lane(owner[i]) : i <= j
  /\ Remove({i})
  /\ ahead' = [c \in Clients |-> IF c \in Left({i}) THEN ahead[c] \cap Left({i}) ELSE {}]
  /\ passed' = [c \in Clients |->
                  [d \in Clients |->
                     IF c = owner[i] \/ c \notin Left({i}) THEN 0
                     ELSE IF d = owner[i] THEN passed[c][d] + 1 ELSE passed[c][d]]]

\* get: the oldest request of that lane; the lane goes to the end.
Take(i) ==
  /\ owner[i] # None /\ Turn(owner[i])
  /\ \A j \in Lane(owner[i]) : i <= j
  /\ Remove({i})
  /\ ahead' = [c \in Clients |->
                 IF c \notin Left({i}) THEN {}
                 ELSE IF c = owner[i] THEN Left({i}) \ {c}
                 ELSE ahead[c] \cap (Left({i}) \ {owner[i]})]
  /\ passed' = [c \in Clients |->
                  [d \in Clients |->
                     IF c = owner[i] \/ c \notin Left({i}) THEN 0
                     ELSE IF d = owner[i] THEN passed[c][d] + 1 ELSE passed[c][d]]]

\* clear, when the generation is over.
Clear ==
  /\ owner' = [i \in Ids |-> None]
  /\ size' = [i \in Ids |-> 0]
  /\ ahead' = [c \in Clients |-> {}]
  /\ laneBytes' = [o \in Owners |-> 0]
  /\ queuedBytes' = 0
  /\ passed' = NeverPassed
  /\ UNCHANGED last

QueueNext ==
  \/ \E o \in Owners, n \in Sizes : Put(o, n)
  \/ \E S \in SUBSET Queued : Discard(S)
  \/ \E i \in Ids : Take(i)
  \/ Clear

QueueSpec == QueueInit /\ [][QueueNext]_queueVars

-----------------------------------------------------------------------------

\* The type of the lanes, without the byte counters.
LanesTypeOK ==
  /\ last \in 0..MaxId
  /\ owner \in [Ids -> Owners \cup {None}]
  /\ ahead \in [Clients -> SUBSET Clients]
  /\ passed \in [Clients -> [Clients -> Nat]]

\* Type correctness of the queue.
QueueTypeOK ==
  /\ LanesTypeOK
  /\ size \in [Ids -> Nat]
  /\ laneBytes \in [Owners -> Int]
  /\ queuedBytes \in Int

\* However requests are put, withdrawn and taken, no lane holds more requests
\* than its limit, and all lanes together no more than the backend's limit and
\* the Bridge's own lane.
QueueBounded ==
  /\ Cardinality(Lane(Bridge)) <= MaxInternal
  /\ \A c \in Clients : Cardinality(Lane(c)) <= MaxClientRequests
  /\ Cardinality(Queued \ Lane(Bridge)) <= MaxRequests

\* The byte counters the limits are checked against are the sizes of what is
\* queued: they do not drift in any order of puts, discards and gets, and so
\* the bytes queued are bounded.
BytesAccounted ==
  /\ \A o \in Owners : laneBytes[o] = Bytes(Lane(o))
  /\ queuedBytes = Bytes(Queued)
  /\ \A c \in Clients : laneBytes[c] <= MaxClientBytes
  /\ queuedBytes - laneBytes[Bridge] <= MaxBytes

\* A busy client cannot monopolize the process: while a client waits, no other
\* is served more than once, also when lanes empty and come back.
NoOvertaking == \A c \in Waiting : \A d \in Clients : passed[c][d] <= 1
=============================================================================
