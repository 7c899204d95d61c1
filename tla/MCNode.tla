------------------------------- MODULE MCNode -------------------------------
(***************************************************************************)
(* The components of a node that SharedBackend and LogicalStream leave     *)
(* out, each on its own: a behaviour runs one of them, so the check goes   *)
(* through all and its properties say what they have in common.            *)
(***************************************************************************)
EXTENDS NodeParts

publishVars == <<pub, publishSent, open, known, publishLink, sees, toR, toS, begin, rec, publishFile, final,
    twin, journal, old, breaks>>
oldVars == <<oldSend, oldSent, oldStreamS, oldStreamR, oldLinkUp, oldChanR, oldChanS, oldRecv, oldTemp,
    oldPlace>>
inputVars == <<inputSend, inputSent, inputStreamS, inputStreamR, inputLinkUp, inputChanR, inputChanS,
    inputRecv, inputTemp, inputPlace, handles, used, calls>>
relayVars == <<client, relayKind, head, body, got, agent, relayOwner, relaySent, ended, relayUp, down,
    relayLink>>
peerVars == <<handler, installing, caller, current, wire, stuffed, query, deaths>>
httpVars == <<state, gen, alive, watched, failed, startTask, stopTask, drain, demand, op, downing,
    httpCrashes>>
configVars == <<registry, mirror, env, envId, stored, configFile, pc, snap, changes, edits, configCrashes,
    commands>>
sessionVars == <<last, sessionOwner, size, ahead, laneBytes, queuedBytes, passed, sessionUp, life, hello,
    cons, held, bootId, sessionKind, asker, pend, cur, reader, template, initPending, lease,
    det, detId, answers, asks>>
vars == <<part, publishVars, oldVars, inputVars, relayVars, peerVars, httpVars, configVars, sessionVars>>

\* A file of two chunks, published twice; the link breaks once, the receiver
\* is killed, a client leaves.
Publish == INSTANCE ArtifactProofs WITH
  Breaks <- Losses, Habits <- {"closes", "restarts", "retries"}, sent <- publishSent, link <- publishLink, file <- publishFile

\* The same with timeouts and receipts that expire.
Republish == INSTANCE ArtifactProofs WITH
  Breaks <- Losses, Habits <- {"slow", "expires"}, sent <- publishSent, link <- publishLink, file <- publishFile

\* Two relayed requests and one place for them; services fail, Agents leave.
Relay == INSTANCE HttpRelay WITH
  Chunks <- Pieces, Habits <- {"fails", "leaves", "slow"},
  kind <- relayKind, owner <- relayOwner, sent <- relaySent, up <- relayUp, link <- relayLink

\* The same when the link is lost.
Relays == INSTANCE HttpRelay WITH
  Chunks <- Pieces, Habits <- {"linkLost"}, kind <-
  relayKind, owner <- relayOwner, sent <- relaySent, up <- relayUp, link <- relayLink

\* Three deaths of a connection, two queries.
Link == INSTANCE PeerLink WITH Habits <- {"ends"}

\* Two demands, one confirmed action, one crash.
Http == INSTANCE ManagedHttp WITH
  Habits <- {"spawnFails", "neverReady", "graceEnds"}, crashes <- httpCrashes

\* The same when the link is lost, which stops the service as well.
Downed == INSTANCE ManagedHttp WITH
  Habits <- {"spawnFails", "linkLost"}, crashes <- httpCrashes

\* A legacy and a modern client of one process.
Session == INSTANCE SharedSessionProofs WITH
  Clients <- {"old", "new"}, Modern <- {"new"}, MaxId <- 8, MaxAsks <- 2, Sizes <- {1},
  MaxRequests <- 2, MaxClientRequests <- 2, MaxInternal <- 1, MaxBytes <- 3, MaxClientBytes <-
  3, MaxMessage <- 2, Habits <- {"slowInit", "stubborn", "sendRaises"}, owner <- sessionOwner,
  up <- sessionUp, kind <- sessionKind

-----------------------------------------------------------------------------
\* Every component is in an initial state, and one of them runs.
Init ==
  /\ part \in Parts
  /\ Publish!Init
  /\ Old!TransferInit
  /\ Input!Init
  /\ Relay!Init /\ (part \in {"relay", "relays"} \/ relayKind = [r \in Requests |-> "plain"])
  /\ Link!Init /\ (part = "link" \/ current = CHOOSE c \in Conns : TRUE)
  /\ Http!Init
  /\ Watch!Init /\ (part \in {"projection", "crashing"} \/ configFile = Watch!Absent)
  /\ Session!Init

Next ==
  \/ /\ part = "publish" /\ Publish!Next
     /\ UNCHANGED <<part, oldVars, inputVars, relayVars, peerVars, httpVars, configVars, sessionVars>>
  \/ /\ part = "republish" /\ Republish!Next
     /\ UNCHANGED <<part, oldVars, inputVars, relayVars, peerVars, httpVars, configVars, sessionVars>>
  \/ /\ part = "old" /\ Old!Next
     /\ UNCHANGED <<part, publishVars, inputVars, relayVars, peerVars, httpVars, configVars, sessionVars>>
  \/ /\ part = "input" /\ Input!Next
     /\ UNCHANGED <<part, publishVars, oldVars, relayVars, peerVars, httpVars, configVars, sessionVars>>
  \/ /\ part = "relay" /\ Relay!Next
     /\ UNCHANGED <<part, publishVars, oldVars, inputVars, peerVars, httpVars, configVars, sessionVars>>
  \/ /\ part = "relays" /\ Relays!Next
     /\ UNCHANGED <<part, publishVars, oldVars, inputVars, peerVars, httpVars, configVars, sessionVars>>
  \/ /\ part = "link" /\ Link!Next
     /\ UNCHANGED <<part, publishVars, oldVars, inputVars, relayVars, httpVars, configVars, sessionVars>>
  \/ /\ part = "http" /\ Http!Next
     /\ UNCHANGED <<part, publishVars, oldVars, inputVars, relayVars, peerVars, configVars, sessionVars>>
  \/ /\ part = "downed" /\ Downed!Next
     /\ UNCHANGED <<part, publishVars, oldVars, inputVars, relayVars, peerVars, configVars, sessionVars>>
  \/ /\ part = "projection" /\ Watch!Next
     /\ UNCHANGED <<part, publishVars, oldVars, inputVars, relayVars, peerVars, httpVars, sessionVars>>
  \/ /\ part = "crashing" /\ Crashing!Next
     /\ UNCHANGED <<part, publishVars, oldVars, inputVars, relayVars, peerVars, httpVars, sessionVars>>
  \/ /\ part = "session" /\ Session!Next
     /\ UNCHANGED <<part, publishVars, oldVars, inputVars, relayVars, peerVars, httpVars, configVars>>

Spec == Init /\ [][Next]_vars

\* The fairness of each component, while it is the one that runs.
Fairness ==
  /\ WF_publishVars(part = "publish" /\ Publish!Reply)
  /\ WF_publishVars(part = "publish" /\ Publish!ReceivesFrame)
  /\ WF_publishVars(part = "publish" /\ Publish!LinkFails)
  /\ \A p \in 1..Publishes : WF_publishVars(part = "publish" /\ Publish!Again(p))
  /\ \A p \in 1..Publishes : WF_publishVars(part = "publish" /\ Publish!Beginning(p))
  /\ \A p \in 1..Publishes : WF_publishVars(part = "publish" /\ Publish!Abort(p))
  /\ \A p \in 1..Publishes : WF_publishVars(part = "publish" /\ Publish!Worker(p))
  /\ \A p \in 1..Publishes : WF_publishVars(part = "publish" /\ Publish!Parking(p))
  /\ WF_publishVars(part = "republish" /\ Republish!Reply)
  /\ WF_publishVars(part = "republish" /\ Republish!ReceivesFrame)
  /\ WF_publishVars(part = "republish" /\ Republish!LinkFails)
  /\ \A p \in 1..Publishes : WF_publishVars(part = "republish" /\ Republish!Again(p))
  /\ \A p \in 1..Publishes : WF_publishVars(part = "republish" /\ Republish!Beginning(p))
  /\ \A p \in 1..Publishes : WF_publishVars(part = "republish" /\ Republish!Abort(p))
  /\ \A p \in 1..Publishes : WF_publishVars(part = "republish" /\ Republish!Worker(p))
  /\ \A p \in 1..Publishes : WF_publishVars(part = "republish" /\ Republish!Parking(p))
  /\ WF_oldVars(part = "old" /\ Old!Reply)
  /\ WF_oldVars(part = "old" /\ (Old!BeginArtifact \/ Old!Chunk \/ Old!End \/ Old!Cancel \/ Old!Close \/ Old!StreamGone))
  /\ \A t \in Transfers : WF_oldVars(part = "old" /\ (Old!Worker(t) \/ Old!Abort(t)))
  /\ \A t \in Transfers : WF_oldVars(part = "old" /\ Old!Linked(t))
  /\ WF_relayVars(part = "relay" /\ Relay!FrameArrives)
  /\ \A r \in Requests : WF_relayVars(part = "relay" /\ Relay!Arrives(r))
  /\ \A r \in Requests : WF_relayVars(part = "relay" /\ Relay!Cancelled(r))
  /\ \A r \in Requests : WF_relayVars(part = "relay" /\ Relay!Consumer(r))
  /\ \A r \in Requests : WF_relayVars(part = "relay" /\ Relay!Owner(r))
  /\ WF_relayVars(part = "relays" /\ Relays!FrameArrives)
  /\ \A r \in Requests : WF_relayVars(part = "relays" /\ Relays!Arrives(r))
  /\ \A r \in Requests : WF_relayVars(part = "relays" /\ Relays!Cancelled(r))
  /\ \A r \in Requests : WF_relayVars(part = "relays" /\ Relays!Consumer(r))
  /\ \A r \in Requests : WF_relayVars(part = "relays" /\ Relays!Owner(r))
  /\ WF_peerVars(part = "link" /\ Link!Greeted)
  /\ WF_peerVars(part = "link" /\ Link!CallerLoses)
  /\ WF_peerVars(part = "link" /\ (\E c \in Conns : Link!Connect(c)))
  /\ \A c \in Conns : WF_peerVars(part = "link" /\ Link!Accept(c))
  /\ \A c \in Conns : WF_peerVars(part = "link" /\ (Link!Greet(c) \/ Link!Refused(c) \/ Link!Loses(c)))
  /\ WF_httpVars(part = "http" /\ Http!Generation)
  /\ WF_httpVars(part = "http" /\ Http!NodeStops)
  /\ WF_httpVars(part = "http" /\ Http!NodeStopped)
  /\ \A d \in Demands : WF_httpVars(part = "http" /\ demand[d] = "starts" /\ Http!Demand(d))
  /\ \A d \in Demands : WF_httpVars(part = "http" /\ Http!DemandWaited(d))
  /\ \A d \in Demands : WF_httpVars(part = "http" /\ Http!Served(d))
  /\ \A o \in Ops : WF_httpVars(part = "http" /\ (Http!Drained(o) \/ Http!OpStops(o) \/ Http!OpStopped(o) \/ Http!OpStarts(o) \/ Http!OpStarted(o)))
  /\ WF_httpVars(part = "downed" /\ Downed!Generation)
  /\ WF_httpVars(part = "downed" /\ Downed!NodeStops)
  /\ WF_httpVars(part = "downed" /\ Downed!NodeStopped)
  /\ \A d \in Demands : WF_httpVars(part = "downed" /\ demand[d] = "starts" /\ Downed!Demand(d))
  /\ \A d \in Demands : WF_httpVars(part = "downed" /\ Downed!DemandWaited(d))
  /\ \A d \in Demands : WF_httpVars(part = "downed" /\ Downed!Served(d))
  /\ \A o \in Ops : WF_httpVars(part = "downed" /\ (Downed!Drained(o) \/ Downed!OpStops(o) \/ Downed!OpStopped(o) \/ Downed!OpStarts(o) \/ Downed!OpStarted(o)))
  /\ \A p \in Reconcilers : WF_configVars(part = "projection" /\ Watch!Step(p))
  /\ WF_configVars(part = "projection" /\ (Watch!Step(Operator) \/ Watch!Unenrolled))
  /\ WF_sessionVars(part = "session" /\ sessionUp /\ Session!Progress)

FairSpec == Spec /\ Fairness

-----------------------------------------------------------------------------
\* The variables of each component keep their types.
TypeOK ==
  /\ Publish!TypeOK /\ Old!TransferTypeOK /\ Input!TypeOK /\ Relay!TypeOK
  /\ Link!TypeOK /\ Http!TypeOK /\ Crashing!TypeOK /\ Session!TypeOK

\* Whatever retries, parks, breaks, restarts and cancellations happen, a file
\* is delivered as Delivery promises: it appears whole under its final name,
\* and a publisher is told of success only while it is there (artifacts/2), and
\* so is each file of artifacts/1.
Delivers == Publish!Delivers /\ Old!Delivers

\* What is taken for complete is complete and one's own: the acknowledged
\* prefix of a parked transfer (_park_artifact_v2), the input a handle names
\* (_rewrite_input_descriptor_line), the relayed response that was ended as it
\* should (_relay_dispatch_request).
NothingTorn == Publish!PrefixesTrue /\ Input!HandlesHold /\ Relay!WholeMeansWhole

\* What there must be one of: one link of the acceptor, and nobody who waits on
\* one that is gone; one live generation of a managed service, none that the
\* state machine takes for gone, and none that a stop or restart that was
\* reported as applied has left alive.
OneAtATime ==
  /\ Link!OneLink /\ Link!NoOrphanQuery
  /\ Http!OneGeneration /\ (part = "http" => Http!AppliedMeansGone)

\* No command of the bridge changes an entry that the user made or changed,
\* also when it crashes in between; and when an environment has been unenrolled
\* with its entries, its file holds nothing the bridge wrote.
KeepsTheUsersOwn ==
  Watch!KeepsTheUsersOwn /\ [](Watch!RemovedIsClean)

\* Everything that was begun comes to an end: publishes and the receives they
\* leave, relayed requests and the owner's tasks for them, demands and confirmed
\* actions on a managed service, calls, leases and waits in a shared session.
WorkEnds ==
  /\ Publish!TransfersEnd /\ Relay!RelayReleases /\ Http!WaitsEnd
  /\ Session!WaitingIsServed /\ Session!WorkerFrees
  /\ Session!SessionSettles /\ Session!LeaseSettles

\* What was broken is brought back: however connections end, the nodes are
\* linked again while the Agents read (CHANGELOG.md:12-14); once the registry and the client's file
\* are left alone, the watch brings the file to what the registry says.
Converges ==
  /\ part = "link" => Link!LinkComesBack
  /\ part = "projection" => Watch!Converges
=============================================================================
