------------------------------ MODULE NodeParts ------------------------------
(* What the components that MCNode runs have to do, and their variables; and *)
(* those whose proofs are kept together.                                     *)
EXTENDS Naturals, Sequences, FiniteSets

CONSTANTS
  Parts,  \* the components that are run
  Publishes, Requests, Demands, Ops,  \* how much they have to do
  Chunks, Losses,      \* of an artifact, and losses of its link
  Transfers, Pieces,   \* of artifacts/1, of inputs and of the relay
  MaxInflight, Calls,  \* of the relay, and with an input
  Conns, Queries, Deaths,  \* of the peer link
  MaxGen, Crashes,     \* of a managed service: generations, processes that exit
  Servers, Reconcilers, Operator,  \* of a client's configuration: entries, who writes them
  Changes, Edits, Kills, Commands, WatchHabits,
  Nothing

NodeAssumption ==
  /\ Publishes \in Nat \ {0} /\ Chunks \in Nat \ {0} /\ Losses \in Nat
  /\ Nothing \notin Transfers /\ Transfers # {} /\ Pieces \in Nat /\ Calls \in Nat
  /\ MaxInflight \in Nat \ {0} /\ Conns # {} /\ Deaths \in Nat
  /\ MaxGen \in Nat \ {0} /\ Crashes \in Nat
  /\ Operator \notin Reconcilers /\ {"races", "overlaps"} \cap WatchHabits = {}
  /\ Changes \in Nat /\ Edits \in Nat /\ Kills \in Nat /\ Commands \in Nat
ASSUME NodeAssumption

VARIABLES
  part,  \* the component that runs in this behaviour
  pub, publishSent, open, known, publishLink, sees, toR, toS, begin, rec, publishFile, final,
  twin, journal, old, breaks, oldSend, oldSent, oldStreamS, oldStreamR, oldLinkUp, oldChanR, oldChanS,
  oldRecv, oldTemp, oldPlace, inputSend, inputSent, inputStreamS, inputStreamR, inputLinkUp,
  inputChanR, inputChanS, inputRecv, inputTemp, inputPlace, handles, used, calls, client,
  relayKind, head, body, got, agent, relayOwner, relaySent, ended, relayUp, down, relayLink,
  handler, installing, caller, current, wire, stuffed, query, deaths, state, gen, alive,
  watched, failed, startTask, stopTask, drain, demand, op, downing, httpCrashes, registry,
  mirror, env, envId, stored, configFile, pc, snap, changes, edits, configCrashes, commands,
  last, sessionOwner, size, ahead, laneBytes, queuedBytes, passed, sessionUp, life, hello, cons,
  held, bootId, sessionKind, asker, pend, cur, reader, template, initPending, lease, det, detId,
  answers, asks

\* Two transfers of artifacts/1 at a time.
Old == INSTANCE ArtifactV1 WITH
  None <- Nothing, PathOf <- [t \in Transfers |-> t], Chunks <- Pieces, Habits <-
  {"together", "slow", "closes", "breaks"}, send <- oldSend, sent <- oldSent, streamS <-
  oldStreamS, streamR <- oldStreamR, linkUp <- oldLinkUp, chanR <- oldChanR, chanS <- oldChanS,
  recv <- oldRecv, temp <- oldTemp, place <- oldPlace

\* Two inputs staged under one name.
Input == INSTANCE InputStaging WITH
  None <- Nothing, PathOf <- [t \in Transfers |-> "name"], Chunks <- Pieces, Habits <-
  {"slow", "closes", "breaks"}, send <- inputSend, sent <- inputSent, streamS <-
  inputStreamS, streamR <- inputStreamR, linkUp <- inputLinkUp, chanR <- inputChanR, chanS <-
  inputChanS, recv <- inputRecv, temp <- inputTemp, place <- inputPlace
\* A watch and the Operator's commands; the registry changes, the user edits.
Watch == INSTANCE Projection WITH
  Passes <- Reconcilers, Crashes <- 0, Habits <- WatchHabits, file <- configFile,
  crashes <- configCrashes

\* The same with commands that are killed at any point, and environments that
\* keep their entries.
Crashing == INSTANCE Projection WITH
  Passes <- Reconcilers, Crashes <- Kills, Habits <- WatchHabits \cup {"keeps"},
  file <- configFile, crashes <- configCrashes
=============================================================================
