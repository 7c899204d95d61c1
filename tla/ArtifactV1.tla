----------------------------- MODULE ArtifactV1 -----------------------------
(***************************************************************************)
(* Delivery of artifacts with artifacts/1: every transfer has a directory  *)
(* of its own in the inbox, which stays when the stream ends.              *)
(***************************************************************************)
EXTENDS ChunkedTransfer

OwnDirectory == \A t, u \in Transfers : PathOf[t] = PathOf[u] => t = u

\* Begin takes what the limits allow: MAX_CONCURRENT_ARTIFACTS is out of reach
\* of the transfers here.
BeginArtifact == Begin(Transfers)

\* The stream is gone when nothing is received for it.
StreamGone ==
  /\ streamR = "closing" /\ \A t \in Transfers : ~recv[t].table
  /\ streamR' = "closed"
  /\ UNCHANGED <<send, sent, streamS, linkUp, chanR, chanS, recv, temp, place>>

LinkedSome == \E t \in Transfers : Linked(t)

Next == SenderSteps \/ ReceiverSteps \/ BeginArtifact \/ StreamGone \/ LinkedSome

\* Tasks run and frames are read; timeouts and clients owe nothing.
Fairness ==
  /\ WF_transferVars(Reply)
  /\ WF_transferVars(BeginArtifact \/ Chunk \/ End \/ Cancel \/ Close \/ StreamGone)
  /\ \A t \in Transfers : WF_transferVars(Worker(t) \/ Abort(t)) /\ WF_transferVars(Linked(t))

Spec == TransferInit /\ [][Next]_transferVars
FairSpec == Spec /\ Fairness

\* Each transfer is a delivery as promised: complete under its final name
\* before the sender is told, taken back only while nobody knows of it.
Promise(t) == INSTANCE Delivery WITH
  Pubs <- {t},
  final <- IF place[PathOf[t]] = None THEN "none"
           ELSE IF place[PathOf[t]] = t THEN "whole" ELSE "torn",
  told <- [u \in {t} |-> IF send[u] \in {"ok", "failed"} THEN send[u] ELSE "none"]
Delivers ==
  /\ \A t \in Transfers : Promise(t)!Init
  /\ [][\A t \in Transfers : [Promise(t)!Next]_(Promise(t)!vars)]_transferVars

\* Every transfer is answered without the help of a timeout, every receive of
\* one that failed ends, and no temporary file is left.
TransfersEnd ==
  \A t \in Transfers :
    /\ send[t] \in Busy ~> send[t] \in {"ok", "failed"}
    /\ send[t] = "failed" /\ recv[t].table ~> ~recv[t].table
    /\ send[t] = "failed" ~> t \notin temp
=============================================================================
