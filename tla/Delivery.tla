------------------------------ MODULE Delivery ------------------------------
(***************************************************************************)
(* What the publishers of one artifact (a digest and a name) are promised: *)
(* the file appears whole in the receiver's workspace, once and for all,   *)
(* and a publisher is told of success only when it is there.  ArtifactV2   *)
(* and ArtifactV1 implement it.                                            *)
(***************************************************************************)
CONSTANTS Pubs   \* the publishes of the artifact

VARIABLES
  final,   \* the file under its final name: "none", "whole" or "torn"
  told     \* told[p]: what the publisher was told

vars == <<final, told>>

Init == final = "none" /\ told = [p \in Pubs |-> "none"]

\* A complete copy is linked to the final name.
Put == final = "none" /\ final' = "whole" /\ UNCHANGED told

\* A copy nobody was told of is taken back: its transfer was cancelled while
\* it was being linked.
Withdraw ==
  /\ final = "whole" /\ \A p \in Pubs : told[p] # "ok"
  /\ final' = "none" /\ UNCHANGED told

Tell(p) ==
  /\ told[p] = "none" /\ final = "whole"
  /\ told' = [told EXCEPT ![p] = "ok"] /\ UNCHANGED final

Refuse(P) ==
  /\ \A p \in P : told[p] = "none"
  /\ told' = [p \in Pubs |-> IF p \in P THEN "failed" ELSE told[p]]
  /\ UNCHANGED final

Next ==
  \/ Put
  \/ Withdraw
  \/ \E p \in Pubs : Tell(p)
  \/ \E P \in SUBSET Pubs : Refuse(P)

Spec == Init /\ [][Next]_vars
=============================================================================
