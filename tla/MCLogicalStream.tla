--------------------------- MODULE MCLogicalStream ---------------------------
(* Values of the constants of LogicalStream for TLC.                        *)
EXTENDS LogicalStream

\* Two chunks towards the Agent: the second one reuses every part of the
\* stop-and-wait machinery.
SafetyChunks == [opener |-> 1, owner |-> 2]

\* One chunk is enough for a pump that waits, fails and is cancelled.
LivenessChunks == [opener |-> 0, owner |-> 1]

\* A request of the Agent and a message of the process that meets its refusal.
RefusalChunks == [opener |-> 1, owner |-> 1]
=============================================================================
