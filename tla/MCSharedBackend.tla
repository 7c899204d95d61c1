--------------------------- MODULE MCSharedBackend ---------------------------
(* Values of the constants of SharedBackend for TLC.                        *)
EXTENDS SharedBackend, TLC

CONSTANTS c1, c2

TwoClients == {c1, c2}

\* Clients are interchangeable in every invariant.
Symmetric == Permutations(TwoClients)
=============================================================================
