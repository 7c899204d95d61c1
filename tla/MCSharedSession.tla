--------------------------- MODULE MCSharedSession ---------------------------
(* Values of the constants of SharedSession for TLC.                        *)
EXTENDS SharedSession

CONSTANTS legacy1, legacy2, modern1, modern2

OneOfEach == {legacy1, modern1}
TwoLegacy == {legacy1, legacy2}
TwoModern == {modern1, modern2}
OneModern == {modern1}
=============================================================================
