----------------------------- MODULE ByteChannel -----------------------------
(***************************************************************************)
(* What one direction of a logical stream promises to its two ends: chunks *)
(* come out in the order they went in, none twice and none skipped, and    *)
(* the sender counts a chunk as acknowledged only after it came out; at    *)
(* most one chunk that came out is not acknowledged yet.                   *)
(***************************************************************************)
EXTENDS Naturals, Sequences

VARIABLES
  sent,       \* chunks the sender handed over; the i-th has value i
  delivered,  \* the values that came out
  acked       \* chunks the sender counts as acknowledged

chanVars == <<sent, delivered, acked>>

ChanInit == sent = 0 /\ delivered = <<>> /\ acked = 0

Send ==
  /\ sent' = sent + 1
  /\ UNCHANGED <<delivered, acked>>

Deliver ==
  /\ Len(delivered) = acked /\ acked < sent
  /\ delivered' = Append(delivered, Len(delivered) + 1)
  /\ UNCHANGED <<sent, acked>>

Acknowledge ==
  /\ acked < Len(delivered)
  /\ acked' = acked + 1
  /\ UNCHANGED <<sent, delivered>>

ChanNext == Send \/ Deliver \/ Acknowledge

ChanSpec == ChanInit /\ [][ChanNext]_chanVars
=============================================================================
