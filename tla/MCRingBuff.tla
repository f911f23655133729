----------------------------- MODULE MCRingBuff -----------------------------
(***************************************************************************)
(* A ring of three slots whose frame numbers wrap at 16 and whose drop      *)
(* counter wraps at 2, driven with two payloads and lengths on both sides  *)
(* of every limit: 0, 1, the maximum and one more.                         *)
(***************************************************************************)
EXTENDS RingBuff

CONSTANTS p1, p2

MCPayloads == {p1, p2}
MCPushLens == {0, 1, PAYLOAD_MAX, PAYLOAD_MAX + 1}
=============================================================================
