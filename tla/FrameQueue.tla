----------------------------- MODULE FrameQueue -----------------------------
(***************************************************************************)
(* What the transmit ring promises its users: a bounded first-in first-out *)
(* queue of frames.  Every accepted payload becomes a frame with the next  *)
(* 16-bit sequence number; a payload that is too long or that finds the    *)
(* queue full is refused, counted and leaves everything else alone; frames *)
(* leave in the order they came.  No slots, no indices, no wrap-around.    *)
(***************************************************************************)
EXTENDS Naturals, Sequences

CONSTANTS DEPTH,         \* most frames queued at once
          PAYLOAD_MAX,   \* longest payload
          HEADER_LEN,    \* bytes of header in front of a payload
          U16,           \* sequence numbers are 0 .. U16 - 1
          U32,           \* the drop counter is 0 .. U32 - 1
          Payloads       \* payload contents

VARIABLES queue,         \* the frames not yet removed, oldest first
          next_frame_id, \* the sequence number of the next accepted payload
          drop_cnt       \* how many payloads were refused

qvars == <<queue, next_frame_id, drop_cnt>>

QFrame(id, payload, n) ==
    [frame_id |-> id, payload |-> payload, len |-> HEADER_LEN + n]

Increment(x, m) == IF x + 1 = m THEN 0 ELSE x + 1

Init == /\ queue = << >>
        /\ next_frame_id = 0
        /\ drop_cnt = 0

Accept(payload, n) ==
    /\ n \in 1 .. PAYLOAD_MAX
    /\ Len(queue) < DEPTH
    /\ queue' = Append(queue, QFrame(next_frame_id, payload, n))
    /\ next_frame_id' = Increment(next_frame_id, U16)
    /\ UNCHANGED drop_cnt

\* Refused because it is too long, or because the queue is full.
Refuse(n) ==
    /\ n > PAYLOAD_MAX \/ Len(queue) = DEPTH
    /\ drop_cnt' = Increment(drop_cnt, U32)
    /\ UNCHANGED <<queue, next_frame_id>>

Remove ==
    /\ queue # << >>
    /\ queue' = Tail(queue)
    /\ UNCHANGED <<next_frame_id, drop_cnt>>

Next == \/ \E payload \in Payloads, n \in 1 .. PAYLOAD_MAX : Accept(payload, n)
        \/ \E n \in 1 .. U16 - 1 : Refuse(n)
        \/ Remove

Spec == Init /\ [][Next]_qvars
=============================================================================
