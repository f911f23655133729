------------------------------ MODULE RingBuff ------------------------------
(***************************************************************************)
(* The transmit ring of middleware/buff/ring_buff.c: a fixed array of      *)
(* slots, each holding one complete frame (header and payload), between    *)
(* the DMA task, which pushes, and the TCP task, which peeks, sends and    *)
(* pops.  The ring has no lock of its own; both tasks hold ring_mutex      *)
(* around each call, so an operation is one step here.  They may interleave *)
(* between calls, which is how a peeked view meets later pushes.           *)
(*                                                                         *)
(* A payload's bytes are one abstract value; bytes of a slot beyond the    *)
(* frame's length are left out, as nothing reads them.  The header is its  *)
(* bytes as they go out on the wire.  The widths of u8, u16 and u32 are    *)
(* constants, so that wrap-around is reached by TLC.                       *)
(***************************************************************************)
EXTENDS Integers, Sequences

CONSTANTS DEPTH,        \* RING_BUFF_DEPTH
          PAYLOAD_MAX,  \* RING_BUFF_PAYLOAD_MAX
          HEADER_LEN,   \* sizeof(adc_frame_header_t)
          BYTE,         \* 2^8
          U16,          \* 2^16
          U32,          \* 2^32, as far as drop_cnt is concerned
          MAGIC,        \* ADC_FRAME_MAGIC, a u32 of four bytes
          Payloads,     \* what the callers' payload pointers point at
          NULL,         \* the null pointer, and the content of unused memory
          PushLens      \* the lengths callers pass

ASSUME RingAssumption ==
    /\ DEPTH \in Nat \ {0}
    /\ PAYLOAD_MAX \in Nat \ {0}
    /\ HEADER_LEN \in Nat
    /\ BYTE \in Nat \ {0}
    /\ U16 = BYTE * BYTE
    /\ U16 \in Nat
    /\ U32 \in Nat \ {0}
    /\ MAGIC \in 0 .. U16 * U16 - 1
    /\ HEADER_LEN + PAYLOAD_MAX < U16
    /\ DEPTH < U16
    /\ PushLens \subseteq 0 .. U16 - 1
    /\ NULL \notin Payloads

VARIABLES slots,          \* the slot array
          head,           \* index of the oldest frame
          tail,           \* index of the slot written next
          count,          \* frames in the ring
          next_frame_id,  \* u16
          drop_cnt,       \* u32
          view,           \* the view the reader holds from peek until pop
          ret             \* what the last call returned

ring == <<slots, head, tail, count, next_frame_id, drop_cnt>>
vars == <<slots, head, tail, count, next_frame_id, drop_cnt, view, ret>>

Indices == 0 .. DEPTH - 1
U16s == 0 .. U16 - 1

\* x++ on an unsigned type of m values
Increment(x, m) == IF x + 1 = m THEN 0 ELSE x + 1

\* Mutant: the index wraps one slot too late.
AdvanceLate(idx) == IF idx >= DEPTH THEN 0 ELSE idx + 1

\* idx++; if (idx >= RING_BUFF_DEPTH) idx = 0
Advance(idx) == IF idx + 1 >= DEPTH THEN 0 ELSE idx + 1

\* (u16) of the sum of two u16s
ToU16(x) == IF x < U16 THEN x ELSE x - U16

\* Mutant: the bytes as the little-endian CPU holds them.
HostOrder(x) == <<x % BYTE, x \div BYTE>>

\* A u16 in network order: the two bytes as they lie in memory.
lwip_htons(x) == <<x \div BYTE, x % BYTE>>

\* What the receiver of those two bytes reads.
lwip_ntohs(b) == b[1] * BYTE + b[2]

\* Mutant: the word as the little-endian CPU holds it.
HostOrderWord(x) ==
    LET high == HostOrder(x \div U16)  low == HostOrder(x % U16)
    IN  <<low[1], low[2], high[1], high[2]>>

\* A u32 in network order, its four bytes as they lie in memory.
lwip_htonl(x) ==
    LET high == lwip_htons(x \div U16)  low == lwip_htons(x % U16)
    IN  <<high[1], high[2], low[1], low[2]>>

\* What the receiver of those four bytes reads.
lwip_ntohl(b) == lwip_ntohs(<<b[1], b[2]>>) * U16 + lwip_ntohs(<<b[3], b[4]>>)

adc_frame_header(id, n) ==
    [magic |-> lwip_htonl(MAGIC), frame_id |-> lwip_htons(id), payload_len |-> lwip_htons(n)]

Slot(id, payload, n) ==
    [header |-> adc_frame_header(id, n), payload |-> payload,
     len |-> ToU16(HEADER_LEN + n), frame_id |-> id]

ZeroSlot ==
    [header |-> [magic |-> <<0, 0, 0, 0>>, frame_id |-> <<0, 0>>, payload_len |-> <<0, 0>>],
     payload |-> NULL, len |-> 0, frame_id |-> 0]

NoView == [data |-> -1, len |-> 0, frame_id |-> 0]

ring_buff_is_empty == count = 0

\* Mutant: room for one frame more than there are slots.
FullTooLate == count > DEPTH

ring_buff_is_full == count >= DEPTH

ring_buff_init ==
    /\ slots = [i \in Indices |-> ZeroSlot]
    /\ head = 0
    /\ tail = 0
    /\ count = 0
    /\ next_frame_id = 0
    /\ drop_cnt = 0

Init == /\ ring_buff_init
        /\ view = NoView
        /\ ret = "none"

-----------------------------------------------------------------------------
\* A null pointer or an empty payload: nothing is touched, not even drop_cnt.
PushInvalid(payload, n) ==
    /\ payload = NULL \/ n = 0
    /\ ret' = "push_failed"
    /\ UNCHANGED <<ring, view>>

\* Mutant: a dropped payload uses up a frame number.
PushDropNumbered(payload, n) ==
    /\ payload # NULL /\ n # 0
    /\ n > PAYLOAD_MAX \/ ring_buff_is_full
    /\ drop_cnt' = Increment(drop_cnt, U32)
    /\ next_frame_id' = Increment(next_frame_id, U16)
    /\ ret' = "push_failed"
    /\ UNCHANGED <<slots, head, tail, count, view>>

\* Mutant: a full ring gives up its oldest frame.
PushDropOldest(payload, n) ==
    /\ payload # NULL /\ n # 0
    /\ ring_buff_is_full
    /\ head' = Advance(head)
    /\ count' = count - 1
    /\ drop_cnt' = Increment(drop_cnt, U32)
    /\ ret' = "push_failed"
    /\ UNCHANGED <<slots, tail, next_frame_id, view>>

\* Too long, or no room: dropped and counted; no frame id is used up.
PushDrop(payload, n) ==
    /\ payload # NULL /\ n # 0
    /\ n > PAYLOAD_MAX \/ ring_buff_is_full
    /\ drop_cnt' = Increment(drop_cnt, U32)
    /\ ret' = "push_failed"
    /\ UNCHANGED <<slots, head, tail, count, next_frame_id, view>>

PushAccept(payload, n) ==
    /\ payload # NULL /\ n # 0
    /\ n <= PAYLOAD_MAX
    /\ ~ ring_buff_is_full
    /\ slots' = [slots EXCEPT ![tail] = Slot(next_frame_id, payload, n)]
    /\ next_frame_id' = Increment(next_frame_id, U16)
    /\ tail' = Advance(tail)
    /\ count' = count + 1
    /\ ret' = "push_ok"
    /\ UNCHANGED <<head, drop_cnt, view>>

ring_buff_push_payload(payload, n) ==
    \/ PushInvalid(payload, n)
    \/ PushDrop(payload, n)
    \/ PushAccept(payload, n)

\* view.data is a pointer into the slot, not a copy of it.
ring_buff_peek ==
    \/ /\ ring_buff_is_empty
       /\ ret' = "peek_empty"
       /\ UNCHANGED <<ring, view>>
    \/ /\ ~ ring_buff_is_empty
       /\ view' = [data |-> head, len |-> slots[head].len,
                   frame_id |-> slots[head].frame_id]
       /\ ret' = "peek_ok"
       /\ UNCHANGED ring

\* Mutant: the count is not lowered.
PopKeepsCount ==
    /\ ~ ring_buff_is_empty
    /\ head' = Advance(head)
    /\ view' = NoView
    /\ ret' = "popped"
    /\ UNCHANGED <<slots, tail, count, next_frame_id, drop_cnt>>

\* Moves head only; the reader must not use its view any more.
ring_buff_pop ==
    /\ IF ring_buff_is_empty
       THEN UNCHANGED <<head, count>>
       ELSE /\ head' = Advance(head)
            /\ count' = count - 1
    /\ view' = NoView
    /\ ret' = "popped"
    /\ UNCHANGED <<slots, tail, next_frame_id, drop_cnt>>

Next == \/ \E payload \in Payloads \cup {NULL}, n \in PushLens :
              ring_buff_push_payload(payload, n)
        \/ ring_buff_peek
        \/ ring_buff_pop

Spec == Init /\ [][Next]_vars

-----------------------------------------------------------------------------
\* The slot holding the i-th oldest frame, i from 0.
Nth(i) == IF head + i < DEPTH THEN head + i ELSE head + i - DEPTH

\* The number given to the i-th oldest frame, i from 0, counted back from the
\* next number to give.
NthId(i) == IF next_frame_id + i >= count
            THEN next_frame_id + i - count
            ELSE next_frame_id + i - count + U16

Headers == [magic : Nat \X Nat \X Nat \X Nat, frame_id : Nat \X Nat,
            payload_len : Nat \X Nat]
Slots == [header : Headers, payload : Payloads \cup {NULL}, len : U16s, frame_id : U16s]
Views == [data : Indices \cup {-1}, len : U16s, frame_id : U16s]

\* Every variable keeps the type the C declarations give it, and the three
\* indices stay inside the slot array.
TypeOK ==
    /\ slots \in [Indices -> Slots]
    /\ head \in Indices
    /\ tail \in Indices
    /\ count \in 0 .. DEPTH
    /\ next_frame_id \in U16s
    /\ drop_cnt \in 0 .. U32 - 1
    /\ view \in Views
    /\ ret \in {"none", "push_ok", "push_failed", "peek_ok", "peek_empty", "popped"}

\* head, tail and count are three counters updated by different operations
\* that must always describe the same stretch of the array: tail is count
\* slots past head, so a full and an empty ring differ only in count.
RingShape == tail = IF head + count < DEPTH THEN head + count ELSE head + count - DEPTH

\* The queued frames carry consecutive 16-bit numbers that end just before
\* next_frame_id, across wrap-around of the numbers and of the array and
\* whatever was refused in between: a receiver that sees a gap has lost a
\* frame after it was queued.
IdsConsecutive ==
    \A i \in 0 .. count - 1 : slots[Nth(i)].frame_id = NthId(i)

\* Every queued frame is well formed on the wire: what the receiver reads
\* from the header's bytes is the magic word, the slot's number and the
\* length of the payload that follows.
WireHeader ==
    \A i \in 0 .. count - 1 :
        LET s == slots[Nth(i)] IN
        /\ lwip_ntohl(s.header.magic) = MAGIC
        /\ lwip_ntohs(s.header.frame_id) = s.frame_id
        /\ lwip_ntohs(s.header.payload_len) = s.len - HEADER_LEN
        /\ s.len - HEADER_LEN \in 1 .. PAYLOAD_MAX
        /\ s.payload \in Payloads

\* As long as the reader has not popped, the frame behind the view it peeked
\* is the oldest frame, with the length and number it was shown: pushes made
\* meanwhile never overwrite it.
ViewFaithful ==
    view # NoView =>
        /\ count > 0
        /\ view.data = head
        /\ slots[view.data].len = view.len
        /\ slots[view.data].frame_id = view.frame_id

\* While a view is held, no step changes the bytes behind it: the reader may
\* send from the slot itself without copying first.
ViewStable ==
    [][view # NoView /\ view' = view => slots'[view.data] = slots[view.data]]_vars

-----------------------------------------------------------------------------
\* The ring as the queue of frames it stores.
Frame(s) == [frame_id |-> s.frame_id, payload |-> s.payload, len |-> s.len]

Contents == [i \in 1 .. count |-> Frame(slots[Nth(i - 1)])]

FQ == INSTANCE FrameQueue WITH queue <- Contents

\* The circular array implements the plain bounded queue: accepted payloads
\* come out once, in order, under consecutive numbers, and a refusal changes
\* the drop counter and nothing else.
RefinesQueue == FQ!Spec
=============================================================================
