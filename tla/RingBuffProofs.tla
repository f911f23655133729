--------------------------- MODULE RingBuffProofs ---------------------------
(***************************************************************************)
(* What TLC checks of the transmit ring on three slots, proved for every   *)
(* depth, payload limit and width.                                         *)
(***************************************************************************)
EXTENDS RingBuff, SequenceTheorems, TLAPS

\* A byte pair written by lwip_htons is a pair of naturals, and reads back as
\* the number that was written.
LEMMA HtonsUndone ==
    ASSUME NEW x \in U16s
    PROVE  /\ lwip_htons(x) \in Nat \X Nat
           /\ lwip_ntohs(lwip_htons(x)) = x
<1>1. BYTE \in Nat /\ BYTE > 0 /\ x \in Nat
  BY RingAssumption DEF U16s
<1>2. x \div BYTE \in Nat /\ x % BYTE \in Nat
  BY <1>1
<1>3. ((x \div BYTE) * BYTE) + (x % BYTE) = x
  BY <1>1
<1> QED
  BY <1>2, <1>3 DEF lwip_htons, lwip_ntohs

\* So do the four bytes of the magic word.
LEMMA HtonlUndone ==
    /\ lwip_htonl(MAGIC) \in Nat \X Nat \X Nat \X Nat
    /\ lwip_ntohl(lwip_htonl(MAGIC)) = MAGIC
<1> DEFINE high == MAGIC \div U16
           low == MAGIC % U16
<1>1. U16 \in Nat /\ U16 > 0 /\ MAGIC \in Nat /\ MAGIC < U16 * U16
  BY RingAssumption
<1>2. high \in Nat /\ low \in U16s /\ high * U16 + low = MAGIC
  BY <1>1 DEF U16s
<1>3. high < U16
  BY <1>1, <1>2 DEF U16s
<1>4. high \in U16s
  BY <1>1, <1>2, <1>3 DEF U16s
<1>5. /\ lwip_htons(high) \in Nat \X Nat /\ lwip_ntohs(lwip_htons(high)) = high
      /\ lwip_htons(low) \in Nat \X Nat /\ lwip_ntohs(lwip_htons(low)) = low
  BY <1>2, <1>4, HtonsUndone
<1> HIDE DEF high, low
<1>6. PICK h, l \in Nat \X Nat : h = lwip_htons(high) /\ l = lwip_htons(low)
  BY <1>5
<1>7. lwip_htonl(MAGIC) = <<h[1], h[2], l[1], l[2]>>
  BY <1>6 DEF lwip_htonl, high, low
<1>8. <<h[1], h[2]>> = h /\ <<l[1], l[2]>> = l
  BY <1>6
<1>9. lwip_ntohl(lwip_htonl(MAGIC)) = lwip_ntohs(h) * U16 + lwip_ntohs(l)
  BY <1>7, <1>8 DEF lwip_ntohl
<1> QED
  BY <1>2, <1>5, <1>6, <1>7, <1>9

\* The frame length never leaves u16: the truncation in the code is exact.
LEMMA LenFits ==
    ASSUME NEW n \in 1 .. PAYLOAD_MAX
    PROVE  /\ ToU16(HEADER_LEN + n) = HEADER_LEN + n
           /\ HEADER_LEN + n \in U16s
           /\ n \in U16s
  BY RingAssumption DEF ToU16, U16s

\* The slot a push writes has the type of a slot and is well formed on the wire.
LEMMA SlotWellFormed ==
    ASSUME NEW id \in U16s, NEW payload \in Payloads, NEW n \in 1 .. PAYLOAD_MAX
    PROVE  LET s == Slot(id, payload, n) IN
           /\ s \in Slots
           /\ s.frame_id = id
           /\ lwip_ntohl(s.header.magic) = MAGIC
           /\ lwip_ntohs(s.header.frame_id) = s.frame_id
           /\ lwip_ntohs(s.header.payload_len) = s.len - HEADER_LEN
           /\ s.len - HEADER_LEN \in 1 .. PAYLOAD_MAX
           /\ s.payload \in Payloads
<1>1. n \in U16s /\ ToU16(HEADER_LEN + n) = HEADER_LEN + n /\ HEADER_LEN + n \in U16s
  BY LenFits
<1>2. /\ lwip_htons(id) \in Nat \X Nat
      /\ lwip_ntohs(lwip_htons(id)) = id
  BY HtonsUndone
<1>3. /\ lwip_htons(n) \in Nat \X Nat
      /\ lwip_ntohs(lwip_htons(n)) = n
  BY <1>1, HtonsUndone
<1>4. (HEADER_LEN + n) - HEADER_LEN = n
  BY RingAssumption
<1> QED
  BY <1>1, <1>2, <1>3, <1>4, HtonlUndone DEF Slot, Slots, Headers, adc_frame_header

-----------------------------------------------------------------------------
(* The invariants of the runs are inductive together.                       *)

WellFormed(s) ==
    /\ lwip_ntohl(s.header.magic) = MAGIC
    /\ lwip_ntohs(s.header.frame_id) = s.frame_id
    /\ lwip_ntohs(s.header.payload_len) = s.len - HEADER_LEN
    /\ s.len - HEADER_LEN \in 1 .. PAYLOAD_MAX
    /\ s.payload \in Payloads

IInv == TypeOK /\ RingShape /\ IdsConsecutive /\ WireHeader /\ ViewFaithful

LEMMA InitIInv == Init => IInv
<1> SUFFICES ASSUME Init PROVE IInv
  OBVIOUS
<1> USE RingAssumption DEF Init, ring_buff_init, Indices, U16s
<1>1. ZeroSlot \in Slots
  BY DEF ZeroSlot, Slots, Headers
<1>2. NoView \in Views
  BY DEF NoView, Views
<1>3. TypeOK
  BY <1>1, <1>2 DEF TypeOK
<1>4. RingShape
  BY DEF RingShape
<1>5. IdsConsecutive /\ WireHeader /\ ViewFaithful
  BY DEF IdsConsecutive, WireHeader, ViewFaithful
<1> QED
  BY <1>3, <1>4, <1>5 DEF IInv

\* Indices of the queue are indices of the array, the slot about to be written
\* is none of the queued ones, and it is the one that follows them.
LEMMA NthFacts ==
    ASSUME TypeOK, RingShape
    PROVE  /\ \A i \in 0 .. count - 1 : Nth(i) \in Indices
           /\ count < DEPTH => \A i \in 0 .. count - 1 : Nth(i) # tail
           /\ count < DEPTH => Nth(count) = tail
           /\ count > 0 => Nth(0) = head
           /\ Advance(tail) \in Indices
           /\ Advance(head) \in Indices
  BY RingAssumption DEF TypeOK, RingShape, Nth, Advance, Indices

LEMMA StutterIInv == IInv /\ UNCHANGED vars => IInv'
  BY DEF IInv, vars, TypeOK, RingShape, IdsConsecutive, WireHeader, ViewFaithful,
         Nth, NthId

LEMMA AcceptIInv ==
    ASSUME IInv, NEW payload \in Payloads \cup {NULL}, NEW n \in PushLens,
           PushAccept(payload, n)
    PROVE  IInv'
<1>1. /\ payload \in Payloads
      /\ n \in 1 .. PAYLOAD_MAX
      /\ count \in 0 .. DEPTH - 1
      /\ next_frame_id \in U16s
      /\ tail \in Indices /\ head \in Indices
      /\ slots \in [Indices -> Slots]
  BY RingAssumption
     DEF PushAccept, IInv, TypeOK, ring_buff_is_full, U16s
<1> DEFINE s == Slot(next_frame_id, payload, n)
<1>2. s \in Slots /\ s.frame_id = next_frame_id /\ WellFormed(s)
  BY <1>1, SlotWellFormed DEF WellFormed
<1>3. /\ slots' = [slots EXCEPT ![tail] = s]
      /\ head' = head
      /\ count' = count + 1
      /\ tail' = Advance(tail)
      /\ next_frame_id' = Increment(next_frame_id, U16)
      /\ drop_cnt' = drop_cnt /\ view' = view /\ ret' = "push_ok"
  BY DEF PushAccept
<1> HIDE DEF s
<1>4. /\ \A i \in 0 .. count - 1 : Nth(i) \in Indices /\ Nth(i) # tail
      /\ Nth(count) = tail
      /\ Advance(tail) \in Indices
  <2>1. count < DEPTH
    BY <1>1, RingAssumption
  <2> QED
    BY <2>1, NthFacts DEF IInv
<1>5. \A i \in 0 .. count : Nth(i)' = Nth(i)
  BY <1>3 DEF Nth
<1>6. \A i \in 0 .. count : slots'[Nth(i)'] = IF i = count THEN s ELSE slots[Nth(i)]
  <2> TAKE i \in 0 .. count
  <2>1. CASE i = count
    BY <2>1, <1>1, <1>3, <1>4, <1>5
  <2>2. CASE i # count
    <3>1. i \in 0 .. count - 1
      BY <2>2, <1>1
    <3> QED
      BY <2>2, <3>1, <1>1, <1>3, <1>4, <1>5
  <2> QED
    BY <2>1, <2>2
<1>7. TypeOK'
  BY <1>1, <1>2, <1>3, <1>4, RingAssumption
     DEF IInv, TypeOK, Increment, U16s
<1>8. RingShape'
  BY <1>1, <1>3, RingAssumption DEF IInv, TypeOK, RingShape, Advance, Indices
<1>9. IdsConsecutive'
  <2>1. \A i \in 0 .. count - 1 : NthId(i)' = NthId(i)
    BY <1>1, <1>3, RingAssumption DEF NthId, Increment, U16s
  <2>2. \A i \in {count} : NthId(i)' = next_frame_id
    BY <1>1, <1>3, RingAssumption DEF NthId, Increment, U16s
  <2>3. \A i \in 0 .. count : slots'[Nth(i)'].frame_id = NthId(i)'
    <3> TAKE i \in 0 .. count
    <3>1. CASE i = count
      BY <3>1, <2>2, <1>2, <1>6
    <3>2. CASE i # count
      <4>1. i \in 0 .. count - 1
        BY <3>2, <1>1
      <4> QED
        BY <4>1, <3>2, <2>1, <1>6 DEF IInv, IdsConsecutive
    <3> QED
      BY <3>1, <3>2
  <2> QED
    BY <2>3, <1>1, <1>3 DEF IdsConsecutive
<1>10. WireHeader'
  <2>1. \A i \in 0 .. count - 1 : WellFormed(slots[Nth(i)])
    BY DEF IInv, WireHeader, WellFormed
  <2>2. \A i \in 0 .. count : WellFormed(slots'[Nth(i)'])
    <3> TAKE i \in 0 .. count
    <3>1. CASE i = count
      BY <3>1, <1>2, <1>6
    <3>2. CASE i # count
      <4>1. i \in 0 .. count - 1
        BY <3>2, <1>1
      <4> QED
        BY <4>1, <3>2, <2>1, <1>6
    <3> QED
      BY <3>1, <3>2
  <2> QED
    BY <2>2, <1>1, <1>3 DEF WireHeader, WellFormed
<1>11. ViewFaithful'
  <2> SUFFICES ASSUME view # NoView
               PROVE  /\ count' > 0 /\ view.data = head'
                      /\ slots'[view.data].len = view.len
                      /\ slots'[view.data].frame_id = view.frame_id
    BY <1>3 DEF ViewFaithful
  <2>1. count > 0 /\ view.data = head /\ head = Nth(0)
    BY <1>1, RingAssumption DEF IInv, ViewFaithful, Nth, Indices
  <2>2. slots'[head] = slots[head]
    BY <2>1, <1>1, <1>3, <1>4
  <2> QED
    BY <2>1, <2>2, <1>1, <1>3 DEF IInv, ViewFaithful
<1> QED
  BY <1>7, <1>8, <1>9, <1>10, <1>11 DEF IInv

LEMMA DropIInv ==
    ASSUME IInv, NEW payload, NEW n, PushDrop(payload, n)
    PROVE  IInv'
<1>1. TypeOK'
  BY RingAssumption DEF IInv, TypeOK, PushDrop, Increment
<1>2. RingShape' /\ IdsConsecutive' /\ WireHeader' /\ ViewFaithful'
  BY DEF IInv, PushDrop, RingShape, IdsConsecutive, WireHeader, ViewFaithful, Nth, NthId
<1> QED
  BY <1>1, <1>2 DEF IInv

LEMMA PeekIInv == IInv /\ ring_buff_peek => IInv'
<1> SUFFICES ASSUME IInv, ring_buff_peek PROVE IInv'
  OBVIOUS
<1>1. UNCHANGED ring
  BY DEF ring_buff_peek
<1>2. RingShape' /\ IdsConsecutive' /\ WireHeader'
  BY <1>1 DEF IInv, ring, RingShape, IdsConsecutive, WireHeader, Nth, NthId
<1>3. CASE count = 0
  BY <1>1, <1>2, <1>3
     DEF IInv, TypeOK, ViewFaithful, ring_buff_peek, ring_buff_is_empty, ring
<1>4. CASE count # 0
  <2>1. /\ view' = [data |-> head, len |-> slots[head].len,
                    frame_id |-> slots[head].frame_id]
        /\ ret' = "peek_ok"
    BY <1>4 DEF ring_buff_peek, ring_buff_is_empty
  <2>2. /\ head \in Indices /\ slots[head] \in Slots /\ count > 0
    BY <1>4, RingAssumption DEF IInv, TypeOK
  <2>3. view' \in Views
    BY <2>1, <2>2 DEF Views, Slots
  <2>4. TypeOK'
    BY <1>1, <2>1, <2>3 DEF IInv, TypeOK, ring
  <2>5. ViewFaithful'
    BY <1>1, <2>1, <2>2 DEF ViewFaithful, ring
  <2> QED
    BY <1>2, <2>4, <2>5 DEF IInv
<1> QED
  BY <1>3, <1>4

LEMMA PopIInv == IInv /\ ring_buff_pop => IInv'
<1> SUFFICES ASSUME IInv, ring_buff_pop PROVE IInv'
  OBVIOUS
<1>1. /\ view' = NoView /\ ret' = "popped"
      /\ UNCHANGED <<slots, tail, next_frame_id, drop_cnt>>
  BY DEF ring_buff_pop
<1>2. ViewFaithful'
  BY <1>1 DEF ViewFaithful
<1>3. NoView \in Views
  BY RingAssumption DEF NoView, Views, U16s
<1>4. CASE count = 0
  <2>1. UNCHANGED <<head, count>>
    BY <1>4 DEF ring_buff_pop, ring_buff_is_empty
  <2>2. TypeOK'
    BY <1>1, <1>3, <2>1 DEF IInv, TypeOK
  <2>3. RingShape' /\ IdsConsecutive' /\ WireHeader'
    BY <1>1, <2>1 DEF IInv, RingShape, IdsConsecutive, WireHeader, Nth, NthId
  <2> QED
    BY <1>2, <2>2, <2>3 DEF IInv
<1>5. CASE count # 0
  <2>1. head' = Advance(head) /\ count' = count - 1
    BY <1>5 DEF ring_buff_pop, ring_buff_is_empty
  <2>2. /\ count \in 1 .. DEPTH /\ head \in Indices /\ tail \in Indices
        /\ next_frame_id \in U16s /\ Advance(head) \in Indices
    BY <1>5, NthFacts, RingAssumption DEF IInv, TypeOK
  <2>3. TypeOK'
    BY <1>1, <1>3, <2>1, <2>2, RingAssumption DEF IInv, TypeOK
  <2>4. RingShape'
    BY <1>1, <2>1, <2>2, RingAssumption DEF IInv, RingShape, Advance, Indices
  <2>5. \A i \in 0 .. count' - 1 :
           i + 1 \in 0 .. count - 1 /\ Nth(i)' = Nth(i + 1) /\ NthId(i)' = NthId(i + 1)
    BY <1>1, <2>1, <2>2, RingAssumption DEF Nth, NthId, Advance, Indices, U16s
  <2>6. IdsConsecutive'
    BY <1>1, <2>5 DEF IInv, IdsConsecutive
  <2>7. WireHeader'
    BY <1>1, <2>5 DEF IInv, WireHeader
  <2> QED
    BY <1>2, <2>3, <2>4, <2>6, <2>7 DEF IInv
<1> QED
  BY <1>4, <1>5

LEMMA NextIInv == IInv /\ [Next]_vars => IInv'
<1> SUFFICES ASSUME IInv, [Next]_vars PROVE IInv'
  OBVIOUS
<1>1. ASSUME NEW payload \in Payloads \cup {NULL}, NEW n \in PushLens,
             ring_buff_push_payload(payload, n)
      PROVE  IInv'
  <2>1. CASE PushInvalid(payload, n)
    BY <2>1 DEF PushInvalid, IInv, ring, TypeOK, RingShape, IdsConsecutive,
               WireHeader, ViewFaithful, Nth, NthId
  <2>2. CASE PushDrop(payload, n)
    BY <2>2, DropIInv
  <2>3. CASE PushAccept(payload, n)
    BY <2>3, AcceptIInv
  <2> QED
    BY <1>1, <2>1, <2>2, <2>3 DEF ring_buff_push_payload
<1>2. CASE ring_buff_peek
  BY <1>2, PeekIInv
<1>3. CASE ring_buff_pop
  BY <1>3, PopIInv
<1>4. CASE UNCHANGED vars
  BY <1>4, StutterIInv
<1> QED
  BY <1>1, <1>2, <1>3, <1>4 DEF Next

\* The inductive invariant: every operation keeps types, shape, numbering, the
\* wire format and the held view together.
THEOREM IInvAlways == Spec => []IInv
<1> QED
  BY InitIInv, NextIInv, PTL DEF Spec

\* ring_buff.c never leaves its types or its slot array, whatever the depth.
THEOREM TypeCorrect == Spec => []TypeOK
<1> QED
  BY IInvAlways, PTL DEF IInv

\* head, tail and count always agree.
THEOREM ShapeKept == Spec => []RingShape
<1> QED
  BY IInvAlways, PTL DEF IInv

\* Queued frames carry consecutive numbers up to next_frame_id, modulo 2^16.
THEOREM NumbersConsecutive == Spec => []IdsConsecutive
<1> QED
  BY IInvAlways, PTL DEF IInv

\* Every queued frame parses at the receiver to its own number and length.
THEOREM HeadersReadable == Spec => []WireHeader
<1> QED
  BY IInvAlways, PTL DEF IInv

\* A view shows the oldest frame for as long as it is held.
THEOREM ViewsFaithful == Spec => []ViewFaithful
<1> QED
  BY IInvAlways, PTL DEF IInv

\* No operation writes to the slot behind a held view.
LEMMA ViewStableStep ==
    IInv /\ [Next]_vars =>
        [view # NoView /\ view' = view => slots'[view.data] = slots[view.data]]_vars
<1> SUFFICES ASSUME IInv, Next, view # NoView
             PROVE  slots'[view.data] = slots[view.data]
  BY DEF vars
<1>1. /\ view.data = head /\ count > 0 /\ head \in Indices /\ tail \in Indices
      /\ slots \in [Indices -> Slots] /\ count \in 0 .. DEPTH
  BY DEF IInv, ViewFaithful, TypeOK
<1>2. ASSUME NEW payload \in Payloads \cup {NULL}, NEW n \in PushLens,
             ring_buff_push_payload(payload, n)
      PROVE  slots'[view.data] = slots[view.data]
  <2>1. CASE PushAccept(payload, n)
    <3>1. head # tail
      BY <2>1, <1>1, RingAssumption
         DEF PushAccept, ring_buff_is_full, IInv, RingShape, Indices
    <3> QED
      BY <2>1, <3>1, <1>1 DEF PushAccept
  <2>2. CASE PushInvalid(payload, n) \/ PushDrop(payload, n)
    BY <2>2 DEF PushInvalid, PushDrop, ring
  <2> QED
    BY <1>2, <2>1, <2>2 DEF ring_buff_push_payload
<1>3. CASE ring_buff_peek \/ ring_buff_pop
  BY <1>3 DEF ring_buff_peek, ring_buff_pop, ring
<1> QED
  BY <1>2, <1>3 DEF Next

\* The reader may send straight from the slot: its bytes do not move.
THEOREM ViewsStable == Spec => ViewStable
<1> QED
  BY IInvAlways, ViewStableStep, PTL DEF Spec, ViewStable

-----------------------------------------------------------------------------
(* The ring implements the bounded queue.                                   *)

Frames == [frame_id : U16s, payload : Payloads, len : U16s]

ContentsFacts ==
    /\ Contents \in Seq(Frames)
    /\ Len(Contents) = count
    /\ \A i \in 1 .. count : Contents[i] = Frame(slots[Nth(i - 1)])

LEMMA ContentsSeq == IInv => ContentsFacts
<1> SUFFICES ASSUME IInv PROVE ContentsFacts
  OBVIOUS
<1>1. count \in Nat
  BY RingAssumption DEF IInv, TypeOK
<1>2. ASSUME NEW i \in 1 .. count
      PROVE  Frame(slots[Nth(i - 1)]) \in Frames
  <2>1. i - 1 \in 0 .. count - 1
    BY <1>1
  <2>2. /\ slots[Nth(i - 1)] \in Slots
        /\ slots[Nth(i - 1)].payload \in Payloads
    BY <2>1, NthFacts DEF IInv, TypeOK, WireHeader
  <2> QED
    BY <2>2 DEF Frame, Frames, Slots
<1>3. Contents \in [1 .. count -> Frames]
  BY <1>2 DEF Contents
<1>4. Contents \in Seq(Frames) /\ Len(Contents) = count
  BY <1>1, <1>3
<1> QED
  BY <1>4 DEF ContentsFacts, Contents

LEMMA ContentsSeqNext == IInv' => ContentsFacts'
<1> QED
  BY ContentsSeq, PTL

LEMMA QueueInit == Init => FQ!Init
  BY DEF Init, ring_buff_init, FQ!Init, Contents

\* A push that is accepted appends one frame to the queue.
LEMMA AcceptImplements ==
    ASSUME IInv, IInv', NEW payload \in Payloads \cup {NULL}, NEW n \in PushLens,
           PushAccept(payload, n)
    PROVE  FQ!Next
<1>1. /\ payload \in Payloads
      /\ n \in 1 .. PAYLOAD_MAX
      /\ count \in 0 .. DEPTH - 1
      /\ next_frame_id \in U16s
      /\ tail \in Indices /\ head \in Indices
      /\ slots \in [Indices -> Slots]
  BY RingAssumption
     DEF PushAccept, IInv, TypeOK, ring_buff_is_full, U16s
<1> DEFINE s == Slot(next_frame_id, payload, n)
           q == FQ!QFrame(next_frame_id, payload, n)
<1>2. Frame(s) = q /\ q \in Frames
  BY <1>1, LenFits DEF Frame, Slot, FQ!QFrame, Frames
<1>3. /\ slots' = [slots EXCEPT ![tail] = s]
      /\ head' = head /\ count' = count + 1
      /\ next_frame_id' = FQ!Increment(next_frame_id, U16)
      /\ drop_cnt' = drop_cnt
  BY DEF PushAccept, Increment, FQ!Increment
<1> HIDE DEF s, q
<1>4. ContentsFacts /\ ContentsFacts'
  BY ContentsSeq, ContentsSeqNext
<1>5. count < DEPTH /\ \A i \in 0 .. count - 1 : Nth(i) \in Indices /\ Nth(i) # tail
  BY <1>1, NthFacts, RingAssumption DEF IInv
<1>6. Nth(count) = tail
  BY <1>5, NthFacts DEF IInv
<1>7. \A i \in 0 .. count : Nth(i)' = Nth(i)
  BY <1>3 DEF Nth
<1>8. /\ Append(Contents, q) \in Seq(Frames)
      /\ Len(Append(Contents, q)) = count + 1
      /\ \A i \in 1 .. count : Append(Contents, q)[i] = Contents[i]
      /\ Append(Contents, q)[count + 1] = q
  BY <1>2, <1>4, AppendProperties DEF ContentsFacts
<1>9. ASSUME NEW i \in 1 .. count + 1
      PROVE  Contents'[i] = Append(Contents, q)[i]
  <2>0. i - 1 \in 0 .. count /\ i \in 1 .. count'
    BY <1>1, <1>3
  <2>1. Contents'[i] = Frame(slots'[Nth(i - 1)])
    <3>1. Contents'[i] = Frame(slots'[Nth(i - 1)'])
      BY <2>0, <1>4 DEF ContentsFacts, Frame
    <3> QED
      BY <3>1, <2>0, <1>7
  <2>2. CASE i = count + 1
    <3>1. i - 1 = count
      BY <2>2, <1>1
    <3>2. slots'[tail] = s
      BY <1>1, <1>3
    <3> QED
      BY <2>1, <2>2, <3>1, <3>2, <1>2, <1>6, <1>8
  <2>3. CASE i # count + 1
    <3>1. i - 1 \in 0 .. count - 1 /\ i \in 1 .. count
      BY <2>3, <1>1
    <3>2. slots'[Nth(i - 1)] = slots[Nth(i - 1)]
      BY <3>1, <1>1, <1>3, <1>5
    <3> QED
      BY <2>1, <3>1, <3>2, <1>4, <1>8 DEF ContentsFacts
  <2> QED
    BY <2>2, <2>3
<1>10. Contents' = Append(Contents, q)
  <2>1. Contents' \in Seq(Frames) /\ Len(Contents') = count + 1
    BY <1>3, <1>4 DEF ContentsFacts, Frames, U16s
  <2> QED
    BY <2>1, <1>8, <1>9, SeqEqual
<1>11. FQ!Accept(payload, n)
  BY <1>1, <1>3, <1>4, <1>5, <1>10 DEF FQ!Accept, ContentsFacts, q
<1> QED
  BY <1>1, <1>11 DEF FQ!Next

\* A push that is dropped refuses: the queue stays as it is.
LEMMA DropImplements ==
    ASSUME IInv, NEW payload, NEW n \in PushLens, PushDrop(payload, n)
    PROVE  FQ!Next
<1>1. n \in 1 .. U16 - 1
  BY RingAssumption DEF PushDrop
<1>2. n > PAYLOAD_MAX \/ Len(Contents) = DEPTH
  BY ContentsSeq, RingAssumption
     DEF PushDrop, ring_buff_is_full, ContentsFacts, IInv, TypeOK
<1>3. UNCHANGED <<Contents, next_frame_id>>
  BY DEF PushDrop, Contents, Nth, Frame
<1>4. drop_cnt' = FQ!Increment(drop_cnt, U32)
  BY DEF PushDrop, Increment, FQ!Increment
<1>5. FQ!Refuse(n)
  BY <1>2, <1>3, <1>4 DEF FQ!Refuse
<1> QED
  BY <1>1, <1>5 DEF FQ!Next

\* A pop takes the oldest frame off; on an empty ring it does nothing.
LEMMA PopImplements ==
    ASSUME IInv, IInv', ring_buff_pop
    PROVE  [FQ!Next]_FQ!qvars
<1>1. CASE count = 0
  BY <1>1 DEF ring_buff_pop, ring_buff_is_empty, FQ!qvars, Contents, Nth, Frame
<1>2. CASE count # 0
  <2>1. head' = Advance(head) /\ count' = count - 1 /\ slots' = slots
        /\ UNCHANGED <<next_frame_id, drop_cnt>>
    BY <1>2 DEF ring_buff_pop, ring_buff_is_empty
  <2>2. count \in 1 .. DEPTH /\ head \in Indices /\ DEPTH \in Nat
    BY <1>2, RingAssumption DEF IInv, TypeOK
  <2>3. ContentsFacts /\ ContentsFacts'
    BY ContentsSeq, ContentsSeqNext
  <2>4. Contents # << >>
    BY <2>2, <2>3 DEF ContentsFacts
  <2>5. /\ Tail(Contents) \in Seq(Frames)
        /\ Len(Tail(Contents)) = count - 1
        /\ \A i \in 1 .. count - 1 : Tail(Contents)[i] = Contents[i + 1]
    BY <2>3, <2>4, HeadTailProperties DEF ContentsFacts
  <2>6. \A i \in 0 .. count - 2 : Nth(i)' = Nth(i + 1)
    BY <2>1, <2>2 DEF Nth, Advance, Indices
  <2>7. ASSUME NEW i \in 1 .. count - 1
        PROVE  Contents'[i] = Tail(Contents)[i]
    <3>1. i - 1 \in 0 .. count - 2 /\ i \in 1 .. count' /\ i + 1 \in 1 .. count
          /\ (i - 1) + 1 = i /\ (i + 1) - 1 = i
      BY <2>1, <2>2
    <3>2. Contents'[i] = Frame(slots'[Nth(i - 1)'])
      BY <3>1, <2>3 DEF ContentsFacts, Frame
    <3>3. Contents'[i] = Frame(slots[Nth(i)])
      BY <3>1, <3>2, <2>1, <2>6
    <3>4. Contents[i + 1] = Frame(slots[Nth(i)])
      BY <3>1, <2>3 DEF ContentsFacts
    <3> QED
      BY <3>3, <3>4, <2>5
  <2>8. Contents' = Tail(Contents)
    <3>1. Contents' \in Seq(Frames) /\ Len(Contents') = count - 1
      BY <2>1, <2>3 DEF ContentsFacts, Frames, U16s
    <3> QED
      BY <3>1, <2>5, <2>7, SeqEqual
  <2>9. FQ!Remove
    BY <2>1, <2>4, <2>8 DEF FQ!Remove
  <2> QED
    BY <2>9 DEF FQ!Next
<1> QED
  BY <1>1, <1>2

LEMMA QueueStep == IInv /\ IInv' /\ [Next]_vars => [FQ!Next]_FQ!qvars
<1> SUFFICES ASSUME IInv, IInv', [Next]_vars PROVE [FQ!Next]_FQ!qvars
  OBVIOUS
<1>1. ASSUME NEW payload \in Payloads \cup {NULL}, NEW n \in PushLens,
             ring_buff_push_payload(payload, n)
      PROVE  [FQ!Next]_FQ!qvars
  <2>1. CASE PushInvalid(payload, n)
    BY <2>1 DEF PushInvalid, ring, FQ!qvars, Contents, Nth, Frame
  <2>2. CASE PushDrop(payload, n)
    BY <2>2, DropImplements
  <2>3. CASE PushAccept(payload, n)
    BY <2>3, AcceptImplements
  <2> QED
    BY <1>1, <2>1, <2>2, <2>3 DEF ring_buff_push_payload
<1>2. CASE ring_buff_peek
  BY <1>2 DEF ring_buff_peek, ring, FQ!qvars, Contents, Nth, Frame
<1>3. CASE ring_buff_pop
  BY <1>3, PopImplements
<1>4. CASE UNCHANGED vars
  BY <1>4 DEF vars, FQ!qvars, Contents, Nth, Frame
<1> QED
  BY <1>1, <1>2, <1>3, <1>4 DEF Next

\* Whatever the callers do, the ring is a bounded FIFO queue of numbered frames.
THEOREM RingImplementsQueue == Spec => RefinesQueue
<1> QED
  BY IInvAlways, QueueInit, QueueStep, PTL DEF Spec, RefinesQueue, FQ!Spec
=============================================================================
