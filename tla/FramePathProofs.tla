-------------------------- MODULE FramePathProofs ---------------------------
(***************************************************************************)
(* What TLC checks of the way of a frame on two frames of queue and two of *)
(* send buffer, proved for every size, every width, and every number of    *)
(* passes of the DMA task and of failing calls.                            *)
(***************************************************************************)
EXTENDS FramePath, SequenceTheorems, TLAPS

-----------------------------------------------------------------------------
(* The inductive invariant, part by part.                                   *)

\* Who holds the ring's mutex, and what its holder and the DMA task rely on.
LockInv ==
    /\ ring_mutex = "tcp" <=> tcp_pc \in {"send", "account"}
    /\ ring_mutex = "tcp" => queue # << >>
    /\ dma_pc = "push" => passes >= 1

\* The last pass that has pushed, or has seen its push refused.
LastPushed == IF dma_pc = "push" THEN passes - 1 ELSE passes

\* The frame of pass n has been handed to lwIP: what is queued is from later
\* passes, but for the oldest, which may be n itself when a call has failed on it.
Handed(n) ==
    /\ n <= LastPushed
    /\ \A i \in DOMAIN queue :
          \/ n < queue[i].payload
          \/ i = 1 /\ written /\ n = queue[1].payload

\* The queue holds frames in the order of the passes that pushed them.
QueueInOrder ==
    /\ \A i \in DOMAIN queue : queue[i].payload <= LastPushed
    /\ \A i, j \in DOMAIN queue : i < j => queue[i].payload < queue[j].payload

\* What the PC and lwIP have, the queue is done with.
HandedInv == /\ Handed(received)
             /\ \A i \in DOMAIN stream : Handed(stream[i])

\* Frame n lies before frame m on its way: a repetition costs a failed call.
Follows(n, m, fails) == n < m \/ (n = m /\ fails > 0)

StreamSorted ==
    /\ \A i \in DOMAIN stream : stream[i] # REPORT => Follows(received, stream[i], failures)
    /\ \A i, j \in DOMAIN stream :
          i < j /\ stream[i] # REPORT /\ stream[j] # REPORT =>
              Follows(stream[i], stream[j], failures)

\* The oldest frame has been written without a failed call only while the result
\* of that very call is being acted on.
WrittenInv ==
    /\ written => queue # << >>
    /\ written => failures > 0 \/ (tcp_pc = "account" /\ err = "ERR_OK")
    /\ tcp_pc = "account" /\ err = "ERR_OK" => written

OrderInv == QueueInOrder /\ HandedInv /\ StreamSorted /\ WrittenInv

\* A frame that is given up has cost a failed call, counted or about to be.
GivenUp == IF tcp_pc = "account" /\ err = "ERR_MEM" THEN 1 ELSE 0

VanishInv == /\ unsent <= tcp_send_other_err
             /\ tcp_send_other_err + GivenUp <= failures

\* The books of the counters balance up to multiples of their width.
Pending == IF dma_pc = "push" THEN 1 ELSE 0

Counted == tcp_send_ok + tcp_send_other_err + Len(queue) + drop_cnt

CountInv == \E k \in Int : dma_done - Counted = Pending + k * U32

\* Data is ahead of the report only in the pass that has sent it, up to the next
\* attempt to send the report.
AheadInv ==
    \/ ahead = 0
    \/ /\ ahead = 1 /\ conn = "up" /\ reports = 0
       /\ tcp_pc \in {"account", "delay", "link", "report"}

-----------------------------------------------------------------------------
(* Types.                                                                   *)

LEMMA IncrementType ==
    /\ \A x \in 0 .. U32 - 1 : Increment(x) \in 0 .. U32 - 1
    /\ \A x \in 0 .. U16 - 1 : Q!Increment(x, U16) \in 0 .. U16 - 1
  BY FramePathAssumption DEF Increment, Q!Increment

\* What the task's calls do to the queue.
LEMMA AppendFrame ==
    ASSUME TypeOK, LockInv, dma_pc = "push", Q!Accept(passes, 1)
    PROVE  /\ queue' = Append(queue, Q!QFrame(next_frame_id, passes, 1))
           /\ Q!QFrame(next_frame_id, passes, 1) \in QFrames
           /\ Q!QFrame(next_frame_id, passes, 1).payload = passes
           /\ queue' \in Seq(QFrames) /\ Len(queue') = Len(queue) + 1
           /\ Len(queue') <= DEPTH
           /\ queue'[Len(queue) + 1].payload = passes
           /\ \A i \in DOMAIN queue : queue'[i] = queue[i]
           /\ DOMAIN queue' = 1 .. Len(queue) + 1
           /\ DOMAIN queue = 1 .. Len(queue)
<1> DEFINE f == Q!QFrame(next_frame_id, passes, 1)
<1>1. f \in QFrames /\ f.payload = passes
  BY DEF Q!QFrame, QFrames, TypeOK, LockInv
<1>2. queue \in Seq(QFrames) /\ Len(queue) < DEPTH /\ Len(queue) \in Nat /\ DEPTH \in Nat
  BY FramePathAssumption, LenProperties DEF TypeOK, Q!Accept
<1>3. queue' = Append(queue, f)
  BY DEF Q!Accept
<1> HIDE DEF f
<1>4. /\ queue' \in Seq(QFrames) /\ Len(queue') = Len(queue) + 1
      /\ queue'[Len(queue) + 1] = f
      /\ \A i \in 1 .. Len(queue) : queue'[i] = queue[i]
  BY <1>1, <1>2, <1>3, AppendProperties
<1>5. DOMAIN queue = 1 .. Len(queue) /\ DOMAIN queue' = 1 .. Len(queue')
  BY <1>2, <1>4, LenProperties
<1> QED
  BY <1>1, <1>2, <1>3, <1>4, <1>5 DEF f

LEMMA RemoveFrame ==
    ASSUME TypeOK, Q!Remove
    PROVE  /\ queue' = Tail(queue) /\ queue # << >>
           /\ queue' \in Seq(QFrames) /\ Len(queue') = Len(queue) - 1
           /\ Len(queue) \in Nat \ {0}
           /\ DOMAIN queue' = 1 .. Len(queue) - 1
           /\ DOMAIN queue = 1 .. Len(queue)
           /\ \A i \in DOMAIN queue' : queue'[i] = queue[i + 1]
<1>1. queue \in Seq(QFrames) /\ queue # << >> /\ queue' = Tail(queue)
  BY DEF TypeOK, Q!Remove
<1> QED
  BY <1>1, HeadTailProperties, LenProperties, EmptySeq

\* What the task's calls do to the stream, by their results.
LEMMA SendEffect ==
    ASSUME TypeOK, NEW d \in 0 .. PASSES, NEW r, tcp_client_send_data(d, r)
    PROVE  /\ r \in Results
           /\ \/ stream' = stream /\ failures' = failures /\ r # "ERR_OK" /\ r # "ERR_MEM"
              \/ /\ stream' = stream /\ r = "ERR_MEM"
                 /\ failures' = failures + 1 /\ failures < FAILURES
              \/ /\ stream' = Append(stream, d) /\ conn = "up" /\ Len(stream) < SNDBUF
                 /\ failures' = failures + 1 /\ failures < FAILURES /\ r # "ERR_OK"
              \/ /\ stream' = Append(stream, d) /\ conn = "up" /\ Len(stream) < SNDBUF
                 /\ failures' = failures /\ r = "ERR_OK"
  BY DEF tcp_client_send_data, NotConnected, NoRoom, WriteFails, OutputFails, Sent, Room,
         Results

LEMMA AppendStream ==
    ASSUME TypeOK, NEW d \in 0 .. PASSES, stream' = Append(stream, d)
    PROVE  /\ stream' \in Seq(0 .. PASSES) /\ Len(stream') = Len(stream) + 1
           /\ Len(stream) \in Nat
           /\ stream'[Len(stream) + 1] = d
           /\ \A i \in DOMAIN stream : stream'[i] = stream[i]
           /\ DOMAIN stream' = 1 .. Len(stream) + 1
           /\ DOMAIN stream = 1 .. Len(stream)
           /\ stream' # stream
<1>1. stream \in Seq(0 .. PASSES)
  BY DEF TypeOK
<1>2. /\ stream' \in Seq(0 .. PASSES) /\ Len(stream') = Len(stream) + 1
      /\ Len(stream) \in Nat
      /\ stream'[Len(stream) + 1] = d
      /\ \A i \in 1 .. Len(stream) : stream'[i] = stream[i]
  BY <1>1, AppendProperties, LenProperties
<1>3. DOMAIN stream = 1 .. Len(stream) /\ DOMAIN stream' = 1 .. Len(stream')
  BY <1>1, <1>2, LenProperties
<1>4. Len(stream) + 1 # Len(stream)
  BY <1>2
<1>5. stream' # stream
  BY <1>2, <1>4
<1> QED
  BY <1>2, <1>3, <1>5

LEMMA HeadQueued ==
    ASSUME TypeOK, queue # << >>
    PROVE  /\ 1 \in DOMAIN queue /\ Head(queue) = queue[1]
           /\ queue[1] \in QFrames
           /\ Head(queue).payload \in 1 .. PASSES
           /\ Head(queue).payload = queue[1].payload
<1>1. queue \in Seq(QFrames)
  BY DEF TypeOK
<1>2. 1 \in DOMAIN queue /\ Head(queue) = queue[1] /\ queue[1] \in QFrames
  BY <1>1, EmptySeq, LenProperties, ElementOfSeq, HeadTailProperties
<1> QED
  BY <1>2 DEF QFrames

LEMMA DeliverEffect ==
    ASSUME TypeOK, LwipDeliver
    PROVE  /\ stream' = Tail(stream) /\ stream # << >>
           /\ stream' \in Seq(0 .. PASSES) /\ Len(stream') = Len(stream) - 1
           /\ Len(stream) \in Nat \ {0}
           /\ DOMAIN stream' = 1 .. Len(stream) - 1
           /\ DOMAIN stream = 1 .. Len(stream)
           /\ \A i \in DOMAIN stream' : stream'[i] = stream[i + 1]
           /\ 1 \in DOMAIN stream /\ Head(stream) = stream[1]
           /\ stream[1] \in 0 .. PASSES
<1>1. stream \in Seq(0 .. PASSES) /\ stream # << >> /\ stream' = Tail(stream)
  BY DEF TypeOK, LwipDeliver
<1>2. /\ stream' \in Seq(0 .. PASSES) /\ Len(stream') = Len(stream) - 1
      /\ Len(stream) \in Nat \ {0}
      /\ DOMAIN stream' = 1 .. Len(stream) - 1
      /\ DOMAIN stream = 1 .. Len(stream)
      /\ \A i \in DOMAIN stream' : stream'[i] = stream[i + 1]
  BY <1>1, HeadTailProperties, LenProperties, EmptySeq
<1>3. 1 \in DOMAIN stream /\ Head(stream) = stream[1]
  BY <1>1, <1>2
<1> QED
  BY <1>1, <1>2, <1>3, ElementOfSeq

\* The steps that leave the frames, their way and the counters alone.
QuietStep ==
    \/ LwipEnter \/ LwipConnected \/ LwipOther
    \/ Start \/ LinkUp \/ LinkDown \/ Retry \/ Take \/ TakeNothing \/ Delay
    \/ StatsTake \/ StatsGive

LEMMA StepKinds ==
    ASSUME [Next]_vars
    PROVE  \/ QuietStep \/ UNCHANGED vars
           \/ DmaDone \/ DmaPush
           \/ LwipDown \/ LwipDeliver \/ Report \/ Abort \/ Send \/ Account
  BY DEF Next, app_dma_task, LwipThread, app_tcp_task, app_stats_task, QuietStep

LEMMA QuietEffect ==
    ASSUME QuietStep
    PROVE  /\ UNCHANGED <<queue, next_frame_id, drop_cnt, stream, received, ahead>>
           /\ UNCHANGED <<tcp_send_ok, tcp_send_buf_err, tcp_send_other_err>>
           /\ UNCHANGED <<dma_pc, dma_done, passes, err, written, unsent, failures>>
           /\ tcp_pc = "account" <=> tcp_pc' = "account"
  BY DEF QuietStep, LwipEnter, LwipConnected, LwipOther, LwipLeave, Start, LinkUp,
         LinkDown, Retry, Take, TakeNothing, Delay, StatsTake, StatsGive,
         ring, link, stats, dma, sent

LEMMA EmptyStream == << >> \in Seq(0 .. PASSES) /\ Len(<< >>) = 0 /\ DOMAIN << >> = {}
  BY EmptySeq, LenProperties

LEMMA TypeStep ==
    ASSUME TypeOK, LockInv, [Next]_vars
    PROVE  TypeOK'
<1> USE DEF ring, link, stats, dma, sent
<1>1. CASE UNCHANGED vars
  BY <1>1 DEF vars, TypeOK
<1>2. CASE QuietStep
  <2>1. /\ conn' \in {"none", "trying", "up"} /\ reports' \in 0 .. 1
        /\ ring_mutex' \in {"free", "tcp", "stats"} /\ core_lock' \in {"free", "lwip"}
        /\ tcp_pc' \in TcpPCs
    BY <1>2 DEF QuietStep, LwipEnter, LwipConnected, LwipOther, LwipLeave, Start, LinkUp,
                LinkDown, Retry, Take, TakeNothing, Delay, StatsTake, StatsGive,
                TypeOK, TcpPCs, C!Up, C!Attempt
  <2> QED
    BY <1>2, <2>1, QuietEffect DEF TypeOK
<1>3. CASE DmaDone
  <2>1. passes' \in 0 .. PASSES /\ dma_done' \in 0 .. U32 - 1
    BY <1>3, IncrementType, FramePathAssumption DEF DmaDone, TypeOK
  <2> QED
    BY <1>3, <2>1 DEF DmaDone, TypeOK
<1>4. CASE DmaPush
  <2>1. CASE Q!Accept(passes, 1)
    <3>1. next_frame_id' \in 0 .. U16 - 1 /\ UNCHANGED drop_cnt
      BY <2>1, IncrementType DEF Q!Accept, TypeOK
    <3>2. queue' \in Seq(QFrames) /\ Len(queue') <= DEPTH
      BY <1>4, <2>1, AppendFrame DEF DmaPush
    <3> QED
      BY <1>4, <3>1, <3>2 DEF DmaPush, TypeOK
  <2>2. CASE Q!Refuse(1)
    <3>1. drop_cnt' \in 0 .. U32 - 1 /\ UNCHANGED <<queue, next_frame_id>>
      BY <2>2, IncrementType DEF Q!Refuse, TypeOK, Increment
    <3> QED
      BY <1>4, <3>1 DEF DmaPush, TypeOK
  <2> QED
    BY <1>4, <2>1, <2>2 DEF DmaPush
<1>5. CASE LwipDown \/ Abort
  <2>1. /\ stream' \in {stream, << >>} /\ conn' \in {"none", "trying", "up"}
        /\ ahead' \in Nat /\ UNCHANGED <<reports, received, failures>>
        /\ core_lock' \in {"free", "lwip"} /\ tcp_pc' \in TcpPCs
    BY <1>5 DEF LwipDown, LwipLeave, Abort, Break, C!Down, TypeOK, TcpPCs
  <2>2. stream \in Seq(0 .. PASSES) /\ Len(stream) <= SNDBUF /\ 0 <= SNDBUF
    BY FramePathAssumption DEF TypeOK
  <2>3. CASE stream' = stream
    BY <1>5, <2>1, <2>2, <2>3 DEF LwipDown, LwipLeave, Abort, TypeOK
  <2>4. CASE stream' = << >>
    <3>1. stream' \in Seq(0 .. PASSES) /\ Len(stream') <= SNDBUF
      BY <2>2, <2>4, EmptyStream
    <3> QED
      BY <1>5, <2>1, <3>1 DEF LwipDown, LwipLeave, Abort, TypeOK
  <2> QED
    BY <2>1, <2>3, <2>4
<1>6. CASE LwipDeliver
  <2>1. stream' \in Seq(0 .. PASSES) /\ Len(stream') <= SNDBUF /\ received' \in 0 .. PASSES
    BY <1>6, DeliverEffect, FramePathAssumption DEF TypeOK, LwipDeliver
  <2> QED
    BY <1>6, <2>1 DEF LwipDeliver, LwipLeave, TypeOK
<1>7. ASSUME NEW d \in 0 .. PASSES, NEW r, tcp_client_send_data(d, r)
      PROVE  /\ stream' \in Seq(0 .. PASSES) /\ Len(stream') <= SNDBUF
             /\ failures' \in 0 .. FAILURES /\ r \in Results
  <2>1. /\ stream \in Seq(0 .. PASSES) /\ Len(stream) <= SNDBUF
        /\ failures \in 0 .. FAILURES /\ FAILURES \in Nat /\ SNDBUF \in Nat
    BY FramePathAssumption DEF TypeOK
  <2>2. /\ r \in Results
        /\ stream' = stream \/ (stream' = Append(stream, d) /\ Len(stream) < SNDBUF)
        /\ failures' = failures \/ (failures' = failures + 1 /\ failures < FAILURES)
    BY <1>7, SendEffect
  <2>3. failures' \in 0 .. FAILURES
    BY <2>1, <2>2
  <2>4. CASE stream' = stream
    BY <2>1, <2>2, <2>3, <2>4
  <2>5. CASE stream' = Append(stream, d) /\ Len(stream) < SNDBUF
    <3>1. /\ stream' \in Seq(0 .. PASSES) /\ Len(stream') = Len(stream) + 1
          /\ Len(stream) \in Nat
      BY <1>7, <2>5, AppendStream
    <3>2. Len(stream') <= SNDBUF
      BY <2>1, <2>5, <3>1
    <3> QED
      BY <2>2, <2>3, <3>1, <3>2
  <2> QED
    BY <2>2, <2>4, <2>5
<1>8. CASE Report
  <2>1. PICK result \in Results :
            /\ tcp_client_send_data(REPORT, result)
            /\ IF result = "ERR_OK" THEN C!Report ELSE UNCHANGED <<conn, reports>>
    BY <1>8 DEF Report
  <2>2. REPORT \in 0 .. PASSES
    BY FramePathAssumption DEF REPORT
  <2>3. /\ stream' \in Seq(0 .. PASSES) /\ Len(stream') <= SNDBUF
        /\ failures' \in 0 .. FAILURES
    BY <2>1, <2>2, <1>7
  <2>4. conn' \in {"none", "trying", "up"} /\ reports' \in 0 .. 1
    BY <2>1 DEF C!Report, TypeOK
  <2> QED
    BY <1>8, <2>3, <2>4 DEF Report, TypeOK, TcpPCs
<1>9. CASE Send
  <2>1. Head(queue).payload \in 0 .. PASSES
    BY <1>9, HeadQueued DEF Send, LockInv
  <2>2. /\ stream' \in Seq(0 .. PASSES) /\ Len(stream') <= SNDBUF
        /\ failures' \in 0 .. FAILURES /\ err' \in Results
    BY <1>9, <2>1, <1>7 DEF Send
  <2> QED
    BY <1>9, <2>2 DEF Send, TypeOK, TcpPCs
<1>10. CASE Account
  <2>1. /\ tcp_send_ok' = tcp_send_ok \/ tcp_send_ok' = Increment(tcp_send_ok)
        /\ \/ tcp_send_buf_err' = tcp_send_buf_err
           \/ tcp_send_buf_err' = Increment(tcp_send_buf_err)
        /\ \/ tcp_send_other_err' = tcp_send_other_err
           \/ tcp_send_other_err' = Increment(tcp_send_other_err)
    BY <1>10 DEF Account, Outcome
  <2>2. {tcp_send_ok', tcp_send_buf_err', tcp_send_other_err'} \subseteq 0 .. U32 - 1
    BY <2>1, IncrementType DEF TypeOK
  <2>3. Pop \/ Keep
    BY <1>10 DEF Account, Outcome
  <2>4. unsent' \in Nat /\ written' \in BOOLEAN /\ UNCHANGED <<next_frame_id, drop_cnt>>
    <3>1. CASE Keep
      BY <3>1 DEF Keep, TypeOK
    <3>2. CASE Pop
      <4>1. unsent' \in {unsent, unsent + 1} /\ written' = FALSE
        BY <3>2 DEF Pop
      <4>2. UNCHANGED <<next_frame_id, drop_cnt>>
        BY <3>2 DEF Pop, Q!Remove
      <4>3. unsent' \in Nat
        BY <4>1 DEF TypeOK
      <4> QED
        BY <4>1, <4>2, <4>3
    <3> QED
      BY <2>3, <3>1, <3>2
  <2>5. queue' \in Seq(QFrames) /\ Len(queue') <= DEPTH
    <3>1. CASE Keep
      BY <3>1 DEF Keep, TypeOK
    <3>2. CASE Pop
      <4>1. /\ queue' \in Seq(QFrames) /\ Len(queue') = Len(queue) - 1
            /\ Len(queue) \in Nat \ {0}
        BY <3>2, RemoveFrame DEF Pop
      <4> QED
        BY <4>1, FramePathAssumption DEF TypeOK
    <3> QED
      BY <2>3, <3>1, <3>2
  <2> QED
    BY <1>10, <2>2, <2>4, <2>5 DEF Account, TypeOK, TcpPCs, Results
<1> QED
  BY StepKinds, <1>1, <1>2, <1>3, <1>4, <1>5, <1>6, <1>8, <1>9, <1>10

-----------------------------------------------------------------------------
(* The locks.                                                               *)

LEMMA LockStep ==
    ASSUME TypeOK, LockInv, [Next]_vars
    PROVE  LockInv'
<1> USE DEF ring, link, stats, dma, sent
<1>1. CASE UNCHANGED vars
  BY <1>1 DEF vars, LockInv
<1>2. CASE QuietStep
  <2>1. CASE Take
    BY <2>1 DEF Take, LockInv
  <2>2. CASE StatsTake \/ StatsGive
    BY <2>2 DEF StatsTake, StatsGive, LockInv
  <2>3. CASE \/ LwipEnter \/ LwipConnected \/ LwipOther
             \/ Start \/ LinkUp \/ LinkDown \/ Retry \/ TakeNothing \/ Delay
    BY <2>3 DEF LwipEnter, LwipConnected, LwipOther, LwipLeave, Start, LinkUp,
                LinkDown, Retry, TakeNothing, Delay, LockInv
  <2> QED
    BY <1>2, <2>1, <2>2, <2>3 DEF QuietStep
<1>3. CASE DmaDone
  BY <1>3 DEF DmaDone, LockInv, TypeOK
<1>4. CASE DmaPush
  BY <1>4 DEF DmaPush, LockInv
<1>5. CASE LwipDown \/ LwipDeliver \/ Report \/ Abort
  BY <1>5 DEF LwipDown, LwipDeliver, LwipLeave, Report, Abort, LockInv
<1>6. CASE Send
  BY <1>6 DEF Send, LockInv
<1>7. CASE Account
  BY <1>7 DEF Account, LockInv
<1> QED
  BY StepKinds, <1>1, <1>2, <1>3, <1>4, <1>5, <1>6, <1>7

-----------------------------------------------------------------------------
(* The order of the passes is kept.                                         *)

\* Numbers, as the types give them.
LEMMA Numbers ==
    ASSUME TypeOK
    PROVE  /\ received \in Nat /\ passes \in Nat /\ LastPushed \in Int /\ failures \in Nat
           /\ DOMAIN queue = 1 .. Len(queue) /\ Len(queue) \in Nat
           /\ DOMAIN stream = 1 .. Len(stream) /\ Len(stream) \in Nat
           /\ \A i \in DOMAIN queue : queue[i].payload \in Nat
           /\ \A i \in DOMAIN stream : stream[i] \in Nat
<1>1. /\ queue \in Seq(QFrames) /\ stream \in Seq(0 .. PASSES)
      /\ received \in Nat /\ passes \in Nat /\ failures \in Nat
  BY FramePathAssumption DEF TypeOK
<1>2. /\ \A i \in DOMAIN queue : queue[i] \in QFrames
      /\ \A i \in DOMAIN stream : stream[i] \in 0 .. PASSES
  BY <1>1, LenProperties, ElementOfSeq
<1>3. /\ \A i \in DOMAIN queue : queue[i].payload \in Nat
      /\ \A i \in DOMAIN stream : stream[i] \in Nat
  BY <1>2, FramePathAssumption DEF QFrames
<1>4. LastPushed \in Int
  BY <1>1 DEF LastPushed
<1> QED
  BY <1>1, <1>3, <1>4, LenProperties

\* A step that leaves the queue, the stream and what has been written alone.
LEMMA OrderStays ==
    ASSUME OrderInv, LastPushed' = LastPushed,
           UNCHANGED <<queue, stream, received, written, failures, err>>,
           tcp_pc = "account" <=> tcp_pc' = "account"
    PROVE  OrderInv'
  BY DEF OrderInv, QueueInOrder, HandedInv, Handed, StreamSorted, Follows, WrittenInv

LEMMA OrderPush ==
    ASSUME TypeOK, LockInv, OrderInv, DmaPush
    PROVE  OrderInv'
<1> USE DEF ring, link, stats, dma, sent
<1>1. /\ dma_pc = "push" /\ dma_pc' = "wait"
      /\ UNCHANGED <<stream, received, written, failures, err, tcp_pc, passes>>
  BY DEF DmaPush
<1>2. LastPushed = passes - 1 /\ LastPushed' = passes /\ passes \in Nat
  BY <1>1, Numbers DEF LastPushed
<1>3. CASE Q!Refuse(1)
  <2>1. queue' = queue
    BY <1>3 DEF Q!Refuse
  <2>2. QueueInOrder'
    BY <1>2, <2>1, Numbers DEF OrderInv, QueueInOrder
  <2>3. \A n \in Nat : Handed(n) => Handed(n)'
    BY <1>1, <1>2, <2>1 DEF Handed
  <2>4. HandedInv'
    BY <1>1, <2>3, Numbers DEF OrderInv, HandedInv
  <2> QED
    BY <1>1, <2>1, <2>2, <2>4 DEF OrderInv, StreamSorted, Follows, WrittenInv
<1>4. CASE Q!Accept(passes, 1)
  <2>1. /\ Len(queue) \in Nat
        /\ queue'[Len(queue) + 1].payload = passes
        /\ \A i \in 1 .. Len(queue) : queue'[i] = queue[i]
        /\ DOMAIN queue' = 1 .. Len(queue) + 1
        /\ DOMAIN queue = 1 .. Len(queue)
        /\ queue' # << >>
    BY <1>1, <1>4, AppendFrame, Numbers, EmptySeq
  <2>2. \A i \in 1 .. Len(queue) :
            queue[i].payload \in Nat /\ queue[i].payload <= passes - 1
    BY <1>2, <2>1, Numbers DEF OrderInv, QueueInOrder
  <2>3. \A i \in DOMAIN queue' : i \in 1 .. Len(queue) \/ i = Len(queue) + 1
    BY <2>1
  <2>4. QueueInOrder'
    <3>1. \A i \in DOMAIN queue' : queue'[i].payload <= passes
      BY <1>2, <2>1, <2>2, <2>3
    <3>2. ASSUME NEW i \in DOMAIN queue', NEW j \in DOMAIN queue', i < j
          PROVE  queue'[i].payload < queue'[j].payload
      <4>1. i \in 1 .. Len(queue)
        BY <2>1, <3>2
      <4>2. CASE j \in 1 .. Len(queue)
        BY <2>1, <3>2, <4>1, <4>2 DEF OrderInv, QueueInOrder
      <4>3. CASE j = Len(queue) + 1
        BY <1>2, <2>1, <2>2, <4>1, <4>3
      <4> QED
        BY <2>3, <4>2, <4>3
    <3> QED
      BY <1>2, <3>1, <3>2 DEF QueueInOrder
  <2>5. ASSUME NEW n \in Nat, Handed(n)
        PROVE  Handed(n)'
    <3>1. n <= passes - 1
      BY <1>2, <2>5 DEF Handed
    <3>2. ASSUME NEW i \in DOMAIN queue'
          PROVE  n < queue'[i].payload \/ (i = 1 /\ written /\ n = queue'[1].payload)
      <4>1. CASE i \in 1 .. Len(queue)
        BY <2>1, <2>5, <4>1 DEF Handed
      <4>2. CASE i = Len(queue) + 1
        BY <1>2, <2>1, <3>1, <4>2
      <4> QED
        BY <2>3, <4>1, <4>2
    <3> QED
      BY <1>1, <1>2, <3>1, <3>2 DEF Handed
  <2>6. HandedInv'
    BY <1>1, <2>5, Numbers DEF OrderInv, HandedInv
  <2> QED
    BY <1>1, <2>1, <2>4, <2>6 DEF OrderInv, StreamSorted, Follows, WrittenInv
<1> QED
  BY <1>3, <1>4 DEF DmaPush

\* What breaks a connection takes the stream with it, or finds none.
LEMMA OrderBreak ==
    ASSUME TypeOK, OrderInv, LastPushed' = LastPushed, stream' = << >>,
           UNCHANGED <<queue, received, written, failures, err>>,
           tcp_pc = "account" <=> tcp_pc' = "account"
    PROVE  OrderInv'
<1>1. DOMAIN stream' = {}
  BY EmptyStream
<1> QED
  BY <1>1 DEF OrderInv, QueueInOrder, HandedInv, Handed, StreamSorted, Follows, WrittenInv

LEMMA OrderDeliver ==
    ASSUME TypeOK, OrderInv, LwipDeliver
    PROVE  OrderInv'
<1> USE DEF ring, link, stats, dma, sent
<1>1. /\ UNCHANGED <<queue, written, failures, err, tcp_pc, dma_pc, passes>>
      /\ received' = IF Head(stream) = REPORT THEN received ELSE Head(stream)
  BY DEF LwipDeliver, LwipLeave
<1>2. /\ Len(stream) \in Nat \ {0}
      /\ DOMAIN stream' = 1 .. Len(stream) - 1
      /\ DOMAIN stream = 1 .. Len(stream)
      /\ \A i \in DOMAIN stream' : stream'[i] = stream[i + 1]
      /\ 1 \in DOMAIN stream /\ Head(stream) = stream[1]
  BY DeliverEffect
<1>3. received' = received \/ (received' = stream[1] /\ stream[1] # REPORT)
  BY <1>1, <1>2
<1>4. \A i \in DOMAIN stream' : i + 1 \in DOMAIN stream /\ 1 < i + 1
  BY <1>2
<1>5. LastPushed' = LastPushed
  BY <1>1 DEF LastPushed
<1>6. \A n : Handed(n)' <=> Handed(n)
  BY <1>1, <1>5 DEF Handed
<1>7. HandedInv'
  BY <1>2, <1>3, <1>4, <1>6 DEF OrderInv, HandedInv
<1>9. \A i \in DOMAIN stream' :
          stream'[i] # REPORT => Follows(received', stream'[i], failures)
  BY <1>2, <1>3, <1>4 DEF OrderInv, StreamSorted
<1>10. ASSUME NEW i \in DOMAIN stream', NEW j \in DOMAIN stream',
              i < j, stream'[i] # REPORT, stream'[j] # REPORT
       PROVE  Follows(stream'[i], stream'[j], failures)
  <2>1. i + 1 < j + 1
    BY <1>2, <1>10
  <2> QED
    BY <1>2, <1>4, <1>10, <2>1 DEF OrderInv, StreamSorted
<1>11. StreamSorted'
  BY <1>1, <1>9, <1>10 DEF StreamSorted
<1> QED
  BY <1>1, <1>5, <1>7, <1>11 DEF OrderInv, QueueInOrder, WrittenInv

\* What is appended to the stream follows all that is there.
LEMMA OrderAppend ==
    ASSUME TypeOK, OrderInv, NEW d \in 0 .. PASSES, stream' = Append(stream, d),
           UNCHANGED <<queue, received>>, LastPushed' = LastPushed,
           failures' \in Nat, failures <= failures', written => written',
           Handed(d)',
           d # REPORT => Follows(received, d, failures'),
           d # REPORT => \A i \in DOMAIN stream :
                             stream[i] # REPORT => Follows(stream[i], d, failures')
    PROVE  HandedInv' /\ StreamSorted'
<1>1. /\ stream'[Len(stream) + 1] = d
      /\ \A i \in DOMAIN stream : stream'[i] = stream[i]
      /\ DOMAIN stream' = 1 .. Len(stream) + 1
      /\ DOMAIN stream = 1 .. Len(stream) /\ Len(stream) \in Nat
  BY AppendStream
<1>2. \A i \in DOMAIN stream' : i \in DOMAIN stream \/ i = Len(stream) + 1
  BY <1>1
<1>3. \A n : Handed(n) => Handed(n)'
  BY DEF Handed
<1>4. HandedInv'
  BY <1>1, <1>2, <1>3 DEF OrderInv, HandedInv
<1>5. failures \in Nat
  BY Numbers
<1>6. \A n, m : Follows(n, m, failures) => Follows(n, m, failures')
  BY <1>5 DEF Follows
<1>7. \A i \in DOMAIN stream' :
          stream'[i] # REPORT => Follows(received', stream'[i], failures')
  BY <1>1, <1>2, <1>6 DEF OrderInv, StreamSorted
<1>8. ASSUME NEW i \in DOMAIN stream', NEW j \in DOMAIN stream',
             i < j, stream'[i] # REPORT, stream'[j] # REPORT
      PROVE  Follows(stream'[i], stream'[j], failures')
  <2>1. i \in DOMAIN stream
    BY <1>1, <1>8
  <2>2. CASE j \in DOMAIN stream
    BY <1>1, <1>6, <1>8, <2>1, <2>2 DEF OrderInv, StreamSorted
  <2>3. CASE j = Len(stream) + 1
    BY <1>1, <1>8, <2>1, <2>3
  <2> QED
    BY <1>2, <2>2, <2>3
<1> QED
  BY <1>4, <1>7, <1>8 DEF StreamSorted

LEMMA OrderReport ==
    ASSUME TypeOK, LockInv, OrderInv, Report
    PROVE  OrderInv'
<1> USE DEF ring, link, stats, dma, sent
<1>1. /\ UNCHANGED <<queue, received, written, err, dma_pc, passes>>
      /\ tcp_pc # "account" /\ tcp_pc' # "account"
  BY DEF Report
<1>2. LastPushed' = LastPushed
  BY <1>1 DEF LastPushed
<1>3. PICK result : tcp_client_send_data(REPORT, result)
  BY DEF Report
<1>4. REPORT \in 0 .. PASSES
  BY FramePathAssumption DEF REPORT
<1>5. /\ failures \in Nat /\ failures' \in {failures, failures + 1}
      /\ stream' = stream \/ stream' = Append(stream, REPORT)
  BY <1>3, <1>4, SendEffect, Numbers
<1>6. QueueInOrder' /\ WrittenInv'
  BY <1>1, <1>2, <1>5 DEF OrderInv, QueueInOrder, WrittenInv
<1>7. CASE stream' = stream
  BY <1>1, <1>2, <1>5, <1>6, <1>7 DEF OrderInv, HandedInv, Handed, StreamSorted, Follows
<1>8. CASE stream' = Append(stream, REPORT)
  <2>1. \A i \in DOMAIN queue : queue[i].payload > 0
    <3>1. \A i \in DOMAIN queue : queue[i] \in QFrames
      BY ElementOfSeq, LenProperties DEF TypeOK
    <3> QED
      BY <3>1, FramePathAssumption DEF QFrames
  <2>2. REPORT <= LastPushed
    BY Numbers DEF LastPushed, LockInv, REPORT
  <2>3. Handed(REPORT)'
    BY <1>1, <1>2, <2>1, <2>2 DEF Handed, REPORT
  <2> QED
    BY <1>1, <1>2, <1>4, <1>5, <1>6, <1>8, <2>3, OrderAppend DEF OrderInv
<1> QED
  BY <1>5, <1>7, <1>8

LEMMA OrderSend ==
    ASSUME TypeOK, LockInv, OrderInv, Send
    PROVE  OrderInv'
<1> USE DEF ring, link, stats, dma, sent
<1>1. /\ UNCHANGED <<queue, received, dma_pc, passes>>
      /\ tcp_pc = "send" /\ tcp_pc' = "account" /\ queue # << >>
      /\ written' = (written \/ stream' # stream)
  BY DEF Send, LockInv
<1>2. LastPushed' = LastPushed
  BY <1>1 DEF LastPushed
<1>3. /\ Head(queue).payload \in 0 .. PASSES /\ Head(queue).payload \in Nat
      /\ 1 \in DOMAIN queue /\ Head(queue).payload = queue[1].payload
  BY <1>1, HeadQueued, FramePathAssumption
<1>4. PICK d : d = queue[1].payload /\ d \in 0 .. PASSES /\ d \in Nat
               /\ tcp_client_send_data(d, err')
  BY <1>3 DEF Send
<1>5. \/ stream' = stream /\ failures' = failures /\ err' # "ERR_OK"
      \/ stream' = stream /\ failures' = failures + 1 /\ err' # "ERR_OK"
      \/ stream' = Append(stream, d) /\ failures' = failures + 1 /\ err' # "ERR_OK"
      \/ stream' = Append(stream, d) /\ failures' = failures /\ err' = "ERR_OK"
  BY <1>4, SendEffect
<1>6. QueueInOrder'
  BY <1>1, <1>2 DEF OrderInv, QueueInOrder
<1>7. failures \in Nat
  BY Numbers
<1>8. written => failures > 0
  BY <1>1 DEF OrderInv, WrittenInv
<1>9. CASE stream' = stream
  <2>1. written' <=> written
    BY <1>1, <1>9
  <2>2. failures' \in {failures, failures + 1} /\ err' # "ERR_OK"
    <3>1. stream' # Append(stream, d)
      BY <1>4, <1>9, AppendStream
    <3> QED
      BY <1>5, <3>1
  <2>3. HandedInv' /\ StreamSorted'
    BY <1>1, <1>2, <1>7, <1>9, <2>1, <2>2
       DEF OrderInv, HandedInv, Handed, StreamSorted, Follows
  <2>4. WrittenInv'
    BY <1>1, <1>7, <1>8, <2>1, <2>2 DEF WrittenInv
  <2> QED
    BY <1>6, <2>3, <2>4 DEF OrderInv
<1>10. CASE stream' = Append(stream, d)
  <2>1. stream' # stream /\ written'
    BY <1>1, <1>4, <1>10, AppendStream
  <2>2. \/ failures' = failures + 1 /\ err' # "ERR_OK"
        \/ failures' = failures /\ err' = "ERR_OK"
    BY <1>5, <2>1
  <2>3. \A i \in DOMAIN queue : i # 1 => d < queue[i].payload
    <3>1. \A i \in DOMAIN queue : i # 1 => 1 < i
      BY Numbers
    <3> QED
      BY <1>3, <1>4, <3>1 DEF OrderInv, QueueInOrder
  <2>4. Handed(d)'
    BY <1>1, <1>2, <1>3, <1>4, <2>1, <2>3 DEF OrderInv, QueueInOrder, Handed
  <2>5. ASSUME NEW n, Handed(n)
        PROVE  Follows(n, d, failures')
    BY <1>3, <1>4, <1>7, <1>8, <2>2, <2>5 DEF Handed, Follows
  <2>6. HandedInv' /\ StreamSorted'
    <3>1. Follows(received, d, failures')
      BY <2>5 DEF OrderInv, HandedInv
    <3>2. \A i \in DOMAIN stream : stream[i] # REPORT => Follows(stream[i], d, failures')
      BY <2>5 DEF OrderInv, HandedInv
    <3> QED
      BY <1>1, <1>2, <1>4, <1>7, <1>10, <2>1, <2>2, <2>4, <3>1, <3>2, OrderAppend
  <2>7. WrittenInv'
    BY <1>1, <1>7, <2>1, <2>2 DEF WrittenInv
  <2> QED
    BY <1>6, <2>6, <2>7 DEF OrderInv
<1> QED
  BY <1>5, <1>9, <1>10

LEMMA OrderAccount ==
    ASSUME TypeOK, OrderInv, Account
    PROVE  OrderInv'
<1> USE DEF ring, link, stats, dma, sent
<1>1. /\ UNCHANGED <<stream, received, dma_pc, passes, failures>>
      /\ tcp_pc = "account" /\ tcp_pc' = "delay"
  BY DEF Account
<1>2. LastPushed' = LastPushed
  BY <1>1 DEF LastPushed
<1>3. CASE Keep /\ err # "ERR_OK"
  BY <1>1, <1>2, <1>3
     DEF Keep, OrderInv, QueueInOrder, HandedInv, Handed, StreamSorted, Follows, WrittenInv
<1>4. CASE Pop
  <2>1. /\ written' = FALSE
        /\ Len(queue) \in Nat \ {0}
        /\ DOMAIN queue' = 1 .. Len(queue) - 1
        /\ DOMAIN queue = 1 .. Len(queue)
        /\ \A i \in DOMAIN queue' : queue'[i] = queue[i + 1]
    BY <1>4, RemoveFrame DEF Pop
  <2>2. \A i \in DOMAIN queue' : i + 1 \in DOMAIN queue /\ i + 1 # 1 /\ 1 < i + 1
    BY <2>1
  <2>3. QueueInOrder'
    <3>1. \A i, j \in DOMAIN queue' : i < j => i + 1 < j + 1
      BY <2>1
    <3> QED
      BY <1>2, <2>1, <2>2, <3>1 DEF OrderInv, QueueInOrder
  <2>4. \A n : Handed(n) => Handed(n)'
    BY <1>2, <2>1, <2>2 DEF Handed
  <2>5. HandedInv'
    BY <1>1, <2>4 DEF OrderInv, HandedInv
  <2>6. StreamSorted' /\ WrittenInv'
    BY <1>1, <2>1 DEF OrderInv, StreamSorted, Follows, WrittenInv
  <2> QED
    BY <2>3, <2>5, <2>6 DEF OrderInv
<1> QED
  BY <1>3, <1>4 DEF Account, Outcome

LEMMA OrderStep ==
    ASSUME TypeOK, LockInv, OrderInv, [Next]_vars
    PROVE  OrderInv'
<1> USE DEF ring, link, stats, dma, sent
<1>1. CASE UNCHANGED vars
  BY <1>1, OrderStays DEF vars, LastPushed
<1>2. CASE QuietStep
  BY <1>2, QuietEffect, OrderStays DEF LastPushed
<1>3. CASE DmaDone
  <2>1. LastPushed' = LastPushed
    BY <1>3, Numbers DEF DmaDone, LastPushed
  <2> QED
    BY <1>3, <2>1, OrderStays DEF DmaDone
<1>4. CASE LwipDown \/ Abort
  <2>1. /\ UNCHANGED <<queue, received, written, failures, err, dma_pc, passes>>
        /\ stream' = stream \/ stream' = << >>
        /\ tcp_pc = "account" <=> tcp_pc' = "account"
    BY <1>4 DEF LwipDown, LwipLeave, Abort, Break
  <2>2. LastPushed' = LastPushed
    BY <2>1 DEF LastPushed
  <2> QED
    BY <2>1, <2>2, OrderStays, OrderBreak
<1> QED
  BY StepKinds, <1>1, <1>2, <1>3, <1>4,
     OrderPush, OrderDeliver, OrderReport, OrderSend, OrderAccount

-----------------------------------------------------------------------------
(* The counters.                                                            *)

LEMMA ModShift ==
    ASSUME NEW k \in Int, NEW p \in {0, 1}, NEW m \in Nat \ {0}
    PROVE  (p + k * m) % m \in {0, 1}
<1> DEFINE x == p + k * m
           q == x \div m
           r == x % m
<1>1. x \in Int /\ q \in Int /\ r \in 0 .. m - 1 /\ x = m * q + r
  <2>1. x \in Int
    OBVIOUS
  <2> HIDE DEF x
  <2> QED
    BY <2>1
<1>2. r - p = (k - q) * m
  <2>1. p + k * m = m * q + r
    BY <1>1
  <2> HIDE DEF x, q, r
  <2> QED
    BY <1>1, <2>1
<1> DEFINE d == k - q
<1>3. d \in Int /\ r - p = d * m
  BY <1>1, <1>2
<1> SUFFICES r \in {0, 1}
  OBVIOUS
<1> HIDE DEF d, x, q, r
<1>4. CASE m = 1
  BY <1>1, <1>4
<1>5. CASE m > 1
  <2>1. p \in Int /\ p < m /\ p >= 0
    BY <1>5
  <2>2. ~ d >= 1
    <3>1. d >= 1 => d * m >= m
      BY <1>3
    <3> QED
      BY <1>1, <1>3, <2>1, <3>1
  <2>3. ~ d <= -1
    <3>1. d <= -1 => d * m <= -m
      BY <1>3
    <3> QED
      BY <1>1, <1>3, <2>1, <3>1
  <2>4. d = 0
    BY <1>3, <2>2, <2>3
  <2> QED
    BY <1>1, <1>3, <2>1, <2>4
<1> QED
  BY <1>4, <1>5

\* How far the books are from balanced: a multiple of U32, whatever happens.
Gap == dma_done - Counted - Pending

LEMMA CountTypes ==
    ASSUME TypeOK
    PROVE  /\ dma_done \in Int /\ tcp_send_ok \in Int /\ tcp_send_other_err \in Int
           /\ drop_cnt \in Int /\ Len(queue) \in Int /\ Pending \in Int
           /\ Counted \in Int /\ Gap \in Int /\ U32 \in Int
<1>1. /\ dma_done \in Int /\ tcp_send_ok \in Int /\ tcp_send_other_err \in Int
      /\ drop_cnt \in Int /\ U32 \in Int
  BY FramePathAssumption DEF TypeOK
<1>2. Len(queue) \in Int
  BY Numbers
<1>3. Pending \in Int
  BY DEF Pending
<1>4. Counted \in Int
  BY <1>1, <1>2 DEF Counted
<1> QED
  BY <1>1, <1>2, <1>3, <1>4 DEF Gap

LEMMA IncrementBy ==
    \A x \in 0 .. U32 - 1 : Increment(x) = x + 1 \/ Increment(x) = x + 1 - U32
  BY FramePathAssumption DEF Increment, Q!Increment

\* A counter and what it counts move in one step, but for a wrap.
LEMMA GapStep ==
    ASSUME TypeOK, TypeOK', LockInv, [Next]_vars
    PROVE  Gap' = Gap \/ Gap' = Gap + U32 \/ Gap' = Gap - U32
<1> USE DEF ring, link, stats, dma, sent
<1> DEFINE n == Len(queue)
<1>1. /\ dma_done \in Int /\ tcp_send_ok \in Int /\ tcp_send_other_err \in Int
      /\ drop_cnt \in Int /\ n \in Int /\ U32 \in Int /\ Pending \in Int
  BY CountTypes
<1>2. /\ dma_done' \in Int /\ tcp_send_ok' \in Int /\ tcp_send_other_err' \in Int
      /\ drop_cnt' \in Int /\ n' \in Int /\ Pending' \in Int
  <2>1. queue' \in Seq(QFrames)
    BY DEF TypeOK
  <2>2. n' \in Int
    BY <2>1, LenProperties
  <2> QED
    BY <2>2, FramePathAssumption DEF TypeOK, Pending
<1>3. \/ /\ dma_done' \in {dma_done + 1, dma_done + 1 - U32} /\ Pending = 0 /\ Pending' = 1
         /\ UNCHANGED <<tcp_send_ok, tcp_send_other_err, n, drop_cnt>>
      \/ /\ Pending = 1 /\ Pending' = 0
         /\ UNCHANGED <<dma_done, tcp_send_ok, tcp_send_other_err>>
         /\ \/ n' = n + 1 /\ drop_cnt' = drop_cnt
            \/ n' = n /\ drop_cnt' \in {drop_cnt + 1, drop_cnt + 1 - U32}
      \/ /\ UNCHANGED <<dma_done, Pending, drop_cnt>> /\ n' = n - 1
         /\ \/ /\ tcp_send_ok' \in {tcp_send_ok + 1, tcp_send_ok + 1 - U32}
               /\ UNCHANGED tcp_send_other_err
            \/ /\ tcp_send_other_err' \in {tcp_send_other_err + 1,
                                           tcp_send_other_err + 1 - U32}
               /\ UNCHANGED tcp_send_ok
      \/ UNCHANGED <<dma_done, Pending, drop_cnt, n, tcp_send_ok, tcp_send_other_err>>
  <2>1. CASE UNCHANGED <<dma_pc, dma_done, tcp_send_ok, tcp_send_other_err, drop_cnt, queue>>
    BY <2>1 DEF Pending
  <2>2. CASE DmaDone
    <3>1. dma_done' \in {dma_done + 1, dma_done + 1 - U32}
      BY <2>2, IncrementBy DEF DmaDone, TypeOK
    <3> QED
      BY <2>2, <3>1 DEF DmaDone, Pending
  <2>3. CASE DmaPush
    <3>1. CASE Q!Accept(passes, 1)
      <4>1. n' = n + 1
        BY <2>3, <3>1, AppendFrame DEF DmaPush
      <4> QED
        BY <2>3, <3>1, <4>1 DEF DmaPush, Q!Accept, Pending
    <3>2. CASE Q!Refuse(1)
      <4>1. drop_cnt' = Increment(drop_cnt) /\ queue' = queue
        BY <3>2 DEF Q!Refuse, Increment
      <4>2. drop_cnt' \in {drop_cnt + 1, drop_cnt + 1 - U32}
        BY <4>1, IncrementBy DEF TypeOK
      <4> QED
        BY <2>3, <4>1, <4>2 DEF DmaPush, Pending
    <3> QED
      BY <2>3, <3>1, <3>2 DEF DmaPush
  <2>4. CASE Account
    <3>1. UNCHANGED <<dma_done, Pending>>
      BY <2>4 DEF Account, Pending
    <3>2. Pop => n' = n - 1 /\ drop_cnt' = drop_cnt
      BY RemoveFrame DEF Pop, Q!Remove
    <3>3. \/ UNCHANGED <<tcp_send_ok, tcp_send_other_err, n, drop_cnt>>
          \/ /\ tcp_send_ok' = Increment(tcp_send_ok) /\ UNCHANGED tcp_send_other_err
             /\ n' = n - 1 /\ drop_cnt' = drop_cnt
          \/ /\ tcp_send_other_err' = Increment(tcp_send_other_err)
             /\ UNCHANGED tcp_send_ok
             /\ n' = n - 1 /\ drop_cnt' = drop_cnt
      BY <2>4, <3>2 DEF Account, Outcome, Keep
    <3>4. \A x \in {tcp_send_ok, tcp_send_other_err} : Increment(x) \in {x + 1, x + 1 - U32}
      BY IncrementBy DEF TypeOK
    <3> QED
      BY <3>1, <3>3, <3>4
  <2>5. CASE UNCHANGED vars
    BY <2>1, <2>5 DEF vars
  <2>6. CASE QuietStep
    BY <2>1, <2>6, QuietEffect
  <2>7. CASE LwipDown \/ LwipDeliver \/ Report \/ Abort \/ Send
    BY <2>1, <2>7 DEF LwipDown, LwipDeliver, LwipLeave, Report, Abort, Send
  <2> QED
    BY StepKinds, <2>2, <2>3, <2>4, <2>5, <2>6, <2>7
<1>4. /\ Gap = dma_done - (tcp_send_ok + tcp_send_other_err + n + drop_cnt) - Pending
      /\ Gap' = dma_done' - (tcp_send_ok' + tcp_send_other_err' + n' + drop_cnt') - Pending'
  BY DEF Gap, Counted
<1> HIDE DEF n
<1>5. PICK done \in Int, ok \in Int, other \in Int, m \in Int, drop \in Int, p \in Int :
          /\ done = dma_done /\ ok = tcp_send_ok /\ other = tcp_send_other_err
          /\ m = n /\ drop = drop_cnt /\ p = Pending
  BY <1>1
<1>6. PICK done1 \in Int, ok1 \in Int, other1 \in Int, m1 \in Int, drop1 \in Int, p1 \in Int :
          /\ done1 = dma_done' /\ ok1 = tcp_send_ok' /\ other1 = tcp_send_other_err'
          /\ m1 = n' /\ drop1 = drop_cnt' /\ p1 = Pending'
  BY <1>2
<1>7. PICK w \in Int : w = U32
  BY <1>1
<1> DEFINE gap == done - (ok + other + m + drop) - p
           gap1 == done1 - (ok1 + other1 + m1 + drop1) - p1
<1>8. gap1 = gap \/ gap1 = gap + w \/ gap1 = gap - w
  <2>1. \/ /\ done1 \in {done + 1, done + 1 - w} /\ p = 0 /\ p1 = 1
           /\ ok1 = ok /\ other1 = other /\ m1 = m /\ drop1 = drop
        \/ /\ p = 1 /\ p1 = 0 /\ done1 = done /\ ok1 = ok /\ other1 = other
           /\ \/ m1 = m + 1 /\ drop1 = drop
              \/ m1 = m /\ drop1 \in {drop + 1, drop + 1 - w}
        \/ /\ done1 = done /\ p1 = p /\ drop1 = drop /\ m1 = m - 1
           /\ \/ ok1 \in {ok + 1, ok + 1 - w} /\ other1 = other
              \/ other1 \in {other + 1, other + 1 - w} /\ ok1 = ok
        \/ /\ done1 = done /\ p1 = p /\ drop1 = drop /\ m1 = m
           /\ ok1 = ok /\ other1 = other
    BY <1>3, <1>5, <1>6, <1>7
  <2> QED
    BY <2>1
<1>9. Gap = gap /\ Gap' = gap1
  BY <1>4, <1>5, <1>6
<1> QED
  BY <1>7, <1>8, <1>9

LEMMA CountStep ==
    ASSUME TypeOK, TypeOK', LockInv, CountInv, [Next]_vars
    PROVE  CountInv'
<1>1. /\ dma_done \in Int /\ Counted \in Int /\ Pending \in Int
      /\ Gap \in Int /\ U32 \in Int
  BY CountTypes
<1>2. PICK k \in Int : dma_done - Counted = Pending + k * U32
  BY DEF CountInv
<1>3. Gap = k * U32
  BY <1>1, <1>2 DEF Gap
<1>4. PICK j \in Int : Gap' = j * U32
  <2>1. k * U32 + U32 = (k + 1) * U32 /\ k * U32 - U32 = (k - 1) * U32
    BY <1>1
  <2>2. k + 1 \in Int /\ k - 1 \in Int
    OBVIOUS
  <2> QED
    BY <1>3, <2>1, <2>2, GapStep
<1>5. /\ dma_done' \in Int /\ Counted' \in Int /\ Pending' \in Int
  <2>1. queue' \in Seq(QFrames)
    BY DEF TypeOK
  <2>2. Len(queue)' \in Int
    BY <2>1, LenProperties
  <2>3. /\ dma_done' \in Int /\ tcp_send_ok' \in Int /\ tcp_send_other_err' \in Int
        /\ drop_cnt' \in Int
    BY FramePathAssumption DEF TypeOK
  <2> QED
    BY <2>2, <2>3 DEF Counted, Pending
<1>6. dma_done' - Counted' = Pending' + j * U32
  <2>1. j * U32 \in Int
    BY <1>1
  <2>2. PICK d \in Int, c \in Int, p \in Int, x \in Int :
            d = dma_done' /\ c = Counted' /\ p = Pending' /\ x = j * U32
    BY <1>5, <2>1
  <2>3. d - c - p = x
    BY <1>4, <2>2 DEF Gap
  <2>4. d - c = p + x
    BY <2>3
  <2> QED
    BY <2>2, <2>4
<1> QED
  BY <1>6 DEF CountInv

\* The failed calls that make up tcp_send_other_err are fewer than it can count.
LEMMA VanishStep ==
    ASSUME FAILURES < U32, TypeOK, TypeOK', LockInv, OrderInv, VanishInv, [Next]_vars
    PROVE  VanishInv'
<1> USE DEF ring, link, stats, dma, sent
<1>1. /\ unsent \in Nat /\ tcp_send_other_err \in Nat /\ failures \in Nat
      /\ failures <= FAILURES /\ FAILURES \in Nat /\ U32 \in Nat
      /\ tcp_send_other_err \in 0 .. U32 - 1
  BY FramePathAssumption DEF TypeOK
<1>2. CASE /\ UNCHANGED <<unsent, tcp_send_other_err, err, failures>>
           /\ tcp_pc = "account" <=> tcp_pc' = "account"
  BY <1>2 DEF VanishInv, GivenUp
<1>3. CASE UNCHANGED vars
  BY <1>2, <1>3 DEF vars
<1>4. CASE QuietStep
  BY <1>2, <1>4, QuietEffect
<1>5. CASE DmaDone \/ DmaPush \/ LwipDown \/ LwipDeliver \/ Abort
  BY <1>2, <1>5 DEF DmaDone, DmaPush, LwipDown, LwipDeliver, LwipLeave, Abort, Break
<1>6. CASE Report
  <2>1. PICK result : tcp_client_send_data(REPORT, result)
    BY <1>6 DEF Report
  <2>2. failures' \in {failures, failures + 1}
    BY <2>1, SendEffect, FramePathAssumption DEF REPORT
  <2>3. GivenUp = 0 /\ GivenUp' = 0 /\ UNCHANGED <<unsent, tcp_send_other_err>>
    BY <1>6 DEF Report, GivenUp
  <2> QED
    BY <1>1, <2>2, <2>3 DEF VanishInv
<1>7. CASE Send
  <2>1. Head(queue).payload \in 0 .. PASSES
    BY <1>7, HeadQueued DEF Send, LockInv
  <2>2. \/ failures' = failures + 1
        \/ failures' = failures /\ err' # "ERR_MEM"
    BY <1>7, <2>1, SendEffect DEF Send
  <2>3. GivenUp = 0 /\ UNCHANGED <<unsent, tcp_send_other_err>>
    BY <1>7 DEF Send, GivenUp
  <2>4. GivenUp' \in {0, 1} /\ (err' # "ERR_MEM" => GivenUp' = 0)
    BY DEF GivenUp
  <2> QED
    BY <1>1, <2>2, <2>3, <2>4 DEF VanishInv
<1>8. CASE Account
  <2>1. GivenUp' = 0 /\ failures' = failures
    BY <1>8 DEF Account, GivenUp
  <2>2. CASE err = "ERR_MEM"
    <3>1. GivenUp = 1
      BY <1>8, <2>2 DEF Account, GivenUp
    <3>2. tcp_send_other_err + 1 <= failures
      BY <3>1 DEF VanishInv
    <3>3. Increment(tcp_send_other_err) = tcp_send_other_err + 1
      BY <1>1, <3>2 DEF Increment, Q!Increment
    <3>4. tcp_send_other_err' = tcp_send_other_err + 1 /\ unsent' \in {unsent, unsent + 1}
      BY <1>8, <2>2, <3>3 DEF Account, Outcome, Pop
    <3> QED
      BY <1>1, <2>1, <3>2, <3>4 DEF VanishInv
  <2>3. CASE err # "ERR_MEM"
    <3>1. err \in Results
      BY DEF TypeOK
    <3>2. UNCHANGED tcp_send_other_err /\ ((Pop /\ err = "ERR_OK") \/ Keep)
      BY <1>8, <2>3, <3>1 DEF Account, Outcome, Results
    <3>3. err = "ERR_OK" => written
      BY <1>8 DEF Account, OrderInv, WrittenInv
    <3>4. unsent' = unsent
      BY <3>2, <3>3 DEF Pop, Keep
    <3>5. GivenUp = 0
      BY <2>3 DEF GivenUp
    <3> QED
      BY <1>1, <2>1, <3>2, <3>4, <3>5 DEF VanishInv
  <2> QED
    BY <2>2, <2>3
<1> QED
  BY StepKinds, <1>3, <1>4, <1>5, <1>6, <1>7, <1>8

-----------------------------------------------------------------------------
(* The report and the data.                                                 *)

LEMMA AheadStep ==
    ASSUME TypeOK, AheadInv, [Next]_vars
    PROVE  AheadInv'
<1> USE DEF ring, link, stats, dma, sent
<1>1. CASE UNCHANGED vars
  BY <1>1 DEF vars, AheadInv
<1>2. CASE QuietStep
  <2>1. CASE LinkUp \/ LinkDown \/ Delay \/ Take \/ TakeNothing \/ Start
    BY <2>1 DEF LinkUp, LinkDown, Delay, Take, TakeNothing, Start, AheadInv
  <2>2. CASE LwipEnter \/ LwipOther \/ StatsTake \/ StatsGive
    BY <2>2 DEF LwipEnter, LwipOther, LwipLeave, StatsTake, StatsGive, AheadInv
  <2>3. CASE LwipConnected \/ Retry
    BY <2>3 DEF LwipConnected, LwipLeave, Retry, C!Up, AheadInv
  <2> QED
    BY <1>2, <2>1, <2>2, <2>3 DEF QuietStep
<1>3. CASE DmaDone \/ DmaPush \/ LwipDeliver
  BY <1>3 DEF DmaDone, DmaPush, LwipDeliver, LwipLeave, AheadInv
<1>4. CASE LwipDown \/ Abort
  BY <1>4 DEF LwipDown, LwipLeave, Abort, Break, AheadInv
<1>5. CASE Report
  BY <1>5 DEF Report, AheadInv
<1>6. CASE Send
  <2>1. ahead = 0 /\ tcp_pc' = "account" /\ UNCHANGED <<conn, reports>>
    BY <1>6 DEF Send, AheadInv
  <2>2. ahead' = 0 \/ (ahead' = 1 /\ reports = 0 /\ stream' # stream)
    BY <1>6, <2>1 DEF Send
  <2>3. stream' # stream => conn = "up"
    BY <1>6 DEF Send, tcp_client_send_data, NotConnected, NoRoom, WriteFails, OutputFails,
                Sent
  <2> QED
    BY <2>1, <2>2, <2>3 DEF AheadInv
<1>7. CASE Account
  BY <1>7 DEF Account, AheadInv
<1> QED
  BY StepKinds, <1>1, <1>2, <1>3, <1>4, <1>5, <1>6, <1>7

-----------------------------------------------------------------------------
(* The invariant, and what follows from it.                                 *)

IInv == TypeOK /\ LockInv /\ OrderInv /\ CountInv /\ AheadInv

LEMMA InitIInv == Init => IInv /\ VanishInv
<1> SUFFICES ASSUME Init
             PROVE  IInv /\ VanishInv
  OBVIOUS
<1> USE FramePathAssumption DEF Init, Q!Init, C!Init
<1>1. queue = << >> /\ stream = << >> /\ << >> \in Seq(QFrames) /\ Len(<< >>) = 0
  BY EmptySeq
<1>2. DOMAIN queue = {} /\ DOMAIN stream = {}
  BY <1>1
<1>3. TypeOK
  <2>1. queue \in Seq(QFrames) /\ Len(queue) <= DEPTH
    BY <1>1
  <2>2. stream \in Seq(0 .. PASSES) /\ Len(stream) <= SNDBUF
    BY <1>1, EmptyStream
  <2>3. {dma_done, drop_cnt, tcp_send_ok, tcp_send_buf_err, tcp_send_other_err}
            \subseteq 0 .. U32 - 1
    OBVIOUS
  <2>4. /\ next_frame_id \in 0 .. U16 - 1 /\ reports \in 0 .. 1
        /\ passes \in 0 .. PASSES /\ received \in 0 .. PASSES
        /\ ahead \in Nat /\ unsent \in Nat /\ failures \in 0 .. FAILURES
    OBVIOUS
  <2>5. /\ conn \in {"none", "trying", "up"}
        /\ ring_mutex \in {"free", "tcp", "stats"} /\ core_lock \in {"free", "lwip"}
        /\ dma_pc \in {"wait", "push"} /\ tcp_pc \in TcpPCs
        /\ err \in Results /\ written \in BOOLEAN
    BY DEF TcpPCs, Results
  <2> QED
    BY <2>1, <2>2, <2>3, <2>4, <2>5 DEF TypeOK
<1>4. LockInv
  BY DEF LockInv
<1>5. QueueInOrder /\ HandedInv /\ StreamSorted
  BY <1>2 DEF QueueInOrder, HandedInv, Handed, LastPushed, StreamSorted
<1>6. WrittenInv
  BY DEF WrittenInv
<1>7. CountInv
  <2>1. dma_done - Counted = Pending + 0 * U32
    BY <1>1 DEF Counted, Pending
  <2>2. 0 \in Int
    OBVIOUS
  <2> QED
    BY <2>1, <2>2 DEF CountInv
<1>8. AheadInv /\ VanishInv
  BY DEF AheadInv, VanishInv, GivenUp
<1> QED
  BY <1>3, <1>4, <1>5, <1>6, <1>7, <1>8 DEF IInv, OrderInv

LEMMA NextIInv == IInv /\ [Next]_vars => IInv'
  BY TypeStep, LockStep, OrderStep, CountStep, AheadStep DEF IInv

LEMMA IInvAlways == Spec => []IInv
  BY InitIInv, NextIInv, PTL DEF Spec

\* Every variable keeps its type, the queue never holds more than DEPTH frames
\* and lwIP never more than its send buffer takes.
THEOREM TypeCorrect == Spec => []TypeOK
<1>1. IInv => TypeOK
  BY DEF IInv
<1> QED
  BY <1>1, IInvAlways, PTL

\* What the DMA task's passes push reaches the PC in the order of the passes, over
\* however many connections, and a push reaches it twice only after a failed call:
\* for every number of passes, of failures and every size of queue and send buffer.
THEOREM StreamAlwaysInOrder == Spec => []StreamInOrder
<1>1. IInv => StreamInOrder
  <2> SUFFICES ASSUME IInv
               PROVE  StreamInOrder
    OBVIOUS
  <2> DEFINE way == <<received>> \o stream
  <2>1. /\ received \in 0 .. PASSES /\ stream \in Seq(0 .. PASSES)
        /\ Len(stream) \in Nat /\ DOMAIN stream = 1 .. Len(stream)
    BY LenProperties DEF IInv, TypeOK
  <2>2. /\ <<received>> \in Seq(0 .. PASSES) /\ Len(<<received>>) = 1
        /\ <<received>>[1] = received
    BY <2>1
  <2>3. /\ way \in Seq(0 .. PASSES) /\ Len(way) = 1 + Len(stream)
        /\ \A i \in 1 .. Len(way) :
              way[i] = IF i <= 1 THEN <<received>>[i] ELSE stream[i - 1]
    BY <2>1, <2>2, ConcatProperties
  <2>4. DOMAIN way = 1 .. Len(way)
    BY <2>3, LenProperties
  <2> HIDE DEF way
  <2>5. way[1] = received /\ \A i \in DOMAIN way : i # 1 => way[i] = stream[i - 1]
    BY <2>1, <2>2, <2>3, <2>4
  <2>6. \A i \in DOMAIN way : i # 1 => i - 1 \in DOMAIN stream
    BY <2>1, <2>3, <2>4
  <2>7. ASSUME NEW i \in DOMAIN way, NEW j \in DOMAIN way,
               i < j, way[i] # REPORT, way[j] # REPORT
        PROVE  Follows(way[i], way[j], failures)
    <3>1. j # 1 /\ j - 1 \in DOMAIN stream /\ way[j] = stream[j - 1]
      BY <2>1, <2>3, <2>4, <2>5, <2>6, <2>7
    <3>2. CASE i = 1
      BY <2>5, <2>7, <3>1, <3>2 DEF IInv, OrderInv, StreamSorted
    <3>3. CASE i # 1
      <4>1. i - 1 \in DOMAIN stream /\ way[i] = stream[i - 1] /\ i - 1 < j - 1
        BY <2>1, <2>3, <2>4, <2>5, <2>6, <2>7, <3>3
      <4> QED
        BY <2>7, <3>1, <4>1 DEF IInv, OrderInv, StreamSorted
    <3> QED
      BY <3>2, <3>3
  <2> QED
    BY <2>7 DEF StreamInOrder, Follows, way
<1> QED
  BY <1>1, IInvAlways, PTL

\* What the statistics task prints adds up, whatever the width of the counters
\* and however often each of them has wrapped.
THEOREM StatsAlwaysAddUp == Spec => []StatsAddUp
<1>1. IInv => StatsAddUp
  <2> SUFFICES ASSUME IInv
               PROVE  (dma_done - Counted) % U32 \in {0, 1}
    BY DEF StatsAddUp, Counted
  <2>1. PICK k \in Int : dma_done - Counted = Pending + k * U32
    BY DEF IInv, CountInv
  <2>2. Pending \in {0, 1}
    BY DEF Pending
  <2>3. (Pending + k * U32) % U32 \in {0, 1}
    BY <2>2, ModShift, FramePathAssumption
  <2> QED
    BY <2>1, <2>3
<1> QED
  BY <1>1, IInvAlways, PTL

\* A report is overtaken by one frame of its connection at most between two
\* attempts to send it.
THEOREM ReportNeverOvertakenTwice == Spec => []ReportNotOvertaken
<1>1. IInv => ReportNotOvertaken
  BY DEF IInv, AheadInv, ReportNotOvertaken
<1> QED
  BY <1>1, IInvAlways, PTL

\* No frame leaves the ring unseen by lwIP and by the counters, as long as the
\* failed calls are fewer than the error counter can count.
THEOREM NothingEverVanishes ==
    ASSUME FAILURES < U32
    PROVE  Spec => []NothingVanishes
<1>1. IInv /\ VanishInv /\ [Next]_vars => (IInv /\ VanishInv)'
  BY NextIInv, VanishStep DEF IInv
<1>2. VanishInv => NothingVanishes
  BY DEF VanishInv, NothingVanishes
<1> QED
  BY InitIInv, <1>1, <1>2, PTL DEF Spec

-----------------------------------------------------------------------------
(* The components are used as they are specified.                           *)

\* The three tasks use the ring as FrameQueue, which RingBuff implements, allows.
THEOREM RingUsedAsQueue == Spec => Q!Spec
<1>1. Init => Q!Init
  BY DEF Init
<1>2. IInv /\ [Next]_vars => [Q!Next]_(Q!qvars)
  <2> SUFFICES ASSUME IInv, [Next]_vars
               PROVE  Q!Next \/ UNCHANGED ring
    BY DEF Q!qvars, ring
  <2>1. CASE DmaPush
    <3>1. passes \in 1 .. PASSES
      BY <2>1 DEF DmaPush, IInv, TypeOK, LockInv
    <3>2. Q!Accept(passes, 1) => Q!Next
      BY <3>1 DEF Q!Next
    <3>3. Q!Refuse(1) => Q!Next
      <4>1. 1 \in 1 .. U16 - 1
        BY FramePathAssumption
      <4> QED
        BY <4>1 DEF Q!Next
    <3> QED
      BY <2>1, <3>2, <3>3 DEF DmaPush
  <2>2. CASE Account
    BY <2>2 DEF Account, Outcome, Pop, Keep, Q!Next
  <2>3. CASE QuietStep \/ UNCHANGED vars \/ DmaDone
    BY <2>3, QuietEffect DEF vars, ring, DmaDone
  <2>4. CASE LwipDown \/ LwipDeliver \/ Report \/ Abort \/ Send
    BY <2>4 DEF LwipDown, LwipDeliver, LwipLeave, Report, Abort, Send
  <2> QED
    BY StepKinds, <2>1, <2>2, <2>3, <2>4
<1> QED
  BY <1>1, <1>2, IInvAlways, PTL DEF Spec, Q!Spec

\* The tasks see a connection as Connection, which TcpClient implements, has it.
THEOREM LinkUsedAsConnection == Spec => C!Spec
<1>1. Init => C!Init
  BY DEF Init
<1>2. [Next]_vars => [C!Next]_(C!cvars)
  <2> SUFFICES ASSUME [Next]_vars
               PROVE  C!Next \/ UNCHANGED <<conn, reports>>
    BY DEF C!cvars
  <2> USE DEF ring, link, stats, dma, sent
  <2>1. CASE UNCHANGED vars \/ DmaDone \/ DmaPush \/ LwipDeliver \/ Send \/ Account
    BY <2>1 DEF vars, DmaDone, DmaPush, LwipDeliver, Send, Account
  <2>2. CASE LwipDown \/ Abort
    BY <2>2 DEF LwipDown, Abort, Break, C!Next
  <2>3. CASE Report
    BY <2>3 DEF Report, C!Next
  <2>4. CASE QuietStep
    BY <2>4 DEF QuietStep, LwipEnter, LwipConnected, LwipOther, Start, LinkUp, LinkDown,
                Retry, Take, TakeNothing, Delay, StatsTake, StatsGive, C!Next
  <2> QED
    BY StepKinds, <2>1, <2>2, <2>3, <2>4
<1> QED
  BY <1>1, <1>2, PTL DEF Spec, C!Spec
=============================================================================
