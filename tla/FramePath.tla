----------------------------- MODULE FramePath ------------------------------
(***************************************************************************)
(* The way of a frame from the DMA task to the PC: the DMA task pushes it  *)
(* to the transmit ring, the TCP task takes the oldest one and hands it to *)
(* lwIP (app/app_tcp_task.c, tcp_client_send_data), lwIP's thread delivers *)
(* it, and the statistics task looks on.  Two locks: ring_mutex, and       *)
(* lwIP's core lock, which the TCP task takes while it holds the first.    *)
(*                                                                         *)
(* The ring is the queue of FrameQueue, which RingBuff implements, and the *)
(* connection that of Connection, which TcpClient implements: the timers   *)
(* and pointers of the link function appear here as a choice to abort or   *)
(* to try, and a report is due as long as none has been accepted.          *)
(*                                                                         *)
(* A frame is known here by the pass of the DMA task that pushed it: the   *)
(* k-th time the task finds a transfer done, it pushes frame k.  Nothing   *)
(* below reads what a frame holds.  What the k-th pass copies, a new       *)
(* acquisition or the buffer of an earlier pass once more, is queued[k] of *)
(* DmaAcquisition.                                                         *)
(*                                                                         *)
(* What the TCP task does under the core lock is one step, as all others   *)
(* need the lock too; so is what the DMA task, whose priority is the       *)
(* highest, does under ring_mutex.                                         *)
(***************************************************************************)
EXTENDS Integers, Sequences, FiniteSets

CONSTANTS DEPTH,     \* RING_BUFF_DEPTH
          SNDBUF,    \* lwIP's send buffer, in frames; a report takes one too
          U16, U32,  \* widths of frame_id and of the counters
          PASSES,    \* bound: passes of the DMA task that find a transfer done
          FAILURES   \* bound: calls of tcp_write and tcp_output that fail

ASSUME FramePathAssumption ==
    /\ DEPTH \in Nat \ {0}
    /\ SNDBUF \in Nat \ {0}
    /\ U16 \in Nat /\ 2 < U16      \* the length of a frame fits, as in RingBuff
    /\ U32 \in Nat \ {0}
    /\ PASSES \in Nat /\ FAILURES \in Nat

VARIABLES queue, next_frame_id, drop_cnt,   \* g_app_ctx.tx_ring, see FrameQueue
          conn, reports,                    \* the connection, see Connection
          ring_mutex,         \* "free", "tcp" or "stats"
          core_lock,          \* "free" or "lwip"
          dma_pc,             \* the DMA task: "wait", "push"
          tcp_pc,             \* the TCP task
          err,                \* its local: the result of tcp_client_send_data
          dma_done, tcp_send_ok, tcp_send_buf_err, tcp_send_other_err,
          stream,             \* what lwIP holds for the PC, oldest first
          passes,             \* history: passes of the DMA task; each pushes its number
          received,           \* history: the last frame the PC has received, or 0
          ahead,              \* history: frames written since a report was last tried
          written,            \* history: has lwIP ever queued the oldest frame?
          unsent,             \* history: frames popped that lwIP never queued
          failures            \* how many calls have failed

ring == <<queue, next_frame_id, drop_cnt>>
link == <<conn, reports, stream, received, ahead>>
sent == <<written, unsent>>
stats == <<tcp_send_ok, tcp_send_buf_err, tcp_send_other_err>>
dma == <<dma_pc, dma_done, passes>>
vars == <<queue, next_frame_id, drop_cnt, conn, reports, stream, received, ahead,
          tcp_send_ok, tcp_send_buf_err, tcp_send_other_err, dma_pc, dma_done,
          passes, ring_mutex, core_lock, tcp_pc, err, written, unsent, failures>>

\* All frames have the same length.
Q == INSTANCE FrameQueue
        WITH PAYLOAD_MAX <- 1, HEADER_LEN <- 1, Payloads <- 1 .. PASSES

C == INSTANCE Connection

REPORT == 0     \* a state report in the stream

Results == {"ERR_OK", "ERR_CONN", "ERR_BUF", "ERR_MEM"}

Increment(x) == Q!Increment(x, U32)

Init == /\ Q!Init
        /\ C!Init
        /\ ring_mutex = "free" /\ core_lock = "free"
        /\ dma_pc = "wait" /\ tcp_pc = "start" /\ err = "ERR_OK"
        /\ dma_done = 0
        /\ tcp_send_ok = 0 /\ tcp_send_buf_err = 0 /\ tcp_send_other_err = 0
        /\ stream = << >> /\ received = 0 /\ ahead = 0
        /\ passes = 0 /\ written = FALSE /\ unsent = 0 /\ failures = 0

-----------------------------------------------------------------------------
(* The DMA task.                                                            *)

\* A pass finds a transfer done and counts it, before the mutex is asked for.
DmaDone ==
    /\ dma_pc = "wait" /\ passes < PASSES
    /\ passes' = passes + 1
    /\ dma_done' = Increment(dma_done)
    /\ dma_pc' = "push"
    /\ UNCHANGED <<ring, link, stats, ring_mutex, core_lock, tcp_pc, err, sent, failures>>

DmaPush ==
    /\ dma_pc = "push"
    /\ ring_mutex = "free"
    /\ Q!Accept(passes, 1) \/ Q!Refuse(1)
    /\ dma_pc' = "wait"
    /\ UNCHANGED <<link, stats, dma_done, passes, ring_mutex, core_lock, tcp_pc, err,
                   sent, failures>>

app_dma_task == DmaDone \/ DmaPush

-----------------------------------------------------------------------------
(* lwIP's thread: what it does for the connection, under its core lock.     *)

LwipEnter ==
    /\ core_lock = "free"
    /\ conn # "none"
    /\ core_lock' = "lwip"
    /\ UNCHANGED <<ring, link, stats, dma, ring_mutex, tcp_pc, err, sent, failures>>

\* Mutant: the callbacks look at the ring, and take its mutex for that.
LeaveAfterRing ==
    /\ core_lock = "lwip"
    /\ ring_mutex = "free"
    /\ core_lock' = "free"
    /\ UNCHANGED <<ring, stats, dma, ring_mutex, tcp_pc, err, sent, failures>>

\* The end of every event: the lock is given back.
LwipLeave ==
    /\ core_lock = "lwip"
    /\ core_lock' = "free"
    /\ UNCHANGED <<ring, stats, dma, ring_mutex, tcp_pc, err, sent, failures>>

LwipConnected ==
    /\ LwipLeave
    /\ C!Up
    /\ UNCHANGED <<stream, received, ahead>>

\* What is still in the stream goes with the connection.
Break ==
    /\ C!Down
    /\ stream' = << >> /\ ahead' = 0
    /\ UNCHANGED received

LwipDown == LwipLeave /\ Break

\* The PC receives the oldest data and acknowledges it.
LwipDeliver ==
    /\ LwipLeave
    /\ stream # << >>
    /\ stream' = Tail(stream)
    /\ received' = IF Head(stream) = REPORT THEN received ELSE Head(stream)
    /\ UNCHANGED <<conn, reports, ahead>>

\* Timers, ARP, segments that carry nothing: the event does not concern us.
LwipOther == LwipLeave /\ UNCHANGED link

LwipThread ==
    LwipEnter \/ LwipConnected \/ LwipDown \/ LwipDeliver \/ LwipOther

-----------------------------------------------------------------------------
(* tcp_client_send_data, under the core lock, with its outcomes.            *)

\* Mutant: the free space is tested one too late.
RoomLate == Len(stream) <= SNDBUF

Room == Len(stream) < SNDBUF

NotConnected(result) ==
    /\ conn # "up"
    /\ result = "ERR_CONN"
    /\ UNCHANGED <<stream, failures>>

NoRoom(result) ==
    /\ conn = "up" /\ ~ Room
    /\ result = "ERR_BUF"
    /\ UNCHANGED <<stream, failures>>

\* tcp_write is out of memory: nothing is queued.
WriteFails(result) ==
    /\ conn = "up" /\ Room
    /\ failures < FAILURES /\ failures' = failures + 1
    /\ result = "ERR_MEM"
    /\ UNCHANGED stream

\* tcp_write has queued the data, tcp_output fails, and lwIP sends it later.
OutputFails(data, result) ==
    /\ conn = "up" /\ Room
    /\ failures < FAILURES /\ failures' = failures + 1
    /\ result \in {"ERR_BUF", "ERR_MEM"}
    /\ stream' = Append(stream, data)

Sent(data, result) ==
    /\ conn = "up" /\ Room
    /\ result = "ERR_OK"
    /\ stream' = Append(stream, data)
    /\ UNCHANGED failures

tcp_client_send_data(data, result) ==
    /\ core_lock = "free"
    /\ \/ NotConnected(result) \/ NoRoom(result) \/ WriteFails(result)
       \/ OutputFails(data, result) \/ Sent(data, result)

-----------------------------------------------------------------------------
(* The TCP task.                                                            *)

\* lwip_tcp_client_init succeeds, or the task deletes itself.
Start ==
    /\ tcp_pc = "start"
    /\ tcp_pc' \in {"link", "deleted"}
    /\ UNCHANGED <<ring, link, stats, dma, ring_mutex, core_lock, err, sent, failures>>

LinkUp ==
    /\ tcp_pc = "link"
    /\ conn = "up"
    /\ tcp_pc' = IF reports = 0 THEN "report" ELSE "take"
    /\ UNCHANGED <<ring, link, stats, dma, ring_mutex, core_lock, err, sent, failures>>

\* The connect timeout has passed and a pcb is there, or not.
LinkDown ==
    /\ tcp_pc = "link"
    /\ conn # "up"
    /\ tcp_pc' \in {"abort", "retry"}
    /\ UNCHANGED <<ring, link, stats, dma, ring_mutex, core_lock, err, sent, failures>>

\* The report is sent; unless it is accepted it stays due.
Report ==
    /\ tcp_pc = "report"
    /\ \E result \in Results :
          /\ tcp_client_send_data(REPORT, result)
          /\ IF result = "ERR_OK" THEN C!Report ELSE UNCHANGED <<conn, reports>>
    /\ ahead' = 0
    /\ tcp_pc' = "take"
    /\ UNCHANGED <<ring, received, stats, dma, ring_mutex, core_lock, err, sent>>

\* tcp_abort: the attempt, or the connection that has come up meanwhile, is
\* gone; a pcb that lwIP had freed before leaves nothing to change.
Abort ==
    /\ tcp_pc = "abort"
    /\ core_lock = "free"
    /\ IF conn = "none" THEN UNCHANGED link ELSE Break
    /\ tcp_pc' = "retry"
    /\ UNCHANGED <<ring, stats, dma, ring_mutex, core_lock, err, sent, failures>>

\* An attempt is started, or it is too early, or it fails at once.
Retry ==
    /\ tcp_pc = "retry"
    /\ core_lock = "free"
    /\ C!Attempt \/ UNCHANGED <<conn, reports>>
    /\ tcp_pc' = "take"
    /\ UNCHANGED <<ring, stream, received, ahead, stats, dma, ring_mutex, core_lock, err,
                   sent, failures>>

\* The mutex is taken and there is a frame to send.
Take ==
    /\ tcp_pc = "take"
    /\ ring_mutex = "free" /\ queue # << >>
    /\ ring_mutex' = "tcp"
    /\ tcp_pc' = "send"
    /\ UNCHANGED <<ring, link, stats, dma, core_lock, err, sent, failures>>

\* Nothing to send, or the mutex is not free in time.
TakeNothing ==
    /\ tcp_pc = "take"
    /\ ring_mutex # "free" \/ queue = << >>
    /\ tcp_pc' = "delay"
    /\ UNCHANGED <<ring, link, stats, dma, ring_mutex, core_lock, err, sent, failures>>

Send ==
    /\ tcp_pc = "send"
    /\ err' \in Results
    /\ tcp_client_send_data(Head(queue).payload, err')
    /\ ahead' = IF reports = 0 /\ stream' # stream THEN ahead + 1 ELSE ahead
    /\ written' = (written \/ stream' # stream)
    /\ tcp_pc' = "account"
    /\ UNCHANGED <<ring, conn, reports, received, stats, dma, ring_mutex, core_lock, unsent>>

Pop ==
    /\ Q!Remove
    /\ unsent' = IF written THEN unsent ELSE unsent + 1
    /\ written' = FALSE

Keep == UNCHANGED <<ring, sent>>

\* Mutant: an error counter moves, but the frame is popped whatever the error.
OutcomeDropsAll ==
    \/ /\ err = "ERR_OK" /\ Pop
       /\ tcp_send_ok' = Increment(tcp_send_ok)
       /\ UNCHANGED <<tcp_send_buf_err, tcp_send_other_err>>
    \/ /\ err # "ERR_OK" /\ Pop
       /\ tcp_send_buf_err' = Increment(tcp_send_buf_err)
       /\ UNCHANGED <<tcp_send_ok, tcp_send_other_err>>

\* Mutant: a frame that finds no room goes to the end of the queue.
OutcomeRequeues ==
    \/ err = "ERR_OK" /\ Pop /\ UNCHANGED stats
    \/ /\ err # "ERR_OK" /\ queue' = Append(Tail(queue), Head(queue))
       /\ UNCHANGED <<next_frame_id, drop_cnt, sent, stats>>

\* Mutant: a frame that has been sent is not popped.
OutcomeNoPop ==
    \/ /\ err = "ERR_OK" /\ Keep
       /\ tcp_send_ok' = Increment(tcp_send_ok)
       /\ UNCHANGED <<tcp_send_buf_err, tcp_send_other_err>>
    \/ /\ err = "ERR_MEM" /\ Pop
       /\ tcp_send_other_err' = Increment(tcp_send_other_err)
       /\ UNCHANGED <<tcp_send_ok, tcp_send_buf_err>>
    \/ err \in {"ERR_BUF", "ERR_CONN"} /\ Keep /\ UNCHANGED stats

\* What becomes of the frame, and which counter moves.
Outcome ==
    \/ /\ err = "ERR_OK" /\ Pop
       /\ tcp_send_ok' = Increment(tcp_send_ok)
       /\ UNCHANGED <<tcp_send_buf_err, tcp_send_other_err>>
    \/ /\ err = "ERR_BUF" /\ Keep
       /\ tcp_send_buf_err' = Increment(tcp_send_buf_err)
       /\ UNCHANGED <<tcp_send_ok, tcp_send_other_err>>
    \/ err = "ERR_CONN" /\ Keep /\ UNCHANGED stats
    \/ /\ err \notin {"ERR_OK", "ERR_BUF", "ERR_CONN"} /\ Pop
       /\ tcp_send_other_err' = Increment(tcp_send_other_err)
       /\ UNCHANGED <<tcp_send_ok, tcp_send_buf_err>>

\* Mutant: the task goes on until a frame is not sent or the ring is empty.
AccountGoesOn ==
    /\ tcp_pc = "account"
    /\ Outcome
    /\ ring_mutex' = "free"
    /\ tcp_pc' = IF err = "ERR_OK" THEN "take" ELSE "delay"
    /\ err' = "ERR_OK"
    /\ UNCHANGED <<link, dma, core_lock, failures>>

\* The result is acted on, the mutex is given back, the pass ends.
Account ==
    /\ tcp_pc = "account"
    /\ Outcome
    /\ ring_mutex' = "free"
    /\ tcp_pc' = "delay"
    /\ err' = "ERR_OK"
    /\ UNCHANGED <<link, dma, core_lock, failures>>

Delay ==
    /\ tcp_pc = "delay"
    /\ tcp_pc' = "link"
    /\ UNCHANGED <<ring, link, stats, dma, ring_mutex, core_lock, err, sent, failures>>

app_tcp_task ==
    \/ Start \/ LinkUp \/ LinkDown \/ Report \/ Abort \/ Retry
    \/ Take \/ TakeNothing \/ Send \/ Account \/ Delay

-----------------------------------------------------------------------------
(* The statistics task; a mutex that is not free within 20 ms is no step.   *)

StatsTake ==
    /\ ring_mutex = "free"
    /\ ring_mutex' = "stats"
    /\ UNCHANGED <<ring, link, stats, dma, core_lock, tcp_pc, err, sent, failures>>

\* The line has been printed.
StatsGive ==
    /\ ring_mutex = "stats"
    /\ ring_mutex' = "free"
    /\ UNCHANGED <<ring, link, stats, dma, core_lock, tcp_pc, err, sent, failures>>

app_stats_task == StatsTake \/ StatsGive

Next == app_dma_task \/ LwipThread \/ app_tcp_task \/ app_stats_task

\* A lock that is free again and again is got some time by who waits for it:
\* lwIP's thread sleeps between two events, the statistics task for 2 s, the
\* TCP task for 2 ms.  Whoever holds a lock goes on.  That what is in the stream
\* is delivered, or the connection breaks, is an assumption on the PC: lwIP gives
\* up a peer that is silent, but not one that keeps acknowledging a closed window.
Fairness == /\ SF_vars(app_tcp_task) /\ SF_vars(Take)
            /\ SF_vars(DmaPush)
            /\ WF_vars(StatsGive)
            /\ WF_vars(LwipThread) /\ SF_vars(LwipDeliver \/ LwipDown)

Spec == Init /\ [][Next]_vars /\ Fairness

-----------------------------------------------------------------------------
TcpPCs == {"start", "link", "report", "abort", "retry", "take", "send", "account",
           "delay", "deleted"}

QFrames == [frame_id : 0 .. U16 - 1, payload : 1 .. PASSES, len : {2}]

\* Every variable keeps its type, and the queue and the stream their bounds.
TypeOK ==
    /\ queue \in Seq(QFrames) /\ Len(queue) <= DEPTH
    /\ next_frame_id \in 0 .. U16 - 1
    /\ conn \in {"none", "trying", "up"} /\ reports \in 0 .. 1
    /\ ring_mutex \in {"free", "tcp", "stats"} /\ core_lock \in {"free", "lwip"}
    /\ dma_pc \in {"wait", "push"} /\ tcp_pc \in TcpPCs
    /\ err \in Results
    /\ {dma_done, drop_cnt, tcp_send_ok, tcp_send_buf_err, tcp_send_other_err}
           \subseteq 0 .. U32 - 1
    /\ stream \in Seq(0 .. PASSES) /\ Len(stream) <= SNDBUF
    /\ passes \in 0 .. PASSES /\ received \in 0 .. PASSES
    /\ ahead \in Nat /\ written \in BOOLEAN /\ unsent \in Nat
    /\ failures \in 0 .. FAILURES

\* The line the statistics task prints adds up, across the wrap of the counters:
\* every pass counted as a transfer has had its frame sent, given up, dropped or
\* has it still queued, but for the one the DMA task may be waiting to push.
StatsAddUp ==
    ring_mutex = "stats" =>
        LET counted == tcp_send_ok + tcp_send_other_err + Len(queue) + drop_cnt
        IN  (dma_done - counted) % U32 \in {0, 1}

\* What reaches the PC is what the passes of the DMA task pushed, in the order of
\* those passes, over all connections; the push of one pass reaches it twice only
\* if a call of lwIP has failed.
StreamInOrder ==
    LET way == <<received>> \o stream
    IN  \A i, j \in DOMAIN way :
            i < j /\ way[i] # REPORT /\ way[j] # REPORT =>
                \/ way[i] < way[j]
                \/ way[i] = way[j] /\ failures > 0

\* A frame leaves the ring only when lwIP has queued it, or counted as an error;
\* what lwIP has queued and loses with a connection is not accounted for.
NothingVanishes == unsent <= tcp_send_other_err

\* Data can overtake the state report of its connection, but only one frame
\* between two attempts to send the report.
ReportNotOvertaken == conn = "up" /\ reports = 0 => ahead <= 1

\* The two locks never stand in each other's way: every pass of the TCP task
\* ends, and so does every wait of the DMA task, which has no timeout.
PassesEnd ==
    /\ tcp_pc \notin {"delay", "deleted"} ~> tcp_pc \in {"delay", "deleted"}
    /\ dma_pc = "push" ~> dma_pc = "wait"

\* On a connection that stays up, to a PC that takes its data, the oldest frame
\* leaves the ring.
QueueDrains ==
    \A n \in 1 .. PASSES :
        conn = "up" /\ queue # << >> /\ Head(queue).payload = n ~>
            conn # "up" \/ queue = << >> \/ Head(queue).payload # n
=============================================================================
