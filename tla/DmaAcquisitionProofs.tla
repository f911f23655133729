------------------------ MODULE DmaAcquisitionProofs ------------------------
EXTENDS DmaAcquisition, TLAPS
(***************************************************************************)
(* The safety of DmaAcquisition: the strengthening IInv of its invariants, *)
(* and the proof that it is inductive.                                     *)
(***************************************************************************)

\* A frame under way is one the bound allows.
Bounded == pl # "idle" => completed < FRAMES

\* The toggled id names the buffer of the last finished frame.
BufferNamed == g_done_buf_id = BufOf(completed) /\ DoneBufHoldsLastFrame

CacheWhole == \A b \in Bufs : cache[b] # TORN

DoneBranch == {"done_load", "done_store", "done_clear", "invalidate", "take", "push"}

\* Nobody speaks of a DONE before there has been one.
DoneIsReal ==
    completed = 0 =>
        /\ DMA_INT_DONE \notin notify \union cycle_dma_int_flag \union loaded \union events
        /\ pc \notin DoneBranch

\* What the store of the flag will write is still there, but for the bit to clear.
Loaded ==
    /\ pc = "ready_store" => loaded \subseteq cycle_dma_int_flag
    /\ pc = "done_store" => DMA_INT_DONE \notin loaded

\* The buffer to be copied was invalidated, or a DONE has come since.
Fresh == pc \in {"take", "push"} => cache[g_done_buf_id] = Empty \/ DMA_INT_DONE \in notify

One(b) == IF b THEN 1 ELSE 0

BeforeCheck == {"ready", "ready_load", "ready_store", "start", "ready_clear", "done"}
BeforeCount == {"done_load", "done_store", "done_clear", "invalidate"}

\* This pass may still count the last frame: it is in its DONE branch, or has yet to
\* look at the bits it was woken with and at the flag.
InThisPass ==
    \/ pc \in BeforeCount
    \/ pc \in BeforeCheck /\ DMA_INT_DONE \in events \cup cycle_dma_int_flag

\* So may the next one, by the notification, or by the flag unless this pass is
\* still to clear it.  Only one: whoever takes the notification takes the flag.
InNextPass ==
    \/ DMA_INT_DONE \in notify
    \/ /\ DMA_INT_DONE \in cycle_dma_int_flag
       /\ pc \notin BeforeCheck \cup {"done_load", "done_store"}

\* How often the last frame has been counted, and may still be.
CreditBound ==
    /\ \A n \in 1 .. FRAMES : handled[n] <= 2 /\ (n > completed => handled[n] = 0)
    /\ completed > 0 => handled[completed] + One(InThisPass) + One(InNextPass) <= 2

\* The k-th pass to be counted pushes the k-th frame of the queue, after the mutex.
PassesNumbered == dma_done = Len(queued) + One(pc \in {"take", "push"})

\* A frame not yet queued still holds the latch, or is about to be copied.
LatchHolds ==
    completed > 0 /\ ~ Queued(completed) =>
        \/ DMA_INT_DONE \in latched
        \/ pc = "invalidate"
        \/ pc \in {"take", "push"} /\ cache[g_done_buf_id] = Empty

\* A PL that waits asks for a transfer only when no DONE is latched.
Paced == ~ overlap /\ pl = "wait_start" => DMA_INT_DONE \notin latched

IInv ==
    /\ TypeOK /\ Bounded /\ BufferNamed /\ CacheWhole /\ NeverTorn /\ DoneIsReal
    /\ Loaded /\ Fresh /\ NoInterruptLost /\ CreditBound /\ LatchHolds /\ Paced
    /\ NoFrameLost /\ PassesNumbered

-----------------------------------------------------------------------------
\* A copy keeps what was queued, and of a buffer that was invalidated it queues the
\* last finished frame.
LEMMA PushQueues ==
    ASSUME TypeOK, BufferNamed, Push
    PROVE  /\ \A n \in Int : Queued(n) => Queued(n)'
           /\ completed > 0 /\ cache[g_done_buf_id] = Empty => Queued(completed)'
<1>1. PICK frame \in {mem[g_done_buf_id], cache[g_done_buf_id]} \ {Empty} :
          /\ cache[g_done_buf_id] = Empty => frame = mem[g_done_buf_id]
          /\ queued' = Append(queued, frame)
  BY DEF Push
<1>2. queued \in Seq(Int) /\ frame \in Int
  BY DEF TypeOK
<1>3. Len(queued') = Len(queued) + 1 /\ queued'[Len(queued) + 1] = frame
      /\ DOMAIN queued = 1 .. Len(queued) /\ DOMAIN queued' = 1 .. Len(queued) + 1
  BY <1>1, <1>2
<1>4. \A i \in DOMAIN queued : queued'[i] = queued[i]
  BY <1>1, <1>2
<1>5. \A n \in Int : Queued(n) => Queued(n)'
  BY <1>3, <1>4, <1>2 DEF Queued
<1>6. ASSUME completed > 0, cache[g_done_buf_id] = Empty
      PROVE  Queued(completed)'
  <2>1. frame = completed
    BY <1>1, <1>6 DEF BufferNamed, DoneBufHoldsLastFrame
  <2>2. completed' = completed
    BY DEF Push, plvars
  <2> QED
    BY <1>2, <1>3, <2>1, <2>2 DEF Queued
<1> QED
  BY <1>5, <1>6

\* The types, with the bound on the frames.
LEMMA StepTypes ==
    ASSUME TypeOK, Bounded, [Next]_vars
    PROVE  TypeOK' /\ Bounded'
<1> USE DEF TypeOK, Bounded, Ints, Bufs, PCs, DMA_INT_READY, DMA_INT_DONE, Other, BufOf,
         DMA_BUF_PING, DMA_BUF_PANG, TORN, Empty
<1>1. CASE PlReady
  BY <1>1, DmaAssumption DEF PlReady, pl_int_handler, plvars, isrvars, taskvars
<1>2. CASE PlDone
  BY <1>2, DmaAssumption DEF PlDone, pl_int_handler, taskvars
<1>3. CASE NotifyWait
  BY <1>3, DmaAssumption DEF NotifyWait, plvars
<1>4. CASE CheckReady
  BY <1>4, DmaAssumption DEF CheckReady, Seen, plvars, isrvars
<1>5. CASE LoadFlag("ready_load", DMA_INT_READY, "ready_store")
  BY <1>5, DmaAssumption DEF LoadFlag, plvars, isrvars
<1>6. CASE StoreFlag("ready_store", "start")
  BY <1>6, DmaAssumption DEF StoreFlag, plvars
<1>7. CASE cycle_dma_start_trans
  <2>1. unasked' \subseteq 1 .. FRAMES
    BY <1>7, DmaAssumption DEF cycle_dma_start_trans
  <2>2. mem' \in [Bufs -> Int]
    BY <1>7 DEF cycle_dma_start_trans, Begin
  <2>3. pl' \in {"wait_start", "busy", "idle"} /\ Bounded'
    BY <1>7, DmaAssumption DEF cycle_dma_start_trans, Begin
  <2> QED
    BY <1>7, <2>1, <2>2, <2>3 DEF cycle_dma_start_trans, isrvars
<1>8. CASE cycle_dma_int_clear("ready_clear", DMA_INT_READY, "done")
  BY <1>8, DmaAssumption DEF cycle_dma_int_clear, isrvars
<1>9. CASE CheckDone
  BY <1>9, DmaAssumption DEF CheckDone, Seen, plvars, isrvars
<1>10. CASE LoadFlag("done_load", DMA_INT_DONE, "done_store")
  BY <1>10, DmaAssumption DEF LoadFlag, plvars, isrvars
<1>11. CASE StoreFlag("done_store", "done_clear")
  BY <1>11, DmaAssumption DEF StoreFlag, plvars
<1>12. CASE cycle_dma_int_clear("done_clear", DMA_INT_DONE, "invalidate")
  BY <1>12, DmaAssumption DEF cycle_dma_int_clear, isrvars
<1>13. CASE Invalidate
  <2>1. handled' \in [1 .. FRAMES -> Nat]
    <3>1. handled \in [1 .. FRAMES -> Nat]
      OBVIOUS
    <3>2. handled' = [handled EXCEPT ![completed] = handled[completed] + 1]
      BY <1>13 DEF Invalidate
    <3> HIDE DEF TypeOK, Bounded
    <3>3. \A n \in 1 .. FRAMES : handled'[n] \in Nat
      BY <3>1, <3>2
    <3> QED
      BY <3>1, <3>2, <3>3
  <2>2. cache' \in [Bufs -> Int] /\ dma_done' \in Nat
    BY <1>13 DEF Invalidate
  <2> QED
    BY <1>13, <2>1, <2>2 DEF Invalidate, plvars, isrvars
<1>14. CASE TakeMutex
  BY <1>14, DmaAssumption DEF TakeMutex, plvars, isrvars
<1>15. CASE Push
  BY <1>15, DmaAssumption DEF Push, plvars, isrvars
<1>16. CASE GiveMutex
  BY <1>16, DmaAssumption DEF GiveMutex, plvars, isrvars
<1>17. CASE OtherTakes
  BY <1>17, DmaAssumption DEF OtherTakes, plvars, isrvars
<1>18. CASE OtherGives
  BY <1>18, DmaAssumption DEF OtherGives, plvars, isrvars
<1>19. CASE UNCHANGED vars
  BY <1>19 DEF vars
<1> QED
  BY <1>1, <1>2, <1>3, <1>4, <1>5, <1>6, <1>7, <1>8, <1>9, <1>10, <1>11, <1>12, <1>13,
     <1>14, <1>15, <1>16, <1>17, <1>18, <1>19 DEF Next, app_dma_task

\* The PL's buffers take turns.
LEMMA InTurn == \A n \in Nat : BufOf(n + 1) # BufOf(n)
  BY DEF BufOf, DMA_BUF_PING, DMA_BUF_PANG

\* The id and the buffer it names.
LEMMA StepBuffer ==
    ASSUME TypeOK, BufferNamed, [Next]_vars
    PROVE  BufferNamed'
<1> USE DEF TypeOK, BufferNamed, DoneBufHoldsLastFrame, Ints, Bufs, DMA_INT_READY,
         DMA_INT_DONE, Other, BufOf, DMA_BUF_PING, DMA_BUF_PANG
<1>1. CASE PlReady
  BY <1>1 DEF PlReady, pl_int_handler, plvars, isrvars, taskvars
<1>2. CASE PlDone
  <2>1. completed \in Nat /\ mem \in [Bufs -> Int]
    BY DmaAssumption
  <2>2. /\ completed' = completed + 1 /\ g_done_buf_id' = Other(g_done_buf_id)
        /\ mem' = [mem EXCEPT ![BufOf(completed + 1)] = completed + 1]
    BY <1>2 DEF PlDone, pl_int_handler
  <2> QED
    BY <2>1, <2>2
<1>3. CASE NotifyWait
  BY <1>3 DEF NotifyWait, plvars
<1>4. CASE CheckReady
  BY <1>4 DEF CheckReady, Seen, plvars, isrvars
<1>5. CASE LoadFlag("ready_load", DMA_INT_READY, "ready_store")
  BY <1>5 DEF LoadFlag, plvars, isrvars
<1>6. CASE StoreFlag("ready_store", "start")
  BY <1>6 DEF StoreFlag, plvars
<1>7. CASE cycle_dma_start_trans
  <2>1. completed \in Nat /\ mem \in [Bufs -> Int]
    BY DmaAssumption
  <2>2. /\ completed' = completed /\ g_done_buf_id' = g_done_buf_id
        /\ mem' = mem \/ mem' = [mem EXCEPT ![BufOf(completed + 1)] = TORN]
    BY <1>7 DEF cycle_dma_start_trans, Begin, isrvars
  <2>3. BufOf(completed + 1) # BufOf(completed)
    BY <2>1, InTurn
  <2> QED
    BY <2>1, <2>2, <2>3
<1>8. CASE cycle_dma_int_clear("ready_clear", DMA_INT_READY, "done")
  BY <1>8 DEF cycle_dma_int_clear, isrvars
<1>9. CASE CheckDone
  BY <1>9 DEF CheckDone, Seen, plvars, isrvars
<1>10. CASE LoadFlag("done_load", DMA_INT_DONE, "done_store")
  BY <1>10 DEF LoadFlag, plvars, isrvars
<1>11. CASE StoreFlag("done_store", "done_clear")
  BY <1>11 DEF StoreFlag, plvars
<1>12. CASE cycle_dma_int_clear("done_clear", DMA_INT_DONE, "invalidate")
  BY <1>12 DEF cycle_dma_int_clear, isrvars
<1>13. CASE Invalidate
  BY <1>13 DEF Invalidate, plvars, isrvars
<1>14. CASE TakeMutex
  BY <1>14 DEF TakeMutex, plvars, isrvars
<1>15. CASE Push
  BY <1>15 DEF Push, plvars, isrvars
<1>16. CASE GiveMutex
  BY <1>16 DEF GiveMutex, plvars, isrvars
<1>17. CASE OtherTakes
  BY <1>17 DEF OtherTakes, plvars, isrvars
<1>18. CASE OtherGives
  BY <1>18 DEF OtherGives, plvars, isrvars
<1>19. CASE UNCHANGED vars
  BY <1>19 DEF vars
<1> QED
  BY <1>1, <1>2, <1>3, <1>4, <1>5, <1>6, <1>7, <1>8, <1>9, <1>10, <1>11, <1>12, <1>13,
     <1>14, <1>15, <1>16, <1>17, <1>18, <1>19 DEF Next, app_dma_task

\* A DONE is of a frame.
LEMMA StepReal ==
    ASSUME TypeOK, DoneIsReal, [Next]_vars
    PROVE  DoneIsReal'
<1> USE DEF TypeOK, DoneIsReal, DoneBranch, Ints, DMA_INT_READY, DMA_INT_DONE
<1>1. CASE PlReady
  BY <1>1 DEF PlReady, pl_int_handler, plvars, isrvars, taskvars
<1>2. CASE PlDone
  BY <1>2 DEF PlDone, pl_int_handler, taskvars
<1>3. CASE NotifyWait
  BY <1>3 DEF NotifyWait, plvars
<1>4. CASE CheckReady
  BY <1>4 DEF CheckReady, Seen, plvars, isrvars
<1>5. CASE LoadFlag("ready_load", DMA_INT_READY, "ready_store")
  BY <1>5 DEF LoadFlag, plvars, isrvars
<1>6. CASE StoreFlag("ready_store", "start")
  BY <1>6 DEF StoreFlag, plvars
<1>7. CASE cycle_dma_start_trans
  BY <1>7 DEF cycle_dma_start_trans, Begin, isrvars
<1>8. CASE cycle_dma_int_clear("ready_clear", DMA_INT_READY, "done")
  BY <1>8 DEF cycle_dma_int_clear, isrvars
<1>9. CASE CheckDone
  BY <1>9 DEF CheckDone, Seen, plvars, isrvars
<1>10. CASE LoadFlag("done_load", DMA_INT_DONE, "done_store")
  BY <1>10 DEF LoadFlag, plvars, isrvars
<1>11. CASE StoreFlag("done_store", "done_clear")
  BY <1>11 DEF StoreFlag, plvars
<1>12. CASE cycle_dma_int_clear("done_clear", DMA_INT_DONE, "invalidate")
  BY <1>12 DEF cycle_dma_int_clear, isrvars
<1>13. CASE Invalidate
  BY <1>13 DEF Invalidate, plvars, isrvars
<1>14. CASE TakeMutex
  BY <1>14 DEF TakeMutex, plvars, isrvars
<1>15. CASE Push
  BY <1>15 DEF Push, plvars, isrvars
<1>16. CASE GiveMutex
  BY <1>16 DEF GiveMutex, plvars, isrvars
<1>17. CASE OtherTakes
  BY <1>17 DEF OtherTakes, plvars, isrvars
<1>18. CASE OtherGives
  BY <1>18 DEF OtherGives, plvars, isrvars
<1>19. CASE UNCHANGED vars
  BY <1>19 DEF vars
<1> QED
  BY <1>1, <1>2, <1>3, <1>4, <1>5, <1>6, <1>7, <1>8, <1>9, <1>10, <1>11, <1>12, <1>13,
     <1>14, <1>15, <1>16, <1>17, <1>18, <1>19 DEF Next, app_dma_task

\* What is cached and queued is whole.
LEMMA StepTorn ==
    ASSUME TypeOK, BufferNamed, DoneIsReal, CacheWhole, NeverTorn, [Next]_vars
    PROVE  CacheWhole' /\ NeverTorn'
<1> USE DEF TypeOK, BufferNamed, DoneBufHoldsLastFrame, DoneIsReal, DoneBranch,
         CacheWhole, NeverTorn, Bufs, TORN, Empty
<1>1. CASE PlReady
  BY <1>1 DEF PlReady, pl_int_handler, plvars, isrvars, taskvars
<1>2. CASE PlDone
  BY <1>2 DEF PlDone, pl_int_handler, taskvars
<1>3. CASE NotifyWait
  BY <1>3 DEF NotifyWait, plvars
<1>4. CASE CheckReady
  BY <1>4 DEF CheckReady, Seen, plvars, isrvars
<1>5. CASE LoadFlag("ready_load", DMA_INT_READY, "ready_store")
  BY <1>5 DEF LoadFlag, plvars, isrvars
<1>6. CASE StoreFlag("ready_store", "start")
  BY <1>6 DEF StoreFlag, plvars
<1>7. CASE cycle_dma_start_trans
  BY <1>7 DEF cycle_dma_start_trans, Begin, isrvars
<1>8. CASE cycle_dma_int_clear("ready_clear", DMA_INT_READY, "done")
  BY <1>8 DEF cycle_dma_int_clear, isrvars
<1>9. CASE CheckDone
  BY <1>9 DEF CheckDone, Seen, plvars, isrvars
<1>10. CASE LoadFlag("done_load", DMA_INT_DONE, "done_store")
  BY <1>10 DEF LoadFlag, plvars, isrvars
<1>11. CASE StoreFlag("done_store", "done_clear")
  BY <1>11 DEF StoreFlag, plvars
<1>12. CASE cycle_dma_int_clear("done_clear", DMA_INT_DONE, "invalidate")
  BY <1>12 DEF cycle_dma_int_clear, isrvars
<1>13. CASE Invalidate
  BY <1>13 DEF Invalidate, plvars, isrvars
<1>14. CASE TakeMutex
  BY <1>14 DEF TakeMutex, plvars, isrvars
<1>15. CASE Push
  BY <1>15 DEF Push, plvars, isrvars
<1>16. CASE GiveMutex
  BY <1>16 DEF GiveMutex, plvars, isrvars
<1>17. CASE OtherTakes
  BY <1>17 DEF OtherTakes, plvars, isrvars
<1>18. CASE OtherGives
  BY <1>18 DEF OtherGives, plvars, isrvars
<1>19. CASE UNCHANGED vars
  BY <1>19 DEF vars
<1> QED
  BY <1>1, <1>2, <1>3, <1>4, <1>5, <1>6, <1>7, <1>8, <1>9, <1>10, <1>11, <1>12, <1>13,
     <1>14, <1>15, <1>16, <1>17, <1>18, <1>19 DEF Next, app_dma_task

\* The load and the store of the flag, and the invalidation before the copy.
LEMMA StepLoaded ==
    ASSUME TypeOK, Loaded, Fresh, [Next]_vars
    PROVE  Loaded' /\ Fresh'
<1> USE DEF TypeOK, Loaded, Fresh, Ints, Bufs, DMA_INT_READY, DMA_INT_DONE, Empty
<1>1. CASE PlReady
  BY <1>1 DEF PlReady, pl_int_handler, plvars, isrvars, taskvars
<1>2. CASE PlDone
  BY <1>2 DEF PlDone, pl_int_handler, taskvars
<1>3. CASE NotifyWait
  BY <1>3 DEF NotifyWait, plvars
<1>4. CASE CheckReady
  BY <1>4 DEF CheckReady, Seen, plvars, isrvars
<1>5. CASE LoadFlag("ready_load", DMA_INT_READY, "ready_store")
  BY <1>5 DEF LoadFlag, plvars, isrvars
<1>6. CASE StoreFlag("ready_store", "start")
  BY <1>6 DEF StoreFlag, plvars
<1>7. CASE cycle_dma_start_trans
  BY <1>7 DEF cycle_dma_start_trans, Begin, isrvars
<1>8. CASE cycle_dma_int_clear("ready_clear", DMA_INT_READY, "done")
  BY <1>8 DEF cycle_dma_int_clear, isrvars
<1>9. CASE CheckDone
  BY <1>9 DEF CheckDone, Seen, plvars, isrvars
<1>10. CASE LoadFlag("done_load", DMA_INT_DONE, "done_store")
  BY <1>10 DEF LoadFlag, plvars, isrvars
<1>11. CASE StoreFlag("done_store", "done_clear")
  BY <1>11 DEF StoreFlag, plvars
<1>12. CASE cycle_dma_int_clear("done_clear", DMA_INT_DONE, "invalidate")
  BY <1>12 DEF cycle_dma_int_clear, isrvars
<1>13. CASE Invalidate
  BY <1>13 DEF Invalidate, plvars, isrvars
<1>14. CASE TakeMutex
  BY <1>14 DEF TakeMutex, plvars, isrvars
<1>15. CASE Push
  BY <1>15 DEF Push, plvars, isrvars
<1>16. CASE GiveMutex
  BY <1>16 DEF GiveMutex, plvars, isrvars
<1>17. CASE OtherTakes
  BY <1>17 DEF OtherTakes, plvars, isrvars
<1>18. CASE OtherGives
  BY <1>18 DEF OtherGives, plvars, isrvars
<1>19. CASE UNCHANGED vars
  BY <1>19 DEF vars
<1> QED
  BY <1>1, <1>2, <1>3, <1>4, <1>5, <1>6, <1>7, <1>8, <1>9, <1>10, <1>11, <1>12, <1>13,
     <1>14, <1>15, <1>16, <1>17, <1>18, <1>19 DEF Next, app_dma_task

\* A request for a start is not lost.
LEMMA StepRequest ==
    ASSUME TypeOK, RequestAhead, [Next]_vars
    PROVE  RequestAhead'
<1> USE DEF TypeOK, RequestAhead, ReadyAhead, Pending, Ints, DMA_INT_READY, DMA_INT_DONE
<1>1. CASE PlReady
  BY <1>1 DEF PlReady, pl_int_handler, plvars, isrvars, taskvars
<1>2. CASE PlDone
  BY <1>2 DEF PlDone, pl_int_handler, taskvars
<1>3. CASE NotifyWait
  BY <1>3 DEF NotifyWait, plvars
<1>4. CASE CheckReady
  BY <1>4 DEF CheckReady, Seen, plvars, isrvars
<1>5. CASE LoadFlag("ready_load", DMA_INT_READY, "ready_store")
  BY <1>5 DEF LoadFlag, plvars, isrvars
<1>6. CASE StoreFlag("ready_store", "start")
  BY <1>6 DEF StoreFlag, plvars
<1>7. CASE cycle_dma_start_trans
  BY <1>7 DEF cycle_dma_start_trans, Begin, isrvars
<1>8. CASE cycle_dma_int_clear("ready_clear", DMA_INT_READY, "done")
  BY <1>8 DEF cycle_dma_int_clear, isrvars
<1>9. CASE CheckDone
  BY <1>9 DEF CheckDone, Seen, plvars, isrvars
<1>10. CASE LoadFlag("done_load", DMA_INT_DONE, "done_store")
  BY <1>10 DEF LoadFlag, plvars, isrvars
<1>11. CASE StoreFlag("done_store", "done_clear")
  BY <1>11 DEF StoreFlag, plvars
<1>12. CASE cycle_dma_int_clear("done_clear", DMA_INT_DONE, "invalidate")
  BY <1>12 DEF cycle_dma_int_clear, isrvars
<1>13. CASE Invalidate
  BY <1>13 DEF Invalidate, plvars, isrvars
<1>14. CASE TakeMutex
  BY <1>14 DEF TakeMutex, plvars, isrvars
<1>15. CASE Push
  BY <1>15 DEF Push, plvars, isrvars
<1>16. CASE GiveMutex
  BY <1>16 DEF GiveMutex, plvars, isrvars
<1>17. CASE OtherTakes
  BY <1>17 DEF OtherTakes, plvars, isrvars
<1>18. CASE OtherGives
  BY <1>18 DEF OtherGives, plvars, isrvars
<1>19. CASE UNCHANGED vars
  BY <1>19 DEF vars
<1> QED
  BY <1>1, <1>2, <1>3, <1>4, <1>5, <1>6, <1>7, <1>8, <1>9, <1>10, <1>11, <1>12, <1>13,
     <1>14, <1>15, <1>16, <1>17, <1>18, <1>19 DEF Next, app_dma_task

\* Neither is the end of a transfer.
LEMMA StepDoneFrame ==
    ASSUME TypeOK, BufferNamed, DoneIsReal, Fresh, DoneFrameAhead, [Next]_vars
    PROVE  DoneFrameAhead'
<1> USE DEF TypeOK, DoneFrameAhead, DoneAhead, Pending, Ints, DMA_INT_READY, DMA_INT_DONE
<1>1. CASE PlReady
  BY <1>1 DEF PlReady, pl_int_handler, plvars, isrvars, taskvars
<1>2. CASE PlDone
  BY <1>2 DEF PlDone, pl_int_handler, taskvars
<1>3. CASE NotifyWait
  BY <1>3 DEF NotifyWait, plvars
<1>4. CASE CheckReady
  BY <1>4 DEF CheckReady, Seen, plvars, isrvars
<1>5. CASE LoadFlag("ready_load", DMA_INT_READY, "ready_store")
  BY <1>5 DEF LoadFlag, plvars, isrvars
<1>6. CASE StoreFlag("ready_store", "start")
  BY <1>6 DEF StoreFlag, plvars
<1>7. CASE cycle_dma_start_trans
  BY <1>7 DEF cycle_dma_start_trans, Begin, isrvars
<1>8. CASE cycle_dma_int_clear("ready_clear", DMA_INT_READY, "done")
  BY <1>8 DEF cycle_dma_int_clear, isrvars
<1>9. CASE CheckDone
  BY <1>9 DEF CheckDone, Seen, plvars, isrvars
<1>10. CASE LoadFlag("done_load", DMA_INT_DONE, "done_store")
  BY <1>10 DEF LoadFlag, plvars, isrvars
<1>11. CASE StoreFlag("done_store", "done_clear")
  BY <1>11 DEF StoreFlag, plvars
<1>12. CASE cycle_dma_int_clear("done_clear", DMA_INT_DONE, "invalidate")
  BY <1>12 DEF cycle_dma_int_clear, isrvars
<1>13. CASE Invalidate
  BY <1>13 DEF Invalidate, plvars, isrvars
<1>14. CASE TakeMutex
  BY <1>14 DEF TakeMutex, plvars, isrvars
<1>15. CASE Push
  <2>1. UNCHANGED <<completed, latched, overlap, pl, notify, g_done_buf_id>> /\ pc = "push" /\ pc' = "give"
    BY <1>15 DEF Push, plvars, isrvars
  <2>2. /\ \A n \in Int : Queued(n) => Queued(n)'
        /\ completed > 0 /\ cache[g_done_buf_id] = Empty => Queued(completed)'
    BY <1>15, PushQueues
  <2> QED
    BY <2>1, <2>2 DEF Fresh, Queued
<1>16. CASE GiveMutex
  BY <1>16 DEF GiveMutex, plvars, isrvars
<1>17. CASE OtherTakes
  BY <1>17 DEF OtherTakes, plvars, isrvars
<1>18. CASE OtherGives
  BY <1>18 DEF OtherGives, plvars, isrvars
<1>19. CASE UNCHANGED vars
  BY <1>19 DEF vars
<1> QED
  BY <1>1, <1>2, <1>3, <1>4, <1>5, <1>6, <1>7, <1>8, <1>9, <1>10, <1>11, <1>12, <1>13,
     <1>14, <1>15, <1>16, <1>17, <1>18, <1>19 DEF Next, app_dma_task

\* Handlings and chances to handle.
LEMMA StepCredit ==
    ASSUME TypeOK, Bounded, Loaded, DoneIsReal, CreditBound, [Next]_vars
    PROVE  CreditBound'
<1> USE DEF TypeOK, Bounded, Loaded, DoneIsReal, DoneBranch, CreditBound, InThisPass,
         InNextPass, BeforeCheck, BeforeCount, One, Ints, DMA_INT_READY, DMA_INT_DONE
<1>1. CASE PlReady
  BY <1>1 DEF PlReady, pl_int_handler, plvars, isrvars, taskvars
<1>2. CASE PlDone
  <2>1. completed \in Nat /\ completed + 1 \in 1 .. FRAMES
    BY <1>2, DmaAssumption DEF PlDone
  <2>2. completed' = completed + 1 /\ handled' = handled
    BY <1>2 DEF PlDone, taskvars
  <2>3. handled'[completed'] = 0
    BY <2>1, <2>2
  <2>4. \A n \in 1 .. FRAMES : handled'[n] <= 2 /\ (n > completed' => handled'[n] = 0)
    BY <2>1, <2>2
  <2> QED
    BY <2>3, <2>4
<1>3. CASE NotifyWait
  <2>1. /\ UNCHANGED <<completed, handled, cycle_dma_int_flag>> /\ pc = "wait"
        /\ pc' = "ready" /\ events' = notify /\ notify' = {}
    BY <1>3 DEF NotifyWait, plvars
  <2>2. (InThisPass' <=> InNextPass) /\ ~ InThisPass /\ ~ InNextPass'
    BY <2>1
  <2>3. One(InThisPass') = One(InNextPass) /\ One(InThisPass) = 0 /\ One(InNextPass') = 0
    BY <2>2
  <2> HIDE DEF InThisPass, InNextPass, One
  <2>4. completed > 0 => /\ completed \in 1 .. FRAMES /\ handled[completed] \in Nat
                         /\ One(InNextPass) \in Nat
    BY DmaAssumption DEF One
  <2> QED
    BY <2>1, <2>3, <2>4
<1>4. CASE CheckReady
  BY <1>4 DEF CheckReady, Seen, plvars, isrvars
<1>5. CASE LoadFlag("ready_load", DMA_INT_READY, "ready_store")
  BY <1>5 DEF LoadFlag, plvars, isrvars
<1>6. CASE StoreFlag("ready_store", "start")
  BY <1>6 DEF StoreFlag, plvars
<1>7. CASE cycle_dma_start_trans
  BY <1>7 DEF cycle_dma_start_trans, Begin, isrvars
<1>8. CASE cycle_dma_int_clear("ready_clear", DMA_INT_READY, "done")
  BY <1>8 DEF cycle_dma_int_clear, isrvars
<1>9. CASE CheckDone
  BY <1>9 DEF CheckDone, Seen, plvars, isrvars
<1>10. CASE LoadFlag("done_load", DMA_INT_DONE, "done_store")
  BY <1>10 DEF LoadFlag, plvars, isrvars
<1>11. CASE StoreFlag("done_store", "done_clear")
  BY <1>11 DEF StoreFlag, plvars
<1>12. CASE cycle_dma_int_clear("done_clear", DMA_INT_DONE, "invalidate")
  BY <1>12 DEF cycle_dma_int_clear, isrvars
<1>13. CASE Invalidate
  BY <1>13 DEF Invalidate, plvars, isrvars
<1>14. CASE TakeMutex
  BY <1>14 DEF TakeMutex, plvars, isrvars
<1>15. CASE Push
  BY <1>15 DEF Push, plvars, isrvars
<1>16. CASE GiveMutex
  BY <1>16 DEF GiveMutex, plvars, isrvars
<1>17. CASE OtherTakes
  BY <1>17 DEF OtherTakes, plvars, isrvars
<1>18. CASE OtherGives
  BY <1>18 DEF OtherGives, plvars, isrvars
<1>19. CASE UNCHANGED vars
  BY <1>19 DEF vars
<1> QED
  BY <1>1, <1>2, <1>3, <1>4, <1>5, <1>6, <1>7, <1>8, <1>9, <1>10, <1>11, <1>12, <1>13,
     <1>14, <1>15, <1>16, <1>17, <1>18, <1>19 DEF Next, app_dma_task

\* Passes and pushes.
LEMMA StepPasses ==
    ASSUME TypeOK, PassesNumbered, [Next]_vars
    PROVE  PassesNumbered'
<1> USE DEF TypeOK, PassesNumbered, One, Ints, DMA_INT_READY, DMA_INT_DONE
<1>1. CASE PlReady
  BY <1>1 DEF PlReady, pl_int_handler, plvars, isrvars, taskvars
<1>2. CASE PlDone
  BY <1>2 DEF PlDone, pl_int_handler, taskvars
<1>3. CASE NotifyWait
  BY <1>3 DEF NotifyWait, plvars
<1>4. CASE CheckReady
  BY <1>4 DEF CheckReady, Seen, plvars, isrvars
<1>5. CASE LoadFlag("ready_load", DMA_INT_READY, "ready_store")
  BY <1>5 DEF LoadFlag, plvars, isrvars
<1>6. CASE StoreFlag("ready_store", "start")
  BY <1>6 DEF StoreFlag, plvars
<1>7. CASE cycle_dma_start_trans
  BY <1>7 DEF cycle_dma_start_trans, Begin, isrvars
<1>8. CASE cycle_dma_int_clear("ready_clear", DMA_INT_READY, "done")
  BY <1>8 DEF cycle_dma_int_clear, isrvars
<1>9. CASE CheckDone
  BY <1>9 DEF CheckDone, Seen, plvars, isrvars
<1>10. CASE LoadFlag("done_load", DMA_INT_DONE, "done_store")
  BY <1>10 DEF LoadFlag, plvars, isrvars
<1>11. CASE StoreFlag("done_store", "done_clear")
  BY <1>11 DEF StoreFlag, plvars
<1>12. CASE cycle_dma_int_clear("done_clear", DMA_INT_DONE, "invalidate")
  BY <1>12 DEF cycle_dma_int_clear, isrvars
<1>13. CASE Invalidate
  BY <1>13 DEF Invalidate, plvars, isrvars
<1>14. CASE TakeMutex
  BY <1>14 DEF TakeMutex, plvars, isrvars
<1>15. CASE Push
  BY <1>15 DEF Push, plvars, isrvars
<1>16. CASE GiveMutex
  BY <1>16 DEF GiveMutex, plvars, isrvars
<1>17. CASE OtherTakes
  BY <1>17 DEF OtherTakes, plvars, isrvars
<1>18. CASE OtherGives
  BY <1>18 DEF OtherGives, plvars, isrvars
<1>19. CASE UNCHANGED vars
  BY <1>19 DEF vars
<1> QED
  BY <1>1, <1>2, <1>3, <1>4, <1>5, <1>6, <1>7, <1>8, <1>9, <1>10, <1>11, <1>12, <1>13,
     <1>14, <1>15, <1>16, <1>17, <1>18, <1>19 DEF Next, app_dma_task

\* The latch of a frame that is not queued.
LEMMA StepLatch ==
    ASSUME TypeOK, BufferNamed, LatchHolds, Paced, [Next]_vars
    PROVE  LatchHolds' /\ Paced'
<1> USE DEF TypeOK, LatchHolds, Paced, Queued, Ints, Bufs, DMA_INT_READY, DMA_INT_DONE,
         Empty
<1>1. CASE PlReady
  BY <1>1 DEF PlReady, pl_int_handler, plvars, isrvars, taskvars
<1>2. CASE PlDone
  BY <1>2 DEF PlDone, pl_int_handler, taskvars
<1>3. CASE NotifyWait
  BY <1>3 DEF NotifyWait, plvars
<1>4. CASE CheckReady
  BY <1>4 DEF CheckReady, Seen, plvars, isrvars
<1>5. CASE LoadFlag("ready_load", DMA_INT_READY, "ready_store")
  BY <1>5 DEF LoadFlag, plvars, isrvars
<1>6. CASE StoreFlag("ready_store", "start")
  BY <1>6 DEF StoreFlag, plvars
<1>7. CASE cycle_dma_start_trans
  BY <1>7 DEF cycle_dma_start_trans, Begin, isrvars
<1>8. CASE cycle_dma_int_clear("ready_clear", DMA_INT_READY, "done")
  BY <1>8 DEF cycle_dma_int_clear, isrvars
<1>9. CASE CheckDone
  BY <1>9 DEF CheckDone, Seen, plvars, isrvars
<1>10. CASE LoadFlag("done_load", DMA_INT_DONE, "done_store")
  BY <1>10 DEF LoadFlag, plvars, isrvars
<1>11. CASE StoreFlag("done_store", "done_clear")
  BY <1>11 DEF StoreFlag, plvars
<1>12. CASE cycle_dma_int_clear("done_clear", DMA_INT_DONE, "invalidate")
  BY <1>12 DEF cycle_dma_int_clear, isrvars
<1>13. CASE Invalidate
  BY <1>13 DEF Invalidate, plvars, isrvars
<1>14. CASE TakeMutex
  BY <1>14 DEF TakeMutex, plvars, isrvars
<1>15. CASE Push
  <2>1. UNCHANGED <<completed, latched, overlap, pl, notify, g_done_buf_id>> /\ pc = "push" /\ pc' = "give"
    BY <1>15 DEF Push, plvars, isrvars
  <2>2. /\ \A n \in Int : Queued(n) => Queued(n)'
        /\ completed > 0 /\ cache[g_done_buf_id] = Empty => Queued(completed)'
    BY <1>15, PushQueues
  <2> QED
    BY <2>1, <2>2
<1>16. CASE GiveMutex
  BY <1>16 DEF GiveMutex, plvars, isrvars
<1>17. CASE OtherTakes
  BY <1>17 DEF OtherTakes, plvars, isrvars
<1>18. CASE OtherGives
  BY <1>18 DEF OtherGives, plvars, isrvars
<1>19. CASE UNCHANGED vars
  BY <1>19 DEF vars
<1> QED
  BY <1>1, <1>2, <1>3, <1>4, <1>5, <1>6, <1>7, <1>8, <1>9, <1>10, <1>11, <1>12, <1>13,
     <1>14, <1>15, <1>16, <1>17, <1>18, <1>19 DEF Next, app_dma_task

\* No frame is lost to a PL that waits.
LEMMA StepFrames ==
    ASSUME TypeOK, BufferNamed, LatchHolds, Paced, NoFrameLost, [Next]_vars
    PROVE  NoFrameLost'
<1> USE DEF TypeOK, LatchHolds, Paced, NoFrameLost, Queued, Ints, DMA_INT_READY,
         DMA_INT_DONE
<1>1. CASE PlReady
  BY <1>1 DEF PlReady, pl_int_handler, plvars, isrvars, taskvars
<1>2. CASE PlDone
  BY <1>2, DmaAssumption DEF PlDone, taskvars
<1>3. CASE NotifyWait
  BY <1>3 DEF NotifyWait, plvars
<1>4. CASE CheckReady
  BY <1>4 DEF CheckReady, Seen, plvars, isrvars
<1>5. CASE LoadFlag("ready_load", DMA_INT_READY, "ready_store")
  BY <1>5 DEF LoadFlag, plvars, isrvars
<1>6. CASE StoreFlag("ready_store", "start")
  BY <1>6 DEF StoreFlag, plvars
<1>7. CASE cycle_dma_start_trans
  BY <1>7 DEF cycle_dma_start_trans, Begin, isrvars
<1>8. CASE cycle_dma_int_clear("ready_clear", DMA_INT_READY, "done")
  BY <1>8 DEF cycle_dma_int_clear, isrvars
<1>9. CASE CheckDone
  BY <1>9 DEF CheckDone, Seen, plvars, isrvars
<1>10. CASE LoadFlag("done_load", DMA_INT_DONE, "done_store")
  BY <1>10 DEF LoadFlag, plvars, isrvars
<1>11. CASE StoreFlag("done_store", "done_clear")
  BY <1>11 DEF StoreFlag, plvars
<1>12. CASE cycle_dma_int_clear("done_clear", DMA_INT_DONE, "invalidate")
  BY <1>12 DEF cycle_dma_int_clear, isrvars
<1>13. CASE Invalidate
  BY <1>13 DEF Invalidate, plvars, isrvars
<1>14. CASE TakeMutex
  BY <1>14 DEF TakeMutex, plvars, isrvars
<1>15. CASE Push
  <2>1. UNCHANGED <<completed, latched, overlap, pl, notify, g_done_buf_id>> /\ pc = "push" /\ pc' = "give"
    BY <1>15 DEF Push, plvars, isrvars
  <2>2. /\ \A n \in Int : Queued(n) => Queued(n)'
        /\ unasked' = unasked
    BY <1>15, PushQueues DEF Push, plvars
  <2> HIDE DEF Queued
  <2> QED
    BY <2>1, <2>2
<1>16. CASE GiveMutex
  BY <1>16 DEF GiveMutex, plvars, isrvars
<1>17. CASE OtherTakes
  BY <1>17 DEF OtherTakes, plvars, isrvars
<1>18. CASE OtherGives
  BY <1>18 DEF OtherGives, plvars, isrvars
<1>19. CASE UNCHANGED vars
  BY <1>19 DEF vars
<1> QED
  BY <1>1, <1>2, <1>3, <1>4, <1>5, <1>6, <1>7, <1>8, <1>9, <1>10, <1>11, <1>12, <1>13,
     <1>14, <1>15, <1>16, <1>17, <1>18, <1>19 DEF Next, app_dma_task

-----------------------------------------------------------------------------
\* The setup before the loop establishes the invariant.
LEMMA InitIInv == Init => IInv
<1> SUFFICES ASSUME Init PROVE IInv
  OBVIOUS
<1> USE DEF Init, DMA_INT_READY, DMA_INT_DONE
<1>1. TypeOK /\ Bounded
  BY DmaAssumption DEF TypeOK, Bounded, Ints, Bufs, PCs, Empty, DMA_BUF_PING, DMA_BUF_PANG
<1>2. BufferNamed /\ CacheWhole /\ NeverTorn
  BY DEF BufferNamed, DoneBufHoldsLastFrame, BufOf, CacheWhole, NeverTorn, Empty, TORN,
         DMA_BUF_PANG
<1>3. DoneIsReal /\ Loaded /\ Fresh /\ NoInterruptLost
  BY DEF DoneIsReal, DoneBranch, Loaded, Fresh, NoInterruptLost, RequestAhead,
     DoneFrameAhead
<1>4. CreditBound /\ LatchHolds /\ Paced /\ NoFrameLost /\ PassesNumbered
  BY DmaAssumption
     DEF CreditBound, LatchHolds, Paced, NoFrameLost, PassesNumbered, One
<1> QED
  BY <1>1, <1>2, <1>3, <1>4 DEF IInv

\* Every step keeps it.
LEMMA NextIInv == IInv /\ [Next]_vars => IInv'
<1> SUFFICES ASSUME IInv, [Next]_vars PROVE IInv'
  OBVIOUS
<1> USE DEF IInv
<1>1. TypeOK' /\ Bounded'
  BY StepTypes
<1>2. BufferNamed' /\ CacheWhole' /\ NeverTorn' /\ DoneIsReal'
  BY StepBuffer, StepTorn, StepReal
<1>3. Loaded' /\ Fresh' /\ NoInterruptLost'
  BY StepLoaded, StepRequest, StepDoneFrame DEF NoInterruptLost
<1>4. CreditBound' /\ LatchHolds' /\ Paced' /\ NoFrameLost' /\ PassesNumbered'
  BY StepCredit, StepLatch, StepFrames, StepPasses
<1> QED
  BY <1>1, <1>2, <1>3, <1>4

\* The strengthened invariant holds for every number of frames and either pace.
THEOREM IInvAlways == Spec => []IInv
  BY InitIInv, NextIInv, PTL DEF Spec

\* The flag word, the buffer id, the task's place and the rest keep their types.
THEOREM AcquisitionTypeCorrect == Spec => []TypeOK
<1>1. IInv => TypeOK
  BY DEF IInv
<1> QED
  BY <1>1, IInvAlways, PTL

\* The toggled g_done_buf_id always names the buffer of the last finished frame.
THEOREM IdFollowsPl == Spec => []DoneBufHoldsLastFrame
<1>1. IInv => DoneBufHoldsLastFrame
  BY DEF IInv, BufferNamed
<1> QED
  BY <1>1, IInvAlways, PTL

\* The unprotected update of cycle_dma_int_flag loses no interrupt.
THEOREM InterruptsKept == Spec => []NoInterruptLost
<1>1. IInv => NoInterruptLost
  BY DEF IInv
<1> QED
  BY <1>1, IInvAlways, PTL

\* app_dma_task never copies a buffer the PL is writing, whatever the PL's pace.
THEOREM CopiesWhole == Spec => []NeverTorn
<1>1. IInv => NeverTorn
  BY DEF IInv
<1> QED
  BY <1>1, IInvAlways, PTL

\* No frame is invalidated and counted by more than two passes, one that saw the
\* flag and one woken by the notification, for every number of frames.
THEOREM CountedAtMostTwice == Spec => []HandledAtMostTwice
<1>1. IInv => HandledAtMostTwice
  BY DEF IInv, CreditBound, HandledAtMostTwice
<1> QED
  BY <1>1, IInvAlways, PTL

\* What the ring gets from the k-th pass counted in dma_done is the k-th frame of
\* queued: no pass pushes twice, and none leaves its push out.
THEOREM PassPushesOnce == Spec => []PassesNumbered
<1>1. IInv => PassesNumbered
  BY DEF IInv
<1> QED
  BY <1>1, IInvAlways, PTL

\* With a PL that waits until a DONE is cleared a frame is queued before the next
\* transfer starts, unless the PL has not asked for that one.
THEOREM FramesQueuedInTime == Spec => []NoFrameLost
<1>1. IInv => NoFrameLost
  BY DEF IInv
<1> QED
  BY <1>1, IInvAlways, PTL
=============================================================================
