--------------------------- MODULE DmaAcquisition ---------------------------
(***************************************************************************)
(* Acquisition: the PL fills a ping-pong buffer and raises two interrupts, *)
(* READY ("a frame waits in the FIFO, start the transfer") and DONE ("the  *)
(* transfer is in memory"); pl_int_handler of drivers/pl/cycle_dma.c       *)
(* records them in cycle_dma_int_flag and in the task notification; the    *)
(* loop of app/app_dma_task.c consumes both, starts transfers, and queues  *)
(* each finished buffer for sending.                                       *)
(*                                                                         *)
(* One core: an interrupt is handled between two steps of the task, so     *)
(* raising one and its handler are a single step, while the task's own     *)
(* code is cut wherever the handler can make a difference, including       *)
(* between the load and the store of "cycle_dma_int_flag &= ~bit".         *)
(*                                                                         *)
(* The PL is external and modelled from its use: it writes ping and pang   *)
(* in turn, starting with ping; one transfer is in flight at a time; an    *)
(* interrupt is raised only while its latch is clear and the latch is      *)
(* cleared through PL_INT_CLR_REG.  Writing the length starts a transfer,  *)
(* whether the PL has asked for one or not: one it has not asked for takes *)
(* what the FIFO holds, which may be nothing, and a transfer under way     *)
(* begins again in its buffer.                                             *)
(* overlap says whether the next frame may be announced, and so be under   *)
(* way, before the last DONE has been cleared; a PL does one or the other. *)
(***************************************************************************)
EXTENDS Integers, Sequences

CONSTANTS Paces,    \* the values of overlap to consider
          FRAMES    \* bound: how many frames the PL acquires

ASSUME DmaAssumption == Paces \subseteq BOOLEAN /\ FRAMES \in Nat

DMA_INT_READY == "ready"
DMA_INT_DONE == "done"
DMA_BUF_PING == 0
DMA_BUF_PANG == 1

Ints == {DMA_INT_READY, DMA_INT_DONE}
Bufs == {DMA_BUF_PING, DMA_BUF_PANG}

\* Mutant: the id is counted up instead of toggled.
OtherCounts(b) == b + 1

Other(b) == IF b = DMA_BUF_PING THEN DMA_BUF_PANG ELSE DMA_BUF_PING

TORN == 0        \* content of a buffer being written
Empty == -1      \* content of a buffer never written; a cache line not held

VARIABLES
    overlap,             \* does the PL go on while a DONE is still latched?
    pl,                  \* what the PL does: "idle", "wait_start", "busy"
    latched,             \* the interrupts the PL holds asserted
    completed,           \* transfers finished; their frames are numbered from 1
    mem,                 \* the frame in each buffer, in memory
    unasked,             \* history: the transfers started with no request
    cycle_dma_int_flag,  \* interrupts seen by the handler, not yet by the task
    g_done_buf_id,       \* the buffer of the last DONE
    notify,              \* the task's notification bits
    cache,               \* what the CPU's cache holds of each buffer
    pc,                  \* where the task is
    events,              \* its local: the bits it was woken with
    loaded,              \* its register between load and store of the flag
    ring_mutex,          \* "free", "dma", or "other" (TCP or statistics task)
    dma_done,            \* g_app_ctx.stats.dma_done
    handled,             \* history: how many passes have counted each frame
    queued               \* the frames pushed to the ring, in order

plvars == <<overlap, pl, latched, completed, mem, unasked>>
isrvars == <<cycle_dma_int_flag, g_done_buf_id, notify>>
taskvars == <<cache, pc, events, loaded, ring_mutex, dma_done, handled, queued>>
vars == <<overlap, pl, latched, completed, mem, unasked, cycle_dma_int_flag,
          g_done_buf_id, notify, cache, pc, events, loaded, ring_mutex, dma_done,
          handled, queued>>

\* The buffer of frame n: odd frames go to ping.
BufOf(n) == IF n % 2 = 1 THEN DMA_BUF_PING ELSE DMA_BUF_PANG

\* After the setup before the loop: the PL is reset, the handler installed.
Init == /\ overlap \in Paces
        /\ pl = "idle"
        /\ latched = {}
        /\ completed = 0
        /\ mem = [b \in Bufs |-> Empty]
        /\ unasked = {}
        /\ cycle_dma_int_flag = {}
        /\ g_done_buf_id = DMA_BUF_PANG
        /\ notify = {}
        /\ cache = [b \in Bufs |-> Empty]
        /\ pc = "wait"
        /\ events = {}
        /\ loaded = {}
        /\ ring_mutex = "free"
        /\ dma_done = 0
        /\ handled = [n \in 1 .. FRAMES |-> 0]
        /\ queued = << >>

-----------------------------------------------------------------------------
(* The interrupt handler, and the PL that causes it.                        *)

\* Mutant: the handler leaves the notification out; the flag alone is polled.
HandlerNoNotify(int) ==
    /\ cycle_dma_int_flag' = cycle_dma_int_flag \cup {int}
    /\ g_done_buf_id' = IF int = DMA_INT_DONE THEN Other(g_done_buf_id)
                                              ELSE g_done_buf_id
    /\ UNCHANGED notify

\* Mutant: the buffer id is toggled when a transfer is announced.
HandlerTogglesEarly(int) ==
    /\ cycle_dma_int_flag' = cycle_dma_int_flag \cup {int}
    /\ g_done_buf_id' = IF int = DMA_INT_READY THEN Other(g_done_buf_id)
                                               ELSE g_done_buf_id
    /\ notify' = notify \cup {int}

pl_int_handler(int) ==
    /\ cycle_dma_int_flag' = cycle_dma_int_flag \cup {int}
    /\ g_done_buf_id' = IF int = DMA_INT_DONE THEN Other(g_done_buf_id)
                                              ELSE g_done_buf_id
    /\ notify' = notify \cup {int}

PlReady ==
    /\ pl = "idle" /\ completed < FRAMES
    /\ DMA_INT_READY \notin latched
    /\ overlap \/ DMA_INT_DONE \notin latched
    /\ pl' = "wait_start"
    /\ latched' = latched \cup {DMA_INT_READY}
    /\ pl_int_handler(DMA_INT_READY)
    /\ UNCHANGED <<overlap, completed, mem, unasked, taskvars>>

PlDone ==
    /\ pl = "busy"
    /\ DMA_INT_DONE \notin latched
    /\ pl' = "idle"
    /\ completed' = completed + 1
    /\ mem' = [mem EXCEPT ![BufOf(completed + 1)] = completed + 1]
    /\ latched' = latched \cup {DMA_INT_DONE}
    /\ pl_int_handler(DMA_INT_DONE)
    /\ UNCHANGED <<overlap, unasked, taskvars>>

-----------------------------------------------------------------------------
(* One pass of the task's loop.                                             *)

\* Mutant: the bits are read but not cleared on exit.
NotifyWaitKeepsBits ==
    /\ pc = "wait"
    /\ events' = notify
    /\ pc' = "ready"
    /\ UNCHANGED <<plvars, isrvars, cache, loaded, ring_mutex, dma_done, handled, queued>>

\* xTaskNotifyWait: take the bits there are, or time out with none.
NotifyWait ==
    /\ pc = "wait"
    /\ events' = notify
    /\ notify' = {}
    /\ pc' = "ready"
    /\ UNCHANGED <<plvars, cycle_dma_int_flag, g_done_buf_id, cache, loaded,
                   ring_mutex, dma_done, handled, queued>>

Seen(int) == int \in events \/ int \in cycle_dma_int_flag

CheckReady ==
    /\ pc = "ready"
    /\ pc' = IF Seen(DMA_INT_READY) THEN "ready_load" ELSE "done"
    /\ UNCHANGED <<plvars, isrvars, cache, events, loaded, ring_mutex, dma_done, handled,
                   queued>>

CheckDone ==
    /\ pc = "done"
    /\ pc' = IF Seen(DMA_INT_DONE) THEN "done_load" ELSE "wait"
    /\ UNCHANGED <<plvars, isrvars, cache, events, loaded, ring_mutex, dma_done, handled,
                   queued>>

\* cycle_dma_int_flag &= ~bit, which is a load and a store.
LoadFlag(from, bit, to) ==
    /\ pc = from
    /\ loaded' = cycle_dma_int_flag \ {bit}
    /\ pc' = to
    /\ UNCHANGED <<plvars, isrvars, cache, events, ring_mutex, dma_done, handled, queued>>

StoreFlag(from, to) ==
    /\ pc = from
    /\ cycle_dma_int_flag' = loaded
    /\ loaded' = {}
    /\ pc' = to
    /\ UNCHANGED <<plvars, g_done_buf_id, notify, cache, events, ring_mutex,
                   dma_done, handled, queued>>

\* A transfer begins, in the buffer whose turn it is.
Begin == /\ pl' = "busy"
         /\ mem' = [mem EXCEPT ![BufOf(completed + 1)] = TORN]

\* Writing the length register starts the DMA: the transfer the PL waits for;
\* one it has not asked for, unless the FIFO is empty; or, during a transfer,
\* that transfer once more.
cycle_dma_start_trans ==
    /\ pc = "start"
    /\ \/ pl = "wait_start" /\ Begin /\ UNCHANGED unasked
       \/ /\ pl = "idle" /\ completed < FRAMES
          /\ Begin
          /\ unasked' = unasked \cup {completed + 1}
       \/ pl # "wait_start" /\ UNCHANGED <<pl, mem, unasked>>
    /\ pc' = "ready_clear"
    /\ UNCHANGED <<overlap, latched, completed, isrvars, cache, events, loaded,
                   ring_mutex, dma_done, handled, queued>>

cycle_dma_int_clear(from, int, to) ==
    /\ pc = from
    /\ latched' = latched \ {int}
    /\ pc' = to
    /\ UNCHANGED <<overlap, pl, completed, mem, unasked, isrvars, cache, events, loaded,
                   ring_mutex, dma_done, handled, queued>>

\* cycle_dma_invalidate_buf(g_done_buf_id), and the statistics: the pass counts
\* the frame in that buffer, the last one finished.
Invalidate ==
    /\ pc = "invalidate"
    /\ cache' = [cache EXCEPT ![g_done_buf_id] = Empty]
    /\ dma_done' = dma_done + 1
    /\ handled' = [handled EXCEPT ![completed] = @ + 1]
    /\ pc' = "take"
    /\ UNCHANGED <<plvars, isrvars, events, loaded, ring_mutex, queued>>

\* Mutant: the wait for the mutex has a timeout, and the push is then skipped.
TakeMutexOrSkip ==
    /\ pc = "take"
    /\ \/ ring_mutex = "free" /\ ring_mutex' = "dma" /\ pc' = "push"
       \/ ring_mutex # "free" /\ pc' = "wait" /\ UNCHANGED ring_mutex
    /\ UNCHANGED <<plvars, isrvars, cache, events, loaded, dma_done, handled, queued>>

TakeMutex ==
    /\ pc = "take"
    /\ ring_mutex = "free"
    /\ ring_mutex' = "dma"
    /\ pc' = "push"
    /\ UNCHANGED <<plvars, isrvars, cache, events, loaded, dma_done, handled, queued>>

\* The copy reads g_done_buf_id again; a cached line may still be held or
\* have been evicted meanwhile.
Push ==
    /\ pc = "push"
    /\ \E frame \in {mem[g_done_buf_id], cache[g_done_buf_id]} \ {Empty} :
          /\ cache[g_done_buf_id] = Empty => frame = mem[g_done_buf_id]
          /\ queued' = Append(queued, frame)
          /\ cache' = [cache EXCEPT ![g_done_buf_id] = frame]
    /\ pc' = "give"
    /\ UNCHANGED <<plvars, isrvars, events, loaded, ring_mutex, dma_done, handled>>

GiveMutex ==
    /\ pc = "give"
    /\ ring_mutex' = "free"
    /\ pc' = "wait"
    /\ UNCHANGED <<plvars, isrvars, cache, events, loaded, dma_done, handled, queued>>

app_dma_task ==
    \/ NotifyWait
    \/ CheckReady
    \/ LoadFlag("ready_load", DMA_INT_READY, "ready_store")
    \/ StoreFlag("ready_store", "start")
    \/ cycle_dma_start_trans
    \/ cycle_dma_int_clear("ready_clear", DMA_INT_READY, "done")
    \/ CheckDone
    \/ LoadFlag("done_load", DMA_INT_DONE, "done_store")
    \/ StoreFlag("done_store", "done_clear")
    \/ cycle_dma_int_clear("done_clear", DMA_INT_DONE, "invalidate")
    \/ Invalidate
    \/ TakeMutex
    \/ Push
    \/ GiveMutex

\* The other users of the mutex have lower priorities: they run only while
\* the DMA task is blocked.
OtherTakes ==
    /\ pc = "wait" /\ notify = {}
    /\ ring_mutex = "free"
    /\ ring_mutex' = "other"
    /\ UNCHANGED <<plvars, isrvars, cache, pc, events, loaded, dma_done, handled, queued>>

OtherGives ==
    /\ (pc = "wait" /\ notify = {}) \/ pc = "take"
    /\ ring_mutex = "other"
    /\ ring_mutex' = "free"
    /\ UNCHANGED <<plvars, isrvars, cache, pc, events, loaded, dma_done, handled, queued>>

Next == PlReady \/ PlDone \/ app_dma_task \/ OtherTakes \/ OtherGives

\* The scheduler runs the highest-priority task; the holder of the mutex
\* inherits its priority while the DMA task waits for it.
Fairness == WF_vars(app_dma_task) /\ WF_vars(pc = "take" /\ OtherGives)

Spec == Init /\ [][Next]_vars /\ Fairness

-----------------------------------------------------------------------------
PCs == {"wait", "ready", "ready_load", "ready_store", "start", "ready_clear", "done",
        "done_load", "done_store", "done_clear", "invalidate", "take", "push", "give"}

\* Every variable keeps its type.
TypeOK ==
    /\ overlap \in BOOLEAN
    /\ pl \in {"idle", "wait_start", "busy"}
    /\ latched \subseteq Ints
    /\ completed \in 0 .. FRAMES
    /\ mem \in [Bufs -> Int]
    /\ unasked \subseteq 1 .. FRAMES
    /\ cycle_dma_int_flag \subseteq Ints
    /\ g_done_buf_id \in Bufs
    /\ notify \subseteq Ints
    /\ cache \in [Bufs -> Int]
    /\ pc \in PCs
    /\ events \subseteq Ints
    /\ loaded \subseteq Ints
    /\ ring_mutex \in {"free", "dma", "other"}
    /\ dma_done \in Nat
    /\ handled \in [1 .. FRAMES -> Nat]
    /\ queued \in Seq(Int)

\* g_done_buf_id is only toggled, never told by the PL: it still names the
\* buffer that holds the last finished frame, whole, even while the next
\* transfer is being written.
DoneBufHoldsLastFrame == completed > 0 => mem[g_done_buf_id] = completed

\* The pass that can still act on an interrupt: it has been woken by it, or is
\* already in its branch and has not yet reached the step that serves it.
ReadyAhead == \/ pc = "ready" /\ DMA_INT_READY \in events
              \/ pc \in {"ready_load", "ready_store", "start"}

DoneAhead == \/ /\ pc \in {"ready", "ready_load", "ready_store", "start",
                           "ready_clear", "done"}
                /\ DMA_INT_DONE \in events
             \/ pc \in {"done_load", "done_store", "done_clear", "invalidate",
                        "take", "push"}

\* A wake-up that is still to come: the notification, or the flag unless the
\* task is about to store over it (the flag is looked at after a timeout too).
Pending(int) ==
    \/ int \in notify
    \/ /\ int \in cycle_dma_int_flag
       /\ pc \in {"ready_store", "done_store"} => int \in loaded

\* A PL that waits for a start has a wake-up or a pass ahead of it.
RequestAhead == pl = "wait_start" => Pending(DMA_INT_READY) \/ ReadyAhead

\* So does the last finished frame, if it was never queued.
DoneFrameAhead ==
    completed > 0 /\ (\A i \in DOMAIN queued : queued[i] # completed) =>
        Pending(DMA_INT_DONE) \/ DoneAhead

\* The flag is updated by a load and a store that the handler can fall
\* between, and the task clears latches it may not have looked at: still no
\* interrupt is lost, neither the request for a start nor the end of a transfer.
NoInterruptLost == RequestAhead /\ DoneFrameAhead

\* The end of a transfer may be handled by its flag and once more, in the next
\* pass, by its notification; no frame is invalidated and counted a third time.
HandledAtMostTwice == \A n \in 1 .. FRAMES : handled[n] <= 2

Queued(n) == \E i \in DOMAIN queued : queued[i] = n

\* With a PL that waits until a DONE is cleared, a frame is queued before the next
\* transfer starts.  Only a transfer the PL has not asked for, which READY handled
\* twice starts, does not wait: the frame before it can be skipped, and no other.
NoFrameLost ==
    ~ overlap =>
        \A n \in 1 .. completed - (IF pl = "busy" THEN 0 ELSE 1) :
            Queued(n) \/ n + 1 \in unasked

\* A copy never meets the transfer that writes its buffer.
NeverTorn == \A i \in DOMAIN queued : queued[i] # TORN

\* Every interrupt is served: a PL that waits for a start gets one, and every
\* DONE is followed by a push, whichever buffer it copies.
InterruptsServed ==
    /\ pl = "wait_start" ~> pl = "busy"
    /\ DMA_INT_DONE \in notify ~> pc = "push"

\* With a PL that waits, every finished frame is queued for sending, unless the
\* transfer after it is one the PL has not asked for.
EveryFrameQueued ==
    \A n \in 1 .. FRAMES :
        ~ overlap /\ completed >= n ~> Queued(n) \/ n + 1 \in unasked

\* What is copied was invalidated first: no frame is queued after a later one.
NoStaleCopy ==
    \A i, j \in DOMAIN queued : i < j => queued[i] <= queued[j]
=============================================================================
