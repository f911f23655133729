# zynq_wave_m_rtos in TLA+

The program acquires frames from a CCD front end on a Zynq: programmable logic
(PL) writes them to memory by DMA, a FreeRTOS task queues them in a transmit
ring, and a second task sends them over a TCP connection made with lwIP.  The
PC at the other end configures the front end over the same connection.

These modules model that program from its code, `src/src/`.  TLC checks them on
small instances; TLAPS proves the theorems of the `*Proofs` modules for every
value of the constants.  `PROJECT.json` names, for every definition that models
code, the lines it models, and lists the runs, the hazards, the mutants that
show each property can fail, the theorems and the findings.

1. [Inventory](#1-inventory)
2. [Modules and their correspondence to the code](#2-modules-and-their-correspondence-to-the-code)
3. [What is assumed of the surroundings](#3-what-is-assumed-of-the-surroundings)
4. [Runs, bounds and what they show](#4-runs-bounds-and-what-they-show)
5. [Fairness](#5-fairness)
6. [What is proved](#6-what-is-proved)
7. [What is only model-checked, and what is not modelled](#7-what-is-only-model-checked-and-what-is-not-modelled)
8. [Findings](#8-findings)
9. [Plan](#9-plan)

## 1. Inventory

### Who runs

| Actor | Priority | Code | Shares |
|---|---|---|---|
| PL interrupt handler | above all tasks | `drivers/pl/cycle_dma.c` | `cycle_dma_int_flag`, `g_done_buf_id`, task notification |
| DMA task | idle + 4 | `app/app_dma_task.c` | the same, the ring (under `ring_mutex`), `stats` |
| TCP task | idle + 3 | `app/app_tcp_task.c`, link function in `middleware/net/tcp_client.c` | the ring, the pcb (under lwIP's core lock), the configuration shadow (no lock) |
| network input thread | idle + 2 | started in `tcp_client.c`, code not in the repository | hands packets to lwIP's thread |
| statistics task | idle + 1 | `app/app_stats_task.c` | reads the ring and the counters under `ring_mutex` |
| lwIP's thread | lwIP's, not in the repository | callbacks in `tcp_client.c`, parser in `middleware/protocol/tcp_cfg_proto.c` | the pcb, `g_client_connected`, shadow, registers |

Data flows from the PL through the ping-pong buffer, the ring and TCP to the PC;
configuration flows back from the PC through the parser to the shadow and the
registers; the shadow goes to the PC as a state report, offered on each connection
until it is accepted.

Two locks are held together: the TCP task takes lwIP's core lock while it has
`ring_mutex`.  The DMA task waits for `ring_mutex` without a limit.

### Components

| Component | State | Operations | Hard because | Correct when |
|---|---|---|---|---|
| Transmit ring `middleware/buff` | slot array, `head`, `tail`, `count`, `next_frame_id`, `drop_cnt` | init, push, peek, pop, empty/full | two wraps (index, 16-bit number), a view that is a pointer into the array, refusals | it is a bounded FIFO, numbers without gaps, a held view is never overwritten |
| DMA acquisition `drivers/pl/cycle_dma`, `pl2ps_interrupt`, `app/app_dma_task` | flag word, buffer id, notification bits, cache lines | handler, start, clear, invalidate, task loop | flag updated unprotected, id read twice around a blocking wait, two wake-up paths | no interrupt is lost, no buffer is copied torn, no frame is counted a third time, every frame is queued in time |
| TCP client `middleware/net` | `client_pcb`, `g_client_connected`, `g_app_ctx.tcp_pcb`, four statics of the link function | callbacks, connect, link function, send | callbacks against the task, timeouts over a wrapping counter, two names for one pcb, a close that fails | "connected" is true, no pcb leaks, it always tries again, one report at most is accepted per connection |
| TCP task `app/app_tcp_task` | counters of outcomes, the mutex | peek, send, pop or keep | partial failures of sending, connections that break, two locks | what is pushed goes out in order, what leaves the ring unsent is counted, the ring drains, nobody blocks |
| Statistics task `app/app_stats_task` | none | print under the mutex | counters moved by others | the figures add up |
| Configuration protocol, receive side | receive buffer | feed, parse, consume, find magic, handle frame | stream cut anywhere, resynchronisation, a loop in lwIP's thread | the frames handled do not depend on the cuts, no byte is used twice, feed returns |
| Configuration shadow and report `bsp/bsp_cfg_state`, `tcp_cfg_proto.c` | the handles and timing words, the PL registers | apply write block, send state report | applied field by field while it is read field by field | registers follow the shadow, a report mixes only what was in force |
| CCD and ADC drivers `bsp/bsp_ccd`, `bsp/bsp_adc`; register access `drivers/pl/axi_to_pl.h` | none of their own (registers) | init, setters, getters; read, write, set, clear, update, field access | several fields in a word, masks and shifts in two headers | a field reads back as asked for, its neighbours are left alone |
| Application context and start, PL reset, GIC set-up, build files | - | - | - | see section 7 |

## 2. Modules and their correspondence to the code

```
FrameQueue <--refined by-- RingBuff       <- MCRingBuff, RingBuffProofs
    |
    +--INSTANCE-- FramePath --INSTANCE--+  <- FramePathProofs
                                        |
Connection <--refined by-- TcpClient    <- TcpClientProofs
                           DmaAcquisition <- DmaAcquisitionProofs
TcpCfgProto <- MCTcpCfgProto, TcpCfgProtoProofs
    |
    +--INSTANCE-- CfgPath <- MCCfgPath, CfgPathProofs
    |
CfgState    <- MCCfgState, CfgStateProofs
PlRegs      <- PlRegsProofs
```

`FramePath` is built on the two abstract modules, so its results rest on the two
refinements; both are checked and proved, and so is that `FramePath` uses the ring
and the connection only in the ways these two modules allow.

Operators keep the names of the C functions.  A function becomes one step where
a lock or the single thread it runs in makes it atomic, and several steps where
another actor can come between.

**`FrameQueue`** is the abstract ring: a sequence of frames, `Accept`, `Refuse`,
`Remove`.

**`RingBuff`** is `ring_buff.c`.  All calls are made under `ring_mutex`, so each
function is one step; push has three disjuncts for its three ends (argument
refused, dropped and counted, accepted).  `view` is what the TCP task holds from
peek to pop: an index, as the code's view is a pointer.  The header is stored as
the bytes `lwip_htons` and `lwip_htonl` produce, the magic's four among them, and
`WireHeader` reads them back as the receiver does.  A payload's bytes are one value.
Today the
TCP task keeps the mutex from peek to pop, so no push comes between; the model
does not use that, and shows that the ring would allow sending outside the
mutex.

**`DmaAcquisition`** is the handler and the loop of the DMA task, with the PL and
the data cache as its surroundings.  The task is cut between the load and the
store of `cycle_dma_int_flag &= ~bit`, between the two reads of
`g_done_buf_id`, around the mutex and between the two branches: at every point
where an interrupt changes what follows.  Frames are numbered by completion, so
`queued` shows order, loss and repetition.  A cached line that was not
invalidated may be read or may have been evicted; both are possible.
`cycle_dma_start_trans` starts the DMA whenever it is called, as writing the length
register does: the transfer the PL waits for, one it has not asked for (noted in
`unasked`; with an empty FIFO none begins), or the one under way once more in its
buffer.  The last two happen when a READY is served by its flag in one pass and by
its notification in the next.  `handled` counts, for each frame, the passes that
invalidated and counted it.

**`Connection`** is what the TCP client promises: none, trying or up, and at most
one report accepted (`ERR_OK`) while up.

**`TcpClient`** is the callbacks and `lwip_tcp_client_link`.  What the code does
under `LOCK_TCPIP_CORE` is one step; between two such sections a callback may
run (`pc` names the place: `link`, `report`, `abort`, `forget`, `retry`,
`init`).  `ReportRefused` stands for every outcome but `ERR_OK`, the report that
`tcp_write` has queued before `tcp_output` failed among them: it is sent again, so a
connection may carry a report twice, although only one is accepted.  The result of
`tcp_close` is ignored in the code; `CloseFails` is the close that finds no
memory and leaves the pcb open (`close_wait`).

**`FramePath`** is the DMA task's push, the whole loop of the TCP task, the
statistics task and lwIP's thread, over the two locks.  A frame is known by the pass
of the DMA task that pushed it: what the k-th pass copies is `queued[k]` of
`DmaAcquisition`, a new frame, the same one again or, as `dma_stale_copy` shows, an
older one (`PassPushesOnce` proves that the k-th pass counted is the k-th to push).
Nothing on the way looks at what a frame holds.  `tcp_client_send_data` has its five ends: not connected,
no room, `tcp_write` fails, `tcp_output` fails after `tcp_write` has queued the
data, sent.  `Outcome` is what the task does with each result: pop and count, keep
and count, keep, pop and count as another error.  lwIP's thread holds the core lock
from `LwipEnter` to the step that says what the event was.  The timers of the link
function are a choice here; `TcpClient` has them.

**`TcpCfgProto`** is `tcp_cfg_feed_bytes` and `tcp_cfg_try_parse_frames`, a turn of
either loop per step.  `Receive` is the receive callback with a piece of any
length.  The two-byte length field is one byte; the sequence number and the
reserved byte, which nothing depends on, are left out.  `fed` is the history the
properties compare with; `Frames` is a second, declarative parser of a whole
stream and serves as the reference.

**`CfgState`** is `tcp_cfg_handle_write_block` and `tcp_cfg_send_state_report`, one
field per step, as the two threads run without a common lock.  `Program` and
`ReadOrder` list the assignments and reads in the order of the code.  A control
word is the set of its fields.  A block's steps that its mask skips are not
steps.

**`CfgPath`** composes the two: a frame leaves the parser's buffer and enters
`tcp_cfg_handle_frame` in one step, as both are lwIP's thread; the parser goes on
when the write block is through; the TCP task reads its report in between.

**`PlRegs`** is `axi_to_pl.h` and every function of `bsp_ccd.c` and `bsp_adc.c` at the
level of bits: a word is the set of the positions of its 1 bits.  It also has the
two ways in which `tcp_cfg_proto.c` packs and filters control words, and so
justifies that `CfgState` takes a word for its fields.

## 3. What is assumed of the surroundings

- **One core.** FreeRTOS schedules the tasks on one core; an interrupt is handled
  between two steps of a task.
- **The PL** (not in the repository, modelled from its use in `cycle_dma.c` and
  `app_dma_task.c`): it writes ping and pang in turn and starts with ping, as the
  handler's toggle of `g_done_buf_id` requires; it has one transfer in flight; it
  raises an interrupt only while its latch is clear, and `PL_INT_CLR_REG` clears
  the latch; it starts a transfer whenever the length register is written
  (`cycle_dma.c:46`), asked for or not, unless its FIFO is empty, and a transfer
  started during another begins that one again.  Whether it goes on to the next
  frame while a DONE is still latched the repository does not tell: `overlap` is
  chosen at the start from `Paces`, and both are checked.  It leaves the control
  registers as they were written (`PlRegs`).
- **The other tasks and the ring mutex.** They have lower priorities than the DMA
  task and take the mutex only while it is blocked.  The TCP task may find the mutex
  taken by the statistics task for longer than the 2 ms it waits.
- **lwIP.** Callbacks run in lwIP's thread with the core lock held; a pcb is freed
  before its error callback; after a `tcp_close` that succeeds it lives until the
  last ACK; `tcp_close` may fail for want of memory, and lwIP may or may not try it
  again.  `tcp_abort` of a pcb that has been freed is undefined: the error callback
  runs again, or nothing happens.  `tcp_write` takes all of the data or none;
  data it has queued is sent later even if `tcp_output` fails, in order, unless the
  connection breaks.
- **Time.** The tick counter advances in units of the retry interval and at most
  once between two passes of the TCP task, which wakes every 2 ms and so misses no
  unit of 1 s.  The counter's wrap is reached.
- **Start.** The DMA task has the highest priority and does not block before its
  loop, so its set-up (`bsp_ccd_init`, `bsp_adc_init`) precedes everything
  `CfgState` models.  `bsp_ccd_init` does not write the waiting time; what the
  register then holds is left open (`WaitTims`).
- **lwIP's thread against the TCP task.** Their relative priority is not in the
  repository: write block and report interleave in every way.
- **Driver calls** come one at a time (`PlRegs`): the read-modify-write helpers have
  no caller that another task could interrupt with a second one.

## 4. Runs, bounds and what they show

| Run | Result | Instance | Shows |
|---|---|---|---|
| `ring` | holds | 3 slots, numbers mod 16, drop counter mod 2, payload limit 3, two payloads, lengths 0, 1, 3, 4 | shape, numbering, header bytes, views, refinement of `FrameQueue` |
| `dma` | holds | 5 frames, both paces | no lost interrupt, no torn copy, no frame counted a third time, whatever the pace; with a PL that waits, every frame queued in time, unless a transfer it has not asked for follows |
| `dma_stale_copy` | violated | 3 frames, a PL that waits | an old frame is queued again after a newer one |
| `tcp_client` | holds | 2 pcbs, retry 1, timeout 3, 7 ticks | agreement on the pcb, no leak, timeout, reconnecting for ever, refinement of `Connection` |
| `tcp_abort` | violated | the same | a freed pcb is aborted |
| `frame_path` | holds | 3 passes of the DMA task, ring of 2, send buffer of 2, numbers mod 4, counters mod 3, 1 failing call of lwIP | order of the passes, frames leaving the ring unsent counted, report overtaken by one frame at most, statistics, no deadlock of the two locks, the ring drains |
| `cfg_parser` | holds | 3 byte values, magic of 2, payload of at most 1, buffer of 6, streams of 8 over 2 connections | the handled frames are those of the stream, however it is cut |
| `cfg_reconnect` | violated | the same | a frame made of two connections is handled |
| `cfg_state` | holds | 4 write blocks, one report at a time overlapped by 2 configurations | registers follow the shadow, reports are consistent |
| `cfg_shadow` | violated | the same | a refused mode reaches the register |
| `cfg_path` | holds | 3 streams of 15 to 17 bytes, cut anywhere, 2 connections, 3 write blocks, report as above | shadow and registers are what the write blocks of the stream ask for |
| `pl_regs` | holds | values 0, 1, 34 for fields, 0 and 0x8001 for 16-bit registers, raw words with and without bits outside the fields | fields read back as asked for, words are those of the state report |

Why the bounds are enough:

- *Ring.* Three slots are the least with a slot that is neither first nor last.
  16 numbers are not a multiple of 3, so indices and numbers wrap at different
  times.  The bytes of the magic are of base 4 and not the same in both orders.
  Nothing is bounded: the state space is finite.
- *DMA.* Each buffer is written at least twice with 5 frames, and the interesting
  races are between two successive frames.
- *TCP client.* The link function remembers one pcb; a second is enough for a leak or
  for a late callback of an old connection.  With retry 1 and timeout 3 both timers
  run and 7 ticks wrap while an attempt is under way.  Nothing is bounded.
- *Frame path.* Three pushes against a ring of two: the ring fills, drops, and wraps
  its counters.  A send buffer of two holds a frame beside the report, or two frames,
  and can be full.  `FAILURES` bounds the failing calls; with two the properties
  hold as well (a run of several minutes).  Connections break without limit.
- *Parser.* The alphabet has both magic bytes, legal and illegal lengths, the known
  and unknown commands, and values that are several of these at once, so false
  magics inside frames occur.  A stream of 8 holds two frames without payload, or one
  with payload and garbage around it; a piece may be longer than the buffer (6), and
  the buffer is barely larger than a frame (5).  The bounds `STREAM` and
  `CONNECTIONS` end every behaviour: the run does not look for deadlocks.
- *Configuration.* The blocks are: all registers changed, most changed back, a mode
  that does not exist, and WAITTIM with the ADC only.  `OVERLAP` bounds how many
  configurations may be in force during one report; two are enough for a report to
  mix the old with the new one.
- *Configuration path.* The streams have two blocks in either order, a block behind a
  broken magic, a frame with another command, a false magic with an illegal length
  and a write block that is too short.  Each is cut in every way, so also by the
  change of connection.
- *Registers.* 34 has a bit of the field and bits beyond it; the mode has two bits.

Each property of a passing run has a mutant, a definition of the code changed as a
plausible bug would (the operators commented "Mutant"), under which TLC finds the
property violated.

## 5. Fairness

- `DmaAcquisition`: weak fairness of the task, which has the highest priority and is
  woken by its notification or after 100 ms; and of `OtherGives` while the task
  waits for the mutex, because a FreeRTOS mutex lends its holder the waiter's
  priority.  Nothing is assumed of the PL.
- `TcpClient`: weak fairness of the task, which wakes every 2 ms.  Strong fairness of
  `Tick`, because time passes although the task is at work; of `InitOk`, because
  lwIP's pool is not exhausted for ever; and of `ReportSent`, because a report
  offered again and again on live connections is accepted some time.  Callbacks and
  peers are under no fairness: a peer may never answer.
- `FramePath`: whoever holds a lock goes on (weak fairness of `StatsGive` and of
  lwIP's thread, which leaves the lock at the end of its event).  A lock that is free
  again and again is got by who waits for it (strong fairness of the TCP task, of its
  `Take`, and of `DmaPush`): lwIP's thread sleeps between events, the statistics task
  2 s and the TCP task 2 ms.  Strong fairness of `LwipDeliver \/ LwipDown` is an
  assumption on the PC: it takes what it is sent, or its connection ends.  The code
  does not give it.  lwIP gives up a peer that falls silent, but a PC that goes on
  acknowledging with its window closed keeps connection and send buffer for ever, and
  then the ring does not drain.  Only `QueueDrains` needs it.
- `TcpCfgProto`: weak fairness of the parser's code, which runs once called.  Nothing
  makes TCP deliver anything.
- `RingBuff`, `CfgState`, `CfgPath`, `PlRegs`, `Connection`: no liveness is claimed, no
  fairness assumed.

## 6. What is proved

For every value of the constants that satisfies the module's ASSUME:

**`RingBuffProofs`.**  The inductive invariant is the conjunction of `TypeOK`,
`RingShape`, `IdsConsecutive`, `WireHeader` and `ViewFaithful`.  None of the last
four is inductive alone: a push keeps `IdsConsecutive` only if it writes a slot
that is not queued, which is `RingShape`; a pop keeps `ViewFaithful` by giving the
view up.  `NthFacts` carries the index arithmetic and is cited everywhere.  From it
follow the action property `ViewStable` and the refinement, `RingImplementsQueue`:
`Contents` maps the slots to the abstract queue, an accepted push appends to it, a
refused one steps `drop_cnt`, a pop takes its head, everything else stutters.
`HtonsUndone` and `HtonlUndone` say that the bytes of number, length and magic read
back as what was written, for every byte width.

**`DmaAcquisitionProofs`.**  Eight results, for any number of frames and either pace.
The invariant adds to the properties: `BufferNamed` (the toggled id is the buffer of
the last finished frame, which is why toggling is enough), `Fresh` (the buffer to be
copied was invalidated, or a DONE has come since), `LatchHolds` (a frame not yet
queued has its DONE latched, unless a pass is about to copy it from memory) and `Paced`
(a PL that waits asks for a transfer only when no DONE is latched).  The last two give
`NoFrameLost`: when the transfer the PL has asked for begins, the frame before it has
been queued; a transfer it has not asked for enters `unasked` as it begins.
`CreditBound` gives `HandledAtMostTwice` frame by frame: the passes that have counted the
last frame, plus one if this pass may still count it (`InThisPass`), plus one if the next
may (`InNextPass`), are at most two, and a pass that takes the notification takes the
flag along, so the next finds neither.  `PassesNumbered` (`PassPushesOnce`) says that
`dma_done` is the number of pushes, but for the pass that is yet to push.
`RequestAhead` and `DoneFrameAhead`, the two parts of `NoInterruptLost`, are inductive
with them: the load and the store of the flag are apart, and what the handler adds
between them is lost in the flag but not in the notification.

**`TcpClientProofs`.**  The invariant adds four facts to the safety properties:
`ClockRead` (while a pass runs, `now` is the current tick), `Holding` (before the
abort the link function names a pcb, after it that pcb is free, and it names none
when it starts an attempt), `ReportFlags` (what the two static
flags say about the connection and its report), and `AgeBound` (the tick
difference never exceeds the age of the attempt).  `NoStrayPcb` is what makes
`ConnectedIsEstablished` survive a late error callback: whoever fails is the only
pcb there is.  `AgeBound` gives `TimeoutNotEarly` across the wrap.
`ClientIsConnection` is the refinement of `Connection`: a report is accepted only
while `need_send_cfg_state` holds, and by `ReportFlags` none has been accepted
then, so on each connection at most one is accepted.

**`TcpCfgProtoProofs`.**  The invariant is `TypeOK`, `BufferIsStream`, `NeverFull`
and that nothing is left to copy between calls; each turn of a loop keeps a suffix
of the buffer, which `ConsumeKeeps` and `KeepOfKeep` say once.  It follows that the
buffer neither overflows nor fills (`BufferNeverFull`: the forced
resynchronisation of `tcp_cfg_feed_bytes` is dead code as long as the buffer is
larger than the largest frame), and, with the invariant, that every frame handled
lies in the stream with its magic, command, length and payload, disjoint from the
one before (`OnlyGenuineFrames`).

`StreamParsedAsOne` is the strongest of them: the frames handled between calls are
those of `Frames(fed)`, the parse of the whole stream in one piece, however TCP cuts
it.  The reference counts up from a position, so the proof does too, downward from the
end of the stream: `Recursion` gives the frames of a stream from a position as
`Parsed` of the frames from later positions, by well-founded induction on what is left
(`Downward`).  The invariant `HandledSoFar` speaks of the future: for every stream that
begins with the bytes copied so far, its frames are those handled and then those of
that stream from the buffer's first byte on.  A turn of the parser keeps it, because
what the turn skips holds no magic (`SkipNoMagic`) or is one frame (`AtMagic`); copying
a byte only leaves fewer such streams.  Between calls the stream itself is one of them,
and what is in the buffer is not yet a frame (`Waiting`).

**`CfgStateProofs`.**  For every set of write blocks.  `Passed(x)` says that the block
being applied has got past step x; the invariant says by it what holds in the middle
of a block: the shadow is `After(block, before)` in the fields passed and `before`
in the others (`ShadowProgress`), a register passed is the block's word and another
follows `before` (`RegisterProgress`).  At the end of a block everything its mask
names has been passed (`PassedAtEnd`), which gives `RegistersFollow`.  A report
reads fields of one of these two configurations, both noted in `seen`
(`SeenInForce`), which gives `ReportCurrent`.

**`PlRegsProofs`.**  For every value of 32 bits a driver may be given and any bits a raw
word may have beside its fields.  `Field(w, f)` is what a word holds of a field; the
invariant is that it is what was asked for, for each field, and that the CCD's word has no
bit outside its fields.  `MasksDisjoint` and `OtherField` say once why changing one
field leaves the others alone; `SameWord` turns equal fields into equal words.

**`FramePathProofs`.**  For every depth, send buffer, counter width and number of passes
of the DMA task and of failed calls.  `LockInv` says who holds the ring's mutex and that
its holder has a frame to send.  `OrderInv` is the order of the passes along the whole
way: the queue rises strictly, what lwIP or the PC has was pushed by earlier passes than
what is queued, and the stream rises too, where a push may stand twice only after a
failed call.  The oldest queued
frame may already have been written (`written`), and `WrittenInv` says when: after a
failed call, or while the result of the successful one is being acted on.  From this
follows `StreamInOrder`, an order of pushes: whether a later pass has copied a newer
frame is not its question.  `CountInv` is the account of every pass counted, modulo
the counters' width: sent, given up, refused, queued, or about to be pushed
(`StatsAddUp`).  `AheadInv` says in which part of which pass a frame may be ahead of the
report of its connection (`ReportNotOvertaken`).  `NothingVanishes` needs a hypothesis,
fewer failed calls than the error counter can count: beyond that the 32-bit counter
wraps and the comparison means nothing.  `RingUsedAsQueue` and `LinkUsedAsConnection`
say that the steps of the three tasks are steps of `FrameQueue` and `Connection`, so
what `RingBuff` and `TcpClient` implement is what the path relies on.

**`CfgPathProofs`.**  For every set of streams and every meaning `Decode` gives to the
bytes of a write block.  The invariants of parser and shadow are taken from their own
proofs: `ProtoStep` and `StateStep` say that a step of the path is a step of each, or
leaves it alone, so both hold in the other's company (`PartsInv`).  `Configured` ties
them: with no block being applied the shadow is what the frames handled ask for; within a
block that is where the block will have taken it (`CP!After`), and a register
written is up to date unless the block names it and has not come to it.
`BlockAsked` says what one more frame changes in what is asked for: with
`MaxIsLast`, `LatestKept` and `LatestAppended`, that the last write block naming a field
decides it.  Together with `FramesAsStreamed` this is `ConfigAsStreamed`
(`ConfigurationInForce`): what is in force is a function of the bytes the PC sent, not
of how they arrived.

The ASSUMEs are what the headers say: depth and payload limit positive and a frame
shorter than 2^16; the retry interval shorter than the timeout and the timeout
shorter than the tick counter's range by more than two units; the buffer larger
than the largest frame; a write block with a known mask and fields as wide as in
the headers, and a payload of that length that is one such block (`CfgPath`).

## 7. What is only model-checked, and what is not modelled

Only model-checked: every liveness property (`InterruptsServed`,
`EveryFrameQueued`, `NeverStuck`, `ReportReaches`, `PassesEnd`, `QueueDrains`,
`FeedReturns`), as liveness and ENABLED are beyond the prover, and the runs of
section 8, whose properties are violated.  Every invariant and every action property
that a passing run checks is also proved.  `NothingVanishes` holds only below a bound,
as it compares with a counter that wraps in the code; `StatsAddUp` is stated modulo
that wrap.

Not modelled:

- what happens once before any concurrency: PL reset (`pl_rst_n.c`), creation of
  tasks, lwIP's start and the network interface; the initial states stand for it;
- the GIC set-up in `drivers/ps`, which has no caller, `lwip_tcp_client_poll`, which
  has none either, and the build files;
- branches lwIP never takes: a connected or receive callback with an error, and a
  callback with a null pcb;
- what is printed: the statistics line appears as the figures it is made of;
- register timing: whether the PL latches a timing register when it is enabled.

## 8. Findings

| Run | What the code does | What it says |
|---|---|---|
| `dma_stale_copy` | an interrupt noticed through the flag is handled again through its notification; `g_done_buf_id` can change between invalidation and copy, so an old frame is queued again from the cache; `dma_done` counts the transfer twice (`app_dma_task.c:67`, `:72`) | the id is that of this completion (`cycle_dma.c:82`) |
| `tcp_abort` | after a refused, reset or closed connection `tcp_abort` is called 5 s later on a pcb lwIP has freed, and no retry is made until then (`tcp_client.c:305`) | the abort is for a connection attempt that timed out (`:12`, `:309`), the retry interval is 1 s (`:11`) |
| `cfg_reconnect` | the receive buffer is not emptied between connections; a half frame is completed with bytes of the next connection (`tcp_cfg_proto.c:18`) | half frames wait for their rest, invalid data is dropped (`:207`) |
| `cfg_shadow` | a mode of 0 or 3 is refused by the shadow and written to the register (`tcp_cfg_proto.c:128`) | the shadow is kept in step (`bsp_cfg_state.h:11`) |

Further observations without a run of their own:

- With a PL that goes on while a DONE is latched, the id may move on before the copy
  and a frame is skipped; `NoFrameLost` and `EveryFrameQueued` are therefore stated
  for the PL that waits.
- A READY served by its flag in one pass is served by its notification in the next,
  and the length register is written again (`app_dma_task.c:55-60`).  A transfer under
  way begins once more; after its end the PL starts one it has not asked for, even
  while DONE is latched, and the next DONE can then move the id on between
  `app_dma_task.c:65` and `:67`: a finished frame is skipped even with the PL that
  waits.  `NoFrameLost` and `EveryFrameQueued` exempt exactly the frame before such a
  transfer; without the exemption TLC finds both violated.
- A push with a null pointer or length 0 returns 0 and does not move `drop_cnt`
  (`ring_buff.c:100`), although `ring_buff.c:91` says that failure does.  No caller
  makes such a push.
- A frame whose `tcp_output` failed is sent a second time or counted as an error
  although it arrives (`tcp_client.c:134`): `StreamInOrder` allows a repetition only
  after a failed call.  A state report meets the same fate: `RefinesConnection` and
  `Connection` count the reports accepted, not those carried.
- Data that `tcp_write` has taken and a broken connection loses is neither counted nor
  sent again; `NothingVanishes` is about the ring.
- A frame can overtake the state report of its connection (`app_tcp_task.c:38`);
  `ReportNotOvertaken` says that it is one at most between two tries of the report.

## 9. Plan

Written: the ring and the connection with their abstract specifications,
acquisition, the frame path, the parser, the configuration and their composition,
the registers; and the proof of every safety property a passing run checks.  Next:

1. `CfgState` against `PlRegs`: the registers of a configuration, as sets of fields,
   are the words `PlRegs` builds bit by bit from the same calls; `Field` is the
   mapping, and a write block's register write should map to a write of its words.
2. `FramePath` with `DmaAcquisition` in the place of `DmaDone`.  The pass numbers are
   the joint already: the k-th pass pushes `queued[k]`, and `StreamInOrder` brings the
   pushes to the PC in order, the older frame of `dma_stale_copy` included.  A
   composed run would add how the sending task's hold on the mutex shapes what is
   copied.
3. The safety half of `QueueDrains` and `EveryFrameQueued` as theorems: that what is
   left to do never grows except by what arrives.
