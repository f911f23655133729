----------------------------- MODULE TcpClient ------------------------------
(***************************************************************************)
(* The life of the TCP connection, middleware/net/tcp_client.c: the        *)
(* callbacks that lwIP runs, holding its core lock, when a connection      *)
(* comes up or goes away, and lwip_tcp_client_link, which the TCP task     *)
(* calls every 2 ms to report the configuration on a new connection, to    *)
(* give up on an attempt that takes too long and to start the next one.    *)
(*                                                                         *)
(* Two variables name the pcb: client_pcb, kept by the callbacks, and      *)
(* tcp_pcb (g_app_ctx.tcp_pcb), kept by the link function alone.  What the *)
(* link function does outside the core lock is cut into steps wherever a   *)
(* callback may come between; what it does under the lock is one step.     *)
(*                                                                         *)
(* lwIP is external: a pcb is allocated by tcp_new, is freed by lwIP       *)
(* BEFORE the error callback runs, and after tcp_close stays allocated     *)
(* until the last ACK.  A tcp_close that finds no memory leaves the pcb    *)
(* open; whether lwIP then closes it later depends on its version.  Time   *)
(* is counted in units of the retry interval.                              *)
(* The paths lwIP never takes are left out: a connected or receive callback *)
(* with an error, and the abort at the head of tcp_client_init, whose only *)
(* caller has checked that there is nothing to abort.                      *)
(***************************************************************************)
EXTENDS Integers

CONSTANTS Pcbs,             \* lwIP's pool of pcbs
          NULL,             \* the null pointer
          RETRY_INTERVAL,   \* TCP_RETRY_INTERVAL_MS
          CONNECT_TIMEOUT,  \* TCP_CONNECT_TIMEOUT_MS
          TICKS             \* the tick counter is 0 .. TICKS - 1

ASSUME TcpAssumption ==
    /\ NULL \notin Pcbs
    /\ RETRY_INTERVAL \in Nat \ {0}
    /\ CONNECT_TIMEOUT \in Nat \ {0}
    /\ TICKS \in Nat
    /\ RETRY_INTERVAL < CONNECT_TIMEOUT
    /\ CONNECT_TIMEOUT + 2 < TICKS

\* "close_wait": the peer has closed and our own close has failed.
PcbStates == {"free", "syn_sent", "established", "close_wait", "last_ack"}

VARIABLES
    pcb_state,               \* lwIP's view, one of PcbStates
    tcp_pcb,                 \* g_app_ctx.tcp_pcb
    client_pcb,
    g_client_connected,
    pc,                      \* where the TCP task is
    tick,                    \* the RTOS tick counter
    ticked,                  \* it has moved since the task last ran
    now,                     \* the link function's copy of it
    last_retry_tick, connect_start_tick,
    last_client_connected, need_send_cfg_state,
    reported,                \* reports accepted (ERR_OK) on the current connection
    attempt_age              \* time since the last attempt, up to the timeout

lwip == <<pcb_state, client_pcb, g_client_connected, reported>>
timers == <<last_retry_tick, connect_start_tick>>
flags == <<last_client_connected, need_send_cfg_state>>
clock == <<tick, ticked, attempt_age>>
vars == <<pcb_state, client_pcb, g_client_connected, reported, tcp_pcb, pc, now,
          last_retry_tick, connect_start_tick, last_client_connected,
          need_send_cfg_state, tick, ticked, attempt_age>>

\* Mutant: a signed difference, negative after the wrap.
ElapsedSigned(since) == now - since

\* TickType_t subtraction: exact across the wrap of the counter.
Elapsed(since) == IF now >= since THEN now - since ELSE now - since + TICKS

Init == /\ pcb_state = [p \in Pcbs |-> "free"]
        /\ tcp_pcb = NULL
        /\ client_pcb = NULL
        /\ g_client_connected = FALSE
        /\ pc = "delay"
        /\ tick = 0
        /\ ticked = FALSE
        /\ now = 0
        /\ last_retry_tick = 0
        /\ connect_start_tick = 0
        /\ last_client_connected = FALSE
        /\ need_send_cfg_state = FALSE
        /\ reported = 0
        /\ attempt_age = 0

-----------------------------------------------------------------------------
(* lwIP's events, each with the callback it runs.                           *)

tcp_client_err ==
    /\ g_client_connected' = FALSE
    /\ client_pcb' = NULL

tcp_client_connected(p) ==
    /\ pcb_state[p] = "syn_sent"
    /\ pcb_state' = [pcb_state EXCEPT ![p] = "established"]
    /\ client_pcb' = p
    /\ g_client_connected' = TRUE
    /\ reported' = 0
    /\ UNCHANGED <<tcp_pcb, pc, now, timers, flags, clock>>

\* A reset, or retransmissions that got no answer: lwIP frees the pcb first.
ConnectionLost(p) ==
    /\ pcb_state[p] # "free"
    /\ pcb_state' = [pcb_state EXCEPT ![p] = "free"]
    /\ tcp_client_err
    /\ UNCHANGED <<reported, tcp_pcb, pc, now, timers, flags, clock>>

\* Mutant: the flag stays up when the peer closes.
PeerClosedKeepsFlag(p) ==
    /\ pcb_state[p] = "established"
    /\ client_pcb' = NULL
    /\ pcb_state' = [pcb_state EXCEPT ![p] = "last_ack"]
    /\ UNCHANGED <<g_client_connected, reported, tcp_pcb, pc, now, timers, flags, clock>>

\* tcp_client_recv_data without data: the peer has closed; so do we.
PeerClosed(p) ==
    /\ pcb_state[p] = "established"
    /\ g_client_connected' = FALSE
    /\ client_pcb' = NULL
    /\ pcb_state' = [pcb_state EXCEPT ![p] = "last_ack"]
    /\ UNCHANGED <<reported, tcp_pcb, pc, now, timers, flags, clock>>

\* The same, with a tcp_close that finds no memory for its FIN.  Its result is
\* ignored: the pcb stays open, without a receive callback.
CloseFails(p) ==
    /\ pcb_state[p] = "established"
    /\ g_client_connected' = FALSE
    /\ client_pcb' = NULL
    /\ pcb_state' = [pcb_state EXCEPT ![p] = "close_wait"]
    /\ UNCHANGED <<reported, tcp_pcb, pc, now, timers, flags, clock>>

\* lwIP may try the close again by itself.
CloseRetried(p) ==
    /\ pcb_state[p] = "close_wait"
    /\ pcb_state' = [pcb_state EXCEPT ![p] = "last_ack"]
    /\ UNCHANGED <<client_pcb, g_client_connected, reported, tcp_pcb, pc, now,
                   timers, flags, clock>>

\* The peer acknowledges our close: the pcb is freed, no callback runs.
LastAck(p) ==
    /\ pcb_state[p] = "last_ack"
    /\ pcb_state' = [pcb_state EXCEPT ![p] = "free"]
    /\ UNCHANGED <<client_pcb, g_client_connected, reported, tcp_pcb, pc, now,
                   timers, flags, clock>>

Tick ==
    /\ pc = "delay" /\ ~ ticked
    /\ tick' = IF tick + 1 = TICKS THEN 0 ELSE tick + 1
    /\ ticked' = TRUE
    /\ attempt_age' = IF attempt_age < CONNECT_TIMEOUT THEN attempt_age + 1
                                                       ELSE attempt_age
    /\ UNCHANGED <<lwip, tcp_pcb, pc, now, timers, flags>>

-----------------------------------------------------------------------------
(* lwip_tcp_client_link, one pass per wake-up of the task.                  *)

Wake ==
    /\ pc = "delay"
    /\ now' = tick
    /\ ticked' = FALSE
    /\ pc' = "link"
    /\ UNCHANGED <<lwip, tcp_pcb, timers, flags, tick, attempt_age>>

\* Mutant: last_client_connected is not set.
LinkConnectedForgets ==
    /\ pc = "link"
    /\ g_client_connected
    /\ last_retry_tick' = now
    /\ connect_start_tick' = now
    /\ need_send_cfg_state' = (need_send_cfg_state \/ ~ last_client_connected)
    /\ pc' = IF need_send_cfg_state' THEN "report" ELSE "delay"
    /\ UNCHANGED <<lwip, tcp_pcb, now, last_client_connected, clock>>

LinkConnected ==
    /\ pc = "link"
    /\ g_client_connected
    /\ last_retry_tick' = now
    /\ connect_start_tick' = now
    /\ need_send_cfg_state' = (need_send_cfg_state \/ ~ last_client_connected)
    /\ last_client_connected' = TRUE
    /\ pc' = IF need_send_cfg_state' THEN "report" ELSE "delay"
    /\ UNCHANGED <<lwip, tcp_pcb, now, clock>>

\* tcp_client_send_data accepts the report.
ReportSent ==
    /\ pc = "report"
    /\ client_pcb # NULL /\ g_client_connected
    /\ need_send_cfg_state' = FALSE
    /\ reported' = reported + 1
    /\ pc' = "delay"
    /\ UNCHANGED <<pcb_state, client_pcb, g_client_connected, tcp_pcb, now, timers,
                   last_client_connected, clock>>

\* ERR_CONN, no room in the send buffer, no memory, or a tcp_output that fails
\* after tcp_write has queued the bytes: the report stays due and is sent again.
ReportRefused ==
    /\ pc = "report"
    /\ pc' = "delay"
    /\ UNCHANGED <<lwip, tcp_pcb, now, timers, flags, clock>>

\* Mutant: last_client_connected is not reset.
LinkNotConnectedKeeps ==
    /\ pc = "link"
    /\ ~ g_client_connected
    /\ pc' = IF tcp_pcb # NULL /\ Elapsed(connect_start_tick) >= CONNECT_TIMEOUT
             THEN "abort"
             ELSE "retry"
    /\ UNCHANGED <<lwip, tcp_pcb, now, timers, flags, clock>>

LinkNotConnected ==
    /\ pc = "link"
    /\ ~ g_client_connected
    /\ last_client_connected' = FALSE
    /\ pc' = IF tcp_pcb # NULL /\ Elapsed(connect_start_tick) >= CONNECT_TIMEOUT
             THEN "abort"
             ELSE "retry"
    /\ UNCHANGED <<lwip, tcp_pcb, now, timers, need_send_cfg_state, clock>>

\* Mutant: the pcb is dropped without tcp_abort.
AbortOmitted ==
    /\ pc = "abort"
    /\ pc' = "forget"
    /\ UNCHANGED <<lwip, tcp_pcb, now, timers, flags, clock>>

\* tcp_abort of a pcb lwIP still holds: it is freed, its error callback runs.
AbortHeld ==
    /\ pc = "abort"
    /\ pcb_state[tcp_pcb] # "free"
    /\ pcb_state' = [pcb_state EXCEPT ![tcp_pcb] = "free"]
    /\ tcp_client_err
    /\ pc' = "forget"
    /\ UNCHANGED <<reported, tcp_pcb, now, timers, flags, clock>>

\* tcp_abort of a pcb lwIP has freed: undefined.  The freed memory may still
\* name the error callback, which then runs again, or not.
AbortFreed ==
    /\ pc = "abort"
    /\ pcb_state[tcp_pcb] = "free"
    /\ tcp_client_err \/ UNCHANGED <<client_pcb, g_client_connected>>
    /\ pc' = "forget"
    /\ UNCHANGED <<pcb_state, reported, tcp_pcb, now, timers, flags, clock>>

Forget ==
    /\ pc = "forget"
    /\ tcp_pcb' = NULL
    /\ client_pcb' = NULL
    /\ pc' = "retry"
    /\ UNCHANGED <<pcb_state, g_client_connected, reported, now, timers, flags, clock>>

RetryDue == tcp_pcb = NULL /\ Elapsed(last_retry_tick) >= RETRY_INTERVAL

\* Mutant: the next deadline is stored instead of the current tick.
RetryDeadline ==
    /\ pc = "retry"
    /\ IF RetryDue
       THEN /\ last_retry_tick' = now + RETRY_INTERVAL
            /\ connect_start_tick' = now
            /\ pc' = "init"
       ELSE /\ pc' = "delay"
            /\ UNCHANGED timers
    /\ UNCHANGED <<lwip, tcp_pcb, now, flags, clock>>

\* Mutant: the start of the attempt is not recorded.
RetryKeepsStart ==
    /\ pc = "retry"
    /\ IF RetryDue
       THEN last_retry_tick' = now /\ pc' = "init"
       ELSE pc' = "delay" /\ UNCHANGED last_retry_tick
    /\ UNCHANGED <<lwip, tcp_pcb, now, connect_start_tick, flags, clock>>

Retry ==
    /\ pc = "retry"
    /\ IF RetryDue
       THEN /\ last_retry_tick' = now
            /\ connect_start_tick' = now
            /\ pc' = "init"
       ELSE /\ pc' = "delay"
            /\ UNCHANGED timers
    /\ UNCHANGED <<lwip, tcp_pcb, now, flags, clock>>

\* tcp_client_init: a pcb is allocated and its SYN sent, ...
InitOk(p) ==
    /\ pc = "init"
    /\ pcb_state[p] = "free"
    /\ pcb_state' = [pcb_state EXCEPT ![p] = "syn_sent"]
    /\ tcp_pcb' = p
    /\ client_pcb' = p
    /\ g_client_connected' = FALSE
    /\ attempt_age' = 0
    /\ pc' = "delay"
    /\ UNCHANGED <<reported, now, timers, flags, tick, ticked>>

\* ... or there is no pcb, or tcp_connect fails and the new one is aborted.
InitFailed ==
    /\ pc = "init"
    /\ tcp_pcb' = NULL
    /\ client_pcb' = NULL
    /\ g_client_connected' \in {FALSE, g_client_connected}
    /\ attempt_age' = 0
    /\ pc' = "delay"
    /\ UNCHANGED <<pcb_state, reported, now, timers, flags, tick, ticked>>

lwip_tcp_client_link ==
    \/ LinkConnected \/ ReportSent \/ ReportRefused \/ LinkNotConnected
    \/ AbortHeld \/ AbortFreed \/ Forget \/ Retry
    \/ InitFailed \/ \E p \in Pcbs : InitOk(p)

app_tcp_task == Wake \/ lwip_tcp_client_link

LwipEvent == \E p \in Pcbs : \/ tcp_client_connected(p)
                             \/ ConnectionLost(p)
                             \/ PeerClosed(p)
                             \/ CloseFails(p)
                             \/ CloseRetried(p)
                             \/ LastAck(p)

Next == LwipEvent \/ Tick \/ app_tcp_task

\* The task is scheduled and time passes; an attempt that is repeated for ever
\* is started now and then, and so is a report offered for ever to a peer that
\* goes on acknowledging.
Fairness == /\ WF_vars(app_tcp_task)
            /\ SF_vars(Tick)
            /\ SF_vars(\E p \in Pcbs : InitOk(p))
            /\ SF_vars(ReportSent)

Spec == Init /\ [][Next]_vars /\ Fairness

-----------------------------------------------------------------------------
Ticks == 0 .. TICKS - 1

\* Every variable keeps its type.
TypeOK ==
    /\ pcb_state \in [Pcbs -> PcbStates]
    /\ tcp_pcb \in Pcbs \cup {NULL}
    /\ client_pcb \in Pcbs \cup {NULL}
    /\ g_client_connected \in BOOLEAN
    /\ pc \in {"delay", "link", "report", "abort", "forget", "retry", "init"}
    /\ tick \in Ticks
    /\ ticked \in BOOLEAN
    /\ now \in Ticks
    /\ last_retry_tick \in Ticks
    /\ connect_start_tick \in Ticks
    /\ last_client_connected \in BOOLEAN
    /\ need_send_cfg_state \in BOOLEAN
    /\ reported \in Nat
    /\ attempt_age \in 0 .. CONNECT_TIMEOUT

\* tcp_client_send_data trusts g_client_connected and client_pcb: whenever
\* they say "connected" the pcb they name is allocated and established, though
\* both are written by callbacks and, outside the lock, by the link function.
ConnectedIsEstablished ==
    g_client_connected => /\ client_pcb # NULL
                          /\ pcb_state[client_pcb] = "established"

\* No pcb outlives the link function's interest in it: every allocated pcb is
\* the one it remembers and will abort.  This is also why an error callback,
\* which does not look at whose error it is, never tears down the state of a
\* newer connection.
NoStrayPcb == \A p \in Pcbs : pcb_state[p] # "free" => tcp_pcb = p

\* An attempt gets its full time before it is given up, across the wrap of
\* the tick counter.
TimeoutNotEarly == pc = "abort" => attempt_age >= CONNECT_TIMEOUT

\* The client never stops trying: time and again it is connected or has an
\* attempt under way, whatever became of the earlier ones.
NeverStuck ==
    []<>(g_client_connected \/ \E p \in Pcbs : pcb_state[p] = "syn_sent")

\* Every connection that stays up gets its state report.
ReportReaches == g_client_connected ~> (reported = 1 \/ ~ g_client_connected)

\* Seen from the rest of the program all this is one connection that is tried
\* for, comes up and is lost, whatever the callbacks and the link function do
\* to the two pointers and the flag in between, and on each connection one
\* report at most is accepted.  A report whose tcp_output failed after tcp_write
\* had queued it counts as refused and is sent again, so the PC may get two.
Conn == INSTANCE Connection WITH
            conn    <- IF g_client_connected THEN "up"
                       ELSE IF \E p \in Pcbs : pcb_state[p] = "syn_sent" THEN "trying"
                       ELSE "none",
            reports <- reported

RefinesConnection == Conn!Spec

\* The timeout gives up on an attempt that is still lwIP's to abort.
AbortsHeldPcb == pc = "abort" => pcb_state[tcp_pcb] # "free"
=============================================================================
