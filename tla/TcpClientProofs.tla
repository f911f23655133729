-------------------------- MODULE TcpClientProofs ---------------------------
(***************************************************************************)
(* The safety of the connection's life, proved for any pool of pcbs, any   *)
(* timeouts and any width of the tick counter.                             *)
(***************************************************************************)
EXTENDS TcpClient, TLAPS

\* The tick the link function works with is the current one.
ClockRead == pc # "delay" => now = tick

\* Where the link function has got to tells what it holds: an attempt to give
\* up, one that lwIP has already freed, or none.
Holding ==
    /\ pc = "abort" => tcp_pcb # NULL
    /\ pc = "forget" => tcp_pcb # NULL /\ pcb_state[tcp_pcb] = "free"
    /\ pc = "init" => tcp_pcb = NULL /\ connect_start_tick = now

\* The two static flags of the link function say of a live connection that its
\* report is due exactly as long as it has not been accepted; an attempt is only
\* made once the loss of the connection before it has been noticed.
ReportFlags ==
    /\ reported \in {0, 1}
    /\ pc = "report" => need_send_cfg_state /\ last_client_connected
    /\ g_client_connected =>
          (reported = 0 <=> need_send_cfg_state \/ ~ last_client_connected)
    /\ pc \in {"abort", "forget", "retry", "init"} => ~ last_client_connected
    /\ (\E p \in Pcbs : pcb_state[p] = "syn_sent") => ~ last_client_connected

\* The tick difference never exceeds the true age of the attempt.
Since(t, s) == IF t >= s THEN t - s ELSE t - s + TICKS

AgeBound ==
    tcp_pcb # NULL =>
        \/ attempt_age >= CONNECT_TIMEOUT
        \/ Since(tick, connect_start_tick) <= attempt_age

IInv == /\ TypeOK
        /\ ConnectedIsEstablished
        /\ NoStrayPcb
        /\ TimeoutNotEarly
        /\ ClockRead
        /\ Holding
        /\ ReportFlags
        /\ AgeBound

LEMMA InitIInv == Init => IInv
<1> SUFFICES ASSUME Init PROVE IInv
  OBVIOUS
<1>1. 0 \in Ticks /\ 0 \in 0 .. CONNECT_TIMEOUT
  BY TcpAssumption DEF Ticks
<1>2. TypeOK
  BY <1>1 DEF Init, TypeOK, PcbStates
<1>3. /\ ConnectedIsEstablished /\ NoStrayPcb /\ TimeoutNotEarly
      /\ ClockRead /\ Holding /\ ReportFlags /\ AgeBound
  BY DEF Init, ConnectedIsEstablished, NoStrayPcb, TimeoutNotEarly, ClockRead,
         Holding, ReportFlags, AgeBound
<1> QED
  BY <1>2, <1>3 DEF IInv

\* One pcb at most is allocated: the link function's.
LEMMA OnePcb ==
    ASSUME IInv, NEW p \in Pcbs, pcb_state[p] # "free"
    PROVE  \A r \in Pcbs \ {p} : pcb_state[r] = "free"
  BY DEF IInv, NoStrayPcb

\* While there is a connection there is no attempt.
LEMMA NoAttemptWhenUp ==
    ASSUME IInv, g_client_connected
    PROVE  \A p \in Pcbs : pcb_state[p] # "syn_sent"
  BY OnePcb DEF IInv, TypeOK, ConnectedIsEstablished

-----------------------------------------------------------------------------
(* One lemma for each group of steps.                                       *)

\* lwIP's events leave the task's own variables alone.
LEMMA EventIInv ==
    ASSUME IInv, NEW p \in Pcbs,
           \/ tcp_client_connected(p) \/ ConnectionLost(p)
           \/ PeerClosed(p) \/ CloseFails(p) \/ CloseRetried(p) \/ LastAck(p)
    PROVE  IInv'
<1> USE TcpAssumption
<1>1. UNCHANGED <<tcp_pcb, pc, now, timers, flags, clock>>
  BY DEF tcp_client_connected, ConnectionLost, PeerClosed, CloseFails, CloseRetried,
         LastAck
<1>2. AgeBound' /\ ClockRead' /\ TimeoutNotEarly'
  BY <1>1 DEF IInv, AgeBound, Since, ClockRead, TimeoutNotEarly, timers, clock
<1>3. pcb_state \in [Pcbs -> PcbStates]
  BY DEF IInv, TypeOK
<1>4. CASE tcp_client_connected(p)
  <2>1. /\ pcb_state[p] = "syn_sent"
        /\ pcb_state' = [pcb_state EXCEPT ![p] = "established"]
        /\ client_pcb' = p /\ g_client_connected' = TRUE /\ reported' = 0
    BY <1>4 DEF tcp_client_connected
  <2>2. TypeOK'
    BY <1>1, <2>1 DEF IInv, TypeOK, PcbStates, timers, flags, clock
  <2>3. ConnectedIsEstablished' /\ NoStrayPcb'
    BY <1>1, <1>3, <2>1 DEF IInv, ConnectedIsEstablished, NoStrayPcb
  <2>4. Holding'
    BY <1>1, <1>3, <2>1 DEF IInv, Holding, timers, TypeOK
  <2>5. ReportFlags'
    BY <1>1, <1>3, <2>1 DEF IInv, ReportFlags, flags
  <2> QED
    BY <1>2, <2>2, <2>3, <2>4, <2>5 DEF IInv
<1>5. CASE ConnectionLost(p) \/ PeerClosed(p) \/ CloseFails(p)
  <2>1. /\ g_client_connected' = FALSE
        /\ client_pcb' = NULL
        /\ reported' = reported
        /\ pcb_state[p] # "free"
    BY <1>5 DEF ConnectionLost, PeerClosed, CloseFails, tcp_client_err
  <2>2. PICK s \in {"free", "last_ack", "close_wait"} :
            pcb_state' = [pcb_state EXCEPT ![p] = s]
    BY <1>5 DEF ConnectionLost, PeerClosed, CloseFails
  <2>3. TypeOK'
    BY <1>1, <2>1, <2>2 DEF IInv, TypeOK, PcbStates, timers, flags, clock
  <2>4. ConnectedIsEstablished' /\ NoStrayPcb'
    BY <1>1, <1>3, <2>1, <2>2 DEF IInv, ConnectedIsEstablished, NoStrayPcb
  <2>5. Holding'
    BY <1>1, <1>3, <2>1, <2>2 DEF IInv, Holding, timers, TypeOK
  <2>6. ReportFlags'
    BY <1>1, <1>3, <2>1, <2>2 DEF IInv, ReportFlags, flags
  <2> QED
    BY <1>2, <2>3, <2>4, <2>5, <2>6 DEF IInv
<1>6. CASE LastAck(p) \/ CloseRetried(p)
  <2>1. /\ pcb_state[p] \in {"last_ack", "close_wait"}
        /\ UNCHANGED <<client_pcb, g_client_connected, reported>>
    BY <1>6 DEF LastAck, CloseRetried
  <2>2. PICK s \in {"free", "last_ack"} : pcb_state' = [pcb_state EXCEPT ![p] = s]
    BY <1>6 DEF LastAck, CloseRetried
  <2>3. TypeOK'
    BY <1>1, <2>1, <2>2 DEF IInv, TypeOK, PcbStates, timers, flags, clock
  <2>4. ConnectedIsEstablished' /\ NoStrayPcb'
    BY <1>1, <1>3, <2>1, <2>2 DEF IInv, ConnectedIsEstablished, NoStrayPcb
  <2>5. Holding'
    BY <1>1, <1>3, <2>1, <2>2 DEF IInv, Holding, timers, TypeOK
  <2>6. ReportFlags'
    BY <1>1, <1>3, <2>1, <2>2 DEF IInv, ReportFlags, flags
  <2> QED
    BY <1>2, <2>3, <2>4, <2>5, <2>6 DEF IInv
<1> QED
  BY <1>4, <1>5, <1>6

\* The clock moves only while the task sleeps.
LEMMA TickIInv == IInv /\ Tick => IInv'
<1> SUFFICES ASSUME IInv, Tick PROVE IInv'
  OBVIOUS
<1> USE TcpAssumption
<1>1. /\ pc = "delay" /\ UNCHANGED <<lwip, tcp_pcb, pc, now, timers, flags>>
      /\ tick' = IF tick + 1 = TICKS THEN 0 ELSE tick + 1
      /\ ticked' = TRUE
      /\ attempt_age' = IF attempt_age < CONNECT_TIMEOUT THEN attempt_age + 1
                                                         ELSE attempt_age
  BY DEF Tick
<1>2. TypeOK'
  BY <1>1 DEF IInv, TypeOK, Ticks, lwip, timers, flags
<1>3. /\ ConnectedIsEstablished' /\ NoStrayPcb' /\ TimeoutNotEarly'
      /\ ClockRead' /\ Holding' /\ ReportFlags'
  BY <1>1 DEF IInv, ConnectedIsEstablished, NoStrayPcb, TimeoutNotEarly, ClockRead,
              Holding, ReportFlags, lwip, flags
<1>4. AgeBound'
  BY <1>1 DEF IInv, TypeOK, Ticks, AgeBound, Since, timers
<1> QED
  BY <1>2, <1>3, <1>4 DEF IInv

\* A pass begins, and finds a connection or none.
LEMMA PassIInv ==
    ASSUME IInv,
           \/ Wake \/ LinkConnected \/ LinkNotConnected
           \/ ReportSent \/ ReportRefused
    PROVE  IInv'
<1> USE TcpAssumption
<1>1. CASE Wake
  BY <1>1 DEF Wake, IInv, TypeOK, Ticks, ConnectedIsEstablished, NoStrayPcb,
              TimeoutNotEarly, ClockRead, Holding, ReportFlags, AgeBound, Since,
              lwip, timers, flags
<1>2. CASE LinkConnected
  <2>1. /\ pc = "link" /\ g_client_connected
        /\ last_retry_tick' = now /\ connect_start_tick' = now
        /\ need_send_cfg_state' = (need_send_cfg_state \/ ~ last_client_connected)
        /\ last_client_connected' = TRUE
        /\ pc' = IF need_send_cfg_state' THEN "report" ELSE "delay"
        /\ UNCHANGED <<lwip, tcp_pcb, now, clock>>
    BY <1>2 DEF LinkConnected
  <2>2. TypeOK'
    BY <2>1 DEF IInv, TypeOK, lwip, clock
  <2>3. /\ ConnectedIsEstablished' /\ NoStrayPcb' /\ TimeoutNotEarly'
        /\ ClockRead' /\ Holding'
    BY <2>1 DEF IInv, ConnectedIsEstablished, NoStrayPcb, TimeoutNotEarly,
                ClockRead, Holding, lwip, clock
  <2>4. ReportFlags'
    BY <2>1, NoAttemptWhenUp DEF IInv, TypeOK, ReportFlags, lwip
  <2>5. AgeBound'
    BY <2>1 DEF IInv, TypeOK, Ticks, ClockRead, AgeBound, Since, clock
  <2> QED
    BY <2>2, <2>3, <2>4, <2>5 DEF IInv
<1>3. CASE LinkNotConnected
  <2>1. /\ pc = "link" /\ ~ g_client_connected
        /\ last_client_connected' = FALSE
        /\ pc' = IF tcp_pcb # NULL /\ Elapsed(connect_start_tick) >= CONNECT_TIMEOUT
                 THEN "abort" ELSE "retry"
        /\ UNCHANGED <<lwip, tcp_pcb, now, timers, need_send_cfg_state, clock>>
    BY <1>3 DEF LinkNotConnected
  <2>2. TypeOK'
    BY <2>1 DEF IInv, TypeOK, lwip, timers, clock
  <2>3. /\ ConnectedIsEstablished' /\ NoStrayPcb'
        /\ ClockRead' /\ Holding' /\ ReportFlags' /\ AgeBound'
    BY <2>1 DEF IInv, ConnectedIsEstablished, NoStrayPcb, ClockRead, Holding,
                ReportFlags, AgeBound, Since, lwip, timers, clock
  <2>4. TimeoutNotEarly'
    <3>1. Elapsed(connect_start_tick) = Since(tick, connect_start_tick)
      BY <2>1 DEF IInv, ClockRead, Elapsed, Since
    <3> QED
      BY <2>1, <3>1 DEF IInv, TypeOK, Ticks, AgeBound, Since, TimeoutNotEarly, clock
  <2> QED
    BY <2>2, <2>3, <2>4 DEF IInv
<1>4. CASE ReportSent
  <2>1. /\ pc = "report" /\ pc' = "delay" /\ g_client_connected
        /\ need_send_cfg_state' = FALSE /\ reported' = reported + 1
        /\ UNCHANGED <<pcb_state, client_pcb, g_client_connected, tcp_pcb, now,
                       timers, last_client_connected, clock>>
    BY <1>4 DEF ReportSent
  <2>2. TypeOK'
    <3>1. reported' \in Nat
      BY <2>1 DEF IInv, TypeOK
    <3>2. need_send_cfg_state' \in BOOLEAN
      BY <2>1
    <3> QED
      BY <2>1, <3>1, <3>2 DEF IInv, TypeOK, timers, clock
  <2>3. /\ ConnectedIsEstablished' /\ NoStrayPcb' /\ TimeoutNotEarly'
        /\ ClockRead' /\ Holding' /\ AgeBound'
    BY <2>1 DEF IInv, ConnectedIsEstablished, NoStrayPcb, TimeoutNotEarly, ClockRead,
                Holding, AgeBound, Since, timers, clock
  <2>4. ReportFlags'
    <3>1. reported = 0 /\ last_client_connected
      BY <2>1 DEF IInv, ReportFlags
    <3>2. \A p \in Pcbs : pcb_state[p] # "syn_sent"
      BY <2>1, NoAttemptWhenUp
    <3> QED
      BY <2>1, <3>1, <3>2 DEF ReportFlags
  <2> QED
    BY <2>2, <2>3, <2>4 DEF IInv
<1>5. CASE ReportRefused
  BY <1>5 DEF ReportRefused, IInv, TypeOK, Ticks, ConnectedIsEstablished, NoStrayPcb,
              TimeoutNotEarly, ClockRead, Holding, ReportFlags, AgeBound, Since,
              lwip, timers, flags, clock
<1> QED
  BY <1>1, <1>2, <1>3, <1>4, <1>5

\* With nothing allocated nothing is connected.
LEMMA NothingConnected ==
    ASSUME IInv, \A p \in Pcbs : pcb_state[p] = "free"
    PROVE  ~ g_client_connected
  BY DEF IInv, TypeOK, ConnectedIsEstablished

\* Giving up on an attempt.
LEMMA AbortIInv ==
    ASSUME IInv, AbortHeld \/ AbortFreed \/ Forget
    PROVE  IInv'
<1> USE TcpAssumption
<1>1. tcp_pcb \in Pcbs
  BY DEF AbortHeld, AbortFreed, Forget, IInv, TypeOK, Holding
<1>2. pcb_state \in [Pcbs -> PcbStates]
  BY DEF IInv, TypeOK
<1>3. CASE AbortHeld
  <2>1. /\ pcb_state' = [pcb_state EXCEPT ![tcp_pcb] = "free"]
        /\ g_client_connected' = FALSE /\ client_pcb' = NULL
        /\ pc' = "forget"
        /\ UNCHANGED <<reported, tcp_pcb, now, timers, flags, clock>>
        /\ pc = "abort"
    BY <1>3 DEF AbortHeld, tcp_client_err
  <2>2. TypeOK'
    BY <2>1 DEF IInv, TypeOK, PcbStates, timers, flags, clock
  <2>3. ConnectedIsEstablished' /\ NoStrayPcb' /\ Holding'
    BY <1>1, <1>2, <2>1 DEF IInv, ConnectedIsEstablished, NoStrayPcb, Holding
  <2>4. TimeoutNotEarly' /\ ClockRead' /\ ReportFlags' /\ AgeBound'
    BY <1>2, <2>1 DEF IInv, TimeoutNotEarly, ClockRead, ReportFlags, AgeBound, Since,
                      timers, flags, clock
  <2> QED
    BY <2>2, <2>3, <2>4 DEF IInv
<1>4. CASE AbortFreed
  <2>1. \A p \in Pcbs : pcb_state[p] = "free"
    BY <1>4 DEF AbortFreed, IInv, NoStrayPcb
  <2>2. ~ g_client_connected
    BY <2>1, NothingConnected
  <2>3. /\ g_client_connected' = FALSE
        /\ client_pcb' \in Pcbs \cup {NULL}
        /\ pc' = "forget" /\ pc = "abort"
        /\ UNCHANGED <<pcb_state, reported, tcp_pcb, now, timers, flags, clock>>
    BY <1>4, <2>2 DEF AbortFreed, tcp_client_err, IInv, TypeOK
  <2>4. TypeOK'
    BY <2>3 DEF IInv, TypeOK, timers, flags, clock
  <2>5. ConnectedIsEstablished' /\ NoStrayPcb' /\ Holding'
    BY <1>1, <2>1, <2>3 DEF IInv, ConnectedIsEstablished, NoStrayPcb, Holding
  <2>6. TimeoutNotEarly' /\ ClockRead' /\ ReportFlags' /\ AgeBound'
    BY <2>3 DEF IInv, TimeoutNotEarly, ClockRead, ReportFlags, AgeBound, Since,
                timers, flags, clock
  <2> QED
    BY <2>4, <2>5, <2>6 DEF IInv
<1>5. CASE Forget
  <2>1. \A p \in Pcbs : pcb_state[p] = "free"
    BY <1>5 DEF Forget, IInv, NoStrayPcb, Holding
  <2>2. ~ g_client_connected
    BY <2>1, NothingConnected
  <2>3. /\ tcp_pcb' = NULL /\ client_pcb' = NULL
        /\ pc' = "retry" /\ pc = "forget"
        /\ UNCHANGED <<pcb_state, g_client_connected, reported, now, timers, flags, clock>>
    BY <1>5 DEF Forget
  <2>4. TypeOK'
    BY <2>3 DEF IInv, TypeOK, timers, flags, clock
  <2>5. ConnectedIsEstablished' /\ NoStrayPcb' /\ Holding'
    BY <2>1, <2>2, <2>3 DEF ConnectedIsEstablished, NoStrayPcb, Holding
  <2>6. TimeoutNotEarly' /\ ClockRead' /\ ReportFlags' /\ AgeBound'
    BY <2>3 DEF IInv, TimeoutNotEarly, ClockRead, ReportFlags, AgeBound,
                timers, flags, clock
  <2> QED
    BY <2>4, <2>5, <2>6 DEF IInv
<1> QED
  BY <1>3, <1>4, <1>5

\* Starting the next attempt.
LEMMA RetryIInv ==
    ASSUME IInv, Retry \/ InitFailed \/ \E p \in Pcbs : InitOk(p)
    PROVE  IInv'
<1> USE TcpAssumption
<1>1. CASE Retry
  <2>1. CASE RetryDue
    <3>1. /\ tcp_pcb = NULL /\ pc = "retry" /\ pc' = "init"
          /\ last_retry_tick' = now /\ connect_start_tick' = now
          /\ UNCHANGED <<lwip, tcp_pcb, now, flags, clock>>
      BY <1>1, <2>1 DEF Retry, RetryDue
    <3> QED
      BY <3>1 DEF IInv, TypeOK, Ticks, ConnectedIsEstablished, NoStrayPcb,
                  TimeoutNotEarly, ClockRead, Holding, ReportFlags, AgeBound,
                  lwip, flags, clock
  <2>2. CASE ~ RetryDue
    <3>1. /\ pc = "retry" /\ pc' = "delay"
          /\ UNCHANGED <<lwip, tcp_pcb, now, timers, flags, clock>>
      BY <1>1, <2>2 DEF Retry
    <3> QED
      BY <3>1 DEF IInv, TypeOK, Ticks, ConnectedIsEstablished, NoStrayPcb,
                  TimeoutNotEarly, ClockRead, Holding, ReportFlags, AgeBound, Since,
                  lwip, timers, flags, clock
  <2> QED
    BY <2>1, <2>2
<1>2. ASSUME pc = "init"
      PROVE  /\ tcp_pcb = NULL /\ connect_start_tick = now /\ now = tick
             /\ \A p \in Pcbs : pcb_state[p] = "free"
             /\ ~ g_client_connected
  <2>1. \A p \in Pcbs : pcb_state[p] = "free"
    BY <1>2 DEF IInv, Holding, NoStrayPcb
  <2> QED
    BY <1>2, <2>1, NothingConnected DEF IInv, Holding, ClockRead
<1>3. CASE InitFailed
  <2>1. /\ tcp_pcb' = NULL /\ client_pcb' = NULL /\ g_client_connected' = FALSE
        /\ attempt_age' = 0 /\ pc' = "delay"
        /\ UNCHANGED <<pcb_state, reported, now, timers, flags, tick, ticked>>
        /\ \A p \in Pcbs : pcb_state[p] = "free"
    BY <1>2, <1>3 DEF InitFailed, IInv, TypeOK
  <2>2. TypeOK'
    <3>1. attempt_age' \in 0 .. CONNECT_TIMEOUT
      BY <2>1
    <3>2. g_client_connected' \in BOOLEAN
      BY <2>1
    <3> QED
      BY <2>1, <3>1, <3>2 DEF IInv, TypeOK, timers, flags
  <2>3. /\ ConnectedIsEstablished' /\ NoStrayPcb' /\ TimeoutNotEarly'
        /\ ClockRead' /\ Holding' /\ ReportFlags' /\ AgeBound'
    BY <2>1 DEF IInv, ConnectedIsEstablished, NoStrayPcb, TimeoutNotEarly,
                ClockRead, Holding, ReportFlags, AgeBound, flags
  <2> QED
    BY <2>2, <2>3 DEF IInv
<1>4. ASSUME NEW p \in Pcbs, InitOk(p)
      PROVE  IInv'
  <2>1. /\ pcb_state' = [pcb_state EXCEPT ![p] = "syn_sent"]
        /\ tcp_pcb' = p /\ client_pcb' = p /\ g_client_connected' = FALSE
        /\ attempt_age' = 0 /\ pc' = "delay"
        /\ UNCHANGED <<reported, now, timers, flags, tick, ticked>>
        /\ \A r \in Pcbs : pcb_state[r] = "free"
        /\ connect_start_tick = tick
        /\ pc = "init"
    BY <1>2, <1>4 DEF InitOk
  <2>2. TypeOK'
    <3>1. pcb_state' \in [Pcbs -> PcbStates]
      BY <2>1 DEF IInv, TypeOK, PcbStates
    <3>2. attempt_age' \in 0 .. CONNECT_TIMEOUT
      BY <2>1
    <3>3. g_client_connected' \in BOOLEAN
      BY <2>1
    <3> QED
      BY <2>1, <3>1, <3>2, <3>3 DEF IInv, TypeOK, timers, flags
  <2>3. ConnectedIsEstablished' /\ NoStrayPcb'
    BY <2>1 DEF IInv, TypeOK, ConnectedIsEstablished, NoStrayPcb
  <2>4. TimeoutNotEarly' /\ ClockRead' /\ Holding' /\ ReportFlags'
    BY <2>1 DEF IInv, TimeoutNotEarly, ClockRead, Holding, ReportFlags, flags
  <2>5. AgeBound'
    BY <2>1 DEF IInv, TypeOK, Ticks, AgeBound, Since, timers
  <2> QED
    BY <2>2, <2>3, <2>4, <2>5 DEF IInv
<1> QED
  BY <1>1, <1>3, <1>4

LEMMA NextIInv == IInv /\ [Next]_vars => IInv'
<1> SUFFICES ASSUME IInv, [Next]_vars PROVE IInv'
  OBVIOUS
<1>1. CASE LwipEvent
  BY <1>1, EventIInv DEF LwipEvent
<1>2. CASE Tick
  BY <1>2, TickIInv
<1>3. CASE app_tcp_task
  BY <1>3, PassIInv, AbortIInv, RetryIInv DEF app_tcp_task, lwip_tcp_client_link
<1>4. CASE UNCHANGED vars
  BY <1>4 DEF vars, IInv, TypeOK, ConnectedIsEstablished, NoStrayPcb,
              TimeoutNotEarly, ClockRead, Holding, ReportFlags, AgeBound, Since
<1> QED
  BY <1>1, <1>2, <1>3, <1>4 DEF Next

\* What the callbacks and the link function keep together.
THEOREM IInvAlways == Spec => []IInv
<1> QED
  BY InitIInv, NextIInv, PTL DEF Spec

\* Every variable of the client keeps its type.
THEOREM ClientTypeCorrect == Spec => []TypeOK
<1> QED
  BY IInvAlways, PTL DEF IInv

\* "Connected" always names an established pcb: tcp_client_send_data never
\* writes to one that lwIP has freed or is closing.
THEOREM SendsOnEstablished == Spec => []ConnectedIsEstablished
<1> QED
  BY IInvAlways, PTL DEF IInv

\* No pcb is left behind by a reconnection, so there is never more than one.
THEOREM NoPcbLeft == Spec => []NoStrayPcb
<1> QED
  BY IInvAlways, PTL DEF IInv

\* No attempt is given up before its time, at any wrap of the tick counter.
THEOREM FullTimeout == Spec => []TimeoutNotEarly
<1> QED
  BY IInvAlways, PTL DEF IInv

-----------------------------------------------------------------------------
(* The client implements the abstract connection.                           *)

\* The connection as Connection sees it.
Link == IF g_client_connected THEN "up"
        ELSE IF \E p \in Pcbs : pcb_state[p] = "syn_sent" THEN "trying"
        ELSE "none"

\* A step that leaves the flag, the pcbs and the count alone is a stutter.
LEMMA TaskStutters ==
    ASSUME UNCHANGED <<pcb_state, g_client_connected, reported>>
    PROVE  UNCHANGED <<Link, reported>>
  BY DEF Link

\* A pcb that is lost or closed takes the connection, or the attempt, with it.
LEMMA LosingIsDown ==
    ASSUME IInv, NEW p \in Pcbs, pcb_state[p] # "free",
           NEW s \in {"free", "last_ack", "close_wait"},
           pcb_state' = [pcb_state EXCEPT ![p] = s],
           g_client_connected' = FALSE, reported' = reported
    PROVE  Conn!Down \/ UNCHANGED <<Link, reported>>
<1>1. \A r \in Pcbs : pcb_state'[r] # "syn_sent"
  BY OnePcb DEF IInv, TypeOK
<1>2. Link' = "none"
  BY <1>1 DEF Link
<1> QED
  BY <1>2 DEF Conn!Down, Link

\* Every step is one of the abstract connection, or a stutter.
LEMMA StepRefines == IInv /\ IInv' /\ [Next]_vars => [Conn!Next]_(Conn!cvars)
<1> SUFFICES ASSUME IInv, IInv', [Next]_vars
             PROVE  Conn!Next \/ UNCHANGED <<Link, reported>>
  BY DEF Conn!cvars, Link
<1> USE TcpAssumption
<1>1. ASSUME NEW p \in Pcbs, tcp_client_connected(p) PROVE Conn!Up
  <2>1. ~ g_client_connected
    BY <1>1, OnePcb DEF tcp_client_connected, IInv, TypeOK, ConnectedIsEstablished
  <2> QED
    BY <1>1, <2>1 DEF tcp_client_connected, Conn!Up
<1>2. ASSUME NEW p \in Pcbs, ConnectionLost(p) \/ PeerClosed(p) \/ CloseFails(p)
      PROVE  Conn!Down \/ UNCHANGED <<Link, reported>>
  BY <1>2, LosingIsDown DEF ConnectionLost, PeerClosed, CloseFails, tcp_client_err
<1>3. ASSUME NEW p \in Pcbs, CloseRetried(p) \/ LastAck(p)
      PROVE  UNCHANGED <<Link, reported>>
  <2>1. PICK s \in {"free", "last_ack"} : pcb_state' = [pcb_state EXCEPT ![p] = s]
    BY <1>3 DEF CloseRetried, LastAck
  <2>2. /\ pcb_state[p] # "syn_sent"
        /\ UNCHANGED <<g_client_connected, reported>>
    BY <1>3 DEF CloseRetried, LastAck
  <2>3. \A r \in Pcbs : pcb_state'[r] = "syn_sent" <=> pcb_state[r] = "syn_sent"
    BY <2>1, <2>2 DEF IInv, TypeOK
  <2> QED
    BY <2>2, <2>3 DEF Link
<1>4. CASE ReportSent
  <2>1. /\ g_client_connected /\ reported' = reported + 1
        /\ UNCHANGED <<pcb_state, g_client_connected>>
    BY <1>4 DEF ReportSent
  <2>2. reported = 0
    BY <1>4 DEF ReportSent, IInv, ReportFlags
  <2> QED
    BY <2>1, <2>2 DEF Conn!Next, Conn!Report, Link
<1>5. CASE AbortHeld
  <2>1. tcp_pcb \in Pcbs
    BY <1>5 DEF AbortHeld, IInv, TypeOK, Holding
  <2> QED
    BY <1>5, <2>1, LosingIsDown DEF AbortHeld, tcp_client_err, Conn!Next
<1>6. CASE AbortFreed
  <2>1. g_client_connected = FALSE
    BY <1>6, NothingConnected DEF AbortFreed, IInv, NoStrayPcb, TypeOK
  <2> QED
    BY <1>6, <2>1, TaskStutters DEF AbortFreed, tcp_client_err
<1>7. CASE InitFailed
  <2>1. g_client_connected = FALSE
    BY <1>7, NothingConnected DEF InitFailed, IInv, NoStrayPcb, Holding, TypeOK
  <2> QED
    BY <1>7, <2>1, TaskStutters DEF InitFailed
<1>8. ASSUME NEW p \in Pcbs, InitOk(p) PROVE Conn!Attempt
  <2>1. \A r \in Pcbs : pcb_state[r] = "free"
    BY <1>8 DEF InitOk, IInv, NoStrayPcb, Holding
  <2>2. Link = "none"
    BY <2>1, NothingConnected DEF Link
  <2>3. pcb_state'[p] = "syn_sent" /\ g_client_connected' = FALSE /\ reported' = reported
    BY <1>8 DEF InitOk, IInv, TypeOK
  <2> QED
    BY <2>2, <2>3 DEF Link, Conn!Attempt
<1>9. CASE \/ Tick \/ Wake \/ LinkConnected \/ ReportRefused \/ LinkNotConnected
           \/ Forget \/ Retry \/ UNCHANGED vars
  BY <1>9, TaskStutters DEF Tick, Wake, LinkConnected, ReportRefused, LinkNotConnected,
                            Forget, Retry, lwip, vars
<1> QED
  BY <1>1, <1>2, <1>3, <1>4, <1>5, <1>6, <1>7, <1>8, <1>9
     DEF Next, LwipEvent, app_tcp_task, lwip_tcp_client_link, Conn!Next

\* The callbacks, the link function and lwIP together are one connection that is
\* tried for, comes up, has at most one report accepted and is lost.
THEOREM ClientIsConnection == Spec => RefinesConnection
<1>1. Init => Conn!Init
  BY DEF Init, Conn!Init
<1> QED
  BY <1>1, IInvAlways, StepRefines, PTL DEF Spec, RefinesConnection, Conn!Spec
=============================================================================
