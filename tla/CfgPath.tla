------------------------------ MODULE CfgPath -------------------------------
(***************************************************************************)
(* The way of a configuration from the PC's byte stream to the shadow and  *)
(* the registers: the parser of TcpCfgProto hands each frame, through      *)
(* tcp_cfg_handle_frame, to the write block of CfgState and goes on when   *)
(* it returns.  All that is lwIP's thread; the TCP task reads the shadow   *)
(* for its reports at any moment.                                          *)
(***************************************************************************)
EXTENDS Integers, Sequences, FiniteSets, SequencesExt

CONSTANTS Byte, g_cfg_magic_be, TCP_CFG_RX_BUF_SIZE, TCP_CFG_MAX_PAYLOAD_LEN,
          Blocks, WaitTims, OVERLAP,
          WRITE_BLOCK,   \* TCP_CFG_CMD_WRITE_BLOCK
          BLOCK_LEN,     \* sizeof(tcp_cfg_write_block_t)
          Decode(_),     \* the write block a payload stands for
          Streams,       \* what the PC may send
          CONNECTIONS    \* bound: connections it sends it over

VARIABLES rx, data, pc, handled, fed, cuts,      \* see TcpCfgProto
          shadow, reg, written, block, wpos, report, rpos, before, seen,
                                                 \* see CfgState
          unread      \* what the PC has still to send

proto == <<rx, data, pc, handled, fed, cuts>>
state == <<shadow, reg, written, block, wpos, report, rpos, before, seen>>
vars == <<rx, data, pc, handled, fed, cuts, shadow, reg, written, block, wpos,
          report, rpos, before, seen, unread>>

\* The bytes come from Streams: the bound on their number has no part here.
P == INSTANCE TcpCfgProto WITH STREAM <- 0
C == INSTANCE CfgState

ASSUME CfgPathAssumption ==
    /\ P!CfgAssumption /\ C!CfgStateAssumption
    /\ Streams \subseteq Seq(Byte)
    /\ \A p \in [1 .. BLOCK_LEN -> Byte] : Decode(p) \in Blocks

Init == P!Init /\ C!Init /\ unread \in Streams

-----------------------------------------------------------------------------
\* The parser's thread is in the parser, not in a write block.
Parsing == wpos = 0

\* lwIP calls the receive callback with the next bytes, however many.
Deliver ==
    /\ Parsing
    /\ \E n \in 1 .. Len(unread) :
          /\ P!tcp_client_recv_data(SubSeq(unread, 1, n))
          /\ unread' = SubSeq(unread, n + 1, Len(unread))
    /\ UNCHANGED state

Reconnect == Parsing /\ P!Reconnect /\ UNCHANGED <<state, unread>>

\* Mutant: the command is not looked at.
AppliedAnyCommand(h) == Len(h.payload) = BLOCK_LEN

\* Of all frames only a write block of the right size changes anything.
Applied(h) == h.cmd = WRITE_BLOCK /\ Len(h.payload) = BLOCK_LEN

\* The parser hands a frame over in the same step that takes it from the
\* buffer: nobody but its own thread sees the buffer.
tcp_cfg_handle_frame ==
    IF handled' = handled \/ ~ Applied(Last(handled'))
    THEN UNCHANGED state
    ELSE LET b == Decode(Last(handled').payload) IN
         IF C!StepsOf(b) = {} THEN UNCHANGED state ELSE C!BeginBlock(b)

Parse == Parsing /\ P!Parser /\ tcp_cfg_handle_frame /\ UNCHANGED unread

Apply == (C!StoreField \/ C!WriteRegister) /\ UNCHANGED <<proto, unread>>

LwipThread == Deliver \/ Reconnect \/ Parse \/ Apply

TcpTask == C!tcp_cfg_send_state_report /\ UNCHANGED <<proto, unread>>

Next == LwipThread \/ TcpTask

Spec == Init /\ [][Next]_vars

-----------------------------------------------------------------------------
\* The configuration that a stream of frames asks for, in words of the protocol:
\* its write blocks count, each for the registers it names, and the last one wins.
IsWriteBlock(h) == h.cmd = WRITE_BLOCK /\ Len(h.payload) = BLOCK_LEN

\* The block of a frame names the field, and the value it has for it.
Sets(h, f) == IsWriteBlock(h) /\ \E r \in Decode(h.payload).mask : f \in C!FieldsOf(r)
Value(h, f) == Decode(h.payload).value[f]

\* What the latest of these frames has for a field; the default if there is none.
Latest(frames, places, f) ==
    IF places = {} THEN C!Defaults[f] ELSE Value(frames[Max(places)], f)

\* A register has the last word that names it, the shadow the last one whose
\* value the software accepts.
AskedRegisters(frames) ==
    [f \in C!Fields |->
        Latest(frames, {i \in 1 .. Len(frames) : Sets(frames[i], f)}, f)]

AskedShadow(frames) ==
    [f \in C!Fields |->
        Latest(frames, {i \in 1 .. Len(frames) :
                           /\ Sets(frames[i], f)
                           /\ C!Accepted(f, Value(frames[i], f))}, f)]

\* Whenever lwIP's thread is back from the callback, shadow and registers are what
\* the write blocks in the stream ask for, in their order: wherever TCP has cut
\* the stream, whatever lies between them, and whatever the TCP task has read
\* meanwhile.
ConfigAsStreamed ==
    pc = "idle" /\ Parsing =>
        LET frames == P!Frames(fed) IN
        /\ shadow = AskedShadow(frames)
        /\ \A r \in written : \A f \in C!FieldsOf(r) : reg[f] = AskedRegisters(frames)[f]
=============================================================================
