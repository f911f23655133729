---------------------------- MODULE CfgPathProofs ----------------------------
(***************************************************************************)
(* The way of a configuration, proved for every stream, every way TCP cuts *)
(* it, and every encoding of the write block.  The parser's part and the   *)
(* shadow's part are proved where they are defined; what is proved here is *)
(* that each keeps what it promises in the other's company, and that       *)
(* together they put the stream's configuration into force.                *)
(***************************************************************************)
EXTENDS CfgPath, SequenceTheorems, TLAPS

\* The two components once more, with what is proved of them.
PP == INSTANCE TcpCfgProtoProofs WITH STREAM <- 0
CP == INSTANCE CfgStateProofs

\* What CfgPath says of the parser is what its proofs say, ...
LEMMA SameParser ==
    /\ P!Init <=> PP!Init
    /\ \A c : P!tcp_client_recv_data(c) <=> PP!tcp_client_recv_data(c)
    /\ P!Reconnect <=> PP!Reconnect
    /\ P!tcp_cfg_feed_bytes <=> PP!tcp_cfg_feed_bytes
    /\ P!tcp_cfg_try_parse_frames <=> PP!tcp_cfg_try_parse_frames
    /\ \A s : P!Frames(s) = PP!Frames(s)
<1>1. P!Init <=> PP!Init
  BY DEF P!Init, PP!Init
<1>2. \A c : P!tcp_client_recv_data(c) <=> PP!tcp_client_recv_data(c)
  BY DEF P!tcp_client_recv_data, PP!tcp_client_recv_data
<1>3. P!Reconnect <=> PP!Reconnect
  BY DEF P!Reconnect, PP!Reconnect, P!Cardinality, PP!Cardinality, P!IsFiniteSet,
         PP!IsFiniteSet
<1>4. P!tcp_cfg_feed_bytes <=> PP!tcp_cfg_feed_bytes
  BY DEF P!tcp_cfg_feed_bytes, PP!tcp_cfg_feed_bytes, P!FeedDone, PP!FeedDone,
         P!FeedCopy, PP!FeedCopy, P!MakeRoom, PP!MakeRoom, P!Room, PP!Room, P!CopyLen,
         PP!CopyLen, P!Drop, PP!Drop, P!Keep, PP!Keep, P!MAGIC_LEN, PP!MAGIC_LEN
<1>5. P!tcp_cfg_try_parse_frames <=> PP!tcp_cfg_try_parse_frames
  BY DEF P!tcp_cfg_try_parse_frames, PP!tcp_cfg_try_parse_frames, P!ParseShort,
         PP!ParseShort, P!ParseNoMagic, PP!ParseNoMagic, P!ParseMagic, PP!ParseMagic,
         P!ParseHalf, PP!ParseHalf, P!ParseTooLarge, PP!ParseTooLarge, P!ParseFrame,
         PP!ParseFrame, P!tcp_cfg_find_magic, PP!tcp_cfg_find_magic, P!Magics,
         PP!Magics, P!MagicAt, PP!MagicAt, P!tcp_cfg_consume_bytes,
         PP!tcp_cfg_consume_bytes, P!Drop, PP!Drop, P!Keep, PP!Keep, P!HeaderIn,
         PP!HeaderIn, P!FrameIn, PP!FrameIn, P!TooLarge, PP!TooLarge, P!TotalLen,
         PP!TotalLen, P!PayloadLen, PP!PayloadLen, P!Cmd, PP!Cmd, P!Frame, PP!Frame,
         P!HEADER_LEN, PP!HEADER_LEN, P!MAGIC_LEN, PP!MAGIC_LEN
<1>6. \A s : P!Frames(s) = PP!Frames(s)
  BY DEF P!Frames, PP!Frames, P!FramesFrom, PP!FramesFrom, P!Parsed, PP!Parsed,
         P!Starts, PP!Starts, P!First, PP!First, P!MagicAt, PP!MagicAt, P!Drop, PP!Drop,
         P!FrameIn, PP!FrameIn, P!HeaderIn, PP!HeaderIn, P!TooLarge, PP!TooLarge,
         P!TotalLen, PP!TotalLen, P!PayloadLen, PP!PayloadLen, P!Cmd, PP!Cmd, P!Frame,
         PP!Frame, P!HEADER_LEN, PP!HEADER_LEN, P!MAGIC_LEN, PP!MAGIC_LEN
<1> QED
  BY <1>1, <1>2, <1>3, <1>4, <1>5, <1>6

\* ... and so it is with the shadow.
LEMMA SameState ==
    /\ C!Init <=> CP!Init
    /\ \A b : C!BeginBlock(b) <=> CP!BeginBlock(b)
    /\ C!StoreField <=> CP!StoreField
    /\ C!WriteRegister <=> CP!WriteRegister
    /\ C!tcp_cfg_send_state_report <=> CP!tcp_cfg_send_state_report
    /\ C!Fields = CP!Fields /\ C!Registers = CP!Registers /\ C!Defaults = CP!Defaults
    /\ \A r : C!FieldsOf(r) = CP!FieldsOf(r)
    /\ \A f, v : C!Accepted(f, v) <=> CP!Accepted(f, v)
    /\ \A b : C!StepsOf(b) = CP!StepsOf(b)
    /\ \A c : C!IsConfig(c) <=> CP!IsConfig(c)
    /\ \A f : C!Values(f) = CP!Values(f)
<1>1. C!Init <=> CP!Init
  BY DEF C!Init, CP!Init, C!Defaults, CP!Defaults, C!FieldsOf, CP!FieldsOf,
         C!CcdControl, CP!CcdControl, C!AdcControl, CP!AdcControl, C!Fields, CP!Fields,
         C!Registers, CP!Registers
<1>2. \A b : C!BeginBlock(b) <=> CP!BeginBlock(b)
  BY DEF C!BeginBlock, CP!BeginBlock, C!StepsOf, CP!StepsOf, C!After, CP!After,
         C!Accepted, CP!Accepted, C!Modes, CP!Modes, C!Program, CP!Program,
         C!Cardinality, CP!Cardinality, C!IsFiniteSet, CP!IsFiniteSet, C!FieldsOf,
         CP!FieldsOf, C!CcdControl, CP!CcdControl, C!AdcControl, CP!AdcControl,
         C!Fields, CP!Fields, C!Registers, CP!Registers
<1>3. C!StoreField <=> CP!StoreField
  BY DEF C!StoreField, CP!StoreField, C!NextStep, CP!NextStep, C!StepsOf, CP!StepsOf,
         C!Accepted, CP!Accepted, C!Modes, CP!Modes, C!Program, CP!Program, C!FieldsOf,
         CP!FieldsOf, C!CcdControl, CP!CcdControl, C!AdcControl, CP!AdcControl,
         C!Fields, CP!Fields, C!Registers, CP!Registers
<1>4. C!WriteRegister <=> CP!WriteRegister
  BY DEF C!WriteRegister, CP!WriteRegister, C!NextStep, CP!NextStep, C!StepsOf,
         CP!StepsOf, C!Program, CP!Program, C!FieldsOf, CP!FieldsOf, C!CcdControl,
         CP!CcdControl, C!AdcControl, CP!AdcControl, C!Fields, CP!Fields, C!Registers,
         CP!Registers
<1>5. C!tcp_cfg_send_state_report <=> CP!tcp_cfg_send_state_report
  BY DEF C!tcp_cfg_send_state_report, CP!tcp_cfg_send_state_report, C!BeginReport,
         CP!BeginReport, C!ReadField, CP!ReadField, C!SendReport, CP!SendReport,
         C!After, CP!After, C!Accepted, CP!Accepted, C!Modes, CP!Modes, C!ReadOrder,
         CP!ReadOrder, C!Defaults, CP!Defaults, C!FieldsOf, CP!FieldsOf, C!CcdControl,
         CP!CcdControl, C!AdcControl, CP!AdcControl, C!Fields, CP!Fields, C!Registers,
         CP!Registers
<1>6. C!Fields = CP!Fields /\ C!Registers = CP!Registers /\ C!Defaults = CP!Defaults
  BY DEF C!Defaults, CP!Defaults, C!FieldsOf, CP!FieldsOf, C!CcdControl, CP!CcdControl,
         C!AdcControl, CP!AdcControl, C!Fields, CP!Fields, C!Registers, CP!Registers
<1>7. \A r : C!FieldsOf(r) = CP!FieldsOf(r)
  BY DEF C!FieldsOf, CP!FieldsOf, C!CcdControl, CP!CcdControl, C!AdcControl,
         CP!AdcControl
<1>8. \A f, v : C!Accepted(f, v) <=> CP!Accepted(f, v)
  BY DEF C!Accepted, CP!Accepted, C!Modes, CP!Modes
<1>9. \A b : C!StepsOf(b) = CP!StepsOf(b)
  BY DEF C!StepsOf, CP!StepsOf, C!Program, CP!Program, C!FieldsOf, CP!FieldsOf,
         C!CcdControl, CP!CcdControl, C!AdcControl, CP!AdcControl, C!Fields, CP!Fields,
         C!Registers, CP!Registers
<1>10. \A c : C!IsConfig(c) <=> CP!IsConfig(c)
  BY DEF C!IsConfig, CP!IsConfig, C!Values, CP!Values, C!Fields, CP!Fields,
         C!CcdControl, CP!CcdControl, C!AdcControl, CP!AdcControl
<1>11. \A f : C!Values(f) = CP!Values(f)
  BY DEF C!Values, CP!Values
<1> QED
  BY <1>1, <1>2, <1>3, <1>4, <1>5, <1>6, <1>7, <1>8, <1>9, <1>10, <1>11

\* The components' assumptions on their constants hold.
LEMMA Assumed == PP!CfgAssumption /\ CP!CfgStateAssumption
<1>1. PP!CfgAssumption
  BY CfgPathAssumption
     DEF P!CfgAssumption, PP!CfgAssumption, P!MAGIC_LEN, PP!MAGIC_LEN,
         P!HEADER_LEN, PP!HEADER_LEN
<1>2. C!CfgStateAssumption
  BY CfgPathAssumption
<1>3. CP!CfgStateAssumption
  BY <1>2, SameState DEF C!CfgStateAssumption, CP!CfgStateAssumption
<1> QED
  BY <1>1, <1>3
-----------------------------------------------------------------------------
\* Every step is one of the parser's side or leaves it alone.
LEMMA ProtoStep ==
    ASSUME unread \in Seq(Byte), [Next]_vars
    PROVE  [PP!AnyNext]_(PP!vars) /\ unread' \in Seq(Byte)
<1>1. CASE UNCHANGED proto /\ UNCHANGED unread
  BY <1>1 DEF proto, PP!vars
<1>2. CASE Deliver
  <2>1. PICK n \in 1 .. Len(unread) :
           /\ P!tcp_client_recv_data(SubSeq(unread, 1, n))
           /\ unread' = SubSeq(unread, n + 1, Len(unread))
    BY <1>2 DEF Deliver
  <2>2. /\ Len(unread) \in Nat /\ n \in 0 .. Len(unread)
        /\ Len(unread) \in Int /\ n + 1 \in Int /\ 1 \in Int /\ n \in Int
        /\ \A i \in 1 .. Len(unread) : unread[i] \in Byte
    BY ElementOfSeq, LenProperties
  <2>3. PICK chunk : chunk = SubSeq(unread, 1, n) /\ chunk \in Seq(Byte)
    <3>1. \A i \in 1 .. n : unread[i] \in Byte
      BY <2>2
    <3>2. SubSeq(unread, 1, n) \in Seq(Byte)
      BY <2>2, <3>1, SubSeqProperties
    <3> QED
      BY <3>2
  <2>4. unread' \in Seq(Byte)
    <3>1. \A i \in n + 1 .. Len(unread) : unread[i] \in Byte
      BY <2>2
    <3> QED
      BY <2>1, <2>2, <3>1, SubSeqProperties
  <2>5. PP!tcp_client_recv_data(chunk)
    BY <2>1, <2>3, SameParser
  <2> QED
    BY <2>3, <2>4, <2>5 DEF PP!AnyNext
<1>3. CASE Reconnect
  BY <1>3, SameParser DEF Reconnect, PP!AnyNext
<1>4. CASE Parse
  BY <1>4, SameParser DEF Parse, P!Parser, PP!Parser, PP!AnyNext
<1>5. CASE Apply \/ TcpTask \/ UNCHANGED vars
  BY <1>1, <1>5 DEF Apply, TcpTask, vars, proto
<1> QED
  BY <1>2, <1>3, <1>4, <1>5 DEF Next, LwipThread

\* A turn of the parser hands over no frame or one.
LEMMA HandsOne ==
    ASSUME PP!IInv, PP!IInv', PP!Parser
    PROVE  \/ handled' = handled
           \/ \E h \in PP!Handled :
                 /\ handled' = Append(handled, h) /\ handled' # handled
                 /\ Last(handled') = h
<1>1. handled \in Seq(PP!Handled) /\ handled' \in Seq(PP!Handled)
  BY DEF PP!IInv, PP!TypeOK, PP!Handled
<1>2. handled' = handled \/ \E h : handled' = Append(handled, h)
  BY DEF PP!Parser, PP!tcp_cfg_feed_bytes, PP!FeedCopy, PP!FeedDone,
         PP!tcp_cfg_try_parse_frames, PP!ParseShort, PP!ParseNoMagic, PP!ParseMagic,
         PP!ParseHalf, PP!ParseTooLarge, PP!ParseFrame
<1>3. ASSUME NEW h, handled' = Append(handled, h)
      PROVE  h \in PP!Handled /\ handled' # handled /\ Last(handled') = h
  <2>1. /\ Len(handled) \in Nat /\ Len(handled') = Len(handled) + 1
        /\ handled'[Len(handled) + 1] = h
    BY <1>1, <1>3, LenProperties
  <2>2. Len(handled) + 1 \in 1 .. Len(handled')
    BY <2>1
  <2>3. h \in PP!Handled
    BY <1>1, <2>1, <2>2, ElementOfSeq
  <2>4. handled' # handled
    BY <2>1
  <2> QED
    BY <2>1, <2>3, <2>4 DEF Last
<1> QED
  BY <1>2, <1>3

\* The payload of a write block stands for one of the blocks.
LEMMA BlockDecoded ==
    ASSUME NEW h \in PP!Handled, IsWriteBlock(h)
    PROVE  Decode(h.payload) \in Blocks
<1>1. h.payload \in Seq(Byte) /\ Len(h.payload) = BLOCK_LEN
  BY DEF PP!Handled, IsWriteBlock
<1>2. h.payload \in [1 .. BLOCK_LEN -> Byte]
  BY <1>1, LenProperties
<1> QED
  BY <1>2, CfgPathAssumption

\* What a turn of the parser does to the shadow's side: nothing, or the frame
\* handed over begins its block.
LEMMA ParseCases ==
    ASSUME PP!IInv, PP!IInv', Parse
    PROVE  \/ UNCHANGED state /\ handled' = handled
           \/ \E h \in PP!Handled :
                 /\ handled' = Append(handled, h)
                 /\ \/ UNCHANGED state /\ ~IsWriteBlock(h)
                    \/ /\ IsWriteBlock(h) /\ Decode(h.payload) \in Blocks
                       /\ \/ UNCHANGED state /\ CP!StepsOf(Decode(h.payload)) = {}
                          \/ CP!BeginBlock(Decode(h.payload))
<1>1. PP!Parser
  BY SameParser DEF Parse, P!Parser, PP!Parser
<1>2. CASE handled' = handled
  BY <1>2 DEF Parse, tcp_cfg_handle_frame
<1>3. CASE handled' # handled
  <2>1. PICK h \in PP!Handled : handled' = Append(handled, h) /\ Last(handled') = h
    BY <1>1, <1>3, HandsOne
  <2>2. CASE ~IsWriteBlock(h)
    BY <1>3, <2>1, <2>2 DEF Parse, tcp_cfg_handle_frame, Applied, IsWriteBlock
  <2>3. CASE IsWriteBlock(h)
    <3>1. PICK b \in Blocks : b = Decode(h.payload)
      BY <2>3, BlockDecoded
    <3>2. IF C!StepsOf(b) = {} THEN UNCHANGED state ELSE C!BeginBlock(b)
      BY <1>3, <2>1, <2>3, <3>1 DEF Parse, tcp_cfg_handle_frame, Applied, IsWriteBlock
    <3>3. \/ UNCHANGED state /\ CP!StepsOf(b) = {}
          \/ CP!BeginBlock(b)
      BY <3>2, SameState
    <3> QED
      BY <2>1, <2>3, <3>1, <3>3
  <2> QED
    BY <2>2, <2>3
<1> QED
  BY <1>2, <1>3

\* Every step is one of the shadow's side or leaves it alone.
LEMMA StateStep ==
    ASSUME PP!IInv, PP!IInv', [Next]_vars
    PROVE  [CP!Next]_(CP!vars)
<1>1. CASE UNCHANGED state
  BY <1>1 DEF state, CP!vars
<1>2. CASE Parse
  <2>1. ASSUME NEW b \in Blocks, CP!BeginBlock(b)
        PROVE  CP!Next
    BY <2>1 DEF CP!Next, CP!tcp_cfg_handle_write_block
  <2> QED
    BY <1>1, <1>2, <2>1, ParseCases
<1>3. CASE Apply
  BY <1>3, SameState DEF Apply, CP!Next, CP!tcp_cfg_handle_write_block
<1>4. CASE TcpTask
  BY <1>4, SameState DEF TcpTask, CP!Next
<1>5. CASE Deliver \/ Reconnect \/ UNCHANGED vars
  BY <1>1, <1>5 DEF Deliver, Reconnect, vars, state
<1> QED
  BY <1>2, <1>3, <1>4, <1>5 DEF Next, LwipThread
-----------------------------------------------------------------------------
\* Both components' invariants hold in the composition.
PartsInv == unread \in Seq(Byte) /\ PP!IInv /\ PP!FInv /\ PP!FramesGenuine /\ CP!IInv

LEMMA InitParts == Init => PartsInv
<1> SUFFICES ASSUME Init
             PROVE  PartsInv
  OBVIOUS
<1>1. PP!Init /\ CP!Init /\ unread \in Seq(Byte)
  BY SameParser, SameState, CfgPathAssumption DEF Init
<1>2. PP!FramesGenuine
  <2>1. handled = <<>>
    BY <1>1 DEF PP!Init
  <2> QED
    BY <2>1 DEF PP!FramesGenuine
<1> QED
  BY <1>1, <1>2, Assumed, PP!InitIInv, PP!InitFInv, CP!InitIInv DEF PartsInv

LEMMA NextParts == PartsInv /\ [Next]_vars => PartsInv'
<1> SUFFICES ASSUME PartsInv, [Next]_vars
             PROVE  PartsInv'
  OBVIOUS
<1>1. [PP!AnyNext]_(PP!vars) /\ unread' \in Seq(Byte)
  BY ProtoStep DEF PartsInv
<1>2. PP!IInv'
  BY <1>1, Assumed, PP!AnyNextIInv DEF PartsInv
<1>3. PP!FInv' /\ PP!FramesGenuine'
  BY <1>1, <1>2, Assumed, PP!FInvStep, PP!GenuineStep DEF PartsInv
<1>4. [CP!Next]_(CP!vars)
  BY <1>2, StateStep DEF PartsInv
<1>5. CP!IInv'
  BY <1>4, Assumed, CP!NextIInv DEF PartsInv
<1> QED
  BY <1>1, <1>2, <1>3, <1>5 DEF PartsInv
-----------------------------------------------------------------------------
\* A non-empty set of places in a sequence has a last one.
LEMMA MaxIsLast ==
    ASSUME NEW n \in Nat, NEW T \in SUBSET (1 .. n), T # {}
    PROVE  Max(T) \in T
<1> DEFINE D == {n - i : i \in T}
<1>1. D \in SUBSET Nat /\ D # {}
  <2>1. \A i \in T : n - i \in Nat
    OBVIOUS
  <2> QED
    BY <2>1
<1>2. PICK d \in D : \A e \in D : d <= e
  <2> HIDE DEF D
  <2> QED
    BY <1>1, Assumed, PP!NatMin
<1>3. PICK x \in T : d = n - x
  BY <1>2
<1>4. \A y \in T : x >= y
  <2> TAKE y \in T
  <2>1. n - y \in D
    OBVIOUS
  <2>2. n - x <= n - y
    BY <1>2, <1>3, <2>1
  <2>3. x \in 1 .. n /\ y \in 1 .. n
    OBVIOUS
  <2> QED
    BY <2>2, <2>3
<1> QED
  BY <1>4 DEF Max

\* The latest frame of some is the same in a longer sequence, ...
LEMMA LatestKept ==
    ASSUME NEW fs \in Seq(PP!Handled), NEW h \in PP!Handled, NEW f,
           NEW T \in SUBSET (1 .. Len(fs))
    PROVE  Latest(Append(fs, h), T, f) = Latest(fs, T, f)
<1>1. Len(fs) \in Nat /\ \A i \in 1 .. Len(fs) : Append(fs, h)[i] = fs[i]
  BY LenProperties, AppendProperties
<1>2. CASE T = {}
  BY <1>2 DEF Latest
<1>3. CASE T # {}
  <2>1. Max(T) \in 1 .. Len(fs)
    BY <1>1, <1>3, MaxIsLast
  <2>2. Append(fs, h)[Max(T)] = fs[Max(T)]
    BY <1>1, <2>1
  <2> QED
    BY <1>3, <2>2 DEF Latest
<1> QED
  BY <1>2, <1>3

\* ... and it is the frame appended where that is one of them.
LEMMA LatestAppended ==
    ASSUME NEW fs \in Seq(PP!Handled), NEW h \in PP!Handled, NEW f,
           NEW T \in SUBSET (1 .. Len(fs))
    PROVE  Latest(Append(fs, h), T \union {Len(fs) + 1}, f) = Value(h, f)
<1> DEFINE n == Len(fs) + 1
           U == T \union {n}
<1>1. Len(fs) \in Nat /\ Append(fs, h)[n] = h
  BY LenProperties, AppendProperties
<1>2. U \in SUBSET (1 .. n) /\ n \in U /\ n \in Nat
  <2>1. n \in 1 .. n /\ n \in Nat /\ \A i \in 1 .. Len(fs) : i \in 1 .. n
    BY <1>1
  <2> HIDE DEF n
  <2>2. \A i \in T : i \in 1 .. n
    BY <2>1
  <2> QED
    BY <2>1, <2>2
<1>3. \A y \in U : n >= y
  <2>1. \A y \in 1 .. n : n >= y
    BY <1>1
  <2> QED
    BY <1>2, <2>1
<1>4. Max(U) \in U /\ \A y \in U : Max(U) >= y
  BY <1>2, <1>3 DEF Max
<1>5. Max(U) = n
  <2>1. Max(U) \in 1 .. n /\ Max(U) >= n
    BY <1>2, <1>4
  <2> QED
    BY <1>2, <2>1
<1>6. Append(fs, h)[Max(U)] = h
  BY <1>1, <1>5
<1> QED
  BY <1>2, <1>6 DEF Latest

\* A frame that names no field asks for nothing.
LEMMA NothingAsked ==
    ASSUME NEW fs \in Seq(PP!Handled), NEW h \in PP!Handled,
           \A f \in C!Fields : ~ Sets(h, f)
    PROVE  /\ AskedShadow(Append(fs, h)) = AskedShadow(fs)
           /\ AskedRegisters(Append(fs, h)) = AskedRegisters(fs)
<1> DEFINE gs == Append(fs, h)
           R(s, f) == {i \in 1 .. Len(s) : Sets(s[i], f)}
           S(s, f) == {i \in 1 .. Len(s) : Sets(s[i], f) /\ C!Accepted(f, Value(s[i], f))}
<1>1. /\ Len(fs) \in Nat /\ Len(gs) = Len(fs) + 1 /\ gs[Len(fs) + 1] = h
      /\ \A i \in 1 .. Len(fs) : gs[i] = fs[i]
  BY LenProperties, AppendProperties
<1> HIDE DEF gs
<1>2. \A i \in 1 .. Len(gs) : i \in 1 .. Len(fs) \/ i = Len(fs) + 1
  BY <1>1
<1>3. \A i \in 1 .. Len(fs) : i \in 1 .. Len(gs)
  BY <1>1
<1>4. ASSUME NEW f \in C!Fields
      PROVE  /\ Latest(gs, R(gs, f), f) = Latest(fs, R(fs, f), f)
             /\ Latest(gs, S(gs, f), f) = Latest(fs, S(fs, f), f)
  <2>1. R(gs, f) = R(fs, f) /\ S(gs, f) = S(fs, f)
    BY <1>1, <1>2, <1>3
  <2>2. R(fs, f) \in SUBSET (1 .. Len(fs)) /\ S(fs, f) \in SUBSET (1 .. Len(fs))
    OBVIOUS
  <2> HIDE DEF R, S
  <2> QED
    BY <2>1, <2>2, LatestKept DEF gs
<1> QED
  BY <1>4 DEF AskedShadow, AskedRegisters, gs

\* A write block puts its words on top of what was asked for before.
LEMMA BlockAsked ==
    ASSUME NEW fs \in Seq(PP!Handled), NEW h \in PP!Handled, IsWriteBlock(h)
    PROVE  LET b == Decode(h.payload)
               gs == Append(fs, h)
           IN  /\ AskedShadow(gs) = CP!After(b, AskedShadow(fs))
               /\ \A f \in C!Fields :
                     AskedRegisters(gs)[f] = IF \E r \in b.mask : f \in C!FieldsOf(r)
                                             THEN b.value[f] ELSE AskedRegisters(fs)[f]
<1> DEFINE b == Decode(h.payload)
           gs == Append(fs, h)
           n == Len(fs) + 1
           R(s, f) == {i \in 1 .. Len(s) : Sets(s[i], f)}
           S(s, f) == {i \in 1 .. Len(s) : Sets(s[i], f) /\ C!Accepted(f, Value(s[i], f))}
<1>1. /\ Len(fs) \in Nat /\ Len(gs) = n /\ gs[n] = h
      /\ \A i \in 1 .. Len(fs) : gs[i] = fs[i]
  BY LenProperties, AppendProperties
<1>2. \A i : i \in 1 .. n <=> i \in 1 .. Len(fs) \/ i = n
  BY <1>1
<1>3. \A f : /\ Sets(h, f) <=> \E r \in b.mask : f \in C!FieldsOf(r)
             /\ Value(h, f) = b.value[f]
  BY DEF Sets, Value
<1> HIDE DEF gs, b, n
<1>4. ASSUME NEW f \in C!Fields
      PROVE  /\ Latest(gs, R(gs, f), f) = IF Sets(h, f) THEN Value(h, f)
                                           ELSE Latest(fs, R(fs, f), f)
             /\ Latest(gs, S(gs, f), f) = IF Sets(h, f) /\ C!Accepted(f, Value(h, f))
                                           THEN Value(h, f) ELSE Latest(fs, S(fs, f), f)
  <2>1. R(fs, f) \in SUBSET (1 .. Len(fs)) /\ S(fs, f) \in SUBSET (1 .. Len(fs))
    OBVIOUS
  <2>2. R(gs, f) = IF Sets(h, f) THEN R(fs, f) \union {n} ELSE R(fs, f)
    BY <1>1, <1>2
  <2>3. S(gs, f) = IF Sets(h, f) /\ C!Accepted(f, Value(h, f))
                   THEN S(fs, f) \union {n} ELSE S(fs, f)
    BY <1>1, <1>2
  <2> HIDE DEF R, S
  <2>4. ASSUME NEW T \in SUBSET (1 .. Len(fs))
        PROVE  /\ Latest(gs, T, f) = Latest(fs, T, f)
               /\ Latest(gs, T \union {n}, f) = Value(h, f)
    BY LatestKept, LatestAppended DEF gs, n
  <2> QED
    BY <2>1, <2>2, <2>3, <2>4
<1>5. AskedShadow(gs) = [f \in C!Fields |-> Latest(gs, S(gs, f), f)]
  BY DEF AskedShadow
<1>6. AskedShadow(fs) = [f \in C!Fields |-> Latest(fs, S(fs, f), f)]
  BY DEF AskedShadow
<1>7. AskedRegisters(gs) = [f \in C!Fields |-> Latest(gs, R(gs, f), f)]
  BY DEF AskedRegisters
<1>8. AskedRegisters(fs) = [f \in C!Fields |-> Latest(fs, R(fs, f), f)]
  BY DEF AskedRegisters
<1> HIDE DEF R, S
<1>9. AskedShadow(gs) = CP!After(b, AskedShadow(fs))
  <2>1. CP!After(b, AskedShadow(fs)) =
           [f \in C!Fields |->
               IF (\E r \in b.mask : f \in C!FieldsOf(r)) /\ C!Accepted(f, b.value[f])
               THEN b.value[f] ELSE AskedShadow(fs)[f]]
    BY SameState DEF CP!After
  <2>2. \A f \in C!Fields : AskedShadow(gs)[f] = CP!After(b, AskedShadow(fs))[f]
    BY <1>3, <1>4, <1>5, <1>6, <2>1
  <2> QED
    BY <1>5, <2>1, <2>2
<1>10. \A f \in C!Fields :
          AskedRegisters(gs)[f] = IF \E r \in b.mask : f \in C!FieldsOf(r)
                                  THEN b.value[f] ELSE AskedRegisters(fs)[f]
  BY <1>3, <1>4, <1>7, <1>8
<1> QED
  BY <1>9, <1>10 DEF gs, b
-----------------------------------------------------------------------------
\* The state of shadow and registers against what the frames handled so far ask
\* for: at every step of a block, not only when it is done.
ShadowConfigured ==
    IF wpos = 0 THEN shadow = AskedShadow(handled)
    ELSE AskedShadow(handled) = CP!After(block, before)

BlockConfigured ==
    wpos # 0 =>
        \A r \in block.mask : \A f \in CP!FieldsOf(r) :
            AskedRegisters(handled)[f] = block.value[f]

RegistersConfigured ==
    \A r \in written : \A f \in CP!FieldsOf(r) :
        wpos = 0 \/ r \notin block.mask \/ CP!Passed(r)
            => reg[f] = AskedRegisters(handled)[f]

Configured == ShadowConfigured /\ BlockConfigured /\ RegistersConfigured

LEMMA InitConfigured == Init => Configured
<1> SUFFICES ASSUME Init
             PROVE  Configured
  OBVIOUS
<1>1. CP!Init /\ handled = <<>> /\ Len(handled) = 0
  BY SameState DEF Init, P!Init
<1>2. /\ AskedShadow(handled) = [f \in C!Fields |-> C!Defaults[f]]
      /\ AskedRegisters(handled) = [f \in C!Fields |-> C!Defaults[f]]
  BY <1>1 DEF AskedShadow, AskedRegisters, Latest
<1>3. AskedShadow(handled) = CP!Defaults /\ AskedRegisters(handled) = CP!Defaults
  BY <1>2, SameState DEF CP!Defaults
<1>4. PICK w \in WaitTims : reg = [CP!Defaults EXCEPT !["waittim"] = w]
  BY <1>1 DEF CP!Init
<1>5. ASSUME NEW r \in written, NEW f \in CP!FieldsOf(r)
      PROVE  reg[f] = CP!Defaults[f]
  <2>1. r # "CCD_WAITTIM" /\ r \in CP!Registers
    BY <1>1 DEF CP!Init
  <2>2. f # "waittim" /\ f \in CP!Fields
    BY <2>1 DEF CP!FieldsOf, CP!Registers, CP!Fields, CP!CcdControl, CP!AdcControl
  <2> QED
    BY <1>4, <2>2 DEF CP!Defaults
<1>6. wpos = 0 /\ shadow = CP!Defaults
  BY <1>1 DEF CP!Init
<1> QED
  BY <1>3, <1>5, <1>6
     DEF Configured, ShadowConfigured, BlockConfigured, RegistersConfigured
-----------------------------------------------------------------------------
\* What is configured depends on the shadow's side and the frames handled only.
LEMMA ConfiguredKept ==
    ASSUME Configured, handled' = handled,
           UNCHANGED <<shadow, reg, written, block, wpos, before>>
    PROVE  Configured'
  BY DEF Configured, ShadowConfigured, BlockConfigured, RegistersConfigured, CP!Passed

\* A frame that sets nothing is handed over between two blocks.
LEMMA NothingSetConfigured ==
    ASSUME PartsInv, Configured, wpos = 0, UNCHANGED state,
           NEW h \in PP!Handled, handled' = Append(handled, h),
           \A f \in C!Fields : ~ Sets(h, f)
    PROVE  Configured'
<1>1. handled \in Seq(PP!Handled)
  BY DEF PartsInv, PP!IInv, PP!TypeOK, PP!Handled
<1>2. PICK gs : gs = handled'
  OBVIOUS
<1>3. /\ AskedShadow(gs) = AskedShadow(handled)
      /\ AskedRegisters(gs) = AskedRegisters(handled)
  BY <1>1, <1>2, NothingAsked
<1>4. /\ wpos' = 0 /\ shadow' = shadow /\ reg' = reg /\ written' = written
  BY DEF state
<1>5. ShadowConfigured' /\ BlockConfigured'
  BY <1>2, <1>3, <1>4 DEF Configured, ShadowConfigured, BlockConfigured
<1>6. RegistersConfigured'
  BY <1>2, <1>3, <1>4 DEF Configured, RegistersConfigured
<1> QED
  BY <1>5, <1>6 DEF Configured

\* The frame of a block that begins.
LEMMA BeginConfigured ==
    ASSUME PartsInv, Configured,
           NEW h \in PP!Handled, handled' = Append(handled, h), IsWriteBlock(h),
           Decode(h.payload) \in Blocks, CP!BeginBlock(Decode(h.payload))
    PROVE  Configured'
<1>1. handled \in Seq(PP!Handled) /\ CP!TypeOK /\ written \subseteq CP!Registers
  BY DEF PartsInv, PP!IInv, PP!TypeOK, PP!Handled, CP!IInv, CP!TypeOK
<1>0. PICK b \in Blocks : b = Decode(h.payload)
  OBVIOUS
<1>2. PICK gs : gs = handled' /\ b = Decode(h.payload)
  BY <1>0
<1>3. /\ AskedShadow(gs) = CP!After(b, AskedShadow(handled))
      /\ \A f \in C!Fields :
            AskedRegisters(gs)[f] = IF \E r \in b.mask : f \in C!FieldsOf(r)
                                    THEN b.value[f] ELSE AskedRegisters(handled)[f]
  BY <1>1, <1>2, BlockAsked
<1>4. CP!BeginBlock(b)
  BY <1>2
<1>5. /\ wpos = 0 /\ wpos' # 0 /\ before' = shadow /\ shadow' = shadow /\ block' = b
      /\ reg' = reg /\ written' = written
  <2>1. CP!StepsOf(b) \subseteq 1 .. 16
    BY Assumed, CP!StepsFacts
  <2> QED
    BY <1>4, <2>1 DEF CP!BeginBlock
<1>6. \A x : ~ CP!Passed(x)'
  BY <1>1, <1>4, Assumed, CP!NothingPassed
<1>7. /\ b.mask \subseteq CP!Registers
      /\ \A r \in CP!Registers : CP!FieldsOf(r) \subseteq CP!Fields
      /\ \A r, s \in CP!Registers : \A f \in CP!FieldsOf(r) : f \in CP!FieldsOf(s) => r = s
  <2>1. b.mask \subseteq CP!Registers
    BY Assumed DEF CP!CfgStateAssumption
  <2> QED
    BY <2>1, Assumed, CP!Layout
<1>8. ShadowConfigured'
  BY <1>2, <1>3, <1>5 DEF Configured, ShadowConfigured
<1>9. BlockConfigured'
  BY <1>2, <1>3, <1>5, <1>7, SameState DEF BlockConfigured
<1>10. RegistersConfigured'
  <2>1. ASSUME NEW r \in written, NEW f \in CP!FieldsOf(r), r \notin b.mask
        PROVE  reg[f] = AskedRegisters(gs)[f]
    <3>1. r \in CP!Registers /\ f \in CP!Fields
      BY <1>1, <1>7
    <3>2. ~ (\E s \in b.mask : f \in CP!FieldsOf(s))
      BY <1>7, <2>1, <3>1
    <3>3. AskedRegisters(gs)[f] = AskedRegisters(handled)[f]
      BY <1>3, <3>1, <3>2, SameState
    <3> QED
      BY <1>5, <3>3 DEF Configured, RegistersConfigured
  <2> QED
    BY <1>2, <1>5, <1>6, <2>1 DEF RegistersConfigured
<1> QED
  BY <1>8, <1>9, <1>10 DEF Configured

\* A step of a block: at the last one, what the block asks for is in force.
LEMMA ApplyConfigured ==
    ASSUME PartsInv, Configured, handled' = handled, CP!StoreField \/ CP!WriteRegister
    PROVE  Configured'
<1>1. /\ CP!TypeOK /\ CP!AtStep /\ CP!Idle /\ CP!ShadowProgress
      /\ written \subseteq CP!Registers /\ block \in Blocks
  BY DEF PartsInv, CP!IInv, CP!TypeOK
<1>2. wpos # 0 /\ CP!NextStep /\ wpos \in CP!StepsOf(block)
  BY <1>1 DEF CP!StoreField, CP!WriteRegister, CP!AtStep
<1>3. [CP!Next]_(CP!vars)
  BY DEF CP!Next, CP!tcp_cfg_handle_write_block
<1>4. /\ block.mask \subseteq CP!Registers
      /\ CP!Fields \intersect CP!Registers = {}
      /\ \A r \in CP!Registers : CP!FieldsOf(r) \subseteq CP!Fields
      /\ \A r, s \in CP!Registers : \A f \in CP!FieldsOf(r) : f \in CP!FieldsOf(s) => r = s
  <2>1. block.mask \subseteq CP!Registers
    BY <1>1, Assumed DEF CP!CfgStateAssumption
  <2> QED
    BY <2>1, Assumed, CP!Layout
<1>5. /\ wpos' # 0 => block' = block /\ before' = before
      /\ wpos' = 0 => shadow' = CP!After(block, before)
  <2>1. wpos' # 0 => block' = block
    BY <1>1, <1>2, Assumed, CP!NextStepFacts
  <2>2. wpos' = 0 => shadow' = CP!After(block, before)
    BY <1>1, <1>2, <1>3, Assumed, CP!StepShadow
  <2>3. wpos' # 0 => before' = before
    BY DEF CP!StoreField, CP!WriteRegister
  <2> QED
    BY <2>1, <2>2, <2>3
<1>6. ShadowConfigured'
  BY <1>2, <1>5 DEF Configured, ShadowConfigured
<1>7. BlockConfigured'
  BY <1>2, <1>5 DEF Configured, BlockConfigured
<1>8. ASSUME NEW r \in written', NEW f \in CP!FieldsOf(r),
             r \notin block.mask \/ CP!Passed(r) \/ CP!Program[wpos] = r
      PROVE  reg'[f] = AskedRegisters(handled)[f]
  <2>1. CASE CP!StoreField
    <3>1. reg' = reg /\ written' = written /\ CP!Program[wpos] \in CP!Fields
      BY <2>1 DEF CP!StoreField
    <3>2. CP!Program[wpos] # r
      BY <1>1, <1>4, <3>1
    <3> QED
      BY <1>8, <3>1, <3>2 DEF Configured, RegistersConfigured
  <2>2. CASE CP!WriteRegister
    <3>1. /\ CP!Program[wpos] \in CP!Registers
          /\ written' = written \union {CP!Program[wpos]}
          /\ reg' = [g \in CP!Fields |-> IF g \in CP!FieldsOf(CP!Program[wpos])
                                         THEN block.value[g] ELSE reg[g]]
      BY <2>2 DEF CP!WriteRegister
    <3>2. r \in CP!Registers /\ f \in CP!Fields
      BY <1>1, <1>4, <3>1
    <3>3. CASE r = CP!Program[wpos]
      <4>1. r \in block.mask
        BY <1>1, <1>2, <3>1, <3>3, Assumed, CP!StepsFacts
      <4>2. reg'[f] = block.value[f]
        BY <3>1, <3>2, <3>3
      <4> QED
        BY <1>2, <4>1, <4>2 DEF Configured, BlockConfigured
    <3>4. CASE r # CP!Program[wpos]
      <4>1. r \in written /\ reg'[f] = reg[f]
        BY <1>4, <3>1, <3>2, <3>4
      <4> QED
        BY <1>8, <3>4, <4>1 DEF Configured, RegistersConfigured
    <3> QED
      BY <3>3, <3>4
  <2> QED
    BY <2>1, <2>2
<1>9. RegistersConfigured'
  <2>1. CASE wpos' = 0
    <3>1. \A r \in block.mask : CP!Passed(r) \/ CP!Program[wpos] = r
      BY <1>1, <1>2, <2>1, Assumed, CP!PassedAtEnd
    <3>2. \A r : r \notin block.mask \/ CP!Passed(r) \/ CP!Program[wpos] = r
      BY <3>1
    <3> QED
      BY <1>8, <3>2 DEF RegistersConfigured
  <2>2. CASE wpos' # 0
    <3>1. \A r : CP!Passed(r)' <=> CP!Passed(r) \/ CP!Program[wpos] = r
      BY <1>1, <1>2, <2>2, Assumed, CP!PassedGrows
    <3> QED
      BY <1>5, <1>8, <2>2, <3>1 DEF RegistersConfigured
  <2> QED
    BY <2>1, <2>2
<1> QED
  BY <1>6, <1>7, <1>9 DEF Configured

LEMMA NextConfigured == PartsInv /\ Configured /\ PartsInv' /\ [Next]_vars => Configured'
<1> SUFFICES ASSUME PartsInv, Configured, PartsInv', [Next]_vars
             PROVE  Configured'
  OBVIOUS
<1>1. CASE Parse
  <2>1. wpos = 0 /\ PP!IInv /\ PP!IInv'
    BY <1>1 DEF Parse, Parsing, PartsInv
  <2>2. CASE UNCHANGED state /\ handled' = handled
    BY <2>2, ConfiguredKept DEF state
  <2>3. ASSUME NEW h \in PP!Handled, handled' = Append(handled, h),
               UNCHANGED state /\ ~IsWriteBlock(h)
        PROVE  Configured'
    BY <2>1, <2>3, NothingSetConfigured DEF Sets
  <2>4. ASSUME NEW h \in PP!Handled, handled' = Append(handled, h), IsWriteBlock(h),
               Decode(h.payload) \in Blocks,
               UNCHANGED state, CP!StepsOf(Decode(h.payload)) = {}
        PROVE  Configured'
    <3>1. Decode(h.payload).mask = {}
      BY <2>4, Assumed, CP!StepsFacts
    <3> QED
      BY <2>1, <2>4, <3>1, NothingSetConfigured DEF Sets
  <2>5. ASSUME NEW h \in PP!Handled, handled' = Append(handled, h), IsWriteBlock(h),
               Decode(h.payload) \in Blocks, CP!BeginBlock(Decode(h.payload))
        PROVE  Configured'
    BY <2>5, BeginConfigured
  <2> QED
    BY <1>1, <2>1, <2>2, <2>3, <2>4, <2>5, ParseCases
<1>2. CASE Apply
  <2>1. handled' = handled /\ (CP!StoreField \/ CP!WriteRegister)
    BY <1>2, SameState DEF Apply, proto
  <2> QED
    BY <2>1, ApplyConfigured
<1>3. CASE TcpTask
  <2>1. handled' = handled /\ UNCHANGED <<shadow, reg, written, block, wpos, before>>
    BY <1>3, SameState
       DEF TcpTask, proto, CP!tcp_cfg_send_state_report, CP!BeginReport, CP!ReadField,
           CP!SendReport
  <2> QED
    BY <2>1, ConfiguredKept
<1>4. CASE Deliver \/ Reconnect
  <2>1. UNCHANGED state
    BY <1>4 DEF Deliver, Reconnect
  <2>2. handled' = handled
    BY <1>4 DEF Deliver, Reconnect, P!tcp_client_recv_data, P!Reconnect
  <2> QED
    BY <2>1, <2>2, ConfiguredKept DEF state
<1>5. CASE UNCHANGED vars
  BY <1>5, ConfiguredKept DEF vars
<1> QED
  BY <1>1, <1>2, <1>3, <1>4, <1>5 DEF Next, LwipThread
-----------------------------------------------------------------------------
\* The inductive invariant: what each component promises, and how far shadow and
\* registers have got with what the frames handled so far ask for.
THEOREM PathInvAlways == Spec => [](PartsInv /\ Configured)
  BY InitParts, InitConfigured, NextParts, NextConfigured, PTL DEF Spec

\* Whenever lwIP's thread is back from the receive callback, shadow and registers
\* hold what the last write blocks of the byte stream say, field by field: for
\* every stream, every way TCP cuts it, and every reading of the TCP task.
THEOREM ConfigurationInForce == Spec => []ConfigAsStreamed
<1>1. PartsInv /\ Configured => ConfigAsStreamed
  <2> SUFFICES ASSUME PartsInv, Configured, pc = "idle", wpos = 0
               PROVE  /\ shadow = AskedShadow(P!Frames(fed))
                      /\ \A r \in written : \A f \in C!FieldsOf(r) :
                            reg[f] = AskedRegisters(P!Frames(fed))[f]
    BY DEF ConfigAsStreamed, Parsing
  <2>1. PP!FramesAsStreamed
    BY Assumed, PP!IdleHandled DEF PartsInv
  <2>2. handled = P!Frames(fed)
    BY <2>1, SameParser DEF PP!FramesAsStreamed
  <2> QED
    BY <2>2, SameState DEF Configured, ShadowConfigured, RegistersConfigured
<1> QED
  BY <1>1, PathInvAlways, PTL

\* Whatever the parser hands over, and whenever, the path is a behaviour of the
\* shadow's specification: what is proved of CfgState holds on the path.
THEOREM PathImplementsState == Spec => C!Spec
<1>1. Init => C!Init
  BY DEF Init
<1>2. PartsInv /\ PartsInv' /\ [Next]_vars => [C!Next]_(C!vars)
  <2> SUFFICES ASSUME PartsInv, PartsInv', [Next]_vars
               PROVE  [C!Next]_(C!vars)
    OBVIOUS
  <2>1. [CP!Next]_(CP!vars)
    BY StateStep DEF PartsInv
  <2> QED
    BY <2>1, SameState
       DEF CP!Next, C!Next, CP!tcp_cfg_handle_write_block, C!tcp_cfg_handle_write_block,
           CP!vars, C!vars
<1>3. Spec => []PartsInv
  BY PathInvAlways, PTL
<1> QED
  BY <1>1, <1>2, <1>3, PTL DEF Spec, C!Spec

\* On the path, too, the parser handles the frames of the stream and no others,
\* though its thread stops in the middle of its loop for every write block.
THEOREM PathHandlesStream == Spec => []P!FramesAsStreamed
<1>1. PartsInv => P!FramesAsStreamed
  BY Assumed, PP!IdleHandled, SameParser DEF PartsInv, PP!FramesAsStreamed, P!FramesAsStreamed
<1> QED
  BY <1>1, PathInvAlways, PTL
=============================================================================
