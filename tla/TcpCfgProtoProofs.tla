------------------------- MODULE TcpCfgProtoProofs --------------------------
(***************************************************************************)
(* The receive side of the configuration protocol, proved for every        *)
(* alphabet, magic, payload limit and buffer size: the buffer holds the    *)
(* unread stretch of the stream, never fills up and never overflows, and   *)
(* what is handled is what the stream, parsed in one piece, holds.         *)
(***************************************************************************)
EXTENDS TcpCfgProto, SequenceTheorems, WellFoundedInduction, TLAPS

LEMMA Lengths ==
    /\ MAGIC_LEN \in Nat \ {0}
    /\ HEADER_LEN \in Nat
    /\ HEADER_LEN = MAGIC_LEN + 2
    /\ TCP_CFG_MAX_PAYLOAD_LEN \in Nat
    /\ TCP_CFG_RX_BUF_SIZE \in Nat
    /\ TCP_CFG_RX_BUF_SIZE > HEADER_LEN + TCP_CFG_MAX_PAYLOAD_LEN
  BY CfgAssumption DEF MAGIC_LEN, HEADER_LEN

\* Every element of a sequence of bytes is a byte.
LEMMA BytesOf ==
    ASSUME NEW s \in Seq(Byte)
    PROVE  /\ Len(s) \in Nat
           /\ \A i \in 1 .. Len(s) : s[i] \in Byte
  BY ElementOfSeq, LenProperties

\* The last n elements of a sequence.
LEMMA KeepProperties ==
    ASSUME NEW s \in Seq(Byte), NEW n \in 0 .. Len(s)
    PROVE  /\ Keep(s, n) \in Seq(Byte)
           /\ Len(Keep(s, n)) = n
           /\ \A i \in 1 .. n : Keep(s, n)[i] = s[Len(s) - n + i]
<1> DEFINE m == Len(s) - n + 1
<1>1. /\ Len(s) \in Nat /\ m \in Int /\ Len(s) \in Int
      /\ \A i \in m .. Len(s) : s[i] \in Byte
  BY BytesOf
<1>2. /\ SubSeq(s, m, Len(s)) \in Seq(Byte)
      /\ Len(SubSeq(s, m, Len(s))) = IF m <= Len(s) THEN Len(s) - m + 1 ELSE 0
      /\ \A i \in 1 .. Len(s) - m + 1 : SubSeq(s, m, Len(s))[i] = s[m + i - 1]
  <2> HIDE DEF m
  <2> QED
    BY <1>1, SubSeqProperties
<1>3. Len(s) - m + 1 = n /\ \A i \in 1 .. n : m + i - 1 = Len(s) - n + i
  BY <1>1
<1> QED
  BY <1>1, <1>2, <1>3 DEF Keep

\* The first n elements of a sequence.
LEMMA FrontProperties ==
    ASSUME NEW s \in Seq(Byte), NEW n \in 0 .. Len(s)
    PROVE  /\ SubSeq(s, 1, n) \in Seq(Byte)
           /\ Len(SubSeq(s, 1, n)) = n
           /\ \A i \in 1 .. n : SubSeq(s, 1, n)[i] = s[i]
<1>1. /\ 1 \in Int /\ n \in Int
      /\ \A i \in 1 .. n : s[i] \in Byte
  BY BytesOf
<1>2. /\ SubSeq(s, 1, n) \in Seq(Byte)
      /\ Len(SubSeq(s, 1, n)) = IF 1 <= n THEN n - 1 + 1 ELSE 0
      /\ \A i \in 1 .. n - 1 + 1 : SubSeq(s, 1, n)[i] = s[1 + i - 1]
  BY <1>1, SubSeqProperties
<1> QED
  BY <1>2

\* Dropping from the front keeps what is at the back.
LEMMA DropIsKeep ==
    ASSUME NEW s \in Seq(Byte), NEW n \in 0 .. Len(s)
    PROVE  Drop(s, n) = Keep(s, Len(s) - n)
<1>1. Len(s) \in Nat
  BY BytesOf
<1>2. Len(s) - (Len(s) - n) + 1 = n + 1
  BY <1>1
<1> QED
  BY <1>2 DEF Drop, Keep

\* tcp_cfg_consume_bytes leaves the back of the buffer.
LEMMA ConsumeKeeps ==
    ASSUME NEW s \in Seq(Byte), NEW n \in Nat
    PROVE  tcp_cfg_consume_bytes(s, n) = Keep(s, IF n >= Len(s) THEN 0 ELSE Len(s) - n)
<1>1. Len(s) \in Nat
  BY BytesOf
<1>2. CASE n >= Len(s)
  <2>1. SubSeq(s, Len(s) + 1, Len(s)) = <<>>
    BY <1>1, SubSeqEmpty
  <2>2. Len(s) - 0 + 1 = Len(s) + 1
    BY <1>1
  <2> QED
    BY <1>2, <2>1, <2>2 DEF tcp_cfg_consume_bytes, Keep
<1>3. CASE ~ (n >= Len(s))
  BY <1>1, <1>3, DropIsKeep DEF tcp_cfg_consume_bytes
<1> QED
  BY <1>2, <1>3

\* Dropping more of a sequence of which the front was dropped already.
LEMMA KeepOfKeep ==
    ASSUME NEW s \in Seq(Byte), NEW m \in 0 .. Len(s), NEW n \in 0 .. m
    PROVE  Keep(Keep(s, m), n) = Keep(s, n)
<1>1. Len(s) \in Nat /\ n \in 0 .. Len(s)
  BY BytesOf
<1>2. /\ Keep(s, m) \in Seq(Byte) /\ Len(Keep(s, m)) = m
      /\ \A i \in 1 .. m : Keep(s, m)[i] = s[Len(s) - m + i]
  BY KeepProperties
<1>3. /\ Keep(s, n) \in Seq(Byte) /\ Len(Keep(s, n)) = n
      /\ \A i \in 1 .. n : Keep(s, n)[i] = s[Len(s) - n + i]
  BY <1>1, KeepProperties
<1>4. /\ Keep(Keep(s, m), n) \in Seq(Byte) /\ Len(Keep(Keep(s, m), n)) = n
      /\ \A i \in 1 .. n : Keep(Keep(s, m), n)[i] = Keep(s, m)[m - n + i]
  <2>1. n \in 0 .. Len(Keep(s, m))
    BY <1>2
  <2>2. /\ Keep(Keep(s, m), n) \in Seq(Byte) /\ Len(Keep(Keep(s, m), n)) = n
        /\ \A i \in 1 .. n : Keep(Keep(s, m), n)[i] = Keep(s, m)[Len(Keep(s, m)) - n + i]
    BY <1>2, <2>1, KeepProperties
  <2> QED
    BY <1>2, <2>2
<1>5. \A i \in 1 .. n : Keep(Keep(s, m), n)[i] = Keep(s, n)[i]
  <2> TAKE i \in 1 .. n
  <2>1. m - n + i \in 1 .. m /\ Len(s) - m + (m - n + i) = Len(s) - n + i
    BY <1>1
  <2> QED
    BY <1>2, <1>3, <1>4, <2>1
<1> QED
  BY <1>3, <1>4, <1>5, SeqEqual
-----------------------------------------------------------------------------
\* The inductive invariant: between two calls nothing is left to copy.
IInv ==
    /\ TypeOK
    /\ BufferIsStream
    /\ NeverFull
    /\ pc = "idle" => data = <<>>

LEMMA InitIInv == Init => IInv
<1> SUFFICES ASSUME Init
             PROVE  IInv
  OBVIOUS
<1>1. /\ rx = <<>> /\ data = <<>> /\ fed = <<>> /\ handled = <<>>
      /\ cuts = {} /\ pc = "idle"
  BY DEF Init
<1>2. <<>> \in Seq(Byte) /\ Len(<<>>) = 0
  BY EmptySeq
<1>3. handled \in Seq([at : Nat, cmd : Byte, payload : Seq(Byte)])
  BY <1>1, EmptySeq
<1>4. TypeOK
  BY <1>1, <1>2, <1>3, Lengths DEF TypeOK
<1>5. BufferIsStream
  BY <1>1, <1>2 DEF BufferIsStream, Taken
<1>6. NeverFull
  BY <1>1, <1>2, Lengths DEF NeverFull
<1> QED
  BY <1>1, <1>4, <1>5, <1>6 DEF IInv

\* Every piece TCP may deliver is a sequence of bytes.
LEMMA ChunksAreSequences ==
    ASSUME NEW n \in Int, NEW c \in Chunks(n)
    PROVE  c \in Seq(Byte)
<1>1. PICK k \in 1 .. n : c \in [1 .. k -> Byte]
  BY DEF Chunks
<1>2. k \in Nat
  OBVIOUS
<1> QED
  BY <1>1, <1>2, SeqDef

\* Whatever the parser drops from the front of the buffer, the rest is still the
\* stretch of the stream that is waiting.
LEMMA FrontDropped ==
    ASSUME IInv, NEW m \in 0 .. Len(rx), rx' = Keep(rx, m), UNCHANGED <<data, fed>>
    PROVE  /\ rx' \in Seq(Byte) /\ Len(rx') = m
           /\ Len(rx') <= TCP_CFG_RX_BUF_SIZE
           /\ BufferIsStream'
<1>1. /\ rx \in Seq(Byte) /\ data \in Seq(Byte) /\ fed \in Seq(Byte)
      /\ Len(rx) \in Nat /\ Len(data) \in Nat /\ Len(fed) \in Nat
      /\ Len(rx) <= TCP_CFG_RX_BUF_SIZE
  BY BytesOf DEF IInv, TypeOK
<1>2. /\ rx' \in Seq(Byte) /\ Len(rx') = m
      /\ \A i \in 1 .. m : rx'[i] = rx[Len(rx) - m + i]
  BY <1>1, KeepProperties
<1>3. Taken' = Taken + Len(rx) - m
  BY <1>1, <1>2 DEF Taken
<1>4. Taken \in Nat
  BY <1>1 DEF IInv, BufferIsStream, Taken
<1>5. \A i \in 1 .. Len(rx') : rx'[i] = fed'[Taken' + i]
  <2> TAKE i \in 1 .. Len(rx')
  <2>1. Len(rx) - m + i \in 1 .. Len(rx) /\ Taken + (Len(rx) - m + i) = Taken' + i
    BY <1>1, <1>2, <1>3, <1>4
  <2> QED
    BY <1>2, <2>1 DEF IInv, BufferIsStream
<1>6. \A i \in 1 .. Len(data') : data'[i] = fed'[Taken' + Len(rx') + i]
  <2> TAKE i \in 1 .. Len(data')
  <2>1. Taken' + Len(rx') + i = Taken + Len(rx) + i
    BY <1>1, <1>2, <1>3, <1>4
  <2> QED
    BY <2>1 DEF IInv, BufferIsStream
<1> QED
  BY <1>1, <1>2, <1>3, <1>4, <1>5, <1>6, Lengths DEF BufferIsStream

\* A piece arrives when nothing is left of the one before it.
LEMMA ReceiveIInv ==
    ASSUME IInv, NEW chunk \in Seq(Byte), tcp_client_recv_data(chunk)
    PROVE  IInv'
<1>1. /\ rx \in Seq(Byte) /\ fed \in Seq(Byte)
      /\ Len(rx) \in Nat /\ Len(fed) \in Nat
      /\ pc = "idle" /\ data = <<>> /\ Len(data) = 0
  BY BytesOf, EmptySeq DEF IInv, TypeOK, tcp_client_recv_data
<1>2. /\ data' \in Seq(Byte) /\ fed' = fed \o data'
      /\ pc' = "copy" /\ UNCHANGED <<rx, handled, cuts>>
  BY DEF tcp_client_recv_data
<1>3. /\ fed' \in Seq(Byte) /\ Len(data') \in Nat
      /\ Len(fed') = Len(fed) + Len(data')
      /\ \A i \in 1 .. Len(fed) : fed'[i] = fed[i]
      /\ \A i \in 1 .. Len(data') : fed'[Len(fed) + i] = data'[i]
  <2>1. /\ fed' \in Seq(Byte) /\ Len(data') \in Nat
        /\ Len(fed') = Len(fed) + Len(data')
        /\ \A i \in 1 .. Len(fed) + Len(data') :
              fed'[i] = IF i <= Len(fed) THEN fed[i] ELSE data'[i - Len(fed)]
    BY <1>1, <1>2, ConcatProperties, BytesOf
  <2>2. \A i \in 1 .. Len(fed) : fed'[i] = fed[i]
    <3> TAKE i \in 1 .. Len(fed)
    <3>1. i \in 1 .. Len(fed) + Len(data') /\ i <= Len(fed)
      BY <1>1, <2>1
    <3> QED
      BY <2>1, <3>1
  <2>3. \A i \in 1 .. Len(data') : fed'[Len(fed) + i] = data'[i]
    <3> TAKE i \in 1 .. Len(data')
    <3>1. /\ Len(fed) + i \in 1 .. Len(fed) + Len(data')
          /\ ~ (Len(fed) + i <= Len(fed))
          /\ Len(fed) + i - Len(fed) = i
      BY <1>1, <2>1
    <3> QED
      BY <2>1, <3>1
  <2> QED
    BY <2>1, <2>2, <2>3
<1>4. TypeOK'
  BY <1>2, <1>3 DEF IInv, TypeOK
<1>5. BufferIsStream'
  <2>1. /\ Taken \in Nat /\ Taken' = Taken /\ Taken + Len(rx) = Len(fed)
    BY <1>1, <1>2, <1>3 DEF IInv, BufferIsStream, Taken
  <2>2. \A i \in 1 .. Len(rx') : rx'[i] = fed'[Taken' + i]
    <3> TAKE i \in 1 .. Len(rx')
    <3>1. Taken + i \in 1 .. Len(fed) /\ rx[i] = fed[Taken + i]
      BY <1>1, <1>2, <2>1 DEF IInv, BufferIsStream
    <3> QED
      BY <1>2, <1>3, <2>1, <3>1
  <2>3. \A i \in 1 .. Len(data') : data'[i] = fed'[Taken' + Len(rx') + i]
    BY <1>1, <1>2, <1>3, <2>1
  <2>4. Taken' >= 0
    BY <2>1
  <2> QED
    BY <2>2, <2>3, <2>4 DEF BufferIsStream
<1>6. NeverFull'
  BY <1>1, <1>2 DEF IInv, NeverFull
<1> QED
  BY <1>2, <1>4, <1>5, <1>6 DEF IInv

LEMMA ReconnectIInv ==
    ASSUME IInv, Reconnect
    PROVE  IInv'
<1>1. Len(fed) \in Nat
  BY BytesOf DEF IInv, TypeOK
<1> QED
  BY <1>1 DEF IInv, Reconnect, TypeOK, BufferIsStream, Taken, NeverFull

LEMMA FeedDoneIInv ==
    ASSUME IInv, FeedDone
    PROVE  IInv'
  BY DEF IInv, FeedDone, TypeOK, BufferIsStream, Taken, NeverFull

\* Since the buffer is not full, what is copied fits behind what is there.
LEMMA FeedCopyIInv ==
    ASSUME IInv, FeedCopy
    PROVE  IInv'
<1> DEFINE c == CopyLen
           a == SubSeq(data, 1, c)
<1>1. /\ rx \in Seq(Byte) /\ data \in Seq(Byte) /\ fed \in Seq(Byte)
      /\ Len(rx) \in Nat /\ Len(data) \in Nat /\ Len(fed) \in Nat
      /\ Taken \in Nat /\ Taken = Len(fed) - Len(data) - Len(rx)
  BY BytesOf DEF IInv, TypeOK, BufferIsStream, Taken
<1>2. Len(rx) < HEADER_LEN + TCP_CFG_MAX_PAYLOAD_LEN
  BY DEF IInv, NeverFull, FeedCopy
<1>3. MakeRoom(rx) = rx
  BY <1>1, <1>2, Lengths DEF MakeRoom
<1>4. c \in 0 .. Len(data) /\ Len(rx) + c <= TCP_CFG_RX_BUF_SIZE
  BY <1>1, <1>2, <1>3, Lengths DEF CopyLen, Room
<1>5. /\ rx' = rx \o a /\ data' = Drop(data, c) /\ pc' = "parse"
      /\ UNCHANGED <<handled, fed, cuts>>
  BY <1>3 DEF FeedCopy
<1> HIDE DEF c
<1>6. /\ a \in Seq(Byte) /\ Len(a) = c
      /\ \A i \in 1 .. c : a[i] = data[i]
  BY <1>1, <1>4, FrontProperties
<1> HIDE DEF a
<1>7. /\ rx' \in Seq(Byte) /\ Len(rx') = Len(rx) + c
      /\ \A i \in 1 .. Len(rx) + c :
            rx'[i] = IF i <= Len(rx) THEN rx[i] ELSE data[i - Len(rx)]
  <2>1. /\ rx' \in Seq(Byte) /\ Len(rx') = Len(rx) + Len(a)
        /\ \A i \in 1 .. Len(rx) + Len(a) :
              rx'[i] = IF i <= Len(rx) THEN rx[i] ELSE a[i - Len(rx)]
    BY <1>1, <1>5, <1>6, ConcatProperties
  <2> QED
    BY <1>1, <1>4, <1>6, <2>1
<1>8. /\ data' \in Seq(Byte) /\ Len(data') = Len(data) - c
      /\ \A i \in 1 .. Len(data) - c : data'[i] = data[c + i]
  <2>1. data' = Keep(data, Len(data) - c) /\ Len(data) - c \in 0 .. Len(data)
    BY <1>1, <1>4, <1>5, DropIsKeep
  <2>2. /\ data' \in Seq(Byte) /\ Len(data') = Len(data) - c
        /\ \A i \in 1 .. Len(data) - c : data'[i] = data[Len(data) - (Len(data) - c) + i]
    BY <1>1, <2>1, KeepProperties
  <2>3. \A i \in 1 .. Len(data) - c : Len(data) - (Len(data) - c) + i = c + i
    BY <1>1, <1>4
  <2> QED
    BY <2>2, <2>3
<1>9. TypeOK'
  BY <1>4, <1>5, <1>7, <1>8 DEF IInv, TypeOK
<1>10. BufferIsStream'
  <2>1. Taken' = Taken
    <3>1. Taken' = Len(fed) - (Len(data) - c) - (Len(rx) + c)
      BY <1>5, <1>7, <1>8 DEF Taken
    <3> QED
      BY <1>1, <1>4, <3>1
  <2>2. \A i \in 1 .. Len(rx') : rx'[i] = fed'[Taken' + i]
    <3> TAKE i \in 1 .. Len(rx')
    <3>1. CASE i <= Len(rx)
      <4>1. i \in 1 .. Len(rx) + c /\ i \in 1 .. Len(rx)
        BY <1>1, <1>4, <1>7, <3>1
      <4>2. rx'[i] = rx[i]
        BY <1>7, <3>1, <4>1
      <4> QED
        BY <1>5, <2>1, <4>1, <4>2 DEF IInv, BufferIsStream
    <3>2. CASE ~ (i <= Len(rx))
      <4>1. /\ i \in 1 .. Len(rx) + c
            /\ i - Len(rx) \in 1 .. Len(data)
            /\ Taken + Len(rx) + (i - Len(rx)) = Taken' + i
        BY <1>1, <1>4, <1>7, <2>1, <3>2
      <4>2. rx'[i] = data[i - Len(rx)]
        BY <1>7, <3>2, <4>1
      <4> QED
        BY <1>5, <4>1, <4>2 DEF IInv, BufferIsStream
    <3> QED
      BY <3>1, <3>2
  <2>3. \A i \in 1 .. Len(data') : data'[i] = fed'[Taken' + Len(rx') + i]
    <3> TAKE i \in 1 .. Len(data')
    <3>1. c + i \in 1 .. Len(data) /\ Taken + Len(rx) + (c + i) = Taken' + Len(rx') + i
      BY <1>1, <1>4, <1>7, <1>8, <2>1
    <3> QED
      BY <1>5, <1>8, <3>1 DEF IInv, BufferIsStream
  <2>4. Taken' >= 0
    BY <1>1, <2>1
  <2> QED
    BY <2>2, <2>3, <2>4 DEF BufferIsStream
<1>11. NeverFull'
  BY <1>5 DEF NeverFull
<1> QED
  BY <1>5, <1>9, <1>10, <1>11 DEF IInv

\* A header in the buffer announces a natural number of bytes.
LEMMA HeaderRead ==
    ASSUME NEW s \in Seq(Byte), HeaderIn(s)
    PROVE  Cmd(s) \in Byte /\ PayloadLen(s) \in Nat
<1>1. MAGIC_LEN + 1 \in 1 .. Len(s) /\ MAGIC_LEN + 2 \in 1 .. Len(s)
  BY BytesOf, Lengths DEF HeaderIn
<1> QED
  BY <1>1, BytesOf, CfgAssumption DEF Cmd, PayloadLen

\* A frame that is handled is one of the right type.
LEMMA FrameTyped ==
    ASSUME NEW s \in Seq(Byte), FrameIn(s), NEW at \in Nat
    PROVE  Frame(at, s) \in [at : Nat, cmd : Byte, payload : Seq(Byte)]
<1>1. Cmd(s) \in Byte /\ PayloadLen(s) \in Nat /\ HeaderIn(s)
  BY HeaderRead DEF FrameIn
<1>2. HEADER_LEN + PayloadLen(s) <= Len(s)
  BY BytesOf, <1>1, Lengths DEF FrameIn, TotalLen
<1>3. \A i \in HEADER_LEN + 1 .. HEADER_LEN + PayloadLen(s) : s[i] \in Byte
  BY BytesOf, <1>1, <1>2, Lengths
<1>4. SubSeq(s, HEADER_LEN + 1, HEADER_LEN + PayloadLen(s)) \in Seq(Byte)
  BY <1>1, <1>3, Lengths, SubSeqProperties
<1> QED
  BY <1>1, <1>4 DEF Frame

LEMMA ParseIInv ==
    ASSUME IInv, tcp_cfg_try_parse_frames
    PROVE  IInv'
<1>1. /\ rx \in Seq(Byte) /\ Len(rx) \in Nat /\ pc = "parse"
      /\ Len(fed) \in Nat /\ Len(data) \in Nat
      /\ handled \in Seq([at : Nat, cmd : Byte, payload : Seq(Byte)])
      /\ UNCHANGED <<data, fed, cuts>>
  BY BytesOf DEF IInv, TypeOK, tcp_cfg_try_parse_frames
<1>2. ASSUME NEW m \in 0 .. Len(rx), rx' = Keep(rx, m),
             handled' \in Seq([at : Nat, cmd : Byte, payload : Seq(Byte)]),
             \/ pc' = "parse"
             \/ pc' = "copy" /\ m < HEADER_LEN + TCP_CFG_MAX_PAYLOAD_LEN
      PROVE  IInv'
  <2>1. /\ rx' \in Seq(Byte) /\ Len(rx') = m
        /\ Len(rx') <= TCP_CFG_RX_BUF_SIZE
        /\ BufferIsStream'
    BY <1>1, <1>2, FrontDropped
  <2>2. TypeOK'
    BY <1>1, <1>2, <2>1 DEF IInv, TypeOK
  <2>3. NeverFull'
    BY <1>2, <2>1 DEF NeverFull
  <2> QED
    BY <1>2, <2>1, <2>2, <2>3 DEF IInv
<1>3. CASE ParseShort
  <2>1. rx = Keep(rx, Len(rx))
    BY <1>1, SubSeqFull DEF Keep
  <2>2. Len(rx) < HEADER_LEN + TCP_CFG_MAX_PAYLOAD_LEN
    BY <1>1, <1>3, Lengths DEF ParseShort, HeaderIn
  <2>3. rx' = rx /\ handled' = handled /\ pc' = "copy" /\ Len(rx) \in 0 .. Len(rx)
    BY <1>1, <1>3 DEF ParseShort
  <2>4. rx' = Keep(rx, Len(rx))
    BY <2>1, <2>3
  <2> QED
    BY <1>1, <1>2, <2>2, <2>3, <2>4
<1>4. CASE ParseNoMagic
  <2>1. /\ MAGIC_LEN - 1 \in 0 .. Len(rx)
        /\ MAGIC_LEN - 1 < HEADER_LEN + TCP_CFG_MAX_PAYLOAD_LEN
    BY <1>1, <1>4, Lengths DEF ParseNoMagic, HeaderIn
  <2> QED
    BY <1>1, <1>2, <1>4, <2>1 DEF ParseNoMagic
<1>5. CASE ParseMagic
  <2>1. PICK pos \in tcp_cfg_find_magic(rx) :
           LET s == tcp_cfg_consume_bytes(rx, pos) IN
           ParseHalf(s) \/ ParseTooLarge(s) \/ ParseFrame(s)
    BY <1>5 DEF ParseMagic
  <2> DEFINE s == tcp_cfg_consume_bytes(rx, pos)
  <2>2. pos \in Nat
    BY <1>1, Lengths DEF tcp_cfg_find_magic, Magics
  <2>3. PICK k \in 0 .. Len(rx) : s = Keep(rx, k)
    <3>1. s = Keep(rx, IF pos >= Len(rx) THEN 0 ELSE Len(rx) - pos)
      BY <1>1, <2>2, ConsumeKeeps
    <3>2. (IF pos >= Len(rx) THEN 0 ELSE Len(rx) - pos) \in 0 .. Len(rx)
      BY <1>1, <2>2
    <3> QED
      BY <3>1, <3>2
  <2>4. s \in Seq(Byte) /\ Len(s) = k
    BY <1>1, <2>3, KeepProperties
  <2>5. ParseHalf(s) \/ ParseTooLarge(s) \/ ParseFrame(s)
    BY <2>1
  <2> HIDE DEF s
  <2>6. ASSUME NEW n \in Nat
        PROVE  \E m \in 0 .. Len(rx) : tcp_cfg_consume_bytes(s, n) = Keep(rx, m)
    <3>1. PICK m \in 0 .. k : tcp_cfg_consume_bytes(s, n) = Keep(s, m)
      BY <2>4, ConsumeKeeps
    <3>2. Keep(s, m) = Keep(rx, m) /\ m \in 0 .. Len(rx)
      BY <1>1, <2>3, KeepOfKeep
    <3> QED
      BY <3>1, <3>2
  <2>7. CASE ParseHalf(s)
    <3>1. k < HEADER_LEN + TCP_CFG_MAX_PAYLOAD_LEN
      <4>1. CASE HeaderIn(s)
        BY <2>4, <2>7, <4>1, HeaderRead, Lengths DEF ParseHalf, TooLarge, TotalLen
      <4>2. CASE ~HeaderIn(s)
        BY <2>4, <4>2, Lengths DEF HeaderIn
      <4> QED
        BY <4>1, <4>2
    <3> QED
      BY <1>1, <1>2, <2>3, <2>7, <3>1 DEF ParseHalf
  <2>8. CASE ParseTooLarge(s)
    <3>1. PICK m \in 0 .. Len(rx) : rx' = Keep(rx, m)
      BY <2>6, <2>8 DEF ParseTooLarge
    <3> QED
      BY <1>1, <1>2, <2>8, <3>1 DEF ParseTooLarge
  <2>9. CASE ParseFrame(s)
    <3>1. TotalLen(s) \in Nat /\ FrameIn(s)
      BY <2>4, <2>9, HeaderRead, Lengths DEF ParseFrame, FrameIn, TotalLen
    <3>2. PICK m \in 0 .. Len(rx) : rx' = Keep(rx, m)
      BY <2>6, <2>9, <3>1 DEF ParseFrame
    <3>3. Len(fed) - Len(data) - Len(s) \in Nat
      BY <1>1, <2>4 DEF IInv, BufferIsStream, Taken
    <3>4. handled' \in Seq([at : Nat, cmd : Byte, payload : Seq(Byte)])
      BY <1>1, <2>4, <2>9, <3>1, <3>3, FrameTyped, AppendProperties DEF ParseFrame
    <3> QED
      BY <1>1, <1>2, <2>9, <3>2, <3>4 DEF ParseFrame
  <2> QED
    BY <2>5, <2>7, <2>8, <2>9
<1> QED
  BY <1>3, <1>4, <1>5 DEF tcp_cfg_try_parse_frames
-----------------------------------------------------------------------------
\* A step when TCP may deliver any piece at all: the bound on the stream has no
\* part in what follows.
AnyNext == (\E chunk \in Seq(Byte) : tcp_client_recv_data(chunk)) \/ Reconnect \/ Parser

LEMMA NextIsAny ==
    ASSUME IInv, Next
    PROVE  AnyNext
<1>1. STREAM - Len(fed) \in Int
  BY BytesOf, CfgAssumption DEF IInv, TypeOK
<1> QED
  BY <1>1, ChunksAreSequences DEF Next, Receive, AnyNext

LEMMA AnyNextIInv == IInv /\ [AnyNext]_vars => IInv'
<1> SUFFICES ASSUME IInv, [AnyNext]_vars
             PROVE  IInv'
  OBVIOUS
<1>1. CASE UNCHANGED vars
  BY <1>1 DEF vars, IInv, TypeOK, BufferIsStream, Taken, NeverFull
<1>2. CASE AnyNext
  BY <1>2, ReceiveIInv, ReconnectIInv, FeedDoneIInv, FeedCopyIInv, ParseIInv
     DEF AnyNext, Parser, tcp_cfg_feed_bytes
<1> QED
  BY <1>1, <1>2

\* The invariant holds in every behaviour.
THEOREM IInvAlways == Spec => []IInv
<1>1. IInv /\ [Next]_vars => IInv'
  BY NextIsAny, AnyNextIInv
<1> QED
  BY InitIInv, <1>1, PTL DEF Spec

\* The buffer never overflows, and every frame handed on has a command byte and
\* a payload of bytes.
THEOREM ParserTypeCorrect == Spec => []TypeOK
<1>1. IInv => TypeOK
  BY DEF IInv
<1> QED
  BY IInvAlways, <1>1, PTL

\* memmove and memcpy keep the buffer in step with the stream.
THEOREM BufferFollowsStream == Spec => []BufferIsStream
<1>1. IInv => BufferIsStream
  BY DEF IInv
<1> QED
  BY IInvAlways, <1>1, PTL

\* The forced resynchronisation of feed_bytes is never reached.
THEOREM BufferNeverFull == Spec => []NeverFull
<1>1. IInv => NeverFull
  BY DEF IInv
<1> QED
  BY IInvAlways, <1>1, PTL
-----------------------------------------------------------------------------
\* What is read at the front of the buffer is read in the stream.
LEMMA FrontIsStream ==
    ASSUME IInv, NEW m \in 0 .. Len(rx), NEW i \in 1 .. m
    PROVE  Keep(rx, m)[i] = fed[Len(fed) - Len(data) - m + i]
<1>1. /\ rx \in Seq(Byte) /\ Len(rx) \in Nat /\ Len(fed) \in Nat /\ Len(data) \in Nat
  BY BytesOf DEF IInv, TypeOK
<1>2. Keep(rx, m)[i] = rx[Len(rx) - m + i]
  BY <1>1, KeepProperties
<1>3. /\ Len(rx) - m + i \in 1 .. Len(rx)
      /\ Taken + (Len(rx) - m + i) = Len(fed) - Len(data) - m + i
  BY <1>1 DEF Taken
<1>4. rx[Len(rx) - m + i] = fed[Taken + (Len(rx) - m + i)]
  BY <1>3 DEF IInv, BufferIsStream
<1> QED
  BY <1>2, <1>3, <1>4

\* A frame at the front of the buffer is a genuine one.
LEMMA FrontFrameGenuine ==
    ASSUME IInv, NEW m \in 0 .. Len(rx), FrameIn(Keep(rx, m)), MagicAt(Keep(rx, m), 0)
    PROVE  LET h == Frame(Len(fed) - Len(data) - m, Keep(rx, m)) IN
           /\ Genuine(h, fed)
           /\ Len(h.payload) = PayloadLen(Keep(rx, m))
           /\ Len(h.payload) <= TCP_CFG_MAX_PAYLOAD_LEN
<1> DEFINE s == Keep(rx, m)
           at == Len(fed) - Len(data) - m
           n == PayloadLen(s)
           p == SubSeq(s, HEADER_LEN + 1, HEADER_LEN + n)
<1>1. /\ s \in Seq(Byte) /\ Len(s) = m
      /\ Len(rx) \in Nat /\ Len(fed) \in Nat /\ Len(data) \in Nat
  BY BytesOf, KeepProperties DEF IInv, TypeOK
<1>2. \A i \in 1 .. m : s[i] = fed[at + i]
  BY FrontIsStream
<1>3. /\ HeaderIn(s) /\ ~TooLarge(s) /\ n \in Nat
      /\ HEADER_LEN + n <= m /\ HEADER_LEN <= m
  BY <1>1, HeaderRead, Lengths DEF FrameIn, TotalLen, HeaderIn
<1>4. /\ Len(p) = n
      /\ \A k \in 1 .. n : p[k] = s[HEADER_LEN + k]
  <2>1. \A i \in HEADER_LEN + 1 .. HEADER_LEN + n : s[i] \in Byte
    BY <1>1, <1>3, BytesOf, Lengths
  <2> HIDE DEF s, n
  <2>2. /\ Len(SubSeq(s, HEADER_LEN + 1, HEADER_LEN + n))
               = IF HEADER_LEN + 1 <= HEADER_LEN + n
                 THEN HEADER_LEN + n - (HEADER_LEN + 1) + 1 ELSE 0
        /\ \A k \in 1 .. HEADER_LEN + n - (HEADER_LEN + 1) + 1 :
              SubSeq(s, HEADER_LEN + 1, HEADER_LEN + n)[k] = s[HEADER_LEN + 1 + k - 1]
    BY <1>3, <2>1, Lengths, SubSeqProperties
  <2>3. /\ HEADER_LEN + n - (HEADER_LEN + 1) + 1 = n
        /\ \A k \in 1 .. n : HEADER_LEN + 1 + k - 1 = HEADER_LEN + k
    BY <1>3, Lengths
  <2> QED
    BY <1>3, <2>2, <2>3, Lengths
<1>5. \A k \in 1 .. MAGIC_LEN : s[k] = g_cfg_magic_be[k]
  <2>1. MAGIC_LEN \in 0 .. Len(s) /\ 0 + 1 = 1 /\ 0 + MAGIC_LEN = MAGIC_LEN
    BY <1>1, <1>3, Lengths
  <2>2. SubSeq(s, 1, MAGIC_LEN) = g_cfg_magic_be
    BY <2>1 DEF MagicAt
  <2> HIDE DEF s
  <2> QED
    BY <1>1, <2>1, <2>2, FrontProperties
<1>6. /\ Frame(at, s).at = at
      /\ Frame(at, s).cmd = s[MAGIC_LEN + 1]
      /\ Frame(at, s).payload = p
      /\ n = s[MAGIC_LEN + 2]
  BY DEF Frame, Cmd, PayloadLen
<1> HIDE DEF s, p, n, at
<1>7. Genuine(Frame(at, s), fed)
  <2>1. \A k \in 1 .. MAGIC_LEN : fed[at + k] = g_cfg_magic_be[k]
    BY <1>2, <1>3, <1>5, Lengths
  <2>2. s[MAGIC_LEN + 1] = fed[at + MAGIC_LEN + 1] /\ n = fed[at + MAGIC_LEN + 2]
    <3>1. MAGIC_LEN + 1 \in 1 .. m /\ MAGIC_LEN + 2 \in 1 .. m
      BY <1>3, Lengths
    <3>2. /\ s[MAGIC_LEN + 1] = fed[at + (MAGIC_LEN + 1)]
          /\ s[MAGIC_LEN + 2] = fed[at + (MAGIC_LEN + 2)]
      BY <1>2, <3>1
    <3>3. at + (MAGIC_LEN + 1) = at + MAGIC_LEN + 1 /\ at + (MAGIC_LEN + 2) = at + MAGIC_LEN + 2
      BY <1>1, Lengths DEF at
    <3> QED
      BY <1>6, <3>2, <3>3
  <2>3. \A k \in 1 .. n : p[k] = fed[at + HEADER_LEN + k]
    <3> TAKE k \in 1 .. n
    <3>1. HEADER_LEN + k \in 1 .. m /\ at + (HEADER_LEN + k) = at + HEADER_LEN + k
      BY <1>1, <1>3, Lengths DEF at
    <3> QED
      BY <1>2, <1>4, <3>1
  <2> QED
    BY <1>4, <1>6, <2>1, <2>2, <2>3 DEF Genuine
<1>8. n <= TCP_CFG_MAX_PAYLOAD_LEN
  BY <1>3, Lengths DEF TooLarge, n
<1> QED
  BY <1>4, <1>6, <1>7, <1>8 DEF s, at, n

\* A frame that has been handled stays where it was when the stream grows.
LEMMA GenuineKept ==
    ASSUME NEW f \in Seq(Byte), NEW g, NEW h \in [at : Nat, cmd : Byte, payload : Seq(Byte)],
           Genuine(h, f), End(h) <= Len(f),
           \A i \in 1 .. Len(f) : g[i] = f[i]
    PROVE  Genuine(h, g)
<1>1. /\ h.at \in Nat /\ Len(h.payload) \in Nat /\ Len(f) \in Nat
      /\ End(h) = h.at + HEADER_LEN + Len(h.payload)
  BY BytesOf DEF End
<1>2. /\ \A k \in 1 .. MAGIC_LEN : h.at + k \in 1 .. Len(f)
      /\ h.at + MAGIC_LEN + 1 \in 1 .. Len(f) /\ h.at + MAGIC_LEN + 2 \in 1 .. Len(f)
      /\ \A k \in 1 .. Len(h.payload) : h.at + HEADER_LEN + k \in 1 .. Len(f)
  BY <1>1, Lengths
<1> QED
  BY <1>2 DEF Genuine

\* The frames handled so far stay genuine while the parser moves on.
LEMMA OldFramesGenuine ==
    ASSUME IInv, FramesGenuine, IInv',
           Taken' >= Taken, \A i \in 1 .. Len(fed) : fed'[i] = fed[i],
           NEW i \in 1 .. Len(handled)
    PROVE  /\ End(handled[i]) <= Taken'
           /\ Genuine(handled[i], fed')
           /\ Len(handled[i].payload) <= TCP_CFG_MAX_PAYLOAD_LEN
           /\ i > 1 => End(handled[i - 1]) <= handled[i].at
<1>1. /\ fed \in Seq(Byte) /\ Len(fed) \in Nat /\ Taken \in Nat /\ Taken <= Len(fed)
      /\ handled[i] \in [at : Nat, cmd : Byte, payload : Seq(Byte)]
  <2>1. /\ fed \in Seq(Byte) /\ Len(fed) \in Nat /\ Len(data) \in Nat /\ Len(rx) \in Nat
        /\ handled \in Seq([at : Nat, cmd : Byte, payload : Seq(Byte)])
    BY BytesOf DEF IInv, TypeOK
  <2>2. Taken \in Nat /\ Taken <= Len(fed)
    BY <2>1 DEF IInv, BufferIsStream, Taken
  <2> QED
    BY <2>1, <2>2, ElementOfSeq
<1>2. /\ End(handled[i]) <= Taken /\ Genuine(handled[i], fed)
      /\ Len(handled[i].payload) <= TCP_CFG_MAX_PAYLOAD_LEN
      /\ i > 1 => End(handled[i - 1]) <= handled[i].at
  BY DEF FramesGenuine
<1>3. End(handled[i]) \in Nat /\ Taken' \in Int
  <2>1. Len(fed') \in Nat /\ Len(data') \in Nat /\ Len(rx') \in Nat
    BY LenProperties DEF IInv, TypeOK
  <2> QED
    BY <1>1, <2>1, BytesOf, Lengths DEF End, Taken
<1>4. Genuine(handled[i], fed')
  <2>1. End(handled[i]) <= Len(fed)
    BY <1>1, <1>2, <1>3
  <2> QED
    BY <1>1, <1>2, <2>1, GenuineKept
<1> QED
  BY <1>1, <1>2, <1>3, <1>4

LEMMA FramesUnchanged ==
    ASSUME IInv, FramesGenuine, IInv', handled' = handled,
           Taken' >= Taken, \A i \in 1 .. Len(fed) : fed'[i] = fed[i]
    PROVE  FramesGenuine'
  BY OldFramesGenuine DEF FramesGenuine

\* Handling a frame: it starts where the buffer does, or later, and the buffer
\* then starts where it ends.
LEMMA FrameHandled ==
    ASSUME IInv, FramesGenuine, IInv', UNCHANGED <<data, fed>>,
           NEW pos \in tcp_cfg_find_magic(rx), HeaderIn(rx),
           ParseFrame(tcp_cfg_consume_bytes(rx, pos))
    PROVE  FramesGenuine'
<1> DEFINE s == tcp_cfg_consume_bytes(rx, pos)
<1>1. /\ rx \in Seq(Byte) /\ Len(rx) \in Nat /\ Len(fed) \in Nat /\ Len(data) \in Nat
      /\ handled \in Seq([at : Nat, cmd : Byte, payload : Seq(Byte)])
      /\ Taken \in Nat /\ Taken = Len(fed) - Len(data) - Len(rx)
  BY BytesOf DEF IInv, TypeOK, BufferIsStream, Taken
<1>2. pos \in 0 .. Len(rx) - MAGIC_LEN /\ MagicAt(rx, pos)
  BY DEF tcp_cfg_find_magic, Magics
<1>3. PICK k \in 0 .. Len(rx) : s = Keep(rx, k) /\ k = Len(rx) - pos
  <2>1. pos \in Nat /\ Len(rx) - pos \in 0 .. Len(rx) /\ ~ (pos >= Len(rx))
    BY <1>1, <1>2, Lengths
  <2> QED
    BY <1>1, <2>1, ConsumeKeeps
<1>4. s \in Seq(Byte) /\ Len(s) = k
  BY <1>1, <1>3, KeepProperties
<1>5. MagicAt(Keep(rx, k), 0)
  <2>1. k >= MAGIC_LEN /\ MAGIC_LEN \in Nat
    BY <1>1, <1>2, <1>3, Lengths
  <2>2. SubSeq(rx, pos + 1, pos + MAGIC_LEN) = g_cfg_magic_be
    BY <1>2 DEF MagicAt
  <2>3. /\ g_cfg_magic_be \in Seq(Byte) /\ Len(g_cfg_magic_be) = MAGIC_LEN
    BY CfgAssumption DEF MAGIC_LEN
  <2>4. \A i \in 1 .. MAGIC_LEN : g_cfg_magic_be[i] = rx[pos + i]
    <3>1. \A i \in pos + 1 .. pos + MAGIC_LEN : rx[i] \in Byte
      BY <1>1, <1>2, BytesOf, Lengths
    <3>2. \A i \in 1 .. pos + MAGIC_LEN - (pos + 1) + 1 :
             SubSeq(rx, pos + 1, pos + MAGIC_LEN)[i] = rx[pos + 1 + i - 1]
      BY <1>2, <3>1, Lengths, SubSeqProperties
    <3>3. /\ pos + MAGIC_LEN - (pos + 1) + 1 = MAGIC_LEN
          /\ \A i \in 1 .. MAGIC_LEN : pos + 1 + i - 1 = pos + i
      BY <1>2, Lengths
    <3> QED
      BY <2>2, <3>2, <3>3
  <2>5. /\ SubSeq(Keep(rx, k), 1, MAGIC_LEN) \in Seq(Byte)
        /\ Len(SubSeq(Keep(rx, k), 1, MAGIC_LEN)) = MAGIC_LEN
        /\ \A i \in 1 .. MAGIC_LEN : SubSeq(Keep(rx, k), 1, MAGIC_LEN)[i] = Keep(rx, k)[i]
    <3>1. Keep(rx, k) \in Seq(Byte) /\ MAGIC_LEN \in 0 .. Len(Keep(rx, k))
      BY <1>1, <2>1, KeepProperties
    <3> QED
      BY <3>1, FrontProperties
  <2>6. \A i \in 1 .. MAGIC_LEN : Keep(rx, k)[i] = rx[pos + i]
    <3> TAKE i \in 1 .. MAGIC_LEN
    <3>1. i \in 1 .. k /\ Len(rx) - k + i = pos + i
      BY <1>1, <1>2, <1>3, <2>1
    <3> QED
      BY <1>1, <3>1, KeepProperties
  <2>7. SubSeq(Keep(rx, k), 1, MAGIC_LEN) = g_cfg_magic_be
    BY <2>3, <2>4, <2>5, <2>6, SeqEqual
  <2> QED
    BY <2>1, <2>7 DEF MagicAt
<1> DEFINE at == Len(fed) - Len(data) - k
           n == PayloadLen(s)
           h == Frame(at, s)
<1>6. /\ FrameIn(s)
      /\ handled' = Append(handled, h)
      /\ rx' = tcp_cfg_consume_bytes(s, HEADER_LEN + n)
  BY <1>4 DEF ParseFrame, TotalLen
<1>7. /\ Genuine(h, fed) /\ Len(h.payload) = n /\ n <= TCP_CFG_MAX_PAYLOAD_LEN
      /\ h.at = at
  BY <1>3, <1>5, <1>6, FrontFrameGenuine DEF Frame
<1>8. n \in Nat /\ HEADER_LEN + n <= k
  BY <1>4, <1>6, HeaderRead, Lengths DEF FrameIn, TotalLen
<1>9. /\ at \in Nat /\ Taken <= at
      /\ k \in Nat /\ at + k = Len(fed) - Len(data)
  BY <1>1
<1>10. h \in [at : Nat, cmd : Byte, payload : Seq(Byte)]
  BY <1>4, <1>6, <1>9, FrameTyped
<1> HIDE DEF s, n, h, at
<1>11. Taken' = at + HEADER_LEN + n /\ Taken' >= Taken
  <2>1. CASE HEADER_LEN + n >= k
    <3>1. rx' = <<>> /\ HEADER_LEN + n = k
      BY <1>4, <1>6, <1>8, <2>1, Lengths DEF tcp_cfg_consume_bytes
    <3>2. Taken' = Len(fed) - Len(data)
      <4>1. Len(rx') = 0
        BY <3>1, EmptySeq
      <4> QED
        BY <1>1, <4>1 DEF Taken
    <3>3. at + HEADER_LEN + n = Len(fed) - Len(data)
      <4>1. at + HEADER_LEN + n = at + (HEADER_LEN + n)
        BY <1>8, <1>9, Lengths
      <4> QED
        BY <1>9, <3>1, <4>1
    <3>4. Taken' >= Taken
      BY <1>1, <3>2
    <3> QED
      BY <3>2, <3>3, <3>4
  <2>2. CASE ~ (HEADER_LEN + n >= k)
    <3>1. HEADER_LEN + n \in Nat /\ k - (HEADER_LEN + n) \in 0 .. Len(s)
      BY <1>4, <1>8, Lengths
    <3>2. rx' = Keep(s, k - (HEADER_LEN + n))
      BY <1>4, <1>6, <2>2, <3>1, ConsumeKeeps
    <3>3. Len(rx') = k - (HEADER_LEN + n)
      BY <1>4, <3>1, <3>2, KeepProperties
    <3>4. Taken' = Len(fed) - Len(data) - (k - (HEADER_LEN + n))
      BY <3>3 DEF Taken
    <3> QED
      BY <1>1, <1>8, <1>9, <3>4, Lengths
  <2> QED
    BY <2>1, <2>2
<1>12. /\ Len(handled) \in Nat
       /\ Len(handled') = Len(handled) + 1
       /\ \A i \in 1 .. Len(handled) : handled'[i] = handled[i]
       /\ handled'[Len(handled) + 1] = h
  BY <1>1, <1>6, <1>10, AppendProperties, LenProperties
<1>13. ASSUME NEW i \in 1 .. Len(handled')
       PROVE  /\ End(handled'[i]) <= Taken'
              /\ Genuine(handled'[i], fed')
              /\ Len(handled'[i].payload) <= TCP_CFG_MAX_PAYLOAD_LEN
              /\ i > 1 => End(handled'[i - 1]) <= handled'[i].at
  <2>1. CASE i \in 1 .. Len(handled)
    <3>1. i > 1 => i - 1 \in 1 .. Len(handled)
      BY <1>12, <2>1
    <3>2. /\ End(handled[i]) <= Taken' /\ Genuine(handled[i], fed')
          /\ Len(handled[i].payload) <= TCP_CFG_MAX_PAYLOAD_LEN
          /\ i > 1 => End(handled[i - 1]) <= handled[i].at
      BY <1>11, <2>1, OldFramesGenuine
    <3> QED
      BY <1>12, <2>1, <3>1, <3>2
  <2>2. CASE i = Len(handled) + 1
    <3>1. handled'[i] = h /\ (i > 1 => handled'[i - 1] = handled[i - 1])
      BY <1>12, <2>2
    <3>2. i > 1 => End(handled[i - 1]) <= Taken
      BY <1>12, <2>2 DEF FramesGenuine
    <3>3. i > 1 => End(handled[i - 1]) \in Nat
      <4>1. i > 1 => i - 1 \in 1 .. Len(handled)
        BY <1>12, <2>2
      <4>2. \A j \in 1 .. Len(handled) : handled[j] \in [at : Nat, cmd : Byte, payload : Seq(Byte)]
        BY <1>1, ElementOfSeq
      <4> QED
        BY <4>1, <4>2, BytesOf, Lengths DEF End
    <3>4. i > 1 => End(handled[i - 1]) <= h.at
      BY <1>1, <1>7, <1>9, <3>2, <3>3
    <3>5. End(h) <= Taken'
      BY <1>7, <1>8, <1>9, <1>11, Lengths DEF End
    <3> QED
      BY <1>7, <3>1, <3>4, <3>5
  <2> QED
    BY <1>12, <2>1, <2>2
<1> QED
  BY <1>13 DEF FramesGenuine

LEMMA GenuineStep ==
    ASSUME IInv, FramesGenuine, IInv', [AnyNext]_vars
    PROVE  FramesGenuine'
<1>1. /\ rx \in Seq(Byte) /\ Len(rx) \in Nat /\ fed \in Seq(Byte) /\ Len(fed) \in Nat
      /\ data \in Seq(Byte) /\ Len(data) \in Nat /\ Taken \in Nat
      /\ Taken = Len(fed) - Len(data) - Len(rx)
  BY BytesOf DEF IInv, TypeOK, BufferIsStream, Taken
<1>2. ASSUME UNCHANGED <<handled, fed, data, rx>>
      PROVE  FramesGenuine'
  <2>1. Taken' = Taken
    BY <1>2 DEF Taken
  <2> QED
    BY <1>1, <1>2, <2>1, FramesUnchanged
<1>3. CASE UNCHANGED vars
  BY <1>2, <1>3 DEF vars
<1>4. CASE Reconnect
  BY <1>2, <1>4 DEF Reconnect
<1>5. CASE FeedDone
  BY <1>2, <1>5 DEF FeedDone
<1>6. ASSUME NEW chunk \in Seq(Byte), tcp_client_recv_data(chunk)
      PROVE  FramesGenuine'
  <2>1. /\ data' \in Seq(Byte) /\ fed' = fed \o data' /\ data = <<>>
        /\ rx' = rx /\ handled' = handled
    BY <1>6 DEF IInv, TypeOK, tcp_client_recv_data
  <2>2. /\ Len(fed') = Len(fed) + Len(data') /\ Len(data') \in Nat /\ Len(data) = 0
        /\ \A i \in 1 .. Len(fed) + Len(data') :
              fed'[i] = IF i <= Len(fed) THEN fed[i] ELSE data'[i - Len(fed)]
    BY <1>1, <2>1, ConcatProperties, LenProperties, EmptySeq
  <2>3. \A i \in 1 .. Len(fed) : fed'[i] = fed[i]
    <3> TAKE i \in 1 .. Len(fed)
    <3>1. i \in 1 .. Len(fed) + Len(data') /\ i <= Len(fed)
      BY <1>1, <2>2
    <3> QED
      BY <2>2, <3>1
  <2>4. Taken' >= Taken
    BY <1>1, <2>1, <2>2 DEF Taken
  <2> QED
    BY <2>1, <2>3, <2>4, FramesUnchanged
<1>7. CASE FeedCopy
  <2>1. Len(rx) < HEADER_LEN + TCP_CFG_MAX_PAYLOAD_LEN
    BY <1>7 DEF IInv, NeverFull, FeedCopy
  <2>2. MakeRoom(rx) = rx
    BY <1>1, <2>1, Lengths DEF MakeRoom
  <2>3. CopyLen \in 0 .. Len(data)
    BY <1>1, <2>1, <2>2, Lengths DEF CopyLen, Room
  <2>4. /\ rx' = rx \o SubSeq(data, 1, CopyLen) /\ data' = Keep(data, Len(data) - CopyLen)
        /\ handled' = handled /\ fed' = fed
    BY <1>1, <1>7, <2>2, <2>3, DropIsKeep DEF FeedCopy
  <2>5. Len(rx') = Len(rx) + CopyLen
    BY <1>1, <2>3, <2>4, FrontProperties, ConcatProperties
  <2>6. Len(data') = Len(data) - CopyLen
    <3>1. Len(data) - CopyLen \in 0 .. Len(data)
      BY <1>1, <2>3
    <3> QED
      BY <1>1, <2>4, <3>1, KeepProperties
  <2>7. Taken' = Len(fed) - (Len(data) - CopyLen) - (Len(rx) + CopyLen)
    BY <2>4, <2>5, <2>6 DEF Taken
  <2>8. Taken' >= Taken
    BY <1>1, <2>3, <2>7
  <2> QED
    BY <2>4, <2>8, FramesUnchanged
<1>8. CASE tcp_cfg_try_parse_frames
  <2>1. UNCHANGED <<data, fed>> /\ Len(rx') \in Nat
    BY <1>8, BytesOf, LenProperties DEF tcp_cfg_try_parse_frames, IInv, TypeOK
  <2>2. ASSUME handled' = handled, Len(rx') <= Len(rx)
        PROVE  FramesGenuine'
    <3>1. Taken' = Len(fed) - Len(data) - Len(rx')
      BY <2>1 DEF Taken
    <3>2. Taken' >= Taken
      BY <1>1, <2>1, <2>2, <3>1
    <3> QED
      BY <2>1, <2>2, <3>2, FramesUnchanged
  <2>3. ASSUME NEW t \in Seq(Byte), NEW n \in Nat
        PROVE  /\ tcp_cfg_consume_bytes(t, n) \in Seq(Byte)
               /\ Len(tcp_cfg_consume_bytes(t, n)) <= Len(t)
    <3>1. PICK m \in 0 .. Len(t) : tcp_cfg_consume_bytes(t, n) = Keep(t, m)
      <4>1. (IF n >= Len(t) THEN 0 ELSE Len(t) - n) \in 0 .. Len(t)
        BY BytesOf
      <4> QED
        BY <4>1, ConsumeKeeps
    <3>2. Keep(t, m) \in Seq(Byte) /\ Len(Keep(t, m)) = m /\ Len(t) \in Nat
      BY BytesOf, KeepProperties
    <3> QED
      BY <3>1, <3>2
  <2>4. CASE ParseShort
    BY <1>1, <2>2, <2>4 DEF ParseShort
  <2>5. CASE ParseNoMagic
    <3>1. MAGIC_LEN - 1 \in 0 .. Len(rx)
      BY <1>1, <2>5, Lengths DEF ParseNoMagic, HeaderIn
    <3>2. Len(rx') <= Len(rx)
      BY <1>1, <2>5, <3>1, KeepProperties DEF ParseNoMagic
    <3> QED
      BY <2>2, <2>5, <3>2 DEF ParseNoMagic
  <2>6. CASE ParseMagic
    <3>1. PICK pos \in tcp_cfg_find_magic(rx) :
             LET s == tcp_cfg_consume_bytes(rx, pos) IN
             ParseHalf(s) \/ ParseTooLarge(s) \/ ParseFrame(s)
      BY <2>6 DEF ParseMagic
    <3> DEFINE s == tcp_cfg_consume_bytes(rx, pos)
    <3>2. pos \in Nat /\ HeaderIn(rx)
      BY <1>1, <2>6, Lengths DEF tcp_cfg_find_magic, Magics, ParseMagic
    <3>3. s \in Seq(Byte) /\ Len(s) <= Len(rx) /\ Len(s) \in Nat
      BY <1>1, <2>3, <3>2, LenProperties
    <3>4. CASE ParseHalf(s)
      BY <2>2, <3>3, <3>4 DEF ParseHalf
    <3>5. CASE ParseTooLarge(s)
      <4>1. rx' = tcp_cfg_consume_bytes(s, 1) /\ handled' = handled
        BY <3>5 DEF ParseTooLarge
      <4>2. Len(rx') <= Len(s)
        BY <2>3, <3>3, <4>1
      <4> QED
        BY <1>1, <2>1, <2>2, <3>3, <4>1, <4>2
    <3>6. CASE ParseFrame(s)
      BY <2>1, <3>2, <3>6, FrameHandled
    <3> QED
      BY <3>1, <3>4, <3>5, <3>6
  <2> QED
    BY <1>8, <2>4, <2>5, <2>6 DEF tcp_cfg_try_parse_frames
<1> QED
  BY <1>3, <1>4, <1>5, <1>6, <1>7, <1>8 DEF AnyNext, Parser, tcp_cfg_feed_bytes

\* No byte of the stream is part of two frames, and nothing is handled that the
\* stream does not hold, whatever the PC sends and however TCP cuts it.
THEOREM OnlyGenuineFrames == Spec => []FramesGenuine
<1>1. Init => FramesGenuine
  <2> SUFFICES ASSUME Init
               PROVE  FramesGenuine
    OBVIOUS
  <2>1. handled = <<>> /\ Len(<<>>) = 0
    BY EmptySeq DEF Init
  <2> QED
    BY <2>1 DEF FramesGenuine
<1>2. IInv /\ FramesGenuine /\ IInv' /\ [Next]_vars => FramesGenuine'
  BY GenuineStep, NextIsAny
<1> QED
  BY <1>1, <1>2, IInvAlways, PTL DEF Spec
-----------------------------------------------------------------------------
\* Every non-empty set of naturals has a least element.
LEMMA NatMin ==
    ASSUME NEW T \in SUBSET Nat, T # {}
    PROVE  \E x \in T : \A y \in T : x <= y
<1>1. IsWellFoundedOn({p \in Nat \X Nat : p[1] < p[2]}, Nat)
  BY NatLessThanWellFounded DEF OpToRel
<1>2. PICK x \in T : \A y \in T : ~ (<<y, x>> \in {p \in Nat \X Nat : p[1] < p[2]})
  BY <1>1, WFMin
<1>3. \A y \in T : ~ (y < x)
  BY <1>2
<1> QED
  BY <1>3

\* Induction from the end of a sequence to its start.
LEMMA Downward ==
    ASSUME NEW n \in Nat, NEW S \in SUBSET (0 .. n),
           \A i \in 0 .. n : (\A j \in i + 1 .. n : j \in S) => i \in S
    PROVE  \A i \in 0 .. n : i \in S
<1> DEFINE T == {k \in 0 .. n : n - k \notin S}
<1>1. SUFFICES ASSUME T # {}
               PROVE  FALSE
  <2>1. ASSUME T = {}, NEW i \in 0 .. n
        PROVE  i \in S
    <3>1. n - i \in 0 .. n /\ n - (n - i) = i
      OBVIOUS
    <3> QED
      BY <2>1, <3>1
  <2> QED
    BY <2>1
<1>2. PICK k \in T : \A l \in T : k <= l
  <2>1. T \in SUBSET Nat
    OBVIOUS
  <2> QED
    BY <1>1, <2>1, NatMin
<1>3. k \in 0 .. n /\ n - k \in 0 .. n /\ n - k \notin S
  OBVIOUS
<1>4. ASSUME NEW j \in (n - k) + 1 .. n
      PROVE  j \in S
  <2>1. n - j \in 0 .. n /\ n - j < k /\ n - (n - j) = j
    BY <1>3
  <2>2. n - j \notin T
    BY <1>2, <1>3, <2>1
  <2> QED
    BY <2>1, <2>2
<1> QED
  BY <1>3, <1>4

Handled == [at : Nat, cmd : Byte, payload : Seq(Byte)]

\* What is left of a sequence without its first n elements.
LEMMA DropProperties ==
    ASSUME NEW s \in Seq(Byte), NEW n \in 0 .. Len(s)
    PROVE  /\ Drop(s, n) \in Seq(Byte)
           /\ Len(Drop(s, n)) = Len(s) - n
           /\ \A i \in 1 .. Len(s) - n : Drop(s, n)[i] = s[n + i]
<1>1. Len(s) \in Nat /\ Len(s) - n \in 0 .. Len(s)
  BY BytesOf
<1>2. /\ Keep(s, Len(s) - n) \in Seq(Byte)
      /\ Len(Keep(s, Len(s) - n)) = Len(s) - n
      /\ \A i \in 1 .. Len(s) - n : Keep(s, Len(s) - n)[i] = s[Len(s) - (Len(s) - n) + i]
  BY <1>1, KeepProperties
<1>3. \A i \in 1 .. Len(s) - n : Len(s) - (Len(s) - n) + i = n + i
  BY <1>1
<1> QED
  BY <1>2, <1>3, DropIsKeep

\* The first start is a start, and there is none before it.
LEMMA FirstIsLeast ==
    ASSUME NEW T \in SUBSET Nat, T # {}
    PROVE  /\ First(T) \in T
           /\ \A i \in T : First(T) <= i
<1>1. \E i \in T : \A j \in T : i <= j
  BY NatMin
<1> QED
  BY <1>1 DEF First

\* Where a frame starts the whole header lies in the stream, and parsing goes on
\* further down the stream.
LEMMA StartProperties ==
    ASSUME NEW s \in Seq(Byte), NEW from \in Nat, Starts(s, from) # {}
    PROVE  LET at == First(Starts(s, from))
               rest == Drop(s, at)
           IN  /\ at \in from .. Len(s) - HEADER_LEN /\ MagicAt(s, at)
               /\ rest \in Seq(Byte) /\ HeaderIn(rest)
               /\ at + 1 \in from + 1 .. Len(s)
               /\ FrameIn(rest) => at + TotalLen(rest) \in from + 1 .. Len(s)
<1>1. Len(s) \in Nat
  BY BytesOf
<1>2. PICK at \in Nat : /\ at = First(Starts(s, from))
                        /\ at \in from .. Len(s) - HEADER_LEN /\ MagicAt(s, at)
  <2>1. Starts(s, from) \in SUBSET Nat
    BY <1>1, Lengths DEF Starts
  <2>2. First(Starts(s, from)) \in Starts(s, from)
    BY <2>1, FirstIsLeast
  <2> QED
    BY <2>1, <2>2 DEF Starts
<1> DEFINE rest == Drop(s, at)
<1>3. rest \in Seq(Byte) /\ Len(rest) = Len(s) - at
  <2>1. at \in 0 .. Len(s)
    BY <1>1, <1>2, Lengths
  <2> QED
    BY <2>1, DropProperties
<1> HIDE DEF rest
<1>4. HeaderIn(rest)
  BY <1>1, <1>2, <1>3, Lengths DEF HeaderIn
<1>5. at + 1 \in from + 1 .. Len(s)
  BY <1>1, <1>2, Lengths
<1>6. ASSUME FrameIn(rest)
      PROVE  at + TotalLen(rest) \in from + 1 .. Len(s)
  <2>1. PayloadLen(rest) \in Nat
    BY <1>3, <1>4, HeaderRead
  <2> QED
    BY <1>1, <1>2, <1>3, <1>6, <2>1, Lengths DEF FrameIn, TotalLen
<1> QED
  BY <1>2, <1>3, <1>4, <1>5, <1>6 DEF rest

\* What is parsed from one place depends on later places only.
LEMMA ParsedFromLater ==
    ASSUME NEW s \in Seq(Byte), NEW from \in Nat, NEW f, NEW g,
           \A j \in from + 1 .. Len(s) : f[j] = g[j]
    PROVE  Parsed(s, from, f) = Parsed(s, from, g)
  BY StartProperties DEF Parsed

\* What is parsed is a sequence of frames if that is so further down.
LEMMA ParsedTyped ==
    ASSUME NEW s \in Seq(Byte), NEW from \in Nat, NEW f,
           \A j \in from + 1 .. Len(s) : f[j] \in Seq(Handled)
    PROVE  Parsed(s, from, f) \in Seq(Handled)
<1>1. CASE Starts(s, from) = {}
  BY <1>1, EmptySeq DEF Parsed
<1>2. CASE Starts(s, from) # {}
  <2> DEFINE at == First(Starts(s, from))
             rest == Drop(s, at)
  <2>1. /\ at \in from .. Len(s) - HEADER_LEN /\ rest \in Seq(Byte)
        /\ at + 1 \in from + 1 .. Len(s)
        /\ FrameIn(rest) => at + TotalLen(rest) \in from + 1 .. Len(s)
    BY <1>2, StartProperties
  <2>2. Parsed(s, from, f) =
            IF TooLarge(rest) THEN f[at + 1]
            ELSE IF FrameIn(rest) THEN <<Frame(at, rest)>> \o f[at + TotalLen(rest)]
            ELSE <<>>
    BY <1>2 DEF Parsed
  <2>3. at \in Nat
    BY <2>1
  <2> HIDE DEF at, rest
  <2>4. FrameIn(rest) => <<Frame(at, rest)>> \in Seq(Handled)
    BY <2>1, <2>3, FrameTyped DEF Handled
  <2>5. FrameIn(rest) => <<Frame(at, rest)>> \o f[at + TotalLen(rest)] \in Seq(Handled)
    BY <2>1, <2>4, ConcatProperties
  <2>6. <<>> \in Seq(Handled)
    BY EmptySeq
  <2> QED
    BY <2>1, <2>2, <2>5, <2>6
<1> QED
  BY <1>1, <1>2

\* The recursion of FramesFrom is well founded: what is parsed from a place on is
\* what Parsed makes of what is parsed further down.
LEMMA Recursion ==
    ASSUME NEW s \in Seq(Byte), NEW i \in 0 .. Len(s)
    PROVE  /\ FramesFrom(s)[i] = Parsed(s, i, FramesFrom(s))
           /\ FramesFrom(s)[i] \in Seq(Handled)
<1> DEFINE n == Len(s)
           Solves(g, from) == \A j \in from .. n : g[j] = Parsed(s, j, g)
           S == {from \in 0 .. n : \E g : g = [j \in 0 .. n |-> g[j]] /\ Solves(g, from)}
           F == FramesFrom(s)
<1>1. n \in Nat
  BY BytesOf
<1>2. ASSUME NEW from \in 0 .. n, \A j \in from + 1 .. n : j \in S
      PROVE  from \in S
  <2>1. \E g : g = [j \in 0 .. n |-> g[j]] /\ Solves(g, from + 1)
    <3>1. CASE from = n
      <4> DEFINE g == [j \in 0 .. n |-> 0]
      <4>1. g = [j \in 0 .. n |-> g[j]]
        OBVIOUS
      <4>2. Solves(g, from + 1)
        BY <1>1, <3>1
      <4> QED
        BY <4>1, <4>2
    <3>2. CASE from # n
      <4>1. from + 1 \in from + 1 .. n
        BY <1>1, <3>2
      <4> QED
        BY <1>2, <4>1
    <3> QED
      BY <3>1, <3>2
  <2>2. PICK g : g = [j \in 0 .. n |-> g[j]] /\ Solves(g, from + 1)
    BY <2>1
  <2> DEFINE h == [j \in 0 .. n |-> IF j = from THEN Parsed(s, from, g) ELSE g[j]]
  <2>3. h = [j \in 0 .. n |-> h[j]]
    OBVIOUS
  <2>4. \A j \in from + 1 .. n : j \in 0 .. n /\ h[j] = g[j]
    BY <1>1
  <2>5. h[from] = Parsed(s, from, g)
    OBVIOUS
  <2> HIDE DEF h
  <2>6. ASSUME NEW j \in from .. n
        PROVE  h[j] = Parsed(s, j, h)
    <3>1. j \in Nat /\ \A k \in j + 1 .. n : k \in from + 1 .. n
      BY <1>1
    <3>2. Parsed(s, j, h) = Parsed(s, j, g)
      BY <2>4, <3>1, ParsedFromLater
    <3>3. CASE j = from
      BY <2>5, <3>2, <3>3
    <3>4. CASE j # from
      <4>1. j \in from + 1 .. n
        BY <1>1, <3>4
      <4> QED
        BY <2>2, <2>4, <3>2, <4>1
    <3> QED
      BY <3>3, <3>4
  <2> QED
    BY <2>3, <2>6
<1>3. 0 \in S
  <2>1. S \in SUBSET (0 .. n)
    OBVIOUS
  <2> HIDE DEF S
  <2>2. \A j \in 0 .. n : j \in S
    BY <1>1, <1>2, <2>1, Downward
  <2> QED
    BY <1>1, <2>2
<1>4. \E g : g = [j \in 0 .. n |-> Parsed(s, j, g)]
  <2>1. PICK g : g = [j \in 0 .. n |-> g[j]] /\ Solves(g, 0)
    BY <1>3
  <2>2. [j \in 0 .. n |-> g[j]] = [j \in 0 .. n |-> Parsed(s, j, g)]
    BY <2>1
  <2> QED
    BY <2>1, <2>2
<1>5. F = [j \in 0 .. n |-> Parsed(s, j, F)]
  <2> DEFINE G == CHOOSE g : g = [j \in 0 .. Len(s) |-> Parsed(s, j, g)]
  <2>1. F = G
    BY DEF FramesFrom
  <2>2. G = [j \in 0 .. Len(s) |-> Parsed(s, j, G)]
    BY <1>4
  <2> QED
    BY <2>1, <2>2
<1> HIDE DEF F
<1>6. \A j \in 0 .. n : F[j] = Parsed(s, j, F)
  BY <1>5
<1> DEFINE Typed == {j \in 0 .. n : F[j] \in Seq(Handled)}
<1>7. ASSUME NEW from \in 0 .. n, \A j \in from + 1 .. n : j \in Typed
      PROVE  from \in Typed
  <2>1. \A j \in from + 1 .. n : F[j] \in Seq(Handled)
    BY <1>7
  <2>2. Parsed(s, from, F) \in Seq(Handled)
    BY <1>7, <2>1, ParsedTyped
  <2> QED
    BY <1>6, <2>2
<1>8. \A j \in 0 .. n : j \in Typed
  <2>1. Typed \in SUBSET (0 .. n)
    OBVIOUS
  <2> HIDE DEF Typed
  <2> QED
    BY <1>1, <1>7, <2>1, Downward
<1> QED
  BY <1>6, <1>8 DEF F
-----------------------------------------------------------------------------
\* b is what s holds from a place on, as far as b reaches.
Window(b, s, at) ==
    /\ at + Len(b) <= Len(s)
    /\ \A i \in 1 .. Len(b) : b[i] = s[at + i]

\* The magic is found in the buffer where it is in the stream.
LEMMA MagicInWindow ==
    ASSUME NEW b \in Seq(Byte), NEW s \in Seq(Byte), NEW at \in Nat, Window(b, s, at),
           NEW i \in 0 .. Len(b) - MAGIC_LEN
    PROVE  MagicAt(b, i) <=> MagicAt(s, at + i)
<1>1. Len(b) \in Nat /\ Len(s) \in Nat /\ i \in Nat
  BY BytesOf
<1> DEFINE x == SubSeq(b, i + 1, i + MAGIC_LEN)
           y == SubSeq(s, at + i + 1, at + i + MAGIC_LEN)
<1>2. /\ x \in Seq(Byte) /\ Len(x) = MAGIC_LEN
      /\ \A k \in 1 .. MAGIC_LEN : x[k] = b[i + k]
  <2>1. \A k \in i + 1 .. i + MAGIC_LEN : b[k] \in Byte
    BY <1>1, BytesOf, Lengths
  <2>2. /\ x \in Seq(Byte)
        /\ Len(x) = IF i + 1 <= i + MAGIC_LEN THEN i + MAGIC_LEN - (i + 1) + 1 ELSE 0
        /\ \A k \in 1 .. i + MAGIC_LEN - (i + 1) + 1 : x[k] = b[i + 1 + k - 1]
    BY <1>1, <2>1, Lengths, SubSeqProperties
  <2>3. /\ i + 1 <= i + MAGIC_LEN /\ i + MAGIC_LEN - (i + 1) + 1 = MAGIC_LEN
        /\ \A k \in 1 .. MAGIC_LEN : i + 1 + k - 1 = i + k
    BY <1>1, Lengths
  <2> HIDE DEF x
  <2> QED
    BY <2>2, <2>3
<1>3. PICK j \in Nat : j = at + i /\ j + MAGIC_LEN <= Len(s)
  BY <1>1, Lengths DEF Window
<1>4. /\ y \in Seq(Byte) /\ Len(y) = MAGIC_LEN
      /\ \A k \in 1 .. MAGIC_LEN : y[k] = s[at + i + k]
  <2> DEFINE z == SubSeq(s, j + 1, j + MAGIC_LEN)
  <2>1. \A k \in j + 1 .. j + MAGIC_LEN : s[k] \in Byte
    BY <1>1, <1>3, BytesOf, Lengths
  <2>2. /\ z \in Seq(Byte)
        /\ Len(z) = IF j + 1 <= j + MAGIC_LEN THEN j + MAGIC_LEN - (j + 1) + 1 ELSE 0
        /\ \A k \in 1 .. j + MAGIC_LEN - (j + 1) + 1 : z[k] = s[j + 1 + k - 1]
    BY <1>3, <2>1, Lengths, SubSeqProperties
  <2>3. /\ j + 1 <= j + MAGIC_LEN /\ j + MAGIC_LEN - (j + 1) + 1 = MAGIC_LEN
        /\ \A k \in 1 .. MAGIC_LEN : j + 1 + k - 1 = j + k
    BY <1>3, Lengths
  <2>4. y = z
    BY <1>3
  <2> HIDE DEF z, y
  <2> QED
    BY <1>3, <2>2, <2>3, <2>4
<1>5. \A k \in 1 .. MAGIC_LEN : b[i + k] = s[at + i + k]
  <2> TAKE k \in 1 .. MAGIC_LEN
  <2>1. i + k \in 1 .. Len(b) /\ at + (i + k) = at + i + k
    BY <1>1, Lengths
  <2> QED
    BY <2>1 DEF Window
<1>6. x = y
  BY <1>2, <1>4, <1>5, SeqEqual
<1> QED
  BY <1>6 DEF MagicAt

\* A header in the buffer says what it says in the stream.
LEMMA HeaderInWindow ==
    ASSUME NEW b \in Seq(Byte), NEW s \in Seq(Byte), NEW at \in Nat, Window(b, s, at),
           HeaderIn(b)
    PROVE  LET rest == Drop(s, at) IN
           /\ rest \in Seq(Byte) /\ Len(rest) = Len(s) - at /\ Len(b) <= Len(rest)
           /\ \A i \in 1 .. Len(b) : rest[i] = b[i]
           /\ Cmd(rest) = Cmd(b) /\ PayloadLen(rest) = PayloadLen(b)
           /\ TooLarge(rest) = TooLarge(b) /\ TotalLen(rest) = TotalLen(b)
<1> DEFINE rest == Drop(s, at)
<1>1. Len(b) \in Nat /\ Len(s) \in Nat /\ at \in 0 .. Len(s) /\ Len(b) >= HEADER_LEN
  BY BytesOf DEF Window, HeaderIn
<1>2. /\ rest \in Seq(Byte) /\ Len(rest) = Len(s) - at
      /\ \A i \in 1 .. Len(s) - at : rest[i] = s[at + i]
  BY <1>1, DropProperties
<1> HIDE DEF rest
<1>3. Len(b) <= Len(rest)
  BY <1>1, <1>2 DEF Window
<1>4. \A i \in 1 .. Len(b) : rest[i] = b[i]
  BY <1>1, <1>2, <1>3 DEF Window
<1>5. MAGIC_LEN + 1 \in 1 .. Len(b) /\ MAGIC_LEN + 2 \in 1 .. Len(b)
  BY <1>1, Lengths
<1>6. Cmd(rest) = Cmd(b) /\ PayloadLen(rest) = PayloadLen(b)
  BY <1>4, <1>5 DEF Cmd, PayloadLen
<1>7. TooLarge(rest) = TooLarge(b) /\ TotalLen(rest) = TotalLen(b)
  BY <1>6 DEF TooLarge, TotalLen
<1> QED
  BY <1>2, <1>3, <1>4, <1>6, <1>7 DEF rest

\* A frame in the buffer is that frame of the stream.
LEMMA FrameInWindow ==
    ASSUME NEW b \in Seq(Byte), NEW s \in Seq(Byte), NEW at \in Nat, Window(b, s, at),
           FrameIn(b)
    PROVE  FrameIn(Drop(s, at)) /\ Frame(at, Drop(s, at)) = Frame(at, b)
<1> DEFINE rest == Drop(s, at)
           n == PayloadLen(b)
<1>1. HeaderIn(b) /\ ~TooLarge(b) /\ Len(b) >= TotalLen(b)
  BY DEF FrameIn
<1>2. /\ rest \in Seq(Byte) /\ Len(b) <= Len(rest)
      /\ \A i \in 1 .. Len(b) : rest[i] = b[i]
      /\ Cmd(rest) = Cmd(b) /\ PayloadLen(rest) = n
      /\ TooLarge(rest) = TooLarge(b) /\ TotalLen(rest) = TotalLen(b)
  BY <1>1, HeaderInWindow
<1>3. /\ Len(b) \in Nat /\ Len(rest) \in Nat /\ n \in Nat
      /\ Len(b) >= HEADER_LEN /\ Len(b) >= HEADER_LEN + n
  BY <1>1, <1>2, BytesOf, HeaderRead DEF HeaderIn, TotalLen
<1> HIDE DEF rest, n
<1>4. HeaderIn(rest) /\ Len(rest) >= TotalLen(rest)
  BY <1>2, <1>3, Lengths DEF HeaderIn, TotalLen, n
<1>5. SubSeq(rest, HEADER_LEN + 1, HEADER_LEN + n) = SubSeq(b, HEADER_LEN + 1, HEADER_LEN + n)
  <2> DEFINE x == SubSeq(rest, HEADER_LEN + 1, HEADER_LEN + n)
             y == SubSeq(b, HEADER_LEN + 1, HEADER_LEN + n)
  <2>1. ASSUME NEW t \in Seq(Byte), HEADER_LEN + n <= Len(t)
        PROVE  /\ SubSeq(t, HEADER_LEN + 1, HEADER_LEN + n) \in Seq(Byte)
               /\ Len(SubSeq(t, HEADER_LEN + 1, HEADER_LEN + n)) = n
               /\ \A k \in 1 .. n :
                     SubSeq(t, HEADER_LEN + 1, HEADER_LEN + n)[k] = t[HEADER_LEN + k]
    <3>1. \A k \in HEADER_LEN + 1 .. HEADER_LEN + n : t[k] \in Byte
      BY <1>3, <2>1, BytesOf, Lengths
    <3> DEFINE u == SubSeq(t, HEADER_LEN + 1, HEADER_LEN + n)
    <3>2. /\ u \in Seq(Byte)
          /\ Len(u) = IF HEADER_LEN + 1 <= HEADER_LEN + n
                      THEN HEADER_LEN + n - (HEADER_LEN + 1) + 1 ELSE 0
          /\ \A k \in 1 .. HEADER_LEN + n - (HEADER_LEN + 1) + 1 :
                u[k] = t[HEADER_LEN + 1 + k - 1]
      BY <1>3, <3>1, Lengths, SubSeqProperties
    <3>3. /\ HEADER_LEN + n - (HEADER_LEN + 1) + 1 = n
          /\ ~ (HEADER_LEN + 1 <= HEADER_LEN + n) => n = 0
          /\ \A k \in 1 .. n : HEADER_LEN + 1 + k - 1 = HEADER_LEN + k
      BY <1>3, Lengths
    <3> HIDE DEF u
    <3>4. u \in Seq(Byte) /\ Len(u) = n /\ \A k \in 1 .. n : u[k] = t[HEADER_LEN + k]
      BY <3>2, <3>3
    <3> QED
      BY <3>4 DEF u
  <2>2. /\ x \in Seq(Byte) /\ Len(x) = n /\ \A k \in 1 .. n : x[k] = rest[HEADER_LEN + k]
    <3>1. HEADER_LEN + n <= Len(rest)
      BY <1>2, <1>3, Lengths
    <3> QED
      BY <1>2, <2>1, <3>1
  <2>3. /\ y \in Seq(Byte) /\ Len(y) = n /\ \A k \in 1 .. n : y[k] = b[HEADER_LEN + k]
    <3>1. HEADER_LEN + n <= Len(b)
      BY <1>3, Lengths
    <3> QED
      BY <2>1, <3>1
  <2> HIDE DEF x, y
  <2>4. \A k \in 1 .. n : x[k] = y[k]
    <3> TAKE k \in 1 .. n
    <3>1. HEADER_LEN + k \in 1 .. Len(b)
      BY <1>3, Lengths
    <3> QED
      BY <1>2, <2>2, <2>3, <3>1
  <2>5. x = y
    BY <2>2, <2>3, <2>4, SeqEqual
  <2> QED
    BY <2>5 DEF x, y
<1>6. FrameIn(rest)
  BY <1>1, <1>2, <1>4 DEF FrameIn
<1>7. Frame(at, rest) = Frame(at, b)
  BY <1>2, <1>5 DEF Frame, n
<1> QED
  BY <1>6, <1>7 DEF rest
-----------------------------------------------------------------------------
\* Bytes before the next magic are skipped.
LEMMA SkipNoMagic ==
    ASSUME NEW s \in Seq(Byte), NEW i \in Nat, NEW j \in i .. Len(s),
           \A k \in i .. j - 1 : ~ MagicAt(s, k)
    PROVE  FramesFrom(s)[i] = FramesFrom(s)[j]
<1>1. Len(s) \in Nat /\ i \in 0 .. Len(s) /\ j \in 0 .. Len(s)
  BY BytesOf
<1>2. Starts(s, i) = Starts(s, j)
  BY <1>1, Lengths DEF Starts
<1>3. Parsed(s, i, FramesFrom(s)) = Parsed(s, j, FramesFrom(s))
  BY <1>2 DEF Parsed
<1> QED
  BY <1>1, <1>3, Recursion

\* Where a magic with a whole header is, parsing goes on with that header.
LEMMA AtMagic ==
    ASSUME NEW s \in Seq(Byte), NEW at \in Nat, at + HEADER_LEN <= Len(s), MagicAt(s, at)
    PROVE  LET rest == Drop(s, at) IN
           FramesFrom(s)[at] =
               IF TooLarge(rest) THEN FramesFrom(s)[at + 1]
               ELSE IF FrameIn(rest)
                    THEN <<Frame(at, rest)>> \o FramesFrom(s)[at + TotalLen(rest)]
               ELSE <<>>
<1>1. Len(s) \in Nat /\ at \in 0 .. Len(s)
  BY BytesOf, Lengths
<1>2. at \in Starts(s, at) /\ \A i \in Starts(s, at) : at <= i
  BY <1>1, Lengths DEF Starts
<1>3. First(Starts(s, at)) = at
  <2>1. Starts(s, at) \in SUBSET Nat /\ Starts(s, at) # {}
    BY <1>1, <1>2, Lengths DEF Starts
  <2> DEFINE x == First(Starts(s, at))
  <2>2. x \in Nat /\ x <= at /\ at <= x
    <3>1. x \in Starts(s, at) /\ \A i \in Starts(s, at) : x <= i
      BY <2>1, FirstIsLeast
    <3> QED
      BY <1>2, <2>1, <3>1
  <2> HIDE DEF x
  <2>3. x = at
    BY <2>2
  <2> QED
    BY <2>3 DEF x
<1>4. FramesFrom(s)[at] = Parsed(s, at, FramesFrom(s))
  BY <1>1, Recursion
<1> QED
  BY <1>2, <1>3, <1>4 DEF Parsed
-----------------------------------------------------------------------------
\* How much of the stream has reached the buffer so far.
Copied == Len(fed) - Len(data)

\* Whatever stream starts with what has reached the buffer: the frames handled
\* and those still to be found from the buffer on are the frames of that stream.
HandledSoFar ==
    \A s \in Seq(Byte) :
        Copied <= Len(s) /\ (\A i \in 1 .. Copied : s[i] = fed[i])
            => handled \o FramesFrom(s)[Taken] = Frames(s)

\* When the parser waits, no frame can be found in what it has.
Waiting ==
    pc # "parse" => \/ ~HeaderIn(rx)
                    \/ MagicAt(rx, 0) /\ ~TooLarge(rx) /\ Len(rx) < TotalLen(rx)

\* The buffer's numbers, as naturals.
LEMMA BufferNumbers ==
    ASSUME IInv
    PROVE  /\ rx \in Seq(Byte) /\ data \in Seq(Byte) /\ fed \in Seq(Byte)
           /\ handled \in Seq(Handled)
           /\ Len(rx) \in Nat /\ Len(data) \in Nat /\ Len(fed) \in Nat
           /\ Taken \in Nat /\ Copied \in Nat /\ Taken + Len(rx) = Copied
           /\ Copied <= Len(fed)
           /\ \A i \in 1 .. Len(rx) : rx[i] = fed[Taken + i]
<1>1. /\ rx \in Seq(Byte) /\ data \in Seq(Byte) /\ fed \in Seq(Byte)
      /\ handled \in Seq(Handled)
      /\ Len(rx) \in Nat /\ Len(data) \in Nat /\ Len(fed) \in Nat
  BY BytesOf DEF IInv, TypeOK, Handled
<1>2. Taken >= 0 /\ \A i \in 1 .. Len(rx) : rx[i] = fed[Taken + i]
  BY DEF IInv, BufferIsStream
<1> QED
  BY <1>1, <1>2 DEF Taken, Copied

\* The buffer is a window on every stream that starts with what was copied.
LEMMA BufferIsWindow ==
    ASSUME IInv, NEW s \in Seq(Byte), Copied <= Len(s), \A i \in 1 .. Copied : s[i] = fed[i]
    PROVE  Window(rx, s, Taken)
<1>1. /\ Len(rx) \in Nat /\ Taken \in Nat /\ Copied \in Nat /\ Taken + Len(rx) = Copied
      /\ \A i \in 1 .. Len(rx) : rx[i] = fed[Taken + i]
  BY BufferNumbers
<1>2. ASSUME NEW i \in 1 .. Len(rx)
      PROVE  rx[i] = s[Taken + i]
  <2>1. Taken + i \in 1 .. Copied
    BY <1>1
  <2> QED
    BY <1>1, <2>1
<1> QED
  BY <1>1, <1>2 DEF Window

\* A turn of the parser leaves handled frames and frames to come the same taken
\* together.
LEMMA ParseHandles ==
    ASSUME IInv, tcp_cfg_try_parse_frames,
           NEW s \in Seq(Byte), Copied <= Len(s), \A i \in 1 .. Copied : s[i] = fed[i]
    PROVE  handled' \o FramesFrom(s)[Taken'] = handled \o FramesFrom(s)[Taken]
<1> DEFINE F == FramesFrom(s)
<1>1. PICK t \in Nat, c \in Nat :
          /\ t = Taken /\ c = Copied /\ t + Len(rx) = c
          /\ rx \in Seq(Byte) /\ Len(rx) \in Nat /\ handled \in Seq(Handled)
          /\ c <= Len(s) /\ Len(s) \in Nat
  BY BufferNumbers, BytesOf
<1>2. Window(rx, s, t)
  BY <1>1, BufferIsWindow
<1>3. ASSUME NEW m \in Nat, Len(rx') = m
      PROVE  Taken' = c - m
  <2>1. Taken' = Len(fed) - Len(data) - m
    BY <1>3 DEF tcp_cfg_try_parse_frames, Taken
  <2> QED
    BY <1>1, <2>1 DEF Copied
<1>4. CASE ParseShort
  <2>1. Len(rx') = Len(rx) /\ handled' = handled
    BY <1>4 DEF ParseShort
  <2>2. Taken' = t
    BY <1>1, <1>3, <2>1
  <2> QED
    BY <1>1, <2>1, <2>2
<1>5. CASE ParseNoMagic
  <2>1. /\ HeaderIn(rx) /\ tcp_cfg_find_magic(rx) = {} /\ handled' = handled
        /\ rx' = Keep(rx, MAGIC_LEN - 1)
    BY <1>5 DEF ParseNoMagic
  <2>2. Len(rx) >= HEADER_LEN /\ MAGIC_LEN - 1 \in 0 .. Len(rx) /\ MAGIC_LEN - 1 \in Nat
    BY <1>1, <2>1, Lengths DEF HeaderIn
  <2>3. Taken' = c - (MAGIC_LEN - 1)
    BY <1>1, <1>3, <2>1, <2>2, KeepProperties
  <2>4. Magics(rx) = {}
    <3>1. Magics(rx) \in SUBSET Nat
      BY <1>1, Lengths DEF Magics
    <3> QED
      BY <2>1, <3>1, NatMin DEF tcp_cfg_find_magic
  <2>5. PICK j \in Nat : j = c - (MAGIC_LEN - 1) /\ j \in t .. Len(s)
    BY <1>1, <2>2, Lengths
  <2>6. ASSUME NEW k \in t .. j - 1
        PROVE  ~ MagicAt(s, k)
    <3>1. k - t \in 0 .. Len(rx) - MAGIC_LEN /\ t + (k - t) = k
      BY <1>1, <2>5, Lengths
    <3>2. ~ MagicAt(rx, k - t)
      BY <2>4, <3>1 DEF Magics
    <3>3. MagicAt(rx, k - t) <=> MagicAt(s, t + (k - t))
      BY <1>1, <1>2, <3>1, MagicInWindow
    <3> QED
      BY <3>1, <3>2, <3>3
  <2>7. F[t] = F[j]
    BY <2>5, <2>6, SkipNoMagic
  <2> QED
    BY <1>1, <2>1, <2>3, <2>5, <2>7
<1>6. CASE ParseMagic
  <2>1. PICK pos \in tcp_cfg_find_magic(rx) :
           LET b == tcp_cfg_consume_bytes(rx, pos) IN
           ParseHalf(b) \/ ParseTooLarge(b) \/ ParseFrame(b)
    BY <1>6 DEF ParseMagic
  <2> DEFINE b == tcp_cfg_consume_bytes(rx, pos)
  <2>2. HeaderIn(rx) /\ Len(rx) >= HEADER_LEN
    BY <1>6 DEF ParseMagic, HeaderIn
  <2>3. /\ pos \in 0 .. Len(rx) - MAGIC_LEN /\ MagicAt(rx, pos)
        /\ \A k \in 0 .. Len(rx) - MAGIC_LEN : MagicAt(rx, k) => pos <= k
    BY DEF tcp_cfg_find_magic, Magics
  <2>4. PICK at \in Nat, n \in Nat :
            /\ at = t + pos /\ n = Len(rx) - pos /\ at + n = c
            /\ n \in 0 .. Len(rx) /\ n >= MAGIC_LEN /\ ~ (pos >= Len(rx)) /\ pos \in Nat
    BY <1>1, <2>3, Lengths
  <2>5. /\ b = Keep(rx, n) /\ b \in Seq(Byte) /\ Len(b) = n
        /\ \A i \in 1 .. n : b[i] = rx[pos + i]
    <3>1. b = Keep(rx, n)
      BY <1>1, <2>4, ConsumeKeeps
    <3>2. /\ Keep(rx, n) \in Seq(Byte) /\ Len(Keep(rx, n)) = n
          /\ \A i \in 1 .. n : Keep(rx, n)[i] = rx[Len(rx) - n + i]
      BY <1>1, <2>4, KeepProperties
    <3>3. Len(rx) - n = pos
      BY <1>1, <2>4
    <3> QED
      BY <3>1, <3>2, <3>3
  <2>6. ParseHalf(b) \/ ParseTooLarge(b) \/ ParseFrame(b)
    BY <2>1
  <2> HIDE DEF b
  <2>7. Window(b, s, at)
    <3>1. ASSUME NEW i \in 1 .. Len(b)
          PROVE  b[i] = s[at + i]
      <4>1. pos + i \in 1 .. Len(rx) /\ t + (pos + i) = at + i
        BY <1>1, <2>3, <2>4, <2>5
      <4> QED
        BY <1>2, <2>5, <4>1 DEF Window
    <3> QED
      BY <1>1, <2>4, <2>5, <3>1 DEF Window
  <2>8. MagicAt(s, at)
    BY <1>1, <1>2, <2>3, <2>4, MagicInWindow
  <2>9. F[t] = F[at]
    <3>1. ASSUME NEW k \in t .. at - 1
          PROVE  ~ MagicAt(s, k)
      <4>1. k - t \in 0 .. Len(rx) - MAGIC_LEN /\ t + (k - t) = k /\ ~ (pos <= k - t)
        BY <1>1, <2>3, <2>4, Lengths
      <4>2. MagicAt(rx, k - t) <=> MagicAt(s, t + (k - t))
        BY <1>1, <1>2, <4>1, MagicInWindow
      <4> QED
        BY <2>3, <4>1, <4>2
    <3>2. at \in t .. Len(s)
      BY <1>1, <2>4
    <3> QED
      BY <3>1, <3>2, SkipNoMagic
  <2>10. CASE ParseHalf(b)
    <3>1. rx' = b /\ handled' = handled
      BY <2>10 DEF ParseHalf
    <3>2. Taken' = at
      <4>1. Taken' = c - n
        BY <1>3, <2>4, <2>5, <3>1
      <4>2. c - n = at
        BY <2>4
      <4> QED
        BY <4>1, <4>2
    <3> QED
      BY <1>1, <2>9, <3>1, <3>2
  <2>11. ASSUME HeaderIn(b)
         PROVE  /\ at + HEADER_LEN <= Len(s)
                /\ HEADER_LEN <= n
                /\ PayloadLen(b) \in Nat
                /\ TooLarge(Drop(s, at)) = TooLarge(b)
                /\ TotalLen(Drop(s, at)) = TotalLen(b)
    <3>1. HEADER_LEN <= n
      BY <2>5, <2>11 DEF HeaderIn
    <3>2. at + HEADER_LEN <= Len(s)
      BY <1>1, <2>4, <3>1, Lengths
    <3>3. /\ TooLarge(Drop(s, at)) = TooLarge(b)
          /\ TotalLen(Drop(s, at)) = TotalLen(b)
      BY <2>4, <2>5, <2>7, <2>11, HeaderInWindow
    <3> QED
      BY <2>5, <2>11, <3>1, <3>2, <3>3, HeaderRead
  <2>12. ASSUME NEW k \in Nat, k <= n, rx' = tcp_cfg_consume_bytes(b, k)
         PROVE  Taken' = at + k
    <3>1. rx' = Keep(b, n - k) /\ n - k \in 0 .. Len(b) /\ n - k \in Nat
      <4>1. (IF k >= Len(b) THEN 0 ELSE Len(b) - k) = n - k /\ n - k \in 0 .. n
        <5>1. Len(b) = n
          BY <2>5
        <5> QED
          BY <2>12, <5>1
      <4>2. rx' = Keep(b, IF k >= Len(b) THEN 0 ELSE Len(b) - k)
        BY <2>5, <2>12, ConsumeKeeps
      <4> QED
        BY <2>5, <4>1, <4>2
    <3>2. Len(rx') = n - k
      BY <2>5, <3>1, KeepProperties
    <3>3. Taken' = c - (n - k)
      BY <1>3, <3>1, <3>2
    <3>4. c - (n - k) = at + k
      BY <2>4
    <3> QED
      BY <3>3, <3>4
  <2>13. CASE ParseTooLarge(b)
    <3>1. /\ HeaderIn(b) /\ TooLarge(b) /\ handled' = handled
          /\ rx' = tcp_cfg_consume_bytes(b, 1)
      BY <2>13 DEF ParseTooLarge
    <3>2. F[at] = F[at + 1]
      BY <2>4, <2>8, <2>11, <3>1, AtMagic
    <3>3. Taken' = at + 1
      <4>1. 1 <= n
        BY <2>4, <2>11, <3>1, Lengths
      <4> QED
        BY <2>12, <3>1, <4>1
    <3> QED
      BY <1>1, <2>9, <3>1, <3>2, <3>3
  <2>14. CASE ParseFrame(b)
    <3> DEFINE k == TotalLen(b)
               h == Frame(at, b)
    <3>1. /\ FrameIn(b) /\ HeaderIn(b) /\ ~TooLarge(b)
          /\ handled' = Append(handled, h)
          /\ rx' = tcp_cfg_consume_bytes(b, k)
      <4>1. Len(fed) - Len(data) - Len(b) = at
        <5>1. Len(fed) \in Nat /\ Len(data) \in Nat /\ Len(fed) - Len(data) = c
          BY <1>1, BufferNumbers DEF Copied
        <5>2. Len(b) = n /\ at + n = c
          BY <2>4, <2>5
        <5> QED
          BY <5>1, <5>2
      <4> QED
        BY <2>14, <4>1 DEF ParseFrame, FrameIn
    <3>2. k \in Nat /\ k <= n
      <4>1. Len(b) = n /\ k <= Len(b)
        BY <2>5, <3>1 DEF FrameIn
      <4>2. PayloadLen(b) \in Nat
        BY <2>11, <3>1
      <4>3. k \in Nat
        BY <4>2, Lengths DEF TotalLen
      <4> QED
        BY <4>1, <4>3
    <3>3. h \in Handled
      BY <2>4, <2>5, <3>1, FrameTyped DEF Handled
    <3>4. Taken' = at + k
      BY <2>12, <3>1, <3>2
    <3>5. F[at] = <<h>> \o F[at + k]
      <4>1. /\ FrameIn(Drop(s, at)) /\ Frame(at, Drop(s, at)) = h
            /\ ~TooLarge(Drop(s, at)) /\ TotalLen(Drop(s, at)) = k
        BY <2>4, <2>5, <2>7, <2>11, <3>1, FrameInWindow
      <4> QED
        BY <2>4, <2>8, <2>11, <3>1, <4>1, AtMagic
    <3>6. F[at + k] \in Seq(Handled)
      <4>1. at + k \in 0 .. Len(s)
        BY <1>1, <2>4, <3>2
      <4> QED
        BY <4>1, Recursion
    <3> HIDE DEF h, k
    <3>7. handled' = handled \o <<h>> /\ <<h>> \in Seq(Handled)
      BY <1>1, <3>1, <3>3, AppendIsConcat
    <3>8. (handled \o <<h>>) \o F[at + k] = handled \o (<<h>> \o F[at + k])
      <4>1. handled \in Seq(Handled)
        BY <1>1
      <4>2. <<h>> \in Seq(Handled)
        BY <3>7
      <4>3. \A x, y, z \in Seq(Handled) : (x \o y) \o z = x \o (y \o z)
        BY ConcatAssociative
      <4> HIDE DEF F
      <4> QED
        BY <3>6, <4>1, <4>2, <4>3, Zenon
    <3> QED
      BY <1>1, <2>9, <3>4, <3>5, <3>7, <3>8
  <2> QED
    BY <2>6, <2>10, <2>13, <2>14
<1> QED
  BY <1>4, <1>5, <1>6 DEF tcp_cfg_try_parse_frames

\* The parser stops when it has no complete frame.
LEMMA ParseWaits ==
    ASSUME IInv, tcp_cfg_try_parse_frames
    PROVE  Waiting'
<1>1. rx \in Seq(Byte) /\ Len(rx) \in Nat /\ pc = "parse"
  BY BufferNumbers DEF tcp_cfg_try_parse_frames
<1>2. CASE ParseShort
  BY <1>2 DEF ParseShort, Waiting, HeaderIn
<1>3. CASE ParseNoMagic
  <2>1. Len(rx') = MAGIC_LEN - 1
    <3>1. MAGIC_LEN - 1 \in 0 .. Len(rx)
      BY <1>1, <1>3, Lengths DEF ParseNoMagic, HeaderIn
    <3> QED
      BY <1>1, <1>3, <3>1, KeepProperties DEF ParseNoMagic
  <2>2. ~ (Len(rx') >= HEADER_LEN)
    BY <2>1, Lengths
  <2> QED
    BY <2>2 DEF Waiting, HeaderIn
<1>4. CASE ParseMagic
  <2>1. PICK pos \in tcp_cfg_find_magic(rx) :
           LET b == tcp_cfg_consume_bytes(rx, pos) IN
           ParseHalf(b) \/ ParseTooLarge(b) \/ ParseFrame(b)
    BY <1>4 DEF ParseMagic
  <2> DEFINE b == tcp_cfg_consume_bytes(rx, pos)
  <2>2. pos \in 0 .. Len(rx) - MAGIC_LEN /\ MagicAt(rx, pos)
    BY DEF tcp_cfg_find_magic, Magics
  <2>3. CASE ParseHalf(b)
    <3>1. b = Drop(rx, pos) /\ pos \in 0 .. Len(rx) /\ pos \in Nat
      BY <1>1, <2>2, Lengths DEF tcp_cfg_consume_bytes
    <3>2. /\ b \in Seq(Byte) /\ Len(b) = Len(rx) - pos
          /\ \A i \in 1 .. Len(rx) - pos : b[i] = rx[pos + i]
      BY <1>1, <3>1, DropProperties
    <3>3. Window(b, rx, pos)
      BY <1>1, <3>1, <3>2 DEF Window
    <3>4. MagicAt(b, 0)
      <4>1. 0 \in 0 .. Len(b) - MAGIC_LEN /\ pos + 0 = pos
        BY <1>1, <2>2, <3>2, Lengths
      <4> QED
        BY <1>1, <2>2, <3>1, <3>2, <3>3, <4>1, MagicInWindow
    <3>5. rx' = b /\ (HeaderIn(b) => ~TooLarge(b) /\ Len(b) < TotalLen(b))
      BY <2>3 DEF ParseHalf
    <3> HIDE DEF b
    <3>6. \/ ~HeaderIn(rx')
          \/ MagicAt(rx', 0) /\ ~TooLarge(rx') /\ Len(rx') < TotalLen(rx')
      BY <3>4, <3>5
    <3> QED
      BY <3>6 DEF Waiting, HeaderIn, MagicAt, TooLarge, TotalLen, PayloadLen
  <2>4. CASE ParseTooLarge(b) \/ ParseFrame(b)
    BY <1>1, <2>4 DEF ParseTooLarge, ParseFrame, Waiting
  <2> QED
    BY <2>1, <2>3, <2>4
<1> QED
  BY <1>2, <1>3, <1>4 DEF tcp_cfg_try_parse_frames
-----------------------------------------------------------------------------
FInv == HandledSoFar /\ Waiting

LEMMA InitFInv == Init => FInv
<1> SUFFICES ASSUME Init
             PROVE  FInv
  OBVIOUS
<1>1. IInv /\ rx = <<>> /\ data = <<>> /\ fed = <<>> /\ handled = <<>>
  BY InitIInv DEF Init
<1>2. Len(rx) = 0 /\ Len(data) = 0 /\ Len(fed) = 0
  BY <1>1, EmptySeq
<1>3. Taken = 0
  BY <1>2 DEF Taken
<1>4. ASSUME NEW s \in Seq(Byte)
      PROVE  handled \o FramesFrom(s)[Taken] = Frames(s)
  <2>1. FramesFrom(s)[0] \in Seq(Handled)
    <3>1. 0 \in 0 .. Len(s)
      BY BytesOf
    <3> QED
      BY <3>1, Recursion
  <2>2. handled \o FramesFrom(s)[0] = FramesFrom(s)[0]
    BY <1>1, <2>1, ConcatEmptySeq
  <2> QED
    BY <1>3, <2>2 DEF Frames
<1>5. ~ HeaderIn(rx)
  BY <1>2, Lengths DEF HeaderIn
<1> QED
  BY <1>4, <1>5 DEF FInv, HandledSoFar, Waiting

\* Nothing of what was handled or is to come changes when what has been copied
\* only grows.
LEMMA MoreCopied ==
    ASSUME IInv, HandledSoFar, IInv', Copied <= Copied', handled' = handled, Taken' = Taken,
           \A i \in 1 .. Copied : fed'[i] = fed[i]
    PROVE  HandledSoFar'
<1>1. PICK c \in Nat : c = Copied
  BY BufferNumbers
<1>2. PICK d \in Nat : d = Copied'
  <2>1. /\ data' \in Seq(Byte) /\ fed' \in Seq(Byte) /\ rx' \in Seq(Byte)
        /\ Taken' \in Int /\ Taken' >= 0
    <3>1. /\ data' \in Seq(Byte) /\ fed' \in Seq(Byte) /\ rx' \in Seq(Byte)
          /\ Taken' >= 0
      BY DEF IInv, TypeOK, BufferIsStream
    <3>2. Taken' \in Int
      BY <3>1, LenProperties DEF Taken
    <3> QED
      BY <3>1, <3>2
  <2>2. Copied' \in Int
    BY <2>1, LenProperties DEF Copied
  <2> QED
    BY <1>1, <2>2
<1>3. ASSUME NEW s \in Seq(Byte), d <= Len(s), \A i \in 1 .. d : s[i] = fed'[i]
      PROVE  handled' \o FramesFrom(s)[Taken'] = Frames(s)
  <2>1. c <= Len(s) /\ \A i \in 1 .. c : i \in 1 .. d
    BY <1>1, <1>2, <1>3, BytesOf
  <2>2. \A i \in 1 .. c : s[i] = fed[i]
    BY <1>1, <1>3, <2>1
  <2>3. handled \o FramesFrom(s)[Taken] = Frames(s)
    BY <1>1, <2>1, <2>2 DEF HandledSoFar
  <2> QED
    BY <2>3
<1> QED
  BY <1>2, <1>3 DEF HandledSoFar

LEMMA FInvStep ==
    ASSUME IInv, FInv, IInv', [AnyNext]_vars
    PROVE  FInv'
<1>1. ASSUME UNCHANGED <<rx, data, fed, handled>>, pc' # "parse" => pc # "parse"
      PROVE  FInv'
  <2>1. HandledSoFar'
    BY <1>1 DEF FInv, HandledSoFar, Copied, Taken
  <2>2. Waiting'
    BY <1>1 DEF FInv, Waiting, HeaderIn, MagicAt, TooLarge, TotalLen, PayloadLen
  <2> QED
    BY <2>1, <2>2 DEF FInv
<1>2. CASE UNCHANGED vars
  BY <1>1, <1>2 DEF vars
<1>3. CASE Reconnect
  BY <1>1, <1>3 DEF Reconnect
<1>4. CASE FeedDone
  BY <1>1, <1>4 DEF FeedDone
<1>5. ASSUME NEW chunk \in Seq(Byte), tcp_client_recv_data(chunk)
      PROVE  FInv'
  <2>1. /\ fed' = fed \o chunk /\ data' = chunk /\ data = <<>> /\ pc = "idle"
        /\ UNCHANGED <<rx, handled>>
    BY <1>5 DEF tcp_client_recv_data, IInv
  <2>2. PICK l \in Nat, k \in Nat :
            /\ l = Len(fed) /\ k = Len(chunk) /\ Len(fed') = l + k /\ Len(data) = 0
            /\ \A i \in 1 .. l : fed'[i] = fed[i]
    <3>1. fed \in Seq(Byte) /\ Len(fed) \in Nat /\ Len(chunk) \in Nat /\ Len(data) = 0
      BY <2>1, BufferNumbers, BytesOf, EmptySeq
    <3>2. /\ Len(fed') = Len(fed) + Len(chunk)
          /\ \A i \in 1 .. Len(fed) + Len(chunk) :
                fed'[i] = IF i <= Len(fed) THEN fed[i] ELSE chunk[i - Len(fed)]
      BY <2>1, <3>1, ConcatProperties
    <3>3. \A i \in 1 .. Len(fed) : fed'[i] = fed[i]
      <4> TAKE i \in 1 .. Len(fed)
      <4>1. i \in 1 .. Len(fed) + Len(chunk) /\ i <= Len(fed)
        BY <3>1
      <4> QED
        BY <3>2, <4>1
    <3> QED
      BY <3>1, <3>2, <3>3
  <2>3. Copied = l /\ Copied' = l
    <3>1. Copied = l - 0 /\ Copied' = (l + k) - k
      BY <2>1, <2>2 DEF Copied
    <3> QED
      BY <2>2, <3>1
  <2>4. Taken' = Taken
    <3>1. Taken = l - 0 - Len(rx) /\ Taken' = (l + k) - k - Len(rx)
      BY <2>1, <2>2 DEF Taken
    <3> QED
      BY <2>2, <3>1
  <2>5. HandledSoFar'
    BY <2>1, <2>2, <2>3, <2>4, MoreCopied DEF FInv
  <2>6. Waiting'
    BY <2>1 DEF FInv, Waiting, HeaderIn, MagicAt, TooLarge, TotalLen, PayloadLen
  <2> QED
    BY <2>5, <2>6 DEF FInv
<1>6. CASE FeedCopy
  <2>1. UNCHANGED <<handled, fed>> /\ pc' = "parse" /\ pc = "copy"
    BY <1>6 DEF FeedCopy
  <2>2. PICK k \in Nat : /\ k <= Len(data) /\ Len(data') = Len(data) - k
                         /\ Len(rx') = Len(rx) + k
    <3>1. /\ rx \in Seq(Byte) /\ Len(rx) \in Nat /\ data \in Seq(Byte) /\ Len(data) \in Nat
          /\ Len(rx) < HEADER_LEN + TCP_CFG_MAX_PAYLOAD_LEN
      BY <2>1, BufferNumbers DEF IInv, NeverFull
    <3>2. MakeRoom(rx) = rx
      BY <3>1, Lengths DEF MakeRoom
    <3>3. CopyLen \in 0 .. Len(data)
      BY <3>1, <3>2, Lengths DEF CopyLen, Room
    <3>4. /\ rx' = rx \o SubSeq(data, 1, CopyLen) /\ data' = Drop(data, CopyLen)
      BY <1>6, <3>2 DEF FeedCopy
    <3>5. Len(rx') = Len(rx) + CopyLen
      BY <3>1, <3>3, <3>4, FrontProperties, ConcatProperties
    <3>6. Len(data') = Len(data) - CopyLen
      BY <3>1, <3>3, <3>4, DropProperties
    <3> QED
      BY <3>3, <3>5, <3>6
  <2>3. /\ Len(fed) \in Nat /\ Len(data) \in Nat /\ Len(rx) \in Nat
    BY BufferNumbers
  <2>4. Copied' = Len(fed) - (Len(data) - k) /\ Taken' = Len(fed) - (Len(data) - k) - (Len(rx) + k)
    BY <2>1, <2>2 DEF Copied, Taken
  <2>5. Copied <= Copied' /\ Taken' = Taken
    <3>1. Len(fed) - (Len(data) - k) - (Len(rx) + k) = Len(fed) - Len(data) - Len(rx)
      BY <2>2, <2>3
    <3>2. Len(fed) - Len(data) <= Len(fed) - (Len(data) - k)
      BY <2>2, <2>3
    <3> QED
      BY <2>4, <3>1, <3>2 DEF Copied, Taken
  <2>6. HandledSoFar'
    BY <2>1, <2>5, MoreCopied DEF FInv
  <2> QED
    BY <2>1, <2>6 DEF FInv, Waiting
<1>7. CASE tcp_cfg_try_parse_frames
  <2>1. UNCHANGED <<data, fed>> /\ Copied' = Copied
    BY <1>7 DEF tcp_cfg_try_parse_frames, Copied
  <2>2. ASSUME NEW s \in Seq(Byte), Copied <= Len(s), \A i \in 1 .. Copied : s[i] = fed[i]
        PROVE  handled' \o FramesFrom(s)[Taken'] = Frames(s)
    BY <1>7, <2>2, ParseHandles DEF FInv, HandledSoFar
  <2>3. HandledSoFar'
    BY <2>1, <2>2 DEF HandledSoFar
  <2> QED
    BY <1>7, <2>3, ParseWaits DEF FInv
<1> QED
  BY <1>2, <1>3, <1>4, <1>5, <1>6, <1>7 DEF AnyNext, Parser, tcp_cfg_feed_bytes

\* When feed_bytes has returned, no complete frame waits in the buffer.
LEMMA IdleHandled == IInv /\ FInv => FramesAsStreamed
<1> SUFFICES ASSUME IInv, FInv, pc = "idle"
             PROVE  handled = Frames(fed)
  BY DEF FramesAsStreamed
<1>1. /\ rx \in Seq(Byte) /\ fed \in Seq(Byte) /\ handled \in Seq(Handled)
      /\ Len(rx) \in Nat /\ Len(fed) \in Nat /\ Len(data) = 0
      /\ Taken \in Nat /\ Taken + Len(rx) = Len(fed) /\ Copied = Len(fed)
      /\ Taken \in 0 .. Len(fed)
  <2>1. data = <<>> /\ Len(data) = 0
    BY EmptySeq DEF IInv
  <2> QED
    BY <2>1, BufferNumbers DEF Copied
<1>2. handled \o FramesFrom(fed)[Taken] = Frames(fed)
  BY <1>1 DEF FInv, HandledSoFar
<1>3. FramesFrom(fed)[Taken] = <<>>
  <2>1. CASE ~HeaderIn(rx)
    <3>1. Starts(fed, Taken) = {}
      BY <1>1, <2>1, Lengths DEF Starts, HeaderIn
    <3>2. Parsed(fed, Taken, FramesFrom(fed)) = <<>>
      BY <3>1 DEF Parsed
    <3> QED
      BY <1>1, <3>2, Recursion
  <2>2. CASE HeaderIn(rx) /\ MagicAt(rx, 0) /\ ~TooLarge(rx) /\ Len(rx) < TotalLen(rx)
    <3>1. Window(rx, fed, Taken)
      BY <1>1, BufferIsWindow
    <3>2. Taken + HEADER_LEN <= Len(fed) /\ 0 \in 0 .. Len(rx) - MAGIC_LEN
      BY <1>1, <2>2, Lengths DEF HeaderIn
    <3>3. MagicAt(fed, Taken)
      <4>1. Taken + 0 = Taken
        BY <1>1
      <4> QED
        BY <1>1, <2>2, <3>1, <3>2, <4>1, MagicInWindow
    <3>4. /\ ~TooLarge(Drop(fed, Taken)) /\ ~FrameIn(Drop(fed, Taken))
      <4>1. /\ Drop(fed, Taken) \in Seq(Byte) /\ Len(Drop(fed, Taken)) = Len(rx)
            /\ TooLarge(Drop(fed, Taken)) = TooLarge(rx)
            /\ TotalLen(Drop(fed, Taken)) = TotalLen(rx)
        <5>1. Len(fed) - Taken = Len(rx)
          BY <1>1
        <5> QED
          BY <1>1, <2>2, <3>1, <5>1, HeaderInWindow
      <4>2. TotalLen(rx) \in Nat
        BY <1>1, <2>2, HeaderRead, Lengths DEF TotalLen
      <4> QED
        BY <1>1, <2>2, <4>1, <4>2 DEF FrameIn
    <3> QED
      BY <1>1, <3>2, <3>3, <3>4, AtMagic
  <2> QED
    BY <2>1, <2>2 DEF FInv, Waiting
<1> QED
  BY <1>1, <1>2, <1>3, ConcatEmptySeq

\* However TCP cuts the stream into pieces, what has been handled when feed_bytes
\* returns is what parsing the whole stream in one piece gives: whatever the PC
\* sends, for every magic, payload limit and buffer size.
THEOREM StreamParsedAsOne == Spec => []FramesAsStreamed
<1>1. IInv /\ FInv /\ IInv' /\ [Next]_vars => FInv'
  BY FInvStep, NextIsAny
<1>2. Spec => []FInv
  BY InitFInv, <1>1, IInvAlways, PTL DEF Spec
<1> QED
  BY <1>2, IInvAlways, IdleHandled, PTL
=============================================================================
