---------------------------- MODULE TcpCfgProto -----------------------------
(***************************************************************************)
(* The receive side of the configuration protocol,                         *)
(* middleware/protocol/tcp_cfg_proto.c: tcp_cfg_feed_bytes copies what TCP *)
(* delivered, a piece of any length, into a buffer of fixed size, and      *)
(* tcp_cfg_try_parse_frames takes every complete frame out of it, waits    *)
(* for the rest of a half frame and skips what is no frame.                *)
(*                                                                         *)
(* One step is one turn of one of the two loops.  All of it runs in lwIP's *)
(* thread, inside the receive callback.  A byte is a member of Byte, and a *)
(* header field (payload_len is two bytes in the code) is one such byte;   *)
(* the reserved byte and the sequence number, which nothing depends on,    *)
(* are left out of the header.                                             *)
(***************************************************************************)
EXTENDS Integers, Sequences, FiniteSets

CONSTANTS Byte,                     \* a set of naturals
          g_cfg_magic_be,           \* the bytes that start a frame
          TCP_CFG_RX_BUF_SIZE,
          TCP_CFG_MAX_PAYLOAD_LEN,
          STREAM,                   \* bound: bytes the PC sends in all
          CONNECTIONS               \* bound: connections it sends them over

MAGIC_LEN == Len(g_cfg_magic_be)
HEADER_LEN == MAGIC_LEN + 2

ASSUME CfgAssumption ==
    /\ Byte \subseteq Nat
    /\ g_cfg_magic_be \in Seq(Byte)
    /\ MAGIC_LEN > 0
    /\ TCP_CFG_MAX_PAYLOAD_LEN \in Nat
    /\ TCP_CFG_RX_BUF_SIZE \in Nat
    /\ TCP_CFG_RX_BUF_SIZE > HEADER_LEN + TCP_CFG_MAX_PAYLOAD_LEN
    /\ STREAM \in Nat
    /\ CONNECTIONS \in Nat

VARIABLES rx,          \* g_tcp_cfg_rx_ctx: buf[0 .. len - 1]
          data,        \* the bytes feed_bytes still has to copy
          pc,          \* "idle", "copy" (feed_bytes), "parse" (try_parse_frames)
          handled,     \* frames given to tcp_cfg_handle_frame, in order
          fed,         \* history: every byte TCP delivered so far
          cuts         \* history: the lengths of fed at which a connection broke

vars == <<rx, data, pc, handled, fed, cuts>>

Drop(s, n) == SubSeq(s, n + 1, Len(s))
Keep(s, n) == SubSeq(s, Len(s) - n + 1, Len(s))

\* Mutant: the length shrinks but nothing is moved to the front.
ConsumeMovesNothing(s, n) == IF n >= Len(s) THEN <<>> ELSE SubSeq(s, 1, Len(s) - n)

\* Mutant: one byte less than asked for is moved out.
ConsumeOneLess(s, n) == IF n >= Len(s) THEN <<>> ELSE Drop(s, n - 1)

tcp_cfg_consume_bytes(s, n) == IF n >= Len(s) THEN <<>> ELSE Drop(s, n)

MagicAt(s, i) == SubSeq(s, i + 1, i + MAGIC_LEN) = g_cfg_magic_be
Magics(s) == {i \in 0 .. Len(s) - MAGIC_LEN : MagicAt(s, i)}

\* The first place of the magic: a set of one place, empty where the code
\* returns -1.
tcp_cfg_find_magic(s) == {i \in Magics(s) : \A j \in Magics(s) : i <= j}

Cmd(s) == s[MAGIC_LEN + 1]
PayloadLen(s) == s[MAGIC_LEN + 2]

\* How many bytes of the stream have left the buffer.
Taken == Len(fed) - Len(data) - Len(rx)

\* What tcp_cfg_handle_frame is given: the command and the payload, and the
\* place in the stream they come from.
Frame(at, s) ==
    [at |-> at, cmd |-> Cmd(s),
     payload |-> SubSeq(s, HEADER_LEN + 1, HEADER_LEN + PayloadLen(s))]

TypeOK ==
    /\ rx \in Seq(Byte) /\ Len(rx) <= TCP_CFG_RX_BUF_SIZE
    /\ data \in Seq(Byte)
    /\ pc \in {"idle", "copy", "parse"}
    /\ handled \in Seq([at : Nat, cmd : Byte, payload : Seq(Byte)])
    /\ fed \in Seq(Byte)
    /\ cuts \subseteq Nat

Init ==
    /\ rx = <<>> /\ data = <<>> /\ pc = "idle"
    /\ handled = <<>> /\ fed = <<>> /\ cuts = {}
-----------------------------------------------------------------------------
Chunks(n) == UNION {[1 .. k -> Byte] : k \in 1 .. n}

\* TCP delivers a piece of the stream: tcp_client_recv_data calls feed_bytes.
tcp_client_recv_data(chunk) ==
    /\ pc = "idle"
    /\ data' = chunk
    /\ fed' = fed \o chunk
    /\ pc' = "copy"
    /\ UNCHANGED <<rx, handled, cuts>>

Receive == \E chunk \in Chunks(STREAM - Len(fed)) : tcp_client_recv_data(chunk)

\* The connection breaks and another one is made; the buffer stays as it is.
Reconnect ==
    /\ pc = "idle"
    /\ Len(fed) > 0
    /\ Len(fed) \notin cuts
    /\ Cardinality(cuts) < CONNECTIONS - 1
    /\ cuts' = cuts \union {Len(fed)}
    /\ UNCHANGED <<rx, data, pc, handled, fed>>

\* The while condition of feed_bytes is false: it returns.
FeedDone ==
    /\ pc = "copy" /\ data = <<>>
    /\ pc' = "idle"
    /\ UNCHANGED <<rx, data, handled, fed, cuts>>

\* The buffer at the head of the loop: a full one is resynchronised.
MakeRoom(s) ==
    IF Len(s) = TCP_CFG_RX_BUF_SIZE
    THEN IF Len(s) > MAGIC_LEN - 1 THEN Keep(s, MAGIC_LEN - 1) ELSE <<>>
    ELSE s

Room == TCP_CFG_RX_BUF_SIZE - Len(MakeRoom(rx))

\* Mutant: the copy is not limited to the room.
CopyAll == Len(data)

CopyLen == IF Len(data) < Room THEN Len(data) ELSE Room

\* Mutant: the bytes that do not fit are dropped instead of copied next time.
FeedOnce ==
    /\ pc = "copy" /\ data # <<>>
    /\ rx' = MakeRoom(rx) \o SubSeq(data, 1, CopyLen)
    /\ data' = <<>>
    /\ pc' = "parse"
    /\ UNCHANGED <<handled, fed, cuts>>

\* One turn of the loop of feed_bytes, up to the call of the parser.
FeedCopy ==
    /\ pc = "copy" /\ data # <<>>
    /\ rx' = MakeRoom(rx) \o SubSeq(data, 1, CopyLen)
    /\ data' = Drop(data, CopyLen)
    /\ pc' = "parse"
    /\ UNCHANGED <<handled, fed, cuts>>

tcp_cfg_feed_bytes == FeedCopy \/ FeedDone

\* Mutant: no limit on the length a header may announce.
AnyLength(s) == FALSE

TooLarge(s) == PayloadLen(s) > TCP_CFG_MAX_PAYLOAD_LEN

TotalLen(s) == HEADER_LEN + PayloadLen(s)

HeaderIn(s) == Len(s) >= HEADER_LEN
FrameIn(s) == HeaderIn(s) /\ ~TooLarge(s) /\ Len(s) >= TotalLen(s)

\* Less than a header: wait for more.
ParseShort ==
    /\ ~HeaderIn(rx)
    /\ rx' = rx /\ pc' = "copy"
    /\ UNCHANGED handled

\* Mutant: the whole buffer is dropped, the start of a magic with it.
ParseDropAll ==
    /\ HeaderIn(rx) /\ tcp_cfg_find_magic(rx) = {}
    /\ rx' = <<>> /\ pc' = "copy"
    /\ UNCHANGED handled

\* No magic: all but the last bytes, which may be the start of one, is dropped.
ParseNoMagic ==
    /\ HeaderIn(rx) /\ tcp_cfg_find_magic(rx) = {}
    /\ rx' = Keep(rx, MAGIC_LEN - 1) /\ pc' = "copy"
    /\ UNCHANGED handled

\* The header, or the payload it announces, is not complete yet.
ParseHalf(s) ==
    /\ HeaderIn(s) => ~TooLarge(s) /\ Len(s) < TotalLen(s)
    /\ rx' = s /\ pc' = "copy"
    /\ UNCHANGED handled

\* Mutant: a header with an illegal length is left where it is.
ParseTooLargeStays(s) ==
    /\ HeaderIn(s) /\ TooLarge(s)
    /\ rx' = s
    /\ UNCHANGED <<pc, handled>>

\* An illegal length: no frame starts here, look one byte further on.
ParseTooLarge(s) ==
    /\ HeaderIn(s) /\ TooLarge(s)
    /\ rx' = tcp_cfg_consume_bytes(s, 1)
    /\ UNCHANGED <<pc, handled>>

\* A complete frame is handled and taken out of the buffer.
ParseFrame(s) ==
    /\ FrameIn(s)
    /\ handled' = Append(handled, Frame(Len(fed) - Len(data) - Len(s), s))
    /\ rx' = tcp_cfg_consume_bytes(s, TotalLen(s))
    /\ UNCHANGED pc

\* What precedes the first magic is dropped; then one of three.
ParseMagic ==
    /\ HeaderIn(rx)
    /\ \E pos \in tcp_cfg_find_magic(rx) :
          LET s == tcp_cfg_consume_bytes(rx, pos) IN
          ParseHalf(s) \/ ParseTooLarge(s) \/ ParseFrame(s)

\* One turn of the parser's loop.  Its test of the magic after the search
\* cannot fail: the search has just found it there.
tcp_cfg_try_parse_frames ==
    /\ pc = "parse"
    /\ ParseShort \/ ParseNoMagic \/ ParseMagic
    /\ UNCHANGED <<data, fed, cuts>>

Parser == tcp_cfg_feed_bytes \/ tcp_cfg_try_parse_frames
Next == Receive \/ Reconnect \/ Parser

Spec == Init /\ [][Next]_vars /\ WF_vars(Parser)
-----------------------------------------------------------------------------
(***************************************************************************)
(* What the parser promises, said of the whole stream at once.  A frame    *)
(* starts at the first magic with a legal length from where the last one   *)
(* ended; a half frame at the end is waited for.                           *)
(***************************************************************************)
Starts(s, from) == {i \in from .. Len(s) - HEADER_LEN : MagicAt(s, i)}
First(S) == CHOOSE i \in S : \A j \in S : i <= j

\* What is parsed of s from one place on; later[i] is what is parsed from i on.
Parsed(s, from, later) ==
    IF Starts(s, from) = {} THEN <<>>
    ELSE LET at == First(Starts(s, from))
             rest == Drop(s, at)
         IN  IF TooLarge(rest) THEN later[at + 1]
             ELSE IF FrameIn(rest) THEN <<Frame(at, rest)>> \o later[at + TotalLen(rest)]
             ELSE <<>>

FramesFrom(s) ==
    LET f[from \in 0 .. Len(s)] == Parsed(s, from, f) IN f

Frames(s) == FramesFrom(s)[0]

\* However TCP cuts the stream into pieces, what has been handled when feed_bytes
\* returns is what parsing the whole stream in one piece would give.
FramesAsStreamed == pc = "idle" => handled = Frames(fed)

\* The buffer always is the stretch of the stream that follows what was taken
\* out of it: memmove and memcpy lose, repeat and reorder nothing.
BufferIsStream ==
    /\ Taken >= 0
    /\ \A i \in 1 .. Len(rx) : rx[i] = fed[Taken + i]
    /\ \A i \in 1 .. Len(data) : data[i] = fed[Taken + Len(rx) + i]

\* The end of a frame that was handled, and that its bytes are those of
\* the stream where it lies.
End(h) == h.at + HEADER_LEN + Len(h.payload)
Genuine(h, s) ==
    /\ \A k \in 1 .. MAGIC_LEN : s[h.at + k] = g_cfg_magic_be[k]
    /\ h.cmd = s[h.at + MAGIC_LEN + 1]
    /\ Len(h.payload) = s[h.at + MAGIC_LEN + 2]
    /\ \A k \in 1 .. Len(h.payload) : h.payload[k] = s[h.at + HEADER_LEN + k]

\* Every frame handled lies in the stream, magic and all, has a legal length,
\* and starts no earlier than the frame before it ended: no byte is used twice.
FramesGenuine ==
    \A i \in 1 .. Len(handled) :
        /\ End(handled[i]) <= Taken
        /\ Genuine(handled[i], fed)
        /\ Len(handled[i].payload) <= TCP_CFG_MAX_PAYLOAD_LEN
        /\ i > 1 => End(handled[i - 1]) <= handled[i].at

\* Whenever feed_bytes looks for room there is some: less than the largest frame
\* is ever left over, so the forced resynchronisation, which would throw away a
\* frame that is still arriving, never happens.
NeverFull == pc # "parse" => Len(rx) < HEADER_LEN + TCP_CFG_MAX_PAYLOAD_LEN

\* feed_bytes returns: neither loop turns for ever on any input, so lwIP's
\* thread comes back from the receive callback.
FeedReturns == pc # "idle" ~> pc = "idle"

\* tcp_cfg_proto.c says that a half frame waits for its own rest, and that
\* invalid data is dropped.  What is left of one connection and the first bytes
\* of the next are no frame.
FrameOfOneConnection ==
    \A i \in 1 .. Len(handled) : \A c \in cuts :
        ~ (handled[i].at < c /\ c < End(handled[i]))
=============================================================================
