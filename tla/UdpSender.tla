------------------------------ MODULE UdpSender ------------------------------
(***************************************************************************)
(* --rx-udp: rx_send_udp (rx.c) takes blocks from the driver and           *)
(* udp_send_ring (net.c) cuts them into datagrams of D bytes.  What does   *)
(* not fill a datagram stays in a static buffer for the next call, and the *)
(* static buffer outlives the session.  A byte is named by its session and *)
(* its place in the stream.                                                *)
(***************************************************************************)
EXTENDS Integers, Sequences

CONSTANTS B,            \* block_size
          D,            \* DATAGRAM_SIZE
          M,            \* struct mmsghdr msgs[64]
          MaxUdpBlocks,    \* bound: blocks read in one session
          MaxSessions   \* bound: sessions of main's reconnect loop

\* A block fills at least one datagram, and 64 datagrams take all of it (65536
\* and 1472 bytes with the default block size).  A driver loaded with a larger
\* rx_block_size breaks the second half, and the rest no longer fits s_wrap_buf.
ASSUME UdpAssumption ==
  /\ {B, D, M, MaxUdpBlocks, MaxSessions} \subseteq Nat \ {0}
  /\ D <= B
  /\ (B + D - 1) \div D <= M

VARIABLES session, next, upc, wrap, wrap0, got, wire, short, before
uvars == <<session, next, upc, wrap, wrap0, got, wire, short, before>>
\* session, next: number of the session, of the next block of its stream
\* upc:     "run" in the loop of rx_send_udp; after it, the call that failed
\* wrap:    s_wrap_buf[0 .. s_wrap_pos)
\* wrap0, got, wire: wrap at the start of the session, the bytes read and the
\*          bytes the socket took since (ghosts)
\* short:   sendmmsg took only some of the messages (ghost)
\* before:  the call that ended the session before (ghost)

Least(a, b) == IF a < b THEN a ELSE b

\* The head of the first message: the carried bytes and what fills it up.
WrapMsg(w, data) ==
  IF w = <<>> THEN <<>> ELSE <<w \o SubSeq(data, 1, D - Len(w))>>

\* The messages taken out of the block itself, at most M in all.
BlockMsgs(head, data) ==
  LET k == Least(Len(data) \div D, M - Len(head))
  IN  [j \in 1 .. k |-> SubSeq(data, (j - 1) * D + 1, j * D)]

\* Slip: data += need is missing, the bytes that filled the carry are sent again.
RestNotAdvanced(head, w, data) == data

Rest(head, w, data) ==
  SubSeq(data, IF head = <<>> THEN 1 ELSE D - Len(w) + 1, Len(data))

\* The iovecs of one call, and what is left for the next one.
Msgs(w, data) ==
  LET head == WrapMsg(w, data) IN head \o BlockMsgs(head, Rest(head, w, data))

Leftover(w, data) ==
  LET head == WrapMsg(w, data)
      rest == Rest(head, w, data)
  IN  SubSeq(rest, D * Len(BlockMsgs(head, rest)) + 1, Len(rest))

\* What sendmmsg puts on the wire of the first k messages: D bytes of each.
Taken(msgs, k) == [j \in 1 .. k * D |-> msgs[((j - 1) \div D) + 1][((j - 1) % D) + 1]]

Block(n) == [j \in 1 .. B |-> <<session, n * B + j>>]

UdpInit ==
  /\ session = 1 /\ next = 0 /\ upc = "run"
  /\ wrap = <<>> /\ wrap0 = <<>> /\ got = <<>> /\ wire = <<>>
  /\ short = FALSE /\ before = "none"

\* udp_send_ring succeeds: sendmmsg took k of the messages, and any k > 0 counts
\* as success.
SendRing ==
  /\ upc = "run" /\ next < MaxUdpBlocks
  /\ \E lost \in 0 .. 1 :
       LET data == Block(next + lost)
           msgs == Msgs(wrap, data)
       IN  \E k \in 1 .. Len(msgs) :
             /\ wire' = wire \o Taken(msgs, k)
             /\ short' = (short \/ k < Len(msgs))
             /\ got' = got \o data
             /\ next' = next + lost + 1
             /\ wrap' = Leftover(wrap, data)
  /\ UNCHANGED <<session, upc, wrap0, before>>

\* sendmmsg fails: return -1 with s_wrap_pos already 0, and rx_send_udp ends.
SendFails ==
  /\ upc = "run" /\ next < MaxUdpBlocks
  /\ wrap' = <<>>
  /\ upc' = "sendmmsg"
  /\ UNCHANGED <<session, next, wrap0, got, wire, short, before>>

\* driver_rx_get_block fails: rx_send_udp ends with the carried bytes in place.
BlockFails ==
  /\ upc = "run"
  /\ upc' = "read"
  /\ UNCHANGED <<session, next, wrap, wrap0, got, wire, short, before>>

\* The reconnect loop of main opens the device again: a new stream, a new socket,
\* the same static variables.
Again ==
  /\ upc # "run" /\ session < MaxSessions
  /\ session' = session + 1 /\ next' = 0 /\ upc' = "run"
  /\ wrap0' = wrap /\ got' = <<>> /\ wire' = <<>> /\ short' = FALSE
  /\ before' = upc
  /\ UNCHANGED wrap

UdpNext == SendRing \/ SendFails \/ BlockFails \/ Again
UdpSpec == UdpInit /\ [][UdpNext]_uvars
-----------------------------------------------------------------------------
\* Nothing is lost, repeated or put out of order between the driver's blocks
\* and the socket: what the session found carried and what it read is what the
\* socket took and what is carried now, unless sendmmsg took a part only.
BytesConserved ==
  upc = "run" /\ ~short => wrap0 \o got = wire \o wrap

\* The carried bytes never fill a datagram: s_wrap_buf holds them, and the
\* next call subtracts no more from len than a block has.
CarryFits == Len(wrap) < D

\* After a failed send the next session starts with a datagram of its own
\* bytes: only a failing read() leaves bytes of the old stream behind.
OwnBytesAfterFailedSend ==
  before = "sendmmsg" => \A j \in DOMAIN wire : wire[j][1] = session

\* What the network gets of the blocks: all of it, datagram by datagram, with
\* nothing carried that is a datagram already or of a stream that broke off.
UdpIntact ==
  /\ upc \in {"run", "sendmmsg", "read"} /\ next \in 0 .. MaxUdpBlocks + 1
  /\ BytesConserved /\ CarryFits /\ OwnBytesAfterFailedSend
=============================================================================
