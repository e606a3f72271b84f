------------------------------ MODULE LegacyRx -------------------------------
(***************************************************************************)
(* The legacy receiver (ad9361_rx.c): main polls the FPGA's write pointer  *)
(* and copies the dma into C slots of S bytes; a second thread sends the  *)
(* slots, one by one over TCP or in batches over UDP.  Two semaphores      *)
(* count the slots; each thread keeps its own slot number.                 *)
(***************************************************************************)
EXTENDS Integers, Sequences

CONSTANTS Ring,        \* rx_buf_size
          S,        \* s_buf_size; need not divide the dma
          C,        \* s_buf_cnt
          Batch,    \* UDP_BATCH
          MaxWr,    \* bound: bytes the FPGA writes
          MaxConn   \* bound: TCP clients

ASSUME LegacyAssumption ==
  /\ {Ring, S, C, Batch, MaxWr, MaxConn} \subseteq Nat \ {0}
  /\ S < Ring /\ Batch <= C

VARIABLES mode, wr, dma, mpc, rd, buf_nr, lost, passed, slots,
          sem_used, sem_free, xpc, conn, sbuf, held, out, missed
lvars == <<mode, wr, dma, mpc, rd, buf_nr, lost, passed, slots,
           sem_used, sem_free, xpc, conn, sbuf, held, out, missed>>
\* wr, dma:  bytes the FPGA wrote, and the number of the byte in each place
\* mpc:       main between sem_trywait and sem_post ("copy") or not ("poll")
\* lost, passed: s_lost_bytes, s_pass_cnt
\* xpc, conn: the sending thread ("accept", "wait", "send"), TCP clients so far
\* sbuf:      buf_nr of transmit_thread_tcp, buf of transmit_thread_udp
\* held:      slots taken from sem_slot_used and not yet given back
\* out:       first byte of each slot sent (on this connection)
\* missed:    the FPGA overwrote a byte not yet copied (ghost)

LegacyInit ==
  /\ mode \in {"tcp", "udp"}
  /\ wr = 0 /\ dma = [a \in 0 .. Ring - 1 |-> 0]
  /\ mpc = "poll" /\ rd = 0 /\ buf_nr = 0 /\ lost = 0 /\ passed = 0
  /\ slots = [i \in 0 .. C - 1 |-> <<>>]
  /\ sem_used = 0 /\ sem_free = C
  /\ xpc = IF mode = "tcp" THEN "accept" ELSE "wait"
  /\ conn = 0 /\ sbuf = 0 /\ held = 0 /\ out = <<>> /\ missed = FALSE

tx == <<xpc, conn, sbuf, held, out>>
main == <<mpc, rd, buf_nr, lost, passed, slots>>

Distance(w, r) == IF w >= r THEN w - r ELSE (Ring - r) + w

\* The FPGA writes a byte (external); place is how far main has come.
LegacyHw ==
  /\ wr < MaxWr
  /\ wr' = wr + 1
  /\ dma' = [dma EXCEPT ![wr % Ring] = wr + 1]
  /\ missed' = (missed \/ wr - (S * passed + lost) >= Ring)
  /\ UNCHANGED <<mode, main, tx, sem_used, sem_free>>

\* A turn of main's loop that finds a slot's worth of bytes and a free slot.
PollSlot ==
  /\ mpc = "poll"
  /\ Distance(wr % Ring, rd) >= S
  /\ sem_free > 0
  /\ sem_free' = sem_free - 1
  /\ mpc' = "copy"
  /\ UNCHANGED <<mode, wr, dma, rd, buf_nr, lost, passed, slots, sem_used, tx, missed>>

\* The same turn without a free slot: everything there is given up.
PollDrops ==
  /\ mpc = "poll"
  /\ Distance(wr % Ring, rd) >= S
  /\ sem_free = 0
  /\ lost' = lost + Distance(wr % Ring, rd)
  /\ rd' = wr % Ring
  /\ UNCHANGED <<mode, wr, dma, mpc, buf_nr, passed, slots, sem_used, sem_free, tx, missed>>

\* The copy, the tail before the head at the end of the dma; then the slot is
\* handed over.
CopySlot ==
  /\ mpc = "copy"
  /\ LET tail == IF Ring - rd < S THEN Ring - rd ELSE S
     IN  slots' = [slots EXCEPT ![buf_nr] =
                     [j \in 1 .. S |-> IF j <= tail THEN dma[rd + j - 1]
                                                    ELSE dma[j - tail - 1]]]
  /\ rd' = (rd + S) % Ring
  /\ sem_used' = sem_used + 1
  /\ buf_nr' = (buf_nr + 1) % C
  /\ passed' = passed + 1
  /\ mpc' = "poll"
  /\ UNCHANGED <<mode, wr, dma, lost, sem_free, tx, missed>>

\* accept() of transmit_thread_tcp: a new client starts at slot 0.
TcpAccept ==
  /\ xpc = "accept" /\ conn < MaxConn
  /\ conn' = conn + 1 /\ sbuf' = 0 /\ out' = <<>> /\ xpc' = "wait"
  /\ UNCHANGED <<mode, wr, dma, main, sem_used, sem_free, held, missed>>

TcpTake ==
  /\ mode = "tcp" /\ xpc = "wait" /\ sem_used > 0
  /\ sem_used' = sem_used - 1 /\ held' = 1 /\ xpc' = "send"
  /\ UNCHANGED <<mode, wr, dma, main, sem_free, conn, sbuf, out, missed>>

\* tcp_send returns; the slot is given back whether it was sent or not.
TcpSent ==
  /\ mode = "tcp" /\ xpc = "send"
  /\ sem_free' = sem_free + 1 /\ held' = 0
  /\ \/ /\ out' = Append(out, slots[sbuf][1])
        /\ sbuf' = (sbuf + 1) % C
        /\ xpc' = "wait"
     \/ /\ xpc' = "accept"
        /\ UNCHANGED <<out, sbuf>>
  /\ UNCHANGED <<mode, wr, dma, main, sem_used, conn, missed>>

\* Slip: each slot of a batch is given back when it is taken.
UdpTakeEarly ==
  /\ mode = "udp" /\ xpc = "wait" /\ sem_used > 0
  /\ sem_used' = sem_used - 1 /\ held' = held + 1
  /\ sem_free' = sem_free + 1
  /\ sbuf' = (sbuf + 1) % C
  /\ xpc' = IF held + 1 = Batch THEN "send" ELSE "wait"
  /\ UNCHANGED <<mode, wr, dma, main, conn, out, missed>>

\* transmit_thread_udp collects a batch, one sem_wait per slot, then sends it and
\* gives all of it back.
UdpTake ==
  /\ mode = "udp" /\ xpc = "wait" /\ sem_used > 0
  /\ sem_used' = sem_used - 1 /\ held' = held + 1
  /\ sbuf' = (sbuf + 1) % C
  /\ xpc' = IF held + 1 = Batch THEN "send" ELSE "wait"
  /\ UNCHANGED <<mode, wr, dma, main, sem_free, conn, out, missed>>

\* sendmmsg takes the first k messages of the batch or fails; nobody looks.
UdpSent ==
  /\ mode = "udp" /\ xpc = "send"
  /\ \E k \in 0 .. Batch :
       out' = out \o [j \in 1 .. k |-> slots[((sbuf + C) - Batch + (j - 1)) % C][1]]
  /\ sem_free' = sem_free + Batch /\ held' = 0 /\ xpc' = "wait"
  /\ UNCHANGED <<mode, wr, dma, main, sem_used, conn, sbuf, missed>>

LegacyNext == LegacyHw \/ PollSlot \/ PollDrops \/ CopySlot
              \/ TcpAccept \/ TcpTake \/ TcpSent \/ UdpTake \/ UdpSent
LegacySpec == LegacyInit /\ [][LegacyNext]_lvars
-----------------------------------------------------------------------------
\* The slots the sending thread holds, in the order they were taken.
HeldSlots ==
  IF mode = "tcp" THEN IF held = 1 THEN {sbuf} ELSE {}
  ELSE {((sbuf + C) - j) % C : j \in 1 .. held}

\* main never copies into a slot that is being sent, over UDP and to the first
\* TCP client.  (A second client starts at slot 0 wherever main is.)
SlotNotShared == conn <= 1 /\ mpc = "copy" => buf_nr \notin HeldSlots

\* The same clients get the bytes in order, and none twice.
SlotsInOrder ==
  conn <= 1 /\ ~missed => \A i, j \in DOMAIN out : i < j => out[i] + S <= out[j]

\* s_lost_bytes and s_pass_cnt tell where in the stream main is: the slot copied
\* last starts there, as long as the FPGA was not a dma ahead.
LostExact ==
  ~missed => /\ rd = (S * passed + lost) % Ring
             /\ passed > 0 /\ mpc = "poll" =>
                  LET last == slots[((buf_nr + C) - 1) % C]
                  IN  /\ last[1] \in (S * (passed - 1) + 1) .. (S * (passed - 1) + lost + 1)
                      /\ \A j \in 1 .. S : last[j] = last[1] + j - 1

\* The two semaphores, the block number and the two accounts of main and the
\* sender agree: no slot is overwritten under way, none sent twice or too early.
SlotsAgree ==
  /\ sem_used \in 0 .. C /\ sem_free \in 0 .. C /\ held \in 0 .. C /\ rd \in 0 .. Ring - 1
  /\ SlotNotShared /\ SlotsInOrder /\ LostExact
=============================================================================
