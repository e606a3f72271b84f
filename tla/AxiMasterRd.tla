---------------------------- MODULE AxiMasterRd -----------------------------
(* axi_master_rd.vhd: the AXI read master of the transmit path, with the sample
   FIFO of ad936x_axi.vhd it feeds.  The master reads a ring in DDR in bursts of
   g_burst_len words, as far as the write pointer register allows; the words
   collect in a FIFO and are unpacked into two samples each.

   One action is one rising edge of i_aclk: every process of the architecture
   contributes the next value of the registers it drives, all of them computed
   from the values before the edge.  The AXI slave is external: it accepts a
   command and returns the beats of its burst when it likes.

   Signals are 0 or 1.  Offsets, sizes and addresses are in bursts, beats and
   level in words, tx_fifo in samples.  History variable: avail, the bursts that
   software has published beyond s_rd_ptr (-1 once the master has read on, or
   software has published more than the ring holds).                         *)
EXTENDS RingOps, FiniteSets

CONSTANTS g_burst_len,      \* beats of a burst
          Sizes,            \* i_buf_size: ring sizes, in bursts
          Base,             \* i_base_addr, in bursts
          TxFifoDepth,      \* samples the clock-crossing FIFO holds
          FlagLag           \* cycles XPM's programmable flag may be late

ASSUME BurstAssumption == g_burst_len \in Nat /\ g_burst_len > 0
ASSUME SizesAssumption ==
  IsFiniteSet(Sizes) /\ \A n \in Sizes : n \in Nat /\ n > 0
ASSUME BaseAssumption  == Base \in Nat
ASSUME DepthAssumption == TxFifoDepth \in Nat
ASSUME LagAssumption   == FlagLag \in Nat

VARIABLES
  i_enable, i_buf_size, i_wr_ptr,                  \* registers software writes
  s_state, s_rd_ptr, s_ar_addr, s_base_addr, s_top_addr, s_buf_size,
  beats,                                           \* beats still due of a burst
  level, s_unpack_hi, tx_fifo,                     \* words, half word, samples
  late,                                            \* the flag's last values
  avail                                            \* history

regs  == <<i_enable, i_buf_size, i_wr_ptr>>
latch == <<s_base_addr, s_top_addr, s_buf_size>>
sm    == <<s_state, s_rd_ptr, s_ar_addr, latch, beats>>
out   == <<level, s_unpack_hi, tx_fifo, late>>
vars  == <<regs, sm, out, avail>>

c_fifo_depth == 4 * g_burst_len

Bit == {0, 1}

\* The flag of a FIFO that has been empty for a while.
Settled == [k \in 1..FlagLag |-> FALSE]

Init ==
  /\ i_enable = 0 /\ i_buf_size = 0 /\ i_wr_ptr = 0
  /\ s_state = "STANDBY" /\ s_rd_ptr = 0 /\ s_ar_addr = 0
  /\ s_base_addr = 0 /\ s_top_addr = 0 /\ s_buf_size = 0 /\ beats = 0
  /\ level = 0 /\ s_unpack_hi = 0 /\ tx_fifo = 0 /\ late = Settled /\ avail = 0

-----------------------------------------------------------------------------
(* Signals driven combinatorially.                                          *)

\* Slip: the threshold is one word further up.
ReachedLate == level >= 3 * g_burst_len + 1

\* The level is at PROG_FULL_THRESH.
Reached == level >= 3 * g_burst_len

\* What XPM's programmable flag may show: it is registered, and how late it is the
\* vendor's matter (external).  It shows the level of now, or of one of the
\* FlagLag cycles before.
s_fifo_prog_full == {Reached} \cup {late[k] : k \in 1..FlagLag}

\* Slip: the write pointer's wrap is not looked at.
HasBurstNoWrap == i_wr_ptr - s_rd_ptr >= 1

\* Slip: equal pointers count as a full ring.
DataAvailFull == IF i_wr_ptr > s_rd_ptr THEN i_wr_ptr - s_rd_ptr
                 ELSE s_buf_size - s_rd_ptr + i_wr_ptr

s_data_avail == Ahead(s_rd_ptr, i_wr_ptr, s_buf_size)
s_has_burst  == s_data_avail >= 1

\* Slip: one sample more than the sample FIFO holds is offered to it.
TxReadyLate == tx_fifo <= TxFifoDepth

s_tx_axis_ready == tx_fifo < TxFifoDepth

o_arvalid == s_state = "AR_SEND"
o_rready  == s_state = "R_RECV"

\* The last beat of a burst is taken.
Last(rvalid) == o_rready /\ rvalid = 1 /\ beats = 1

-----------------------------------------------------------------------------
(* proc_sm: one operator per state.  The slave is in ArSend's and RRecv's
   inputs, beats counts what it still owes; full is what the flag shows.    *)

Standby ==
  /\ s_state = "STANDBY"
  /\ IF i_enable = 1
     THEN /\ s_base_addr' = Base /\ s_ar_addr' = Base
          /\ s_top_addr' = Base + i_buf_size /\ s_buf_size' = i_buf_size
          /\ s_state' = "IDLE"
     ELSE UNCHANGED <<s_state, s_ar_addr, latch>>
  /\ UNCHANGED beats

Idle(full) ==
  /\ s_state = "IDLE"
  /\ s_state' = IF i_enable = 0 THEN "STANDBY"
                ELSE IF ~full /\ s_has_burst THEN "AR_SEND" ELSE "IDLE"
  /\ UNCHANGED <<s_ar_addr, latch, beats>>

ArSend(arready) ==
  /\ s_state = "AR_SEND"
  /\ IF arready = 1
     THEN s_state' = "R_RECV" /\ s_ar_addr' = s_ar_addr + 1 /\ beats' = g_burst_len
     ELSE UNCHANGED <<s_state, s_ar_addr, beats>>
  /\ UNCHANGED latch

\* The address of the next burst, after the check for the ring's end.
Wrap(addr) == IF addr >= s_top_addr THEN s_base_addr ELSE addr

RRecv(rvalid, full) ==
  /\ s_state = "R_RECV"
  /\ IF Last(rvalid)
     THEN /\ s_ar_addr' = Wrap(s_ar_addr)
          /\ s_state' = IF ~full /\ s_has_burst THEN "AR_SEND" ELSE "IDLE"
     ELSE UNCHANGED <<s_ar_addr, s_state>>
  /\ beats' = beats - rvalid
  /\ UNCHANGED latch

-----------------------------------------------------------------------------
(* The other processes.                                                     *)

\* Slip: the pointer moves when the burst is requested.
PublishOnReq(arready, rvalid) ==
  s_rd_ptr' = IF s_state = "STANDBY" /\ i_enable = 1 THEN 0
              ELSE IF o_arvalid /\ arready = 1 THEN Bump(s_rd_ptr, 1, s_buf_size)
              ELSE s_rd_ptr

\* "Track read pointer: advance by one burst [...] per completed burst".
Publish(arready, rvalid) ==
  s_rd_ptr' = IF s_state = "STANDBY" /\ i_enable = 1 THEN 0
              ELSE IF Last(rvalid) THEN Bump(s_rd_ptr, 1, s_buf_size)
              ELSE s_rd_ptr

\* The words taken from the bus enter the FIFO, which is not asked whether it is
\* full; each leaves it once both its halves are in the sample FIFO.
FifoAndUnpack(rvalid) ==
  LET move    == level > 0 /\ s_tx_axis_ready
      fifo_wr == IF o_rready /\ rvalid = 1 THEN 1 ELSE 0
      fifo_rd == IF move /\ s_unpack_hi = 1 THEN 1 ELSE 0
  IN /\ level' = level + fifo_wr - fifo_rd
     /\ s_unpack_hi' = IF move THEN 1 - s_unpack_hi ELSE s_unpack_hi
     /\ tx_fifo' = IF move THEN tx_fifo + 1 ELSE tx_fifo

-----------------------------------------------------------------------------

\* The master starts at offset 0, with the prefill ahead of it, which may have
\* filled the ring.
AvailAtStart == IF s_rd_ptr = 0 /\ avail = i_buf_size THEN avail ELSE i_wr_ptr

\* One rising edge of i_aclk out of reset.
Clock(arready, rvalid) ==
  /\ rvalid = 1 => beats > 0
  /\ \/ Standby \/ ArSend(arready)
     \/ \E full \in s_fifo_prog_full : Idle(full) \/ RRecv(rvalid, full)
  /\ Publish(arready, rvalid)
  /\ FifoAndUnpack(rvalid)
  /\ late' = Shifted(late, Reached)
  /\ avail' = IF s_state = "STANDBY" /\ i_enable = 1 THEN AvailAtStart
              ELSE IF Last(rvalid) /\ avail >= 0 THEN avail - 1 ELSE avail
  /\ UNCHANGED regs

\* The radio takes a sample, transmitting or not.
Sample == /\ tx_fifo > 0 /\ tx_fifo' = tx_fifo - 1
          /\ UNCHANGED <<regs, sm, level, s_unpack_hi, late, avail>>

\* The driver writes the enable bit.
SetEnable == /\ i_buf_size > 0 /\ i_enable' = 1 - i_enable
             /\ UNCHANGED <<i_buf_size, i_wr_ptr, sm, out, avail>>

\* The driver publishes bursts.  write() keeps a block free only while the distance
\* it computes is that of the ring: it fills a ring to the last byte (TxRing's run
\* tx_full), and then goes round it once more, since a full ring looks empty.
SetWr == /\ i_buf_size > 0
         /\ \E n \in 1..i_buf_size :
              /\ i_wr_ptr' = (i_wr_ptr + n) % i_buf_size
              /\ avail' = IF avail >= 0 /\ avail + n <= i_buf_size THEN avail + n ELSE -1
         /\ UNCHANGED <<i_enable, i_buf_size, sm, out>>

\* i_aresetn low for a while, in the driver's open(), which zeroes the write
\* pointer; then mmap.  No burst is on the bus, release() was long before.
Reset ==
  /\ s_state \notin {"AR_SEND", "R_RECV"}
  /\ i_enable' = 0 /\ i_wr_ptr' = 0 /\ i_buf_size' \in Sizes
  /\ s_state' = "STANDBY" /\ s_rd_ptr' = 0 /\ s_ar_addr' = 0
  /\ s_base_addr' = 0 /\ s_top_addr' = 0 /\ s_buf_size' = 0 /\ beats' = 0
  /\ level' = 0 /\ s_unpack_hi' = 0 /\ tx_fifo' = 0 /\ late' = Settled /\ avail' = 0

Next == \/ \E arready, rvalid \in Bit : Clock(arready, rvalid)
        \/ Sample \/ SetEnable \/ SetWr \/ Reset

Spec == Init /\ [][Next]_vars

\* The clocks run; again and again there is a cycle in which the slave takes the
\* command it is offered or returns the beat it owes; the radio takes samples.
Served == Clock(1, IF beats > 0 THEN 1 ELSE 0)
LiveSpec == Spec /\ WF_vars(Served) /\ WF_vars(Sample)

-----------------------------------------------------------------------------
(* Properties.                                                              *)

States  == {"STANDBY", "IDLE", "AR_SEND", "R_RECV"}
Offsets == UNION {0..n-1 : n \in Sizes}

TypeOK ==
  /\ i_enable \in Bit /\ i_buf_size \in Sizes \cup {0} /\ i_wr_ptr \in Nat
  /\ s_state \in States /\ s_rd_ptr \in Nat /\ s_ar_addr \in Nat
  /\ s_base_addr \in {0, Base} /\ s_top_addr \in Nat /\ s_buf_size \in Sizes \cup {0}
  /\ beats \in 0..g_burst_len /\ level \in Nat /\ s_unpack_hi \in Bit
  /\ tx_fifo \in 0..TxFifoDepth /\ late \in [1..FlagLag -> BOOLEAN] /\ avail \in Int

\* The FIFO is asked to hold at most a word more than its FIFO_WRITE_DEPTH for each
\* cycle the flag is late: o_rready does not look at its full flag, a word it has
\* no place for would silently be lost.  The threshold leaves room for no more than
\* the word being taken and one burst; the words beyond the depth have their place,
\* if they have one, in the output stage of the vendor's FIFO.
RoomForBurst ==
  /\ o_rready => level + beats <= c_fifo_depth + FlagLag
  /\ level <= c_fifo_depth + FlagLag

\* No burst is read from outside the ring the driver has reserved.
ArInRing == o_arvalid => s_ar_addr \in Base..(Base + s_buf_size - 1)

\* The address on the bus and the pointer that is published agree (proc_sm wraps
\* one, the other process wraps the other).
ArMatchesPtr == s_state \in {"IDLE", "AR_SEND"} => s_ar_addr = s_base_addr + s_rd_ptr

\* Every burst comes from its place and fits: the address is in the ring and
\* agrees with the published pointer, and its words need no more room than
\* RoomForBurst says.
BurstsFitRing == RoomForBurst /\ ArInRing /\ ArMatchesPtr

\* A burst is started only when software has published one ("FIFO has room and
\* data available", 188).
NeverBeyond == o_arvalid => avail >= 1

\* A burst started out of IDLE has been published, as long as the master never
\* read on.
IdleStartsPublished ==
  [][s_state = "IDLE" /\ s_state' = "AR_SEND" /\ avail >= 0 => avail >= 1]_vars

\* What the pointers show as published is read, as long as the radio takes samples,
\* in every history: the master stays where it is only when it is disabled, or when
\* software puts the write pointer on its read pointer.  That is how a ring filled
\* to the last burst looks, and the master reads nothing of it until the next
\* write(); otherwise avail is what the pointers show (AvailInv).
BurstIsRead ==
  \A p \in Offsets :
    s_state # "STANDBY" /\ i_enable = 1 /\ s_rd_ptr = p /\ i_wr_ptr # p
    ~> s_rd_ptr # p \/ i_wr_ptr = p \/ i_enable = 0

\* The abstract reader the driver relies on.
R == INSTANCE RingReader WITH
       state <- IF s_state = "STANDBY" THEN "STANDBY" ELSE "RUN",
       size <- s_buf_size, rd_ptr <- s_rd_ptr,
       busy <- IF s_state \in {"AR_SEND", "R_RECV"} THEN 1 ELSE 0,
       enable <- i_enable, wr_ptr <- i_wr_ptr

\* The master does what RingReader promises.
ImplementsReader == R!Spec

-----------------------------------------------------------------------------
(* The invariant the proofs of AxiMasterRdProofs use, checked by TLC first. *)

\* Where the latched ring, the next address and the published pointer lie.
PlaceInv ==
  /\ s_state # "STANDBY" =>
       /\ s_buf_size \in Sizes /\ s_buf_size = i_buf_size
       /\ s_base_addr = Base /\ s_top_addr = Base + s_buf_size
       /\ s_rd_ptr < s_buf_size
       /\ s_ar_addr = Base + s_rd_ptr + (IF s_state = "R_RECV" THEN 1 ELSE 0)
  /\ i_buf_size > 0 => i_wr_ptr < i_buf_size /\ s_rd_ptr < i_buf_size
  /\ i_buf_size = 0 => i_wr_ptr = 0 /\ i_enable = 0

\* How much room the FIFO has for the burst that is on its way; and how far the
\* level may have risen since the flag was right.
FeedInv ==
  /\ level <= c_fifo_depth + FlagLag
  /\ o_arvalid => level <= 3 * g_burst_len + FlagLag
  /\ o_rready  => beats > 0 /\ level + beats <= c_fifo_depth + FlagLag
  /\ ~o_rready => beats = 0
  /\ \A k \in 1..FlagLag : ~late[k] => level < 3 * g_burst_len + k

\* What the history counts is the distance of the pointers, but that a full ring has
\* the pointers of an empty one.
AvailInv ==
  /\ avail \in -1..i_buf_size
  /\ avail >= 0 => Ahead(s_rd_ptr, i_wr_ptr, i_buf_size)
                    = IF avail = i_buf_size THEN 0 ELSE avail

IInv == TypeOK /\ PlaceInv /\ FeedInv /\ AvailInv
=============================================================================
