---------------------------- MODULE AxiMasterWr -----------------------------
(* axi_master_wr.vhd: the AXI write master of the receive path, with the sample
   FIFO of ad936x_axi.vhd that feeds it.  Two samples are packed into a word,
   words collect in a FIFO, and the master writes them to a ring in DDR in bursts
   of g_burst_len words.

   One action is one rising edge of i_aclk: every process of the architecture
   contributes the next value of the registers it drives, all of them computed
   from the values before the edge.  The AXI slave is external: in each cycle it
   drives its signals as it likes, within the AXI protocol.

   Signals are 0 or 1.  Offsets, sizes and addresses are in bursts, beats in
   words.  What the words hold is left out: the FIFO keeps their order.       *)
EXTENDS RingOps, FiniteSets

CONSTANTS g_burst_len,      \* beats of a burst
          Sizes,            \* i_buf_size: ring sizes, in bursts
          Base,             \* i_base_addr, in bursts
          MaxOutstanding,   \* write commands the slave accepts ("HP has cap of 8")
          RxFifoDepth,      \* samples the clock-crossing FIFO holds
          FlagLag           \* cycles XPM's programmable flag may be late

ASSUME BurstAssumption == g_burst_len \in Nat /\ g_burst_len > 0
ASSUME SizesAssumption == \A n \in Sizes : n \in Nat /\ n > 0
ASSUME BaseAssumption  == Base \in Nat
\* s_pending_cnt is unsigned(3 downto 0).
ASSUME OutstandingAssumption ==
  MaxOutstanding \in Nat /\ MaxOutstanding > 0 /\ MaxOutstanding < 16
ASSUME DepthAssumption == RxFifoDepth \in Nat
ASSUME LagAssumption   == FlagLag \in Nat

VARIABLES
  i_enable,                         \* s_rx_en, from the control register
  s_rx_enable, rx_fifo,             \* the sample side: its enable, its FIFO
  s_state, s_beat_cnt, s_aw_addr, s_base_addr, s_top_addr, s_buf_size,
  s_wr_ptr, s_pending_cnt,
  s_prev_tvalid,                                    \* half a word is waiting
  level, late,                 \* words in the FIFO, its flag's last values
  due                        \* the slave: bursts it holds and has not answered

sm   == <<s_state, s_beat_cnt, s_aw_addr, s_base_addr, s_top_addr, s_buf_size>>
rx   == <<s_rx_enable, rx_fifo>>
fifo == <<level, late>>
vars == <<i_enable, rx, sm, s_wr_ptr, s_pending_cnt, s_prev_tvalid, fifo, due>>

c_fifo_depth == 4 * g_burst_len

Bit == {0, 1}

\* The flag of a FIFO that has been empty for a while.
Settled == [k \in 1..FlagLag |-> FALSE]

Init ==
  /\ i_enable = 0 /\ s_rx_enable = 0 /\ rx_fifo = 0
  /\ s_state = "STANDBY" /\ s_beat_cnt = 0 /\ s_aw_addr = 0
  /\ s_base_addr = 0 /\ s_top_addr = 0 /\ s_buf_size = 0
  /\ s_wr_ptr = 0 /\ s_pending_cnt = 0
  /\ s_prev_tvalid = 0 /\ level = 0 /\ late = Settled /\ due = 0

-----------------------------------------------------------------------------
(* Signals driven combinatorially.                                          *)

\* The level is at PROG_FULL_THRESH.
Reached == level >= g_burst_len

\* What XPM's programmable flag may show: it is registered, and how late it is the
\* vendor's matter (external).  It shows the level of now, or of one of the
\* FlagLag cycles before.
s_fifo_prog_full == {Reached} \cup {late[k] : k \in 1..FlagLag}

\* Slip: a second sample is taken whether the FIFO has room or not.
TreadyAlways == s_state # "STANDBY"

o_awvalid == s_state = "AW_SEND"
o_wvalid  == s_state = "W_SEND"
o_wlast   == s_beat_cnt = g_burst_len - 1
o_tready  == s_state # "STANDBY" /\ (s_prev_tvalid = 0 \/ level < c_fifo_depth)

-----------------------------------------------------------------------------
(* proc_sm: one operator per state; full is what the flag shows.            *)

Standby(size) ==
  /\ s_state = "STANDBY"
  /\ IF i_enable = 1
     THEN /\ s_base_addr' = Base /\ s_aw_addr' = Base
          /\ s_top_addr' = Base + size /\ s_buf_size' = size
          /\ s_state' = "IDLE"
          /\ UNCHANGED s_beat_cnt
     ELSE UNCHANGED sm

Idle(full) ==
  /\ s_state = "IDLE"
  /\ s_state' = IF i_enable = 0 THEN "WAIT_OUTSTANDING"
                ELSE IF full THEN "AW_SEND" ELSE "IDLE"
  /\ UNCHANGED <<s_beat_cnt, s_aw_addr, s_base_addr, s_top_addr, s_buf_size>>

AwSend(awready) ==
  /\ s_state = "AW_SEND"
  /\ IF awready = 1
     THEN s_beat_cnt' = 0 /\ s_state' = "W_SEND" /\ s_aw_addr' = s_aw_addr + 1
     ELSE UNCHANGED <<s_beat_cnt, s_state, s_aw_addr>>
  /\ UNCHANGED <<s_base_addr, s_top_addr, s_buf_size>>

\* Slip: the address wraps one burst late.
WrapLate(addr) == IF addr > s_top_addr THEN s_base_addr ELSE addr

\* The address of the next burst, after the check for the ring's end.
Wrap(addr) == IF addr >= s_top_addr THEN s_base_addr ELSE addr

WSend(wready, full) ==
  /\ s_state = "W_SEND"
  /\ IF wready = 1
     THEN IF o_wlast
          THEN /\ s_aw_addr' = Wrap(s_aw_addr)
               /\ s_state' = IF full THEN "AW_SEND" ELSE "IDLE"
               /\ UNCHANGED s_beat_cnt
          ELSE s_beat_cnt' = s_beat_cnt + 1 /\ UNCHANGED <<s_state, s_aw_addr>>
     ELSE UNCHANGED <<s_beat_cnt, s_state, s_aw_addr>>
  /\ UNCHANGED <<s_base_addr, s_top_addr, s_buf_size>>

\* Slip: the master does not wait for the responses.
WaitNotOutstanding ==
  /\ s_state = "WAIT_OUTSTANDING"
  /\ s_state' = "STANDBY"
  /\ UNCHANGED <<s_beat_cnt, s_aw_addr, s_base_addr, s_top_addr, s_buf_size>>

WaitOutstanding ==
  /\ s_state = "WAIT_OUTSTANDING"
  /\ s_state' = IF s_pending_cnt = 0 THEN "STANDBY" ELSE s_state
  /\ UNCHANGED <<s_beat_cnt, s_aw_addr, s_base_addr, s_top_addr, s_buf_size>>

-----------------------------------------------------------------------------
(* The other processes.                                                     *)

Req(awready) == IF o_awvalid /\ awready = 1 THEN 1 ELSE 0

\* Slip: a request in the cycle of a response is not counted.
CountOne(req, rsp) ==
  s_pending_cnt' = IF rsp = 1 THEN (s_pending_cnt - 1) % 16
                   ELSE (s_pending_cnt + req) % 16

\* Outstanding transactions, a four-bit counter.
Count(req, rsp) == s_pending_cnt' = (s_pending_cnt + req - rsp) % 16

\* Slip: the pointer is published when the burst is requested.
PublishOnReq(req, rsp) ==
  s_wr_ptr' = IF s_state = "STANDBY" /\ i_enable = 1 THEN 0
              ELSE IF req = 1 THEN Bump(s_wr_ptr, 1, s_buf_size) ELSE s_wr_ptr

\* "Burst completed, report back the write pointer".
Publish(req, rsp) ==
  s_wr_ptr' = IF s_state = "STANDBY" /\ i_enable = 1 THEN 0
              ELSE IF rsp = 1 THEN Bump(s_wr_ptr, 1, s_buf_size) ELSE s_wr_ptr

\* A sample taken from the stream leaves the sample FIFO.  Two make a word; the
\* word enters the burst FIFO, and each beat the slave takes leaves it.  A read
\* of an empty FIFO is ignored.
PackAndFifo(tvalid, wready) ==
  LET accept == tvalid = 1 /\ rx_fifo > 0 /\ o_tready
      fifo_wr == IF accept /\ s_prev_tvalid = 1 THEN 1 ELSE 0
      fifo_rd == IF o_wvalid /\ wready = 1 /\ level > 0 THEN 1 ELSE 0
  IN /\ s_prev_tvalid' = IF accept THEN 1 - s_prev_tvalid ELSE s_prev_tvalid
     /\ level' = level + fifo_wr - fifo_rd
     /\ rx_fifo' = IF accept THEN rx_fifo - 1 ELSE rx_fifo

\* The AXI slave answers a burst once it has its last beat, and holds at most
\* MaxOutstanding of them.
Slave(awready, wready, bvalid) ==
  /\ awready = 1 => s_pending_cnt < MaxOutstanding
  /\ bvalid = 1 => due > 0
  /\ due' = due + (IF o_wvalid /\ o_wlast /\ wready = 1 THEN 1 ELSE 0) - bvalid

-----------------------------------------------------------------------------

\* One rising edge of i_aclk out of reset.
Clock(awready, wready, bvalid, tvalid) ==
  /\ \/ \E size \in Sizes : Standby(size)
     \/ \E full \in s_fifo_prog_full : Idle(full) \/ WSend(wready, full)
     \/ AwSend(awready) \/ WaitOutstanding
  /\ Count(Req(awready), bvalid)
  /\ Publish(Req(awready), bvalid)
  /\ PackAndFifo(tvalid, wready)
  /\ Slave(awready, wready, bvalid)
  /\ late' = Shifted(late, Reached)
  /\ UNCHANGED <<i_enable, s_rx_enable>>

\* The sample clock: a sample enters the FIFO; one that finds it full is dropped.
Sample == /\ s_rx_enable = 1 /\ rx_fifo < RxFifoDepth
          /\ rx_fifo' = rx_fifo + 1
          /\ UNCHANGED <<i_enable, s_rx_enable, sm, s_wr_ptr, s_pending_cnt,
                         s_prev_tvalid, fifo, due>>

\* The enable bit reaches the sample clock some time later.
CrossEnable == /\ s_rx_enable' = i_enable
               /\ UNCHANGED <<i_enable, rx_fifo, sm, s_wr_ptr, s_pending_cnt,
                              s_prev_tvalid, fifo, due>>

\* The driver writes the enable bit.
SetEnable == /\ i_enable' = 1 - i_enable
             /\ UNCHANGED <<rx, sm, s_wr_ptr, s_pending_cnt, s_prev_tvalid,
                            fifo, due>>

\* i_aresetn low for a while: the driver pulses the reset bit in open(), long
\* after release() has disabled the master, so nothing is outstanding.  The
\* sample FIFO is reset with it.
Reset ==
  /\ s_pending_cnt = 0
  /\ s_state' = "STANDBY" /\ s_beat_cnt' = 0 /\ s_aw_addr' = 0
  /\ s_base_addr' = 0 /\ s_top_addr' = 0 /\ s_buf_size' = 0
  /\ s_pending_cnt' = 0 /\ s_prev_tvalid' = 0 /\ level' = 0 /\ late' = Settled
  /\ i_enable' = 0 /\ rx_fifo' = 0
  /\ UNCHANGED <<s_rx_enable, s_wr_ptr, due>>

Next == \/ \E awready, wready, bvalid, tvalid \in Bit :
             Clock(awready, wready, bvalid, tvalid)
        \/ Sample \/ CrossEnable
        \/ SetEnable \/ Reset

Spec == Init /\ [][Next]_vars

\* The clocks run, and again and again there is a cycle in which the slave takes
\* what it is offered and answers what it owes.  Nothing is assumed of the
\* samples or of the driver.
Served == \E bvalid, tvalid \in Bit :
            /\ due > 0 => bvalid = 1
            /\ Clock(IF s_pending_cnt < MaxOutstanding THEN 1 ELSE 0, 1, bvalid, tvalid)
LiveSpec == Spec /\ WF_vars(Served) /\ WF_vars(CrossEnable)

-----------------------------------------------------------------------------
(* Properties.                                                              *)

States == {"STANDBY", "IDLE", "AW_SEND", "W_SEND", "WAIT_OUTSTANDING"}

TypeOK ==
  /\ i_enable \in Bit /\ s_rx_enable \in Bit /\ rx_fifo \in 0..RxFifoDepth
  /\ s_state \in States /\ s_beat_cnt \in 0..g_burst_len-1
  /\ s_aw_addr \in Nat /\ s_base_addr \in {0, Base} /\ s_top_addr \in Nat
  /\ s_buf_size \in Sizes \cup {0} /\ s_wr_ptr \in Nat
  /\ s_pending_cnt \in 0..15 /\ s_prev_tvalid \in Bit
  /\ level \in 0..c_fifo_depth /\ late \in [1..FlagLag -> BOOLEAN] /\ due \in Nat

\* No burst is ever written outside the ring the driver has reserved: the address
\* on the bus lies between the latched base and top.
AwInRing == s_state = "AW_SEND" => s_aw_addr \in Base..(Base + s_buf_size - 1)

\* The two pointers the master keeps agree: the bursts between the published
\* s_wr_ptr and the next address are exactly the outstanding ones (proc_sm wraps
\* s_aw_addr, the other process wraps s_wr_ptr).
AwMatchesPtr ==
  s_state # "STANDBY" =>
    (s_aw_addr - s_base_addr) % s_buf_size = (s_wr_ptr + s_pending_cnt) % s_buf_size

\* In STANDBY no burst is outstanding, so a new session never gets a response of
\* the one before ("Wait that all outstanding requests complete", 203).
StandbyIsQuiet == s_state = "STANDBY" => due = 0

\* A burst started back to back, on a flag that still counts the word its last beat
\* takes and those of the cycles it is late, is short by no more words than these (130
\* has the FIFO non-empty throughout W_SEND, which asks for one word more).
ShortByFlag == o_wvalid => level + s_beat_cnt + 1 + FlagLag >= g_burst_len

\* Every burst goes to its place with its data: the address is in the ring, the
\* address and the published pointer agree, and the words are there in time but
\* for those ShortByFlag names.
BurstsInRing == AwInRing /\ AwMatchesPtr /\ ShortByFlag

\* Once disabled, the master comes to STANDBY or is enabled again.
DisableStops == i_enable = 0 ~> s_state = "STANDBY" \/ i_enable = 1

\* The abstract writer the driver relies on.
W == INSTANCE RingWriter WITH
       MaxInflight <- MaxOutstanding,
       state <- IF s_state = "STANDBY" THEN "STANDBY"
                ELSE IF s_state = "WAIT_OUTSTANDING" THEN "DRAIN" ELSE "RUN",
       size <- s_buf_size, wr_ptr <- s_wr_ptr, inflight <- s_pending_cnt,
       enable <- i_enable

\* The master does what RingWriter promises.
ImplementsWriter == W!Spec

-----------------------------------------------------------------------------
(* The invariant the proofs of AxiMasterWrProofs use, checked by TLC first. *)

\* The counter knows every burst the slave has accepted and not answered.
CountInv ==
  /\ s_pending_cnt = due + (IF s_state = "W_SEND" THEN 1 ELSE 0)
  /\ s_pending_cnt <= MaxOutstanding
  /\ s_state = "STANDBY" => s_pending_cnt = 0

\* Where the latched ring, the next address and the published pointer lie.
PlaceInv ==
  s_state # "STANDBY" =>
    /\ s_buf_size \in Sizes /\ s_base_addr = Base /\ s_top_addr = Base + s_buf_size
    /\ s_wr_ptr < s_buf_size
    /\ IF s_state = "W_SEND" THEN s_aw_addr \in Base+1..s_top_addr
                             ELSE s_aw_addr \in Base..s_top_addr-1

\* How far the words of the burst being sent are in the FIFO; and how far the level
\* may have fallen since the flag was right.
FeedInv == /\ s_state = "AW_SEND" => level + 1 + FlagLag >= g_burst_len
           /\ ShortByFlag
           /\ \A k \in 1..FlagLag : late[k] => level + k >= g_burst_len

IInv == TypeOK /\ CountInv /\ PlaceInv /\ AwMatchesPtr /\ FeedInv
=============================================================================
