----------------------------- MODULE RingReader -----------------------------
(* What the transmit reader of the FPGA promises to whoever fills its ring: it
   latches the ring's size and starts at offset 0 when it leaves STANDBY, reads
   one burst at a time, moves rd_ptr over a burst when its last beat is in, and
   starts a burst out of IDLE only when the ring is not empty.  What it does not
   promise is in Done: a burst started right behind another is checked against
   the pointer of the one just read.  axi_master_rd.vhd keeps this promise
   (AxiMasterRd), the model of the driver's write() relies on it (TxRing).

   Offsets and sizes are in bursts.                                           *)
EXTENDS RingOps

CONSTANTS Sizes,        \* ring sizes the registers may hold
          Offsets       \* write pointers the register may hold

VARIABLES state, size, rd_ptr, busy, enable, wr_ptr

vars == <<state, size, rd_ptr, busy, enable, wr_ptr>>

Init == /\ state = "STANDBY" /\ size = 0 /\ rd_ptr = 0 /\ busy = 0
        /\ enable = 0 /\ wr_ptr = 0

\* The control register or the write pointer is written.
SetEnable == /\ enable' \in {0, 1}
             /\ UNCHANGED <<state, size, rd_ptr, busy, wr_ptr>>
SetWr     == /\ wr_ptr' \in Offsets
             /\ UNCHANGED <<state, size, rd_ptr, busy, enable>>

\* Soft reset, together with which the driver zeroes the write pointer.
Reset == /\ busy = 0
         /\ state' = "STANDBY" /\ size' = 0 /\ rd_ptr' = 0
         /\ enable' \in {0, 1} /\ wr_ptr' \in Offsets
         /\ UNCHANGED busy

\* The reader leaves STANDBY.
Latch == /\ state = "STANDBY" /\ enable = 1
         /\ state' = "RUN" /\ size' \in Sizes /\ rd_ptr' = 0
         /\ UNCHANGED <<busy, enable, wr_ptr>>

HasBurst == Ahead(rd_ptr, wr_ptr, size) >= 1

Start == /\ state = "RUN" /\ busy = 0 /\ HasBurst
         /\ busy' = 1
         /\ UNCHANGED <<state, size, rd_ptr, enable, wr_ptr>>

\* The last beat: rd_ptr moves, and the next burst may start in the same cycle.
Done == /\ state = "RUN" /\ busy = 1
        /\ rd_ptr' = Bump(rd_ptr, 1, size)
        /\ busy' \in {0, 1} /\ (busy' = 1 => HasBurst)
        /\ UNCHANGED <<state, size, enable, wr_ptr>>

Stop == /\ state = "RUN" /\ busy = 0 /\ enable = 0
        /\ state' = "STANDBY"
        /\ UNCHANGED <<size, rd_ptr, busy, enable, wr_ptr>>

Next == SetEnable \/ SetWr \/ Reset \/ Latch \/ Start \/ Done \/ Stop

Spec == Init /\ [][Next]_vars
=============================================================================
