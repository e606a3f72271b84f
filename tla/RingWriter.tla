----------------------------- MODULE RingWriter -----------------------------
(* What the receive writer of the FPGA promises to whoever reads its ring: it
   latches the ring's size and starts at offset 0 when it leaves STANDBY, moves
   wr_ptr over one burst at a time and only over bursts that have completed, and
   is back in STANDBY only when none is outstanding.  axi_master_wr.vhd keeps
   this promise (AxiMasterWr), the driver's model relies on it (RxRing).

   Offsets and sizes are in bursts.                                           *)
EXTENDS RingOps

CONSTANTS Sizes,        \* ring sizes the registers may hold
          MaxInflight   \* bursts the AXI slave accepts without a response

VARIABLES state, size, wr_ptr, inflight, enable

vars == <<state, size, wr_ptr, inflight, enable>>

Init == /\ state = "STANDBY" /\ size = 0 /\ wr_ptr = 0 /\ inflight = 0
        /\ enable = 0

\* The control register is written.
SetEnable == /\ enable' \in {0, 1}
             /\ UNCHANGED <<state, size, wr_ptr, inflight>>

\* Soft reset.  wr_ptr is left as it is.
Reset == /\ inflight = 0
         /\ state' = "STANDBY" /\ size' = 0 /\ enable' \in {0, 1}
         /\ UNCHANGED <<wr_ptr, inflight>>

\* The writer leaves STANDBY.
Latch == /\ state = "STANDBY" /\ enable = 1
         /\ state' = "RUN" /\ size' \in Sizes /\ wr_ptr' = 0
         /\ UNCHANGED <<inflight, enable>>

\* A response moves wr_ptr over the oldest burst in flight.
Respond == /\ inflight > 0
           /\ wr_ptr' = Bump(wr_ptr, 1, size)

Quiet == UNCHANGED wr_ptr

\* One clock while the writer runs: a burst may start, one may complete.
Work == /\ state = "RUN"
        /\ \/ Respond /\ inflight' = inflight - 1
           \/ Quiet /\ inflight' = inflight + 1 /\ inflight < MaxInflight
           \/ Respond /\ inflight' = inflight
        /\ UNCHANGED <<state, size, enable>>

\* The writer sees that it is disabled, and completes what it has started.
Disable == /\ state = "RUN" /\ enable = 0 /\ state' = "DRAIN"
           /\ \/ Respond /\ inflight' = inflight - 1
              \/ Quiet /\ UNCHANGED inflight
           /\ UNCHANGED <<size, enable>>

Drain == /\ state = "DRAIN"
         /\ Respond /\ inflight' = inflight - 1
         /\ UNCHANGED <<state, size, enable>>

Stop == /\ state = "DRAIN" /\ inflight = 0
        /\ state' = "STANDBY"
        /\ UNCHANGED <<size, wr_ptr, inflight, enable>>

Next == SetEnable \/ Reset \/ Latch \/ Work \/ Disable \/ Drain \/ Stop

Spec == Init /\ [][Next]_vars
=============================================================================
