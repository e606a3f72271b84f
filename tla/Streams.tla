------------------------------- MODULE Streams -------------------------------
(***************************************************************************)
(* The parts on either side of the two drivers, each at work on its own:   *)
(* the UDP sender of the streaming process, the PRBS diagnostic, the        *)
(* in-kernel TCP server and the legacy receiver, and in the FPGA the way of *)
(* the samples in and out and the register file.  The programs exclude      *)
(* each other (README.md calls ad936x-tcp "mutually exclusive with          *)
(* ad936x-axi"); the three of the FPGA share no state but the control bits, *)
(* which each takes from the driver.  Who moves is fixed at the start.      *)
(***************************************************************************)
EXTENDS UdpSender, Ad936xTcp, LegacyRx, PrbsCheck, SampleIn, SampleOut, AxiLite

VARIABLE owner
streams == <<owner, uvars, tvars, lvars, pvars, crossvars, inown, outown, liteown>>

StreamsInit ==
  /\ owner \in {"udp", "tcp", "legacy", "prbs", "in", "out", "regs"}
  /\ UdpInit /\ TcpInit /\ LegacyInit /\ PrbsInit /\ SampleInInit /\ SampleOutInit /\ AxiLiteInit
  /\ owner # "legacy" => mode = "tcp"
  /\ owner # "in" => line = [n |-> 1, h |-> 0]
  /\ owner # "out" => ~ser.flag

Programs == <<uvars, tvars, lvars, pvars>>
Rtl == <<crossvars, inown, outown, liteown>>

StreamsNext ==
  /\ UNCHANGED owner
  /\ \/ owner = "udp" /\ UdpNext /\ UNCHANGED <<tvars, lvars, pvars, Rtl>>
     \/ owner = "tcp" /\ TcpNext /\ UNCHANGED <<uvars, lvars, pvars, Rtl>>
     \/ owner = "legacy" /\ LegacyNext /\ UNCHANGED <<uvars, tvars, pvars, Rtl>>
     \/ owner = "prbs" /\ PrbsNext /\ UNCHANGED <<uvars, tvars, lvars, Rtl>>
     \/ owner = "in" /\ SampleInNext /\ UNCHANGED <<outown, liteown, Programs>>
     \/ owner = "out" /\ SampleOutNext /\ UNCHANGED <<inown, liteown, Programs>>
     \/ owner = "regs" /\ AxiLiteNext /\ UNCHANGED <<crossvars, inown, outown, Programs>>

\* The threads of the in-kernel server are scheduled (TcpFairness, under the owner).
Others == <<owner, uvars, lvars, pvars, Rtl>>
StreamsSpec ==
  /\ StreamsInit /\ [][StreamsNext]_streams
  /\ WF_tvars(owner = "tcp" /\ (PollTakes \/ PollStops) /\ UNCHANGED Others)
  /\ WF_tvars(owner = "tcp" /\ (SendUnits \/ ClientLeaves) /\ UNCHANGED Others)
  /\ WF_tvars(owner = "tcp" /\ ListenStops /\ UNCHANGED Others)
-----------------------------------------------------------------------------
\* What leaves the chip reaches the write master, and what leaves the read master reaches
\* the chip: each sample whole, in order, of this session, and what is missing is counted
\* (the deserializer, the serializer, the FIFOs and the counters).
SamplesWhole == /\ owner = "in" => SamplesInIntact
                /\ owner = "out" => SamplesOutIntact
=============================================================================
