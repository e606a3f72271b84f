------------------------------- MODULE SampleIn -------------------------------
(***************************************************************************)
(* From the radio chip to the write master: the deserializer of            *)
(* ad936x_txrx.vhd and the sample FIFO of ad936x_axi.vhd.  IqEdge is a      *)
(* rising edge of the chip's clock, InAclk one of the bus clock; every      *)
(* process of the domain moves, from the values before the edge.           *)
(*                                                                         *)
(* The line carries a sample in four half cycles, i_msb, q_msb, i_lsb and   *)
(* q_lsb; a half word is the number of its sample.  The frame is high in    *)
(* the first two; which of them a rising edge meets is not known, and       *)
(* changes when the line slips.                                             *)
(***************************************************************************)
EXTENDS IqCrossing

CONSTANTS RxDepth,    \* samples the FIFO holds: 65536
          MaxIn,      \* bound: samples on the line
          MaxSlips    \* bound: slips of the line

ASSUME SampleInAssumption == {RxDepth, MaxIn} \subseteq Nat \ {0} /\ MaxSlips \in Nat

VARIABLES
  line,    \* the next half cycle on the line: sample n, quarter h
  des,     \* o_rx_i and o_rx_q as <<msb, lsb>>, s_rx_i_msb (ih), o_rx_valid
  wrt,     \* s_fifo_wr, s_wr_data, s_sample_drop
  fifo,    \* the samples, the fill the writer's side sees, wr_rst_busy
  took,    \* the sample the write master took last, <<>> at the start of a session
  inlog    \* ghosts: drops, resets, slips, mixed samples, holes in what was taken, the first
           \* sample after open(), and whether an edge has met the reset
inown == <<line, des, wrt, fifo, took, inlog>>

SampleInInit ==
  /\ CrossInit
  /\ line \in [n : {1}, h : {0, 3}]
  /\ des = [i |-> <<0, 0>>, q |-> <<0, 0>>, ih |-> 0, valid |-> FALSE]
  /\ wrt = [fwr |-> FALSE, data |-> <<>>, drop |-> FALSE]
  /\ fifo = [q |-> <<>>, occ |-> 0, busy |-> FALSE]
  /\ took = <<>>
  /\ inlog = [drops |-> 0, resets |-> 0, slips |-> 0, mixed |-> 0, gone |-> 0, first |-> 1, hit |-> TRUE]

\* Slip: with the frame a half cycle late the upper half of I is not kept.
DeserializeLate(d, n, h) ==
  CASE h = 0 -> [d EXCEPT !.valid = FALSE, !.i[1] = n, !.q[1] = n]
    [] h = 2 -> [d EXCEPT !.valid = TRUE, !.i[2] = n, !.q[2] = n]
    [] h = 1 -> [d EXCEPT !.valid = FALSE, !.q[1] = n, !.i = <<d.ih, n>>]
    [] h = 3 -> [d EXCEPT !.valid = TRUE, !.q[2] = n, !.ih = n]

\* The deserializer: a rising edge at h and the falling edge after it, of which h = 3
\* reaches into the next sample.
Deserialize(d, n, h) ==
  CASE h = 0 -> [d EXCEPT !.valid = FALSE, !.i[1] = n, !.q[1] = n]
    [] h = 2 -> [d EXCEPT !.valid = TRUE, !.i[2] = n, !.q[2] = n]
    [] h = 1 -> [d EXCEPT !.valid = FALSE, !.q[1] = n, !.i = <<d.ih, n>>]
    [] h = 3 -> [d EXCEPT !.valid = TRUE, !.q[2] = n, !.ih = n + 1]

\* The writer of the FIFO, on the sample the deserializer has.
Received == IqEnable /\ ~IqReset /\ des.valid
Closed == fifo.occ >= RxDepth \/ fifo.busy
Write == [fwr |-> Received /\ ~Closed, drop |-> Received /\ Closed,
          data |-> IF Received /\ ~Closed THEN <<des.i, des.q>> ELSE wrt.data]

\* The FIFO's write side (external): a reset empties it, a write into a full one is lost;
\* what has been read is seen late.
FifoWrite ==
  LET put == wrt.fwr /\ ~Closed
      held_q == IF IqReset THEN <<>> ELSE IF put THEN Append(fifo.q, wrt.data) ELSE fifo.q
      most == IF IqReset THEN 0 ELSE fifo.occ + One(put)
  IN  \E occ \in Len(held_q) .. most, busy \in IF IqReset THEN {TRUE} ELSE {FALSE, fifo.busy} :
        fifo' = [q |-> held_q, occ |-> occ, busy |-> busy]

Mixed(e) == Cardinality(ToSet(e[1]) \cup ToSet(e[2])) # 1

\* s is one when the line slips by half a cycle.
IqEdge ==
  /\ line.n < MaxIn
  /\ \E s \in {0, 1} :
       LET to == (line.h + 2) + s
       IN  /\ s = 1 => inlog.slips < MaxSlips
           /\ line' = [n |-> line.n + (to \div 4), h |-> to % 4]
           /\ inlog' = [inlog EXCEPT !.slips = @ + s, !.drops = @ + One(Write.drop),
                                     !.resets = @ + One(IqReset /\ pulse.level),
                                     !.mixed = @ + One(Write.fwr /\ Mixed(Write.data)),
                                     !.hit = @ \/ inctl.rst]
  /\ des' = Deserialize(des, line.n, line.h)
  /\ wrt' = Write
  /\ FifoWrite
  /\ CrossIq(wrt.drop)
  /\ UNCHANGED took

\* The read side: the write master takes a sample while it is not in STANDBY.  Known: it
\* is one of a session that began with a reset the chip's clock has met.
Place(e) == e[2][2]
Known == inlog.hit /\ inctl.next = "release"
Take ==
  /\ awake /\ fifo.q # <<>> /\ ~fifo.busy
  /\ took' = Head(fifo.q) /\ fifo' = [fifo EXCEPT !.q = Tail(@)]
  /\ inlog' = IF took = <<>> \/ ~Known THEN inlog
              ELSE [inlog EXCEPT !.gone = @ + ((Place(took') - Place(took)) - 1)]

InAclk ==
  /\ CrossAclk
  /\ Take \/ UNCHANGED <<took, fifo, inlog>>
  /\ UNCHANGED <<line, des, wrt>>

InDriver ==
  /\ \/ DriverOpens /\ inlog' = [inlog EXCEPT !.first = line.n, !.hit = FALSE] /\ UNCHANGED took
     \/ DriverOpened /\ UNCHANGED <<took, inlog>>
     \/ DriverEnables(inlog.hit => Settled /\ ~fifo.busy) /\ took' = <<>> /\ UNCHANGED inlog
     \/ DriverReleases /\ UNCHANGED <<took, inlog>>
  /\ UNCHANGED <<cross, pulse, awake, rate, line, des, wrt, fifo>>

SampleInNext == IqEdge \/ InAclk \/ InDriver
SampleInSpec == SampleInInit /\ [][SampleInNext]_<<crossvars, inown>>
-----------------------------------------------------------------------------
\* The samples of this session that the client has, or will.
ForClient == (IF took = <<>> THEN <<>> ELSE <<took>>) \o fifo.q
Holes == IF Len(ForClient) < 2 THEN 0
         ELSE ((Place(Last(ForClient)) - Place(ForClient[1])) + 1) - Len(ForClient)

\* I and Q of a sample stay together, in the order of the line, whichever edge the frame
\* falls on; the start and a slip cost one mixed sample each.
InWhole ==
  /\ inlog.mixed <= inlog.slips + 1
  /\ \A k \in 1 .. Len(ForClient) - 1 : Place(ForClient[k]) < Place(ForClient[k + 1])

\* Every hole in what the client gets has been counted, or is on its way to the counter,
\* but for slips, in the sessions that began with a reset the chip's clock has met; the
\* counter counts drops, and once a reset that met an odd number.
HolesCounted ==
  /\ inlog.gone + (IF Known THEN Holes ELSE 0) <= (Counted + One(wrt.drop)) + inlog.slips
  /\ Counted <= inlog.drops + inlog.resets

\* A session never begins with samples from before open(), if the chip's clock had an edge
\* while the reset was up.
InFresh == (inlog.hit /\ inctl.next = "release") =>
             \A k \in DOMAIN ForClient : Place(ForClient[k]) >= inlog.first

SamplesInIntact == InWhole /\ HolesCounted /\ InFresh
=============================================================================
