------------------------------- MODULE SampleOut -------------------------------
(***************************************************************************)
(* From the read master to the radio chip: the transmit FIFO of            *)
(* ad936x_axi.vhd and the serializer of ad936x_txrx.vhd, on the crossings   *)
(* of IqCrossing.  A sample is a number of its own, 0 the zeros of a        *)
(* disabled transmitter.                                                   *)
(***************************************************************************)
EXTENDS IqCrossing

CONSTANTS TxDepth,  \* samples the FIFO holds: 512
          MaxOut,   \* bound: samples of the clients
          MaxEdges  \* bound: edges of the chip's clock
ASSUME SampleOutAssumption == {TxDepth, MaxOut, MaxEdges} \subseteq Nat \ {0}

VARIABLES
  txf,    \* the samples, the fill the write side sees, what the read side sees of them,
          \* s_tx_fifo_wr_rst_busy, the reset as the read side is told of it, and
          \* s_tx_fifo_rd_rst_busy
  feed,   \* the next sample of the client
  ser,    \* s_tx_iq_flag, s_tx_i_lat and s_tx_q_lat, o_tx_underrun
  sent,   \* the two halves on the line: the samples they are of
  outlog  \* ghosts: edges, underruns, resets, edges since the enable has crossed or the
          \* disable has, sample started last, skipped, drained unsent, first of the
          \* session, and whether it began with the reset of the FIFO over and zeros latched
outown == <<txf, feed, ser, sent, outlog>>

SampleOutInit ==
  /\ CrossInit
  /\ txf = [q |-> <<>>, occ |-> 0, seen |-> 0, wbusy |-> FALSE, asked |-> FALSE, rbusy |-> FALSE]
  /\ feed = 1
  /\ ser \in [flag : BOOLEAN, lat : {0}, under : {FALSE}]
  /\ sent = <<0, 0>>
  /\ outlog = [edges |-> 0, unders |-> 0, resets |-> 0, off |-> 0, started |-> 0,
               skipped |-> 0, drained |-> 0, first |-> 1, hit |-> TRUE]

\* What the serializer is offered: zeros while the enable has not crossed.
TxThere == txf.seen > 0 /\ ~txf.rbusy
TxValid == IqEnable => TxThere
TxData == IF IqEnable /\ TxThere THEN Head(txf.q) ELSE 0
TxRead == ~ser.flag /\ TxThere

\* The halves on the line: the first of a new sample, or of the last one again; the
\* second of the one latched.
Serialize == IF ~ser.flag THEN <<IF TxValid THEN TxData ELSE ser.lat, sent[2]>>
             ELSE <<sent[1], ser.lat>>

\* The read side of the FIFO (external): it sees what is written late, and enters the
\* reset and leaves it later than it is told.
FifoRead ==
  LET rest_q == IF TxRead THEN Tail(txf.q) ELSE txf.q
      left == IF TxRead THEN txf.seen - 1 ELSE txf.seen
  IN  \/ /\ txf.asked
         /\ txf' = [txf EXCEPT !.q = <<>>, !.seen = 0, !.rbusy = TRUE]
      \/ /\ ~(txf.asked /\ txf.rbusy)
         /\ \E seen \in left .. (IF txf.wbusy THEN left ELSE Len(rest_q)) :
              txf' = [txf EXCEPT !.q = rest_q, !.seen = seen, !.rbusy = FALSE]

Behind == IF outlog.started < outlog.first THEN outlog.first - 1 ELSE outlog.started
OutEdge ==
  /\ outlog.edges < MaxEdges
  /\ ser' = [flag |-> ~ser.flag, under |-> ~ser.flag /\ ~TxValid,
             lat |-> IF ~ser.flag /\ TxValid THEN TxData ELSE ser.lat]
  /\ sent' = Serialize
  /\ FifoRead
  /\ CrossIq(ser.under)
  /\ LET started == ~ser.flag /\ TxValid /\ TxData # 0
     IN  outlog' = [outlog EXCEPT
           !.edges = @ + 1, !.unders = @ + One(ser'.under),
           !.resets = @ + One(IqReset /\ (pulse.level \/ ser.under)),
           !.off = IF IqEnable THEN 0 ELSE @ + 1,
           !.started = IF started THEN TxData ELSE @,
           !.skipped = IF started /\ TxData >= outlog.first THEN @ + ((TxData - Behind) - 1) ELSE @,
           !.drained = @ + One(TxRead /\ ~IqEnable)]
  /\ UNCHANGED feed

\* The write side: the read master stores a sample while the FIFO is not full; what has
\* been read is seen late.  A reset is over when the read side has entered it and left it.
OutAclk ==
  /\ CrossAclk
  /\ IF inctl.rst
     THEN txf' = [txf EXCEPT !.occ = 0, !.wbusy = TRUE, !.asked = TRUE] /\ UNCHANGED feed
     ELSE \E occ \in IF txf.wbusy THEN {0} ELSE Len(txf.q) .. txf.occ :
       \/ /\ \E asked \in {txf.asked, txf.asked /\ ~txf.rbusy},
               wbusy \in {txf.wbusy, txf.wbusy /\ (txf.asked \/ txf.rbusy)} :
               txf' = [txf EXCEPT !.occ = occ, !.asked = asked, !.wbusy = wbusy]
          /\ UNCHANGED feed
       \/ /\ awake /\ ~txf.wbusy /\ txf.occ < TxDepth /\ feed < MaxOut
          /\ txf' = [txf EXCEPT !.q = Append(@, feed), !.occ = occ + 1]
          /\ feed' = feed + 1
  /\ UNCHANGED <<ser, sent, outlog>>

OutDriver ==
  /\ \/ DriverOpens /\ UNCHANGED outlog
     \/ DriverOpened /\ UNCHANGED outlog
     \/ DriverEnables(TRUE) /\ outlog' = [outlog EXCEPT !.first = feed, !.hit = ser.lat = 0 /\ ~txf.wbusy]
     \/ DriverReleases /\ UNCHANGED outlog
  /\ UNCHANGED <<cross, pulse, awake, rate, txf, feed, ser, sent>>

SampleOutNext == OutEdge \/ OutAclk \/ OutDriver
SampleOutSpec == SampleOutInit /\ [][SampleOutNext]_<<crossvars, outown>>
-----------------------------------------------------------------------------
\* Both halves of what is on the line are of one sample, and the samples of a session go
\* out in order, none left out but those the FIFO gave up before the enable had crossed.
OutWhole ==
  /\ ~ser.flag => sent[1] = sent[2]
  /\ outlog.skipped <= outlog.drained

\* Once a disable has crossed, and the sample of the moment has ended, zeros go out: the
\* last sample is not repeated.
OutSilent == outlog.off > 2 => sent = <<0, 0>>

\* Every repeat is counted or on its way to the counter, but for what a reset meets.
RepeatsCounted ==
  LET all == Counted + One(ser.under)
  IN  outlog.unders - outlog.resets <= all /\ all <= outlog.unders + outlog.resets

\* A session that began with the reset of the FIFO over and zeros latched sends no sample
\* of the one before.
OutFresh == (outlog.hit /\ inctl.next = "release" /\ sent[1] # 0) => sent[1] >= outlog.first

SamplesOutIntact == OutWhole /\ OutSilent /\ RepeatsCounted /\ OutFresh
=============================================================================
