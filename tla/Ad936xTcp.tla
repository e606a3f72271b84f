------------------------------ MODULE Ad936xTcp ------------------------------
(***************************************************************************)
(* The in-kernel TCP server (ad936x-tcp.c): one thread accepts a client,   *)
(* resets and enables the FPGA and sends block after block out of the ring *)
(* while it polls the write pointer; it never looks for an overrun.        *)
(* Positions count units of the stream; a block has K of them, the ring R. *)
(***************************************************************************)
EXTENDS Integers

CONSTANTS K,          \* block_size, in units
          R,          \* rxbuf_size, in units
          CtrlReg, EnableBit, ResetBit,  \* where the FPGA decodes its control bits
          MaxHw,      \* bound: units the FPGA writes in one session
          MaxClients  \* bound: clients accepted

\* The ring holds whole blocks: the driver tests for its end once per block.
ASSUME TcpAssumption ==
  /\ {K, R, MaxHw, MaxClients} \subseteq Nat \ {0}
  /\ R % K = 0
  /\ CtrlReg \in {"0x04", "0x08"} /\ EnableBit \in 0 .. 2 /\ ResetBit \in 0 .. 2

VARIABLES tpc, stop, clients, enabled, hw, ring, rd_ptr, off, rdpos, lapped, good
tvars == <<tpc, stop, clients, enabled, hw, ring, rd_ptr, off, rdpos, lapped, good>>
\* tpc:     "accept", "poll", "send", "down" (shutdown of the client) or "dead"
\* stop:    kthread_should_stop()
\* enabled, hw, ring: the writer of the FPGA, the units it wrote since the
\*          reset, and the position in each place of the ring (0: none)
\* rd_ptr, off: the server's offset, and what ksock_send has sent of the block
\* rdpos:   units sent to this client (ghost)
\* lapped:  the FPGA overwrote a unit not yet sent (ghost)
\* good:    every unit sent was the next of the stream (ghost)

\* The store of one bit to the server's ctrl register: the FPGA obeys only if it
\* has its control bits there.
Obeys(bit, decoded) == CtrlReg = "0x08" /\ bit = decoded

TcpInit ==
  /\ tpc = "accept" /\ stop = FALSE /\ clients = 0
  /\ enabled = FALSE /\ hw = 0 /\ ring = [a \in 0 .. R - 1 |-> 0]
  /\ rd_ptr = 0 /\ off = 0 /\ rdpos = 0 /\ lapped = FALSE /\ good = TRUE

\* The FPGA writes a unit (external: the writer as the server sees it).
HwWrite ==
  /\ enabled /\ hw < MaxHw
  /\ ring' = [ring EXCEPT ![hw % R] = hw + 1]
  /\ hw' = hw + 1
  /\ lapped' = (lapped \/ hw - rdpos >= R)
  /\ UNCHANGED <<tpc, stop, clients, enabled, rd_ptr, off, rdpos, good>>

\* kernel_accept returns a client (a thread already inside it does not see the
\* stop), and stream_to_client starts: bit 1, 0, bit 0 to ctrl, then rd_ptr.
AcceptClient ==
  /\ tpc = "accept" /\ clients < MaxClients
  /\ clients' = clients + 1
  /\ hw' = IF Obeys(1, ResetBit) THEN 0 ELSE hw
  /\ enabled' = (Obeys(0, EnableBit) \/ (enabled /\ CtrlReg # "0x08"))
  /\ ring' = IF Obeys(1, ResetBit) THEN [a \in 0 .. R - 1 |-> 0] ELSE ring
  /\ rd_ptr' = 0 /\ off' = 0 /\ rdpos' = 0 /\ lapped' = FALSE /\ good' = TRUE
  /\ tpc' = "poll"
  /\ UNCHANGED stop

\* kernel_accept fails for good: the thread ends.  -EAGAIN and -ERESTARTSYS go
\* round the loop and change nothing.
AcceptFails ==
  /\ tpc = "accept"
  /\ tpc' = "dead"
  /\ UNCHANGED <<stop, clients, enabled, hw, ring, rd_ptr, off, rdpos, lapped, good>>

\* The loop of the listener sees the stop after a client, never inside accept.
ListenStops ==
  /\ tpc = "down"
  /\ tpc' = IF stop THEN "dead" ELSE "accept"
  /\ UNCHANGED <<stop, clients, enabled, hw, ring, rd_ptr, off, rdpos, lapped, good>>

\* fpga_disable: 0 to ctrl.
StreamEnds ==
  /\ tpc' = "down"
  /\ enabled' = (enabled /\ CtrlReg # "0x08")
  /\ UNCHANGED <<stop, clients, hw, ring, rd_ptr, off, rdpos, lapped, good>>

\* Slip: a strict comparison takes an empty ring for a full one.
AvailStrict ==
  LET wr1 == hw % R IN IF wr1 > rd_ptr THEN wr1 - rd_ptr ELSE (R - rd_ptr) + wr1

Avail ==
  LET wr == hw % R IN IF wr >= rd_ptr THEN wr - rd_ptr ELSE (R - rd_ptr) + wr

\* One turn of the polling loop that finds a block; less than a block sleeps.
PollTakes ==
  /\ tpc = "poll" /\ ~stop
  /\ Avail >= K
  /\ tpc' = "send" /\ off' = 0
  /\ UNCHANGED <<stop, clients, enabled, hw, ring, rd_ptr, rdpos, lapped, good>>

\* Slip: while (1) in the polling loop.
PollStopsNot == FALSE

PollStops == tpc = "poll" /\ stop /\ StreamEnds

\* kernel_sendmsg takes n units of the rest, and the FPGA goes on writing
\* between two calls; after the last one the pointer moves on.
SendUnits ==
  /\ tpc = "send"
  /\ \E n \in 1 .. K - off :
       /\ off' = off + n
       /\ good' = (good /\ \A j \in 0 .. n - 1 : ring[rd_ptr + off + j] = rdpos + j + 1)
       /\ rdpos' = rdpos + n
       /\ IF off + n < K
          THEN UNCHANGED <<tpc, rd_ptr>>
          ELSE /\ rd_ptr' = IF rd_ptr + K >= R THEN 0 ELSE rd_ptr + K
               /\ tpc' = "poll"
  /\ UNCHANGED <<stop, clients, enabled, hw, ring, lapped>>

\* The client leaves: kernel_sendmsg fails.
ClientLeaves == tpc = "send" /\ StreamEnds

\* ad936x_tcp_remove: kthread_stop sets the flag, and waits for the thread.
ModuleExit ==
  /\ ~stop
  /\ stop' = TRUE
  /\ UNCHANGED <<tpc, clients, enabled, hw, ring, rd_ptr, off, rdpos, lapped, good>>

TcpThread == AcceptClient \/ AcceptFails \/ ListenStops \/ PollTakes \/ PollStops
             \/ SendUnits \/ ClientLeaves
TcpNext == HwWrite \/ TcpThread \/ ModuleExit
TcpSpec == TcpInit /\ [][TcpNext]_tvars

\* The thread is scheduled, and a client reads or leaves.  Nobody has to connect:
\* no fairness on accept.
TcpFairness ==
  /\ WF_tvars(PollTakes \/ PollStops)
  /\ WF_tvars(SendUnits \/ ClientLeaves)
  /\ WF_tvars(ListenStops)
  /\ WF_tvars(HwWrite)
TcpLive == TcpSpec /\ TcpFairness
-----------------------------------------------------------------------------
\* A client that is not lapped by the FPGA gets the stream in order and without
\* a hole, over any number of partial sends and of turns of the ring.
StreamInOrder == ~lapped => good

\* No client, no writer: a session that ends, by either way out, stops the FPGA.
IdleIsDisabled == tpc \in {"accept", "down", "dead"} => ~enabled

\* stream_to_client returns after kthread_stop.
StopEndsStream == stop ~> tpc \notin {"poll", "send"}

\* One client at a time gets one session's stream, and nobody else does.
OneStreamInOrder ==
  /\ tpc \in {"accept", "poll", "send", "down", "dead"} /\ rd_ptr \in 0 .. R - 1
  /\ StreamInOrder /\ IdleIsDisabled
=============================================================================
