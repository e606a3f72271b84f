------------------------------- MODULE RxRing -------------------------------
(* The receive path of the kernel driver ad936x-axi.c: the FPGA writes a ring
   in reserved memory and publishes rx_buf_wr; an hrtimer turns the pointer
   into blocks_ready; read() hands out one block at a time and recovers from an
   overrun by snapping rd_ptr half a ring behind the FPGA; the ENABLE ioctl
   restarts everything while the timer is already ticking.

   Offsets and sizes are in AXI bursts, the unit in which rx_buf_wr moves; a
   block (rx_block_size) is B of them.  The FPGA is what axi_master_wr.vhd
   promises, see AxiMasterWr.  The steps of read(), of the ioctl, of the timer
   and of the FPGA interleave.

   History variables: total (bursts completed since the writer last left
   STANDBY), mem (which burst of the stream each place of the ring holds), pos
   (which block of the stream lies at rd_ptr), told (what the client makes of
   pos from the blocks it got and the lost_bytes it was told), counted (blocks
   the timer has announced), upset (what went wrong since open).              *)
EXTENDS RingOps, FiniteSets

CONSTANTS B,              \* rx_block_size, in bursts
          Sizes,          \* the sizes a client may mmap, in bursts
          MaxInflight,    \* bursts the AXI slave holds without a response
          MaxOpens,       \* bound: how often the device is opened
          EnablesPerOpen, \* bound: ENABLE calls on one open file
          MaxTotal        \* bound: bursts the FPGA completes in one session

ASSUME BAssumption == B \in Nat /\ B > 0
ASSUME SizesAssumption ==
  IsFiniteSet(Sizes) /\ \A s \in Sizes : s \in Nat /\ \E n \in 1..s : s = n * B
ASSUME BoundsAssumption == /\ MaxInflight \in Nat /\ MaxInflight > 0
                           /\ MaxOpens \in Nat
                           /\ EnablesPerOpen \in Nat
                           /\ MaxTotal \in Nat

VARIABLES
  hwState, hwSize, rx_buf_wr, inflight, rx_en,       \* the FPGA
  in_use, opens, enables, rxbuf_size,                \* the open file
  rd_ptr, timer_wr_ptr, blocks_ready,                \* the driver
  tpc, t_wr, t_age,                                  \* the timer callback
  epc,                                               \* the ENABLE ioctl
  rpc, max_blocks, lost,                             \* read()
  total, mem, pos, told, counted, upset              \* history

hwVars   == <<hwState, hwSize, rx_buf_wr, inflight, rx_en>>
fileVars == <<in_use, opens, enables, rxbuf_size>>
drvVars  == <<rd_ptr, timer_wr_ptr, blocks_ready>>
tVars    == <<tpc, t_wr, t_age>>
rVars    == <<rpc, max_blocks, lost>>
history  == <<total, mem, pos, told, counted, upset>>
vars     == <<hwVars, fileVars, drvVars, tVars, epc, rVars, history>>

Places == UNION {0..s-1 : s \in Sizes}

N == rxbuf_size \div B          \* blocks in the mapped ring

\* Slip: a block is announced only when the next one has begun.
NewBlocksLate(delta) == (delta - 1) \div B

\* Whole blocks in a distance, a last partial block is left for the next tick.
NewBlocks(delta) == delta \div B

\* Slip: the reader does not wait for a block.
AwakeEarly == blocks_ready >= 0

\* Slip: one block too early is called an overrun.
OverrunEarly == blocks_ready >= max_blocks - 1

\* The wait condition of read() and its overrun test.
Awake   == blocks_ready > 0
Overrun == blocks_ready >= max_blocks

\* Slip: the snap lands on the block the FPGA is writing.
SnapTargetAtWriter == (rx_buf_wr \div B) * B

\* Where an overrun puts rd_ptr: half a ring behind the FPGA, block aligned.
SnapTarget == (Ahead(rxbuf_size \div 2, rx_buf_wr, rxbuf_size) \div B) * B

\* Slip: the distance is taken the wrong way round.
LostToSwapped(new_rd) == Ahead(new_rd, rd_ptr, rxbuf_size)

\* The distance read() reports as lost_bytes.
LostTo(new_rd) == Ahead(rd_ptr, new_rd, rxbuf_size)

Init ==
  /\ hwState = "STANDBY" /\ hwSize = 0 /\ rx_buf_wr = 0 /\ inflight = 0
  /\ rx_en = 0
  /\ in_use = 0 /\ opens = 0 /\ enables = 0 /\ rxbuf_size = 0
  /\ rd_ptr = 0 /\ timer_wr_ptr = 0 /\ blocks_ready = 0
  /\ tpc = "idle" /\ t_wr = 0 /\ t_age = "stale"
  /\ epc = "idle"
  /\ rpc = "idle" /\ max_blocks = 0 /\ lost = 0
  /\ total = 0 /\ mem = [u \in Places |-> -1]
  /\ pos = 0 /\ told = 0 /\ counted = 0 /\ upset = {}

-----------------------------------------------------------------------------
(* The FPGA writer, as the driver sees it.                                  *)

\* Slip: the pointer of the last session is kept.
HwLatchKeepPtr ==
  /\ hwState = "STANDBY" /\ rx_en = 1
  /\ hwState' = "RUN" /\ hwSize' = rxbuf_size
  /\ total' = 0 /\ mem' = [u \in Places |-> -1]
  /\ UNCHANGED <<rx_buf_wr, inflight, rx_en, fileVars, drvVars, tVars, epc, rVars,
                 pos, told, counted, upset>>

\* STANDBY sees the enable bit: size latched, pointer zeroed.  From here on
\* what the ring holds from earlier sessions counts as older than the stream.
HwLatch ==
  /\ hwState = "STANDBY" /\ rx_en = 1
  /\ hwState' = "RUN" /\ hwSize' = rxbuf_size /\ rx_buf_wr' = 0
  /\ total' = 0 /\ mem' = [u \in Places |-> -1]
  /\ UNCHANGED <<inflight, rx_en, fileVars, drvVars, tVars, epc, rVars,
                 pos, told, counted, upset>>

\* A burst's data reaches memory, up to MaxInflight ahead of its response.
HwData ==
  /\ hwState = "RUN" /\ inflight < MaxInflight /\ total + inflight < MaxTotal
  /\ mem' = [mem EXCEPT ![(rx_buf_wr + inflight) % hwSize] = total + inflight]
  /\ inflight' = inflight + 1
  /\ UNCHANGED <<hwState, hwSize, rx_buf_wr, rx_en, fileVars, drvVars, tVars,
                 epc, rVars, total, pos, told, counted, upset>>

\* The response of the oldest burst in flight moves rx_buf_wr.
HwResp ==
  /\ inflight > 0
  /\ inflight' = inflight - 1
  /\ rx_buf_wr' = Bump(rx_buf_wr, 1, hwSize)
  /\ total' = total + 1
  /\ UNCHANGED <<hwState, hwSize, rx_en, fileVars, drvVars, tVars, epc, rVars,
                 mem, pos, told, counted, upset>>

\* Between two bursts the writer sees the enable bit cleared ...
HwDisable ==
  /\ hwState = "RUN" /\ rx_en = 0
  /\ hwState' = "DRAIN"
  /\ UNCHANGED <<hwSize, rx_buf_wr, inflight, rx_en, fileVars, drvVars, tVars,
                 epc, rVars, history>>

\* ... and goes back to STANDBY once no burst is outstanding, enabled or not.
HwStop ==
  /\ hwState = "DRAIN" /\ inflight = 0
  /\ hwState' = "STANDBY"
  /\ UNCHANGED <<hwSize, rx_buf_wr, inflight, rx_en, fileVars, drvVars, tVars,
                 epc, rVars, history>>

-----------------------------------------------------------------------------
(* open, mmap and release.                                                  *)

\* Slip: open does not reset the FPGA.
HwNoReset == UNCHANGED <<hwState, hwSize>>

\* RESET puts the writer in STANDBY and leaves rx_buf_wr as it was.
HwReset == hwState' = "STANDBY" /\ hwSize' = 0

\* The timer starts last, so nothing sees open half done.  Responses of the
\* session before have long arrived when a file is opened again (inflight = 0).
Open ==
  /\ in_use = 0 /\ opens < MaxOpens /\ inflight = 0
  /\ in_use' = 1 /\ opens' = opens + 1 /\ enables' = 0
  /\ HwReset /\ rx_en' = 0
  /\ rxbuf_size' = 0 /\ rd_ptr' = 0 /\ blocks_ready' = 0
  /\ timer_wr_ptr' = rx_buf_wr
  /\ total' = 0 /\ mem' = [u \in Places |-> -1]
  /\ pos' = 0 /\ told' = 0 /\ counted' = 0 /\ upset' = {}
  /\ UNCHANGED <<rx_buf_wr, inflight, tVars, epc, rVars>>

\* The RX ring is mapped once per open file, before the session (rx_task).
Mmap ==
  /\ in_use = 1 /\ rxbuf_size = 0 /\ epc = "idle" /\ enables = 0
  /\ \E size \in Sizes : rxbuf_size' = size
  /\ UNCHANGED <<hwVars, in_use, opens, enables, drvVars, tVars, epc, rVars,
                 history>>

\* Runs when the last reference to the file goes, so never beside a read or an
\* ioctl; hrtimer_cancel waits for a callback that is running.
Release ==
  /\ in_use = 1 /\ rpc = "idle" /\ epc = "idle" /\ tpc = "idle"
  /\ in_use' = 0 /\ rx_en' = 0
  /\ UNCHANGED <<hwState, hwSize, rx_buf_wr, inflight, opens, enables,
                 rxbuf_size, drvVars, tVars, epc, rVars, history>>

-----------------------------------------------------------------------------
(* The ENABLE ioctl, one action per store other processors can see.         *)

EnableOff ==
  /\ in_use = 1 /\ epc = "idle" /\ rxbuf_size > 0 /\ enables < EnablesPerOpen
  /\ rx_en' = 0 /\ enables' = enables + 1
  /\ epc' = "rd_ptr"
  /\ upset' = IF enables > 0 THEN upset \cup {"reenable"} ELSE upset
  /\ UNCHANGED <<hwState, hwSize, rx_buf_wr, inflight, in_use, opens,
                 rxbuf_size, drvVars, tVars, rVars,
                 total, mem, pos, told, counted>>

EnableRdPtr ==
  /\ epc = "rd_ptr" /\ epc' = "timer_wr_ptr"
  /\ rd_ptr' = 0 /\ pos' = 0 /\ told' = 0
  /\ UNCHANGED <<hwVars, fileVars, timer_wr_ptr, blocks_ready, tVars, rVars,
                 total, mem, counted, upset>>

\* Slip: ENABLE forgets the timer's own pointer.
EnableKeepTimerPtr ==
  /\ epc = "timer_wr_ptr" /\ epc' = "blocks_ready"
  /\ UNCHANGED <<hwVars, fileVars, drvVars, tVars, rVars, history>>

EnableTimerPtr ==
  /\ epc = "timer_wr_ptr" /\ epc' = "blocks_ready"
  /\ timer_wr_ptr' = 0
  /\ UNCHANGED <<hwVars, fileVars, rd_ptr, blocks_ready, tVars, rVars, history>>

EnableReady ==
  /\ epc = "blocks_ready" /\ epc' = "on"
  /\ blocks_ready' = 0 /\ counted' = 0
  /\ UNCHANGED <<hwVars, fileVars, rd_ptr, timer_wr_ptr, tVars, rVars,
                 total, mem, pos, told, upset>>

EnableOn ==
  /\ epc = "on" /\ epc' = "idle"
  /\ rx_en' = 1
  /\ UNCHANGED <<hwState, hwSize, rx_buf_wr, inflight, fileVars, drvVars,
                 tVars, rVars, history>>

Enable == EnableOff \/ EnableRdPtr \/ EnableTimerPtr \/ EnableReady \/ EnableOn

-----------------------------------------------------------------------------
(* The timer callback: the register is read at entry, used afterwards.      *)

\* Bound: without an upset counted * B <= total <= MaxTotal; a stale pointer at
\* or beyond the new size is counted again on every tick, without end.
CountBound == counted * B <= MaxTotal + rxbuf_size

TimerRead ==
  /\ in_use = 1 /\ tpc = "idle" /\ CountBound
  /\ tpc' = "count" /\ t_wr' = rx_buf_wr
  /\ t_age' = IF hwState = "RUN" /\ epc = "idle" THEN "fresh" ELSE "stale"
  /\ upset' = IF hwState = "RUN" /\ total - counted * B >= rxbuf_size
              THEN upset \cup {"lag"} ELSE upset
  /\ UNCHANGED <<hwVars, fileVars, drvVars, epc, rVars,
                 total, mem, pos, told, counted>>

TimerCount ==
  /\ tpc = "count" /\ tpc' = "idle"
  /\ LET delta      == Ahead(timer_wr_ptr, t_wr, rxbuf_size)
         new_blocks == NewBlocks(delta)
     IN IF rxbuf_size > 0 /\ new_blocks > 0
        THEN /\ timer_wr_ptr' = (timer_wr_ptr + new_blocks * B) % rxbuf_size
             /\ blocks_ready' = blocks_ready + new_blocks
             /\ counted' = counted + new_blocks
             /\ upset' = IF t_age = "fresh" THEN upset ELSE upset \cup {"overlap"}
        ELSE UNCHANGED <<timer_wr_ptr, blocks_ready, counted, upset>>
  /\ t_wr' = 0 /\ t_age' = "stale"
  /\ UNCHANGED <<hwVars, fileVars, rd_ptr, epc, rVars,
                 total, mem, pos, told>>

-----------------------------------------------------------------------------
(* read().  A client reads once its ring is mapped (rx_task).               *)

ReadEnter ==
  /\ in_use = 1 /\ rpc = "idle" /\ rxbuf_size > 0
  /\ rpc' = "wait" /\ max_blocks' = N
  /\ UNCHANGED <<hwVars, fileVars, drvVars, tVars, epc, lost, history>>

\* wait_event; closing cannot be seen here, release waits for this read.
ReadWake ==
  /\ rpc = "wait" /\ Awake
  /\ rpc' = "check"
  /\ UNCHANGED <<hwVars, fileVars, drvVars, tVars, epc, max_blocks, lost,
                 history>>

ReadCheck ==
  /\ rpc = "check"
  /\ rpc' = IF Overrun THEN "snap" ELSE "take"
  /\ UNCHANGED <<hwVars, fileVars, drvVars, tVars, epc, max_blocks, lost,
                 history>>

ReadSnap ==
  /\ rpc = "snap" /\ rpc' = "take"
  /\ LET half == rxbuf_size \div 2
     IN /\ lost' = LostTo(SnapTarget)
        /\ rd_ptr' = SnapTarget
        /\ pos' = (total - half) \div B
        /\ upset' = IF total >= pos * B + rxbuf_size + half
                    THEN upset \cup {"deep"} ELSE upset
  /\ blocks_ready' = blocks_ready - lost' \div B
  /\ told' = told + lost' \div B
  /\ UNCHANGED <<hwVars, fileVars, timer_wr_ptr, tVars, epc, max_blocks,
                 total, mem, counted>>

ReadTake ==
  /\ rpc = "take" /\ rpc' = "copy"
  /\ blocks_ready' = blocks_ready - 1
  /\ UNCHANGED <<hwVars, fileVars, rd_ptr, timer_wr_ptr, tVars, epc,
                 max_blocks, lost, history>>

\* The block at rd_ptr is handed to the client.
ReadCopy ==
  /\ rpc = "copy" /\ rpc' = "idle"
  /\ rd_ptr' = Bump(rd_ptr, B, rxbuf_size)
  /\ pos' = pos + 1 /\ told' = told + 1
  /\ max_blocks' = 0 /\ lost' = 0
  /\ UNCHANGED <<hwVars, fileVars, timer_wr_ptr, blocks_ready, tVars, epc,
                 total, mem, counted, upset>>

\* copy_to_user fails: the block is spent, rd_ptr stays.
ReadFault ==
  /\ rpc = "copy" /\ rpc' = "idle"
  /\ upset' = upset \cup {"fault"}
  /\ max_blocks' = 0 /\ lost' = 0
  /\ UNCHANGED <<hwVars, fileVars, drvVars, tVars, epc,
                 total, mem, pos, told, counted>>

Read == ReadWake \/ ReadCheck \/ ReadSnap \/ ReadTake \/ ReadCopy \/ ReadFault

-----------------------------------------------------------------------------
Hw   == HwLatch \/ HwData \/ HwResp \/ HwDisable \/ HwStop
File == Open \/ Mmap \/ Release
Next == Hw \/ File \/ Enable \/ TimerRead \/ TimerCount \/ ReadEnter \/ Read

Spec == Init /\ [][Next]_vars

\* The hrtimer rearms itself for as long as the file is open, and a runnable
\* thread is scheduled.  Nothing is assumed of the FPGA or of the client.
LiveSpec == Spec /\ WF_vars(TimerRead) /\ WF_vars(TimerCount)
                 /\ WF_vars(ReadWake) /\ WF_vars(Enable)

-----------------------------------------------------------------------------
(* Properties.  upset names what the driver cannot cope with: "overlap" (a
   timer tick counted a pointer read before the writer restarted), "lag" (the
   FPGA went round the ring between two ticks), "deep" (an overrun was handled
   one and a half rings late), "fault" (copy_to_user failed), "reenable".    *)

Upsets == {"overlap", "lag", "deep", "fault", "reenable"}

TypeOK ==
  /\ hwState \in {"STANDBY", "RUN", "DRAIN"} /\ rx_en \in {0, 1}
  /\ hwSize \in Sizes \cup {0} /\ rx_buf_wr \in Nat /\ inflight \in 0..MaxInflight
  /\ in_use \in {0, 1} /\ opens \in 0..MaxOpens
  /\ enables \in 0..EnablesPerOpen /\ rxbuf_size \in Sizes \cup {0}
  /\ rd_ptr \in Nat /\ timer_wr_ptr \in Nat /\ blocks_ready \in Int
  /\ tpc \in {"idle", "count"} /\ t_wr \in Nat /\ t_age \in {"stale", "fresh"}
  /\ epc \in {"idle", "rd_ptr", "timer_wr_ptr", "blocks_ready", "on"}
  /\ rpc \in {"idle", "wait", "check", "snap", "take", "copy"}
  /\ max_blocks \in Nat /\ lost \in Int
  /\ total \in 0..MaxTotal /\ mem \in [Places -> -1..MaxTotal]
  /\ pos \in Int /\ told \in Int /\ counted \in Nat /\ upset \subseteq Upsets

Taken == IF rpc = "copy" THEN 1 ELSE 0

\* Every block announced and not yet taken has been written completely, even
\* when copy_to_user fails (the timer, blocks_ready, the snap and the reader
\* must agree on what the pointers mean).
ReadyIsWritten ==
  upset \subseteq {"fault"} => (pos + Taken + blocks_ready) * B <= total

\* The blocks the client got and the lost_bytes it was told add up to its place
\* in the FPGA's stream: nothing is skipped or repeated unreported (read, 211).
AccountExact == upset \subseteq {"fault"} => told = pos

\* A block handed out never holds data older than the place of the stream it is
\* handed out for, and is exact until the FPGA comes round to it again.
NoStaleBlock ==
  upset \subseteq {"fault"} /\ rpc = "copy" =>
    \A i \in 0..B-1 :
      /\ mem[rd_ptr + i] >= pos * B + i
      /\ total + inflight <= pos * B + rxbuf_size => mem[rd_ptr + i] = pos * B + i

\* The overrun branch runs only when the FPGA has really gone round the ring
\* since the block at rd_ptr ("reader fell behind, buffer has wrapped", 202).
OverrunIsReal == rpc = "snap" => total >= pos * B + rxbuf_size

OverrunIsRealUnlessUpset == upset \subseteq {"fault"} => OverrunIsReal

\* The counter read() compares as a signed int never goes below zero, whatever
\* the lag of the timer or of the reader.
BlocksReadyNonNeg ==
  upset \cap {"overlap", "reenable"} = {} => blocks_ready >= 0

\* The client never gets an offset whose block reaches beyond its mapping (the
\* mmap'd ring ends at rxbuf_size), whatever the lag.
RdInRing ==
  upset \cap {"overlap", "reenable"} = {} /\ rpc = "copy" =>
    rd_ptr + B <= rxbuf_size

\* No variable of the driver leaves its bounds, however late timer and reader
\* are: the unsigned offsets and the signed counter that are compared with them.
StateInBounds == TypeOK /\ BlocksReadyNonNeg /\ RdInRing

\* What is announced has been written, and what is handed out is what was
\* announced: the counter, both pointers and the memory agree.
DeliveredIsWritten == ReadyIsWritten /\ NoStaleBlock

\* At the 0->1 edge of the enable bit the writer is in STANDBY, the only state
\* in which it resets rx_buf_wr (comment of the ENABLE ioctl, 352-354).
EdgeRestartsWriter == [][rx_en = 0 /\ rx_en' = 1 => hwState = "STANDBY"]_vars

\* A read waiting for a block the FPGA has written is woken (no tick is lost to
\* the arithmetic of the timer or to the order of ENABLE's stores).
ReaderWakes ==
  /\ in_use = 1 /\ rpc = "wait" /\ epc = "idle" /\ hwState = "RUN" /\ upset = {}
  /\ total >= (pos + 1) * B
  ~> rpc # "wait" \/ upset # {}

\* What RxRing takes for granted of the FPGA is what the RTL's writer promises:
\* AxiMasterWr implements the same RingWriter.
W == INSTANCE RingWriter WITH state <- hwState, size <- hwSize,
                              wr_ptr <- rx_buf_wr, enable <- rx_en
WriterAsPromised == W!Spec

-----------------------------------------------------------------------------
(* The invariant the proofs of RxRingProofs use, checked by TLC first.      *)

Calm  == upset \cap {"overlap", "reenable"} = {}
Exact == upset \subseteq {"fault"}
Session == in_use = 1 /\ hwState = "RUN"

\* What the phases of an open file allow.
PhaseInv ==
  /\ hwState = "STANDBY" => inflight = 0
  /\ total + inflight <= MaxTotal
  /\ in_use = 0 => rpc = "idle" /\ epc = "idle" /\ tpc = "idle" /\ rx_en = 0
  /\ in_use = 1 /\ enables = 0 => hwState = "STANDBY" /\ rx_en = 0 /\ epc = "idle"
  /\ epc # "idle" => in_use = 1 /\ rxbuf_size > 0 /\ rx_en = 0
  /\ rx_en = 1 => in_use = 1 /\ rxbuf_size > 0
  /\ "reenable" \in upset => enables > 1
  /\ in_use = 1 /\ hwState = "DRAIN" => "reenable" \in upset
  /\ Session /\ "reenable" \notin upset => epc = "idle" /\ rx_en = 1
  /\ rpc # "idle" => in_use = 1 /\ rxbuf_size > 0 /\ max_blocks * B = rxbuf_size
  /\ tpc = "count" /\ t_age = "fresh" /\ "reenable" \notin upset => Session

\* What holds of the pointers however late the timer and the reader are.
CalmInv ==
  Calm =>
  /\ in_use = 1 /\ hwState = "STANDBY" =>
       /\ blocks_ready = 0 /\ rd_ptr = 0 /\ rpc \in {"idle", "wait"}
  /\ Session => /\ hwSize = rxbuf_size /\ rxbuf_size > 0
                /\ rx_buf_wr < rxbuf_size /\ rd_ptr < rxbuf_size
                /\ rd_ptr = (rd_ptr \div B) * B
  /\ blocks_ready >= 0
  /\ rpc \in {"check", "take"} => blocks_ready >= 1
  /\ rpc = "snap" => blocks_ready >= max_blocks

\* What the pointers mean while nothing the driver cannot cope with happened:
\* each of the three is where its position in the stream lies on the ring.
ExactInv ==
  Exact =>
  /\ told = pos
  /\ pos >= 0 /\ pos + Taken + blocks_ready <= counted /\ counted * B <= total
  /\ in_use = 1 /\ hwState = "STANDBY" =>
       /\ total = 0 /\ counted = 0 /\ pos = 0
       /\ epc \in {"blocks_ready", "on"} \/ rx_en = 1 => timer_wr_ptr = 0
  /\ Session => /\ At(total, rx_buf_wr, rxbuf_size)
                /\ At(counted * B, timer_wr_ptr, rxbuf_size)
                /\ At(pos * B, rd_ptr, rxbuf_size)
  /\ Session /\ tpc = "count" /\ t_age = "fresh" =>
       counted * B + Ahead(timer_wr_ptr, t_wr, rxbuf_size) <= total

\* The ring holds the end of the stream: every place its last burst.
MemInv ==
  Exact /\ Session =>
    \A y \in (total + inflight) - rxbuf_size..(total + inflight) - 1 :
      y >= 0 => mem[y % rxbuf_size] = y

IInv == TypeOK /\ PhaseInv /\ CalmInv /\ ExactInv /\ MemInv
=============================================================================
