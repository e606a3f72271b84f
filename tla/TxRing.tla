------------------------------- MODULE TxRing -------------------------------
(* The transmit path: tx.c fills the mapped ring block by block and hands each
   block over with write(); the kernel driver waits for room, flushes the cache
   over the new block and publishes tx_buf_wr; the FPGA reads the ring in bursts.

   Offsets and sizes are in AXI bursts, the unit in which tx_buf_rd moves; a
   block (rx_block_size, used for both directions) is B of them.  The FPGA is
   what axi_master_rd.vhd promises, see AxiMasterRd.  It runs beside every step
   of the client and of write().

   History variables: mem (which burst of the client's stream the processor has
   put at each place), dirty (places that may still be in its cache only), sent
   and got (bursts published, bursts the FPGA has read), upset ("full": write()
   filled the ring to the last byte, "chain": the FPGA read on beyond what was
   published; sent and got stop there).                                       *)
EXTENDS RingOps, FiniteSets

CONSTANTS B,          \* rx_block_size, in bursts
          Sizes,      \* the sizes a client may mmap, in bursts
          Prefill,    \* prefill_blocks: blocks of silence before ENABLE
          MaxOpens,   \* bound: how often the device is opened
          MaxTotal    \* bound: bursts published in one session

ASSUME BAssumption == B \in Nat /\ B > 0
ASSUME SizesAssumption ==
  IsFiniteSet(Sizes) /\ \A s \in Sizes : s \in Nat /\ \E n \in 1..s : s = n * B
ASSUME BoundsAssumption == Prefill \in Nat /\ MaxOpens \in Nat /\ MaxTotal \in Nat

VARIABLES
  hwState, hwSize, tx_buf_rd, busy, tx_en, tx_buf_wr,  \* the FPGA, its registers
  in_use, opens, txbuf_size, tx_wr_ptr,                \* the open file
  cpc, wr, left,                                       \* tx_tcp_session
  mem, dirty, sent, got, upset                         \* history

hwVars   == <<hwState, hwSize, tx_buf_rd, busy>>
fileVars == <<in_use, opens, txbuf_size>>
cVars    == <<cpc, wr, left>>
history  == <<mem, dirty, sent, got, upset>>
vars     == <<hwVars, tx_en, tx_buf_wr, fileVars, tx_wr_ptr, cVars, history>>

Places == UNION {0..s-1 : s \in Sizes}

\* The places of a block, or of a stretch of the ring that does not wrap.
Stretch(first, len) == first..first + len - 1

\* Slip: one block too many is kept free.
RoomStrict(rd) == Ahead(rd, wr, txbuf_size) < txbuf_size - B

\* The wait condition of write(), req.wr being the client's wr.
Room(rd) == Ahead(rd, wr, txbuf_size) <= txbuf_size - B

\* Slip: the last place before the end of the ring is not flushed.
FlushedNoWrap == LET flush_len == Ahead(tx_wr_ptr, wr, txbuf_size)
                     to_end    == txbuf_size - tx_wr_ptr
                 IN IF wr = 0 THEN Stretch(tx_wr_ptr, to_end - 1)
                    ELSE Stretch(tx_wr_ptr, flush_len)

\* The places dma_sync_single_for_device covers: one chunk up to the end of the
\* ring, one from its start.
Flushed == LET flush_len == Ahead(tx_wr_ptr, wr, txbuf_size)
               to_end    == txbuf_size - tx_wr_ptr
               chunk     == IF flush_len <= to_end THEN flush_len ELSE to_end
           IN Stretch(tx_wr_ptr, chunk) \cup Stretch(0, flush_len - chunk)

Init ==
  /\ hwState = "STANDBY" /\ hwSize = 0 /\ tx_buf_rd = 0 /\ busy = 0
  /\ tx_en = 0 /\ tx_buf_wr = 0
  /\ in_use = 0 /\ opens = 0 /\ txbuf_size = 0 /\ tx_wr_ptr = 0
  /\ cpc = "none" /\ wr = 0 /\ left = 0
  /\ mem = [u \in Places |-> -1] /\ dirty = {} /\ sent = 0 /\ got = 0
  /\ upset = {}

-----------------------------------------------------------------------------
(* The FPGA reader, as the driver sees it.                                  *)

\* Slip: the reader does not look at the write pointer.
HasBurstAlways == Ahead(tx_buf_rd, tx_buf_wr, hwSize) >= 0

HasBurst == Ahead(tx_buf_rd, tx_buf_wr, hwSize) >= 1

HwLatch ==
  /\ hwState = "STANDBY" /\ tx_en = 1
  /\ hwState' = "RUN" /\ hwSize' = txbuf_size /\ tx_buf_rd' = 0
  /\ UNCHANGED <<busy, tx_en, tx_buf_wr, fileVars, tx_wr_ptr, cVars, history>>

HwStart ==
  /\ hwState = "RUN" /\ busy = 0 /\ HasBurst
  /\ busy' = 1
  /\ UNCHANGED <<hwState, hwSize, tx_buf_rd, tx_en, tx_buf_wr, fileVars,
                 tx_wr_ptr, cVars, history>>

\* A burst ends; next = 1 when another one starts right behind it, for which
\* HasBurst still counts the one that ends.
HwDone(next) ==
  /\ hwState = "RUN" /\ busy = 1 /\ (next = 1 => HasBurst)
  /\ tx_buf_rd' = Bump(tx_buf_rd, 1, hwSize)
  /\ busy' = next
  /\ got' = IF upset = {} THEN got + 1 ELSE got
  /\ upset' = IF upset = {} /\ next = 1 /\ got + 1 = sent THEN {"chain"} ELSE upset
  /\ UNCHANGED <<hwState, hwSize, tx_en, tx_buf_wr, fileVars, tx_wr_ptr, cVars,
                 mem, dirty, sent>>

HwStop ==
  /\ hwState = "RUN" /\ busy = 0 /\ tx_en = 0
  /\ hwState' = "STANDBY"
  /\ UNCHANGED <<hwSize, tx_buf_rd, busy, tx_en, tx_buf_wr, fileVars, tx_wr_ptr,
                 cVars, history>>

-----------------------------------------------------------------------------
(* open, mmap, ENABLE and release.                                          *)

\* A burst of the session before has long ended when a file is opened again.
Open ==
  /\ in_use = 0 /\ opens < MaxOpens /\ busy = 0
  /\ in_use' = 1 /\ opens' = opens + 1
  /\ hwState' = "STANDBY" /\ hwSize' = 0 /\ tx_buf_rd' = 0 /\ tx_en' = 0
  /\ tx_buf_wr' = 0 /\ tx_wr_ptr' = 0
  /\ txbuf_size' = 0 /\ cpc' = "none" /\ wr' = 0 /\ left' = 0
  /\ mem' = [u \in Places |-> -1] /\ dirty' = {} /\ sent' = 0 /\ got' = 0
  /\ upset' = {}
  /\ UNCHANGED busy

\* The TX ring is mapped once per open file, before a client is accepted.
Mmap ==
  /\ in_use = 1 /\ txbuf_size = 0
  /\ \E size \in Sizes : txbuf_size' = size
  /\ UNCHANGED <<hwVars, tx_en, tx_buf_wr, in_use, opens, tx_wr_ptr, cVars,
                 history>>

\* The session calls it once, with the enable bit still clear from open().
Enable ==
  /\ cpc = "fill" /\ left = 0 /\ tx_en = 0
  /\ tx_en' = 1
  /\ UNCHANGED <<hwVars, tx_buf_wr, fileVars, tx_wr_ptr, cVars, history>>

\* Runs when the last reference to the file goes, so never beside a write.
Release ==
  /\ in_use = 1 /\ cpc \in {"none", "done"}
  /\ in_use' = 0 /\ tx_en' = 0
  /\ UNCHANGED <<hwVars, tx_buf_wr, opens, txbuf_size, tx_wr_ptr, cVars,
                 history>>

-----------------------------------------------------------------------------
(* The client's session.  While cpc = "fill" it is writing to the block at wr:
   silence as long as left counts prefill blocks, what recv brings afterwards. *)

Accept ==
  /\ in_use = 1 /\ txbuf_size > 0 /\ cpc = "none"
  /\ cpc' = "fill" /\ wr' = 0 /\ left' = Prefill
  /\ UNCHANGED <<hwVars, tx_en, tx_buf_wr, fileVars, tx_wr_ptr, history>>

\* Slip: the loop counter goes on falling.
NextLeftBelow == left - 1

NextLeft == IF left > 0 THEN left - 1 ELSE 0

\* The block is complete, wr moves on, write() is called (req.wr < txbuf_size).
Fill ==
  /\ cpc = "fill" /\ (left > 0 \/ tx_en = 1) /\ sent + B <= MaxTotal
  /\ cpc' = "wait" /\ wr' = (wr + B) % txbuf_size
  /\ left' = NextLeft
  /\ mem' = [p \in Places |-> IF p \in Stretch(wr, B) THEN sent + (p - wr) ELSE mem[p]]
  /\ dirty' = dirty \cup Stretch(wr, B)
  /\ UNCHANGED <<hwVars, tx_en, tx_buf_wr, fileVars, tx_wr_ptr, sent, got, upset>>

\* wait_event; the timer wakes the queue on every tick.
WriteWait ==
  /\ cpc = "wait" /\ Room(tx_buf_rd)
  /\ cpc' = "flush"
  /\ upset' = IF upset = {} /\ sent + B - got = txbuf_size THEN {"full"} ELSE upset
  /\ UNCHANGED <<hwVars, tx_en, tx_buf_wr, fileVars, tx_wr_ptr, wr, left,
                 mem, dirty, sent, got>>

WriteFlush ==
  /\ cpc = "flush" /\ cpc' = "publish"
  /\ dirty' = dirty \ Flushed
  /\ UNCHANGED <<hwVars, tx_en, tx_buf_wr, fileVars, tx_wr_ptr, wr, left,
                 mem, sent, got, upset>>

WritePublish ==
  /\ cpc = "publish" /\ cpc' = "fill"
  /\ tx_wr_ptr' = wr /\ tx_buf_wr' = wr
  /\ sent' = IF upset = {} THEN sent + B ELSE sent
  /\ UNCHANGED <<hwVars, tx_en, fileVars, wr, left, mem, dirty, got, upset>>

\* recv fails, or another thread has closed the descriptor: the session ends.
Disconnect ==
  /\ cpc = "fill" /\ tx_en = 1
  /\ cpc' = "done"
  /\ UNCHANGED <<hwVars, tx_en, tx_buf_wr, fileVars, tx_wr_ptr, wr, left, history>>

-----------------------------------------------------------------------------
Hw      == HwLatch \/ HwStart \/ HwDone(0) \/ HwDone(1) \/ HwStop
Session == Accept \/ Fill \/ Enable \/ Disconnect
Write   == WriteWait \/ WriteFlush \/ WritePublish
Next    == Hw \/ Open \/ Mmap \/ Release \/ Session \/ Write

Spec == Init /\ [][Next]_vars

\* The radio takes the samples, the timer wakes the writer.  Nothing is assumed
\* of the network.
LiveSpec == Spec /\ WF_vars(HwLatch) /\ WF_vars(HwStart)
                 /\ WF_vars(HwDone(0) \/ HwDone(1)) /\ WF_vars(Write)

-----------------------------------------------------------------------------
(* Properties.                                                              *)

TypeOK ==
  /\ hwState \in {"STANDBY", "RUN"} /\ hwSize \in Sizes \cup {0}
  /\ tx_buf_rd \in Nat /\ busy \in {0, 1} /\ tx_en \in {0, 1} /\ tx_buf_wr \in Nat
  /\ in_use \in {0, 1} /\ opens \in 0..MaxOpens /\ txbuf_size \in Sizes \cup {0}
  /\ tx_wr_ptr \in Nat
  /\ cpc \in {"none", "fill", "wait", "flush", "publish", "done"}
  /\ wr \in Nat /\ left \in 0..Prefill
  /\ mem \in [Places -> Int] /\ dirty \subseteq Places
  /\ sent \in Nat /\ got \in Nat
  /\ upset \in {{}, {"full"}, {"chain"}}

\* The samples the FPGA transmits are the client's, in order, and out of the
\* cache: for as long as a burst is read, its place holds that burst.
TxIntact ==
  upset = {} /\ busy = 1 => mem[tx_buf_rd] = got /\ tx_buf_rd \notin dirty

\* The block the client writes to, before it asks write() for room, holds
\* nothing the FPGA has still to read: tx.c relies on the previous write()
\* having left a block free.
FillIsFree ==
  upset = {} /\ cpc = "fill" =>
    \A x \in got..sent - 1 : x % txbuf_size \notin Stretch(wr, B)

\* No byte is handed to the FPGA that is still in the processor's cache.
PublishedIsFlushed ==
  upset = {} => \A x \in got..sent - 1 :
                  x % txbuf_size \notin dirty /\ mem[x % txbuf_size] = x

\* What is published and not read yet stays as it was published: it has left the
\* cache, and the client's next block is elsewhere.
UnreadIsSafe == FillIsFree /\ PublishedIsFlushed

\* The prefill, which the FPGA does not drain yet, never blocks, whatever the
\* size of the ring: otherwise ENABLE would never be reached.
PrefillNeverBlocks == cpc = "wait" /\ tx_en = 0 => Room(tx_buf_rd)

\* A writer waiting for room gets it, as long as the ring was never overfilled.
WriterProceeds == cpc = "wait" ~> cpc # "wait" \/ upset # {}

\* The distance write() waits on is what the ring holds, the new block included:
\* a full ring never looks like an empty one to the reader ("byte offset, data
\* is valid up to here", ad936x-axi.c 186).
AvailIsData ==
  cpc = "flush" /\ "chain" \notin upset =>
    Ahead(tx_buf_rd, wr, txbuf_size) = sent + B - got

\* What TxRing takes for granted of the FPGA is what the RTL's reader promises.
R == INSTANCE RingReader WITH Offsets <- Places \cup {0}, state <- hwState, size <- hwSize,
                              rd_ptr <- tx_buf_rd, enable <- tx_en,
                              wr_ptr <- tx_buf_wr
ReaderAsPromised == R!Spec

-----------------------------------------------------------------------------
(* The invariant the proofs of TxRingProofs use, checked by TLC first.      *)

\* What the phases of an open file allow.
PhaseInv ==
  /\ in_use = 0 => tx_en = 0 /\ cpc \in {"none", "done"}
  /\ cpc # "none" => /\ txbuf_size > 0 /\ tx_wr_ptr + B <= txbuf_size
                     /\ wr + B <= txbuf_size /\ wr = (wr \div B) * B
  /\ cpc \notin {"none", "done"} => in_use = 1
  /\ tx_en = 1 => in_use = 1 /\ left = 0 /\ cpc # "none"
  /\ in_use = 1 /\ tx_en = 0 => hwState = "STANDBY" /\ tx_buf_rd = 0 /\ busy = 0
  /\ in_use = 1 /\ tx_en = 0 => got = 0 /\ cpc # "done"
  /\ hwState = "STANDBY" => busy = 0
  /\ in_use = 1 /\ cpc = "none" => tx_wr_ptr = 0 /\ sent = 0
  /\ hwState = "RUN" => hwSize = txbuf_size /\ hwSize > 0 /\ cpc # "none"
  /\ tx_buf_wr = tx_wr_ptr

\* What the pointers mean while the ring was never overfilled nor overread.
ExactInv ==
  upset = {} =>
  /\ sent = (sent \div B) * B
  /\ hwState = "STANDBY" /\ in_use = 1 => got = 0 /\ tx_buf_rd = 0
  /\ got <= sent
  /\ cpc # "none" =>
       /\ At(got, tx_buf_rd, txbuf_size) /\ At(sent, tx_wr_ptr, txbuf_size)
       /\ IF cpc \in {"fill", "done"} THEN /\ wr = tx_wr_ptr
                                           /\ sent - got <= txbuf_size - B
          ELSE /\ wr = (tx_wr_ptr + B) % txbuf_size
               /\ sent + B - got <= txbuf_size
               /\ \A i \in 0..B-1 : mem[tx_wr_ptr + i] = sent + i
       /\ cpc \in {"flush", "publish"} => sent + B - got <= txbuf_size - B
       /\ cpc = "publish" => dirty \cap Stretch(tx_wr_ptr, B) = {}
  /\ busy = 1 => got < sent

IInv == TypeOK /\ PhaseInv /\ ExactInv /\ PublishedIsFlushed
=============================================================================
