# zyndra: verification of the sample paths

zyndra turns a Zynq board with an AD9361 transceiver into a network radio.  The
FPGA writes received samples into a ring in DDR and reads samples to transmit
from another one; a kernel driver hands the two rings to a user process block by
block; the process moves blocks between the rings and TCP or UDP clients.  Nobody
stops the radio: when software is late, samples are overwritten, and the code has
to notice, say how many, and go on.

This directory holds TLA+ models of that data path and of the radio's driver, the
TLC configurations that check them, and TLAPS proofs.  Line numbers below are those of the sources; short
names stand for

| name | file |
|------|------|
| `ad936x-axi.c` | `src/yocto/meta-custom/recipes-kernel/ad936x-axi/files/ad936x-axi.c` |
| `axi_master_wr.vhd`, `axi_master_rd.vhd`, `ad936x_axi.vhd` | `src/fpga/rtl/` |
| `ad936x_txrx.vhd` | `src/fpga/rtl/` |
| `ad9361_txrx.c`, `rx.c`, `tx.c`, `driver.c`, `net.c`, `diag.c`, `prbs.c` | `src/yocto/meta-custom/recipes-apps/ad9361-txrx/files/` |
| `ad936x-tcp.c` | `src/yocto/meta-custom/recipes-kernel/ad936x-tcp/files/ad936x-tcp.c` |
| `ad9361_rx.c` | `src/yocto/meta-custom/recipes-apps/ad9361-rx/files/ad9361_rx.c` |
| `ad9361_main.c`, `ad9361_conv.c` | `src/yocto/meta-custom/recipes-kernel/ad9361/files/` |

## 1. The system

```
 radio -> sample FIFO -> axi_master_wr -> RX ring (DDR) -> ad936x-axi.c read()  -> rx.c -> TCP/UDP client
 radio <- sample FIFO <- axi_master_rd <- TX ring (DDR) <- ad936x-axi.c write() <- tx.c <- TCP client
                 registers: enable bits, sizes, rx_buf_wr, tx_buf_rd, tx_buf_wr
```

| component | state it keeps | operations | talks to | hard part |
|-----------|----------------|------------|----------|-----------|
| AXI write master (`axi_master_wr.vhd`) | state machine, next address, published pointer, outstanding bursts, word FIFO | one clock edge | bus slave, sample FIFO, registers | requests and responses overlap; two pointers wrap in two processes; disabling with bursts outstanding |
| AXI read master (`axi_master_rd.vhd`) | state machine, next address, published pointer, word FIFO | one clock edge | bus slave, sample FIFO, registers | back-to-back bursts decided on values that are about to change; FIFO room for a whole burst |
| sample FIFOs, crossings, counters (`ad936x_axi.vhd`) | FIFOs, synchronizers, counters of dropped and missing samples | edges of two clocks | both masters, driver | clock crossings, dropped samples, a soft reset in a clock that may stand still |
| register file (`ad936x_axi.vhd`) | registers, half a write, a read under way | AXI-Lite reads and writes | driver, masters | address and data in either order, reads beside hardware updates |
| serializer and deserializer (`ad936x_txrx.vhd`) | half samples, the frame phase | edges of the chip's clock | chip, sample FIFOs | two alignments of the frame; a sample spread over two edges |
| receive path of the driver (`ad936x-axi.c`) | `rd_ptr`, `timer_wr_ptr`, `blocks_ready`, ring size | open, mmap, ENABLE, timer, read, release | writer through `rx_buf_wr`, RX task | timer, read and ioctl interleave without a lock; ring arithmetic after an overrun; a pointer left by the last session |
| transmit path of the driver (`ad936x-axi.c`) | `tx_wr_ptr`, ring size | open, mmap, ENABLE, write, release | reader through `tx_buf_wr` and `tx_buf_rd`, TX task | full and empty rings have the same pointers; cache flush before publishing |
| streaming process (`ad9361_txrx.c`, `rx.c`, `tx.c`, `driver.c`) | descriptor, `rx_session_active`, mappings | reconnect loop, RX task, TX task | driver, clients | two threads share and close one descriptor; one waits for a flag of the other |
| network helpers (`net.c`) | sockets; bytes carried between UDP blocks | accept, send, receive | clients | partial sends, bytes carried over sessions |
| diagnostics, PRBS (`diag.c`, `prbs.c`) | table, place in the sequence | tests of the data path | driver | resynchronisation of the checker |
| in-kernel TCP server (`ad936x-tcp.c`) | its own pointer | accept and polling loop, module exit | registers of an earlier FPGA | no overrun detection; stop while a client is served |
| legacy receiver (`ad9361_rx.c`) | slots, two semaphores, two block numbers | copying loop, TCP and UDP thread | mapped registers | slots shared by two threads; block number kept over a reconnect |
| AD9361 driver, vendored (`ad9361_main.c`, `ad9361_conv.c`) | its picture of the chip: state machine, calibrations, LOs, profiles, gain tables, clocks, filters | sysfs, IIO and debugfs calls, a work item | chip over SPI, clock framework | failing calls in the middle; caches of what the chip holds; the work item beside the calls |
| FPGA top level, host tools, QEMU model, images, statistics | | | | see "Not modelled" |

What makes each of them correct:

* writer and reader: bursts stay in the ring; the published pointer covers
  exactly what has completed (written) or been taken (read); no FIFO overflows;
  a new session starts at 0 with nothing of the old one under way;
* receive path: what `blocks_ready` announces has been written; a block is never
  older than the place of the stream it is delivered for; blocks and `lost_bytes`
  add up; overruns are reported when they happen and only then; a waiting reader
  wakes;
* transmit path: the FPGA sends the client's blocks, in order, flushed out of the
  cache; the client never writes where the FPGA has still to read; a writer that
  waits gets on;
* streaming process: a device is opened only after the last session is over;
  ENABLE is called once, with every ring mapped; nobody waits for a partner that
  has gone;
* the way between chip and masters: a sample stays whole and in order, what is
  missing has been counted, nothing of an earlier session comes along;
* the other receivers: each client gets one stream, in order, without a hole that
  is not counted; the UDP datagrams carry every byte once;
* the driver of the chip: between calls the chip is as user space asked for,
  whatever failed on the way, and every cached value is what the chip holds.

## 2. Modules

| module | models | abstracts from |
|--------|--------|----------------|
| `RingOps` | the arithmetic on ring offsets that driver and RTL share: `Ahead`, `Bump`, `At` | |
| `RingWriter` | abstract: what the receive writer promises to software | everything but state, size, pointer, bursts in flight, enable bit |
| `AxiMasterWr` | every process of `axi_master_wr.vhd`, with the sample FIFO | contents of words, AXI constants |
| `RxRing` | receive path of the driver, the FPGA as in `RingWriter` | addresses (offsets count bursts), debugfs statistics |
| `RingReader` | abstract: what the transmit reader promises | as `RingWriter` |
| `AxiMasterRd` | every process of `axi_master_rd.vhd`, with the sample FIFO | as `AxiMasterWr` |
| `TxRing` | transmit path of the driver, `tx_tcp_session` of `tx.c`, the FPGA as in `RingReader` | the same |
| `Session` | `main`, RX task, TX task, the life of the open file | samples; the rings are `RxRing` and `TxRing` |
| `IqCrossing` | the control bits on their way into the chip's clock, the pulse crossings and the event counters | metastability: a bit arrives after its synchronizer's stages |
| `SampleIn` | deserializer, receive FIFO with its writer and reader, overflow counter | words: a half word is the number of its sample |
| `SampleOut` | transmit FIFO, what it offers, serializer, underrun counter | the same |
| `AxiLite` | AXI-Lite port and register file | response codes, byte strobes (ignored by the code) |
| `UdpSender` | `rx_send_udp`, `udp_send_ring` | sockets |
| `Ad936xTcp` | accept and polling loop of `ad936x-tcp.c` | cache maintenance |
| `LegacyRx` | `main`, `net_task_tcp`, `net_task_udp` of `ad9361_rx.c` | statistics |
| `PrbsCheck` | `prbs.c`, the checker of `diag_prbs` | the feeding thread |
| `Streams` | the seven above, one owner per behaviour | |
| `Ad9361Ensm` | operators: the enable state machine | register values no decision reads |
| `Ad9361Cal` | operators: calibrations, bandwidths, attenuation, self test | the same |
| `Ad9361Tune` | operators: tuning of the digital interface (`ad9361_conv.c`) | clock and data delay by their difference |
| `Ad9361Radio` | calls of user space on these, the work item, the lock, a new initialisation | |
| `Ad9361Lo` | LOs, fastlock, external LO, gain tables | frequencies in MHz |
| `Ad9361Rates` | clock chain, FIR filters | rates in kHz |
| `Ad9361Driver` | the three above, one topic per behaviour, and the sums | |
| `RingLemmas`, `RxRingProofs`, `TxRingProofs`, `AxiMasterWrProofs`, `AxiMasterRdProofs`, `ControlProofs`, `StreamsProofs`, `SampleProofs` | theorems and lemmas | |

How they fit together.  `RingWriter` stands between hardware and driver:
`AxiMasterWr` implements it (`ImplementsWriter`), and the FPGA actions of `RxRing`
stay within it (`WriterAsPromised`); both are checked and proved.  `RingReader` does
the same for `AxiMasterRd` and `TxRing`.  `Session` uses no
module, but states what the two rings take for granted of the process above them:
`EnabledOnce` (a part of `OpensAgree`) is the assumption of the theorem `RxRingProofs!EdgeSeen`,
`ReopenNeverBusy` (another) the reason why `Open` finds no call of the session before;
`ControlProofs` proves both.
`TxRing`'s `PrefillNeverBlocks` is in turn why `Session!TxPrefill` does not wait.

Definitions whose comment begins with "Slip" are near misses of the definition
that follows them, each a plausible bug (a dropped wrap, an off-by-one, a missing
reset).  No specification uses them; put in the place of the definition, each
breaks the property it was written against.

### RxRing

Offsets are in bursts, because `rx_buf_wr` moves by whole bursts; a block is `B`
of them.  `read()`, the timer callback, the ENABLE ioctl and the FPGA are separate
processes, and every load or store the others can see is an action of its own:

* `HwLatch` ... `HwStop`: the FPGA.  `HwData` puts a burst into memory,
  `HwResp` publishes it; between the two the data is there and the pointer is not.
* `Open` (125-167), `Mmap`, `Release` (169-182).  `Open` resets the FPGA, which
  leaves `rx_buf_wr` as it is, and starts the timer last.
* `EnableOff`, `EnableRdPtr`, `EnableTimerPtr`, `EnableReady`, `EnableOn`: the
  stores of the ioctl (346-382), in order.
* `TimerRead`, `TimerCount` (96-122): the register is read first and used later.
* `ReadEnter`, `ReadWake`, `ReadCheck`, `ReadSnap`, `ReadTake`, `ReadCopy`,
  `ReadFault` (189-259): the wait, the overrun test, the snap, the decrement, the
  copy and its failure.  `read` is entered only with a mapped ring, as `rx_task`
  does.

`upset` records what the driver cannot cope with, and the properties say which of
these they exclude: "overlap" (a tick counted a pointer from before the writer
restarted), "lag" (a whole ring between two ticks), "deep" (an overrun handled one
and a half rings late), "fault" (`copy_to_user` failed), "reenable" (a second
ENABLE).  "overlap" and "deep" are the two findings below; "lag" needs a timer
late by a whole ring.

### AxiMasterWr and AxiMasterRd

A step is one rising edge of `i_aclk`.  `Clock` is the conjunction of what each
process of the architecture does at that edge, one operator per process and per
state of `proc_sm`; all of them read the values before the edge.  The AXI slave is
external: it drives its ready and valid signals as it likes, within the protocol
(no response without a burst, no beat that is not due).  Other steps are the
sample clock (`Sample`), the crossing of the enable bit (`CrossEnable`), software
(`SetEnable`, `SetWr`) and the soft reset.

`s_pending_cnt` keeps its four bits (`% 16`).  `prog_full` is a registered flag of the
vendor's FIFO (`xpm_fifo_sync`), so `s_fifo_prog_full` is the set of values it may show at
an edge: whether the level reaches the threshold now, or in one of the `FlagLag` cycles
before, which `late` keeps.  `Idle`, `RRecv` and `WSend` take any of them.

`AxiMasterRd!SetWr` is `write()` as it is, not as it is meant to be: it may fill the
ring to the last burst and go on from there (`tx_full` below).  `avail` is a history
variable: the published bursts ahead of the master, -1 once it has read on or software
has gone round it.

### TxRing

`Fill` is a block of `tx_tcp_session` (40-59), silence during the prefill;
`WriteWait`, `WriteFlush`, `WritePublish` are `write()` (261-300).  The client puts
the block into memory before `write()` looks for room, as the code does; `dirty`
is the set of places that may still be in the processor's cache (a line may also
be written back early, which only makes data visible sooner).  `HwDone(1)` is the
reader going on to the next burst in the cycle that ends the last one.

### Session

Three threads.  `fd`, the mappings and the calls inside the kernel are the
references that keep the driver's file open (`InUse`): `close` of a descriptor
releases nothing while a mapping or a call holds the file.  `driver.fd` is loaded
before the system call that uses it, so `RxGet`/`RxRead` and `TxPut`/`TxWrite` are
two steps.  The start flag, its mutex and condition variable are `RxAnnounce`,
`TxCheck` and the state "asleep".  `Faults` allows `mmap` and `accept` to fail.

### SampleIn, SampleOut and IqCrossing

An edge of either clock moves every process of its domain from the values before
it.  The chip's clock has at most two edges to one of the bus clock (122.88 MHz
against 100 MHz), and may have none.  `SampleIn` records in `hit` whether it had one while
the soft reset of `open()` was up, which is a few register writes long.  Without it the
reset is never seen in that clock, and the receive FIFO keeps samples of the session
before; the properties name this case.  `SampleOut` records in its `hit` whether ENABLE found
the reset of the FIFO over (`wbusy`) and zeros latched, and claims a fresh session only
then.  The FIFOs of the vendor are external: a reset empties them and keeps them busy for
a while, and either side learns late what the other has done.  In the transmit FIFO
the write side asks for the reset (`asked`) and stays busy until the read side has entered
it and left it again (`rbusy`), each side at its own clock.  `Deserialize` has the four values of the frame in the two
alignments; a slip changes from one to the other and costs a sample.

### AxiLite

The four processes of the port move together at an edge.  The master is external and
has one write and one read under way, as the processor's port does; the slave
would lose a response if it had two.

### Streams

The programs exclude one another on a board, and the three parts of the FPGA share
only the control bits, so `owner` picks one for a behaviour and the others stand
still: a composition in name, which keeps one run where there would be seven.
In `UdpSender` a byte is named by its session and its place, and the static buffer
lives on through `Again`.  In `Ad936xTcp` the FPGA writes beside the server, which
does not look for an overrun (`lapped`).  `CtrlReg` is the offset at which the FPGA
decodes its control bits: "0x08" is what the server was written for; today's FPGA
has "0x04".  In `LegacyRx` each semaphore operation is a step.

### The AD9361 driver

The operators of `Ad9361Ensm`, `Ad9361Cal`, `Ad9361Tune` take a record of the driver's
and the chip's state and return it with a return value, one operator per C function;
the calls are actions of `Ad9361Radio` under `phy->lock`, two steps where the work item
can come between.  Setting a rate may tune the interface, and tuning it sets rates: in the code
`ad9361_dig_tune` calls itself by way of the clock chain.  The inner call never sweeps rates
again, so `Ad9361Tune` writes the two levels down one after the other (`RunAtRate`, `ChainTune`,
`RunAtRates`) without recursion.  What the chip answers (which phase
converges, which calibration times out, which delays pass) is chosen freely.  `ask` is what user space asked for and
the code accepted.  `upset`, `luck` and `fine` name what the code does not cope with;
the properties are claimed for behaviours without, and section 5 lists them.

## 3. The runs

All numbers are distinct states.

| run | module, cfg | checks | states |
|-----|-------------|--------|--------|
| `rx` | `RxRing`, `RxRing.cfg` | `StateInBounds`, `DeliveredIsWritten`, `AccountExact`, `OverrunIsRealUnlessUpset`, `EdgeRestartsWriter`, `WriterAsPromised`, `ReaderWakes` | 1,065,402 |
| `rx_deep_overrun` | `RxRing`, `RxRing_deep.cfg` | `OverrunIsReal`, violated | |
| `rx_enable_race` | `RxRing`, `RxRing_race.cfg` | `OverrunIsReal`, violated | |
| `axi_wr` | `AxiMasterWr`, `AxiMasterWr.cfg` | `TypeOK`, `BurstsInRing`, `StandbyIsQuiet`, `ImplementsWriter`, `DisableStops` | 23,888 |
| `axi_rd` | `AxiMasterRd`, `AxiMasterRd.cfg` | `TypeOK`, `BurstsFitRing`, `IdleStartsPublished`, `ImplementsReader`, `BurstIsRead` | 17,899 |
| `axi_rd_beyond` | `AxiMasterRd`, `AxiMasterRd_beyond.cfg` | `NeverBeyond`, violated | |
| `tx` | `TxRing`, `TxRing.cfg` | `TypeOK`, `TxIntact`, `UnreadIsSafe`, `ReaderAsPromised`, `PrefillNeverBlocks`, `WriterProceeds` | 23,717 |
| `tx_full` | `TxRing`, `TxRing_full.cfg` | `AvailIsData`, violated | |
| `session` | `Session`, `Session.cfg` | `OpensAgree`, `EnableCoversBoth`, `LeaverIsDropped`, `HealthySessionEnds` | 2,943 |
| `session_hang` | `Session`, `Session_hang.cfg` | `SessionEnds`, violated | |
| `streams` | `Streams`, `Streams.cfg` | `UdpIntact`, `OneStreamInOrder`, `SlotsAgree`, `PrbsSound`, `SamplesWhole`, `RegsAsWritten`, `StopEndsStream` | 1,529,175 |
| `ad9361` | `Ad9361Driver`, `Ad9361Driver.cfg` | `RadioAsAsked`, `LosAgree`, `ClocksHold`, `SumsHold`, `LoWriteReturns`, `LoSteps` | 300,977 |

Several of these are conjunctions of named parts, defined next to them:
`StateInBounds` of `TypeOK`, `BlocksReadyNonNeg` and `RdInRing`; `DeliveredIsWritten`
of `ReadyIsWritten` and `NoStaleBlock`; `BurstsInRing` of `AwInRing`, `AwMatchesPtr` and
`ShortByFlag`; `BurstsFitRing` of `RoomForBurst`, `ArInRing` and `ArMatchesPtr`;
`UnreadIsSafe` of `FillIsFree` and `PublishedIsFlushed`; `OpensAgree` of `TypeOK`,
`ReopenNeverBusy`, `EnabledOnce`, `SomebodyWillEnable` and `SleeperWillBeTold`; `SamplesWhole` of
`SamplesInIntact` and `SamplesOutIntact`; `LosAgree`, `ClocksHold` and `SumsHold` of
the definitions above them.

Bounds, and why they are enough:

* `RxRing.cfg`: blocks of two bursts, so that a pointer can be inside a block;
  rings of two and of three blocks (half a ring is a whole number of blocks for
  one, not for the other), and both sizes one after the other, because the second
  session inherits the first one's pointer; `MaxTotal` = 9 is more than two rings
  of the smaller size (two overruns in one session) and one and a half of the
  larger; one burst in flight separates data from pointer; `MaxOpens` = 2.
  `CountBound` stops the timer where a pointer outside the ring would be counted
  again and again; it does not bind before an upset.  `RxRing_deep.cfg` uses up to
  four rings, where the deep overrun happens; `RxRing_race.cfg` two sessions.
  `EnablesPerOpen` is 1, which is what `Session!EnabledOnce` says; the theorems
  hold for any number.
* `AxiMasterWr.cfg`, `AxiMasterRd.cfg`: bursts of two beats (a first and a last
  beat), FIFOs of four bursts as in the RTL, a ring of one burst (every burst
  wraps) and one of three, for the read master one of two as well.  Three outstanding
  bursts on a ring of one or three let the next address lap the published pointer.  A
  ring of one has only one offset, so `BurstIsRead` says nothing of it; the other rings
  are for that.  `FlagLag` is 1, so that the flag may be right and wrong at an edge;
  the theorems hold for any.
* `TxRing.cfg`: rings of two, three and four blocks and a prefill of two, so that
  the prefill goes once round the smallest ring, fills the next one up to the free
  block, and leaves room in the largest; 14 bursts go round the larger rings more
  than once; two sessions.
* `Streams.cfg`: `UdpSender` with blocks of five bytes and datagrams of three carries
  0, 1 and 2 bytes over; three sessions end in each way.  `Ad936xTcp`: a ring of two
  blocks of two units, eleven units, two clients.  `LegacyRx`: slots of two bytes do
  not divide the ring of five; three slots, twelve bytes, two clients.  `PrbsCheck`
  runs the shift register through its whole period, 65535 states, and checks blocks of
  four samples on a table of five places, so that a block wraps.  `SampleIn`: a FIFO
  of two, six samples, one slip, two openings: two drops, a reset that meets an odd
  number of them, and a second session are all reached.  `SampleOut`: a FIFO of two,
  three samples, eight edges, two openings, likewise.  Synchronizers have two stages
  for the RTL's four: more only delays.  `AxiLite`: two registers of the driver, one of
  the hardware, one offset without, three commands.
* `Ad9361Driver.cfg`: three calls of the radio, three of the LOs, four of the baseband,
  after set-up, on boards in FDD and TDD, with and without the ADI converter core;
  the LOs in two bands on either side of a gain table's limit and one where both
  synthesizers share a divider; three sample rates on either side of the limits at
  which filters become necessary or impossible; filters of five kinds (`DriverFilters`).
  The sums run over the windows, skews, frequencies and rates of `Sums`.
* `Session`: `Drop` and `Prefill` of 2 (one block could not be told from the last
  one); nothing else is bounded.

`CHECK_DEADLOCK FALSE` stands where the modelled system stops: in `RxRing` and
`TxRing` at the bound of opens and bursts, in `Streams` and `Ad9361Driver` at their
bounds of calls and samples, in `Session` where a failing call leaves tasks waiting
for ever (the finding) or where `main` gives up.  The AXI modules are checked for
deadlock.

### Fairness

* `RxRing!LiveSpec`: the hrtimer rearms itself as long as the file is open (122),
  and runnable threads are scheduled: weak fairness of the timer's two steps, of
  the wake-up of `read()` and of the ioctl.  Nothing is assumed of the FPGA or of
  the client; `ReaderWakes` speaks of blocks that have been written.
* `AxiMasterWr!LiveSpec`: the clock runs, and again and again there is a cycle in
  which the slave takes what it is offered and answers what it owes (`Served`): the
  memory interconnect does not refuse service for ever.
* `AxiMasterRd!LiveSpec`: the same, and the radio's sample clock runs (`Sample`);
  `ad936x_axi.vhd` drains the FIFO whether transmission is enabled or not.
* `TxRing!LiveSpec`: the FPGA reads what it may read, and the timer wakes a waiting
  `write()`.  That it reads is what `AxiMasterRd!BurstIsRead` shows: an enabled master
  moves on as long as the two pointers differ.  A full ring has equal pointers and stays
  unread until the next `write()`; `TxRing`'s FPGA sees it as empty, too.
* `StreamsSpec`: the thread of the in-kernel server is scheduled, and a client that is
  being served reads or leaves.  Nothing is assumed of `accept`: the module's removal
  waits for a client as long as the thread sleeps there, and `StopEndsStream` speaks
  of the streaming loop only.
* `DriverSpec`: the workqueue runs its item, and a call that may go on does.
* `Session!LiveSpec`: threads are scheduled; blocks come while the FPGA runs; a
  client comes when there is none, and a client sends or leaves, as a TCP peer
  does; what a client that has left had sent is finite (strong fairness of
  `TxRecvEnds`).

### What the violated properties show

Each of these runs ends in a counterexample of the code as it is.

1. `rx_deep_overrun`.  `lost_bytes` is a distance on the ring (212-217).  When the
   reader is one and a half rings late or more, whole rings are missing from it,
   so `blocks_ready` stays at or above `max_blocks`, and the next `read()` takes the
   overrun branch again though the block at `rd_ptr` was not overwritten: `rd_ptr`
   steps back over blocks already delivered.  `AccountExact` and `ReadyIsWritten`
   hold up to that point.
2. `rx_enable_race`.  The timer runs from `open()` on.  Between the store of
   `timer_wr_ptr = 0` and the moment the FPGA has left STANDBY, `rx_buf_wr` is the
   last session's; a tick in that window counts up to a ring of blocks nobody
   wrote.
3. `axi_rd_beyond`.  On the last beat `s_has_burst` is computed from `s_rd_ptr`
   before it moves, so it still counts the burst that ends and is always true: with
   room in its FIFO the master starts another burst, published or not, passes
   `i_wr_ptr`, and then sees almost a full ring to read.  Out of IDLE the test is
   right (`IdleStartsPublished`).
4. `tx_full`.  When the block to publish would fill the ring to the last byte,
   `req.wr` equals `tx_buf_rd`, the distance is 0 and `write()` passes.  The
   published ring reads as an empty one, and the master reads nothing of it until the
   next `write()` moves the pointer (`BurstIsRead` holds only while pointers differ).
5. `session_hang`.  When `driver_rx_mmap`, `driver_tx_mmap` or `accept` fails in one
   task before the FPGA is enabled, the other sleeps for ever on
   `rx_session_active` or inside `read()`; closing the descriptor wakes nobody.

Other places where comment and code part, seen while modelling and not among the
runs:

* both masters' port comment says "0 = finish current burst then go standby" (30);
  in W_SEND and R_RECV they go on from burst to burst without looking at
  `i_enable`;
* `axi_master_wr.vhd` 129-131 has the FIFO non-empty throughout W_SEND; a burst
  started back to back may be one word short, and one more for each cycle its flag is
  late, but no more (`ShortByFlag`);
* `axi_master_rd.vhd` 167 and 188 take `s_fifo_prog_full = '0'` for "FIFO has room".  The
  threshold leaves room for the word being taken and one burst, exactly, of the level as
  the flag shows it; for every cycle the flag is late the FIFO may be asked for one word
  more than `c_fifo_depth` (`RoomForBurst`), and `o_rready` does not look at the full flag;
* the comment of ENABLE (352-354) counts on the 0 to 1 edge to restart the writer;
  a second ENABLE on a running FPGA is over before the writer has reached STANDBY.
  The process calls it once (`EnabledOnce`), and then the edge is always seen
  (`EdgeRestartsWriter`);
* in `--rx-udp` mode nobody calls `driver_enable` (`rx.c` 88), so the first `read()`
  waits for ever; the usage text (`ad9361_txrx.c` 33) and README.md offer the mode;
* `ad936x-tcp.c` 26 says its registers "must match FPGA RTL", but the server writes its
  control bits at 0x08, which the FPGA decodes at 0x04;
* a prefill as long as the ring goes once round it (tx.c 44-50), and only the
  prefill modulo the ring is there when the FPGA starts.

## 4. The proofs

Checked by `tlapm`; they hold for every value of the constants that satisfies the
`ASSUME`s (sizes are positive, a ring is a whole number of blocks, fewer than 16
outstanding bursts for a four-bit counter).

`RingLemmas` has the arithmetic: `On(x, p, size)` says that place p of a ring holds
position x of a stream, as an equation x = p + k * size, and the lemmas say how the
code's operations move it: `OnNext`, `OnNextBlock`, `OnMod`, `OnBack`, `OnFloor`,
and `AheadExact`, that the distance on the ring is the distance in the stream as
long as that is less than a ring.

`RxRingProofs`.  None of the properties is inductive by itself.  `IInv` is

* `PhaseInv`: which phases of file, ioctl, timer, read and FPGA go together;
* `CalmInv`: what holds however late timer and reader are: `rd_ptr` is the start of
  a block in the ring, `blocks_ready` is not negative, and enough for the step
  `read()` is at;
* `ExactInv`: as long as nothing worse than a failing copy has happened, each of
  `rx_buf_wr`, `timer_wr_ptr` and `rd_ptr` lies where its position of the stream
  does, and the positions are in the order reader <= counted <= written;
* `MemInv`: under the same condition, each of the last positions of the stream is
  in memory at its place.

`CalmInv` needs only that the snap stays in the ring (`SnapInRing`); `ExactInv`
needs that the timer's count is exact when less than a ring has passed
(`CountExact`) and the snap's when it is less than one and a half rings late
(`SnapExact`).  From `IInv` follow `TypeCorrect`, `ReadyImpliesWritten`,
`AccountingIsExact`, `OverrunsAreReal`, `ReadStaysInRing`, `ReadyNeverNegative`,
`NothingStale`, and `EdgeSeen` for one ENABLE per open file.  `NothingStale` joins
three facts: the block handed out has been written (`ReadyIsWritten`), its bursts lie
at their places (`PlaceOf`), and every place holds its last burst (`MemInv`, with
`LastRound`).  `Refinement` is `Spec => WriterAsPromised`.

`TxRingProofs`.  `IInv` of `TxRing` is `TypeOK`, `PhaseInv`, `ExactInv` (where the
published and the read position lie, that a block is free while the client fills,
and that the block under way is in memory and, once flushed, not in the cache) and
`PublishedIsFlushed`.  Two arguments carry it: the distance `write()` waits on is
the true one as long as the ring is not filled to the last byte (`AheadExact`), and
a block of room at the write position holds nothing unread (`FreeBlock`).  From it
follow `NothingStale`, `OneFreeBlock`, `StreamIntact`, `PrefillReachesEnable` and
`Refinement` (`Spec => ReaderAsPromised`).

`AxiMasterWrProofs`.  `IInv` adds to `TypeOK` that the counter knows every burst the
slave holds (`CountInv`), where addresses and pointers lie in the latched ring
(`PlaceInv`), that next address and pointer differ by the outstanding bursts modulo
the ring (`AwMatchesPtr`), and how far a burst is in the FIFO (`FeedInv`): a flag that is
up k cycles late says what the level was k cycles ago, and it has lost at most k words since
(`LateStep`), which gives `ShortByTheFlag`.
`ClockCases` sums up one clock edge, state by state; the steps of the invariant and
of the refinement are read off it.  `Refinement` is `Spec => ImplementsWriter`.

`AxiMasterRdProofs` goes the same way: `PlaceInv`, `FeedInv` (the level has risen by at
most k words since a flag that is k cycles late, so every beat that is due finds room in
the depth and `FlagLag` words more) and `AvailInv` (the distance of the pointers is what was
published and not read, but for a full ring, whose pointers are equal: `AheadOfFull`), then `TypeCorrect`, `BurstsFit`, `BurstsStayInRing`, `PointersAgree`,
`IdleIsSafe` and `Refinement`.

`Bounded`, `Delivered`, both `BurstsPlaced` and `UnreadSafe` join these into the
conjunctions the runs check.

`ControlProofs` has the process and the driver it talks to.  Of `Session` a task's place in its program decides most: `MappedWhile` (which mapping
it has), `TasksOfMode` (whether it runs at all), `EnablesByPlace` (how often ENABLE has been
called), `FlagHolds` (when `rx_session_active` is up), `StillComing` (as long as TX has not enabled
the FPGA, RX gets no block and so does not end, unless a call fails), with `ClosedByATask` and
`EndsBeforeEnable` for the descriptor and for tasks that gave up early.  From `IInv`:
`TasksAgree` (`OpensAgree` in every mode, for every drop and prefill), `NoWakeUpLost`
(`SleeperWillBeTold`: a TX task sleeps on a lowered flag only, and where no call fails RX is
still before the place where it raises it) and `EnableFindsRings`, the
action property `EnableCoversBoth`.

Of `Ad9361Radio`, `RadioIsAsAsked` says that in every history without the steps of
`RadioExcepted` nothing is upset and `RadioAsAsked` holds; it rests on the inductive `RadioInv`
and on `OnlyExcepted` (no other step sets `upset`).  `RadioExcepted` speaks of the calls and of
the state they find, not of `upset`, and lists what section 5 describes: the work item or a call
without the lock between another one's force and restore (`Overlap`), a state forced from one
that cannot be restored (`ForcedForGood`), an error returned over what was changed
(`LeftChanged`), a tuning under pin control or nested (`TunedTwice`), a mode that is not legal
(`IllegalMode`), a loopback that outlives a new initialisation (`LoopbackOutlives`).  A
calibration that times out, a phase search that finds none, a sweep without a window and what
else fails inside `ad9361_do_calib_run` or a tuning are not among them, but for the timeout of a
filter.  `RadioAsAsked` itself is about the steps up to the first one excepted.  Between two
calls the property says of the state machine only what holds when nothing is under way; what
makes it inductive is `Stands`, who is between a force and its restore: nobody (`AsAsked`), a
call or the work item that will put the state back (`MidCall`, by `WillReturn`: what is saved as
previous state and pin bit is what was asked for, and restoring it leads there).  The lemmas
follow the C functions.

* `ForceStateDoes` and `RestoreStateDoes` say what the two do from any state, `Begun` and
  `Restores` that the second undoes the first (`ForcedReturns`): the pin bit is saved only when
  there was something to do, and is nevertheless the right one.
* `GivesBack` carries that through the quadrature calibration, which forces and restores inside
  a call that has forced already (`TxQuadGivesBack`); `CalEnded` and `BwEnded` through a
  calibration that times out and a bandwidth that fails half-way.
* `Touches` bounds what a tuning changes and `Tunable` from where it brings everything back:
  mute, attenuation, loopback, self test and scratch register (`RunEnds`, `TuneEndsTouches`),
  through both levels of the recursion (`ChainTouches`, `TuneAllTouches`, `DigTuneTouches`).
* `PostSetupGood`, `ReadyGood`, `ReinitGood`: set-up, first and repeated, ends `AsAsked`.

It assumes of the devices what the device tree can say (`BoardsAssumption`), and that no filter is
loaded when the driver starts.

Of `Ad9361Lo`, `LosDoAgree` says that in every history without the steps of `LoExcepted`
`luck` stays "none" and `LosAgree` holds, by the inductive `LoInv` and `OnlyLoExcepted`;
`LoExcepted` lists, again as calls and the state they find, what section 5 has under `luck`.
`LosStepRight` is `LoSteps`, of every history.
The properties speak of what an LO reads back as; while a profile is in use that says nothing of
the synthesizer's own words, to which the LO returns when the profile ends.  `LoInv` therefore has,
for each LO, the words and the divider of `cur` under any profile (`Own`), the ALC word of the entry
in use (`Profiled`), what user space asked for as the frequency or the entry reads back (`Asked`),
and for the receiver the rate that the framework has cached together with the gain table chosen by
it (`BandFollows`: the notifier loads no table for a rate that has not changed).

* Arithmetic: `Doubles` and `DoublingHalves` find the VCO frequency and the way back from it,
  `Rounds` bounds what integer and fraction lose; `ReadsBack` joins them: of every frequency from 47
  to 6000 MHz the words read back as it or one less.
* The synthesizers: `UnprepareDoes`, `ProgramDoes`, `FixOtherDoes` and `SetRateDoes` follow
  `ad9361_rfpll_set_rate`, with the second round of its loop in which the other PLL gets its own words
  once more and its table the right one; `ClkSetDoes` adds the framework.
* The gain tables: `FindTableDoes` (the entry `find_table_index` gives is a nearest one, when the
  gains ascend) and `LoadGtDoes`.
* The profiles: `EntryStands` (an entry not in use may be written), `RecallDoes` (the ALC word is
  another one, by `NewAlcDiffers`).
* The state machine: `StoreModeDoes` and `Calibrates` say what a change of mode, sleep and waking do
  to the clocks and the VCO calibrations.
* `FirstStands`, `SetupStands`: set-up, first and repeated, ends in `LoInv`.

It assumes (`GainTablesAssumption`) gain tables that are not empty and ascend: the driver only warns
about others, and for those the nearest gain is not what its search finds.  The frequencies user
space asks for are arbitrary, those it does not accept included.

`StreamsProofs` has four invariants, one per program.

* `UdpInv`: what has been sent, what is carried and what is lost add up to what came in, and the
  carried bytes are shorter than a datagram (`CarryFits`).  The work is in one step,
  `udp_send_ring`: its messages cut the sequence of bytes into whole datagrams and a rest
  (`CutWhole`), and what the kernel took and what it dropped lose nothing (`NothingLost`).
  `BlocksArrive` is `UdpIntact`.
* `TcpInv`: the server's place on the ring follows its place in the stream (`OffsetFollows`),
  as long as it has not been lapped (`InReach`).  `ClientGetsStream` is `OneStreamInOrder`
  under the hypothesis `ResetReaches`: if the write that enables the FPGA reaches its
  control bits, then so does the reset before it, as it does for the bits the server was
  written for and, vacuously, for today's FPGA.  Where only the enable bit fits, a second
  client starts on a ring that was not restarted, and the property is false.
* `LegacyInv`: the two semaphores and the slots held add up to the number of slots
  (`Accounts`); the numbers of the blocks in the slots (`SlotNumbers`, `SlotsOrdered`), what
  went out (`OutOrdered`), and where on the ring the copying loop is (`MainFollows`).
  `SlotsAccounted` is `SlotsAgree`; that main never copies into a slot a thread is sending from
  is `HeldIsNotCopied`.
* `LiteInv`: which half of a write and which answer go together (`WriteHandshake`,
  `ReadHandshake`), what the register holds when a write has landed (`WriteLands`), and that a
  value read was the register's at some edge of the read (`ReadSpans`).  `RegistersHold` is
  `RegsAsWritten`.

`SampleProofs` rests on two lemmas about the crossings, for a synchronizer of any
length: the number of events is what the counter shows plus what is still in the chain
(`AclkCounts`, `IqCounts`).

* `InInv`: the deserializer's halves follow the line (`DesFollows`); a sample mixed of two has
  a slip (`MixedCounted`); samples in the FIFO are in order (`InOrder`); drops are counted or on
  their way (`DropsCounted`); the FIFO is empty when a session begins that the reset has reached, and
  nothing older comes in later (`SessionBegins`, `SessionLasts`); and every hole between two
  samples of a session is a drop or a slip (`HolesKnown` while a session lasts, `HolesTaken`
  for all that have been).  `SamplesArrive` is `SamplesInIntact`.
* `OutInv`: what is on the line is what is latched (`LineFollows`); underruns are counted
  (`UndersCounted`); the FIFO holds the samples next to be sent, in order (`FifoFollows`); a reset
  that is under way has emptied it (`ResetEmpties`); what was skipped was drained (`SkipsDrained`);
  nothing older than the session is sent (`SessionFresh`).  `SamplesLeave` is `SamplesOutIntact`.
* `BothWaysWhole` carries both over to the composition: `StreamsSpec => []SamplesWhole`.

Three of the models were wrong, and the attempt to prove them showed it.  `HolesCounted` of
`SampleIn` charged a session with holes that lay between samples of two sessions, which
needs three openings to matter, one more than the run has; it now speaks of one session's
samples (`Known`).  The FIFO reset of `SampleOut` took effect in both clocks at once and held
the bus clock until it was over, which hid the interleavings in which software goes on
while the read side is still busy; the handshake is now modelled as described above.
`TableFollows` of `Ad9361Lo` chose the gain table by the frequency asked for; the driver chooses it by
the one read back, and not at all when that is the rate a recalled profile had left behind (now
`luck`'s "silent notifier").  `LoSteps` took a file loaded twice for a change of band.

Only model-checked: `PrbsSound` (the period of a shift register is a computation);
`SumsHold` (what searches and computations give for the inputs tried); `ClocksHold` (whether the dividers make a rate exactly is a matter of
the numbers chosen); and all liveness (`ReaderWakes`, `DisableStops`, `BurstIsRead`,
`WriterProceeds`, `LeaverIsDropped`, `HealthySessionEnds`, `StopEndsStream`, `LoWriteReturns`):
the prover has no rules for ENABLED, on which fairness rests.

## 5. Assumptions, and what the properties leave out

* The soft reset of `open()` finds the masters without a burst on the bus.
  `release()` has cleared the enable bits before, and bursts take microseconds;
  nothing in the driver waits for it, though.
* `Release` runs when the last reference goes, so never beside a call on the file.
* XPM's programmable flags show the level of the FIFO at an edge or of one of the `FlagLag`
  edges before it; by how many cycles they are late is the vendor's matter, and the
  theorems leave it open.  The read master has no slack for it: started on its last
  beat with a prompt flag, a burst fills the FIFO to its depth (47 words, the one being
  taken, 16 more, of 64), and each cycle of lag may ask for one word beyond.  Whether such a
  word has a place depends on the output stage of a first-word-fall-through FIFO, which is
  not in the repository; the theorem says how many there can be.  The write master may
  find its FIFO empty for 1 + `FlagLag` words of a burst (`ShortByFlag`).
* Single loads and stores of the driver's counters are atomic, as they are on the
  target; `blocks_ready` is an atomic_t in the code.
* The AXI slave, the clients and the radio are external and do anything their
  protocol allows.
* `SampleIn`: ENABLE is a call of its own, so what the chip's clock has met of the reset is
  over by then.  `SampleOut` assumes nothing of the kind.

Cases the code does not cope with, which the properties name and except:

* Between chip and masters.  At low rates the soft reset may fall between two edges of
  the chip's clock (2.5 MSPS: 200 ns; a sleeping chip: none), and the receive FIFO
  keeps the last session's samples.  `xpm_cdc_pulse` is reset on its source side only:
  after an odd number of events the soft reset counts one more.  A slip of the line
  loses a sample uncounted.  Samples fetched before the transmit enable has crossed are
  drained unsent.
* `sendmmsg` may take a part of the datagrams (`net.c` 91, `ad9361_rx.c` 129), the rest is
  dropped without an error.  After a failing `read()` the carried bytes of the old
  stream open the next one.  More than 64 datagrams to a block (a larger
  `rx_block_size`) would overflow the carry; `UdpAssumption` excludes it.
* `ad936x-tcp.c`: an overrun is not noticed (`lapped`).
* `ad9361_rx.c` 201: a TCP reconnect restarts the thread's block number only.
* `Ad9361Radio!upset`: the quadrature calibration of the work item and the timing
  analysis of debugfs run without `phy->lock`, so they may meet a half-done call
  ("race"); a state forced from WAIT is not restored ("unrestorable"); a tuning begun in
  pin control or inside another one leaves the pins off or the transmitter muted
  ("tune"); `bist_loopback` stores an invalid mode; `DBGFS_INIT` clears the driver's
  state but not the FPGA's loopback ("loopback"); a change of bandwidth that fails leaves
  ALERT and tracking off (5301, 5310), a calibration during which a filter times out the
  filters as they are, a write of the gain step errors that is cut short what it had (their
  error codes); a mode that is not legal is accepted, and the chip does not follow ("illegal").
  The histories of the model end with the call after which one of these is noted.
  `complete_all` comes before `clear_bit` (`ad9361_main.c` 5738): a transmit LO written
  right then is calibrated, but not waited for.
* `Ad9361Lo!luck`: a frequency equal to the rate the clock framework has cached is not
  written after a recall ("stale rate"); overwriting the profile in use ("profile in
  use"); an external LO with a profile ("external profile"); waking up enables the VCO
  calibration of a recalled profile ("woken"); leaving independent mode does not
  choose the synthesizer tables again ("independent mode"); after a recall, a frequency that reads
  back as the profile did leaves the gain table of the frequency before it, since no notifier is
  called ("silent notifier"); a change of one LO may end the other's profile ("other profile
  ended") or write the divider of one that is external ("external divider").
* `Ad9361Rates!fine`: enabling a filter that fails sets the clocks first; a correction of
  the reference or a filter replaced in use is not checked against the limits; the
  clock framework drops errors of `set_rate`.

## 6. Not modelled

* Probe, remove and debugfs of `ad936x-axi.c`: set-up and formatting.
* `diag_loopback`, and the feeding thread of `diag_prbs` (the ring it writes to is
  `TxRing`'s; both unmap it while the thread may still run).
* Of the vendored driver: device tree parsing, the set-up of AGC, RSSI, auxiliary
  converters and GPO (register values that no later decision reads), SPI transfers, a
  set-up that fails half-way, `ad9361_regs.h` (numbers).
* FPGA top level (wiring), the statistics thread (formatting), host tools (clients; their
  PRBS checker is the target's again), the QEMU model (a test double), scripts and
  images.

## 7. Plan

Done: the receive and the transmit path, the session, the parts on either side of them,
every safety property of these proved except `PrbsSound`; the driver of the chip, its radio and
its local oscillators proved, its clocks checked.

Next, in this order:

1. An abstract stream between client and radio, implemented by `RxRing` as long as
   no upset happens.
2. The masters with a soft reset while a burst is on the bus.
3. `diag_prbs` with its feeding thread on `TxRing`.
