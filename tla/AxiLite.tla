------------------------------- MODULE AxiLite -------------------------------
(***************************************************************************)
(* The register file of ad936x_axi.vhd behind its AXI4-Lite port.  Every   *)
(* edge of the bus clock moves proc_axi_write, proc_reg_write,             *)
(* proc_axi_read and proc_reg_read together, from the values before it.    *)
(* The master (external) has at most one write and one read under way, and *)
(* offers address and data of a write in either order.                     *)
(***************************************************************************)
EXTENDS Integers

CONSTANTS RwRegs,    \* registers of the driver
          RoRegs,    \* registers of the hardware: pointers and counters
          NoRegs,    \* offsets of no register
          Words,     \* values a register may have
          Unknown,   \* 0xDEADBEEF
          MaxCmds    \* bound: reads and writes together
ASSUME AxiLiteAssumption ==
  /\ RwRegs # {} /\ 0 \in Words /\ Unknown \notin Words /\ MaxCmds \in Nat
  /\ RwRegs \cap RoRegs = {} /\ NoRegs \cap (RwRegs \cup RoRegs) = {}

VARIABLES regs,   \* the registers
          wmst,   \* the master's write: channels still to go, address, data, whether it waits
          wslv,   \* s_wen(0), s_wen(1), s_waddr, s_wdata, bvalid
          rmst,   \* the master's read: offers an address, waits; the address
          rslv,   \* arready, s_ren, s_rack, s_raddr, s_rdata, rvalid, rdata
          cmds, want, span
liteown == <<regs, wmst, wslv, rmst, rslv, cmds, want, span>>
\* want: what the writes make of the registers (ghost)
\* span: the values the register read has had since the read began (ghost)

Offsets == RwRegs \cup RoRegs \cup NoRegs
Value(f, a) == IF a \in NoRegs THEN Unknown ELSE f[a]

AxiLiteInit ==
  /\ regs = [a \in RwRegs \cup RoRegs |-> 0] /\ want = regs
  /\ wmst = [aw |-> FALSE, w |-> FALSE, addr |-> CHOOSE a \in RwRegs : TRUE, data |-> 0, busy |-> FALSE]
  /\ wslv = [aw |-> FALSE, w |-> FALSE, addr |-> CHOOSE a \in RwRegs : TRUE, data |-> 0, b |-> FALSE]
  /\ rmst = [ar |-> FALSE, addr |-> CHOOSE a \in RwRegs : TRUE, busy |-> FALSE]
  /\ rslv = [arready |-> FALSE, ren |-> FALSE, rack |-> FALSE, addr |-> CHOOSE a \in RwRegs : TRUE,
             s_rdata |-> 0, rvalid |-> FALSE, rdata |-> 0]
  /\ cmds = 0 /\ span = {}

\* Slip: it lands with the address, whatever the data.
LandsWithAddress == wslv.aw

\* The write lands once the slave has both halves.
Lands == wslv.aw /\ wslv.w

\* proc_axi_write: awv and wv are what the master offers on this edge.
AxiWrite(awv, wv, bready) ==
  wslv' = [aw   |-> ~Lands /\ (awv \/ wslv.aw), w |-> ~Lands /\ (wv \/ wslv.w),
           addr |-> IF awv THEN wmst.addr ELSE wslv.addr,
           data |-> IF wv THEN wmst.data ELSE wslv.data,
           b    |-> Lands \/ (wslv.b /\ ~bready)]

\* proc_reg_write, and what the hardware does to its own registers.
RegWrite ==
  \E hw \in {regs} \cup {[regs EXCEPT ![r] = x] : r \in RoRegs, x \in Words} :
    regs' = IF Lands /\ wslv.addr \in RwRegs THEN [hw EXCEPT ![wslv.addr] = wslv.data] ELSE hw

\* proc_axi_read and proc_reg_read.
AxiRead(rready) ==
  LET take == rmst.ar /\ ~rslv.arready
  IN  rslv' = [arready |-> take, ren |-> take, rack |-> rslv.ren,
               addr    |-> IF take THEN rmst.addr ELSE rslv.addr,
               s_rdata |-> IF rslv.ren THEN Value(regs, rslv.addr) ELSE rslv.s_rdata,
               rvalid  |-> rslv.rack \/ (rslv.rvalid /\ ~rready),
               rdata   |-> IF rslv.rack THEN rslv.s_rdata ELSE rslv.rdata]

LiteEdge ==
  \E awv \in {FALSE, wmst.aw}, wv \in {FALSE, wmst.w}, bready, rready \in BOOLEAN :
    /\ AxiWrite(awv, wv, bready) /\ RegWrite /\ AxiRead(rready)
    /\ wmst' = [wmst EXCEPT !.aw = @ /\ ~awv, !.w = @ /\ ~wv, !.busy = @ /\ ~(wslv.b /\ bready)]
    /\ rmst' = [rmst EXCEPT !.ar = @ /\ ~rslv.arready, !.busy = @ /\ ~(rslv.rvalid /\ rready)]
    /\ span' = IF rmst'.busy THEN span \cup {Value(regs', rmst.addr)} ELSE {}
    /\ UNCHANGED <<cmds, want>>

\* The master begins a write or a read (external).
MasterWrites ==
  /\ ~wmst.busy /\ cmds < MaxCmds /\ cmds' = cmds + 1
  /\ \E a \in Offsets, x \in Words :
       /\ wmst' = [aw |-> TRUE, w |-> TRUE, addr |-> a, data |-> x, busy |-> TRUE]
       /\ want' = IF a \in RwRegs THEN [want EXCEPT ![a] = x] ELSE want
  /\ UNCHANGED <<regs, wslv, rmst, rslv, span>>

MasterReads ==
  /\ ~rmst.busy /\ cmds < MaxCmds /\ cmds' = cmds + 1
  /\ \E a \in Offsets : rmst' = [ar |-> TRUE, addr |-> a, busy |-> TRUE] /\ span' = {Value(regs, a)}
  /\ UNCHANGED <<regs, wmst, wslv, rslv, want>>

AxiLiteNext == LiteEdge \/ MasterWrites \/ MasterReads
AxiLiteSpec == AxiLiteInit /\ [][AxiLiteNext]_liteown
-----------------------------------------------------------------------------
\* A write has changed its own register when it is answered, and no other ever; a read is
\* answered with a value its register had since it began.
RegsAsWritten ==
  /\ \A a \in RwRegs : (regs[a] = want[a]) \/ (wmst.busy /\ wmst.addr = a /\ ~wslv.b)
  /\ wslv.b => wmst.busy
  /\ (rslv.rvalid /\ rmst.busy) => rslv.rdata \in span
  /\ rslv.rvalid => rmst.busy
=============================================================================
