------------------------------ MODULE IqCrossing ------------------------------
(***************************************************************************)
(* What lies between the bus clock and the clock of the radio chip in      *)
(* ad936x_axi.vhd: the driver's control bits on their way over, and the     *)
(* event counters.  The chip's clock is slower than two of its edges per    *)
(* edge of the bus clock, and stops when the chip does.                     *)
(***************************************************************************)
EXTENDS Integers, Sequences, FiniteSets, SequencesExt

CONSTANTS SyncStages, \* DEST_SYNC_FF: 4
          MaxOpens    \* bound: openings of the device
ASSUME CrossingAssumption == SyncStages \in Nat \ {0, 1} /\ MaxOpens \in Nat \ {0}

VARIABLES inctl, \* s_rx_en or s_tx_en, s_reset, the driver's next call, openings, and
                 \* whether the last register write has had its edge of the bus clock
          cross, \* the synchronizers of both, oldest value last
          pulse, \* xpm_cdc_pulse (level, its input one cycle ago, synchronizer), the counter
          awake, \* the bus master is not in STANDBY
          rate   \* edges of the chip's clock since the last one of the bus clock
crossvars == <<inctl, cross, pulse, awake, rate>>

Newest(c) == c[Len(c)]
Shift(x, c) == <<x>> \o Front(c)
One(b) == IF b THEN 1 ELSE 0
All(x) == [k \in 1 .. SyncStages |-> x]

CrossInit ==
  /\ inctl = [en |-> FALSE, rst |-> FALSE, next |-> "open", opens |-> 0, edge |-> TRUE]
  /\ cross = [en |-> All(FALSE), rst |-> All(FALSE)]
  /\ pulse = [level |-> FALSE, old |-> FALSE, sync |-> All(FALSE), cnt |-> 0]
  /\ awake = FALSE /\ rate = 0

IqEnable == Newest(cross.en)
IqReset == Newest(cross.rst)

\* The pulse's rising edge turns the level over; the soft reset clears it.
PulseIn(p, x) == IF IqReset THEN [p EXCEPT !.level = FALSE, !.old = FALSE]
                 ELSE [p EXCEPT !.level = (@ # (x /\ ~p.old)), !.old = x]

\* An edge of the chip's clock, with x the event to be counted.
CrossIq(x) ==
  /\ rate < 2 /\ rate' = rate + 1
  /\ cross' = [en |-> Shift(inctl.en, cross.en), rst |-> Shift(inctl.rst, cross.rst)]
  /\ pulse' = PulseIn(pulse, x)
  /\ UNCHANGED <<inctl, awake>>

\* An edge of the bus clock: the counter, and the master, which finishes what it has on
\* the bus before it sleeps.
CrossAclk ==
  /\ rate' = 0
  /\ pulse' = [pulse EXCEPT !.sync = Shift(pulse.level, @),
                            !.cnt = @ + One(pulse.sync[SyncStages] # pulse.sync[SyncStages - 1])]
  /\ awake' \in IF inctl.rst THEN {FALSE} ELSE IF inctl.en THEN {TRUE} ELSE {FALSE, awake}
  /\ inctl' = [inctl EXCEPT !.edge = TRUE]
  /\ UNCHANGED cross

\* What the counter shows once the pulses on their way have arrived.
Changes(c) == Cardinality({k \in 1 .. Len(c) - 1 : c[k] # c[k + 1]})
Counted == pulse.cnt + Changes(<<pulse.level>> \o pulse.sync)

\* The driver's writes to the control register (external): open() raises the reset and
\* drops it, ENABLE, release().  ENABLE is a call of its own: what the other side has met
\* of the reset (ready) is over by then.
RegisterWrite(now, en, rst, next) ==
  /\ inctl.next = now /\ inctl.edge
  /\ inctl' = [en |-> en, rst |-> rst, next |-> next, edge |-> FALSE,
               opens |-> inctl.opens + One(next = "opened")]
DriverOpens == inctl.opens < MaxOpens /\ RegisterWrite("open", FALSE, TRUE, "opened")
DriverOpened == RegisterWrite("opened", FALSE, FALSE, "enable")
DriverEnables(ready) == ready /\ RegisterWrite("enable", TRUE, FALSE, "release")
DriverReleases == RegisterWrite("release", FALSE, FALSE, "open")
Settled == \A k \in 1 .. SyncStages : ~cross.rst[k] /\ ~cross.en[k]
=============================================================================
