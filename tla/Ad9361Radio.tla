----------------------------- MODULE Ad9361Radio -----------------------------
(***************************************************************************)
(* What user space does to the radio while it runs: sysfs, IIO and debugfs *)
(* writes under phy->lock, the TX quadrature calibration that a work item   *)
(* makes without the lock, and the control pins.  A calibration or a change *)
(* of bandwidth is two steps, so that the work item can come in between.    *)
(***************************************************************************)
EXTENDS Ad9361Tune

CONSTANTS Boards,    \* device trees: the platform data the driver may start with
          MaxCalls   \* bound: calls of user space

\* No filter is enabled before user space has loaded one.
ASSUME BoardsAssumption ==
  \A b \in Boards : /\ b.fdd \in BOOLEAN /\ b.bbTune \in BOOLEAN /\ b.managed \in BOOLEAN
                    /\ b.conv \in {"core", "stub"} /\ b.fir = FALSE

VARIABLES phy,
          call,      \* the lock holder: "idle", "bw", "cal", "lo", "wait" or "init"
          arg,       \* its argument
          work,      \* ad9361_work_func: "idle", "cal", or "clear" before clear_bit
          pending,   \* the work item is queued
          flag,      \* bit 0 of st->flags
          done,      \* phy->complete
          calls,     \* user calls made (bounded by MaxCalls)
          ask,       \* what user space asked for last (ghost)
          upset      \* what has gone wrong in a way this project names (ghost)
lock == <<call, arg>>
item == <<work, pending, flag, done>>
rvars == <<phy, lock, item, calls, ask, upset>>

NoArg == [bw |-> [rx |-> 0, tx |-> 0], cal |-> "none", n |-> 0]
NoStep == [words |-> 0, errs |-> 0]
FddBoard == [fdd |-> TRUE, conv |-> "stub", skip |-> 2, bbTune |-> FALSE, fir |-> FALSE,
             managed |-> FALSE, rxNum |-> 1]
TddBoard == [FddBoard EXCEPT !.fdd = FALSE, !.conv = "core", !.skip = 0]
CoreBoard == [FddBoard EXCEPT !.conv = "core", !.skip = 0, !.managed = TRUE, !.rxNum = 2]
RxTuneBoard == [FddBoard EXCEPT !.conv = "core", !.skip = 1, !.bbTune = TRUE]

\* What a chip may answer: phases that converge, one timeout, skews without error.
CalAnswers == [conv : {{}, {21, 22, 23}, {30, 31, 0, 1}}, bad : {"none", "search"}, narrow : {"none"}, junk : {FALSE}]
  \cup [conv : {{21, 22, 23}}, bad : {"quad1", "quad2", "rx", "tx"}, narrow : {"none"}, junk : BOOLEAN]
TuneAnswers == [pass : {{}, {-5, -4, -3}, {2, 3, 4}}, ioPass : {{9, 10, 11}}]

\* The driver's and the chip's state after ad9361_setup.
Ready(b) ==
  [fdd |-> b.fdd, conv |-> b.conv, skip |-> b.skip, bbTune |-> b.bbTune, fir |-> b.fir,
   managed |-> b.managed, rxNum |-> b.rxNum, txNum |-> 1, txOn |-> 1,
   indep |-> FALSE, pinCtrl |-> FALSE, mode |-> [fdd |-> b.fdd, indep |-> FALSE, pin |-> FALSE],
   cfg1 |-> {"TO", IF b.fdd THEN "TX" ELSE "RX"},
   dev |-> IF b.fdd THEN "FDD" ELSE "RX", curr |-> IF b.fdd THEN "FDD" ELSE "RX",
   prev |-> "INVALID", pinEn |-> FALSE, clocks |-> TRUE, vcoCal |-> {"rx", "tx"},
   want |-> {"bb", "rf", "quad"}, track |-> {"bb", "rf", "quad"},
   bw |-> [rx |-> 16, tx |-> 16], filt |-> [rx |-> 16, tx |-> 16], clkrf |-> 32, clktf |-> 32,
   phase |-> 21, autoCal |-> TRUE, manualQuad |-> FALSE, txPd |-> FALSE, txPdReg |-> FALSE,
   att |-> <<80, 80>>, cache |-> <<0, 0>>, loop |-> 0, loopReg |-> FALSE,
   bist |-> BistOff, dsel |-> "dma", scratch |-> "dma",
   dly |-> [rx |-> -4, tx |-> 4], pdDly |-> [rx |-> -4, tx |-> 4], io |-> [rx |-> 0, tx |-> 0],
   rate |-> "user", step |-> NoStep, stepReg |-> NoStep]

\* With a converter core its post_setup follows, when the core's driver probes.
RadioInit ==
  /\ \E b \in Boards, o \in TuneAnswers :
       LET p == Ready(b) IN
       /\ phy = IF b.conv = "core" THEN PostSetup(p, o).p ELSE p
       /\ ask = [dev |-> p.dev, pin |-> FALSE, att |-> p.att, loop |-> 0, bist |-> BistOff]
  /\ call = "idle" /\ arg = NoArg
  /\ work = "idle" /\ pending = FALSE /\ flag = FALSE /\ done = TRUE
  /\ upset = "none" /\ calls = 0

Quiet == upset = "none"
\* A call of user space takes the lock.
Enter == call = "idle" /\ Quiet /\ calls < MaxCalls /\ calls' = calls + 1
Awake == phy.curr # "SLEEP"
Stay == UNCHANGED <<lock, item>>
\* A forced state the restore cannot bring back: WAIT, or a pin bit it kept from an
\* earlier force.
Unrestorable(p) == p.dev = "WAIT" \/ (p.dev = "ALERT" /\ p.pinEn /\ "PIN" \notin p.cfg1)

\* The work item is between its force and its restore, and this is not.
Note(x) == IF work = "cal" /\ upset = "none" THEN "race" ELSE x

Forced == IF Unrestorable(phy) THEN "unrestorable" ELSE Note(upset)

\* A call that returns: what is asked for from now on.
Return(r, a) == phy' = r.p /\ ask' = a /\ upset' = Note(upset)

\* The second step of a call or of the work item; gone: it returned an error and left
\* what it had changed.
Ends(r, gone) ==
  /\ phy' = r.p /\ UNCHANGED ask
  /\ upset' = IF gone /\ r.ret # "0" THEN r.ret ELSE upset

\* AD9361_ENSM_MODE
EnsmMode(w) ==
  /\ Enter /\ Stay
  /\ LET r == StoreEnsmMode(phy, w)
         illegal == w # "?" /\ w # "sleep" /\ Illegal(Wake(phy), WordState(w))
     IN  /\ phy' = r.p
         /\ ask' = [ask EXCEPT !.dev = r.p.dev, !.pin = "PIN" \in r.p.cfg1]
         /\ upset' = IF illegal /\ r.ret = "0" /\ r.p.curr # r.p.dev THEN "illegal" ELSE Note(upset)

\* AD9361_BBDC_OFFS_ENABLE and its like, AD9361_CALIB_MODE's flags.
Flags ==
  /\ Enter /\ Awake /\ Stay
  /\ \/ \E want \in {{}, {"bb", "rf", "quad"}} : Return(Ok(StoreTrack(phy, want)), ask)
     \/ \E w \in {"auto", "manual", "manual_tx_quad"} : Return(Ok(StoreCalMode(phy, w)), ask)

\* LOEXT_PD of the transmit LO.
TxLoPower(down) ==
  /\ Enter /\ Awake /\ Stay
  /\ Return(Ok([phy EXCEPT !.txPd = down, !.txPdReg = down]), ask)

\* IIO_CHAN_INFO_HARDWAREGAIN of an output.
TxAtten(chan, code) ==
  /\ Enter /\ Awake /\ Stay
  /\ LET r == SetAtten(phy, code, {chan})
     IN  phy' = r.p /\ ask' = [ask EXCEPT !.att = r.p.att] /\ upset' = Note(upset)

\* DBGFS_LOOPBACK, DBGFS_BIST_PRBS, DBGFS_BIST_TONE
SelfTest ==
  /\ Enter /\ Stay
  /\ \/ \E m \in 0 .. 2 : Return(Loopback(phy, m), [ask EXCEPT !.loop = m])
     \/ phy' = Loopback(phy, 3).p /\ UNCHANGED ask /\ upset' = "-EINVAL"
     \/ \E w \in {BistOff, Prbs("tx"), <<"tone", "rx">>} : Return(Ok(Bist(phy, w)), [ask EXCEPT !.bist = w])

\* "rssi_gain_step" and AD9361_RSSI_GAIN_STEP_ERROR
GainStep(n, whole) ==
  /\ Enter /\ Awake /\ Stay /\ UNCHANGED ask
  /\ \/ phy' = StepCalib(phy, 0, n) /\ upset' = Forced
     \/ LET r == StoreStep(phy, [words |-> 0, errs |-> n], whole)
        IN  /\ phy' = r.p
            /\ upset' = IF whole THEN Forced ELSE IF r.p # phy THEN r.ret ELSE Note(upset)

\* AD9361_RF_RX_BANDWIDTH and AD9361_RF_TX_BANDWIDTH, when the bandwidth is another.
Bandwidth(dir, hz) ==
  /\ Enter /\ Awake /\ phy.bw[dir] # hz
  /\ call' = "bw" /\ arg' = [NoArg EXCEPT !.bw = [phy.bw EXCEPT ![dir] = hz]]
  /\ phy' = CalBegin(phy)
  /\ upset' = Forced
  /\ UNCHANGED <<item, ask>>

BandwidthEnd(o) ==
  /\ call = "bw" /\ call' = "idle" /\ arg' = NoArg
  /\ Ends(BwEnd(phy, arg.bw.rx, arg.bw.tx, o), TRUE)
  /\ UNCHANGED <<item, calls>>

\* "tx_quad n" and "rf_dc_offs" of AD9361_CALIB_MODE
Calibrate(cal, n) ==
  /\ Enter /\ Awake
  /\ call' = "cal" /\ arg' = [NoArg EXCEPT !.cal = cal, !.n = n]
  /\ phy' = CalBegin(phy)
  /\ upset' = Forced
  /\ UNCHANGED <<item, ask>>

CalibrateEnd(o) ==
  /\ call = "cal" /\ call' = "idle" /\ arg' = NoArg
  /\ Ends(CalEnd(phy, arg.cal, arg.n, o), o.bad \in {"rx", "tx"})
  /\ UNCHANGED <<item, calls>>

\* LOEXT_FREQ of the transmit LO: a move of more than the threshold queues the
\* calibration (ad9361_tx_rfpll_rate_change), then the write waits for it.
TxLo ==
  /\ Enter /\ Awake /\ phy.autoCal
  /\ call' = "lo"
  /\ flag' = TRUE /\ done' = FALSE /\ pending' = TRUE
  /\ UNCHANGED <<phy, arg, work, ask, upset>>

TxLoTest == call = "lo" /\ call' = (IF flag THEN "wait" ELSE "idle") /\ UNCHANGED arg
TxLoWaited == call = "wait" /\ done /\ call' = "idle" /\ UNCHANGED arg
LoWrite ==
  /\ TxLoTest \/ TxLoWaited
  /\ UNCHANGED <<phy, item, calls, ask, upset>>

\* ad9361_setup of a chip that has been reset: the cleared state starts over; pdata,
\* with fdd_independent_mode and the tuned delays, and the FPGA keep what they have.
Reinit(p, o) ==
  LET kept == [Ready([p EXCEPT !.fir = FALSE]) EXCEPT !.indep = p.indep, !.io = p.io, !.dsel = p.dsel,
                                                      !.scratch = p.scratch, !.pdDly = p.pdDly]
      t == ChainTune(kept, o).p
  IN  [SetEnsmMode(kept, p.fdd, FALSE) EXCEPT !.io = t.io, !.dsel = t.dsel, !.scratch = t.scratch,
                                              !.pdDly = t.pdDly, !.dly = t.pdDly]

\* DBGFS_INIT: the LOs' parents are set, which may move the transmit LO; the calibration
\* that queues is waited for.
ReinitBegin ==
  /\ Enter /\ call' = "init"
  /\ phy' = RestorePrev(ForceState(phy, "ALERT"))
  /\ \/ phy.autoCal /\ flag' = TRUE /\ done' = FALSE /\ pending' = TRUE
     \/ UNCHANGED <<flag, done, pending>>
  /\ upset' = Note(upset)
  /\ UNCHANGED <<arg, work, ask>>

InitGoesOn == call = "init" /\ (flag => done) /\ call' = "idle" /\ UNCHANGED arg

\* The flag is cleared with the rest.  A loopback in the FPGA outlives the mode it was
\* made for.
ReinitEnd(o) ==
  /\ InitGoesOn
  /\ phy' = Reinit(phy, o)
  /\ ask' = [dev |-> phy'.dev, pin |-> FALSE, att |-> phy'.att, loop |-> 0, bist |-> BistOff]
  /\ flag' = FALSE
  /\ upset' = IF phy'.dsel = "loop" THEN "loopback" ELSE Note(upset)
  /\ UNCHANGED <<work, pending, done, calls>>

\* ad9361_work_func on its own variables.  It does not take the lock.
ItemBegins == work = "idle" /\ pending /\ work' = "cal" /\ pending' = FALSE /\ UNCHANGED <<flag, done>>
\* Slip: nobody is told.
ItemTellsNobody == work = "cal" /\ work' = "clear" /\ UNCHANGED <<pending, flag, done>>
\* complete_all
ItemTells == work = "cal" /\ work' = "clear" /\ done' = TRUE /\ UNCHANGED <<pending, flag>>
\* clear_bit, which may by now clear the bit of the next write.
ItemClears == work = "clear" /\ work' = "idle" /\ flag' = FALSE /\ UNCHANGED <<pending, done>>

WorkStart ==
  /\ ItemBegins
  /\ phy' = CalBegin(phy)
  /\ upset' = IF Unrestorable(phy) THEN "unrestorable"
              ELSE IF call \in {"bw", "cal", "init"} THEN "race" ELSE upset
  /\ UNCHANGED <<lock, calls, ask>>

\* The calibration with the last phase.
WorkCal(o) ==
  /\ ItemTells
  /\ Ends(CalEnd(phy, "tx_quad", phy.phase, o), o.bad \in {"rx", "tx"})
  /\ UNCHANGED <<lock, calls>>

WorkClear == ItemClears /\ UNCHANGED <<phy, lock, calls, ask, upset>>

\* DBGFS_DIGITAL_TUNE and the timing analysis.  The pin control bit does not survive
\* a second force, a nested tune not the muting of the outer one.
Tune(maxFreq, flags, o) ==
  /\ Enter /\ Stay
  /\ LET r == StoreTune(phy, maxFreq, flags, o)
         odd == \/ Unrestorable(phy) \/ "PIN" \in phy.cfg1
                \/ (maxFreq /\ (phy.bbTune \/ phy.fir) /\ phy.skip # 2)
     IN  /\ phy' = r.p /\ UNCHANGED ask
         /\ upset' = IF odd /\ phy.conv = "core" THEN "tune" ELSE Note(upset)

\* It does not take the lock.
Analysis ==
  /\ Quiet /\ calls < MaxCalls /\ calls' = calls + 1 /\ Stay
  /\ phy' = TimingAnalysis(phy) /\ UNCHANGED ask
  /\ upset' = IF (Unrestorable(phy) \/ "PIN" \in phy.cfg1) /\ phy.conv = "core" THEN "tune"
               ELSE IF call \in {"bw", "cal", "init"} THEN "race" ELSE Note(upset)

\* "filter_fir_config": the coefficients of each filter are loaded in ALERT.  It does not
\* take the lock either.
CoefsLoaded(p) == RestorePrev(ForceState(p, "ALERT"))
FilterFile ==
  /\ Quiet /\ calls < MaxCalls /\ calls' = calls + 1 /\ Stay
  /\ phy' = CoefsLoaded(CoefsLoaded(phy)) /\ UNCHANGED ask
  /\ upset' = IF call \in {"bw", "cal", "init"} THEN "race" ELSE Forced

\* The pins (external).
Pins ==
  /\ Quiet
  /\ \E s \in PinStates(phy) \ {phy.dev} : phy' = [phy EXCEPT !.dev = s]
  /\ UNCHANGED <<lock, item, calls, ask, upset>>

Work == WorkStart \/ (\E o \in CalAnswers : WorkCal(o)) \/ WorkClear
RadioNext ==
  \/ \E w \in EnsmWords : EnsmMode(w)
  \/ Flags \/ SelfTest \/ TxLo \/ LoWrite \/ Work \/ Analysis \/ FilterFile \/ Pins
  \/ \E down \in BOOLEAN : TxLoPower(down)
  \/ \E chan \in 1 .. 2, code \in {0, 400} : TxAtten(chan, code)
  \/ \E n \in 0 .. 1, whole \in BOOLEAN : GainStep(n, whole)
  \/ \E dir \in {"rx", "tx"}, hz \in {4, 16} : Bandwidth(dir, hz)
  \/ \E o \in CalAnswers : BandwidthEnd(o) \/ CalibrateEnd(o)
  \/ \E n \in {-2, -1, 22} : Calibrate("tx_quad", n)
  \/ Calibrate("rf_dc_offs", -1)
  \/ ReinitBegin \/ \E o \in TuneAnswers : ReinitEnd(o)
  \/ \E m \in BOOLEAN, flags \in {{}, {"DEFAULT"}, {"NOSTORE", "IDELAY", "ODELAY"}}, o \in TuneAnswers :
       Tune(m, flags, o)

\* The workqueue runs the item, a write that may go on goes on.
ItemRuns == ItemBegins \/ ItemTells \/ ItemClears
LoGoesOn == TxLoTest \/ TxLoWaited \/ InitGoesOn
RadioSpec == RadioInit /\ [][RadioNext]_rvars /\ WF_item(ItemRuns) /\ WF_lock(LoGoesOn)
-----------------------------------------------------------------------------
\* An attenuation is one the chip has, states are states of the chip.
RadioTypeOK ==
  /\ phy.dev \in ActiveStates \cup {"ALERT", "WAIT"} /\ phy.prev \in ActiveStates \cup {"ALERT", "WAIT", "INVALID"}
  /\ phy.curr \in ActiveStates \cup {"ALERT", "WAIT", "SLEEP"}
  /\ phy.cfg1 \subseteq {"TX", "RX", "ALERT", "TO", "PIN"} /\ phy.track \subseteq {"bb", "rf", "quad"}
  /\ \A i \in 1 .. 2 : phy.att[i] \in 0 .. MaxAtten
  /\ call \in {"idle", "bw", "cal", "lo", "wait", "init"} /\ work \in {"idle", "cal", "clear"}

Settled == call = "idle" /\ work # "cal" /\ Quiet

\* Between calls the radio is as it was asked for: no calibration, change of
\* bandwidth or tuning leaves it muted, in another state, in loopback or with a
\* self test on, without tracking, or with filters of another bandwidth.
\* curr_ensm_state, by which sysfs decides what it may do, is the chip's state as
\* long as the pins do not move it; a chip that sleeps has no clocks.
RadioAsAsked ==
  /\ RadioTypeOK
  /\ Settled =>
      /\ phy.track = phy.want /\ phy.filt = phy.bw /\ phy.txPdReg = phy.txPd
      /\ phy.att = ask.att /\ phy.bist = ask.bist /\ phy.stepReg = phy.step
      /\ phy.loopReg = (ask.loop = 1)
      /\ phy.dsel = IF ask.loop = 2 /\ phy.conv = "core" THEN "loop" ELSE "dma"
      /\ ("PIN" \in phy.cfg1) = ask.pin
      /\ (ask.pin \/ phy.dev = ask.dev)
      /\ (~ask.pin /\ phy.curr \in ActiveStates \cup {"ALERT"}) => phy.dev = phy.curr
      /\ (phy.curr = "SLEEP") <=> ~phy.clocks

\* A write of the transmit LO, or a new initialisation, that waits for the calibration
\* with the lock held returns: the work item needs nothing its waiter holds.
LoWriteReturns == call \in {"lo", "wait", "init"} ~> call = "idle"
=============================================================================
