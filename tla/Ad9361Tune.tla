----------------------------- MODULE Ad9361Tune ------------------------------
(***************************************************************************)
(* The tuning of the digital interface between the AD9361 and an ADI       *)
(* converter core in the FPGA (ad9361_conv.c).  p.conv is "core", "stub" for a  *)
(* kernel without it, or "null" once its set-up has failed.  Clock and data *)
(* delay matter only by their difference, the skew.                          *)
(*   p.dly, p.pdDly   the delay registers, and the delays in pdata          *)
(*   p.io             IODELAY of a lane (the seven are tuned alike)         *)
(*   p.skip           dig_interface_tune_skipmode: 0 RX and TX, 1 RX, 2 all *)
(*   p.bbTune, p.fir  bb_clk_change_dig_tune_en, a FIR is enabled           *)
(* o.pass: the skews at which the PRBS checker sees no error.               *)
(***************************************************************************)
EXTENDS Ad9361Cal

Taps == 16
IoTaps == 32
Prbs(point) == <<"prbs", point>>
BistOff == <<"off">>

\* ad9361_set_intf_delay; a new clock delay is set in ALERT, then FDD is forced.
IntfDelay(p, dir, skew, clockChanged) ==
  LET q == [IF clockChanged THEN ForceState(p, "ALERT") ELSE p EXCEPT !.dly[dir] = skew]
  IN  IF clockChanged THEN ForceState(q, "FDD") ELSE q

\* The middle of the wider of two windows.
Wider(w0, w1) == IF w1.cnt > w0.cnt THEN w1.start + w1.cnt \div 2 ELSE -(w0.start + w0.cnt \div 2)
Window(good, n) == FindOpt([j \in 0 .. n - 1 |-> IF j \in good THEN 0 ELSE 1], n)

\* Slip: the second sweep is read as if its data delay went up.
ChosenSkewPlain(pass) ==
  Wider(Window({-j : j \in pass}, Taps), Window({j + Taps - 1 : j \in pass}, Taps))

\* The skew ad9361_dig_tune_delay settles on: it has swept 0, -1, .. and then, with
\* the clock at its latest, 0, 1, ..
ChosenSkew(pass) ==
  Wider(Window({-j : j \in pass}, Taps), Window(pass, Taps))

Sweepable(pass) == pass \cap (-(Taps - 1) .. Taps - 1) # {}

TuneSettles(p, dir, o) ==
  IF Sweepable(o.pass) THEN Ok(IntfDelay(p, dir, ChosenSkew(o.pass), TRUE)) ELSE Err(p, "-EIO")

\* ad9361_dig_tune_delay, once the rate is set.
TuneDelay(p, dir, o) == TuneSettles(IntfDelay(IntfDelay(p, dir, 0, TRUE), dir, Taps - 1, FALSE), dir, o)

\* ad9361_dig_tune_iodelay, the lane centred in its window.
TuneIo(r, dir, on, o) ==
  LET Centre(w) == w.start + w.cnt \div 2
  IN  [r EXCEPT !.p.io[dir] = IF on THEN Centre(Window(o.ioPass, IoTaps)) ELSE @]

\* ad9361_dig_tune_rx: its start, and what it does with u, the radio at the rate to sweep at.
RxStart(p) == Bist(Loopback(p, 0).p, Prbs("rx"))
TuneRx(u, flags, o) == TuneIo(TuneDelay(u, "rx", o), "rx", "IDELAY" \in flags, o)

\* ad9361_dig_tune_tx of p in the same way: the core sends the PRBS through the chip's loopback.
TxBegins(p) == Loopback(Bist(p, BistOff), 1).p
TxStart(p) == [TxBegins(p) EXCEPT !.dsel = "pn"]
TuneTx(p, u, flags, o) ==
  TuneIo([TuneDelay(u, "tx", o) EXCEPT !.p.dsel = TxBegins(p).dsel], "tx", "ODELAY" \in flags, o)

\* Delay lines to the middle before they are tuned.
Midscale(p, flags) == [p EXCEPT !.io = [rx |-> IF "IDELAY" \in flags THEN 15 ELSE p.io.rx,
                                        tx |-> IF "ODELAY" \in flags THEN 15 ELSE p.io.tx]]

\* The tuning itself, muted and without pin control, from what its two halves give: r2 for
\* the transmitter, unless it is skipped.  Loopback and BIST come back.
TuneStarts(p, flags) == Midscale(DisablePinctrl(Mute(p)), flags)
TuneRun(p, r1, r2) ==
  [(IF r1.ret = "0" THEN (IF p.skip = 0 THEN r2 ELSE Ok(r1.p)) ELSE r1)
     EXCEPT !.p = Bist(Loopback(@, p.loop).p, p.bist)]

\* Both halves at the rate that is set.
RunAtRate(p, flags, o) ==
  LET r1 == TuneRx(RxStart(TuneStarts(p, flags)), flags, o)
  IN  TuneRun(p, r1, TuneTx(r1.p, TxStart(r1.p), flags, o))

\* The end of ad9361_dig_tune after a run, or at once when the tuning is skipped.
TuneEnds(r, p, skip, maxFreq, flags) ==
  LET q == IF skip \/ r.ret = "-EIO" THEN [ForceState(r.p, "ALERT") EXCEPT !.dly = p.pdDly]
           ELSE IF "NOSTORE" \in flags THEN r.p ELSE [r.p EXCEPT !.pdDly = r.p.dly]
      Heard(b) == IF skip THEN b ELSE Unmute(b)
  IN  [p |-> Heard(RestoreState(RestorePinctrl(q), p.dev)), ret |-> IF maxFreq THEN r.ret ELSE "0"]

\* ad9361_dig_tune, r being what its run gives.
Skipped(p, flags) == p.skip = 2 \/ "DEFAULT" \in flags
TuneAt(p, r, maxFreq, flags) ==
  IF p.conv # "core" THEN Err(p, "-ENODEV")
  ELSE TuneEnds(IF Skipped(p, flags) THEN Ok(p) ELSE r, p, Skipped(p, flags), maxFreq, flags)

\* The tuning at the end of ad9361_set_trx_clock_chain, at the rate just set; the stub's
\* error ends the chain.
ChainTune(p, o) ==
  LET flags == IF p.bbTune THEN {} ELSE {"NOSTORE"}
  IN  IF p.conv # "null" /\ (p.bbTune \/ p.fir)
      THEN TuneAt(p, RunAtRate(p, flags, o), FALSE, flags) ELSE Ok(p)

\* A tuning with a maximum frequency sweeps at all the rates, the last of which stays;
\* setting a rate may tune, once more, inside the tuning.
AllRates(p, o) == [ChainTune(p, o).p EXCEPT !.rate = "61.44M"]
RunAtRates(p, flags, o) ==
  LET r1 == TuneRx(AllRates(RxStart(TuneStarts(p, flags)), o), flags, o)
  IN  TuneRun(p, r1, TuneTx(r1.p, AllRates(TxStart(r1.p), o), flags, o))
DigTune(p, maxFreq, flags, o) ==
  TuneAt(p, IF maxFreq THEN RunAtRates(p, flags, o) ELSE RunAtRate(p, flags, o), maxFreq, flags)

\* DBGFS_DIGITAL_TUNE: with a maximum frequency each rate tunes once more.
StoreTune(p, maxFreq, flags, o) == DigTune(p, maxFreq, flags, o)

\* ad9361_dig_interface_timing_analysis
TimingAnalysis(p) ==
  LET q == Bist(Loopback(DisablePinctrl(Mute(p)), 0).p, Prbs("rx"))
      a == [ForceState(IntfDelay(q, "rx", 0, TRUE), "ALERT") EXCEPT !.dly.rx = p.dly.rx]
      b == Bist(Loopback(a, p.loop).p, p.bist)
  IN  IF p.conv # "core" THEN p ELSE Unmute(RestoreState(RestorePinctrl(b), p.dev))

\* ad9361_post_setup of the converter core: the skip mode it saves comes from a
\* function that returns bool.  A failing tune ends the converter.
PostSetup(p, o) ==
  LET Skip(q) == IF p.bbTune THEN [q EXCEPT !.skip = IF p.skip # 0 THEN 1 ELSE 0] ELSE q
      Last(q) == Ok(RestorePrev(ForceState([ChainTune(Skip(q), o).p EXCEPT !.rate = "user"], "ALERT")))
      Dead(r) == IF r.ret = "0" THEN r ELSE [r EXCEPT !.p.conv = "null"]
      quiet == IF p.bbTune THEN [p EXCEPT !.skip = 2] ELSE p
  IN  Then(Dead(DigTune(quiet, TRUE, {}, o)), Last)
=============================================================================
