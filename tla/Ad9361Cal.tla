------------------------------ MODULE Ad9361Cal ------------------------------
(***************************************************************************)
(* Calibrations of the AD9361, the analog bandwidths, the transmit         *)
(* attenuation and the built-in self test (ad9361_main.c).  Registers that *)
(* one call writes and puts back are left out.                              *)
(*   p.want, p.track    *_track_en, and what REG_CALIBRATION_CONFIG_1 and   *)
(*                      REG_DC_OFFSET_CONFIG2 enable                        *)
(*   p.bw, p.filt       current_*_bw_Hz, and what the filters were tuned to *)
(*   p.phase            last_tx_quad_cal_phase                              *)
(*   p.txPd, p.txPdReg  TX_LO_POWER_DOWN cached and in the chip             *)
(*   p.att, p.cache     attenuation of TX1 and TX2 in 0.25 dB, tx*_cached    *)
(*   p.loop, p.loopReg, p.bist   loopback asked for and in effect, REG_BIST *)
(*   p.dsel, p.scratch  the data the FPGA's DAC core sends, scratch_reg      *)
(* What the chip answers to one call is a record o: o.conv, the phases that *)
(* converge; o.bad, the one calibration that times out; o.junk, what an     *)
(* unwritten variable happens to hold.                                      *)
(***************************************************************************)
EXTENDS Ad9361Ensm

Phases == 32
MaxAtten == 359     \* 89.75 dB

Clamp(x, lo, hi) == IF x < lo THEN lo ELSE IF x > hi THEN hi ELSE x
RoundDiv(a, b) == (a + (b \div 2)) \div b

\* ad9361_find_opt over field[0 .. n - 1]: a left-to-right scan for the longest
\* run of zeros.  scan[i] is the state before field[i] is looked at.
FindOpt(field, n) ==
  LET Close(s) == IF s.cnt > s.max THEN [s EXCEPT !.max = s.cnt, !.at = s.start] ELSE s
      scan[i \in 0 .. n] ==
        IF i = 0 THEN [cnt |-> 0, start |-> -1, max |-> 0, at |-> 0]
        ELSE LET s == scan[i - 1]
             IN  IF field[i - 1] = 0
                 THEN [s EXCEPT !.cnt = s.cnt + 1, !.start = IF s.start = -1 THEN i - 1 ELSE s.start]
                 ELSE [Close(s) EXCEPT !.cnt = 0, !.start = -1]
      end == Close(scan[n])
  IN  [start |-> end.at, cnt |-> end.max]

\* The NCO words <<transmit, receive>> and the phase for the CLKRF to CLKTF ratio;
\* -2 becomes 254 in the u8 __rx_phase.
NcoWords(rf, tf, w) ==
  CASE rf \div 2 = tf -> <<<<1, 0, 14>>, <<1, 0, 14>>, <<1, 0, 14>>, <<3, 1, 8>>>>[w + 1]
    [] rf = tf -> <<w, w, <<21, 26, 31, 21>>[w + 1]>>
    [] tf \div 2 = rf /\ w = 0 -> <<0, 1, 254>>
    [] tf \div 2 = rf /\ w > 0 -> <<1, 3, 254>>
    [] tf \div 4 = rf -> <<0, 3, 254>>
    [] rf \div 4 = tf -> <<3, 0, 254>>
    [] OTHER -> <<w, w, 0>>

\* __ad9361_update_rf_bandwidth: a timeout of the receive filter leaves the
\* transmit filter as it was.
UpdateFilters(p, rx, tx, bad) ==
  [p |-> [p EXCEPT !.filt = [rx |-> rx, tx |-> IF bad = "rx" THEN p.filt.tx ELSE tx]],
   ret |-> IF bad \in {"rx", "tx"} THEN "-ETIMEDOUT" ELSE "0"]

\* ad9361_tx_quad_phase_search: all phases, written twice for the wrap around.
SearchedPhase(conv) ==
  LET w == FindOpt([i \in 0 .. 2 * Phases - 1 |-> IF i % Phases \in conv THEN 0 ELSE 1], 2 * Phases)
  IN  (w.start + w.cnt \div 2) % Phases

\* __ad9361_tx_quad_calib, as the n-th of a call: the answer of the chip is that LO
\* leakage and sideband of every transmitter in use converge, or that it takes too long;
\* then the caller's variable keeps what it held (o.junk).  The phase register has 5 bits.
QuadCalib(phase, n, o) == IF o.bad = n THEN o.junk ELSE phase % Phases \in o.conv

\* The calibration at the phase given, else at the last good one, else the search.
\* The second time the variable holds the failure of the first.
QuadSteps(p, phase, arg, o) ==
  LET first == QuadCalib(phase, "quad1", o)
      again == p.phase < Phases - 1 /\ QuadCalib(p.phase, "quad2", [o EXCEPT !.junk = FALSE])
  IN  IF arg # -2 /\ first
      THEN [p |-> [p EXCEPT !.phase = phase], ret |-> IF o.bad = "quad1" THEN "-ETIMEDOUT" ELSE "0"]
      ELSE IF arg # -2 /\ again THEN Ok(p)
      ELSE IF o.bad = "search" THEN Err(p, "-ETIMEDOUT")
      ELSE Ok([p EXCEPT !.phase = SearchedPhase(o.conv)])

\* ad9361_tx_quad_calib for half the bandwidths rx and tx.  A transmit LO that is
\* powered down is powered up for it, when that is managed.
TxQuad(p, rx, tx, arg, o) ==
  LET w == Clamp(RoundDiv(tx * 8, p.clktf) - 1, 0, 3)
      nco == NcoWords(p.clkrf, p.clktf, w)
      freq == (p.clktf * (nco[1] + 1)) \div 32
      wide == freq > rx \div 4 \/ freq > tx \div 4
      up == [p EXCEPT !.txPdReg = FALSE]
      q == IF wide THEN UpdateFilters(up, freq * 8, freq * 8, o.bad) ELSE Ok(up)
      s == QuadSteps(q.p, IF arg >= 0 THEN arg ELSE nco[3], arg, o)
      r == IF q.ret # "0" THEN q
           ELSE IF wide THEN [s EXCEPT !.p = UpdateFilters(s.p, p.bw.rx, p.bw.tx, o.narrow).p]
           ELSE s
  IN  IF p.txPd /\ ~p.managed THEN Err(p, "-EFAULT")
      ELSE [r EXCEPT !.p.txPdReg = p.txPd]

\* Both calibrations and bandwidth changes start without tracking, in ALERT.
CalBegin(p) == ForceState([p EXCEPT !.track = {}], "ALERT")

\* Slip: the tracking is left off.
CalEndNoTrack(p, cal, arg, o) ==
  LET r == IF cal = "tx_quad" THEN TxQuad(p, p.bw.rx \div 2, p.bw.tx \div 2, arg, o)
           ELSE IF o.bad = "quad1" THEN Err(p, "-ETIMEDOUT") ELSE Ok(p)
  IN  [r EXCEPT !.p = RestorePrev(r.p)]

\* The rest of ad9361_do_calib_run: tracking and state come back whatever happens.
CalEnd(p, cal, arg, o) ==
  LET r == IF cal = "tx_quad" THEN TxQuad(p, p.bw.rx \div 2, p.bw.tx \div 2, arg, o)
           ELSE IF o.bad = "quad1" THEN Err(p, "-ETIMEDOUT") ELSE Ok(p)
  IN  [r EXCEPT !.p = RestorePrev([r.p EXCEPT !.track = r.p.want])]

\* The rest of ad9361_update_rf_bandwidth: an error returns with the chip in ALERT
\* and the tracking off.
BwEnd(p, rx, tx, o) ==
  LET f == UpdateFilters(p, rx, tx, o.bad)
      q == [f.p EXCEPT !.bw = [rx |-> rx, tx |-> tx]]
      c == IF p.manualQuad THEN Ok(q) ELSE TxQuad(q, rx \div 2, tx \div 2, -1, o)
  IN  IF f.ret # "0" THEN f ELSE IF c.ret # "0" THEN c
      ELSE Ok(RestorePrev([c.p EXCEPT !.track = c.p.want]))

\* AD9361_CALIB_MODE, the words that only set flags.
StoreCalMode(p, w) == [p EXCEPT !.autoCal = w = "auto", !.manualQuad = w = "manual_tx_quad"]

\* AD9361_BBDC_OFFS_ENABLE, AD9361_RFDC_OFFS_ENABLE, AD9361_QUAD_ENABLE
StoreTrack(p, want) == [p EXCEPT !.want = want, !.track = want]

\* ad9361_rssi_program_lna_gain, ad9361_rssi_write_err_tbl
ProgramWords(p) == [p EXCEPT !.stepReg.words = p.step.words]
ProgramErrs(p) == [p EXCEPT !.stepReg.errs = p.step.errs]

\* ad9361_rssi_gain_step_calib: the words are the band's (the last of the five is left)
\* and programmed for the calibration, the errors it measured are programmed after it.
StepCalib(p, band, errs) ==
  LET q == ProgramWords([ForceState(p, "ALERT") EXCEPT !.step.words = band])
  IN  RestorePrev(ProgramErrs([q EXCEPT !.step.errs = errs]))

\* AD9361_RSSI_GAIN_STEP_ERROR: sscanf stores what it can before the count is checked.
StoreStep(p, step, whole) ==
  LET q == [p EXCEPT !.step = step]
  IN  IF ~whole THEN Err(q, "-EINVAL")
      ELSE Ok(RestorePrev(ProgramErrs(ProgramWords(ForceState(q, "ALERT")))))

\* ad9361_set_tx_atten for the transmitters in who.
SetAtten(p, code, who) ==
  IF code > MaxAtten THEN Err(p, "-EINVAL")
  ELSE Ok([p EXCEPT !.att = [i \in 1 .. 2 |-> IF i \in who THEN code ELSE p.att[i]]])

\* ad9361_tx_mute
Mute(p) == [p EXCEPT !.cache = p.att, !.att = <<MaxAtten, MaxAtten>>]
Unmute(p) == [p EXCEPT !.att = p.cache]

\* ad9361_hdl_loopback on the registers of the FPGA's core, when there is one.
HdlLoopback(p, enable) ==
  IF p.conv = "core" /\ enable /\ p.dsel # "loop" THEN [p EXCEPT !.scratch = p.dsel, !.dsel = "loop"]
  ELSE IF p.conv = "core" /\ ~enable /\ p.dsel = "loop" THEN [p EXCEPT !.dsel = p.scratch]
  ELSE p

\* ad9361_bist_loopback stores the mode before it looks at it.
Loopback(p, mode) ==
  LET q == [p EXCEPT !.loop = mode]
  IN  IF mode \notin 0 .. 2 THEN Err(q, "-EINVAL")
      ELSE Ok([HdlLoopback(q, mode = 2) EXCEPT !.loopReg = mode = 1,
                                               !.txOn = IF mode = 1 THEN p.rxNum ELSE p.txNum])

\* ad9361_write_bist_reg with what bist_prbs and bist_tone compute.
Bist(p, word) == [p EXCEPT !.bist = word]
=============================================================================
