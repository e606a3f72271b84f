----------------------------- MODULE Ad9361Rates ------------------------------
(***************************************************************************)
(* The baseband clocks and FIR filters of the AD9361 (ad9361_main.c).      *)
(* A path is a sequence <<BBPLL, ADC or DAC, R2/T2, R1/T1, CLKRF/CLKTF,     *)
(* sample>> of rates in kHz.  bb is the driver's and the chip's state:      *)
(*   bb.byRx, bb.byTx       bypass_rx_fir, bypass_tx_fir                    *)
(*   bb.dec, bb.int         rx_fir_dec, tx_fir_int; bb.taps: *_fir_ntaps    *)
(*   bb.gov                 rate_governor                                   *)
(*   bb.filt                the rates a filter file came with, or <<>>      *)
(*   bb.curRx, bb.curTx     current_rx_path_clks, current_tx_path_clks      *)
(*   bb.pll, bb.rx, bb.tx   the BBPLL and the dividers in the registers     *)
(*   bb.firRx, bb.firTx     *_FIR_ENABLE_*, 0 for bypass                    *)
(*   bb.agc                 CLKRF when the gain control was last updated    *)
(***************************************************************************)
EXTENDS Ad9361Ensm

CONSTANTS Rates,     \* sample rates user space asks for
          Filters,   \* filter files: [int, dec, taps, filt]
          Tuning,    \* how ad9361_dig_tune may be built: "none" (it works), "stub"
          MaxRates   \* bound: calls of user space

MaxBbpll == 1430143
MinAdc == 25000
MaxAdc == 640000
MaxDac == 320000
MaxSample == 61440
MaxRxRates == <<MaxBbpll, MaxAdc, 320000, 245760, 122880, MaxSample>>
MaxTxRates == <<MaxBbpll, MaxDac, 320000, 245760, 122880, MaxSample>>
Dividers == <<<<12, 3, 2, 2>>, <<8, 2, 2, 2>>, <<6, 3, 1, 2>>, <<4, 2, 2, 1>>,
              <<3, 3, 1, 1>>, <<2, 2, 1, 1>>, <<1, 1, 1, 1>>>>
NoRow == [i |-> 7, adc |-> 0, j |-> 7]
NoChain == [ok |-> FALSE, rx |-> <<>>, tx |-> <<>>]

VARIABLES bb,
          wish,      \* the sample rate asked for last (ghost)
          fine,      \* "yes", "no" since a change of the chain failed or a filter in use
                     \* was replaced, "xo" for a reference corrected then (ghost)
          turns      \* calls made
bbvars == <<bb, wish, fine, turns>>

RoundDivide(a, b) == (a + (b \div 2)) \div b
Gap(a, b) == IF a > b THEN a - b ELSE b - a

\* The path that row i of the table makes of its converter rate.
Path(pll, adc, i, fir) ==
  LET d == Dividers[i + 1]
      r2 == adc \div d[2]
      r1 == r2 \div d[3]
      rf == r1 \div d[4]
  IN  <<pll, adc, r2, r1, rf, rf \div fir>>

\* The BBPLL: the ADC times the largest power of two up to 64 that it can run at.
Bbpll(adc) ==
  adc * (CHOOSE d \in {2 ^ k : k \in 1 .. 6} :
           /\ adc * d <= MaxBbpll \/ d = 2
           /\ d = 64 \/ adc * (d * 2) > MaxBbpll)

\* The transmit row: i, moved by the ratio of the two FIRs, and by the DAC's half rate.
TxRow(i, adc, dac) ==
  LET ratio == IF dac > adc THEN -(dac \div adc) ELSE adc \div dac
      shift == IF ratio = 1 THEN 0 ELSE ratio
  IN  IF adc <= MaxDac THEN i - shift
      ELSE IF i = 4 /\ ratio >= 0 THEN 7
      ELSE i + (IF i = 5 /\ ratio >= 0 THEN 1 ELSE 2) - shift

\* The first row from g whose ADC rate the ADC can have; 7 for none.
RxRow(rf, g) ==
  LET fits == {i \in g .. 6 : rf * Dividers[i + 1][1] \in MinAdc .. MaxAdc}
  IN  IF fits = {} THEN 7 ELSE CHOOSE i \in fits : \A j \in fits : i <= j

\* What the governor's row g comes to; j = 7 when there is none.
FromRow(rate, g, rxFir, txFir) ==
  LET Adc(i) == [i |-> i, adc |-> rate * rxFir * Dividers[i + 1][1],
                 j |-> TxRow(i, rate * rxFir * Dividers[i + 1][1], rate * txFir * Dividers[i + 1][1])]
      At(i) == IF i = 7 THEN NoRow ELSE Adc(i)
  IN  At(RxRow(rate * rxFir, g))
Paths(c, pll, rxFir, txFir) ==
  [ok |-> TRUE, rx |-> Path(pll, c.adc, c.i, rxFir),
   tx |-> Path(pll, IF c.adc <= MaxDac THEN c.adc ELSE c.adc \div 2, c.j, txFir)]

\* ad9361_calculate_rf_clock_chain: the governor's rows are tried from g on, unless the
\* nominal rate is too low for the ADC.
CalcChain(rate, gov, rxFir, txFir) ==
  LET low == gov = 1 /\ rxFir * rate * 8 < MinAdc
      rows == [g \in (IF low THEN 0 .. 0 ELSE gov .. 6) |-> FromRow(rate, g, rxFir, txFir)]
      Chosen(tried) == LET good == {g \in DOMAIN tried : tried[g].j \in 0 .. 6}
                       IN  IF good = {} THEN NoRow ELSE tried[CHOOSE g \in good : \A h \in good : g <= h]
      Made(c) == IF c.j = 7 THEN NoChain ELSE Paths(c, Bbpll(c.adc), rxFir, txFir)
  IN  IF rate > MaxSample THEN NoChain ELSE Made(Chosen(rows))

\* ad9361_validate_trx_clock_chain, one receiver over LVDS
ValidChain(rx, tx) ==
  /\ \A n \in 1 .. 6 : rx[n] <= MaxRxRates[n] /\ tx[n] <= MaxTxRates[n]
  /\ \/ \E i \in 1 .. 3 : Gap(rx[2] \div i, 2 * rx[6]) < 4
     \/ \E i \in 1 .. 4 : Gap(rx[3] \div 2 ^ i, 2 * rx[6]) < 4
-----------------------------------------------------------------------------
\* What a divider can be (ad9361_set_clk_scaler).
Legal(n) == CASE n = 1 -> {2, 4, 8, 16, 32, 64} [] n = 2 -> {1, 2, 3} [] n \in {3, 4} -> {1, 2}
              [] n = 5 -> {1, 2, 4}
LegalTx(n) == IF n = 1 THEN {1, 2} ELSE Legal(n)

\* The rates the registers make (ad9361_clk_factor_recalc_rate); the DAC's is of the ADC.
Divided(from, divs) ==
  LET a == from \div divs[1]
      b == a \div divs[2]
      c == b \div divs[3]
      d == c \div divs[4]
  IN  <<a, b, c, d, d \div divs[5]>>
RxNow(b) == Divided(b.pll, b.rx)
TxNow(b) == Divided(RxNow(b)[1], b.tx)

FirCode(bypass, div) == IF bypass THEN 0 ELSE CASE div = 1 -> 1 [] div = 2 -> 2 [] div = 4 -> 3
\* The division a code makes (ad9361_get_clk_scaler).
FirDivides(code) == CASE code \in {0, 1} -> 1 [] code = 2 -> 2 [] code = 3 -> 4

\* A clock that moves makes the framework set those below it again, with the dividers they
\* have: only the FIR codes can change.
AgainRx(b) == LET code == FirCode(b.byRx, b.rx[5]) IN [b EXCEPT !.firRx = code, !.rx[5] = FirDivides(code)]
AgainTx(b) == LET code == FirCode(b.byTx, b.tx[5]) IN [b EXCEPT !.firTx = code, !.tx[5] = FirDivides(code)]

\* clk_set_rate of one clock of the chain (external, with the driver's round_rate and
\* set_rate): the divider nearest to the ratio, not written when the rate is there already.
\* The ADC's is written as its binary logarithm.  What set_rate says is dropped.
SetDivider(b, parent, now, k, legal, divided) ==
  IF k \notin legal THEN Err(b, "-EINVAL") ELSE IF now = parent \div k THEN Ok(b) ELSE Ok(divided)
ParentRx(b, n) == IF n = 1 THEN b.pll ELSE RxNow(b)[n - 1]
ParentTx(b, n) == IF n = 1 THEN RxNow(b)[1] ELSE TxNow(b)[n - 1]
SetRx(b, n, rate) ==
  LET k == RoundDivide(ParentRx(b, n), rate)
      power == CHOOSE p \in Legal(1) : p <= k /\ k < 2 * p
      divided == IF n = 1 THEN AgainTx(AgainRx([b EXCEPT !.rx[1] = power])) ELSE AgainRx([b EXCEPT !.rx[n] = k])
  IN  SetDivider(b, ParentRx(b, n), RxNow(b)[n], k, IF n = 1 THEN 2 .. 127 ELSE Legal(n), divided)
SetTx(b, n, rate) ==
  LET k == RoundDivide(ParentTx(b, n), rate)
  IN  SetDivider(b, ParentTx(b, n), TxNow(b)[n], k, LegalTx(n), AgainTx([b EXCEPT !.tx[n] = k]))
SetPll(b, rate) == IF b.pll = rate THEN b ELSE AgainTx(AgainRx([b EXCEPT !.pll = rate]))

\* The loop over the clocks: it stops at the first that cannot be set.
SetStages(b, rx, tx) ==
  LET stage[n \in 0 .. 5] ==
        LET Receive(p) == SetRx(p, n, rx[n + 1])
            Transmit(p) == SetTx([p EXCEPT !.curRx[n + 1] = rx[n + 1]], n, tx[n + 1])
            Both(p) == Ok([p EXCEPT !.curTx[n + 1] = tx[n + 1]])
        IN  IF n = 0 THEN Ok(b) ELSE Then(Then(Then(stage[n - 1], Receive), Transmit), Both)
  IN  stage[5]

\* "Workaround for clock framework since clocks don't change"
FirWorkaround(b) ==
  LET Rx(p) == IF p.dec = 1 \/ p.byRx THEN [p EXCEPT !.firRx = IF p.byRx THEN 0 ELSE 1, !.rx[5] = 1] ELSE p
      Tx(p) == IF p.int = 1 \/ p.byTx THEN [p EXCEPT !.firTx = IF p.byTx THEN 0 ELSE 1, !.tx[5] = 1] ELSE p
  IN  Tx(Rx(b))

\* The clocks and filters are set; a kernel without the tuning, which a filter needs,
\* says -ENODEV; else the gain control, RSSI and auxiliary ADC are told
\* (ad9361_bb_clk_change_handler).
Told(p, bad) == IF bad = "stub" /\ ~(p.byRx /\ p.byTx) THEN Err(p, "-ENODEV")
                ELSE Ok([p EXCEPT !.agc = RxNow(p)[4]])

\* ad9361_set_trx_clock_chain
SetChain(b, rx, tx, bad) ==
  IF ~ValidChain(rx, tx) THEN Err(b, "-EINVAL")
  ELSE Then(SetStages([SetPll(b, rx[1]) EXCEPT !.curRx[1] = rx[1]], rx, tx), LAMBDA p : Told(FirWorkaround(p), bad))

ChainAt(b, rate) == CalcChain(rate, b.gov, IF b.byRx THEN 1 ELSE b.dec, IF b.byTx THEN 1 ELSE b.int)

\* The chain c, then the bandwidth again.
SetBoth(b, c, bad) ==
  IF ~c.ok THEN Err(b, "-EINVAL")
  ELSE Then(SetChain(b, c.rx, c.tx, bad), LAMBDA p : IF bad = "bw" THEN Err(p, "-ETIMEDOUT") ELSE Ok(p))

\* ad9361_set_trx_clock_chain_freq and ad9361_update_rf_bandwidth
SetFreq(b, rate, bad) == SetBoth(b, ChainAt(b, rate), bad)

\* The rate that filters are enabled for: the file's own with both, else the present one,
\* else the lowest.
OwnRates(b) == b.filt # <<>> /\ ~b.byRx /\ ~b.byTx
FirRate(b) == IF OwnRates(b) THEN b.filt[2][6]
              ELSE IF ChainAt(b, TxNow(b)[5]).ok THEN TxNow(b)[5]
              ELSE IF b.gov = 1 THEN 1500 ELSE 1000

\* More taps than the clocks leave time for.
TooLong(b, rx, tx) ==
  \/ ~b.byTx /\ b.taps > (IF b.int = 1 THEN 64 ELSE 128)
  \/ ~b.byTx /\ b.taps > (tx[2] \div tx[6]) * 16
  \/ ~b.byRx /\ b.taps > ((rx[2] \div (IF rx[2] = rx[3] THEN 1 ELSE 2)) \div rx[6]) * 16

\* ad9361_validate_enable_fir
EnableFir(b, bad) ==
  LET Enable(c) == IF c.ok /\ TooLong(b, c.rx, c.tx) THEN Err(b, "-EINVAL") ELSE SetBoth(b, c, bad)
  IN  IF (~b.byTx /\ b.int \notin {1, 2, 4}) \/ (~b.byRx /\ b.dec \notin {1, 2, 4}) THEN Err(b, "-EINVAL")
      ELSE Enable(IF OwnRates(b) THEN [ok |-> TRUE, rx |-> b.filt[1], tx |-> b.filt[2]]
                  ELSE ChainAt(b, FirRate(b)))

Switch(b, who, on) == [b EXCEPT !.byRx = IF "rx" \in who THEN ~on ELSE @,
                                !.byTx = IF "tx" \in who THEN ~on ELSE @]

\* Slip: a filter that is there but could not be enabled stays enabled.
StoreFirKept(b, who, on, bad) ==
  IF on /\ b.int = 0 THEN Err(b, "-EINVAL") ELSE EnableFir(Switch(b, who, on), bad)

\* AD9361_FIR_*_ENABLE of ad9361_phy_store; on an error what was to be enabled is bypassed.
StoreFir(b, who, on, bad) ==
  LET Undo(r) == IF r.ret = "0" THEN r
                 ELSE [r EXCEPT !.p.byRx = "rx" \in who \/ @, !.p.byTx = "tx" \in who \/ @]
  IN  IF Switch(b, who, on) = b THEN Ok(b) ELSE Undo(EnableFir(Switch(b, who, on), bad))

\* ad9361_load_fir_filter_coef, for both filters of a file: up to 128 taps, in multiples
\* of 16.  (That the chip is in ALERT meanwhile: Ad9361Radio.)
LoadCoefs(b, taps) ==
  IF taps \notin {16 * n : n \in 1 .. 8} THEN Err(b, "-EINVAL") ELSE Ok([b EXCEPT !.taps = taps])

\* ad9361_parse_fir: the factors of the file count from now on, also for a filter that is
\* enabled; a bad length is only found afterwards.
LoadFir(b, f) ==
  Then(LoadCoefs([b EXCEPT !.int = f.int, !.dec = f.dec, !.filt = <<>>], f.taps),
       LAMBDA q : Ok([q EXCEPT !.filt = f.filt]))

\* AD9361_XO_CORRECTION: the paths the driver remembers are set again.
XoCorrection(b, bad) == SetChain(b, b.curRx, b.curTx, bad)
-----------------------------------------------------------------------------
Reset == [byRx |-> TRUE, byTx |-> TRUE, dec |-> 0, int |-> 0, taps |-> 0, gov |-> 1, filt |-> <<>>,
          curRx |-> <<0, 0, 0, 0, 0, 0>>, curTx |-> <<0, 0, 0, 0, 0, 0>>, pll |-> 0,
          rx |-> <<2, 1, 1, 1, 1>>, tx |-> <<1, 1, 1, 1, 1>>, firRx |-> 0, firTx |-> 0, agc |-> 0, tree |-> 0]

\* ad9361_setup sets the device tree's paths; here they are those of one rate.
BbSetup(rate) == [SetFreq(Reset, rate, "none").p EXCEPT !.tree = rate]
BbInit ==
  /\ wish \in {rate \in Rates : SetFreq(Reset, rate, "none").ret = "0"}
  /\ bb = BbSetup(wish)
  /\ fine = "yes" /\ turns = 0

Turn == turns < MaxRates /\ turns' = turns + 1
Hows == Tuning \cup {"bw"}

\* A call that returned r; with a change that succeeds the rate is to be to.
Returns(r, to) ==
  /\ bb' = r.p
  /\ wish' = IF r.ret = "0" THEN to ELSE wish
  /\ fine' = IF r.p = bb THEN fine ELSE IF r.ret = "0" THEN "yes" ELSE "no"

\* IIO_CHAN_INFO_SAMP_FREQ
SampFreq(rate, bad) == Turn /\ Returns(SetFreq(bb, rate, bad), rate)

\* A filter file, which may replace one in use.
LoadFilter(f) ==
  /\ Turn
  /\ bb' = LoadFir(bb, f).p /\ UNCHANGED wish
  /\ fine' = IF bb.byRx /\ bb.byTx THEN fine ELSE "no"

EnableFilter(who, on, bad) ==
  LET To(q) == IF q = bb THEN wish ELSE FirRate(q)
  IN  Turn /\ Returns(StoreFir(bb, who, on, bad), To(Switch(bb, who, on)))

Governor(g) == Turn /\ bb' = [bb EXCEPT !.gov = g] /\ UNCHANGED <<wish, fine>>

Corrected(r) == bb' = r.p /\ UNCHANGED wish /\ fine' = IF fine = "yes" /\ r.ret = "0" THEN "yes" ELSE "xo"
Xo(bad) == Turn /\ Corrected(XoCorrection(bb, bad))

\* DBGFS_INIT: filter, governor and rates are lost, the device tree's paths set again.
BbReinit == Turn /\ bb' = BbSetup(bb.tree) /\ wish' = bb.tree /\ fine' = "yes"

BbNext ==
  \/ \E rate \in Rates, bad \in Hows : SampFreq(rate, bad)
  \/ \E f \in Filters : LoadFilter(f)
  \/ \E who \in {{"rx"}, {"tx"}, {"rx", "tx"}}, on \in BOOLEAN, bad \in Hows : EnableFilter(who, on, bad)
  \/ \E g \in 0 .. 1 : Governor(g)
  \/ \E bad \in Hows : Xo(bad)
  \/ BbReinit
-----------------------------------------------------------------------------
\* After a change that succeeds, whatever failed before it, both sample rates are the one
\* asked for, the dividers make the rates the driver remembers, the filters that are on
\* divide by their factor, and the gain control knows its clock.
RatesAsAsked ==
  fine = "yes" =>
    /\ RxNow(bb)[5] = wish /\ TxNow(bb)[5] = wish
    /\ <<bb.pll>> \o RxNow(bb) = bb.curRx /\ TxNow(bb) = Tail(bb.curTx)
    /\ (bb.firRx = 0) = bb.byRx /\ (bb.firTx = 0) = bb.byTx
    /\ bb.agc = RxNow(bb)[4]

BbTypeOK == \A n \in 1 .. 5 : bb.rx[n] \in Legal(n) /\ bb.tx[n] \in LegalTx(n)

\* No sequence of calls, failing ones included, takes the chip's clocks out of its limits;
\* except that a filter that could not be enabled, or was replaced while in use, leaves
\* its rates behind, and a correction of the reference sets them with the new factors.
ClocksInLimits ==
  fine # "xo" =>
    /\ RxNow(bb)[1] <= MaxAdc /\ TxNow(bb)[1] <= MaxDac
    /\ \A n \in 2 .. 5 : RxNow(bb)[n] <= MaxRxRates[n + 1] /\ TxNow(bb)[n] <= MaxTxRates[n + 1]

\* Both of the clocks, with every divider one the chip has.
ClocksHold == BbTypeOK /\ RatesAsAsked /\ ClocksInLimits

\* A chain that is calculated and valid has one sample rate, the one asked for.
ChainMakesRate(rate, gov, rxFir, txFir) ==
  LET c == CalcChain(rate, gov, rxFir, txFir)
  IN  (c.ok /\ ValidChain(c.rx, c.tx)) => c.rx[6] = rate /\ c.tx[6] = rate
=============================================================================
