------------------------------- MODULE Ad9361Lo -------------------------------
(***************************************************************************)
(* The local oscillators of the AD9361 and what follows them               *)
(* (ad9361_main.c): the RF synthesizers, their fast lock profiles, the      *)
(* external LO, and the gain table of the receiver's band.  Frequencies in  *)
(* MHz.  lo is the driver's and the chip's state, with the fields of        *)
(* Ad9361Ensm and, for d of "rx" and "tx",                                   *)
(*   lo.cur[d], lo.tdd[d]   current_*_lo_freq, current_*_use_tdd_table      *)
(*   lo.pll[d], lo.div[d]   integer and fraction, and the divider register  *)
(*   lo.cached[d]           cached_*_rfpll_div                              *)
(*   lo.prof[d], lo.mem[d]  fastlock.current_profile, entry and the chip's  *)
(*                          profile memory                                  *)
(*   lo.ready[d]            the SYNTH_READY_MASK bits                        *)
(*   lo.alc[d]              the ALC word in use (external)                  *)
(*   lo.ext[d]              the mux takes the external LO                   *)
(*   lo.rate[d]             the rate the clock framework has cached         *)
(*   lo.gt, lo.table, lo.idx  gt_info, current_table, manual gain indices    *)
(*   lo.mgc, lo.agc         AGC_CONFIG_1 and st->agc_mode per receiver      *)
(***************************************************************************)
EXTENDS Ad9361Ensm

CONSTANTS LoBoards,  \* the devices: id, fdd and tdd_skip_vco_cal
          LoFreqs,   \* frequencies user space asks for
          AdiGt,     \* ad9361_adi_gt_info: [start, end, gain] of each table
          GainFiles, \* gain tables user space may load
          MaxLo      \* bound: calls of user space
Dirs == {"rx", "tx"}
Other(d) == IF d = "rx" THEN "tx" ELSE "rx"
Profiles == 0 .. 1      \* of the chip's eight
Modulus == 8388593
RefMHz == 40
ExtDiv == 7

\* Gains ascend, as the driver's warning asks ("Gain table must be monotonic",
\* ad9361_main.c 9280), and no table is empty.
IsGainInfo(gt) ==
  /\ gt \in Seq([start : Int, end : Int, gain : Seq(Int)]) /\ gt # <<>>
  /\ \A i \in DOMAIN gt : LET t == gt[i].gain
                          IN  t # <<>> /\ \A j, k \in DOMAIN t : j <= k => t[j] <= t[k]
ASSUME GainTablesAssumption == \A gt \in {AdiGt} \cup GainFiles : IsGainInfo(gt)
ASSUME LoBoardsAssumption == \A b \in LoBoards : b.fdd \in BOOLEAN /\ b.skipCal \in BOOLEAN

VARIABLES lo,
          asked,     \* what user space asked each LO for last (ghost)
          los,       \* calls made
          luck       \* what has gone wrong in a way this project names (ghost)
lovars == <<lo, asked, los, luck>>

AbsDiff(a, b) == IF a > b THEN a - b ELSE b - a

\* ad9361_validate_rfpll
ValidRfpll(id, d, f) ==
  IF id = "AD9363A" THEN f \in 325 .. 3800 ELSE f \in (IF d = "tx" THEN 47 ELSE 70) .. 6000

\* ad9361_calc_rfpll_divder: doubled until it is a VCO frequency.
RfpllDiv(f, parent) ==
  LET k == CHOOSE k \in 0 .. 8 : f * 2 ^ k > 6000 /\ (k = 0 \/ f * 2 ^ (k - 1) <= 6000)
      vco == f * 2 ^ k
  IN  [div |-> k - 1, vco |-> vco, n |-> vco \div parent,
       f |-> ((vco % parent) * Modulus + (parent \div 2)) \div parent]

\* ad9361_calc_rfpll_freq
RfpllFreq(parent, n, f, div) == ((parent * f) \div Modulus + parent * n) \div 2 ^ (div + 1)

\* What the words of f read back as.
ReadsAs(f) == LET s == RfpllDiv(f, RefMHz) IN RfpllFreq(RefMHz, s.n, s.f, s.div)

\* ad9361_rfpll_recalc_rate: of the profile when there is one.
Readback(l, d) ==
  LET m == l.mem[d][l.prof[d] - 1]
  IN  IF l.prof[d] # 0 THEN RfpllFreq(RefMHz, m.n, m.f, m.div)
      ELSE RfpllFreq(RefMHz, l.pll[d].n, l.pll[d].f, l.div[d])

\* Slip: the VCO calibration stays off.
UnprepareNoCal(l, d) ==
  IF l.prof[d] = 0 THEN l ELSE [l EXCEPT !.ready[d] = FALSE, !.prof[d] = 0]

\* ad9361_fastlock_prepare, both ways
Prepare(l, d) ==
  IF l.prof[d] # 0 THEN l ELSE [l EXCEPT !.ready[d] = TRUE, !.vcoCal = @ \ {d}]
Unprepare(l, d) ==
  IF l.prof[d] = 0 THEN l
  ELSE [l EXCEPT !.ready[d] = FALSE, !.vcoCal = @ \cup {d}, !.prof[d] = 0]

OneVco(l) == l.fdd /\ ~l.indep
\* ad9361_rfpll_vco_init: the VCO is set up from the row of one of two tables.
VcoInit(l, d) == [l EXCEPT !.tdd[d] = ~(OneVco(l) /\ l.cur.tx # l.cur.rx)]

\* Then the other registers of one PLL; alc: what its VCO locks with, when it is
\* calibrated.
ProgramPll(l, d, s, alc) ==
  [VcoInit(l, d) EXCEPT !.pll[d] = [n |-> s.n, f |-> s.f], !.div[d] = s.div,
                        !.alc[d] = IF l.prof[d] = 0 THEN alc ELSE @]

\* The other PLL has the wrong table for the LOs being equal, or not.
OtherNeedsFix(l) ==
  OneVco(l) /\ IF l.cur.tx = l.cur.rx THEN l.tdd.tx # l.tdd.rx ELSE l.tdd.tx \/ l.tdd.rx

\* The second round of the loop: with other frequencies the other PLL's own words, and
\* it leaves its profile.
FixOther(l, d, s, alc) ==
  LET o == Other(d)
  IN  IF l.cur.tx = l.cur.rx THEN ProgramPll(l, o, s, alc)
      ELSE ProgramPll(Unprepare(l, o), o, RfpllDiv(l.cur[o], RefMHz), alc)

\* ad9361_rfpll_set_rate
RfpllSetRate(l, d, f, alc) ==
  LET s == RfpllDiv(f, RefMHz)
      u == [Unprepare(l, d) EXCEPT !.cached[d] = s.div, !.cur[d] = f]
      a == ProgramPll(u, d, s, alc)
      b == IF OtherNeedsFix(a) THEN FixOther(a, d, s, alc) ELSE a
  IN  IF l.skipCal THEN [b EXCEPT !.vcoCal = @ \ {d}] ELSE b

\* ad9361_gt_tableindex: the first table when none fits.
Band(gt, f) ==
  LET fits == {i \in DOMAIN gt : gt[i].start < f /\ f <= gt[i].end}
  IN  IF fits = {} THEN 1 ELSE CHOOSE i \in fits : \A j \in fits : i <= j
Gains(l) == l.gt[l.table].gain

\* Slip: the entry below is not looked at.
FindTableIndexUp(t, gain) ==
  LET up == {i \in 1 .. Len(t) : t[i] >= gain}
  IN  IF up = {} THEN 0 ELSE CHOOSE k \in up : \A m \in up : k <= m

\* find_table_index: the first entry that is enough, or the one below if it is closer;
\* 0 for -EINVAL.
FindTableIndex(t, gain) ==
  LET up == {i \in 1 .. Len(t) : t[i] >= gain}
      i == CHOOSE k \in up : \A m \in up : k <= m
  IN  IF up = {} THEN 0
      ELSE IF i > 1 /\ AbsDiff(t[i - 1], gain) < AbsDiff(t[i], gain) THEN i - 1 ELSE i

\* ad9361_load_gt: the gains in dB are kept as near as the new table allows.
LoadGt(l, f) ==
  LET b == Band(l.gt, f)
      t == l.gt[b].gain
      At(i) == IF l.table = 0 THEN t[IF l.idx[i] > Len(t) THEN Len(t) ELSE l.idx[i]]
               ELSE Gains(l)[l.idx[i]]
      New(i) == LET k == FindTableIndex(t, At(i)) IN IF k = 0 THEN Len(t) ELSE k
  IN  IF l.table = b THEN l ELSE [l EXCEPT !.table = b, !.idx = [i \in 1 .. 2 |-> New(i)]]

\* clk_set_rate of an RFPLL (external): nothing when the cached rate is the one asked
\* for; else set_rate, the new rate read back, and the notifier if it changed.
ClkSetRate(l, d, f, alc) ==
  LET s == RfpllSetRate(l, d, f, alc)
      r == [s EXCEPT !.rate[d] = Readback(s, d)]
  IN  IF ~ValidRfpll(l.id, d, f) THEN Err(l, "-EINVAL")
      ELSE IF l.rate[d] = f THEN Ok(l)
      ELSE Ok(IF d = "rx" /\ r.rate[d] # l.rate[d] THEN LoadGt(r, r.rate[d]) ELSE r)

NoEntry == [init |-> FALSE, n |-> 0, f |-> 0, div |-> 0, orig |-> 0, alc |-> 0]

\* ad9361_fastlock_load
FastlockLoad(l, d, p, v) ==
  [l EXCEPT !.mem[d][p] = [init |-> TRUE, n |-> v.n, f |-> v.f, div |-> v.div,
                           orig |-> v.alc, alc |-> v.alc]]

\* ad9361_fastlock_store: the registers of the synthesizer, whatever is in use.
FastlockStore(l, d, p) ==
  FastlockLoad(l, d, p, [n |-> l.pll[d].n, f |-> l.pll[d].f, div |-> l.div[d], alc |-> l.alc[d]])

\* The ALC word of a profile that is recalled when curr is in use.
NewAlc(m, curr) ==
  IF m.alc # curr THEN m.alc ELSE IF m.orig = m.alc THEN m.alc + 1 ELSE m.orig

\* ad9361_fastlock_recall; what the driver takes for the word in use is that of the
\* current profile's entry.
FastlockRecall(l, d, p) ==
  LET curr == IF l.prof[d] = 0 THEN l.alc[d] ELSE l.mem[d][l.prof[d] - 1].alc
      w == NewAlc(l.mem[d][p], curr)
  IN  IF ~l.mem[d][p].init THEN Err(l, "-EINVAL")
      ELSE Ok([Prepare([l EXCEPT !.mem[d][p].alc = w], d) EXCEPT !.prof[d] = p + 1, !.alc[d] = w])

\* ad9361_trx_ext_lo_control
ExtLo(l, d, on) ==
  [l EXCEPT !.ready[d] = on, !.div[d] = IF on THEN ExtDiv ELSE l.cached[d]]

\* ad9361_clk_mux_set_parent
MuxParent(l, d, on) == RestorePrev([ExtLo(ForceState(l, "ALERT"), d, on) EXCEPT !.ext[d] = on])

\* ad9361_set_rx_gain in full table mode
SetRxGain(l, i, gain) ==
  LET k == FindTableIndex(Gains(l), gain)
  IN  IF l.mgc[i] # "manual" THEN Err(l, "-EOPNOTSUPP")
      ELSE IF k = 0 THEN Err(l, "-EINVAL") ELSE Ok([l EXCEPT !.idx[i] = k])

\* ad9361_set_agc_mode with ad9361_set_gain_ctrl_mode: one hybrid bit serves both.
SetAgcMode(l, i, m) ==
  [l EXCEPT !.agc[i] = m, !.hybrid = m = "hybrid",
            !.mgc[i] = IF m = "hybrid" THEN "slow_attack" ELSE m]
-----------------------------------------------------------------------------
\* ad9361_setup of a chip that has been reset, from the device b and what of the driver
\* outlives ad9361_clear_state: the gain tables, and pdata with fdd_independent_mode.
First(l, f) == ClkSetRate(ClkSetRate(l, "rx", f, 1).p, "tx", f + 80, 1).p
LoSetup(b, gt, indep) ==
         First([id |-> b.id, fdd |-> b.fdd, skipCal |-> b.skipCal, indep |-> indep,
                   pinCtrl |-> FALSE, mode |-> [fdd |-> b.fdd, indep |-> b.fdd /\ indep, pin |-> FALSE],
                   cfg1 |-> {"TO", IF b.fdd THEN "TX" ELSE "RX"},
                   dev |-> IF b.fdd THEN "FDD" ELSE "RX", curr |-> IF b.fdd THEN "FDD" ELSE "RX",
                   prev |-> "INVALID", pinEn |-> FALSE, clocks |-> TRUE,
                   vcoCal |-> IF b.skipCal THEN {} ELSE Dirs,
                   cur |-> [d \in Dirs |-> 0], tdd |-> [d \in Dirs |-> FALSE],
                   pll |-> [d \in Dirs |-> [n |-> 0, f |-> 0]], div |-> [d \in Dirs |-> 0],
                   cached |-> [d \in Dirs |-> 0], prof |-> [d \in Dirs |-> 0],
                   mem |-> [d \in Dirs |-> [p \in Profiles |-> NoEntry]],
                   ready |-> [d \in Dirs |-> FALSE], alc |-> [d \in Dirs |-> 1],
                   ext |-> [d \in Dirs |-> FALSE], rate |-> [d \in Dirs |-> 0],
                   gt |-> gt, table |-> 0, idx |-> <<2, 3>>, mgc |-> <<"manual", "manual">>,
                   agc |-> <<"manual", "manual">>, hybrid |-> FALSE], 800)
FirstAsked == [rx |-> 800, tx |-> 880]
LoInit ==
  /\ \E b \in LoBoards : lo = LoSetup(b, AdiGt, FALSE)
  /\ asked = FirstAsked /\ los = 0 /\ luck = "none"

LoCall == luck = "none" /\ los < MaxLo /\ los' = los + 1
LoAwake == lo.curr # "SLEEP"

\* LOEXT_FREQ.  Four things may go wrong: the cached rate is not the LO's, it is a
\* profile's and reads back the same so that no notifier looks at the gain table, the
\* other LO's profile ends, or the registers of an external LO are written.
LoFreq(d, f, alc) ==
  /\ LoCall /\ LoAwake /\ ~lo.ext[d]
  /\ LET r == ClkSetRate(lo, d, f, alc)
         o == Other(d)
     IN  /\ lo' = r.p
         /\ asked' = IF r.ret = "0" THEN [asked EXCEPT ![d] = f] ELSE asked
         /\ luck' = IF r.ret = "0" /\ lo.rate[d] = f /\ Readback(lo, d) # f THEN "stale rate"
                    ELSE IF /\ d = "rx" /\ r.ret = "0" /\ lo.rate.rx # f
                            /\ lo.prof.rx # 0 /\ r.p.rate.rx = lo.rate.rx THEN "silent notifier"
                    ELSE IF r.p.prof[o] # lo.prof[o] THEN "other profile ended"
                    ELSE IF lo.ext[o] /\ r.p.div[o] # ExtDiv THEN "external divider"
                    ELSE luck

\* The attribute is read: the framework's rate is recalculated.
LoRead(d) ==
  /\ LoCall /\ ~lo.ext[d]
  /\ lo' = [lo EXCEPT !.rate[d] = Readback(lo, d)]
  /\ UNCHANGED <<asked, luck>>

\* LOEXT_STORE and LOEXT_LOAD.  The profile in use may be overwritten.
LoStore(d, p) ==
  /\ LoCall /\ LoAwake /\ ~lo.ext[d]
  /\ lo' = FastlockStore(lo, d, p) /\ UNCHANGED asked
  /\ luck' = IF lo.prof[d] = p + 1 THEN "profile in use" ELSE luck

LoLoad(d, p, f, alc) ==
  /\ LoCall /\ LoAwake
  /\ LET s == RfpllDiv(f, RefMHz)
     IN  lo' = FastlockLoad(lo, d, p, [n |-> s.n, f |-> s.f, div |-> s.div, alc |-> alc])
  /\ UNCHANGED asked
  /\ luck' = IF lo.prof[d] = p + 1 THEN "profile in use" ELSE luck

\* LOEXT_RECALL
LoRecall(d, p) ==
  /\ LoCall /\ LoAwake
  /\ LET r == FastlockRecall(lo, d, p)
     IN  /\ lo' = r.p
         /\ asked' = IF r.ret = "0" THEN [asked EXCEPT ![d] = Readback(r.p, d)] ELSE asked
         /\ luck' = IF r.ret = "0" /\ lo.ext[d] THEN "external profile" ELSE luck

\* LOEXT_EXTERNAL, which an AD9363A does not have.
LoExternal(d, on) ==
  /\ LoCall /\ LoAwake /\ lo.id # "AD9363A" /\ lo.ext[d] # on
  /\ lo' = MuxParent(lo, d, on) /\ UNCHANGED asked
  /\ luck' = IF lo.prof[d] # 0 THEN "external profile" ELSE luck

\* AD9361_ENSM_MODE; a wake-up enables both VCO calibrations, and the end of the
\* independent mode sees to no table.
LoEnsm(w) ==
  /\ LoCall
  /\ lo' = StoreEnsmMode(lo, w).p /\ UNCHANGED asked
  /\ luck' = IF ~LoAwake /\ w # "?" /\ ((\E d \in Dirs : lo.prof[d] # 0) \/ lo.skipCal)
             THEN "woken" ELSE IF lo.indep /\ ~lo'.indep THEN "independent mode" ELSE luck

\* The gain control attributes.
LoGain(i, gain) ==
  /\ LoCall /\ LoAwake
  /\ lo' = SetRxGain(lo, i, gain).p /\ UNCHANGED <<asked, luck>>

LoAgc(i, m) ==
  /\ LoCall
  /\ lo' = SetAgcMode(lo, i, m) /\ UNCHANGED <<asked, luck>>

\* A gain table file that parses (ad9361_gt_bin_write): it is for the next load, which
\* follows at once; the indices stay, whatever gain they now stand for.
LoGainFile(gt) ==
  /\ LoCall /\ ~lo.ext.rx
  /\ LET f == Readback(lo, "rx")
     IN  lo' = LoadGt([lo EXCEPT !.rate.rx = f, !.gt = gt, !.table = 0], f)
  /\ UNCHANGED <<asked, luck>>

\* DBGFS_INIT: the chip is reset, the driver's state cleared, both set up again.
LoReinit ==
  /\ LoCall
  /\ lo' = LoSetup(lo, lo.gt, lo.indep) /\ asked' = FirstAsked /\ UNCHANGED luck

LoNext ==
  \/ \E d \in Dirs :
       \/ LoRead(d)
       \/ \E f \in LoFreqs, alc \in 1 .. 2 : LoFreq(d, f, alc)
       \/ \E p \in Profiles : LoStore(d, p) \/ LoRecall(d, p) \/ LoLoad(d, p, 2400, 1)
       \/ \E on \in BOOLEAN : LoExternal(d, on)
  \/ (\E gt \in GainFiles : LoGainFile(gt)) \/ LoReinit
  \/ \E w \in {"fdd", "rx", "alert", "sleep", "pinctrl_fdd_indep"} : LoEnsm(w)
  \/ \E i \in 1 .. 2 : (\E g \in {0, 5, 9} : LoGain(i, g)) \/ (\E m \in {"manual", "hybrid"} : LoAgc(i, m))
-----------------------------------------------------------------------------
\* Every LO is where it was last asked to be (but for one unit of rounding), by a
\* frequency or by a profile, whatever the other one does; an LO that is not external
\* has its own divider.
LoAsAsked ==
  \A d \in Dirs :
    ~lo.ext[d] => /\ asked[d] - Readback(lo, d) \in 0 .. 1
                  /\ lo.div[d] = lo.cached[d]

\* A profile is in use exactly when the synthesizer skips its lock wait and its VCO
\* calibration; an external LO skips the wait too.
FastlockAgrees ==
  \A d \in Dirs :
    /\ lo.ready[d] <=> (lo.ext[d] \/ lo.prof[d] # 0)
    /\ lo.clocks => ((d \in lo.vcoCal) <=> (lo.prof[d] = 0 /\ ~lo.skipCal))

\* "In FDD mode with RX LO == TX LO frequency we use TDD tables to reduce VCO pulling"
\* (ad9361_main.c 6374): of both synthesizers, and with other frequencies of none.
SynthTablesAgree ==
  OneVco(lo) => \A d \in Dirs : lo.tdd[d] <=> (lo.cur.rx = lo.cur.tx)

\* The gain table is that of the receiver's LO as it reads back; a profile that is recalled never
\* changes the table.
TableFollows == lo.prof.rx = 0 => lo.table = Band(lo.gt, ReadsAs(lo.cur.rx))

\* A gain index is one of the table, a divider and a profile ones the chip has.
LoTypeOK ==
  /\ \A i \in 1 .. 2 : lo.idx[i] \in DOMAIN Gains(lo)
  /\ \A d \in Dirs : lo.div[d] \in 0 .. 7 /\ lo.prof[d] \in {0} \cup {p + 1 : p \in Profiles}

\* After any calls, but for what luck names, the LOs, their profiles, the synthesizers'
\* tables and the gain table agree with each other and with what was asked for.
LosAgree == LoTypeOK /\ (luck = "none" => LoAsAsked /\ FastlockAgrees /\ SynthTablesAgree /\ TableFollows)

\* Another band's gain table changes a receiver's gain to the nearest one it has (a
\* file's table takes the index, a reset starts again); and a recall
\* never leaves the ALC word as it was ("Lock problem with same ALC word",
\* ad9361_main.c 4676).
Nearest(t, k, g) == k \in 1 .. Len(t) /\ \A m \in 1 .. Len(t) : AbsDiff(t[k], g) <= AbsDiff(t[m], g)
LoSteps ==
  [][/\ lo'.table # lo.table /\ ~(\E gt \in GainFiles : LoGainFile(gt)) /\ ~LoReinit =>
          \A i \in 1 .. 2 : Nearest(Gains(lo'), lo'.idx[i], Gains(lo)[lo.idx[i]])
     /\ \A d \in Dirs, p \in Profiles :
          (LoRecall(d, p) /\ lo.mem[d][p].init) => lo'.alc[d] # lo.alc[d]]_lovars
=============================================================================
