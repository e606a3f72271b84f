----------------------------- MODULE Ad9361Driver -----------------------------
(***************************************************************************)
(* The vendored AD9361 driver: what user space does to the radio, to the   *)
(* local oscillators and to the baseband clocks.  They share little state  *)
(* (the enable state machine, of which each has its own), so the topic is  *)
(* fixed at the start and the other two stand still; a fourth topic        *)
(* evaluates the driver's pure computations on one input per behaviour.    *)
(***************************************************************************)
EXTENDS Ad9361Radio, Ad9361Lo, Ad9361Rates

VARIABLES topic,
          sum      \* the input of the computation, <<>> for the other topics
drivervars == <<topic, sum, rvars, lovars, bbvars>>

DriverBoards == {FddBoard, TddBoard, CoreBoard, RxTuneBoard}
DriverLoBoards == {[id |-> "AD9363A", fdd |-> TRUE, skipCal |-> FALSE],
                   [id |-> "AD9361", fdd |-> FALSE, skipCal |-> TRUE],
                   [id |-> "AD9361", fdd |-> TRUE, skipCal |-> FALSE]}
\* ad9361_adi_gt_info with fewer entries, and two files: one table for all bands, and
\* one with no table for the lowest.
DriverAdiGt == <<[start |-> 0, end |-> 1300, gain |-> <<-1, 0, 3, 4, 8>>],
                 [start |-> 1300, end |-> 4000, gain |-> <<-3, 0, 1, 5>>],
                 [start |-> 4000, end |-> 6000, gain |-> <<-8, -5, 2>>]>>
DriverGainFiles == {<<[start |-> 0, end |-> 6000, gain |-> <<-2, 1, 6>>]>>,
                    <<[start |-> 3000, end |-> 6000, gain |-> <<-4, 2, 7, 9>>],
                      [start |-> 1000, end |-> 3000, gain |-> <<0, 5, 6>>]>>}
\* Filter files: factors of one, two and four, unequal ones, one that is too long
\* for its factor, one of a bad length, and one with rates of its own.
DriverFilters ==
  LET own == CalcChain(3072, 1, 2, 2)
  IN  {[int |-> 1, dec |-> 1, taps |-> 64, filt |-> <<>>], [int |-> 4, dec |-> 4, taps |-> 128, filt |-> <<>>],
       [int |-> 1, dec |-> 2, taps |-> 128, filt |-> <<>>], [int |-> 2, dec |-> 2, taps |-> 40, filt |-> <<>>],
       [int |-> 2, dec |-> 2, taps |-> 128, filt |-> <<own.rx, own.tx>>]}

\* The phases that converge are a window of the circle, the skews at which the checker
\* sees no error one of the line.
Windows == {{(a + k) % Phases : k \in 0 .. n} : a \in 0 .. Phases - 1, n \in {0, 1, 2, 7, 14}}
Skews == {a .. b : a \in -15 .. 15, b \in -15 .. 15} \ {{}}
Sums ==
  {[of |-> "phase", conv |-> c, last |-> l, n |-> n] : c \in Windows, l \in {0, 14, 31}, n \in {-2, 14, 21}}
  \cup {[of |-> "skew", pass |-> s] : s \in Skews}
  \cup {[of |-> "nco", ratio |-> r, w |-> w] :
          r \in {<<1, 1>>, <<2, 1>>, <<1, 2>>, <<1, 4>>, <<4, 1>>}, w \in 0 .. 3}
  \cup {[of |-> "rfpll", f |-> 70 + 7 * k, parent |-> r] : k \in 0 .. 847, r \in {40, 80}}
  \cup {[of |-> "chain", rate |-> 521 * k, gov |-> g, fir |-> f] :
          k \in 1 .. 117, g \in 0 .. 1, f \in {1, 2, 4} \X {1, 2, 4}}

DriverInit ==
  /\ topic \in {"radio", "lo", "baseband", "sums"}
  /\ RadioInit /\ LoInit /\ BbInit
  /\ sum \in IF topic = "sums" THEN Sums ELSE {<<>>}
  /\ topic # "radio" => phy.conv = "stub"
  /\ topic # "lo" => lo.id = "AD9363A"
  /\ topic # "baseband" => wish = 61440

DriverNext ==
  /\ UNCHANGED <<topic, sum>>
  /\ \/ topic = "radio" /\ RadioNext /\ UNCHANGED <<lovars, bbvars>>
     \/ topic = "lo" /\ LoNext /\ UNCHANGED <<rvars, bbvars>>
     \/ topic = "baseband" /\ BbNext /\ UNCHANGED <<rvars, lovars>>

\* The workqueue runs the item, a write that may go on goes on (RadioSpec's fairness).
DriverSpec == DriverInit /\ [][DriverNext]_drivervars /\ WF_item(ItemRuns) /\ WF_lock(LoGoesOn)
-----------------------------------------------------------------------------
\* A search ends at a phase, or a skew, that works.
SearchEndsInWindow ==
  /\ sum.of = "phase" =>
       /\ SearchedPhase(sum.conv) \in sum.conv
       /\ QuadSteps([phase |-> sum.last], IF sum.n = -2 THEN 254 ELSE sum.n, sum.n,
                    [conv |-> sum.conv, bad |-> "none", junk |-> FALSE]).p.phase % Phases \in sum.conv
  /\ sum.of = "skew" => ChosenSkew(sum.pass) \in sum.pass

\* "BW / 4 = Rx NCO freq = Tx NCO freq" (ad9361_main.c 2805), for every ratio of the clocks.
NcosMatch ==
  sum.of = "nco" => LET n == NcoWords(32 * sum.ratio[1], 32 * sum.ratio[2], sum.w)
                    IN  sum.ratio[2] * (n[1] + 1) = sum.ratio[1] * (n[2] + 1)

\* The synthesizer's words are of a VCO in its range, and read back as the frequency
\* asked for, but for one unit of rounding.
RfpllReadsBack ==
  sum.of = "rfpll" => LET s == RfpllDiv(sum.f, sum.parent)
                      IN  /\ s.vco \in 6001 .. 12000 /\ s.div \in 0 .. 7
                          /\ RfpllFreq(sum.parent, s.n, s.f, s.div) \in sum.f - 1 .. sum.f

\* What the searches, the NCOs, the synthesizer's words and the clock chain of a
\* rate are computed for is what they give.
SumsHold ==
  topic = "sums" => /\ SearchEndsInWindow /\ NcosMatch /\ RfpllReadsBack
                    /\ sum.of = "chain" => ChainMakesRate(sum.rate, sum.gov, sum.fir[1], sum.fir[2])
=============================================================================
