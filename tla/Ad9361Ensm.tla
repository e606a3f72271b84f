----------------------------- MODULE Ad9361Ensm ------------------------------
(***************************************************************************)
(* The enable state machine of the AD9361 as its driver (ad9361_main.c)    *)
(* moves it.  An operation is an operator on the record p of the driver's  *)
(* and the chip's state; one that can fail returns [p |->, ret |->].       *)
(*   p.fdd         pdata->fdd; p.indep: pdata->fdd_independent_mode        *)
(*   p.cfg1        the bits TX, RX, ALERT (force), TO (to alert) and PIN of *)
(*                 REG_ENSM_CONFIG_1                                        *)
(*   p.mode        REG_ENSM_MODE and REG_ENSM_CONFIG_2                      *)
(*   p.dev         REG_STATE; p.clocks: REG_CLOCK_ENABLE                    *)
(*   p.vcoCal      the synthesizers whose VCO calibration is enabled        *)
(*   p.curr, p.prev, p.pinEn  curr_ensm_state, prev_ensm_state,             *)
(*                 ensm_pin_ctl_en                                          *)
(***************************************************************************)
EXTENDS Integers, Sequences, FiniteSets

Ok(p) == [p |-> p, ret |-> "0"]
Err(p, e) == [p |-> p, ret |-> e]
\* The next step of an operation, unless one has failed.
Then(r, Step(_)) == IF r.ret = "0" THEN Step(r.p) ELSE r

ForceBits == {"TX", "RX", "ALERT"}
ActiveStates == {"TX", "RX", "FDD"}

\* The chip (external): TX and RX are one state in FDD mode, an alert ends them.
EnsmGoes(p, bits) ==
  CASE ~p.clocks -> "WAIT"
    [] p.clocks /\ bits \cap {"TX", "RX"} # {} ->
         IF p.mode.fdd THEN "FDD" ELSE IF "TX" \in bits THEN "TX" ELSE "RX"
    [] p.clocks /\ bits \cap {"TX", "RX"} = {} ->
         IF bits \cap {"ALERT", "TO"} # {} THEN "ALERT" ELSE "WAIT"

WriteCfg1(p, bits) == [p EXCEPT !.cfg1 = bits, !.dev = EnsmGoes(p, bits)]
ThroughAlert(p, bits) == WriteCfg1(WriteCfg1(p, {"TO", "ALERT"}), bits)

ForceBit(s) == CASE s \in {"TX", "FDD"} -> {"TX"}
                 [] s = "RX" -> {"RX"}
                 [] s = "ALERT" -> {"ALERT", "TO"}

\* ad9361_ensm_force_state: what it saves for the restore is the state, and, only
\* when there is something to do, the pin control bit.
ForceState(p, s) ==
  LET keep == p.cfg1 \ ({"PIN"} \cup (IF p.dev # "WAIT" THEN {"TO"} ELSE {}))
      bits == (IF s = "ALERT" THEN keep \ {"TX", "RX"} ELSE keep) \cup ForceBit(s)
      q == [p EXCEPT !.prev = p.dev]
  IN  IF p.dev = s THEN q
      ELSE ThroughAlert([q EXCEPT !.pinEn = "PIN" \in p.cfg1], bits)

\* ad9361_ensm_restore_state: a state that is not one to be forced is not restored.
RestoreState(p, s) ==
  LET bits == ((p.cfg1 \ ForceBits) \cup {"TO"}) \cup (ForceBit(s) \ {"ALERT"})
      q == ThroughAlert(p, bits)
  IN  IF s \notin ActiveStates \cup {"ALERT"} THEN p
      ELSE IF p.pinEn THEN WriteCfg1(q, bits \cup {"PIN"}) ELSE q

RestorePrev(p) == RestoreState(p, p.prev)

\* ad9361_set_ensm_mode
SetEnsmMode(p, fdd, pin) ==
  [p EXCEPT !.mode = [fdd |-> fdd, indep |-> fdd /\ p.indep, pin |-> ~fdd /\ pin]]

DisablePinctrl(p) == IF p.fdd THEN p ELSE SetEnsmMode(p, TRUE, FALSE)
RestorePinctrl(p) == IF p.fdd THEN p ELSE SetEnsmMode(p, FALSE, p.pinCtrl)

\* The clocks come back, the chip goes to alert, the VCO calibrations are enabled.
Wake(p) ==
  IF p.curr = "SLEEP"
  THEN WriteCfg1([p EXCEPT !.clocks = TRUE, !.vcoCal = {"rx", "tx"}], {"TO", "ALERT"})
  ELSE p

\* Out of the active state, then to WAIT, then the clocks are turned off.
GoToSleep(p) ==
  LET flush == WriteCfg1(WriteCfg1(p, {}), IF p.fdd THEN {"TX"} ELSE {"RX"})
  IN  [WriteCfg1(flush, {}) EXCEPT !.clocks = FALSE, !.vcoCal = {}, !.curr = "SLEEP"]

\* A state the mode does not have, or TX and RX without the alert between them.
Illegal(p, s) == \/ s \in {"TX", "RX"} /\ (p.fdd \/ p.curr # "ALERT")
                 \/ s = "FDD" /\ ~p.fdd

\* ad9361_ensm_set_state.  An illegal request from another state than ALERT goes
\* through ALERT and is then carried out; its error is overwritten.
EnsmSetState(p, s, pin) ==
  LET w == Wake(p)
      bits == ({"TO"} \cup (IF pin THEN {"PIN"} ELSE {}))
              \cup (IF s = "WAIT" THEN {} ELSE ForceBit(s))
      a == IF Illegal(w, s) THEN WriteCfg1(w, (bits \ ForceBits) \cup {"TO", "ALERT"}) ELSE w
  IN  CASE s = "SLEEP" -> Ok(GoToSleep(w))
        [] s # "SLEEP" /\ Illegal(w, s) /\ w.curr = "ALERT" -> Err(w, "-EINVAL")
        [] OTHER -> Ok([WriteCfg1(a, bits) EXCEPT !.curr = s])

EnsmWords == {"tx", "rx", "alert", "fdd", "wait", "sleep", "pinctrl", "pinctrl_fdd_indep", "?"}
WordState(w) == CASE w = "tx" -> "TX" [] w = "rx" -> "RX" [] w = "alert" -> "ALERT"
                  [] w \in {"fdd", "pinctrl_fdd_indep"} -> "FDD"
                  [] w \in {"wait", "pinctrl"} -> "WAIT" [] w = "sleep" -> "SLEEP"

\* AD9361_ENSM_MODE of ad9361_phy_store; an unknown word still ends the
\* independent mode.
StoreEnsmMode(p, w) ==
  LET q == [p EXCEPT !.indep = w = "pinctrl_fdd_indep"]
  IN  IF w = "?" THEN Ok(q)
      ELSE EnsmSetState(SetEnsmMode(q, q.fdd, w = "pinctrl"), WordState(w), w = "pinctrl")

\* With pin control the outside moves the state (external).
PinStates(p) == IF "PIN" \in p.cfg1 /\ p.clocks
                THEN IF p.mode.fdd THEN {"ALERT", "FDD"} ELSE {"ALERT", "TX", "RX"}
                ELSE {p.dev}
=============================================================================
