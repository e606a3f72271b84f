---------------------------- MODULE ControlProofs -----------------------------
(* What the software that controls the radio and the FPGA guarantees: the tasks *)
(* of the streaming process, for every number of blocks dropped and prefilled   *)
(* and every set of modes and faults, and the driver of the AD9361, for every   *)
(* board.  Each has an inductive invariant of its own; the properties say       *)
(* nothing of where an actor is when another comes in between, the invariants   *)
(* do.                                                                          *)
EXTENDS Session, Ad9361Driver, TLAPS, WellFoundedInduction
-----------------------------------------------------------------------------
(* The session of the streaming process. *)

\* Between two sessions everything has been given back.
BetweenSessions ==
  /\ mpc \in {"open", "join"}
  /\ mpc = "open" => rpc = "exit" /\ tpc = "exit" /\ fd = 0

\* A task has its ring mapped from mmap() to munmap(), and a mapped ring has been
\* made known to the driver.
RxMapped == {"accept", "begin", "get", "reading", "send", "done", "munmap"}
TxMapped == {"accept", "check", "asleep", "prefill", "recv", "put", "writing", "munmap"}
MappedWhile ==
  /\ rx_map = 1 <=> rpc \in RxMapped
  /\ tx_map = 1 <=> tpc \in TxMapped
  /\ rx_map = 1 => rxbuf = 1
  /\ tx_map = 1 => txbuf = 1

\* A task that was not asked for does not run, and only a TCP client is waited for.
TasksOfMode ==
  /\ rx_mode = "none" => rpc = "exit"
  /\ tx_mode = "none" => tpc = "exit"
  /\ rpc \in {"accept", "begin"} => rx_mode = "tcp"

\* The descriptor is open until the first task is through; when no call fails it is
\* closed by nobody else.
ClosedByATask ==
  /\ fd = 1 => /\ rx_mode # "none" => rpc # "exit"
               /\ tx_mode # "none" => tpc # "exit"
  /\ ~failing /\ mpc = "join" /\ fd = 0 =>
       \/ rx_mode # "none" /\ rpc = "exit"
       \/ tx_mode # "none" /\ tpc = "exit"

\* ENABLE comes once, at one place of one task.
EnablesByPlace ==
  /\ enables \in {0, 1}
  /\ tpc \in {"mmap", "accept", "check", "asleep", "prefill"} => enables = 0
  /\ tpc \in {"recv", "put", "writing"} => enables = 1
  /\ ~Combined /\ rpc \in {"mmap", "accept", "begin"} => enables = 0
  /\ ~Combined /\ rx_mode = "tcp" /\ rpc \in {"get", "reading", "send", "done"} =>
       enables = 1

\* TX ends a session before its ENABLE only when RX has ended it.
EndsBeforeEnable ==
  ~failing /\ mpc = "join" /\ tx_mode # "none" /\ enables = 0
  /\ tpc \in {"munmap", "close", "exit"} => rpc = "exit"

\* Until TX has enabled the FPGA RX gets no block: it does not come to its end, unless
\* a call fails.
StillComing ==
  ~failing /\ rx_mode # "none" /\ tpc \in {"mmap", "accept", "check", "asleep", "prefill"}
    => rpc \in {"mmap", "accept", "begin", "get", "reading"}

\* The start flag is up while RX serves a client, its ring was mapped before it, and
\* TX does not sleep on it nor go past it too early.
FlagHolds ==
  /\ Combined /\ rx_mode = "tcp" /\ rpc \in {"get", "reading", "send", "done"} =>
       rx_session_active = 1
  /\ rx_session_active = 1 => rxbuf = 1
  /\ tpc = "asleep" => rx_session_active = 0
  /\ tpc \in {"check", "asleep"} => rx_mode # "none"
  /\ tpc = "prefill" /\ rx_mode # "none" => rxbuf = 1

IInv ==
  /\ TypeOK /\ BetweenSessions /\ MappedWhile /\ TasksOfMode /\ ClosedByATask
  /\ EnablesByPlace /\ EndsBeforeEnable /\ StillComing /\ FlagHolds
-----------------------------------------------------------------------------
\* The process starts between two sessions.
LEMMA InitEstablishes == Init => IInv
  BY ModesAssumption, FaultsAssumption, CountsAssumption
     DEF Init, IInv, TypeOK, BetweenSessions, MappedWhile, TasksOfMode, ClosedByATask,
         EnablesByPlace, EndsBeforeEnable, StillComing, FlagHolds, RxMapped, TxMapped,
         Combined

\* No step of main, of a task or of a client disturbs it.
LEMMA StepPreserves == IInv /\ [Next]_vars => IInv'
<1> SUFFICES ASSUME IInv, [Next]_vars
             PROVE  IInv'
  OBVIOUS
<1> USE ModesAssumption, FaultsAssumption, CountsAssumption
<1> USE DEF IInv, TypeOK, BetweenSessions, MappedWhile, TasksOfMode, ClosedByATask,
            EnablesByPlace, EndsBeforeEnable, StillComing, FlagHolds, RxMapped, TxMapped,
            Combined, mode, rxTask, txTask, driver
<1>1. CASE MainOpen
  BY <1>1 DEF MainOpen, InUse
<1>2. CASE MainJoin
  BY <1>2 DEF MainJoin
<1>3. CASE RxMmap
  BY <1>3 DEF RxMmap
<1>4. CASE RxAccept
  BY <1>4 DEF RxAccept
<1>5. CASE RxAnnounce
  BY <1>5 DEF RxAnnounce
<1>6. CASE RxEnable
  BY <1>6 DEF RxEnable
<1>7. CASE RxGet
  BY <1>7 DEF RxGet
<1>8. CASE RxRead
  BY <1>8 DEF RxRead, Dropping, Running
<1>9. CASE RxSend
  BY <1>9 DEF RxSend
<1>10. CASE RxDone
  BY <1>10 DEF RxDone
<1>11. CASE RxMunmap
  BY <1>11 DEF RxMunmap
<1>12. CASE RxClose
  BY <1>12 DEF RxClose
<1>13. CASE TxMmap
  BY <1>13 DEF TxMmap
<1>14. CASE TxAccept
  BY <1>14 DEF TxAccept
<1>15. CASE TxCheck
  BY <1>15 DEF TxCheck
<1>16. CASE TxPrefill
  BY <1>16 DEF TxPrefill
<1>17. CASE TxRecvEnds
  BY <1>17 DEF TxRecvEnds
<1>18. CASE TxPut
  BY <1>18 DEF TxPut
<1>19. CASE TxWrite
  BY <1>19 DEF TxWrite
<1>20. CASE TxMunmap
  BY <1>20 DEF TxMunmap
<1>21. CASE TxClose
  BY <1>21 DEF TxClose
<1>22. CASE RxPeerComes
  BY <1>22 DEF RxPeerComes, PeerSame
<1>23. CASE TxPeerComes
  BY <1>23 DEF TxPeerComes, PeerSame
<1>24. CASE RxPeerLeaves
  BY <1>24 DEF RxPeerLeaves, PeerSame
<1>25. CASE TxPeerLeaves
  BY <1>25 DEF TxPeerLeaves, PeerSame
<1>26. CASE TxPeerSends
  BY <1>26 DEF TxPeerSends, PeerSame
<1>27. CASE UNCHANGED vars
  BY <1>27 DEF vars
<1> QED
  BY <1>1, <1>2, <1>3, <1>4, <1>5, <1>6, <1>7, <1>8, <1>9, <1>10, <1>11, <1>12, <1>13, <1>14, <1>15, <1>16, <1>17, <1>18, <1>19, <1>20, <1>21, <1>22, <1>23, <1>24, <1>25, <1>26, <1>27
     DEF Next, Main, RxTask, TxTask, Peers

\* IInv is inductive.
THEOREM Invariance == Spec => []IInv
  BY InitEstablishes, StepPreserves, PTL DEF Spec

\* What the properties say follows from where the tasks are.
LEMMA InvariantSuffices == IInv => OpensAgree
<1> SUFFICES ASSUME IInv
             PROVE  /\ ReopenNeverBusy /\ EnabledOnce
                    /\ SomebodyWillEnable /\ SleeperWillBeTold
  BY DEF IInv, OpensAgree
<1>1. ReopenNeverBusy
  BY DEF ReopenNeverBusy, InUse, IInv, TypeOK, BetweenSessions, MappedWhile, RxMapped,
         TxMapped
<1>2. EnabledOnce
  BY DEF EnabledOnce, IInv, EnablesByPlace
<1>3. SomebodyWillEnable
  <2> SUFFICES ASSUME ~failing, rpc = "reading", enables = 0, rx_mode = "tcp"
               PROVE  tpc \in {"mmap", "accept", "check", "prefill"}
    BY DEF SomebodyWillEnable
  <2>1. tx_mode # "none" /\ Combined
    BY DEF IInv, EnablesByPlace, Combined
  <2>2. tpc # "asleep"
    BY <2>1 DEF IInv, FlagHolds
  <2>3. mpc = "join"
    BY DEF IInv, BetweenSessions
  <2>4. tpc \notin {"recv", "put", "writing", "munmap", "close", "exit"}
    BY <2>1, <2>3 DEF IInv, EnablesByPlace, EndsBeforeEnable
  <2> QED
    BY <2>2, <2>4 DEF IInv, TypeOK
<1>4. SleeperWillBeTold
  <2> SUFFICES ASSUME tpc = "asleep"
               PROVE  /\ rx_session_active = 0
                      /\ Healthy => rpc \in {"mmap", "accept", "begin"}
    BY DEF SleeperWillBeTold
  <2>1. rx_session_active = 0 /\ rx_mode # "none" /\ tx_mode # "none"
    BY DEF IInv, FlagHolds, TasksOfMode
  <2>2. ASSUME Healthy PROVE rpc \in {"mmap", "accept", "begin"}
    <3>1. rx_mode = "tcp" /\ ~failing
      BY <2>1, <2>2, ModesAssumption DEF Healthy, IInv, TypeOK
    <3>2. rpc \in {"mmap", "accept", "begin", "get", "reading"}
      BY <2>1, <3>1 DEF IInv, StillComing
    <3>3. rpc \notin {"get", "reading"}
      BY <2>1, <3>1 DEF IInv, FlagHolds, Combined
    <3> QED
      BY <3>2, <3>3
  <2> QED
    BY <2>1, <2>2
<1> QED
  BY <1>1, <1>2, <1>3, <1>4

\* The open file, the ENABLE ioctl and the start flag: when main opens the device again
\* nothing holds the old file (main's loop in ad9361_txrx.c), ENABLE is called at most
\* once per open file, and a read() on the stopped FPGA is waiting for a TX task that is
\* on its way to ENABLE (rx.c, tx.c).
THEOREM TasksAgree == Spec => []OpensAgree
  BY Invariance, InvariantSuffices, PTL

\* The signal that lets TX start is never the lost one, although pthread_cond_signal is
\* lost when nobody waits: a TX task sleeps on a lowered flag, and where no call fails
\* RX has yet to raise it; it has not signalled, and has not ended (rx.c, tx.c).
THEOREM NoWakeUpLost == Spec => []SleeperWillBeTold
<1>1. IInv => SleeperWillBeTold
  BY InvariantSuffices DEF OpensAgree
<1> QED
  BY <1>1, Invariance, PTL

\* Whichever task enables the FPGA finds the rings of both mapped: the one write of the
\* control register starts RX and TX together (driver_enable, called by rx.c and tx.c).
THEOREM EnableFindsRings == Spec => EnableCoversBoth
<1>1. IInv /\ [Next]_vars => [EnableCovers]_vars
  <2> SUFFICES ASSUME IInv, [Next]_vars, enables' > enables
               PROVE  /\ rx_mode # "none" => rxbuf = 1
                      /\ tx_mode # "none" => txbuf = 1
    BY DEF EnableCovers
  <2>1. enables \in Nat
    BY DEF IInv, TypeOK
  <2>2. CASE RxEnable
    BY <2>2 DEF RxEnable, IInv, MappedWhile, TasksOfMode, RxMapped, Combined
  <2>3. CASE TxPrefill
    BY <2>3 DEF TxPrefill, IInv, MappedWhile, FlagHolds, TxMapped
  <2>4. CASE MainOpen
    BY <2>1, <2>4 DEF MainOpen, driver
  <2>5. CASE UNCHANGED enables
    BY <2>1, <2>5
  <2> QED
    BY <2>2, <2>3, <2>4, <2>5
       DEF Next, Main, RxTask, TxTask, Peers, MainJoin, RxMmap, RxAccept, RxAnnounce, RxGet,
           RxRead, RxSend, RxDone, RxMunmap, RxClose, TxMmap, TxAccept, TxCheck, TxRecvEnds,
           TxPut, TxWrite, TxMunmap, TxClose, RxPeerComes, TxPeerComes, RxPeerLeaves,
           TxPeerLeaves, TxPeerSends, PeerSame, driver, vars
<1> QED
  BY <1>1, Invariance, PTL DEF Spec, EnableCoversBoth
-----------------------------------------------------------------------------
(* The radio, while user space, the work item and the pins are at it. *)

\* The fields of the radio's record.
PhyKeys ==
  {"fdd", "conv", "skip", "bbTune", "fir", "managed", "rxNum", "txNum", "txOn", "indep", "pinCtrl",
   "mode", "cfg1", "dev", "curr", "prev", "pinEn", "clocks", "vcoCal", "want", "track", "bw", "filt",
   "clkrf", "clktf", "phase", "autoCal", "manualQuad", "txPd", "txPdReg", "att", "cache", "loop",
   "loopReg", "bist", "dsel", "scratch", "dly", "pdDly", "io", "rate", "step", "stepReg"}

DevStates == ActiveStates \cup {"ALERT", "WAIT"}

\* What a record of the enable state machine always is.
EnsmTypes(p) ==
  /\ p.fdd \in BOOLEAN /\ p.indep \in BOOLEAN /\ p.pinCtrl \in BOOLEAN
  /\ p.pinEn \in BOOLEAN /\ p.clocks \in BOOLEAN
  /\ p.mode \in [fdd : BOOLEAN, indep : BOOLEAN, pin : BOOLEAN]
  /\ p.dev \in DevStates /\ p.prev \in DevStates \cup {"INVALID"}
  /\ p.curr \in DevStates \cup {"SLEEP"}
  /\ p.cfg1 \subseteq {"TX", "RX", "ALERT", "TO", "PIN"}

\* And what the radio's has besides.
RadioRest(p) ==
  /\ p.fir = FALSE /\ p.bbTune \in BOOLEAN /\ p.managed \in BOOLEAN
  /\ p.conv \in {"core", "stub", "null"}
  /\ p.txPd \in BOOLEAN /\ p.txPdReg \in BOOLEAN
  /\ p.track \subseteq {"bb", "rf", "quad"} /\ p.want \subseteq {"bb", "rf", "quad"}
  /\ p.bw \in [rx : Int, tx : Int]
  /\ p.att \in [1 .. 2 -> 0 .. MaxAtten] /\ p.cache \in [1 .. 2 -> 0 .. MaxAtten]
  /\ p.step \in [words : Int, errs : Int] /\ p.stepReg \in [words : Int, errs : Int]

RadioTypes(p) == DOMAIN p = PhyKeys /\ EnsmTypes(p) /\ RadioRest(p)

\* The chip is in a state that its mode and its clocks have.
Fits(p) ==
  /\ p.mode.fdd = p.fdd
  /\ ~p.clocks => p.dev = "WAIT"
  /\ p.dev \in {"TX", "RX"} => ~p.mode.fdd
  /\ p.dev = "FDD" => p.mode.fdd
  /\ (p.curr = "SLEEP") <=> ~p.clocks

Listed == ActiveStates \cup {"ALERT"}

\* The chip is in the state that was asked for, and sysfs knows.
Ens(p, a) ==
  /\ a.pin \in BOOLEAN /\ ("PIN" \in p.cfg1 <=> a.pin)
  /\ a.pin \/ p.dev = a.dev
  /\ (~a.pin /\ p.curr \in Listed) => p.dev = p.curr

\* After the restore it will be.
WillReturn(p, a) ==
  /\ p.mode.fdd = p.fdd
  /\ p.prev \in Listed
  /\ p.prev \in {"TX", "RX"} => ~p.mode.fdd
  /\ p.prev = "FDD" => p.mode.fdd
  /\ p.clocks /\ p.curr # "SLEEP"
  /\ a.pin \in BOOLEAN /\ ("PIN" \in p.cfg1 \/ p.pinEn <=> a.pin)
  /\ a.pin \/ p.prev = a.dev
  /\ (~a.pin /\ p.curr \in Listed) => p.prev = p.curr

\* The loopback of the FPGA and of the chip are the mode's.
Wired(p) ==
  /\ p.loop \in 0 .. 2 /\ p.scratch = "dma"
  /\ p.loopReg = (p.loop = 1)
  /\ p.dsel = IF p.loop = 2 /\ p.conv = "core" THEN "loop" ELSE "dma"

\* What user space set and no call may lose.
Kept(p, a) ==
  /\ p.filt = p.bw /\ p.txPdReg = p.txPd /\ p.stepReg = p.step
  /\ p.att = a.att /\ p.bist = a.bist /\ p.loop = a.loop

\* The radio between calls, and in the middle of one that will restore the state.
AsAsked(p, a) == Fits(p) /\ Ens(p, a) /\ Wired(p) /\ Kept(p, a) /\ p.track = p.want
MidCall(p, a) == WillReturn(p, a) /\ Wired(p) /\ Kept(p, a)

AskKeys == {"dev", "pin", "att", "loop", "bist"}
Waits == {"idle", "lo", "wait"}

\* As long as nothing has gone wrong, one actor at a time is between a force and its
\* restore, and when none is the radio is as it was asked for.
Stands(c, w, p, a) ==
  \/ c \in Waits /\ w # "cal" /\ AsAsked(p, a)
  \/ (c \in Waits <=> w = "cal") /\ c # "init" /\ MidCall(p, a)
  \/ c = "init" /\ w # "cal" /\ Wired(p) /\ Kept(p, a)

RadioInv ==
  /\ RadioTypes(phy) /\ DOMAIN ask = AskKeys
  /\ call \in {"idle", "bw", "cal", "lo", "wait", "init"} /\ work \in {"idle", "cal", "clear"}
  /\ call = "bw" => arg.bw \in [rx : Int, tx : Int]
  /\ upset = "none" => Stands(call, work, phy, ask)

EnsmKeys ==
  {"fdd", "indep", "pinCtrl", "mode", "cfg1", "dev", "curr", "prev", "pinEn", "clocks", "vcoCal"}

\* q is p but for the fields in T.
Keeps(p, q, T) == DOMAIN q = DOMAIN p /\ \A k \in DOMAIN p \ T : q[k] = p[k]

\* Two steps change what either changes.
LEMMA KeepsMore ==
  ASSUME NEW p, NEW q, NEW r, NEW T, NEW U, NEW V, Keeps(p, q, T), Keeps(q, r, U),
         T \subseteq V, U \subseteq V
  PROVE  Keeps(p, r, V)
  BY DEF Keeps

\* Where the chip goes, it can be.
LEMMA GoesFits ==
  ASSUME NEW p, NEW bits, p.clocks \in BOOLEAN, p.mode.fdd \in BOOLEAN
  PROVE  /\ EnsmGoes(p, bits) \in DevStates
         /\ ~p.clocks => EnsmGoes(p, bits) = "WAIT"
         /\ EnsmGoes(p, bits) \in {"TX", "RX"} => ~p.mode.fdd
         /\ EnsmGoes(p, bits) = "FDD" => p.mode.fdd
  BY DEF EnsmGoes, DevStates, ActiveStates

\* Writing the configuration register moves the chip and nothing else.
LEMMA WriteCfg1Does ==
  ASSUME NEW p, NEW bits, EnsmKeys \subseteq DOMAIN p
  PROVE  /\ Keeps(p, WriteCfg1(p, bits), {"cfg1", "dev"})
         /\ WriteCfg1(p, bits).cfg1 = bits
         /\ WriteCfg1(p, bits).dev = EnsmGoes(p, bits)
  BY DEF WriteCfg1, EnsmKeys, Keeps

\* The chip's moves depend on its clocks and its mode only.
LEMMA SameGoes ==
  ASSUME NEW p, NEW q, NEW bits, p.clocks = q.clocks, p.mode = q.mode
  PROVE  EnsmGoes(p, bits) = EnsmGoes(q, bits)
  BY DEF EnsmGoes

\* So does writing it by way of ALERT.
LEMMA ThroughAlertDoes ==
  ASSUME NEW p, NEW bits, EnsmKeys \subseteq DOMAIN p
  PROVE  /\ Keeps(p, ThroughAlert(p, bits), {"cfg1", "dev"})
         /\ ThroughAlert(p, bits).cfg1 = bits
         /\ ThroughAlert(p, bits).dev = EnsmGoes(p, bits)
<1> DEFINE q == WriteCfg1(p, {"TO", "ALERT"})
<1>1. Keeps(p, q, {"cfg1", "dev"})
  BY WriteCfg1Does
<1>2. /\ EnsmKeys \subseteq DOMAIN q /\ q.clocks = p.clocks /\ q.mode = p.mode
  BY <1>1 DEF Keeps, EnsmKeys
<1>3. EnsmGoes(q, bits) = EnsmGoes(p, bits)
  BY <1>2, SameGoes
<1>4. /\ Keeps(q, WriteCfg1(q, bits), {"cfg1", "dev"})
      /\ WriteCfg1(q, bits).cfg1 = bits
      /\ WriteCfg1(q, bits).dev = EnsmGoes(q, bits)
  BY <1>2, WriteCfg1Does
<1> HIDE DEF q
<1>5. Keeps(p, WriteCfg1(q, bits), {"cfg1", "dev"})
  BY <1>1, <1>4, KeepsMore
<1>6. ThroughAlert(p, bits) = WriteCfg1(q, bits)
  BY DEF ThroughAlert, q
<1> QED BY <1>3, <1>4, <1>5, <1>6

\* ad9361_ensm_force_state: what it saves, and that pin control is off unless there was
\* nothing to do.
LEMMA ForceStateDoes ==
  ASSUME NEW p, NEW s, EnsmKeys \subseteq DOMAIN p, p.clocks \in BOOLEAN, p.mode.fdd \in BOOLEAN,
         p.cfg1 \subseteq {"TX", "RX", "ALERT", "TO", "PIN"}, p.dev \in DevStates,
         s \in {"ALERT", "FDD"}
  PROVE  LET q == ForceState(p, s)
         IN  /\ Keeps(p, q, {"cfg1", "dev", "prev", "pinEn"})
             /\ q.prev = p.dev
             /\ q.cfg1 \subseteq {"TX", "RX", "ALERT", "TO", "PIN"}
             /\ q.dev \in DevStates
             /\ p.dev = s => q.dev = s /\ q.cfg1 = p.cfg1 /\ q.pinEn = p.pinEn
             /\ p.dev # s => "PIN" \notin q.cfg1 /\ q.pinEn \in BOOLEAN /\ (q.pinEn <=> "PIN" \in p.cfg1)
<1> DEFINE q == [p EXCEPT !.prev = p.dev]
           u == [q EXCEPT !.pinEn = "PIN" \in p.cfg1]
           keep == p.cfg1 \ ({"PIN"} \cup (IF p.dev # "WAIT" THEN {"TO"} ELSE {}))
           bits == (IF s = "ALERT" THEN keep \ {"TX", "RX"} ELSE keep) \cup ForceBit(s)
           r == ThroughAlert(u, bits)
<1>1. Keeps(p, q, {"prev"}) /\ q.prev = p.dev
  BY DEF Keeps, EnsmKeys
<1>2. /\ Keeps(p, u, {"prev", "pinEn"}) /\ u.prev = p.dev
      /\ u.pinEn \in BOOLEAN /\ (u.pinEn <=> "PIN" \in p.cfg1)
  <2>1. Keeps(q, u, {"pinEn"}) /\ u.pinEn = ("PIN" \in p.cfg1)
    BY <1>1 DEF Keeps, EnsmKeys
  <2>2. Keeps(p, u, {"prev", "pinEn"})
    BY <1>1, <2>1, KeepsMore
  <2>3. u.prev = q.prev
    BY <1>1, <2>1 DEF Keeps, EnsmKeys
  <2>4. u.pinEn \in BOOLEAN /\ (u.pinEn <=> "PIN" \in p.cfg1)
    <3> HIDE DEF u
    <3>1. u.pinEn \in BOOLEAN
      BY <2>1, SMT
    <3>2. u.pinEn <=> "PIN" \in p.cfg1
      BY <2>1, Zenon
    <3> QED BY <3>1, <3>2
  <2> QED BY <1>1, <2>2, <2>3, <2>4
<1>3. /\ EnsmKeys \subseteq DOMAIN u /\ u.clocks \in BOOLEAN /\ u.mode.fdd \in BOOLEAN
  BY <1>2 DEF Keeps, EnsmKeys
<1>4. bits \subseteq {"TX", "RX", "ALERT", "TO", "PIN"} /\ "PIN" \notin bits
  BY DEF ForceBit
<1> HIDE DEF u, bits
<1>5. Keeps(u, r, {"cfg1", "dev"}) /\ r.cfg1 = bits /\ r.dev \in DevStates
  BY <1>3, ThroughAlertDoes, GoesFits
<1> HIDE DEF r
<1>6. Keeps(p, r, {"cfg1", "dev", "prev", "pinEn"})
  BY <1>2, <1>5, KeepsMore
<1>7. r.prev = p.dev /\ r.pinEn \in BOOLEAN /\ (r.pinEn <=> "PIN" \in p.cfg1)
  BY <1>2, <1>3, <1>5 DEF Keeps, EnsmKeys
<1>8. CASE p.dev = s
  <2>1. ForceState(p, s) = q
    BY <1>8 DEF ForceState
  <2>2. Keeps(p, q, {"cfg1", "dev", "prev", "pinEn"})
    BY <1>1 DEF Keeps
  <2>3. q.dev = p.dev /\ q.cfg1 = p.cfg1 /\ q.pinEn = p.pinEn
    BY <1>1 DEF Keeps, EnsmKeys
  <2> QED BY <1>8, <1>1, <2>1, <2>2, <2>3
<1>9. CASE p.dev # s
  <2>1. ForceState(p, s) = r
    BY <1>9 DEF ForceState, r, u, bits
  <2> QED BY <1>9, <2>1, <1>4, <1>5, <1>6, <1>7
<1> QED BY <1>8, <1>9

\* ad9361_ensm_restore_state of a state the mode has brings back the state and pin control.
LEMMA RestoreStateDoes ==
  ASSUME NEW p, NEW s, EnsmKeys \subseteq DOMAIN p, EnsmTypes(p)
  PROVE  LET q == RestoreState(p, s)
         IN  /\ Keeps(p, q, {"cfg1", "dev"})
             /\ EnsmTypes(q)
             /\ s \in Listed /\ p.clocks /\ (s \in {"TX", "RX"} => ~p.mode.fdd) /\ (s = "FDD" => p.mode.fdd)
                => /\ q.dev = s
                   /\ ("PIN" \in q.cfg1 <=> "PIN" \in p.cfg1 \/ p.pinEn)
<1> DEFINE bits == ((p.cfg1 \ ForceBits) \cup {"TO"}) \cup (ForceBit(s) \ {"ALERT"})
           q == ThroughAlert(p, bits)
           r == WriteCfg1(q, bits \cup {"PIN"})
<1>0. /\ p.clocks \in BOOLEAN /\ p.mode.fdd \in BOOLEAN
  BY DEF EnsmTypes
<1>1. CASE s \notin Listed
  <2>1. RestoreState(p, s) = p
    BY <1>1 DEF RestoreState, Listed
  <2> QED BY <1>1, <2>1 DEF Keeps
<1>2. CASE s \in Listed
  <2>1. /\ bits \subseteq {"TX", "RX", "ALERT", "TO", "PIN"}
        /\ ("PIN" \in bits <=> "PIN" \in p.cfg1)
    BY <1>2 DEF EnsmTypes, ForceBits, ForceBit, Listed, ActiveStates
  <2>2. /\ bits \cap {"TX", "RX"} = ForceBit(s) \cap {"TX", "RX"}
        /\ (bits \cup {"PIN"}) \cap {"TX", "RX"} = ForceBit(s) \cap {"TX", "RX"}
        /\ "TO" \in bits
    BY <1>2 DEF ForceBits, ForceBit, Listed, ActiveStates
  <2>3. p.clocks /\ (s \in {"TX", "RX"} => ~p.mode.fdd) /\ (s = "FDD" => p.mode.fdd)
        => EnsmGoes(p, bits) = s /\ EnsmGoes(p, bits \cup {"PIN"}) = s
    <3> SUFFICES ASSUME p.clocks, s \in {"TX", "RX"} => ~p.mode.fdd, s = "FDD" => p.mode.fdd
                 PROVE  EnsmGoes(p, bits) = s /\ EnsmGoes(p, bits \cup {"PIN"}) = s
      OBVIOUS
    <3> HIDE DEF bits
    <3>1. CASE s = "ALERT"
      <4>1. ForceBit(s) \cap {"TX", "RX"} = {}
        BY <3>1 DEF ForceBit
      <4> QED BY <3>1, <4>1, <2>2 DEF EnsmGoes
    <3>2. CASE s = "RX"
      <4>1. ForceBit(s) \cap {"TX", "RX"} = {"RX"}
        BY <3>2 DEF ForceBit
      <4>2. "TX" \notin bits /\ "TX" \notin bits \cup {"PIN"}
        BY <4>1, <2>2
      <4> QED BY <3>2, <4>1, <4>2, <2>2 DEF EnsmGoes
    <3>3. CASE s \in {"TX", "FDD"}
      <4>1. ForceBit(s) \cap {"TX", "RX"} = {"TX"}
        BY <3>3 DEF ForceBit
      <4>2. "TX" \in bits
        BY <4>1, <2>2
      <4> QED BY <3>3, <4>1, <4>2, <2>2 DEF EnsmGoes
    <3> QED BY <1>2, <3>1, <3>2, <3>3 DEF Listed, ActiveStates
  <2> HIDE DEF bits
  <2>4. Keeps(p, q, {"cfg1", "dev"}) /\ q.cfg1 = bits /\ q.dev = EnsmGoes(p, bits)
    BY ThroughAlertDoes
  <2>5. EnsmKeys \subseteq DOMAIN q /\ q.clocks = p.clocks /\ q.mode = p.mode
    BY <2>4 DEF Keeps, EnsmKeys
  <2> HIDE DEF q
  <2>6. Keeps(q, r, {"cfg1", "dev"}) /\ r.cfg1 = bits \cup {"PIN"} /\ r.dev = EnsmGoes(p, bits \cup {"PIN"})
    BY <2>5, WriteCfg1Does, SameGoes
  <2> HIDE DEF r
  <2>7. Keeps(p, r, {"cfg1", "dev"})
    BY <2>4, <2>6, KeepsMore
  <2>8. RestoreState(p, s) = IF p.pinEn THEN r ELSE q
    BY <1>2 DEF RestoreState, Listed, bits, q, r
  <2>9. EnsmGoes(p, bits) \in DevStates /\ EnsmGoes(p, bits \cup {"PIN"}) \in DevStates
    BY <1>0, GoesFits
  <2>10. EnsmTypes(q)
    BY <2>1, <2>4, <2>9 DEF EnsmTypes, Keeps, EnsmKeys
  <2>11. EnsmTypes(r)
    BY <2>1, <2>6, <2>7, <2>9 DEF EnsmTypes, Keeps, EnsmKeys
  <2>12. p.pinEn \in BOOLEAN
    BY DEF EnsmTypes
  <2>13. CASE p.pinEn
    BY <2>13, <2>8, <2>6, <2>7, <2>11, <2>3
  <2>14. CASE ~p.pinEn
    BY <2>14, <2>8, <2>4, <2>10, <2>3, <2>1
  <2> QED BY <2>12, <2>13, <2>14
<1> QED BY <1>1, <1>2

\* A step that leaves the enable state machine alone leaves what is said of it.
LEMMA SameEnsm ==
  ASSUME NEW p, NEW q, NEW T, NEW a, Keeps(p, q, T), EnsmKeys \subseteq DOMAIN p, T \cap EnsmKeys = {}
  PROVE  /\ EnsmTypes(p) => EnsmTypes(q)
         /\ Fits(p) => Fits(q)
         /\ Ens(p, a) => Ens(q, a)
         /\ WillReturn(p, a) => WillReturn(q, a)
         /\ Unrestorable(q) = Unrestorable(p)
<1>1. \A k \in EnsmKeys : q[k] = p[k]
  BY DEF Keeps
<1>2. /\ q.fdd = p.fdd /\ q.indep = p.indep /\ q.pinCtrl = p.pinCtrl /\ q.mode = p.mode
      /\ q.cfg1 = p.cfg1 /\ q.dev = p.dev /\ q.curr = p.curr /\ q.prev = p.prev
      /\ q.pinEn = p.pinEn /\ q.clocks = p.clocks
  BY <1>1 DEF EnsmKeys
<1>3. EnsmTypes(p) => EnsmTypes(q)
  BY <1>2 DEF EnsmTypes
<1>4. Fits(p) => Fits(q)
  BY <1>2 DEF Fits
<1>5. Ens(p, a) => Ens(q, a)
  BY <1>2 DEF Ens
<1>6. WillReturn(p, a) => WillReturn(q, a)
  BY <1>2 DEF WillReturn
<1>7. Unrestorable(q) = Unrestorable(p)
  BY <1>2 DEF Unrestorable
<1> QED BY <1>3, <1>4, <1>5, <1>6, <1>7

\* A state is forced, and will be restored.
LEMMA Begun ==
  ASSUME NEW p, NEW a, EnsmKeys \subseteq DOMAIN p, EnsmTypes(p)
  PROVE  LET q == ForceState(p, "ALERT")
         IN  /\ Keeps(p, q, {"cfg1", "dev", "prev", "pinEn"})
             /\ EnsmTypes(q)
             /\ Fits(p) /\ Ens(p, a) /\ ~Unrestorable(p) => WillReturn(q, a)
<1> DEFINE q == ForceState(p, "ALERT")
<1>1. /\ Keeps(p, q, {"cfg1", "dev", "prev", "pinEn"})
      /\ q.prev = p.dev
      /\ q.cfg1 \subseteq {"TX", "RX", "ALERT", "TO", "PIN"}
      /\ q.dev \in DevStates
      /\ p.dev = "ALERT" => q.dev = "ALERT" /\ q.cfg1 = p.cfg1 /\ q.pinEn = p.pinEn
      /\ p.dev # "ALERT" => "PIN" \notin q.cfg1 /\ q.pinEn \in BOOLEAN /\ (q.pinEn <=> "PIN" \in p.cfg1)
  BY ForceStateDoes DEF EnsmTypes
<1> HIDE DEF q
<1>2. /\ q.fdd = p.fdd /\ q.indep = p.indep /\ q.pinCtrl = p.pinCtrl /\ q.mode = p.mode
      /\ q.curr = p.curr /\ q.clocks = p.clocks
  BY <1>1 DEF Keeps, EnsmKeys
<1>3. EnsmTypes(q)
  BY <1>1, <1>2 DEF EnsmTypes
<1>4. ASSUME Fits(p), Ens(p, a), ~Unrestorable(p)
      PROVE  WillReturn(q, a)
  <2>1. p.dev \in Listed /\ p.clocks
    BY <1>4 DEF Fits, Unrestorable, EnsmTypes, DevStates, Listed
  <2>2. a.pin \in BOOLEAN /\ ("PIN" \in q.cfg1 \/ q.pinEn <=> a.pin)
    BY <1>4, <1>1 DEF Ens, Unrestorable, EnsmTypes
  <2> QED BY <1>4, <1>1, <1>2, <2>1, <2>2 DEF Fits, Ens, WillReturn
<1> QED BY <1>1, <1>3, <1>4 DEF q

\* The restore of the state that was saved makes good what was promised.
LEMMA Restores ==
  ASSUME NEW p, NEW a, EnsmKeys \subseteq DOMAIN p, EnsmTypes(p)
  PROVE  LET q == RestorePrev(p)
         IN  /\ Keeps(p, q, {"cfg1", "dev"})
             /\ EnsmTypes(q)
             /\ WillReturn(p, a) => Fits(q) /\ Ens(q, a) /\ ~Unrestorable(q)
<1> DEFINE q == RestorePrev(p)
<1>1. /\ Keeps(p, q, {"cfg1", "dev"})
      /\ EnsmTypes(q)
      /\ p.prev \in Listed /\ p.clocks /\ (p.prev \in {"TX", "RX"} => ~p.mode.fdd) /\ (p.prev = "FDD" => p.mode.fdd)
         => q.dev = p.prev /\ ("PIN" \in q.cfg1 <=> "PIN" \in p.cfg1 \/ p.pinEn)
  BY RestoreStateDoes DEF RestorePrev
<1> HIDE DEF q
<1>2. /\ q.fdd = p.fdd /\ q.mode = p.mode /\ q.curr = p.curr /\ q.clocks = p.clocks /\ q.pinEn = p.pinEn
  BY <1>1 DEF Keeps, EnsmKeys
<1>3. ASSUME WillReturn(p, a)
      PROVE  Fits(q) /\ Ens(q, a) /\ ~Unrestorable(q)
  <2>1. q.dev = p.prev /\ ("PIN" \in q.cfg1 <=> "PIN" \in p.cfg1 \/ p.pinEn)
    BY <1>3, <1>1 DEF WillReturn
  <2>2. Fits(q)
    BY <1>3, <1>2, <2>1 DEF WillReturn, Fits, EnsmTypes
  <2>3. Ens(q, a)
    BY <1>3, <1>2, <2>1 DEF WillReturn, Ens
  <2>4. ~Unrestorable(q)
    BY <1>3, <1>2, <2>1 DEF WillReturn, Unrestorable, Listed, ActiveStates
  <2> QED BY <2>2, <2>3, <2>4
<1> QED BY <1>1, <1>3 DEF q

\* The restore of what was forced, with nothing between that the state machine sees.
LEMMA ForcedReturns ==
  ASSUME NEW p, NEW a, EnsmKeys \subseteq DOMAIN p, EnsmTypes(p)
  PROVE  LET q == RestorePrev(ForceState(p, "ALERT"))
         IN  /\ Keeps(p, q, {"cfg1", "dev", "prev", "pinEn"})
             /\ EnsmTypes(q)
             /\ Fits(p) /\ Ens(p, a) /\ ~Unrestorable(p) => Fits(q) /\ Ens(q, a) /\ ~Unrestorable(q)
<1> DEFINE f == ForceState(p, "ALERT")
           q == RestorePrev(f)
<1>1. /\ Keeps(p, f, {"cfg1", "dev", "prev", "pinEn"})
      /\ EnsmTypes(f)
      /\ Fits(p) /\ Ens(p, a) /\ ~Unrestorable(p) => WillReturn(f, a)
  BY Begun
<1> HIDE DEF f
<1>2. EnsmKeys \subseteq DOMAIN f
  BY <1>1 DEF Keeps
<1>3. /\ Keeps(f, q, {"cfg1", "dev"})
      /\ EnsmTypes(q)
      /\ WillReturn(f, a) => Fits(q) /\ Ens(q, a) /\ ~Unrestorable(q)
  BY <1>1, <1>2, Restores
<1> HIDE DEF q
<1>4. Keeps(p, q, {"cfg1", "dev", "prev", "pinEn"})
  BY <1>1, <1>3, KeepsMore
<1> QED BY <1>1, <1>3, <1>4 DEF f, q

\* A change of other fields of the radio.
LEMMA SameRest ==
  ASSUME NEW p, NEW q, NEW T, RadioTypes(p), Keeps(p, q, T),
         T \cap {"fir", "bbTune", "managed", "conv", "txPd", "txPdReg", "track", "want", "bw", "att",
                 "cache", "step", "stepReg"} = {}
  PROVE  RadioRest(q)
<1>1. /\ q.fir = p.fir /\ q.bbTune = p.bbTune /\ q.managed = p.managed /\ q.conv = p.conv
      /\ q.txPd = p.txPd /\ q.txPdReg = p.txPdReg /\ q.track = p.track /\ q.want = p.want
      /\ q.bw = p.bw /\ q.att = p.att /\ q.cache = p.cache /\ q.step = p.step
      /\ q.stepReg = p.stepReg
  BY DEF RadioTypes, PhyKeys, Keeps
<1> QED BY <1>1 DEF RadioTypes, RadioRest

\* A step that leaves these fields alone loses nothing of what user space set.
LEMMA SameKept ==
  ASSUME NEW p, NEW q, NEW T, NEW a, DOMAIN p = PhyKeys, Keeps(p, q, T),
         T \cap {"bw", "filt", "txPd", "txPdReg", "step", "stepReg", "att", "bist", "loop", "loopReg",
                 "scratch", "dsel", "conv"} = {}
  PROVE  /\ Wired(p) => Wired(q)
         /\ Kept(p, a) => Kept(q, a)
<1>1. /\ q.bw = p.bw /\ q.filt = p.filt /\ q.txPd = p.txPd /\ q.txPdReg = p.txPdReg
      /\ q.step = p.step /\ q.stepReg = p.stepReg /\ q.att = p.att /\ q.bist = p.bist
      /\ q.loop = p.loop /\ q.loopReg = p.loopReg /\ q.scratch = p.scratch /\ q.dsel = p.dsel
      /\ q.conv = p.conv
  BY DEF PhyKeys, Keeps
<1> QED BY <1>1 DEF Wired, Kept

\* The radio's record is one of the enable state machine.
LEMMA RadioHasEnsm == ASSUME NEW p, RadioTypes(p) PROVE EnsmKeys \subseteq DOMAIN p /\ EnsmTypes(p)
  BY DEF RadioTypes, PhyKeys, EnsmKeys

\* Both begin in ALERT, with no tracking.
LEMMA CalBegun ==
  ASSUME NEW p, NEW a, RadioTypes(p)
  PROVE  LET q == CalBegin(p)
         IN  /\ RadioTypes(q)
             /\ Wired(p) => Wired(q)
             /\ Kept(p, a) => Kept(q, a)
             /\ Fits(p) /\ Ens(p, a) /\ ~Unrestorable(p) => WillReturn(q, a)
             /\ q.bw = p.bw
<1> DEFINE u == [p EXCEPT !.track = {}]
           q == ForceState(u, "ALERT")
<1>1. Keeps(p, u, {"track"}) /\ u.track = {}
  BY DEF Keeps, RadioTypes, PhyKeys
<1>2. /\ EnsmKeys \subseteq DOMAIN p /\ EnsmTypes(p)
  BY RadioHasEnsm
<1> HIDE DEF u
<1>3. /\ EnsmTypes(u)
      /\ Fits(p) => Fits(u)
      /\ Ens(p, a) => Ens(u, a)
      /\ Unrestorable(u) = Unrestorable(p)
  BY <1>1, <1>2, SameEnsm DEF EnsmKeys
<1>4. DOMAIN u = PhyKeys /\ RadioRest(u)
  BY <1>1 DEF RadioTypes, RadioRest, Keeps, PhyKeys
<1>5. /\ Wired(p) => Wired(u)
      /\ Kept(p, a) => Kept(u, a)
  BY <1>1, SameKept, SMTT(20) DEF RadioTypes
<1>5a. u.bw = p.bw
  BY <1>1 DEF RadioTypes, Keeps, PhyKeys
<1>6. RadioTypes(u) /\ EnsmKeys \subseteq DOMAIN u
  BY <1>3, <1>4 DEF RadioTypes, EnsmKeys, PhyKeys
<1>7. /\ Keeps(u, q, {"cfg1", "dev", "prev", "pinEn"})
      /\ EnsmTypes(q)
      /\ Fits(u) /\ Ens(u, a) /\ ~Unrestorable(u) => WillReturn(q, a)
  BY <1>3, <1>6, Begun
<1>8. CalBegin(p) = q
  BY DEF CalBegin, u
<1> HIDE DEF q
<1>9. DOMAIN q = PhyKeys
  BY <1>6, <1>7 DEF Keeps, RadioTypes
<1>9a. RadioRest(q)
  BY <1>6, <1>7, SameRest
<1>10. /\ Wired(u) => Wired(q)
       /\ Kept(u, a) => Kept(q, a)
  BY <1>6, <1>7, SameKept DEF RadioTypes
<1>11. q.bw = u.bw
  BY <1>6, <1>7 DEF RadioTypes, Keeps, PhyKeys
<1> QED BY <1>3, <1>5, <1>5a, <1>9a, <1>11, <1>7, <1>8, <1>9, <1>10 DEF RadioTypes

\* The steps of the transmit quadrature calibration change its phase only.
LEMMA QuadStepsKeeps ==
  ASSUME NEW p, NEW phase, NEW n, NEW o, DOMAIN p = PhyKeys
  PROVE  LET s == QuadSteps(p, phase, n, o)
         IN  DOMAIN s = {"p", "ret"} /\ Keeps(p, s.p, {"phase"})
<1>1. \A x : Keeps(p, [p EXCEPT !.phase = x], {"phase"})
  BY DEF Keeps, PhyKeys
<1>2. Keeps(p, p, {"phase"})
  BY DEF Keeps
<1> QED BY <1>1, <1>2 DEF QuadSteps, Ok, Err

\* __ad9361_update_rf_bandwidth changes the filters only, and fails when one times out.
LEMMA UpdateFiltersDoes ==
  ASSUME NEW p, NEW rx, NEW tx, NEW bad, DOMAIN p = PhyKeys
  PROVE  LET u == UpdateFilters(p, rx, tx, bad)
         IN  /\ Keeps(p, u.p, {"filt"})
             /\ DOMAIN u = {"p", "ret"}
             /\ bad \notin {"rx", "tx"} => u.ret = "0"
             /\ bad \in {"rx", "tx"} => u.ret # "0"
  BY DEF UpdateFilters, Keeps, PhyKeys

\* The transmit quadrature calibration gives back the filters and the LO's power, but
\* for a filter that times out.
LEMMA TxQuadGivesBack ==
  ASSUME NEW p, RadioTypes(p), NEW rx, NEW tx, NEW n, NEW o, o.narrow = "none"
  PROVE  LET r == TxQuad(p, rx, tx, n, o)
         IN  /\ Keeps(p, r.p, {"txPdReg", "filt", "phase"})
             /\ r.p.txPdReg \in BOOLEAN
             /\ p.txPdReg = p.txPd => r.p.txPdReg = p.txPd
             /\ p.filt = p.bw /\ (r.ret = "0" \/ o.bad \notin {"rx", "tx"}) => r.p.filt = p.bw
<1> DEFINE w == Clamp(RoundDiv(tx * 8, p.clktf) - 1, 0, 3)
           nco == NcoWords(p.clkrf, p.clktf, w)
           freq == (p.clktf * (nco[1] + 1)) \div 32
           wide == freq > rx \div 4 \/ freq > tx \div 4
           x == freq * 8
           up == [p EXCEPT !.txPdReg = FALSE]
           q == IF wide THEN UpdateFilters(up, x, x, o.bad) ELSE Ok(up)
           s == QuadSteps(q.p, IF n >= 0 THEN n ELSE nco[3], n, o)
           r == IF q.ret # "0" THEN q
                ELSE IF wide THEN [s EXCEPT !.p = UpdateFilters(s.p, p.bw.rx, p.bw.tx, o.narrow).p]
                ELSE s
           T == {"txPdReg", "filt", "phase"}
<1>0. DOMAIN p = PhyKeys /\ p.bw \in [rx : Int, tx : Int] /\ p.txPd \in BOOLEAN /\ p.txPdReg \in BOOLEAN
  BY DEF RadioTypes, RadioRest
<1>1. /\ Keeps(p, up, {"txPdReg"})
  BY <1>0 DEF Keeps, PhyKeys
<1>2. up.filt = p.filt /\ DOMAIN up = PhyKeys /\ up.bw = p.bw
  BY <1>0, <1>1 DEF Keeps, PhyKeys
<1> HIDE DEF up, x, freq, wide
<1>4. /\ Keeps(up, q.p, {"filt"})
      /\ DOMAIN q = {"p", "ret"}
      /\ q.ret # "0" <=> wide /\ o.bad \in {"rx", "tx"}
      /\ ~wide => q.p.filt = p.filt
  <2>1. CASE wide
    <3>1. q = UpdateFilters(up, x, x, o.bad)
      BY <2>1
    <3> DEFINE g == UpdateFilters(up, x, x, o.bad)
    <3>2. Keeps(up, g.p, {"filt"})
      BY <1>2, UpdateFiltersDoes
    <3>3. DOMAIN g = {"p", "ret"}
      BY <1>2, UpdateFiltersDoes
    <3>4. o.bad \notin {"rx", "tx"} => g.ret = "0"
      BY <1>2, UpdateFiltersDoes
    <3>5. o.bad \in {"rx", "tx"} => g.ret # "0"
      BY <1>2, UpdateFiltersDoes
    <3> HIDE DEF g, q
    <3>6. q = g
      BY <3>1 DEF g
    <3> QED BY <2>1, <3>2, <3>3, <3>4, <3>5, <3>6
  <2>2. CASE ~wide
    <3>1. q = [p |-> up, ret |-> "0"]
      BY <2>2 DEF Ok
    <3>2. Keeps(up, up, {"filt"})
      BY DEF Keeps
    <3> QED BY <2>2, <3>1, <3>2, <1>2
  <2> QED BY <2>1, <2>2
<1> HIDE DEF q
<1>5. DOMAIN q.p = PhyKeys
  BY <1>2, <1>4 DEF Keeps
<1>6. DOMAIN s = {"p", "ret"} /\ Keeps(q.p, s.p, {"phase"})
  BY <1>5, QuadStepsKeeps
<1>7. DOMAIN s.p = PhyKeys /\ s.p.filt = q.p.filt
  BY <1>5, <1>6 DEF Keeps, PhyKeys
<1> HIDE DEF s
<1> DEFINE v == UpdateFilters(s.p, p.bw.rx, p.bw.tx, o.narrow).p
<1>8. Keeps(s.p, v, {"filt"}) /\ v.filt = p.bw
  <2>1. v.filt = [rx |-> p.bw.rx, tx |-> p.bw.tx]
    BY <1>7 DEF v, UpdateFilters, PhyKeys
  <2>2. p.bw = [rx |-> p.bw.rx, tx |-> p.bw.tx]
    BY <1>0
  <2>3. Keeps(s.p, v, {"filt"})
    BY <1>7, UpdateFiltersDoes
  <2> QED BY <2>1, <2>2, <2>3
<1> HIDE DEF v
<1>9. /\ Keeps(p, q.p, T)
  BY <1>1, <1>4, KeepsMore
<1>10. Keeps(p, s.p, T)
  BY <1>9, <1>6, KeepsMore
<1>11. Keeps(p, v, T)
  BY <1>10, <1>8, KeepsMore
<1>12. /\ DOMAIN r = {"p", "ret"}
       /\ Keeps(p, r.p, T)
       /\ p.filt = p.bw /\ (r.ret = "0" \/ o.bad \notin {"rx", "tx"}) => r.p.filt = p.bw
  <2>1. CASE q.ret # "0"
    <3>1. r = q
      BY <2>1
    <3> QED BY <2>1, <3>1, <1>4, <1>9
  <2>2. CASE q.ret = "0" /\ wide
    <3>1. r = [s EXCEPT !.p = v]
      BY <2>2 DEF v
    <3> QED BY <2>2, <3>1, <1>6, <1>8, <1>11
  <2>3. CASE q.ret = "0" /\ ~wide
    <3>1. r = s
      BY <2>3
    <3> QED BY <2>3, <3>1, <1>4, <1>6, <1>7, <1>10
  <2> QED BY <2>1, <2>2, <2>3
<1>13. TxQuad(p, rx, tx, n, o) = IF p.txPd /\ ~p.managed THEN Err(p, "-EFAULT") ELSE [r EXCEPT !.p.txPdReg = p.txPd]
  BY DEF TxQuad, v, s, q, wide, x, freq, up
<1> HIDE DEF r
<1>14. CASE p.txPd /\ ~p.managed
  <2>1. TxQuad(p, rx, tx, n, o) = [p |-> p, ret |-> "-EFAULT"]
    BY <1>13, <1>14 DEF Err
  <2>2. Keeps(p, p, T)
    BY DEF Keeps
  <2> QED BY <2>1, <2>2, <1>0
<1>15. CASE ~(p.txPd /\ ~p.managed)
  <2> DEFINE t == [r.p EXCEPT !.txPdReg = p.txPd]
  <2>1. TxQuad(p, rx, tx, n, o) = [r EXCEPT !.p = t]
    BY <1>13, <1>15
  <2>2. DOMAIN r.p = PhyKeys
    BY <1>0, <1>12 DEF Keeps
  <2>3. Keeps(r.p, t, {"txPdReg"}) /\ t.txPdReg = p.txPd /\ t.filt = r.p.filt
    BY <2>2 DEF Keeps, PhyKeys
  <2> HIDE DEF t
  <2>4. Keeps(p, t, T)
    BY <2>3, <1>12, KeepsMore
  <2>5. [r EXCEPT !.p = t].p = t /\ [r EXCEPT !.p = t].ret = r.ret
    BY <1>12
  <2> QED BY <2>1, <2>3, <2>4, <2>5, <1>12, <1>0
<1> QED BY <1>14, <1>15

\* The end of a calibration: types, always, and the radio as it was asked for, unless a
\* filter timed out.
LEMMA GivesBack ==
  ASSUME NEW p, NEW q, NEW a, RadioTypes(p), Keeps(p, q, {"txPdReg", "filt", "phase", "track"}),
         q.txPdReg \in BOOLEAN, q.track = p.want
  PROVE  LET s == RestorePrev(q)
         IN  /\ RadioTypes(s)
             /\ MidCall(p, a) /\ q.txPdReg = p.txPd /\ q.filt = p.bw => AsAsked(s, a)
<1> DEFINE s == RestorePrev(q)
<1>0. DOMAIN q = PhyKeys /\ EnsmKeys \subseteq DOMAIN q /\ EnsmKeys \subseteq DOMAIN p /\ EnsmTypes(p)
  BY RadioHasEnsm DEF Keeps, RadioTypes
<1>1. EnsmTypes(q) /\ (WillReturn(p, a) => WillReturn(q, a))
  BY <1>0, SameEnsm DEF EnsmKeys
<1>2. /\ q.fir = p.fir /\ q.bbTune = p.bbTune /\ q.managed = p.managed /\ q.conv = p.conv
      /\ q.txPd = p.txPd /\ q.want = p.want
      /\ q.bw = p.bw /\ q.att = p.att /\ q.cache = p.cache /\ q.step = p.step
      /\ q.stepReg = p.stepReg /\ q.bist = p.bist /\ q.loop = p.loop /\ q.loopReg = p.loopReg
      /\ q.scratch = p.scratch /\ q.dsel = p.dsel
  BY DEF RadioTypes, PhyKeys, Keeps
<1>3. RadioRest(q)
  BY <1>2 DEF RadioTypes, RadioRest
<1>4. Wired(p) => Wired(q)
  BY <1>2 DEF Wired
<1>5. Kept(p, a) /\ q.txPdReg = p.txPd /\ q.filt = p.bw => Kept(q, a)
  BY <1>2 DEF Kept
<1>6. /\ Keeps(q, s, {"cfg1", "dev"})
      /\ EnsmTypes(s)
      /\ WillReturn(q, a) => Fits(s) /\ Ens(s, a) /\ ~Unrestorable(s)
  BY <1>0, <1>1, Restores
<1> HIDE DEF s
<1>7. RadioTypes(q)
  BY <1>0, <1>1, <1>3 DEF RadioTypes
<1>8. RadioRest(s)
  BY <1>6, <1>7, SameRest
<1>9. (Wired(q) => Wired(s)) /\ (Kept(q, a) => Kept(s, a))
  BY <1>0, <1>6, SameKept
<1>10. s.track = s.want
  BY <1>0, <1>2, <1>6 DEF Keeps, PhyKeys
<1>11. DOMAIN s = PhyKeys
  BY <1>0, <1>6 DEF Keeps
<1>12. RadioTypes(s)
  BY <1>6, <1>8, <1>11 DEF RadioTypes
<1>13. MidCall(p, a) /\ q.txPdReg = p.txPd /\ q.filt = p.bw => AsAsked(s, a)
  BY <1>1, <1>4, <1>5, <1>6, <1>9, <1>10 DEF MidCall, AsAsked
<1> QED BY <1>12, <1>13 DEF s

\* ad9361_do_calib_run gives the radio back as it was asked for, unless a filter timed out.
LEMMA CalEnded ==
  ASSUME NEW p, NEW a, NEW cal, NEW n, NEW o, RadioTypes(p), o.narrow = "none"
  PROVE  LET r == CalEnd(p, cal, n, o)
         IN  /\ RadioTypes(r.p)
             /\ MidCall(p, a) /\ (r.ret = "0" \/ o.bad \notin {"rx", "tx"}) => AsAsked(r.p, a)
<1> DEFINE r == IF cal = "tx_quad" THEN TxQuad(p, p.bw.rx \div 2, p.bw.tx \div 2, n, o)
                ELSE IF o.bad = "quad1" THEN Err(p, "-ETIMEDOUT") ELSE Ok(p)
           q == [r.p EXCEPT !.track = r.p.want]
           s == RestorePrev(q)
           T == {"txPdReg", "filt", "phase"}
<1>1. /\ Keeps(p, r.p, T)
      /\ r.p.txPdReg \in BOOLEAN
      /\ p.txPdReg = p.txPd => r.p.txPdReg = p.txPd
      /\ p.filt = p.bw /\ (r.ret = "0" \/ o.bad \notin {"rx", "tx"}) => r.p.filt = p.bw
  <2>1. CASE cal = "tx_quad"
    BY <2>1, TxQuadGivesBack
  <2>2. CASE cal # "tx_quad"
    <3>1. r.p = p
      BY <2>2 DEF Ok, Err
    <3>2. Keeps(p, p, T)
      BY DEF Keeps
    <3> QED BY <3>1, <3>2 DEF RadioTypes, RadioRest
  <2> QED BY <2>1, <2>2
<1>2. DOMAIN r = {"p", "ret"}
  <2>1. CASE cal = "tx_quad"
    BY <2>1 DEF TxQuad, Err, Ok, UpdateFilters, QuadSteps
  <2>2. CASE cal # "tx_quad"
    BY <2>2 DEF Ok, Err
  <2> QED BY <2>1, <2>2
<1>3. CalEnd(p, cal, n, o) = [r EXCEPT !.p = s]
  BY DEF CalEnd
<1> HIDE DEF r
<1>4. DOMAIN r.p = PhyKeys
  BY <1>1 DEF Keeps, RadioTypes
<1>5. /\ Keeps(r.p, q, {"track"}) /\ q.track = r.p.want /\ q.txPdReg = r.p.txPdReg /\ q.filt = r.p.filt
      /\ r.p.want = p.want
  BY <1>1, <1>4 DEF Keeps, PhyKeys
<1> HIDE DEF q
<1>6. Keeps(p, q, {"txPdReg", "filt", "phase", "track"})
  BY <1>1, <1>5, KeepsMore
<1>7. /\ RadioTypes(s)
      /\ MidCall(p, a) /\ q.txPdReg = p.txPd /\ q.filt = p.bw => AsAsked(s, a)
  BY <1>1, <1>5, <1>6, GivesBack
<1>8. CalEnd(p, cal, n, o).p = s /\ CalEnd(p, cal, n, o).ret = r.ret
  BY <1>2, <1>3
<1>9. MidCall(p, a) => p.txPdReg = p.txPd /\ p.filt = p.bw
  BY DEF MidCall, Kept
<1> QED BY <1>1, <1>5, <1>7, <1>8, <1>9

\* The end of a change of bandwidth, likewise.
LEMMA BwEnded ==
  ASSUME NEW p, NEW a, NEW rx \in Int, NEW tx \in Int, NEW o, RadioTypes(p), o.narrow = "none"
  PROVE  LET r == BwEnd(p, rx, tx, o)
         IN  /\ RadioTypes(r.p)
             /\ MidCall(p, a) /\ r.ret = "0" => AsAsked(r.p, a)
<1> DEFINE f == UpdateFilters(p, rx, tx, o.bad)
           q == [f.p EXCEPT !.bw = [rx |-> rx, tx |-> tx]]
           c == IF p.manualQuad THEN Ok(q) ELSE TxQuad(q, rx \div 2, tx \div 2, -1, o)
           e == [c.p EXCEPT !.track = c.p.want]
           T == {"txPdReg", "filt", "phase"}
<1>0. DOMAIN p = PhyKeys /\ EnsmKeys \subseteq DOMAIN p /\ EnsmTypes(p)
  BY RadioHasEnsm DEF RadioTypes
<1>1. /\ Keeps(p, f.p, {"filt"})
      /\ f.ret = "0" => f.p.filt = [rx |-> rx, tx |-> tx]
  BY <1>0 DEF UpdateFilters, Keeps, PhyKeys
<1>2. BwEnd(p, rx, tx, o) = IF f.ret # "0" THEN f ELSE IF c.ret # "0" THEN c ELSE Ok(RestorePrev(e))
  BY DEF BwEnd
<1> HIDE DEF f
<1>3. DOMAIN f.p = PhyKeys
  BY <1>0, <1>1 DEF Keeps
<1>4. Keeps(f.p, q, {"bw"}) /\ q.bw = [rx |-> rx, tx |-> tx] /\ q.filt = f.p.filt
  BY <1>3 DEF Keeps, PhyKeys
<1> HIDE DEF q
<1>5. Keeps(p, q, {"filt", "bw"}) /\ DOMAIN q = PhyKeys
  <2>1. Keeps(p, q, {"filt", "bw"})
    BY <1>1, <1>4, KeepsMore
  <2> QED BY <2>1, <1>0 DEF Keeps
<1>6. /\ EnsmTypes(q) /\ (WillReturn(p, a) => WillReturn(q, a))
  BY <1>0, <1>5, SameEnsm DEF EnsmKeys
<1>7. /\ q.fir = p.fir /\ q.bbTune = p.bbTune /\ q.managed = p.managed /\ q.conv = p.conv
      /\ q.txPd = p.txPd /\ q.txPdReg = p.txPdReg /\ q.want = p.want /\ q.track = p.track
      /\ q.att = p.att /\ q.cache = p.cache /\ q.step = p.step
      /\ q.stepReg = p.stepReg /\ q.bist = p.bist /\ q.loop = p.loop /\ q.loopReg = p.loopReg
      /\ q.scratch = p.scratch /\ q.dsel = p.dsel
  BY <1>0, <1>5 DEF PhyKeys, Keeps
<1>8. RadioTypes(q)
  BY <1>4, <1>5, <1>6, <1>7 DEF RadioTypes, RadioRest
<1>9. MidCall(p, a) /\ f.ret = "0" => MidCall(q, a)
  BY <1>1, <1>4, <1>6, <1>7 DEF MidCall, Wired, Kept
<1>10. /\ Keeps(q, c.p, T)
       /\ c.p.txPdReg \in BOOLEAN
       /\ q.txPdReg = q.txPd => c.p.txPdReg = q.txPd
       /\ q.filt = q.bw /\ c.ret = "0" => c.p.filt = q.bw
  <2>1. CASE p.manualQuad
    <3>1. c.p = q
      BY <2>1 DEF Ok
    <3>2. Keeps(q, q, T)
      BY DEF Keeps
    <3> QED BY <3>1, <3>2, <1>8 DEF RadioTypes, RadioRest
  <2>2. CASE ~p.manualQuad
    <3>1. c = TxQuad(q, rx \div 2, tx \div 2, -1, o)
      BY <2>2
    <3> QED BY <1>8, <3>1, TxQuadGivesBack
  <2> QED BY <2>1, <2>2
<1> HIDE DEF c
<1>11. RadioTypes(f.p)
  <2>1. RadioRest(f.p)
    BY <1>0, <1>1, SameRest
  <2>2. EnsmTypes(f.p)
    BY <1>0, <1>1, SameEnsm DEF EnsmKeys
  <2> QED BY <1>3, <2>1, <2>2 DEF RadioTypes
<1>12. DOMAIN c.p = PhyKeys
  BY <1>5, <1>10 DEF Keeps
<1>13. RadioTypes(c.p)
  <2>1. EnsmTypes(c.p)
    BY <1>5, <1>6, <1>10, SameEnsm DEF EnsmKeys, PhyKeys
  <2>2. /\ c.p.fir = q.fir /\ c.p.bbTune = q.bbTune /\ c.p.managed = q.managed /\ c.p.conv = q.conv
        /\ c.p.txPd = q.txPd /\ c.p.want = q.want /\ c.p.track = q.track /\ c.p.bw = q.bw
        /\ c.p.att = q.att /\ c.p.cache = q.cache /\ c.p.step = q.step
        /\ c.p.stepReg = q.stepReg
    BY <1>5, <1>10 DEF PhyKeys, Keeps
  <2> QED BY <1>8, <1>10, <1>12, <2>1, <2>2 DEF RadioTypes, RadioRest
<1>14. /\ Keeps(c.p, e, {"track"}) /\ e.track = c.p.want /\ e.txPdReg = c.p.txPdReg /\ e.filt = c.p.filt
       /\ c.p.want = q.want
  BY <1>5, <1>10, <1>12 DEF Keeps, PhyKeys
<1> HIDE DEF e
<1>15. Keeps(q, e, {"txPdReg", "filt", "phase", "track"})
  BY <1>10, <1>14, KeepsMore
<1>16. /\ RadioTypes(RestorePrev(e))
       /\ MidCall(q, a) /\ e.txPdReg = q.txPd /\ e.filt = q.bw => AsAsked(RestorePrev(e), a)
  BY <1>8, <1>10, <1>14, <1>15, GivesBack
<1>17. MidCall(q, a) => q.txPdReg = q.txPd /\ q.filt = q.bw
  BY DEF MidCall, Kept
<1>18. CASE f.ret # "0"
  BY <1>18, <1>2, <1>11
<1>19. CASE f.ret = "0" /\ c.ret # "0"
  BY <1>19, <1>2, <1>13
<1>20. CASE f.ret = "0" /\ c.ret = "0"
  <2>1. BwEnd(p, rx, tx, o).p = RestorePrev(e)
    BY <1>20, <1>2 DEF Ok
  <2> QED BY <1>20, <2>1, <1>9, <1>10, <1>14, <1>16, <1>17
<1> QED BY <1>18, <1>19, <1>20

\* A loopback is made, or taken away, in one place.
LEMMA LoopbackWires ==
  ASSUME NEW p, NEW m \in 0 .. 2, DOMAIN p = PhyKeys
  PROVE  LET q == Loopback(p, m).p
         IN  /\ Loopback(p, m) = Ok(q)
             /\ Keeps(p, q, {"loop", "loopReg", "txOn", "dsel", "scratch"})
             /\ q.loop = m
             /\ p.scratch = "dma" /\ p.dsel \in {"dma", "loop"} /\ (p.conv # "core" => p.dsel = "dma") => Wired(q)
<1> DEFINE u == [p EXCEPT !.loop = m]
           h == HdlLoopback(u, m = 2)
           q == [h EXCEPT !.loopReg = m = 1, !.txOn = IF m = 1 THEN p.rxNum ELSE p.txNum]
<1>1. Keeps(p, u, {"loop"}) /\ u.loop = m /\ u.conv = p.conv /\ u.dsel = p.dsel /\ u.scratch = p.scratch
      /\ DOMAIN u = PhyKeys
  BY DEF Keeps, PhyKeys
<1>2. Loopback(p, m) = Ok(q)
  BY DEF Loopback
<1> HIDE DEF u
<1>3. /\ Keeps(u, h, {"dsel", "scratch"})
      /\ u.scratch = "dma" /\ u.dsel \in {"dma", "loop"} /\ (u.conv # "core" => u.dsel = "dma")
           => h.scratch = "dma" /\ h.dsel = IF m = 2 /\ u.conv = "core" THEN "loop" ELSE "dma"
  <2>1. CASE u.conv = "core" /\ m = 2 /\ u.dsel # "loop"
    BY <1>1, <2>1 DEF HdlLoopback, Keeps, PhyKeys
  <2>2. CASE u.conv = "core" /\ ~(m = 2) /\ u.dsel = "loop"
    BY <1>1, <2>2 DEF HdlLoopback, Keeps, PhyKeys
  <2>3. CASE ~(u.conv = "core" /\ m = 2 /\ u.dsel # "loop") /\ ~(u.conv = "core" /\ ~(m = 2) /\ u.dsel = "loop")
    <3>1. h = u
      BY <2>3 DEF HdlLoopback
    <3> QED BY <2>3, <3>1 DEF Keeps
  <2> QED BY <2>1, <2>2, <2>3
<1> HIDE DEF h
<1>4. DOMAIN h = PhyKeys /\ h.loop = m /\ h.conv = p.conv
  BY <1>1, <1>3 DEF Keeps, PhyKeys
<1>5. Keeps(h, q, {"loopReg", "txOn"}) /\ q.loopReg = (m = 1) /\ q.loop = m /\ q.conv = p.conv
      /\ q.dsel = h.dsel /\ q.scratch = h.scratch
  BY <1>4 DEF Keeps, PhyKeys
<1> HIDE DEF q
<1>6. Keeps(u, q, {"dsel", "scratch", "loopReg", "txOn"})
  BY <1>3, <1>5, KeepsMore
<1>7. Keeps(p, q, {"loop", "loopReg", "txOn", "dsel", "scratch"})
  BY <1>1, <1>6, KeepsMore
<1>8. Loopback(p, m).p = q
  BY <1>2 DEF Ok
<1>9. q.loopReg = (q.loop = 1)
  BY <1>5
<1>10. p.scratch = "dma" /\ p.dsel \in {"dma", "loop"} /\ (p.conv # "core" => p.dsel = "dma") => Wired(q)
  BY <1>1, <1>3, <1>5, <1>9 DEF Wired
<1> QED BY <1>2, <1>5, <1>7, <1>8, <1>10

\* What tuning may change, and of that what neither types nor the state machine see.
LightFields == {"loop", "loopReg", "txOn", "dsel", "scratch", "bist", "dly", "pdDly", "io", "rate"}
TuneFields == LightFields \cup {"cfg1", "dev", "prev", "pinEn", "mode", "att", "cache"}
Touches(p, q) == RadioTypes(q) /\ Keeps(p, q, TuneFields)

\* No pin control, and none that a forced state would bring back.
Calm(p) == "PIN" \notin p.cfg1 /\ (p.pinEn => p.dev # "ALERT")
\* The converter core sends what its scratch register will bring back.
Sends(p) == p.scratch = "dma" /\ p.dsel \in {"dma", "loop"} /\ (p.conv # "core" => p.dsel = "dma")

\* Two parts of a tuning are one.
LEMMA TouchesMore ==
  ASSUME NEW p, NEW q, NEW r, Touches(p, q), Touches(q, r)
  PROVE  Touches(p, r)
  BY KeepsMore DEF Touches

\* A part that is left out.
LEMMA TouchesSelf == ASSUME NEW p, RadioTypes(p) PROVE Touches(p, p)
  BY DEF Touches, Keeps

\* A change of the fields that the enable state machine does not know.
LEMMA LightTouches ==
  ASSUME NEW p, NEW q, NEW T, RadioTypes(p), Keeps(p, q, T), T \subseteq LightFields
  PROVE  /\ Touches(p, q)
         /\ Calm(q) = Calm(p) /\ q.pinEn = p.pinEn /\ q.cache = p.cache /\ q.att = p.att
         /\ q.conv = p.conv /\ q.mode = p.mode /\ q.cfg1 = p.cfg1 /\ q.dev = p.dev
<1>1. Keeps(p, q, TuneFields)
  BY DEF Keeps, TuneFields
<1>2. RadioRest(q)
  BY SameRest DEF LightFields
<1>3. EnsmTypes(q)
  BY RadioHasEnsm, SameEnsm DEF LightFields, EnsmKeys
<1>4. DOMAIN q = PhyKeys
  BY DEF Keeps, RadioTypes
<1>5. /\ q.pinEn = p.pinEn /\ q.cache = p.cache /\ q.att = p.att
      /\ q.conv = p.conv /\ q.mode = p.mode /\ q.cfg1 = p.cfg1 /\ q.dev = p.dev
  BY DEF Keeps, RadioTypes, PhyKeys, LightFields
<1>6. Calm(q) = Calm(p)
  BY <1>5 DEF Calm
<1> QED BY <1>1, <1>2, <1>3, <1>4, <1>5, <1>6 DEF Touches, RadioTypes

\* A forced state within a tuning: pin control is off, and stays off when it was.
LEMMA ForceTouches ==
  ASSUME NEW p, NEW s \in {"ALERT", "FDD"}, RadioTypes(p)
  PROVE  LET q == ForceState(p, s)
         IN  /\ Touches(p, q)
             /\ Keeps(p, q, {"cfg1", "dev", "prev", "pinEn"})
             /\ q.dev = s \/ q.pinEn = FALSE \/ ~Calm(p)
             /\ Calm(p) => "PIN" \notin q.cfg1 /\ (q.pinEn => p.pinEn)
             /\ Calm(p) /\ s = "ALERT" => q.pinEn = FALSE
<1> DEFINE q == ForceState(p, s)
<1>0. EnsmKeys \subseteq DOMAIN p /\ EnsmTypes(p)
  BY RadioHasEnsm
<1>1. /\ Keeps(p, q, {"cfg1", "dev", "prev", "pinEn"})
      /\ q.prev = p.dev
      /\ q.cfg1 \subseteq {"TX", "RX", "ALERT", "TO", "PIN"}
      /\ q.dev \in DevStates
      /\ p.dev = s => q.dev = s /\ q.cfg1 = p.cfg1 /\ q.pinEn = p.pinEn
      /\ p.dev # s => "PIN" \notin q.cfg1 /\ q.pinEn \in BOOLEAN /\ (q.pinEn <=> "PIN" \in p.cfg1)
  BY <1>0, ForceStateDoes DEF EnsmTypes
<1> HIDE DEF q
<1>2. /\ q.fdd = p.fdd /\ q.indep = p.indep /\ q.pinCtrl = p.pinCtrl /\ q.mode = p.mode
      /\ q.curr = p.curr /\ q.clocks = p.clocks
  BY <1>0, <1>1 DEF Keeps, EnsmKeys
<1>3. EnsmTypes(q)
  BY <1>0, <1>1, <1>2 DEF EnsmTypes
<1>4. RadioRest(q)
  BY <1>1, SameRest
<1>5. DOMAIN q = PhyKeys
  BY <1>1 DEF Keeps, RadioTypes
<1>6. Keeps(p, q, TuneFields)
  BY <1>1 DEF Keeps, TuneFields
<1>7. p.pinEn \in BOOLEAN
  BY <1>0 DEF EnsmTypes
<1> QED BY <1>1, <1>3, <1>4, <1>5, <1>6, <1>7 DEF Touches, RadioTypes, Calm, q

\* A restore within a tuning.
LEMMA RestoreTouches ==
  ASSUME NEW p, NEW s, RadioTypes(p)
  PROVE  Touches(p, RestoreState(p, s)) /\ Keeps(p, RestoreState(p, s), {"cfg1", "dev"})
<1> DEFINE q == RestoreState(p, s)
<1>1. Keeps(p, q, {"cfg1", "dev"}) /\ EnsmTypes(q)
  BY RadioHasEnsm, RestoreStateDoes
<1> HIDE DEF q
<1>2. RadioRest(q)
  BY <1>1, SameRest
<1>3. DOMAIN q = PhyKeys /\ Keeps(p, q, TuneFields)
  BY <1>1 DEF Keeps, RadioTypes, TuneFields
<1> QED BY <1>1, <1>2, <1>3 DEF Touches, RadioTypes, q

\* One new delay; with the clock's, in ALERT and then FDD.
LEMMA IntfDelayTouches ==
  ASSUME NEW p, NEW dir, NEW skew, NEW c \in BOOLEAN, RadioTypes(p)
  PROVE  LET q == IntfDelay(p, dir, skew, c)
         IN  /\ Touches(p, q)
             /\ Keeps(p, q, {"cfg1", "dev", "prev", "pinEn", "dly"})
             /\ Calm(p) => Calm(q) /\ (c \/ ~p.pinEn => ~q.pinEn)
<1> DEFINE f == IF c THEN ForceState(p, "ALERT") ELSE p
           g == [f EXCEPT !.dly[dir] = skew]
           h == IF c THEN ForceState(g, "FDD") ELSE g
           F == {"cfg1", "dev", "prev", "pinEn"}
<1>1. /\ Touches(p, f) /\ Keeps(p, f, F)
      /\ Calm(p) => Calm(f) /\ (c \/ ~p.pinEn => ~f.pinEn)
  <2>1. CASE c
    <3>1. f = ForceState(p, "ALERT")
      BY <2>1
    <3> HIDE DEF f
    <3>2. /\ Touches(p, f) /\ Keeps(p, f, F)
          /\ Calm(p) => "PIN" \notin f.cfg1 /\ f.pinEn = FALSE
      BY <3>1, ForceTouches
    <3> QED BY <3>2 DEF Calm
  <2>2. CASE ~c
    <3>1. f = p
      BY <2>2
    <3>2. Keeps(p, p, F)
      BY DEF Keeps
    <3> QED BY <2>2, <3>1, <3>2, TouchesSelf
  <2> QED BY <2>1, <2>2
<1> HIDE DEF f
<1>2. Keeps(f, g, {"dly"})
  BY <1>1 DEF Touches, RadioTypes, Keeps, PhyKeys
<1> HIDE DEF g
<1>3. Touches(f, g) /\ Calm(g) = Calm(f) /\ g.pinEn = f.pinEn
  BY <1>1, <1>2, LightTouches DEF Touches, LightFields
<1>4. /\ Touches(g, h) /\ Keeps(g, h, F)
      /\ Calm(g) /\ ~g.pinEn => "PIN" \notin h.cfg1 /\ ~h.pinEn
      /\ ~c => h = g
  <2>1. CASE c
    <3>1. h = ForceState(g, "FDD")
      BY <2>1
    <3> HIDE DEF h
    <3>2. /\ Touches(g, h) /\ Keeps(g, h, F)
          /\ Calm(g) => "PIN" \notin h.cfg1 /\ (h.pinEn => g.pinEn)
      BY <1>3, <3>1, ForceTouches DEF Touches
    <3> QED BY <2>1, <3>2
  <2>2. CASE ~c
    <3>1. h = g
      BY <2>2
    <3>2. Keeps(g, g, F)
      BY DEF Keeps
    <3> QED BY <1>3, <2>2, <3>1, <3>2, TouchesSelf DEF Touches, Calm
  <2> QED BY <2>1, <2>2
<1>5. IntfDelay(p, dir, skew, c) = h
  BY DEF IntfDelay, f, g
<1> HIDE DEF h
<1>6. Touches(p, h)
  BY <1>1, <1>3, <1>4, TouchesMore
<1>7. Keeps(p, h, {"cfg1", "dev", "prev", "pinEn", "dly"})
  <2>1. Keeps(p, g, {"cfg1", "dev", "prev", "pinEn", "dly"})
    BY <1>1, <1>2, KeepsMore
  <2> QED BY <2>1, <1>4, KeepsMore
<1>8. Calm(p) => Calm(h) /\ (c \/ ~p.pinEn => ~h.pinEn)
  BY <1>1, <1>3, <1>4 DEF Calm
<1> QED BY <1>5, <1>6, <1>7, <1>8

\* The sweep of ad9361_dig_tune_delay, and the delays it settles on.
LEMMA SweptTouches ==
  ASSUME NEW p, NEW dir, NEW o, RadioTypes(p)
  PROVE  LET r == TuneDelay(p, dir, o)
         IN  /\ DOMAIN r = {"p", "ret"}
             /\ Touches(p, r.p)
             /\ Keeps(p, r.p, {"cfg1", "dev", "prev", "pinEn", "dly"})
             /\ Calm(p) => Calm(r.p) /\ ~r.p.pinEn
<1> DEFINE F == {"cfg1", "dev", "prev", "pinEn", "dly"}
           a == IntfDelay(p, dir, 0, TRUE)
           b == IntfDelay(a, dir, Taps - 1, FALSE)
           c == IntfDelay(b, dir, ChosenSkew(o.pass), TRUE)
<1>1. Touches(p, a) /\ Keeps(p, a, F) /\ (Calm(p) => Calm(a) /\ ~a.pinEn)
  BY IntfDelayTouches
<1>2. TuneDelay(p, dir, o) = IF Sweepable(o.pass) THEN Ok(c) ELSE Err(b, "-EIO")
  BY DEF TuneDelay, TuneSettles
<1> HIDE DEF a
<1>3. Touches(a, b) /\ Keeps(a, b, F) /\ (Calm(a) => Calm(b) /\ (~a.pinEn => ~b.pinEn))
  BY <1>1, IntfDelayTouches DEF Touches
<1> HIDE DEF b
<1>4. Touches(b, c) /\ Keeps(b, c, F) /\ (Calm(b) => Calm(c) /\ ~c.pinEn)
  BY <1>3, IntfDelayTouches DEF Touches
<1> HIDE DEF c
<1>5. Touches(p, b) /\ Keeps(p, b, F)
  BY <1>1, <1>3, TouchesMore, KeepsMore
<1>6. Touches(p, c) /\ Keeps(p, c, F)
  BY <1>5, <1>4, TouchesMore, KeepsMore
<1>7. CASE Sweepable(o.pass)
  <2>1. TuneDelay(p, dir, o) = [p |-> c, ret |-> "0"]
    BY <1>2, <1>7 DEF Ok
  <2> QED BY <2>1, <1>1, <1>3, <1>4, <1>6
<1>8. CASE ~Sweepable(o.pass)
  <2>1. TuneDelay(p, dir, o) = [p |-> b, ret |-> "-EIO"]
    BY <1>2, <1>8 DEF Err
  <2> QED BY <2>1, <1>1, <1>3, <1>5
<1> QED BY <1>7, <1>8

\* ad9361_dig_tune_iodelay changes the delay lines only.
LEMMA TuneIoTouches ==
  ASSUME NEW r, NEW dir, NEW on, NEW o, DOMAIN r = {"p", "ret"}, DOMAIN r.p = PhyKeys
  PROVE  LET s == TuneIo(r, dir, on, o)
         IN  DOMAIN s = {"p", "ret"} /\ s.ret = r.ret /\ Keeps(r.p, s.p, {"io"})
<1> DEFINE w == Window(o.ioPass, IoTaps)
           x == IF on THEN w.start + w.cnt \div 2 ELSE r.p.io[dir]
           t == [r.p EXCEPT !.io[dir] = x]
<1>1. TuneIo(r, dir, on, o) = [r EXCEPT !.p = t]
  BY DEF TuneIo
<1> HIDE DEF x
<1>2. Keeps(r.p, t, {"io"})
  BY DEF Keeps, PhyKeys
<1> QED BY <1>1, <1>2

\* What a half of a tuning leaves of the radio it found.
Half(p, r) ==
  /\ DOMAIN r = {"p", "ret"} /\ Touches(p, r.p)
  /\ Calm(p) => Calm(r.p) /\ ~r.p.pinEn
  /\ r.p.cache = p.cache /\ r.p.mode = p.mode /\ r.p.conv = p.conv /\ r.p.scratch = p.scratch

\* The receive half of a tuning.
LEMMA RxHalf ==
  ASSUME NEW u, NEW flags, NEW o, RadioTypes(u)
  PROVE  Half(u, TuneRx(u, flags, o)) /\ TuneRx(u, flags, o).p.dsel = u.dsel
<1> DEFINE r == TuneDelay(u, "rx", o)
           s == TuneIo(r, "rx", "IDELAY" \in flags, o)
<1>1. /\ DOMAIN r = {"p", "ret"}
      /\ Touches(u, r.p)
      /\ Keeps(u, r.p, {"cfg1", "dev", "prev", "pinEn", "dly"})
      /\ Calm(u) => Calm(r.p) /\ ~r.p.pinEn
  BY SweptTouches
<1> HIDE DEF r
<1>2. DOMAIN s = {"p", "ret"} /\ Keeps(r.p, s.p, {"io"})
  BY <1>1, TuneIoTouches DEF Touches, RadioTypes
<1>3. TuneRx(u, flags, o) = s
  BY DEF TuneRx, r
<1> HIDE DEF s
<1>4. Touches(r.p, s.p) /\ Calm(s.p) = Calm(r.p) /\ s.p.pinEn = r.p.pinEn
  BY <1>1, <1>2, LightTouches DEF Touches, LightFields
<1>5. Touches(u, s.p)
  BY <1>1, <1>4, TouchesMore
<1>6. /\ s.p.cache = u.cache /\ s.p.mode = u.mode /\ s.p.conv = u.conv /\ s.p.scratch = u.scratch
      /\ s.p.dsel = u.dsel
  BY <1>1, <1>2 DEF Keeps, RadioTypes, PhyKeys, Touches
<1> QED BY <1>1, <1>2, <1>3, <1>4, <1>5, <1>6 DEF Half

\* The transmit half, which gives the data selector back.
LEMMA TxHalf ==
  ASSUME NEW p, NEW u, NEW flags, NEW o, RadioTypes(u)
  PROVE  Half(u, TuneTx(p, u, flags, o)) /\ TuneTx(p, u, flags, o).p.dsel = TxBegins(p).dsel
<1> DEFINE r == TuneDelay(u, "tx", o)
           d == TxBegins(p).dsel
           v == [r.p EXCEPT !.dsel = d]
           w == [r EXCEPT !.p = v]
           s == TuneIo(w, "tx", "ODELAY" \in flags, o)
<1>1. /\ DOMAIN r = {"p", "ret"}
      /\ Touches(u, r.p)
      /\ Keeps(u, r.p, {"cfg1", "dev", "prev", "pinEn", "dly"})
      /\ Calm(u) => Calm(r.p) /\ ~r.p.pinEn
  BY SweptTouches
<1>2. TuneTx(p, u, flags, o) = s
  BY DEF TuneTx
<1> HIDE DEF r, d
<1>3. Keeps(r.p, v, {"dsel"}) /\ v.dsel = d
  BY <1>1 DEF Keeps, Touches, RadioTypes, PhyKeys
<1>4. DOMAIN w = {"p", "ret"} /\ w.p = v
  BY <1>1
<1> HIDE DEF v, w
<1>5. DOMAIN v = PhyKeys
  BY <1>1, <1>3 DEF Keeps, Touches, RadioTypes
<1>6. DOMAIN s = {"p", "ret"} /\ Keeps(v, s.p, {"io"})
  BY <1>4, <1>5, TuneIoTouches
<1> HIDE DEF s
<1>7. Keeps(r.p, s.p, {"dsel", "io"})
  BY <1>3, <1>6, KeepsMore
<1>8. Touches(r.p, s.p) /\ Calm(s.p) = Calm(r.p) /\ s.p.pinEn = r.p.pinEn
  BY <1>1, <1>7, LightTouches DEF Touches, LightFields
<1>9. Touches(u, s.p)
  BY <1>1, <1>8, TouchesMore
<1>10. /\ s.p.cache = u.cache /\ s.p.mode = u.mode /\ s.p.conv = u.conv /\ s.p.scratch = u.scratch
  BY <1>1, <1>7 DEF Keeps, RadioTypes, PhyKeys, Touches
<1>11. s.p.dsel = d
  BY <1>3, <1>5, <1>6 DEF Keeps, PhyKeys
<1> QED BY <1>1, <1>2, <1>6, <1>8, <1>9, <1>10, <1>11 DEF Half, d

\* Any loopback mode.
LEMMA LoopbackTouches ==
  ASSUME NEW p, NEW m, RadioTypes(p)
  PROVE  Touches(p, Loopback(p, m).p) /\ Keeps(p, Loopback(p, m).p, LightFields)
<1>1. CASE m \in 0 .. 2
  <2>1. Keeps(p, Loopback(p, m).p, {"loop", "loopReg", "txOn", "dsel", "scratch"})
    BY <1>1, LoopbackWires DEF RadioTypes
  <2>2. Keeps(p, Loopback(p, m).p, LightFields)
    BY <2>1 DEF Keeps, LightFields
  <2> QED BY <2>2, LightTouches
<1>2. CASE m \notin 0 .. 2
  <2> DEFINE q == [p EXCEPT !.loop = m]
  <2>1. Loopback(p, m).p = q
    BY <1>2 DEF Loopback, Err
  <2>2. Keeps(p, q, LightFields)
    BY DEF Keeps, LightFields, RadioTypes, PhyKeys
  <2> QED BY <2>1, <2>2, LightTouches
<1> QED BY <1>1, <1>2

\* The self test register is written.
LEMMA BistTouches ==
  ASSUME NEW p, NEW word, RadioTypes(p)
  PROVE  /\ Keeps(p, Bist(p, word), {"bist"}) /\ Bist(p, word).bist = word
         /\ Touches(p, Bist(p, word))
<1>1. Keeps(p, Bist(p, word), {"bist"}) /\ Bist(p, word).bist = word
  BY DEF Bist, Keeps, RadioTypes, PhyKeys
<1>2. Touches(p, Bist(p, word))
  BY <1>1, LightTouches DEF LightFields
<1> QED BY <1>1, <1>2

\* How the halves begin.
LEMMA RxStarts ==
  ASSUME NEW p, RadioTypes(p)
  PROVE  LET q == RxStart(p)
         IN  /\ Touches(p, q) /\ Keeps(p, q, LightFields)
             /\ Calm(q) = Calm(p) /\ q.cache = p.cache /\ q.mode = p.mode
             /\ Sends(p) => Sends(q)
<1> DEFINE l == Loopback(p, 0).p
           q == Bist(l, Prbs("rx"))
<1>1. Touches(p, l) /\ Keeps(p, l, LightFields)
  BY LoopbackTouches
<1>2. Sends(p) => Wired(l)
  BY LoopbackWires DEF Sends, RadioTypes
<1> HIDE DEF l
<1>3. Keeps(l, q, {"bist"}) /\ Touches(l, q)
  BY <1>1, BistTouches DEF Touches
<1> HIDE DEF q
<1>4. Touches(p, q)
  BY <1>1, <1>3, TouchesMore
<1>5. Keeps(p, q, LightFields)
  BY <1>1, <1>3, KeepsMore DEF LightFields
<1>6. Calm(q) = Calm(p) /\ q.cache = p.cache /\ q.mode = p.mode
  BY <1>5, LightTouches
<1>7. q.scratch = l.scratch /\ q.dsel = l.dsel /\ q.conv = l.conv
  BY <1>1, <1>3 DEF Keeps, Touches, RadioTypes, PhyKeys
<1>8. Sends(p) => Sends(q)
  BY <1>2, <1>7 DEF Wired, Sends
<1>9. RxStart(p) = q
  BY DEF RxStart, q, l
<1> QED BY <1>4, <1>5, <1>6, <1>8, <1>9

\* The transmit half begins in the loopback of the chip, with the PRBS for data.
LEMMA TxStarts ==
  ASSUME NEW p, RadioTypes(p)
  PROVE  LET l == TxBegins(p)
             q == TxStart(p)
         IN  /\ Touches(p, q) /\ Keeps(p, q, LightFields)
             /\ Calm(q) = Calm(p) /\ q.cache = p.cache /\ q.mode = p.mode
             /\ Sends(p) => Sends(l) /\ q.scratch = "dma" /\ q.conv = l.conv
<1> DEFINE b == Bist(p, BistOff)
           l == Loopback(b, 1).p
           q == [l EXCEPT !.dsel = "pn"]
<1>1. Keeps(p, b, {"bist"}) /\ Touches(p, b)
  BY BistTouches
<1> HIDE DEF b
<1>2. Touches(b, l) /\ Keeps(b, l, LightFields)
  BY <1>1, LoopbackTouches DEF Touches
<1>3. b.scratch = p.scratch /\ b.dsel = p.dsel /\ b.conv = p.conv
  BY <1>1 DEF Keeps, Touches, RadioTypes, PhyKeys
<1>4. Sends(p) => Wired(l)
  BY <1>1, <1>3, LoopbackWires DEF Sends, Touches, RadioTypes
<1> HIDE DEF l
<1>5. Keeps(l, q, {"dsel"})
  BY <1>2 DEF Keeps, Touches, RadioTypes, PhyKeys
<1> HIDE DEF q
<1>6. Keeps(p, l, LightFields)
  BY <1>1, <1>2, KeepsMore DEF LightFields
<1>7. Keeps(p, q, LightFields)
  BY <1>6, <1>5, KeepsMore DEF LightFields
<1>8. /\ Touches(p, q) /\ Calm(q) = Calm(p) /\ q.cache = p.cache /\ q.mode = p.mode
  BY <1>7, LightTouches
<1>9. q.scratch = l.scratch /\ q.conv = l.conv
  BY <1>2, <1>5 DEF Keeps, Touches, RadioTypes, PhyKeys
<1>10. Sends(p) => Sends(l) /\ q.scratch = "dma"
  BY <1>4, <1>9 DEF Wired, Sends
<1>11. TxBegins(p) = l /\ TxStart(p) = q
  BY DEF TxBegins, TxStart, q, l, b
<1> QED BY <1>7, <1>8, <1>9, <1>10, <1>11

\* ad9361_dig_tune over all rates is a run with a clock chain set before each half.
LEMMA DigTuneAll ==
  ASSUME NEW p, NEW flags, NEW o
  PROVE  DigTune(p, TRUE, flags, o) =
           IF p.conv # "core" THEN Err(p, "-ENODEV")
           ELSE TuneEnds(IF Skipped(p, flags) THEN Ok(p) ELSE RunAtRates(p, flags, o),
                         p, Skipped(p, flags), TRUE, flags)
  BY DEF DigTune, TuneAt

\* ad9361_set_ensm_mode changes the mode only.
LEMMA ModeTouches ==
  ASSUME NEW p, NEW f \in BOOLEAN, NEW b \in BOOLEAN, RadioTypes(p)
  PROVE  LET q == SetEnsmMode(p, f, b)
         IN  Touches(p, q) /\ Keeps(p, q, {"mode"}) /\ q.mode.fdd = f
<1> DEFINE m == [fdd |-> f, indep |-> f /\ p.indep, pin |-> ~f /\ b]
           q == [p EXCEPT !.mode = m]
<1>1. SetEnsmMode(p, f, b) = q
  BY DEF SetEnsmMode
<1>2. m \in [fdd : BOOLEAN, indep : BOOLEAN, pin : BOOLEAN] /\ m.fdd = f
  BY DEF RadioTypes, EnsmTypes
<1> HIDE DEF m
<1>3. Keeps(p, q, {"mode"}) /\ q.mode = m
  BY DEF Keeps, RadioTypes, PhyKeys
<1> HIDE DEF q
<1>4. RadioRest(q)
  BY <1>3, SameRest
<1>5. /\ q.fdd = p.fdd /\ q.indep = p.indep /\ q.pinCtrl = p.pinCtrl /\ q.cfg1 = p.cfg1 /\ q.dev = p.dev
      /\ q.curr = p.curr /\ q.prev = p.prev /\ q.pinEn = p.pinEn /\ q.clocks = p.clocks
  BY <1>3 DEF Keeps, RadioTypes, PhyKeys
<1>6. EnsmTypes(q)
  BY <1>2, <1>3, <1>5 DEF EnsmTypes, RadioTypes
<1>7. DOMAIN q = PhyKeys /\ Keeps(p, q, TuneFields)
  BY <1>3 DEF Keeps, RadioTypes, TuneFields
<1> QED BY <1>1, <1>2, <1>3, <1>4, <1>6, <1>7 DEF Touches, RadioTypes

\* Muted and in FDD mode, with what will be brought back in the cache.
LEMMA MutedTouches ==
  ASSUME NEW p, RadioTypes(p)
  PROVE  LET d == DisablePinctrl(Mute(p))
         IN  /\ Touches(p, d) /\ Keeps(p, d, {"cache", "att", "mode"})
             /\ d.cache = p.att
             /\ p.fdd => d.mode = p.mode
<1> DEFINE m == Mute(p)
           d == DisablePinctrl(m)
<1>1. Keeps(p, m, {"cache", "att"}) /\ m.cache = p.att /\ m.att = <<MaxAtten, MaxAtten>>
  BY DEF Mute, Keeps, RadioTypes, PhyKeys
<1> HIDE DEF m
<1>2. Touches(p, m)
  <2>1. EnsmTypes(m)
    BY <1>1, RadioHasEnsm, SameEnsm DEF EnsmKeys
  <2>2. m.att \in [1 .. 2 -> 0 .. MaxAtten] /\ m.cache \in [1 .. 2 -> 0 .. MaxAtten]
    BY <1>1 DEF MaxAtten, RadioTypes, RadioRest
  <2>3. /\ m.fir = p.fir /\ m.bbTune = p.bbTune /\ m.managed = p.managed /\ m.conv = p.conv
        /\ m.txPd = p.txPd /\ m.txPdReg = p.txPdReg /\ m.track = p.track /\ m.want = p.want
        /\ m.bw = p.bw /\ m.step = p.step /\ m.stepReg = p.stepReg
    BY <1>1 DEF Keeps, RadioTypes, PhyKeys
  <2>4. RadioRest(m)
    BY <2>2, <2>3 DEF RadioTypes, RadioRest
  <2>5. DOMAIN m = PhyKeys /\ Keeps(p, m, TuneFields)
    BY <1>1 DEF Keeps, RadioTypes, TuneFields
  <2> QED BY <2>1, <2>4, <2>5 DEF Touches, RadioTypes
<1>3. Touches(m, d) /\ Keeps(m, d, {"mode"}) /\ (m.fdd => d = m)
  <2>1. CASE m.fdd
    <3>1. d = m
      BY <2>1 DEF DisablePinctrl
    <3>2. Keeps(m, m, {"mode"})
      BY DEF Keeps
    <3> QED BY <1>2, <3>1, <3>2, TouchesSelf DEF Touches
  <2>2. CASE ~m.fdd
    <3>1. d = SetEnsmMode(m, TRUE, FALSE)
      BY <2>2 DEF DisablePinctrl
    <3> QED BY <1>2, <2>2, <3>1, ModeTouches DEF Touches
  <2> QED BY <2>1, <2>2
<1> HIDE DEF d
<1>4. Touches(p, d) /\ Keeps(p, d, {"cache", "att", "mode"})
  BY <1>1, <1>2, <1>3, TouchesMore, KeepsMore
<1>5. d.cache = p.att
  BY <1>1, <1>2, <1>3 DEF Keeps, Touches, RadioTypes, PhyKeys
<1>6. p.fdd => d.mode = p.mode
  BY <1>1, <1>2, <1>3 DEF Keeps, Touches, RadioTypes, PhyKeys
<1> QED BY <1>4, <1>5, <1>6 DEF d, m

\* So a tuning starts.
LEMMA StartTouches ==
  ASSUME NEW p, NEW flags, RadioTypes(p)
  PROVE  LET q == TuneStarts(p, flags)
         IN  /\ Touches(p, q) /\ Calm(q) = Calm(p) /\ q.cache = p.att
             /\ p.fdd => q.mode = p.mode
             /\ Sends(p) => Sends(q)
             /\ q.bbTune = p.bbTune /\ q.fir = p.fir
<1> DEFINE d == DisablePinctrl(Mute(p))
           q == Midscale(d, flags)
<1>1. /\ Touches(p, d) /\ Keeps(p, d, {"cache", "att", "mode"})
      /\ d.cache = p.att
      /\ p.fdd => d.mode = p.mode
  BY MutedTouches
<1> HIDE DEF d
<1>2. Keeps(d, q, {"io"})
  BY <1>1 DEF Midscale, Keeps, Touches, RadioTypes, PhyKeys
<1>3. TuneStarts(p, flags) = q
  BY DEF TuneStarts, q, d
<1> HIDE DEF q
<1>4. Touches(d, q) /\ q.cache = d.cache /\ q.mode = d.mode
  BY <1>1, <1>2, LightTouches DEF Touches, LightFields
<1>5. Touches(p, q)
  BY <1>1, <1>4, TouchesMore
<1>6. Keeps(p, q, {"cache", "att", "mode", "io"})
  BY <1>1, <1>2, KeepsMore
<1>7. /\ q.cfg1 = p.cfg1 /\ q.pinEn = p.pinEn /\ q.dev = p.dev /\ q.scratch = p.scratch
      /\ q.dsel = p.dsel /\ q.conv = p.conv /\ q.bbTune = p.bbTune /\ q.fir = p.fir
  BY <1>6 DEF Keeps, RadioTypes, PhyKeys
<1>8. Calm(q) = Calm(p)
  BY <1>7 DEF Calm
<1>9. Sends(p) => Sends(q)
  BY <1>7 DEF Sends
<1> QED BY <1>1, <1>3, <1>4, <1>5, <1>7, <1>8, <1>9

\* What a tuning brings back by itself.
Tuned(p, e) ==
  /\ Calm(e) /\ ~e.pinEn /\ e.cache = p.att
  /\ Wired(e) /\ e.loop = p.loop /\ e.bist = p.bist
  /\ p.fdd => e.mode = p.mode

\* After a run the loopback and the self test are the caller's.
LEMMA BroughtBack ==
  ASSUME NEW p, NEW x, Touches(p, x)
  PROVE  LET e == Bist(Loopback(x, p.loop).p, p.bist)
         IN  /\ Touches(p, e)
             /\ Sends(x) /\ p.loop \in 0 .. 2 =>
                  /\ Sends(e)
                  /\ Calm(x) /\ ~x.pinEn /\ x.cache = p.att /\ (p.fdd => x.mode = p.mode) => Tuned(p, e)
<1> DEFINE y == Loopback(x, p.loop).p
           e == Bist(y, p.bist)
<1>1. Touches(x, y) /\ Keeps(x, y, LightFields)
  BY LoopbackTouches DEF Touches
<1>2. Calm(y) = Calm(x) /\ y.pinEn = x.pinEn /\ y.cache = x.cache /\ y.mode = x.mode
  BY <1>1, LightTouches DEF Touches
<1>3. p.loop \in 0 .. 2 /\ Sends(x) => Wired(y) /\ y.loop = p.loop
  BY LoopbackWires DEF Sends, Touches, RadioTypes
<1> HIDE DEF y
<1>4. Keeps(y, e, {"bist"}) /\ e.bist = p.bist /\ Touches(y, e)
  BY <1>1, BistTouches DEF Touches
<1> HIDE DEF e
<1>5. Calm(e) = Calm(y) /\ e.pinEn = y.pinEn /\ e.cache = y.cache /\ e.mode = y.mode
  BY <1>1, <1>4, LightTouches DEF Touches, LightFields
<1>6. DOMAIN y = PhyKeys
  BY <1>1 DEF Touches, RadioTypes
<1>7. e.loop = y.loop /\ e.loopReg = y.loopReg /\ e.scratch = y.scratch /\ e.dsel = y.dsel /\ e.conv = y.conv
  BY <1>4, <1>6 DEF Keeps, PhyKeys
<1>8. Wired(y) => Wired(e) /\ Sends(e)
  BY <1>7 DEF Wired, Sends
<1>9. Touches(p, e)
  BY <1>1, <1>4, TouchesMore
<1> QED BY <1>2, <1>3, <1>4, <1>5, <1>7, <1>8, <1>9 DEF Tuned, e, y

\* A run of both halves leaves what its end can undo.
LEMMA RunEnds ==
  ASSUME NEW p, NEW flags, NEW o, NEW u, NEW w, NEW r1, NEW r, RadioTypes(p),
         Touches(RxStart(TuneStarts(p, flags)), u), r1 = TuneRx(u, flags, o), Touches(TxStart(r1.p), w),
         r = TuneRun(p, r1, TuneTx(r1.p, w, flags, o))
  PROVE  /\ Touches(p, r.p)
         /\ /\ Calm(p) /\ Wired(p)
            /\ Keeps(RxStart(TuneStarts(p, flags)), u, {"rate"}) /\ Keeps(TxStart(r1.p), w, {"rate"})
            => Tuned(p, r.p)
         /\ /\ Sends(p) /\ p.loop \in 0 .. 2
            /\ Keeps(RxStart(TuneStarts(p, flags)), u, {"rate"}) /\ Keeps(TxStart(r1.p), w, {"rate"})
            => Sends(r.p)
<1> DEFINE q == TuneStarts(p, flags)
           s == RxStart(q)
           l == TxBegins(r1.p)
           t == TxStart(r1.p)
           r2 == TuneTx(r1.p, w, flags, o)
           x == IF r1.ret = "0" THEN (IF p.skip = 0 THEN r2 ELSE Ok(r1.p)) ELSE r1
           e == Bist(Loopback(x.p, p.loop).p, p.bist)
           Mild == Keeps(s, u, {"rate"}) /\ Keeps(t, w, {"rate"})
<1>1. /\ Touches(p, q) /\ Calm(q) = Calm(p) /\ q.cache = p.att
      /\ p.fdd => q.mode = p.mode
      /\ Sends(p) => Sends(q)
  BY StartTouches
<1> HIDE DEF q
<1>2. /\ Touches(q, s) /\ Calm(s) = Calm(q) /\ s.cache = q.cache /\ s.mode = q.mode
      /\ Sends(q) => Sends(s)
  BY <1>1, RxStarts DEF Touches
<1> HIDE DEF s
<1>3. Touches(s, u)
  BY DEF s, q
<1>4. Keeps(s, u, {"rate"}) =>
        /\ Calm(u) = Calm(s) /\ u.cache = s.cache /\ u.mode = s.mode
        /\ Sends(s) => Sends(u)
  <2> SUFFICES ASSUME Keeps(s, u, {"rate"})
               PROVE  /\ Calm(u) = Calm(s) /\ u.cache = s.cache /\ u.mode = s.mode
                      /\ Sends(s) => Sends(u)
    OBVIOUS
  <2>1. Calm(u) = Calm(s) /\ u.cache = s.cache /\ u.mode = s.mode
    BY <1>2, LightTouches DEF Touches, LightFields
  <2>2. u.scratch = s.scratch /\ u.dsel = s.dsel /\ u.conv = s.conv
    BY <1>2 DEF Keeps, Touches, RadioTypes, PhyKeys
  <2> QED BY <2>1, <2>2 DEF Sends
<1>5. Half(u, r1) /\ r1.p.dsel = u.dsel
  BY <1>3, RxHalf DEF Touches
<1>6. /\ Touches(r1.p, t) /\ Calm(t) = Calm(r1.p) /\ t.cache = r1.p.cache /\ t.mode = r1.p.mode
      /\ Sends(r1.p) => Sends(l) /\ t.scratch = "dma" /\ t.conv = l.conv
  BY <1>5, TxStarts DEF Half, Touches
<1> HIDE DEF t
<1>7. Touches(t, w)
  BY DEF t
<1>8. Keeps(t, w, {"rate"}) =>
        Calm(w) = Calm(t) /\ w.cache = t.cache /\ w.mode = t.mode /\ w.scratch = t.scratch /\ w.conv = t.conv
  <2> SUFFICES ASSUME Keeps(t, w, {"rate"})
               PROVE  Calm(w) = Calm(t) /\ w.cache = t.cache /\ w.mode = t.mode /\ w.scratch = t.scratch
                      /\ w.conv = t.conv
    OBVIOUS
  <2>1. Calm(w) = Calm(t) /\ w.cache = t.cache /\ w.mode = t.mode
    BY <1>6, LightTouches DEF Touches, LightFields
  <2>2. w.scratch = t.scratch /\ w.conv = t.conv
    BY <1>6 DEF Keeps, Touches, RadioTypes, PhyKeys
  <2> QED BY <2>1, <2>2
<1>9. Half(w, r2) /\ r2.p.dsel = l.dsel
  BY <1>7, TxHalf DEF Touches
<1> HIDE DEF r2, l
<1>10. Touches(p, u)
  BY <1>1, <1>2, <1>3, TouchesMore
<1>11. Touches(p, r1.p)
  BY <1>10, <1>5, TouchesMore DEF Half
<1>12. Touches(p, r2.p)
  BY <1>11, <1>6, <1>7, <1>9, TouchesMore DEF Half
<1>13. Keeps(s, u, {"rate"}) =>
         /\ Calm(p) => Calm(r1.p) /\ ~r1.p.pinEn
         /\ Sends(p) => Sends(r1.p)
         /\ r1.p.cache = p.att /\ (p.fdd => r1.p.mode = p.mode)
  BY <1>1, <1>2, <1>4, <1>5 DEF Half, Sends
<1>14. Mild =>
         /\ Calm(p) => Calm(r2.p) /\ ~r2.p.pinEn
         /\ Sends(p) => Sends(r2.p)
         /\ r2.p.cache = p.att /\ (p.fdd => r2.p.mode = p.mode)
  BY <1>6, <1>8, <1>9, <1>13 DEF Half, Sends
<1> HIDE DEF Mild
<1>15. /\ Touches(p, x.p)
       /\ Mild => /\ Calm(p) => Calm(x.p) /\ ~x.p.pinEn
                  /\ Sends(p) => Sends(x.p)
                  /\ x.p.cache = p.att /\ (p.fdd => x.p.mode = p.mode)
  <2>1. x.p = r1.p \/ x.p = r2.p
    BY DEF Ok
  <2>2. Mild => Keeps(s, u, {"rate"})
    BY DEF Mild
  <2> QED BY <2>1, <2>2, <1>11, <1>12, <1>13, <1>14
<1>16. DOMAIN x = {"p", "ret"}
  BY <1>5, <1>9 DEF Half, Ok
<1>17. r.p = e
  BY <1>16 DEF TuneRun, r2
<1> HIDE DEF x
<1>18. /\ Touches(p, e)
       /\ Sends(x.p) /\ p.loop \in 0 .. 2 =>
            /\ Sends(e)
            /\ Calm(x.p) /\ ~x.p.pinEn /\ x.p.cache = p.att /\ (p.fdd => x.p.mode = p.mode) => Tuned(p, e)
  BY <1>15, BroughtBack
<1> HIDE DEF e
<1>19. Wired(p) => Sends(p) /\ p.loop \in 0 .. 2
  BY DEF Wired, Sends
<1>20. Calm(p) /\ Wired(p) /\ Mild => Tuned(p, e)
  BY <1>15, <1>18, <1>19
<1>21. Sends(p) /\ p.loop \in 0 .. 2 /\ Mild => Sends(e)
  BY <1>15, <1>18
<1> QED BY <1>17, <1>18, <1>20, <1>21 DEF Mild, s, t, q

\* A radio that may be tuned comes back as it was.
Tunable(p, a) == AsAsked(p, a) /\ ~Unrestorable(p) /\ "PIN" \notin p.cfg1

\* ad9361_tx_mute takes the attenuation from its cache.
LEMMA UnmuteTouches ==
  ASSUME NEW p, RadioTypes(p)
  PROVE  Touches(p, Unmute(p)) /\ Keeps(p, Unmute(p), {"att"}) /\ Unmute(p).att = p.cache
<1> DEFINE q == Unmute(p)
<1>1. Keeps(p, q, {"att"}) /\ q.att = p.cache
  BY DEF Unmute, Keeps, RadioTypes, PhyKeys
<1> HIDE DEF q
<1>2. EnsmTypes(q)
  BY <1>1, RadioHasEnsm, SameEnsm DEF EnsmKeys
<1>3. /\ q.fir = p.fir /\ q.bbTune = p.bbTune /\ q.managed = p.managed /\ q.conv = p.conv
      /\ q.txPd = p.txPd /\ q.txPdReg = p.txPdReg /\ q.track = p.track /\ q.want = p.want
      /\ q.bw = p.bw /\ q.cache = p.cache /\ q.step = p.step /\ q.stepReg = p.stepReg
  BY <1>1 DEF Keeps, RadioTypes, PhyKeys
<1>4. RadioRest(q)
  BY <1>1, <1>3 DEF RadioTypes, RadioRest
<1>5. DOMAIN q = PhyKeys /\ Keeps(p, q, TuneFields)
  BY <1>1 DEF Keeps, RadioTypes, TuneFields
<1> QED BY <1>1, <1>2, <1>4, <1>5 DEF Touches, RadioTypes, q

\* The end of ad9361_dig_tune undoes what the run did, or had nothing to undo.
LEMMA TuneEndsTouches ==
  ASSUME NEW p, NEW r, NEW a, NEW skip \in BOOLEAN, NEW maxFreq, NEW flags, RadioTypes(p), Touches(p, r.p)
  PROVE  LET z == TuneEnds(r, p, skip, maxFreq, flags).p
         IN  /\ Touches(p, z)
             /\ Tunable(p, a) /\ (IF skip THEN r.p = p ELSE Tuned(p, r.p)) => Tunable(z, a)
             /\ Sends(r.p) => Sends(z)
<1> DEFINE e == r.p
           f == ForceState(e, "ALERT")
           q == IF skip \/ r.ret = "-EIO" THEN [f EXCEPT !.dly = p.pdDly]
                ELSE IF "NOSTORE" \in flags THEN e ELSE [e EXCEPT !.pdDly = e.dly]
           m == RestorePinctrl(q)
           s == RestoreState(m, p.dev)
           z == IF skip THEN s ELSE Unmute(s)
           F == {"cfg1", "dev", "prev", "pinEn", "dly", "pdDly"}
<1> HIDE DEF e
<1>0. RadioTypes(e) /\ Touches(p, e)
  BY DEF Touches, e
<1>1. /\ Touches(e, f)
      /\ Keeps(e, f, {"cfg1", "dev", "prev", "pinEn"})
      /\ Calm(e) => "PIN" \notin f.cfg1 /\ f.pinEn = FALSE
  BY <1>0, ForceTouches
<1> HIDE DEF f
<1>2. /\ Touches(e, q) /\ Keeps(e, q, F)
      /\ Calm(e) /\ (skip \/ ~e.pinEn) => "PIN" \notin q.cfg1 /\ ~q.pinEn
  <2>1. CASE skip \/ r.ret = "-EIO"
    <3> DEFINE g == [f EXCEPT !.dly = p.pdDly]
    <3>1. q = g
      BY <2>1
    <3>2. Keeps(f, g, {"dly"})
      BY <1>1 DEF Keeps, Touches, RadioTypes, PhyKeys
    <3> HIDE DEF g, q
    <3>3. Touches(f, g) /\ g.cfg1 = f.cfg1 /\ g.pinEn = f.pinEn
      BY <1>1, <3>2, LightTouches DEF Touches, LightFields
    <3>4. Touches(e, g)
      BY <1>1, <3>3, TouchesMore
    <3>5. Keeps(e, g, F)
      BY <1>1, <3>2, KeepsMore
    <3> QED BY <3>1, <3>3, <3>4, <3>5, <1>1
  <2>2. CASE ~(skip \/ r.ret = "-EIO") /\ "NOSTORE" \in flags
    <3>1. q = e
      BY <2>2
    <3>2. Keeps(e, e, F)
      BY DEF Keeps
    <3> QED BY <2>2, <3>1, <3>2, <1>0, TouchesSelf DEF Calm
  <2>3. CASE ~(skip \/ r.ret = "-EIO") /\ "NOSTORE" \notin flags
    <3> DEFINE g == [e EXCEPT !.pdDly = e.dly]
    <3>1. q = g
      BY <2>3
    <3>2. Keeps(e, g, {"pdDly"}) /\ Keeps(e, g, F)
      BY <1>0 DEF Keeps, RadioTypes, PhyKeys
    <3> HIDE DEF g, q
    <3>3. Touches(e, g) /\ g.cfg1 = e.cfg1 /\ g.pinEn = e.pinEn
      BY <1>0, <3>2, LightTouches DEF LightFields
    <3> QED BY <2>3, <3>1, <3>2, <3>3 DEF Calm
  <2> QED BY <2>1, <2>2, <2>3
<1> HIDE DEF q
<1>3. q.fdd = p.fdd /\ q.clocks = p.clocks /\ q.curr = p.curr
  BY <1>0, <1>2 DEF Keeps, Touches, TuneFields, LightFields, RadioTypes, PhyKeys
<1>4. p.fdd \in BOOLEAN /\ q.pinCtrl \in BOOLEAN
  BY <1>2 DEF Touches, RadioTypes, EnsmTypes
<1>5. /\ Touches(q, m) /\ Keeps(q, m, {"mode"})
      /\ ~p.fdd => m.mode.fdd = FALSE
      /\ p.fdd => m.mode = q.mode
  <2>1. CASE q.fdd
    <3>1. m = q
      BY <2>1 DEF RestorePinctrl
    <3>2. Keeps(q, q, {"mode"})
      BY DEF Keeps
    <3> QED BY <1>2, <1>3, <1>4, <2>1, <3>1, <3>2, TouchesSelf DEF Touches
  <2>2. CASE ~q.fdd
    <3>1. m = SetEnsmMode(q, FALSE, q.pinCtrl)
      BY <2>2 DEF RestorePinctrl
    <3> HIDE DEF m
    <3>2. Touches(q, m) /\ Keeps(q, m, {"mode"}) /\ m.mode.fdd = FALSE
      <4> DEFINE no == FALSE
                 pin == q.pinCtrl
      <4>1. no \in BOOLEAN /\ pin \in BOOLEAN
        BY <1>4
      <4>2. m = SetEnsmMode(q, no, pin)
        BY <3>1
      <4> HIDE DEF no, pin
      <4>3. Touches(q, m) /\ Keeps(q, m, {"mode"}) /\ m.mode.fdd = no
        BY <1>2, <4>1, <4>2, ModeTouches DEF Touches
      <4> QED BY <4>3 DEF no
    <3> QED BY <2>2, <1>3, <3>2
  <2> QED BY <2>1, <2>2
<1> HIDE DEF m
<1>6. /\ Touches(m, s) /\ Keeps(m, s, {"cfg1", "dev"})
      /\ p.dev \in Listed /\ m.clocks /\ (p.dev \in {"TX", "RX"} => ~m.mode.fdd) /\ (p.dev = "FDD" => m.mode.fdd)
                => /\ s.dev = p.dev
                   /\ ("PIN" \in s.cfg1 <=> "PIN" \in m.cfg1 \/ m.pinEn)
  BY <1>5, RestoreTouches, RestoreStateDoes, RadioHasEnsm DEF Touches
<1> HIDE DEF s
<1>7. Touches(p, s)
  BY <1>0, <1>2, <1>5, <1>6, TouchesMore
<1>8. Touches(s, Unmute(s)) /\ Keeps(s, Unmute(s), {"att"}) /\ Unmute(s).att = s.cache
  BY <1>7, UnmuteTouches DEF Touches
<1>9. Touches(p, z)
  BY <1>7, <1>8, TouchesMore
<1>10. Keeps(s, z, {"att"}) /\ z.att = (IF skip THEN s.att ELSE s.cache)
  <2>1. Keeps(s, s, {"att"})
    BY DEF Keeps
  <2> QED BY <1>8, <2>1
<1>11. TuneEnds(r, p, skip, maxFreq, flags).p = z
  BY DEF TuneEnds, z, s, m, q, f, e
<1> HIDE DEF z
<1>13. Sends(e) => Sends(z)
  <2>1. Keeps(q, s, {"mode", "cfg1", "dev"})
    BY <1>5, <1>6, KeepsMore
  <2>2. Keeps(q, z, {"mode", "cfg1", "dev", "att"})
    BY <2>1, <1>10, KeepsMore
  <2>3. Keeps(e, z, F \cup {"mode", "att"})
    BY <1>2, <2>2, KeepsMore
  <2>4. z.scratch = e.scratch /\ z.dsel = e.dsel /\ z.conv = e.conv
    BY <1>0, <2>3 DEF Keeps, RadioTypes, PhyKeys
  <2> QED BY <2>4 DEF Sends
<1>12. ASSUME Tunable(p, a), IF skip THEN e = p ELSE Tuned(p, e)
       PROVE  Tunable(z, a)
  <2>1. p.dev \in Listed /\ p.clocks
    BY <1>12 DEF Tunable, AsAsked, Fits, Unrestorable, RadioTypes, EnsmTypes, DevStates, Listed
  <2>2. Calm(p)
    BY <1>12 DEF Tunable, Unrestorable, Calm
  <2>3. Calm(e) /\ (skip \/ ~e.pinEn) /\ (p.fdd => e.mode = p.mode)
    BY <1>12, <2>2 DEF Tuned
  <2>4. Keeps(q, s, {"mode", "cfg1", "dev"})
    BY <1>5, <1>6, KeepsMore
  <2>5. Keeps(q, z, {"mode", "cfg1", "dev", "att"})
    BY <2>4, <1>10, KeepsMore
  <2>6. DOMAIN q = PhyKeys /\ DOMAIN m = PhyKeys /\ DOMAIN s = PhyKeys /\ DOMAIN e = PhyKeys
    BY <1>0, <1>2, <1>5, <1>6 DEF Touches, RadioTypes
  <2>7. m.pinEn = q.pinEn /\ m.cfg1 = q.cfg1 /\ m.clocks = p.clocks
    BY <1>3, <1>5, <2>6 DEF Keeps, PhyKeys
  <2>8. m.mode.fdd = p.fdd
    <3>1. p.mode.fdd = p.fdd
      BY <1>12 DEF Tunable, AsAsked, Fits
    <3>2. q.mode = e.mode
      BY <1>2, <2>6 DEF Keeps, PhyKeys
    <3> QED BY <1>4, <1>5, <2>3, <3>1, <3>2
  <2>9. /\ s.dev = p.dev /\ "PIN" \notin s.cfg1
    <3>1. p.mode.fdd = p.fdd /\ (p.dev \in {"TX", "RX"} => ~p.mode.fdd) /\ (p.dev = "FDD" => p.mode.fdd)
      BY <1>12 DEF Tunable, AsAsked, Fits
    <3> QED BY <1>2, <1>6, <2>1, <2>3, <2>7, <2>8, <3>1
  <2>10. /\ z.dev = p.dev /\ z.cfg1 = s.cfg1 /\ z.clocks = p.clocks /\ z.curr = p.curr /\ z.fdd = p.fdd
         /\ z.mode = m.mode /\ z.pinEn = q.pinEn
    <3>1. z.dev = s.dev /\ z.cfg1 = s.cfg1 /\ z.mode = s.mode /\ s.mode = m.mode
      BY <1>6, <1>10, <2>6 DEF Keeps, PhyKeys
    <3>2. z.clocks = q.clocks /\ z.curr = q.curr /\ z.fdd = q.fdd /\ z.pinEn = q.pinEn
      BY <2>5, <2>6 DEF Keeps, PhyKeys
    <3> QED BY <1>3, <2>9, <3>1, <3>2
  <2>11. Fits(z)
    BY <1>12, <2>8, <2>10 DEF Tunable, AsAsked, Fits
  <2>12. Ens(z, a)
    BY <1>12, <2>9, <2>10 DEF Tunable, AsAsked, Ens
  <2>13. Keeps(e, z, F \cup {"mode", "att"})
    BY <1>2, <2>5, KeepsMore
  <2>14. /\ z.loop = e.loop /\ z.loopReg = e.loopReg /\ z.scratch = e.scratch /\ z.dsel = e.dsel
         /\ z.conv = e.conv /\ z.bist = e.bist
    BY <2>6, <2>13 DEF Keeps, PhyKeys
  <2>15. Wired(e) /\ e.loop = p.loop /\ e.bist = p.bist
    BY <1>12 DEF Tunable, AsAsked, Tuned
  <2>16. Wired(z)
    BY <2>14, <2>15 DEF Wired
  <2>17. z.att = p.att
    <3>1. s.att = e.att /\ s.cache = e.cache
      <4>1. q.att = e.att /\ q.cache = e.cache
        BY <1>2, <2>6 DEF Keeps, PhyKeys
      <4> QED BY <4>1, <2>4, <2>6 DEF Keeps, PhyKeys
    <3>2. IF skip THEN e.att = p.att ELSE e.cache = p.att
      BY <1>12 DEF Tuned
    <3> QED BY <1>10, <3>1, <3>2
  <2>18. /\ z.filt = p.filt /\ z.bw = p.bw /\ z.txPd = p.txPd /\ z.txPdReg = p.txPdReg
         /\ z.step = p.step /\ z.stepReg = p.stepReg /\ z.track = p.track /\ z.want = p.want
    BY <1>9 DEF Touches, Keeps, TuneFields, LightFields, RadioTypes, PhyKeys
  <2>19. Kept(z, a) /\ z.track = z.want
    BY <1>12, <2>14, <2>15, <2>17, <2>18 DEF Tunable, AsAsked, Kept
  <2>20. ~q.pinEn
    BY <1>2, <2>3
  <2>21. ~Unrestorable(z)
    BY <2>1, <2>10, <2>20 DEF Unrestorable, Listed, ActiveStates
  <2>22. "PIN" \notin z.cfg1
    BY <2>9, <2>10
  <2> QED BY <2>11, <2>12, <2>16, <2>19, <2>21, <2>22 DEF Tunable, AsAsked
<1> QED BY <1>9, <1>11, <1>12, <1>13 DEF e

\* ad9361_dig_tune at the rate that is set, whatever came before; and at all rates.
LEMMA TuneHereTouches ==
  ASSUME NEW p, NEW a, NEW maxFreq, NEW flags, NEW o, RadioTypes(p)
  PROVE  LET z == TuneAt(p, RunAtRate(p, flags, o), maxFreq, flags).p
         IN  /\ Touches(p, z) /\ (Tunable(p, a) => Tunable(z, a))
             /\ Sends(p) /\ p.loop \in 0 .. 2 => Sends(z)
<1> DEFINE s == RxStart(TuneStarts(p, flags))
           r1 == TuneRx(s, flags, o)
           t == TxStart(r1.p)
           r == RunAtRate(p, flags, o)
           skip == Skipped(p, flags)
           y == IF skip THEN Ok(p) ELSE r
<1>1. RadioTypes(s)
  BY StartTouches, RxStarts DEF Touches
<1>2. RadioTypes(t)
  BY <1>1, RxHalf, TxStarts DEF Half, Touches
<1>3. r = TuneRun(p, r1, TuneTx(r1.p, t, flags, o))
  BY DEF RunAtRate
<1>4. Touches(s, s) /\ Keeps(s, s, {"rate"}) /\ Touches(t, t) /\ Keeps(t, t, {"rate"})
  BY <1>1, <1>2, TouchesSelf DEF Keeps
<1> HIDE DEF r
<1>5. /\ Touches(p, r.p) /\ (Calm(p) /\ Wired(p) => Tuned(p, r.p))
      /\ Sends(p) /\ p.loop \in 0 .. 2 => Sends(r.p)
  <2> DEFINE w == t
  <2>1. Touches(t, w) /\ Keeps(t, w, {"rate"}) /\ r = TuneRun(p, r1, TuneTx(r1.p, w, flags, o))
    BY <1>3, <1>4
  <2> HIDE DEF w
  <2> DEFINE u == s
  <2>2. Touches(s, u) /\ Keeps(s, u, {"rate"}) /\ r1 = TuneRx(u, flags, o)
    BY <1>4
  <2> HIDE DEF u, r1
  <2> QED BY <2>1, <2>2, RunEnds DEF s, t
<1>6. Tunable(p, a) => Calm(p) /\ Wired(p)
  BY DEF Tunable, AsAsked, Unrestorable, Calm
<1>7. skip \in BOOLEAN
  BY DEF Skipped
<1> HIDE DEF skip
<1>8. /\ Touches(p, y.p) /\ (Tunable(p, a) => IF skip THEN y.p = p ELSE Tuned(p, y.p))
      /\ Sends(p) /\ p.loop \in 0 .. 2 => Sends(y.p)
  BY <1>5, <1>6, TouchesSelf DEF Ok
<1>9. TuneAt(p, RunAtRate(p, flags, o), maxFreq, flags) =
        IF p.conv # "core" THEN Err(p, "-ENODEV") ELSE TuneEnds(y, p, skip, maxFreq, flags)
  BY DEF TuneAt, skip, r
<1> HIDE DEF y
<1> DEFINE z == TuneEnds(y, p, skip, maxFreq, flags).p
<1>10. /\ Touches(p, z) /\ (Tunable(p, a) => Tunable(z, a))
       /\ Sends(p) /\ p.loop \in 0 .. 2 => Sends(z)
  BY <1>7, <1>8, TuneEndsTouches
<1> QED BY <1>9, <1>10, TouchesSelf DEF Err

\* The tuning at the end of ad9361_set_trx_clock_chain.
LEMMA ChainTouches ==
  ASSUME NEW p, NEW a, NEW o, RadioTypes(p)
  PROVE  LET z == ChainTune(p, o).p
         IN  /\ Touches(p, z) /\ (Tunable(p, a) => Tunable(z, a)) /\ (~p.bbTune => z = p)
             /\ Sends(p) /\ p.loop \in 0 .. 2 => Sends(z)
<1>1. p.fir = FALSE
  BY DEF RadioTypes, RadioRest
<1>2. CASE p.conv # "null" /\ p.bbTune
  <2> DEFINE flags == IF p.bbTune THEN {} ELSE {"NOSTORE"}
             mf == FALSE
  <2>1. ChainTune(p, o) = TuneAt(p, RunAtRate(p, flags, o), mf, flags)
    BY <1>2 DEF ChainTune
  <2> HIDE DEF flags, mf
  <2> QED BY <1>2, <2>1, TuneHereTouches
<1>3. CASE ~(p.conv # "null" /\ p.bbTune)
  <2>1. ChainTune(p, o).p = p
    BY <1>1, <1>3 DEF ChainTune, Ok
  <2> QED BY <2>1, TouchesSelf
<1> QED BY <1>2, <1>3

\* Setting the rates of a tuning touches no more than a tuning does.
LEMMA AllRatesTouch ==
  ASSUME NEW p, NEW o, RadioTypes(p)
  PROVE  LET z == AllRates(p, o)
         IN  Touches(p, z) /\ (~p.bbTune => Keeps(p, z, {"rate"}))
<1> DEFINE c == ChainTune(p, o).p
           z == [c EXCEPT !.rate = "61.44M"]
<1>1. Touches(p, c) /\ (~p.bbTune => c = p)
  BY ChainTouches
<1> HIDE DEF c
<1>2. Keeps(c, z, {"rate"})
  BY <1>1 DEF Keeps, Touches, RadioTypes, PhyKeys
<1> HIDE DEF z
<1>3. Touches(c, z)
  BY <1>1, <1>2, LightTouches DEF Touches, LightFields
<1>4. Touches(p, z)
  BY <1>1, <1>3, TouchesMore
<1> QED BY <1>1, <1>2, <1>4 DEF AllRates, z, c

\* A tuning over all rates gives the radio back, unless one tunes inside it.
LEMMA TuneAllTouches ==
  ASSUME NEW p, NEW a, NEW flags, NEW o, RadioTypes(p)
  PROVE  LET z == DigTune(p, TRUE, flags, o).p
         IN  Touches(p, z) /\ (Tunable(p, a) /\ (~p.bbTune \/ p.skip = 2) => Tunable(z, a))
<1> DEFINE q == TuneStarts(p, flags)
           s == RxStart(q)
           u == AllRates(s, o)
           r1 == TuneRx(u, flags, o)
           t == TxStart(r1.p)
           w == AllRates(t, o)
           r == RunAtRates(p, flags, o)
           skip == Skipped(p, flags)
           y == IF skip THEN Ok(p) ELSE r
<1>1. RadioTypes(q) /\ q.bbTune = p.bbTune
  BY StartTouches DEF Touches
<1>2. RadioTypes(s) /\ s.bbTune = q.bbTune
  BY <1>1, RxStarts DEF Touches, Keeps, LightFields, RadioTypes, PhyKeys
<1>3. Touches(s, u) /\ (~s.bbTune => Keeps(s, u, {"rate"}))
  BY <1>2, AllRatesTouch
<1>4. u.bbTune = s.bbTune
  BY <1>2, <1>3 DEF Touches, Keeps, TuneFields, LightFields, RadioTypes, PhyKeys
<1>5. Half(u, r1)
  BY <1>3, RxHalf DEF Touches
<1>6. RadioTypes(t) /\ t.bbTune = u.bbTune
  <2>1. Touches(u, r1.p)
    BY <1>5 DEF Half
  <2>2. r1.p.bbTune = u.bbTune
    BY <1>3, <2>1 DEF Touches, Keeps, TuneFields, LightFields, RadioTypes, PhyKeys
  <2>3. Touches(r1.p, t)
    BY <2>1, TxStarts DEF Touches
  <2>4. t.bbTune = r1.p.bbTune
    BY <2>1, <2>3 DEF Touches, Keeps, TuneFields, LightFields, RadioTypes, PhyKeys
  <2> QED BY <2>2, <2>3, <2>4 DEF Touches
<1>7. Touches(t, w) /\ (~t.bbTune => Keeps(t, w, {"rate"}))
  BY <1>6, AllRatesTouch
<1>8. r = TuneRun(p, r1, TuneTx(r1.p, w, flags, o))
  BY DEF RunAtRates
<1> HIDE DEF r
<1>9. Touches(p, r.p) /\ (Calm(p) /\ Wired(p) /\ ~p.bbTune => Tuned(p, r.p))
  <2>1. Touches(RxStart(TuneStarts(p, flags)), u) /\ r1 = TuneRx(u, flags, o) /\ Touches(TxStart(r1.p), w)
    BY <1>3, <1>7
  <2>2. ~p.bbTune => Keeps(RxStart(TuneStarts(p, flags)), u, {"rate"}) /\ Keeps(TxStart(r1.p), w, {"rate"})
    BY <1>1, <1>2, <1>3, <1>4, <1>6, <1>7
  <2> HIDE DEF w, r1, u
  <2> QED BY <1>8, <2>1, <2>2, RunEnds
<1>10. Tunable(p, a) => Calm(p) /\ Wired(p)
  BY DEF Tunable, AsAsked, Unrestorable, Calm
<1>11. skip \in BOOLEAN /\ (p.skip = 2 => skip)
  BY DEF Skipped
<1> HIDE DEF skip
<1>12. /\ Touches(p, y.p)
       /\ Tunable(p, a) /\ (~p.bbTune \/ p.skip = 2) => IF skip THEN y.p = p ELSE Tuned(p, y.p)
  BY <1>9, <1>10, <1>11, TouchesSelf DEF Ok
<1> DEFINE mf == TRUE
           d == DigTune(p, TRUE, flags, o)
           z == TuneEnds(y, p, skip, mf, flags).p
<1>13. d = IF p.conv # "core" THEN Err(p, "-ENODEV") ELSE TuneEnds(y, p, skip, mf, flags)
  BY DigTuneAll DEF skip, r
<1> HIDE DEF y, mf, d
<1>14. Touches(p, z) /\ (Tunable(p, a) /\ (~p.bbTune \/ p.skip = 2) => Tunable(z, a))
  BY <1>11, <1>12, TuneEndsTouches
<1>15. d.p = p \/ d.p = z
  BY <1>13 DEF Err
<1> HIDE DEF z
<1>16. /\ Touches(p, d.p)
       /\ Tunable(p, a) /\ (~p.bbTune \/ p.skip = 2) => Tunable(d.p, a)
  BY <1>14, <1>15, TouchesSelf
<1> QED BY <1>16 DEF d

\* ad9361_dig_tune, whatever it is asked for.
LEMMA DigTuneTouches ==
  ASSUME NEW p, NEW a, NEW maxFreq \in BOOLEAN, NEW flags, NEW o, RadioTypes(p)
  PROVE  LET z == DigTune(p, maxFreq, flags, o).p
         IN  Touches(p, z) /\ (Tunable(p, a) /\ ~(maxFreq /\ p.bbTune /\ p.skip # 2) => Tunable(z, a))
<1>1. CASE maxFreq = TRUE
  <2>1. DigTune(p, maxFreq, flags, o) = DigTune(p, TRUE, flags, o)
    BY <1>1
  <2> QED BY <1>1, <2>1, TuneAllTouches
<1>2. CASE maxFreq = FALSE
  <2> DEFINE mf == FALSE
  <2>1. DigTune(p, maxFreq, flags, o) = TuneAt(p, RunAtRate(p, flags, o), mf, flags)
    BY <1>2 DEF DigTune
  <2> HIDE DEF mf
  <2> QED BY <1>2, <2>1, TuneHereTouches
<1> QED BY <1>1, <1>2

\* The timing analysis of the debugfs file, a tuning that chooses nothing.
LEMMA AnalysisTouches ==
  ASSUME NEW p, NEW a, RadioTypes(p)
  PROVE  LET z == TimingAnalysis(p)
         IN  Touches(p, z) /\ (Tunable(p, a) => Tunable(z, a))
<1> DEFINE d == DisablePinctrl(Mute(p))
           q == RxStart(d)
           i == IntfDelay(q, "rx", 0, TRUE)
           f == ForceState(i, "ALERT")
           g == [f EXCEPT !.dly.rx = p.dly.rx]
           b == Bist(Loopback(g, p.loop).p, p.bist)
           F == {"cfg1", "dev", "prev", "pinEn", "dly"}
<1>1. /\ Touches(p, d) /\ Keeps(p, d, {"cache", "att", "mode"})
      /\ d.cache = p.att
      /\ p.fdd => d.mode = p.mode
  BY MutedTouches
<1> HIDE DEF d
<1>2. /\ d.cfg1 = p.cfg1 /\ d.pinEn = p.pinEn /\ d.dev = p.dev /\ d.scratch = p.scratch
      /\ d.dsel = p.dsel /\ d.conv = p.conv
  BY <1>1 DEF Keeps, RadioTypes, PhyKeys
<1>3. (Calm(p) => Calm(d)) /\ (Sends(p) => Sends(d))
  BY <1>2 DEF Calm, Sends
<1>4. /\ Touches(d, q) /\ Keeps(d, q, LightFields)
      /\ Calm(q) = Calm(d) /\ q.cache = d.cache /\ q.mode = d.mode
      /\ Sends(d) => Sends(q)
  BY <1>1, RxStarts DEF Touches
<1> HIDE DEF q
<1>5. /\ Touches(q, i) /\ Keeps(q, i, F)
      /\ Calm(q) => Calm(i) /\ ~i.pinEn
  BY <1>4, IntfDelayTouches DEF Touches
<1> HIDE DEF i
<1>6. /\ Touches(i, f)
      /\ Keeps(i, f, {"cfg1", "dev", "prev", "pinEn"})
      /\ Calm(i) => "PIN" \notin f.cfg1 /\ f.pinEn = FALSE
  BY <1>5, ForceTouches DEF Touches
<1> HIDE DEF f
<1>7. Keeps(f, g, {"dly"})
  BY <1>6 DEF Keeps, Touches, RadioTypes, PhyKeys
<1> HIDE DEF g
<1>8. Touches(f, g) /\ g.cfg1 = f.cfg1 /\ g.pinEn = f.pinEn
  BY <1>6, <1>7, LightTouches DEF Touches, LightFields
<1>9. Touches(p, g)
  BY <1>1, <1>4, <1>5, <1>6, <1>8, TouchesMore
<1>10. Keeps(q, g, F)
  BY <1>5, <1>6, <1>7, KeepsMore
<1>11. g.cache = q.cache /\ g.mode = q.mode /\ g.scratch = q.scratch /\ g.dsel = q.dsel /\ g.conv = q.conv
  BY <1>4, <1>10 DEF Keeps, Touches, RadioTypes, PhyKeys
<1>12. /\ Calm(p) => Calm(g) /\ ~g.pinEn
       /\ Sends(p) => Sends(g)
       /\ g.cache = p.att /\ (p.fdd => g.mode = p.mode)
  BY <1>1, <1>3, <1>4, <1>5, <1>6, <1>8, <1>11 DEF Calm, Sends
<1>13. /\ Touches(p, b)
       /\ Sends(g) /\ p.loop \in 0 .. 2 =>
            (Calm(g) /\ ~g.pinEn /\ g.cache = p.att /\ (p.fdd => g.mode = p.mode) => Tuned(p, b))
  BY <1>9, BroughtBack
<1> HIDE DEF b
<1>14. Tunable(p, a) => Tuned(p, b)
  <2>1. Tunable(p, a) => Calm(p) /\ Sends(p) /\ p.loop \in 0 .. 2
    BY DEF Tunable, AsAsked, Unrestorable, Calm, Wired, Sends
  <2> QED BY <2>1, <1>12, <1>13
<1> DEFINE r == Ok(b)
           no == FALSE
           flags == {"NOSTORE"}
           z == TuneEnds(r, p, no, no, flags).p
<1>15. Unmute(RestoreState(RestorePinctrl(b), p.dev)) = z
  BY DEF TuneEnds, Ok
<1>16. r.p = b /\ no \in BOOLEAN /\ no = FALSE
  BY DEF Ok
<1> HIDE DEF r, no, flags
<1>17. Touches(p, z) /\ (Tunable(p, a) => Tunable(z, a))
  BY <1>13, <1>14, <1>16, TuneEndsTouches
<1>18. TimingAnalysis(p) = IF p.conv # "core" THEN p ELSE z
  BY <1>15 DEF TimingAnalysis, b, g, f, i, q, d, RxStart
<1> HIDE DEF z
<1> QED BY <1>17, <1>18, TouchesSelf

\* A force and its restore, of the whole radio.
LEMMA ForcedAsAsked ==
  ASSUME NEW p, NEW a, RadioTypes(p)
  PROVE  LET z == RestorePrev(ForceState(p, "ALERT"))
         IN  /\ RadioTypes(z)
             /\ Keeps(p, z, {"cfg1", "dev", "prev", "pinEn"})
             /\ (Wired(p) => Wired(z)) /\ (Kept(p, a) => Kept(z, a))
             /\ AsAsked(p, a) /\ ~Unrestorable(p) => AsAsked(z, a) /\ ~Unrestorable(z)
<1> DEFINE z == RestorePrev(ForceState(p, "ALERT"))
<1>1. /\ Keeps(p, z, {"cfg1", "dev", "prev", "pinEn"})
      /\ EnsmTypes(z)
      /\ Fits(p) /\ Ens(p, a) /\ ~Unrestorable(p) => Fits(z) /\ Ens(z, a) /\ ~Unrestorable(z)
  BY RadioHasEnsm, ForcedReturns
<1> HIDE DEF z
<1>2. RadioRest(z)
  BY <1>1, SameRest
<1>3. DOMAIN z = PhyKeys
  BY <1>1 DEF Keeps, RadioTypes
<1>4. (Wired(p) => Wired(z)) /\ (Kept(p, a) => Kept(z, a))
  BY <1>1, SameKept DEF RadioTypes
<1>5. z.track = p.track /\ z.want = p.want
  BY <1>1 DEF Keeps, RadioTypes, PhyKeys
<1>6. RadioTypes(z)
  BY <1>1, <1>2, <1>3 DEF RadioTypes
<1>7. AsAsked(p, a) /\ ~Unrestorable(p) => AsAsked(z, a) /\ ~Unrestorable(z)
  BY <1>1, <1>4, <1>5 DEF AsAsked
<1> QED BY <1>1, <1>4, <1>6, <1>7 DEF z

\* The skip mode and the rate are no part of it.
LEMMA SameTunable ==
  ASSUME NEW p, NEW q, NEW a, RadioTypes(p), Keeps(p, q, {"skip", "rate"})
  PROVE  /\ RadioTypes(q) /\ q.bbTune = p.bbTune
         /\ Tunable(p, a) => Tunable(q, a)
<1>1. RadioRest(q)
  BY SameRest
<1>2. /\ EnsmTypes(q)
      /\ Fits(p) => Fits(q)
      /\ Ens(p, a) => Ens(q, a)
      /\ Unrestorable(q) = Unrestorable(p)
  BY RadioHasEnsm, SameEnsm DEF EnsmKeys
<1>3. (Wired(p) => Wired(q)) /\ (Kept(p, a) => Kept(q, a))
  BY SameKept DEF RadioTypes
<1>4. q.track = p.track /\ q.want = p.want /\ q.cfg1 = p.cfg1 /\ q.bbTune = p.bbTune
  BY DEF Keeps, RadioTypes, PhyKeys
<1>5. DOMAIN q = PhyKeys
  BY DEF Keeps, RadioTypes
<1> QED BY <1>1, <1>2, <1>3, <1>4, <1>5 DEF RadioTypes, Tunable, AsAsked

\* The set-up of the converter core, whether or not it ends it.
LEMMA PostSetupGood ==
  ASSUME NEW p, NEW a, NEW o, RadioTypes(p), Tunable(p, a), a.loop = 0
  PROVE  LET z == PostSetup(p, o).p
         IN  RadioTypes(z) /\ AsAsked(z, a)
<1> DEFINE u == IF p.bbTune THEN [p EXCEPT !.skip = 2] ELSE p
           none == {}
           mf == TRUE
           d == DigTune(u, mf, none, o)
           v == IF p.bbTune THEN [d.p EXCEPT !.skip = IF p.skip # 0 THEN 1 ELSE 0] ELSE d.p
           c == ChainTune(v, o).p
           w == [c EXCEPT !.rate = "user"]
           e == RestorePrev(ForceState(w, "ALERT"))
           n == [d.p EXCEPT !.conv = "null"]
<1>0. DOMAIN p = PhyKeys
  BY DEF RadioTypes
<1>1. Keeps(p, u, {"skip", "rate"}) /\ (u.skip = 2 \/ ~p.bbTune)
  BY <1>0 DEF Keeps, PhyKeys
<1> HIDE DEF u
<1>2. RadioTypes(u) /\ Tunable(u, a) /\ u.bbTune = p.bbTune
  BY <1>1, SameTunable
<1>3. mf \in BOOLEAN
  OBVIOUS
<1> HIDE DEF mf, none
<1>4. Touches(u, d.p) /\ Tunable(d.p, a)
  BY <1>1, <1>2, <1>3, DigTuneTouches
<1>5. DOMAIN d = {"p", "ret"}
  BY DEF DigTune, TuneAt, TuneEnds, Err, mf
<1>6. PostSetup(p, o).p = IF d.ret = "0" THEN e ELSE n
  BY <1>5 DEF PostSetup, Then, Ok, u, mf, none
<1> HIDE DEF d
<1>7. RadioTypes(d.p)
  BY <1>4 DEF Touches
<1>8. Keeps(d.p, v, {"skip", "rate"})
  BY <1>7 DEF Keeps, RadioTypes, PhyKeys
<1> HIDE DEF v
<1>9. RadioTypes(v) /\ Tunable(v, a)
  BY <1>4, <1>7, <1>8, SameTunable
<1>10. Touches(v, c) /\ Tunable(c, a)
  BY <1>9, ChainTouches
<1> HIDE DEF c
<1>11. Keeps(c, w, {"skip", "rate"})
  BY <1>10 DEF Keeps, Touches, RadioTypes, PhyKeys
<1> HIDE DEF w
<1>12. RadioTypes(w) /\ Tunable(w, a)
  BY <1>10, <1>11, SameTunable DEF Touches
<1>13. RadioTypes(e) /\ AsAsked(e, a)
  BY <1>12, ForcedAsAsked DEF Tunable
<1> HIDE DEF e
<1>14. Keeps(d.p, n, {"conv"}) /\ n.conv = "null"
  BY <1>7 DEF Keeps, RadioTypes, PhyKeys
<1> HIDE DEF n
<1>15. /\ EnsmTypes(n)
       /\ Fits(d.p) => Fits(n)
       /\ Ens(d.p, a) => Ens(n, a)
  BY <1>7, <1>14, RadioHasEnsm, SameEnsm DEF EnsmKeys
<1>16. /\ n.fir = d.p.fir /\ n.bbTune = d.p.bbTune /\ n.managed = d.p.managed
       /\ n.txPd = d.p.txPd /\ n.txPdReg = d.p.txPdReg /\ n.track = d.p.track /\ n.want = d.p.want
       /\ n.bw = d.p.bw /\ n.att = d.p.att /\ n.cache = d.p.cache /\ n.step = d.p.step
       /\ n.stepReg = d.p.stepReg
       /\ n.filt = d.p.filt /\ n.bist = d.p.bist /\ n.loop = d.p.loop /\ n.loopReg = d.p.loopReg
       /\ n.scratch = d.p.scratch /\ n.dsel = d.p.dsel
  BY <1>7, <1>14 DEF Keeps, RadioTypes, PhyKeys
<1>17. RadioRest(n)
  BY <1>7, <1>14, <1>16 DEF RadioTypes, RadioRest
<1>18. RadioTypes(n)
  BY <1>7, <1>14, <1>15, <1>17 DEF RadioTypes, Keeps
<1>19. AsAsked(n, a)
  <2>1. Fits(n) /\ Ens(n, a) /\ n.track = n.want
    BY <1>4, <1>15, <1>16 DEF Tunable, AsAsked
  <2>2. Wired(d.p) /\ Kept(d.p, a)
    BY <1>4 DEF Tunable, AsAsked
  <2>3. Kept(n, a)
    BY <2>2, <1>16 DEF Kept
  <2>4. Wired(n)
    BY <2>2, <1>14, <1>16 DEF Kept, Wired
  <2> QED BY <2>1, <2>3, <2>4 DEF AsAsked
<1> QED BY <1>6, <1>13, <1>18, <1>19

\* What set-up leaves is well-formed, and as user space is told it is.
LEMMA ReadyGood ==
  ASSUME NEW b, NEW a, b.fdd \in BOOLEAN, b.bbTune \in BOOLEAN, b.managed \in BOOLEAN,
         b.conv \in {"core", "stub", "null"}, b.fir \in BOOLEAN, ~b.fir,
         a.dev = Ready(b).dev, ~a.pin, a.pin \in BOOLEAN, a.att = Ready(b).att, a.loop = 0, a.bist = BistOff
  PROVE  RadioTypes(Ready(b)) /\ Tunable(Ready(b), a)
<1> DEFINE p == Ready(b)
<1>1. DOMAIN p = PhyKeys
  BY DEF Ready, PhyKeys
<1>2. /\ p.fdd = b.fdd /\ p.indep = FALSE /\ p.pinCtrl = FALSE /\ p.pinEn = FALSE /\ p.clocks = TRUE
      /\ p.mode = [fdd |-> b.fdd, indep |-> FALSE, pin |-> FALSE] /\ p.prev = "INVALID"
      /\ p.dev = (IF b.fdd THEN "FDD" ELSE "RX") /\ p.curr = p.dev
      /\ p.cfg1 = {"TO", IF b.fdd THEN "TX" ELSE "RX"}
  BY DEF Ready
<1>3. /\ p.fir = FALSE /\ p.bbTune = b.bbTune /\ p.managed = b.managed /\ p.conv = b.conv
      /\ p.txPd = FALSE /\ p.txPdReg = FALSE /\ p.track = {"bb", "rf", "quad"} /\ p.want = p.track
      /\ p.bw = [rx |-> 16, tx |-> 16] /\ p.filt = p.bw
      /\ p.att = <<80, 80>> /\ p.cache = <<0, 0>> /\ p.step = NoStep /\ p.stepReg = p.step
      /\ p.loop = 0 /\ p.loopReg = FALSE /\ p.bist = BistOff /\ p.dsel = "dma" /\ p.scratch = "dma"
  BY DEF Ready
<1> HIDE DEF p
<1>4. EnsmTypes(p)
  <2>1. p.mode \in [fdd : BOOLEAN, indep : BOOLEAN, pin : BOOLEAN]
    BY <1>2
  <2>2. p.cfg1 \subseteq {"TX", "RX", "ALERT", "TO", "PIN"}
    BY <1>2
  <2>3. p.dev \in DevStates /\ p.prev \in DevStates \cup {"INVALID"}
    BY <1>2 DEF DevStates, ActiveStates
  <2> QED BY <1>2, <2>1, <2>2, <2>3 DEF EnsmTypes
<1>5. RadioRest(p)
  <2>1. p.att \in [1 .. 2 -> 0 .. MaxAtten] /\ p.cache \in [1 .. 2 -> 0 .. MaxAtten]
    BY <1>3 DEF MaxAtten
  <2>2. p.step \in [words : Int, errs : Int] /\ p.stepReg \in [words : Int, errs : Int]
    BY <1>3 DEF NoStep
  <2>3. p.bw \in [rx : Int, tx : Int]
    BY <1>3
  <2>4. p.track \subseteq {"bb", "rf", "quad"} /\ p.want \subseteq {"bb", "rf", "quad"}
    BY <1>3
  <2> HIDE DEF p
  <2>5. p.fir = FALSE /\ p.bbTune \in BOOLEAN /\ p.managed \in BOOLEAN /\ p.txPd \in BOOLEAN /\ p.txPdReg \in BOOLEAN
        /\ p.conv \in {"core", "stub", "null"}
    BY <1>3
  <2> QED BY <2>1, <2>2, <2>3, <2>4, <2>5 DEF RadioRest
<1>6. Fits(p)
  BY <1>2 DEF Fits
<1>7. a.dev = p.dev /\ a.att = p.att
  BY DEF p
<1>8. Ens(p, a) /\ "PIN" \notin p.cfg1
  BY <1>2, <1>7 DEF Ens
<1>9. Wired(p) /\ Kept(p, a) /\ p.track = p.want
  <2>1. Wired(p)
    <3>1. p.loop # 1
      BY <1>3
    <3>2. (p.loop = 1) = FALSE
      BY <3>1, Zenon
    <3>3. p.loopReg = (p.loop = 1)
      BY <1>3, <3>2, Zenon
    <3> QED BY <1>3, <3>3 DEF Wired
  <2>2. Kept(p, a)
    <3> HIDE DEF p
    <3> QED BY <1>3, <1>7 DEF Kept
  <2> QED BY <1>3, <2>1, <2>2
<1>10. ~Unrestorable(p)
  BY <1>2 DEF Unrestorable
<1> QED BY <1>1, <1>4, <1>5, <1>6, <1>8, <1>9, <1>10 DEF p, RadioTypes, Tunable, AsAsked

\* Probe, with the set-up of a converter core or without, establishes the invariant.
LEMMA RadioStarts == RadioInit => RadioInv
<1> SUFFICES ASSUME RadioInit PROVE RadioInv
  OBVIOUS
<1>1. PICK b \in Boards, o \in TuneAnswers :
        /\ phy = IF b.conv = "core" THEN PostSetup(Ready(b), o).p ELSE Ready(b)
        /\ ask = [dev |-> Ready(b).dev, pin |-> FALSE, att |-> Ready(b).att, loop |-> 0, bist |-> BistOff]
  BY DEF RadioInit
<1>2. /\ ask.dev = Ready(b).dev /\ ask.pin = FALSE /\ ask.att = Ready(b).att /\ ask.loop = 0
      /\ ask.bist = BistOff
  <2> DEFINE d == Ready(b).dev
             t == Ready(b).att
  <2>1. ask = [dev |-> d, pin |-> FALSE, att |-> t, loop |-> 0, bist |-> BistOff]
    BY <1>1
  <2> HIDE DEF d, t
  <2>2. ask.dev = d /\ ask.pin = FALSE /\ ask.att = t /\ ask.loop = 0 /\ ask.bist = BistOff
    BY <2>1
  <2> QED BY <2>2 DEF d, t
<1>3. RadioTypes(Ready(b)) /\ Tunable(Ready(b), ask)
  <2>1. /\ b.fdd \in BOOLEAN /\ b.bbTune \in BOOLEAN /\ b.managed \in BOOLEAN
        /\ b.conv \in {"core", "stub", "null"} /\ b.fir \in BOOLEAN /\ ~b.fir
    BY BoardsAssumption
  <2>2. ~ask.pin /\ ask.pin \in BOOLEAN
    BY <1>2
  <2> QED BY <1>2, <2>1, <2>2, ReadyGood
<1>4. RadioTypes(phy) /\ AsAsked(phy, ask)
  BY <1>1, <1>2, <1>3, PostSetupGood DEF Tunable
<1>5. DOMAIN ask = AskKeys
  BY <1>1 DEF AskKeys
<1> QED BY <1>4, <1>5 DEF RadioInit, RadioInv, Stands, Waits

\* A new set-up of the chip: the radio is as user space is told, unless the FPGA still
\* loops what it sends.
LEMMA ReinitGood ==
  ASSUME NEW p, NEW o, NEW a, RadioTypes(p),
         a.dev = Reinit(p, o).dev, ~a.pin, a.pin \in BOOLEAN, a.att = Reinit(p, o).att, a.loop = 0,
         a.bist = BistOff
  PROVE  LET z == Reinit(p, o)
         IN  RadioTypes(z) /\ (Wired(p) /\ z.dsel # "loop" => AsAsked(z, a))
<1> DEFINE b == [p EXCEPT !.fir = FALSE]
           r == Ready(b)
           kept == [r EXCEPT !.indep = p.indep, !.io = p.io, !.dsel = p.dsel, !.scratch = p.scratch, !.pdDly = p.pdDly]
           t == ChainTune(kept, o).p
           no == FALSE
           m == SetEnsmMode(kept, p.fdd, no)
           z == [m EXCEPT !.io = t.io, !.dsel = t.dsel, !.scratch = t.scratch, !.pdDly = t.pdDly, !.dly = t.pdDly]
           KT == {"indep", "io", "dsel", "scratch", "pdDly"}
           ZT == {"io", "dsel", "scratch", "pdDly", "dly"}
<1>1. Reinit(p, o) = z
  BY DEF Reinit
<1>2. /\ b.fdd = p.fdd /\ b.bbTune = p.bbTune /\ b.managed = p.managed /\ b.conv = p.conv
      /\ b.fir \in BOOLEAN /\ ~b.fir
  BY DEF RadioTypes, RadioRest, PhyKeys
<1>3. /\ p.fdd \in BOOLEAN /\ p.bbTune \in BOOLEAN /\ p.managed \in BOOLEAN
      /\ p.conv \in {"core", "stub", "null"} /\ p.indep \in BOOLEAN
  BY DEF RadioTypes, RadioRest, EnsmTypes
<1>4. r.fdd = b.fdd /\ r.conv = b.conv /\ r.loop = 0
  BY DEF Ready
<1> HIDE DEF b
<1> DEFINE g == [dev |-> r.dev, pin |-> FALSE, att |-> r.att, loop |-> 0, bist |-> BistOff]
<1>5. g.dev = r.dev /\ ~g.pin /\ g.pin \in BOOLEAN /\ g.att = r.att /\ g.loop = 0 /\ g.bist = BistOff
  <2> HIDE DEF r
  <2> QED OBVIOUS
<1> HIDE DEF g
<1>6. RadioTypes(r) /\ Tunable(r, g)
  <2>1. g.pin = FALSE
    BY <1>5
  <2> QED BY <1>2, <1>3, <1>5, <2>1, ReadyGood
<1> HIDE DEF r
<1>7. Keeps(r, kept, KT) /\ kept.indep = p.indep /\ kept.dsel = p.dsel /\ kept.scratch = p.scratch
  BY <1>6 DEF Keeps, RadioTypes, PhyKeys
<1> HIDE DEF kept
<1>8. /\ kept.fdd = r.fdd /\ kept.pinCtrl = r.pinCtrl /\ kept.pinEn = r.pinEn /\ kept.clocks = r.clocks
      /\ kept.mode = r.mode /\ kept.dev = r.dev /\ kept.prev = r.prev /\ kept.curr = r.curr
      /\ kept.cfg1 = r.cfg1 /\ kept.conv = r.conv /\ kept.loop = r.loop
  BY <1>6, <1>7 DEF Keeps, RadioTypes, PhyKeys
<1>9. EnsmTypes(kept)
  BY <1>3, <1>6, <1>7, <1>8 DEF RadioTypes, EnsmTypes
<1>10. RadioRest(kept)
  BY <1>6, <1>7, SameRest
<1>11. RadioTypes(kept)
  BY <1>6, <1>7, <1>9, <1>10 DEF RadioTypes, Keeps
<1>12. kept.loop \in 0 .. 2
  BY <1>4, <1>8
<1>13. Wired(p) => Sends(kept)
  BY <1>2, <1>4, <1>7, <1>8 DEF Wired, Sends
<1>14. Sends(kept) => Sends(t)
  BY <1>11, <1>12, ChainTouches
<1>15. Touches(kept, t)
  BY <1>11, ChainTouches
<1>16. t.conv = kept.conv
  BY <1>11, <1>15 DEF Touches, Keeps, RadioTypes, PhyKeys, TuneFields, LightFields
<1> HIDE DEF t
<1>17. no \in BOOLEAN
  OBVIOUS
<1> HIDE DEF no
<1>18. Touches(kept, m) /\ Keeps(kept, m, {"mode"}) /\ m.mode.fdd = p.fdd
  BY <1>3, <1>11, <1>17, ModeTouches
<1> HIDE DEF m
<1>19. Keeps(m, z, ZT) /\ z.dsel = t.dsel /\ z.scratch = t.scratch
  BY <1>18 DEF Keeps, Touches, RadioTypes, PhyKeys
<1> HIDE DEF z
<1>20. Touches(m, z)
  BY <1>18, <1>19, LightTouches DEF Touches, LightFields
<1>21. RadioTypes(z)
  BY <1>20 DEF Touches
<1>22. Keeps(r, z, {"mode", "indep", "io", "dsel", "scratch", "pdDly", "dly"})
  BY <1>7, <1>18, <1>19, KeepsMore
<1>23. /\ z.fdd = r.fdd /\ z.pinEn = r.pinEn /\ z.clocks = r.clocks
       /\ z.dev = r.dev /\ z.prev = r.prev /\ z.curr = r.curr
       /\ z.cfg1 = r.cfg1 /\ z.conv = r.conv /\ z.loop = r.loop /\ z.loopReg = r.loopReg
       /\ z.filt = r.filt /\ z.bw = r.bw /\ z.txPd = r.txPd /\ z.txPdReg = r.txPdReg
       /\ z.step = r.step /\ z.stepReg = r.stepReg /\ z.att = r.att /\ z.bist = r.bist
       /\ z.track = r.track /\ z.want = r.want
  BY <1>6, <1>22 DEF Keeps, RadioTypes, PhyKeys
<1>24. z.mode = m.mode
  BY <1>18, <1>19 DEF Keeps, Touches, RadioTypes, PhyKeys
<1>25. ASSUME Wired(p), z.dsel # "loop" PROVE AsAsked(z, a)
  <2>1. Fits(r) /\ Ens(r, g) /\ Wired(r) /\ Kept(r, g) /\ r.track = r.want
    BY <1>6 DEF Tunable, AsAsked
  <2>2. a.dev = r.dev /\ a.att = r.att
    BY <1>1, <1>23
  <2>3. Fits(z)
    <3>1. r.mode.fdd = r.fdd /\ z.mode.fdd = r.mode.fdd
      BY <1>2, <1>4, <1>18, <1>24, <2>1 DEF Fits
    <3> QED BY <2>1, <3>1, <1>23 DEF Fits
  <2>4. Ens(z, a)
    BY <2>1, <2>2, <1>5, <1>23 DEF Ens
  <2>5. Kept(z, a)
    BY <2>1, <2>2, <1>5, <1>23 DEF Kept
  <2>6. Wired(z)
    <3>1. Sends(t)
      BY <1>13, <1>14, <1>25
    <3>2. z.scratch = "dma" /\ z.dsel = "dma"
      BY <3>1, <1>19, <1>25 DEF Sends
    <3> QED BY <2>1, <3>2, <1>4, <1>23 DEF Wired
  <2> QED BY <2>1, <2>3, <2>4, <2>5, <2>6, <1>23 DEF AsAsked
<1> QED BY <1>1, <1>21, <1>25

\* What sysfs shows of the state is so, unless the pins move it.
Shown(p) == "PIN" \notin p.cfg1 /\ p.curr \in Listed => p.dev = p.curr

ClockFields == {"cfg1", "dev", "clocks", "vcoCal", "curr"}

\* Waking turns the clocks on and nothing else the driver goes by.
LEMMA WakeDoes ==
  ASSUME NEW p, EnsmKeys \subseteq DOMAIN p, EnsmTypes(p)
  PROVE  LET w == Wake(p)
         IN  /\ Keeps(p, w, {"cfg1", "dev", "clocks", "vcoCal"}) /\ EnsmTypes(w)
             /\ p.curr # "SLEEP" => w = p
             /\ p.curr = "SLEEP" => w.clocks
<1> DEFINE u == [p EXCEPT !.clocks = TRUE, !.vcoCal = {"rx", "tx"}]
           bits == {"TO", "ALERT"}
           v == WriteCfg1(u, bits)
<1>1. Keeps(p, u, {"clocks", "vcoCal"}) /\ u.clocks
  BY DEF Keeps, EnsmKeys
<1> HIDE DEF u
<1>2. EnsmKeys \subseteq DOMAIN u /\ u.mode = p.mode
  BY <1>1 DEF Keeps, EnsmKeys
<1>3. bits \subseteq {"TX", "RX", "ALERT", "TO", "PIN"}
  OBVIOUS
<1> HIDE DEF bits
<1>4. Keeps(u, v, {"cfg1", "dev"}) /\ v.cfg1 = bits /\ v.dev = EnsmGoes(u, bits)
  BY <1>2, WriteCfg1Does
<1>5. u.clocks \in BOOLEAN /\ u.mode.fdd \in BOOLEAN
  BY <1>1, <1>2 DEF EnsmTypes
<1>6. v.dev \in DevStates
  BY <1>4, <1>5, GoesFits
<1>7. Wake(p) = IF p.curr = "SLEEP" THEN v ELSE p
  BY DEF Wake, u, v, bits
<1> HIDE DEF v
<1>8. Keeps(p, v, {"cfg1", "dev", "clocks", "vcoCal"})
  BY <1>1, <1>4, KeepsMore
<1>9. v.clocks
  BY <1>1, <1>2, <1>4 DEF Keeps, EnsmKeys
<1>10. EnsmTypes(v)
  BY <1>3, <1>4, <1>6, <1>8, <1>9 DEF EnsmTypes, Keeps, EnsmKeys
<1>11. Keeps(p, p, {"cfg1", "dev", "clocks", "vcoCal"})
  BY DEF Keeps
<1> QED BY <1>7, <1>8, <1>9, <1>10, <1>11

\* A chip that sleeps has left its states and has no clocks.
LEMMA SleepDoes ==
  ASSUME NEW p, EnsmKeys \subseteq DOMAIN p, EnsmTypes(p)
  PROVE  LET z == GoToSleep(p)
         IN  /\ Keeps(p, z, ClockFields) /\ EnsmTypes(z)
             /\ z.dev = "WAIT" /\ ~z.clocks /\ z.curr = "SLEEP"
<1> DEFINE none == {}
           b1 == IF p.fdd THEN {"TX"} ELSE {"RX"}
           x1 == WriteCfg1(p, none)
           x2 == WriteCfg1(x1, b1)
           x3 == WriteCfg1(x2, none)
           z == [x3 EXCEPT !.clocks = FALSE, !.vcoCal = {}, !.curr = "SLEEP"]
<1>1. GoToSleep(p) = z
  BY DEF GoToSleep
<1>2. none = {}
  OBVIOUS
<1> HIDE DEF none, b1
<1>3. Keeps(p, x1, {"cfg1", "dev"})
  BY WriteCfg1Does
<1> HIDE DEF x1
<1>4. EnsmKeys \subseteq DOMAIN x1
  BY <1>3 DEF Keeps
<1>5. Keeps(x1, x2, {"cfg1", "dev"})
  BY <1>4, WriteCfg1Does
<1> HIDE DEF x2
<1>6. Keeps(p, x2, {"cfg1", "dev"}) /\ EnsmKeys \subseteq DOMAIN x2
  BY <1>3, <1>4, <1>5, KeepsMore DEF Keeps
<1>7. Keeps(x2, x3, {"cfg1", "dev"}) /\ x3.cfg1 = none /\ x3.dev = EnsmGoes(x2, none)
  BY <1>6, WriteCfg1Does
<1> HIDE DEF x3
<1>8. Keeps(p, x3, {"cfg1", "dev"})
  BY <1>6, <1>7, KeepsMore
<1>9. x2.clocks \in BOOLEAN
  BY <1>6 DEF Keeps, EnsmKeys, EnsmTypes
<1>10. x3.dev = "WAIT"
  BY <1>2, <1>7, <1>9 DEF EnsmGoes
<1>11. /\ Keeps(x3, z, {"clocks", "vcoCal", "curr"})
       /\ z.clocks = FALSE /\ z.curr = "SLEEP" /\ z.dev = x3.dev /\ z.cfg1 = x3.cfg1
  BY <1>8 DEF Keeps, EnsmKeys
<1> HIDE DEF z
<1>12. Keeps(p, z, ClockFields)
  BY <1>8, <1>11, KeepsMore DEF ClockFields
<1>13. EnsmTypes(z)
  <2>1. /\ z.fdd = p.fdd /\ z.indep = p.indep /\ z.pinCtrl = p.pinCtrl /\ z.mode = p.mode
        /\ z.prev = p.prev /\ z.pinEn = p.pinEn
    BY <1>12 DEF Keeps, EnsmKeys, ClockFields
  <2> QED BY <1>2, <1>7, <1>10, <1>11, <2>1 DEF EnsmTypes, DevStates
<1> QED BY <1>1, <1>10, <1>11, <1>12, <1>13

States == {"TX", "RX", "ALERT", "FDD", "WAIT", "SLEEP"}

\* A state asked for through sysfs is the chip's, unless the request was illegal and its
\* error was lost.
LEMMA SetStateDoes ==
  ASSUME NEW p, NEW s \in States, NEW pin \in BOOLEAN, EnsmKeys \subseteq DOMAIN p, EnsmTypes(p)
  PROVE  LET r == EnsmSetState(p, s, pin)
         IN  /\ Keeps(p, r.p, ClockFields) /\ EnsmTypes(r.p)
             /\ /\ Fits(p) /\ Shown(p)
                /\ s = "SLEEP" \/ ~Illegal(Wake(p), s) \/ r.ret # "0" \/ r.p.curr = r.p.dev
                => Fits(r.p) /\ Shown(r.p)
<1> DEFINE w == Wake(p)
           bits == ({"TO"} \cup (IF pin THEN {"PIN"} ELSE {}))
                   \cup (IF s = "WAIT" THEN {} ELSE ForceBit(s))
           c == (bits \ ForceBits) \cup {"TO", "ALERT"}
           a == IF Illegal(w, s) THEN WriteCfg1(w, c) ELSE w
           x == WriteCfg1(a, bits)
           z == [x EXCEPT !.curr = s]
           r == EnsmSetState(p, s, pin)
<1> SUFFICES /\ Keeps(p, r.p, ClockFields) /\ EnsmTypes(r.p)
             /\ /\ Fits(p) /\ Shown(p)
                /\ s = "SLEEP" \/ ~Illegal(w, s) \/ r.ret # "0" \/ r.p.curr = r.p.dev
                => Fits(r.p) /\ Shown(r.p)
  OBVIOUS
<1>1. /\ Keeps(p, w, {"cfg1", "dev", "clocks", "vcoCal"}) /\ EnsmTypes(w)
      /\ p.curr # "SLEEP" => w = p
      /\ p.curr = "SLEEP" => w.clocks
  BY WakeDoes
<1>2. s # "SLEEP" => bits \subseteq {"TX", "RX", "ALERT", "TO", "PIN"}
  BY DEF ForceBit, States
<1>3. s # "SLEEP" => /\ s \in {"TX", "FDD"} => "TX" \in bits
                     /\ s = "RX" => "TX" \notin bits /\ "RX" \in bits
                     /\ s \in {"ALERT", "WAIT"} => bits \cap {"TX", "RX"} = {}
                     /\ "TO" \in bits
  BY DEF ForceBit, States
<1>4. r = IF s = "SLEEP" THEN Ok(GoToSleep(w))
          ELSE IF Illegal(w, s) /\ w.curr = "ALERT" THEN Err(w, "-EINVAL")
          ELSE Ok(z)
  BY DEF EnsmSetState
<1> HIDE DEF w, bits, c, r
<1>5. /\ EnsmKeys \subseteq DOMAIN w /\ w.curr = p.curr /\ w.mode = p.mode /\ w.fdd = p.fdd
  BY <1>1 DEF Keeps, EnsmKeys
<1>6. Fits(p) => w.clocks /\ (s # "SLEEP" /\ w.curr # "SLEEP" => p.clocks)
  BY <1>1, <1>5 DEF Fits
<1>7. Keeps(w, a, {"cfg1", "dev"})
  BY <1>5, WriteCfg1Does DEF Keeps
<1> HIDE DEF a
<1>8. /\ EnsmKeys \subseteq DOMAIN a /\ a.clocks = w.clocks /\ a.mode = w.mode
  BY <1>5, <1>7 DEF Keeps, EnsmKeys
<1>9. Keeps(a, x, {"cfg1", "dev"}) /\ x.cfg1 = bits /\ x.dev = EnsmGoes(w, bits)
  BY <1>8, WriteCfg1Does, SameGoes
<1> HIDE DEF x
<1>10. /\ Keeps(x, z, {"curr"}) /\ z.curr = s /\ z.cfg1 = bits /\ z.dev = EnsmGoes(w, bits)
  BY <1>8, <1>9 DEF Keeps, EnsmKeys
<1> HIDE DEF z
<1>11. Keeps(w, z, {"cfg1", "dev", "curr"})
  BY <1>7, <1>9, <1>10, KeepsMore
<1>12. Keeps(p, z, ClockFields) /\ Keeps(p, w, ClockFields)
  BY <1>1, <1>11, KeepsMore DEF ClockFields, Keeps
<1>13. /\ z.fdd = w.fdd /\ z.indep = w.indep /\ z.pinCtrl = w.pinCtrl /\ z.mode = w.mode
       /\ z.prev = w.prev /\ z.pinEn = w.pinEn /\ z.clocks = w.clocks
  BY <1>5, <1>11 DEF Keeps, EnsmKeys
<1>14. /\ EnsmGoes(w, bits) \in DevStates
       /\ ~w.clocks => EnsmGoes(w, bits) = "WAIT"
       /\ EnsmGoes(w, bits) \in {"TX", "RX"} => ~w.mode.fdd
       /\ EnsmGoes(w, bits) = "FDD" => w.mode.fdd
  <2>1. w.clocks \in BOOLEAN /\ w.mode.fdd \in BOOLEAN
    BY <1>1 DEF EnsmTypes
  <2> QED BY <2>1, GoesFits
<1>15. CASE s = "SLEEP"
  <2> DEFINE y == GoToSleep(w)
  <2>1. Keeps(w, y, ClockFields) /\ EnsmTypes(y) /\ y.dev = "WAIT" /\ ~y.clocks /\ y.curr = "SLEEP"
    BY <1>1, <1>5, SleepDoes
  <2>2. r.p = y
    BY <1>4, <1>15 DEF Ok
  <2> HIDE DEF y
  <2>3. Keeps(p, y, ClockFields)
    BY <1>12, <2>1, KeepsMore
  <2>4. y.mode = w.mode /\ y.fdd = w.fdd
    BY <1>5, <2>1 DEF Keeps, ClockFields, EnsmKeys
  <2>5. Fits(p) => Fits(y)
    BY <1>5, <2>1, <2>4 DEF Fits
  <2>6. Shown(y)
    BY <2>1 DEF Shown, Listed, ActiveStates
  <2> QED BY <2>1, <2>2, <2>3, <2>5, <2>6
<1>16. CASE s # "SLEEP" /\ Illegal(w, s) /\ w.curr = "ALERT"
  <2>1. w = p
    BY <1>1, <1>5, <1>16
  <2>2. r.p = p
    BY <1>4, <1>16, <2>1 DEF Err
  <2> QED BY <2>2, <1>12, <2>1
<1>17. CASE s # "SLEEP" /\ ~(Illegal(w, s) /\ w.curr = "ALERT")
  <2>1. r.p = z /\ r.ret = "0"
    BY <1>4, <1>17 DEF Ok
  <2>2. EnsmTypes(z)
    <3>1. z.curr \in DevStates
      BY <1>10, <1>17 DEF States, DevStates, ActiveStates
    <3> QED BY <1>1, <1>2, <1>10, <1>13, <1>14, <1>17, <3>1 DEF EnsmTypes
  <2>3. ASSUME Fits(p), ~Illegal(w, s) \/ z.curr = z.dev
        PROVE  Fits(z) /\ Shown(z)
    <3>1. z.mode.fdd = z.fdd /\ z.clocks
      BY <2>3, <1>5, <1>6, <1>13 DEF Fits
    <3>2. Fits(z)
      BY <3>1, <1>10, <1>13, <1>14, <1>17 DEF Fits
    <3>3. ASSUME ~Illegal(w, s), s \in Listed PROVE z.dev = s
      <4>1. w.mode.fdd = w.fdd
        BY <2>3, <1>5 DEF Fits
      <4>2. w.clocks
        BY <2>3, <1>6
      <4>3. (s \in {"TX", "RX"} => ~w.mode.fdd) /\ (s = "FDD" => w.mode.fdd)
        BY <3>3, <4>1 DEF Illegal
      <4> QED BY <3>3, <4>2, <4>3, <1>3, <1>10 DEF EnsmGoes, Listed, ActiveStates
    <3>4. Shown(z)
      BY <2>3, <3>3, <1>10 DEF Shown
    <3> QED BY <3>2, <3>4
  <2>4. Keeps(p, r.p, ClockFields) /\ EnsmTypes(r.p)
    BY <2>1, <2>2, <1>12
  <2>5. ASSUME Fits(p), s = "SLEEP" \/ ~Illegal(w, s) \/ r.ret # "0" \/ r.p.curr = r.p.dev
        PROVE  Fits(r.p) /\ Shown(r.p)
    <3>1. ~Illegal(w, s) \/ z.curr = z.dev
      BY <2>1, <2>5, <1>17
    <3> QED BY <2>1, <2>3, <2>5, <3>1
  <2> QED BY <2>4, <2>5
<1> QED BY <1>15, <1>16, <1>17

\* The word written to ensm_mode, whatever it is.
LEMMA EnsmModeGood ==
  ASSUME NEW p, NEW w \in EnsmWords, RadioTypes(p)
  PROVE  LET r == StoreEnsmMode(p, w)
             illegal == w # "?" /\ w # "sleep" /\ Illegal(Wake(p), WordState(w))
         IN  /\ RadioTypes(r.p) /\ Keeps(p, r.p, ClockFields \cup {"indep", "mode"})
             /\ Fits(p) /\ Shown(p) /\ ~(illegal /\ r.ret = "0" /\ r.p.curr # r.p.dev)
                => Fits(r.p) /\ Shown(r.p)
<1> DEFINE ind == (w = "pinctrl_fdd_indep")
           pin == (w = "pinctrl")
           q == [p EXCEPT !.indep = ind]
           m == SetEnsmMode(q, q.fdd, pin)
           s == WordState(w)
           e == EnsmSetState(m, s, pin)
           r == StoreEnsmMode(p, w)
           legal == s = "SLEEP" \/ ~Illegal(Wake(p), s) \/ e.ret # "0" \/ e.p.curr = e.p.dev
<1> SUFFICES /\ RadioTypes(r.p) /\ Keeps(p, r.p, ClockFields \cup {"indep", "mode"})
             /\ Fits(p) /\ Shown(p) /\ ~(w # "?" /\ w # "sleep" /\ Illegal(Wake(p), s) /\ r.ret = "0" /\ r.p.curr # r.p.dev)
                => Fits(r.p) /\ Shown(r.p)
  OBVIOUS
<1>1. ind \in BOOLEAN /\ pin \in BOOLEAN
  OBVIOUS
<1>2. /\ w # "?" => s \in States
      /\ w = "sleep" => s = "SLEEP"
  BY DEF WordState, EnsmWords, States
<1>3. r = IF w = "?" THEN Ok(q) ELSE e
  BY DEF StoreEnsmMode
<1> HIDE DEF ind, pin, s, r
<1>4. Keeps(p, q, {"indep"}) /\ q.indep = ind
  BY DEF Keeps, RadioTypes, PhyKeys
<1> HIDE DEF q
<1>5. RadioRest(q)
  BY <1>4, SameRest
<1>6. /\ q.fdd = p.fdd /\ q.pinCtrl = p.pinCtrl /\ q.mode = p.mode /\ q.cfg1 = p.cfg1 /\ q.dev = p.dev
      /\ q.prev = p.prev /\ q.curr = p.curr /\ q.pinEn = p.pinEn /\ q.clocks = p.clocks
  BY <1>4 DEF Keeps, RadioTypes, PhyKeys
<1>7. EnsmTypes(q)
  BY <1>1, <1>4, <1>6 DEF RadioTypes, EnsmTypes
<1>8. RadioTypes(q)
  BY <1>4, <1>5, <1>7 DEF RadioTypes, Keeps
<1>9. Fits(p) /\ Shown(p) => Fits(q) /\ Shown(q)
  BY <1>6 DEF Fits, Shown
<1>10. q.fdd \in BOOLEAN
  BY <1>7 DEF EnsmTypes
<1>11. RadioTypes(m) /\ Keeps(q, m, {"mode"}) /\ m.mode.fdd = q.fdd
  BY <1>1, <1>8, <1>10, ModeTouches DEF Touches
<1> HIDE DEF m
<1>12. /\ m.fdd = q.fdd /\ m.cfg1 = q.cfg1 /\ m.dev = q.dev /\ m.curr = q.curr /\ m.clocks = q.clocks
  BY <1>8, <1>11 DEF Keeps, RadioTypes, PhyKeys
<1>13. Fits(q) /\ Shown(q) => Fits(m) /\ Shown(m)
  BY <1>11, <1>12 DEF Fits, Shown
<1>14. CASE w = "?"
  <2>1. r.p = q
    BY <1>3, <1>14 DEF Ok
  <2>2. Keeps(p, q, ClockFields \cup {"indep", "mode"})
    BY <1>4 DEF Keeps
  <2> QED BY <1>8, <1>9, <2>1, <2>2
<1>15. CASE w # "?"
  <2>1. EnsmKeys \subseteq DOMAIN m /\ EnsmTypes(m) /\ EnsmKeys \subseteq DOMAIN p /\ EnsmTypes(p)
    BY <1>11, RadioHasEnsm
  <2>2. s \in States
    BY <1>2, <1>15
  <2>3. /\ Keeps(m, e.p, ClockFields) /\ EnsmTypes(e.p)
        /\ /\ Fits(m) /\ Shown(m)
           /\ s = "SLEEP" \/ ~Illegal(Wake(m), s) \/ e.ret # "0" \/ e.p.curr = e.p.dev
           => Fits(e.p) /\ Shown(e.p)
    BY <1>1, <2>1, <2>2, SetStateDoes
  <2>4. r = e
    BY <1>3, <1>15
  <2> HIDE DEF e
  <2> DEFINE wp == Wake(p)
             wm == Wake(m)
  <2>5. wp.curr = p.curr /\ wp.fdd = p.fdd
    <3>1. Keeps(p, wp, {"cfg1", "dev", "clocks", "vcoCal"})
      BY <2>1, WakeDoes
    <3> HIDE DEF wp
    <3> QED BY <3>1, <2>1 DEF Keeps, EnsmKeys
  <2>6. wm.curr = m.curr /\ wm.fdd = m.fdd
    <3>1. Keeps(m, wm, {"cfg1", "dev", "clocks", "vcoCal"})
      BY <2>1, WakeDoes
    <3> HIDE DEF wm
    <3> QED BY <3>1, <2>1 DEF Keeps, EnsmKeys
  <2>7. Illegal(wm, s) <=> Illegal(wp, s)
    <3> HIDE DEF wp, wm
    <3> QED BY <2>5, <2>6, <1>6, <1>12 DEF Illegal
  <2>8. DOMAIN e.p = PhyKeys
    BY <1>11, <2>3 DEF Keeps, RadioTypes
  <2>9. RadioRest(e.p)
    BY <1>11, <2>3, SameRest DEF ClockFields
  <2>10. RadioTypes(e.p)
    BY <2>3, <2>8, <2>9 DEF RadioTypes
  <2>11. Keeps(p, e.p, ClockFields \cup {"indep", "mode"})
    BY <1>4, <1>11, <2>3, KeepsMore
  <2>12. ASSUME Fits(p), Shown(p), ~(w # "sleep" /\ Illegal(wp, s) /\ e.ret = "0" /\ e.p.curr # e.p.dev)
         PROVE  Fits(e.p) /\ Shown(e.p)
    <3>1. Fits(m) /\ Shown(m)
      BY <2>12, <1>9, <1>13
    <3>2. s = "SLEEP" \/ ~Illegal(wm, s) \/ e.ret # "0" \/ e.p.curr = e.p.dev
      <4> HIDE DEF wm, wp
      <4> QED BY <2>12, <2>7, <1>2
    <3> QED BY <3>1, <3>2, <2>3
  <2> QED BY <2>4, <2>10, <2>11, <2>12, <1>15
<1> QED BY <1>14, <1>15

\* Another gain step table is programmed between a force and its restore.
LEMMA StepProgrammed ==
  ASSUME NEW p, NEW q, NEW j, NEW a, RadioTypes(p), Keeps(p, q, {"step"}),
         Keeps(ForceState(q, "ALERT"), j, {"step", "stepReg"}),
         j.step \in [words : Int, errs : Int], j.stepReg = j.step
  PROVE  LET z == RestorePrev(j)
         IN  RadioTypes(z) /\ (AsAsked(p, a) /\ ~Unrestorable(p) => AsAsked(z, a))
<1> DEFINE f == ForceState(q, "ALERT")
           z == RestorePrev(j)
           T == {"cfg1", "dev", "prev", "pinEn", "step", "stepReg"}
<1>0. EnsmKeys \subseteq DOMAIN q
  BY RadioHasEnsm DEF Keeps
<1>1. /\ EnsmTypes(q)
      /\ Fits(p) => Fits(q)
      /\ Ens(p, a) => Ens(q, a)
      /\ Unrestorable(q) = Unrestorable(p)
  BY RadioHasEnsm, SameEnsm DEF EnsmKeys
<1>2. /\ Keeps(q, f, {"cfg1", "dev", "prev", "pinEn"})
      /\ EnsmTypes(f)
      /\ Fits(q) /\ Ens(q, a) /\ ~Unrestorable(q) => WillReturn(f, a)
  BY <1>0, <1>1, Begun
<1>3. Keeps(f, j, {"step", "stepReg"})
  OBVIOUS
<1> HIDE DEF f
<1>3a. EnsmKeys \subseteq DOMAIN f /\ EnsmKeys \subseteq DOMAIN j
  BY <1>0, <1>2, <1>3 DEF Keeps
<1>4. /\ EnsmTypes(j)
      /\ WillReturn(f, a) => WillReturn(j, a)
  BY <1>2, <1>3, <1>3a, SameEnsm DEF EnsmKeys
<1>5. /\ Keeps(j, z, {"cfg1", "dev"})
      /\ EnsmTypes(z)
      /\ WillReturn(j, a) => Fits(z) /\ Ens(z, a) /\ ~Unrestorable(z)
  BY <1>3a, <1>4, Restores
<1> HIDE DEF z
<1>6. Keeps(p, z, T)
  BY <1>2, <1>3, <1>5, KeepsMore
<1>7. /\ z.fir = p.fir /\ z.bbTune = p.bbTune /\ z.managed = p.managed /\ z.conv = p.conv
      /\ z.txPd = p.txPd /\ z.txPdReg = p.txPdReg /\ z.track = p.track /\ z.want = p.want
      /\ z.bw = p.bw /\ z.filt = p.filt /\ z.att = p.att /\ z.cache = p.cache
      /\ z.bist = p.bist /\ z.loop = p.loop /\ z.loopReg = p.loopReg
      /\ z.scratch = p.scratch /\ z.dsel = p.dsel
  BY <1>6 DEF Keeps, RadioTypes, PhyKeys
<1>8. DOMAIN z = PhyKeys
  BY <1>6 DEF Keeps, RadioTypes
<1>9. z.step = j.step /\ z.stepReg = j.stepReg
  BY <1>5, <1>8 DEF Keeps, PhyKeys
<1>10. RadioRest(z)
  BY <1>7, <1>9 DEF RadioTypes, RadioRest
<1>11. Wired(p) /\ Kept(p, a) => Wired(z) /\ Kept(z, a)
  <2>1. Wired(p) => Wired(z)
    BY <1>7 DEF Wired
  <2>2. Kept(p, a) => Kept(z, a)
    BY <1>7, <1>9 DEF Kept
  <2> QED BY <2>1, <2>2
<1>12. RadioTypes(z)
  BY <1>5, <1>8, <1>10 DEF RadioTypes
<1>13. AsAsked(p, a) /\ ~Unrestorable(p) => AsAsked(z, a)
  BY <1>1, <1>2, <1>4, <1>5, <1>7, <1>11 DEF AsAsked
<1> QED BY <1>12, <1>13 DEF z

\* The calibration of the gain steps, and a table written by hand.
LEMMA StepGood ==
  ASSUME NEW p, NEW a, NEW n \in Int, NEW whole \in BOOLEAN, RadioTypes(p)
  PROVE  LET c == StepCalib(p, 0, n)
             s == StoreStep(p, [words |-> 0, errs |-> n], whole)
         IN  /\ RadioTypes(c) /\ (AsAsked(p, a) /\ ~Unrestorable(p) => AsAsked(c, a))
             /\ RadioTypes(s.p) /\ (AsAsked(p, a) /\ ~Unrestorable(p) /\ whole => AsAsked(s.p, a))
             /\ ~whole => s.ret = "-EINVAL"
<1> DEFINE st == [words |-> 0, errs |-> n]
<1>0. p.step \in [words : Int, errs : Int] /\ p.stepReg \in [words : Int, errs : Int] /\ DOMAIN p = PhyKeys
  BY DEF RadioTypes, RadioRest
<1>1. ASSUME NEW q, Keeps(p, q, {"step"}), q.step \in [words : Int, errs : Int]
      PROVE  LET f == ForceState(q, "ALERT")
             IN  DOMAIN f = PhyKeys /\ f.step = q.step /\ f.stepReg = p.stepReg
  <2> DEFINE f == ForceState(q, "ALERT")
  <2>0. EnsmKeys \subseteq DOMAIN q
    BY <1>1, RadioHasEnsm DEF Keeps
  <2>1. EnsmTypes(q) /\ EnsmKeys \subseteq DOMAIN q
    BY <1>1, <2>0, RadioHasEnsm, SameEnsm DEF EnsmKeys
  <2>2. Keeps(q, f, {"cfg1", "dev", "prev", "pinEn"})
    BY <2>1, Begun
  <2> HIDE DEF f
  <2>3. DOMAIN q = PhyKeys /\ q.stepReg = p.stepReg
    BY <1>0, <1>1 DEF Keeps, PhyKeys
  <2> QED BY <2>2, <2>3 DEF Keeps, PhyKeys, f
<1>2. LET c == StepCalib(p, 0, n) IN RadioTypes(c) /\ (AsAsked(p, a) /\ ~Unrestorable(p) => AsAsked(c, a))
  <2> DEFINE f == ForceState(p, "ALERT")
             g == [f EXCEPT !.step.words = 0]
             h == [g EXCEPT !.stepReg.words = g.step.words]
             i == [h EXCEPT !.step.errs = n]
             j == [i EXCEPT !.stepReg.errs = i.step.errs]
  <2>1. Keeps(p, p, {"step"})
    BY DEF Keeps
  <2>2. DOMAIN f = PhyKeys /\ f.step = p.step /\ f.stepReg = p.stepReg
    BY <1>0, <1>1, <2>1
  <2>3. StepCalib(p, 0, n) = RestorePrev(j)
    BY DEF StepCalib, ProgramWords, ProgramErrs
  <2> HIDE DEF f
  <2>4. Keeps(f, g, {"step"}) /\ g.step = [f.step EXCEPT !.words = 0]
    BY <2>2 DEF Keeps, PhyKeys
  <2>5. DOMAIN g = PhyKeys /\ g.stepReg = p.stepReg
    BY <2>2, <2>4 DEF Keeps, PhyKeys
  <2> HIDE DEF g
  <2>6. Keeps(g, h, {"stepReg"}) /\ h.stepReg = [g.stepReg EXCEPT !.words = g.step.words]
    BY <2>5 DEF Keeps, PhyKeys
  <2>7. DOMAIN h = PhyKeys /\ h.step = g.step
    BY <2>5, <2>6 DEF Keeps, PhyKeys
  <2> HIDE DEF h
  <2>8. Keeps(h, i, {"step"}) /\ i.step = [h.step EXCEPT !.errs = n]
    BY <2>7 DEF Keeps, PhyKeys
  <2>9. DOMAIN i = PhyKeys /\ i.stepReg = h.stepReg
    BY <2>7, <2>8 DEF Keeps, PhyKeys
  <2> HIDE DEF i
  <2>10. Keeps(i, j, {"stepReg"}) /\ j.stepReg = [i.stepReg EXCEPT !.errs = i.step.errs]
    BY <2>9 DEF Keeps, PhyKeys
  <2>11. j.step = i.step
    BY <2>9, <2>10 DEF Keeps, PhyKeys
  <2> HIDE DEF j
  <2>12. Keeps(f, j, {"step", "stepReg"})
    BY <2>4, <2>6, <2>8, <2>10, KeepsMore
  <2>13. g.step \in [words : Int, errs : Int] /\ g.step.words = 0
    BY <1>0, <2>2, <2>4
  <2>14. i.step = st
    <3> DEFINE x == h.step
    <3>1. x \in [words : Int, errs : Int] /\ x.words = 0
      BY <2>7, <2>13
    <3>2. i.step = [x EXCEPT !.errs = n]
      BY <2>8
    <3> HIDE DEF x
    <3>3. [x EXCEPT !.errs = n] = st
      BY <3>1
    <3> QED BY <3>2, <3>3
  <2>15. j.stepReg = st
    <3> DEFINE x == i.stepReg
    <3>1. x \in [words : Int, errs : Int] /\ x.words = 0
      BY <1>0, <2>5, <2>6, <2>9, <2>13
    <3>2. i.step.errs = n
      BY <2>14
    <3>3. j.stepReg = [x EXCEPT !.errs = n]
      BY <2>10, <3>2
    <3> HIDE DEF x
    <3>4. [x EXCEPT !.errs = n] = st
      BY <3>1
    <3> QED BY <3>3, <3>4
  <2>16. st \in [words : Int, errs : Int]
    OBVIOUS
  <2> HIDE DEF st
  <2>17. j.step \in [words : Int, errs : Int] /\ j.stepReg = j.step
    BY <2>11, <2>14, <2>15, <2>16
  <2> DEFINE z == RestorePrev(j)
  <2>18. RadioTypes(z) /\ (AsAsked(p, a) /\ ~Unrestorable(p) => AsAsked(z, a))
    BY <2>1, <2>12, <2>17, StepProgrammed DEF f
  <2> QED BY <2>3, <2>18
<1>3. LET s == StoreStep(p, st, whole)
      IN  /\ RadioTypes(s.p) /\ (AsAsked(p, a) /\ ~Unrestorable(p) /\ whole => AsAsked(s.p, a))
          /\ ~whole => s.ret = "-EINVAL"
  <2> DEFINE q == [p EXCEPT !.step = st]
             f == ForceState(q, "ALERT")
             g == [f EXCEPT !.stepReg.words = f.step.words]
             j == [g EXCEPT !.stepReg.errs = g.step.errs]
             z == RestorePrev(j)
  <2>1. StoreStep(p, st, whole) = IF ~whole THEN Err(q, "-EINVAL") ELSE Ok(z)
    BY DEF StoreStep, ProgramWords, ProgramErrs
  <2>2. st \in [words : Int, errs : Int]
    OBVIOUS
  <2> HIDE DEF st
  <2>3. Keeps(p, q, {"step"}) /\ q.step = st
    BY <1>0 DEF Keeps, PhyKeys
  <2> HIDE DEF q
  <2>4. DOMAIN f = PhyKeys /\ f.step = st /\ f.stepReg = p.stepReg
    BY <1>1, <2>2, <2>3
  <2> HIDE DEF f
  <2>5. Keeps(f, g, {"stepReg"}) /\ g.stepReg = [f.stepReg EXCEPT !.words = f.step.words]
    BY <2>4 DEF Keeps, PhyKeys
  <2>6. DOMAIN g = PhyKeys /\ g.step = st
    BY <2>4, <2>5 DEF Keeps, PhyKeys
  <2> HIDE DEF g
  <2>7. Keeps(g, j, {"stepReg"}) /\ j.stepReg = [g.stepReg EXCEPT !.errs = g.step.errs]
    BY <2>6 DEF Keeps, PhyKeys
  <2>8. j.step = st
    BY <2>6, <2>7 DEF Keeps, PhyKeys
  <2> HIDE DEF j
  <2>9. Keeps(f, j, {"step", "stepReg"})
    BY <2>5, <2>7, KeepsMore
  <2>10. j.stepReg = st
    BY <1>0, <2>2, <2>4, <2>5, <2>6, <2>7
  <2>11. RadioTypes(z) /\ (AsAsked(p, a) /\ ~Unrestorable(p) => AsAsked(z, a))
    BY <2>2, <2>3, <2>8, <2>9, <2>10, StepProgrammed DEF f
  <2> HIDE DEF z
  <2>12. RadioTypes(q)
    <3>1. EnsmTypes(q)
      BY <2>3, RadioHasEnsm, SameEnsm DEF EnsmKeys
    <3>2. RadioRest(q)
      <4>1. /\ q.fir = p.fir /\ q.bbTune = p.bbTune /\ q.managed = p.managed /\ q.conv = p.conv
            /\ q.txPd = p.txPd /\ q.txPdReg = p.txPdReg /\ q.track = p.track /\ q.want = p.want
            /\ q.bw = p.bw /\ q.att = p.att /\ q.cache = p.cache /\ q.stepReg = p.stepReg
        BY <1>0, <2>3 DEF Keeps, PhyKeys
      <4> QED BY <2>2, <2>3, <4>1 DEF RadioTypes, RadioRest
    <3> QED BY <1>0, <2>3, <3>1, <3>2 DEF RadioTypes, Keeps
  <2> QED BY <2>1, <2>11, <2>12 DEF Ok, Err
<1> QED BY <1>2, <1>3

\* Between calls the radio is as asked; a step that leaves it so keeps the invariant.
LEMMA Entered ==
  ASSUME RadioInv, upset = "none", call \in Waits, work # "cal"
  PROVE  AsAsked(phy, ask)
  BY DEF RadioInv, Stands, Waits

\* And a step that leaves it so keeps the invariant.
LEMMA Left ==
  ASSUME RadioInv, RadioTypes(phy'), DOMAIN ask' = AskKeys, call' \in Waits,
         work' \in {"idle", "cal", "clear"},
         upset' = "none" => work' # "cal" /\ AsAsked(phy', ask')
  PROVE  RadioInv'
  BY DEF RadioInv, Stands, Waits

\* A call that has changed nothing of the enable state machine.
LEMMA OtherFields ==
  ASSUME NEW p, NEW q, NEW T, NEW a, NEW b, RadioTypes(p), Keeps(p, q, T), T \cap EnsmKeys = {},
         RadioRest(q), b.dev = a.dev, b.pin = a.pin
  PROVE  /\ RadioTypes(q)
         /\ AsAsked(p, a) /\ Wired(q) /\ Kept(q, b) /\ q.track = q.want => AsAsked(q, b)
<1>1. /\ EnsmTypes(q)
      /\ Fits(p) => Fits(q)
      /\ Ens(p, a) => Ens(q, a)
  BY RadioHasEnsm, SameEnsm
<1>2. Ens(q, a) => Ens(q, b)
  BY DEF Ens
<1>3. DOMAIN q = PhyKeys
  BY DEF Keeps, RadioTypes
<1> QED BY <1>1, <1>2, <1>3 DEF RadioTypes, AsAsked

\* Tracking, the flags of the calibrations and the power of the transmit LO.
LEMMA FlagsGood ==
  ASSUME NEW p, NEW a, NEW q, RadioTypes(p),
         \/ \E want \in {{}, {"bb", "rf", "quad"}} : q = StoreTrack(p, want)
         \/ \E w \in {"auto", "manual", "manual_tx_quad"} : q = StoreCalMode(p, w)
         \/ \E down \in BOOLEAN : q = [p EXCEPT !.txPd = down, !.txPdReg = down]
  PROVE  RadioTypes(q) /\ (AsAsked(p, a) => AsAsked(q, a))
<1> DEFINE T == {"track", "want", "autoCal", "manualQuad", "txPd", "txPdReg"}
<1>0. DOMAIN p = PhyKeys /\ RadioRest(p)
  BY DEF RadioTypes
<1>1. /\ Keeps(p, q, T) /\ q.txPd \in BOOLEAN /\ q.txPdReg \in BOOLEAN
      /\ q.track \subseteq {"bb", "rf", "quad"} /\ q.want \subseteq {"bb", "rf", "quad"}
      /\ p.track = p.want => q.track = q.want
      /\ p.txPdReg = p.txPd => q.txPdReg = q.txPd
  <2>1. ASSUME NEW want \in {{}, {"bb", "rf", "quad"}}, q = StoreTrack(p, want)
        PROVE  <1>1!:
    BY <2>1, <1>0 DEF StoreTrack, Keeps, PhyKeys, RadioRest
  <2>2. ASSUME NEW w \in {"auto", "manual", "manual_tx_quad"}, q = StoreCalMode(p, w)
        PROVE  <1>1!:
    BY <2>2, <1>0 DEF StoreCalMode, Keeps, PhyKeys, RadioRest
  <2>3. ASSUME NEW down \in BOOLEAN, q = [p EXCEPT !.txPd = down, !.txPdReg = down]
        PROVE  <1>1!:
    BY <2>3, <1>0 DEF Keeps, PhyKeys, RadioRest
  <2> QED BY <2>1, <2>2, <2>3
<1>2. /\ q.fir = p.fir /\ q.bbTune = p.bbTune /\ q.managed = p.managed /\ q.conv = p.conv
      /\ q.bw = p.bw /\ q.filt = p.filt /\ q.att = p.att /\ q.cache = p.cache /\ q.step = p.step
      /\ q.stepReg = p.stepReg /\ q.bist = p.bist /\ q.loop = p.loop /\ q.loopReg = p.loopReg
      /\ q.scratch = p.scratch /\ q.dsel = p.dsel
  BY <1>0, <1>1 DEF Keeps, PhyKeys
<1>3. RadioRest(q)
  BY <1>0, <1>1, <1>2 DEF RadioRest
<1>4. (Wired(p) => Wired(q)) /\ (Kept(p, a) => Kept(q, a))
  <2>1. Wired(p) => Wired(q)
    BY <1>2 DEF Wired
  <2>2. Kept(p, a) => Kept(q, a)
    BY <1>1, <1>2 DEF Kept
  <2> QED BY <2>1, <2>2
<1>5. T \cap EnsmKeys = {}
  BY DEF EnsmKeys
<1> HIDE DEF T
<1>6. RadioTypes(q) /\ (AsAsked(p, a) /\ Wired(q) /\ Kept(q, a) /\ q.track = q.want => AsAsked(q, a))
  BY <1>1, <1>3, <1>5, OtherFields
<1> QED BY <1>1, <1>4, <1>6 DEF AsAsked

\* An attenuation the chip does not have is refused.
LEMMA AttenGood ==
  ASSUME NEW p, NEW a, NEW b, NEW code \in {0, 400}, NEW who, RadioTypes(p),
         b.dev = a.dev, b.pin = a.pin, b.loop = a.loop, b.bist = a.bist,
         b.att = SetAtten(p, code, who).p.att
  PROVE  LET q == SetAtten(p, code, who).p
         IN  RadioTypes(q) /\ (AsAsked(p, a) => AsAsked(q, b))
<1> DEFINE q == SetAtten(p, code, who).p
           T == {"att"}
<1>0. DOMAIN p = PhyKeys /\ RadioRest(p)
  BY DEF RadioTypes
<1>1. Keeps(p, q, T) /\ q.att \in [1 .. 2 -> 0 .. MaxAtten]
  <2>1. CASE code > MaxAtten
    BY <2>1, <1>0 DEF SetAtten, Err, Keeps, RadioRest
  <2>2. CASE ~(code > MaxAtten)
    <3> DEFINE v == [i \in 1 .. 2 |-> IF i \in who THEN code ELSE p.att[i]]
    <3>1. q = [p EXCEPT !.att = v]
      BY <2>2 DEF SetAtten, Ok
    <3>2. v \in [1 .. 2 -> 0 .. MaxAtten]
      BY <2>2, <1>0 DEF RadioRest, MaxAtten
    <3> HIDE DEF v
    <3> QED BY <3>1, <3>2, <1>0 DEF Keeps, PhyKeys
  <2> QED BY <2>1, <2>2
<1>2. b.att = q.att
  OBVIOUS
<1> HIDE DEF q
<1>3. /\ q.fir = p.fir /\ q.bbTune = p.bbTune /\ q.managed = p.managed /\ q.conv = p.conv
      /\ q.txPd = p.txPd /\ q.txPdReg = p.txPdReg /\ q.track = p.track /\ q.want = p.want
      /\ q.bw = p.bw /\ q.filt = p.filt /\ q.cache = p.cache /\ q.step = p.step
      /\ q.stepReg = p.stepReg /\ q.bist = p.bist /\ q.loop = p.loop /\ q.loopReg = p.loopReg
      /\ q.scratch = p.scratch /\ q.dsel = p.dsel
  BY <1>0, <1>1 DEF Keeps, PhyKeys
<1>4. RadioRest(q)
  BY <1>0, <1>1, <1>3 DEF RadioRest
<1>5. Wired(p) => Wired(q)
  BY <1>3 DEF Wired
<1>6. Kept(p, a) => Kept(q, b)
  BY <1>2, <1>3 DEF Kept
<1>7. T \cap EnsmKeys = {}
  BY DEF EnsmKeys
<1> HIDE DEF T
<1>8. RadioTypes(q) /\ (AsAsked(p, a) /\ Wired(q) /\ Kept(q, b) /\ q.track = q.want => AsAsked(q, b))
  BY <1>1, <1>4, <1>7, OtherFields
<1> QED BY <1>3, <1>5, <1>6, <1>8 DEF AsAsked, q

\* The loopbacks and the built-in self test.
LEMMA SelfTestGood ==
  ASSUME NEW p, NEW a, NEW b, NEW c, NEW m \in 0 .. 2, NEW w, RadioTypes(p),
         b.dev = a.dev, b.pin = a.pin, b.loop = m, b.bist = a.bist, b.att = a.att,
         c.dev = a.dev, c.pin = a.pin, c.loop = a.loop, c.bist = w, c.att = a.att
  PROVE  /\ RadioTypes(Loopback(p, m).p) /\ (AsAsked(p, a) => AsAsked(Loopback(p, m).p, b))
         /\ RadioTypes(Bist(p, w)) /\ (AsAsked(p, a) => AsAsked(Bist(p, w), c))
<1>0. DOMAIN p = PhyKeys /\ RadioRest(p)
  BY DEF RadioTypes
<1> DEFINE q == Loopback(p, m).p
           r == Bist(p, w)
           T == {"loop", "loopReg", "txOn", "dsel", "scratch"}
           U == {"bist"}
<1>1. /\ Keeps(p, q, T) /\ q.loop = m
      /\ p.scratch = "dma" /\ p.dsel \in {"dma", "loop"} /\ (p.conv # "core" => p.dsel = "dma") => Wired(q)
  BY <1>0, LoopbackWires
<1>2. Keeps(p, r, U) /\ r.bist = w /\ RadioTypes(r)
  BY BistTouches DEF Touches
<1> HIDE DEF q, r
<1>3. /\ q.txPd = p.txPd /\ q.txPdReg = p.txPdReg /\ q.track = p.track /\ q.want = p.want
      /\ q.bw = p.bw /\ q.filt = p.filt /\ q.att = p.att /\ q.step = p.step
      /\ q.stepReg = p.stepReg /\ q.bist = p.bist
  BY <1>0, <1>1 DEF Keeps, PhyKeys
<1>4. /\ r.txPd = p.txPd /\ r.txPdReg = p.txPdReg /\ r.track = p.track /\ r.want = p.want
      /\ r.bw = p.bw /\ r.filt = p.filt /\ r.att = p.att /\ r.step = p.step /\ r.conv = p.conv
      /\ r.stepReg = p.stepReg /\ r.loop = p.loop /\ r.loopReg = p.loopReg
      /\ r.scratch = p.scratch /\ r.dsel = p.dsel
  BY <1>0, <1>2 DEF Keeps, PhyKeys
<1>5. T \cap EnsmKeys = {} /\ U \cap EnsmKeys = {}
  BY DEF EnsmKeys
<1>6. RadioRest(q) /\ RadioRest(r)
  BY <1>1, <1>2, SameRest DEF RadioTypes
<1> HIDE DEF T, U
<1>7. RadioTypes(q) /\ (AsAsked(p, a) /\ Wired(q) /\ Kept(q, b) /\ q.track = q.want => AsAsked(q, b))
  BY <1>1, <1>5, <1>6, OtherFields
<1>8. RadioTypes(r) /\ (AsAsked(p, a) /\ Wired(r) /\ Kept(r, c) /\ r.track = r.want => AsAsked(r, c))
  BY <1>2, <1>5, <1>6, OtherFields
<1>9. Wired(p) => Wired(q) /\ Wired(r)
  BY <1>1, <1>4 DEF Wired
<1>10. Kept(p, a) => Kept(q, b) /\ Kept(r, c)
  BY <1>1, <1>2, <1>3, <1>4 DEF Kept
<1> QED BY <1>3, <1>4, <1>7, <1>8, <1>9, <1>10 DEF AsAsked, q, r

\* The pins move a chip that they control, to a state its mode has.
LEMMA PinsGood ==
  ASSUME NEW p, NEW a, NEW s \in PinStates(p) \ {p.dev}, RadioTypes(p)
  PROVE  LET q == [p EXCEPT !.dev = s]
         IN  /\ RadioTypes(q)
             /\ (Wired(p) => Wired(q)) /\ (Kept(p, a) => Kept(q, a)) /\ (p.track = p.want => q.track = q.want)
             /\ (Fits(p) => Fits(q)) /\ (Ens(p, a) => Ens(q, a))
             /\ (WillReturn(p, a) => WillReturn(q, a))
<1> DEFINE q == [p EXCEPT !.dev = s]
<1>1. "PIN" \in p.cfg1 /\ p.clocks /\ s \in (IF p.mode.fdd THEN {"ALERT", "FDD"} ELSE {"ALERT", "TX", "RX"})
  BY DEF PinStates
<1>2. Keeps(p, q, {"dev"}) /\ q.dev = s
  BY DEF Keeps, RadioTypes, PhyKeys
<1> HIDE DEF q
<1>3. RadioRest(q)
  BY <1>2, SameRest
<1>4. /\ q.fdd = p.fdd /\ q.indep = p.indep /\ q.pinCtrl = p.pinCtrl /\ q.mode = p.mode /\ q.cfg1 = p.cfg1
      /\ q.prev = p.prev /\ q.curr = p.curr /\ q.pinEn = p.pinEn /\ q.clocks = p.clocks
      /\ q.track = p.track /\ q.want = p.want
  BY <1>2 DEF Keeps, RadioTypes, PhyKeys
<1>5. EnsmTypes(q)
  BY <1>1, <1>2, <1>4 DEF RadioTypes, EnsmTypes, DevStates, ActiveStates
<1>6. (Wired(p) => Wired(q)) /\ (Kept(p, a) => Kept(q, a))
  BY <1>2, SameKept DEF RadioTypes
<1>7. Fits(p) => Fits(q)
  BY <1>1, <1>2, <1>4 DEF Fits
<1>8. Ens(p, a) => Ens(q, a)
  BY <1>1, <1>4 DEF Ens
<1>9. WillReturn(p, a) => WillReturn(q, a)
  BY <1>4 DEF WillReturn
<1>10. RadioTypes(q)
  BY <1>2, <1>3, <1>5 DEF RadioTypes, Keeps
<1> QED BY <1>4, <1>6, <1>7, <1>8, <1>9, <1>10 DEF q

\* A call that enters finds the radio as asked, unless the work item is at it.
LEMMA EnterFinds ==
  ASSUME RadioInv, Enter
  PROVE  /\ RadioTypes(phy) /\ DOMAIN ask = AskKeys /\ call = "idle" /\ upset = "none"
         /\ Note(upset) = "none" => work # "cal"
         /\ Forced = "none" => work # "cal" /\ ~Unrestorable(phy)
         /\ work # "cal" => AsAsked(phy, ask)
<1>1. upset = "none" /\ call = "idle" /\ RadioTypes(phy) /\ DOMAIN ask = AskKeys
  BY DEF Enter, Quiet, RadioInv
<1>2. work # "cal" => AsAsked(phy, ask)
  BY <1>1, Entered DEF Waits
<1> QED BY <1>1, <1>2 DEF Note, Forced

\* The word for the state.
LEMMA EnsmModeStep ==
  ASSUME RadioInv, NEW w \in EnsmWords, EnsmMode(w)
  PROVE  RadioInv'
<1> DEFINE r == StoreEnsmMode(phy, w)
           illegal == w # "?" /\ w # "sleep" /\ Illegal(Wake(phy), WordState(w))
           T == ClockFields \cup {"indep", "mode"}
<1>1. /\ Enter /\ call' = call /\ work' = work
      /\ phy' = r.p
      /\ ask' = [ask EXCEPT !.dev = r.p.dev, !.pin = "PIN" \in r.p.cfg1]
      /\ upset' = IF illegal /\ r.ret = "0" /\ r.p.curr # r.p.dev THEN "illegal" ELSE Note(upset)
  BY DEF EnsmMode, Stay, lock, item
<1>2. /\ RadioTypes(phy) /\ DOMAIN ask = AskKeys /\ call = "idle"
      /\ Note(upset) = "none" => work # "cal"
      /\ work # "cal" => AsAsked(phy, ask)
  BY <1>1, EnterFinds
<1>3. /\ RadioTypes(r.p) /\ Keeps(phy, r.p, T)
      /\ Fits(phy) /\ Shown(phy) /\ ~(illegal /\ r.ret = "0" /\ r.p.curr # r.p.dev)
           => Fits(r.p) /\ Shown(r.p)
  BY <1>2, EnsmModeGood
<1> HIDE DEF r, illegal
<1>4. /\ DOMAIN ask' = AskKeys /\ ask'.dev = phy'.dev /\ ask'.att = ask.att /\ ask'.loop = ask.loop
      /\ ask'.bist = ask.bist /\ ask'.pin = ("PIN" \in phy'.cfg1)
  BY <1>1, <1>2 DEF AskKeys
<1>5. ask'.pin \in BOOLEAN /\ (ask'.pin <=> "PIN" \in phy'.cfg1)
  <2>1. ask'.pin \in BOOLEAN
    BY <1>4, SMT
  <2>2. ask'.pin <=> "PIN" \in phy'.cfg1
    BY <1>4, Zenon
  <2> QED BY <2>1, <2>2
<1>6. ASSUME upset' = "none"
      PROVE  work' # "cal" /\ AsAsked(phy', ask')
  <2>1. work # "cal" /\ AsAsked(phy, ask) /\ ~(illegal /\ r.ret = "0" /\ r.p.curr # r.p.dev)
    BY <1>1, <1>2, <1>6
  <2>2. Shown(phy) /\ Fits(phy)
    BY <2>1 DEF AsAsked, Ens, Shown
  <2>3. Fits(phy') /\ Shown(phy')
    BY <1>1, <1>3, <2>1, <2>2
  <2>4. Ens(phy', ask')
    BY <1>4, <1>5, <2>3 DEF Ens, Shown
  <2>5. Wired(phy') /\ Kept(phy', ask)
    BY <1>1, <1>2, <1>3, <2>1, SameKept DEF RadioTypes, AsAsked, ClockFields
  <2>6. Kept(phy', ask')
    BY <1>4, <2>5 DEF Kept
  <2>7. phy'.track = phy'.want
    BY <1>1, <1>2, <1>3, <2>1 DEF Keeps, RadioTypes, PhyKeys, AsAsked, ClockFields
  <2> QED BY <1>1, <2>1, <2>3, <2>4, <2>5, <2>6, <2>7 DEF AsAsked
<1>7. work' \in {"idle", "cal", "clear"}
  BY <1>1 DEF RadioInv
<1> QED BY <1>1, <1>2, <1>3, <1>4, <1>6, <1>7, Left DEF Waits

\* The calls that set a flag.
LEMMA FlagsStep ==
  ASSUME RadioInv, Flags \/ (\E down \in BOOLEAN : TxLoPower(down))
  PROVE  RadioInv'
<1>1. /\ Enter /\ call' = call /\ work' = work /\ ask' = ask /\ upset' = Note(upset)
      /\ \/ \E want \in {{}, {"bb", "rf", "quad"}} : phy' = StoreTrack(phy, want)
         \/ \E w \in {"auto", "manual", "manual_tx_quad"} : phy' = StoreCalMode(phy, w)
         \/ \E down \in BOOLEAN : phy' = [phy EXCEPT !.txPd = down, !.txPdReg = down]
  BY DEF Flags, TxLoPower, Return, Ok, Stay, lock, item
<1>2. /\ RadioTypes(phy) /\ DOMAIN ask = AskKeys /\ call = "idle"
      /\ Note(upset) = "none" => work # "cal"
      /\ work # "cal" => AsAsked(phy, ask)
  BY <1>1, EnterFinds
<1>3. RadioTypes(phy') /\ (AsAsked(phy, ask) => AsAsked(phy', ask))
  <2> DEFINE q == phy'
  <2>1. \/ \E want \in {{}, {"bb", "rf", "quad"}} : q = StoreTrack(phy, want)
        \/ \E w \in {"auto", "manual", "manual_tx_quad"} : q = StoreCalMode(phy, w)
        \/ \E down \in BOOLEAN : q = [phy EXCEPT !.txPd = down, !.txPdReg = down]
    BY <1>1
  <2> HIDE DEF q
  <2>2. RadioTypes(q) /\ (AsAsked(phy, ask) => AsAsked(q, ask))
    BY <1>2, <2>1, FlagsGood
  <2> QED BY <2>2 DEF q
<1>4. work' \in {"idle", "cal", "clear"}
  BY <1>1 DEF RadioInv
<1> QED BY <1>1, <1>2, <1>3, <1>4, Left DEF Waits

\* The attenuation of an output.
LEMMA AttenStep ==
  ASSUME RadioInv, NEW chan \in 1 .. 2, NEW code \in {0, 400}, TxAtten(chan, code)
  PROVE  RadioInv'
<1> DEFINE r == SetAtten(phy, code, {chan})
           who == {chan}
<1>1. /\ Enter /\ call' = call /\ work' = work /\ upset' = Note(upset)
      /\ phy' = r.p /\ ask' = [ask EXCEPT !.att = r.p.att]
  BY DEF TxAtten, Stay, lock, item
<1>2. /\ RadioTypes(phy) /\ DOMAIN ask = AskKeys /\ call = "idle"
      /\ Note(upset) = "none" => work # "cal"
      /\ work # "cal" => AsAsked(phy, ask)
  BY <1>1, EnterFinds
<1> DEFINE b == ask'
<1>3. /\ DOMAIN b = AskKeys /\ b.dev = ask.dev /\ b.pin = ask.pin /\ b.loop = ask.loop
      /\ b.bist = ask.bist /\ b.att = SetAtten(phy, code, who).p.att
  BY <1>1, <1>2 DEF AskKeys
<1> HIDE DEF who, b
<1>4. LET q == SetAtten(phy, code, who).p
      IN  RadioTypes(q) /\ (AsAsked(phy, ask) => AsAsked(q, b))
  BY <1>2, <1>3, AttenGood
<1>5. work' \in {"idle", "cal", "clear"}
  BY <1>1 DEF RadioInv
<1> QED BY <1>1, <1>2, <1>3, <1>4, <1>5, Left DEF b, who, Waits

\* The self tests; a loopback of no mode is refused when it has been stored.
LEMMA SelfTestStep ==
  ASSUME RadioInv, SelfTest
  PROVE  RadioInv'
<1>1. /\ Enter /\ call' = call /\ work' = work
      /\ \/ \E m \in 0 .. 2 : Return(Loopback(phy, m), [ask EXCEPT !.loop = m])
         \/ phy' = Loopback(phy, 3).p /\ UNCHANGED ask /\ upset' = "-EINVAL"
         \/ \E w \in {BistOff, Prbs("tx"), <<"tone", "rx">>} : Return(Ok(Bist(phy, w)), [ask EXCEPT !.bist = w])
  BY DEF SelfTest, Stay, lock, item
<1>2. /\ RadioTypes(phy) /\ DOMAIN ask = AskKeys /\ call = "idle"
      /\ Note(upset) = "none" => work # "cal"
      /\ work # "cal" => AsAsked(phy, ask)
  BY <1>1, EnterFinds
<1>3. work' \in {"idle", "cal", "clear"}
  BY <1>1 DEF RadioInv
<1>4. ASSUME NEW m \in 0 .. 2, NEW w
      PROVE  /\ RadioTypes(Loopback(phy, m).p) /\ RadioTypes(Bist(phy, w))
             /\ AsAsked(phy, ask) => /\ AsAsked(Loopback(phy, m).p, [ask EXCEPT !.loop = m])
                                     /\ AsAsked(Bist(phy, w), [ask EXCEPT !.bist = w])
  <2> DEFINE b == [ask EXCEPT !.loop = m]
             c == [ask EXCEPT !.bist = w]
  <2>1. /\ b.dev = ask.dev /\ b.pin = ask.pin /\ b.loop = m /\ b.bist = ask.bist /\ b.att = ask.att
    BY <1>2 DEF AskKeys
  <2>2. /\ c.dev = ask.dev /\ c.pin = ask.pin /\ c.loop = ask.loop /\ c.bist = w /\ c.att = ask.att
    BY <1>2 DEF AskKeys
  <2> HIDE DEF b, c
  <2>3. /\ RadioTypes(Loopback(phy, m).p) /\ (AsAsked(phy, ask) => AsAsked(Loopback(phy, m).p, b))
        /\ RadioTypes(Bist(phy, w)) /\ (AsAsked(phy, ask) => AsAsked(Bist(phy, w), c))
    BY <1>2, <2>1, <2>2, SelfTestGood
  <2> QED BY <2>3 DEF b, c
<1>5. CASE \E m \in 0 .. 2 : Return(Loopback(phy, m), [ask EXCEPT !.loop = m])
  <2>1. PICK m \in 0 .. 2 : /\ phy' = Loopback(phy, m).p /\ ask' = [ask EXCEPT !.loop = m]
                            /\ upset' = Note(upset)
    BY <1>5 DEF Return
  <2>2. DOMAIN ask' = AskKeys
    BY <1>2, <2>1
  <2>3. RadioTypes(phy') /\ (AsAsked(phy, ask) => AsAsked(phy', ask'))
    BY <1>4, <2>1
  <2> QED BY <1>1, <1>2, <1>3, <2>1, <2>2, <2>3, Left DEF Waits
<1>6. CASE phy' = Loopback(phy, 3).p /\ UNCHANGED ask /\ upset' = "-EINVAL"
  <2> DEFINE n == 3
  <2>1. phy' = Loopback(phy, n).p
    BY <1>6
  <2> HIDE DEF n
  <2>2. RadioTypes(phy')
    BY <1>2, <2>1, LoopbackTouches DEF Touches
  <2> QED BY <1>1, <1>2, <1>3, <1>6, <2>2, Left DEF Waits
<1>7. CASE \E w \in {BistOff, Prbs("tx"), <<"tone", "rx">>} : Return(Ok(Bist(phy, w)), [ask EXCEPT !.bist = w])
  <2>1. PICK w \in {BistOff, Prbs("tx"), <<"tone", "rx">>} :
            /\ phy' = Bist(phy, w) /\ ask' = [ask EXCEPT !.bist = w] /\ upset' = Note(upset)
    BY <1>7 DEF Return, Ok
  <2>2. DOMAIN ask' = AskKeys
    BY <1>2, <2>1
  <2>3. RadioTypes(phy') /\ (AsAsked(phy, ask) => AsAsked(phy', ask'))
    BY <1>4, <2>1
  <2> QED BY <1>1, <1>2, <1>3, <2>1, <2>2, <2>3, Left DEF Waits
<1> QED BY <1>1, <1>5, <1>6, <1>7

\* The gain step calibration and its table.
LEMMA GainStepStep ==
  ASSUME RadioInv, NEW n \in 0 .. 1, NEW whole \in BOOLEAN, GainStep(n, whole)
  PROVE  RadioInv'
<1> DEFINE c == StepCalib(phy, 0, n)
           s == StoreStep(phy, [words |-> 0, errs |-> n], whole)
<1>1. /\ Enter /\ call' = call /\ work' = work /\ ask' = ask
      /\ \/ phy' = c /\ upset' = Forced
         \/ phy' = s.p /\ upset' = IF whole THEN Forced ELSE IF s.p # phy THEN s.ret ELSE Note(upset)
  BY DEF GainStep, Stay, lock, item
<1>2. /\ RadioTypes(phy) /\ DOMAIN ask = AskKeys /\ call = "idle"
      /\ Forced = "none" => work # "cal" /\ ~Unrestorable(phy)
      /\ Note(upset) = "none" => work # "cal"
      /\ work # "cal" => AsAsked(phy, ask)
  BY <1>1, EnterFinds
<1>3. n \in Int
  OBVIOUS
<1>4. /\ RadioTypes(c) /\ (AsAsked(phy, ask) /\ ~Unrestorable(phy) => AsAsked(c, ask))
      /\ RadioTypes(s.p) /\ (AsAsked(phy, ask) /\ ~Unrestorable(phy) /\ whole => AsAsked(s.p, ask))
      /\ ~whole => s.ret = "-EINVAL"
  BY <1>2, <1>3, StepGood
<1> HIDE DEF c, s
<1>5. RadioTypes(phy')
  BY <1>1, <1>4
<1>6. upset' = "none" => work' # "cal" /\ AsAsked(phy', ask')
  BY <1>1, <1>2, <1>4
<1>7. work' \in {"idle", "cal", "clear"} /\ DOMAIN ask' = AskKeys /\ call' = "idle"
  BY <1>1, <1>2 DEF RadioInv
<1> QED BY <1>5, <1>6, <1>7, Left DEF Waits

\* A step in the middle of a call, or of the work item, keeps the invariant.
LEMMA StillMid ==
  ASSUME RadioInv, RadioTypes(phy'), DOMAIN ask' = AskKeys,
         call' \in {"idle", "bw", "cal", "lo", "wait"}, work' \in {"idle", "cal", "clear"},
         call' = "bw" => arg'.bw \in [rx : Int, tx : Int],
         upset' = "none" => (call' \in Waits <=> work' = "cal") /\ MidCall(phy', ask')
  PROVE  RadioInv'
  BY DEF RadioInv, Stands, Waits

\* A change of bandwidth and a calibration begin.
LEMMA BeginStep ==
  ASSUME RadioInv,
         \/ \E dir \in {"rx", "tx"}, hz \in {4, 16} : Bandwidth(dir, hz)
         \/ \E cal \in {"tx_quad", "rf_dc_offs"}, n \in Int : Calibrate(cal, n)
  PROVE  RadioInv'
<1>1. /\ Enter /\ call' \in {"bw", "cal"} /\ work' = work /\ ask' = ask /\ upset' = Forced
      /\ phy' = CalBegin(phy)
  BY DEF Bandwidth, Calibrate, item
<1>2. /\ RadioTypes(phy) /\ DOMAIN ask = AskKeys /\ call = "idle"
      /\ Forced = "none" => work # "cal" /\ ~Unrestorable(phy)
      /\ work # "cal" => AsAsked(phy, ask)
  BY <1>1, EnterFinds
<1>3. call' = "bw" => arg'.bw \in [rx : Int, tx : Int]
  <2> SUFFICES ASSUME call' = "bw" PROVE arg'.bw \in [rx : Int, tx : Int]
    OBVIOUS
  <2>1. PICK dir \in {"rx", "tx"}, hz \in {4, 16} : arg' = [NoArg EXCEPT !.bw = [phy.bw EXCEPT ![dir] = hz]]
    BY DEF Bandwidth, Calibrate
  <2>2. phy.bw \in [rx : Int, tx : Int]
    BY <1>2 DEF RadioTypes, RadioRest
  <2>3. arg'.bw = [phy.bw EXCEPT ![dir] = hz]
    BY <2>1 DEF NoArg
  <2> QED BY <2>2, <2>3
<1>4. LET q == CalBegin(phy)
      IN  /\ RadioTypes(q)
          /\ Wired(phy) => Wired(q)
          /\ Kept(phy, ask) => Kept(q, ask)
          /\ Fits(phy) /\ Ens(phy, ask) /\ ~Unrestorable(phy) => WillReturn(q, ask)
  BY <1>2, CalBegun
<1>5. RadioTypes(phy')
  BY <1>1, <1>4
<1>6. ASSUME upset' = "none"
      PROVE  work # "cal" /\ MidCall(phy', ask')
  BY <1>1, <1>2, <1>4, <1>6 DEF AsAsked, MidCall
<1>7. work' \in {"idle", "cal", "clear"} /\ DOMAIN ask' = AskKeys
  BY <1>1, <1>2 DEF RadioInv
<1> QED BY <1>1, <1>3, <1>5, <1>6, <1>7, StillMid DEF Waits

\* What a calibration may return.
LEMMA TxQuadAnswers ==
  ASSUME NEW p, NEW rx, NEW tx, NEW n, NEW o
  PROVE  TxQuad(p, rx, tx, n, o).ret \in {"0", "-ETIMEDOUT", "-EFAULT"}
<1>1. ASSUME NEW q, NEW phase
      PROVE  LET s == QuadSteps(q, phase, n, o)
             IN  DOMAIN s = {"p", "ret"} /\ s.ret \in {"0", "-ETIMEDOUT"}
  BY DEF QuadSteps, Ok, Err
<1>2. ASSUME NEW q, NEW x, NEW y, NEW bad
      PROVE  LET u == UpdateFilters(q, x, y, bad)
             IN  DOMAIN u = {"p", "ret"} /\ u.ret \in {"0", "-ETIMEDOUT"}
  BY DEF UpdateFilters
<1> QED BY <1>1, <1>2 DEF TxQuad, Ok, Err

\* A change of bandwidth ends.
LEMMA BandwidthEndStep ==
  ASSUME RadioInv, NEW o \in CalAnswers, BandwidthEnd(o)
  PROVE  RadioInv'
<1> DEFINE r == BwEnd(phy, arg.bw.rx, arg.bw.tx, o)
<1>1. /\ call = "bw" /\ call' = "idle" /\ work' = work /\ phy' = r.p /\ ask' = ask
      /\ upset' = IF r.ret # "0" THEN r.ret ELSE upset
  BY DEF BandwidthEnd, Ends, item
<1>2. /\ RadioTypes(phy) /\ DOMAIN ask = AskKeys /\ arg.bw.rx \in Int /\ arg.bw.tx \in Int
      /\ work \in {"idle", "cal", "clear"}
      /\ upset = "none" => work # "cal" /\ MidCall(phy, ask)
  BY <1>1 DEF RadioInv, Stands, Waits
<1>3. o.narrow = "none"
  BY DEF CalAnswers
<1>4. /\ RadioTypes(r.p)
      /\ MidCall(phy, ask) /\ r.ret = "0" => AsAsked(r.p, ask)
  BY <1>2, <1>3, BwEnded
<1>5. r.ret \in {"0", "-ETIMEDOUT", "-EFAULT"}
  BY TxQuadAnswers DEF BwEnd, UpdateFilters, Ok
<1> HIDE DEF r
<1> QED BY <1>1, <1>2, <1>4, <1>5, Left DEF Waits

\* A calibration ends.
LEMMA CalibrateEndStep ==
  ASSUME RadioInv, NEW o \in CalAnswers, CalibrateEnd(o)
  PROVE  RadioInv'
<1> DEFINE r == CalEnd(phy, arg.cal, arg.n, o)
<1>1. /\ call = "cal" /\ call' = "idle" /\ work' = work /\ phy' = r.p /\ ask' = ask
      /\ upset' = IF o.bad \in {"rx", "tx"} /\ r.ret # "0" THEN r.ret ELSE upset
  BY DEF CalibrateEnd, Ends, item
<1>2. /\ RadioTypes(phy) /\ DOMAIN ask = AskKeys
      /\ work \in {"idle", "cal", "clear"}
      /\ upset = "none" => work # "cal" /\ MidCall(phy, ask)
  BY <1>1 DEF RadioInv, Stands, Waits
<1>3. o.narrow = "none"
  BY DEF CalAnswers
<1>4. /\ RadioTypes(r.p)
      /\ MidCall(phy, ask) /\ (r.ret = "0" \/ o.bad \notin {"rx", "tx"}) => AsAsked(r.p, ask)
  BY <1>2, <1>3, CalEnded
<1>5. r.ret \in {"0", "-ETIMEDOUT", "-EFAULT"}
  <2> DEFINE c == IF arg.cal = "tx_quad" THEN TxQuad(phy, phy.bw.rx \div 2, phy.bw.tx \div 2, arg.n, o)
                  ELSE IF o.bad = "quad1" THEN Err(phy, "-ETIMEDOUT") ELSE Ok(phy)
  <2>1. c.ret \in {"0", "-ETIMEDOUT", "-EFAULT"}
    BY TxQuadAnswers DEF Ok, Err
  <2>2. r = [c EXCEPT !.p = RestorePrev([c.p EXCEPT !.track = c.p.want])]
    BY DEF CalEnd
  <2>3. DOMAIN c = {"p", "ret"}
    BY DEF TxQuad, Err, Ok, UpdateFilters, QuadSteps
  <2> HIDE DEF c, r
  <2> QED BY <2>1, <2>2, <2>3
<1> HIDE DEF r
<1> QED BY <1>1, <1>2, <1>4, <1>5, Left DEF Waits

\* A write of the transmit LO, which touches nothing of this.
LEMMA LoStep ==
  ASSUME RadioInv, TxLo \/ LoWrite \/ WorkClear
  PROVE  RadioInv'
<1>1. phy' = phy /\ ask' = ask /\ upset' = upset /\ arg' = arg
  BY DEF TxLo, LoWrite, TxLoTest, TxLoWaited, WorkClear, lock
<1>2. \/ call \in Waits /\ call' \in Waits /\ work' = work
      \/ call' = call /\ work = "clear" /\ work' = "idle"
  BY DEF TxLo, LoWrite, TxLoTest, TxLoWaited, WorkClear, ItemClears, Enter, Waits, lock, item
<1>3. RadioTypes(phy') /\ DOMAIN ask' = AskKeys
  BY <1>1 DEF RadioInv
<1>4. Stands(call, work, phy, ask) => Stands(call', work', phy', ask')
  BY <1>1, <1>2 DEF Stands, Waits
<1>5. /\ call' \in {"idle", "bw", "cal", "lo", "wait", "init"} /\ work' \in {"idle", "cal", "clear"}
      /\ call' = "bw" => arg'.bw \in [rx : Int, tx : Int]
  BY <1>1, <1>2 DEF RadioInv, Waits
<1> QED BY <1>1, <1>3, <1>4, <1>5 DEF RadioInv

\* A new initialisation begins.
LEMMA ReinitBeginStep ==
  ASSUME RadioInv, ReinitBegin
  PROVE  RadioInv'
<1>1. /\ Enter /\ call' = "init" /\ phy' = RestorePrev(ForceState(phy, "ALERT"))
      /\ upset' = Note(upset) /\ work' = work /\ ask' = ask
  BY DEF ReinitBegin
<1>2. /\ RadioTypes(phy) /\ DOMAIN ask = AskKeys
      /\ Note(upset) = "none" => work # "cal"
      /\ work # "cal" => AsAsked(phy, ask)
  BY <1>1, EnterFinds
<1>3. LET z == RestorePrev(ForceState(phy, "ALERT"))
      IN  RadioTypes(z) /\ (Wired(phy) => Wired(z)) /\ (Kept(phy, ask) => Kept(z, ask))
  BY <1>2, ForcedAsAsked
<1>4. upset' = "none" => Stands(call', work', phy', ask')
  BY <1>1, <1>2, <1>3 DEF Stands, AsAsked
<1>5. RadioTypes(phy')
  BY <1>1, <1>3
<1> QED BY <1>1, <1>2, <1>4, <1>5 DEF RadioInv

\* And ends.
LEMMA ReinitEndStep ==
  ASSUME RadioInv, NEW o \in TuneAnswers, ReinitEnd(o)
  PROVE  RadioInv'
<1> DEFINE z == Reinit(phy, o)
<1>1. /\ call = "init" /\ call' = "idle" /\ phy' = z /\ work' = work
      /\ ask' = [dev |-> phy'.dev, pin |-> FALSE, att |-> phy'.att, loop |-> 0, bist |-> BistOff]
      /\ upset' = IF phy'.dsel = "loop" THEN "loopback" ELSE Note(upset)
  BY DEF ReinitEnd, InitGoesOn
<1> DEFINE a == ask'
<1>2. /\ a.dev = phy'.dev /\ ~a.pin /\ a.pin \in BOOLEAN /\ a.att = phy'.att /\ a.loop = 0
      /\ a.bist = BistOff /\ DOMAIN a = AskKeys
  <2> HIDE DEF z
  <2> DEFINE d == phy'.dev
             t == phy'.att
  <2>1. a = [dev |-> d, pin |-> FALSE, att |-> t, loop |-> 0, bist |-> BistOff]
    BY <1>1
  <2> HIDE DEF a, d, t
  <2>2. a.dev = d /\ ~a.pin /\ a.pin \in BOOLEAN /\ a.att = t /\ a.loop = 0 /\ a.bist = BistOff
        /\ DOMAIN a = AskKeys
    BY <2>1 DEF AskKeys
  <2> QED BY <2>2 DEF d, t
<1>3. RadioTypes(phy) /\ work \in {"idle", "cal", "clear"} /\ (upset = "none" => Wired(phy))
  BY <1>1 DEF RadioInv, Stands, MidCall, Waits
<1>4. Note(upset) = "none" => upset = "none" /\ work # "cal"
  BY DEF Note
<1>5. a.dev = z.dev /\ a.att = z.att
  BY <1>1, <1>2
<1> HIDE DEF a
<1>6. RadioTypes(z) /\ (Wired(phy) /\ z.dsel # "loop" => AsAsked(z, a))
  BY <1>2, <1>3, <1>5, ReinitGood
<1> HIDE DEF z
<1>7. RadioTypes(phy') /\ (upset' = "none" => work' # "cal" /\ AsAsked(phy', ask'))
  BY <1>1, <1>3, <1>4, <1>6 DEF a
<1>8. DOMAIN ask' = AskKeys
  BY <1>2 DEF a
<1> QED BY <1>1, <1>3, <1>7, <1>8, Left DEF Waits

\* The work item begins its calibration.
LEMMA WorkStartStep ==
  ASSUME RadioInv, WorkStart
  PROVE  RadioInv'
<1>1. /\ work = "idle" /\ work' = "cal" /\ phy' = CalBegin(phy) /\ call' = call /\ arg' = arg /\ ask' = ask
      /\ upset' = IF Unrestorable(phy) THEN "unrestorable"
                  ELSE IF call \in {"bw", "cal", "init"} THEN "race" ELSE upset
  BY DEF WorkStart, ItemBegins, lock
<1>2. /\ RadioTypes(phy) /\ DOMAIN ask = AskKeys
      /\ call \in {"idle", "bw", "cal", "lo", "wait", "init"} /\ (call = "bw" => arg.bw \in [rx : Int, tx : Int])
  BY DEF RadioInv
<1>3. LET q == CalBegin(phy)
      IN  /\ RadioTypes(q)
          /\ Wired(phy) => Wired(q)
          /\ Kept(phy, ask) => Kept(q, ask)
          /\ Fits(phy) /\ Ens(phy, ask) /\ ~Unrestorable(phy) => WillReturn(q, ask)
  BY <1>2, CalBegun
<1>4. ASSUME upset' = "none"
      PROVE  Stands(call', work', phy', ask')
  <2>1. upset = "none" /\ call \in Waits /\ ~Unrestorable(phy)
    BY <1>1, <1>2, <1>4 DEF Waits
  <2>2. AsAsked(phy, ask)
    BY <1>1, <2>1, Entered
  <2>3. MidCall(phy', ask')
    BY <1>1, <1>3, <2>1, <2>2 DEF AsAsked, MidCall
  <2> QED BY <1>1, <2>1, <2>3 DEF Stands, Waits
<1>5. RadioTypes(phy')
  BY <1>1, <1>3
<1> QED BY <1>1, <1>2, <1>4, <1>5 DEF RadioInv

\* And ends it.
LEMMA WorkCalStep ==
  ASSUME RadioInv, NEW o \in CalAnswers, WorkCal(o)
  PROVE  RadioInv'
<1> DEFINE tq == "tx_quad"
           r == CalEnd(phy, tq, phy.phase, o)
<1>1. /\ work = "cal" /\ work' = "clear" /\ phy' = r.p /\ call' = call /\ arg' = arg /\ ask' = ask
      /\ upset' = IF o.bad \in {"rx", "tx"} /\ r.ret # "0" THEN r.ret ELSE upset
  BY DEF WorkCal, ItemTells, Ends, lock
<1>2. /\ RadioTypes(phy) /\ DOMAIN ask = AskKeys
      /\ call \in {"idle", "bw", "cal", "lo", "wait", "init"} /\ (call = "bw" => arg.bw \in [rx : Int, tx : Int])
      /\ upset = "none" => call \in Waits /\ MidCall(phy, ask)
  BY <1>1 DEF RadioInv, Stands, Waits
<1>3. o.narrow = "none"
  BY DEF CalAnswers
<1>4. r.ret \in {"0", "-ETIMEDOUT", "-EFAULT"}
  <2> DEFINE c == TxQuad(phy, phy.bw.rx \div 2, phy.bw.tx \div 2, phy.phase, o)
  <2>1. c.ret \in {"0", "-ETIMEDOUT", "-EFAULT"}
    BY TxQuadAnswers
  <2>2. r = [c EXCEPT !.p = RestorePrev([c.p EXCEPT !.track = c.p.want])]
    BY DEF CalEnd
  <2>3. DOMAIN c = {"p", "ret"}
    BY DEF TxQuad, Err, Ok, UpdateFilters, QuadSteps
  <2> HIDE DEF c, r
  <2> QED BY <2>1, <2>2, <2>3
<1> HIDE DEF tq
<1>5. /\ RadioTypes(r.p)
      /\ MidCall(phy, ask) /\ (r.ret = "0" \/ o.bad \notin {"rx", "tx"}) => AsAsked(r.p, ask)
  BY <1>2, <1>3, CalEnded
<1> HIDE DEF r
<1>6. ASSUME upset' = "none"
      PROVE  Stands(call', work', phy', ask')
  BY <1>1, <1>2, <1>4, <1>5, <1>6 DEF Stands
<1> QED BY <1>1, <1>2, <1>5, <1>6 DEF RadioInv

\* A tuning asked for through debugfs.
LEMMA TuneStep ==
  ASSUME RadioInv, NEW m \in BOOLEAN, NEW flags, NEW o, Tune(m, flags, o)
  PROVE  RadioInv'
<1> DEFINE z == DigTune(phy, m, flags, o).p
           odd == \/ Unrestorable(phy) \/ "PIN" \in phy.cfg1
                  \/ (m /\ (phy.bbTune \/ phy.fir) /\ phy.skip # 2)
<1>1. /\ Enter /\ call' = call /\ work' = work /\ ask' = ask /\ phy' = z
      /\ upset' = IF odd /\ phy.conv = "core" THEN "tune" ELSE Note(upset)
  BY DEF Tune, Stay, lock, item, StoreTune
<1>2. /\ RadioTypes(phy) /\ DOMAIN ask = AskKeys /\ call = "idle"
      /\ Note(upset) = "none" => work # "cal"
      /\ work # "cal" => AsAsked(phy, ask)
  BY <1>1, EnterFinds
<1>3. Touches(phy, z) /\ (Tunable(phy, ask) /\ ~(m /\ phy.bbTune /\ phy.skip # 2) => Tunable(z, ask))
  BY <1>2, DigTuneTouches
<1>4. phy.conv # "core" => z = phy
  BY DEF DigTune, TuneAt, Err
<1> HIDE DEF z
<1>5. ASSUME upset' = "none"
      PROVE  work' # "cal" /\ AsAsked(phy', ask')
  <2>1. CASE phy.conv # "core"
    BY <1>1, <1>2, <1>4, <1>5, <2>1
  <2>2. CASE phy.conv = "core"
    <3>1. ~odd /\ Note(upset) = "none"
      BY <1>1, <1>5, <2>2
    <3>2. Tunable(phy, ask) /\ work # "cal"
      BY <1>2, <3>1 DEF Tunable
    <3>3. Tunable(z, ask)
      BY <1>3, <3>1, <3>2
    <3> QED BY <1>1, <3>2, <3>3 DEF Tunable
  <2> QED BY <2>1, <2>2
<1>6. RadioTypes(phy') /\ work' \in {"idle", "cal", "clear"} /\ DOMAIN ask' = AskKeys
  BY <1>1, <1>2, <1>3 DEF Touches, RadioInv
<1> QED BY <1>1, <1>2, <1>5, <1>6, Left DEF Waits

\* The timing analysis and the filter file, which may come at any time.
LEMMA UnlockedStep ==
  ASSUME RadioInv, Analysis \/ FilterFile
  PROVE  RadioInv'
<1> DEFINE z == TimingAnalysis(phy)
           x == CoefsLoaded(phy)
           y == CoefsLoaded(x)
<1>1. /\ upset = "none" /\ call' = call /\ arg' = arg /\ work' = work /\ ask' = ask
      /\ \/ /\ phy' = z
            /\ upset' = IF (Unrestorable(phy) \/ "PIN" \in phy.cfg1) /\ phy.conv = "core" THEN "tune"
                        ELSE IF call \in {"bw", "cal", "init"} THEN "race" ELSE Note(upset)
         \/ /\ phy' = y
            /\ upset' = IF call \in {"bw", "cal", "init"} THEN "race" ELSE Forced
  BY DEF Analysis, FilterFile, Quiet, Stay, lock, item
<1>2. /\ RadioTypes(phy) /\ DOMAIN ask = AskKeys /\ work \in {"idle", "cal", "clear"}
      /\ call \in {"idle", "bw", "cal", "lo", "wait", "init"} /\ (call = "bw" => arg.bw \in [rx : Int, tx : Int])
  BY DEF RadioInv
<1>3. Touches(phy, z) /\ (Tunable(phy, ask) => Tunable(z, ask))
  BY <1>2, AnalysisTouches
<1>4. phy.conv # "core" => z = phy
  BY DEF TimingAnalysis
<1>5. RadioTypes(x) /\ (AsAsked(phy, ask) /\ ~Unrestorable(phy) => AsAsked(x, ask) /\ ~Unrestorable(x))
  BY <1>2, ForcedAsAsked DEF CoefsLoaded
<1> HIDE DEF x
<1>6. RadioTypes(y) /\ (AsAsked(x, ask) /\ ~Unrestorable(x) => AsAsked(y, ask))
  BY <1>5, ForcedAsAsked DEF CoefsLoaded
<1> HIDE DEF y, z
<1>7. RadioTypes(phy')
  BY <1>1, <1>3, <1>6 DEF Touches
<1>8. ASSUME upset' = "none"
      PROVE  Stands(call', work', phy', ask')
  <2>1. call \in Waits /\ work # "cal"
    BY <1>1, <1>2, <1>8 DEF Waits, Note, Forced
  <2>2. AsAsked(phy, ask)
    BY <1>1, <2>1, Entered
  <2>3. AsAsked(phy', ask')
    <3>1. CASE phy' = z /\ upset' # "tune" /\ ~((Unrestorable(phy) \/ "PIN" \in phy.cfg1) /\ phy.conv = "core")
      <4>1. CASE phy.conv # "core"
        BY <1>1, <1>4, <2>2, <3>1, <4>1
      <4>2. CASE phy.conv = "core"
        BY <1>1, <1>3, <2>2, <3>1, <4>2 DEF Tunable
      <4> QED BY <4>1, <4>2
    <3>2. CASE phy' = y /\ upset' = Forced
      <4>1. ~Unrestorable(phy)
        BY <1>8, <3>2 DEF Forced
      <4> QED BY <1>1, <1>5, <1>6, <2>2, <3>2, <4>1
    <3> QED BY <1>1, <1>8, <2>1, <3>1, <3>2 DEF Waits
  <2> QED BY <1>1, <2>1, <2>3 DEF Stands
<1> QED BY <1>1, <1>2, <1>7, <1>8 DEF RadioInv

\* The pins move the chip.
LEMMA PinsStep ==
  ASSUME RadioInv, Pins
  PROVE  RadioInv'
<1>1. PICK s \in PinStates(phy) \ {phy.dev} : phy' = [phy EXCEPT !.dev = s]
  BY DEF Pins
<1>2. call' = call /\ arg' = arg /\ work' = work /\ ask' = ask /\ upset' = upset
  BY DEF Pins, lock, item
<1>3. RadioTypes(phy)
  BY DEF RadioInv
<1>4. LET q == [phy EXCEPT !.dev = s]
      IN  /\ RadioTypes(q)
          /\ (Wired(phy) => Wired(q)) /\ (Kept(phy, ask) => Kept(q, ask)) /\ (phy.track = phy.want => q.track = q.want)
          /\ (Fits(phy) => Fits(q)) /\ (Ens(phy, ask) => Ens(q, ask))
          /\ (WillReturn(phy, ask) => WillReturn(q, ask))
  BY <1>3, PinsGood
<1>5. Stands(call, work, phy, ask) => Stands(call', work', phy', ask')
  BY <1>1, <1>2, <1>4 DEF Stands, AsAsked, MidCall
<1> QED BY <1>1, <1>2, <1>4, <1>5 DEF RadioInv

\* Every step of the radio keeps the invariant.
LEMMA RadioSteps == RadioInv /\ [RadioNext]_rvars => RadioInv'
<1> SUFFICES ASSUME RadioInv, [RadioNext]_rvars PROVE RadioInv'
  OBVIOUS
<1>1. CASE UNCHANGED rvars
  BY <1>1 DEF rvars, lock, item, RadioInv
<1>2. CASE \E w \in EnsmWords : EnsmMode(w)
  BY <1>2, EnsmModeStep
<1>3. CASE Flags \/ \E down \in BOOLEAN : TxLoPower(down)
  BY <1>3, FlagsStep
<1>4. CASE SelfTest
  BY <1>4, SelfTestStep
<1>5. CASE TxLo \/ LoWrite \/ WorkClear
  BY <1>5, LoStep
<1>6. CASE WorkStart
  BY <1>6, WorkStartStep
<1>7. CASE \E o \in CalAnswers : WorkCal(o)
  BY <1>7, WorkCalStep
<1>8. CASE Analysis \/ FilterFile
  BY <1>8, UnlockedStep
<1>9. CASE Pins
  BY <1>9, PinsStep
<1>10. CASE \E chan \in 1 .. 2, code \in {0, 400} : TxAtten(chan, code)
  BY <1>10, AttenStep
<1>11. CASE \E n \in 0 .. 1, whole \in BOOLEAN : GainStep(n, whole)
  BY <1>11, GainStepStep
<1>12. CASE \/ \E dir \in {"rx", "tx"}, hz \in {4, 16} : Bandwidth(dir, hz)
            \/ \E n \in {-2, -1, 22} : Calibrate("tx_quad", n)
            \/ Calibrate("rf_dc_offs", -1)
  <2>1. CASE \E dir \in {"rx", "tx"}, hz \in {4, 16} : Bandwidth(dir, hz)
    BY <2>1, BeginStep
  <2>2. CASE \E n \in {-2, -1, 22} : Calibrate("tx_quad", n)
    <3>1. \E cal \in {"tx_quad", "rf_dc_offs"}, n \in Int : Calibrate(cal, n)
      BY <2>2
    <3> QED BY <3>1, BeginStep
  <2>3. CASE Calibrate("rf_dc_offs", -1)
    <3>1. \E cal \in {"tx_quad", "rf_dc_offs"}, n \in Int : Calibrate(cal, n)
      BY <2>3
    <3> QED BY <3>1, BeginStep
  <2> QED BY <1>12, <2>1, <2>2, <2>3
<1>13. CASE \E o \in CalAnswers : BandwidthEnd(o)
  BY <1>13, BandwidthEndStep
<1>14. CASE \E o \in CalAnswers : CalibrateEnd(o)
  BY <1>14, CalibrateEndStep
<1>15. CASE ReinitBegin
  BY <1>15, ReinitBeginStep
<1>16. CASE \E o \in TuneAnswers : ReinitEnd(o)
  BY <1>16, ReinitEndStep
<1>17. CASE \E m \in BOOLEAN, flags \in {{}, {"DEFAULT"}, {"NOSTORE", "IDELAY", "ODELAY"}}, o \in TuneAnswers :
              Tune(m, flags, o)
  BY <1>17, TuneStep
<1> QED BY <1>1, <1>2, <1>3, <1>4, <1>5, <1>6, <1>7, <1>8, <1>9, <1>10, <1>11, <1>12, <1>13, <1>14, <1>15,
           <1>16, <1>17 DEF RadioNext, Work

\* The other topics do not touch the radio.
THEOREM RadioInvariance == DriverSpec => []RadioInv
<1>1. DriverInit => RadioInv
  BY RadioStarts DEF DriverInit
<1>2. RadioInv /\ [DriverNext]_drivervars => RadioInv'
  BY RadioSteps DEF DriverNext, drivervars
<1> QED BY <1>1, <1>2, PTL DEF DriverSpec

\* What the invariant says between two calls.
LEMMA RadioInvAgrees == RadioInv => RadioAsAsked
<1> SUFFICES ASSUME RadioInv PROVE RadioAsAsked
  OBVIOUS
<1>1. RadioTypeOK
  <2>1. /\ phy.dev \in DevStates /\ phy.prev \in DevStates \cup {"INVALID"} /\ phy.curr \in DevStates \cup {"SLEEP"}
        /\ phy.cfg1 \subseteq {"TX", "RX", "ALERT", "TO", "PIN"} /\ phy.track \subseteq {"bb", "rf", "quad"}
        /\ phy.att \in [1 .. 2 -> 0 .. MaxAtten]
    BY DEF RadioInv, RadioTypes, EnsmTypes, RadioRest
  <2>2. \A i \in 1 .. 2 : phy.att[i] \in 0 .. MaxAtten
    BY <2>1
  <2>3. call \in {"idle", "bw", "cal", "lo", "wait", "init"} /\ work \in {"idle", "cal", "clear"}
    BY DEF RadioInv
  <2> QED BY <2>1, <2>2, <2>3 DEF RadioTypeOK, DevStates
<1>2. ASSUME Settled PROVE AsAsked(phy, ask)
  BY <1>2, Entered DEF Settled, Quiet, Waits
<1>3. ASSUME AsAsked(phy, ask)
      PROVE  /\ phy.track = phy.want /\ phy.filt = phy.bw /\ phy.txPdReg = phy.txPd
             /\ phy.att = ask.att /\ phy.bist = ask.bist /\ phy.stepReg = phy.step
             /\ phy.loopReg = (ask.loop = 1)
             /\ phy.dsel = IF ask.loop = 2 /\ phy.conv = "core" THEN "loop" ELSE "dma"
  BY <1>3 DEF AsAsked, Wired, Kept
<1>4. ASSUME AsAsked(phy, ask)
      PROVE  /\ ("PIN" \in phy.cfg1) = ask.pin
             /\ (ask.pin \/ phy.dev = ask.dev)
             /\ (~ask.pin /\ phy.curr \in ActiveStates \cup {"ALERT"}) => phy.dev = phy.curr
             /\ (phy.curr = "SLEEP") <=> ~phy.clocks
  <2>1. ask.pin \in BOOLEAN /\ ("PIN" \in phy.cfg1 <=> ask.pin)
    BY <1>4 DEF AsAsked, Ens
  <2>2. ("PIN" \in phy.cfg1) = ask.pin
    BY <2>1
  <2> QED BY <1>4, <2>2 DEF AsAsked, Ens, Fits, Listed
<1> QED BY <1>1, <1>2, <1>3, <1>4 DEF RadioAsAsked

\* The calibration of the work item, which takes no lock, and a call that forces a state
\* come in between each other's force and restore: a call while the item calibrates (a
\* write of the transmit LO forces nothing), the item, an analysis or a filter file
\* while a bandwidth is changed, a calibration runs or the chip is set up.
Overlap ==
  \/ WorkStart /\ call \in {"bw", "cal", "init"}
  \/ calls' = calls + 1 /\ ~TxLo /\ (work = "cal" \/ call \in {"bw", "cal", "init"})

\* A state is forced that the restore cannot bring back: WAIT, or a pin bit that is kept
\* from an earlier force.
ForcedForGood ==
  /\ Unrestorable(phy)
  /\ \/ WorkStart \/ FilterFile
     \/ \E n \in 0 .. 1, whole \in BOOLEAN : GainStep(n, whole)
     \/ \E dir \in {"rx", "tx"}, hz \in {4, 16} : Bandwidth(dir, hz)
     \/ \E cal \in {"tx_quad", "rf_dc_offs"}, n \in Int : Calibrate(cal, n)

\* An error is returned over what has been changed: a change of bandwidth that fails
\* (ad9361_main.c 5301, 5310), a calibration during which a filter times out, the errors of
\* the gain steps before they are all there, a mode of loopback there is not.
LeftChanged ==
  \/ \E o \in CalAnswers :
       \/ BandwidthEnd(o) /\ BwEnd(phy, arg.bw.rx, arg.bw.tx, o).ret # "0"
       \/ /\ o.bad \in {"rx", "tx"}
          /\ \/ CalibrateEnd(o) /\ CalEnd(phy, arg.cal, arg.n, o).ret # "0"
             \/ WorkCal(o) /\ CalEnd(phy, "tx_quad", phy.phase, o).ret # "0"
  \/ \E n \in 0 .. 1 : /\ GainStep(n, FALSE) /\ phy' # phy
                       /\ phy' = StoreStep(phy, [words |-> 0, errs |-> n], FALSE).p
  \/ SelfTest /\ phy' = Loopback(phy, 3).p /\ UNCHANGED ask

\* A tuning that forces states twice over: from a state the restore cannot bring back,
\* under pin control, or nested, at each rate.
TuneFlags == {{}, {"DEFAULT"}, {"NOSTORE", "IDELAY", "ODELAY"}}
TunedTwice ==
  /\ phy.conv = "core"
  /\ \/ /\ Unrestorable(phy) \/ "PIN" \in phy.cfg1
        /\ Analysis \/ \E m \in BOOLEAN, flags \in TuneFlags, o \in TuneAnswers : Tune(m, flags, o)
     \/ /\ (phy.bbTune \/ phy.fir) /\ phy.skip # 2
        /\ \E flags \in TuneFlags, o \in TuneAnswers : Tune(TRUE, flags, o)

\* A mode that is not legal, which ad9361_ensm_set_state accepts although the chip does
\* not follow.
IllegalMode ==
  \E w \in EnsmWords \ {"?", "sleep"} :
    EnsmMode(w) /\ Illegal(Wake(phy), WordState(w)) /\ phy'.curr # phy'.dev

\* A new initialisation that finds the FPGA in loopback.
LoopbackOutlives == \E o \in TuneAnswers : ReinitEnd(o) /\ phy'.dsel = "loop"

\* The steps after which the radio need not be as it was asked for.
RadioExcepted ==
  Overlap \/ ForcedForGood \/ LeftChanged \/ TunedTwice \/ IllegalMode \/ LoopbackOutlives

\* No other step upsets the radio.
LEMMA OnlyExcepted ==
  ASSUME RadioInv, upset = "none", [RadioNext]_rvars, ~RadioExcepted
  PROVE  upset' = "none"
<1> USE DEF RadioExcepted
<1>0. ASSUME calls' = calls + 1, ~TxLo
      PROVE  work # "cal" /\ call \notin {"bw", "cal", "init"}
  BY <1>0 DEF Overlap
<1>1. CASE UNCHANGED rvars
  BY <1>1 DEF rvars
<1>2. ASSUME NEW w \in EnsmWords, EnsmMode(w) PROVE upset' = "none"
  <2>1. work # "cal"
    BY <1>0, <1>2 DEF EnsmMode, Enter, Stay, lock, TxLo
  <2>2. CASE w \in {"?", "sleep"}
    BY <1>2, <2>1, <2>2 DEF EnsmMode, Note
  <2>3. CASE w \notin {"?", "sleep"} /\ Illegal(Wake(phy), WordState(w))
    <3>1. phy'.curr = phy'.dev
      BY <1>2, <2>3 DEF IllegalMode
    <3> QED BY <1>2, <2>1, <3>1 DEF EnsmMode, Note
  <2>4. CASE ~Illegal(Wake(phy), WordState(w))
    BY <1>2, <2>1, <2>4 DEF EnsmMode, Note
  <2> QED BY <2>2, <2>3, <2>4
<1>3. CASE Flags \/ \E down \in BOOLEAN : TxLoPower(down)
  <2>1. work # "cal"
    BY <1>0, <1>3 DEF Flags, TxLoPower, Enter, Stay, lock, TxLo
  <2> QED BY <1>3, <2>1 DEF Flags, TxLoPower, Return, Note
<1>4. CASE SelfTest
  <2>1. work # "cal"
    BY <1>0, <1>4 DEF SelfTest, Enter, Stay, lock, TxLo
  <2>2. ~(phy' = Loopback(phy, 3).p /\ UNCHANGED ask)
    BY <1>4 DEF LeftChanged
  <2> QED BY <1>4, <2>1, <2>2 DEF SelfTest, Return, Note
<1>5. CASE TxLo \/ LoWrite \/ WorkClear
  BY <1>5 DEF TxLo, LoWrite, WorkClear
<1>6. CASE WorkStart
  BY <1>6 DEF WorkStart, Overlap, ForcedForGood
<1>7. ASSUME NEW o \in CalAnswers, WorkCal(o) PROVE upset' = "none"
  BY <1>7 DEF WorkCal, Ends, LeftChanged
<1>8. CASE Analysis
  <2>1. work # "cal" /\ call \notin {"bw", "cal", "init"}
    BY <1>0, <1>8 DEF Analysis, Enter, Stay, lock, TxLo
  <2>2. ~((Unrestorable(phy) \/ "PIN" \in phy.cfg1) /\ phy.conv = "core")
    BY <1>8 DEF TunedTwice
  <2> QED BY <1>8, <2>1, <2>2 DEF Analysis, Note
<1>9. CASE FilterFile
  <2>1. work # "cal" /\ call \notin {"bw", "cal", "init"}
    BY <1>0, <1>9 DEF FilterFile, Enter, Stay, lock, TxLo
  <2>2. ~Unrestorable(phy)
    BY <1>9 DEF ForcedForGood
  <2> QED BY <1>9, <2>1, <2>2 DEF FilterFile, Forced, Note
<1>10. CASE Pins
  BY <1>10 DEF Pins
<1>11. ASSUME NEW chan \in 1 .. 2, NEW code \in {0, 400}, TxAtten(chan, code) PROVE upset' = "none"
  <2>1. work # "cal"
    BY <1>0, <1>11 DEF TxAtten, Enter, Stay, lock, TxLo
  <2> QED BY <1>11, <2>1 DEF TxAtten, Note
<1>12. ASSUME NEW n \in 0 .. 1, NEW whole \in BOOLEAN, GainStep(n, whole) PROVE upset' = "none"
  <2>1. work # "cal"
    BY <1>0, <1>12 DEF GainStep, Enter, Stay, lock, TxLo
  <2>2. ~Unrestorable(phy)
    BY <1>12 DEF ForcedForGood
  <2>3. Forced = "none"
    BY <2>1, <2>2 DEF Forced, Note
  <2>4. CASE whole
    BY <1>12, <2>3, <2>4 DEF GainStep
  <2>5. CASE ~whole
    <3>1. phy' # StoreStep(phy, [words |-> 0, errs |-> n], FALSE).p \/ phy' = phy
      BY <1>12, <2>5 DEF LeftChanged
    <3> QED BY <1>12, <2>1, <2>3, <2>5, <3>1 DEF GainStep, Note
  <2> QED BY <2>4, <2>5
<1>13. ASSUME NEW dir \in {"rx", "tx"}, NEW hz \in {4, 16}, Bandwidth(dir, hz) PROVE upset' = "none"
  <2>1. work # "cal"
    BY <1>0, <1>13 DEF Bandwidth, Enter, TxLo
  <2>2. ~Unrestorable(phy)
    BY <1>13 DEF ForcedForGood
  <2> QED BY <1>13, <2>1, <2>2 DEF Bandwidth, Forced, Note
<1>14. ASSUME NEW cal \in {"tx_quad", "rf_dc_offs"}, NEW n \in Int, Calibrate(cal, n) PROVE upset' = "none"
  <2>1. work # "cal"
    BY <1>0, <1>14 DEF Calibrate, Enter, TxLo
  <2>2. ~Unrestorable(phy)
    BY <1>14 DEF ForcedForGood
  <2> QED BY <1>14, <2>1, <2>2 DEF Calibrate, Forced, Note
<1>15. ASSUME NEW o \in CalAnswers, BandwidthEnd(o) PROVE upset' = "none"
  BY <1>15 DEF BandwidthEnd, Ends, LeftChanged
<1>16. ASSUME NEW o \in CalAnswers, CalibrateEnd(o) PROVE upset' = "none"
  BY <1>16 DEF CalibrateEnd, Ends, LeftChanged
<1>17. CASE ReinitBegin
  <2>1. work # "cal"
    BY <1>0, <1>17 DEF ReinitBegin, Enter, TxLo
  <2> QED BY <1>17, <2>1 DEF ReinitBegin, Note
<1>18. ASSUME NEW o \in TuneAnswers, ReinitEnd(o) PROVE upset' = "none"
  <2>1. phy'.dsel # "loop" /\ call = "init"
    BY <1>18 DEF LoopbackOutlives, ReinitEnd, InitGoesOn
  <2>2. work # "cal"
    BY <2>1 DEF RadioInv, Stands, Waits
  <2> QED BY <1>18, <2>1, <2>2 DEF ReinitEnd, Note
<1>19. ASSUME NEW m \in BOOLEAN, NEW flags \in TuneFlags, NEW o \in TuneAnswers, Tune(m, flags, o)
       PROVE  upset' = "none"
  <2>1. work # "cal"
    BY <1>0, <1>19 DEF Tune, Enter, Stay, lock, TxLo
  <2>2. ~((Unrestorable(phy) \/ "PIN" \in phy.cfg1) /\ phy.conv = "core")
    BY <1>19 DEF TunedTwice
  <2>3. ~(m /\ (phy.bbTune \/ phy.fir) /\ phy.skip # 2 /\ phy.conv = "core")
    <3>1. m => m = TRUE
      OBVIOUS
    <3> QED BY <1>19, <3>1 DEF TunedTwice
  <2> QED BY <1>19, <2>1, <2>2, <2>3 DEF Tune, Note
<1> HIDE DEF RadioExcepted
<1>20. CASE \/ \E n \in {-2, -1, 22} : Calibrate("tx_quad", n)
            \/ Calibrate("rf_dc_offs", -1)
  BY <1>14, <1>20
<1> QED BY <1>1, <1>2, <1>3, <1>4, <1>5, <1>6, <1>7, <1>8, <1>9, <1>10, <1>11, <1>12, <1>13, <1>15,
           <1>16, <1>17, <1>18, <1>19, <1>20 DEF RadioNext, Work, TuneFlags

\* RadioAsAsked with nothing upset: in every history without the steps of RadioExcepted the
\* radio is between calls as it was asked for, for every device tree, any number of calls
\* and whatever else the work item, the pins and the chip's answers do, the calibrations
\* that time out while muted, forced or without tracking included.
THEOREM RadioIsAsAsked == DriverSpec /\ [][~RadioExcepted]_drivervars => [](RadioAsAsked /\ Quiet)
<1>1. DriverInit => Quiet
  BY DEF DriverInit, RadioInit, Quiet
<1>2. RadioInv /\ Quiet /\ [DriverNext]_drivervars /\ [~RadioExcepted]_drivervars => Quiet'
  <2>1. CASE UNCHANGED drivervars
    BY <2>1 DEF drivervars, rvars, Quiet
  <2>2. CASE ~(UNCHANGED drivervars)
    BY <2>2, OnlyExcepted DEF DriverNext, Quiet, rvars
  <2> QED BY <2>1, <2>2
<1>3. RadioInv => RadioAsAsked
  BY RadioInvAgrees
<1> QED BY <1>1, <1>2, <1>3, RadioInvariance, PTL DEF DriverSpec
-----------------------------------------------------------------------------
(* The local oscillators and what follows them (Ad9361Lo). *)

\* The words of a VCO read back as its frequency, or one unit less.
LEMMA Rounds ==
  ASSUME NEW v \in Nat
  PROVE  LET n == v \div 40
             f == ((v % 40) * 8388593 + 20) \div 40
         IN  n \in Nat /\ f \in Nat /\ (40 * f) \div 8388593 + 40 * n \in {v - 1, v}
<1> DEFINE n == v \div 40
           r == v % 40
           f == (r * 8388593 + 20) \div 40
<1>1. n \in Nat /\ r \in 0 .. 39 /\ v = 40 * n + r
  OBVIOUS
<1> HIDE DEF n, r
<1>2. f \in Nat /\ 40 * f \in (r * 8388593 - 19) .. (r * 8388593 + 20)
  BY <1>1
<1>3. (40 * f) \div 8388593 \in {r - 1, r}
  BY <1>1, <1>2
<1> HIDE DEF f
<1>4. (40 * f) \div 8388593 + 40 * n \in {v - 1, v}
  BY <1>1, <1>3
<1> QED BY <1>1, <1>2, <1>4 DEF f, n, r

\* k doublings of f make a VCO frequency, and no fewer do.
Reaches(f, k) == f * 2 ^ k > 6000 /\ (k = 0 \/ f * 2 ^ (k - 1) <= 6000)

\* Divided by m, the VCO at m times f gives f, and at one unit less f or one unit less.
Halves(f, m) ==
  /\ f * m \in Nat
  /\ \A x : x = f * m \/ x = f * m - 1 => x \div m \in Int /\ f - (x \div m) \in 0 .. 1

\* Doubling ends at a VCO frequency; halving as often gives the LO's again.
LEMMA DoublingHalves ==
  ASSUME NEW f \in Int, f >= 47, f <= 6000, NEW k \in Int, k >= 0, k <= 8, Reaches(f, k)
  PROVE  k >= 1 /\ Halves(f, 2 ^ k)
<1> DEFINE P(m) == Halves(f, m)
<1>0. P(2) /\ P(4) /\ P(8) /\ P(16) /\ P(32) /\ P(64) /\ P(128) /\ P(256)
  <2>1. P(2)
    BY DEF Halves
  <2>2. P(4)
    BY DEF Halves
  <2>3. P(8)
    BY DEF Halves
  <2>4. P(16)
    BY DEF Halves
  <2>5. P(32)
    BY DEF Halves
  <2>6. P(64)
    BY DEF Halves
  <2>7. P(128)
    BY DEF Halves
  <2>8. P(256)
    BY DEF Halves
  <2> QED BY <2>1, <2>2, <2>3, <2>4, <2>5, <2>6, <2>7, <2>8
<1>1. ASSUME k = 0 PROVE FALSE
  <2>1. 2 ^ k = 1
    BY <1>1
  <2>2. \A m : m = 1 => ~(f * m > 6000)
    OBVIOUS
  <2> QED BY <2>1, <2>2 DEF Reaches
<1>2. ASSUME k = 1 PROVE P(2 ^ k)
  <2>1. 2 ^ k = 2
    BY <1>2
  <2> QED BY <2>1, <1>0
<1>3. ASSUME k = 2 PROVE P(2 ^ k)
  <2>1. 2 ^ k = 4
    BY <1>3
  <2> QED BY <2>1, <1>0
<1>4. ASSUME k = 3 PROVE P(2 ^ k)
  <2>1. 2 ^ k = 8
    BY <1>4
  <2> QED BY <2>1, <1>0
<1>5. ASSUME k = 4 PROVE P(2 ^ k)
  <2>1. 2 ^ k = 16
    BY <1>5
  <2> QED BY <2>1, <1>0
<1>6. ASSUME k = 5 PROVE P(2 ^ k)
  <2>1. 2 ^ k = 32
    BY <1>6
  <2> QED BY <2>1, <1>0
<1>7. ASSUME k = 6 PROVE P(2 ^ k)
  <2>1. 2 ^ k = 64
    BY <1>7
  <2> QED BY <2>1, <1>0
<1>8. ASSUME k = 7 PROVE P(2 ^ k)
  <2>1. 2 ^ k = 128
    BY <1>8
  <2> QED BY <2>1, <1>0
<1>9. ASSUME k = 8 PROVE P(2 ^ k)
  <2>1. 2 ^ k = 256
    BY <1>9
  <2> QED BY <2>1, <1>0
<1>10. k \in 1 .. 8
  BY <1>1
<1>11. P(2 ^ k)
  <2> HIDE DEF P
  <2>1. k = 1 \/ k = 2 \/ k = 3 \/ k = 4 \/ k = 5 \/ k = 6 \/ k = 7 \/ k = 8
    BY <1>10
  <2> QED BY <2>1, <1>2, <1>3, <1>4, <1>5, <1>6, <1>7, <1>8, <1>9
<1> QED BY <1>10, <1>11

\* There is such a number of doublings.
LEMMA Doubles ==
  ASSUME NEW f \in Int, f >= 47, f <= 6000
  PROVE  \E k \in 0 .. 8 : Reaches(f, k)
<1> DEFINE Q(m, h) == f * m > 6000 /\ f * h <= 6000
           G == \E k \in 0 .. 8 : Reaches(f, k)
<1>1. ASSUME NEW k \in 1 .. 7, Q(2 ^ k, 2 ^ (k - 1)) PROVE G
  <2>1. k \in 0 .. 8
    OBVIOUS
  <2> QED BY <1>1, <2>1 DEF Reaches
<1>2. Q(2, 1) \/ Q(4, 2) \/ Q(8, 4) \/ Q(16, 8) \/ Q(32, 16) \/ Q(64, 32) \/ Q(128, 64)
  OBVIOUS
<1> HIDE DEF Q, G
<1>3. Q(2, 1) => G
  <2> DEFINE k == 1
  <2>1. k \in 1 .. 7 /\ 2 ^ k = 2 /\ 2 ^ (k - 1) = 1
    OBVIOUS
  <2> HIDE DEF k
  <2> QED BY <2>1, <1>1
<1>4. Q(4, 2) => G
  <2> DEFINE k == 2
  <2>1. k \in 1 .. 7 /\ 2 ^ k = 4 /\ 2 ^ (k - 1) = 2
    OBVIOUS
  <2> HIDE DEF k
  <2> QED BY <2>1, <1>1
<1>5. Q(8, 4) => G
  <2> DEFINE k == 3
  <2>1. k \in 1 .. 7 /\ 2 ^ k = 8 /\ 2 ^ (k - 1) = 4
    OBVIOUS
  <2> HIDE DEF k
  <2> QED BY <2>1, <1>1
<1>6. Q(16, 8) => G
  <2> DEFINE k == 4
  <2>1. k \in 1 .. 7 /\ 2 ^ k = 16 /\ 2 ^ (k - 1) = 8
    OBVIOUS
  <2> HIDE DEF k
  <2> QED BY <2>1, <1>1
<1>7. Q(32, 16) => G
  <2> DEFINE k == 5
  <2>1. k \in 1 .. 7 /\ 2 ^ k = 32 /\ 2 ^ (k - 1) = 16
    OBVIOUS
  <2> HIDE DEF k
  <2> QED BY <2>1, <1>1
<1>8. Q(64, 32) => G
  <2> DEFINE k == 6
  <2>1. k \in 1 .. 7 /\ 2 ^ k = 64 /\ 2 ^ (k - 1) = 32
    OBVIOUS
  <2> HIDE DEF k
  <2> QED BY <2>1, <1>1
<1>9. Q(128, 64) => G
  <2> DEFINE k == 7
  <2>1. k \in 1 .. 7 /\ 2 ^ k = 128 /\ 2 ^ (k - 1) = 64
    OBVIOUS
  <2> HIDE DEF k
  <2> QED BY <2>1, <1>1
<1>10. G
  BY <1>2, <1>3, <1>4, <1>5, <1>6, <1>7, <1>8, <1>9
<1> QED BY <1>10 DEF G

LoKeys ==
  EnsmKeys \cup {"id", "skipCal", "cur", "tdd", "pll", "div", "cached", "prof", "mem", "ready", "alc",
                 "ext", "rate", "gt", "table", "idx", "mgc", "agc", "hybrid"}

\* RfDividers, and profiles in use (0 for none).
RfDividers == 0 .. 7
InUseNos == {0} \cup {p + 1 : p \in Profiles}
PllWords == [n : Int, f : Int]
Entries == [init : BOOLEAN, n : Int, f : Int, div : RfDividers, orig : Int, alc : Int]
LoRange == 47 .. 6000

\* What the record of the LOs always is.
LoTypes(l) ==
  /\ DOMAIN l = LoKeys /\ EnsmTypes(l) /\ l.skipCal \in BOOLEAN
  /\ l.cur \in [Dirs -> Int] /\ l.tdd \in [Dirs -> BOOLEAN] /\ l.pll \in [Dirs -> PllWords]
  /\ l.div \in [Dirs -> RfDividers] /\ l.cached \in [Dirs -> RfDividers] /\ l.prof \in [Dirs -> InUseNos]
  /\ l.mem \in [Dirs -> [Profiles -> Entries]] /\ l.ready \in [Dirs -> BOOLEAN]
  /\ l.alc \in [Dirs -> Int] /\ l.ext \in [Dirs -> BOOLEAN] /\ l.rate \in [Dirs -> Int]
  /\ IsGainInfo(l.gt)

\* A gain table is in use, and indices that it has.
GainFits(l) ==
  /\ l.table \in DOMAIN l.gt
  /\ l.idx \in [1 .. 2 -> DOMAIN Gains(l)]

\* The synthesizer has the words of f.
HasWords(l, d, f) ==
  LET s == RfpllDiv(f, RefMHz) IN l.pll[d].n = s.n /\ l.pll[d].f = s.f /\ l.div[d] = s.div

\* The entry of the profile in use.
Entry(l, d) == l.mem[d][l.prof[d] - 1]

\* One LO: its words and its divider, what user space asked for, its profile.
Own(l, d) ==
  LET s == RfpllDiv(l.cur[d], RefMHz)
  IN  /\ l.cur[d] \in LoRange
      /\ l.pll[d].n = s.n /\ l.pll[d].f = s.f /\ l.cached[d] = s.div
      /\ ~l.ext[d] => l.div[d] = l.cached[d]
Profiled(l, d) ==
  /\ l.ext[d] => l.prof[d] = 0
  /\ l.ready[d] <=> (l.ext[d] \/ l.prof[d] # 0)
  /\ l.clocks => ((d \in l.vcoCal) <=> (l.prof[d] = 0 /\ ~l.skipCal))
  /\ l.prof[d] # 0 => l.alc[d] = Entry(l, d).alc
Asked(l, d, f) ==
  IF l.prof[d] = 0 THEN f - ReadsAs(l.cur[d]) \in 0 .. 1
  ELSE f = RfpllFreq(RefMHz, Entry(l, d).n, Entry(l, d).f, Entry(l, d).div)
Tables(l) == OneVco(l) => \A d \in Dirs : l.tdd[d] <=> (l.cur.rx = l.cur.tx)
BandFollows(l) ==
  l.prof.rx = 0 => l.rate.rx = ReadsAs(l.cur.rx) /\ l.table = Band(l.gt, ReadsAs(l.cur.rx))
LoStands(l, a) ==
  (\A d \in Dirs : Own(l, d) /\ Profiled(l, d) /\ Asked(l, d, a[d])) /\ Tables(l) /\ BandFollows(l)

\* The fields with a value for each LO.
PerLo == {"cur", "tdd", "pll", "div", "cached", "prof", "mem", "ready", "alc", "ext", "rate"}
\* q differs from l for the LO d only.
Beside(l, q, d) == \A k \in PerLo, o \in Dirs \ {d} : q[k][o] = l[k][o]

\* A step that leaves the enable state machine alone.
LEMMA LoEnsmKept ==
  ASSUME NEW l, NEW q, NEW T, LoTypes(l), Keeps(l, q, T), T \cap EnsmKeys = {}
  PROVE  EnsmTypes(q)
<1>1. EnsmKeys \subseteq DOMAIN l
  BY DEF LoTypes, LoKeys
<1>2. \A k \in EnsmKeys : q[k] = l[k]
  BY <1>1 DEF Keeps
<1>3. /\ q.fdd = l.fdd /\ q.indep = l.indep /\ q.pinCtrl = l.pinCtrl /\ q.mode = l.mode
      /\ q.cfg1 = l.cfg1 /\ q.dev = l.dev /\ q.curr = l.curr /\ q.prev = l.prev
      /\ q.pinEn = l.pinEn /\ q.clocks = l.clocks
  BY <1>2 DEF EnsmKeys
<1> QED BY <1>3 DEF EnsmTypes, LoTypes

\* The words of any frequency an LO may have, and how they read back.
LEMMA ReadsBack ==
  ASSUME NEW f \in LoRange
  PROVE  LET s == RfpllDiv(f, RefMHz)
         IN  /\ s.div \in RfDividers /\ s.n \in Int /\ s.f \in Int
             /\ ReadsAs(f) \in Int /\ f - ReadsAs(f) \in 0 .. 1
<1> DEFINE e == CHOOSE k \in 0 .. 8 : Reaches(f, k)
           t == 2 ^ e
           v == f * t
           n == v \div 40
           w == ((v % 40) * 8388593 + 20) \div 40
           s == RfpllDiv(f, RefMHz)
           x == (40 * w) \div 8388593 + 40 * n
<1>0. f \in Int /\ f >= 47 /\ f <= 6000
  BY DEF LoRange
<1>1. e \in 0 .. 8 /\ Reaches(f, e)
  BY <1>0, Doubles
<1>2. s = [div |-> e - 1, vco |-> v, n |-> n, f |-> w]
  BY DEF RfpllDiv, RefMHz, Modulus, Reaches
<1> HIDE DEF e
<1>3. e - 1 \in 0 .. 7 /\ Halves(f, t)
  <2>1. e \in Int /\ e >= 0 /\ e <= 8
    BY <1>1
  <2>2. e >= 1 /\ Halves(f, 2 ^ e)
    BY <1>0, <1>1, <2>1, DoublingHalves
  <2> QED BY <2>1, <2>2
<1>4. e - 1 + 1 = e
  BY <1>1
<1>5. ReadsAs(f) = x \div t
  BY <1>2, <1>4 DEF ReadsAs, RfpllFreq, RefMHz, Modulus
<1>6. s.div = e - 1 /\ s.n = n /\ s.f = w
  BY <1>2
<1> HIDE DEF s
<1>7. v \in Nat /\ \A y : y = v \/ y = v - 1 => y \div t \in Int /\ f - (y \div t) \in 0 .. 1
  BY <1>3 DEF Halves
<1> HIDE DEF t, v
<1>8. n \in Nat /\ w \in Nat /\ (x = v \/ x = v - 1)
  BY <1>7, Rounds
<1>9. n \in Int /\ w \in Int
  BY <1>8
<1> HIDE DEF n, w, x
<1>10. x \div t \in Int /\ f - (x \div t) \in 0 .. 1
  BY <1>7, <1>8
<1>11. s.div \in RfDividers
  BY <1>3, <1>6 DEF RfDividers
<1> QED BY <1>5, <1>6, <1>9, <1>10, <1>11 DEF s

\* A profile ends.
LEMMA UnprepareDoes ==
  ASSUME NEW l, NEW d \in Dirs, LoTypes(l)
  PROVE  LET q == Unprepare(l, d)
         IN  /\ LoTypes(q) /\ Keeps(l, q, {"ready", "vcoCal", "prof"}) /\ Beside(l, q, d)
             /\ q.prof[d] = 0
             /\ l.prof[d] = 0 => q = l
             /\ l.prof[d] # 0 => ~q.ready[d] /\ q.vcoCal = l.vcoCal \cup {d}
<1> DEFINE rd == [l.ready EXCEPT ![d] = FALSE]
           pr == [l.prof EXCEPT ![d] = 0]
           vc == l.vcoCal \cup {d}
           q == [l EXCEPT !.ready = rd, !.vcoCal = vc, !.prof = pr]
<1>1. Unprepare(l, d) = IF l.prof[d] = 0 THEN l ELSE q
  BY DEF Unprepare
<1>2. /\ rd \in [Dirs -> BOOLEAN] /\ pr \in [Dirs -> InUseNos]
      /\ rd[d] = FALSE /\ pr[d] = 0
      /\ \A o \in Dirs \ {d} : rd[o] = l.ready[o] /\ pr[o] = l.prof[o]
  BY DEF LoTypes, InUseNos
<1> HIDE DEF rd, pr, vc
<1>3. Keeps(l, q, {"ready", "vcoCal", "prof"}) /\ q.ready = rd /\ q.vcoCal = vc /\ q.prof = pr
  BY DEF LoTypes, LoKeys, EnsmKeys, Keeps
<1> HIDE DEF q
<1>4. LoTypes(q)
  BY <1>2, <1>3 DEF LoTypes, EnsmTypes, Keeps, LoKeys, EnsmKeys
<1>5. Beside(l, q, d)
  BY <1>2, <1>3 DEF Beside, PerLo, Keeps, LoTypes, LoKeys
<1>6. Keeps(l, l, {"ready", "vcoCal", "prof"}) /\ Beside(l, l, d)
  BY DEF Keeps, Beside
<1> QED BY <1>1, <1>2, <1>3, <1>4, <1>5, <1>6 DEF vc

\* The registers of one synthesizer.
LEMMA ProgramDoes ==
  ASSUME NEW l, NEW d \in Dirs, NEW s, NEW alc \in Int, LoTypes(l),
         s.n \in Int, s.f \in Int, s.div \in RfDividers
  PROVE  LET q == ProgramPll(l, d, s, alc)
         IN  /\ LoTypes(q) /\ Keeps(l, q, {"tdd", "pll", "div", "alc"}) /\ Beside(l, q, d)
             /\ q.pll[d].n = s.n /\ q.pll[d].f = s.f /\ q.div[d] = s.div
             /\ q.tdd[d] <=> ~(OneVco(l) /\ l.cur.tx # l.cur.rx)
             /\ l.prof[d] # 0 => q.alc[d] = l.alc[d]
<1> DEFINE t == ~(OneVco(l) /\ l.cur.tx # l.cur.rx)
           w == [n |-> s.n, f |-> s.f]
           al == [l.alc EXCEPT ![d] = IF l.prof[d] = 0 THEN alc ELSE l.alc[d]]
           td == [l.tdd EXCEPT ![d] = t]
           pl == [l.pll EXCEPT ![d] = w]
           dv == [l.div EXCEPT ![d] = s.div]
           v == [l EXCEPT !.tdd = td]
           q == [v EXCEPT !.pll = pl, !.div = dv, !.alc = al]
<1>1. t \in BOOLEAN /\ w \in PllWords /\ w.n = s.n /\ w.f = s.f
  BY DEF OneVco, LoTypes, EnsmTypes, PllWords
<1>2. VcoInit(l, d) = v
  BY DEF VcoInit
<1>3. Keeps(l, v, {"tdd"}) /\ v.tdd = td
  BY DEF LoTypes, LoKeys, EnsmKeys, Keeps
<1>4. v.pll = l.pll /\ v.div = l.div /\ v.alc = l.alc
  BY <1>3 DEF Keeps, LoTypes, LoKeys
<1>5. ProgramPll(l, d, s, alc) = q
  BY <1>2, <1>4 DEF ProgramPll
<1> HIDE DEF t, w
<1>6. /\ td \in [Dirs -> BOOLEAN] /\ pl \in [Dirs -> PllWords] /\ dv \in [Dirs -> RfDividers] /\ al \in [Dirs -> Int]
      /\ td[d] = t /\ pl[d] = w /\ dv[d] = s.div /\ (l.prof[d] # 0 => al[d] = l.alc[d])
      /\ \A o \in Dirs \ {d} : td[o] = l.tdd[o] /\ pl[o] = l.pll[o] /\ dv[o] = l.div[o] /\ al[o] = l.alc[o]
  BY <1>1 DEF LoTypes
<1> HIDE DEF td, pl, dv, al, v
<1>7. Keeps(v, q, {"pll", "div", "alc"}) /\ q.pll = pl /\ q.div = dv /\ q.alc = al
  BY <1>3 DEF LoTypes, LoKeys, EnsmKeys, Keeps
<1> HIDE DEF q
<1>8. Keeps(l, q, {"tdd", "pll", "div", "alc"})
  BY <1>3, <1>7, KeepsMore
<1>9. q.tdd = td
  BY <1>3, <1>7 DEF Keeps, LoTypes, LoKeys
<1>10. LoTypes(q)
  <2>1. EnsmTypes(q)
    BY <1>8, LoEnsmKept DEF EnsmKeys
  <2>2. /\ DOMAIN q = LoKeys /\ q.skipCal = l.skipCal /\ q.cur = l.cur /\ q.cached = l.cached /\ q.prof = l.prof
        /\ q.mem = l.mem /\ q.ready = l.ready /\ q.ext = l.ext /\ q.rate = l.rate /\ q.gt = l.gt
    BY <1>8 DEF Keeps, LoTypes, LoKeys
  <2> QED BY <1>6, <1>7, <1>9, <2>1, <2>2 DEF LoTypes
<1>11. Beside(l, q, d)
  BY <1>6, <1>7, <1>8, <1>9 DEF Beside, PerLo, Keeps, LoTypes, LoKeys
<1> QED BY <1>1, <1>5, <1>6, <1>7, <1>8, <1>9, <1>10, <1>11 DEF t

\* The other synthesizer is programmed again, with its own words.
LEMMA FixOtherDoes ==
  ASSUME NEW l, NEW d \in Dirs, NEW alc \in Int, LoTypes(l), l.cur[d] \in LoRange, l.cur[Other(d)] \in LoRange
  PROVE  LET o == Other(d)
             q == FixOther(l, d, RfpllDiv(l.cur[d], RefMHz), alc)
         IN  /\ LoTypes(q) /\ Keeps(l, q, {"tdd", "pll", "div", "alc", "ready", "vcoCal", "prof"})
             /\ Beside(l, q, o)
             /\ HasWords(q, o, l.cur[o])
             /\ q.tdd[o] <=> ~(OneVco(l) /\ l.cur.tx # l.cur.rx)
             /\ q.prof[o] = l.prof[o] => /\ q.ready[o] = l.ready[o] /\ q.vcoCal = l.vcoCal
                                         /\ l.prof[o] # 0 => q.alc[o] = l.alc[o]
             /\ l.prof[o] = 0 => q.prof[o] = 0
<1> DEFINE o == Other(d)
           s == RfpllDiv(l.cur[d], RefMHz)
           z == RfpllDiv(l.cur[o], RefMHz)
           T == {"tdd", "pll", "div", "alc", "ready", "vcoCal", "prof"}
           q == FixOther(l, d, s, alc)
           Good(x) == /\ LoTypes(x) /\ Keeps(l, x, T)
                      /\ Beside(l, x, o)
                      /\ HasWords(x, o, l.cur[o])
                      /\ x.tdd[o] <=> ~(OneVco(l) /\ l.cur.tx # l.cur.rx)
                      /\ x.prof[o] = l.prof[o] => /\ x.ready[o] = l.ready[o] /\ x.vcoCal = l.vcoCal
                                                  /\ l.prof[o] # 0 => x.alc[o] = l.alc[o]
                      /\ l.prof[o] = 0 => x.prof[o] = 0
<1> SUFFICES Good(q)
  OBVIOUS
<1>1. o \in Dirs /\ o # d
  BY DEF Other, Dirs
<1>2. l.cur.tx = l.cur.rx => z = s
  BY DEF Other, Dirs
<1>3. z.n \in Int /\ z.f \in Int /\ z.div \in RfDividers
  BY ReadsBack
<1>4. q = IF l.cur.tx = l.cur.rx THEN ProgramPll(l, o, s, alc) ELSE ProgramPll(Unprepare(l, o), o, z, alc)
  BY DEF FixOther
<1>5. HasWords(q, o, l.cur[o]) <=> q.pll[o].n = z.n /\ q.pll[o].f = z.f /\ q.div[o] = z.div
  BY DEF HasWords
<1>6. Beside(l, l, o) /\ Keeps(l, l, T)
  BY DEF Beside, Keeps
<1> HIDE DEF s, z, q, o
<1>7. CASE l.cur.tx = l.cur.rx
  <2> DEFINE x == ProgramPll(l, o, z, alc)
  <2>1. q = x
    BY <1>2, <1>4, <1>7
  <2>2. /\ LoTypes(x) /\ Keeps(l, x, {"tdd", "pll", "div", "alc"}) /\ Beside(l, x, o)
        /\ x.pll[o].n = z.n /\ x.pll[o].f = z.f /\ x.div[o] = z.div
        /\ x.tdd[o] <=> ~(OneVco(l) /\ l.cur.tx # l.cur.rx)
        /\ l.prof[o] # 0 => x.alc[o] = l.alc[o]
    BY <1>1, <1>3, ProgramDoes
  <2> HIDE DEF x
  <2>3. Keeps(l, x, T) /\ x.ready = l.ready /\ x.vcoCal = l.vcoCal /\ x.prof = l.prof
    BY <2>2 DEF Keeps, LoTypes, LoKeys, EnsmKeys
  <2> QED BY <1>5, <2>1, <2>2, <2>3
<1>8. CASE l.cur.tx # l.cur.rx
  <2> DEFINE u == Unprepare(l, o)
             x == ProgramPll(u, o, z, alc)
  <2>1. q = x
    BY <1>4, <1>8
  <2>2. /\ LoTypes(u) /\ Keeps(l, u, {"ready", "vcoCal", "prof"}) /\ Beside(l, u, o)
        /\ u.prof[o] = 0
        /\ l.prof[o] = 0 => u = l
    BY <1>1, UnprepareDoes
  <2> HIDE DEF u
  <2>3. /\ LoTypes(x) /\ Keeps(u, x, {"tdd", "pll", "div", "alc"}) /\ Beside(u, x, o)
        /\ x.pll[o].n = z.n /\ x.pll[o].f = z.f /\ x.div[o] = z.div
        /\ x.tdd[o] <=> ~(OneVco(u) /\ u.cur.tx # u.cur.rx)
        /\ u.prof[o] # 0 => x.alc[o] = u.alc[o]
    BY <1>1, <1>3, <2>2, ProgramDoes
  <2> HIDE DEF x
  <2>4. Keeps(l, x, T)
    BY <2>2, <2>3, KeepsMore
  <2>5. Beside(l, x, o)
    BY <2>2, <2>3 DEF Beside
  <2>6. u.cur = l.cur /\ (OneVco(u) <=> OneVco(l))
    BY <2>2 DEF Keeps, LoTypes, LoKeys, EnsmKeys, OneVco
  <2>7. x.prof = u.prof /\ x.ready = u.ready /\ x.vcoCal = u.vcoCal
    BY <2>2, <2>3 DEF Keeps, LoTypes, LoKeys, EnsmKeys
  <2>8. x.prof[o] = l.prof[o] => u = l
    BY <2>2, <2>7
  <2> QED BY <1>5, <2>1, <2>2, <2>3, <2>4, <2>5, <2>6, <2>7, <2>8
<1> QED BY <1>7, <1>8

RateFields == {"cur", "tdd", "pll", "div", "cached", "prof", "ready", "alc", "vcoCal"}

\* l with the LO d at f, and with the other LO o as it was but for its words and its table.
AtRate(l, q, d, o, f) ==
  /\ LoTypes(q) /\ Keeps(l, q, RateFields)
  /\ q.cur[d] = f /\ HasWords(q, d, f) /\ q.cached[d] = q.div[d] /\ q.prof[d] = 0
  /\ q.cur[o] = l.cur[o] /\ q.cached[o] = l.cached[o] /\ (l.prof[o] = 0 => q.prof[o] = 0)
RateSet(l, q, d, o) ==
  /\ Tables(q)
  /\ IF l.prof[d] = 0 THEN q.ready[d] = l.ready[d] ELSE ~q.ready[d]
  /\ (d \in q.vcoCal) <=> (~l.skipCal /\ (d \in l.vcoCal \/ l.prof[d] # 0))
  /\ (o \in q.vcoCal) <=> (o \in l.vcoCal)
  /\ q.ready[o] = l.ready[o]
  /\ l.prof[o] # 0 => q.alc[o] = l.alc[o]
  /\ (q.pll[o] = l.pll[o] /\ q.div[o] = l.div[o]) \/ HasWords(q, o, l.cur[o])

\* ad9361_rfpll_set_rate
LEMMA SetRateDoes ==
  ASSUME NEW l, NEW d \in Dirs, NEW f \in LoRange, NEW alc \in Int, LoTypes(l),
         l.cur[Other(d)] \in LoRange \/ ~l.tdd[Other(d)]
  PROVE  LET o == Other(d)
             q == RfpllSetRate(l, d, f, alc)
         IN  /\ AtRate(l, q, d, o, f)
             /\ q.prof[o] = l.prof[o] => RateSet(l, q, d, o)
<1> DEFINE o == Other(d)
           s == RfpllDiv(f, RefMHz)
           u == Unprepare(l, d)
           ch == [u.cached EXCEPT ![d] = s.div]
           cu == [u.cur EXCEPT ![d] = f]
           c == [u EXCEPT !.cached = ch, !.cur = cu]
           a == ProgramPll(c, d, s, alc)
           x == FixOther(a, d, s, alc)
           b == IF OtherNeedsFix(a) THEN x ELSE a
           vc == b.vcoCal \ {d}
           n == [b EXCEPT !.vcoCal = vc]
           q == RfpllSetRate(l, d, f, alc)
<1> SUFFICES AtRate(l, q, d, o, f) /\ (q.prof[o] = l.prof[o] => RateSet(l, q, d, o))
  OBVIOUS
<1>1. o \in Dirs /\ o # d /\ Dirs = {d, o}
  BY DEF Other, Dirs
<1>2. s.n \in Int /\ s.f \in Int /\ s.div \in RfDividers /\ f \in Int
  <2>1. f \in Int
    BY DEF LoRange
  <2> QED BY <2>1, ReadsBack
<1>3. q = IF l.skipCal THEN n ELSE b
  BY DEF RfpllSetRate
<1>4. \A y : HasWords(y, d, f) <=> y.pll[d].n = s.n /\ y.pll[d].f = s.f /\ y.div[d] = s.div
  BY DEF HasWords
<1>4a. s = RfpllDiv(f, RefMHz)
  OBVIOUS
<1>4b. l.cur[o] \in LoRange \/ ~l.tdd[o]
  OBVIOUS
<1> HIDE DEF o, s, q
<1>5. /\ LoTypes(u) /\ Keeps(l, u, {"ready", "vcoCal", "prof"}) /\ Beside(l, u, d)
      /\ u.prof[d] = 0
      /\ l.prof[d] = 0 => u = l
      /\ l.prof[d] # 0 => ~u.ready[d] /\ u.vcoCal = l.vcoCal \cup {d}
  BY UnprepareDoes
<1> HIDE DEF u
<1>6. /\ ch \in [Dirs -> RfDividers] /\ cu \in [Dirs -> Int] /\ ch[d] = s.div /\ cu[d] = f
      /\ ch[o] = u.cached[o] /\ cu[o] = u.cur[o]
  BY <1>1, <1>2, <1>5 DEF LoTypes
<1> HIDE DEF ch, cu
<1>7. Keeps(u, c, {"cached", "cur"}) /\ c.cached = ch /\ c.cur = cu
  BY <1>5 DEF LoTypes, LoKeys, EnsmKeys, Keeps
<1> HIDE DEF c
<1>8. LoTypes(c)
  <2>1. EnsmTypes(c)
    BY <1>5, <1>7, LoEnsmKept DEF EnsmKeys
  <2> QED BY <1>5, <1>6, <1>7, <2>1 DEF LoTypes, Keeps, LoKeys
<1>9. /\ LoTypes(a) /\ Keeps(c, a, {"tdd", "pll", "div", "alc"}) /\ Beside(c, a, d)
      /\ a.pll[d].n = s.n /\ a.pll[d].f = s.f /\ a.div[d] = s.div
      /\ a.tdd[d] <=> ~(OneVco(c) /\ c.cur.tx # c.cur.rx)
  <2> HIDE DEF x, b, vc, n
  <2>1. LoTypes(c) /\ s.n \in Int /\ s.f \in Int /\ s.div \in RfDividers
    BY <1>2, <1>8
  <2> QED BY <2>1, ProgramDoes
<1> HIDE DEF a
<1>10. /\ u.tdd = l.tdd /\ u.pll = l.pll /\ u.div = l.div /\ u.cur = l.cur /\ u.cached = l.cached /\ u.alc = l.alc
       /\ u.fdd = l.fdd /\ u.indep = l.indep
  BY <1>5 DEF Keeps, LoTypes, LoKeys, EnsmKeys
<1>11. /\ c.tdd = u.tdd /\ c.pll = u.pll /\ c.div = u.div /\ c.prof = u.prof /\ c.ready = u.ready
       /\ c.vcoCal = u.vcoCal /\ c.alc = u.alc /\ c.fdd = u.fdd /\ c.indep = u.indep
  BY <1>5, <1>7 DEF Keeps, LoTypes, LoKeys, EnsmKeys
<1>12. /\ a.cur = c.cur /\ a.cached = c.cached /\ a.prof = c.prof /\ a.ready = c.ready
       /\ a.vcoCal = c.vcoCal /\ a.fdd = c.fdd /\ a.indep = c.indep
  BY <1>8, <1>9 DEF Keeps, LoTypes, LoKeys, EnsmKeys
<1>13. a.tdd[o] = c.tdd[o] /\ a.pll[o] = c.pll[o] /\ a.div[o] = c.div[o] /\ a.alc[o] = c.alc[o]
  BY <1>1, <1>9 DEF Beside, PerLo
<1>14. u.prof[o] = l.prof[o] /\ u.ready[o] = l.ready[o] /\ (o \in u.vcoCal <=> o \in l.vcoCal)
  BY <1>1, <1>5 DEF Beside, PerLo
<1>15. Keeps(l, a, RateFields)
  <2>1. Keeps(l, c, {"ready", "vcoCal", "prof", "cached", "cur"})
    BY <1>5, <1>7, KeepsMore
  <2> QED BY <1>9, <2>1, KeepsMore DEF RateFields
<1>16. (OneVco(c) <=> OneVco(a)) /\ c.cur = a.cur
  BY <1>12 DEF OneVco
<1>17. /\ a.cur[d] = f /\ a.cur[o] = l.cur[o] /\ a.cached[d] = s.div /\ a.cached[o] = l.cached[o]
       /\ a.prof[d] = 0 /\ a.prof[o] = l.prof[o] /\ a.ready[o] = l.ready[o] /\ a.alc[o] = l.alc[o]
       /\ a.tdd[o] = l.tdd[o] /\ a.pll[o] = l.pll[o] /\ a.div[o] = l.div[o]
       /\ IF l.prof[d] = 0 THEN a.ready[d] = l.ready[d] ELSE ~a.ready[d]
       /\ (d \in a.vcoCal) <=> (d \in l.vcoCal \/ l.prof[d] # 0)
       /\ (o \in a.vcoCal) <=> (o \in l.vcoCal)
  BY <1>1, <1>5, <1>6, <1>7, <1>10, <1>11, <1>12, <1>13, <1>14
<1>18. AtRate(l, a, d, o, f)
  BY <1>4, <1>9, <1>15, <1>17 DEF AtRate
<1>19. a.tdd[d] <=> ~(OneVco(a) /\ a.cur.tx # a.cur.rx)
  BY <1>9, <1>16
<1>20. a.tdd \in [Dirs -> BOOLEAN]
  BY <1>9 DEF LoTypes
<1> DEFINE Same(y) == /\ IF l.prof[d] = 0 THEN y.ready[d] = l.ready[d] ELSE ~y.ready[d]
                      /\ (d \in y.vcoCal) <=> (d \in l.vcoCal \/ l.prof[d] # 0)
                      /\ (o \in y.vcoCal) <=> (o \in l.vcoCal)
                      /\ y.ready[o] = l.ready[o]
                      /\ l.prof[o] # 0 => y.alc[o] = l.alc[o]
                      /\ (y.pll[o] = l.pll[o] /\ y.div[o] = l.div[o]) \/ HasWords(y, o, l.cur[o])
<1>21. AtRate(l, b, d, o, f) /\ (b.prof[o] = l.prof[o] => Tables(b) /\ Same(b))
  <2>1. CASE ~OtherNeedsFix(a)
    <3>1. b = a
      BY <2>1
    <3>2. Tables(a)
      <4>1. ("rx" = d /\ "tx" = o) \/ ("tx" = d /\ "rx" = o)
        BY <1>1 DEF Dirs
      <4>2. OneVco(a) => IF a.cur.tx = a.cur.rx THEN a.tdd.tx = a.tdd.rx ELSE ~a.tdd.tx /\ ~a.tdd.rx
        BY <2>1 DEF OtherNeedsFix
      <4>3. OneVco(a) => (a.tdd[d] <=> a.cur.rx = a.cur.tx) /\ (a.tdd[o] <=> a.cur.rx = a.cur.tx)
        BY <4>1, <4>2, <1>19
      <4> QED BY <4>3, <1>1 DEF Tables
    <3>3. Same(a)
      BY <1>17
    <3> QED BY <3>1, <3>2, <3>3, <1>18
  <2>2. CASE OtherNeedsFix(a)
    <3>1. b = x
      BY <2>2
    <3>2. a.cur[o] \in LoRange
      <4>1. CASE l.cur[o] \in LoRange
        BY <4>1, <1>17
      <4>2. CASE ~l.tdd[o]
        <5>1. OneVco(a) /\ IF a.cur.tx = a.cur.rx THEN a.tdd.tx # a.tdd.rx ELSE a.tdd.tx \/ a.tdd.rx
          BY <2>2 DEF OtherNeedsFix
        <5>2. ("rx" = d /\ "tx" = o) \/ ("tx" = d /\ "rx" = o)
          BY <1>1 DEF Dirs
        <5>3. ~a.tdd[o]
          BY <4>2, <1>17
        <5>4. a.cur.tx = a.cur.rx
          BY <5>1, <5>2, <5>3, <1>19
        <5>5. a.cur[o] = f
          BY <5>2, <5>4, <1>17
        <5> QED BY <5>5
      <4> QED BY <1>4b, <4>1, <4>2
    <3>3. /\ LoTypes(x) /\ Keeps(a, x, {"tdd", "pll", "div", "alc", "ready", "vcoCal", "prof"})
          /\ Beside(a, x, o)
          /\ HasWords(x, o, a.cur[o])
          /\ x.tdd[o] <=> ~(OneVco(a) /\ a.cur.tx # a.cur.rx)
          /\ x.prof[o] = a.prof[o] => /\ x.ready[o] = a.ready[o] /\ x.vcoCal = a.vcoCal
                                      /\ a.prof[o] # 0 => x.alc[o] = a.alc[o]
          /\ a.prof[o] = 0 => x.prof[o] = 0
      <4>1. a.cur[d] \in LoRange /\ a.cur[Other(d)] \in LoRange /\ s = RfpllDiv(a.cur[d], RefMHz)
        BY <1>4a, <1>17, <3>2 DEF o
      <4>2. x = FixOther(a, d, RfpllDiv(a.cur[d], RefMHz), alc)
        BY <4>1
      <4> HIDE DEF x
      <4> QED BY <1>9, <4>1, <4>2, FixOtherDoes DEF o
    <3> HIDE DEF x
    <3>4. Keeps(l, x, RateFields)
      <4>1. {"tdd", "pll", "div", "alc", "ready", "vcoCal", "prof"} \subseteq RateFields
        BY DEF RateFields
      <4> QED BY <1>15, <3>3, <4>1, KeepsMore
    <3>5. /\ x.tdd[d] = a.tdd[d] /\ x.pll[d] = a.pll[d] /\ x.div[d] = a.div[d] /\ x.prof[d] = a.prof[d]
          /\ x.ready[d] = a.ready[d]
      BY <1>1, <3>3 DEF Beside, PerLo
    <3>6. x.cur = a.cur /\ x.cached = a.cached /\ (OneVco(x) <=> OneVco(a))
      BY <1>9, <3>3 DEF Keeps, LoTypes, LoKeys, EnsmKeys, OneVco
    <3>7. AtRate(l, x, d, o, f)
      BY <1>4, <1>9, <1>17, <3>3, <3>4, <3>5, <3>6 DEF AtRate
    <3>8. Tables(x)
      <4>1. OneVco(x) => (x.tdd[d] <=> x.cur.rx = x.cur.tx) /\ (x.tdd[o] <=> x.cur.rx = x.cur.tx)
        BY <1>19, <3>3, <3>5, <3>6
      <4> QED BY <4>1, <1>1 DEF Tables
    <3>9. x.prof[o] = l.prof[o] => Same(x)
      BY <1>17, <3>3, <3>5
    <3> QED BY <3>1, <3>7, <3>8, <3>9
  <2> QED BY <2>1, <2>2
<1> HIDE DEF b, vc
<1>22. CASE ~l.skipCal
  <2>1. q = b
    BY <1>3, <1>22
  <2> QED BY <1>21, <1>22, <2>1 DEF RateSet
<1>23. CASE l.skipCal
  <2>1. q = n
    BY <1>3, <1>23
  <2>2. Keeps(b, n, {"vcoCal"}) /\ n.vcoCal = vc
    BY <1>21 DEF AtRate, LoTypes, LoKeys, EnsmKeys, Keeps
  <2> HIDE DEF n
  <2>3. /\ n.cur = b.cur /\ n.tdd = b.tdd /\ n.pll = b.pll /\ n.div = b.div /\ n.cached = b.cached /\ n.prof = b.prof
        /\ n.ready = b.ready /\ n.alc = b.alc /\ n.fdd = b.fdd /\ n.indep = b.indep
    BY <1>21, <2>2 DEF AtRate, LoTypes, LoKeys, EnsmKeys, Keeps
  <2>4. LoTypes(n)
    <3>1. LoTypes(b)
      BY <1>21 DEF AtRate
    <3>2. DOMAIN n = LoKeys /\ \A k \in LoKeys \ {"vcoCal"} : n[k] = b[k]
      BY <2>2, <3>1 DEF Keeps, LoTypes
    <3>3. EnsmTypes(n)
      <4>1. /\ n.fdd = b.fdd /\ n.indep = b.indep /\ n.pinCtrl = b.pinCtrl /\ n.mode = b.mode
            /\ n.cfg1 = b.cfg1 /\ n.dev = b.dev /\ n.curr = b.curr /\ n.prev = b.prev
            /\ n.pinEn = b.pinEn /\ n.clocks = b.clocks
        BY <3>2 DEF LoKeys, EnsmKeys
      <4> QED BY <3>1, <4>1 DEF LoTypes, EnsmTypes
    <3>4. n.skipCal = b.skipCal /\ n.mem = b.mem /\ n.ext = b.ext /\ n.rate = b.rate /\ n.gt = b.gt
      BY <3>2 DEF LoKeys
    <3> QED BY <2>3, <3>1, <3>2, <3>3, <3>4 DEF LoTypes
  <2>5. Keeps(l, n, RateFields)
    <3>1. {"vcoCal"} \subseteq RateFields
      BY DEF RateFields
    <3> QED BY <1>21, <2>2, <3>1, KeepsMore DEF AtRate
  <2>6. \A y : HasWords(b, o, y) => HasWords(n, o, y)
    BY <2>3 DEF HasWords
  <2>7. AtRate(l, n, d, o, f)
    BY <1>4, <1>21, <2>3, <2>4, <2>5 DEF AtRate
  <2>8. d \notin n.vcoCal /\ (o \in n.vcoCal <=> o \in b.vcoCal)
    BY <1>1, <2>2 DEF vc
  <2>9. Tables(b) => Tables(n)
    BY <2>3 DEF Tables, OneVco
  <2>10. n.prof[o] = l.prof[o] => RateSet(l, n, d, o)
    BY <1>21, <1>23, <2>3, <2>6, <2>8, <2>9 DEF RateSet
  <2> QED BY <2>1, <2>7, <2>10
<1>24. l.skipCal \in BOOLEAN
  BY DEF LoTypes
<1> QED BY <1>22, <1>23, <1>24

\* What LoTypes does not speak of may change.
LEMMA LoTypesKept ==
  ASSUME NEW l, NEW q, NEW T, LoTypes(l), Keeps(l, q, T),
         T \subseteq {"table", "idx", "mgc", "agc", "hybrid"}
  PROVE  LoTypes(q)
<1>1. T \cap EnsmKeys = {}
  BY DEF EnsmKeys
<1>2. EnsmTypes(q)
  BY <1>1, LoEnsmKept
<1>3. /\ DOMAIN q = LoKeys /\ q.skipCal = l.skipCal /\ q.cur = l.cur /\ q.tdd = l.tdd /\ q.pll = l.pll
      /\ q.div = l.div /\ q.cached = l.cached /\ q.prof = l.prof /\ q.mem = l.mem /\ q.ready = l.ready
      /\ q.alc = l.alc /\ q.ext = l.ext /\ q.rate = l.rate /\ q.gt = l.gt
  BY DEF Keeps, LoTypes, LoKeys
<1> QED BY <1>2, <1>3 DEF LoTypes

\* A set of numbers has a least one.
LEMMA Least ==
  ASSUME NEW S, S \subseteq Nat, S # {}
  PROVE  \E i \in S : \A j \in S : i <= j
<1> DEFINE R == OpToRel(<, Nat)
<1>1. IsWellFoundedOn(R, Nat)
  BY NatLessThanWellFounded
<1>2. PICK x \in S : \A y \in S : ~(<<y, x>> \in R)
  <2> HIDE DEF R
  <2> QED BY <1>1, WFMin
<1>3. \A y \in S : ~(y < x)
  BY <1>2 DEF OpToRel
<1> QED BY <1>3

\* Some table is in use, whatever the frequency.
LEMMA BandFound ==
  ASSUME NEW gt, NEW f, IsGainInfo(gt)
  PROVE  Band(gt, f) \in DOMAIN gt
<1> DEFINE fits == {i \in DOMAIN gt : gt[i].start < f /\ f <= gt[i].end}
<1>1. DOMAIN gt = 1 .. Len(gt) /\ Len(gt) \in Nat \ {0}
  BY DEF IsGainInfo
<1>2. fits \subseteq DOMAIN gt /\ fits \subseteq Nat
  BY <1>1
<1>3. Band(gt, f) = IF fits = {} THEN 1 ELSE CHOOSE i \in fits : \A j \in fits : i <= j
  BY DEF Band
<1> HIDE DEF fits
<1>4. fits # {} => \E i \in fits : \A j \in fits : i <= j
  BY <1>2, Least
<1>5. 1 \in DOMAIN gt
  BY <1>1
<1> QED BY <1>2, <1>3, <1>4, <1>5

\* The gains of a table.
IsGains(t) ==
  /\ t \in Seq(Int) /\ t # <<>>
  /\ \A j, k \in DOMAIN t : j <= k => t[j] <= t[k]

\* Every gain table has gains that ascend.
LEMMA TableHasGains ==
  ASSUME NEW gt, NEW i, IsGainInfo(gt), i \in DOMAIN gt
  PROVE  IsGains(gt[i].gain)
<1> DEFINE S == [start : Int, end : Int, gain : Seq(Int)]
<1>1. gt \in Seq(S)
  BY DEF IsGainInfo
<1>2. gt[i].gain # <<>> /\ \A j, k \in DOMAIN gt[i].gain : j <= k => gt[i].gain[j] <= gt[i].gain[k]
  BY DEF IsGainInfo
<1>3. gt[i] \in S
  <2> HIDE DEF S
  <2> QED BY <1>1
<1>4. gt[i].gain \in Seq(Int)
  BY <1>3
<1> QED BY <1>2, <1>4 DEF IsGains

\* find_table_index: an entry that is nearest; none when all are too low, and then the
\* last is nearest.
LEMMA FindTableDoes ==
  ASSUME NEW t, NEW g, IsGains(t), g \in Int
  PROVE  LET k == FindTableIndex(t, g)
         IN  /\ k # 0 => k \in DOMAIN t /\ Nearest(t, k, g)
             /\ k = 0 => Len(t) \in DOMAIN t /\ Nearest(t, Len(t), g)
<1> DEFINE up == {i \in 1 .. Len(t) : t[i] >= g}
           e == CHOOSE k \in up : \A m \in up : k <= m
           k == FindTableIndex(t, g)
<1>1. DOMAIN t = 1 .. Len(t) /\ Len(t) \in Nat \ {0} /\ \A i \in 1 .. Len(t) : t[i] \in Int
  BY DEF IsGains
<1>2. k = IF up = {} THEN 0
          ELSE IF e > 1 /\ AbsDiff(t[e - 1], g) < AbsDiff(t[e], g) THEN e - 1 ELSE e
  BY DEF FindTableIndex
<1>3. up \subseteq Nat
  OBVIOUS
<1>4. \A i \in 1 .. Len(t) : i \in up <=> t[i] >= g
  OBVIOUS
<1>4a. up \subseteq 1 .. Len(t)
  OBVIOUS
<1> HIDE DEF up
<1>5. up # {} => e \in up /\ \A m \in up : e <= m
  <2>1. up # {} => \E i \in up : \A m \in up : i <= m
    BY <1>3, Least
  <2> QED BY <2>1
<1> HIDE DEF e, k
<1>6. CASE up = {}
  <2>1. k = 0 /\ Len(t) \in DOMAIN t
    BY <1>1, <1>2, <1>6
  <2>2. \A i \in 1 .. Len(t) : t[i] < g /\ t[i] <= t[Len(t)]
    BY <1>1, <1>4, <1>6 DEF IsGains
  <2>3. \A i \in 1 .. Len(t) : AbsDiff(t[Len(t)], g) <= AbsDiff(t[i], g)
    BY <1>1, <2>1, <2>2 DEF AbsDiff
  <2> QED BY <1>1, <2>1, <2>3 DEF Nearest, k
<1>7. CASE up # {}
  <2>1. e \in 1 .. Len(t) /\ t[e] >= g
    BY <1>4, <1>4a, <1>5, <1>7
  <2>2. \A i \in 1 .. Len(t) : i < e => t[i] < g /\ t[i] <= t[e - 1]
    <3> TAKE i \in 1 .. Len(t)
    <3> HAVE i < e
    <3>1. i \notin up
      BY <1>5, <1>7, <2>1
    <3>2. i <= e - 1 /\ e - 1 \in DOMAIN t
      BY <1>1, <2>1
    <3> QED BY <1>1, <1>4, <3>1, <3>2 DEF IsGains
  <2>3. \A i \in 1 .. Len(t) : i >= e => t[e] <= t[i]
    BY <1>1, <2>1 DEF IsGains
  <2>4. CASE e > 1 /\ AbsDiff(t[e - 1], g) < AbsDiff(t[e], g)
    <3>1. k = e - 1 /\ k \in 1 .. Len(t) /\ t[e - 1] \in Int /\ t[e] \in Int
      BY <1>1, <1>2, <1>7, <2>1, <2>4
    <3>2. \A i \in 1 .. Len(t) : AbsDiff(t[k], g) <= AbsDiff(t[i], g)
      <4> TAKE i \in 1 .. Len(t)
      <4>1. t[i] \in Int
        BY <1>1
      <4>2. CASE i < e
        <5>1. t[i] < g /\ t[i] <= t[e - 1] /\ t[e - 1] < g
          BY <2>1, <2>2, <3>1, <4>2
        <5> QED BY <3>1, <4>1, <5>1 DEF AbsDiff
      <4>3. CASE i >= e
        <5>1. t[e] <= t[i]
          BY <2>3, <4>3
        <5> QED BY <2>1, <2>4, <3>1, <4>1, <5>1 DEF AbsDiff
      <4> QED BY <2>1, <4>2, <4>3
    <3>3. k # 0 /\ k \in DOMAIN t /\ Nearest(t, k, g)
      BY <1>1, <3>1, <3>2 DEF Nearest
    <3> QED BY <3>3 DEF k
  <2>5. CASE ~(e > 1 /\ AbsDiff(t[e - 1], g) < AbsDiff(t[e], g))
    <3>1. k = e /\ t[e] \in Int
      BY <1>1, <1>2, <1>7, <2>1, <2>5
    <3>2. \A i \in 1 .. Len(t) : AbsDiff(t[k], g) <= AbsDiff(t[i], g)
      <4> TAKE i \in 1 .. Len(t)
      <4>1. t[i] \in Int
        BY <1>1
      <4>2. CASE i < e
        <5>1. e > 1 /\ e - 1 \in 1 .. Len(t)
          BY <2>1, <4>2
        <5>2. t[i] < g /\ t[i] <= t[e - 1] /\ t[e - 1] < g /\ t[e - 1] \in Int
          BY <1>1, <2>1, <2>2, <4>2, <5>1
        <5>3. ~(AbsDiff(t[e - 1], g) < AbsDiff(t[e], g))
          BY <2>5, <5>1
        <5> QED BY <3>1, <4>1, <5>2, <5>3 DEF AbsDiff
      <4>3. CASE i >= e
        <5>1. t[e] <= t[i]
          BY <2>3, <4>3
        <5> QED BY <2>1, <3>1, <4>1, <5>1 DEF AbsDiff
      <4> QED BY <2>1, <4>2, <4>3
    <3>3. k # 0 /\ k \in DOMAIN t /\ Nearest(t, k, g)
      BY <1>1, <2>1, <3>1, <3>2 DEF Nearest
    <3> QED BY <3>3 DEF k
  <2> QED BY <2>4, <2>5
<1> QED BY <1>6, <1>7

\* Before the first table.
NoTableYet(l) == l.table = 0 /\ l.idx \in [1 .. 2 -> Nat \ {0}]

\* ad9361_load_gt
LEMMA LoadGtDoes ==
  ASSUME NEW l, NEW f, LoTypes(l), GainFits(l) \/ NoTableYet(l)
  PROVE  LET q == LoadGt(l, f)
         IN  /\ LoTypes(q) /\ Keeps(l, q, {"table", "idx"}) /\ GainFits(q)
             /\ q.table = Band(l.gt, f)
             /\ GainFits(l) /\ q.table # l.table =>
                  \A i \in 1 .. 2 : Nearest(Gains(q), q.idx[i], Gains(l)[l.idx[i]])
<1> DEFINE b == Band(l.gt, f)
           t == l.gt[b].gain
           At(i) == IF l.table = 0 THEN t[IF l.idx[i] > Len(t) THEN Len(t) ELSE l.idx[i]]
                    ELSE Gains(l)[l.idx[i]]
           New(i) == LET k == FindTableIndex(t, At(i)) IN IF k = 0 THEN Len(t) ELSE k
           ix == [i \in 1 .. 2 |-> New(i)]
           r == [l EXCEPT !.table = b, !.idx = ix]
           q == LoadGt(l, f)
           Good(y) == /\ LoTypes(y) /\ Keeps(l, y, {"table", "idx"}) /\ GainFits(y)
                      /\ y.table = b
                      /\ GainFits(l) /\ y.table # l.table =>
                           \A i \in 1 .. 2 : Nearest(Gains(y), y.idx[i], Gains(l)[l.idx[i]])
<1> SUFFICES Good(q)
  OBVIOUS
<1>1. q = IF l.table = b THEN l ELSE r
  BY DEF LoadGt
<1>2. b \in DOMAIN l.gt /\ IsGainInfo(l.gt)
  BY BandFound DEF LoTypes
<1>3. IsGains(t)
  BY <1>2, TableHasGains
<1>4. 0 \notin DOMAIN l.gt
  BY <1>2 DEF IsGainInfo
<1> HIDE DEF b, t, q
<1>5. \A i \in 1 .. 2 : At(i) \in Int /\ (GainFits(l) => At(i) = Gains(l)[l.idx[i]])
  <2>1. CASE GainFits(l)
    <3>1. l.table # 0 /\ IsGains(Gains(l))
      BY <1>2, <1>4, <2>1, TableHasGains DEF GainFits, Gains
    <3>2. \A i \in 1 .. 2 : l.idx[i] \in DOMAIN Gains(l)
      BY <2>1 DEF GainFits
    <3>3. \A i \in 1 .. 2 : Gains(l)[l.idx[i]] \in Int
      BY <3>1, <3>2 DEF IsGains
    <3> QED BY <3>1, <3>3
  <2>2. CASE NoTableYet(l) /\ ~GainFits(l)
    <3>1. l.table = 0 /\ \A i \in 1 .. 2 : l.idx[i] \in Nat \ {0}
      BY <2>2 DEF NoTableYet
    <3>2. Len(t) \in Nat \ {0} /\ \A j \in 1 .. Len(t) : t[j] \in Int
      BY <1>3 DEF IsGains
    <3>3. \A i \in 1 .. 2 : (IF l.idx[i] > Len(t) THEN Len(t) ELSE l.idx[i]) \in 1 .. Len(t)
      BY <3>1, <3>2
    <3> QED BY <2>2, <3>1, <3>2, <3>3
  <2> QED BY <2>1, <2>2
<1> HIDE DEF At
<1>6. \A i \in 1 .. 2 : New(i) \in DOMAIN t /\ Nearest(t, New(i), At(i))
  <2> TAKE i \in 1 .. 2
  <2> DEFINE k == FindTableIndex(t, At(i))
  <2>1. /\ k # 0 => k \in DOMAIN t /\ Nearest(t, k, At(i))
        /\ k = 0 => Len(t) \in DOMAIN t /\ Nearest(t, Len(t), At(i))
    BY <1>3, <1>5, FindTableDoes
  <2>2. New(i) = IF k = 0 THEN Len(t) ELSE k
    OBVIOUS
  <2> HIDE DEF k, New
  <2> QED BY <2>1, <2>2
<1> HIDE DEF New
<1>7. ix \in [1 .. 2 -> DOMAIN t] /\ \A i \in 1 .. 2 : ix[i] = New(i)
  BY <1>6
<1> HIDE DEF ix
<1>8. Keeps(l, r, {"table", "idx"}) /\ r.table = b /\ r.idx = ix
  BY DEF LoTypes, LoKeys, EnsmKeys, Keeps
<1> HIDE DEF r
<1>9. r.gt = l.gt
  BY <1>8 DEF LoTypes, LoKeys, Keeps
<1>10. Gains(r) = t
  BY <1>8, <1>9 DEF Gains, t
<1>11. CASE l.table = b
  <2>1. ~NoTableYet(l)
    BY <1>2, <1>4, <1>11 DEF NoTableYet
  <2>2. Keeps(l, l, {"table", "idx"})
    BY DEF Keeps
  <2> QED BY <1>1, <1>11, <2>1, <2>2
<1>12. CASE l.table # b
  <2>1. LoTypes(r)
    BY <1>8, LoTypesKept
  <2>2. GainFits(r)
    BY <1>2, <1>7, <1>8, <1>9, <1>10 DEF GainFits
  <2>3. GainFits(l) => \A i \in 1 .. 2 : Nearest(Gains(r), r.idx[i], Gains(l)[l.idx[i]])
    BY <1>5, <1>6, <1>7, <1>8, <1>10
  <2> QED BY <1>1, <1>8, <1>12, <2>1, <2>2, <2>3
<1> QED BY <1>11, <1>12

ClkFields == RateFields \cup {"rate", "table", "idx"}

\* clk_set_rate of the LO d to f, beside the LO o.
Clocked(l, p, d, o, f) ==
  /\ LoTypes(p) /\ Keeps(l, p, ClkFields)
  /\ p.cur[d] = f /\ HasWords(p, d, f) /\ p.cached[d] = p.div[d] /\ p.prof[d] = 0
  /\ p.cur[o] = l.cur[o] /\ p.cached[o] = l.cached[o]
  /\ p.rate[d] = ReadsAs(f) /\ p.rate[o] = l.rate[o] /\ (l.prof[o] = 0 => p.prof[o] = 0)
  /\ p.prof[o] = l.prof[o] => RateSet(l, p, d, o)
GainFollows(l, p) ==
  /\ GainFits(p) /\ p.table = Band(l.gt, p.rate.rx)
  /\ GainFits(l) /\ p.table # l.table =>
       \A i \in 1 .. 2 : Nearest(Gains(p), p.idx[i], Gains(l)[l.idx[i]])
GainSame(l, p) == p.table = l.table /\ p.idx = l.idx

\* A synthesizer that has the words of f, and no profile, reads back as f.
LEMMA WordsReadBack ==
  ASSUME NEW l, NEW d, NEW f, HasWords(l, d, f), l.prof[d] = 0
  PROVE  Readback(l, d) = ReadsAs(f)
  BY DEF HasWords, Readback, ReadsAs

\* What a step of other fields leaves.
LEMMA SameClocked ==
  ASSUME NEW l, NEW q, NEW p, NEW d, NEW o, NEW f, LoTypes(l),
         AtRate(l, q, d, o, f), Keeps(q, p, {"rate", "table", "idx"})
  PROVE  /\ Keeps(l, p, ClkFields)
         /\ p.cur[d] = f /\ HasWords(p, d, f) /\ p.cached[d] = p.div[d] /\ p.prof[d] = 0
         /\ p.cur[o] = l.cur[o] /\ p.cached[o] = l.cached[o]
         /\ p.prof[o] = q.prof[o] /\ (l.prof[o] = 0 => p.prof[o] = 0)
         /\ RateSet(l, q, d, o) => RateSet(l, p, d, o)
<1>1. /\ p.cur = q.cur /\ p.pll = q.pll /\ p.div = q.div /\ p.cached = q.cached /\ p.prof = q.prof
      /\ p.tdd = q.tdd /\ p.ready = q.ready /\ p.alc = q.alc /\ p.vcoCal = q.vcoCal
      /\ p.fdd = q.fdd /\ p.indep = q.indep
  BY DEF AtRate, LoTypes, LoKeys, EnsmKeys, Keeps
<1>2. \A x, y : HasWords(q, x, y) => HasWords(p, x, y)
  BY <1>1 DEF HasWords
<1>3. Tables(q) => Tables(p)
  BY <1>1 DEF Tables, OneVco
<1>4. Keeps(l, p, ClkFields)
  <2>1. Keeps(l, q, RateFields)
    BY DEF AtRate
  <2>2. RateFields \subseteq ClkFields /\ {"rate", "table", "idx"} \subseteq ClkFields
    BY DEF ClkFields
  <2> QED BY <2>1, <2>2, KeepsMore
<1>5. RateSet(l, q, d, o) => RateSet(l, p, d, o)
  BY <1>1, <1>2, <1>3 DEF RateSet
<1> QED BY <1>1, <1>2, <1>4, <1>5 DEF AtRate

\* clk_set_rate of a frequency that is not the cached one.
LEMMA ClkSetDoes ==
  ASSUME NEW l, NEW d \in Dirs, NEW f \in LoRange, NEW alc \in Int, LoTypes(l), GainFits(l) \/ NoTableYet(l),
         l.cur[Other(d)] \in LoRange \/ ~l.tdd[Other(d)],
         ValidRfpll(l.id, d, f), l.rate[d] # f
  PROVE  LET o == Other(d)
             r == ClkSetRate(l, d, f, alc)
         IN  /\ r.ret = "0" /\ Clocked(l, r.p, d, o, f)
             /\ IF d = "rx" /\ r.p.rate.rx # l.rate.rx THEN GainFollows(l, r.p) ELSE GainSame(l, r.p)
<1> DEFINE o == Other(d)
           s == RfpllSetRate(l, d, f, alc)
           rt == [s.rate EXCEPT ![d] = Readback(s, d)]
           q == [s EXCEPT !.rate = rt]
           loads == d = "rx" /\ q.rate[d] # l.rate[d]
           g == LoadGt(q, q.rate[d])
           p == IF loads THEN g ELSE q
           r == ClkSetRate(l, d, f, alc)
<1> SUFFICES /\ r.ret = "0" /\ Clocked(l, r.p, d, o, f)
             /\ IF d = "rx" /\ r.p.rate.rx # l.rate.rx THEN GainFollows(l, r.p) ELSE GainSame(l, r.p)
  OBVIOUS
<1>1. r.p = p /\ r.ret = "0"
  BY DEF ClkSetRate, Ok
<1>2. AtRate(l, s, d, o, f) /\ (s.prof[o] = l.prof[o] => RateSet(l, s, d, o))
  BY SetRateDoes
<1>2a. o \in Dirs /\ o # d /\ Dirs = {"rx", "tx"}
  BY DEF Other, Dirs
<1> HIDE DEF s, r, o
<1>3. Readback(s, d) = ReadsAs(f) /\ ReadsAs(f) \in Int
  BY <1>2, WordsReadBack, ReadsBack DEF AtRate
<1>4. LoTypes(s) /\ s.rate = l.rate /\ s.gt = l.gt /\ s.table = l.table /\ s.idx = l.idx
  BY <1>2 DEF AtRate, Keeps, RateFields, LoTypes, LoKeys
<1>5. rt \in [Dirs -> Int] /\ rt[d] = ReadsAs(f) /\ rt[o] = l.rate[o]
  BY <1>2a, <1>3, <1>4 DEF LoTypes
<1> HIDE DEF rt
<1>6. Keeps(s, q, {"rate"}) /\ q.rate = rt
  BY <1>4 DEF LoTypes, LoKeys, EnsmKeys, Keeps
<1> HIDE DEF q
<1>7. LoTypes(q)
  <2>1. EnsmTypes(q)
    BY <1>4, <1>6, LoEnsmKept DEF EnsmKeys
  <2> QED BY <1>4, <1>5, <1>6, <2>1 DEF LoTypes, Keeps, LoKeys
<1>8. q.gt = l.gt /\ q.table = l.table /\ q.idx = l.idx
  BY <1>4, <1>6 DEF Keeps, LoTypes, LoKeys
<1>9. (GainFits(q) <=> GainFits(l)) /\ (NoTableYet(q) <=> NoTableYet(l)) /\ Gains(q) = Gains(l)
  BY <1>8 DEF GainFits, NoTableYet, Gains
<1>10. CASE loads
  <2>1. p = g
    BY <1>10
  <2>2. /\ LoTypes(g) /\ Keeps(q, g, {"table", "idx"}) /\ GainFits(g)
        /\ g.table = Band(q.gt, q.rate[d])
        /\ GainFits(q) /\ g.table # q.table =>
             \A i \in 1 .. 2 : Nearest(Gains(g), g.idx[i], Gains(q)[q.idx[i]])
    BY <1>7, <1>9, LoadGtDoes
  <2> HIDE DEF g
  <2>3. Keeps(s, g, {"rate", "table", "idx"})
    BY <1>6, <2>2, KeepsMore
  <2>4. g.rate = rt
    BY <1>6, <1>7, <2>2 DEF Keeps, LoTypes, LoKeys
  <2>5. Clocked(l, g, d, o, f)
    <3>1. /\ Keeps(l, g, ClkFields)
          /\ g.cur[d] = f /\ HasWords(g, d, f) /\ g.cached[d] = g.div[d] /\ g.prof[d] = 0
          /\ g.cur[o] = l.cur[o] /\ g.cached[o] = l.cached[o]
          /\ g.prof[o] = s.prof[o] /\ (l.prof[o] = 0 => g.prof[o] = 0)
          /\ RateSet(l, s, d, o) => RateSet(l, g, d, o)
      BY <1>2, <2>3, SameClocked
    <3> QED BY <1>2, <1>5, <2>2, <2>4, <3>1 DEF Clocked
  <2>6. g.rate.rx # l.rate.rx /\ d = "rx"
    BY <1>6, <1>10, <2>4
  <2>7. GainFollows(l, g)
    BY <1>6, <1>8, <1>9, <2>2, <2>4, <2>6 DEF GainFollows
  <2> QED BY <1>1, <2>1, <2>5, <2>6, <2>7
<1>11. CASE ~loads
  <2>1. p = q
    BY <1>11
  <2>2. Keeps(s, q, {"rate", "table", "idx"})
    BY <1>6 DEF Keeps
  <2>3. Clocked(l, q, d, o, f)
    <3>1. /\ Keeps(l, q, ClkFields)
          /\ q.cur[d] = f /\ HasWords(q, d, f) /\ q.cached[d] = q.div[d] /\ q.prof[d] = 0
          /\ q.cur[o] = l.cur[o] /\ q.cached[o] = l.cached[o]
          /\ q.prof[o] = s.prof[o] /\ (l.prof[o] = 0 => q.prof[o] = 0)
          /\ RateSet(l, s, d, o) => RateSet(l, q, d, o)
      BY <1>2, <2>2, SameClocked
    <3> QED BY <1>2, <1>5, <1>6, <1>7, <3>1 DEF Clocked
  <2>4. ~(d = "rx" /\ q.rate.rx # l.rate.rx)
    BY <1>11
  <2>5. GainSame(l, q)
    BY <1>8 DEF GainSame
  <2> QED BY <1>1, <2>1, <2>3, <2>4, <2>5
<1> QED BY <1>10, <1>11

LoInv ==
  /\ LoTypes(lo) /\ GainFits(lo) /\ DOMAIN asked = Dirs
  /\ luck = "none" => LoStands(lo, asked)

\* What the driver accepts is in the range.
LEMMA ValidInRange == ASSUME NEW id, NEW d, NEW f, ValidRfpll(id, d, f) PROVE f \in LoRange
<1>1. CASE id = "AD9363A"
  BY <1>1 DEF ValidRfpll, LoRange
<1>2. CASE id # "AD9363A"
  <2>1. CASE d = "tx"
    BY <1>2, <2>1 DEF ValidRfpll, LoRange
  <2>2. CASE d # "tx"
    <3> DEFINE from == IF d = "tx" THEN 47 ELSE 70
    <3>1. f \in from .. 6000
      BY <1>2 DEF ValidRfpll
    <3>2. from = 70
      BY <2>2
    <3> HIDE DEF from
    <3> QED BY <3>1, <3>2 DEF LoRange
  <2> QED BY <2>1, <2>2
<1> QED BY <1>1, <1>2

\* What an LO reads back as.
LEMMA OwnReadsBack ==
  ASSUME NEW l, NEW d, Own(l, d), ~l.ext[d]
  PROVE  /\ l.prof[d] = 0 => Readback(l, d) = ReadsAs(l.cur[d])
         /\ l.prof[d] # 0 => Readback(l, d) = RfpllFreq(RefMHz, Entry(l, d).n, Entry(l, d).f, Entry(l, d).div)
<1>1. ASSUME l.prof[d] = 0 PROVE Readback(l, d) = ReadsAs(l.cur[d])
  BY <1>1, WordsReadBack DEF Own, HasWords
<1>2. ASSUME l.prof[d] # 0
      PROVE  Readback(l, d) = RfpllFreq(RefMHz, Entry(l, d).n, Entry(l, d).f, Entry(l, d).div)
  BY <1>2 DEF Readback, Entry
<1> QED BY <1>1, <1>2

\* An LO that goes to another frequency is there, without a profile; the other one is
\* where it was.
LEMMA ClockedStands ==
  ASSUME NEW l, NEW p, NEW d \in Dirs, NEW o \in Dirs, o # d, NEW f \in LoRange, NEW a, NEW b,
         LoTypes(l), LoStands(l, a), ~l.ext[d], Clocked(l, p, d, o, f), p.prof[o] = l.prof[o],
         l.ext[o] => p.div[o] = ExtDiv, b[d] = f, b[o] = a[o],
         IF d = "rx" /\ p.rate.rx # l.rate.rx THEN GainFollows(l, p) ELSE GainSame(l, p),
         d = "rx" /\ l.prof.rx # 0 => p.rate.rx # l.rate.rx
  PROVE  LoStands(p, b)
<1>1. /\ LoTypes(p) /\ Keeps(l, p, ClkFields) /\ RateSet(l, p, d, o)
      /\ p.cur[d] = f /\ HasWords(p, d, f) /\ p.cached[d] = p.div[d] /\ p.prof[d] = 0
      /\ p.cur[o] = l.cur[o] /\ p.cached[o] = l.cached[o] /\ p.prof[o] = l.prof[o]
      /\ p.rate[d] = ReadsAs(f) /\ p.rate[o] = l.rate[o]
  BY DEF Clocked
<1>2. /\ p.mem = l.mem /\ p.ext = l.ext /\ p.gt = l.gt /\ p.skipCal = l.skipCal /\ p.clocks = l.clocks
  BY <1>1 DEF Keeps, ClkFields, RateFields, LoTypes, LoKeys, EnsmKeys
<1>3. Dirs = {d, o} /\ Dirs = {"rx", "tx"}
  BY DEF Dirs
<1>4. \A x \in Dirs : Own(l, x) /\ Profiled(l, x) /\ Asked(l, x, a[x])
  BY DEF LoStands
<1>5. Own(p, d)
  BY <1>1 DEF Own, HasWords
<1>6. Own(p, o)
  BY <1>1, <1>2, <1>4 DEF Own, HasWords, RateSet
<1>7. l.skipCal \in BOOLEAN /\ l.ext \in [Dirs -> BOOLEAN] /\ l.clocks \in BOOLEAN
  BY DEF LoTypes, EnsmTypes
<1>8. Profiled(p, d)
  <2>1. ~p.ext[d] /\ ~p.ready[d]
    BY <1>1, <1>2, <1>4 DEF RateSet, Profiled
  <2>2. p.clocks => (d \in p.vcoCal <=> ~p.skipCal)
    BY <1>1, <1>2, <1>4 DEF RateSet, Profiled
  <2> QED BY <1>1, <2>1, <2>2 DEF Profiled
<1>9. Profiled(p, o)
  <2>1. Entry(p, o) = Entry(l, o)
    BY <1>1, <1>2 DEF Entry
  <2> QED BY <1>1, <1>2, <1>4, <2>1 DEF RateSet, Profiled
<1>10. Asked(p, d, b[d])
  BY <1>1, ReadsBack DEF Asked
<1>11. Asked(p, o, b[o])
  <2>1. Entry(p, o) = Entry(l, o)
    BY <1>1, <1>2 DEF Entry
  <2> QED BY <1>1, <1>4, <2>1 DEF Asked
<1>12. Tables(p)
  BY <1>1 DEF RateSet
<1>13. BandFollows(p)
  <2>1. CASE d = "rx"
    <3>1. p.rate.rx = ReadsAs(p.cur.rx)
      BY <1>1, <2>1
    <3>2. CASE p.rate.rx # l.rate.rx
      BY <1>2, <2>1, <3>1, <3>2 DEF GainFollows, BandFollows
    <3>3. CASE p.rate.rx = l.rate.rx
      BY <1>2, <2>1, <3>1, <3>3 DEF GainSame, BandFollows, LoStands
    <3> QED BY <3>2, <3>3
  <2>2. CASE d = "tx"
    <3>1. o = "rx"
      BY <1>3, <2>2
    <3> QED BY <1>1, <1>2, <2>2, <3>1 DEF GainSame, BandFollows, LoStands
  <2> QED BY <1>3, <2>1, <2>2
<1> QED BY <1>3, <1>5, <1>6, <1>8, <1>9, <1>10, <1>11, <1>12, <1>13 DEF LoStands

\* LOEXT_FREQ
LEMMA LoFreqStep ==
  ASSUME NEW d \in Dirs, NEW f, NEW alc \in 1 .. 2, LoInv, LoFreq(d, f, alc)
  PROVE  /\ LoInv'
         /\ lo'.table # lo.table => \A i \in 1 .. 2 : Nearest(Gains(lo'), lo'.idx[i], Gains(lo)[lo.idx[i]])
<1> DEFINE o == Other(d)
           r == ClkSetRate(lo, d, f, alc)
           b == IF r.ret = "0" THEN [asked EXCEPT ![d] = f] ELSE asked
           stale == r.ret = "0" /\ lo.rate[d] = f /\ Readback(lo, d) # f
           silent == d = "rx" /\ r.ret = "0" /\ lo.rate.rx # f /\ lo.prof.rx # 0 /\ r.p.rate.rx = lo.rate.rx
           ended == r.p.prof[o] # lo.prof[o]
           ext == lo.ext[o] /\ r.p.div[o] # ExtDiv
<1>1. /\ luck = "none" /\ ~lo.ext[d] /\ lo' = r.p /\ asked' = b
      /\ luck' = IF stale THEN "stale rate" ELSE IF silent THEN "silent notifier"
                 ELSE IF ended THEN "other profile ended" ELSE IF ext THEN "external divider" ELSE luck
  BY DEF LoFreq, LoCall
<1>2. o \in Dirs /\ o # d /\ Dirs = {d, o} /\ Dirs = {"rx", "tx"}
  BY DEF Other, Dirs
<1>3. /\ LoTypes(lo) /\ GainFits(lo) /\ DOMAIN asked = Dirs /\ LoStands(lo, asked)
  BY <1>1 DEF LoInv
<1>4. \A x \in Dirs : Own(lo, x) /\ Profiled(lo, x) /\ Asked(lo, x, asked[x])
  BY <1>3 DEF LoStands
<1>5. DOMAIN b = Dirs /\ (r.ret = "0" => b[d] = f /\ b[o] = asked[o]) /\ (r.ret # "0" => b = asked)
  BY <1>2, <1>3
<1>6. luck' = "none" => ~stale /\ ~silent /\ ~ended /\ ~ext
  <2> HIDE DEF stale, silent, ended, ext
  <2> QED BY <1>1
<1> HIDE DEF b, o
<1>7. CASE ~ValidRfpll(lo.id, d, f)
  <2>1. r.p = lo /\ r.ret = "-EINVAL"
    BY <1>7 DEF ClkSetRate, Err
  <2> QED BY <1>1, <1>3, <1>5, <2>1 DEF LoInv
<1>8. CASE ValidRfpll(lo.id, d, f) /\ lo.rate[d] = f
  <2>1. r.p = lo /\ r.ret = "0"
    BY <1>8 DEF ClkSetRate, Ok
  <2>2. f \in LoRange
    BY <1>8, ValidInRange
  <2>3. ASSUME luck' = "none" PROVE LoStands(lo, b)
    <3>1. Readback(lo, d) = f
      BY <1>6, <1>8, <2>1, <2>3
    <3>2. Asked(lo, d, f)
      <4>1. Own(lo, d)
        BY <1>4
      <4>2. f - f \in 0 .. 1
        BY <2>2 DEF LoRange
      <4> QED BY <1>1, <3>1, <4>1, <4>2, OwnReadsBack DEF Asked
    <3>3. \A x \in Dirs : Own(lo, x) /\ Profiled(lo, x) /\ Asked(lo, x, b[x])
      BY <1>2, <1>4, <1>5, <2>1, <3>2
    <3> QED BY <1>3, <3>3 DEF LoStands
  <2> QED BY <1>1, <1>3, <1>5, <2>1, <2>3 DEF LoInv
<1>9. CASE ValidRfpll(lo.id, d, f) /\ lo.rate[d] # f
  <2>1. f \in LoRange /\ alc \in Int
    BY <1>9, ValidInRange
  <2>2. lo.cur[o] \in LoRange
    BY <1>2, <1>4 DEF Own
  <2>3. /\ r.ret = "0" /\ Clocked(lo, r.p, d, o, f)
        /\ IF d = "rx" /\ r.p.rate.rx # lo.rate.rx THEN GainFollows(lo, r.p) ELSE GainSame(lo, r.p)
    <3> HIDE DEF r
    <3> QED BY <1>3, <1>9, <2>1, <2>2, ClkSetDoes DEF o, r
  <2> HIDE DEF r
  <2>4. LoTypes(r.p) /\ r.p.gt = lo.gt
    BY <1>3, <2>3 DEF Clocked, Keeps, ClkFields, RateFields, LoTypes, LoKeys
  <2>5. GainFits(r.p)
    BY <1>3, <2>3, <2>4 DEF GainFollows, GainSame, GainFits, Gains
  <2>6. ASSUME luck' = "none" PROVE LoStands(r.p, b)
    <3>1. /\ r.p.prof[o] = lo.prof[o] /\ (lo.ext[o] => r.p.div[o] = ExtDiv)
          /\ b[d] = f /\ b[o] = asked[o]
      BY <1>5, <1>6, <2>3, <2>6
    <3>2. d = "rx" /\ lo.prof.rx # 0 => r.p.rate.rx # lo.rate.rx
      BY <1>6, <1>9, <2>3, <2>6
    <3> QED BY <1>1, <1>2, <1>3, <2>1, <2>3, <3>1, <3>2, ClockedStands
  <2>7. r.p.table # lo.table => \A i \in 1 .. 2 : Nearest(Gains(r.p), r.p.idx[i], Gains(lo)[lo.idx[i]])
    BY <1>3, <2>3 DEF GainFollows, GainSame
  <2> QED BY <1>1, <1>5, <2>4, <2>5, <2>6, <2>7 DEF LoInv
<1> QED BY <1>7, <1>8, <1>9

\* What is said of the LOs speaks of these fields.
StandFields ==
  {"cur", "pll", "cached", "div", "ext", "prof", "ready", "clocks", "vcoCal", "skipCal", "alc", "mem",
   "fdd", "indep", "tdd", "rate", "table", "gt"}

\* Other fields may change.
LEMMA StandsKept ==
  ASSUME NEW l, NEW q, NEW T, NEW a, LoTypes(l), Keeps(l, q, T), T \cap StandFields = {}, LoStands(l, a)
  PROVE  LoStands(q, a)
<1>1. /\ q.cur = l.cur /\ q.pll = l.pll /\ q.cached = l.cached /\ q.div = l.div /\ q.ext = l.ext
      /\ q.prof = l.prof /\ q.ready = l.ready /\ q.clocks = l.clocks /\ q.vcoCal = l.vcoCal
      /\ q.skipCal = l.skipCal /\ q.alc = l.alc /\ q.mem = l.mem /\ q.fdd = l.fdd /\ q.indep = l.indep
      /\ q.tdd = l.tdd /\ q.rate = l.rate /\ q.table = l.table /\ q.gt = l.gt
  <2>1. StandFields \subseteq DOMAIN l
    BY DEF StandFields, LoTypes, LoKeys, EnsmKeys
  <2>2. \A k \in StandFields : q[k] = l[k]
    BY <2>1 DEF Keeps
  <2> QED BY <2>2 DEF StandFields
<1>2. \A d \in Dirs : Own(q, d)
  BY <1>1 DEF LoStands, Own
<1>3. \A d \in Dirs : Entry(q, d) = Entry(l, d)
  BY <1>1 DEF Entry
<1>4. \A d \in Dirs : Profiled(q, d)
  BY <1>1, <1>3 DEF LoStands, Profiled
<1>5. \A d \in Dirs : Asked(q, d, a[d])
  BY <1>1, <1>3 DEF LoStands, Asked
<1>6. Tables(q)
  BY <1>1 DEF LoStands, Tables, OneVco
<1>7. BandFollows(q)
  BY <1>1 DEF LoStands, BandFollows
<1> QED BY <1>2, <1>4, <1>5, <1>6, <1>7 DEF LoStands

\* A frequency is a number.
LEMMA FreqInt ==
  ASSUME NEW n \in Int, NEW f \in Int, NEW div \in RfDividers
  PROVE  RfpllFreq(RefMHz, n, f, div) \in Int
<1> DEFINE v == (40 * f) \div 8388593 + 40 * n
           G(k) == v \div (2 ^ k) \in Int
<1>1. v \in Int
  OBVIOUS
<1>2. RfpllFreq(RefMHz, n, f, div) = v \div (2 ^ (div + 1))
  BY DEF RfpllFreq, RefMHz, Modulus
<1> HIDE DEF v
<1>3. div = 0 \/ div = 1 \/ div = 2 \/ div = 3 \/ div = 4 \/ div = 5 \/ div = 6 \/ div = 7
  BY DEF RfDividers
<1>4. 2 ^ (div + 1) \in Nat \ {0}
  <2>1. ASSUME div = 0 PROVE 2 ^ (div + 1) = 2
    BY <2>1
  <2>2. ASSUME div = 1 PROVE 2 ^ (div + 1) = 4
    BY <2>2
  <2>3. ASSUME div = 2 PROVE 2 ^ (div + 1) = 8
    BY <2>3
  <2>4. ASSUME div = 3 PROVE 2 ^ (div + 1) = 16
    BY <2>4
  <2>5. ASSUME div = 4 PROVE 2 ^ (div + 1) = 32
    BY <2>5
  <2>6. ASSUME div = 5 PROVE 2 ^ (div + 1) = 64
    BY <2>6
  <2>7. ASSUME div = 6 PROVE 2 ^ (div + 1) = 128
    BY <2>7
  <2>8. ASSUME div = 7 PROVE 2 ^ (div + 1) = 256
    BY <2>8
  <2> QED BY <1>3, <2>1, <2>2, <2>3, <2>4, <2>5, <2>6, <2>7, <2>8
<1> DEFINE e == 2 ^ (div + 1)
<1>5. e \in Nat \ {0}
  BY <1>4
<1> HIDE DEF e
<1>6. v \div e \in Int
  BY <1>1, <1>5
<1> QED BY <1>2, <1>6 DEF e

\* So is what an LO reads back as.
LEMMA ReadbackInt ==
  ASSUME NEW l, NEW d \in Dirs, LoTypes(l)
  PROVE  Readback(l, d) \in Int
<1>1. CASE l.prof[d] = 0
  <2>1. l.pll[d].n \in Int /\ l.pll[d].f \in Int /\ l.div[d] \in RfDividers
    BY DEF LoTypes, PllWords
  <2> QED BY <1>1, <2>1, FreqInt DEF Readback
<1>2. CASE l.prof[d] # 0
  <2> DEFINE m == l.mem[d][l.prof[d] - 1]
  <2>1. l.prof[d] - 1 \in Profiles
    BY <1>2 DEF LoTypes, InUseNos, Profiles
  <2>2. m \in Entries
    BY <2>1 DEF LoTypes
  <2>3. m.n \in Int /\ m.f \in Int /\ m.div \in RfDividers
    BY <2>2 DEF Entries
  <2>4. Readback(l, d) = RfpllFreq(RefMHz, m.n, m.f, m.div)
    BY <1>2 DEF Readback
  <2> HIDE DEF m
  <2> QED BY <2>3, <2>4, FreqInt
<1> QED BY <1>1, <1>2

\* The attribute is read.
LEMMA LoReadStep ==
  ASSUME NEW d \in Dirs, LoInv, LoRead(d)
  PROVE  LoInv' /\ lo'.table = lo.table
<1> DEFINE rt == [lo.rate EXCEPT ![d] = Readback(lo, d)]
           q == [lo EXCEPT !.rate = rt]
<1>1. luck = "none" /\ ~lo.ext[d] /\ lo' = q /\ asked' = asked /\ luck' = luck
  BY DEF LoRead, LoCall
<1>2. LoTypes(lo) /\ GainFits(lo) /\ DOMAIN asked = Dirs /\ LoStands(lo, asked)
  BY <1>1 DEF LoInv
<1>3. rt \in [Dirs -> Int] /\ rt[d] = Readback(lo, d) /\ \A x \in Dirs \ {d} : rt[x] = lo.rate[x]
  BY <1>2, ReadbackInt DEF LoTypes
<1> HIDE DEF rt
<1>4. Keeps(lo, q, {"rate"}) /\ q.rate = rt
  BY <1>2 DEF LoTypes, LoKeys, EnsmKeys, Keeps
<1> HIDE DEF q
<1>5. LoTypes(q)
  <2>1. EnsmTypes(q)
    BY <1>2, <1>4, LoEnsmKept DEF EnsmKeys
  <2> QED BY <1>2, <1>3, <1>4, <2>1 DEF LoTypes, Keeps, LoKeys
<1>6. /\ q.cur = lo.cur /\ q.pll = lo.pll /\ q.cached = lo.cached /\ q.div = lo.div /\ q.ext = lo.ext
      /\ q.prof = lo.prof /\ q.ready = lo.ready /\ q.clocks = lo.clocks /\ q.vcoCal = lo.vcoCal
      /\ q.skipCal = lo.skipCal /\ q.alc = lo.alc /\ q.mem = lo.mem /\ q.fdd = lo.fdd /\ q.indep = lo.indep
      /\ q.tdd = lo.tdd /\ q.table = lo.table /\ q.gt = lo.gt /\ q.idx = lo.idx
  BY <1>2, <1>4 DEF Keeps, LoTypes, LoKeys, EnsmKeys
<1>7. GainFits(q)
  BY <1>2, <1>6 DEF GainFits, Gains
<1>8. \A x \in Dirs : Own(lo, x) /\ Profiled(lo, x) /\ Asked(lo, x, asked[x])
  BY <1>2 DEF LoStands
<1>9. \A x \in Dirs : Own(q, x)
  BY <1>6, <1>8 DEF Own
<1>10. \A x \in Dirs : Entry(q, x) = Entry(lo, x)
  BY <1>6 DEF Entry
<1>11. \A x \in Dirs : Profiled(q, x) /\ Asked(q, x, asked[x])
  BY <1>6, <1>8, <1>10 DEF Profiled, Asked
<1>12. Tables(q)
  BY <1>2, <1>6 DEF LoStands, Tables, OneVco
<1>13. BandFollows(q)
  <2>1. CASE d = "rx"
    <3>1. lo.prof.rx = 0 => Readback(lo, "rx") = ReadsAs(lo.cur.rx)
      BY <1>1, <1>8, <2>1, OwnReadsBack
    <3> QED BY <1>2, <1>3, <1>4, <1>6, <2>1, <3>1 DEF LoStands, BandFollows
  <2>2. CASE d # "rx"
    <3>1. q.rate.rx = lo.rate.rx
      BY <1>3, <1>4, <2>2 DEF Dirs
    <3> QED BY <1>2, <1>6, <3>1 DEF LoStands, BandFollows
  <2> QED BY <2>1, <2>2
<1>14. LoStands(q, asked)
  BY <1>9, <1>11, <1>12, <1>13 DEF LoStands
<1> QED BY <1>1, <1>2, <1>5, <1>6, <1>7, <1>14 DEF LoInv

WithEntry(l, d, p, e) == [l EXCEPT !.mem[d][p] = e]

\* An entry of the profile memory is written, not that of the profile in use.
LEMMA EntryWritten ==
  ASSUME NEW l, NEW d \in Dirs, NEW p \in Profiles, NEW e \in Entries, LoTypes(l)
  PROVE  LET q == WithEntry(l, d, p, e)
         IN  /\ LoTypes(q) /\ Keeps(l, q, {"mem"}) /\ q.mem[d][p] = e
             /\ \A x \in Dirs, y \in Profiles : x # d \/ y # p => q.mem[x][y] = l.mem[x][y]
<1> DEFINE me == [l.mem EXCEPT ![d][p] = e]
           q == [l EXCEPT !.mem = me]
<1>1. WithEntry(l, d, p, e) = q
  BY DEF WithEntry
<1>2. /\ me \in [Dirs -> [Profiles -> Entries]] /\ me[d][p] = e
      /\ \A x \in Dirs, y \in Profiles : x # d \/ y # p => me[x][y] = l.mem[x][y]
  <2> DEFINE row == [l.mem[d] EXCEPT ![p] = e]
  <2>1. row \in [Profiles -> Entries] /\ row[p] = e /\ \A y \in Profiles \ {p} : row[y] = l.mem[d][y]
    BY DEF LoTypes
  <2>2. me = [l.mem EXCEPT ![d] = row]
    OBVIOUS
  <2> HIDE DEF row, me
  <2> QED BY <2>1, <2>2 DEF LoTypes
<1> HIDE DEF me
<1>3. Keeps(l, q, {"mem"}) /\ q.mem = me
  BY DEF LoTypes, LoKeys, EnsmKeys, Keeps
<1> HIDE DEF q
<1>4. LoTypes(q)
  <2>1. EnsmTypes(q)
    BY <1>3, LoEnsmKept DEF EnsmKeys
  <2> QED BY <1>2, <1>3, <2>1 DEF LoTypes, Keeps, LoKeys
<1> HIDE DEF q
<1> QED BY <1>1, <1>2, <1>3, <1>4

\* One that is not in use.
LEMMA EntryStands ==
  ASSUME NEW l, NEW d \in Dirs, NEW p \in Profiles, NEW e \in Entries, NEW a, LoTypes(l),
         LoStands(l, a), l.prof[d] # p + 1
  PROVE  LoStands(WithEntry(l, d, p, e), a)
<1> DEFINE q == WithEntry(l, d, p, e)
<1>1. /\ LoTypes(q) /\ Keeps(l, q, {"mem"})
      /\ \A x \in Dirs, y \in Profiles : x # d \/ y # p => q.mem[x][y] = l.mem[x][y]
  BY EntryWritten
<1> HIDE DEF q
<1>2. /\ q.cur = l.cur /\ q.pll = l.pll /\ q.cached = l.cached /\ q.div = l.div /\ q.ext = l.ext
      /\ q.prof = l.prof /\ q.ready = l.ready /\ q.clocks = l.clocks /\ q.vcoCal = l.vcoCal
      /\ q.skipCal = l.skipCal /\ q.alc = l.alc /\ q.fdd = l.fdd /\ q.indep = l.indep
      /\ q.tdd = l.tdd /\ q.table = l.table /\ q.gt = l.gt /\ q.rate = l.rate
  BY <1>1 DEF Keeps, LoTypes, LoKeys, EnsmKeys
<1>3. \A x \in Dirs : Own(l, x) /\ Profiled(l, x) /\ Asked(l, x, a[x])
  BY DEF LoStands
<1>4. \A x \in Dirs : Own(q, x)
  BY <1>2, <1>3 DEF Own
<1>5. \A x \in Dirs : q.prof[x] # 0 => Entry(q, x) = Entry(l, x)
  <2> TAKE x \in Dirs
  <2> HAVE q.prof[x] # 0
  <2>1. l.prof[x] - 1 \in Profiles /\ (x = d => l.prof[x] - 1 # p)
    BY <1>2 DEF LoTypes, InUseNos, Profiles
  <2> QED BY <1>1, <1>2, <2>1 DEF Entry
<1>6. \A x \in Dirs : Profiled(q, x) /\ Asked(q, x, a[x])
  BY <1>2, <1>3, <1>5 DEF Profiled, Asked
<1>7. Tables(q)
  BY <1>2 DEF LoStands, Tables, OneVco
<1>8. BandFollows(q)
  BY <1>2 DEF LoStands, BandFollows
<1> QED BY <1>4, <1>6, <1>7, <1>8 DEF LoStands, q

\* LOEXT_STORE and LOEXT_LOAD
LEMMA ProfileStep ==
  ASSUME NEW d \in Dirs, NEW p \in Profiles, NEW f \in LoRange, NEW alc \in Int, LoInv,
         LoStore(d, p) \/ LoLoad(d, p, f, alc)
  PROVE  LoInv' /\ lo'.table = lo.table
<1> DEFINE s == RfpllDiv(f, RefMHz)
           v1 == [n |-> lo.pll[d].n, f |-> lo.pll[d].f, div |-> lo.div[d], alc |-> lo.alc[d]]
           v2 == [n |-> s.n, f |-> s.f, div |-> s.div, alc |-> alc]
           Given(v) == v.n \in Int /\ v.f \in Int /\ v.div \in RfDividers /\ v.alc \in Int
<1>1. /\ luck = "none" /\ asked' = asked
      /\ luck' = IF lo.prof[d] = p + 1 THEN "profile in use" ELSE luck
  BY DEF LoStore, LoLoad, LoCall
<1>2. LoTypes(lo) /\ GainFits(lo) /\ DOMAIN asked = Dirs /\ LoStands(lo, asked)
  BY <1>1 DEF LoInv
<1>3. lo' = FastlockLoad(lo, d, p, v1) \/ lo' = FastlockLoad(lo, d, p, v2)
  BY DEF LoStore, LoLoad, FastlockStore
<1>4. Given(v1)
  BY <1>2 DEF LoTypes, PllWords
<1>5. Given(v2)
  <2>1. s.n \in Int /\ s.f \in Int /\ s.div \in RfDividers
    BY ReadsBack
  <2> HIDE DEF s
  <2> QED BY <2>1
<1> HIDE DEF v1, v2, Given
<1>6. PICK v : Given(v) /\ lo' = FastlockLoad(lo, d, p, v)
  BY <1>3, <1>4, <1>5
<1> DEFINE e == [init |-> TRUE, n |-> v.n, f |-> v.f, div |-> v.div, orig |-> v.alc, alc |-> v.alc]
           q == WithEntry(lo, d, p, e)
<1>7. lo' = q
  BY <1>6 DEF FastlockLoad, WithEntry
<1>8. e \in Entries
  BY <1>6 DEF Entries, Given
<1> HIDE DEF e
<1>9. LoTypes(q) /\ Keeps(lo, q, {"mem"})
  BY <1>2, <1>8, EntryWritten
<1>9a. lo.prof[d] # p + 1 => LoStands(q, asked)
  BY <1>2, <1>8, EntryStands
<1> HIDE DEF q
<1>10. q.gt = lo.gt /\ q.table = lo.table /\ q.idx = lo.idx
  BY <1>2, <1>9 DEF Keeps, LoTypes, LoKeys
<1>11. GainFits(q)
  BY <1>2, <1>10 DEF GainFits, Gains
<1>12. luck' = "none" => lo.prof[d] # p + 1
  BY <1>1
<1> QED BY <1>1, <1>2, <1>7, <1>9, <1>9a, <1>10, <1>11, <1>12 DEF LoInv

\* A profile begins.
LEMMA PrepareDoes ==
  ASSUME NEW l, NEW d \in Dirs, LoTypes(l)
  PROVE  LET q == Prepare(l, d)
         IN  /\ LoTypes(q) /\ Keeps(l, q, {"ready", "vcoCal"}) /\ Beside(l, q, d)
             /\ l.prof[d] # 0 => q = l
             /\ l.prof[d] = 0 => q.ready[d] /\ q.vcoCal = l.vcoCal \ {d}
<1> DEFINE rd == [l.ready EXCEPT ![d] = TRUE]
           vc == l.vcoCal \ {d}
           q == [l EXCEPT !.ready = rd, !.vcoCal = vc]
<1>1. Prepare(l, d) = IF l.prof[d] # 0 THEN l ELSE q
  BY DEF Prepare
<1>2. rd \in [Dirs -> BOOLEAN] /\ rd[d] = TRUE /\ \A o \in Dirs \ {d} : rd[o] = l.ready[o]
  BY DEF LoTypes
<1> HIDE DEF rd, vc
<1>3. Keeps(l, q, {"ready", "vcoCal"}) /\ q.ready = rd /\ q.vcoCal = vc
  BY DEF LoTypes, LoKeys, EnsmKeys, Keeps
<1> HIDE DEF q
<1>4. LoTypes(q)
  BY <1>2, <1>3 DEF LoTypes, EnsmTypes, Keeps, LoKeys, EnsmKeys
<1>5. Beside(l, q, d)
  BY <1>2, <1>3 DEF Beside, PerLo, Keeps, LoTypes, LoKeys
<1>6. Keeps(l, l, {"ready", "vcoCal"}) /\ Beside(l, l, d)
  BY DEF Keeps, Beside
<1> QED BY <1>1, <1>2, <1>3, <1>4, <1>5, <1>6 DEF vc

\* The ALC word that a recall uses is another one.
LEMMA NewAlcDiffers ==
  ASSUME NEW m \in Entries, NEW curr \in Int
  PROVE  NewAlc(m, curr) \in Int /\ NewAlc(m, curr) # curr
<1>1. m.alc \in Int /\ m.orig \in Int
  BY DEF Entries
<1> QED BY <1>1 DEF NewAlc

RecallFields == {"mem", "ready", "vcoCal", "prof", "alc"}

\* ad9361_fastlock_recall of an entry that is there.
LEMMA RecallDoes ==
  ASSUME NEW l, NEW d \in Dirs, NEW p \in Profiles, LoTypes(l), l.mem[d][p].init
  PROVE  LET r == FastlockRecall(l, d, p)
             q == r.p
         IN  /\ r.ret = "0" /\ LoTypes(q) /\ Keeps(l, q, RecallFields) /\ Beside(l, q, d)
             /\ q.prof[d] = p + 1 /\ q.alc[d] = q.mem[d][p].alc
             /\ l.prof[d] # 0 => q.ready = l.ready /\ q.vcoCal = l.vcoCal
             /\ l.prof[d] = 0 => q.ready[d] /\ q.vcoCal = l.vcoCal \ {d}
             /\ (l.prof[d] # 0 => l.alc[d] = Entry(l, d).alc) => q.alc[d] # l.alc[d]
<1> DEFINE m == l.mem[d][p]
           curr == IF l.prof[d] = 0 THEN l.alc[d] ELSE l.mem[d][l.prof[d] - 1].alc
           w == NewAlc(m, curr)
           e == [m EXCEPT !.alc = w]
           x == WithEntry(l, d, p, e)
           y == Prepare(x, d)
           pr == [y.prof EXCEPT ![d] = p + 1]
           al == [y.alc EXCEPT ![d] = w]
           q == [y EXCEPT !.prof = pr, !.alc = al]
           r == FastlockRecall(l, d, p)
           Good(z) == /\ LoTypes(z) /\ Keeps(l, z, RecallFields) /\ Beside(l, z, d)
                      /\ z.prof[d] = p + 1 /\ z.alc[d] = z.mem[d][p].alc
                      /\ l.prof[d] # 0 => z.ready = l.ready /\ z.vcoCal = l.vcoCal
                      /\ l.prof[d] = 0 => z.ready[d] /\ z.vcoCal = l.vcoCal \ {d}
                      /\ (l.prof[d] # 0 => l.alc[d] = Entry(l, d).alc) => z.alc[d] # l.alc[d]
<1> SUFFICES r.ret = "0" /\ Good(r.p)
  OBVIOUS
<1>1. m \in Entries
  BY DEF LoTypes
<1>2. curr \in Int
  <2>1. CASE l.prof[d] = 0
    BY <2>1 DEF LoTypes
  <2>2. CASE l.prof[d] # 0
    <3>1. l.prof[d] - 1 \in Profiles
      BY <2>2 DEF LoTypes, InUseNos, Profiles
    <3>2. l.mem[d][l.prof[d] - 1] \in Entries
      BY <3>1 DEF LoTypes
    <3> QED BY <2>2, <3>2 DEF Entries
  <2> QED BY <2>1, <2>2
<1>3. (l.prof[d] # 0 => l.alc[d] = Entry(l, d).alc) => curr = l.alc[d]
  BY DEF Entry
<1>4. [l EXCEPT !.mem[d][p].alc = w] = x
  BY DEF WithEntry
<1>5. r.ret = "0" /\ r.p = q
  BY <1>4 DEF FastlockRecall, Ok
<1> HIDE DEF m, curr
<1>6. w \in Int /\ w # curr
  BY <1>1, <1>2, NewAlcDiffers
<1> HIDE DEF w
<1>7. e \in Entries /\ e.alc = w
  BY <1>1, <1>6 DEF Entries
<1> HIDE DEF e
<1>8. /\ LoTypes(x) /\ Keeps(l, x, {"mem"}) /\ x.mem[d][p] = e
      /\ \A i \in Dirs, j \in Profiles : i # d \/ j # p => x.mem[i][j] = l.mem[i][j]
  BY <1>7, EntryWritten
<1> HIDE DEF x
<1>9. /\ LoTypes(y) /\ Keeps(x, y, {"ready", "vcoCal"}) /\ Beside(x, y, d)
      /\ x.prof[d] # 0 => y = x
      /\ x.prof[d] = 0 => y.ready[d] /\ y.vcoCal = x.vcoCal \ {d}
  BY <1>8, PrepareDoes
<1> HIDE DEF y
<1>10. p + 1 \in InUseNos /\ p \in Int
  BY DEF InUseNos, Profiles
<1>11. /\ pr \in [Dirs -> InUseNos] /\ al \in [Dirs -> Int] /\ pr[d] = p + 1 /\ al[d] = w
       /\ \A o \in Dirs \ {d} : pr[o] = y.prof[o] /\ al[o] = y.alc[o]
  BY <1>6, <1>9, <1>10 DEF LoTypes
<1> HIDE DEF pr, al
<1>12. Keeps(y, q, {"prof", "alc"}) /\ q.prof = pr /\ q.alc = al
  BY <1>9 DEF LoTypes, LoKeys, EnsmKeys, Keeps
<1> HIDE DEF q
<1>13. LoTypes(q)
  <2>1. EnsmTypes(q)
    BY <1>9, <1>12, LoEnsmKept DEF EnsmKeys
  <2> QED BY <1>9, <1>11, <1>12, <2>1 DEF LoTypes, Keeps, LoKeys
<1>14. Keeps(l, q, RecallFields)
  <2>1. Keeps(l, y, {"mem", "ready", "vcoCal"})
    BY <1>8, <1>9, KeepsMore
  <2> QED BY <1>12, <2>1, KeepsMore DEF RecallFields
<1>15. /\ x.prof = l.prof /\ x.alc = l.alc /\ x.ready = l.ready /\ x.vcoCal = l.vcoCal
       /\ y.prof = x.prof /\ y.alc = x.alc /\ y.mem = x.mem
       /\ q.mem = y.mem /\ q.ready = y.ready /\ q.vcoCal = y.vcoCal
  BY <1>8, <1>9, <1>12 DEF Keeps, LoTypes, LoKeys, EnsmKeys
<1>16. Beside(l, q, d)
  <2>1. \A o \in Dirs \ {d} : /\ q.prof[o] = l.prof[o] /\ q.alc[o] = l.alc[o] /\ q.mem[o] = l.mem[o]
                              /\ q.ready[o] = l.ready[o]
    <3> TAKE o \in Dirs \ {d}
    <3>1. y.ready[o] = x.ready[o]
      BY <1>9 DEF Beside, PerLo
    <3>2. x.mem[o] = l.mem[o]
      <4>1. x.mem[o] \in [Profiles -> Entries] /\ l.mem[o] \in [Profiles -> Entries]
        BY <1>8 DEF LoTypes
      <4> QED BY <1>8, <4>1
    <3> QED BY <1>11, <1>12, <1>15, <3>1, <3>2
  <2>2. /\ q.cur = l.cur /\ q.tdd = l.tdd /\ q.pll = l.pll /\ q.div = l.div /\ q.cached = l.cached
        /\ q.ext = l.ext /\ q.rate = l.rate
    BY <1>14 DEF Keeps, RecallFields, LoTypes, LoKeys
  <2> QED BY <2>1, <2>2 DEF Beside, PerLo
<1>17. q.prof[d] = p + 1 /\ q.alc[d] = q.mem[d][p].alc /\ q.alc[d] = w
  BY <1>7, <1>8, <1>11, <1>12, <1>15
<1>18. Good(q)
  BY <1>3, <1>6, <1>9, <1>13, <1>14, <1>15, <1>16, <1>17
<1> QED BY <1>5, <1>18

\* LOEXT_RECALL
LEMMA LoRecallStep ==
  ASSUME NEW d \in Dirs, NEW p \in Profiles, LoInv, LoRecall(d, p)
  PROVE  /\ LoInv' /\ lo'.table = lo.table
         /\ lo.mem[d][p].init => lo'.alc[d] # lo.alc[d]
<1> DEFINE r == FastlockRecall(lo, d, p)
           q == r.p
           b == IF r.ret = "0" THEN [asked EXCEPT ![d] = Readback(q, d)] ELSE asked
<1>1. /\ luck = "none" /\ lo' = q /\ asked' = b
      /\ luck' = IF r.ret = "0" /\ lo.ext[d] THEN "external profile" ELSE luck
  BY DEF LoRecall, LoCall
<1>2. LoTypes(lo) /\ GainFits(lo) /\ DOMAIN asked = Dirs /\ LoStands(lo, asked)
  BY <1>1 DEF LoInv
<1>3. \A x \in Dirs : Own(lo, x) /\ Profiled(lo, x) /\ Asked(lo, x, asked[x])
  BY <1>2 DEF LoStands
<1>4. lo.mem[d][p].init \in BOOLEAN
  <2>1. lo.mem[d][p] \in Entries
    BY <1>2 DEF LoTypes
  <2> QED BY <2>1 DEF Entries
<1>5. CASE ~lo.mem[d][p].init
  <2>1. q = lo /\ b = asked
    BY <1>5 DEF FastlockRecall, Err
  <2>2. luck' = "none" => luck = "none"
    BY <1>1
  <2> HIDE DEF q, b
  <2> QED BY <1>1, <1>2, <1>5, <2>1 DEF LoInv
<1>6. CASE lo.mem[d][p].init
  <2>1. /\ r.ret = "0" /\ LoTypes(q) /\ Keeps(lo, q, RecallFields) /\ Beside(lo, q, d)
        /\ q.prof[d] = p + 1 /\ q.alc[d] = q.mem[d][p].alc
        /\ lo.prof[d] # 0 => q.ready = lo.ready /\ q.vcoCal = lo.vcoCal
        /\ lo.prof[d] = 0 => q.ready[d] /\ q.vcoCal = lo.vcoCal \ {d}
        /\ (lo.prof[d] # 0 => lo.alc[d] = Entry(lo, d).alc) => q.alc[d] # lo.alc[d]
    <3> HIDE DEF r
    <3> QED BY <1>2, <1>6, RecallDoes DEF r
  <2>2. luck' = "none" => ~lo.ext[d]
    BY <1>1, <2>1
  <2>3. b[d] = Readback(q, d) /\ DOMAIN b = Dirs /\ \A o \in Dirs \ {d} : b[o] = asked[o]
    BY <1>2, <2>1
  <2> HIDE DEF r, q, b
  <2>4. /\ q.cur = lo.cur /\ q.pll = lo.pll /\ q.cached = lo.cached /\ q.div = lo.div /\ q.ext = lo.ext
        /\ q.clocks = lo.clocks /\ q.skipCal = lo.skipCal /\ q.fdd = lo.fdd /\ q.indep = lo.indep
        /\ q.tdd = lo.tdd /\ q.rate = lo.rate /\ q.table = lo.table /\ q.gt = lo.gt /\ q.idx = lo.idx
    BY <1>2, <2>1 DEF Keeps, RecallFields, LoTypes, LoKeys, EnsmKeys
  <2>5. GainFits(q)
    BY <1>2, <2>4 DEF GainFits, Gains
  <2>6. q.alc[d] # lo.alc[d]
    BY <1>3, <2>1 DEF Profiled
  <2>7. ASSUME ~lo.ext[d] PROVE LoStands(q, b)
    <3>0. p \in Int /\ p + 1 # 0 /\ p + 1 - 1 = p
      BY DEF Profiles
    <3>1. \A x \in Dirs : Own(q, x)
      BY <1>3, <2>4 DEF Own
    <3>2. Entry(q, d) = q.mem[d][p]
      <4>1. q.prof[d] - 1 = p
        BY <2>1, <3>0
      <4> QED BY <4>1 DEF Entry
    <3>3. d \notin q.vcoCal \/ ~q.clocks
      BY <1>3, <2>1, <2>4 DEF Profiled
    <3>4. q.ready[d]
      BY <1>3, <2>1 DEF Profiled
    <3>5. Profiled(q, d)
      BY <2>1, <2>4, <2>7, <3>0, <3>2, <3>3, <3>4 DEF Profiled
    <3>6. Asked(q, d, b[d])
      BY <2>1, <2>3, <3>0 DEF Asked, Readback, Entry
    <3>7. ASSUME NEW o \in Dirs, o # d PROVE Profiled(q, o) /\ Asked(q, o, b[o])
      <4>1. q.prof[o] = lo.prof[o] /\ q.mem[o] = lo.mem[o] /\ q.ready[o] = lo.ready[o] /\ q.alc[o] = lo.alc[o]
        BY <2>1, <3>7 DEF Beside, PerLo
      <4>2. o \in q.vcoCal <=> o \in lo.vcoCal
        BY <2>1, <3>7
      <4>3. Entry(q, o) = Entry(lo, o)
        BY <4>1 DEF Entry
      <4>4. Profiled(q, o)
        BY <1>3, <2>4, <4>1, <4>2, <4>3 DEF Profiled
      <4>5. Asked(q, o, b[o])
        BY <1>3, <2>3, <2>4, <3>7, <4>1, <4>3 DEF Asked
      <4> QED BY <4>4, <4>5
    <3>8. Tables(q)
      BY <1>2, <2>4 DEF LoStands, Tables, OneVco
    <3>9. BandFollows(q)
      <4>1. CASE d = "rx"
        <5>1. q.prof.rx # 0
          BY <2>1, <3>0, <4>1
        <5> QED BY <5>1 DEF BandFollows
      <4>2. CASE d # "rx"
        <5>1. q.prof.rx = lo.prof.rx
          BY <2>1, <4>2 DEF Beside, PerLo, Dirs
        <5> QED BY <1>2, <2>4, <5>1 DEF LoStands, BandFollows
      <4> QED BY <4>1, <4>2
    <3> QED BY <3>1, <3>5, <3>6, <3>7, <3>8, <3>9 DEF LoStands
  <2>8. lo.ext[d] \in BOOLEAN
    BY <1>2 DEF LoTypes
  <2>9. luck' = "none" => LoStands(q, b)
    BY <2>2, <2>7, <2>8
  <2> QED BY <1>1, <2>1, <2>3, <2>4, <2>5, <2>6, <2>9 DEF LoInv
<1> QED BY <1>4, <1>5, <1>6

\* ad9361_trx_ext_lo_control, in ALERT
LEMMA ExtLoDoes ==
  ASSUME NEW l, NEW d \in Dirs, NEW on \in BOOLEAN, LoTypes(l)
  PROVE  LET q == [ExtLo(l, d, on) EXCEPT !.ext[d] = on]
         IN  /\ LoTypes(q) /\ Keeps(l, q, {"ready", "div", "ext"}) /\ Beside(l, q, d)
             /\ (q.ready[d] <=> on) /\ (q.ext[d] <=> on) /\ (~on => q.div[d] = q.cached[d])
<1> DEFINE rd == [l.ready EXCEPT ![d] = on]
           dv == [l.div EXCEPT ![d] = IF on THEN ExtDiv ELSE l.cached[d]]
           ex == [l.ext EXCEPT ![d] = on]
           x == [l EXCEPT !.ready = rd, !.div = dv]
           q == [x EXCEPT !.ext = ex]
<1>1. ExtLo(l, d, on) = x
  BY DEF ExtLo
<1>2. /\ rd \in [Dirs -> BOOLEAN] /\ dv \in [Dirs -> RfDividers] /\ ex \in [Dirs -> BOOLEAN]
      /\ rd[d] = on /\ ex[d] = on /\ (~on => dv[d] = l.cached[d])
      /\ \A o \in Dirs \ {d} : rd[o] = l.ready[o] /\ dv[o] = l.div[o] /\ ex[o] = l.ext[o]
  <2>1. (IF on THEN ExtDiv ELSE l.cached[d]) \in RfDividers
    BY DEF LoTypes, ExtDiv, RfDividers
  <2> QED BY <2>1 DEF LoTypes
<1> HIDE DEF rd, dv
<1>3. Keeps(l, x, {"ready", "div"}) /\ x.ready = rd /\ x.div = dv
  BY DEF LoTypes, LoKeys, EnsmKeys, Keeps
<1>4. x.ext = l.ext
  BY <1>3 DEF LoTypes, LoKeys, Keeps
<1>5. [ExtLo(l, d, on) EXCEPT !.ext[d] = on] = q
  BY <1>1, <1>4
<1> HIDE DEF x, ex
<1>6. Keeps(x, q, {"ext"}) /\ q.ext = ex
  BY <1>3 DEF LoTypes, LoKeys, EnsmKeys, Keeps
<1> HIDE DEF q
<1>7. Keeps(l, q, {"ready", "div", "ext"})
  BY <1>3, <1>6, KeepsMore
<1>8. q.ready = rd /\ q.div = dv /\ q.cached = l.cached
  BY <1>3, <1>6, <1>7 DEF LoTypes, LoKeys, Keeps
<1>9. LoTypes(q)
  <2>1. EnsmTypes(q)
    BY <1>7, LoEnsmKept DEF EnsmKeys
  <2> QED BY <1>2, <1>6, <1>7, <1>8, <2>1 DEF LoTypes, Keeps, LoKeys
<1>10. Beside(l, q, d)
  BY <1>2, <1>6, <1>7, <1>8 DEF Beside, PerLo, Keeps, LoTypes, LoKeys
<1> QED BY <1>2, <1>5, <1>6, <1>7, <1>8, <1>9, <1>10

\* Forcing a state and restoring it are steps of the enable state machine only.
LEMMA LoForced ==
  ASSUME NEW l, LoTypes(l)
  PROVE  LET q == ForceState(l, "ALERT") IN LoTypes(q) /\ Keeps(l, q, {"cfg1", "dev", "prev", "pinEn"})
<1> DEFINE q == ForceState(l, "ALERT")
<1>1. EnsmKeys \subseteq DOMAIN l /\ EnsmTypes(l)
  BY DEF LoTypes, LoKeys
<1>2. Keeps(l, q, {"cfg1", "dev", "prev", "pinEn"}) /\ EnsmTypes(q)
  BY <1>1, Begun
<1> HIDE DEF q
<1>3. LoTypes(q)
  BY <1>2 DEF LoTypes, Keeps, LoKeys
<1> QED BY <1>2, <1>3 DEF q

\* The same of the way back.
LEMMA LoRestored ==
  ASSUME NEW l, LoTypes(l)
  PROVE  LET q == RestorePrev(l) IN LoTypes(q) /\ Keeps(l, q, {"cfg1", "dev"})
<1> DEFINE q == RestorePrev(l)
<1>1. EnsmKeys \subseteq DOMAIN l /\ EnsmTypes(l)
  BY DEF LoTypes, LoKeys
<1>2. Keeps(l, q, {"cfg1", "dev"}) /\ EnsmTypes(q)
  BY <1>1, RestoreStateDoes DEF RestorePrev
<1> HIDE DEF q
<1>3. LoTypes(q)
  BY <1>2 DEF LoTypes, Keeps, LoKeys
<1> QED BY <1>2, <1>3 DEF q

\* LOEXT_EXTERNAL
LEMMA LoExternalStep ==
  ASSUME NEW d \in Dirs, NEW on \in BOOLEAN, LoInv, LoExternal(d, on)
  PROVE  LoInv' /\ lo'.table = lo.table
<1> DEFINE x == ForceState(lo, "ALERT")
           y == [ExtLo(x, d, on) EXCEPT !.ext[d] = on]
           q == RestorePrev(y)
<1>1. /\ luck = "none" /\ lo' = q /\ asked' = asked
      /\ luck' = IF lo.prof[d] # 0 THEN "external profile" ELSE luck
  BY DEF LoExternal, LoCall, MuxParent
<1>2. LoTypes(lo) /\ GainFits(lo) /\ DOMAIN asked = Dirs /\ LoStands(lo, asked)
  BY <1>1 DEF LoInv
<1>3. \A o \in Dirs : Own(lo, o) /\ Profiled(lo, o) /\ Asked(lo, o, asked[o])
  BY <1>2 DEF LoStands
<1>4. LoTypes(x) /\ Keeps(lo, x, {"cfg1", "dev", "prev", "pinEn"})
  BY <1>2, LoForced
<1> HIDE DEF x
<1>5. /\ LoTypes(y) /\ Keeps(x, y, {"ready", "div", "ext"}) /\ Beside(x, y, d)
      /\ (y.ready[d] <=> on) /\ (y.ext[d] <=> on) /\ (~on => y.div[d] = y.cached[d])
  BY <1>4, ExtLoDoes
<1> HIDE DEF y
<1>6. LoTypes(q) /\ Keeps(y, q, {"cfg1", "dev"})
  BY <1>5, LoRestored
<1> HIDE DEF q
<1>7. Keeps(lo, q, {"cfg1", "dev", "prev", "pinEn", "ready", "div", "ext"})
  <2>1. Keeps(lo, y, {"cfg1", "dev", "prev", "pinEn", "ready", "div", "ext"})
    BY <1>4, <1>5, KeepsMore
  <2> QED BY <1>6, <2>1, KeepsMore
<1>8. /\ q.cur = lo.cur /\ q.pll = lo.pll /\ q.cached = lo.cached /\ q.mem = lo.mem /\ q.alc = lo.alc
      /\ q.prof = lo.prof /\ q.clocks = lo.clocks /\ q.vcoCal = lo.vcoCal
      /\ q.skipCal = lo.skipCal /\ q.fdd = lo.fdd /\ q.indep = lo.indep
      /\ q.tdd = lo.tdd /\ q.rate = lo.rate /\ q.table = lo.table /\ q.gt = lo.gt /\ q.idx = lo.idx
  BY <1>2, <1>7 DEF Keeps, LoTypes, LoKeys, EnsmKeys
<1>9. /\ q.ready = y.ready /\ q.div = y.div /\ q.ext = y.ext /\ q.cached = y.cached
      /\ x.ready = lo.ready /\ x.div = lo.div /\ x.ext = lo.ext
  BY <1>2, <1>4, <1>5, <1>6 DEF Keeps, LoTypes, LoKeys
<1>10. GainFits(q)
  BY <1>2, <1>8 DEF GainFits, Gains
<1>11. ASSUME lo.prof[d] = 0 PROVE LoStands(q, asked)
  <2>1. Own(q, d)
    BY <1>3, <1>5, <1>8, <1>9 DEF Own
  <2>2. Profiled(q, d)
    BY <1>3, <1>5, <1>8, <1>9, <1>11 DEF Profiled
  <2>3. ASSUME NEW o \in Dirs, o # d PROVE Own(q, o) /\ Profiled(q, o)
    <3>1. q.ready[o] = lo.ready[o] /\ q.div[o] = lo.div[o] /\ q.ext[o] = lo.ext[o]
      BY <1>5, <1>9, <2>3 DEF Beside, PerLo
    <3>2. Entry(q, o) = Entry(lo, o)
      BY <1>8 DEF Entry
    <3>3. Own(q, o)
      BY <1>3, <1>8, <3>1 DEF Own
    <3>4. Profiled(q, o)
      BY <1>3, <1>8, <3>1, <3>2 DEF Profiled
    <3> QED BY <3>3, <3>4
  <2>4. \A o \in Dirs : Asked(q, o, asked[o])
    <3>1. \A o \in Dirs : Entry(q, o) = Entry(lo, o)
      BY <1>8 DEF Entry
    <3> QED BY <1>3, <1>8, <3>1 DEF Asked
  <2>5. Tables(q)
    BY <1>2, <1>8 DEF LoStands, Tables, OneVco
  <2>6. BandFollows(q)
    BY <1>2, <1>8 DEF LoStands, BandFollows
  <2> QED BY <2>1, <2>2, <2>3, <2>4, <2>5, <2>6 DEF LoStands
<1>12. luck' = "none" => lo.prof[d] = 0
  BY <1>1
<1> QED BY <1>1, <1>2, <1>6, <1>8, <1>10, <1>11, <1>12 DEF LoInv

\* Waking enables the VCO calibrations of both synthesizers.
LEMMA WakeEnables ==
  ASSUME NEW p, EnsmKeys \subseteq DOMAIN p, p.curr = "SLEEP"
  PROVE  Wake(p).vcoCal = {"rx", "tx"}
<1> DEFINE both == {"rx", "tx"}
           bits == {"TO", "ALERT"}
           u == [p EXCEPT !.clocks = TRUE, !.vcoCal = both]
           v == WriteCfg1(u, bits)
<1>1. Wake(p) = v
  BY DEF Wake
<1> HIDE DEF both
<1>2. Keeps(p, u, {"clocks", "vcoCal"}) /\ u.vcoCal = both
  BY DEF Keeps, EnsmKeys
<1> HIDE DEF u, bits
<1>3. EnsmKeys \subseteq DOMAIN u
  BY <1>2 DEF Keeps, EnsmKeys
<1>4. Keeps(u, v, {"cfg1", "dev"})
  BY <1>3, WriteCfg1Does
<1> HIDE DEF v
<1>5. v.vcoCal = u.vcoCal
  BY <1>3, <1>4 DEF Keeps, EnsmKeys
<1> QED BY <1>1, <1>2, <1>5 DEF both

\* The clocks and the VCO calibrations over a request for a state.
Calibrates(p, q) ==
  \/ ~q.clocks
  \/ p.curr # "SLEEP" /\ q.clocks = p.clocks /\ q.vcoCal = p.vcoCal
  \/ p.curr = "SLEEP" /\ q.vcoCal = {"rx", "tx"}

\* ad9361_ensm_set_state sleeps, leaves them alone or wakes.
LEMMA SetStateCalibrates ==
  ASSUME NEW p, NEW s \in States, NEW pin \in BOOLEAN, EnsmKeys \subseteq DOMAIN p, EnsmTypes(p)
  PROVE  Calibrates(p, EnsmSetState(p, s, pin).p)
<1> DEFINE w == Wake(p)
           bits == ({"TO"} \cup (IF pin THEN {"PIN"} ELSE {}))
                   \cup (IF s = "WAIT" THEN {} ELSE ForceBit(s))
           c == (bits \ ForceBits) \cup {"TO", "ALERT"}
           a == IF Illegal(w, s) THEN WriteCfg1(w, c) ELSE w
           x == WriteCfg1(a, bits)
           z == [x EXCEPT !.curr = s]
           r == EnsmSetState(p, s, pin)
<1>1. /\ Keeps(p, w, {"cfg1", "dev", "clocks", "vcoCal"}) /\ EnsmTypes(w)
      /\ p.curr # "SLEEP" => w = p
  BY WakeDoes
<1>2. p.curr = "SLEEP" => w.vcoCal = {"rx", "tx"}
  BY WakeEnables
<1>3. r = IF s = "SLEEP" THEN Ok(GoToSleep(w))
          ELSE IF Illegal(w, s) /\ w.curr = "ALERT" THEN Err(w, "-EINVAL")
          ELSE Ok(z)
  BY DEF EnsmSetState
<1> HIDE DEF w, bits, c, r
<1>4. EnsmKeys \subseteq DOMAIN w
  BY <1>1 DEF Keeps
<1>5. Keeps(w, a, {"cfg1", "dev"})
  BY <1>4, WriteCfg1Does DEF Keeps
<1> HIDE DEF a
<1>6. EnsmKeys \subseteq DOMAIN a
  BY <1>4, <1>5 DEF Keeps
<1>7. Keeps(a, x, {"cfg1", "dev"})
  BY <1>6, WriteCfg1Does
<1> HIDE DEF x
<1>8. EnsmKeys \subseteq DOMAIN x
  BY <1>6, <1>7 DEF Keeps
<1>9. Keeps(x, z, {"curr"})
  BY DEF Keeps
<1> HIDE DEF z
<1>10. z.clocks = w.clocks /\ z.vcoCal = w.vcoCal
  BY <1>4, <1>5, <1>6, <1>7, <1>8, <1>9 DEF Keeps, EnsmKeys
<1>11. CASE s = "SLEEP"
  <2> DEFINE y == GoToSleep(w)
  <2>1. ~y.clocks
    BY <1>1, <1>4, SleepDoes
  <2>2. r.p = y
    BY <1>3, <1>11 DEF Ok
  <2> HIDE DEF y
  <2>3. ~r.p.clocks
    BY <2>1, <2>2
  <2> QED BY <2>3 DEF Calibrates, r
<1>12. CASE s # "SLEEP"
  <2>1. r.p = w \/ r.p = z
    BY <1>3, <1>12 DEF Ok, Err
  <2>2. r.p.clocks = w.clocks /\ r.p.vcoCal = w.vcoCal
    BY <1>10, <2>1
  <2>3. Calibrates(p, r.p)
    BY <1>1, <1>2, <2>2 DEF Calibrates
  <2> QED BY <2>3 DEF r
<1> QED BY <1>11, <1>12

\* AD9361_ENSM_MODE, of a word that is known
LEMMA StoreModeDoes ==
  ASSUME NEW l, NEW w \in EnsmWords \ {"?"}, LoTypes(l)
  PROVE  LET q == StoreEnsmMode(l, w).p
         IN  /\ LoTypes(q) /\ Keeps(l, q, ClockFields \cup {"indep", "mode"})
             /\ Calibrates(l, q)
<1> DEFINE ind == (w = "pinctrl_fdd_indep")
           pin == (w = "pinctrl")
           q == [l EXCEPT !.indep = ind]
           md == [fdd |-> q.fdd, indep |-> q.fdd /\ q.indep, pin |-> ~q.fdd /\ pin]
           m == [q EXCEPT !.mode = md]
           s == WordState(w)
           e == EnsmSetState(m, s, pin)
           r == StoreEnsmMode(l, w)
<1>1. ind \in BOOLEAN /\ pin \in BOOLEAN
  OBVIOUS
<1>2. s \in States
  BY DEF WordState, EnsmWords, States
<1>3. r = e
  BY DEF StoreEnsmMode, SetEnsmMode
<1> HIDE DEF ind, pin, s, r
<1>4. Keeps(l, q, {"indep"}) /\ q.indep = ind
  BY DEF Keeps, LoTypes, LoKeys, EnsmKeys
<1> HIDE DEF q
<1>5. /\ EnsmKeys \subseteq DOMAIN l /\ EnsmKeys \subseteq DOMAIN q /\ EnsmTypes(l)
      /\ q.fdd = l.fdd
  BY <1>4 DEF Keeps, LoTypes, LoKeys, EnsmKeys
<1>6. md \in [fdd : BOOLEAN, indep : BOOLEAN, pin : BOOLEAN]
  <2>1. q.fdd \in BOOLEAN /\ q.indep \in BOOLEAN
    BY <1>1, <1>4, <1>5 DEF EnsmTypes
  <2> QED BY <1>1, <2>1
<1> HIDE DEF md
<1>7. Keeps(q, m, {"mode"}) /\ m.mode = md
  BY <1>5 DEF Keeps, EnsmKeys
<1> HIDE DEF m
<1>8. Keeps(l, m, {"indep", "mode"})
  BY <1>4, <1>7, KeepsMore
<1>9. /\ m.fdd = l.fdd /\ m.indep = ind /\ m.pinCtrl = l.pinCtrl /\ m.cfg1 = l.cfg1 /\ m.dev = l.dev
      /\ m.curr = l.curr /\ m.prev = l.prev /\ m.pinEn = l.pinEn /\ m.clocks = l.clocks
      /\ m.vcoCal = l.vcoCal /\ EnsmKeys \subseteq DOMAIN m
  <2>1. m.indep = q.indep
    BY <1>5, <1>7 DEF Keeps, EnsmKeys
  <2> QED BY <1>4, <1>5, <1>8, <2>1 DEF Keeps, EnsmKeys
<1>10. EnsmTypes(m)
  BY <1>1, <1>5, <1>6, <1>7, <1>9 DEF EnsmTypes
<1>11. Keeps(m, e.p, ClockFields) /\ EnsmTypes(e.p) /\ Calibrates(m, e.p)
  <2>1. Keeps(m, e.p, ClockFields) /\ EnsmTypes(e.p)
    BY <1>1, <1>2, <1>9, <1>10, SetStateDoes
  <2>2. Calibrates(m, e.p)
    BY <1>1, <1>2, <1>9, <1>10, SetStateCalibrates
  <2> QED BY <2>1, <2>2
<1>12. r.p = e.p
  BY <1>3
<1> HIDE DEF e
<1>13. Keeps(l, r.p, ClockFields \cup {"indep", "mode"})
  BY <1>8, <1>11, <1>12, KeepsMore
<1>14. Calibrates(l, r.p)
  BY <1>9, <1>11, <1>12 DEF Calibrates
<1> DEFINE y == r.p
<1>15. EnsmTypes(y) /\ Keeps(l, y, ClockFields \cup {"indep", "mode"})
  BY <1>11, <1>12, <1>13
<1> HIDE DEF y
<1>16. LoTypes(y)
  BY <1>15 DEF LoTypes, Keeps, LoKeys, ClockFields
<1> QED BY <1>13, <1>14, <1>16 DEF r, y

\* AD9361_ENSM_MODE
LEMMA LoEnsmStep ==
  ASSUME NEW w \in EnsmWords \ {"?"}, LoInv, LoEnsm(w)
  PROVE  LoInv' /\ lo'.table = lo.table
<1> DEFINE q == StoreEnsmMode(lo, w).p
           woken == ~LoAwake /\ w # "?" /\ ((\E d \in Dirs : lo.prof[d] # 0) \/ lo.skipCal)
           ended == lo.indep /\ ~lo'.indep
<1>1. /\ luck = "none" /\ lo' = q /\ asked' = asked
      /\ luck' = IF woken THEN "woken" ELSE IF ended THEN "independent mode" ELSE luck
  BY DEF LoEnsm, LoCall
<1>2. LoTypes(lo) /\ GainFits(lo) /\ DOMAIN asked = Dirs /\ LoStands(lo, asked)
  BY <1>1 DEF LoInv
<1>3. \A o \in Dirs : Own(lo, o) /\ Profiled(lo, o) /\ Asked(lo, o, asked[o])
  BY <1>2 DEF LoStands
<1>4. /\ LoTypes(q) /\ Keeps(lo, q, ClockFields \cup {"indep", "mode"})
      /\ Calibrates(lo, q)
  BY <1>2, StoreModeDoes
<1>5. luck' = "none" => ~woken /\ ~ended
  <2> HIDE DEF woken, ended
  <2> QED BY <1>1
<1> HIDE DEF q
<1>6. /\ q.cur = lo.cur /\ q.pll = lo.pll /\ q.cached = lo.cached /\ q.mem = lo.mem /\ q.alc = lo.alc
      /\ q.prof = lo.prof /\ q.div = lo.div /\ q.ext = lo.ext /\ q.ready = lo.ready
      /\ q.skipCal = lo.skipCal /\ q.fdd = lo.fdd
      /\ q.tdd = lo.tdd /\ q.rate = lo.rate /\ q.table = lo.table /\ q.gt = lo.gt /\ q.idx = lo.idx
  BY <1>2, <1>4 DEF Keeps, LoTypes, LoKeys, EnsmKeys, ClockFields
<1>7. GainFits(q)
  BY <1>2, <1>6 DEF GainFits, Gains
<1>8. \A o \in Dirs : Entry(q, o) = Entry(lo, o)
  BY <1>6 DEF Entry
<1>9. ASSUME luck' = "none" PROVE LoStands(q, asked)
  <2>1. \A o \in Dirs : Own(q, o)
    BY <1>3, <1>6 DEF Own
  <2>2. \A o \in Dirs : Asked(q, o, asked[o])
    BY <1>3, <1>6, <1>8 DEF Asked
  <2>3. ~woken /\ ~ended
    BY <1>5, <1>9
  <2>4. ASSUME NEW o \in Dirs PROVE q.clocks => ((o \in q.vcoCal) <=> (q.prof[o] = 0 /\ ~q.skipCal))
    <3>1. CASE ~q.clocks
      BY <3>1
    <3>2. CASE lo.curr # "SLEEP" /\ q.clocks = lo.clocks /\ q.vcoCal = lo.vcoCal
      BY <1>3, <1>6, <3>2 DEF Profiled
    <3>3. CASE lo.curr = "SLEEP" /\ q.vcoCal = {"rx", "tx"}
      <4>1. lo.prof[o] = 0 /\ ~lo.skipCal
        BY <2>3, <3>3 DEF LoAwake
      <4> QED BY <1>6, <3>3, <4>1 DEF Dirs
    <3> QED BY <1>4, <3>1, <3>2, <3>3 DEF Calibrates
  <2>5. \A o \in Dirs : Profiled(q, o)
    BY <1>3, <1>6, <1>8, <2>4 DEF Profiled
  <2>6. Tables(q)
    <3>1. OneVco(q) => OneVco(lo)
      BY <1>1, <1>6, <2>3 DEF OneVco
    <3> QED BY <1>2, <1>6, <3>1 DEF LoStands, Tables
  <2>7. BandFollows(q)
    BY <1>2, <1>6 DEF LoStands, BandFollows
  <2> QED BY <2>1, <2>2, <2>5, <2>6, <2>7 DEF LoStands
<1> QED BY <1>1, <1>2, <1>4, <1>6, <1>7, <1>9 DEF LoInv

\* A gain that the table has.
LEMMA LoGainStep ==
  ASSUME NEW i \in 1 .. 2, NEW gain \in Int, LoInv, LoGain(i, gain)
  PROVE  LoInv' /\ lo'.table = lo.table
<1> DEFINE k == FindTableIndex(Gains(lo), gain)
           ix == [lo.idx EXCEPT ![i] = k]
           q == [lo EXCEPT !.idx = ix]
           r == SetRxGain(lo, i, gain)
<1>1. luck = "none" /\ lo' = r.p /\ asked' = asked /\ luck' = luck
  BY DEF LoGain, LoCall
<1>2. LoTypes(lo) /\ GainFits(lo) /\ DOMAIN asked = Dirs /\ LoStands(lo, asked)
  BY <1>1 DEF LoInv
<1>3. r.p = lo \/ (k # 0 /\ r.p = q)
  BY DEF SetRxGain, Ok, Err
<1> HIDE DEF r
<1>4. CASE r.p = lo
  BY <1>1, <1>4 DEF LoInv
<1>5. CASE k # 0 /\ r.p = q
  <2>1. IsGains(Gains(lo))
    BY <1>2, TableHasGains DEF LoTypes, GainFits, Gains
  <2>2. k \in DOMAIN Gains(lo)
    BY <1>5, <2>1, FindTableDoes
  <2> HIDE DEF k
  <2>3. ix \in [1 .. 2 -> DOMAIN Gains(lo)]
    BY <1>2, <2>2 DEF GainFits
  <2> HIDE DEF ix
  <2>4. Keeps(lo, q, {"idx"}) /\ q.idx = ix
    BY <1>2 DEF LoTypes, LoKeys, EnsmKeys, Keeps
  <2> HIDE DEF q
  <2>5. LoTypes(q)
    BY <1>2, <2>4, LoTypesKept
  <2>6. q.gt = lo.gt /\ q.table = lo.table
    BY <1>2, <2>4 DEF LoTypes, LoKeys, Keeps
  <2>7. GainFits(q)
    BY <1>2, <2>3, <2>4, <2>6 DEF GainFits, Gains
  <2>8. LoStands(q, asked)
    <3>1. {"idx"} \cap StandFields = {}
      BY DEF StandFields
    <3> QED BY <1>2, <2>4, <3>1, StandsKept
  <2> QED BY <1>1, <1>2, <1>5, <2>5, <2>6, <2>7, <2>8 DEF LoInv
<1> QED BY <1>3, <1>4, <1>5

\* The gain control mode.
LEMMA LoAgcStep ==
  ASSUME NEW i, NEW m, LoInv, LoAgc(i, m)
  PROVE  LoInv' /\ lo'.table = lo.table
<1> DEFINE T == {"agc", "hybrid", "mgc"}
           hy == (m = "hybrid")
           ag == [lo.agc EXCEPT ![i] = m]
           mg == [lo.mgc EXCEPT ![i] = IF m = "hybrid" THEN "slow_attack" ELSE m]
           q == [lo EXCEPT !.agc = ag, !.hybrid = hy, !.mgc = mg]
<1>1. luck = "none" /\ lo' = q /\ asked' = asked /\ luck' = luck
  BY DEF LoAgc, LoCall, SetAgcMode
<1>2. LoTypes(lo) /\ GainFits(lo) /\ DOMAIN asked = Dirs /\ LoStands(lo, asked)
  BY <1>1 DEF LoInv
<1> HIDE DEF hy, ag, mg
<1>3. Keeps(lo, q, T)
  BY DEF Keeps
<1> HIDE DEF q
<1>4. LoTypes(q)
  BY <1>2, <1>3, LoTypesKept
<1>5. q.gt = lo.gt /\ q.table = lo.table /\ q.idx = lo.idx
  BY <1>2, <1>3 DEF LoTypes, LoKeys, Keeps
<1>6. GainFits(q)
  BY <1>2, <1>5 DEF GainFits, Gains
<1>7. LoStands(q, asked)
  <2>1. T \cap StandFields = {}
    BY DEF StandFields
  <2> HIDE DEF T
  <2> QED BY <1>2, <1>3, <2>1, StandsKept
<1> QED BY <1>1, <1>2, <1>4, <1>5, <1>6, <1>7 DEF LoInv

\* A gain table file
LEMMA LoGainFileStep ==
  ASSUME NEW gt \in GainFiles, LoInv, LoGainFile(gt)
  PROVE  LoInv'
<1> DEFINE f == Readback(lo, "rx")
           rt == [lo.rate EXCEPT !["rx"] = f]
           none == 0
           y == [lo EXCEPT !.rate = rt, !.gt = gt, !.table = none]
           q == LoadGt(y, f)
<1>1. luck = "none" /\ ~lo.ext.rx /\ lo' = q /\ asked' = asked /\ luck' = luck
  BY DEF LoGainFile, LoCall
<1>2. LoTypes(lo) /\ GainFits(lo) /\ DOMAIN asked = Dirs /\ LoStands(lo, asked)
  BY <1>1 DEF LoInv
<1>3. "rx" \in Dirs
  BY DEF Dirs
<1>4. f \in Int /\ (lo.prof.rx = 0 => f = ReadsAs(lo.cur.rx))
  <2>1. Own(lo, "rx")
    BY <1>2, <1>3 DEF LoStands
  <2> QED BY <1>1, <1>2, <1>3, <2>1, ReadbackInt, OwnReadsBack
<1> HIDE DEF f
<1>5. rt \in [Dirs -> Int] /\ rt.rx = f /\ rt.tx = lo.rate.tx
  BY <1>2, <1>3, <1>4 DEF LoTypes
<1>6. IsGainInfo(gt)
  BY GainTablesAssumption
<1>7. none = 0
  OBVIOUS
<1> HIDE DEF rt, none
<1>8. Keeps(lo, y, {"rate", "gt", "table"}) /\ y.rate = rt /\ y.gt = gt /\ y.table = none
  BY <1>2 DEF LoTypes, LoKeys, EnsmKeys, Keeps
<1> HIDE DEF y
<1>9. LoTypes(y)
  <2>1. EnsmTypes(y)
    BY <1>2, <1>8, LoEnsmKept DEF EnsmKeys
  <2> QED BY <1>2, <1>5, <1>6, <1>8, <2>1 DEF LoTypes, Keeps, LoKeys
<1>10. NoTableYet(y)
  <2>1. y.idx = lo.idx
    BY <1>2, <1>8 DEF LoTypes, LoKeys, Keeps
  <2>2. IsGains(Gains(lo))
    BY <1>2, TableHasGains DEF LoTypes, GainFits, Gains
  <2>3. DOMAIN Gains(lo) \subseteq Nat \ {0}
    BY <2>2 DEF IsGains
  <2>4. lo.idx \in [1 .. 2 -> Nat \ {0}]
    BY <1>2, <2>3 DEF GainFits
  <2> QED BY <1>7, <1>8, <2>1, <2>4 DEF NoTableYet
<1>11. /\ LoTypes(q) /\ Keeps(y, q, {"table", "idx"}) /\ GainFits(q)
       /\ q.table = Band(gt, f)
  BY <1>8, <1>9, <1>10, LoadGtDoes
<1> HIDE DEF q
<1>12. /\ q.cur = lo.cur /\ q.pll = lo.pll /\ q.cached = lo.cached /\ q.div = lo.div /\ q.ext = lo.ext
       /\ q.prof = lo.prof /\ q.ready = lo.ready /\ q.clocks = lo.clocks /\ q.vcoCal = lo.vcoCal
       /\ q.skipCal = lo.skipCal /\ q.alc = lo.alc /\ q.mem = lo.mem /\ q.fdd = lo.fdd /\ q.indep = lo.indep
       /\ q.tdd = lo.tdd
  <2>1. Keeps(lo, q, {"rate", "gt", "table", "idx"})
    BY <1>8, <1>11, KeepsMore
  <2> QED BY <1>2, <2>1 DEF Keeps, LoTypes, LoKeys, EnsmKeys
<1>13. q.rate = rt /\ q.gt = gt
  BY <1>8, <1>9, <1>11 DEF Keeps, LoTypes, LoKeys
<1>14. \A x \in Dirs : Own(lo, x) /\ Profiled(lo, x) /\ Asked(lo, x, asked[x])
  BY <1>2 DEF LoStands
<1>15. \A x \in Dirs : Own(q, x)
  BY <1>12, <1>14 DEF Own
<1>16. \A x \in Dirs : Entry(q, x) = Entry(lo, x)
  BY <1>12 DEF Entry
<1>17. \A x \in Dirs : Profiled(q, x) /\ Asked(q, x, asked[x])
  BY <1>12, <1>14, <1>16 DEF Profiled, Asked
<1>18. Tables(q)
  BY <1>2, <1>12 DEF LoStands, Tables, OneVco
<1>19. BandFollows(q)
  BY <1>4, <1>5, <1>11, <1>12, <1>13 DEF BandFollows
<1>20. LoStands(q, asked)
  BY <1>15, <1>17, <1>18, <1>19 DEF LoStands
<1> QED BY <1>1, <1>2, <1>11, <1>20 DEF LoInv

\* The state of a chip that has been reset and not yet tuned.
AtReset(l) ==
  /\ LoTypes(l) /\ NoTableYet(l)
  /\ \A d \in Dirs : /\ ~l.tdd[d] /\ l.prof[d] = 0 /\ ~l.ready[d] /\ ~l.ext[d] /\ l.rate[d] = 0
                     /\ d \in l.vcoCal <=> ~l.skipCal

\* No frequency is zero, nor reads back so.
LEMMA NotZero == ASSUME NEW f \in LoRange PROVE f # 0 /\ ReadsAs(f) # 0
<1>1. f \in Int /\ f >= 47
  BY DEF LoRange
<1>2. ReadsAs(f) \in Int /\ f - ReadsAs(f) \in 0 .. 1
  BY ReadsBack
<1> QED BY <1>1, <1>2

\* The first frequencies, from any such state.
LEMMA FirstStands ==
  ASSUME NEW l, NEW a \in [Dirs -> LoRange], NEW alc \in Int, AtReset(l),
         \A d \in Dirs : ValidRfpll(l.id, d, a[d])
  PROVE  LET q == ClkSetRate(ClkSetRate(l, "rx", a.rx, alc).p, "tx", a.tx, alc).p
         IN  LoTypes(q) /\ GainFits(q) /\ LoStands(q, a)
<1> DEFINE f == a.rx
           g == a.tx
           r1 == ClkSetRate(l, "rx", f, alc)
           p == r1.p
           r2 == ClkSetRate(p, "tx", g, alc)
           q == r2.p
<1> SUFFICES LoTypes(q) /\ GainFits(q) /\ LoStands(q, a)
  OBVIOUS
<1>0. f \in LoRange /\ g \in LoRange
  BY DEF Dirs
<1>0a. ValidRfpll(l.id, "rx", f) /\ ValidRfpll(l.id, "tx", g)
  BY DEF Dirs
<1>0b. a.rx = f /\ a.tx = g
  OBVIOUS
<1> HIDE DEF f, g, r1, r2
<1>1. Dirs = {"rx", "tx"} /\ Other("rx") = "tx" /\ Other("tx") = "rx"
  BY DEF Dirs, Other
<1>2. /\ LoTypes(l) /\ NoTableYet(l) /\ l.rate.rx = 0 /\ l.rate.tx = 0 /\ ~l.tdd.rx /\ ~l.tdd.tx
      /\ l.prof.rx = 0 /\ l.prof.tx = 0 /\ ~l.ready.rx /\ ~l.ready.tx /\ ~l.ext.rx /\ ~l.ext.tx
  BY <1>1 DEF AtReset
<1>2a. "rx" \in l.vcoCal <=> ~l.skipCal
  BY <1>1 DEF AtReset
<1>2b. "tx" \in l.vcoCal <=> ~l.skipCal
  BY <1>1 DEF AtReset
<1>3. f # 0 /\ g # 0 /\ ReadsAs(f) # 0
  BY <1>0, NotZero
<1>5. /\ Clocked(l, p, "rx", "tx", f)
      /\ IF p.rate.rx # l.rate.rx THEN GainFollows(l, p) ELSE GainSame(l, p)
  <2>1. "rx" \in Dirs /\ (l.cur[Other("rx")] \in LoRange \/ ~l.tdd[Other("rx")]) /\ l.rate["rx"] # f
    BY <1>1, <1>2, <1>3
  <2> QED BY <1>0, <1>0a, <1>1, <1>2, <2>1, ClkSetDoes DEF r1
<1>6. /\ LoTypes(p) /\ Keeps(l, p, ClkFields) /\ p.cur.rx = f /\ HasWords(p, "rx", f)
      /\ p.cached.rx = p.div.rx /\ p.prof.rx = 0 /\ p.prof.tx = 0
      /\ p.rate.rx = ReadsAs(f) /\ p.rate.tx = 0 /\ RateSet(l, p, "rx", "tx")
  BY <1>2, <1>5 DEF Clocked
<1>7. GainFits(p) /\ p.table = Band(l.gt, ReadsAs(f))
  BY <1>2, <1>3, <1>5, <1>6 DEF GainFollows
<1>8. p.id = l.id /\ p.gt = l.gt /\ p.ext = l.ext /\ p.skipCal = l.skipCal
  BY <1>2, <1>6 DEF Keeps, LoTypes, LoKeys, EnsmKeys, ClkFields, RateFields
<1>9. /\ ~p.ready.rx /\ ~p.ready.tx
      /\ ("rx" \in p.vcoCal <=> ~l.skipCal) /\ ("tx" \in p.vcoCal <=> ~l.skipCal)
  BY <1>2, <1>2a, <1>2b, <1>6 DEF RateSet
<1>10. Clocked(p, q, "tx", "rx", g) /\ GainSame(p, q)
  <2>1. /\ "tx" \in Dirs /\ (p.cur[Other("tx")] \in LoRange \/ ~p.tdd[Other("tx")]) /\ p.rate["tx"] # g
        /\ ValidRfpll(p.id, "tx", g)
    BY <1>0a, <1>1, <1>3, <1>0, <1>6, <1>8
  <2> HIDE DEF p
  <2>2. /\ Clocked(p, r2.p, "tx", Other("tx"), g)
        /\ IF "tx" = "rx" /\ r2.p.rate.rx # p.rate.rx THEN GainFollows(p, r2.p) ELSE GainSame(p, r2.p)
    BY <1>0, <1>6, <1>7, <2>1, ClkSetDoes DEF r2
  <2> QED BY <1>1, <2>2
<1> HIDE DEF p
<1>11. /\ LoTypes(q) /\ Keeps(p, q, ClkFields) /\ q.cur.tx = g /\ HasWords(q, "tx", g)
       /\ q.cached.tx = q.div.tx /\ q.prof.tx = 0 /\ q.prof.rx = 0
       /\ q.cur.rx = f /\ q.cached.rx = p.cached.rx
       /\ q.rate.rx = ReadsAs(f) /\ RateSet(p, q, "tx", "rx")
  BY <1>6, <1>10 DEF Clocked
<1> HIDE DEF q
<1>12. q.gt = l.gt /\ q.ext = l.ext /\ q.skipCal = l.skipCal
  BY <1>6, <1>8, <1>11 DEF Keeps, LoTypes, LoKeys, EnsmKeys, ClkFields, RateFields
<1>13. q.table = p.table /\ q.idx = p.idx /\ GainFits(q)
  BY <1>7, <1>8, <1>10, <1>12 DEF GainSame, GainFits, Gains
<1>14. /\ ~q.ready.rx /\ ~q.ready.tx
       /\ ("rx" \in q.vcoCal <=> ~l.skipCal) /\ ("tx" \in q.vcoCal <=> ~l.skipCal)
  BY <1>6, <1>8, <1>9, <1>11 DEF RateSet
<1>15. Own(q, "tx")
  BY <1>0, <1>11 DEF Own, HasWords
<1>16. HasWords(q, "rx", f)
  BY <1>6, <1>11 DEF RateSet, HasWords
<1>17. q.cached.rx = q.div.rx
  BY <1>6, <1>11, <1>16 DEF HasWords
<1>18. Own(q, "rx")
  BY <1>0, <1>11, <1>16, <1>17 DEF Own, HasWords
<1>19. Profiled(q, "rx") /\ Profiled(q, "tx")
  BY <1>2, <1>11, <1>12, <1>14 DEF Profiled
<1>20. Asked(q, "rx", a.rx) /\ Asked(q, "tx", a.tx)
  BY <1>0, <1>0b, <1>11, ReadsBack DEF Asked
<1>21. Tables(q)
  BY <1>11 DEF RateSet
<1>22. BandFollows(q)
  BY <1>7, <1>11, <1>12, <1>13 DEF BandFollows
<1>23. LoStands(q, a)
  BY <1>1, <1>15, <1>18, <1>19, <1>20, <1>21, <1>22 DEF LoStands
<1> QED BY <1>11, <1>13, <1>23

\* ad9361_setup of a device, with a gain table and the mode that outlives a reset.
LEMMA SetupStands ==
  ASSUME NEW b, b.fdd \in BOOLEAN, b.skipCal \in BOOLEAN, NEW gt, IsGainInfo(gt), NEW indep \in BOOLEAN
  PROVE  LET q == LoSetup(b, gt, indep)
         IN  LoTypes(q) /\ GainFits(q) /\ LoStands(q, FirstAsked)
<1> DEFINE st == IF b.fdd THEN "FDD" ELSE "RX"
           c1 == {"TO", IF b.fdd THEN "TX" ELSE "RX"}
           md == [fdd |-> b.fdd, indep |-> b.fdd /\ indep, pin |-> FALSE]
           vc == IF b.skipCal THEN {} ELSE Dirs
           zero == [d \in Dirs |-> 0]
           no == [d \in Dirs |-> FALSE]
           pl == [d \in Dirs |-> [n |-> 0, f |-> 0]]
           me == [d \in Dirs |-> [p \in Profiles |-> NoEntry]]
           al == [d \in Dirs |-> 1]
           ix == <<2, 3>>
           man == <<"manual", "manual">>
           l == [id |-> b.id, fdd |-> b.fdd, skipCal |-> b.skipCal, indep |-> indep,
                 pinCtrl |-> FALSE, mode |-> md, cfg1 |-> c1,
                 dev |-> st, curr |-> st,
                 prev |-> "INVALID", pinEn |-> FALSE, clocks |-> TRUE, vcoCal |-> vc,
                 cur |-> zero, tdd |-> no, pll |-> pl, div |-> zero,
                 cached |-> zero, prof |-> zero, mem |-> me,
                 ready |-> no, alc |-> al, ext |-> no, rate |-> zero,
                 gt |-> gt, table |-> 0, idx |-> ix, mgc |-> man, agc |-> man, hybrid |-> FALSE]
           f == 800
           g == f + 80
           alc == 1
           q == LoSetup(b, gt, indep)
<1>1. q = ClkSetRate(ClkSetRate(l, "rx", f, alc).p, "tx", g, alc).p
  BY DEF LoSetup, First
<1>2. /\ st \in DevStates /\ c1 \subseteq {"TX", "RX", "ALERT", "TO", "PIN"}
      /\ md \in [fdd : BOOLEAN, indep : BOOLEAN, pin : BOOLEAN]
  BY DEF DevStates, ActiveStates
<1>3. /\ zero \in [Dirs -> Int] /\ zero \in [Dirs -> RfDividers] /\ zero \in [Dirs -> InUseNos]
      /\ \A d \in Dirs : zero[d] = 0
  BY DEF RfDividers, InUseNos
<1>4. no \in [Dirs -> BOOLEAN] /\ \A d \in Dirs : ~no[d]
  OBVIOUS
<1>5. pl \in [Dirs -> PllWords] /\ al \in [Dirs -> Int]
  BY DEF PllWords
<1>6. me \in [Dirs -> [Profiles -> Entries]]
  <2>1. NoEntry \in Entries
    BY DEF NoEntry, Entries, RfDividers
  <2> QED BY <2>1
<1>7. ix \in [1 .. 2 -> Nat \ {0}]
  OBVIOUS
<1>8. \A d \in Dirs : d \in vc <=> ~b.skipCal
  OBVIOUS
<1>9. f \in LoRange /\ g \in LoRange /\ alc \in Int
  BY DEF LoRange
<1>10. ValidRfpll(b.id, "rx", f) /\ ValidRfpll(b.id, "tx", g)
  BY DEF ValidRfpll
<1>11. FirstAsked.rx = f /\ FirstAsked.tx = g
  BY DEF FirstAsked
<1>11a. FirstAsked \in [Dirs -> LoRange]
  BY DEF FirstAsked, Dirs, LoRange
<1> HIDE DEF st, c1, md, vc, zero, no, pl, me, al, ix, man, f, g, alc, q
<1>12. /\ l.id = b.id /\ l.fdd = b.fdd /\ l.skipCal = b.skipCal /\ l.indep = indep /\ l.pinCtrl = FALSE
       /\ l.mode = md /\ l.cfg1 = c1 /\ l.dev = st /\ l.curr = st /\ l.prev = "INVALID"
       /\ l.pinEn = FALSE /\ l.clocks = TRUE /\ l.vcoCal = vc
       /\ l.cur = zero /\ l.tdd = no /\ l.pll = pl /\ l.div = zero /\ l.cached = zero /\ l.prof = zero
       /\ l.mem = me /\ l.ready = no /\ l.alc = al /\ l.ext = no /\ l.rate = zero
       /\ l.gt = gt /\ l.table = 0 /\ l.idx = ix
  OBVIOUS
<1>13. DOMAIN l = LoKeys
  BY DEF LoKeys, EnsmKeys
<1> HIDE DEF l
<1>14. EnsmTypes(l)
  BY <1>2, <1>12 DEF EnsmTypes
<1>15. LoTypes(l)
  BY <1>3, <1>4, <1>5, <1>6, <1>12, <1>13, <1>14 DEF LoTypes
<1>16. NoTableYet(l)
  BY <1>7, <1>12 DEF NoTableYet
<1>17. AtReset(l)
  BY <1>3, <1>4, <1>8, <1>12, <1>15, <1>16 DEF AtReset
<1>18. \A d \in Dirs : ValidRfpll(l.id, d, FirstAsked[d])
  BY <1>10, <1>11, <1>12 DEF Dirs
<1> QED BY <1>1, <1>9, <1>11, <1>11a, <1>17, <1>18, FirstStands DEF q

\* The state after the driver's setup.
LEMMA LoInitInv == LoInit => LoInv
<1> SUFFICES ASSUME LoInit PROVE LoInv
  OBVIOUS
<1>1. PICK b \in LoBoards : lo = LoSetup(b, AdiGt, FALSE)
  BY DEF LoInit
<1>2. asked = FirstAsked /\ DOMAIN FirstAsked = Dirs
  BY DEF LoInit, FirstAsked, Dirs
<1>3. b.fdd \in BOOLEAN /\ b.skipCal \in BOOLEAN /\ IsGainInfo(AdiGt)
  BY LoBoardsAssumption, GainTablesAssumption
<1> DEFINE no == FALSE
           q == LoSetup(b, AdiGt, no)
<1>4. lo = q
  BY <1>1
<1>5. no \in BOOLEAN
  OBVIOUS
<1> HIDE DEF no
<1>6. LoTypes(q) /\ GainFits(q) /\ LoStands(q, FirstAsked)
  BY <1>3, <1>5, SetupStands
<1> HIDE DEF q
<1> QED BY <1>2, <1>4, <1>6 DEF LoInv

\* DBGFS_INIT
LEMMA LoReinitStep == ASSUME LoInv, LoReinit PROVE LoInv'
<1> DEFINE q == LoSetup(lo, lo.gt, lo.indep)
<1>1. luck = "none" /\ lo' = q /\ asked' = FirstAsked /\ DOMAIN FirstAsked = Dirs
  BY DEF LoReinit, LoCall, FirstAsked, Dirs
<1>2. lo.fdd \in BOOLEAN /\ lo.skipCal \in BOOLEAN /\ lo.indep \in BOOLEAN /\ IsGainInfo(lo.gt)
  BY DEF LoInv, LoTypes, EnsmTypes
<1>3. LoTypes(q) /\ GainFits(q) /\ LoStands(q, FirstAsked)
  BY <1>2, SetupStands
<1> HIDE DEF q
<1> QED BY <1>1, <1>3 DEF LoInv

LoLoads(d, p) == \E f \in LoRange, alc \in Int : LoLoad(d, p, f, alc)
\* The profile that user space loads is of a frequency in the range.
LEMMA LoadsOne == ASSUME NEW d, NEW p PROVE LoLoad(d, p, 2400, 1) => LoLoads(d, p)
<1> DEFINE f0 == 2400
           a0 == 1
<1>1. f0 \in LoRange /\ a0 \in Int
  BY DEF LoRange
<1>2. LoLoad(d, p, f0, a0) => LoLoads(d, p)
  <2> HIDE DEF f0, a0
  <2> QED BY <1>1 DEF LoLoads
<1> QED BY <1>2

\* A step but for a new gain table or a reset.
LoStays ==
  /\ LoInv'
  /\ lo'.table # lo.table => \A i \in 1 .. 2 : Nearest(Gains(lo'), lo'.idx[i], Gains(lo)[lo.idx[i]])

\* Every call keeps the invariant, and LOEXT_FREQ alone may change the table otherwise.
LEMMA LoKeeps ==
  ASSUME LoInv, LoNext
  PROVE  LoStays \/ (LoInv' /\ ((\E gt \in GainFiles : LoGainFile(gt)) \/ LoReinit))
<1>1. ASSUME NEW d \in Dirs, LoRead(d) PROVE LoStays
  BY <1>1, LoReadStep DEF LoStays
<1>2. ASSUME NEW d \in Dirs, NEW f \in LoFreqs, NEW alc \in 1 .. 2, LoFreq(d, f, alc) PROVE LoStays
  BY <1>2, LoFreqStep DEF LoStays
<1>3. ASSUME NEW d \in Dirs, NEW p \in Profiles, LoStore(d, p) \/ LoLoads(d, p) PROVE LoStays
  <2>1. LoInv' /\ lo'.table = lo.table
    <3>1. CASE LoStore(d, p)
      <4>1. \E f, alc : f \in LoRange /\ alc \in Int
        BY DEF LoRange
      <4> QED BY <3>1, <4>1, ProfileStep
    <3>2. CASE LoLoads(d, p)
      BY <3>2, ProfileStep DEF LoLoads
    <3> QED BY <1>3, <3>1, <3>2
  <2> QED BY <2>1 DEF LoStays
<1>4. ASSUME NEW d \in Dirs, NEW p \in Profiles, LoRecall(d, p) PROVE LoStays
  BY <1>4, LoRecallStep DEF LoStays
<1>5. ASSUME NEW d \in Dirs, NEW on \in BOOLEAN, LoExternal(d, on) PROVE LoStays
  BY <1>5, LoExternalStep DEF LoStays
<1>6. ASSUME NEW w \in EnsmWords \ {"?"}, LoEnsm(w) PROVE LoStays
  BY <1>6, LoEnsmStep DEF LoStays
<1>7. ASSUME NEW i \in 1 .. 2, NEW g \in Int, LoGain(i, g) PROVE LoStays
  BY <1>7, LoGainStep DEF LoStays
<1>8. ASSUME NEW i, NEW m, LoAgc(i, m) PROVE LoStays
  BY <1>8, LoAgcStep DEF LoStays
<1>9. ASSUME NEW gt \in GainFiles, LoGainFile(gt) PROVE LoInv'
  BY <1>9, LoGainFileStep
<1>10. LoReinit => LoInv'
  BY LoReinitStep
<1>11. \/ \E d \in Dirs :
             \/ LoRead(d)
             \/ \E f \in LoFreqs, alc \in 1 .. 2 : LoFreq(d, f, alc)
             \/ \E p \in Profiles : LoStore(d, p) \/ LoRecall(d, p) \/ LoLoads(d, p)
             \/ \E on \in BOOLEAN : LoExternal(d, on)
       \/ (\E gt \in GainFiles : LoGainFile(gt)) \/ LoReinit
       \/ \E w \in EnsmWords \ {"?"} : LoEnsm(w)
       \/ \E i \in 1 .. 2 : (\E g \in Int : LoGain(i, g)) \/ (\E m : LoAgc(i, m))
  <2> DEFINE Load(d, p) == LoLoad(d, p, 2400, 1)
             Ws == {"fdd", "rx", "alert", "sleep", "pinctrl_fdd_indep"}
             Gs == {0, 5, 9}
             Ms == {"manual", "hybrid"}
             Moves == \/ \E d \in Dirs :
                           \/ LoRead(d)
                           \/ \E f \in LoFreqs, alc \in 1 .. 2 : LoFreq(d, f, alc)
                           \/ \E p \in Profiles : LoStore(d, p) \/ LoRecall(d, p) \/ Load(d, p)
                           \/ \E on \in BOOLEAN : LoExternal(d, on)
                      \/ (\E gt \in GainFiles : LoGainFile(gt)) \/ LoReinit
                      \/ \E w \in Ws : LoEnsm(w)
                      \/ \E i \in 1 .. 2 : (\E g \in Gs : LoGain(i, g)) \/ (\E m \in Ms : LoAgc(i, m))
  <2>0. Moves
    BY DEF LoNext
  <2>1. Ws \subseteq EnsmWords \ {"?"} /\ Gs \subseteq Int
    BY DEF EnsmWords
  <2>2. \A d, p : Load(d, p) => LoLoads(d, p)
    BY LoadsOne
  <2> HIDE DEF Load, Ws, Gs, Ms
  <2> QED BY <2>0, <2>1, <2>2
<1> QED BY <1>1, <1>2, <1>3, <1>4, <1>5, <1>6, <1>7, <1>8, <1>9, <1>10, <1>11

\* So does every step.
LEMMA LoNextInv == LoInv /\ [LoNext]_lovars => LoInv'
<1>1. CASE UNCHANGED lovars
  BY <1>1 DEF lovars, LoInv
<1> QED BY <1>1, LoKeeps DEF LoStays

\* What the invariant says of the LOs.
LEMMA LoInvAgrees == LoInv => LosAgree
<1> SUFFICES ASSUME LoInv PROVE LosAgree
  OBVIOUS
<1>1. LoTypes(lo) /\ GainFits(lo)
  BY DEF LoInv
<1>2. LoTypeOK
  <2>1. \A i \in 1 .. 2 : lo.idx[i] \in DOMAIN Gains(lo)
    BY <1>1 DEF GainFits
  <2>2. \A d \in Dirs : lo.div[d] \in 0 .. 7 /\ lo.prof[d] \in {0} \cup {p + 1 : p \in Profiles}
    BY <1>1 DEF LoTypes, RfDividers, InUseNos
  <2> QED BY <2>1, <2>2 DEF LoTypeOK
<1>3. ASSUME luck = "none" PROVE LoAsAsked /\ FastlockAgrees /\ SynthTablesAgree /\ TableFollows
  <2>1. LoStands(lo, asked)
    BY <1>3 DEF LoInv
  <2>2. \A d \in Dirs : Own(lo, d) /\ Profiled(lo, d) /\ Asked(lo, d, asked[d])
    BY <2>1 DEF LoStands
  <2>3. ASSUME NEW d \in Dirs, ~lo.ext[d]
        PROVE  asked[d] - Readback(lo, d) \in 0 .. 1 /\ lo.div[d] = lo.cached[d]
    <3>1. lo.div[d] = lo.cached[d]
      BY <2>2, <2>3 DEF Own
    <3>2. CASE lo.prof[d] = 0
      BY <2>2, <2>3, <3>1, <3>2, OwnReadsBack DEF Asked
    <3>3. CASE lo.prof[d] # 0
      <4>1. asked[d] = Readback(lo, d) /\ asked[d] \in Int
        BY <1>1, <2>2, <2>3, <3>3, OwnReadsBack, ReadbackInt DEF Asked
      <4> QED BY <3>1, <4>1
    <3> QED BY <3>2, <3>3
  <2>4. LoAsAsked
    BY <2>3 DEF LoAsAsked
  <2>5. FastlockAgrees
    BY <2>2 DEF Profiled, FastlockAgrees
  <2>6. SynthTablesAgree /\ TableFollows
    BY <2>1 DEF LoStands, Tables, BandFollows, SynthTablesAgree, TableFollows
  <2> QED BY <2>4, <2>5, <2>6
<1> QED BY <1>2, <1>3 DEF LosAgree

\* LoInv of every reachable state: what of the LOs is always of its kind, and, while
\* luck has named nothing, where each LO is.
THEOREM LoInvariance == DriverSpec => []LoInv
<1>1. DriverInit => LoInv
  BY LoInitInv DEF DriverInit
<1>2. LoInv /\ [DriverNext]_drivervars => LoInv'
  BY LoNextInv DEF DriverNext, drivervars
<1> QED BY <1>1, <1>2, PTL DEF DriverSpec

\* The steps after which an LO, or what follows it, need not be as it was asked for.  A
\* write of a frequency that the cached rate already is while the synthesizer has another;
\* one whose rate, a profile's, reads back the same, so that no notifier looks at the gain
\* table; one that ends the profile or writes the divider of the other LO.
FreqExcepted ==
  \E d \in Dirs, f \in LoFreqs, alc \in 1 .. 2 :
    /\ LoFreq(d, f, alc)
    /\ \/ /\ ClkSetRate(lo, d, f, alc).ret = "0"
          /\ \/ lo.rate[d] = f /\ Readback(lo, d) # f
             \/ d = "rx" /\ lo.rate.rx # f /\ lo.prof.rx # 0 /\ lo'.rate.rx = lo.rate.rx
       \/ lo'.prof[Other(d)] # lo.prof[Other(d)]
       \/ lo.ext[Other(d)] /\ lo'.div[Other(d)] # ExtDiv

\* The profile in use is overwritten; a profile and the external LO are used at once.
ProfileExcepted ==
  \E d \in Dirs :
    \/ \E p \in Profiles :
         \/ lo.prof[d] = p + 1 /\ (LoStore(d, p) \/ LoLoad(d, p, 2400, 1))
         \/ lo.ext[d] /\ lo.mem[d][p].init /\ LoRecall(d, p)
    \/ lo.prof[d] # 0 /\ \E on \in BOOLEAN : LoExternal(d, on)

\* A chip wakes up, which turns the VCO calibrations on, with a profile or on a board that
\* skips them; or the independent mode ends.
ModeExcepted ==
  \E w \in EnsmWords \ {"?"} :
    /\ LoEnsm(w)
    /\ \/ ~LoAwake /\ (lo.skipCal \/ \E d \in Dirs : lo.prof[d] # 0)
       \/ lo.indep /\ ~lo'.indep

LoExcepted == FreqExcepted \/ ProfileExcepted \/ ModeExcepted

\* No other step goes wrong.
LEMMA OnlyLoExcepted ==
  ASSUME luck = "none", [LoNext]_lovars, ~LoExcepted
  PROVE  luck' = "none"
<1> USE DEF LoExcepted
<1>1. ASSUME NEW d \in Dirs, NEW f \in LoFreqs, NEW alc \in 1 .. 2, LoFreq(d, f, alc) PROVE luck' = "none"
  BY <1>1 DEF FreqExcepted, LoFreq
<1>2. ASSUME NEW d \in Dirs, NEW p \in Profiles, LoStore(d, p) \/ LoLoad(d, p, 2400, 1) PROVE luck' = "none"
  <2>1. lo.prof[d] # p + 1
    BY <1>2 DEF ProfileExcepted
  <2> QED BY <1>2, <2>1 DEF LoStore, LoLoad
<1>3. ASSUME NEW d \in Dirs, NEW p \in Profiles, LoRecall(d, p) PROVE luck' = "none"
  <2>1. lo.mem[d][p].init \/ FastlockRecall(lo, d, p).ret = "-EINVAL"
    BY DEF FastlockRecall, Err
  <2>2. ~(lo.ext[d] /\ lo.mem[d][p].init)
    BY <1>3 DEF ProfileExcepted
  <2> QED BY <1>3, <2>1, <2>2 DEF LoRecall
<1>4. ASSUME NEW d \in Dirs, NEW on \in BOOLEAN, LoExternal(d, on) PROVE luck' = "none"
  <2>1. lo.prof[d] = 0
    BY <1>4 DEF ProfileExcepted
  <2> QED BY <1>4, <2>1 DEF LoExternal
<1>5. ASSUME NEW w \in EnsmWords \ {"?"}, LoEnsm(w) PROVE luck' = "none"
  BY <1>5 DEF ModeExcepted, LoEnsm
<1>6. ASSUME NEW d \in Dirs, LoRead(d) PROVE luck' = "none"
  BY <1>6 DEF LoRead
<1>7. ASSUME NEW i, NEW x, LoGain(i, x) \/ LoAgc(i, x) PROVE luck' = "none"
  BY <1>7 DEF LoGain, LoAgc
<1>8. ASSUME NEW gt \in GainFiles, LoGainFile(gt) PROVE luck' = "none"
  BY <1>8 DEF LoGainFile
<1>9. CASE LoReinit \/ UNCHANGED lovars
  BY <1>9 DEF LoReinit, lovars
<1>10. CASE \E w \in {"fdd", "rx", "alert", "sleep", "pinctrl_fdd_indep"} : LoEnsm(w)
  BY <1>5, <1>10 DEF EnsmWords
<1> HIDE DEF LoExcepted
<1> QED BY <1>1, <1>2, <1>3, <1>4, <1>6, <1>7, <1>8, <1>9, <1>10 DEF LoNext

\* LosAgree with nothing gone wrong: in every history without the steps of LoExcepted each
\* LO is where it was asked to be, and the profiles, the synthesizers' tables and the gain
\* table are those of the LOs, for every device, every set of frequencies and of gain
\* tables, and any number of calls.
THEOREM LosDoAgree == DriverSpec /\ [][~LoExcepted]_drivervars => [](LosAgree /\ luck = "none")
<1>1. DriverInit => luck = "none"
  BY DEF DriverInit, LoInit
<1>2. luck = "none" /\ [DriverNext]_drivervars /\ [~LoExcepted]_drivervars => (luck = "none")'
  <2>1. CASE UNCHANGED drivervars
    BY <2>1 DEF drivervars, lovars
  <2>2. CASE ~(UNCHANGED drivervars)
    BY <2>2, OnlyLoExcepted DEF DriverNext, lovars
  <2> QED BY <2>1, <2>2
<1>3. LoInv => LosAgree
  BY LoInvAgrees
<1> QED BY <1>1, <1>2, <1>3, LoInvariance, PTL DEF DriverSpec

\* LoSteps: another band's table takes each gain to the nearest it has, and a recall
\* changes the ALC word.
THEOREM LosStepRight == DriverSpec => LoSteps
<1> DEFINE Step ==
      /\ lo'.table # lo.table /\ ~(\E gt \in GainFiles : LoGainFile(gt)) /\ ~LoReinit =>
           \A i \in 1 .. 2 : Nearest(Gains(lo'), lo'.idx[i], Gains(lo)[lo.idx[i]])
      /\ \A d \in Dirs, p \in Profiles :
           (LoRecall(d, p) /\ lo.mem[d][p].init) => lo'.alc[d] # lo.alc[d]
<1>1. LoInv /\ [DriverNext]_drivervars => [Step]_lovars
  <2> SUFFICES ASSUME LoInv, [DriverNext]_drivervars, lovars' # lovars PROVE Step
    OBVIOUS
  <2>1. LoNext
    BY DEF DriverNext, drivervars
  <2>2. lo'.table # lo.table /\ ~(\E gt \in GainFiles : LoGainFile(gt)) /\ ~LoReinit =>
          \A i \in 1 .. 2 : Nearest(Gains(lo'), lo'.idx[i], Gains(lo)[lo.idx[i]])
    BY <2>1, LoKeeps DEF LoStays
  <2>3. \A d \in Dirs, p \in Profiles :
          (LoRecall(d, p) /\ lo.mem[d][p].init) => lo'.alc[d] # lo.alc[d]
    BY LoRecallStep
  <2> QED BY <2>2, <2>3
<1>2. LoSteps <=> [][Step]_lovars
  BY DEF LoSteps
<1> QED BY <1>1, <1>2, LoInvariance, PTL DEF DriverSpec
=============================================================================
