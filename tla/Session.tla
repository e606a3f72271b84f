------------------------------- MODULE Session ------------------------------
(* The streaming process ad9361_txrx: main's reconnect loop, the RX task, the TX
   task, and what they share: the driver's descriptor, the flag under the mutex
   that lets TX start once an RX client is there, and the open file of the
   kernel driver, which lives until its last reference goes (the descriptor, a
   mapping, or a read() or write() that is inside the kernel).

   The two clients on the network are external: they connect, send, receive and
   leave when they like.  A block of samples is not looked at: RxRing and TxRing
   say what is in it.                                                         *)
EXTENDS Naturals

CONSTANTS RxModes, TxModes,   \* the modes the command line may ask for
          Drop,               \* drop_blocks: blocks RX throws away first
          Prefill,            \* prefill_blocks: blocks TX puts before ENABLE
          Faults              \* whether mmap() and accept() may fail

ASSUME ModesAssumption == /\ RxModes \subseteq {"none", "tcp", "udp"}
                          /\ TxModes \subseteq {"none", "tcp"}
ASSUME FaultsAssumption == Faults \subseteq BOOLEAN
ASSUME CountsAssumption == Drop \in Nat /\ Prefill \in Nat

VARIABLES
  rx_mode, tx_mode,            \* cli_cfg
  failing,                     \* calls fail in this run of the process
  mpc,                         \* main
  fd,                          \* drv.fd: 1 when it is a descriptor, 0 for -1
  rx_session_active,
  rpc, drop, rx_map,           \* the RX task
  tpc, prefill, tx_map,        \* the TX task
  rx_peer, tx_peer,            \* the two connections
  rxbuf, txbuf,                \* the driver: mapped since open()
  enables                      \* the driver's ENABLEs since open()

mode   == <<rx_mode, tx_mode, failing>>
rxTask == <<rpc, drop, rx_map>>
txTask == <<tpc, prefill, tx_map>>
driver == <<fd, rxbuf, txbuf, enables>>
vars   == <<mode, mpc, rx_session_active, rxTask, txTask, rx_peer, tx_peer,
            driver>>

\* Slip: RX does not care whether there is a TX side.
CombinedNever == rx_mode = "none" /\ tx_mode = "none"

Combined == rx_mode # "none" /\ tx_mode # "none"

\* The open file has a reference left.  release() runs when it has none.
InUse == \/ fd = 1 \/ rx_map = 1 \/ tx_map = 1
         \/ rpc = "reading" \/ tpc = "writing"

\* The FPGA runs: enabled, and not released yet.
Running == enables > 0 /\ InUse

Init ==
  /\ rx_mode \in RxModes /\ tx_mode \in TxModes /\ failing \in Faults
  /\ rx_mode # "none" \/ tx_mode # "none"
  /\ mpc = "open" /\ fd = 0 /\ rx_session_active = 0
  /\ rpc = "exit" /\ drop = 0 /\ rx_map = 0
  /\ tpc = "exit" /\ prefill = 0 /\ tx_map = 0
  /\ rx_peer = "away" /\ tx_peer = "away"
  /\ rxbuf = 0 /\ txbuf = 0 /\ enables = 0

-----------------------------------------------------------------------------
(* main.                                                                    *)

\* The device is opened afresh and the tasks start.  The driver admits one open
\* file (EBUSY), and main gives up when it cannot have it.
MainOpen ==
  /\ mpc = "open"
  /\ rx_session_active' = 0
  /\ IF InUse
     THEN mpc' = "exit" /\ UNCHANGED <<driver, rxTask, txTask>>
     ELSE /\ mpc' = "join"
          /\ fd' = 1 /\ rxbuf' = 0 /\ txbuf' = 0 /\ enables' = 0
          /\ rpc' = IF rx_mode = "none" THEN "exit" ELSE "mmap"
          /\ tpc' = IF tx_mode = "none" THEN "exit" ELSE "mmap"
          /\ UNCHANGED <<drop, rx_map, prefill, tx_map>>
  /\ UNCHANGED <<mode, rx_peer, tx_peer>>

\* Both tasks have returned.
MainJoin ==
  /\ mpc = "join" /\ rpc = "exit" /\ tpc = "exit"
  /\ mpc' = "open" /\ fd' = 0
  /\ UNCHANGED <<mode, rx_session_active, rxTask, txTask, rx_peer, tx_peer,
                 rxbuf, txbuf, enables>>

-----------------------------------------------------------------------------
(* The RX task.                                                             *)

\* mmap fails on a closed descriptor, and may fail otherwise.
RxMmap ==
  /\ rpc = "mmap"
  /\ \/ /\ fd = 1 /\ rx_map' = 1 /\ rxbuf' = 1
        /\ rpc' = IF rx_mode = "tcp" THEN "accept" ELSE "get"
        /\ UNCHANGED fd
     \/ /\ fd = 0 \/ failing
        /\ rpc' = "exit" /\ fd' = 0 /\ UNCHANGED <<rx_map, rxbuf>>
  /\ UNCHANGED <<mode, mpc, rx_session_active, drop, txTask, rx_peer, tx_peer,
                 txbuf, enables>>

\* A connection accept() fails on is lost.
RxAccept ==
  /\ rpc = "accept"
  /\ \/ rx_peer # "away" /\ rpc' = "begin"
     \/ failing /\ rpc' = "munmap"
  /\ UNCHANGED <<mode, mpc, rx_session_active, drop, rx_map, txTask, rx_peer,
                 tx_peer, driver>>

\* Slip: the flag is set and nobody told.
RxAnnounceNoSignal ==
  /\ rpc = "begin" /\ Combined
  /\ rx_session_active' = 1
  /\ rpc' = "get" /\ drop' = Drop
  /\ UNCHANGED <<mode, mpc, rx_map, txTask, rx_peer, tx_peer, driver>>

\* Combined with TX, the session only tells it to go ahead; pthread_cond_signal
\* wakes TX when it is waiting, and is lost when it is not.
RxAnnounce ==
  /\ rpc = "begin" /\ Combined
  /\ rx_session_active' = 1
  /\ tpc' = IF tpc = "asleep" THEN "check" ELSE tpc
  /\ rpc' = "get" /\ drop' = Drop
  /\ UNCHANGED <<mode, mpc, rx_map, prefill, tx_map, rx_peer, tx_peer, driver>>

\* Alone, it enables the FPGA itself.
RxEnable ==
  /\ rpc = "begin" /\ ~Combined
  /\ IF fd = 1 THEN rpc' = "get" /\ drop' = Drop /\ enables' = enables + 1
               ELSE rpc' = "munmap" /\ UNCHANGED <<drop, enables>>
  /\ UNCHANGED <<mode, mpc, rx_session_active, rx_map, txTask, rx_peer, tx_peer,
                 fd, rxbuf, txbuf>>

\* driver_rx_get_block: read() on a closed descriptor fails at once, otherwise it
\* is inside the kernel and holds the file.
RxGet ==
  /\ rpc = "get"
  /\ rpc' = IF fd = 1 THEN "reading" ELSE "done"
  /\ UNCHANGED <<mode, mpc, rx_session_active, drop, rx_map, txTask, rx_peer,
                 tx_peer, driver>>

Dropping == drop > 0

\* A block has come.  The first ones are dropped.
RxRead ==
  /\ rpc = "reading" /\ Running
  /\ IF Dropping THEN rpc' = "get" /\ drop' = drop - 1
                 ELSE rpc' = "send" /\ UNCHANGED drop
  /\ UNCHANGED <<mode, mpc, rx_session_active, rx_map, txTask, rx_peer, tx_peer,
                 driver>>

\* Slip: the result of send() is not looked at.
SendFailsNot == rx_mode = "none"

SendFails == rx_peer = "gone"

\* A client that has left makes send() fail; a datagram always goes.
RxSend ==
  /\ rpc = "send"
  /\ rpc' = IF rx_mode # "udp" /\ SendFails THEN "done" ELSE "get"
  /\ UNCHANGED <<mode, mpc, rx_session_active, drop, rx_map, txTask, rx_peer,
                 tx_peer, driver>>

RxDone ==
  /\ rpc = "done"
  /\ rx_session_active' =
       IF rx_mode = "tcp" /\ Combined THEN 0 ELSE rx_session_active
  /\ rpc' = "munmap"
  /\ UNCHANGED <<mode, mpc, drop, rx_map, txTask, rx_peer, tx_peer, driver>>

\* The client's socket is closed, the ring unmapped ...
RxMunmap ==
  /\ rpc = "munmap" /\ rpc' = "close"
  /\ rx_map' = 0 /\ rx_peer' = "away"
  /\ UNCHANGED <<mode, mpc, rx_session_active, drop, txTask, tx_peer, driver>>

\* ... and the descriptor closed, whoever is using it.
RxClose ==
  /\ rpc = "close" /\ rpc' = "exit"
  /\ fd' = 0
  /\ UNCHANGED <<mode, mpc, rx_session_active, drop, rx_map, txTask, rx_peer,
                 tx_peer, rxbuf, txbuf, enables>>

RxTask == \/ RxMmap \/ RxAccept \/ RxAnnounce \/ RxEnable \/ RxGet \/ RxRead
          \/ RxSend \/ RxDone \/ RxMunmap \/ RxClose

-----------------------------------------------------------------------------
(* The TX task.                                                             *)

TxMmap ==
  /\ tpc = "mmap"
  /\ \/ /\ fd = 1 /\ tx_map' = 1 /\ txbuf' = 1 /\ tpc' = "accept"
        /\ UNCHANGED fd
     \/ /\ fd = 0 \/ failing
        /\ tpc' = "exit" /\ fd' = 0 /\ UNCHANGED <<tx_map, txbuf>>
  /\ UNCHANGED <<mode, mpc, rx_session_active, rxTask, prefill, rx_peer, tx_peer,
                 rxbuf, enables>>

TxAccept ==
  /\ tpc = "accept"
  /\ \/ /\ tx_peer # "away" /\ prefill' = Prefill
        /\ tpc' = IF rx_mode # "none" THEN "check" ELSE "prefill"
     \/ failing /\ tpc' = "munmap" /\ UNCHANGED prefill
  /\ UNCHANGED <<mode, mpc, rx_session_active, rxTask, tx_map, rx_peer, tx_peer,
                 driver>>

\* Under the mutex: the loop around pthread_cond_wait.
TxCheck ==
  /\ tpc = "check"
  /\ tpc' = IF rx_session_active = 1 THEN "prefill" ELSE "asleep"
  /\ UNCHANGED <<mode, mpc, rx_session_active, rxTask, prefill, tx_map, rx_peer,
                 tx_peer, driver>>

\* A block of silence, for which there is always room (TxRing), or ENABLE.
TxPrefill ==
  /\ tpc = "prefill"
  /\ \/ fd = 0 /\ tpc' = "munmap" /\ UNCHANGED <<prefill, enables>>
     \/ fd = 1 /\ prefill > 0 /\ prefill' = prefill - 1 /\ UNCHANGED <<tpc, enables>>
     \/ fd = 1 /\ prefill = 0 /\ tpc' = "recv" /\ enables' = enables + 1
        /\ UNCHANGED prefill
  /\ UNCHANGED <<mode, mpc, rx_session_active, rxTask, tx_map, rx_peer, tx_peer,
                 fd, rxbuf, txbuf>>

\* The client has left.  (Its next block: TxPeerSends.)
TxRecvEnds ==
  /\ tpc = "recv" /\ tx_peer = "gone"
  /\ tpc' = "munmap"
  /\ UNCHANGED <<mode, mpc, rx_session_active, rxTask, prefill, tx_map, rx_peer,
                 tx_peer, driver>>

TxPut ==
  /\ tpc = "put"
  /\ tpc' = IF fd = 1 THEN "writing" ELSE "munmap"
  /\ UNCHANGED <<mode, mpc, rx_session_active, rxTask, prefill, tx_map, rx_peer,
                 tx_peer, driver>>

\* The FPGA makes room.
TxWrite ==
  /\ tpc = "writing" /\ Running
  /\ tpc' = "recv"
  /\ UNCHANGED <<mode, mpc, rx_session_active, rxTask, prefill, tx_map, rx_peer,
                 tx_peer, driver>>

TxMunmap ==
  /\ tpc = "munmap" /\ tpc' = "close"
  /\ tx_map' = 0 /\ tx_peer' = "away"
  /\ UNCHANGED <<mode, mpc, rx_session_active, rxTask, prefill, rx_peer, driver>>

\* Slip: TX leaves the descriptor to RX.
TxCloseNot ==
  /\ tpc = "close" /\ tpc' = "exit"
  /\ UNCHANGED <<mode, mpc, rx_session_active, rxTask, prefill, tx_map, rx_peer,
                 tx_peer, driver>>

TxClose ==
  /\ tpc = "close" /\ tpc' = "exit"
  /\ fd' = 0
  /\ UNCHANGED <<mode, mpc, rx_session_active, rxTask, prefill, tx_map, rx_peer,
                 tx_peer, rxbuf, txbuf, enables>>

TxTask == \/ TxMmap \/ TxAccept \/ TxCheck \/ TxPrefill \/ TxRecvEnds \/ TxPut
          \/ TxWrite \/ TxMunmap \/ TxClose

-----------------------------------------------------------------------------
(* The clients on the network.                                              *)

PeerSame == UNCHANGED <<mode, mpc, rx_session_active, rxTask, prefill, tx_map,
                        driver>>

RxPeerComes == rx_mode = "tcp" /\ rx_peer = "away" /\ rx_peer' = "up"
               /\ PeerSame /\ UNCHANGED <<tpc, tx_peer>>
TxPeerComes == tx_mode = "tcp" /\ tx_peer = "away" /\ tx_peer' = "up"
               /\ PeerSame /\ UNCHANGED <<tpc, rx_peer>>
RxPeerLeaves == rx_peer = "up" /\ rx_peer' = "gone"
                /\ PeerSame /\ UNCHANGED <<tpc, tx_peer>>
TxPeerLeaves == tx_peer = "up" /\ tx_peer' = "gone"
                /\ PeerSame /\ UNCHANGED <<tpc, rx_peer>>

\* A block from the client is complete.
TxPeerSends == tpc = "recv" /\ tpc' = "put"
               /\ PeerSame /\ UNCHANGED <<rx_peer, tx_peer>>

Peers == \/ RxPeerComes \/ TxPeerComes \/ RxPeerLeaves \/ TxPeerLeaves
         \/ TxPeerSends

-----------------------------------------------------------------------------
Main == MainOpen \/ MainJoin
Next == Main \/ RxTask \/ TxTask \/ Peers

Spec == Init /\ [][Next]_vars

\* The threads are scheduled, blocks come while the FPGA runs.  Of the clients:
\* one comes whenever there is none; RX's takes its samples or leaves, TX's sends
\* or leaves, and what one that has left had sent comes to an end.
LiveSpec == Spec /\ WF_vars(Main) /\ WF_vars(RxTask) /\ WF_vars(TxTask)
                 /\ WF_vars(RxPeerComes) /\ WF_vars(TxPeerComes)
                 /\ WF_vars(TxPeerSends \/ TxRecvEnds) /\ SF_vars(TxRecvEnds)

-----------------------------------------------------------------------------
(* Properties.                                                              *)

TypeOK ==
  /\ rx_mode \in RxModes /\ tx_mode \in TxModes /\ failing \in Faults
  /\ mpc \in {"open", "join", "exit"} /\ fd \in {0, 1}
  /\ rx_session_active \in {0, 1}
  /\ rpc \in {"mmap", "accept", "begin", "get", "reading", "send", "done",
              "munmap", "close", "exit"}
  /\ tpc \in {"mmap", "accept", "check", "asleep", "prefill", "recv", "put",
              "writing", "munmap", "close", "exit"}
  /\ drop \in 0..Drop /\ prefill \in 0..Prefill
  /\ rx_map \in {0, 1} /\ tx_map \in {0, 1} /\ rxbuf \in {0, 1} /\ txbuf \in {0, 1}
  /\ rx_peer \in {"away", "up", "gone"} /\ tx_peer \in {"away", "up", "gone"}
  /\ enables \in Nat

\* When main opens the device again the file of the last session is released,
\* whatever ended it: no mapping and no call still holds it (open() would fail
\* with EBUSY and the process would end).
ReopenNeverBusy == mpc # "exit" /\ (mpc = "open" => ~InUse)

\* ENABLE is called once per open file: RxRing's pointers are right only then.
EnabledOnce == enables <= 1

\* A read() waits on a stopped FPGA only while the session can still start it:
\* TX is on its way to ENABLE, or was never there.
SomebodyWillEnable ==
  ~failing /\ rpc = "reading" /\ enables = 0 /\ rx_mode = "tcp" =>
    tpc \in {"mmap", "accept", "check", "prefill"}

\* A run of the process that can end its sessions: no call fails, and some task
\* enables the FPGA (none does with --rx-udp).
Healthy == ~failing /\ rx_mode # "udp"

\* TX sleeps only on a lowered flag, and in a healthy run only while RX is still on
\* its way to raise it: pthread_cond_signal, which is lost when nobody waits, is never
\* the one wake-up TX would have needed.
SleeperWillBeTold ==
  tpc = "asleep" =>
    rx_session_active = 0 /\ (Healthy => rpc \in {"mmap", "accept", "begin"})

\* What the tasks assume of each other across a session and into the next one:
\* the four above, for the open file, the ENABLE ioctl and the start flag;
\* and each is in one of its states.
OpensAgree == /\ TypeOK /\ ReopenNeverBusy /\ EnabledOnce
              /\ SomebodyWillEnable /\ SleeperWillBeTold

\* The ENABLE ioctl finds every ring of the session mapped, so that one write of
\* the control register starts RX and TX together ("new IOCTL command to allow
\* atomic enable of tx and rx", CHANGELOG 8).
EnableCovers == enables' > enables => /\ rx_mode # "none" => rxbuf = 1
                                      /\ tx_mode # "none" => txbuf = 1
EnableCoversBoth == [][EnableCovers]_vars

\* A client that has left is noticed, and its connection closed for the next.
LeaverIsDropped == /\ Healthy /\ rx_peer = "gone" ~> rx_peer # "gone"
                   /\ Healthy /\ tx_peer = "gone" ~> tx_peer # "gone"

\* When one of two tasks ends the session ends, and main opens the device again:
\* "Close the driver to signal the TX thread (if combined) that this session is
\* done" (rx.c 127).
SessionEnds == Combined /\ mpc = "join" /\ (rpc = "exit" \/ tpc = "exit")
               ~> mpc = "open"

\* The same of a healthy run: after either task's return, in whatever order the
\* other one meets the closed descriptor, both tasks are joined.
HealthySessionEnds ==
  Healthy /\ Combined /\ mpc = "join" /\ (rpc = "exit" \/ tpc = "exit")
    ~> mpc = "open"
=============================================================================
