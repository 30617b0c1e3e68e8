------------------------------ MODULE VfRingParam ------------------------------
(***************************************************************************)
(* ixgbevf_set_ringparam (src/ixgbevf_ethtool.c) and the other ethtool     *)
(* callbacks that take the interface down and up: diag_test and            *)
(* nway_reset.  ethtool callbacks, ndo_open and ndo_stop all run under     *)
(* rtnl_lock, so they do not interleave with one another; set_ringparam is *)
(* modelled step by step along its goto structure because each step can    *)
(* fail and the unwind depends on how far it got.                          *)
(*                                                                         *)
(* A Tx slot s is adapter->tx_ring[s] for s < NumTx and                    *)
(* adapter->xdp_ring[s - NumTx] after that, the layout of the local        *)
(* tx_ring array.  A ring is [count, res]: its descriptor count and the   *)
(* number of descriptors its allocated resources hold (0 = none).          *)
(***************************************************************************)
EXTENDS Naturals

CONSTANTS
  NumTx, NumXdp, NumRx,    \* num_tx_queues, num_xdp_queues, num_rx_queues
  MinDesc, MaxDesc,        \* IXGBEVF_MIN/MAX_NUM_DESCRIPTORS
  TxMultiple, RxMultiple,  \* IXGBE_REQ_TX/RX_DESCRIPTOR_MULTIPLE
  InitTxd, InitRxd,        \* the counts the adapter starts with
  Pendings,                \* tx_pending / rx_pending values requested
  OpenCanFail,             \* whether ixgbevf_open may fail to allocate
  MaxCalls                 \* bound on set_ringparam calls

TxSlots == 0..(NumTx + NumXdp - 1)
RxSlots == 0..(NumRx - 1)
NULL == <<>>   \* a null array: no rings

VARIABLES
  running,    \* netif_running(netdev)
  devUp,      \* the driver has the rings up (ixgbevf_up / ixgbevf_open)
  resetting,  \* __IXGBEVF_RESETTING
  txCnt, xdpCnt, rxCnt,  \* adapter->tx/xdp/rx_ring_count
  txq, rxq,   \* the adapter's rings
  pc,         \* where set_ringparam is
  newTx, newRx, err,     \* its locals new_tx_count, new_rx_count, err
  txBuf, rxBuf,          \* its locals tx_ring, rx_ring: NULL or clone rings
  leaked,     \* some descriptor memory was dropped without being freed
  ringRet,    \* what the last set_ringparam call returned
  snap,       \* the adapter's ring state when that call started
  calls       \* set_ringparam calls so far

ringVars == <<txCnt, xdpCnt, rxCnt, txq, rxq>>
localVars == <<newTx, newRx, err, txBuf, rxBuf>>
vars == <<running, devUp, resetting, ringVars, pc, localVars, leaked, ringRet,
          snap, calls>>

\* What an error return must leave as it was.
config == <<ringVars, devUp>>

Ring(count, res) == [count |-> count, res |-> res]

\* ALIGN(x, m) for a power-of-two m.
Align(x, m) == ((x + m - 1) \div m) * m

\* Mutant of InRange: the upper bound is not checked.
InRangeNoMax(x) == x >= MinDesc

InRange(x) == x >= MinDesc /\ x <= MaxDesc

\* The rings allocated (open) or freed (close) at their own counts.
Backed(q) == [s \in DOMAIN q |-> Ring(q[s].count, q[s].count)]
Freed(q)  == [s \in DOMAIN q |-> Ring(q[s].count, 0)]

\* vfree of a clone array: memory still held by one of its rings is lost.
Vfree(buf) == leaked' = (leaked \/ \E s \in DOMAIN buf : buf[s].res # 0)

\* Mutant of Unwind: a failure in the XDP loop frees only the XDP clones
\* (counting from j instead of i).
UnwindFromXdp(buf, k) ==
  [s \in DOMAIN buf |-> IF s < k /\ (k < NumTx \/ s >= NumTx)
                        THEN Ring(buf[s].count, 0) ELSE buf[s]]

\* `while (i) { i--; free(&ring[i]); }` after the setup of ring k failed.
Unwind(buf, k) == [s \in DOMAIN buf |-> IF s < k THEN Ring(buf[s].count, 0)
                                                  ELSE buf[s]]

\* Clones of q at `count`, the first k of them set up: ring k's setup
\* failed (k = number of rings: all succeeded).  A failed setup frees what
\* it allocated.
Cloned(q, count, k) == [s \in DOMAIN q |-> Ring(count, IF s < k THEN count ELSE 0)]

Init ==
  /\ running = FALSE /\ devUp = FALSE /\ resetting = FALSE
  /\ txCnt = InitTxd /\ xdpCnt = InitTxd /\ rxCnt = InitRxd
  /\ txq = [s \in TxSlots |-> Ring(InitTxd, 0)]
  /\ rxq = [s \in RxSlots |-> Ring(InitRxd, 0)]
  /\ pc = "idle" /\ newTx = 0 /\ newRx = 0 /\ err = "OK"
  /\ txBuf = NULL /\ rxBuf = NULL /\ leaked = FALSE
  /\ ringRet = "NONE" /\ snap = <<ringVars, devUp>> /\ calls = 0

-----------------------------------------------------------------------------
(* set_ringparam *)

Return(r) == pc' = "idle" /\ ringRet' = r

\* Argument checks and the "nothing to do" test, then the spin on
\* __IXGBEVF_RESETTING.
RingCall ==
  /\ pc = "idle" /\ calls < MaxCalls
  /\ calls' = calls + 1
  /\ \E tx, rx \in Pendings, miniOrJumbo \in BOOLEAN :
       LET ntx == Align(tx, TxMultiple)
           nrx == Align(rx, RxMultiple)
       IN CASE miniOrJumbo \/ ~InRange(tx) \/ ~InRange(rx) ->
                 Return("EINVAL") /\ UNCHANGED <<localVars, snap>>
            [] ntx = txCnt /\ nrx = rxCnt ->
                 Return("OK") /\ UNCHANGED <<localVars, snap>>
            [] OTHER ->
                 /\ pc' = "spin" /\ newTx' = ntx /\ newRx' = nrx /\ err' = "OK"
                 /\ snap' = config
                 /\ UNCHANGED <<txBuf, rxBuf, ringRet>>
  /\ UNCHANGED <<running, devUp, resetting, ringVars, leaked>>

\* test_and_set_bit succeeds.  A stopped interface only has its counts
\* rewritten.
RingAcquire ==
  /\ pc = "spin" /\ ~resetting
  /\ resetting' = TRUE
  /\ IF running
       THEN pc' = "setup_tx" /\ UNCHANGED ringVars
       ELSE /\ txq' = [s \in TxSlots |-> Ring(newTx, txq[s].res)]
            /\ rxq' = [s \in RxSlots |-> Ring(newRx, rxq[s].res)]
            /\ txCnt' = newTx /\ xdpCnt' = newTx /\ rxCnt' = newRx
            /\ pc' = "clear_reset"
  /\ UNCHANGED <<running, devUp, localVars, leaked, ringRet, snap, calls>>

\* No Tx count change: tx_ring stays NULL.
TxUnchanged ==
  /\ pc = "setup_tx" /\ newTx = txCnt
  /\ pc' = "setup_rx"
  /\ UNCHANGED <<txBuf, err, leaked, devUp>>

\* Mutant of TxVmallocFails: ixgbevf_down is called before the clones are
\* allocated, and the error path returns with the interface down.
TxVmallocFailsDownFirst ==
  /\ pc = "setup_tx" /\ newTx # txCnt
  /\ err' = "ENOMEM" /\ pc' = "clear_reset" /\ devUp' = FALSE
  /\ UNCHANGED <<txBuf, leaked>>

\* vmalloc of the clone array fails.
TxVmallocFails ==
  /\ pc = "setup_tx" /\ newTx # txCnt
  /\ err' = "ENOMEM" /\ pc' = "clear_reset"
  /\ UNCHANGED <<txBuf, leaked, devUp>>

\* ixgbevf_setup_tx_resources fails on clone k (a Tx or an XDP ring): the
\* clones before it are freed, the array is vfreed and set to NULL.
TxSetupFails ==
  /\ pc = "setup_tx" /\ newTx # txCnt
  /\ \E k \in TxSlots : Vfree(Unwind(Cloned(txq, newTx, k), k))
  /\ txBuf' = NULL /\ err' = "ENOMEM" /\ pc' = "clear_reset"
  /\ UNCHANGED devUp

TxSetupDone ==
  /\ pc = "setup_tx" /\ newTx # txCnt
  /\ txBuf' = Cloned(txq, newTx, NumTx + NumXdp)
  /\ pc' = "setup_rx"
  /\ UNCHANGED <<err, leaked, devUp>>

RxUnchanged ==
  /\ pc = "setup_rx" /\ newRx = rxCnt
  /\ pc' = "swap"
  /\ UNCHANGED <<rxBuf, err, leaked, devUp>>

RxVmallocFails ==
  /\ pc = "setup_rx" /\ newRx # rxCnt
  /\ err' = "ENOMEM" /\ pc' = "clear_reset"
  /\ UNCHANGED <<rxBuf, leaked, devUp>>

\* ixgbevf_setup_rx_resources fails on clone k; tx_ring, if any, is kept
\* for clear_reset to free.
RxSetupFails ==
  /\ pc = "setup_rx" /\ newRx # rxCnt
  /\ \E k \in RxSlots : Vfree(Unwind(Cloned(rxq, newRx, k), k))
  /\ rxBuf' = NULL /\ err' = "ENOMEM" /\ pc' = "clear_reset"
  /\ UNCHANGED devUp

RxSetupDone ==
  /\ pc = "setup_rx" /\ newRx # rxCnt
  /\ rxBuf' = Cloned(rxq, newRx, NumRx)
  /\ pc' = "swap"
  /\ UNCHANGED <<err, leaked, devUp>>

\* Mutant of RingSwap: the XDP rings are not swapped.
RingSwapNoXdp ==
  /\ pc = "swap"
  /\ IF txBuf # NULL
       THEN /\ txq' = [s \in TxSlots |-> IF s < NumTx THEN txBuf[s] ELSE txq[s]]
            /\ txCnt' = newTx /\ xdpCnt' = newTx
       ELSE UNCHANGED <<txq, txCnt, xdpCnt>>
  /\ IF rxBuf # NULL
       THEN rxq' = rxBuf /\ rxCnt' = newRx
       ELSE UNCHANGED <<rxq, rxCnt>>
  /\ txBuf' = NULL /\ rxBuf' = NULL
  /\ devUp' = TRUE
  /\ pc' = "clear_reset"
  /\ UNCHANGED <<running, resetting, newTx, newRx, err, leaked, ringRet, snap, calls>>

\* ixgbevf_down, then each adapter ring's resources are freed and the clone
\* copied over it, then ixgbevf_up.
RingSwap ==
  /\ pc = "swap"
  /\ IF txBuf # NULL
       THEN txq' = txBuf /\ txCnt' = newTx /\ xdpCnt' = newTx
       ELSE UNCHANGED <<txq, txCnt, xdpCnt>>
  /\ IF rxBuf # NULL
       THEN rxq' = rxBuf /\ rxCnt' = newRx
       ELSE UNCHANGED <<rxq, rxCnt>>
  /\ txBuf' = NULL /\ rxBuf' = NULL
  /\ devUp' = TRUE
  /\ pc' = "clear_reset"
  /\ UNCHANGED <<running, resetting, newTx, newRx, err, leaked, ringRet, snap, calls>>

\* Mutant of RingClearReset: an error path returns without clear_bit.
RingClearResetKeepsBit ==
  /\ pc = "clear_reset"
  /\ IF txBuf # NULL THEN Vfree(Freed(txBuf)) ELSE UNCHANGED leaked
  /\ txBuf' = NULL
  /\ resetting' = (err # "OK")
  /\ Return(err)
  /\ UNCHANGED <<running, devUp, ringVars, newTx, newRx, err, rxBuf, snap, calls>>

\* clear_reset: free a tx_ring left by an Rx failure, clear the bit, return.
RingClearReset ==
  /\ pc = "clear_reset"
  /\ IF txBuf # NULL THEN Vfree(Freed(txBuf)) ELSE UNCHANGED leaked
  /\ txBuf' = NULL
  /\ resetting' = FALSE
  /\ Return(err)
  /\ UNCHANGED <<running, devUp, ringVars, newTx, newRx, err, rxBuf, snap, calls>>

\* The steps of a call in progress.  Each Tx step leaves rx_ring alone and
\* each Rx step tx_ring.
setupFrame == <<running, resetting, ringVars, newTx, newRx, ringRet, snap, calls>>
TxSetup == (TxUnchanged \/ TxVmallocFails \/ TxSetupFails \/ TxSetupDone)
           /\ UNCHANGED <<setupFrame, rxBuf>>
RxSetup == (RxUnchanged \/ RxVmallocFails \/ RxSetupFails \/ RxSetupDone)
           /\ UNCHANGED <<setupFrame, txBuf>>
RingStep == RingAcquire \/ TxSetup \/ RxSetup \/ RingSwap \/ RingClearReset

-----------------------------------------------------------------------------
(* Bringing the interface up and down between calls. *)

\* ndo_open (ixgbevf_open): every ring gets resources at its count.  A
\* failed open unwinds and leaves the interface stopped.
Open ==
  /\ pc = "idle" /\ ~running
  /\ running' = TRUE /\ devUp' = TRUE
  /\ txq' = Backed(txq) /\ rxq' = Backed(rxq)
  /\ UNCHANGED <<resetting, txCnt, xdpCnt, rxCnt, pc, localVars, leaked, ringRet,
                 snap, calls>>

\* ndo_stop (ixgbevf_close): down and free every ring's resources.
Close ==
  /\ pc = "idle" /\ running
  /\ running' = FALSE /\ devUp' = FALSE
  /\ txq' = Freed(txq) /\ rxq' = Freed(rxq)
  /\ UNCHANGED <<resetting, txCnt, xdpCnt, rxCnt, pc, localVars, leaked, ringRet,
                 snap, calls>>

\* ixgbevf_diag_test, offline, on a running interface: ixgbevf_close, the
\* register test and resets, then ixgbevf_open, whose result is not
\* checked.  netif_running stays true throughout (the driver's close and
\* open are called directly).  The online test and an offline test of a
\* stopped interface only reset the hardware and leave the rings alone.
DiagTest ==
  /\ pc = "idle" /\ running
  /\ \E opened \in IF OpenCanFail THEN BOOLEAN ELSE {TRUE} :
       /\ devUp' = opened
       /\ txq' = IF opened THEN Backed(txq) ELSE Freed(txq)
       /\ rxq' = IF opened THEN Backed(rxq) ELSE Freed(rxq)
  /\ UNCHANGED <<running, resetting, txCnt, xdpCnt, rxCnt, pc, localVars, leaked,
                 ringRet, snap, calls>>

\* Mutant of NwayReset: the netif_running test is dropped.
NwayResetAlways ==
  /\ pc = "idle"
  /\ devUp' = TRUE
  /\ UNCHANGED <<running, resetting, ringVars, pc, localVars, leaked, ringRet,
                 snap, calls>>

\* ixgbevf_nway_reset: ixgbevf_reinit_locked (down, up) when running.
NwayReset ==
  /\ pc = "idle" /\ running
  /\ devUp' = TRUE
  /\ UNCHANGED <<running, resetting, ringVars, pc, localVars, leaked, ringRet,
                 snap, calls>>

Next == RingCall \/ RingStep \/ Open \/ Close \/ DiagTest \/ NwayReset

\* A set_ringparam call in progress runs to its return: it holds rtnl_lock
\* and only sleeps in its spin on the bit.
Spec == Init /\ [][Next]_vars /\ WF_vars(RingStep)

-----------------------------------------------------------------------------
(* Properties. *)

\* Ring counts never exceed IXGBE_MAX_TXD/RXD and set_ringparam is always
\* at one of its labels with one of its return codes.
RingTypeOK ==
  /\ running \in BOOLEAN /\ devUp \in BOOLEAN /\ resetting \in BOOLEAN
  /\ {txCnt, xdpCnt, rxCnt} \subseteq 0..MaxDesc
  /\ pc \in {"idle", "spin", "setup_tx", "setup_rx", "swap", "clear_reset"}
  /\ ringRet \in {"NONE", "OK", "EINVAL", "ENOMEM"}
  /\ calls \in 0..MaxCalls

\* Between calls, every Tx and XDP ring has adapter->tx_ring_count
\* descriptors (the same as xdp_ring_count), every Rx ring rx_ring_count,
\* the counts are aligned, and __IXGBEVF_RESETTING is clear: whatever
\* set_ringparam's allocations did, it never leaves half the rings resized.
RingsConsistent ==
  pc = "idle" =>
    /\ ~resetting
    /\ xdpCnt = txCnt
    /\ \A s \in TxSlots : txq[s].count = txCnt
    /\ \A s \in RxSlots : rxq[s].count = rxCnt
    /\ txCnt % TxMultiple = 0 /\ rxCnt % RxMultiple = 0

\* Whenever the rings are up, each has descriptor memory for its count:
\* set_ringparam, diag_test and nway_reset never bring up a ring whose
\* resources were freed or sized for another count.
UpRingsBacked ==
  devUp => txq = Backed(txq) /\ rxq = Backed(rxq)

\* No failure path of set_ringparam drops a clone that still holds
\* descriptor memory.
NoLeak == ~leaked

\* set_ringparam returning -ENOMEM leaves the rings, the counts and the
\* interface's up state as they were when it was called.
ErrorKeepsConfig ==
  [][pc = "clear_reset" /\ pc' = "idle" /\ err = "ENOMEM" => config' = snap]_vars

\* Every set_ringparam call returns; in particular no call spins forever on
\* a __IXGBEVF_RESETTING bit an earlier call left set.
RingCallReturns == pc # "idle" ~> pc = "idle"
====
