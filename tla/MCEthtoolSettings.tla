--------------------------- MODULE MCEthtoolSettings ---------------------------
(***************************************************************************)
(* The ethtool settings handlers of one adapter, interleaved: the         *)
(* coalescing handlers (VfCoalesce) and the rxnfc / private-flags handlers *)
(* (VfRxnfc).  ethtool calls are serialised by the RTNL lock, so a step is *)
(* one whole handler of either component and the other is left alone.     *)
(* The link state readers (VfLink), the offload setters (VfOffload) and   *)
(* the ring handlers (VfRingParam: set_ringparam, diag_test, nway_reset)  *)
(* share no state with the coalesce and rxnfc handlers: a behaviour checks *)
(* one part ("settings", "link", "offload" or "rings"), which keeps the    *)
(* state space a sum, not a product.                                       *)
(***************************************************************************)
EXTENDS Integers

CONSTANTS MaxEitr, Itr20K, Itr12K, Usecs, Flows, VlanSlots,
          NumTx, NumXdp, NumRx, MinDesc, MaxDesc, TxMultiple, RxMultiple,
          InitTxd, InitRxd, Pendings, OpenCanFail, MaxCalls

VARIABLES layout, rxSetting, txSetting, vecItr, reported, req,
          x550, flags, vfmrqc, running, ringsLegacy, asked,
          links, rst, linkUp, linkSpeed, testData, lastMapped,
          rxCsum, features, vlans, ofRunning, devClosed, hwCsum,
          rgRunning, devUp, resetting, txCnt, xdpCnt, rxCnt, txq, rxq, pc,
          newTx, newRx, err, txBuf, rxBuf, leaked, ringRet, snap, calls,
          part

Co == INSTANCE VfCoalesce
Rx == INSTANCE VfRxnfc
Lk == INSTANCE VfLink
Of == INSTANCE VfOffload WITH running <- ofRunning
Rg == INSTANCE VfRingParam WITH running <- rgRunning

coVars == <<layout, rxSetting, txSetting, vecItr, reported, req>>
rxVars == <<x550, flags, vfmrqc, running, ringsLegacy, asked>>
lkVars == <<links, rst, linkUp, linkSpeed, testData, lastMapped>>
ofVars == <<rxCsum, features, vlans, ofRunning, devClosed, hwCsum>>
rgVars == <<rgRunning, devUp, resetting, txCnt, xdpCnt, rxCnt, txq, rxq, pc,
            newTx, newRx, err, txBuf, rxBuf, leaked, ringRet, snap, calls>>
allVars == <<coVars, rxVars, lkVars, ofVars, rgVars, part>>

Init ==
  /\ part \in {"settings", "link", "offload", "rings"}
  /\ Co!Init /\ Rx!Init /\ Rg!Init
  \* The settings handlers' state is idle in the other parts: one layout.
  /\ part # "settings" => layout = (CHOOSE l \in Co!Layouts : TRUE) /\ ~x550
  /\ IF part = "link" THEN Lk!Init
     ELSE /\ links = 0 /\ rst = FALSE /\ linkUp = FALSE
          /\ linkSpeed = 0 /\ testData = -1 /\ lastMapped = 0
  /\ IF part = "offload" THEN Of!Init
     ELSE /\ rxCsum = TRUE /\ features = {} /\ vlans = <<>>
          /\ ofRunning = FALSE /\ devClosed = FALSE /\ hwCsum = TRUE

\* The watchdog step of the link part.
LinkWatchdog ==
  part = "link" /\ Lk!Watchdog /\ UNCHANGED <<coVars, rxVars, ofVars, rgVars, part>>

\* The steps of a set_ringparam call under way.
RingStep ==
  part = "rings" /\ Rg!RingStep /\ UNCHANGED <<coVars, rxVars, lkVars, ofVars, part>>

Next ==
  \/ part = "settings" /\ Co!Next /\ UNCHANGED <<rxVars, lkVars, ofVars, rgVars, part>>
  \/ part = "settings" /\ Rx!Next /\ UNCHANGED <<coVars, lkVars, ofVars, rgVars, part>>
  \/ part = "link" /\ Lk!LinkNext /\ UNCHANGED <<coVars, rxVars, ofVars, rgVars, part>>
  \/ part = "offload" /\ Of!OffNext /\ UNCHANGED <<coVars, rxVars, lkVars, rgVars, part>>
  \/ part = "rings" /\ Rg!Next /\ UNCHANGED <<coVars, rxVars, lkVars, ofVars, part>>

\* The watchdog runs off a periodic timer; a set_ringparam call holds
\* rtnl_lock and runs to its return.
Spec == Init /\ [][Next]_allVars /\ WF_allVars(LinkWatchdog) /\ WF_allVars(RingStep)

\* Type invariant of the coalescing state.
CoalesceTypeOK == Co!CoalesceTypeOK
\* get_coalesce reports the usecs the last accepted set_coalesce asked for.
CoalesceRoundTrip == Co!CoalesceRoundTrip
\* After set_coalesce every q_vector runs at what the request asks for its
\* rings (off, dynamic, or usecs in EITR units).
VectorsFollowRequest == Co!VectorsFollowRequest
\* Type invariant of the rxnfc state.
RxnfcTypeOK == Rx!RxnfcTypeOK
\* ETHTOOL_GRXFH reports, per flow, the fields the last accepted
\* ETHTOOL_SRXFH for that flow asked for.
HashOptsRoundTrip == Rx!HashOptsRoundTrip
\* On X550, VFMRQC hashes on a family's UDP field exactly when the adapter
\* flag for it is set.
MrqcMatchesFlags == Rx!MrqcMatchesFlags
\* The queues of a running interface are populated in the Rx mode
\* get_priv_flags reports.
LegacyRxApplied == Rx!LegacyRxApplied
\* Type invariant of the link state.
LinkTypeOK == Lk!LinkTypeOK
\* A speed check_mac_link leaves unset never outlives a PF reset: the
\* link settings report shows SPEED_UNKNOWN or the latest mapped VFLINKS
\* speed read since the watchdog last saw the reset indication.
SpeedNotCarriedAcrossReset == Lk!SpeedNotCarriedAcrossReset
\* Under the periodic watchdog, the link settings report eventually agrees
\* with VFLINKS and the reset indication while they hold still.
LinkReportSettles == Lk!LinkReportSettles
\* A running interface's queues check Rx checksums exactly as the flag
\* set_rx_csum sets says, unless the device is marked closed.
RxCsumApplied == Of!RxCsumApplied
\* No VLAN device keeps TSO the real device has turned off.
VlanTsoWithinReal == Of!VlanTsoWithinReal
\* Type invariant of the ring state.
RingTypeOK == Rg!RingTypeOK
\* Between set_ringparam calls every ring has the adapter's count for its
\* kind, the counts are aligned and __IXGBEVF_RESETTING is clear.
RingsConsistent == Rg!RingsConsistent
\* No failure path of set_ringparam drops a clone that holds memory.
NoLeak == Rg!NoLeak
\* A set_ringparam that returns -ENOMEM leaves the rings, the counts and
\* the up state as the call found them.
ErrorKeepsConfig == Rg!ErrorKeepsConfig
\* Every set_ringparam call returns: none spins forever on the resetting bit.
RingCallReturns == Rg!RingCallReturns
====
