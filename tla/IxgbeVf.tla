------------------------------- MODULE IxgbeVf -------------------------------
(***************************************************************************)
(* The VF side of the ixgbevf hardware-control core (src/ixgbe_vf.c) and   *)
(* the mailbox RSS queries of src/ixgbevf_ethtool.c, running against the   *)
(* mailbox and PF of module VfMailbox.                                     *)
(*                                                                         *)
(* The VF is one thread: every mailbox user holds adapter->mbx_lock, so    *)
(* operations never overlap.  An operation is split at the points where    *)
(* it polls the mailbox (write_posted's ack poll, read_posted's message    *)
(* poll, the reset loop's check_for_rst poll); the PF moves in between.   *)
(* `pc` is where the thread is, `curOp` the operation.  check_mac_link is *)
(* in module VfLink.                                                       *)
(***************************************************************************)
EXTENDS VfMailbox

CONSTANTS
  InitTimeout,   \* IXGBE_VF_INIT_TIMEOUT: iterations of the reset poll loop
  MaxOps,        \* bound on the operations that post a message
  ApiVersions    \* API versions the driver may have negotiated

ASSUME InitTimeout \in Nat /\ MaxOps \in Nat
ASSUME ApiVersions \subseteq {"api_10", "api_11", "api_12", "api_13", "api_14",
                              "api_15", "api_16", "api_17"}

VARIABLES
  pc,              \* "probe", "idle", "rst_poll", "ack" or "read"
  curOp,           \* opcode of the mailbox operation in progress or last
                   \* finished; "NONE" after a call that sends nothing
  retVal,          \* the value the operation returns
  opSeq,           \* messages posted so far; the seq of the last one
  rstPoll,         \* `timeout` of the reset poll loop
  permAddr,        \* hw->mac.perm_addr
  macAddr,         \* hw->mac.addr
  mcFilterType,    \* hw->mac.mc_filter_type
  adapterStopped,  \* hw->adapter_stopped
  macValid,        \* the last reset_hw returned 0 (the caller's view)
  rxfhWant,        \* which of indir / key the get_rxfh caller asked for
  rssReta,         \* the caller's indir buffer
  rssKey,          \* the caller's key buffer
  apiVersion       \* hw->api_version

macState  == <<permAddr, macAddr, mcFilterType, macValid, adapterStopped>>
rssState  == <<rxfhWant, rssReta, rssKey>>
envVars   == <<apiVersion>>
vfVars    == <<pc, curOp, retVal, opSeq, rstPoll>>
vfSide == <<vfVars, macState, rssState, envVars>>
vars == <<mbxVars, pfVars, vfSide>>

RetVals == {"OK", "INVALID_MAC", "TIMEOUT", "OUT_OF_MEM", "EPERM",
            "ERR_MBX", "EOPNOTSUPP"}

\* Operations whose request the PF answers only with ACK: write_posted is
\* the whole exchange (ixgbe_set_vfta_vf, ixgbe_update_mc_addr_list_vf).
\* `PostedOps` of VfMailbox are the same opcodes seen from the PF.
RssOps == {"GET_RETA", "GET_RSS_KEY"}


\* The api_version switch of get_reta_locked and get_rss_key_locked.
RssApiSupported(v) == v \in {"api_17", "api_16", "api_15", "api_13", "api_12"}

\* The mailbox, the VF control state and its bounded counters keep their
\* types across every reset, request and timeout.
TypeOK ==
  /\ MbxTypeOK
  /\ pc \in {"probe", "idle", "rst_poll", "ack", "read"}
  /\ curOp \in Ops \cup {"NONE"}
  /\ retVal \in RetVals
  /\ opSeq \in 0..MaxOps + 1
  /\ rstPoll \in 0..InitTimeout
  /\ permAddr \in Addrs /\ macAddr \in Addrs
  /\ mcFilterType \in Nat
  /\ adapterStopped \in BOOLEAN /\ macValid \in BOOLEAN
  /\ rxfhWant \subseteq {"indir", "key"}
  /\ rssReta \in Nat /\ rssKey \in Nat
  /\ apiVersion \in ApiVersions

\* The hw struct is zeroed when the adapter is allocated; probe runs
\* reset_hw first.
Init ==
  /\ MbxInit
  /\ pc = "probe" /\ curOp = "NONE" /\ retVal = "OK"
  /\ opSeq = 0 /\ rstPoll = 0
  /\ permAddr = Zero /\ macAddr = Zero /\ mcFilterType = 0
  /\ adapterStopped = FALSE /\ macValid = FALSE
  /\ rxfhWant = {} /\ rssReta = 0 /\ rssKey = 0
  /\ apiVersion \in ApiVersions

\* Posting message number opSeq + 1.
Post(op, mac, data) ==
  /\ MbxWrite(Msg(op, "NONE", opSeq + 1, mac, data))
  /\ opSeq' = opSeq + 1

\* The VF finishes the operation, returning r.
Finish(r) == pc' = "idle" /\ retVal' = r

(***************************************************************************)
(* ixgbe_stop_adapter_vf: disable the queues and interrupts; only the      *)
(* adapter_stopped flag is kept.                                           *)
(***************************************************************************)
StopAdapter ==
  /\ pc = "idle"
  /\ adapterStopped' = TRUE
  /\ retVal' = "OK"
  /\ curOp' = "NONE"
  /\ UNCHANGED <<mbxVars, pfVars, pc, opSeq, rstPoll, permAddr,
                 macAddr, mcFilterType, macValid, rssState, envVars>>

(***************************************************************************)
(* ixgbe_init_hw_vf = start_hw (clear adapter_stopped) + get_mac_addr into *)
(* hw->mac.addr.  The driver calls it only after reset_hw returned 0.      *)
(***************************************************************************)
\* Mutant of InitHw: started without looking at reset_hw's result.
InitHwNoMacCheck ==
  /\ pc = "idle"
  /\ adapterStopped' = FALSE
  /\ macAddr' = permAddr
  /\ retVal' = "OK"
  /\ curOp' = "NONE"
  /\ UNCHANGED <<mbxVars, pfVars, pc, opSeq, rstPoll, permAddr,
                 mcFilterType, macValid, rssState, envVars>>

InitHw ==
  /\ pc = "idle"
  /\ macValid
  /\ adapterStopped' = FALSE
  /\ macAddr' = permAddr
  /\ retVal' = "OK"
  /\ curOp' = "NONE"
  /\ UNCHANGED <<mbxVars, pfVars, pc, opSeq, rstPoll, permAddr,
                 mcFilterType, macValid, rssState, envVars>>

(***************************************************************************)
(* ixgbe_reset_hw_vf.                                                      *)
(***************************************************************************)

\* stop_adapter, then the function-level reset (CTRL_RST); ret_val starts
\* as IXGBE_ERR_INVALID_MAC_ADDR.
ResetHwStart ==
  /\ pc \in {"probe", "idle"}
  /\ opSeq < MaxOps
  /\ adapterStopped' = TRUE
  /\ VfFlr
  /\ rstPoll' = InitTimeout
  /\ macValid' = FALSE
  /\ curOp' = "RESET"
  /\ retVal' = "INVALID_MAC"
  /\ pc' = "rst_poll"
  /\ UNCHANGED <<mbxVars, pfMsg, pfResets, opSeq, permAddr, macAddr,
                 mcFilterType, rssState, envVars>>

\* Mutant of ResetPollWait: the loop waits for check_for_rst without
\* looking at `timeout`.
ResetPollWaitUnbounded ==
  /\ pc = "rst_poll"
  /\ ~CheckForRst
  /\ rstPoll' = rstPoll - 1
  /\ UNCHANGED <<mbxVars, pfVars, pc, curOp, retVal, opSeq, macState,
                 rssState, envVars>>

\* while (!check_for_rst(hw, 0) && timeout) timeout--;
ResetPollWait ==
  /\ pc = "rst_poll"
  /\ ~CheckForRst /\ rstPoll > 0
  /\ rstPoll' = rstPoll - 1
  /\ UNCHANGED <<mbxVars, pfVars, pc, curOp, retVal, opSeq, macState,
                 rssState, envVars>>

\* The loop left with timeout != 0: arm the mailbox timeout and post the
\* RESET request with write_posted.
ResetPollDone ==
  /\ pc = "rst_poll"
  /\ CheckForRst /\ rstPoll > 0
  /\ Post("RESET", Zero, 0)
  /\ pc' = "ack"
  /\ UNCHANGED <<pfVars, curOp, retVal, rstPoll, macState,
                 rssState, envVars>>

\* The loop left with timeout == 0 (the check_for_rst it evaluated last
\* included): reset_hw returns IXGBE_ERR_INVALID_MAC_ADDR.
ResetPollExpired ==
  /\ pc = "rst_poll"
  /\ rstPoll = 0
  /\ Finish(retVal)
  /\ UNCHANGED <<mbxVars, pfVars, curOp, opSeq, rstPoll, macState,
                 rssState, envVars>>

\* write_posted's result is not looked at: whether the ack poll saw the
\* ACK or timed out, reset_hw goes on to read_posted.
ResetAckIgnored ==
  /\ pc = "ack" /\ curOp = "RESET"
  /\ MbxAckSeen \/ MbxAckTimeout
  /\ pc' = "read"
  /\ UNCHANGED <<pfVars, curOp, retVal, opSeq, rstPoll, macState,
                 rssState, envVars>>

\* read_posted returned 0: msgbuf[0] == RESET|ACK takes perm_addr from
\* words 1-2 and mc_filter_type from word 3; anything else is
\* IXGBE_ERR_INVALID_MAC_ADDR.
\* Mutant of ResetReply: the opcode is checked, the ACK flag is not.
ResetReplyOpOnly(m) ==
  IF m.op = "RESET"
    THEN /\ permAddr' = m.mac
         /\ mcFilterType' = m.data
         /\ macValid' = TRUE
         /\ Finish("OK")
    ELSE /\ Finish("INVALID_MAC")
         /\ UNCHANGED <<permAddr, mcFilterType, macValid>>

ResetReply(m) ==
  IF m.op = "RESET" /\ m.flag = "ACK"
    THEN /\ permAddr' = m.mac
         /\ mcFilterType' = m.data
         /\ macValid' = TRUE
         /\ Finish("OK")
    ELSE /\ Finish("INVALID_MAC")
         /\ UNCHANGED <<permAddr, mcFilterType, macValid>>
(***************************************************************************)
(* The mailbox operations that go through write_posted.                    *)
(***************************************************************************)

\* Build the request and write_posted it; the thread then polls for ACK.
StartOp(op, mac, data) ==
  /\ pc = "idle"
  /\ opSeq < MaxOps
  /\ Post(op, mac, data)
  /\ curOp' = op
  /\ pc' = "ack"
  /\ UNCHANGED <<pfVars, retVal, rstPoll, macState, rssState,
                 envVars>>

\* ixgbe_set_rar_vf: SET_MAC_ADDR with the address in words 1-2.
SetRar == \E a \in Macs : StartOp("SET_MAC_ADDR", a, 0)

\* ixgbevf_set_uc_addr_vf: SET_MACVLAN, index in the info field, the
\* address (zeros when addr is NULL) in words 1-2.
SetUcAddr == \E index \in {0, 1}, a \in Addrs : StartOp("SET_MACVLAN", a, index)

\* ixgbe_set_vfta_vf: SET_VLAN with vlan_on in the info field.
SetVfta == \E on \in {0, 1} : StartOp("SET_VLAN", Zero, on)

\* ixgbe_update_mc_addr_list_vf: the count in the info field is
\* min(mc_addr_count, 30).
UpdateMcAddrList ==
  \E count \in {0, 31} : StartOp("SET_MULTICAST", Zero,
                                 IF count > 30 THEN 30 ELSE count)

\* write_posted saw the ACK.  For VLAN and multicast that is the whole
\* operation; set_rar and set_uc_addr go on to read_posted.
\* Mutant of WritePostedAck: set_vfta and the multicast update also wait
\* for a reply message, as set_rar does.
WritePostedAckThenRead ==
  /\ pc = "ack" /\ curOp # "RESET"
  /\ MbxAckSeen
  /\ pc' = "read" /\ UNCHANGED retVal
  /\ UNCHANGED <<pfVars, curOp, opSeq, rstPoll, macState,
                 rssState, envVars>>

WritePostedAck ==
  /\ pc = "ack" /\ curOp # "RESET"
  /\ MbxAckSeen
  /\ IF curOp \in PostedOps THEN Finish("OK")
                            ELSE pc' = "read" /\ UNCHANGED retVal
  /\ UNCHANGED <<pfVars, curOp, opSeq, rstPoll, macState,
                 rssState, envVars>>

\* write_posted timed out: the operation returns its error, no read.
WritePostedTimeout ==
  /\ pc = "ack" /\ curOp # "RESET"
  /\ MbxAckTimeout
  /\ Finish("TIMEOUT")
  /\ UNCHANGED <<pfVars, curOp, opSeq, rstPoll, macState,
                 rssState, envVars>>

\* ixgbe_set_rar_vf after read_posted returned 0: CTS stripped, a NACK
\* reverts hw->mac.addr to perm_addr (get_mac_addr); ret_val stays 0.
SetRarReply(m) ==
  /\ macAddr' = IF m.op = "SET_MAC_ADDR" /\ m.flag = "NACK"
                  THEN permAddr ELSE macAddr
  /\ Finish("OK")
  /\ UNCHANGED <<permAddr, mcFilterType, macValid>>

\* ixgbevf_set_uc_addr_vf after read_posted returned 0: NACK is
\* IXGBE_ERR_OUT_OF_MEM.
SetUcAddrReply(m) ==
  /\ Finish(IF m.op = "SET_MACVLAN" /\ m.flag = "NACK" THEN "OUT_OF_MEM"
                                                       ELSE "OK")
  /\ UNCHANGED <<permAddr, macAddr, mcFilterType, macValid>>

\* Mutant of ReadPosted: the buffer is copied out (and STS cleared) without
\* polling for the PF's message first.
ReadPostedNoPoll ==
  /\ pc = "read" /\ curOp \in {"RESET", "SET_MAC_ADDR", "SET_MACVLAN"}
  /\ pfSts' = FALSE /\ UNCHANGED <<mbmem, vfReq, pfAck>>
  /\ CASE curOp = "RESET"        -> ResetReply(mbmem) /\ UNCHANGED macAddr
       [] curOp = "SET_MAC_ADDR" -> SetRarReply(mbmem)
       [] curOp = "SET_MACVLAN"  -> SetUcAddrReply(mbmem)
  /\ UNCHANGED <<pfVars, curOp, opSeq, rstPoll, adapterStopped,
                 rssState, envVars>>

\* ixgbe_read_posted: once the message poll sees the PF's answer, the
\* reply handler of the current operation reads it.
ReadPosted ==
  /\ pc = "read" /\ curOp \in {"RESET", "SET_MAC_ADDR", "SET_MACVLAN"}
  /\ MbxMsgSeen
  /\ CASE curOp = "RESET"        -> ResetReply(mbmem) /\ UNCHANGED macAddr
       [] curOp = "SET_MAC_ADDR" -> SetRarReply(mbmem)
       [] curOp = "SET_MACVLAN"  -> SetUcAddrReply(mbmem)
  /\ UNCHANGED <<pfVars, curOp, opSeq, rstPoll, adapterStopped,
                 rssState, envVars>>

\* The message poll (read_posted, or poll_mbx of the RSS queries) timed
\* out: the error is returned and the buffer is not used.
ReadTimeout ==
  /\ pc = "read"
  /\ MbxMsgTimeout
  /\ Finish("TIMEOUT")
  /\ UNCHANGED <<pfVars, curOp, opSeq, rstPoll, macState,
                 rssState, envVars>>
(***************************************************************************)
(* ixgbevf_get_rxfh on an 82599-class VF: under mbx_lock, get_reta_locked  *)
(* if indir was asked for, then get_rss_key_locked if key was asked for    *)
(* and the RETA query returned 0.  Both queries write the request without  *)
(* waiting for ACK (ixgbe_write_mbx) and poll for the reply (poll_mbx).    *)
(* The caller's buffers start zeroed.                                      *)
(***************************************************************************)

\* The first query of the call: the RETA one if indir was asked for.
FirstRssOp(want) == IF "indir" \in want THEN "GET_RETA" ELSE "GET_RSS_KEY"

\* Neither buffer asked for: return 0 without taking the lock.
RxfhNothing ==
  /\ pc = "idle"
  /\ rxfhWant' = {} /\ rssReta' = 0 /\ rssKey' = 0
  /\ retVal' = "OK"
  /\ curOp' = "NONE"
  /\ UNCHANGED <<mbxVars, pfVars, pc, opSeq, rstPoll, macState,
                 envVars>>

\* The api_version switch sends the first query back with -EOPNOTSUPP
\* before any mailbox traffic.
RxfhUnsupported ==
  /\ pc = "idle"
  /\ ~RssApiSupported(apiVersion)
  /\ \E want \in SUBSET {"indir", "key"} \ {{}} :
       /\ rxfhWant' = want /\ rssReta' = 0 /\ rssKey' = 0
       /\ curOp' = FirstRssOp(want)
  /\ retVal' = "EOPNOTSUPP"
  /\ UNCHANGED <<mbxVars, pfVars, pc, opSeq, rstPoll, macState,
                 envVars>>

\* The gate passes: the first request is written.
RxfhQuery ==
  /\ pc = "idle"
  /\ opSeq < MaxOps
  /\ RssApiSupported(apiVersion)
  /\ \E want \in SUBSET {"indir", "key"} \ {{}} :
       /\ rxfhWant' = want /\ rssReta' = 0 /\ rssKey' = 0
       /\ Post(FirstRssOp(want), Zero, 0)
       /\ curOp' = FirstRssOp(want)
  /\ pc' = "read"
  /\ UNCHANGED <<pfVars, retVal, rstPoll, macState, envVars>>

\* poll_mbx returned the PF's message.  A RETA reply is decoded into indir
\* (module VfMsgCodec decodes the words), a key reply copied into key; a
\* successful RETA query is followed by the key query when key was asked
\* for.
\* What a query makes of the PF's message m once CTS is stripped:
\* opcode|FAILURE is -EPERM, anything but opcode|SUCCESS IXGBE_ERR_MBX.
RssVerdict(m) ==
  CASE m.op = curOp /\ m.flag = "NACK" -> "EPERM"
    [] m.op = curOp /\ m.flag = "ACK"  -> "OK"
    [] OTHER                           -> "ERR_MBX"

\* Mutant of RssReadPosted: the key query runs after a refused RETA query
\* (`if (key)` for `if (!err && key)`), and its result is what returns.
RssReadPostedKeyAfterError ==
  /\ pc = "read" /\ curOp \in RssOps
  /\ pfSts
  /\ LET m == mbmem
         ok == m.op = curOp /\ m.flag = "ACK"
     IN /\ rssReta' = IF ok /\ curOp = "GET_RETA" THEN m.data ELSE rssReta
        /\ rssKey' = IF ok /\ curOp = "GET_RSS_KEY" THEN m.data ELSE rssKey
        /\ IF curOp = "GET_RETA" /\ "key" \in rxfhWant
             THEN /\ Post("GET_RSS_KEY", Zero, 0)
                  /\ curOp' = "GET_RSS_KEY"
                  /\ retVal' = "OK"
                  /\ UNCHANGED pc
             ELSE /\ MbxMsgSeen
                  /\ Finish(CASE ok -> "OK"
                              [] m.op = curOp /\ m.flag = "NACK" -> "EPERM"
                              [] OTHER -> "ERR_MBX")
                  /\ UNCHANGED <<opSeq, curOp>>
        /\ UNCHANGED rxfhWant
  /\ UNCHANGED <<pfVars, rstPoll, macState, envVars>>

RssReadPosted ==
  /\ pc = "read" /\ curOp \in RssOps
  /\ pfSts
  /\ IF RssVerdict(mbmem) = "OK"
       THEN /\ rssReta' = IF curOp = "GET_RETA" THEN mbmem.data ELSE rssReta
            /\ rssKey' = IF curOp = "GET_RSS_KEY" THEN mbmem.data ELSE rssKey
            /\ IF curOp = "GET_RETA" /\ "key" \in rxfhWant
                 THEN /\ Post("GET_RSS_KEY", Zero, 0)
                      /\ curOp' = "GET_RSS_KEY"
                      /\ retVal' = "OK"
                      /\ UNCHANGED pc
                 ELSE MbxMsgSeen /\ Finish("OK") /\ UNCHANGED <<opSeq, curOp>>
            /\ UNCHANGED rxfhWant
       ELSE /\ MbxMsgSeen
            /\ Finish(RssVerdict(mbmem))
            /\ UNCHANGED <<rssState, opSeq, curOp>>
  /\ UNCHANGED <<pfVars, rstPoll, macState, envVars>>

(***************************************************************************)
(* The specification.                                                      *)
(***************************************************************************)

\* Steps of an operation already under way.
VFBusy ==
  \/ ResetPollWait \/ ResetPollDone \/ ResetPollExpired \/ ResetAckIgnored
  \/ WritePostedAck \/ WritePostedTimeout
  \/ ReadPosted \/ RssReadPosted \/ ReadTimeout

\* Operations the driver may start when the thread is free.
VFCall ==
  \/ ResetHwStart \/ StopAdapter \/ InitHw
  \/ SetRar \/ SetUcAddr \/ SetVfta \/ UpdateMcAddrList
  \/ RxfhNothing \/ RxfhUnsupported \/ RxfhQuery

\* A step of the PF leaves the VF's state alone.
PF(A) == A /\ UNCHANGED vfSide

Next == VFBusy \/ VFCall \/ PF(PFNext)

\* The VF thread runs on until its operation returns (every poll is
\* bounded or answered); the PF's mailbox interrupt handler and its reset
\* completion are serviced.
Fairness ==
  /\ WF_vars(VFBusy)
  /\ WF_vars(PF(PFReceive)) /\ WF_vars(PF(PFReply))
  /\ WF_vars(PF(PFResetDone))

Spec == Init /\ [][Next]_vars /\ Fairness
(***************************************************************************)
(* Properties.                                                             *)
(***************************************************************************)

\* The VF reads a reply and acts on it as the answer to its request: the
\* continuation of a successful RETA query, or an operation returning 0.
ReplyAccepted ==
  /\ pc = "read"
  /\ retVal' = "OK"
  /\ pc' = "idle" \/ opSeq' # opSeq

\* m is the PF's answer to the last request the VF posted.
AnswersLastRequest(m) ==
  m # NoMsg /\ m.flag # "NONE" /\ m.seq = opSeq /\ m.op = curOp

\* Every reply that reset_hw, set_rar, set_uc_addr or the RSS queries take
\* as their answer (they return 0 or go on) is the PF's answer to the
\* request the VF just posted, not its own request still in the buffer and
\* not a late answer to an earlier request (spec section 2: a reply answers
\* the request sent).
AcceptedRepliesCorrelated == [][ReplyAccepted => AnswersLastRequest(mbmem)]_vars

\* When reset_hw has returned 0, the PF has acknowledged a reset of this
\* VF since its last function-level reset, and perm_addr and
\* mc_filter_type are the ones the PF assigned: the address later
\* operations fall back to is the PF's.
ResetHandshakeAgreed ==
  macValid => /\ pfReady
              /\ permAddr = PFPerm
              /\ mcFilterType = PFMcType

\* When get_rxfh returns 0, every buffer the caller asked for holds the
\* PF's RETA / RSS key, not the zeroes it started with or a refused
\* query's payload.
RssQueryTruthful ==
  (pc = "idle" /\ curOp \in RssOps /\ retVal = "OK") =>
     /\ "indir" \in rxfhWant => rssReta = RssData
     /\ "key" \in rxfhWant => rssKey = RssData

\* Every operation the VF starts returns: no poll waits for a message the
\* PF never sends.
OpsComplete == (pc \notin {"probe", "idle"}) ~> (pc = "idle")

\* The code implements the hardware control state machine of spec 4.3
\* (module HwControl): reset_hw's poll loop is Resetting, its write_posted
\* and read_posted of RESET are AwaitingPermAddr, and macValid is the
\* caller's knowledge that the last reset_hw returned 0.  So a reset that
\* returns 0 has cached exactly the PF's MAC and filter type, init_hw runs
\* only on such a handle, a NACKed set_rar falls back to perm_addr, and
\* every reset ends.
HC == INSTANCE HwControl
        WITH phase <- CASE pc = "rst_poll" -> "Resetting"
                        [] pc \in {"ack", "read"} /\ curOp = "RESET"
                                             -> "AwaitingPermAddr"
                        [] OTHER             -> "Idle",
             stopped <- adapterStopped,
             permOk <- macValid,
             perm <- permAddr,
             mcType <- mcFilterType,
             mac <- macAddr
HwControlRefined == HC!Spec

\* A NACK to SET_MAC_ADDR makes ixgbe_set_rar_vf return an error (spec
\* section 7: a request the PF rejects is reported as Nacked, not as 0).
NackReported ==
  [][pc = "read" /\ curOp = "SET_MAC_ADDR" /\ pc' = "idle"
     /\ mbmem.op = "SET_MAC_ADDR" /\ mbmem.flag = "NACK" /\ retVal' # "TIMEOUT"
     => retVal' # "OK"]_vars

\* reset_hw leaves its check_for_rst loop without posting RESET.
ResetGivesUp == pc = "rst_poll" /\ pc' = "idle"

\* A reset whose indication is still asserted when the bounded poll runs
\* out returns a reset-timeout error, not the error of a refused or
\* garbled reply (spec sections 4.3, 7 and 8: ResetTimeout is its own
\* error kind, "must return a reset-timeout error").
ResetTimeoutReported ==
  [][ResetGivesUp /\ rst => retVal' = "RESET_TIMEOUT"]_vars

\* reset_hw gives up on the reset only while the indication is still
\* asserted: the loop "polls check_for_rst until cleared or a bounded
\* retry count exhausts" (spec 4.3), so a poll that finds it cleared ends
\* the wait with success, the last one included.
ResetGivesUpOnlyWhileResetting == [][ResetGivesUp => rst]_vars
=============================================================================
