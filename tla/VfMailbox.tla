----------------------------- MODULE VfMailbox -----------------------------
(***************************************************************************)
(* The PF/VF mailbox of the ixgbevf driver and the PF at its far end.      *)
(*                                                                         *)
(* Neither the mailbox transport (ixgbe_mbx.c) nor the PF driver is part   *)
(* of this repository: this module is modelled from the protocol contract  *)
(* (spec.md sections 3, 4.1, 4.2 and 6).  The mailbox is ONE shared        *)
(* message buffer, `mbmem`, and three status bits:                         *)
(*    vfReq  the VF has posted a message the PF has not taken yet (REQ)    *)
(*    pfAck  the PF has taken the VF's message (ACK)                       *)
(*    pfSts  the PF has posted a message the VF has not read yet (STS)     *)
(* plus the reset indication `rst` (RSTI/RSTD) that check_for_rst polls.   *)
(*                                                                         *)
(* A message is abstracted to its word 0 (opcode and ACK/NACK flag), the   *)
(* MAC it carries, one payload number, and a ghost `seq`: the number of    *)
(* the VF operation the message belongs to.  The code never sees `seq`;   *)
(* properties use it to tell which request a reply answers.                *)
(***************************************************************************)
EXTENDS Naturals

CONSTANTS
  Macs,         \* MAC addresses the PF may assign or the VF may ask for
  Zero,         \* the all-zero address (nothing assigned)
  NoMsg,        \* "no message"
  PFPerm,       \* the permanent address the PF assigns to this VF
  PFMcType,     \* the multicast filter type the PF reports in a reset reply
  RssData,      \* the PF's RETA / RSS key contents, as one payload value
  Timeouts,     \* can a VF poll give up before the PF has answered?
  MaxPFResets   \* bound on resets the PF starts on its own

ASSUME PFPerm \in Macs /\ Zero \notin Macs
ASSUME PFMcType \in Nat /\ RssData \in Nat \ {0}
ASSUME Timeouts \in BOOLEAN /\ MaxPFResets \in Nat

\* Opcodes of word 0 (IXGBE_VF_RESET, IXGBE_VF_SET_MAC_ADDR, ...).
Ops == {"RESET", "SET_MAC_ADDR", "SET_MULTICAST", "SET_VLAN",
        "SET_MACVLAN", "GET_RETA", "GET_RSS_KEY"}

\* Flag bits of word 0: a request carries none; the PF answers with ACK
\* (alias SUCCESS) or NACK (alias FAILURE).  CTS is not modelled: every
\* reader but reset strips it, and the PF sends none on a reset reply.
Flags == {"NONE", "ACK", "NACK"}

Addrs == Macs \cup {Zero}

Msg(op, flag, seq, mac, data) ==
  [op |-> op, flag |-> flag, seq |-> seq, mac |-> mac, data |-> data]

Msgs == [op : Ops, flag : Flags, seq : Nat, mac : Addrs, data : Nat]

\* Requests the PF takes without writing an answer back ("no explicit ack
\* payload beyond transport success", spec 4.2).
PostedOps == {"SET_MULTICAST", "SET_VLAN"}

VARIABLES
  mbmem, vfReq, pfAck, pfSts,   \* the shared buffer and its status bits
  rst,                          \* reset indication (RSTI / RSTD)
  pfMsg,                        \* the request the PF is working on
  pfMac,                        \* the address the PF filters for the VF
  pfReady,                      \* the PF has answered a reset since the VF's last FLR
  pfResets                      \* PF-initiated resets so far

mbxVars == <<mbmem, vfReq, pfAck, pfSts>>
pfVars  == <<rst, pfMsg, pfMac, pfReady, pfResets>>

MbxTypeOK ==
  /\ mbmem \in Msgs \cup {NoMsg}
  /\ vfReq \in BOOLEAN /\ pfAck \in BOOLEAN /\ pfSts \in BOOLEAN
  /\ rst \in BOOLEAN
  /\ pfMsg \in Msgs \cup {NoMsg}
  /\ pfMac \in Addrs
  /\ pfReady \in BOOLEAN
  /\ pfResets \in 0..MaxPFResets

MbxInit ==
  /\ mbmem = NoMsg
  /\ vfReq = FALSE /\ pfAck = FALSE /\ pfSts = FALSE
  /\ rst = FALSE
  /\ pfMsg = NoMsg
  /\ pfMac = Zero
  /\ pfReady = FALSE
  /\ pfResets = 0

(***************************************************************************)
(* VF side of the transport: conjuncts the VF's actions are built from.    *)
(***************************************************************************)

\* write (ixgbe_write_mbx): the buffer is about to be overwritten, so the
\* VF drops any unread status, copies the message in and raises REQ.
MbxWrite(m) ==
  /\ mbmem' = m
  /\ vfReq' = TRUE
  /\ pfAck' = FALSE
  /\ pfSts' = FALSE

\* The ack poll of write_posted sees ACK (read-to-clear) ...
MbxAckSeen == pfAck /\ pfAck' = FALSE /\ UNCHANGED <<mbmem, vfReq, pfSts>>

\* ... or counts down to zero without seeing it.
MbxAckTimeout == Timeouts /\ ~pfAck /\ UNCHANGED mbxVars

\* read_posted sees STS and copies the buffer out; STS is cleared ...
MbxMsgSeen == pfSts /\ pfSts' = FALSE /\ UNCHANGED <<mbmem, vfReq, pfAck>>

\* ... or its poll times out: the caller must not use the buffer.
MbxMsgTimeout == Timeouts /\ ~pfSts /\ UNCHANGED mbxVars

\* check_for_rst: true once the reset indication has cleared.
CheckForRst == ~rst

\* The VF's function-level reset: hardware raises the reset indication and
\* the PF forgets what it knew about the VF until the VF's next reset message.
VfFlr ==
  /\ rst' = TRUE
  /\ pfReady' = FALSE
  /\ pfMac' = Zero

(***************************************************************************)
(* The PF.                                                                 *)
(***************************************************************************)

\* The PF takes the posted message and acknowledges it.  A buffer that holds
\* an answer (it carries ACK or NACK) is not a request and is dropped.
PFReceive ==
  /\ vfReq
  /\ pfMsg = NoMsg
  /\ vfReq' = FALSE
  /\ pfAck' = TRUE
  /\ pfMsg' = IF mbmem.flag = "NONE" THEN mbmem ELSE NoMsg
  /\ UNCHANGED <<mbmem, pfSts, rst, pfMac, pfReady, pfResets>>

\* The PF's answer to request m when it decides `flag`.
Answer(m, flag) ==
  CASE m.op = "RESET" /\ flag = "ACK"  -> Msg("RESET", "ACK", m.seq, PFPerm, PFMcType)
    [] m.op = "RESET"                  -> Msg("RESET", "NACK", m.seq, Zero, 0)
    [] m.op \in {"GET_RETA", "GET_RSS_KEY"} /\ flag = "ACK"
                                       -> Msg(m.op, "ACK", m.seq, Zero, RssData)
    [] OTHER                           -> Msg(m.op, flag, m.seq, Zero, 0)

\* The PF decides on its request.  A VF it has not answered a reset since the
\* VF's last FLR gets NACK for anything but a reset.  Writing the answer
\* takes the buffer: the PF flushes a pending REQ, whose message is lost.
PFReply ==
  /\ pfMsg # NoMsg
  /\ \E flag \in {"ACK", "NACK"} :
       /\ flag = "ACK" => (pfReady \/ pfMsg.op = "RESET")
       /\ pfMac' = CASE pfMsg.op = "RESET" /\ flag = "ACK" -> PFPerm
                     [] pfMsg.op = "RESET"                 -> Zero
                     [] pfMsg.op = "SET_MAC_ADDR" /\ flag = "ACK" -> pfMsg.mac
                     [] OTHER                              -> pfMac
       /\ pfReady' = IF pfMsg.op = "RESET" THEN flag = "ACK" ELSE pfReady
       /\ IF pfMsg.op \in PostedOps
            THEN UNCHANGED mbxVars
            ELSE /\ mbmem' = Answer(pfMsg, flag)
                 /\ pfSts' = TRUE
                 /\ vfReq' = FALSE
                 /\ UNCHANGED pfAck
  /\ pfMsg' = NoMsg
  /\ UNCHANGED <<rst, pfResets>>

\* The PF resets itself and raises the reset indication (bounded).
PFReset ==
  /\ ~rst
  /\ pfResets < MaxPFResets
  /\ rst' = TRUE
  /\ pfResets' = pfResets + 1
  /\ UNCHANGED <<mbmem, vfReq, pfAck, pfSts, pfMsg, pfMac, pfReady>>

\* The reset completes and the indication clears.
PFResetDone ==
  /\ rst
  /\ rst' = FALSE
  /\ UNCHANGED <<mbmem, vfReq, pfAck, pfSts, pfMsg, pfMac, pfReady, pfResets>>

PFNext == PFReceive \/ PFReply \/ PFReset \/ PFResetDone
=============================================================================
