------------------------------ MODULE HwControl ------------------------------
(***************************************************************************)
(* The hardware control state machine as spec.md section 4.3 describes it *)
(* to a caller: Stop, then Reset through Resetting and AwaitingPermAddr;  *)
(* a correctly acknowledged reset caches the PF's permanent MAC and filter *)
(* type, any other outcome leaves the MAC invalid.  Start clears the       *)
(* stopped flag, Init = Start + take the permanent MAC.  A rejected MAC    *)
(* change falls back to the permanent MAC (spec 4.2).  Every reset ends,   *)
(* one way or the other (bounded polling, spec 4.1).                       *)
(***************************************************************************)
CONSTANTS
  PFPerm,      \* the permanent MAC the PF assigns
  PFMcType     \* the multicast filter type the PF reports

VARIABLES
  phase,       \* "Idle", "Resetting" or "AwaitingPermAddr"
  stopped,     \* the adapter-stopped flag
  permOk,      \* the last reset was acknowledged: perm can be trusted
  perm,        \* the cached permanent MAC
  mcType,      \* the cached multicast filter type
  mac          \* the operational MAC

hcVars == <<phase, stopped, permOk, perm, mcType, mac>>

Init ==
  /\ phase = "Idle" /\ stopped = FALSE /\ permOk = FALSE
  /\ perm = mac /\ mcType = 0

Stop ==
  /\ phase = "Idle" /\ stopped' = TRUE
  /\ UNCHANGED <<phase, permOk, perm, mcType, mac>>

\* Reset stops the adapter first and distrusts the cached MAC until the PF
\* answers.
ResetBegin ==
  /\ phase = "Idle"
  /\ phase' = "Resetting" /\ stopped' = TRUE /\ permOk' = FALSE
  /\ UNCHANGED <<perm, mcType, mac>>

ResetTimedOut ==
  /\ phase = "Resetting" /\ phase' = "Idle"
  /\ UNCHANGED <<stopped, permOk, perm, mcType, mac>>

ResetPosted ==
  /\ phase = "Resetting" /\ phase' = "AwaitingPermAddr"
  /\ UNCHANGED <<stopped, permOk, perm, mcType, mac>>

ResetAcked ==
  /\ phase = "AwaitingPermAddr" /\ phase' = "Idle"
  /\ permOk' = TRUE /\ perm' = PFPerm /\ mcType' = PFMcType
  /\ UNCHANGED <<stopped, mac>>

ResetFailed ==
  /\ phase = "AwaitingPermAddr" /\ phase' = "Idle"
  /\ UNCHANGED <<stopped, permOk, perm, mcType, mac>>

\* Init = Start + fetch the MAC, for a handle whose reset succeeded.
InitHw ==
  /\ phase = "Idle" /\ permOk
  /\ stopped' = FALSE /\ mac' = perm
  /\ UNCHANGED <<phase, permOk, perm, mcType>>

MacRejected ==
  /\ phase = "Idle" /\ mac' = perm
  /\ UNCHANGED <<phase, stopped, permOk, perm, mcType>>

ResetEnds == ResetTimedOut \/ ResetPosted \/ ResetAcked \/ ResetFailed

Next ==
  \/ Stop \/ ResetBegin \/ ResetEnds \/ InitHw \/ MacRejected

Spec == Init /\ [][Next]_hcVars /\ WF_hcVars(ResetEnds)
====
