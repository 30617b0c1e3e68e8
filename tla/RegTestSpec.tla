----------------------------- MODULE RegTestSpec -----------------------------
(***************************************************************************)
(* What the ethtool register self test promises its caller, as one atomic  *)
(* step: on a present device it reports "pass" exactly when every tested   *)
(* register is healthy, and otherwise "fail" with the first unhealthy      *)
(* register in table order; either way the tested registers are left as   *)
(* they were.  Once the device is gone its registers mean nothing and any  *)
(* verdict is allowed.                                                      *)
(***************************************************************************)
EXTENDS Naturals, Sequences

CONSTANTS
  Order,     \* the tested registers, in the order the test visits them
  NoRegs     \* what the register file is once the device is gone

VARIABLES
  regs,      \* the tested registers' contents
  ok,        \* ok[r]: register r is healthy
  result,    \* "none" until the test returns, then "pass" or "fail"
  data,      \* what the test reports: 0, 1 (device removed) or a register
  gone       \* the device has been removed

avars == <<regs, ok, result, data, gone>>

Ids == {Order[k] : k \in 1..Len(Order)}

\* The first unhealthy register in table order.
FirstBad == Order[CHOOSE k \in 1..Len(Order) :
                    ~ok[Order[k]] /\ \A j \in 1..(k - 1) : ok[Order[j]]]

Init == result = "none" /\ data = 0

Test ==
  /\ result = "none"
  /\ IF gone
       THEN result' \in {"pass", "fail"} /\ data' \in {0, 1} \cup Ids
       ELSE IF \A r \in Ids : ok[r]
              THEN result' = "pass" /\ data' = 0
              ELSE result' = "fail" /\ data' = FirstBad
  /\ UNCHANGED <<regs, ok, gone>>

Remove ==
  /\ ~gone /\ gone' = TRUE /\ regs' = NoRegs
  /\ UNCHANGED <<ok, result, data>>

Spec == Init /\ [][Test \/ Remove]_avars
====
