-------------------------------- MODULE VfParam --------------------------------
(***************************************************************************)
(* ixgbevf_check_options and ixgbevf_validate_option                       *)
(* (src/ixgbevf_param.c): the module parameters InterruptThrottleRate and  *)
(* RxBufferMode, per-board int arrays of IXGBE_MAX_NIC + 1 entries that    *)
(* start at OPTION_UNSET (-1), turned into adapter settings at probe.      *)
(* Each behaviour is one probe of board `bd` with the arrays the user     *)
(* gave; the properties compare the result with what the parameter        *)
(* descriptions (MODULE_PARM_DESC) and the board warning promise.          *)
(***************************************************************************)
EXTENDS Naturals, Integers

CONSTANTS
  MaxNic,          \* IXGBE_MAX_NIC
  MinItr, MaxItr,  \* IXGBE_MIN_INT_RATE, IXGBE_MAX_INT_RATE
  Values,          \* int values tried for a parameter entry
  Boards           \* bd_number values tried

OPTION_UNSET == -1
OPTION_DISABLED == 0
OPTION_ENABLED == 1
DEFAULT_ITR == 8000
RXBUFMODE_1BUF_ALWAYS == 0
RXBUFMODE_PS_ALWAYS == 1
RXBUFMODE_OPTIMAL == 2

\* The struct ixgbevf_option of each parameter.
ItrOpt == [type |-> "range", def |-> DEFAULT_ITR, min |-> MinItr, max |-> MaxItr]
RxBufOpt == [type |-> "range", def |-> RXBUFMODE_1BUF_ALWAYS,
             min |-> RXBUFMODE_1BUF_ALWAYS, max |-> RXBUFMODE_OPTIMAL]

\* `*value` is unsigned int: an int entry below 0 compares as a value of
\* 2^31 or more, above every min and max of these options.
U32Between(v, lo, hi) == v >= 0 /\ lo <= v /\ v <= hi

\* Mutant of ValidateOption: an invalid value is reported but not replaced
\* by the default.
ValidateOptionKeepsValue(v, opt) ==
  CASE v = OPTION_UNSET -> <<opt.def, 0>>
    [] opt.type = "enable" /\ v \in {OPTION_ENABLED, OPTION_DISABLED} -> <<v, 0>>
    [] opt.type = "range" /\ U32Between(v, opt.min, opt.max) -> <<v, 0>>
    [] opt.type = "list" /\ v \in opt.list -> <<v, 0>>
    [] OTHER -> <<v, -1>>

\* ixgbevf_validate_option: <<*value after the call, return value>>.
ValidateOption(v, opt) ==
  CASE v = OPTION_UNSET -> <<opt.def, 0>>
    [] opt.type = "enable" /\ v \in {OPTION_ENABLED, OPTION_DISABLED} -> <<v, 0>>
    [] opt.type = "range" /\ U32Between(v, opt.min, opt.max) -> <<v, 0>>
    [] opt.type = "list" /\ v \in opt.list -> <<v, 0>>
    [] OTHER -> <<opt.def, -1>>

\* The entry of board bd the driver uses, or UNSET-as-absent when the
\* array has no entry for it (num_X > bd fails).
Given(num, bd) == num > bd

\* Mutant of CheckItr: the control bit is not masked off a validated rate.
CheckItrNoMask(num, arr, bd) ==
  IF ~Given(num, bd) THEN <<DEFAULT_ITR, DEFAULT_ITR>>
  ELSE CASE arr[bd] = 0 -> <<MaxItr, 0>>
         [] arr[bd] = 1 -> <<20000, 1>>
         [] OTHER -> LET e == ValidateOption(arr[bd], ItrOpt)[1] IN <<e, e>>

\* The Interrupt Throttling Rate block: <<eitr_param, itr_setting>>.
CheckItr(num, arr, bd) ==
  IF ~Given(num, bd) THEN <<DEFAULT_ITR, DEFAULT_ITR>>
  ELSE CASE arr[bd] = 0 -> <<MaxItr, 0>>
         [] arr[bd] = 1 -> <<20000, 1>>
         [] OTHER -> LET e == ValidateOption(arr[bd], ItrOpt)[1]
                     IN <<e, e - (e % 2)>>

\* The Rx buffer mode block: the capability flags it sets.
CheckRxBufMode(num, arr, bd) ==
  IF ~Given(num, bd) THEN {"RX_1BUF_CAPABLE", "RX_PS_CAPABLE"}
  ELSE CASE ValidateOption(arr[bd], RxBufOpt)[1] = RXBUFMODE_OPTIMAL ->
              {"RX_1BUF_CAPABLE", "RX_PS_CAPABLE"}
         [] ValidateOption(arr[bd], RxBufOpt)[1] = RXBUFMODE_PS_ALWAYS ->
              {"RX_PS_CAPABLE"}
         [] ValidateOption(arr[bd], RxBufOpt)[1] = RXBUFMODE_1BUF_ALWAYS ->
              {"RX_1BUF_CAPABLE"}
         [] OTHER -> {}

Slots == 0..MaxNic

\* Entries around the ITR range and its special values, and two negative
\* ints (UNSET and another).
TriedValues == {-7, -1, 0, 1, 2, 955, 956, 957, 488281, 488282}

\* What module_param_array can leave in an array: the first num entries
\* given, the rest still OPTION_UNSET.  Only the entry of the probed board
\* is read, so the given entries are taken all equal.
Arrays == {<<[i \in Slots |-> IF i < num THEN v ELSE OPTION_UNSET], num>> :
             num \in 0..(MaxNic + 1), v \in Values}

VARIABLES
  bd,       \* adapter->bd_number
  itrArg,   \* <<InterruptThrottleRate[], num_InterruptThrottleRate>>
  rbmArg,   \* <<RxBufferMode[], num_RxBufferMode>>
  eitr,     \* adapter->eitr_param
  itr,      \* adapter->itr_setting
  flags,    \* the Rx capability flags set in adapter->flags
  done

vars == <<bd, itrArg, rbmArg, eitr, itr, flags, done>>

\* A probe with either array given and the other left alone keeps the
\* state space small without losing a case: the blocks are independent.
Init ==
  /\ bd \in Boards
  /\ \/ itrArg \in Arrays /\ rbmArg = <<[i \in Slots |-> OPTION_UNSET], 0>>
     \/ rbmArg \in Arrays /\ itrArg = <<[i \in Slots |-> OPTION_UNSET], 0>>
  /\ eitr = 0 /\ itr = 0 /\ flags = {} /\ done = FALSE

\* ixgbevf_check_options.  With module_param_array, bd is not clamped to
\* IXGBE_MAX_NIC: the board warning is printed and the arrays are read.
CheckOptions ==
  /\ ~done
  /\ LET i == CheckItr(itrArg[2], itrArg[1], bd)
     IN eitr' = i[1] /\ itr' = i[2]
  /\ flags' = CheckRxBufMode(rbmArg[2], rbmArg[1], bd)
  /\ done' = TRUE
  /\ UNCHANGED <<bd, itrArg, rbmArg>>

Spec == Init /\ [][CheckOptions]_vars
-----------------------------------------------------------------------------
(* Properties. *)

\* The entry the user gave this board, OPTION_UNSET if none.
UserValue(arg) == IF Given(arg[2], bd) THEN arg[1][bd] ELSE OPTION_UNSET

\* After check_options the adapter's rate lies in the option's range and its
\* itr_setting below the maximum rate: validate_option never lets an
\* invalid entry through.
ParamTypeOK ==
  /\ bd \in Boards /\ done \in BOOLEAN
  /\ done => /\ eitr \in MinItr..MaxItr
             /\ itr \in 0..MaxItr
             /\ flags \subseteq {"RX_1BUF_CAPABLE", "RX_PS_CAPABLE"}

\* InterruptThrottleRate as its description and comments give it: 0 turns
\* throttling off (the highest rate), 1 selects dynamic throttling and is
\* the only setting with itr_setting's control bit (bit 0) set, a rate in
\* (MinItr-MaxItr) is used as given, and anything else gives 8000.
ItrAsDescribed ==
  done =>
    LET u == UserValue(itrArg)
    IN /\ (itr % 2 = 1) <=> (u = 1)
       /\ u = 0 => eitr = MaxItr /\ itr = 0
       /\ u \in MinItr..MaxItr => eitr = u
       /\ u \notin {0, 1} \cup MinItr..MaxItr => eitr = DEFAULT_ITR

\* A board with no RxBufferMode entry gets the described default, mode 0
\* (one buffer per packet, no packet split).
RxBufModeDefault ==
  done /\ UserValue(rbmArg) = OPTION_UNSET => flags = {"RX_1BUF_CAPABLE"}

====
