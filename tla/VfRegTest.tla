------------------------------ MODULE VfRegTest ------------------------------
(***************************************************************************)
(* The offline ethtool self test (ixgbevf_diag_test) and its register test *)
(* (ixgbevf_reg_test, reg_pattern_test) over the register access layer of  *)
(* ixgbevf_osdep2.h, which drops writes once the device is removed.        *)
(*                                                                         *)
(* A u32 register value is a pair <<high u16, low u16>>, so that the       *)
(* masks are exact and stay inside TLC's integers.  The hardware stores   *)
(* only the bits it implements (impl); a faulty register implements fewer *)
(* or more bits than the test table expects.  The device may be removed   *)
(* at any moment: reads then return all-ones and writes are lost.          *)
(***************************************************************************)
EXTENDS Naturals, Sequences, Bitwise

CONSTANTS
  Faults,    \* register faults that may be present: [reg |-> offset, impl |-> bits]
  Befores,   \* possible contents of the tested registers before the test
  Running,   \* possible values of netif_running() when the test starts
  MaxRxQueues \* hw->mac.max_rx_queues when the test runs

VARIABLES
  impl,      \* impl[r]: the bits register r really implements
  hwRegs,    \* the device's register file
  gone,      \* the device has been removed from the bus
  hwNull,    \* hw->hw_addr cleared: IXGBE_REMOVED() is true
  ifRunning, \* if_running, sampled by ixgbevf_diag_test
  pc,        \* where ixgbevf_diag_test is
  ent, idx,  \* reg_test_vf entry and array index under test
  pat,       \* index into reg_pattern_test's _test[]
  before,    \* reg_pattern_test's saved register value
  data,      \* data[0] of the self test
  rc,        \* the register test's return code
  sawOnes    \* ghost: the test read all-ones from a removed device

vars == <<impl, hwRegs, gone, hwNull, ifRunning, pc, ent, idx, pat, before,
          data, rc, sawOnes>>

W(hi, lo) == <<hi, lo>>
\* u32 bitwise AND, half by half.
AndW(a, b) == <<a[1] & b[1], a[2] & b[2]>>
Zero == W(0, 0)
Ones == W(\hFFFF, \hFFFF)
RXDCTL_ENABLE == W(\h0200, 0)
NotRxEnable == W(\hFDFF, \hFFFF)
RXDCTL(i) == \h1028 + i * \h40

\* reg_test_vf[]: the terminating { 0 } entry ends the while (test->reg) loop.
RegTestVf == <<
  [reg |-> \h1000, len |-> 2, type |-> "PATTERN", m |-> W(\hFFFF, \hFF80), w |-> W(\hFFFF, \hFF80)],
  [reg |-> \h1004, len |-> 2, type |-> "PATTERN", m |-> Ones,              w |-> Ones],
  [reg |-> \h1008, len |-> 2, type |-> "PATTERN", m |-> W(\h000F, \hFF80), w |-> W(\h000F, \hFFFF)],
  [reg |-> \h1028, len |-> 2, type |-> "WRITE_NO_TEST", m |-> Zero,        w |-> RXDCTL_ENABLE],
  [reg |-> \h1018, len |-> 2, type |-> "PATTERN", m |-> W(0, \hFFFF),      w |-> W(0, \hFFFF)],
  [reg |-> \h1028, len |-> 2, type |-> "WRITE_NO_TEST", m |-> Zero,        w |-> Zero],
  [reg |-> \h2000, len |-> 2, type |-> "PATTERN", m |-> W(\hFFFF, \hFF80), w |-> Ones],
  [reg |-> \h2004, len |-> 2, type |-> "PATTERN", m |-> Ones,              w |-> Ones],
  [reg |-> \h2008, len |-> 2, type |-> "PATTERN", m |-> W(\h000F, \hFF80), w |-> W(\h000F, \hFF80)] >>

\* _test[] of reg_pattern_test.
Patterns == << W(\h5A5A, \h5A5A), W(\hA5A5, \hA5A5), Zero, Ones >>

Addr(e, i) == RegTestVf[e].reg + i * \h40
Entry == RegTestVf[ent]
Reg == Addr(ent, idx)

\* The pattern-tested registers, in the order the loop visits them (every
\* entry of the table is an array of two).
PatternEntries == SelectSeq([k \in 1..Len(RegTestVf) |-> k],
                            LAMBDA k : RegTestVf[k].type = "PATTERN")
TestOrder == [k \in 1..(2 * Len(PatternEntries)) |->
                Addr(PatternEntries[(k - 1) \div 2 + 1], (k - 1) % 2)]
Tested == {TestOrder[k] : k \in DOMAIN TestOrder}
Rxdctl == {RXDCTL(0), RXDCTL(1)}
AllRegs == Tested \cup Rxdctl

\* The register's mask and write value from its table entry.
TestOf(r) == CHOOSE e \in DOMAIN RegTestVf :
               RegTestVf[e].type = "PATTERN" /\ r \in {Addr(e, 0), Addr(e, 1)}

\* A register passes the pattern test iff it stores every written bit the
\* mask expects back, and no other written bit.
Healthy(r) == AndW(RegTestVf[TestOf(r)].w, impl[r])
                = AndW(RegTestVf[TestOf(r)].w, RegTestVf[TestOf(r)].m)

-----------------------------------------------------------------------------
(* Register access.                                                        *)

\* IXGBE_READ_REG: readl() of a removed device returns all-ones.
ReadVal(r) == IF gone THEN Ones ELSE hwRegs[r]

\* An all-ones read makes the driver probe VFSTATUS and, finding the device
\* gone, clear hw->hw_addr for good.
CheckRemove == hwNull' = (hwNull \/ gone)

\* IXGBE_WRITE_REG of ixgbevf_osdep2.h: nothing is written once hw_addr is
\* cleared, and a write to a removed device is lost.
WriteReg(r, v) ==
  hwRegs' = IF hwNull \/ gone THEN hwRegs
            ELSE [hwRegs EXCEPT ![r] = AndW(v, impl[r])]

\* The receive half of ixgbe_stop_adapter_vf on a register file: read
\* RXDCTL(i) for every i < max_rx_queues, clear ENABLE, write it back.
StopRxRegs(regs) ==
  [r \in AllRegs |->
     IF r \in {RXDCTL(i) : i \in 0..(MaxRxQueues - 1)}
       THEN AndW(regs[r], NotRxEnable) ELSE regs[r]]

\* The function-level reset that reset_hw issues next (VFCTRL.RST): the
\* hardware returns every queue of the VF to disabled.  Its effect on the
\* other registers is not modelled.
FlrRegs(regs) ==
  [r \in AllRegs |-> IF r \in Rxdctl THEN AndW(regs[r], NotRxEnable)
                                     ELSE regs[r]]

\* ixgbevf_reset -> ixgbe_reset_hw_vf: stop_adapter, then the FLR; their
\* writes are dropped on a removed device, and the flushes read VFSTATUS.
ResetHw ==
  /\ hwRegs' = IF hwNull \/ gone THEN hwRegs ELSE FlrRegs(StopRxRegs(hwRegs))
  /\ CheckRemove

\* ixgbevf_close -> ixgbevf_down disables every Rx queue.
CloseRx ==
  /\ hwRegs' = IF hwNull \/ gone THEN hwRegs
               ELSE [r \in AllRegs |-> IF r \in Rxdctl
                                       THEN AndW(hwRegs[r], NotRxEnable)
                                       ELSE hwRegs[r]]
  /\ CheckRemove

\* ixgbevf_open brings the receive queues back up.
OpenRegs(regs) ==
  [r \in AllRegs |-> IF r \in Rxdctl THEN RXDCTL_ENABLE ELSE regs[r]]

-----------------------------------------------------------------------------
(* The hardware and the test's initial state.                              *)

\* Any set of the faults may be present at once (none, one, several).
Init ==
  /\ \E F \in SUBSET Faults :
        impl = [r \in AllRegs |->
                  IF \E f \in F : f.reg = r THEN (CHOOSE f \in F : f.reg = r).impl
                  ELSE IF r \in Rxdctl THEN Ones
                  ELSE RegTestVf[TestOf(r)].m]
  /\ ifRunning \in Running
  /\ \E b \in Befores :
        hwRegs = [r \in AllRegs |->
                    IF r \in Rxdctl
                    THEN (IF ifRunning THEN RXDCTL_ENABLE ELSE Zero)
                    ELSE AndW(b, impl[r])]
  /\ gone \in BOOLEAN
  /\ hwNull \in IF gone THEN BOOLEAN ELSE {FALSE}
  /\ pc = "start" /\ ent = 1 /\ idx = 0 /\ pat = 1 /\ before = Zero
  /\ data = 0 /\ rc = 0 /\ sawOnes = FALSE

-----------------------------------------------------------------------------
(* ixgbevf_diag_test, offline.                                             *)

\* Blocked when hw_addr is already cleared; otherwise the link test, then
\* ixgbevf_close (interface up) or ixgbevf_reset (down), both of which stop
\* the receive queues.
DiagStart ==
  /\ pc = "start"
  /\ IF hwNull
       THEN pc' = "done" /\ data' = 1 /\ rc' = 1 /\ UNCHANGED <<hwRegs, hwNull>>
       ELSE /\ pc' = "regtest"
            /\ IF ifRunning THEN CloseRx ELSE ResetHw
            /\ UNCHANGED <<data, rc>>
  /\ UNCHANGED <<impl, gone, ifRunning, ent, idx, pat, before, sawOnes>>

\* ixgbevf_reg_test's entry check.
RegTestStart ==
  /\ pc = "regtest"
  /\ IF hwNull
       THEN pc' = "reset" /\ data' = 1 /\ rc' = 1
       ELSE pc' = "entry" /\ UNCHANGED <<data, rc>>
  /\ UNCHANGED <<impl, hwRegs, gone, hwNull, ifRunning, ent, idx, pat, before,
                 sawOnes>>

\* Mutant: the array loop runs one element past array_len.
AdvanceOffByOne ==
  IF idx + 1 <= Entry.len
    THEN idx' = idx + 1 /\ ent' = ent /\ pc' = "entry" /\ UNCHANGED <<data, rc>>
  ELSE IF ent = Len(RegTestVf)
    THEN pc' = "reset" /\ data' = 0 /\ rc' = 0 /\ UNCHANGED <<ent, idx>>
  ELSE ent' = ent + 1 /\ idx' = 0 /\ pc' = "entry" /\ UNCHANGED <<data, rc>>

\* Mutant: test++ is dropped, so the loop walks the same entry again.
AdvanceNoTestInc ==
  IF idx + 1 < Entry.len
    THEN idx' = idx + 1 /\ ent' = ent /\ pc' = "entry" /\ UNCHANGED <<data, rc>>
  ELSE IF ent = Len(RegTestVf)
    THEN pc' = "reset" /\ data' = 0 /\ rc' = 0 /\ UNCHANGED <<ent, idx>>
  ELSE ent' = ent /\ idx' = 0 /\ pc' = "entry" /\ UNCHANGED <<data, rc>>

\* Move to the next array element, the next table entry, or the { 0 } end.
Advance ==
  IF idx + 1 < Entry.len
    THEN idx' = idx + 1 /\ ent' = ent /\ pc' = "entry" /\ UNCHANGED <<data, rc>>
  ELSE IF ent = Len(RegTestVf)
    THEN pc' = "reset" /\ data' = 0 /\ rc' = 0 /\ UNCHANGED <<ent, idx>>
  ELSE ent' = ent + 1 /\ idx' = 0 /\ pc' = "entry" /\ UNCHANGED <<data, rc>>

\* case WRITE_NO_TEST: a set-up write, not read back.
EntryWrite ==
  /\ pc = "entry" /\ Entry.type = "WRITE_NO_TEST"
  /\ WriteReg(Reg, Entry.w)
  /\ Advance
  /\ UNCHANGED <<impl, gone, hwNull, ifRunning, pat, before, sawOnes>>

\* case PATTERN_TEST: reg_pattern_test's entry check.
PatStart ==
  /\ pc = "entry" /\ Entry.type = "PATTERN"
  /\ IF hwNull
       THEN pc' = "reset" /\ data' = 1 /\ rc' = 1
       ELSE pc' = "pat_write" /\ UNCHANGED <<data, rc>>
  /\ pat' = 1
  /\ UNCHANGED <<impl, hwRegs, gone, hwNull, ifRunning, ent, idx, before,
                 sawOnes>>

\* before = read; write _test[pat] & w.
PatWrite ==
  /\ pc = "pat_write"
  /\ before' = ReadVal(Reg)
  /\ CheckRemove
  /\ WriteReg(Reg, AndW(Patterns[pat], Entry.w))
  /\ sawOnes' = (sawOnes \/ gone)
  /\ pc' = "pat_check"
  /\ UNCHANGED <<impl, gone, ifRunning, ent, idx, pat, data, rc>>

\* Mutant: the loop drops "if (rc) return rc" and goes on after a mismatch.
PatCheckNoEarlyReturn ==
  /\ pc = "pat_check"
  /\ IF pat < Len(Patterns)
       THEN pat' = pat + 1 /\ pc' = "pat_write" /\ UNCHANGED <<ent, idx, data, rc>>
       ELSE Advance /\ UNCHANGED pat
  /\ CheckRemove
  /\ WriteReg(Reg, before)
  /\ sawOnes' = (sawOnes \/ gone)
  /\ UNCHANGED <<impl, gone, ifRunning, before>>

\* Mutant: the failure path returns without writing "before" back.
PatCheckNoRestoreOnFail ==
  /\ pc = "pat_check"
  /\ LET val == ReadVal(Reg)
         expect == AndW(AndW(Patterns[pat], Entry.w), Entry.m)
     IN IF val # expect
          THEN data' = Reg /\ rc' = 1 /\ pc' = "reset"
               /\ UNCHANGED <<ent, idx, pat, hwRegs>>
          ELSE /\ WriteReg(Reg, before)
               /\ IF pat < Len(Patterns)
                    THEN pat' = pat + 1 /\ pc' = "pat_write"
                         /\ UNCHANGED <<ent, idx, data, rc>>
                    ELSE Advance /\ UNCHANGED pat
  /\ CheckRemove
  /\ sawOnes' = (sawOnes \/ gone)
  /\ UNCHANGED <<impl, gone, ifRunning, before>>

\* val = read; on a mismatch report the register, restore and return 1;
\* otherwise restore and go on to the next pattern.
PatCheck ==
  /\ pc = "pat_check"
  /\ LET val == ReadVal(Reg)
         expect == AndW(AndW(Patterns[pat], Entry.w), Entry.m)
     IN IF val # expect
          THEN data' = Reg /\ rc' = 1 /\ pc' = "reset"
               /\ UNCHANGED <<ent, idx, pat>>
          ELSE IF pat < Len(Patterns)
            THEN pat' = pat + 1 /\ pc' = "pat_write"
                 /\ UNCHANGED <<ent, idx, data, rc>>
            ELSE Advance /\ UNCHANGED pat
  /\ CheckRemove
  /\ WriteReg(Reg, before)
  /\ sawOnes' = (sawOnes \/ gone)
  /\ UNCHANGED <<impl, gone, ifRunning, before>>

\* Mutant: no ixgbevf_reset after the register test.
DiagFinishNoReset ==
  /\ pc = "reset"
  /\ pc' = "done"
  /\ IF ifRunning
       THEN /\ hwRegs' = IF hwNull \/ gone THEN hwRegs ELSE OpenRegs(hwRegs)
            /\ CheckRemove
       ELSE UNCHANGED <<hwRegs, hwNull>>
  /\ UNCHANGED <<impl, gone, ifRunning, ent, idx, pat, before, data, rc,
                 sawOnes>>

\* After the register test: ixgbevf_reset, clear TESTING, and ixgbevf_open
\* when the interface was up.
DiagFinish ==
  /\ pc = "reset"
  /\ pc' = "done"
  /\ IF ifRunning
       THEN /\ hwRegs' = IF hwNull \/ gone THEN hwRegs
                          ELSE OpenRegs(FlrRegs(StopRxRegs(hwRegs)))
            /\ CheckRemove
       ELSE ResetHw
  /\ UNCHANGED <<impl, gone, ifRunning, ent, idx, pat, before, data, rc,
                 sawOnes>>

\* Surprise removal of the device, at any point of the test.
Remove ==
  /\ ~gone /\ gone' = TRUE
  /\ UNCHANGED <<impl, hwRegs, hwNull, ifRunning, pc, ent, idx, pat, before,
                 data, rc, sawOnes>>

Next ==
  \/ DiagStart \/ RegTestStart \/ EntryWrite \/ PatStart \/ PatWrite
  \/ PatCheck \/ DiagFinish \/ Remove

\* The steps of the test itself.  ixgbevf_diag_test is one ethtool call that
\* runs to its end: it sleeps in msleep and the resets but never waits on
\* anything that may not come.  Removal is the environment's and is not fair.
TestStep ==
  \/ DiagStart \/ RegTestStart \/ EntryWrite \/ PatStart \/ PatWrite
  \/ PatCheck \/ DiagFinish

Spec == Init /\ [][Next]_vars /\ WF_vars(TestStep)

-----------------------------------------------------------------------------
(* Instances for TLC.                                                      *)

\* RDT(0) with bit 0 stuck at zero, RDLEN(1) keeping the low bits the mask
\* says are read-only zero, TDBAH(1) with its top bit stuck at zero.
TriedFaults == { [reg |-> \h1018, impl |-> W(0, \hFFFE)],
                 [reg |-> \h1048, impl |-> W(\h000F, \hFFFF)],
                 [reg |-> \h2044, impl |-> W(\h7FFF, \hFFFF)] }
TriedBefores == { Zero, W(\h1234, \h5680) }

-----------------------------------------------------------------------------
(* Properties.                                                             *)

\* Type invariant of the self test's state.
RegTypeOK ==
  /\ pc \in {"start", "regtest", "entry", "pat_write", "pat_check", "reset",
             "done"}
  /\ ent \in 1..Len(RegTestVf) /\ idx \in 0..1 /\ pat \in 1..Len(Patterns)
  /\ rc \in {0, 1} /\ data \in {0, 1} \cup Tested
  /\ hwNull => gone

\* The register test, seen one step at a time, implements the atomic test of
\* RegTestSpec: reg_pattern_test restores every register it wrote on both of
\* its return paths, and the verdict and data[0] are those of the first
\* faulty register in reg_test_vf order.  While a register is between its
\* pattern write and its restore, it is seen through the saved "before".
TestedRegs == [r \in Tested |->
                 IF pc = "pat_check" /\ r = Reg THEN before ELSE hwRegs[r]]
Abs == INSTANCE RegTestSpec
         WITH Order <- TestOrder,
              NoRegs <- [r \in Tested |-> Ones],
              regs <- IF gone THEN [r \in Tested |-> Ones] ELSE TestedRegs,
              ok <- [r \in Tested |-> Healthy(r)],
              result <- IF pc \in {"reset", "done"}
                          THEN (IF rc = 0 THEN "pass" ELSE "fail")
                          ELSE "none",
              data <- data,
              gone <- gone
RegTestRefines == Abs!Spec

\* A register test that read all-ones from a removed device never reports a
\* pass: some later pattern check in ixgbevf_reg_test's loop must fail.
RemovalNeverPasses ==
  (pc \in {"reset", "done"} /\ rc = 0) => ~sawOnes

\* Every offline self test returns, whatever register fails and whenever the
\* device is removed: ixgbevf_reg_test's while (test->reg) walk reaches the
\* { 0 } entry or an early return.
DiagTestReturns == <>(pc = "done")

\* After an offline self test with the interface down, ixgbevf_reset has
\* disabled every receive queue again, even when the register test failed
\* between its RXDCTL enable and disable writes.
QueuesQuiescedAfterTest ==
  (pc = "done" /\ ~ifRunning /\ ~gone)
    => \A q \in Rxdctl : AndW(hwRegs[q], RXDCTL_ENABLE) = Zero
====
