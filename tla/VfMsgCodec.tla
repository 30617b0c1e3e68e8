------------------------------ MODULE VfMsgCodec ------------------------------
(***************************************************************************)
(* The word-level encodings the VF builds or takes apart (src/ixgbe_vf.c,  *)
(* src/ixgbevf_ethtool.c), and the PF's side of each (modelled from the    *)
(* protocol contract, spec.md section 4.2).  A message is a function from  *)
(* word index to a u32 word, kept as its two u16 halves (TLC's integers    *)
(* are 32-bit signed): word 0 holds the opcode in its low half, the info   *)
(* field in bits 16..23 and the flags in the top bits.                     *)
(***************************************************************************)
EXTENDS Naturals, Sequences, Bitwise

CONSTANTS
  RetaEntriesPerDword  \* entries the PF packs into one RETA dword (2 bits each)

\* IXGBE_VFMAILBOX_SIZE and IXGBE_VT_MSGINFO_SHIFT.
MailboxWords == 16
MsgInfoShift == 16
U16 == 2^16

IXGBE_VF_SET_MULTICAST == 3
IXGBE_VF_SET_MACVLAN == 6

\* A u32 from its halves.
Word(lo, hi) == [lo |-> lo, hi |-> hi]

\* op | (x << 16) in a u32, for an opcode below 2^16: x's bits from 16
\* up are shifted out.
OpInfo(op, x) == Word(op, x % U16)

\* The info field as the PF reads it: (w0 & MSGINFO_MASK) >> MSGINFO_SHIFT.
MsgInfo(w0) == w0.hi & 255

(***************************************************************************)
(* ixgbe_mta_vector: the 12-bit MTA index of a multicast address `a`       *)
(* (a function from byte index 0..5 to a byte) under filter type t.        *)
(***************************************************************************)
\* Mutant of MtaVector: the 12-bit mask is left out.
MtaVectorNoMask(t, a) ==
  CASE t = 0 -> shiftR(a[4], 4) | ((a[5] * 2^4) % U16)
    [] t = 1 -> shiftR(a[4], 3) | ((a[5] * 2^5) % U16)
    [] t = 2 -> shiftR(a[4], 2) | ((a[5] * 2^6) % U16)
    [] t = 3 -> a[4] | ((a[5] * 2^8) % U16)
    [] OTHER -> 0

\* Mutant of MtaVector: filter type 2 takes type 1's shifts.
MtaVectorType2Slip(t, a) ==
  LET v == CASE t = 0 -> shiftR(a[4], 4) | ((a[5] * 2^4) % U16)
             [] t \in {1, 2} -> shiftR(a[4], 3) | ((a[5] * 2^5) % U16)
             [] t = 3 -> a[4] | ((a[5] * 2^8) % U16)
             [] OTHER -> 0
  IN v & 4095

MtaVector(t, a) ==
  LET v == CASE t = 0 -> shiftR(a[4], 4) | ((a[5] * 2^4) % U16)
             [] t = 1 -> shiftR(a[4], 3) | ((a[5] * 2^5) % U16)
             [] t = 2 -> shiftR(a[4], 2) | ((a[5] * 2^6) % U16)
             [] t = 3 -> a[4] | ((a[5] * 2^8) % U16)
             [] OTHER -> 0
  IN v & 4095

\* Reference: bit n of the address, counting from bit 0 of byte 0, and
\* the 12-bit window starting at bit `low` that each filter type names
\* ([47:36], [46:35], [45:34], [43:32]); no window for other types.
AddrBit(a, n) == (a[n \div 8] \div 2^(n % 8)) % 2
WindowLow == [t \in 0..3 |-> CASE t = 0 -> 36 [] t = 1 -> 35 [] t = 2 -> 34 [] t = 3 -> 32]
RECURSIVE BitsFrom(_, _, _)
BitsFrom(a, low, k) ==
  IF k = 0 THEN 0 ELSE BitsFrom(a, low, k - 1) + AddrBit(a, low + k - 1) * 2^(k - 1)
RefMtaVector(t, a) ==
  IF t \in DOMAIN WindowLow THEN BitsFrom(a, WindowLow[t], 12) ELSE 0

(***************************************************************************)
(* ixgbe_update_mc_addr_list_vf: word 0 = SET_MULTICAST | cnt << 16 with   *)
(* cnt = min(count, 30); the cnt vectors are stored as u16s over words     *)
(* 1.. (little endian: entry i is the low half of word 1 + i \div 2 when i *)
(* is even).  The halves no vector is written to are whatever was on the  *)
(* stack: `fill`.                                                          *)
(***************************************************************************)
\* Mutant of McCount: the cap lets a 31st vector through.
McCountOffByOne(count) == IF count > 31 THEN 31 ELSE count

McCount(count) == IF count > 30 THEN 30 ELSE count

\* The u16 halves of words 1..: entry i (from 0) is vector i + 1 of the list.
McHalves(vectors, fill) ==
  [i \in 0..(2 * (MailboxWords - 1) - 1) |->
     IF i < McCount(Len(vectors)) THEN vectors[i + 1] ELSE fill]

McRequest(vectors, fill) ==
  LET h == McHalves(vectors, fill)
  IN [w \in 0..(MailboxWords - 1) |->
        IF w = 0 THEN OpInfo(IXGBE_VF_SET_MULTICAST, McCount(Len(vectors)))
                 ELSE Word(h[2 * (w - 1)], h[2 * (w - 1) + 1])]

\* The PF's reading: the count from the info field, entry i from its half
\* of word 1 + i \div 2.
McEntries(msg) ==
  [i \in 1..MsgInfo(msg[0]) |->
     LET w == msg[1 + (i - 1) \div 2]
     IN IF (i - 1) % 2 = 0 THEN w.lo ELSE w.hi]

(***************************************************************************)
(* ixgbevf_set_uc_addr_vf: word 0 = index << 16 | SET_MACVLAN.             *)
(***************************************************************************)
UcWord0(index) == OpInfo(IXGBE_VF_SET_MACVLAN, index)

(***************************************************************************)
(* ixgbevf_get_reta_locked, decoding: entry j of dword i is              *)
(* (hw_reta[i] >> 2j) & mask, mask = 1 when num_rx_queues > 1, else 0.     *)
(* The PF packs its entries 2 bits each (spec 4.2).  A dword holds 16     *)
(* entries; the model packs RetaEntriesPerDword of them (a 16-entry dword  *)
(* is past TLC's integers) and decodes with the same loop.                 *)
(***************************************************************************)
\* Mutant of RetaMask: `num_rx_queues >= 1` for `> 1`.
RetaMaskOffByOne(numRxQueues) == IF numRxQueues >= 1 THEN 1 ELSE 0

RetaMask(numRxQueues) == IF numRxQueues > 1 THEN 1 ELSE 0

RetaDecode(dword, numRxQueues) ==
  [j \in 0..(RetaEntriesPerDword - 1) |->
     shiftR(dword, 2 * j) & RetaMask(numRxQueues)]

RECURSIVE PackReta(_, _)
\* The PF's packing of entries 0..k-1 of table t.
PackReta(t, k) == IF k = 0 THEN 0 ELSE PackReta(t, k - 1) + t[k - 1] * 4^(k - 1)
=============================================================================
