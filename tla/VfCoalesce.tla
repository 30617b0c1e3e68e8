------------------------------- MODULE VfCoalesce -------------------------------
(***************************************************************************)
(* ixgbevf_set_coalesce and ixgbevf_get_coalesce                           *)
(* (src/ixgbevf_ethtool.c).  adapter->rx/tx_itr_setting hold the ethtool   *)
(* setting: 0 (off), 1 (dynamic) or usecs << 2; each q_vector's itr is the *)
(* EITR value written for it.  Vectors hold Rx rings, Tx rings or both     *)
(* ("mixed"), fixed when the vectors are allocated.                        *)
(***************************************************************************)
EXTENDS Naturals

CONSTANTS
  MaxEitr,            \* IXGBE_MAX_EITR
  Itr20K, Itr12K,     \* IXGBE_20K_ITR, IXGBE_12K_ITR
  Usecs               \* rx/tx_coalesce_usecs values requested

\* Ring layouts of three vectors: all mixed, or split Rx and Tx vectors.
Layouts == {<<"mixed", "mixed", "mixed">>, <<"rx", "tx", "tx">>, <<"rx", "rx", "tx">>}

\* No report or request yet: a value above any usecs accepted or reported.
None == [rx |-> MaxEitr + 1, tx |-> MaxEitr + 1]

VARIABLES
  layout,      \* the kind of each q_vector
  rxSetting,   \* adapter->rx_itr_setting
  txSetting,   \* adapter->tx_itr_setting
  vecItr,      \* q_vector[i]->itr
  reported,    \* what the last get_coalesce reported, or None
  req          \* the last request set_coalesce accepted, or None

vars == <<layout, rxSetting, txSetting, vecItr, reported, req>>

\* get/set_coalesce look only at vector 0 to decide "mixed".
Mixed == layout[1] = "mixed"

\* The itr a vector gets: Tx-only vectors follow the Tx setting, the others
\* the Rx setting; dynamic (1) starts at 12K/20K interrupts a second.
VecItrFor(kind, rxS, txS) ==
  IF kind = "tx" THEN (IF txS = 1 THEN Itr12K ELSE txS)
                 ELSE (IF rxS = 1 THEN Itr20K ELSE rxS)

\* The driver starts in dynamic mode with each vector at its start rate.
Init ==
  /\ layout \in Layouts
  /\ rxSetting = 1 /\ txSetting = 1
  /\ vecItr = [i \in DOMAIN layout |-> VecItrFor(layout[i], 1, 1)]
  /\ reported = None /\ req = None

\* usecs as a setting: 0 and 1 as they are, usecs << 2 otherwise.
Setting(usecs) == IF usecs > 1 THEN usecs * 4 ELSE usecs

\* Mutant of SetCoalesce: the range check is left out.
SetCoalesceNoRange(rx, tx) ==
  /\ ~(Mixed /\ tx # 0)
  /\ rxSetting' = Setting(rx) /\ txSetting' = Setting(tx)
  /\ vecItr' = [i \in DOMAIN layout |-> VecItrFor(layout[i], Setting(rx), Setting(tx))]
  /\ req' = [rx |-> rx, tx |-> tx] /\ reported' = None
  /\ UNCHANGED layout

\* Mutant of SetCoalesce: usecs 1 is stored as 1 << 2 like any other value.
SetCoalesceNoDynamic(rx, tx) ==
  /\ ~(Mixed /\ tx # 0)
  /\ rx <= MaxEitr \div 4 /\ tx <= MaxEitr \div 4
  /\ rxSetting' = rx * 4 /\ txSetting' = tx * 4
  /\ vecItr' = [i \in DOMAIN layout |-> VecItrFor(layout[i], rx * 4, tx * 4)]
  /\ req' = [rx |-> rx, tx |-> tx] /\ reported' = None
  /\ UNCHANGED layout

\* A Tx value on mixed vectors, or usecs above IXGBE_MAX_EITR >> 2, is
\* -EINVAL (no step); otherwise the settings are stored and every vector's
\* EITR rewritten.
SetCoalesce(rx, tx) ==
  /\ ~(Mixed /\ tx # 0)
  /\ rx <= MaxEitr \div 4 /\ tx <= MaxEitr \div 4
  /\ rxSetting' = Setting(rx) /\ txSetting' = Setting(tx)
  /\ vecItr' = [i \in DOMAIN layout |-> VecItrFor(layout[i], Setting(rx), Setting(tx))]
  /\ req' = [rx |-> rx, tx |-> tx] /\ reported' = None
  /\ UNCHANGED layout

\* A setting as usecs: 0 and 1 as they are, setting >> 2 otherwise.
Usec(setting) == IF setting <= 1 THEN setting ELSE setting \div 4

\* Mutant of GetCoalesce: the dynamic setting is shifted like a rate.
GetCoalesceAlwaysShift ==
  /\ reported' = [rx |-> rxSetting \div 4,
                  tx |-> IF Mixed THEN 0 ELSE txSetting \div 4]
  /\ UNCHANGED <<layout, rxSetting, txSetting, vecItr, req>>

\* On mixed vectors only the Rx value is reported (Tx stays 0 as ethtool
\* passed it in).
GetCoalesce ==
  /\ reported' = [rx |-> Usec(rxSetting),
                  tx |-> IF Mixed THEN 0 ELSE Usec(txSetting)]
  /\ UNCHANGED <<layout, rxSetting, txSetting, vecItr, req>>

Next == (\E rx, tx \in Usecs : SetCoalesce(rx, tx)) \/ GetCoalesce

Spec == Init /\ [][Next]_vars

-----------------------------------------------------------------------------
(* Properties. *)

\* Settings and every vector's EITR stay within IXGBE_MAX_EITR, what the
\* range check of set_coalesce admits.
CoalesceTypeOK ==
  /\ layout \in Layouts
  /\ {rxSetting, txSetting} \subseteq 0..MaxEitr
  /\ \A i \in DOMAIN vecItr : vecItr[i] \in 0..MaxEitr

\* get_coalesce reports the usecs the last accepted set_coalesce asked for
\* (the Rx value only, on mixed vectors).
CoalesceRoundTrip ==
  reported # None /\ req # None =>
    /\ reported.rx = req.rx
    /\ ~Mixed => reported.tx = req.tx

\* After set_coalesce every vector runs at what the request asks for its
\* rings: off for 0, the dynamic start rate for 1, usecs in EITR units
\* (usecs * 4) otherwise; Tx-only vectors by the Tx value.
VectorsFollowRequest ==
  req # None =>
    \A i \in DOMAIN layout :
      LET u == IF layout[i] = "tx" THEN req.tx ELSE req.rx
          dyn == IF layout[i] = "tx" THEN Itr12K ELSE Itr20K
      IN vecItr[i] = CASE u = 0 -> 0 [] u = 1 -> dyn [] OTHER -> u * 4
====
