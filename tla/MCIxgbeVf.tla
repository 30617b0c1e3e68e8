------------------------------ MODULE MCIxgbeVf ------------------------------
(***************************************************************************)
(* Model values and bounds for checking IxgbeVf with TLC.                  *)
(***************************************************************************)
EXTENDS IxgbeVf

CONSTANTS m1, m2

\* Two addresses: the PF's choice for the VF and one other a caller may ask
\* for, so a NACK fallback and an accepted change are told apart.
MCMacs == {m1, m2}
MCPFPerm == m1
====
