---------------------------- MODULE MCConnection ----------------------------
(***************************************************************************)
(* Connection for TLC.  The backoff and the sleep lengths do not matter to *)
(* it (Control drops them), so the chart's constants are trivial here.     *)
(***************************************************************************)
EXTENDS Connection, TLC

\* No request slot differs from another; used where only safety is checked.
Symmetry == Permutations(Requests)
=============================================================================
