----------------------------- MODULE MCPresence -----------------------------
(***************************************************************************)
(* Presence for TLC: two messages, so that one may replace the other.      *)
(***************************************************************************)
EXTENDS Presence
=============================================================================
