--------------------------- MODULE MCDurableStore ---------------------------
(***************************************************************************)
(* DurableStore for TLC: two boundaries, so that one may move to the       *)
(* other; two conversations and two walks, so that one record may be       *)
(* replaced while another stays.                                           *)
(***************************************************************************)
EXTENDS DurableStore, TLC

\* No boundary, conversation, walk or retraction differs from another.
Symmetry == Permutations(Boundaries) \cup Permutations(Ids) \cup Permutations(Walks)
=============================================================================
