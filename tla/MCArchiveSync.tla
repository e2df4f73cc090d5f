--------------------------- MODULE MCArchiveSync ---------------------------
(***************************************************************************)
(* ArchiveSync for TLC, with at most MaxFaults failed writes or queries,   *)
(* expiries, lost connections and reloads in one behaviour.                *)
(***************************************************************************)
EXTENDS ArchiveSync, TLC

CONSTANT MaxFaults
VARIABLE faults

MCInit == Init /\ faults = 0

MCNext ==
  \/ Fault /\ faults < MaxFaults /\ faults' = faults + 1
  \/ Step /\ UNCHANGED faults

MCSpec == MCInit /\ [][MCNext]_<<vars, faults>> /\ Fairness
=============================================================================
