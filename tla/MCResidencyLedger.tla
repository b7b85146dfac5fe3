------------------------- MODULE MCResidencyLedger -------------------------
(* Small instances of the residency ledger. *)
EXTENDS ResidencyLedger, TLC

CONSTANTS a, b, p1, p2

\* Pids differ only in name.
PidSymmetry == Permutations(Pids)
=============================================================================
