------------------------- MODULE MCBackendManager -------------------------
(* Small instances of the egg manager. *)
EXTENDS BackendManager, TLC

CONSTANTS a, b, c, a1, a2, b1, b2, l1, l2

MCModelOf == [e \in Eggs |-> IF e \in {a1, a2} THEN a ELSE b]

OneKind == [m \in Models |-> "llama"]

TwoKinds == [m \in Models |-> IF m = a THEN "llama" ELSE "ds4"]

\* Two eggs of one model differ only in name.
EggSymmetry == Permutations({a1, a2}) \cup Permutations({b1, b2})
=============================================================================
