---------------------------- MODULE MCInferQueue ----------------------------
(* A small instance of the inference queue. *)
EXTENDS InferQueue

CONSTANTS a, r1, r2, r3
=============================================================================
