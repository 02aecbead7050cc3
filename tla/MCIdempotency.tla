--------------------------- MODULE MCIdempotency ---------------------------
(* Small instances of Idempotency.                                         *)
EXTENDS Idempotency, TLC

CONSTANTS p1, p2, p3, p4

Interchangeable == Permutations(Requests)
=============================================================================
