---------------------------- MODULE MCReadCaches ----------------------------
(* Small instances of ReadCaches.                                          *)
EXTENDS ReadCaches, TLC

CONSTANTS r1, r2, w1, w2

Interchangeable == Permutations(Reads) \cup Permutations(Writes)
=============================================================================
