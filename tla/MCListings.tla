----------------------------- MODULE MCListings -----------------------------
(* Small instances of Listings: rows are interchangeable.                  *)
EXTENDS Listings, TLC

CONSTANTS a1, a2, a3, a4

Interchangeable == Permutations(Rows)
=============================================================================
