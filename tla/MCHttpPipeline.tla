-------------------------- MODULE MCHttpPipeline ---------------------------
(* Small instances of HttpPipeline.                                        *)
EXTENDS HttpPipeline, TLC

CONSTANTS r1, r2, i1, e1, e2

Interchangeable == Permutations(Requests) \cup Permutations(Empresas)
=============================================================================
