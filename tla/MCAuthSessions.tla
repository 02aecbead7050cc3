--------------------------- MODULE MCAuthSessions ---------------------------
(* Small instances of AuthSessions: values for its constants, and symmetry. *)
EXTENDS AuthSessions, TLC

CONSTANTS r1, r2, r3, t0, t1, t2, t3, t4, k0, k1, k2, k3

OnlySenha == {[ativo |-> "keep", senha |-> TRUE]}
OnlyAtivo == [ativo : {"disable", "restore"}, senha : {FALSE}]
Separate == OnlySenha \cup OnlyAtivo
Combined == [ativo : {"disable", "restore"}, senha : {TRUE}]
AnyPatch == Separate \cup Combined

\* Requests are interchangeable, and so are the identities of new rows.
Interchangeable ==
    Permutations(Requests) \cup Permutations(Tokens \ Preissued)
    \cup Permutations(ResetTokens \ PreissuedResets)
=============================================================================
