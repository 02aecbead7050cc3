---------------------------- MODULE MCCadastro -----------------------------
(* Small instances of Cadastro.                                            *)
EXTENDS Cadastro, TLC

CONSTANTS e1, e2, p1, u1, f1, f2, f3, n1, n2, r1, r2

Interchangeable ==
    Permutations(Empresas) \cup Permutations(Perfis) \cup Permutations(Requests)
      \cup Permutations(Nomes)
=============================================================================
