---------------------------- MODULE CadastroStore ----------------------------
(***************************************************************************)
(* What the operations of Cadastro promise together, with their queries    *)
(* left out: each changes the tables in one step and as if it had looked   *)
(* at them in that step.  Since no operation is a transaction, a row it    *)
(* has looked at may have been removed, restored or moved by another: then *)
(* the request is overtaken, and writes all the same.  But also then the   *)
(* row exists and names are unique, and a request that nobody overtakes    *)
(* hands out the profiles of one company alone.                            *)
(***************************************************************************)
CONSTANTS Empresas, Permissoes, Usuarios, Perfis, Nomes, Requests, None

VARIABLES row, perfil, membro,
          overtaken   \* requests that have looked at a row which has changed

tables == <<row, perfil, membro>>
vars == <<row, perfil, membro, overtaken>>

Exist(X) == \A x \in X : row[x] # "none"

Free(e, n) == \A f \in Perfis : perfil[f].empresa = e => perfil[f].nome # n

Init ==
    /\ \A f \in Perfis :
         /\ row[f] = "none" <=> perfil[f].empresa = None
         /\ row[f] # "none" => Exist({perfil[f].empresa} \cup perfil[f].permissoes)
    /\ \A f, g \in Perfis :
         f # g /\ row[f] # "none" /\ perfil[g].empresa = perfil[f].empresa
           => perfil[g].nome # perfil[f].nome
    /\ \A u \in Usuarios, e \in Empresas :
         membro[u][e] # {} => Exist({u, e} \cup membro[u][e])
    /\ overtaken = {}

\* r has seen the rows of X in this state.
Finds(r, X, state) == Exist(X) /\ (r \in overtaken \/ \A x \in X : row[x] = state)

\* A row that changes may overtake the others.
SetRow(r, x, state) ==
    /\ row' = [row EXCEPT ![x] = state]
    /\ \E Q \in SUBSET (Requests \ {r}) : overtaken' = overtaken \cup Q
    /\ row[x] = state => UNCHANGED overtaken

CreatePerfil(r) == \E f \in Perfis, e \in Empresas, n \in Nomes, S \in SUBSET Permissoes :
    /\ row[f] = "none" /\ Exist({e}) /\ Free(e, n)
    /\ Finds(r, S, "live")
    /\ SetRow(r, f, "live")
    /\ perfil' = [perfil EXCEPT ![f] = [empresa |-> e, nome |-> n, permissoes |-> S]]
    /\ UNCHANGED membro

\* Name, company and permissions change in one step, any of them or none.  A profile
\* that is moved overtakes whoever has looked at it, and keeps its members.
ChangePerfil(r) == \E f \in Perfis :
    \E e \in Empresas, n \in Nomes \cup {perfil[f].nome}, S \in SUBSET Permissoes :
      /\ Exist({f, e})
      /\ <<e, n>> = <<perfil[f].empresa, perfil[f].nome>> \/ Free(e, n)
      /\ S = perfil[f].permissoes \/ Finds(r, S, "live")
      /\ perfil' = [perfil EXCEPT ![f] = [empresa |-> e, nome |-> n, permissoes |-> S]]
      /\ \E Q \in SUBSET (Requests \ {r}) : overtaken' = overtaken \cup Q
      /\ e = perfil[f].empresa => UNCHANGED overtaken
      /\ UNCHANGED <<row, membro>>

\* Users are not disabled here but in FlipUsuario.
Disable(r) == \E x \in Empresas \cup Permissoes \cup Perfis :
    Finds(r, {x}, "live") /\ SetRow(r, x, "removed") /\ UNCHANGED <<perfil, membro>>

Restore(r) == \E x \in Permissoes \cup Perfis :
    Finds(r, {x}, "removed") /\ SetRow(r, x, "live") /\ UNCHANGED <<perfil, membro>>

Create(r) == \E x \in Empresas \cup Permissoes \cup Usuarios :
    row[x] = "none" /\ SetRow(r, x, "live") /\ UNCHANGED <<perfil, membro>>

\* All profiles of one step are of one company, unless one has been moved since; the
\* company is that of the header and need not be that of the membership.
AddUser(r) == \E u \in Usuarios, c, e \in Empresas, F \in SUBSET Perfis :
    /\ Finds(r, {u, e} \cup F, "live")
    /\ r \in overtaken \/ \A f \in F : perfil[f].empresa = c
    /\ membro' = [membro EXCEPT ![u][e] = F]
    /\ UNCHANGED <<row, perfil, overtaken>>

FlipUsuario(u) ==
    /\ row[u] # "none"
    /\ row' = [row EXCEPT ![u] = IF @ = "live" THEN "removed" ELSE "live"]
    /\ \E Q \in SUBSET Requests : overtaken' = overtaken \cup Q
    /\ UNCHANGED <<perfil, membro>>

Next ==
    \/ \E r \in Requests :
         \/ CreatePerfil(r) \/ ChangePerfil(r) \/ Disable(r) \/ Restore(r)
         \/ Create(r) \/ AddUser(r)
    \/ \E u \in Usuarios : FlipUsuario(u)

Spec == Init /\ [][Next]_vars
=============================================================================
