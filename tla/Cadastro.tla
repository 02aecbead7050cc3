------------------------------ MODULE Cadastro ------------------------------
(***************************************************************************)
(* Companies, profiles, permissions and memberships: the operations of     *)
(* PerfisService, PermissoesService and EmpresasService, and the creation  *)
(* of users, over the tables that they share.                              *)
(*                                                                         *)
(* Each query is a step; no operation here runs in a transaction.  Every   *)
(* request runs in the context of one company, the header x-empresa-id     *)
(* that PermissaoGuard has checked.  Reads through prisma.extended hide    *)
(* removed rows, and those of profiles and memberships are narrowed to the *)
(* company of the context.  So are updates, but not what they write: a     *)
(* profile may be moved to another company, with the members that it has.  *)
(* Rows are never deleted.                                                 *)
(*                                                                         *)
(* A row stands for its unique name too (a user's e-mail), but for Perfil, *)
(* whose name is unique in its company; the code of a profile or           *)
(* permission has an index like that of the name and is left out.          *)
(***************************************************************************)
EXTENDS FiniteSets

CONSTANTS
    Empresas, Permissoes, Usuarios, Perfis,     \* rows that may be created
    Nomes,          \* names of profiles
    Requests,
    None

Rows == Empresas \cup Permissoes \cup Usuarios \cup Perfis

ASSUME CadastroAssumption ==
    /\ None \notin Empresas \cup Nomes
    /\ Perfis \cap (Empresas \cup Permissoes \cup Usuarios) = {}

VARIABLES
    row,        \* soft deletion: whether the row exists and is live
    perfil,     \* the columns of Perfil and its permissions
    membro,     \* UsuarioEmpresa: the profiles of a user in a company
    request,    \* what each request was asked and how far it is
    \* history
    been,       \* the companies that a profile has been in
    foreign,    \* <<c, e>>: a user was added to e in the context of company c
    missed,     \* <<f, c, e>>: f was permitted in the context c, and the cache of a
                \* user who holds it in e was not dropped
    overtaken   \* requests of which a row they had checked was changed

tables == <<row, perfil, membro>>
vars == <<tables, request, been, foreign, missed, overtaken>>

Ended == {"200", "403", "404", "409", "500"}

Perfil == [empresa : Empresas \cup {None}, nome : Nomes \cup {None},
           permissoes : SUBSET Permissoes]

\* An update with permissoesIds is "permit", one without is "patch".
Operations == {"none", "createPerfil", "patch", "permit", "disable", "restore",
               "create", "update", "addUser"}

\* op, its context and arguments, and the rows it has found to be as it wants them.
Request == [op : Operations,
            at : {"idle", "name", "perfil", "usuario", "perfis", "write", "list"} \cup Ended,
            ctx : Empresas \cup {None}, empresa : Empresas \cup {None},
            target : SUBSET Rows, nome : Nomes \cup {None},
            permissoes : SUBSET Permissoes, found : SUBSET Rows]

NoPerfil == [empresa |-> None, nome |-> None, permissoes |-> {}]

NoRequest == [op |-> "none", at |-> "idle", ctx |-> None, empresa |-> None,
              target |-> {}, nome |-> None, permissoes |-> {}, found |-> {}]

TypeOK ==
    /\ row \in [Rows -> {"none", "live", "removed"}]
    /\ perfil \in [Perfis -> Perfil]
    /\ membro \in [Usuarios -> [Empresas -> SUBSET Perfis]]
    /\ request \in [Requests -> Request]
    /\ been \in [Perfis -> SUBSET Empresas]
    /\ foreign \subseteq Empresas \X Empresas
    /\ missed \subseteq Perfis \X Empresas \X Empresas
    /\ overtaken \subseteq Requests

Live(X) == \A x \in X : row[x] = "live"

\* A profile of a company, with members and permissions.
Init ==
    /\ row \in [Rows -> {"none", "live"}]
    /\ \E f \in Perfis, e \in Empresas, n \in Nomes :
         \E S \in SUBSET Permissoes, U \in SUBSET Usuarios :
           /\ \A g \in Perfis : row[g] = "live" <=> g = f
           /\ Live({e} \cup S \cup U)
           /\ perfil = [g \in Perfis |-> IF g # f THEN NoPerfil
                          ELSE [empresa |-> e, nome |-> n, permissoes |-> S]]
           /\ membro = [u \in Usuarios |->
                [d \in Empresas |-> IF u \in U /\ d = e THEN {f} ELSE {}]]
    /\ request = [r \in Requests |-> NoRequest]
    /\ been = [f \in Perfis |-> {perfil[f].empresa} \ {None}]
    /\ foreign = {} /\ missed = {} /\ overtaken = {}
-----------------------------------------------------------------------------
(* What the queries see.                                                   *)

\* where.empresaId is that of the context.
InContext(c, f) == perfil[f].empresa = c

\* Fault: the extension narrows reads alone.
AnyToUpdate(c, f) == perfil[f].empresa # None

\* update, and delete that becomes one: the extension narrows where, not data.
Updatable(c, f) == InContext(c, f)

\* Fault: the plain client, which neither narrows nor hides.
AnyPerfis(c) == {f \in Perfis : row[f] # "none"}

\* Reads of Perfil through extended.
VisiblePerfis(c) == {f \in Perfis : InContext(c, f) /\ row[f] = "live"}

\* Fault: removed permissions count.
AnyPermissoesFound(S) == \A p \in S : row[p] # "none"

\* findManyByIds finds as many rows as it was given ids.
PermissoesFound(S) == Live(S)

\* The unique index of Perfil, which counts removed rows.
NomeUsed(e, n) == \E f \in Perfis : perfil[f].empresa = e /\ perfil[f].nome = n

\* Fault: the profile is to be in the context as well.
ListedInContext(c, f) == {u \in Usuarios : f \in membro[u][c] /\ InContext(c, f)}

\* The members that findUserIdsByPerfilId lists: UsuarioEmpresa is narrowed, the
\* profile is not.
ListedHolders(c, f) == {u \in Usuarios : f \in membro[u][c]}
-----------------------------------------------------------------------------
(* Steps of a request.                                                     *)

Idle(r) == request[r].at = "idle"

\* What a request wants the rows to be that it checks.
Wanted(q) == IF q.op = "restore" THEN "removed" ELSE "live"

At(r, ops, a) == request[r].op \in ops /\ request[r].at = a

\* Request r, now q, has found the rows of X and goes on.
Proceed(r, q, a, X) ==
    request' = [request EXCEPT ![r] = [q EXCEPT !.at = a, !.found = @ \cup X]]

End(r, status) == request' = [request EXCEPT ![r] = [NoRequest EXCEPT !.at = status]]

\* Request r changes x, which others have checked.
Overtake(r, x) == overtaken' = overtaken \cup {q \in Requests \ {r} : x \in request[q].found}

\* deletedAt and ativo are written, whatever they were.
SetRow(r, x, state) ==
    /\ row' = [row EXCEPT ![x] = state]
    /\ IF row[x] = state THEN UNCHANGED overtaken ELSE Overtake(r, x)

unchangedByRead == <<tables, been, foreign, missed, overtaken>>
-----------------------------------------------------------------------------
(* PerfisService.                                                          *)

\* create: the company of the body is free, nothing compares it with the context.
CreatePerfil(r) ==
    /\ Idle(r)
    /\ \E c, e \in Empresas, n \in Nomes, S \in SUBSET Permissoes :
         /\ row[c] # "none"
         /\ IF PermissoesFound(S)
            THEN Proceed(r, [NoRequest EXCEPT !.op = "createPerfil", !.ctx = c,
                               !.empresa = e, !.nome = n, !.permissoes = S], "name", S)
            ELSE End(r, "404")
    /\ UNCHANGED unchangedByRead

\* findByNome asks for the company of the body and gets that of the context.
CheckNome(r) ==
    /\ At(r, {"createPerfil"}, "name")
    /\ LET q == request[r] IN
       IF \E f \in VisiblePerfis(q.ctx) : perfil[f].nome = q.nome
       THEN End(r, "409") ELSE Proceed(r, q, "write", {})
    /\ UNCHANGED unchangedByRead

\* A foreign key to Empresa (500), a unique index (409); a removed company will do.
InsertPerfil(r) ==
    /\ At(r, {"createPerfil"}, "write")
    /\ LET q == request[r] IN
       \/ /\ row[q.empresa] = "none" \/ NomeUsed(q.empresa, q.nome)
          /\ End(r, IF row[q.empresa] = "none" THEN "500" ELSE "409")
          /\ UNCHANGED <<tables, been, overtaken>>
       \/ /\ row[q.empresa] # "none" /\ ~NomeUsed(q.empresa, q.nome)
          /\ \E f \in Perfis :
               /\ row[f] = "none"
               /\ SetRow(r, f, "live")
               /\ perfil' = [perfil EXCEPT ![f] =
                    [empresa |-> q.empresa, nome |-> q.nome, permissoes |-> q.permissoes]]
               /\ been' = [been EXCEPT ![f] = @ \cup {q.empresa}]
          /\ End(r, "200")
          /\ UNCHANGED membro
    /\ UNCHANGED <<foreign, missed>>

\* findOne(id, true, empresaId), then the checks that ativo calls for.
FindPerfil(r, q, f) ==
    \/ ~InContext(q.ctx, f) /\ End(r, "404")
    \/ InContext(q.ctx, f) /\ q.op \in {"patch", "permit"} /\ Proceed(r, q, "write", {})
    \/ /\ InContext(q.ctx, f) /\ q.op \in {"disable", "restore"}
       /\ \/ End(r, "403")      \* not an administrator
          \/ IF row[f] = Wanted(q) THEN Proceed(r, q, "write", {f}) ELSE End(r, "409")

\* A request to update f, of which the body has any of empresaId, nome, permissoesIds.
Update(op, c, f, e, n, S) ==
    [NoRequest EXCEPT !.op = op, !.ctx = c, !.target = {f}, !.empresa = e, !.nome = n,
                      !.permissoes = S]

\* permissoesIds are looked up first, and with ativo nothing else of the body counts: a
\* permission that is missing gives 404 like a profile that is.
UpdatePerfil(r) ==
    /\ Idle(r)
    /\ \E c \in Empresas, f \in Perfis :
         /\ row[c] # "none"
         /\ \/ \E op \in {"disable", "restore"} :
                 FindPerfil(r, Update(op, c, f, None, None, {}), f)
            \/ \E e \in Empresas \cup {None}, n \in Nomes \cup {None} :
                 \/ FindPerfil(r, Update("patch", c, f, e, n, {}), f)
                 \/ \E S \in SUBSET Permissoes :
                      IF PermissoesFound(S)
                      THEN Proceed(r, Update("permit", c, f, e, n, S), "perfil", S)
                      ELSE End(r, "404")
    /\ UNCHANGED unchangedByRead

FindPerfilToPermit(r) ==
    /\ At(r, {"permit"}, "perfil")
    /\ \E f \in request[r].target : FindPerfil(r, request[r], f)
    /\ UNCHANGED unchangedByRead

\* What the body of q makes of the row p of a profile: fields left out stay.
Updated(q, p) ==
    [empresa    |-> IF q.empresa = None THEN p.empresa ELSE q.empresa,
     nome       |-> IF q.nome = None THEN p.nome ELSE q.nome,
     permissoes |-> IF q.op = "permit" THEN q.permissoes ELSE p.permissoes]

\* The indexes of Perfil: another row has the company and the name of new.
Clashes(f, new) ==
    /\ <<new.empresa, new.nome>> # <<perfil[f].empresa, perfil[f].nome>>
    /\ NomeUsed(new.empresa, new.nome)

\* update of the repository, of a removed profile as well.  The members stay, also
\* when the profile gets another company, which nothing compares with the context.
WritePerfil(r, f, new) ==
    /\ perfil' = [perfil EXCEPT ![f] = new]
    /\ been' = [been EXCEPT ![f] = @ \cup {new.empresa}]
    /\ IF new.empresa = perfil[f].empresa THEN UNCHANGED overtaken ELSE Overtake(r, f)

\* The profile is in another company since it was found (P2025), or the foreign key
\* or an index refuses the write.
ChangePerfil(r) ==
    /\ At(r, {"patch", "permit"}, "write")
    /\ \E f \in request[r].target :
         LET q == request[r]
             new == Updated(q, perfil[f])
         IN
         \/ /\ \/ ~Updatable(q.ctx, f) /\ End(r, "404")
               \/ Updatable(q.ctx, f) /\ row[new.empresa] = "none" /\ End(r, "500")
               \/ Updatable(q.ctx, f) /\ Clashes(f, new) /\ End(r, "409")
            /\ UNCHANGED <<perfil, been, overtaken>>
         \/ /\ Updatable(q.ctx, f) /\ row[new.empresa] # "none" /\ ~Clashes(f, new)
            /\ WritePerfil(r, f, new)
            /\ IF q.op = "permit" THEN Proceed(r, q, "list", {}) ELSE End(r, "200")
    /\ UNCHANGED <<row, membro, foreign, missed>>

\* The caches of the users listed are dropped (ReadCaches).
ListHolders(r) ==
    /\ At(r, {"permit"}, "list")
    /\ LET c == request[r].ctx IN
       \E f \in request[r].target :
         missed' = missed \cup {<<f, c, e>> : e \in
           {d \in Empresas : \E u \in Usuarios \ ListedHolders(c, f) : f \in membro[u][d]}}
    /\ End(r, "200")
    /\ UNCHANGED <<tables, been, foreign, overtaken>>
-----------------------------------------------------------------------------
(* What disables, removes or restores a row after having looked at it.     *)

\* PermissoesService.update with ativo, remove and restore: plain findOne.
ChangePermissao(r) ==
    /\ Idle(r)
    /\ \E p \in Permissoes, op \in {"disable", "restore"} :
         LET q == [NoRequest EXCEPT !.op = op, !.target = {p}] IN
         \/ row[p] = "none" /\ End(r, "404")
         \/ row[p] \notin {"none", Wanted(q)} /\ End(r, "409")
         \/ row[p] = Wanted(q) /\ (End(r, "403") \/ Proceed(r, q, "write", {p}))
    /\ UNCHANGED unchangedByRead

\* EmpresasService.update and remove.
ChangeEmpresa(r) ==
    /\ Idle(r)
    /\ \E e \in Empresas, op \in {"update", "disable"} :
         IF row[e] = "live"
         THEN Proceed(r, [NoRequest EXCEPT !.op = op, !.target = {e}], "write", {e})
         ELSE End(r, "404")
    /\ UNCHANGED unchangedByRead

\* Fault: the handler of the extension for delete is missing.
HardDelete(r, x) == SetRow(r, x, "none")

\* delete, which the extension makes an update.
SoftDelete(r, x) == SetRow(r, x, "removed")

\* remove and restore of the repositories.
Flip(r, x) ==
    /\ IF request[r].op = "disable" THEN SoftDelete(r, x) ELSE SetRow(r, x, "live")
    /\ End(r, "200")
    /\ UNCHANGED <<perfil, membro, been, foreign, missed>>

FlipPermissao(r) ==
    /\ At(r, {"disable", "restore"}, "write")
    /\ \E p \in request[r].target \cap Permissoes : Flip(r, p)

\* The where of both is narrowed: P2025, if the profile has been moved.
FlipPerfil(r) ==
    /\ At(r, {"disable", "restore"}, "write")
    /\ \E f \in request[r].target \cap Perfis :
         \/ Updatable(request[r].ctx, f) /\ Flip(r, f)
         \/ ~Updatable(request[r].ctx, f) /\ End(r, "404") /\ UNCHANGED unchangedByRead

RemoveEmpresa(r) ==
    /\ At(r, {"disable"}, "write")
    /\ \E e \in request[r].target \cap Empresas : Flip(r, e)

\* The other columns of Empresa are left out, but for the foreign key to the user in
\* charge, if the body has one.
UpdateEmpresa(r) ==
    /\ At(r, {"update"}, "write")
    /\ End(r, "200") \/ ((\E u \in Usuarios : row[u] = "none") /\ End(r, "500"))
    /\ UNCHANGED unchangedByRead

\* UsuariosService.update repeats its check in the where of the write (AuthSessions).
FlipUsuario(u) ==
    /\ row[u] # "none"
    /\ row' = [row EXCEPT ![u] = IF @ = "live" THEN "removed" ELSE "live"]
    /\ overtaken' = overtaken \cup {q \in Requests : u \in request[q].found}
    /\ UNCHANGED <<perfil, membro, request, been, foreign, missed>>
-----------------------------------------------------------------------------
(* Creation of users, permissions and companies.                           *)

\* A row of X is looked up by its unique name; removed rows are not seen.
CheckNew(r, X) ==
    /\ Idle(r)
    /\ \E x \in X :
         IF row[x] = "live" THEN End(r, "409")
         ELSE Proceed(r, [NoRequest EXCEPT !.op = "create", !.target = {x}], "write", {})
    /\ UNCHANGED unchangedByRead

\* The unique index counts removed rows.
Insert(r, X) ==
    /\ At(r, {"create"}, "write")
    /\ \E x \in request[r].target \cap X :
         IF row[x] # "none" THEN End(r, "409") /\ UNCHANGED <<row, overtaken>>
         ELSE SetRow(r, x, "live") /\ End(r, "200")
    /\ UNCHANGED <<perfil, membro, been, foreign, missed>>

CreateUsuario(r) == CheckNew(r, Usuarios)       \* findByEmail
InsertUsuario(r) == Insert(r, Usuarios)
CreatePermissao(r) == CheckNew(r, Permissoes)   \* findByNome
InsertPermissao(r) == Insert(r, Permissoes)

\* Nothing is checked but the foreign key to the user in charge.
CreateEmpresa(r) ==
    /\ Idle(r)
    /\ \E e \in Empresas, u \in Usuarios :
         /\ row[e] = "none"
         /\ IF row[u] = "none" THEN End(r, "500") /\ UNCHANGED <<row, overtaken>>
            ELSE SetRow(r, e, "live") /\ End(r, "200")
    /\ UNCHANGED <<perfil, membro, been, foreign, missed>>
-----------------------------------------------------------------------------
(* EmpresasService.addUser: the company is that of the path.               *)

AddUser(r) ==
    /\ Idle(r)
    /\ \E c, e \in Empresas, u \in Usuarios, F \in SUBSET Perfis :
         /\ row[c] # "none"
         /\ IF row[e] = "live"
            THEN Proceed(r, [NoRequest EXCEPT !.op = "addUser", !.ctx = c, !.empresa = e,
                               !.target = {u} \cup F], "usuario", {e})
            ELSE End(r, "404")
    /\ UNCHANGED unchangedByRead

FindUsuario(r) ==
    /\ At(r, {"addUser"}, "usuario")
    /\ LET U == request[r].target \cap Usuarios IN
       IF Live(U) THEN Proceed(r, request[r], "perfis", U) ELSE End(r, "404")
    /\ UNCHANGED unchangedByRead

FindPerfis(r) ==
    /\ At(r, {"addUser"}, "perfis")
    /\ LET F == request[r].target \cap Perfis IN
       IF F \subseteq VisiblePerfis(request[r].ctx)
       THEN Proceed(r, request[r], "write", F) ELSE End(r, "404")
    /\ UNCHANGED unchangedByRead

\* addUserToCompany: the upsert of the membership is not narrowed to the context.
Upsert(r) ==
    /\ At(r, {"addUser"}, "write")
    /\ LET q == request[r] IN
       /\ \E u \in q.target \cap Usuarios :
            membro' = [membro EXCEPT ![u][q.empresa] = q.target \cap Perfis]
       /\ foreign' = IF q.ctx = q.empresa THEN foreign
                     ELSE foreign \cup {<<q.ctx, q.empresa>>}
    /\ End(r, "200")
    /\ UNCHANGED <<row, perfil, been, missed, overtaken>>
-----------------------------------------------------------------------------
AllServed ==
    /\ \A r \in Requests : request[r].at \in Ended
    /\ UNCHANGED vars

Handle(r) ==
    \/ CreatePerfil(r) \/ CheckNome(r) \/ InsertPerfil(r)
    \/ UpdatePerfil(r) \/ FindPerfilToPermit(r) \/ ChangePerfil(r) \/ ListHolders(r)
    \/ ChangePermissao(r) \/ ChangeEmpresa(r)
    \/ FlipPermissao(r) \/ FlipPerfil(r) \/ RemoveEmpresa(r) \/ UpdateEmpresa(r)
    \/ CreateUsuario(r) \/ InsertUsuario(r) \/ CreatePermissao(r) \/ InsertPermissao(r)
    \/ CreateEmpresa(r)
    \/ AddUser(r) \/ FindUsuario(r) \/ FindPerfis(r) \/ Upsert(r)

Next ==
    \/ \E r \in Requests : Handle(r)
    \/ \E u \in Usuarios : FlipUsuario(u)
    \/ AllServed

Spec == Init /\ [][Next]_vars
-----------------------------------------------------------------------------
(* Properties.                                                             *)

\* Profile f has been of company e, or addUser has added to e in the context of a
\* company that f has been of.
Reached(f, e) == \E c \in been[f] : c = e \/ <<c, e>> \in foreign

\* A profile gets into the memberships of a company only from one that it has been
\* in: an administrator can hand out the profiles of the company of the header, and
\* no others, in whatever company the path names; and it stays in the memberships
\* that it has when it is moved.
MembershipScoped == \A u \in Usuarios, e \in Empresas : \A f \in membro[u][e] : Reached(f, e)

\* A profile that exists is changed only by a request in the context of the company
\* that it is in at that moment, also if it was moved after the request had found it.
TenantScoped == [][\A f \in Perfis :
    (row[f] # "none" /\ <<row[f], perfil[f]>>' # <<row[f], perfil[f]>>)
      => \E r \in Requests : f \in request[r].target
                             /\ request[r].ctx = perfil[f].empresa]_vars

\* A change of permissions drops the cache of everybody who holds the profile in the
\* company of the context, wherever the profile is by then.  It misses only members
\* of another company, where the profile has been or was handed out from outside.
InvalidationCovers == \A m \in missed :
    m[2] \in been[m[1]] /\ m[3] # m[2] /\ Reached(m[1], m[3])

\* Without transactions a write may rest on a row that is no longer as checked: a
\* removed permission is linked, a removed user made a member, a permission disabled
\* twice, a profile handed out by a company that it has left.  It takes another request
\* in between; otherwise every operation does what it would do in one step, and always
\* it keeps what CadastroStore asks for.
Store == INSTANCE CadastroStore

ImplementsCadastroStore == Store!Spec

\* The checks before an insertion leave races, for which the unique indexes stand:
\* no two profiles of a company have one name, and rows that others refer to exist.
UniqueNomes == \A f, g \in Perfis :
    f # g /\ perfil[f].empresa # None
      => <<perfil[f].empresa, perfil[f].nome>> # <<perfil[g].empresa, perfil[g].nome>>

References ==
    /\ \A f \in Perfis :
         /\ row[f] = "none" <=> perfil[f].empresa = None
         /\ perfil[f].empresa # None => row[perfil[f].empresa] # "none"
         /\ \A p \in perfil[f].permissoes : row[p] # "none"
    /\ \A u \in Usuarios, e \in Empresas : \A f \in membro[u][e] :
         row[f] # "none" /\ row[u] # "none" /\ row[e] # "none"

\* The history of a profile has the company that it is in.
HistoryKept == \A f \in Perfis :
    perfil[f].empresa # None => perfil[f].empresa \in been[f]

\* What a request has found of the rows it works on, and what lasts: rows are never
\* deleted, and a profile has been where it was found, though it may have left.
Sound(q) ==
    /\ \A p \in q.permissoes : row[p] # "none"
    /\ q.op \in {"patch", "permit"}
         => q.found \cap Perfis = {} /\ \E f \in Perfis : q.target = {f}
    /\ q.op \in {"createPerfil", "patch", "permit", "addUser"} => q.ctx \in Empresas
    /\ q.target \cap Perfis # {} => q.ctx \in Empresas
    /\ q.op \in {"createPerfil", "addUser"} => q.empresa \in Empresas
    /\ q.op = "permit" /\ q.at = "list" => \A f \in q.target : q.ctx \in been[f]
    /\ q.op = "addUser" => row[q.empresa] # "none"
    /\ q.op = "addUser" /\ q.at \in {"perfis", "write"}
         => \A u \in q.target \cap Usuarios : row[u] # "none"
    /\ q.op = "addUser" /\ q.at = "write"
         => \A f \in q.target \cap Perfis : q.ctx \in been[f]

AllSound == \A r \in Requests : Sound(request[r])

\* The rows that a request has checked are as it wants them, and profiles in the
\* company of its context, until it is overtaken.
AsChecked == \A r \in Requests \ overtaken : \A x \in request[r].found :
    /\ row[x] = Wanted(request[r])
    /\ x \in Perfis => perfil[x].empresa = request[r].ctx

\* What the write of a request relies on is among the rows that it has found, but
\* for the name, which is an argument, and what the tables check again.
ReliesOnFound(q) ==
    /\ q.op = "createPerfil" => q.nome \in Nomes
    /\ q.op \in {"createPerfil", "permit"} => q.permissoes \subseteq q.found
    /\ q.op \in {"disable", "restore"} => q.target \subseteq q.found
    /\ q.op = "addUser" => q.empresa \in q.found
    /\ q.op = "addUser" /\ q.at \in {"perfis", "write"}
         => q.target \cap Usuarios \subseteq q.found
    /\ q.op = "addUser" /\ q.at = "write" => q.target \cap Perfis \subseteq q.found

Based(q) == ReliesOnFound(q) /\ \A x \in q.found : row[x] # "none"

AllBased == \A r \in Requests : Based(request[r])

IInv ==
    /\ TypeOK
    /\ UniqueNomes
    /\ References
    /\ HistoryKept
    /\ AllSound
    /\ AllBased
    /\ AsChecked

\* design.md of permissoes: a removed permission "não SHALL constar no JWT do
\* usuário".  It does: the permissions of a profile are read without a filter.
Grants(u) == UNION {perfil[f].permissoes : f \in UNION {membro[u][e] : e \in Empresas}}

NoRemovedGrant == \A u \in Usuarios : Live(Grants(u))

\* perfil.entity.spec.ts: "codigo e empresaId imutáveis em partial update".  Not so:
\* a PATCH with empresaId moves the profile (WritePerfil).
EmpresaImmutable == [][\A f \in Perfis :
    row[f] # "none" => perfil'[f].empresa = perfil[f].empresa]_vars
=============================================================================
