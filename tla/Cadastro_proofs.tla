-------------------------- MODULE Cadastro_proofs ---------------------------
(***************************************************************************)
(* Cadastro: its invariants, for any companies, profiles, permissions,     *)
(* users and requests.  No operation is a transaction; the argument rests  *)
(* on what lasts between two queries: rows are never deleted, and the      *)
(* companies that a profile has been in and the links between companies    *)
(* are remembered.  That a profile stays in its company does not last.     *)
(***************************************************************************)
EXTENDS Cadastro, TLAPS

USE CadastroAssumption DEF Rows

Facts == TypeOK /\ UniqueNomes /\ References /\ HistoryKept /\ AllSound /\ AsChecked

Safe == Facts /\ MembershipScoped /\ InvalidationCovers

\* What lasts.
RowsLast == \A x \in Rows : row[x] # "none" => row'[x] # "none"

BeenLasts == \A f \in Perfis : been[f] \subseteq been'[f]

\* What q has found is as it wants it, and in the company of its context.
AsWanted(q) == \A x \in q.found :
    /\ row[x] = Wanted(q)
    /\ x \in Perfis => perfil[x].empresa = q.ctx

\* Nobody but r and those overtaken sees a row that it has checked change or move.
SeenByOthers(r) ==
    /\ overtaken \subseteq overtaken' /\ overtaken' \subseteq Requests
    /\ \A p \in Requests \ {r} :
         p \notin overtaken' => \A x \in request[p].found :
           /\ row'[x] = row[x]
           /\ x \in Perfis => perfil'[x].empresa = perfil[x].empresa

-----------------------------------------------------------------------------
(* Frames.                                                                 *)

LEMMA NoRequestTyped == NoRequest \in Request
BY DEF NoRequest, Request, Operations

\* The requests but r stay sound.
LEMMA SoundFrame ==
    ASSUME TypeOK, AllSound, RowsLast, BeenLasts, NEW r \in Requests, NEW q \in Request,
           request' = [request EXCEPT ![r] = q], Sound(q)'
    PROVE  AllSound'
<1> SUFFICES ASSUME NEW p \in Requests PROVE Sound(request[p])'
  BY DEF AllSound
<1>1. CASE p = r
  <2>1. request'[p] = q
    BY <1>1 DEF TypeOK
  <2> QED BY <2>1 DEF Sound
<1>2. CASE p # r
  <2>1. request'[p] = request[p] /\ request[p] \in Request /\ Sound(request[p])
    BY <1>2 DEF TypeOK, AllSound
  <2> QED BY <2>1 DEF Sound, RowsLast, BeenLasts, Request
<1> QED BY <1>1, <1>2

\* What they have checked stays as they want it, or they are overtaken.
LEMMA CheckedFrame ==
    ASSUME TypeOK, AsChecked, NEW r \in Requests, SeenByOthers(r), NEW q \in Request,
           request' = [request EXCEPT ![r] = q],
           r \notin overtaken' => AsWanted(q)'
    PROVE  AsChecked'
<1> SUFFICES ASSUME NEW p \in Requests, p \notin overtaken', NEW x \in request'[p].found
             PROVE  /\ row'[x] = Wanted(request[p])'
                    /\ x \in Perfis => perfil'[x].empresa = request'[p].ctx
  BY DEF AsChecked
<1>1. CASE p = r
  <2>1. request'[p] = q
    BY <1>1 DEF TypeOK
  <2> QED BY <1>1, <2>1 DEF Wanted, AsWanted
<1>2. CASE p # r
  <2>1. request'[p] = request[p]
    BY <1>2 DEF TypeOK
  <2>2. /\ row'[x] = row[x] /\ row[x] = Wanted(request[p])
        /\ x \in Perfis => perfil'[x].empresa = request[p].ctx
    BY <1>2, <2>1 DEF SeenByOthers, AsChecked
  <2> QED BY <2>1, <2>2 DEF Wanted
<1> QED BY <1>1, <1>2

\* A change of rows alone, which makes no profile.
LEMMA RowsFrame ==
    ASSUME TypeOK, UniqueNomes, References, HistoryKept, RowsLast,
           UNCHANGED <<perfil, membro, been>>,
           \A f \in Perfis : row[f] = "none" => row'[f] = "none"
    PROVE  UniqueNomes' /\ References' /\ HistoryKept' /\ BeenLasts
<1>1. UniqueNomes' /\ HistoryKept' /\ BeenLasts
  BY DEF UniqueNomes, HistoryKept, BeenLasts
<1>2. References'
  BY DEF References, RowsLast, TypeOK, Perfil
<1> QED BY <1>1, <1>2

\* What a profile has reached it has reached for good.
LEMMA ReachedLasts ==
    ASSUME BeenLasts, foreign \subseteq foreign', NEW f \in Perfis, NEW e, Reached(f, e)
    PROVE  Reached(f, e)'
<1>1. PICK c \in been[f] : c = e \/ <<c, e>> \in foreign
  BY DEF Reached
<1>2. c \in been'[f] /\ (c = e \/ <<c, e>> \in foreign')
  BY <1>1 DEF BeenLasts
<1> QED BY <1>2 DEF Reached

\* Memberships and lost invalidations that nothing touches.
LEMMA ScopeFrame ==
    ASSUME TypeOK, MembershipScoped, InvalidationCovers, BeenLasts,
           foreign \subseteq foreign', UNCHANGED <<membro, missed>>
    PROVE  MembershipScoped' /\ InvalidationCovers'
<1>1. MembershipScoped'
  <2> SUFFICES ASSUME NEW u \in Usuarios, NEW e \in Empresas, NEW f \in membro[u][e]
               PROVE  Reached(f, e)'
    BY DEF MembershipScoped
  <2>1. f \in Perfis /\ Reached(f, e)
    BY DEF TypeOK, MembershipScoped
  <2> QED BY <2>1, ReachedLasts
<1>2. InvalidationCovers'
  <2> SUFFICES ASSUME NEW m \in missed
               PROVE  m[2] \in been'[m[1]] /\ m[3] # m[2] /\ Reached(m[1], m[3])'
    BY DEF InvalidationCovers
  <2>1. m[1] \in Perfis /\ m[2] \in been[m[1]] /\ m[3] # m[2] /\ Reached(m[1], m[3])
    BY DEF TypeOK, InvalidationCovers
  <2>2. Reached(m[1], m[3])'
    BY <2>1, ReachedLasts
  <2> QED BY <2>1, <2>2 DEF BeenLasts
<1> QED BY <1>1, <1>2

\* No row is deleted.
LEMMA SetRowLasts ==
    ASSUME TypeOK, NEW r \in Requests, NEW x \in Rows, NEW state \in {"live", "removed"},
           SetRow(r, x, state)
    PROVE  /\ row' = [row EXCEPT ![x] = state]
           /\ row' \in [Rows -> {"none", "live", "removed"}]
           /\ RowsLast
<1>1. row' = [row EXCEPT ![x] = state] /\ row \in [Rows -> {"none", "live", "removed"}]
  BY DEF SetRow, TypeOK
<1> QED BY <1>1 DEF RowsLast

\* SetRow makes a row or changes it, and overtakes who has checked it.
LEMMA SetRowEffect ==
    ASSUME TypeOK, NEW r \in Requests, NEW x \in Rows, NEW state \in {"live", "removed"},
           SetRow(r, x, state),
           \A g \in Perfis : g # x \/ row[x] = state => perfil'[g].empresa = perfil[g].empresa
    PROVE  /\ row' = [row EXCEPT ![x] = state]
           /\ row' \in [Rows -> {"none", "live", "removed"}]
           /\ RowsLast /\ SeenByOthers(r)
<1>1. /\ row' = [row EXCEPT ![x] = state]
      /\ row' \in [Rows -> {"none", "live", "removed"}]
      /\ RowsLast
  BY SetRowLasts
<1>2. SeenByOthers(r)
  <2>1. \A p \in Requests : request[p].found \subseteq Rows
    BY DEF TypeOK, Request
  <2>2. \A y \in Rows \ {x} : row'[y] = row[y]
    BY <1>1 DEF TypeOK
  <2>3. CASE row[x] = state
    <3>1. row' = row
      BY <1>1, <2>3 DEF TypeOK
    <3> QED BY <2>1, <2>3, <3>1 DEF SetRow, SeenByOthers, TypeOK
  <2>4. CASE row[x] # state
    BY <2>1, <2>2, <2>4 DEF SetRow, Overtake, SeenByOthers, TypeOK
  <2> QED BY <2>3, <2>4
<1> QED BY <1>1, <1>2

-----------------------------------------------------------------------------
(* How a request goes on.                                                  *)

\* The request that End leaves.
LEMMA EndEffect ==
    ASSUME TypeOK, NEW r \in Requests, NEW status \in Ended, End(r, status)
    PROVE  \E q \in Request : /\ request' = [request EXCEPT ![r] = q]
                              /\ q.found = {} /\ Sound(q)' /\ Sound(q)
<1> DEFINE q == [NoRequest EXCEPT !.at = status]
<1>1. q \in Request /\ q.found = {} /\ q.op = "none" /\ q.permissoes = {} /\ q.target = {}
  BY DEF NoRequest, Request, Operations
<1>2. request' = [request EXCEPT ![r] = q]
  BY DEF End
<1> HIDE DEF q
<1>3. Sound(q)' /\ Sound(q)
  BY <1>1 DEF Sound
<1> QED BY <1>1, <1>2, <1>3

\* A query that finds what it wants, or nothing that matters, changes the request alone.
LEMMA ReadStep ==
    ASSUME Safe, NEW r \in Requests, NEW q \in Request, request' = [request EXCEPT ![r] = q],
           UNCHANGED unchangedByRead, Sound(q),
           r \notin overtaken => AsWanted(q)
    PROVE  Safe'
<1> USE DEF Safe, Facts, unchangedByRead, tables
<1>1. TypeOK'
  BY DEF TypeOK
<1>2. RowsLast /\ SeenByOthers(r)
  BY DEF RowsLast, SeenByOthers, TypeOK
<1>3. Sound(q)'
  BY DEF Sound
<1>4. UniqueNomes' /\ References' /\ HistoryKept' /\ BeenLasts
  BY <1>2, RowsFrame
<1>5. AllSound'
  BY <1>2, <1>3, <1>4, SoundFrame
<1>6. AsWanted(q) => AsWanted(q)'
  BY DEF AsWanted, Wanted
<1>7. AsChecked'
  BY <1>2, <1>6, CheckedFrame
<1>8. MembershipScoped' /\ InvalidationCovers'
  BY <1>4, ScopeFrame
<1> QED BY <1>1, <1>4, <1>5, <1>7, <1>8

\* So does an answer.
LEMMA EndStep ==
    ASSUME Safe, NEW r \in Requests, NEW status \in Ended, End(r, status),
           UNCHANGED unchangedByRead
    PROVE  Safe'
<1>1. PICK q \in Request : request' = [request EXCEPT ![r] = q] /\ q.found = {} /\ Sound(q)
  BY EndEffect DEF Safe, Facts
<1>2. AsWanted(q)
  BY <1>1 DEF AsWanted
<1> QED BY <1>1, <1>2, ReadStep

\* Proceed of a request p that is typed.
LEMMA ProceedTyped ==
    ASSUME TypeOK, NEW r \in Requests, NEW p \in Request, NEW X \in SUBSET Rows,
           NEW a \in {"name", "perfil", "usuario", "perfis", "write", "list"},
           Proceed(r, p, a, X)
    PROVE  \E q \in Request :
             /\ request' = [request EXCEPT ![r] = q]
             /\ q.at = a /\ q.found = p.found \cup X
             /\ q.op = p.op /\ q.ctx = p.ctx /\ q.empresa = p.empresa /\ q.target = p.target
             /\ q.nome = p.nome /\ q.permissoes = p.permissoes
<1> DEFINE q == [p EXCEPT !.at = a, !.found = @ \cup X]
<1>1. q \in Request
  BY DEF Request
<1>2. /\ q.at = a /\ q.found = p.found \cup X
      /\ q.op = p.op /\ q.ctx = p.ctx /\ q.empresa = p.empresa /\ q.target = p.target
      /\ q.nome = p.nome /\ q.permissoes = p.permissoes
  BY DEF Request
<1>3. request' = [request EXCEPT ![r] = q]
  BY DEF Proceed
<1> HIDE DEF q
<1> QED BY <1>1, <1>2, <1>3

-----------------------------------------------------------------------------
(* Queries.                                                                *)

\* What p becomes at step a, when it has found the rows of X, is sound.
SoundAt(a, p, X) == \A q \in Request :
    /\ q.at = a /\ q.op = p.op /\ q.ctx = p.ctx /\ q.empresa = p.empresa
    /\ q.target = p.target /\ q.permissoes = p.permissoes /\ q.found = p.found \cup X
    => Sound(q)

\* A request that has passed a query, its first or one more, and has found the rows of
\* X, goes on to step a.
LEMMA GoesOn ==
    ASSUME Safe, NEW r \in Requests, NEW a \in {"name", "perfil", "usuario", "perfis", "write", "list"},
           NEW X \in SUBSET Rows, NEW p \in Request, p = request[r] \/ p.found = {},
           Proceed(r, p, a, X), UNCHANGED unchangedByRead,
           \A x \in X : row[x] = Wanted(p),
           \A x \in X \cap Perfis : perfil[x].empresa = p.ctx,
           SoundAt(a, p, X)
    PROVE  Safe'
<1>1. TypeOK
  BY DEF Safe, Facts
<1>2. PICK q \in Request :
        /\ request' = [request EXCEPT ![r] = q]
        /\ q.at = a /\ q.found = p.found \cup X
        /\ q.op = p.op /\ q.ctx = p.ctx /\ q.empresa = p.empresa /\ q.target = p.target
        /\ q.nome = p.nome /\ q.permissoes = p.permissoes
  BY <1>1, ProceedTyped
<1>3. Sound(q)
  BY <1>2 DEF SoundAt
<1>4. r \notin overtaken => AsWanted(q)
  <2>1. r \notin overtaken => AsWanted(request[r])
    BY DEF Safe, Facts, AsChecked, AsWanted
  <2> QED BY <1>2, <2>1 DEF Wanted, AsWanted
<1> QED BY <1>2, <1>3, <1>4, ReadStep

LEMMA CreatePerfilSafe ==
    ASSUME Safe, NEW r \in Requests, CreatePerfil(r)
    PROVE  Safe'
<1>1. PICK c \in Empresas, e \in Empresas, n \in Nomes, S \in SUBSET Permissoes :
        IF PermissoesFound(S)
        THEN Proceed(r, [NoRequest EXCEPT !.op = "createPerfil", !.ctx = c,
                           !.empresa = e, !.nome = n, !.permissoes = S], "name", S)
        ELSE End(r, "404")
  BY DEF CreatePerfil
<1>2. UNCHANGED unchangedByRead
  BY DEF CreatePerfil
<1>3. CASE ~PermissoesFound(S)
  BY <1>1, <1>2, <1>3, EndStep DEF Ended
<1>4. CASE PermissoesFound(S)
  <2> DEFINE p == [NoRequest EXCEPT !.op = "createPerfil", !.ctx = c,
                                    !.empresa = e, !.nome = n, !.permissoes = S]
  <2>1. /\ p \in Request /\ p.op = "createPerfil" /\ p.ctx = c /\ p.empresa = e
        /\ p.permissoes = S /\ p.found = {}
    BY DEF NoRequest, Request, Operations
  <2>2. Proceed(r, p, "name", S)
    BY <1>1, <1>4
  <2> HIDE DEF p
  <2>3. \A x \in S : row[x] = "live"
    BY <1>4 DEF PermissoesFound, Live
  <2>4. SoundAt("name", p, S)
    BY <2>1, <2>3 DEF Sound, SoundAt
  <2>5. \A x \in S : row[x] = Wanted(p)
    BY <2>1, <2>3 DEF Wanted
  <2>6. S \in SUBSET Rows
    OBVIOUS
  <2>7. \A x \in S \cap Perfis : perfil[x].empresa = p.ctx
    OBVIOUS
  <2> QED BY <1>2, <2>1, <2>2, <2>4, <2>5, <2>6, <2>7, GoesOn
<1> QED BY <1>3, <1>4

LEMMA CheckNomeSafe ==
    ASSUME Safe, NEW r \in Requests, CheckNome(r)
    PROVE  Safe'
<1>1. CASE End(r, "409")
  BY <1>1, EndStep DEF CheckNome, Ended
<1>2. CASE Proceed(r, request[r], "write", {})
  <2>1. request[r] \in Request /\ Sound(request[r]) /\ request[r].op = "createPerfil"
    BY DEF Safe, Facts, TypeOK, AllSound, CheckNome, At
  <2>2. SoundAt("write", request[r], {})
    BY <2>1 DEF Sound, SoundAt
  <2>3. UNCHANGED unchangedByRead
    BY DEF CheckNome
  <2> QED BY <1>2, <2>1, <2>2, <2>3, GoesOn
<1> QED BY <1>1, <1>2 DEF CheckNome

LEMMA FindUsuarioSafe ==
    ASSUME Safe, NEW r \in Requests, FindUsuario(r)
    PROVE  Safe'
<1> DEFINE U == request[r].target \cap Usuarios
<1>1. CASE End(r, "404")
  BY <1>1, EndStep DEF FindUsuario, Ended
<1>2. CASE Live(U) /\ Proceed(r, request[r], "perfis", U)
  <2>1. request[r] \in Request /\ Sound(request[r]) /\ request[r].op = "addUser"
    BY DEF Safe, Facts, TypeOK, AllSound, FindUsuario, At
  <2>2. \A x \in U : row[x] = "live"
    BY <1>2 DEF Live
  <2>3. SoundAt("perfis", request[r], U)
    BY <2>1, <2>2 DEF Sound, SoundAt
  <2>4. UNCHANGED unchangedByRead
    BY DEF FindUsuario
  <2>5. \A x \in U : row[x] = Wanted(request[r])
    BY <2>1, <2>2 DEF Wanted
  <2>6. U \in SUBSET Rows
    OBVIOUS
  <2>7. \A x \in U \cap Perfis : perfil[x].empresa = request[r].ctx
    OBVIOUS
  <2> HIDE DEF U
  <2> QED BY <1>2, <2>1, <2>3, <2>4, <2>5, <2>6, <2>7, GoesOn
<1> QED BY <1>1, <1>2 DEF FindUsuario

LEMMA FindPerfisSafe ==
    ASSUME Safe, NEW r \in Requests, FindPerfis(r)
    PROVE  Safe'
<1> DEFINE F == request[r].target \cap Perfis
<1>1. CASE End(r, "404")
  BY <1>1, EndStep DEF FindPerfis, Ended
<1>2. CASE F \subseteq VisiblePerfis(request[r].ctx) /\ Proceed(r, request[r], "write", F)
  <2>1. request[r] \in Request /\ Sound(request[r]) /\ request[r].op = "addUser" /\ request[r].at = "perfis"
    BY DEF Safe, Facts, TypeOK, AllSound, FindPerfis, At
  <2>2. \A f \in F : row[f] = "live" /\ perfil[f].empresa = request[r].ctx
    BY <1>2 DEF VisiblePerfis, InContext
  <2>3. SoundAt("write", request[r], F)
    BY <2>1, <2>2 DEF Sound, SoundAt, Safe, Facts, HistoryKept
  <2>4. UNCHANGED unchangedByRead
    BY DEF FindPerfis
  <2>5. \A x \in F : row[x] = Wanted(request[r])
    BY <2>1, <2>2 DEF Wanted
  <2>6. F \in SUBSET Rows
    OBVIOUS
  <2>7. \A x \in F \cap Perfis : perfil[x].empresa = request[r].ctx
    BY <2>2
  <2> HIDE DEF F
  <2> QED BY <1>2, <2>1, <2>3, <2>4, <2>5, <2>6, <2>7, GoesOn
<1> QED BY <1>1, <1>2 DEF FindPerfis

\* The common part of FindPerfil: q is to change the profile f, in its company.
LEMMA FindPerfilSafe ==
    ASSUME Safe, NEW r \in Requests, NEW q \in Request, NEW f \in Perfis, UNCHANGED unchangedByRead,
           q = request[r] \/ q.found = {}, FindPerfil(r, q, f),
           q.op \in {"patch", "permit", "disable", "restore"}, q.ctx \in Empresas,
           q.target = {f}, \A p \in q.permissoes : row[p] # "none",
           q.op \in {"patch", "permit"} => q.found \cap Perfis = {}
    PROVE  Safe'
<1> DEFINE Goes(X) == Proceed(r, q, "write", X)
<1>1. CASE \E status \in Ended : End(r, status)
  BY <1>1, EndStep
<1>2. ASSUME perfil[f].empresa = q.ctx, NEW X \in SUBSET Rows, Goes(X), \A x \in X : row[x] = Wanted(q),
             X \subseteq {f}, q.op \in {"patch", "permit"} => X = {}
      PROVE  Safe'
  <2>1. SoundAt("write", q, X)
    BY <1>2 DEF Sound, SoundAt
  <2>2. \A x \in X \cap Perfis : perfil[x].empresa = q.ctx
    BY <1>2
  <2> QED BY <1>2, <2>1, <2>2, GoesOn
<1>3. CASE InContext(q.ctx, f) /\ Goes({})
  BY <1>2, <1>3 DEF InContext
<1>4. CASE InContext(q.ctx, f) /\ q.op \in {"disable", "restore"} /\ row[f] = Wanted(q) /\ Goes({f})
  <2>1. {f} \in SUBSET Rows /\ \A x \in {f} : row[x] = Wanted(q)
    BY <1>4
  <2> QED BY <1>2, <1>4, <2>1 DEF InContext
<1> QED BY <1>1, <1>3, <1>4 DEF FindPerfil, Ended

LEMMA UpdateTyped ==
    ASSUME NEW op \in {"patch", "permit", "disable", "restore"}, NEW c \in Empresas,
           NEW f \in Perfis, NEW e \in Empresas \cup {None}, NEW n \in Nomes \cup {None},
           NEW S \in SUBSET Permissoes, NEW p, p = Update(op, c, f, e, n, S)
    PROVE  /\ p \in Request /\ p.op = op /\ p.ctx = c /\ p.target = {f}
           /\ p.permissoes = S /\ p.found = {}
BY DEF Update, NoRequest, Request, Operations

LEMMA UpdatePerfilSafe ==
    ASSUME Safe, NEW r \in Requests, UpdatePerfil(r)
    PROVE  Safe'
<1>0. UNCHANGED unchangedByRead
  BY DEF UpdatePerfil
<1>1. PICK c \in Empresas, f \in Perfis :
        \/ \E op \in {"disable", "restore"} :
             FindPerfil(r, Update(op, c, f, None, None, {}), f)
        \/ \E e \in Empresas \cup {None}, n \in Nomes \cup {None} :
             \/ FindPerfil(r, Update("patch", c, f, e, n, {}), f)
             \/ \E S \in SUBSET Permissoes :
                  IF PermissoesFound(S)
                  THEN Proceed(r, Update("permit", c, f, e, n, S), "perfil", S)
                  ELSE End(r, "404")
  BY DEF UpdatePerfil
<1>2. ASSUME NEW op \in {"patch", "disable", "restore"}, NEW e \in Empresas \cup {None},
             NEW n \in Nomes \cup {None}, FindPerfil(r, Update(op, c, f, e, n, {}), f)
      PROVE  Safe'
  <2> DEFINE p == Update(op, c, f, e, n, {})
  <2>1. /\ p \in Request /\ p.op = op /\ p.ctx = c /\ p.target = {f}
        /\ p.permissoes = {} /\ p.found = {}
    BY UpdateTyped
  <2>2. FindPerfil(r, p, f)
    BY <1>2
  <2> HIDE DEF p
  <2> QED BY <1>0, <2>1, <2>2, FindPerfilSafe
<1>3. ASSUME NEW e \in Empresas \cup {None}, NEW n \in Nomes \cup {None},
             NEW S \in SUBSET Permissoes, PermissoesFound(S),
             Proceed(r, Update("permit", c, f, e, n, S), "perfil", S)
      PROVE  Safe'
  <2> DEFINE p == Update("permit", c, f, e, n, S)
  <2>1. /\ p \in Request /\ p.op = "permit" /\ p.ctx = c /\ p.target = {f}
        /\ p.permissoes = S /\ p.found = {}
    BY UpdateTyped
  <2>2. Proceed(r, p, "perfil", S)
    BY <1>3
  <2> HIDE DEF p
  <2>3. \A x \in S : row[x] = "live"
    BY <1>3 DEF PermissoesFound, Live
  <2>4. SoundAt("perfil", p, S)
    <3>1. S \cap Perfis = {}
      OBVIOUS
    <3> QED BY <2>1, <2>3, <3>1 DEF Sound, SoundAt
  <2>5. \A x \in S : row[x] = Wanted(p)
    BY <2>1, <2>3 DEF Wanted
  <2>6. S \in SUBSET Rows
    OBVIOUS
  <2>7. \A x \in S \cap Perfis : perfil[x].empresa = p.ctx
    OBVIOUS
  <2> QED BY <1>0, <2>1, <2>2, <2>4, <2>5, <2>6, <2>7, GoesOn
<1>4. CASE End(r, "404")
  BY <1>0, <1>4, EndStep DEF Ended
<1> QED BY <1>1, <1>2, <1>3, <1>4

LEMMA FindPerfilToPermitSafe ==
    ASSUME Safe, NEW r \in Requests, FindPerfilToPermit(r)
    PROVE  Safe'
<1>1. /\ request[r] \in Request /\ request[r].op = "permit" /\ Sound(request[r])
      /\ UNCHANGED unchangedByRead
  BY DEF Safe, Facts, TypeOK, AllSound, FindPerfilToPermit, At
<1>2. PICK f \in request[r].target : FindPerfil(r, request[r], f)
  BY DEF FindPerfilToPermit
<1>3. /\ f \in Perfis /\ request[r].target = {f} /\ request[r].ctx \in Empresas
      /\ \A p \in request[r].permissoes : row[p] # "none"
      /\ request[r].found \cap Perfis = {}
  BY <1>1, <1>2 DEF Sound
<1> QED BY <1>1, <1>2, <1>3, FindPerfilSafe

LEMMA ChangePermissaoSafe ==
    ASSUME Safe, NEW r \in Requests, ChangePermissao(r)
    PROVE  Safe'
<1>0. UNCHANGED unchangedByRead
  BY DEF ChangePermissao
<1>1. PICK p \in Permissoes, op \in {"disable", "restore"} :
        LET q == [NoRequest EXCEPT !.op = op, !.target = {p}] IN
        \/ row[p] = "none" /\ End(r, "404")
        \/ row[p] \notin {"none", Wanted(q)} /\ End(r, "409")
        \/ row[p] = Wanted(q) /\ (End(r, "403") \/ Proceed(r, q, "write", {p}))
  BY DEF ChangePermissao
<1> DEFINE q == [NoRequest EXCEPT !.op = op, !.target = {p}]
<1>2. q \in Request /\ q.op = op /\ q.permissoes = {} /\ q.found = {} /\ q.target \cap Perfis = {}
  BY DEF NoRequest, Request, Operations
<1>3. CASE \E status \in Ended : End(r, status)
  BY <1>0, <1>3, EndStep
<1>4. CASE row[p] = Wanted(q) /\ Proceed(r, q, "write", {p})
  <2> HIDE DEF q
  <2>1. SoundAt("write", q, {p})
    BY <1>2 DEF Sound, SoundAt
  <2>2. {p} \in SUBSET Rows /\ \A x \in {p} : row[x] = Wanted(q)
    BY <1>4
  <2>3. \A x \in {p} \cap Perfis : perfil[x].empresa = q.ctx
    OBVIOUS
  <2> QED BY <1>0, <1>2, <1>4, <2>1, <2>2, <2>3, GoesOn
<1> QED BY <1>1, <1>3, <1>4 DEF Ended

LEMMA ChangeEmpresaSafe ==
    ASSUME Safe, NEW r \in Requests, ChangeEmpresa(r)
    PROVE  Safe'
<1>0. UNCHANGED unchangedByRead
  BY DEF ChangeEmpresa
<1>1. PICK e \in Empresas, op \in {"update", "disable"} :
        IF row[e] = "live"
        THEN Proceed(r, [NoRequest EXCEPT !.op = op, !.target = {e}], "write", {e})
        ELSE End(r, "404")
  BY DEF ChangeEmpresa
<1> DEFINE q == [NoRequest EXCEPT !.op = op, !.target = {e}]
<1>2. q \in Request /\ q.op = op /\ q.permissoes = {} /\ q.found = {} /\ q.target \cap Perfis = {}
  BY DEF NoRequest, Request, Operations
<1>3. CASE End(r, "404")
  BY <1>0, <1>3, EndStep DEF Ended
<1>4. CASE row[e] = "live" /\ Proceed(r, q, "write", {e})
  <2> HIDE DEF q
  <2>1. SoundAt("write", q, {e})
    BY <1>2 DEF Sound, SoundAt
  <2>2. {e} \in SUBSET Rows /\ \A x \in {e} : row[x] = Wanted(q)
    BY <1>2, <1>4 DEF Wanted
  <2>3. \A x \in {e} \cap Perfis : perfil[x].empresa = q.ctx
    OBVIOUS
  <2> QED BY <1>0, <1>2, <1>4, <2>1, <2>2, <2>3, GoesOn
<1> QED BY <1>1, <1>3, <1>4

\* The check of a creation.
LEMMA CheckNewSafe ==
    ASSUME Safe, NEW r \in Requests, NEW X \in SUBSET (Rows \ Perfis), CheckNew(r, X)
    PROVE  Safe'
<1>0. UNCHANGED unchangedByRead
  BY DEF CheckNew
<1>1. PICK x \in X :
        IF row[x] = "live" THEN End(r, "409")
        ELSE Proceed(r, [NoRequest EXCEPT !.op = "create", !.target = {x}], "write", {})
  BY DEF CheckNew
<1> DEFINE q == [NoRequest EXCEPT !.op = "create", !.target = {x}]
<1>2. /\ q \in Request /\ q.op = "create" /\ q.permissoes = {} /\ q.found = {}
      /\ q.target \cap Perfis = {}
  BY DEF NoRequest, Request, Operations
<1>3. CASE End(r, "409")
  BY <1>0, <1>3, EndStep DEF Ended
<1>4. CASE Proceed(r, q, "write", {})
  <2> HIDE DEF q
  <2>1. SoundAt("write", q, {})
    BY <1>2 DEF Sound, SoundAt
  <2> QED BY <1>0, <1>2, <1>4, <2>1, GoesOn
<1> QED BY <1>1, <1>3, <1>4

LEMMA AddUserSafe ==
    ASSUME Safe, NEW r \in Requests, AddUser(r)
    PROVE  Safe'
<1>0. UNCHANGED unchangedByRead
  BY DEF AddUser
<1>1. PICK c \in Empresas, e \in Empresas, u \in Usuarios, F \in SUBSET Perfis :
        IF row[e] = "live"
        THEN Proceed(r, [NoRequest EXCEPT !.op = "addUser", !.ctx = c, !.empresa = e,
                           !.target = {u} \cup F], "usuario", {e})
        ELSE End(r, "404")
  BY DEF AddUser
<1> DEFINE q == [NoRequest EXCEPT !.op = "addUser", !.ctx = c, !.empresa = e,
                                  !.target = {u} \cup F]
<1>2. /\ q \in Request /\ q.op = "addUser" /\ q.ctx = c /\ q.empresa = e
      /\ q.permissoes = {} /\ q.found = {}
  BY DEF NoRequest, Request, Operations
<1>3. CASE End(r, "404")
  BY <1>0, <1>3, EndStep DEF Ended
<1>4. CASE row[e] = "live" /\ Proceed(r, q, "usuario", {e})
  <2> HIDE DEF q
  <2>1. SoundAt("usuario", q, {e})
    BY <1>2, <1>4 DEF Sound, SoundAt
  <2>2. {e} \in SUBSET Rows /\ \A x \in {e} : row[x] = Wanted(q)
    BY <1>2, <1>4 DEF Wanted
  <2>3. \A x \in {e} \cap Perfis : perfil[x].empresa = q.ctx
    OBVIOUS
  <2> QED BY <1>0, <1>2, <1>4, <2>1, <2>2, <2>3, GoesOn
<1> QED BY <1>1, <1>3, <1>4

-----------------------------------------------------------------------------
(* Writes.                                                                 *)

\* A request ends whose change the others have seen.
LEMMA EndedStep ==
    ASSUME TypeOK, AllSound, AsChecked, RowsLast, BeenLasts, NEW r \in Requests,
           SeenByOthers(r), NEW status \in Ended, End(r, status)
    PROVE  /\ request' \in [Requests -> Request]
           /\ AllSound' /\ AsChecked'
<1>1. PICK q \in Request : request' = [request EXCEPT ![r] = q] /\ q.found = {} /\ Sound(q)'
  BY EndEffect
<1>2. AsWanted(q)'
  BY <1>1 DEF AsWanted
<1>3. request' \in [Requests -> Request]
  BY <1>1 DEF TypeOK
<1> QED BY <1>1, <1>2, <1>3, SoundFrame, CheckedFrame

\* A step that changes rows alone, makes no profile, and ends its request.
LEMMA RowStep ==
    ASSUME Safe, NEW r \in Requests, NEW x \in Rows, NEW state \in {"live", "removed"},
           SetRow(r, x, state), x \in Perfis => row[x] # "none",
           NEW status \in Ended, End(r, status),
           UNCHANGED <<perfil, membro, been, foreign, missed>>
    PROVE  Safe'
<1> USE DEF Safe, Facts
<1>1. /\ row' = [row EXCEPT ![x] = state]
      /\ row' \in [Rows -> {"none", "live", "removed"}]
      /\ RowsLast /\ SeenByOthers(r)
  BY SetRowEffect
<1>2. \A f \in Perfis : row[f] = "none" => row'[f] = "none"
  BY <1>1 DEF TypeOK
<1>3. UniqueNomes' /\ References' /\ HistoryKept' /\ BeenLasts
  BY <1>1, <1>2, RowsFrame
<1>4. request' \in [Requests -> Request] /\ AllSound' /\ AsChecked'
  BY <1>1, <1>3, EndedStep
<1>5. TypeOK'
  BY <1>1, <1>4 DEF TypeOK, SeenByOthers
<1>6. MembershipScoped' /\ InvalidationCovers'
  BY <1>3, ScopeFrame
<1> QED BY <1>3, <1>4, <1>5, <1>6

LEMMA FlipSafe ==
    ASSUME Safe, NEW r \in Requests, NEW x \in Rows, Flip(r, x), x \in Perfis => row[x] # "none"
    PROVE  Safe'
<1>1. PICK state \in {"live", "removed"} : SetRow(r, x, state)
  BY DEF Flip, SoftDelete
<1> QED BY <1>1, RowStep DEF Flip, Ended

LEMMA InsertSafe ==
    ASSUME Safe, NEW r \in Requests, NEW X \in SUBSET (Rows \ Perfis), Insert(r, X)
    PROVE  Safe'
<1>1. UNCHANGED <<perfil, membro, been, foreign, missed>>
  BY DEF Insert
<1>2. CASE End(r, "409") /\ UNCHANGED <<row, overtaken>>
  BY <1>1, <1>2, EndStep DEF Ended, unchangedByRead, tables
<1>3. ASSUME NEW x \in X, SetRow(r, x, "live"), End(r, "200") PROVE Safe'
  <2> QED BY <1>1, <1>3, RowStep DEF Ended
<1> QED BY <1>2, <1>3 DEF Insert

LEMMA CreateEmpresaSafe ==
    ASSUME Safe, NEW r \in Requests, CreateEmpresa(r)
    PROVE  Safe'
<1>1. UNCHANGED <<perfil, membro, been, foreign, missed>>
  BY DEF CreateEmpresa
<1>2. CASE End(r, "500") /\ UNCHANGED <<row, overtaken>>
  BY <1>1, <1>2, EndStep DEF Ended, unchangedByRead, tables
<1>3. ASSUME NEW e \in Empresas, SetRow(r, e, "live"), End(r, "200") PROVE Safe'
  <2> QED BY <1>1, <1>3, RowStep DEF Ended
<1> QED BY <1>2, <1>3 DEF CreateEmpresa

LEMMA UpdateEmpresaSafe ==
    ASSUME Safe, NEW r \in Requests, UpdateEmpresa(r)
    PROVE  Safe'
BY EndStep DEF UpdateEmpresa, Ended

\* No request is changed by the disabling or restoring of a user.
LEMMA FlipUsuarioSafe ==
    ASSUME Safe, NEW u \in Usuarios, FlipUsuario(u)
    PROVE  Safe'
<1> USE DEF Safe, Facts
<1>1. /\ row' \in [Rows -> {"none", "live", "removed"}] /\ RowsLast
      /\ \A x \in Rows \ {u} : row'[x] = row[x]
  BY DEF TypeOK, FlipUsuario, RowsLast
<1>2. UniqueNomes' /\ References' /\ HistoryKept' /\ BeenLasts
  BY <1>1, RowsFrame DEF FlipUsuario
<1>3. TypeOK'
  BY <1>1 DEF TypeOK, FlipUsuario
<1>4. AllSound'
  <2> SUFFICES ASSUME NEW p \in Requests PROVE Sound(request[p])'
    BY DEF AllSound
  <2>1. request'[p] = request[p] /\ request[p] \in Request /\ Sound(request[p])
    BY DEF TypeOK, AllSound, FlipUsuario
  <2> QED BY <1>1, <1>2, <2>1 DEF Sound, RowsLast, BeenLasts, Request
<1>5. AsChecked'
  <2> SUFFICES ASSUME NEW p \in Requests, p \notin overtaken', NEW x \in request'[p].found
               PROVE  /\ row'[x] = Wanted(request[p])'
                      /\ x \in Perfis => perfil'[x].empresa = request'[p].ctx
    BY DEF AsChecked
  <2>1. request'[p] = request[p] /\ request[p].found \subseteq Rows
    BY DEF TypeOK, Request, FlipUsuario
  <2>2. x # u /\ p \notin overtaken
    BY <2>1 DEF FlipUsuario
  <2> QED BY <1>1, <2>1, <2>2 DEF AsChecked, Wanted, FlipUsuario
<1>6. MembershipScoped' /\ InvalidationCovers'
  BY <1>2, ScopeFrame DEF FlipUsuario
<1> QED BY <1>2, <1>3, <1>4, <1>5, <1>6

\* A profile that gets a row of a company that exists, and of a name that is free there:
\* names stay unique and references exist.
LEMMA PerfilFrame ==
    ASSUME TypeOK, UniqueNomes, References, HistoryKept, RowsLast,
           row' \in [Rows -> {"none", "live", "removed"}],
           NEW f \in Perfis, NEW new \in Perfil, new.empresa \in Empresas, row[new.empresa] # "none",
           perfil' = [perfil EXCEPT ![f] = new],
           been' = [been EXCEPT ![f] = @ \cup {new.empresa}],
           \A p \in new.permissoes : row[p] # "none",
           \A g \in Perfis \ {f} :
              <<perfil[g].empresa, perfil[g].nome>> # <<new.empresa, new.nome>>,
           row'[f] # "none", \A g \in Perfis \ {f} : row'[g] = row[g],
           UNCHANGED membro
    PROVE  /\ UniqueNomes' /\ References' /\ HistoryKept' /\ BeenLasts
           /\ perfil' \in [Perfis -> Perfil] /\ been' \in [Perfis -> SUBSET Empresas]
<1>1. /\ perfil' \in [Perfis -> Perfil] /\ perfil'[f] = new
      /\ \A g \in Perfis \ {f} : perfil'[g] = perfil[g]
  BY DEF TypeOK
<1>2. /\ been' \in [Perfis -> SUBSET Empresas] /\ been'[f] = been[f] \cup {new.empresa}
      /\ \A g \in Perfis \ {f} : been'[g] = been[g]
  BY DEF TypeOK
<1>3. BeenLasts /\ HistoryKept'
  BY <1>1, <1>2 DEF BeenLasts, HistoryKept
<1>4. UniqueNomes'
  <2> SUFFICES ASSUME NEW g \in Perfis, NEW h \in Perfis, g # h, perfil'[g].empresa # None
               PROVE  <<perfil'[g].empresa, perfil'[g].nome>> # <<perfil'[h].empresa, perfil'[h].nome>>
    BY DEF UniqueNomes
  <2>1. CASE g = f
    BY <1>1, <2>1
  <2>2. CASE h = f
    BY <1>1, <2>2
  <2>3. CASE g # f /\ h # f
    BY <1>1, <2>3 DEF UniqueNomes
  <2> QED BY <2>1, <2>2, <2>3
<1>5. References'
  <2>1. ASSUME NEW g \in Perfis
        PROVE  /\ row'[g] = "none" <=> perfil'[g].empresa = None
               /\ perfil'[g].empresa # None => row'[perfil'[g].empresa] # "none"
               /\ \A p \in perfil'[g].permissoes : row'[p] # "none"
    <3>1. CASE g = f
      <4>1. new.permissoes \subseteq Rows /\ new.empresa # None
        BY DEF Perfil
      <4> QED BY <1>1, <3>1, <4>1 DEF RowsLast
    <3>2. CASE g # f
      <4>1. perfil'[g] = perfil[g] /\ row'[g] = row[g] /\ perfil[g] \in Perfil
        BY <1>1, <3>2 DEF TypeOK
      <4> QED BY <4>1 DEF References, RowsLast, Perfil
    <3> QED BY <3>1, <3>2
  <2>2. ASSUME NEW u \in Usuarios, NEW e \in Empresas, NEW g \in membro'[u][e]
        PROVE  row'[g] # "none" /\ row'[u] # "none" /\ row'[e] # "none"
    <3>1. membro' = membro /\ g \in Perfis
      BY <2>2 DEF TypeOK
    <3> QED BY <2>2, <3>1 DEF References, RowsLast
  <2> QED BY <2>1, <2>2 DEF References
<1> QED BY <1>1, <1>2, <1>3, <1>4, <1>5

\* A profile that is inserted is in no membership yet, and its name is free.
LEMMA InsertPerfilSafe ==
    ASSUME Safe, NEW r \in Requests, InsertPerfil(r)
    PROVE  Safe'
<1> USE DEF Safe, Facts
<1> DEFINE q == request[r]
           new == [empresa |-> q.empresa, nome |-> q.nome, permissoes |-> q.permissoes]
<1>1. CASE (\E status \in Ended : End(r, status)) /\ UNCHANGED <<tables, been, overtaken>>
  BY <1>1, EndStep DEF InsertPerfil, unchangedByRead
<1>2. ASSUME NEW f \in Perfis, row[f] = "none", SetRow(r, f, "live"),
             perfil' = [perfil EXCEPT ![f] = new],
             been' = [been EXCEPT ![f] = @ \cup {q.empresa}], row[q.empresa] # "none",
             ~NomeUsed(q.empresa, q.nome), End(r, "200"),
             UNCHANGED <<membro, foreign, missed>>, q.op = "createPerfil"
      PROVE  Safe'
  <2>1. /\ q \in Request /\ Sound(q) /\ q.empresa \in Empresas
        /\ new \in Perfil /\ new.empresa = q.empresa /\ new.nome = q.nome
        /\ new.permissoes = q.permissoes
    BY <1>2 DEF TypeOK, AllSound, Sound, Request, Perfil
  <2> HIDE DEF new
  <2>2. \A g \in Perfis \ {f} : perfil'[g] = perfil[g]
    BY <1>2 DEF TypeOK
  <2>3. \A g \in Perfis : g # f \/ row[f] = "live" => perfil'[g].empresa = perfil[g].empresa
    BY <1>2, <2>2
  <2>4. /\ row' = [row EXCEPT ![f] = "live"]
        /\ row' \in [Rows -> {"none", "live", "removed"}]
        /\ RowsLast /\ SeenByOthers(r)
    BY <1>2, <2>3, SetRowEffect
  <2>5. \A g \in Perfis \ {f} :
          <<perfil[g].empresa, perfil[g].nome>> # <<new.empresa, new.nome>>
    BY <1>2, <2>1 DEF NomeUsed
  <2>6. row'[f] # "none" /\ \A g \in Perfis \ {f} : row'[g] = row[g]
    BY <2>4 DEF TypeOK
  <2>7. /\ UniqueNomes' /\ References' /\ HistoryKept' /\ BeenLasts
        /\ perfil' \in [Perfis -> Perfil] /\ been' \in [Perfis -> SUBSET Empresas]
    <3>1. been' = [been EXCEPT ![f] = @ \cup {new.empresa}]
      BY <1>2, <2>1
    <3>2. /\ new.empresa \in Empresas /\ row[new.empresa] # "none"
          /\ \A p \in new.permissoes : row[p] # "none"
      BY <1>2, <2>1 DEF Sound
    <3> QED BY <1>2, <2>1, <2>4, <2>5, <2>6, <3>1, <3>2, PerfilFrame
  <2>8. request' \in [Requests -> Request] /\ AllSound' /\ AsChecked'
    BY <1>2, <2>4, <2>7, EndedStep DEF Ended
  <2>9. TypeOK'
    BY <1>2, <2>4, <2>7, <2>8 DEF TypeOK, SeenByOthers
  <2>10. MembershipScoped' /\ InvalidationCovers'
    BY <1>2, <2>7, ScopeFrame
  <2> QED BY <2>7, <2>8, <2>9, <2>10
<1>3. UNCHANGED <<foreign, missed>> /\ q.op = "createPerfil"
  BY DEF InsertPerfil, At
<1> QED BY <1>1, <1>2, <1>3 DEF InsertPerfil, Ended

\* update writes a row of a company that exists and of a free name, and whoever has
\* checked the profile is overtaken when it moves.
LEMMA WritePerfilSafe ==
    ASSUME Safe, NEW r \in Requests, NEW f \in Perfis, NEW new \in Perfil,
           WritePerfil(r, f, new), row[f] # "none", ~Clashes(f, new),
           new.empresa \in Empresas, row[new.empresa] # "none",
           \A p \in new.permissoes : row[p] # "none",
           UNCHANGED <<row, membro, foreign, missed>>
    PROVE  /\ UniqueNomes' /\ References' /\ HistoryKept'
           /\ MembershipScoped' /\ InvalidationCovers'
           /\ perfil' \in [Perfis -> Perfil] /\ been' \in [Perfis -> SUBSET Empresas]
           /\ perfil'[f] = new /\ new.empresa \in been'[f]
           /\ RowsLast /\ BeenLasts /\ SeenByOthers(r)
<1> USE DEF Safe, Facts
<1>1. /\ perfil' = [perfil EXCEPT ![f] = new]
      /\ been' = [been EXCEPT ![f] = @ \cup {new.empresa}]
      /\ IF new.empresa = perfil[f].empresa THEN UNCHANGED overtaken ELSE Overtake(r, f)
  BY DEF WritePerfil
<1>2. \A g \in Perfis \ {f} :
        <<perfil[g].empresa, perfil[g].nome>> # <<new.empresa, new.nome>>
  <2>1. perfil[f].empresa # None
    BY DEF References
  <2>2. CASE <<new.empresa, new.nome>> = <<perfil[f].empresa, perfil[f].nome>>
    BY <2>1, <2>2 DEF UniqueNomes
  <2>3. CASE ~NomeUsed(new.empresa, new.nome)
    BY <2>3 DEF NomeUsed
  <2> QED BY <2>2, <2>3 DEF Clashes
<1>3. RowsLast /\ row' \in [Rows -> {"none", "live", "removed"}]
  BY DEF RowsLast, TypeOK
<1>4. /\ UniqueNomes' /\ References' /\ HistoryKept' /\ BeenLasts
      /\ perfil' \in [Perfis -> Perfil] /\ been' \in [Perfis -> SUBSET Empresas]
  BY <1>1, <1>2, <1>3, PerfilFrame
<1>5. MembershipScoped' /\ InvalidationCovers'
  BY <1>4, ScopeFrame
<1>6. perfil'[f] = new /\ new.empresa \in been'[f]
  BY <1>1 DEF TypeOK
<1>7. SeenByOthers(r)
  <2>1. \A g \in Perfis \ {f} : perfil'[g] = perfil[g]
    BY <1>1 DEF TypeOK
  <2>2. CASE new.empresa = perfil[f].empresa
    BY <1>1, <1>6, <2>1, <2>2 DEF SeenByOthers, TypeOK
  <2>3. CASE Overtake(r, f)
    BY <2>1, <2>3 DEF Overtake, SeenByOthers, TypeOK
  <2> QED BY <1>1, <2>2, <2>3
<1> QED BY <1>3, <1>4, <1>5, <1>6, <1>7

\* The row that an update writes.
LEMMA UpdatedTyped ==
    ASSUME Safe, NEW r \in Requests, NEW f \in Perfis, InContext(request[r].ctx, f),
           request[r].op \in {"patch", "permit"}
    PROVE  LET new == Updated(request[r], perfil[f]) IN
           /\ new \in Perfil /\ new.empresa \in Empresas
           /\ row[f] # "none"
           /\ \A p \in new.permissoes : row[p] # "none"
<1> DEFINE q == request[r]
           p == perfil[f]
           new == Updated(q, p)
<1>1. /\ q \in Request /\ Sound(q) /\ q.ctx \in Empresas
      /\ p \in Perfil /\ p.empresa = q.ctx /\ None \notin Empresas
  BY DEF Safe, Facts, TypeOK, AllSound, Sound, InContext
<1>2. row[f] # "none" /\ \A x \in p.permissoes : row[x] # "none"
  BY <1>1 DEF Safe, Facts, References
<1>3. \A x \in q.permissoes : row[x] # "none"
  BY <1>1 DEF Sound
<1> HIDE DEF q, p
<1>4. /\ new.empresa = IF q.empresa = None THEN p.empresa ELSE q.empresa
      /\ new.nome = IF q.nome = None THEN p.nome ELSE q.nome
      /\ new.permissoes = IF q.op = "permit" THEN q.permissoes ELSE p.permissoes
  BY DEF Updated
<1>5. new \in Perfil /\ new.empresa \in Empresas
  BY <1>1 DEF Updated, Perfil, Request
<1>6. \A x \in new.permissoes : row[x] # "none"
  BY <1>2, <1>3, <1>4
<1> QED BY <1>2, <1>5, <1>6 DEF q, p

\* A profile is written in the company of the context; a change of its permissions goes
\* on to the list of its members.
LEMMA ChangePerfilSafe ==
    ASSUME Safe, NEW r \in Requests, ChangePerfil(r)
    PROVE  Safe'
<1> DEFINE q == request[r]
<1>1. PICK f \in q.target :
        LET new == Updated(q, perfil[f]) IN
        \/ /\ End(r, "404") \/ End(r, "500") \/ End(r, "409")
           /\ UNCHANGED <<perfil, been, overtaken>>
        \/ /\ Updatable(q.ctx, f) /\ row[new.empresa] # "none" /\ ~Clashes(f, new)
           /\ WritePerfil(r, f, new)
           /\ IF q.op = "permit" THEN Proceed(r, q, "list", {}) ELSE End(r, "200")
  BY DEF ChangePerfil
<1>2. UNCHANGED <<row, membro, foreign, missed>> /\ q.op \in {"patch", "permit"} /\ q.at = "write"
  BY DEF ChangePerfil, At
<1>3. f \in Perfis /\ q \in Request /\ Sound(q) /\ q.target = {f} /\ q.found \cap Perfis = {}
  BY <1>1, <1>2 DEF Safe, Facts, TypeOK, AllSound, Sound
<1>4. CASE (\E status \in Ended : End(r, status)) /\ UNCHANGED <<perfil, been, overtaken>>
  BY <1>2, <1>4, EndStep DEF unchangedByRead, tables
<1> DEFINE new == Updated(q, perfil[f])
<1>5. CASE /\ Updatable(q.ctx, f) /\ row[new.empresa] # "none" /\ ~Clashes(f, new)
           /\ WritePerfil(r, f, new)
           /\ IF q.op = "permit" THEN Proceed(r, q, "list", {}) ELSE End(r, "200")
  <2>1. /\ new \in Perfil /\ new.empresa \in Empresas /\ row[f] # "none"
        /\ \A p \in new.permissoes : row[p] # "none"
    BY <1>2, <1>3, <1>5, UpdatedTyped DEF Updatable
  <2> HIDE DEF new
  <2>2. /\ UniqueNomes' /\ References' /\ HistoryKept'
        /\ MembershipScoped' /\ InvalidationCovers'
        /\ perfil' \in [Perfis -> Perfil] /\ been' \in [Perfis -> SUBSET Empresas]
        /\ RowsLast /\ BeenLasts /\ SeenByOthers(r)
    BY <1>2, <1>3, <1>5, <2>1, WritePerfilSafe
  <2>3. perfil[f].empresa = q.ctx /\ q.ctx \in been'[f]
    BY <1>2, <1>3, <1>5, <2>2
       DEF Updatable, InContext, BeenLasts, Safe, Facts, HistoryKept, Sound
  <2>4. request' \in [Requests -> Request] /\ AllSound' /\ AsChecked'
    <3>1. CASE End(r, "200")
      BY <2>2, <3>1, EndedStep DEF Safe, Facts, Ended
    <3>2. CASE q.op = "permit" /\ Proceed(r, q, "list", {})
      <4> DEFINE X == {}
      <4>1. X \in SUBSET Rows /\ Proceed(r, q, "list", X) /\ TypeOK
        BY <3>2 DEF Safe, Facts
      <4> HIDE DEF X, q
      <4>2. PICK z \in Request :
              /\ request' = [request EXCEPT ![r] = z]
              /\ z.at = "list" /\ z.found = q.found \cup X
              /\ z.op = q.op /\ z.ctx = q.ctx /\ z.empresa = q.empresa /\ z.target = q.target
              /\ z.nome = q.nome /\ z.permissoes = q.permissoes
        BY <1>3, <4>1, ProceedTyped
      <4>3. z.found = q.found
        BY <4>2 DEF X
      <4>4. Sound(z)'
        BY <1>2, <1>3, <2>3, <3>2, <4>2, <4>3 DEF Sound
      <4>5. r \notin overtaken' => AsWanted(z)'
        <5>1. r \notin overtaken' => \A x \in q.found : row[x] = Wanted(q)
          BY <2>2 DEF Safe, Facts, AsChecked, SeenByOthers, q
        <5> QED BY <1>2, <1>3, <4>2, <4>3, <5>1 DEF AsWanted, Wanted
      <4>6. request' \in [Requests -> Request]
        BY <4>1, <4>2 DEF TypeOK
      <4> QED BY <2>2, <4>2, <4>4, <4>5, <4>6, SoundFrame, CheckedFrame DEF Safe, Facts
    <3> QED BY <1>5, <3>1, <3>2
  <2>5. TypeOK'
    BY <1>2, <2>2, <2>4 DEF Safe, Facts, TypeOK, SeenByOthers
  <2> QED BY <2>2, <2>4, <2>5 DEF Safe, Facts
<1> QED BY <1>1, <1>4, <1>5 DEF Ended

\* Whom the narrowed list misses holds the profile in another company, where it has
\* been or was handed out from outside.
LEMMA ListHoldersSafe ==
    ASSUME Safe, NEW r \in Requests, ListHolders(r)
    PROVE  Safe'
<1> USE DEF Safe, Facts
<1> DEFINE c == request[r].ctx
           Missing(f) == {d \in Empresas : \E u \in Usuarios \ ListedHolders(c, f) : f \in membro[u][d]}
<1>1. PICK f \in request[r].target : missed' = missed \cup {<<f, c, e>> : e \in Missing(f)}
  BY DEF ListHolders
<1>2. /\ UNCHANGED <<tables, been, foreign, overtaken>> /\ End(r, "200")
      /\ request[r].op = "permit" /\ request[r].at = "list"
  BY DEF ListHolders, At
<1>3. f \in Perfis /\ c \in been[f] /\ c \in Empresas
  BY <1>1, <1>2 DEF AllSound, Sound
<1>4. RowsLast /\ SeenByOthers(r) /\ BeenLasts
  BY <1>2 DEF RowsLast, SeenByOthers, BeenLasts, tables, TypeOK
<1>5. UniqueNomes' /\ References' /\ HistoryKept' /\ MembershipScoped'
  BY <1>2 DEF UniqueNomes, References, HistoryKept, MembershipScoped, Reached, tables
<1>6. request' \in [Requests -> Request] /\ AllSound' /\ AsChecked'
  BY <1>2, <1>4, EndedStep DEF Ended
<1>7. ASSUME NEW e \in Missing(f) PROVE e \in Empresas /\ e # c /\ Reached(f, e)
  <2>1. PICK u \in Usuarios \ ListedHolders(c, f) : f \in membro[u][e] /\ e \in Empresas
    BY <1>7
  <2>2. e # c
    BY <2>1 DEF ListedHolders
  <2> QED BY <2>1, <2>2 DEF MembershipScoped
<1> HIDE DEF c, Missing
<1>8. TypeOK'
  <2>1. missed' \subseteq Perfis \X Empresas \X Empresas
    BY <1>1, <1>3, <1>7 DEF TypeOK
  <2> QED BY <1>2, <1>6, <2>1 DEF TypeOK, tables
<1>9. InvalidationCovers'
  <2> SUFFICES ASSUME NEW m \in missed'
               PROVE  m[2] \in been[m[1]] /\ m[3] # m[2] /\ Reached(m[1], m[3])
    BY <1>2 DEF InvalidationCovers, Reached
  <2>1. CASE m \in missed
    BY <2>1 DEF InvalidationCovers
  <2>2. CASE m \in {<<f, c, e>> : e \in Missing(f)}
    <3>1. PICK e \in Missing(f) : m = <<f, c, e>>
      BY <2>2
    <3>2. m[1] = f /\ m[2] = c /\ m[3] = e
      BY <3>1
    <3> QED BY <1>3, <1>7, <3>1, <3>2
  <2> QED BY <1>1, <2>1, <2>2
<1> QED BY <1>5, <1>6, <1>8, <1>9

\* addUser links profiles that have been in its context, and no others.
LEMMA UpsertSafe ==
    ASSUME Safe, AllBased, NEW r \in Requests, Upsert(r)
    PROVE  Safe'
<1> USE DEF Safe, Facts
<1> DEFINE q == request[r]
           F == q.target \cap Perfis
<1>1. PICK u \in q.target \cap Usuarios : membro' = [membro EXCEPT ![u][q.empresa] = F]
  BY DEF Upsert
<1>2. /\ foreign' = IF q.ctx = q.empresa THEN foreign ELSE foreign \cup {<<q.ctx, q.empresa>>}
      /\ End(r, "200")
      /\ UNCHANGED <<row, perfil, been, missed, overtaken>>
      /\ q.op = "addUser" /\ q.at = "write"
  BY DEF Upsert, At
<1>3. /\ q \in Request /\ Sound(q) /\ q.empresa \in Empresas /\ q.ctx \in Empresas
      /\ \A f \in F : f \in Perfis /\ q.ctx \in been[f]
      /\ row[q.empresa] # "none" /\ row[u] # "none"
  BY <1>2 DEF TypeOK, AllSound, Sound
<1>4. \A f \in F : row[f] # "none"
  <2>1. \A f \in F : f \in q.found
    BY <1>2 DEF AllBased, Based, ReliesOnFound
  <2> QED BY <2>1 DEF AllBased, Based
<1>6. RowsLast /\ SeenByOthers(r) /\ BeenLasts /\ UniqueNomes' /\ HistoryKept'
  BY <1>2 DEF RowsLast, SeenByOthers, BeenLasts, UniqueNomes, HistoryKept, TypeOK
<1>7. request' \in [Requests -> Request] /\ AllSound' /\ AsChecked'
  BY <1>2, <1>6, EndedStep DEF Ended
<1> HIDE DEF F
<1>9. \A v \in Usuarios, e \in Empresas :
        membro'[v][e] = IF v = u /\ e = q.empresa THEN F ELSE membro[v][e]
  BY <1>1, <1>3 DEF TypeOK
<1>10. TypeOK'
  <2>1. membro' \in [Usuarios -> [Empresas -> SUBSET Perfis]]
    BY <1>1, <1>3 DEF TypeOK, F
  <2>2. foreign' \subseteq Empresas \X Empresas
    BY <1>2, <1>3 DEF TypeOK
  <2> QED BY <1>2, <1>7, <2>1, <2>2 DEF TypeOK
<1>11. References'
  <2>1. ASSUME NEW v \in Usuarios, NEW e \in Empresas, NEW f \in membro'[v][e]
        PROVE  row'[f] # "none" /\ row'[v] # "none" /\ row'[e] # "none"
    <3>1. CASE v = u /\ e = q.empresa
      BY <1>2, <1>3, <1>4, <1>9, <2>1, <3>1
    <3>2. CASE ~(v = u /\ e = q.empresa)
      BY <1>2, <1>9, <2>1, <3>2 DEF References
    <3> QED BY <3>1, <3>2
  <2> QED BY <1>2, <2>1 DEF References
<1>12. foreign \subseteq foreign' /\ (q.ctx = q.empresa \/ <<q.ctx, q.empresa>> \in foreign')
  BY <1>2
<1>13. MembershipScoped'
  <2> SUFFICES ASSUME NEW v \in Usuarios, NEW e \in Empresas, NEW f \in membro'[v][e]
               PROVE  Reached(f, e)'
    BY DEF MembershipScoped
  <2>1. CASE v = u /\ e = q.empresa
    BY <1>2, <1>3, <1>9, <1>12, <2>1 DEF Reached
  <2>2. CASE ~(v = u /\ e = q.empresa)
    <3>1. f \in Perfis /\ Reached(f, e)
      BY <1>9, <2>2 DEF MembershipScoped, TypeOK
    <3> QED BY <1>6, <1>12, <3>1, ReachedLasts
  <2> QED BY <2>1, <2>2
<1>14. InvalidationCovers'
  <2> SUFFICES ASSUME NEW m \in missed
               PROVE  m[2] \in been[m[1]] /\ m[3] # m[2] /\ Reached(m[1], m[3])'
    BY <1>2 DEF InvalidationCovers
  <2>1. m[1] \in Perfis /\ m[2] \in been[m[1]] /\ m[3] # m[2] /\ Reached(m[1], m[3])
    BY DEF TypeOK, InvalidationCovers
  <2> QED BY <1>6, <1>12, <2>1, ReachedLasts
<1> QED BY <1>6, <1>7, <1>10, <1>11, <1>13, <1>14

-----------------------------------------------------------------------------
(* Theorems.                                                               *)

LEMMA InitSafe == Init => Safe
<1> SUFFICES ASSUME Init PROVE Safe
  OBVIOUS
<1>1. PICK f \in Perfis, e \in Empresas, n \in Nomes, S \in SUBSET Permissoes, U \in SUBSET Usuarios :
        /\ \A g \in Perfis : row[g] = "live" <=> g = f
        /\ Live({e} \cup S \cup U)
        /\ perfil = [g \in Perfis |-> IF g # f THEN NoPerfil
                       ELSE [empresa |-> e, nome |-> n, permissoes |-> S]]
        /\ membro = [u \in Usuarios |-> [d \in Empresas |-> IF u \in U /\ d = e THEN {f} ELSE {}]]
  BY DEF Init
<1>2. /\ row \in [Rows -> {"none", "live"}] /\ request = [r \in Requests |-> NoRequest]
      /\ been = [g \in Perfis |-> {perfil[g].empresa} \ {None}]
      /\ foreign = {} /\ missed = {} /\ overtaken = {}
  BY DEF Init
<1>3. perfil \in [Perfis -> Perfil]
  BY <1>1 DEF Perfil, NoPerfil
<1>4. membro \in [Usuarios -> [Empresas -> SUBSET Perfis]]
  BY <1>1
<1>5. TypeOK
  <2>1. been \in [Perfis -> SUBSET Empresas]
    BY <1>2, <1>3 DEF Perfil
  <2> QED BY <1>2, <1>3, <1>4, <2>1, NoRequestTyped DEF TypeOK
<1>6. /\ perfil[f].empresa = e /\ perfil[f].permissoes = S
      /\ \A g \in Perfis \ {f} : perfil[g].empresa = None /\ perfil[g].permissoes = {}
  BY <1>1 DEF NoPerfil
<1>7. UniqueNomes
  BY <1>6 DEF UniqueNomes
<1>8. \A x \in {e} \cup S \cup U : row[x] = "live"
  BY <1>1 DEF Live
<1>9. References
  <2>1. ASSUME NEW g \in Perfis
        PROVE  /\ row[g] = "none" <=> perfil[g].empresa = None
               /\ perfil[g].empresa # None => row[perfil[g].empresa] # "none"
               /\ \A p \in perfil[g].permissoes : row[p] # "none"
    <3>1. CASE g = f
      BY <1>1, <1>6, <1>8, <3>1
    <3>2. CASE g # f
      <4>1. row[g] = "none"
        BY <1>1, <1>2, <3>2
      <4> QED BY <1>6, <3>2, <4>1
    <3> QED BY <3>1, <3>2
  <2>2. ASSUME NEW u \in Usuarios, NEW d \in Empresas, NEW g \in membro[u][d]
        PROVE  row[g] # "none" /\ row[u] # "none" /\ row[d] # "none"
    <3>1. u \in U /\ d = e /\ g = f
      BY <1>1, <2>2
    <3> QED BY <1>1, <1>8, <3>1
  <2> QED BY <2>1, <2>2 DEF References
<1>10. AllSound /\ AsChecked /\ HistoryKept
  BY <1>2 DEF AllSound, AsChecked, Sound, NoRequest, HistoryKept
<1>11. MembershipScoped
  <2>1. e \in been[f]
    BY <1>2, <1>6
  <2> QED BY <1>1, <2>1 DEF MembershipScoped, Reached
<1>12. InvalidationCovers
  BY <1>2 DEF InvalidationCovers
<1> QED BY <1>5, <1>7, <1>9, <1>10, <1>11, <1>12 DEF Safe, Facts

LEMMA HandleSafe ==
    ASSUME Safe, AllBased, NEW r \in Requests, Handle(r)
    PROVE  Safe'
<1>1. CASE CreatePerfil(r) \/ CheckNome(r) \/ InsertPerfil(r)
  BY <1>1, CreatePerfilSafe, CheckNomeSafe, InsertPerfilSafe
<1>2. CASE UpdatePerfil(r) \/ FindPerfilToPermit(r) \/ ChangePerfil(r) \/ ListHolders(r)
  BY <1>2, UpdatePerfilSafe, FindPerfilToPermitSafe, ChangePerfilSafe, ListHoldersSafe
<1>3. CASE ChangePermissao(r) \/ ChangeEmpresa(r)
  BY <1>3, ChangePermissaoSafe, ChangeEmpresaSafe
<1>4. CASE FlipPermissao(r) \/ RemoveEmpresa(r)
  BY <1>4, FlipSafe DEF FlipPermissao, RemoveEmpresa
<1>5. CASE FlipPerfil(r)
  <2>1. PICK f \in request[r].target \cap Perfis :
          \/ Updatable(request[r].ctx, f) /\ Flip(r, f)
          \/ End(r, "404") /\ UNCHANGED unchangedByRead
    BY <1>5 DEF FlipPerfil
  <2>2. CASE End(r, "404") /\ UNCHANGED unchangedByRead
    BY <2>2, EndStep DEF Ended
  <2>3. CASE Updatable(request[r].ctx, f) /\ Flip(r, f)
    <3>1. f \in Perfis /\ request[r].ctx \in Empresas /\ perfil[f].empresa = request[r].ctx
      BY <2>3 DEF Updatable, InContext, Safe, Facts, AllSound, Sound
    <3>2. row[f] # "none"
      BY <3>1 DEF Safe, Facts, References
    <3> QED BY <2>3, <3>1, <3>2, FlipSafe
  <2> QED BY <2>1, <2>2, <2>3
<1>6. CASE UpdateEmpresa(r)
  BY <1>6, UpdateEmpresaSafe
<1>7. CASE \/ CreateUsuario(r) \/ InsertUsuario(r) \/ CreatePermissao(r) \/ InsertPermissao(r)
           \/ CreateEmpresa(r)
  <2>1. Usuarios \in SUBSET (Rows \ Perfis) /\ Permissoes \in SUBSET (Rows \ Perfis)
    OBVIOUS
  <2> QED BY <1>7, <2>1, CheckNewSafe, InsertSafe, CreateEmpresaSafe
          DEF CreateUsuario, InsertUsuario, CreatePermissao, InsertPermissao
<1>8. CASE AddUser(r) \/ FindUsuario(r) \/ FindPerfis(r) \/ Upsert(r)
  BY <1>8, AddUserSafe, FindUsuarioSafe, FindPerfisSafe, UpsertSafe
<1> QED BY <1>1, <1>2, <1>3, <1>4, <1>5, <1>6, <1>7, <1>8 DEF Handle

LEMMA StepSafe == Safe /\ AllBased /\ [Next]_vars => Safe'
<1> SUFFICES ASSUME Safe, AllBased, [Next]_vars PROVE Safe'
  OBVIOUS
<1>1. CASE UNCHANGED vars
  <2>1. TypeOK' /\ UniqueNomes' /\ References' /\ HistoryKept'
    BY <1>1 DEF vars, tables, Safe, Facts, TypeOK, UniqueNomes, References, HistoryKept
  <2>2. AllSound' /\ AsChecked'
    BY <1>1 DEF vars, tables, Safe, Facts, AllSound, Sound, AsChecked, Wanted
  <2>3. MembershipScoped' /\ InvalidationCovers'
    BY <1>1 DEF vars, tables, Safe, MembershipScoped, InvalidationCovers, Reached
  <2> QED BY <2>1, <2>2, <2>3 DEF Safe, Facts
<1> QED BY <1>1, HandleSafe, FlipUsuarioSafe DEF Next, AllServed

-----------------------------------------------------------------------------
(* What a write relies on is among the rows that its request has found.     *)

\* No step deletes a row.
LEMMA RowsLastStep ==
    ASSUME TypeOK, [Next]_vars PROVE RowsLast
<1>1. row \in [Rows -> {"none", "live", "removed"}]
  BY DEF TypeOK
<1>2. CASE UNCHANGED row
  BY <1>2 DEF RowsLast
<1>3. \A r \in Requests, x \in Rows, state \in {"live", "removed"} : SetRow(r, x, state) => RowsLast
  BY SetRowLasts
<1>4. ASSUME NEW u \in Usuarios, FlipUsuario(u) PROVE RowsLast
  BY <1>1, <1>4 DEF FlipUsuario, RowsLast
<1>5. ASSUME NEW r \in Requests, NEW x \in Rows, Flip(r, x) PROVE RowsLast
  BY <1>3, <1>5 DEF Flip, SoftDelete
<1>6. ASSUME NEW r \in Requests,
             \/ FlipPermissao(r) \/ FlipPerfil(r) \/ RemoveEmpresa(r) \/ InsertPerfil(r)
             \/ InsertUsuario(r) \/ InsertPermissao(r) \/ CreateEmpresa(r)
      PROVE  RowsLast
  BY <1>2, <1>3, <1>5, <1>6 DEF FlipPermissao, FlipPerfil, RemoveEmpresa, InsertPerfil,
     InsertUsuario, InsertPermissao, Insert, CreateEmpresa, unchangedByRead, tables
<1>7. ASSUME NEW r \in Requests,
             \/ CreatePerfil(r) \/ CheckNome(r) \/ UpdatePerfil(r) \/ FindPerfilToPermit(r)
             \/ ChangePerfil(r) \/ ListHolders(r) \/ ChangePermissao(r) \/ ChangeEmpresa(r)
             \/ UpdateEmpresa(r) \/ CreateUsuario(r) \/ CreatePermissao(r) \/ AddUser(r)
             \/ FindUsuario(r) \/ FindPerfis(r) \/ Upsert(r)
      PROVE  UNCHANGED row
  BY <1>7 DEF CreatePerfil, CheckNome, UpdatePerfil, FindPerfilToPermit, ChangePerfil,
     ListHolders, ChangePermissao, ChangeEmpresa, UpdateEmpresa, CreateUsuario,
     CreatePermissao, CheckNew, AddUser, FindUsuario, FindPerfis, Upsert, unchangedByRead,
     tables
<1>8. UNCHANGED vars => UNCHANGED row
  BY DEF vars, tables
<1> QED BY <1>2, <1>4, <1>6, <1>7, <1>8 DEF Next, Handle, AllServed

\* The other requests keep theirs.
LEMMA BasedFrame ==
    ASSUME TypeOK, AllBased, RowsLast, NEW r \in Requests, NEW q \in Request,
           request' = [request EXCEPT ![r] = q], Based(q)
    PROVE  AllBased'
<1> SUFFICES ASSUME NEW p \in Requests PROVE Based(request[p])'
  BY DEF AllBased
<1>1. PICK z \in Request : request'[p] = z /\ Based(z)
  BY DEF TypeOK, AllBased
<1>2. \A x \in z.found : x \in Rows /\ row'[x] # "none"
  BY <1>1 DEF Based, RowsLast, Request
<1> QED BY <1>1, <1>2 DEF Based, ReliesOnFound

\* A request that ends relies on nothing.
LEMMA BasedEnd ==
    ASSUME TypeOK, AllBased, RowsLast, NEW r \in Requests, NEW status, End(r, status),
           status \in Ended
    PROVE  AllBased'
<1> DEFINE q == [NoRequest EXCEPT !.at = status]
<1>1. q \in Request /\ q.found = {} /\ q.op = "none"
  BY DEF NoRequest, Request, Operations
<1>2. request' = [request EXCEPT ![r] = q]
  BY DEF End
<1> HIDE DEF q
<1>3. Based(q)
  BY <1>1 DEF Based, ReliesOnFound
<1> QED BY <1>1, <1>2, <1>3, BasedFrame

\* One that goes on has found the rows of X.
LEMMA BasedGoesOn ==
    ASSUME TypeOK, AllBased, RowsLast, NEW r \in Requests,
           NEW a \in {"name", "perfil", "usuario", "perfis", "write", "list"},
           NEW X \in SUBSET Rows, NEW p \in Request, Proceed(r, p, a, X),
           \A x \in X : row[x] # "none",
           p.found = {} \/ p = request[r],
           ReliesOnFound([p EXCEPT !.at = a, !.found = @ \cup X])
    PROVE  AllBased'
<1> DEFINE q == [p EXCEPT !.at = a, !.found = @ \cup X]
<1>1. q \in Request /\ q.found = p.found \cup X /\ ReliesOnFound(q)
  BY DEF Request
<1>2. request' = [request EXCEPT ![r] = q]
  BY DEF Proceed
<1> HIDE DEF q
<1>3. \A x \in p.found : row[x] # "none"
  BY DEF AllBased, Based
<1>4. Based(q)
  BY <1>1, <1>3 DEF Based
<1> QED BY <1>1, <1>2, <1>4, BasedFrame

\* The queries of PerfisService.
LEMMA BasedPerfil ==
    ASSUME Safe, AllBased, RowsLast, NEW r \in Requests, NEW q \in Request, NEW f \in Perfis,
           FindPerfil(r, q, f), q = request[r] \/ q.found = {}, q.target = {f},
           q.op \in {"patch", "permit", "disable", "restore"},
           q.op = "permit" => q.permissoes \subseteq q.found
    PROVE  AllBased'
<1> DEFINE Goes(X) == Proceed(r, q, "write", X)
<1>1. TypeOK
  BY DEF Safe, Facts
<1>2. CASE \E status \in Ended : End(r, status)
  BY <1>1, <1>2, BasedEnd
<1>3. ASSUME NEW X \in SUBSET Rows, Goes(X), \A x \in X : row[x] # "none",
             q.op \in {"disable", "restore"} => X = {f}
      PROVE  AllBased'
  <2>1. ReliesOnFound([q EXCEPT !.at = "write", !.found = @ \cup X])
    BY <1>3 DEF ReliesOnFound, Request
  <2> QED BY <1>1, <1>3, <2>1, BasedGoesOn
<1>4. CASE q.op \in {"patch", "permit"} /\ Goes({})
  BY <1>3, <1>4
<1>5. CASE row[f] = Wanted(q) /\ Goes({f})
  <2>1. {f} \in SUBSET Rows /\ \A x \in {f} : row[x] # "none"
    BY <1>5 DEF Wanted
  <2> QED BY <1>3, <1>5, <2>1
<1> QED BY <1>2, <1>4, <1>5 DEF FindPerfil, Ended

LEMMA BasedCreatePerfil ==
    ASSUME Safe, AllBased, RowsLast, NEW r \in Requests, CreatePerfil(r)
    PROVE  AllBased'
<1>0. TypeOK
  BY DEF Safe, Facts
<1>1. PICK c \in Empresas, e \in Empresas, n \in Nomes, S \in SUBSET Permissoes :
        IF PermissoesFound(S)
        THEN Proceed(r, [NoRequest EXCEPT !.op = "createPerfil", !.ctx = c,
                           !.empresa = e, !.nome = n, !.permissoes = S], "name", S)
        ELSE End(r, "404")
  BY DEF CreatePerfil
<1> DEFINE p == [NoRequest EXCEPT !.op = "createPerfil", !.ctx = c,
                                  !.empresa = e, !.nome = n, !.permissoes = S]
<1>2. p \in Request /\ p.op = "createPerfil" /\ p.nome = n /\ p.permissoes = S /\ p.found = {}
  BY DEF NoRequest, Request, Operations
<1>3. CASE PermissoesFound(S) /\ Proceed(r, p, "name", S)
  <2> HIDE DEF p
  <2>1. \A x \in S : row[x] # "none"
    BY <1>3 DEF PermissoesFound, Live
  <2>2. ReliesOnFound([p EXCEPT !.at = "name", !.found = @ \cup S])
    BY <1>2 DEF ReliesOnFound, Request
  <2>3. S \in SUBSET Rows
    OBVIOUS
  <2> QED BY <1>0, <1>2, <1>3, <2>1, <2>2, <2>3, BasedGoesOn
<1>4. CASE End(r, "404")
  BY <1>0, <1>4, BasedEnd DEF Ended
<1> QED BY <1>1, <1>3, <1>4

\* A request of which the permissions have been found goes on.
LEMMA BasedOn ==
    ASSUME Safe, AllBased, RowsLast, NEW r \in Requests, NEW a \in {"write", "list"},
           Proceed(r, request[r], a, {}), request[r].op \in {"createPerfil", "permit"}
    PROVE  AllBased'
<1> DEFINE p == request[r]
           X == {}
<1>1. TypeOK /\ p \in Request /\ ReliesOnFound(p)
  BY DEF Safe, Facts, TypeOK, AllBased, Based
<1>2. ReliesOnFound([p EXCEPT !.at = a, !.found = @ \cup X])
  BY <1>1 DEF ReliesOnFound, Request
<1>3. X \in SUBSET Rows /\ \A x \in X : row[x] # "none"
  OBVIOUS
<1>4. Proceed(r, p, a, X) /\ (p.found = {} \/ p = request[r])
  OBVIOUS
<1>5. a \in {"name", "perfil", "usuario", "perfis", "write", "list"}
  OBVIOUS
<1> HIDE DEF X, p
<1> QED BY <1>1, <1>2, <1>3, <1>4, <1>5, BasedGoesOn

LEMMA BasedCheckNome ==
    ASSUME Safe, AllBased, RowsLast, NEW r \in Requests, CheckNome(r)
    PROVE  AllBased'
<1>1. CASE End(r, "409")
  BY <1>1, BasedEnd DEF Safe, Facts, Ended
<1>2. CASE Proceed(r, request[r], "write", {})
  BY <1>2, BasedOn DEF CheckNome, At
<1> QED BY <1>1, <1>2 DEF CheckNome

LEMMA BasedChangePerfil ==
    ASSUME Safe, AllBased, RowsLast, NEW r \in Requests, ChangePerfil(r)
    PROVE  AllBased'
<1>1. \/ \E status \in Ended : End(r, status)
      \/ request[r].op = "permit" /\ Proceed(r, request[r], "list", {})
  BY DEF ChangePerfil, Ended
<1> QED BY <1>1, BasedEnd, BasedOn DEF Safe, Facts

LEMMA BasedFindPerfilToPermit ==
    ASSUME Safe, AllBased, RowsLast, NEW r \in Requests, FindPerfilToPermit(r)
    PROVE  AllBased'
<1>1. /\ request[r] \in Request /\ request[r].op = "permit"
      /\ Based(request[r]) /\ Sound(request[r])
  BY DEF Safe, Facts, TypeOK, AllBased, AllSound, FindPerfilToPermit, At
<1>2. PICK f \in request[r].target : FindPerfil(r, request[r], f)
  BY DEF FindPerfilToPermit
<1>3. f \in Perfis /\ request[r].target = {f} /\ request[r].permissoes \subseteq request[r].found
  BY <1>1, <1>2 DEF Sound, Based, ReliesOnFound
<1> QED BY <1>1, <1>2, <1>3, BasedPerfil

LEMMA BasedUpdatePerfil ==
    ASSUME Safe, AllBased, RowsLast, NEW r \in Requests, UpdatePerfil(r)
    PROVE  AllBased'
<1>0. TypeOK
  BY DEF Safe, Facts
<1>1. PICK c \in Empresas, f \in Perfis :
        \/ \E op \in {"disable", "restore"} :
             FindPerfil(r, Update(op, c, f, None, None, {}), f)
        \/ \E e \in Empresas \cup {None}, n \in Nomes \cup {None} :
             \/ FindPerfil(r, Update("patch", c, f, e, n, {}), f)
             \/ \E S \in SUBSET Permissoes :
                  IF PermissoesFound(S)
                  THEN Proceed(r, Update("permit", c, f, e, n, S), "perfil", S)
                  ELSE End(r, "404")
  BY DEF UpdatePerfil
<1>2. ASSUME NEW op \in {"patch", "disable", "restore"}, NEW e \in Empresas \cup {None},
             NEW n \in Nomes \cup {None}, FindPerfil(r, Update(op, c, f, e, n, {}), f)
      PROVE  AllBased'
  <2> DEFINE p == Update(op, c, f, e, n, {})
  <2>1. p \in Request /\ p.op = op /\ p.target = {f} /\ p.found = {}
    BY UpdateTyped
  <2>2. FindPerfil(r, p, f)
    BY <1>2
  <2> HIDE DEF p
  <2> QED BY <2>1, <2>2, BasedPerfil
<1>3. ASSUME NEW e \in Empresas \cup {None}, NEW n \in Nomes \cup {None},
             NEW S \in SUBSET Permissoes, PermissoesFound(S),
             Proceed(r, Update("permit", c, f, e, n, S), "perfil", S)
      PROVE  AllBased'
  <2> DEFINE p == Update("permit", c, f, e, n, S)
  <2>1. p \in Request /\ p.op = "permit" /\ p.permissoes = S /\ p.found = {}
    BY UpdateTyped
  <2>2. Proceed(r, p, "perfil", S)
    BY <1>3
  <2> HIDE DEF p
  <2>3. \A x \in S : row[x] # "none"
    BY <1>3 DEF PermissoesFound, Live
  <2>4. ReliesOnFound([p EXCEPT !.at = "perfil", !.found = @ \cup S])
    BY <2>1 DEF ReliesOnFound, Request
  <2>5. S \in SUBSET Rows
    OBVIOUS
  <2> QED BY <1>0, <2>1, <2>2, <2>3, <2>4, <2>5, BasedGoesOn
<1>4. CASE End(r, "404")
  BY <1>0, <1>4, BasedEnd DEF Ended
<1> QED BY <1>1, <1>2, <1>3, <1>4

\* The first query of a request on a row that is not a profile.
LEMMA BasedFirst ==
    ASSUME Safe, AllBased, RowsLast, NEW r \in Requests, NEW p \in Request,
           NEW X \in SUBSET Rows, NEW a \in {"usuario", "write"},
           Proceed(r, p, a, X), \A x \in X : row[x] # "none", p.found = {},
           \/ p.op \in {"create", "update"}
           \/ p.op \in {"disable", "restore"} /\ p.target = X
           \/ p.op = "addUser" /\ p.empresa \in X /\ a = "usuario"
    PROVE  AllBased'
<1>1. ReliesOnFound([p EXCEPT !.at = a, !.found = @ \cup X])
  BY DEF ReliesOnFound, Request
<1>2. TypeOK /\ a \in {"name", "perfil", "usuario", "perfis", "write", "list"}
  BY DEF Safe, Facts
<1> QED BY <1>1, <1>2, BasedGoesOn

LEMMA BasedChangePermissao ==
    ASSUME Safe, AllBased, RowsLast, NEW r \in Requests, ChangePermissao(r)
    PROVE  AllBased'
<1>0. TypeOK
  BY DEF Safe, Facts
<1>1. PICK p \in Permissoes, op \in {"disable", "restore"} :
        LET q == [NoRequest EXCEPT !.op = op, !.target = {p}] IN
        \/ row[p] = "none" /\ End(r, "404")
        \/ row[p] \notin {"none", Wanted(q)} /\ End(r, "409")
        \/ row[p] = Wanted(q) /\ (End(r, "403") \/ Proceed(r, q, "write", {p}))
  BY DEF ChangePermissao
<1> DEFINE q == [NoRequest EXCEPT !.op = op, !.target = {p}]
           X == {p}
<1>2. q \in Request /\ q.op = op /\ q.found = {} /\ q.target = X /\ X \in SUBSET Rows
  BY DEF NoRequest, Request, Operations
<1>3. CASE row[p] = Wanted(q) /\ Proceed(r, q, "write", X)
  <2>1. \A x \in X : row[x] # "none"
    BY <1>3 DEF Wanted
  <2> HIDE DEF q, X
  <2> QED BY <1>2, <1>3, <2>1, BasedFirst
<1>4. CASE \E status \in Ended : End(r, status)
  BY <1>0, <1>4, BasedEnd
<1> QED BY <1>1, <1>3, <1>4 DEF Ended

LEMMA BasedChangeEmpresa ==
    ASSUME Safe, AllBased, RowsLast, NEW r \in Requests, ChangeEmpresa(r)
    PROVE  AllBased'
<1>0. TypeOK
  BY DEF Safe, Facts
<1>1. PICK e \in Empresas, op \in {"update", "disable"} :
        IF row[e] = "live"
        THEN Proceed(r, [NoRequest EXCEPT !.op = op, !.target = {e}], "write", {e})
        ELSE End(r, "404")
  BY DEF ChangeEmpresa
<1> DEFINE q == [NoRequest EXCEPT !.op = op, !.target = {e}]
           X == {e}
<1>2. q \in Request /\ q.op = op /\ q.found = {} /\ q.target = X /\ X \in SUBSET Rows
  BY DEF NoRequest, Request, Operations
<1>3. CASE row[e] = "live" /\ Proceed(r, q, "write", X)
  <2>1. \A x \in X : row[x] # "none"
    BY <1>3
  <2> HIDE DEF q, X
  <2> QED BY <1>2, <1>3, <2>1, BasedFirst
<1>4. CASE \E status \in Ended : End(r, status)
  BY <1>0, <1>4, BasedEnd
<1> QED BY <1>1, <1>3, <1>4 DEF Ended

LEMMA BasedToAdd ==
    ASSUME Safe, AllBased, RowsLast, NEW r \in Requests, AddUser(r)
    PROVE  AllBased'
<1>0. TypeOK
  BY DEF Safe, Facts
<1>1. PICK c \in Empresas, e \in Empresas, u \in Usuarios, F \in SUBSET Perfis :
        IF row[e] = "live"
        THEN Proceed(r, [NoRequest EXCEPT !.op = "addUser", !.ctx = c, !.empresa = e,
                           !.target = {u} \cup F], "usuario", {e})
        ELSE End(r, "404")
  BY DEF AddUser
<1> DEFINE q == [NoRequest EXCEPT !.op = "addUser", !.ctx = c, !.empresa = e,
                                  !.target = {u} \cup F]
           X == {e}
<1>2. q \in Request /\ q.op = "addUser" /\ q.found = {} /\ q.empresa \in X /\ X \in SUBSET Rows
  BY DEF NoRequest, Request, Operations
<1>3. CASE row[e] = "live" /\ Proceed(r, q, "usuario", X)
  <2>1. \A x \in X : row[x] # "none"
    BY <1>3
  <2> HIDE DEF q, X
  <2> QED BY <1>2, <1>3, <2>1, BasedFirst
<1>4. CASE \E status \in Ended : End(r, status)
  BY <1>0, <1>4, BasedEnd
<1> QED BY <1>1, <1>3, <1>4 DEF Ended

LEMMA BasedCheckNew ==
    ASSUME Safe, AllBased, RowsLast, NEW r \in Requests, NEW X \in SUBSET Rows, CheckNew(r, X)
    PROVE  AllBased'
<1>0. TypeOK
  BY DEF Safe, Facts
<1>1. PICK x \in X :
        \/ End(r, "409")
        \/ Proceed(r, [NoRequest EXCEPT !.op = "create", !.target = {x}], "write", {})
  BY DEF CheckNew
<1> DEFINE q == [NoRequest EXCEPT !.op = "create", !.target = {x}]
           N == {}
<1>2. q \in Request /\ q.op = "create" /\ q.found = {} /\ N \in SUBSET Rows
  BY DEF NoRequest, Request, Operations
<1>3. CASE Proceed(r, q, "write", N)
  <2>1. \A y \in N : row[y] # "none"
    OBVIOUS
  <2> HIDE DEF q, N
  <2> QED BY <1>2, <1>3, <2>1, BasedFirst
<1>4. CASE \E status \in Ended : End(r, status)
  BY <1>0, <1>4, BasedEnd
<1> QED BY <1>1, <1>3, <1>4 DEF Ended

LEMMA BasedAddUser ==
    ASSUME Safe, AllBased, RowsLast, NEW r \in Requests, FindUsuario(r) \/ FindPerfis(r)
    PROVE  AllBased'
<1> DEFINE p == request[r]
           U == p.target \cap Usuarios
           F == p.target \cap Perfis
<1>1. TypeOK /\ p \in Request /\ ReliesOnFound(p) /\ p.op = "addUser"
  BY DEF Safe, Facts, TypeOK, AllBased, Based, FindUsuario, FindPerfis, At
<1>2. CASE End(r, "404")
  BY <1>1, <1>2, BasedEnd DEF Ended
<1>3. CASE Live(U) /\ Proceed(r, p, "perfis", U)
  <2>1. \A x \in U : row[x] # "none"
    BY <1>3 DEF Live
  <2>2. ReliesOnFound([p EXCEPT !.at = "perfis", !.found = @ \cup U])
    BY <1>1 DEF ReliesOnFound, Request
  <2>3. U \in SUBSET Rows
    OBVIOUS
  <2>4. p.found = {} \/ p = request[r]
    OBVIOUS
  <2> HIDE DEF U, p
  <2> QED BY <1>1, <1>3, <2>1, <2>2, <2>3, <2>4, BasedGoesOn
<1>4. CASE F \subseteq VisiblePerfis(p.ctx) /\ p.at = "perfis" /\ Proceed(r, p, "write", F)
  <2>1. \A x \in F : row[x] # "none"
    BY <1>4 DEF VisiblePerfis
  <2>2. ReliesOnFound([p EXCEPT !.at = "write", !.found = @ \cup F])
    BY <1>1, <1>4 DEF ReliesOnFound, Request
  <2>3. F \in SUBSET Rows
    OBVIOUS
  <2>4. p.found = {} \/ p = request[r]
    OBVIOUS
  <2> HIDE DEF F, p
  <2> QED BY <1>1, <1>4, <2>1, <2>2, <2>3, <2>4, BasedGoesOn
<1> QED BY <1>2, <1>3, <1>4 DEF FindUsuario, FindPerfis, At

LEMMA BasedStep ==
    ASSUME Safe, AllBased, [Next]_vars PROVE AllBased'
<1>1. TypeOK /\ RowsLast
  BY RowsLastStep DEF Safe, Facts
<1>2. CASE UNCHANGED <<row, request>>
  BY <1>2 DEF AllBased, Based, ReliesOnFound
<1>3. ASSUME NEW u \in Usuarios, FlipUsuario(u) PROVE AllBased'
  <2> SUFFICES ASSUME NEW p \in Requests PROVE Based(request[p])'
    BY DEF AllBased
  <2>1. PICK z \in Request : z = request[p] /\ request'[p] = z /\ Based(z)
    BY <1>1, <1>3 DEF TypeOK, AllBased, FlipUsuario
  <2>2. \A x \in z.found : x \in Rows /\ row'[x] # "none"
    BY <1>1, <2>1 DEF Based, RowsLast, Request
  <2> QED BY <2>1, <2>2 DEF Based, ReliesOnFound
<1>4. ASSUME NEW r \in Requests, \E status \in Ended : End(r, status) PROVE AllBased'
  BY <1>1, <1>4, BasedEnd
<1>5. ASSUME NEW r \in Requests,
             \/ InsertPerfil(r) \/ ListHolders(r) \/ FlipPermissao(r)
             \/ FlipPerfil(r) \/ RemoveEmpresa(r) \/ UpdateEmpresa(r) \/ InsertUsuario(r)
             \/ InsertPermissao(r) \/ CreateEmpresa(r) \/ Upsert(r)
      PROVE  \E status \in Ended : End(r, status)
  BY <1>5 DEF InsertPerfil, ListHolders, FlipPermissao, FlipPerfil, RemoveEmpresa,
     Flip, UpdateEmpresa, InsertUsuario, InsertPermissao, Insert, CreateEmpresa, Upsert, Ended
<1>6. ASSUME NEW r \in Requests, CreateUsuario(r) \/ CreatePermissao(r)
      PROVE  \E X \in SUBSET Rows : CheckNew(r, X)
  <2>1. Usuarios \in SUBSET Rows /\ Permissoes \in SUBSET Rows
    OBVIOUS
  <2> QED BY <1>6, <2>1 DEF CreateUsuario, CreatePermissao
<1>7. ASSUME NEW r \in Requests, Handle(r) PROVE AllBased'
  BY <1>1, <1>4, <1>5, <1>6, <1>7, BasedCreatePerfil, BasedCheckNome, BasedUpdatePerfil,
     BasedFindPerfilToPermit, BasedChangePerfil, BasedChangePermissao, BasedChangeEmpresa,
     BasedCheckNew, BasedToAdd, BasedAddUser DEF Handle
<1>8. UNCHANGED vars => UNCHANGED <<row, request>>
  BY DEF vars, tables
<1> QED BY <1>2, <1>3, <1>7, <1>8 DEF Next, AllServed

LEMMA InitBased == Init => AllBased
<1>1. Init => \A r \in Requests : request[r] = NoRequest
  BY DEF Init
<1>2. Based(NoRequest)
  BY DEF Based, ReliesOnFound, NoRequest
<1> QED BY <1>1, <1>2 DEF AllBased

\* Names stay unique and references exist although no operation is a transaction, and
\* what a request has checked stays as it was unless another request overtakes it
\* (PerfisService, PermissoesService, EmpresasService).
THEOREM Inductive == Spec => []IInv
<1>1. Init => Safe /\ AllBased
  BY InitSafe, InitBased
<1>2. Safe /\ AllBased /\ [Next]_vars => (Safe /\ AllBased)'
  BY StepSafe, BasedStep
<1>3. Safe /\ AllBased => IInv
  BY DEF Safe, Facts, IInv
<1> QED BY <1>1, <1>2, <1>3, PTL DEF Spec

-----------------------------------------------------------------------------
(* The tables change as in CadastroStore.                                  *)

\* A row changes and those who have seen it are overtaken.
LEMMA StoreSetRow ==
    ASSUME NEW r \in Requests, NEW x, NEW state, SetRow(r, x, state)
    PROVE  Store!SetRow(r, x, state)
<1>1. CASE row[x] = state
  <2>1. {} \in SUBSET (Requests \ {r}) /\ overtaken' = overtaken \cup {}
    BY <1>1 DEF SetRow
  <2> QED BY <1>1, <2>1 DEF SetRow, Store!SetRow
<1>2. CASE row[x] # state
  <2> DEFINE Q == {q \in Requests \ {r} : x \in request[q].found}
  <2>1. Q \in SUBSET (Requests \ {r}) /\ overtaken' = overtaken \cup Q
    BY <1>2 DEF SetRow, Overtake
  <2> HIDE DEF Q
  <2> QED BY <1>2, <2>1 DEF SetRow, Store!SetRow
<1> QED BY <1>1, <1>2

\* What a request has found it might have found in this step.
LEMMA StoreFinds ==
    ASSUME Safe, AllBased, NEW r \in Requests, NEW X, X \subseteq request[r].found
    PROVE  Store!Finds(r, X, Wanted(request[r]))
<1>1. \A x \in X : row[x] # "none"
  BY DEF AllBased, Based
<1>2. r \notin overtaken => \A x \in X : row[x] = Wanted(request[r])
  BY DEF Safe, Facts, AsChecked
<1> QED BY <1>1, <1>2 DEF Store!Finds, Store!Exist

LEMMA InsertPerfilStored ==
    ASSUME Safe, AllBased, NEW r \in Requests, InsertPerfil(r)
    PROVE  UNCHANGED Store!vars \/ Store!CreatePerfil(r)
<1> DEFINE q == request[r]
<1>1. CASE UNCHANGED <<tables, been, overtaken>>
  BY <1>1 DEF tables, Store!vars
<1>2. ASSUME NEW f \in Perfis, row[f] = "none", SetRow(r, f, "live"),
             perfil' = [perfil EXCEPT ![f] =
               [empresa |-> q.empresa, nome |-> q.nome, permissoes |-> q.permissoes]],
             row[q.empresa] # "none", ~NomeUsed(q.empresa, q.nome), UNCHANGED membro
      PROVE  Store!CreatePerfil(r)
  <2>1. /\ q.op = "createPerfil" /\ q.at = "write" /\ q \in Request /\ q.empresa \in Empresas
        /\ q.permissoes \subseteq q.found /\ q.permissoes \in SUBSET Permissoes
        /\ q.nome \in Nomes
    BY DEF InsertPerfil, At, Safe, Facts, TypeOK, Request, AllSound, Sound, AllBased, Based,
       ReliesOnFound
  <2>2. Store!Finds(r, q.permissoes, "live")
    BY <2>1, StoreFinds DEF Wanted
  <2>3. Store!Exist({q.empresa}) /\ Store!Free(q.empresa, q.nome)
    BY <1>2 DEF Store!Exist, Store!Free, NomeUsed
  <2>4. Store!SetRow(r, f, "live")
    BY <1>2, StoreSetRow
  <2> HIDE DEF q
  <2> QED BY <1>2, <2>1, <2>2, <2>3, <2>4 DEF Store!CreatePerfil
<1> QED BY <1>1, <1>2 DEF InsertPerfil

\* A profile is changed as the store allows, or the write is refused.
LEMMA ChangeStored ==
    ASSUME Safe, AllBased, NEW r \in Requests, ChangePerfil(r)
    PROVE  UNCHANGED Store!vars \/ Store!ChangePerfil(r)
<1> DEFINE q == request[r]
<1>1. PICK f \in q.target :
        LET new == Updated(q, perfil[f]) IN
        \/ UNCHANGED <<perfil, overtaken>>
        \/ /\ Updatable(q.ctx, f) /\ row[new.empresa] # "none" /\ ~Clashes(f, new)
           /\ WritePerfil(r, f, new)
  BY DEF ChangePerfil
<1>2. UNCHANGED <<row, membro>> /\ q.op \in {"patch", "permit"}
  BY DEF ChangePerfil, At
<1>3. f \in Perfis
  BY <1>1, <1>2 DEF Safe, Facts, AllSound, Sound
<1>4. CASE UNCHANGED <<perfil, overtaken>>
  BY <1>2, <1>4 DEF Store!vars
<1> DEFINE new == Updated(q, perfil[f])
<1>5. CASE /\ Updatable(q.ctx, f) /\ row[new.empresa] # "none" /\ ~Clashes(f, new)
           /\ WritePerfil(r, f, new)
  <2>1. new \in Perfil /\ new.empresa \in Empresas /\ row[f] # "none"
    BY <1>2, <1>3, <1>5, UpdatedTyped DEF Updatable
  <2>2. new.permissoes = perfil[f].permissoes \/ Store!Finds(r, new.permissoes, "live")
    <3>1. CASE q.op = "permit"
      <4>1. new.permissoes = q.permissoes /\ q.permissoes \subseteq q.found
        BY <3>1 DEF Updated, AllBased, Based, ReliesOnFound
      <4> QED BY <3>1, <4>1, StoreFinds DEF Wanted
    <3>2. CASE q.op = "patch"
      BY <3>2 DEF Updated
    <3> QED BY <1>2, <3>1, <3>2
  <2>3. new.nome \in Nomes \cup {perfil[f].nome}
    BY <1>2, <1>3, <1>5 DEF Updated, Safe, Facts, TypeOK, Request
  <2> HIDE DEF new
  <2>4. new = [empresa |-> new.empresa, nome |-> new.nome, permissoes |-> new.permissoes]
    BY <2>1 DEF Perfil
  <2>5. /\ <<new.empresa, new.nome>> = <<perfil[f].empresa, perfil[f].nome>>
             \/ Store!Free(new.empresa, new.nome)
        /\ Store!Exist({f, new.empresa}) /\ new.permissoes \in SUBSET Permissoes
    BY <1>5, <2>1 DEF Clashes, NomeUsed, Store!Free, Store!Exist, Perfil
  <2>6. /\ \E Q \in SUBSET (Requests \ {r}) : overtaken' = overtaken \cup Q
        /\ new.empresa = perfil[f].empresa => UNCHANGED overtaken
    <3>1. CASE new.empresa = perfil[f].empresa
      <4>1. {} \in SUBSET (Requests \ {r}) /\ overtaken' = overtaken \cup {}
        BY <1>5, <3>1 DEF WritePerfil
      <4> QED BY <1>5, <3>1, <4>1 DEF WritePerfil
    <3>2. CASE new.empresa # perfil[f].empresa
      <4> DEFINE Q == {z \in Requests \ {r} : f \in request[z].found}
      <4>1. Q \in SUBSET (Requests \ {r}) /\ overtaken' = overtaken \cup Q
        BY <1>5, <3>2 DEF WritePerfil, Overtake
      <4> HIDE DEF Q
      <4> QED BY <3>2, <4>1
    <3> QED BY <3>1, <3>2
  <2>7. perfil' = [perfil EXCEPT ![f] =
          [empresa |-> new.empresa, nome |-> new.nome, permissoes |-> new.permissoes]]
    BY <1>5, <2>4 DEF WritePerfil
  <2> QED BY <1>2, <1>3, <2>1, <2>2, <2>3, <2>5, <2>6, <2>7 DEF Store!ChangePerfil
<1> QED BY <1>1, <1>4, <1>5

\* A row is disabled or restored that has been found live or removed.
LEMMA FlipStored ==
    ASSUME Safe, AllBased, NEW r \in Requests, NEW x \in request[r].target, Flip(r, x),
           request[r].op \in {"disable", "restore"},
           x \in Permissoes \cup Perfis \/ (x \in Empresas /\ request[r].op = "disable")
    PROVE  Store!Disable(r) \/ Store!Restore(r)
<1>1. {x} \subseteq request[r].found
  BY DEF AllBased, Based, ReliesOnFound
<1>2. Store!Finds(r, {x}, Wanted(request[r]))
  BY <1>1, StoreFinds
<1>3. UNCHANGED <<perfil, membro>>
  BY DEF Flip
<1>4. CASE request[r].op = "disable"
  <2>1. Store!SetRow(r, x, "removed") /\ Store!Finds(r, {x}, "live")
    BY <1>2, <1>4, StoreSetRow DEF Flip, SoftDelete, Wanted
  <2> QED BY <1>3, <2>1 DEF Store!Disable
<1>5. CASE request[r].op = "restore"
  <2>1. Store!SetRow(r, x, "live") /\ Store!Finds(r, {x}, "removed")
    BY <1>2, <1>5, StoreSetRow DEF Flip, Wanted
  <2> QED BY <1>3, <1>5, <2>1 DEF Store!Restore
<1> QED BY <1>4, <1>5

\* A row is created that does not exist.
LEMMA CreateStored ==
    ASSUME NEW r \in Requests,
           \/ InsertUsuario(r) \/ InsertPermissao(r) \/ CreateEmpresa(r)
    PROVE  UNCHANGED Store!vars \/ Store!Create(r)
<1>1. UNCHANGED <<perfil, membro>>
  BY DEF InsertUsuario, InsertPermissao, Insert, CreateEmpresa
<1>2. CASE UNCHANGED <<row, overtaken>>
  BY <1>1, <1>2 DEF Store!vars
<1>3. ASSUME NEW x \in Empresas \cup Permissoes \cup Usuarios, row[x] = "none",
             SetRow(r, x, "live")
      PROVE  Store!Create(r)
  <2>1. Store!SetRow(r, x, "live")
    BY <1>3, StoreSetRow
  <2> QED BY <1>1, <1>3, <2>1 DEF Store!Create
<1>4. CASE InsertUsuario(r) \/ InsertPermissao(r)
  BY <1>2, <1>3, <1>4 DEF InsertUsuario, InsertPermissao, Insert
<1>5. CASE CreateEmpresa(r)
  BY <1>2, <1>3, <1>5 DEF CreateEmpresa
<1> QED BY <1>4, <1>5

\* All that addUser checks it has found by the upsert.
LEMMA UpsertStored ==
    ASSUME Safe, AllBased, NEW r \in Requests, Upsert(r)
    PROVE  Store!AddUser(r)
<1> DEFINE q == request[r]
           F == q.target \cap Perfis
<1>1. PICK u \in q.target \cap Usuarios : membro' = [membro EXCEPT ![u][q.empresa] = F]
  BY DEF Upsert
<1>2. UNCHANGED <<row, perfil, overtaken>> /\ q.op = "addUser" /\ q.at = "write"
  BY DEF Upsert, At
<1>3. /\ q.empresa \in Empresas /\ q.ctx \in Empresas
      /\ r \in overtaken \/ \A f \in F : perfil[f].empresa = q.ctx
  <2>1. F \subseteq q.found
    BY <1>2 DEF AllBased, Based, ReliesOnFound
  <2> QED BY <1>2, <2>1 DEF Safe, Facts, AllSound, Sound, AsChecked
<1>4. {u, q.empresa} \cup F \subseteq q.found
  BY <1>1, <1>2 DEF AllBased, Based, ReliesOnFound
<1>5. Store!Finds(r, {u, q.empresa} \cup F, "live")
  BY <1>2, <1>4, StoreFinds DEF Wanted
<1>6. F \in SUBSET Perfis
  OBVIOUS
<1> HIDE DEF q, F
<1> QED BY <1>1, <1>2, <1>3, <1>5, <1>6 DEF Store!AddUser

\* The other steps of a request write nothing.
LEMMA ReadsStored ==
    ASSUME NEW r \in Requests,
           \/ CreatePerfil(r) \/ CheckNome(r) \/ UpdatePerfil(r) \/ FindPerfilToPermit(r)
           \/ ListHolders(r) \/ ChangePermissao(r) \/ ChangeEmpresa(r) \/ UpdateEmpresa(r)
           \/ CreateUsuario(r) \/ CreatePermissao(r) \/ AddUser(r) \/ FindUsuario(r)
           \/ FindPerfis(r)
    PROVE  UNCHANGED Store!vars
<1>1. UNCHANGED <<tables, overtaken>>
  BY DEF CreatePerfil, CheckNome, UpdatePerfil, FindPerfilToPermit, ListHolders,
     ChangePermissao, ChangeEmpresa, UpdateEmpresa, CreateUsuario, CreatePermissao, CheckNew,
     AddUser, FindUsuario, FindPerfis, unchangedByRead
<1> QED BY <1>1 DEF tables, Store!vars

LEMMA StoreInit == Init => Store!Init
<1> SUFFICES ASSUME Init PROVE Store!Init
  OBVIOUS
<1>1. Safe /\ overtaken = {}
  BY InitSafe DEF Init
<1>2. ASSUME NEW f \in Perfis
      PROVE  /\ row[f] = "none" <=> perfil[f].empresa = None
             /\ row[f] # "none" => Store!Exist({perfil[f].empresa} \cup perfil[f].permissoes)
  BY <1>1 DEF Safe, Facts, References, Store!Exist
<1>3. ASSUME NEW f \in Perfis, NEW g \in Perfis, f # g, row[f] # "none",
             perfil[g].empresa = perfil[f].empresa
      PROVE  perfil[g].nome # perfil[f].nome
  BY <1>1, <1>2, <1>3 DEF Safe, Facts, UniqueNomes
<1>4. ASSUME NEW u \in Usuarios, NEW e \in Empresas, membro[u][e] # {}
      PROVE  Store!Exist({u, e} \cup membro[u][e])
  BY <1>1, <1>4 DEF Safe, Facts, References, Store!Exist
<1> QED BY <1>1, <1>2, <1>3, <1>4 DEF Store!Init

LEMMA StoreStep ==
    ASSUME Safe, AllBased, [Next]_vars PROVE [Store!Next]_(Store!vars)
<1>1. CASE UNCHANGED vars
  BY <1>1 DEF vars, tables, Store!vars
<1>2. ASSUME NEW u \in Usuarios, FlipUsuario(u) PROVE Store!FlipUsuario(u)
  <2> DEFINE Q == {q \in Requests : u \in request[q].found}
  <2>1. Q \in SUBSET Requests /\ overtaken' = overtaken \cup Q
    BY <1>2 DEF FlipUsuario
  <2> HIDE DEF Q
  <2> QED BY <1>2, <2>1 DEF FlipUsuario, Store!FlipUsuario
<1>3. ASSUME NEW r \in Requests, Handle(r)
      PROVE  UNCHANGED Store!vars \/ Store!Next
  <2>1. CASE FlipPermissao(r)
    BY <2>1, FlipStored DEF FlipPermissao, At, Store!Next
  <2>2. CASE FlipPerfil(r)
    BY <2>2, FlipStored DEF FlipPerfil, At, Store!Next, unchangedByRead, tables, Store!vars
  <2>3. CASE RemoveEmpresa(r)
    BY <2>3, FlipStored DEF RemoveEmpresa, At, Store!Next
  <2>4. CASE InsertPerfil(r) \/ ChangePerfil(r) \/ Upsert(r)
    BY <2>4, InsertPerfilStored, ChangeStored, UpsertStored DEF Store!Next
  <2>5. CASE InsertUsuario(r) \/ InsertPermissao(r) \/ CreateEmpresa(r)
    BY <2>5, CreateStored DEF Store!Next
  <2> QED BY <1>3, <2>1, <2>2, <2>3, <2>4, <2>5, ReadsStored DEF Handle
<1>4. CASE AllServed
  BY <1>1, <1>4 DEF AllServed
<1> QED BY <1>1, <1>2, <1>3, <1>4 DEF Next, Store!Next

\* The operations, each of several queries and without a transaction, change the tables
\* as if each happened in one step (PerfisService, PermissoesService, EmpresasService):
\* a write may rest on a row that has changed or moved since, but then another request
\* has overtaken this one, and the row exists.
THEOREM CadastroImplementsStore == Spec => ImplementsCadastroStore
<1>1. Init => Safe /\ AllBased /\ Store!Init
  BY InitSafe, InitBased, StoreInit
<1>2. Safe /\ AllBased /\ [Next]_vars => (Safe /\ AllBased)' /\ [Store!Next]_(Store!vars)
  BY StepSafe, BasedStep, StoreStep
<1> QED BY <1>1, <1>2, PTL DEF Spec, ImplementsCadastroStore, Store!Spec

\* A profile gets into the memberships of a company only from one that it has been in,
\* although it may be moved at any time (EmpresasService.addUser, PerfisService.update).
THEOREM MembershipsAreScoped == Spec => []MembershipScoped
<1>1. Init => Safe /\ AllBased
  BY InitSafe, InitBased
<1>2. Safe /\ AllBased /\ [Next]_vars => (Safe /\ AllBased)'
  BY StepSafe, BasedStep
<1>3. Safe => MembershipScoped
  BY DEF Safe
<1> QED BY <1>1, <1>2, <1>3, PTL DEF Spec

\* A change of permissions drops the cache of everybody who holds the profile in the
\* company of the context, although the profile may be moved before they are listed or
\* in the same update (PerfisService.update).
THEOREM InvalidationIsComplete == Spec => []InvalidationCovers
<1>1. Init => Safe /\ AllBased
  BY InitSafe, InitBased
<1>2. Safe /\ AllBased /\ [Next]_vars => (Safe /\ AllBased)'
  BY StepSafe, BasedStep
<1>3. Safe => InvalidationCovers
  BY DEF Safe
<1> QED BY <1>1, <1>2, <1>3, PTL DEF Spec

\* A profile that a step of r changes is the one it was asked to change, in its company.
LEMMA TenantStep ==
    ASSUME Safe, NEW r \in Requests, Handle(r), NEW f \in Perfis, row[f] # "none",
           <<row[f], perfil[f]>>' # <<row[f], perfil[f]>>
    PROVE  f \in request[r].target /\ request[r].ctx = perfil[f].empresa
<1>1. row \in [Rows -> {"none", "live", "removed"}] /\ perfil \in [Perfis -> Perfil]
  BY DEF Safe, Facts, TypeOK
<1>2. \A x \in Rows, state \in {"none", "live", "removed"} :
        SetRow(r, x, state) /\ x # f => row'[f] = row[f]
  BY <1>1 DEF SetRow
<1>3. \A x \in Rows : Flip(r, x) => row'[f] = row[f] \/ x = f
  BY <1>2 DEF Flip, SoftDelete
<1>4. \A x \in Rows : Flip(r, x) => perfil'[f] = perfil[f]
  BY DEF Flip
<1>5. CASE FlipPerfil(r)
  BY <1>3, <1>4, <1>5 DEF FlipPerfil, Updatable, InContext, unchangedByRead, tables
<1>6. CASE FlipPermissao(r) \/ RemoveEmpresa(r)
  <2>1. PICK x \in Rows \ Perfis : Flip(r, x)
    BY <1>6 DEF FlipPermissao, RemoveEmpresa
  <2> QED BY <1>3, <1>4, <2>1
<1>7. CASE InsertPerfil(r)
  <2>1. CASE UNCHANGED tables
    BY <2>1 DEF tables
  <2>2. ASSUME NEW g \in Perfis, row[g] = "none", SetRow(r, g, "live"), NEW new,
               perfil' = [perfil EXCEPT ![g] = new]
        PROVE  FALSE
    BY <1>1, <1>2, <2>2
  <2> QED BY <1>7, <2>1, <2>2 DEF InsertPerfil
<1>8. CASE ChangePerfil(r)
  <2>1. PICK g \in request[r].target :
          \/ UNCHANGED perfil
          \/ /\ InContext(request[r].ctx, g)
             /\ WritePerfil(r, g, Updated(request[r], perfil[g]))
    BY <1>8 DEF ChangePerfil, Updatable
  <2>2. row' = row
    BY <1>8 DEF ChangePerfil
  <2>3. perfil' # perfil /\ g = f
    BY <1>1, <2>1, <2>2 DEF WritePerfil
  <2> QED BY <2>1, <2>3 DEF InContext
<1>10. ASSUME NEW X \in SUBSET (Rows \ Perfis), Insert(r, X) PROVE FALSE
  BY <1>1, <1>2, <1>10 DEF Insert
<1>11. CASE CreateEmpresa(r)
  BY <1>1, <1>2, <1>11 DEF CreateEmpresa
<1>12. CASE InsertUsuario(r) \/ InsertPermissao(r)
  <2>1. Usuarios \in SUBSET (Rows \ Perfis) /\ Permissoes \in SUBSET (Rows \ Perfis)
    OBVIOUS
  <2> QED BY <1>10, <1>12, <2>1 DEF InsertUsuario, InsertPermissao
<1>13. ASSUME UNCHANGED <<row, perfil>> PROVE FALSE
  BY <1>13
<1>14. CASE \/ CreatePerfil(r) \/ CheckNome(r) \/ UpdatePerfil(r) \/ FindPerfilToPermit(r)
            \/ ListHolders(r) \/ ChangePermissao(r) \/ ChangeEmpresa(r) \/ UpdateEmpresa(r)
            \/ CreateUsuario(r) \/ CreatePermissao(r) \/ AddUser(r) \/ FindUsuario(r)
            \/ FindPerfis(r) \/ Upsert(r)
  BY <1>13, <1>14 DEF CreatePerfil, CheckNome, UpdatePerfil, FindPerfilToPermit, ListHolders,
     ChangePermissao, ChangeEmpresa, UpdateEmpresa, CreateUsuario, CreatePermissao, CheckNew,
     AddUser, FindUsuario, FindPerfis, Upsert, unchangedByRead, tables
<1> QED BY <1>5, <1>6, <1>7, <1>8, <1>11, <1>12, <1>14 DEF Handle

\* A profile is changed only by a request in the context of the company that it is in at
\* the write: this is narrowed too, for between the query that finds the profile and the
\* one that writes it another request may move it (PerfisService.update).
THEOREM ProfilesAreOfTheirTenant == Spec => TenantScoped
<1>1. Safe /\ [Next]_vars =>
        [\A f \in Perfis :
            (row[f] # "none" /\ <<row[f], perfil[f]>>' # <<row[f], perfil[f]>>)
              => \E r \in Requests : f \in request[r].target
                                     /\ request[r].ctx = perfil[f].empresa]_vars
  <2> SUFFICES ASSUME Safe, Next, ~UNCHANGED vars, NEW f \in Perfis, row[f] # "none",
                      <<row[f], perfil[f]>>' # <<row[f], perfil[f]>>
               PROVE  \E r \in Requests : f \in request[r].target
                                          /\ request[r].ctx = perfil[f].empresa
    OBVIOUS
  <2>1. ASSUME NEW u \in Usuarios, FlipUsuario(u) PROVE FALSE
    BY <2>1 DEF FlipUsuario, Safe, Facts, TypeOK
  <2> QED BY <2>1, TenantStep DEF Next, AllServed
<1>2. Init => Safe /\ AllBased
  BY InitSafe, InitBased
<1>3. Safe /\ AllBased /\ [Next]_vars => (Safe /\ AllBased)'
  BY StepSafe, BasedStep
<1> QED BY <1>1, <1>2, <1>3, PTL DEF Spec, TenantScoped
=============================================================================
