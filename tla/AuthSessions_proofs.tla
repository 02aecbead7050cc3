------------------------ MODULE AuthSessions_proofs ------------------------
(***************************************************************************)
(* Proofs, for every set of requests, users and tokens, of the safety      *)
(* properties of AuthSessions and that it implements SessionStore, from    *)
(* the inductive invariant IInv.                                           *)
(***************************************************************************)
EXTENDS AuthSessions, TLAPS

-----------------------------------------------------------------------------
(* Typing.                                                                 *)

\* New rows, and rows one of whose columns is overwritten, are rows.
LEMMA RowTypes ==
    /\ \A row \in TokenRow : /\ [row EXCEPT !.state = "revoked"] \in TokenRow
                             /\ [row EXCEPT !.state = "deleted"] \in TokenRow
                             /\ [row EXCEPT !.expired = TRUE] \in TokenRow
    /\ \A u \in Users \cup {None}, t \in Tokens \cup {None},
          s \in Authors \cup {None}, a \in Authors \cup {None} :
         NewToken(u, t, s, a) \in TokenRow
    /\ \A row \in ResetRow : /\ [row EXCEPT !.state = "used"] \in ResetRow
                             /\ [row EXCEPT !.expired = TRUE] \in ResetRow
    /\ \A u \in Users \cup {None}, a \in Authors \cup {None} : NewReset(u, a) \in ResetRow
    /\ \A row \in UserRow, s \in Authors : [row EXCEPT !.senha = s] \in UserRow
    /\ \A row \in UserRow, a \in BOOLEAN, d \in Authors \cup {None} :
         [row EXCEPT !.ativo = a, !.deletedAt = d] \in UserRow
  BY DEF TokenRow, ResetRow, UserRow, NewToken, NewReset

\* Init establishes the type invariant.
LEMMA TypeInit == Init => TypeOK
<1> SUFFICES ASSUME Init PROVE TypeOK
  OBVIOUS
<1>1. usuario \in [Users -> UserRow] /\ draft \in [Users -> UserRow]
  <2> DEFINE Rows == {[senha |-> Seed, ativo |-> TRUE, deletedAt |-> None],
                     [senha |-> Seed, ativo |-> FALSE, deletedAt |-> Seed]}
  <2>1. Rows \subseteq UserRow
    BY DEF UserRow, Authors
  <2>2. usuario \in [Users -> Rows] /\ draft = usuario
    BY DEF Init
  <2> QED
    BY <2>1, <2>2
<1>2. refreshToken \in [Tokens -> TokenRow]
  <2> PICK owner \in [Preissued -> Users] :
        refreshToken = [t \in Tokens |-> IF t \in Preissued
          THEN NewToken(owner[t], None, Seed, Seed) ELSE AbsentToken]
    BY DEF Init
  <2> QED
    BY DEF NewToken, AbsentToken, TokenRow, Authors
<1>3. resetToken \in [ResetTokens -> ResetRow]
  <2> PICK owner \in [PreissuedResets -> Users] :
        resetToken = [r \in ResetTokens |-> IF r \in PreissuedResets
          THEN NewReset(owner[r], Seed) ELSE AbsentReset]
    BY DEF Init
  <2> QED
    BY DEF NewReset, AbsentReset, ResetRow, Authors
<1>4. NoOperation \in Operation
  BY DEF NoOperation, Operation
<1> QED
  BY <1>1, <1>2, <1>3, <1>4 DEF Init, TypeOK

\* Every action preserves the type invariant.
LEMMA TypeStep == TypeOK /\ WellFormed /\ [Next]_vars => TypeOK'
<1> SUFFICES ASSUME TypeOK, WellFormed, Next PROVE TypeOK'
  BY DEF TypeOK, vars
<1> USE DEF TypeOK
<1>1. ASSUME NEW p \in Requests, NEW o \in Operation, NEW s \in Statements \cup Outcomes,
             Arrive(p, o, s), UNCHANGED <<tables, draft, lockU, lockT, wanted>>,
             todo' \in [Requests -> SUBSET Tokens], read' \in [Requests -> Authors \cup {None}]
      PROVE  TypeOK'
  BY <1>1 DEF Arrive, Goto, tables, Ended
<1>2. ASSUME NEW p \in Requests, NEW s \in Outcomes, Rollback(p, s)
      PROVE  TypeOK'
  BY <1>2 DEF Rollback, Release, Unlock, Goto
<1>3. ASSUME NEW p \in Requests, NEW u, NEW row, u \in Users => row \in UserRow,
             Commit(p, u, row), resetToken' \in [ResetTokens -> ResetRow]
      PROVE  TypeOK'
  <2>1. refreshToken' \in [Tokens -> TokenRow]
    BY <1>3, RowTypes DEF Commit, TokensAfterCommit
  <2>2. /\ lockU' \in [Users -> Requests \cup {None}]
        /\ lockT' \in [Tokens -> Requests \cup {None}]
        /\ todo' \in [Requests -> SUBSET Tokens]
        /\ wanted' \in [Requests -> Tokens \cup {None}]
    BY <1>3 DEF Commit, Release, Unlock
  <2> QED
    BY <1>3, <2>1, <2>2 DEF Commit, Goto, Outcomes
<1>4. ASSUME NEW p \in Requests, Begin(p) PROVE TypeOK'
  <2>1. CASE BeginLogin(p)
    <3> PICK u \in Users, a \in Authors, s \in Statements \cup Outcomes :
          Arrive(p, [NoOperation EXCEPT !.kind = "login", !.user = u, !.cred = a], s)
      BY <2>1 DEF BeginLogin, Statements, Outcomes
    <3> DEFINE o == [NoOperation EXCEPT !.kind = "login", !.user = u, !.cred = a]
    <3>1. o \in Operation
      BY DEF NoOperation, Operation, AllKinds, Authors
    <3> QED
      BY <1>1, <2>1, <3>1 DEF BeginLogin, tables, locks
  <2>2. CASE BeginRefresh(p)
    <3> PICK t \in Tokens, s \in Statements \cup Outcomes :
          Arrive(p, [NoOperation EXCEPT !.kind = "refresh",
                        !.user = refreshToken[t].userId,
                        !.token = t], s)
      BY <2>2 DEF BeginRefresh, Statements, Outcomes
    <3> DEFINE o == [NoOperation EXCEPT !.kind = "refresh",
                    !.user = refreshToken[t].userId,
                    !.token = t]
    <3>1. o \in Operation
      BY DEF NoOperation, Operation, AllKinds, TokenRow
    <3> QED
      BY <1>1, <2>2, <3>1 DEF BeginRefresh, tables, locks
  <2>3. CASE BeginUpdate(p)
    <3> PICK u \in Users, b \in Patches, s \in Statements \cup Outcomes :
          /\ Arrive(p, [NoOperation EXCEPT !.kind = "update",
                        !.user = u,
                        !.ativo = b.ativo,
                        !.senha = b.senha], s)
          /\ read' = [read EXCEPT ![p] = usuario[u].deletedAt]
      BY <2>3 DEF BeginUpdate, Statements, Outcomes
    <3> DEFINE o == [NoOperation EXCEPT !.kind = "update",
                    !.user = u,
                    !.ativo = b.ativo,
                    !.senha = b.senha]
    <3>1. o \in Operation
      BY ConstantsAssumption DEF NoOperation, Operation, AllKinds, Patch
    <3>2. usuario[u].deletedAt \in Authors \cup {None}
      BY DEF UserRow
    <3>3. read' \in [Requests -> Authors \cup {None}]
      BY <3>2
    <3> QED
      BY <1>1, <2>3, <3>1, <3>3 DEF BeginUpdate, tables, locks
  <2>4. CASE BeginForgot(p)
    <3> PICK u \in Users, s \in Statements \cup Outcomes :
          Arrive(p, [NoOperation EXCEPT !.kind = "forgot", !.user = u], s)
      BY <2>4 DEF BeginForgot, Statements, Outcomes
    <3> DEFINE o == [NoOperation EXCEPT !.kind = "forgot", !.user = u]
    <3>1. o \in Operation
      BY DEF NoOperation, Operation, AllKinds
    <3> QED
      BY <1>1, <2>4, <3>1 DEF BeginForgot, tables, locks
  <2>5. CASE BeginReset(p)
    <3> PICK r \in ResetTokens, s \in Statements \cup Outcomes :
          Arrive(p, [NoOperation EXCEPT !.kind = "reset",
                        !.user = resetToken[r].userId,
                        !.reset = r], s)
      BY <2>5 DEF BeginReset, Statements, Outcomes
    <3> DEFINE o == [NoOperation EXCEPT !.kind = "reset",
                    !.user = resetToken[r].userId,
                    !.reset = r]
    <3>1. o \in Operation
      BY DEF NoOperation, Operation, AllKinds, ResetRow
    <3> QED
      BY <1>1, <2>5, <3>1 DEF BeginReset, tables, locks
  <2>6. CASE BeginFlush(p)
    <3> DEFINE o == [NoOperation EXCEPT !.kind = "flush"]
    <3>1. o \in Operation
      BY DEF NoOperation, Operation, AllKinds
    <3> QED
      BY <1>1, <2>6, <3>1 DEF BeginFlush, Statements, tables
  <2> QED
    BY <1>4, <2>1, <2>2, <2>3, <2>4, <2>5, <2>6 DEF Begin
<1>5. ASSUME NEW p \in Requests, Serve(p) PROVE TypeOK'
  <2>1. CASE LoginProfile(p)
    BY <2>1 DEF LoginProfile, Goto, locks, Outcomes, Statements
  <2>2. CASE LoginIssue(p)
    <3> PICK t \in Tokens : refreshToken' =
          [refreshToken EXCEPT ![t] = NewToken(op[p].user, None, op[p].cred, p)]
      BY <2>2 DEF LoginIssue
    <3>1. NewToken(op[p].user, None, op[p].cred, p) \in TokenRow
      BY RowTypes DEF Operation, Authors
    <3> QED
      BY <2>2, <3>1 DEF LoginIssue, Goto, locks, Outcomes
  <2>3. CASE RefreshUser(p)
    BY <2>3 DEF RefreshUser, Goto, tables, locks, Outcomes, Statements
  <2>4. CASE RefreshRotate(p)
    <3> DEFINE parent == op[p].token
    <3>1. CASE refreshToken[parent].state = "deleted"
      BY <2>4, <3>1 DEF RefreshRotate, Goto, locks, Outcomes
    <3>2. CASE refreshToken[parent].state # "deleted"
      <4> PICK t \in Tokens : refreshToken' = [refreshToken EXCEPT
            ![parent].state = "revoked",
            ![t] = NewToken(op[p].user, parent, refreshToken[parent].cred, p)]
        BY <2>4, <3>2 DEF RefreshRotate
      <4>1. NewToken(op[p].user, parent, refreshToken[parent].cred, p) \in TokenRow
        <5>1. parent \in Tokens
          BY <2>4 DEF RefreshRotate, WellFormed, RequestOK
        <5>2. op[p].user \in Users \cup {None} /\ p \in Authors
          BY DEF Operation, Authors
        <5>3. refreshToken[parent].cred \in Authors \cup {None}
          BY <5>1 DEF TokenRow
        <5> QED
          BY <5>1, <5>2, <5>3, RowTypes
      <4>2. refreshToken' \in [Tokens -> TokenRow]
        BY <4>1, RowTypes
      <4> QED
        BY <2>4, <3>2, <4>2 DEF RefreshRotate, Goto, locks, Outcomes
    <3> QED
      BY <3>1, <3>2
  <2>5. CASE ReuseThrow(p)
    BY <1>2, <2>5 DEF ReuseThrow, Outcomes
  <2>6. CASE StartScan(p)
    BY <2>6 DEF StartScan, Goto, tables, Statements
  <2>7. CASE LockRow(p)
    BY <2>7 DEF LockRow, tables
  <2>8. CASE QueueForRow(p)
    BY <2>8 DEF QueueForRow, tables
  <2>9. CASE EndScan(p)
    BY <2>9 DEF EndScan, Goto, tables, locks, Statements
  <2>10. CASE UpdateAtivo(p)
    <3> DEFINE u == op[p].user
               restore == op[p].ativo = "restore"
               row == [usuario[u] EXCEPT !.ativo = restore,
                                         !.deletedAt = IF restore THEN None ELSE p]
    <3>1. u \in Users => row \in UserRow
      <4>1. restore \in BOOLEAN /\ p \in Authors
        BY DEF Authors
      <4> HIDE DEF restore
      <4> QED
        BY <4>1, RowTypes
    <3>2. CASE Rollback(p, "conflict")
      BY <1>2, <3>2 DEF Outcomes
    <3>3. CASE Commit(p, u, row) /\ UNCHANGED resetToken
      BY <1>3, <3>1, <3>3
    <3>4. CASE /\ lockU' = [lockU EXCEPT ![u] = p]
               /\ draft' = [draft EXCEPT ![u] = row]
               /\ Goto(p, "scan")
               /\ UNCHANGED <<tables, lockT, todo, wanted, op, read, before>>
      BY <3>1, <3>4 DEF Goto, tables, Statements
    <3> QED
      BY <2>10, <3>2, <3>3, <3>4 DEF UpdateAtivo
  <2>11. CASE UpdateSenha(p)
    <3> DEFINE u == op[p].user
               row == [Visible(p, u) EXCEPT !.senha = p]
    <3>1. u \in Users => row \in UserRow
      BY RowTypes DEF Visible, Authors
    <3>2. CASE Rollback(p, "conflict")
      BY <1>2, <3>2 DEF Outcomes
    <3>3. CASE Commit(p, u, row) /\ UNCHANGED resetToken
      BY <1>3, <3>1, <3>3
    <3> QED
      BY <2>11, <3>2, <3>3 DEF UpdateSenha
  <2>12. CASE ForgotInvalidate(p)
    BY <2>12, RowTypes DEF ForgotInvalidate, Goto, locks, Statements
  <2>13. CASE ForgotCreate(p)
    <3> PICK r \in ResetTokens : resetToken' = [resetToken EXCEPT ![r] = NewReset(op[p].user, p)]
      BY <2>13 DEF ForgotCreate
    <3>1. NewReset(op[p].user, p) \in ResetRow
      BY RowTypes DEF Operation, Authors
    <3> QED
      BY <2>13, <3>1 DEF ForgotCreate, Goto, locks, Outcomes
  <2>14. CASE ResetUsuario(p)
    <3> DEFINE u == op[p].user
    <3>1. draft' \in [Users -> UserRow]
      BY <2>14, RowTypes DEF ResetUsuario, Authors
    <3> QED
      BY <2>14, <3>1 DEF ResetUsuario, Goto, tables, Statements
  <2>15. CASE ResetConsume(p)
    <3>1. resetToken' \in [ResetTokens -> ResetRow]
      BY <2>15, RowTypes DEF ResetConsume
    <3> QED
      BY <1>3, <2>15, <3>1 DEF ResetConsume
  <2>16. CASE FlushCommit(p)
    <3>1. refreshToken' \in [Tokens -> TokenRow]
      BY <2>16, RowTypes DEF FlushCommit, TokensAfterCommit
    <3>2. /\ lockU' \in [Users -> Requests \cup {None}]
          /\ lockT' \in [Tokens -> Requests \cup {None}]
          /\ todo' \in [Requests -> SUBSET Tokens]
          /\ wanted' \in [Requests -> Tokens \cup {None}]
      BY <2>16 DEF FlushCommit, Release, Unlock
    <3> QED
      BY <2>16, <3>1, <3>2 DEF FlushCommit, Goto, Outcomes
  <2> QED
    BY <1>5, <2>1, <2>2, <2>3, <2>4, <2>5, <2>6, <2>7, <2>8, <2>9, <2>10, <2>11,
       <2>12, <2>13, <2>14, <2>15, <2>16 DEF Serve
<1>6. ASSUME NEW p \in Requests, Abort(p) \/ DeadlockVictim(p) PROVE TypeOK'
  BY <1>2, <1>6 DEF Abort, DeadlockVictim, Outcomes
<1>7. ASSUME NEW t \in Tokens, ExpireToken(t) PROVE TypeOK'
  BY <1>7, RowTypes DEF ExpireToken, locks
<1>8. ASSUME NEW r \in ResetTokens, ExpireReset(r) PROVE TypeOK'
  BY <1>8, RowTypes DEF ExpireReset, locks
<1>9. CASE AllServed
  BY <1>9 DEF AllServed, vars
<1> QED
  BY <1>4, <1>5, <1>6, <1>7, <1>8, <1>9 DEF Next

-----------------------------------------------------------------------------
(* What a step does to a request, a token and a user.                      *)

\* Nothing but the acting request moves; it arrives or it was being served.
Stays(p) == pc'[p] = pc[p] /\ op'[p] = op[p] /\ before'[p] = before[p]

Arrives(p) == pc[p] = "idle" /\ before'[p] = Ended /\ pc'[p] # "idle"

Advances(p) == /\ pc[p] \in Statements /\ pc'[p] \in Statements \cup Outcomes
               /\ op'[p] = op[p] /\ before'[p] = before[p]

\* A request that waits in a cycle is being served.
LEMMA CycleServed ==
    ASSUME TypeOK, NEW p \in Requests, OnWaitCycle(p) PROVE pc[p] \in Statements
<1>1. Blocker(p) # None
  BY ConstantsAssumption DEF OnWaitCycle
<1>2. pc[p] \in {"reset.usuario", "update.ativo", "update.senha", "refresh.rotate", "lock"}
  BY <1>1 DEF Blocker
<1> QED
  BY <1>2 DEF Statements

\* Every request stays as it is, arrives or advances.
LEMMA RequestFate ==
    ASSUME TypeOK, Next, NEW q \in Requests
    PROVE  Stays(q) \/ Arrives(q) \/ Advances(q)
<1> USE DEF TypeOK
<1>1. ASSUME NEW p \in Requests, NEW o, NEW s \in Statements \cup Outcomes, Arrive(p, o, s)
      PROVE  Stays(q) \/ Arrives(q)
  BY <1>1 DEF Arrive, Goto, Stays, Arrives, Statements, Outcomes
<1>2. ASSUME NEW p \in Requests, NEW s \in Statements \cup Outcomes, pc[p] \in Statements,
             Goto(p, s), UNCHANGED <<op, before>>
      PROVE  Stays(q) \/ Advances(q)
  BY <1>2 DEF Goto, Stays, Advances
<1>3. ASSUME NEW p \in Requests, Begin(p) PROVE Stays(q) \/ Arrives(q)
  <2> USE DEF Statements, Outcomes
  <2>1. CASE BeginLogin(p)
    BY <1>1, <2>1 DEF BeginLogin
  <2>2. CASE BeginRefresh(p)
    BY <1>1, <2>2 DEF BeginRefresh
  <2>3. CASE BeginUpdate(p)
    BY <1>1, <2>3 DEF BeginUpdate
  <2>4. CASE BeginForgot(p)
    BY <1>1, <2>4 DEF BeginForgot
  <2>5. CASE BeginReset(p)
    BY <1>1, <2>5 DEF BeginReset
  <2>6. CASE BeginFlush(p)
    BY <1>1, <2>6 DEF BeginFlush
  <2> QED
    BY <1>3, <2>1, <2>2, <2>3, <2>4, <2>5, <2>6 DEF Begin
<1>4. ASSUME NEW p \in Requests, Serve(p) PROVE Stays(q) \/ Advances(q)
  <2>1. CASE LoginProfile(p) \/ LoginIssue(p) \/ RefreshUser(p) \/ RefreshRotate(p)
    BY <1>2, <2>1 DEF LoginProfile, LoginIssue, RefreshUser, RefreshRotate, Statements, Outcomes
  <2>2. CASE ReuseThrow(p)
    BY <1>2, <2>2 DEF ReuseThrow, Rollback, Statements, Outcomes
  <2>3. CASE StartScan(p) \/ EndScan(p)
    BY <1>2, <2>3 DEF StartScan, EndScan, Statements
  <2>4. CASE LockRow(p) \/ QueueForRow(p)
    BY <2>4 DEF LockRow, QueueForRow, Stays
  <2>5. CASE UpdateAtivo(p) \/ UpdateSenha(p)
    BY <1>2, <2>5 DEF UpdateAtivo, UpdateSenha, Commit, Rollback, Statements, Outcomes
  <2>6. CASE ForgotInvalidate(p) \/ ForgotCreate(p)
    BY <1>2, <2>6 DEF ForgotInvalidate, ForgotCreate, Statements, Outcomes
  <2>7. CASE ResetUsuario(p) \/ ResetConsume(p) \/ FlushCommit(p)
    BY <1>2, <2>7 DEF ResetUsuario, ResetConsume, FlushCommit, Commit, Statements, Outcomes
  <2> QED
    BY <1>4, <2>1, <2>2, <2>3, <2>4, <2>5, <2>6, <2>7 DEF Serve
<1>5. ASSUME NEW p \in Requests, Abort(p) \/ DeadlockVictim(p) PROVE Stays(q) \/ Advances(q)
  BY <1>2, <1>5, CycleServed DEF Abort, DeadlockVictim, Rollback, Outcomes
<1>6. ASSUME NEW t, ExpireToken(t) \/ ExpireReset(t) PROVE Stays(q)
  BY <1>6 DEF ExpireToken, ExpireReset, Stays
<1>7. CASE AllServed
  BY <1>7 DEF AllServed, vars, Stays
<1> QED
  BY <1>3, <1>4, <1>5, <1>6, <1>7 DEF Next

\* Row t is inserted by p: at login, or in place of the token p presented.
Born(t, p) ==
    /\ ~Issued(t)
    /\ refreshToken'[t].state = "active"
    /\ refreshToken'[t].by = p
    /\ refreshToken'[t].userId = op[p].user
    /\ pc'[p] = "ok"
    /\ UNCHANGED <<usuario, op, before>>
    /\ \/ /\ pc[p] = "login.issue"
          /\ refreshToken'[t].parent = None
       \/ /\ pc[p] = "refresh.rotate"
          /\ refreshToken'[t].parent = op[p].token
          /\ refreshToken'[op[p].token].state = "revoked"

\* Row t is not inserted, and if it changes it expires, or dies unlocked.
Kept(t) ==
    /\ refreshToken'[t].userId = refreshToken[t].userId
    /\ refreshToken'[t].parent = refreshToken[t].parent
    /\ refreshToken'[t].by = refreshToken[t].by
    /\ refreshToken[t].expired => refreshToken'[t].expired
    /\ \/ refreshToken'[t].state = refreshToken[t].state
       \/ /\ Issued(t) /\ refreshToken'[t].state \in {"revoked", "deleted"}
          /\ lockT'[t] = None

\* Every row is inserted by a request being served, or kept.
LEMMA TokenFate ==
    ASSUME TypeOK, WellFormed, RowLocks, Next, NEW t \in Tokens
    PROVE  Kept(t) \/ \E p \in Requests : Born(t, p)
<1> USE DEF TypeOK
<1>1. ASSUME refreshToken' = refreshToken PROVE Kept(t)
  BY <1>1 DEF Kept
<1>2. ASSUME NEW p \in Requests, refreshToken' = TokensAfterCommit(p), Release(p)
      PROVE  Kept(t)
  BY <1>2, ConstantsAssumption DEF TokensAfterCommit, Kept, RowLocks, TokenRow, Release,
     Unlock
<1>3. ASSUME NEW p \in Requests, Begin(p) PROVE refreshToken' = refreshToken
  BY <1>3 DEF Begin, BeginLogin, BeginRefresh, BeginUpdate, BeginForgot, BeginReset,
              BeginFlush, tables
<1>4. ASSUME NEW p \in Requests, Serve(p) PROVE Kept(t) \/ Born(t, p)
  <2>1. CASE LoginProfile(p) \/ RefreshUser(p) \/ ForgotInvalidate(p) \/ ForgotCreate(p)
    BY <1>1, <2>1 DEF LoginProfile, RefreshUser, ForgotInvalidate, ForgotCreate, tables
  <2>2. CASE LoginIssue(p)
    BY <2>2 DEF LoginIssue, NewToken, Goto, Kept, Born, Issued
  <2>3. CASE RefreshRotate(p)
    <3> DEFINE parent == op[p].token
    <3>1. parent \in Tokens /\ Issued(parent)
      BY <2>3 DEF RefreshRotate, WellFormed, RequestOK
    <3>2. CASE refreshToken[parent].state = "deleted"
      BY <1>1, <2>3, <3>2 DEF RefreshRotate
    <3>3. CASE refreshToken[parent].state # "deleted"
      <4> PICK c \in Tokens :
            /\ refreshToken[c].state = "absent"
            /\ refreshToken' = [refreshToken EXCEPT
                 ![parent].state = "revoked",
                 ![c] = NewToken(op[p].user, parent, refreshToken[parent].cred, p)]
        BY <2>3, <3>3 DEF RefreshRotate
      <4>1. c # parent
        BY <3>1 DEF Issued
      <4>2. CASE t = c
        <5>1. /\ refreshToken'[c] = NewToken(op[p].user, parent, refreshToken[parent].cred, p)
              /\ refreshToken'[parent].state = "revoked"
          BY <3>1, <4>1 DEF TokenRow
        <5>2. /\ pc[p] = "refresh.rotate" /\ pc'[p] = "ok"
              /\ UNCHANGED <<usuario, op, before>>
          BY <2>3, <3>3 DEF RefreshRotate, Goto
        <5> QED
          BY <4>2, <5>1, <5>2 DEF NewToken, Born, Issued
      <4>3. CASE t # c
        <5>1. lockT'[parent] = None
          BY <2>3 DEF RefreshRotate, locks
        <5> QED
          BY <3>1, <4>1, <4>3, <5>1 DEF TokenRow, Kept
      <4> QED
        BY <4>2, <4>3
    <3> QED
      BY <3>2, <3>3
  <2>4. CASE ReuseThrow(p)
    BY <1>1, <2>4 DEF ReuseThrow, Rollback
  <2>5. CASE StartScan(p) \/ LockRow(p) \/ QueueForRow(p) \/ EndScan(p)
    BY <1>1, <2>5 DEF StartScan, LockRow, QueueForRow, EndScan, tables
  <2>6. CASE UpdateAtivo(p) \/ UpdateSenha(p)
    BY <1>1, <1>2, <2>6 DEF UpdateAtivo, UpdateSenha, Rollback, Commit, tables
  <2>7. CASE ResetUsuario(p)
    BY <1>1, <2>7 DEF ResetUsuario, tables
  <2>8. CASE ResetConsume(p) \/ FlushCommit(p)
    BY <1>2, <2>8 DEF ResetConsume, FlushCommit, Commit
  <2> QED
    BY <1>4, <2>1, <2>2, <2>3, <2>4, <2>5, <2>6, <2>7, <2>8 DEF Serve
<1>5. ASSUME NEW p \in Requests, Abort(p) \/ DeadlockVictim(p) PROVE Kept(t)
  BY <1>1, <1>5 DEF Abort, DeadlockVictim, Rollback
<1>6. ASSUME NEW s \in Tokens, ExpireToken(s) PROVE Kept(t)
  BY <1>6 DEF ExpireToken, Kept, TokenRow
<1>7. ASSUME NEW r \in ResetTokens, ExpireReset(r) PROVE Kept(t)
  BY <1>1, <1>7 DEF ExpireReset
<1>8. CASE AllServed
  BY <1>1, <1>8 DEF AllServed, vars
<1> QED
  BY <1>1, <1>3, <1>4, <1>5, <1>6, <1>7, <1>8 DEF Next

\* A step of another request leaves p and its locks alone.
LeftAlone(p) ==
    /\ Stays(p)
    /\ read'[p] = read[p] /\ todo'[p] = todo[p]
    /\ \A t \in Tokens : lockT[t] = p <=> lockT'[t] = p

\* Request p takes the step, or is left alone.
LEMMA Actor ==
    ASSUME TypeOK, Next, NEW p \in Requests
    PROVE  \/ Begin(p) \/ Serve(p)
           \/ pc[p] \in Statements /\ Rollback(p, "aborted")
           \/ LeftAlone(p)
<1> USE DEF TypeOK, LeftAlone, Stays
<1>1. ASSUME NEW q \in Requests, q # p, Begin(q) PROVE LeftAlone(p)
  BY <1>1 DEF Begin, BeginLogin, BeginRefresh, BeginUpdate, BeginForgot, BeginReset,
              BeginFlush, Arrive, Goto, tables, locks
<1>2. ASSUME NEW q \in Requests, q # p, NEW s, Rollback(q, s) PROVE LeftAlone(p)
  BY <1>2, ConstantsAssumption DEF Rollback, Release, Unlock, Goto
<1>3. ASSUME NEW q \in Requests, q # p, NEW u, NEW row, Commit(q, u, row) PROVE LeftAlone(p)
  BY <1>3, ConstantsAssumption DEF Commit, Release, Unlock, Goto
<1>4. ASSUME NEW q \in Requests, q # p, Serve(q) PROVE LeftAlone(p)
  <2>1. CASE LoginProfile(q) \/ LoginIssue(q) \/ RefreshUser(q)
    BY <1>4, <2>1 DEF LoginProfile, LoginIssue, RefreshUser, Goto, tables, locks
  <2>2. CASE RefreshRotate(q)
    BY <1>4, <2>2 DEF RefreshRotate, Goto, locks
  <2>3. CASE StartScan(q) \/ QueueForRow(q) \/ EndScan(q)
    BY <1>4, <2>3 DEF StartScan, QueueForRow, EndScan, Goto, tables, locks
  <2>4. CASE LockRow(q)
    BY <1>4, <2>4, ConstantsAssumption DEF LockRow, tables
  <2>5. CASE ReuseThrow(q)
    BY <1>2, <1>4, <2>5 DEF ReuseThrow
  <2>6. CASE UpdateAtivo(q)
    BY <1>2, <1>3, <1>4, <2>6 DEF UpdateAtivo, Goto, tables
  <2>7. CASE UpdateSenha(q) \/ ResetConsume(q)
    BY <1>2, <1>3, <1>4, <2>7 DEF UpdateSenha, ResetConsume
  <2>8. CASE ForgotInvalidate(q) \/ ForgotCreate(q) \/ ResetUsuario(q)
    BY <1>4, <2>8 DEF ForgotInvalidate, ForgotCreate, ResetUsuario, Goto, tables, locks
  <2>9. CASE FlushCommit(q)
    BY <1>4, <2>9, ConstantsAssumption DEF FlushCommit, Release, Unlock, Goto
  <2> QED
    BY <1>4, <2>1, <2>2, <2>3, <2>4, <2>5, <2>6, <2>7, <2>8, <2>9 DEF Serve
<1>5. ASSUME NEW q \in Requests, Abort(q) \/ DeadlockVictim(q)
      PROVE  (p = q /\ pc[p] \in Statements /\ Rollback(p, "aborted")) \/ LeftAlone(p)
  BY <1>2, <1>5, CycleServed DEF Abort, DeadlockVictim
<1>6. ASSUME NEW t, ExpireToken(t) \/ ExpireReset(t) PROVE LeftAlone(p)
  BY <1>6 DEF ExpireToken, ExpireReset, locks
<1>7. CASE AllServed
  BY <1>7 DEF AllServed, vars
<1> QED
  BY <1>1, <1>4, <1>5, <1>6, <1>7 DEF Next

\* The deletedAt of a user stays, is cleared, or becomes the one of a request
\* that is being served.
LEMMA UserFate ==
    ASSUME TypeOK, WellFormed, RowLocks, Next, NEW u \in Users
    PROVE  LET d == usuario'[u].deletedAt IN
           \/ d \in {usuario[u].deletedAt, None}
           \/ d \in Requests /\ pc[d] \in Statements
<1> DEFINE d == usuario'[u].deletedAt
           Fate == \/ d \in {usuario[u].deletedAt, None}
                   \/ d \in Requests /\ pc[d] \in Statements
<1> USE DEF TypeOK
<1>1. ASSUME usuario' = usuario PROVE Fate
  BY <1>1
<1>2. \/ draft[u].deletedAt \in {usuario[u].deletedAt, None}
      \/ draft[u].deletedAt \in Requests /\ pc[draft[u].deletedAt] \in Statements
  BY DEF RowLocks
<1>3. ASSUME NEW p \in Requests, Serve(p) PROVE Fate
  <2>1. CASE UpdateAtivo(p)
    <3> DEFINE v == op[p].user
               restore == op[p].ativo = "restore"
               row == [usuario[v] EXCEPT !.ativo = restore,
                                         !.deletedAt = IF restore THEN None ELSE p]
    <3>1. CASE usuario' = usuario
      BY <1>1, <3>1
    <3>2. CASE Commit(p, v, row)
      <4>1. v = u => row.deletedAt \in {None, p}
        BY DEF UserRow
      <4>2. usuario' = [usuario EXCEPT ![v] = row]
        BY <3>2 DEF Commit
      <4>3. pc[p] \in Statements
        BY <2>1 DEF UpdateAtivo, Statements
      <4> HIDE DEF row
      <4> QED
        BY <4>1, <4>2, <4>3
    <3> QED
      BY <2>1, <3>1, <3>2 DEF UpdateAtivo, Rollback, tables
  <2>2. CASE UpdateSenha(p)
    <3> DEFINE v == op[p].user
               row == [Visible(p, v) EXCEPT !.senha = p]
    <3>1. CASE usuario' = usuario
      BY <1>1, <3>1
    <3>2. CASE Commit(p, v, row)
      <4>1. v = u => row.deletedAt \in {usuario[u].deletedAt, draft[u].deletedAt}
        BY DEF UserRow, Visible
      <4>2. usuario' = [usuario EXCEPT ![v] = row]
        BY <3>2 DEF Commit
      <4> HIDE DEF row
      <4> QED
        BY <1>2, <4>1, <4>2
    <3> QED
      BY <2>2, <3>1, <3>2 DEF UpdateSenha, Rollback
  <2>3. CASE ResetConsume(p)
    BY <1>2, <2>3 DEF ResetConsume, Commit
  <2>4. CASE ~(UpdateAtivo(p) \/ UpdateSenha(p) \/ ResetConsume(p))
    <3>1. usuario' = usuario
      BY <1>3, <2>4 DEF Serve, LoginProfile, LoginIssue, RefreshUser, RefreshRotate,
           ReuseThrow, Rollback, StartScan, LockRow, QueueForRow, EndScan,
           ForgotInvalidate, ForgotCreate, ResetUsuario, FlushCommit, tables
    <3> QED
      BY <1>1, <3>1
  <2> QED
    BY <2>1, <2>2, <2>3, <2>4
<1>4. ASSUME NEW p \in Requests, Begin(p) \/ Abort(p) \/ DeadlockVictim(p) PROVE Fate
  <2>1. usuario' = usuario
    BY <1>4 DEF Begin, BeginLogin, BeginRefresh, BeginUpdate, BeginForgot, BeginReset,
         BeginFlush, Abort, DeadlockVictim, Rollback, tables
  <2> QED
    BY <1>1, <2>1
<1>5. CASE (\E t : ExpireToken(t) \/ ExpireReset(t)) \/ AllServed
  BY <1>1, <1>5 DEF ExpireToken, ExpireReset, AllServed, vars
<1> QED
  BY <1>3, <1>4, <1>5 DEF Next

-----------------------------------------------------------------------------
(* Every conjunct of IInv is preserved.                                    *)


\* A request that has ended stays so.
LEMMA EndedStays ==
    ASSUME TypeOK, Next PROVE Ended \subseteq Ended'
  BY RequestFate DEF Ended, Stays, Arrives, Advances, TypeOK, Statements, Outcomes

\* A step preserves what WellFormed says of a token.
LEMMA TokenStep ==
    ASSUME TypeOK, WellFormed, RowLocks, Next, NEW t \in Tokens
    PROVE  TokenOK(t)'
<1>1. CASE Kept(t)
  BY <1>1, EndedStays DEF Kept, Issued, WellFormed, TokenOK
<1>2. ASSUME NEW p \in Requests, Born(t, p) PROVE TokenOK(t)'
  <2>1. pc[p] \in Statements /\ op[p].kind \in {"login", "refresh"}
    BY <1>2 DEF Born, WellFormed, RequestOK, KindsAt, Statements
  <2>2. op[p].user \in Users /\ p \in Ended'
    BY <1>2, <2>1 DEF Born, WellFormed, RequestOK, Ended, Outcomes
  <2> QED
    BY <1>2, <2>2 DEF Born, TokenOK, Issued, Authors
<1> QED
  BY <1>1, <1>2, TokenFate

\* A step preserves what WellFormed says of a request.
LEMMA RequestStep ==
    ASSUME TypeOK, WellFormed, RowLocks, Next, NEW p \in Requests
    PROVE  RequestOK(p)'
<1> USE DEF TypeOK
<1>1. before'[p] \subseteq Ended'
  BY RequestFate, EndedStays DEF Stays, Arrives, Advances, WellFormed, RequestOK
<1>2. ASSUME NEW t \in Tokens, Issued(t)
      PROVE  Issued(t)' /\ refreshToken'[t].userId = refreshToken[t].userId
  BY <1>2, TokenFate DEF Kept, Born, Issued
<1>3. CASE LeftAlone(p)
  BY <1>1, <1>2, <1>3 DEF LeftAlone, Stays, WellFormed, RequestOK
<1>4. CASE Rollback(p, "aborted")
  BY <1>1, <1>4 DEF Rollback, Goto, RequestOK, Statements
<1>5. CASE Begin(p)
  <2> USE DEF Arrive, Goto, NoOperation, RequestOK, KindsAt
  <2>1. CASE BeginLogin(p)
    <3>1. op'[p].kind = "login" /\ op'[p].user \in Users /\ pc'[p] \in {"login.profile", "unauthorized"}
      BY <2>1 DEF BeginLogin, Operation
    <3> QED
      BY <1>1, <3>1 DEF Statements
  <2>2. CASE BeginRefresh(p)
    BY <1>1, <2>2 DEF BeginRefresh, WellFormed, TokenOK, Issued, tables
  <2>3. CASE BeginUpdate(p)
    BY <1>1, <2>3 DEF BeginUpdate
  <2>4. CASE BeginForgot(p)
    <3>1. op'[p].kind = "forgot" /\ op'[p].user \in Users /\ pc'[p] \in {"forgot.invalidate", "ok"}
      BY <2>4 DEF BeginForgot, Operation
    <3> QED
      BY <1>1, <3>1 DEF Statements
  <2>5. CASE BeginReset(p)
    BY <1>1, <2>5 DEF BeginReset
  <2>6. CASE BeginFlush(p)
    BY <1>1, <2>6 DEF BeginFlush
  <2> QED
    BY <1>5, <2>1, <2>2, <2>3, <2>4, <2>5, <2>6 DEF Begin
<1>6. CASE Serve(p)
  <2>1. ASSUME NEW s, Goto(p, s), s \in Outcomes PROVE RequestOK(p)'
    BY <1>1, <2>1 DEF Goto, RequestOK, Outcomes, Statements
  <2>2. ASSUME NEW s \in Statements, Goto(p, s), op' = op, op[p].kind \in KindsAt(s),
               pc[p] \in Statements, s \notin {"refresh.user", "refresh.rotate"}
        PROVE  RequestOK(p)'
    <3>1. /\ pc'[p] = s /\ op'[p] = op[p]
          /\ op[p].kind \in {"login", "refresh"} => op[p].user \in Users
      BY <2>2 DEF Goto, WellFormed, RequestOK
    <3> QED
      BY <1>1, <2>2, <3>1 DEF RequestOK
  <2>3. RequestOK(p)
    BY DEF WellFormed
  <2> USE DEF Outcomes
  <2>4. CASE LoginProfile(p)
    BY <2>1, <2>2, <2>3, <2>4 DEF LoginProfile, RequestOK, KindsAt, Statements
  <2>5. CASE LoginIssue(p)
    BY <2>1, <2>5 DEF LoginIssue
  <2>6. CASE RefreshUser(p)
    BY <1>1, <1>2, <2>1, <2>3, <2>6 DEF RefreshUser, RequestOK, KindsAt, Statements, Goto, tables
  <2>7. CASE RefreshRotate(p)
    BY <2>1, <2>7 DEF RefreshRotate
  <2>8. CASE ReuseThrow(p)
    BY <2>1, <2>8 DEF ReuseThrow, Rollback
  <2>9. CASE StartScan(p)
    BY <2>2, <2>3, <2>9 DEF StartScan, RequestOK, KindsAt, Statements
  <2>10. CASE LockRow(p) \/ QueueForRow(p)
    BY <1>1, <2>3, <2>10 DEF LockRow, QueueForRow, RequestOK
  <2>11. CASE EndScan(p)
    BY <2>2, <2>3, <2>11 DEF EndScan, RequestOK, KindsAt, Statements
  <2>12. CASE UpdateAtivo(p)
    BY <2>1, <2>2, <2>3, <2>12 DEF UpdateAtivo, Rollback, Commit, RequestOK, KindsAt, Statements
  <2>13. CASE UpdateSenha(p)
    BY <2>1, <2>13 DEF UpdateSenha, Rollback, Commit
  <2>14. CASE ForgotInvalidate(p)
    BY <2>2, <2>3, <2>14 DEF ForgotInvalidate, RequestOK, KindsAt, Statements
  <2>15. CASE ForgotCreate(p)
    BY <2>1, <2>15 DEF ForgotCreate
  <2>16. CASE ResetUsuario(p)
    BY <2>2, <2>3, <2>16 DEF ResetUsuario, RequestOK, KindsAt, Statements
  <2>17. CASE ResetConsume(p) \/ FlushCommit(p)
    BY <2>1, <2>17 DEF ResetConsume, FlushCommit, Commit
  <2> QED
    BY <1>6, <2>4, <2>5, <2>6, <2>7, <2>8, <2>9, <2>10, <2>11, <2>12, <2>13, <2>14,
       <2>15, <2>16, <2>17 DEF Serve
<1> QED
  BY <1>3, <1>4, <1>5, <1>6, Actor

\* A step preserves WellFormed.
LEMMA WellFormedStep ==
    ASSUME TypeOK, WellFormed, RowLocks, Next PROVE WellFormed'
  BY TokenStep, RequestStep DEF WellFormed

\* A RefreshToken row that is locked after a step existed before it.
LEMMA Locked ==
    ASSUME TypeOK, RowLocks, Next, NEW t \in Tokens, lockT'[t] # None PROVE Issued(t)
<1> USE DEF TypeOK
<1>1. SUFFICES ASSUME lockT'[t] # lockT[t] PROVE Issued(t)
  BY DEF RowLocks
<1>2. ASSUME NEW p \in Requests, Release(p) PROVE FALSE
  BY <1>1, <1>2 DEF Release, Unlock
<1>3. PICK p \in Requests : Serve(p)
  BY <1>1, <1>2 DEF Next, Begin, BeginLogin, BeginRefresh, BeginUpdate, BeginForgot,
     BeginReset, BeginFlush, Abort, DeadlockVictim, Rollback, ExpireToken, ExpireReset,
     AllServed, locks, vars
<1>4. LockRow(p)
  BY <1>1, <1>2, <1>3 DEF Serve, LoginProfile, LoginIssue, RefreshUser, RefreshRotate,
     ReuseThrow, Rollback, StartScan, QueueForRow, EndScan, UpdateAtivo, UpdateSenha,
     Commit, ForgotInvalidate, ForgotCreate, ResetUsuario, ResetConsume, FlushCommit, locks
<1> QED
  BY <1>1, <1>4 DEF LockRow, StillMatches, Issued

\* A step preserves RowLocks.
LEMMA RowLocksStep ==
    ASSUME TypeOK, WellFormed, RowLocks, Next PROVE RowLocks'
<1> USE DEF TypeOK
<1> DEFINE UserOK(u) ==
      /\ lockU[u] # None => /\ pc[lockU[u]] \in Statements
                            /\ op[lockU[u]].kind \in {"update", "reset"}
                            /\ op[lockU[u]].user = u
      /\ draft[u].deletedAt \in {usuario[u].deletedAt, None, lockU[u]}
\* A holder goes on being served, for the same user, as long as it holds.
<1>1. ASSUME NEW u \in Users, lockU'[u] = lockU[u], draft'[u] = draft[u],
             usuario'[u] = usuario[u],
             lockU[u] \in Requests => pc'[lockU[u]] \in Statements
                                      /\ op'[lockU[u]] = op[lockU[u]]
      PROVE  UserOK(u)'
  BY <1>1 DEF RowLocks
<1>2. ASSUME NEW p \in Requests, NEW s, Rollback(p, s), NEW u \in Users PROVE UserOK(u)'
  <2>1. CASE lockU[u] = p
    BY <1>2, <2>1, ConstantsAssumption DEF Rollback, Release, Unlock
  <2>2. CASE lockU[u] # p
    BY <1>1, <1>2, <2>2 DEF Rollback, Release, Unlock, Goto, RowLocks
  <2> QED
    BY <2>1, <2>2
<1>3. ASSUME NEW p \in Requests, NEW row, Commit(p, op[p].user, row), NEW u \in Users
      PROVE  UserOK(u)'
  <2>1. CASE u = op[p].user
    <3>1. draft'[u] = usuario'[u]
      BY <1>3, <2>1 DEF Commit
    <3>2. lockU'[u] = None \/ (lockU'[u] = lockU[u] /\ lockU[u] # p)
      BY <1>3 DEF Commit, Release, Unlock
    <3>3. lockU'[u] # None => pc'[lockU'[u]] = pc[lockU[u]] /\ op'[lockU'[u]] = op[lockU[u]]
      BY <1>3, <3>2 DEF Commit, Goto
    <3> QED
      BY <3>1, <3>2, <3>3 DEF RowLocks
  <2>2. CASE u # op[p].user
    BY <1>1, <1>3, <2>2 DEF Commit, Release, Unlock, Goto, RowLocks
  <2> QED
    BY <2>1, <2>2
<1>4. ASSUME NEW p \in Requests, Serve(p), NEW u \in Users PROVE UserOK(u)'
  <2>1. ASSUME NEW s, s \in Statements \/ lockU[u] # p, Goto(p, s),
               UNCHANGED <<usuario, draft, lockU, op>>
        PROVE  UserOK(u)'
    BY <1>1, <2>1 DEF Goto, RowLocks
  <2>2. op[p].kind \notin {"update", "reset"} => lockU[u] # p
    BY ConstantsAssumption DEF RowLocks
  <2>3. pc[p] \in Statements => op[p].kind \in KindsAt(pc[p])
    BY DEF WellFormed, RequestOK
  <2>4. CASE LoginProfile(p) \/ RefreshUser(p)
    BY <2>1, <2>2, <2>3, <2>4 DEF LoginProfile, RefreshUser, locks, tables, KindsAt, Statements
  <2>5. CASE LoginIssue(p) \/ RefreshRotate(p) \/ ForgotCreate(p)
    BY <2>1, <2>2, <2>3, <2>5 DEF LoginIssue, RefreshRotate, ForgotCreate, locks, KindsAt,
         Statements
  <2>6. CASE ReuseThrow(p)
    BY <1>2, <2>6 DEF ReuseThrow
  <2>7. CASE StartScan(p) \/ EndScan(p) \/ ForgotInvalidate(p)
    BY <2>1, <2>7 DEF StartScan, EndScan, ForgotInvalidate, locks, tables, Statements
  <2>8. CASE LockRow(p) \/ QueueForRow(p)
    BY <1>1, <2>8 DEF LockRow, QueueForRow, RowLocks, tables
  <2>9. CASE UpdateAtivo(p)
    <3> DEFINE v == op[p].user
               restore == op[p].ativo = "restore"
               row == [usuario[v] EXCEPT !.ativo = restore,
                                         !.deletedAt = IF restore THEN None ELSE p]
    <3>1. CASE Rollback(p, "conflict") \/ Commit(p, v, row)
      BY <1>2, <1>3, <3>1
    <3>2. CASE /\ lockU[v] = None
               /\ lockU' = [lockU EXCEPT ![v] = p]
               /\ draft' = [draft EXCEPT ![v] = row]
               /\ Goto(p, "scan")
               /\ UNCHANGED <<usuario, op>>
      <4>1. op[p].kind = "update"
        BY <2>3, <2>9 DEF UpdateAtivo, KindsAt, Statements
      <4>2. u = v => row.deletedAt \in {None, p}
        BY DEF UserRow
      <4> HIDE DEF row
      <4>3. CASE u = v
        BY <3>2, <4>1, <4>2, <4>3 DEF Goto, Statements
      <4>4. CASE u # v
        BY <1>1, <3>2, <4>4 DEF Goto, RowLocks, Statements
      <4> QED
        BY <4>3, <4>4
    <3> QED
      BY <2>9, <3>1, <3>2 DEF UpdateAtivo, tables
  <2>10. CASE UpdateSenha(p) \/ ResetConsume(p)
    BY <1>2, <1>3, <2>10 DEF UpdateSenha, ResetConsume
  <2>11. CASE ResetUsuario(p)
    <3>1. op[p].kind = "reset"
      BY <2>3, <2>11 DEF ResetUsuario, KindsAt, Statements
    <3>2. CASE u = op[p].user
      BY <2>11, <3>1, <3>2 DEF ResetUsuario, Goto, Statements, RowLocks, UserRow, tables
    <3>3. CASE u # op[p].user
      BY <1>1, <2>11, <3>3 DEF ResetUsuario, Goto, RowLocks, Statements, tables
    <3> QED
      BY <3>2, <3>3
  <2>12. CASE FlushCommit(p)
    BY <1>1, <2>2, <2>3, <2>12 DEF FlushCommit, Release, Unlock, Goto, KindsAt, Statements,
         RowLocks
  <2> QED
    BY <1>4, <2>4, <2>5, <2>6, <2>7, <2>8, <2>9, <2>10, <2>11, <2>12 DEF Serve
<1>5. ASSUME NEW p \in Requests, Begin(p), NEW u \in Users PROVE UserOK(u)'
  <2>1. pc[p] = "idle" /\ UNCHANGED <<usuario, draft, lockU>>
    BY <1>5 DEF Begin, BeginLogin, BeginRefresh, BeginUpdate, BeginForgot, BeginReset,
         BeginFlush, Arrive, tables, locks
  <2>2. \A q \in Requests : q # p => pc'[q] = pc[q] /\ op'[q] = op[q]
    BY <1>5 DEF Begin, BeginLogin, BeginRefresh, BeginUpdate, BeginForgot, BeginReset,
         BeginFlush, Arrive, Goto
  <2>3. lockU[u] # p
    BY <2>1, ConstantsAssumption DEF RowLocks, Statements
  <2>4. lockU[u] \in Requests => pc'[lockU[u]] \in Statements /\ op'[lockU[u]] = op[lockU[u]]
    BY <2>2, <2>3, ConstantsAssumption DEF RowLocks
  <2> QED
    BY <1>1, <2>1, <2>4
<1>6. ASSUME NEW u \in Users PROVE UserOK(u)'
  <2>1. ASSUME NEW p \in Requests, Abort(p) \/ DeadlockVictim(p) PROVE UserOK(u)'
    BY <1>2, <2>1 DEF Abort, DeadlockVictim
  <2>2. CASE (\E t : ExpireToken(t) \/ ExpireReset(t)) \/ AllServed
    BY <1>1, <2>2 DEF ExpireToken, ExpireReset, AllServed, RowLocks, locks, vars
  <2> QED
    BY <1>4, <1>5, <2>1, <2>2 DEF Next
<1>7. ASSUME NEW t \in Tokens, lockT'[t] # None PROVE Issued(t)'
  <2>1. Issued(t)
    BY <1>7, Locked
  <2> QED
    BY <2>1, TokenFate DEF Kept, Born, Issued
<1> QED
  BY <1>6, <1>7 DEF RowLocks

\* What precedes a request preceded it before the step, or the request arrives.
LEMMA PrecedesStep ==
    ASSUME TypeOK, WellFormed, Next, NEW p \in Requests, NEW a, Precedes(a, p)',
           pc[p] # "idle"
    PROVE  Precedes(a, p)
  BY RequestFate DEF Precedes, Stays, Arrives, Advances

\* A request that is being served precedes none, and none that inserts a row.
LEMMA NotYet ==
    ASSUME TypeOK, WellFormed, NEW p \in Requests, NEW q \in Requests, pc[q] \in Statements
    PROVE  ~Precedes(q, p)
<1>1. q \notin Ended
  BY DEF Ended, Statements, Outcomes
<1> QED
  BY <1>1, ConstantsAssumption DEF Precedes, WellFormed, RequestOK

\* A token whose author precedes p is not born in this step.
LEMMA OldToken ==
    ASSUME TypeOK, WellFormed, RowLocks, Next, NEW p \in Requests, NEW t \in Tokens,
           Precedes(refreshToken[t].by, p)'
    PROVE  pc[p] = "idle" \/ (Kept(t) /\ Precedes(refreshToken[t].by, p))
<1>1. SUFFICES ASSUME pc[p] # "idle" PROVE Kept(t) /\ Precedes(refreshToken[t].by, p)
  OBVIOUS
<1>2. Precedes(refreshToken'[t].by, p)
  BY <1>1, PrecedesStep DEF Precedes
<1>3. ASSUME NEW q \in Requests, Born(t, q) PROVE FALSE
  BY <1>2, <1>3, NotYet DEF Born, Statements
<1>4. Kept(t)
  BY <1>3, TokenFate
<1> QED
  BY <1>2, <1>4 DEF Kept

\* A step preserves the atomicity of rotation.
LEMMA RotationStep ==
    ASSUME TypeOK, WellFormed, RowLocks, RotationAtomic, Next PROVE RotationAtomic'
<1> SUFFICES ASSUME NEW t \in Tokens, refreshToken'[t].parent # None
             PROVE  refreshToken'[refreshToken'[t].parent].state \in {"revoked", "deleted"}
  BY DEF RotationAtomic
<1>1. CASE Kept(t)
  <2> DEFINE parent == refreshToken[t].parent
  <2>1. parent \in Tokens /\ refreshToken[parent].state \in {"revoked", "deleted"}
    BY <1>1 DEF Kept, RotationAtomic, TypeOK, TokenRow
  <2>2. Kept(parent)
    BY <2>1, TokenFate DEF Born, Issued
  <2> QED
    BY <1>1, <2>1, <2>2 DEF Kept
<1>2. ASSUME NEW p \in Requests, Born(t, p)
      PROVE  refreshToken'[refreshToken'[t].parent].state \in {"revoked", "deleted"}
  BY <1>2 DEF Born
<1> QED
  BY <1>1, <1>2, TokenFate

\* A request that is at a statement after its scan has started it, or goes on.
LEMMA ScanFate ==
    ASSUME TypeOK, Next, NEW p \in Requests,
           pc'[p] \in {"lock", "update.senha", "reset.consume"}
    PROVE  LeftAlone(p) \/ StartScan(p) \/ LockRow(p) \/ QueueForRow(p) \/ EndScan(p)
           \/ BeginFlush(p)
<1> USE DEF TypeOK
<1>1. CASE Begin(p)
  <2>1. CASE BeginLogin(p) \/ BeginForgot(p)
    BY <2>1 DEF BeginLogin, BeginForgot, Arrive, Goto
  <2>2. CASE BeginRefresh(p)
    BY <2>2 DEF BeginRefresh, Arrive, Goto
  <2>3. CASE BeginUpdate(p)
    BY <2>3 DEF BeginUpdate, Arrive, Goto
  <2>4. CASE BeginReset(p)
    BY <2>4 DEF BeginReset, Arrive, Goto
  <2> QED
    BY <1>1, <2>1, <2>2, <2>3, <2>4 DEF Begin
<1>2. CASE Rollback(p, "aborted")
  BY <1>2 DEF Rollback, Goto
<1>3. CASE Serve(p)
  BY <1>3 DEF Serve, LoginProfile, LoginIssue, RefreshUser, RefreshRotate, ReuseThrow,
     Rollback, UpdateAtivo, UpdateSenha, Commit, ForgotInvalidate, ForgotCreate,
     ResetUsuario, ResetConsume, FlushCommit, Goto
<1> QED
  BY <1>1, <1>2, <1>3, Actor

\* A step preserves the coverage of the revocation and the end of its scan.
LEMMA CoveredStep ==
    ASSUME TypeOK, WellFormed, RowLocks, Covered, ScanOver, Next
    PROVE  Covered' /\ ScanOver'
<1> USE DEF TypeOK
<1>1. ASSUME NEW p \in Requests, NEW t \in Tokens,
             pc'[p] \in {"lock", "update.senha", "reset.consume"},
             op'[p].kind \in {"update", "reset"},
             Active(t)', refreshToken'[t].userId = op'[p].user,
             Precedes(refreshToken[t].by, p)'
      PROVE  t \in todo'[p] \/ lockT'[t] = p
  <2>1. ~BeginFlush(p)
    BY <1>1 DEF BeginFlush, Arrive, NoOperation
  <2>2. pc[p] # "idle" /\ op'[p] = op[p]
    BY <1>1, <2>1, ScanFate DEF LeftAlone, Stays, StartScan, LockRow, QueueForRow, EndScan
  <2>3. Kept(t) /\ Precedes(refreshToken[t].by, p)
    BY <1>1, <2>2, OldToken
  <2>4. Active(t) /\ refreshToken[t].userId = op[p].user
    BY <1>1, <2>2, <2>3 DEF Active, Kept
  <2>5. pc[p] \in {"lock", "update.senha", "reset.consume"} => t \in todo[p] \/ lockT[t] = p
    BY <1>1, <2>2, <2>3, <2>4 DEF Covered
  <2>6. CASE LeftAlone(p)
    BY <1>1, <2>5, <2>6 DEF LeftAlone, Stays
  <2>7. CASE StartScan(p)
    BY <2>4, <2>7 DEF StartScan, Active
  <2>8. CASE LockRow(p)
    <3>1. StillMatches(p, t) = {TRUE}
      BY <1>1, <2>2, <2>4 DEF StillMatches, Active
    <3>2. PICK r \in todo[p] : \E matches \in StillMatches(p, r) :
            /\ pc[p] = "lock" /\ lockT[r] = None
            /\ lockT' = IF matches THEN [lockT EXCEPT ![r] = p] ELSE lockT
            /\ todo' = [todo EXCEPT ![p] = @ \ {r}]
      BY <2>8 DEF LockRow
    <3>3. CASE r = t
      <4>1. lockT' = [lockT EXCEPT ![t] = p]
        BY <3>1, <3>2, <3>3
      <4> QED
        BY <4>1
    <3>4. CASE r # t
      BY <2>5, <3>2, <3>4, ConstantsAssumption
    <3> QED
      BY <3>3, <3>4
  <2>9. CASE QueueForRow(p) \/ EndScan(p)
    BY <2>5, <2>9 DEF QueueForRow, EndScan, locks
  <2> QED
    BY <1>1, <2>1, <2>6, <2>7, <2>8, <2>9, ScanFate
<1>2. ASSUME NEW p \in Requests, pc'[p] \in {"update.senha", "reset.consume"}
      PROVE  todo'[p] = {}
  BY <1>2, ScanFate DEF ScanOver, LeftAlone, Stays, StartScan, LockRow, QueueForRow,
     EndScan, BeginFlush, Arrive, Goto, locks
<1> QED
  BY <1>1, <1>2 DEF Covered, ScanOver

\* A request that executes a statement is at one.
LEMMA Served ==
    ASSUME NEW p \in Requests, Serve(p) PROVE pc[p] \in Statements
  BY DEF Serve, LoginProfile, LoginIssue, RefreshUser, RefreshRotate, ReuseThrow, StartScan,
     LockRow, QueueForRow, EndScan, UpdateAtivo, UpdateSenha, ForgotInvalidate, ForgotCreate,
     ResetUsuario, ResetConsume, FlushCommit, Statements

\* A password change succeeds by committing the revocation it has locked.
LEMMA Finish ==
    ASSUME TypeOK, WellFormed, Next, NEW p \in Requests, ChangedPassword(p)',
           ~ChangedPassword(p)
    PROVE  /\ pc[p] \in {"update.senha", "reset.consume"}
           /\ op[p].kind \in {"update", "reset"} /\ op'[p] = op[p]
           /\ refreshToken' = TokensAfterCommit(p)
<1> USE DEF TypeOK
<1>1. pc'[p] = "ok" /\ op'[p].kind \in {"update", "reset"}
  BY DEF ChangedPassword
<1>2. CASE LeftAlone(p)
  BY <1>2 DEF LeftAlone, Stays, ChangedPassword
<1>3. CASE Rollback(p, "aborted")
  BY <1>1, <1>3 DEF Rollback, Goto
<1>4. CASE Begin(p)
  <2>1. CASE BeginUpdate(p)
    <3>1. PICK b \in Patches : /\ op'[p].kind = "update" /\ op'[p].senha = b.senha
                               /\ b.ativo = "keep" /\ ~b.senha
      BY <1>1, <2>1 DEF BeginUpdate, Arrive, Goto, NoOperation
    <3> QED
      BY <3>1 DEF ChangedPassword
  <2>2. CASE BeginReset(p)
    BY <1>1, <2>2 DEF BeginReset, Arrive, Goto
  <2>3. CASE BeginLogin(p)
    BY <1>1, <2>3 DEF BeginLogin, Arrive, NoOperation
  <2>4. CASE BeginRefresh(p)
    BY <1>1, <2>4 DEF BeginRefresh, Arrive, NoOperation
  <2>5. CASE BeginForgot(p)
    BY <1>1, <2>5 DEF BeginForgot, Arrive, NoOperation
  <2>6. CASE BeginFlush(p)
    BY <1>1, <2>6 DEF BeginFlush, Arrive, Goto
  <2> QED
    BY <1>4, <2>1, <2>2, <2>3, <2>4, <2>5, <2>6 DEF Begin
<1>5. CASE Serve(p)
  <2>1. pc[p] \in Statements => op[p].kind \in KindsAt(pc[p])
    BY DEF WellFormed, RequestOK
  <2>2. op'[p] = op[p]
    BY <1>5, Served, RequestFate DEF Stays, Arrives, Advances, Statements
  <2>3. CASE UpdateSenha(p) \/ ResetConsume(p)
    BY <1>1, <2>2, <2>3 DEF UpdateSenha, ResetConsume, Commit, Rollback, Goto
  <2>4. CASE UpdateAtivo(p)
    <3>1. op[p].kind = "update"
      BY <2>1, <2>4 DEF UpdateAtivo, KindsAt, Statements
    <3>2. ~op[p].senha
      BY <1>1, <2>4 DEF UpdateAtivo, Rollback, Goto
    <3> QED
      BY <2>2, <3>1, <3>2 DEF ChangedPassword
  <2>5. CASE LoginIssue(p) \/ RefreshRotate(p) \/ ForgotCreate(p) \/ FlushCommit(p)
    BY <1>1, <2>1, <2>2, <2>5 DEF LoginIssue, RefreshRotate, ForgotCreate, FlushCommit, KindsAt,
       Statements
  <2>6. CASE ~(UpdateSenha(p) \/ ResetConsume(p) \/ UpdateAtivo(p) \/ LoginIssue(p)
               \/ RefreshRotate(p) \/ ForgotCreate(p) \/ FlushCommit(p))
    BY <1>1, <1>5, <2>6 DEF Serve, LoginProfile, RefreshUser, ReuseThrow, Rollback, StartScan,
       LockRow, QueueForRow, EndScan, ForgotInvalidate, ResetUsuario, Goto
  <2> QED
    BY <2>3, <2>4, <2>5, <2>6
<1> QED
  BY <1>2, <1>3, <1>4, <1>5, Actor

\* A step preserves what a password change guarantees of older tokens.
LEMMA RevocationStep ==
    ASSUME TypeOK, WellFormed, RowLocks, Covered, ScanOver, RevocationCovers, Next
    PROVE  RevocationCovers'
<1> USE DEF TypeOK
<1> SUFFICES ASSUME NEW p \in Requests, NEW t \in Tokens,
                    ChangedPassword(p)', Active(t)',
                    refreshToken'[t].userId = op'[p].user,
                    Precedes(refreshToken[t].by, p)'
             PROVE  FALSE
  BY DEF RevocationCovers
<1>1. CASE ChangedPassword(p)
  <2>1. pc[p] # "idle" /\ op'[p] = op[p]
    BY <1>1, RequestFate DEF ChangedPassword, Stays, Arrives, Advances, Statements
  <2>2. Kept(t) /\ Precedes(refreshToken[t].by, p)
    BY <2>1, OldToken
  <2> QED
    BY <1>1, <2>1, <2>2 DEF RevocationCovers, Kept, Active
<1>2. CASE ~ChangedPassword(p)
  <2>1. /\ pc[p] \in {"update.senha", "reset.consume"}
        /\ op[p].kind \in {"update", "reset"} /\ op'[p] = op[p]
        /\ refreshToken' = TokensAfterCommit(p)
    BY <1>2, Finish
  <2>2. Kept(t) /\ Precedes(refreshToken[t].by, p)
    BY <2>1, OldToken
  <2>3. Active(t) /\ refreshToken[t].userId = op[p].user
    BY <2>1, <2>2 DEF Kept, Active
  <2>4. lockT[t] = p
    BY <2>1, <2>2, <2>3 DEF Covered, ScanOver
  <2> QED
    BY <2>1, <2>4 DEF TokensAfterCommit, Active, TokenRow
<1> QED
  BY <1>1, <1>2

\* A refresh goes on with the token it presented, active when it arrived.
LEMMA RefreshEntry ==
    ASSUME TypeOK, WellFormed, Next, NEW p \in Requests,
           pc'[p] \in {"refresh.user", "refresh.rotate"}
    PROVE  \/ pc[p] \in {"refresh.user", "refresh.rotate"} /\ op'[p] = op[p]
           \/ /\ pc[p] = "idle" /\ UNCHANGED refreshToken
              /\ op'[p].token \in Tokens /\ Active(op'[p].token)
<1> USE DEF TypeOK
<1>1. CASE LeftAlone(p)
  BY <1>1 DEF LeftAlone, Stays
<1>2. CASE Rollback(p, "aborted")
  BY <1>2 DEF Rollback, Goto
<1>3. CASE Begin(p)
  <2>1. CASE BeginRefresh(p)
    <3> PICK t \in Tokens :
          /\ refreshToken[t].state # "absent"
          /\ Arrive(p, [NoOperation EXCEPT !.kind = "refresh", !.user = refreshToken[t].userId,
                                           !.token = t],
                    IF refreshToken[t].state = "revoked" THEN "scan"
                    ELSE IF refreshToken[t].state = "deleted" \/ refreshToken[t].expired
                      THEN "unauthorized" ELSE "refresh.user")
      BY <2>1 DEF BeginRefresh
    <3>1. Active(t)
      BY DEF Arrive, Goto, Active, TokenRow
    <3>2. op'[p].token = t /\ pc[p] = "idle"
      BY DEF Arrive, NoOperation
    <3> QED
      BY <2>1, <3>1, <3>2 DEF BeginRefresh, tables
  <2>2. CASE BeginLogin(p) \/ BeginForgot(p)
    BY <2>2 DEF BeginLogin, BeginForgot, Arrive, Goto
  <2>3. CASE BeginUpdate(p)
    BY <2>3 DEF BeginUpdate, Arrive, Goto
  <2>4. CASE BeginReset(p)
    BY <2>4 DEF BeginReset, Arrive, Goto
  <2>5. CASE BeginFlush(p)
    BY <2>5 DEF BeginFlush, Arrive, Goto
  <2> QED
    BY <1>3, <2>1, <2>2, <2>3, <2>4, <2>5 DEF Begin
<1>4. CASE Serve(p)
  BY <1>4 DEF Serve, LoginProfile, LoginIssue, RefreshUser, RefreshRotate, ReuseThrow,
     Rollback, StartScan, LockRow, QueueForRow, EndScan, UpdateAtivo, UpdateSenha, Commit,
     ForgotInvalidate, ForgotCreate, ResetUsuario, ResetConsume, FlushCommit, Goto
<1> QED
  BY <1>1, <1>2, <1>3, <1>4, Actor

\* A step preserves that a refresh in flight presented an unrotated token.
LEMMA NotRotatedStep ==
    ASSUME TypeOK, WellFormed, RowLocks, RotationAtomic, NotRotatedBefore, Next
    PROVE  NotRotatedBefore'
<1> USE DEF TypeOK
<1> SUFFICES ASSUME NEW p \in Requests, NEW c \in Tokens,
                    pc'[p] \in {"refresh.user", "refresh.rotate"},
                    refreshToken'[c].parent = op'[p].token,
                    Precedes(refreshToken[c].by, p)'
             PROVE  FALSE
  BY DEF NotRotatedBefore
<1>1. CASE pc[p] \in {"refresh.user", "refresh.rotate"} /\ op'[p] = op[p]
  <2>1. Kept(c) /\ Precedes(refreshToken[c].by, p)
    BY <1>1, OldToken
  <2> QED
    BY <1>1, <2>1 DEF NotRotatedBefore, Kept
<1>2. CASE /\ UNCHANGED refreshToken
           /\ op'[p].token \in Tokens /\ Active(op'[p].token)
  BY <1>2, ConstantsAssumption DEF RotationAtomic, Active
<1> QED
  BY <1>1, <1>2, RefreshEntry

\* A step preserves that two successors come from refreshes that overlapped.
LEMMA SuccessorsStep ==
    ASSUME TypeOK, WellFormed, RowLocks, NotRotatedBefore, SuccessorsOverlap, Next
    PROVE  SuccessorsOverlap'
<1> USE DEF TypeOK
<1> SUFFICES ASSUME NEW a \in Tokens, NEW b \in Tokens, a # b,
                    refreshToken'[a].parent # None,
                    refreshToken'[a].parent = refreshToken'[b].parent,
                    Precedes(refreshToken[a].by, refreshToken[b].by)'
             PROVE  FALSE
  BY DEF SuccessorsOverlap
<1>1. CASE Kept(b)
  <2>1. refreshToken[b].by \in Requests /\ refreshToken[b].by \in Ended
    BY <1>1 DEF Kept, WellFormed, TokenOK
  <2>2. Precedes(refreshToken'[a].by, refreshToken[b].by)
    BY <1>1, <2>1, PrecedesStep DEF Kept, Ended, Outcomes, Precedes
  <2>3. ASSUME NEW p \in Requests, Born(a, p) PROVE FALSE
    BY <2>1, <2>2, <2>3, NotYet DEF Born, Statements
  <2>4. Kept(a)
    BY <2>3, TokenFate
  <2> QED
    BY <1>1, <2>2, <2>4 DEF Kept, SuccessorsOverlap
<1>2. ASSUME NEW p \in Requests, Born(b, p) PROVE FALSE
  <2>1. /\ pc[p] = "refresh.rotate" /\ refreshToken'[b].parent = op[p].token
        /\ refreshToken'[b].by = p
    BY <1>2 DEF Born
  <2>2. Precedes(refreshToken'[a].by, p)
    BY <2>1, PrecedesStep DEF Precedes
  <2>3. ASSUME NEW q \in Requests, Born(a, q) PROVE FALSE
    BY <2>2, <2>3, NotYet DEF Born, Statements
  <2>4. Kept(a)
    BY <2>3, TokenFate
  <2> QED
    BY <2>1, <2>2, <2>4 DEF Kept, NotRotatedBefore
<1> QED
  BY <1>1, <1>2, TokenFate

\* A request about to issue a token has just seen its user enabled, or was.
LEMMA IssueEntry ==
    ASSUME TypeOK, WellFormed, Next, NEW p \in Requests,
           pc'[p] \in {"login.issue", "refresh.rotate"}
    PROVE  /\ pc[p] # "idle" /\ op'[p] = op[p]
           /\ \/ pc[p] \in {"login.issue", "refresh.rotate"}
              \/ usuario'[op[p].user].deletedAt = None
<1> USE DEF TypeOK
<1>1. CASE LeftAlone(p)
  BY <1>1 DEF LeftAlone, Stays
<1>2. CASE Rollback(p, "aborted")
  BY <1>2 DEF Rollback, Goto
<1>3. CASE Begin(p)
  <2>1. CASE BeginLogin(p) \/ BeginForgot(p)
    BY <2>1 DEF BeginLogin, BeginForgot, Arrive, Goto
  <2>2. CASE BeginRefresh(p)
    BY <2>2 DEF BeginRefresh, Arrive, Goto
  <2>3. CASE BeginUpdate(p)
    BY <2>3 DEF BeginUpdate, Arrive, Goto
  <2>4. CASE BeginReset(p)
    BY <2>4 DEF BeginReset, Arrive, Goto
  <2>5. CASE BeginFlush(p)
    BY <2>5 DEF BeginFlush, Arrive, Goto
  <2> QED
    BY <1>3, <2>1, <2>2, <2>3, <2>4, <2>5 DEF Begin
<1>4. CASE Serve(p)
  <2>1. CASE LoginProfile(p)
    BY <2>1 DEF LoginProfile, Goto
  <2>2. CASE RefreshUser(p)
    BY <2>2 DEF RefreshUser, Goto, tables
  <2>3. CASE ~(LoginProfile(p) \/ RefreshUser(p))
    BY <1>4, <2>3 DEF Serve, LoginIssue, RefreshRotate, ReuseThrow, Rollback, StartScan,
       LockRow, QueueForRow, EndScan, UpdateAtivo, UpdateSenha, Commit, ForgotInvalidate,
       ForgotCreate, ResetUsuario, ResetConsume, FlushCommit, Goto
  <2> QED
    BY <2>1, <2>2, <2>3
<1> QED
  BY <1>1, <1>2, <1>3, <1>4, Actor

\* Whoever has disabled a user after a step, and precedes a request after it,
\* had disabled the user and preceded the request before.
LEMMA DisablerStep ==
    ASSUME TypeOK, TypeOK', WellFormed, RowLocks, Next, NEW p \in Requests, NEW u \in Users,
           pc[p] # "idle", usuario'[u].deletedAt # None,
           Precedes(usuario[u].deletedAt, p)'
    PROVE  usuario[u].deletedAt # None /\ Precedes(usuario[u].deletedAt, p)
<1>1. Precedes(usuario'[u].deletedAt, p)
  BY PrecedesStep DEF Precedes
<1> QED
  BY <1>1, UserFate, NotYet

\* A step preserves that a request about to issue a token saw an enabled user.
LEMMA EnabledStep ==
    ASSUME TypeOK, TypeOK', WellFormed, RowLocks, EnabledWhenIssuing, Next
    PROVE  EnabledWhenIssuing'
<1> SUFFICES ASSUME NEW p \in Requests,
                    pc'[p] \in {"login.issue", "refresh.rotate"},
                    usuario'[op'[p].user].deletedAt # None,
                    Precedes(usuario[op[p].user].deletedAt, p)'
             PROVE  FALSE
  BY DEF EnabledWhenIssuing
<1>1. /\ pc[p] \in {"login.issue", "refresh.rotate"} /\ op'[p] = op[p]
  BY IssueEntry
<1>2. op[p].user \in Users
  BY <1>1 DEF WellFormed, RequestOK, KindsAt, Statements
<1> QED
  BY <1>1, <1>2, DisablerStep DEF EnabledWhenIssuing

\* A step preserves that no token is issued for a user who stays disabled.
LEMMA NoIssueStep ==
    ASSUME TypeOK, TypeOK', WellFormed, RowLocks, EnabledWhenIssuing, NoIssueForDisabled, Next
    PROVE  NoIssueForDisabled'
<1> SUFFICES ASSUME NEW t \in Tokens, Issued(t)', refreshToken'[t].by # Seed,
                    usuario'[refreshToken'[t].userId].deletedAt # None,
                    Precedes(usuario[refreshToken[t].userId].deletedAt, refreshToken[t].by)'
             PROVE  FALSE
  BY DEF NoIssueForDisabled
<1>1. CASE Kept(t)
  <2>1. Issued(t)
    BY <1>1 DEF Kept, Issued
  <2>2. /\ refreshToken[t].userId \in Users /\ refreshToken[t].by \in Requests
        /\ pc[refreshToken[t].by] # "idle"
    BY <1>1, <2>1 DEF Kept, WellFormed, TokenOK, Authors, Ended, Outcomes
  <2> QED
    BY <1>1, <2>1, <2>2, DisablerStep DEF Kept, NoIssueForDisabled
<1>2. ASSUME NEW p \in Requests, Born(t, p) PROVE FALSE
  <2>1. /\ pc[p] \in {"login.issue", "refresh.rotate"}
        /\ refreshToken'[t].by = p /\ refreshToken'[t].userId = op[p].user
        /\ UNCHANGED <<usuario, op, before>>
    BY <1>2 DEF Born
  <2> QED
    BY <2>1 DEF EnabledWhenIssuing, Precedes
<1> QED
  BY <1>1, <1>2, TokenFate

-----------------------------------------------------------------------------
(* Reset tokens, drafts and scans.                                         *)

\* What a request asks is fixed when it arrives, from the rows as they are.
Begun(p) ==
    LET o == op'[p] IN
    /\ pc[p] = "idle" /\ pc'[p] # "idle" /\ before'[p] = Ended
    /\ pc'[p] \in Statements \cup Outcomes
    /\ UNCHANGED <<tables, draft, lockU, lockT>>
    /\ o.kind \in {"update", "forgot"} => o.user \in Users
    /\ o.kind = "login" => o.cred \in Authors
    /\ o.kind = "reset" =>
         /\ o.reset \in ResetTokens
         /\ resetToken[o.reset].state # "absent"
         /\ resetToken[o.reset].userId = o.user
         /\ pc'[p] \in {"reset.usuario", "unauthorized"}
         /\ pc'[p] = "reset.usuario" => resetToken[o.reset].state = "unused"
    /\ o.ativo # "keep" => o.kind = "update"
    /\ pc'[p] = "scan" => o.kind # "reset" /\ o.ativo = "keep"
    /\ pc'[p] = "update.ativo" =>
         o.ativo # "keep" /\ (o.ativo = "restore") = (read'[p] # None)
    /\ pc'[p] = "ok" => o.ativo = "keep"
    /\ pc'[p] \notin {"forgot.create", "update.senha", "reset.consume"}
    /\ pc'[p] = "lock" => o.kind = "flush"
    /\ \A t \in todo'[p] : \/ t \in todo[p]
                           \/ /\ pc'[p] = "lock" /\ o.kind = "flush"
                              /\ Issued(t) /\ refreshToken[t].expired

\* Every arrival is of that form.
LEMMA Beginning ==
    ASSUME TypeOK, NEW p \in Requests, Begin(p) PROVE Begun(p)
<1> USE DEF TypeOK, Begun, NoOperation, Statements, Outcomes
<1>1. CASE BeginLogin(p)
  <2> PICK u \in Users, a \in Authors, s \in {"login.profile", "unauthorized"} :
        Arrive(p, [NoOperation EXCEPT !.kind = "login", !.user = u, !.cred = a], s)
    BY <1>1 DEF BeginLogin
  <2> QED
    BY <1>1 DEF BeginLogin, Arrive, Goto, locks, tables
<1>2. CASE BeginRefresh(p)
  <2> PICK t \in Tokens, s \in {"scan", "unauthorized", "refresh.user"} :
        Arrive(p, [NoOperation EXCEPT !.kind = "refresh", !.user = refreshToken[t].userId,
                                      !.token = t], s)
    BY <1>2 DEF BeginRefresh
  <2> QED
    BY <1>2 DEF BeginRefresh, Arrive, Goto, locks, tables
<1>3. CASE BeginUpdate(p)
  <2> PICK u \in Users, b \in Patches :
        /\ Arrive(p, [NoOperation EXCEPT !.kind = "update", !.user = u,
                                         !.ativo = b.ativo, !.senha = b.senha],
                  IF b.ativo = "keep" THEN (IF b.senha THEN "scan" ELSE "ok")
                  ELSE IF (usuario[u].deletedAt # None) = (b.ativo = "restore")
                    THEN "update.ativo" ELSE "rejected")
        /\ read' = [read EXCEPT ![p] = usuario[u].deletedAt]
    BY <1>3 DEF BeginUpdate
  <2>1. /\ op'[p].kind = "update" /\ op'[p].user = u /\ op'[p].ativo = b.ativo
        /\ pc[p] = "idle" /\ before'[p] = Ended /\ read'[p] = usuario[u].deletedAt
        /\ pc'[p] = IF b.ativo = "keep" THEN (IF b.senha THEN "scan" ELSE "ok")
                    ELSE IF (usuario[u].deletedAt # None) = (b.ativo = "restore")
                      THEN "update.ativo" ELSE "rejected"
    BY DEF Arrive, Goto
  <2>2. UNCHANGED <<tables, locks>>
    BY <1>3 DEF BeginUpdate
  <2> QED
    BY <2>1, <2>2 DEF locks, tables
<1>4. CASE BeginForgot(p)
  <2> PICK u \in Users, s \in {"forgot.invalidate", "ok"} :
        Arrive(p, [NoOperation EXCEPT !.kind = "forgot", !.user = u], s)
    BY <1>4 DEF BeginForgot
  <2> QED
    BY <1>4 DEF BeginForgot, Arrive, Goto, locks, tables
<1>5. CASE BeginReset(p)
  <2> PICK r \in ResetTokens :
        /\ resetToken[r].state # "absent"
        /\ Arrive(p, [NoOperation EXCEPT !.kind = "reset", !.user = resetToken[r].userId,
                                         !.reset = r],
                  IF resetToken[r].state = "unused" /\ ~resetToken[r].expired
                    THEN "reset.usuario" ELSE "unauthorized")
    BY <1>5 DEF BeginReset
  <2> QED
    BY <1>5 DEF BeginReset, Arrive, Goto, locks, tables
<1>6. CASE BeginFlush(p)
  <2> PICK S \in SUBSET {t \in Tokens : refreshToken[t].expired} :
        todo' = [todo EXCEPT ![p] = {t \in S : refreshToken[t].state \in {"active", "revoked"}}]
    BY <1>6 DEF BeginFlush
  <2> QED
    BY <1>6 DEF BeginFlush, Arrive, Goto, Issued, tables
<1> QED
  BY <1>1, <1>2, <1>3, <1>4, <1>5, <1>6 DEF Begin

\* A request that ends, or that is left where it was, was there before.
LEMMA Arrival ==
    ASSUME TypeOK, Next, NEW p \in Requests
    PROVE  \/ Stays(p) \/ Advances(p)
           \/ Begin(p) /\ Begun(p)
<1>1. CASE Arrives(p)
  <2>1. pc[p] \notin Statements /\ ~LeftAlone(p)
    BY <1>1 DEF Arrives, Statements, LeftAlone, Stays
  <2>2. Begin(p)
    BY <2>1, Actor, Served
  <2> QED
    BY <2>2, Beginning
<1> QED
  BY <1>1, RequestFate

\* A request that has ended stays as it is.
LEMMA EndedSame ==
    ASSUME TypeOK, Next, NEW p \in Requests, p \in Ended PROVE Stays(p)
  BY RequestFate DEF Ended, Outcomes, Statements, Arrives, Advances

\* Reset token r is inserted by p.
BornReset(r, p) ==
    /\ resetToken[r].state = "absent"
    /\ resetToken'[r] = NewReset(op[p].user, p)
    /\ pc[p] = "forgot.create" /\ pc'[p] = "ok"
    /\ UNCHANGED <<op, before>>

\* Reset token r is not inserted, and if it changes it expires or is used up.
KeptReset(r) ==
    /\ resetToken'[r].userId = resetToken[r].userId
    /\ resetToken'[r].by = resetToken[r].by
    /\ \/ resetToken'[r].state = resetToken[r].state
       \/ resetToken[r].state # "absent" /\ resetToken'[r].state = "used"

\* Every reset token is inserted by a request being served, or kept.
LEMMA ResetFate ==
    ASSUME TypeOK, WellFormed, Addressed, Next, NEW r \in ResetTokens
    PROVE  KeptReset(r) \/ \E p \in Requests : BornReset(r, p)
<1> USE DEF TypeOK
<1>1. ASSUME resetToken' = resetToken PROVE KeptReset(r)
  BY <1>1 DEF KeptReset
<1>2. ASSUME NEW p \in Requests, Begin(p) PROVE resetToken' = resetToken
  BY <1>2, Beginning DEF Begun, tables
<1>3. ASSUME NEW p \in Requests, Serve(p) PROVE KeptReset(r) \/ BornReset(r, p)
  <2>1. CASE ForgotInvalidate(p)
    BY <2>1 DEF ForgotInvalidate, KeptReset, ResetRow
  <2>2. CASE ForgotCreate(p)
    BY <2>2 DEF ForgotCreate, KeptReset, BornReset, Goto
  <2>3. CASE ResetConsume(p)
    <3>1. op[p].kind = "reset" /\ pc[p] \in Statements
      BY <2>3 DEF ResetConsume, WellFormed, RequestOK, KindsAt, Statements
    <3>2. op[p].reset \in ResetTokens /\ resetToken[op[p].reset].state # "absent"
      BY <3>1 DEF Addressed
    <3> QED
      BY <2>3, <3>2 DEF ResetConsume, KeptReset, ResetRow
  <2>4. CASE ~(ForgotInvalidate(p) \/ ForgotCreate(p) \/ ResetConsume(p))
    <3>1. resetToken' = resetToken
      BY <1>3, <2>4 DEF Serve, LoginProfile, LoginIssue, RefreshUser, RefreshRotate,
         ReuseThrow, Rollback, StartScan, LockRow, QueueForRow, EndScan, UpdateAtivo,
         UpdateSenha, ResetUsuario, FlushCommit, tables
    <3> QED
      BY <1>1, <3>1
  <2> QED
    BY <2>1, <2>2, <2>3, <2>4
<1>4. ASSUME NEW p \in Requests, Abort(p) \/ DeadlockVictim(p) PROVE KeptReset(r)
  BY <1>1, <1>4 DEF Abort, DeadlockVictim, Rollback
<1>5. ASSUME NEW s \in ResetTokens, ExpireReset(s) PROVE KeptReset(r)
  BY <1>5 DEF ExpireReset, KeptReset, ResetRow
<1>6. CASE (\E t : ExpireToken(t)) \/ AllServed
  BY <1>1, <1>6 DEF ExpireToken, AllServed, vars
<1> QED
  BY <1>1, <1>2, <1>3, <1>4, <1>5, <1>6 DEF Next

\* A reset token whose author precedes p is not born in this step.
LEMMA OldReset ==
    ASSUME TypeOK, WellFormed, Addressed, Next, NEW p \in Requests, NEW r \in ResetTokens,
           pc[p] # "idle", Precedes(resetToken[r].by, p)'
    PROVE  KeptReset(r) /\ Precedes(resetToken[r].by, p)
<1>1. Precedes(resetToken'[r].by, p)
  BY PrecedesStep DEF Precedes
<1>2. ASSUME NEW q \in Requests, BornReset(r, q) PROVE FALSE
  BY <1>1, <1>2, NotYet DEF BornReset, NewReset, Statements
<1>3. KeptReset(r)
  BY <1>2, ResetFate
<1> QED
  BY <1>1, <1>3 DEF KeptReset

\* A step preserves what ResetRows and Addressed say of the rows.
LEMMA ResetRowsStep ==
    ASSUME TypeOK, WellFormed, ResetRows, Addressed, Next
    PROVE  ResetRows' /\ Addressed'
<1> USE DEF TypeOK
<1>1. ASSUME NEW r \in ResetTokens
      PROVE  /\ resetToken'[r].state # "absent" =>
                  resetToken'[r].userId \in Users /\ resetToken'[r].by \in Authors
             /\ resetToken'[r].by \in Requests => resetToken'[r].by \in Ended'
  <2>1. CASE KeptReset(r)
    BY <2>1, EndedStays DEF KeptReset, ResetRows
  <2>2. ASSUME NEW p \in Requests, BornReset(r, p)
        PROVE  /\ op[p].user \in Users /\ p \in Ended'
               /\ resetToken'[r].userId = op[p].user /\ resetToken'[r].by = p
    <3>1. pc[p] \in Statements /\ op[p].kind = "forgot"
      BY <2>2 DEF BornReset, WellFormed, RequestOK, KindsAt, Statements
    <3> QED
      BY <2>2, <3>1 DEF BornReset, NewReset, Addressed, Ended, Outcomes
  <2>3. ASSUME NEW p \in Requests, BornReset(r, p)
        PROVE  resetToken'[r].userId \in Users /\ resetToken'[r].by \in Authors \cap Ended'
    BY <2>2, <2>3 DEF Authors
  <2> QED
    BY <2>1, <2>3, ResetFate
<1>2. ASSUME NEW p \in Requests
      PROVE  /\ pc'[p] \in Statements =>
                  /\ op'[p].kind \in {"update", "forgot", "reset"} => op'[p].user \in Users
                  /\ op'[p].kind = "login" => op'[p].cred \in Authors
             /\ pc'[p] \in Statements \cup {"ok"} /\ op'[p].kind = "reset" =>
                  /\ op'[p].reset \in ResetTokens
                  /\ resetToken'[op'[p].reset].state # "absent"
                  /\ resetToken'[op'[p].reset].userId = op'[p].user
  <2>1. CASE Begin(p) /\ Begun(p)
    BY <2>1 DEF Begun, ResetRows, tables
  <2>2. CASE Stays(p) \/ Advances(p)
    <3>1. /\ op'[p] = op[p]
          /\ pc'[p] \in Statements => pc[p] \in Statements
          /\ pc'[p] \in Statements \cup {"ok"} => pc[p] \in Statements \cup {"ok"}
      BY <2>2 DEF Stays, Advances
    <3>2. ASSUME pc[p] \in Statements \cup {"ok"}, op[p].kind = "reset"
          PROVE  /\ op[p].reset \in ResetTokens
                 /\ resetToken'[op[p].reset].state # "absent"
                 /\ resetToken'[op[p].reset].userId = op[p].user
      BY <3>2, ResetFate DEF Addressed, KeptReset, BornReset
    <3> QED
      BY <3>1, <3>2 DEF Addressed
  <2> QED
    BY <2>1, <2>2, Arrival
<1> QED
  BY <1>1, <1>2 DEF ResetRows, Addressed

\* A reset that succeeds has consumed its token in this step.
LEMMA ConsumedStep ==
    ASSUME TypeOK, WellFormed, Addressed, Consumed, Next PROVE Consumed'
<1> USE DEF TypeOK
<1> SUFFICES ASSUME NEW p \in Requests, pc'[p] = "ok", op'[p].kind = "reset"
             PROVE  resetToken'[op'[p].reset].state = "used"
  BY DEF Consumed
<1>1. CASE pc[p] = "ok" /\ op'[p] = op[p]
  <2>1. op[p].reset \in ResetTokens /\ resetToken[op[p].reset].state = "used"
    BY <1>1 DEF Addressed, Consumed
  <2> QED
    BY <1>1, <2>1, ResetFate DEF KeptReset, BornReset
<1>2. CASE pc[p] # "ok" \/ op'[p] # op[p]
  <2>1. ~Begun(p)
    BY DEF Begun
  <2>2. pc[p] \in Statements /\ op'[p] = op[p]
    BY <1>2, <2>1, Arrival DEF Stays, Advances
  <2>3. Serve(p)
    BY <2>2, Actor DEF LeftAlone, Stays, Rollback, Goto, Begun, Statements, Begin, BeginLogin,
       BeginRefresh, BeginUpdate, BeginForgot, BeginReset, BeginFlush, Arrive
  <2>4. pc[p] = "reset.consume"
    <3>1. ChangedPassword(p)' /\ ~ChangedPassword(p)
      BY <2>2 DEF ChangedPassword, Statements
    <3>2. pc[p] \in {"update.senha", "reset.consume"}
      BY <3>1, Finish
    <3> QED
      BY <2>2, <3>2 DEF WellFormed, RequestOK, KindsAt
  <2>5. ResetConsume(p)
    BY <2>3, <2>4 DEF Serve, LoginProfile, LoginIssue, RefreshUser, RefreshRotate,
       ReuseThrow, StartScan, LockRow, QueueForRow, EndScan, UpdateAtivo, UpdateSenha,
       ForgotInvalidate, ForgotCreate, ResetUsuario, FlushCommit
  <2>6. op[p].reset \in ResetTokens
    BY <2>2 DEF Addressed
  <2> QED
    BY <2>2, <2>5, <2>6 DEF ResetConsume, ResetRow
<1> QED
  BY <1>1, <1>2

\* What precedes a request that was there had ended, and stays as it is.
LEMMA PredecessorStays ==
    ASSUME TypeOK, WellFormed, Next, NEW p \in Requests, NEW q \in Requests,
           Precedes(p, q)', pc[q] # "idle"
    PROVE  Precedes(p, q) /\ Stays(p)
<1>1. Precedes(p, q)
  BY PrecedesStep DEF Precedes
<1>2. p \in Ended
  BY <1>1, ConstantsAssumption DEF Precedes, WellFormed, RequestOK
<1> QED
  BY <1>1, <1>2, EndedSame

\* A step preserves that a reset in flight presented an unused token.
LEMMA UnusedStep ==
    ASSUME TypeOK, WellFormed, Consumed, UnusedBefore, Next PROVE UnusedBefore'
<1> SUFFICES ASSUME NEW p \in Requests, NEW q \in Requests,
                    pc'[p] = "ok", pc'[q] \in Statements,
                    op'[p].kind = "reset", op'[q].kind = "reset",
                    op'[p].reset = op'[q].reset, Precedes(p, q)'
             PROVE  FALSE
  BY DEF UnusedBefore
<1>1. CASE Begun(q)
  <2>1. p \in Ended
    BY <1>1, ConstantsAssumption DEF Begun, Precedes
  <2>2. Stays(p)
    BY <2>1, EndedSame
  <2>3. resetToken[op'[q].reset].state = "unused"
    BY <1>1 DEF Begun, Statements
  <2> QED
    BY <2>2, <2>3 DEF Stays, Consumed
<1>2. CASE Stays(q) \/ Advances(q)
  <2>1. pc[q] \in Statements /\ op'[q] = op[q]
    BY <1>2 DEF Stays, Advances
  <2>2. Precedes(p, q) /\ Stays(p)
    BY <2>1, PredecessorStays DEF Statements
  <2> QED
    BY <2>1, <2>2 DEF Stays, UnusedBefore
<1> QED
  BY <1>1, <1>2, Arrival

\* A step preserves that two resets with one token overlapped.
LEMMA ReuseStep ==
    ASSUME TypeOK, WellFormed, UnusedBefore, ResetReuseOverlaps, Next
    PROVE  ResetReuseOverlaps'
<1> SUFFICES ASSUME NEW p \in Requests, NEW q \in Requests, p # q,
                    pc'[p] = "ok", pc'[q] = "ok",
                    op'[p].kind = "reset", op'[q].kind = "reset",
                    op'[p].reset = op'[q].reset, Precedes(p, q)'
             PROVE  FALSE
  BY DEF ResetReuseOverlaps
<1>1. CASE Begun(q)
  BY <1>1 DEF Begun
<1>2. CASE Stays(q) \/ Advances(q)
  <2>1. (pc[q] = "ok" \/ pc[q] \in Statements) /\ op'[q] = op[q]
    BY <1>2 DEF Stays, Advances
  <2>2. Precedes(p, q) /\ Stays(p)
    BY <2>1, PredecessorStays DEF Statements
  <2> QED
    BY <2>1, <2>2 DEF Stays, UnusedBefore, ResetReuseOverlaps
<1> QED
  BY <1>1, <1>2, Arrival

\* A request about to create a reset token has just invalidated the others, or
\* was there.
LEMMA CreateEntry ==
    ASSUME TypeOK, Next, NEW p \in Requests, pc'[p] = "forgot.create"
    PROVE  /\ pc[p] # "idle" /\ op'[p] = op[p]
           /\ pc[p] = "forgot.create" \/ ForgotInvalidate(p)
<1> USE DEF TypeOK
<1>1. CASE LeftAlone(p)
  BY <1>1 DEF LeftAlone, Stays
<1>2. CASE Rollback(p, "aborted")
  BY <1>2 DEF Rollback, Goto
<1>3. CASE Begin(p)
  BY <1>3, Beginning DEF Begun
<1>4. CASE Serve(p)
  <2>1. CASE ForgotInvalidate(p)
    BY <2>1 DEF ForgotInvalidate
  <2>2. CASE ~ForgotInvalidate(p)
    BY <1>4, <2>2 DEF Serve, LoginProfile, LoginIssue, RefreshUser, RefreshRotate, ReuseThrow,
       Rollback, StartScan, LockRow, QueueForRow, EndScan, UpdateAtivo, UpdateSenha, Commit,
       ForgotCreate, ResetUsuario, ResetConsume, FlushCommit, Goto
  <2> QED
    BY <2>1, <2>2
<1> QED
  BY <1>1, <1>2, <1>3, <1>4, Actor

\* A step preserves that forgotPassword has invalidated what is older.
LEMMA InvalidatedStep ==
    ASSUME TypeOK, WellFormed, Addressed, InvalidatedBefore, Next
    PROVE  InvalidatedBefore'
<1> USE DEF TypeOK
<1> SUFFICES ASSUME NEW p \in Requests, NEW r \in ResetTokens,
                    pc'[p] = "forgot.create", resetToken'[r].state = "unused",
                    resetToken'[r].userId = op'[p].user, Precedes(resetToken[r].by, p)'
             PROVE  FALSE
  BY DEF InvalidatedBefore
<1>1. pc[p] # "idle" /\ op'[p] = op[p]
  BY CreateEntry
<1>2. KeptReset(r) /\ Precedes(resetToken[r].by, p)
  BY <1>1, OldReset
<1>3. resetToken[r].state = "unused" /\ resetToken[r].userId = op[p].user
  BY <1>1, <1>2 DEF KeptReset
<1>4. CASE pc[p] = "forgot.create"
  BY <1>2, <1>3, <1>4 DEF InvalidatedBefore
<1>5. CASE ForgotInvalidate(p)
  BY <1>3, <1>5 DEF ForgotInvalidate, ResetRow
<1> QED
  BY <1>4, <1>5, CreateEntry

\* A step preserves that two live reset tokens come from overlapping requests.
LEMMA LiveStep ==
    ASSUME TypeOK, WellFormed, ResetRows, Addressed, InvalidatedBefore, LiveResetsOverlap, Next
    PROVE  LiveResetsOverlap'
<1> USE DEF TypeOK
<1> SUFFICES ASSUME NEW r \in ResetTokens, NEW s \in ResetTokens, r # s,
                    resetToken'[r].state = "unused", resetToken'[s].state = "unused",
                    resetToken'[r].userId = resetToken'[s].userId,
                    resetToken'[s].by # Seed,
                    Precedes(resetToken[r].by, resetToken[s].by)'
             PROVE  FALSE
  BY DEF LiveResetsOverlap
<1>1. CASE KeptReset(s)
  <2>1. /\ resetToken[s].by \in Requests /\ resetToken[s].by \in Ended
        /\ resetToken[s].state = "unused" /\ resetToken'[s].by = resetToken[s].by
    BY <1>1 DEF KeptReset, ResetRows, Authors
  <2>2. pc[resetToken[s].by] # "idle"
    BY <2>1 DEF Ended, Outcomes
  <2>3. KeptReset(r) /\ Precedes(resetToken[r].by, resetToken[s].by)
    <3> DEFINE p == resetToken[s].by
    <3>1. p \in Requests /\ pc[p] # "idle" /\ before'[p] = before[p]
      BY <2>1, <2>2, EndedSame DEF Stays
    <3>2. Precedes(resetToken'[r].by, p)
      BY <2>1, <3>1 DEF Precedes
    <3>3. ASSUME NEW q \in Requests, BornReset(r, q) PROVE FALSE
      BY <3>1, <3>2, <3>3, NotYet DEF BornReset, NewReset, Statements
    <3>4. KeptReset(r)
      BY <3>3, ResetFate
    <3> QED
      BY <3>2, <3>4 DEF KeptReset
  <2> QED
    BY <1>1, <2>1, <2>3 DEF KeptReset, LiveResetsOverlap
<1>2. ASSUME NEW p \in Requests, BornReset(s, p) PROVE FALSE
  <2>1. /\ pc[p] = "forgot.create" /\ before'[p] = before[p]
        /\ resetToken'[s].by = p /\ resetToken'[s].userId = op[p].user
    BY <1>2 DEF BornReset, NewReset
  <2>2. Precedes(resetToken'[r].by, p)
    BY <2>1 DEF Precedes
  <2>3. ASSUME NEW q \in Requests, BornReset(r, q) PROVE FALSE
    BY <2>2, <2>3, NotYet DEF BornReset, NewReset, Statements
  <2>4. KeptReset(r)
    BY <2>3, ResetFate
  <2> QED
    BY <2>1, <2>2, <2>4 DEF KeptReset, InvalidatedBefore
<1> QED
  BY <1>1, <1>2, ResetFate

\* A step preserves what a request that flips a user has read.
LEMMA FlipStep ==
    ASSUME TypeOK, FlipAsRead, Next PROVE FlipAsRead'
<1> USE DEF TypeOK
<1>1. ASSUME NEW p \in Requests, op'[p].ativo # "keep"
      PROVE  pc'[p] # "idle" /\ op'[p].kind = "update"
  <2>1. CASE Begun(p)
    BY <1>1, <2>1 DEF Begun
  <2>2. CASE Stays(p) \/ Advances(p)
    BY <1>1, <2>2 DEF Stays, Advances, FlipAsRead, Statements, Outcomes
  <2> QED
    BY <2>1, <2>2, Arrival
<1>2. ASSUME NEW p \in Requests, pc'[p] = "update.ativo"
      PROVE  op'[p].ativo # "keep" /\ (op'[p].ativo = "restore") = (read'[p] # None)
  <2>1. CASE Begin(p)
    BY <1>2, <2>1, Beginning DEF Begun
  <2>2. CASE LeftAlone(p)
    BY <1>2, <2>2 DEF LeftAlone, Stays, FlipAsRead
  <2>3. CASE Rollback(p, "aborted")
    BY <1>2, <2>3 DEF Rollback, Goto
  <2>4. CASE Serve(p)
    BY <1>2, <2>4 DEF Serve, LoginProfile, LoginIssue, RefreshUser, RefreshRotate, ReuseThrow,
       Rollback, StartScan, LockRow, QueueForRow, EndScan, UpdateAtivo, UpdateSenha, Commit,
       ForgotInvalidate, ForgotCreate, ResetUsuario, ResetConsume, FlushCommit, Goto
  <2> QED
    BY <2>1, <2>2, <2>3, <2>4, Actor
<1> QED
  BY <1>1, <1>2 DEF FlipAsRead

\* The row of user u, its draft and its lock stay as they are; they are
\* released by a request that ends; or p locks the row and drafts a change.
SameUser(u) == lockU'[u] = lockU[u] /\ draft'[u] = draft[u] /\ usuario'[u] = usuario[u]

FreedUser(u, p) == /\ lockU[u] \in {None, p} /\ lockU'[u] = None
                   /\ draft'[u] = usuario'[u] /\ pc'[p] \in Outcomes

TakenUser(u, p) == /\ lockU[u] = None /\ lockU'[u] = p /\ op[p].user = u
                   /\ UpdateAtivo(p) \/ ResetUsuario(p)

\* Every step does one of the three to every user.
LEMMA DraftFate ==
    ASSUME TypeOK, WellFormed, RowLocks, Addressed, Drafts, Next, NEW u \in Users
    PROVE  SameUser(u) \/ \E p \in Requests : FreedUser(u, p) \/ TakenUser(u, p)
<1> USE DEF TypeOK
<1>1. ASSUME UNCHANGED <<usuario, draft, lockU>> PROVE SameUser(u)
  BY <1>1 DEF SameUser
<1>2. ASSUME NEW p \in Requests, NEW s \in Outcomes, Rollback(p, s)
      PROVE  SameUser(u) \/ FreedUser(u, p)
  BY <1>2 DEF Rollback, Release, Unlock, Goto, SameUser, FreedUser
<1>3. ASSUME NEW p \in Requests, NEW row, Commit(p, op[p].user, row),
             lockU[op[p].user] \in {None, p},
             \A v \in Users : lockU[v] = p => v = op[p].user
      PROVE  SameUser(u) \/ FreedUser(u, p)
  <2>1. lockU'[u] = IF lockU[u] = p THEN None ELSE lockU[u]
    BY <1>3 DEF Commit, Release, Unlock
  <2>2. CASE u = op[p].user
    BY <1>3, <2>1, <2>2 DEF Commit, Goto, FreedUser, Outcomes
  <2>3. CASE u # op[p].user
    BY <1>3, <2>1, <2>3 DEF Commit, SameUser
  <2> QED
    BY <2>2, <2>3
<1>4. ASSUME NEW p \in Requests, NEW v \in Users, lockU[v] = p
      PROVE  v = op[p].user /\ pc[p] \in Statements /\ op[p].kind \in {"update", "reset"}
  BY <1>4, ConstantsAssumption DEF RowLocks
<1>5. ASSUME NEW p \in Requests, Serve(p)
      PROVE  SameUser(u) \/ FreedUser(u, p) \/ TakenUser(u, p)
  <2>1. pc[p] \in Statements => op[p].kind \in KindsAt(pc[p])
    BY DEF WellFormed, RequestOK
  <2> USE DEF Outcomes
  <2>2. CASE LoginProfile(p) \/ RefreshUser(p) \/ StartScan(p) \/ EndScan(p)
    BY <1>1, <2>2 DEF LoginProfile, RefreshUser, StartScan, EndScan, tables, locks
  <2>3. CASE LoginIssue(p) \/ RefreshRotate(p) \/ ForgotInvalidate(p) \/ ForgotCreate(p)
    BY <1>1, <2>3 DEF LoginIssue, RefreshRotate, ForgotInvalidate, ForgotCreate, locks
  <2>4. CASE LockRow(p) \/ QueueForRow(p)
    BY <1>1, <2>4 DEF LockRow, QueueForRow, tables
  <2>5. CASE ReuseThrow(p)
    BY <1>2, <2>5 DEF ReuseThrow
  <2>6. CASE UpdateAtivo(p)
    <3> DEFINE v == op[p].user
               restore == op[p].ativo = "restore"
               row == [usuario[v] EXCEPT !.ativo = restore,
                                         !.deletedAt = IF restore THEN None ELSE p]
    <3>1. CASE Rollback(p, "conflict")
      BY <1>2, <3>1
    <3>2. CASE Commit(p, v, row) /\ lockU[v] = None
      BY <1>3, <1>4, <3>2
    <3>3. CASE /\ lockU[v] = None /\ lockU' = [lockU EXCEPT ![v] = p]
               /\ draft' = [draft EXCEPT ![v] = row] /\ UNCHANGED usuario
      <4> HIDE DEF row
      <4>1. CASE u = v
        BY <2>6, <3>3, <4>1 DEF TakenUser
      <4>2. CASE u # v
        BY <3>3, <4>2 DEF SameUser
      <4> QED
        BY <4>1, <4>2
    <3> QED
      BY <2>6, <3>1, <3>2, <3>3 DEF UpdateAtivo, tables
  <2>7. CASE UpdateSenha(p)
    <3>1. CASE Rollback(p, "conflict")
      BY <1>2, <3>1
    <3>2. CASE lockU[op[p].user] \in {None, p}
               /\ Commit(p, op[p].user, [Visible(p, op[p].user) EXCEPT !.senha = p])
      BY <1>3, <1>4, <3>2
    <3> QED
      BY <2>7, <3>1, <3>2 DEF UpdateSenha
  <2>8. CASE ResetUsuario(p)
    <3>1. CASE u = op[p].user
      BY <2>8, <3>1 DEF ResetUsuario, TakenUser
    <3>2. CASE u # op[p].user
      BY <2>8, <3>2 DEF ResetUsuario, SameUser, tables
    <3> QED
      BY <3>1, <3>2
  <2>9. CASE ResetConsume(p)
    <3>1. op[p].kind = "reset"
      BY <2>1, <2>9 DEF ResetConsume, KindsAt, Statements
    <3>2. lockU[op[p].user] = p
      BY <2>9, <3>1 DEF ResetConsume, Drafts
    <3> QED
      BY <1>3, <1>4, <2>9, <3>2 DEF ResetConsume
  <2>10. CASE FlushCommit(p)
    <3>1. op[p].kind = "flush"
      BY <2>1, <2>10 DEF FlushCommit, KindsAt, Statements
    <3>2. lockU[u] # p
      BY <1>4, <3>1
    <3> QED
      BY <2>10, <3>2 DEF FlushCommit, Release, Unlock, SameUser
  <2> QED
    BY <1>5, <2>2, <2>3, <2>4, <2>5, <2>6, <2>7, <2>8, <2>9, <2>10 DEF Serve
<1>6. ASSUME NEW p \in Requests, Begin(p) PROVE SameUser(u)
  BY <1>1, <1>6, Beginning DEF Begun, tables
<1>7. ASSUME NEW p \in Requests, Abort(p) \/ DeadlockVictim(p)
      PROVE  SameUser(u) \/ FreedUser(u, p)
  BY <1>2, <1>7 DEF Abort, DeadlockVictim, Outcomes
<1>8. CASE (\E t : ExpireToken(t) \/ ExpireReset(t)) \/ AllServed
  BY <1>1, <1>8 DEF ExpireToken, ExpireReset, AllServed, locks, vars
<1> QED
  BY <1>5, <1>6, <1>7, <1>8 DEF Next

\* The statements of a transaction between its first write of the user and its
\* last.
Between == {"scan", "lock", "update.senha", "reset.consume"}

\* Whoever is at one of them was at one, or has just begun or written.
LEMMA BetweenEntry ==
    ASSUME TypeOK, Next, NEW p \in Requests, pc'[p] \in Between
    PROVE  \/ Begin(p) /\ Begun(p)
           \/ pc[p] \in Between /\ op'[p] = op[p] /\ read'[p] = read[p]
           \/ UpdateAtivo(p) \/ ResetUsuario(p)
<1> USE DEF TypeOK, Between
<1>1. CASE Begin(p)
  BY <1>1, Beginning
<1>2. CASE LeftAlone(p)
  BY <1>2 DEF LeftAlone, Stays
<1>3. CASE Rollback(p, "aborted")
  BY <1>3 DEF Rollback, Goto
<1>4. CASE Serve(p)
  <2>1. CASE StartScan(p) \/ LockRow(p) \/ QueueForRow(p) \/ EndScan(p)
    BY <2>1 DEF StartScan, LockRow, QueueForRow, EndScan
  <2>2. CASE ~(StartScan(p) \/ LockRow(p) \/ QueueForRow(p) \/ EndScan(p))
    BY <1>4, <2>2 DEF Serve, LoginProfile, LoginIssue, RefreshUser, RefreshRotate, ReuseThrow,
       Rollback, UpdateSenha, Commit, ForgotInvalidate, ForgotCreate, ResetConsume,
       FlushCommit, Goto
  <2> QED
    BY <2>1, <2>2
<1> QED
  BY <1>1, <1>2, <1>3, <1>4, Actor

\* A step preserves Drafts.
LEMMA DraftsStep ==
    ASSUME TypeOK, WellFormed, RowLocks, Addressed, FlipAsRead, Drafts, Next
    PROVE  Drafts'
<1> USE DEF TypeOK
<1>1. ASSUME NEW u \in Users, lockU'[u] = None PROVE draft'[u] = usuario'[u]
  <2>1. CASE SameUser(u)
    BY <1>1, <2>1 DEF SameUser, Drafts
  <2>2. ASSUME NEW p \in Requests, FreedUser(u, p) \/ TakenUser(u, p)
        PROVE  draft'[u] = usuario'[u]
    BY <1>1, <2>2, ConstantsAssumption DEF FreedUser, TakenUser
  <2> QED
    BY <2>1, <2>2, DraftFate
<1>2. ASSUME NEW p \in Requests, pc'[p] \in Between
      PROVE  LET u == op'[p].user IN
             /\ op'[p].kind = "reset" =>
                  lockU'[u] = p /\ draft'[u] = [usuario'[u] EXCEPT !.senha = p]
             /\ op'[p].kind = "update" /\ op'[p].ativo # "keep" =>
                  lockU'[u] = p /\ draft'[u].deletedAt # read'[p]
             /\ op'[p].kind = "update" /\ op'[p].ativo = "keep" => lockU'[u] # p
  <2> DEFINE u == op'[p].user
  <2>1. CASE Begin(p) /\ Begun(p)
    <3>1. op'[p].kind # "reset" /\ (op'[p].kind = "update" => op'[p].ativo = "keep")
      BY <1>2, <2>1 DEF Begun, Between
    <3>2. op'[p].kind = "update" => u \in Users /\ lockU'[u] = lockU[u] /\ lockU[u] # p
      <4>1. pc[p] = "idle" /\ lockU' = lockU /\ (op'[p].kind = "update" => u \in Users)
        BY <2>1 DEF Begun
      <4>2. u \in Users => lockU[u] # p
        BY <4>1, ConstantsAssumption DEF RowLocks, Statements
      <4> QED
        BY <4>1, <4>2
    <3> QED
      BY <3>1, <3>2
  <2>2. CASE pc[p] \in Between /\ op'[p] = op[p] /\ read'[p] = read[p]
    <3>1. SUFFICES ASSUME op[p].kind \in {"update", "reset"} PROVE
             /\ op[p].kind = "reset" =>
                  lockU'[u] = p /\ draft'[u] = [usuario'[u] EXCEPT !.senha = p]
             /\ op[p].kind = "update" /\ op[p].ativo # "keep" =>
                  lockU'[u] = p /\ draft'[u].deletedAt # read[p]
             /\ op[p].kind = "update" /\ op[p].ativo = "keep" => lockU'[u] # p
      BY <2>2
    <3>2. u = op[p].user /\ u \in Users
      BY <2>2, <3>1 DEF Between, Addressed, Statements
    <3>3. CASE SameUser(u)
      BY <2>2, <3>2, <3>3 DEF SameUser, Drafts, Between
    <3>4. ASSUME NEW q \in Requests, FreedUser(u, q)
          PROVE  lockU'[u] = None /\ lockU[u] # p
      BY <1>2, <3>4, ConstantsAssumption DEF FreedUser, Between, Outcomes
    <3>5. ASSUME NEW q \in Requests, TakenUser(u, q)
          PROVE  lockU'[u] # p /\ lockU[u] # p
      <4>1. pc[q] \notin Between
        BY <3>5 DEF TakenUser, UpdateAtivo, ResetUsuario, Between
      <4> QED
        BY <2>2, <3>5, <4>1, ConstantsAssumption DEF TakenUser
    <3> HIDE DEF u
    <3>6. CASE \E q \in Requests : FreedUser(u, q) \/ TakenUser(u, q)
      <4>1. lockU'[u] # p /\ lockU[u] # p
        BY <3>4, <3>5, <3>6, ConstantsAssumption
      <4>2. op[p].kind = "update" /\ op[p].ativo = "keep"
        BY <2>2, <3>1, <3>2, <4>1 DEF Drafts, Between
      <4> QED
        BY <4>1, <4>2
    <3> QED
      BY <3>2, <3>3, <3>6, DraftFate
  <2>3. CASE UpdateAtivo(p)
    <3> DEFINE v == op[p].user
               restore == op[p].ativo = "restore"
               row == [usuario[v] EXCEPT !.ativo = restore,
                                         !.deletedAt = IF restore THEN None ELSE p]
    <3>1. /\ lockU' = [lockU EXCEPT ![v] = p] /\ draft' = [draft EXCEPT ![v] = row]
          /\ UNCHANGED <<op, read>>
      BY <1>2, <2>3 DEF UpdateAtivo, Rollback, Commit, Goto, Between
    <3>2. op[p].kind = "update" /\ op[p].ativo # "keep" /\ v \in Users
      BY <2>3 DEF UpdateAtivo, FlipAsRead, WellFormed, RequestOK, KindsAt, Statements, Addressed
    <3>3. restore = (read[p] # None)
      BY <2>3 DEF UpdateAtivo, FlipAsRead
    <3>4. row.deletedAt # read[p]
      BY <3>2, <3>3, ConstantsAssumption DEF UserRow
    <3> HIDE DEF row
    <3> QED
      BY <3>1, <3>2, <3>4
  <2>4. CASE ResetUsuario(p)
    <3>1. op[p].kind = "reset" /\ op[p].user \in Users
      BY <2>4 DEF ResetUsuario, WellFormed, RequestOK, KindsAt, Statements, Addressed
    <3>2. /\ lockU' = [lockU EXCEPT ![op[p].user] = p]
          /\ draft' = [draft EXCEPT ![op[p].user].senha = p]
          /\ UNCHANGED <<usuario, op>> /\ lockU[op[p].user] = None
      BY <2>4 DEF ResetUsuario, tables
    <3>3. draft[op[p].user] = usuario[op[p].user]
      BY <3>1, <3>2 DEF Drafts
    <3> QED
      BY <3>1, <3>2, <3>3
  <2> QED
    BY <1>2, <2>1, <2>2, <2>3, <2>4, BetweenEntry
<1> QED
  BY <1>1, <1>2 DEF Drafts, Between

\* The statements at which a request may have token rows locked or to lock.
Scanning == {"lock", "reuse.throw", "update.senha", "reset.consume", "flush.commit"}

\* What p has locked or still wants after a step it wanted before it, has just
\* matched, or names for the purge; and p is still at its scan or past it.
LEMMA ScanStep ==
    ASSUME TypeOK, WellFormed, ScansOwn, Next, NEW p \in Requests, NEW t \in Tokens,
           t \in todo'[p] \/ lockT'[t] = p
    PROVE  /\ pc'[p] \in Scanning
           /\ \/ /\ t \in todo[p] \/ lockT[t] = p
                 /\ op'[p] = op[p]
              \/ StartScan(p) /\ Active(t) /\ refreshToken[t].userId = op[p].user
              \/ Begin(p) /\ Begun(p) /\ op'[p].kind = "flush"
                 /\ Issued(t) /\ refreshToken[t].expired
           /\ lockT'[t] = p => lockT[t] = p \/ op[p].kind = "flush" \/ Active(t)
<1> USE DEF TypeOK, Scanning
<1>1. t \in todo[p] \/ lockT[t] = p => pc[p] \in Scanning
  BY DEF ScansOwn
<1>2. CASE LeftAlone(p)
  BY <1>1, <1>2 DEF LeftAlone, Stays
<1>3. ASSUME NEW s, Rollback(p, s) PROVE FALSE
  BY <1>3, ConstantsAssumption DEF Rollback, Release, Unlock
<1>4. CASE Begin(p)
  <2>1. Begun(p)
    BY <1>4, Beginning
  <2>2. t \notin todo[p] /\ lockT[t] # p
    BY <1>1, <2>1 DEF Begun
  <2> QED
    BY <1>4, <2>1, <2>2 DEF Begun
<1>5. CASE Serve(p)
  <2>1. CASE StartScan(p)
    BY <1>1, <2>1 DEF StartScan, Goto, Active
  <2>2. CASE LockRow(p)
    <3>1. PICK r \in todo[p] : \E matches \in StillMatches(p, r) :
            /\ lockT' = IF matches THEN [lockT EXCEPT ![r] = p] ELSE lockT
            /\ todo' = [todo EXCEPT ![p] = @ \ {r}]
      BY <2>2 DEF LockRow
    <3>2. pc[p] = "lock" /\ UNCHANGED <<pc, op>>
      BY <2>2 DEF LockRow
    <3>3. PICK matches \in StillMatches(p, r) :
            lockT' = IF matches THEN [lockT EXCEPT ![r] = p] ELSE lockT
      BY <3>1
    <3>4. t \in todo[p] \/ lockT[t] = p
      BY <3>1, <3>3
    <3>5. lockT'[t] = p /\ lockT[t] # p => t = r /\ matches
      BY <3>3
    <3>6. matches /\ op[p].kind # "flush" => Active(r)
      BY DEF StillMatches, Active
    <3> QED
      BY <3>2, <3>4, <3>5, <3>6
  <2>3. CASE QueueForRow(p) \/ EndScan(p)
    BY <1>1, <2>3 DEF QueueForRow, EndScan, Goto, locks
  <2>4. ASSUME Release(p) PROVE FALSE
    BY <2>4, ConstantsAssumption DEF Release, Unlock
  <2>5. CASE ~(StartScan(p) \/ LockRow(p) \/ QueueForRow(p) \/ EndScan(p))
    <3>1. pc[p] \notin Scanning /\ UNCHANGED <<todo, lockT>>
      BY <1>3, <1>5, <2>4, <2>5 DEF Serve, LoginProfile, LoginIssue, RefreshUser,
         RefreshRotate, ReuseThrow, UpdateAtivo, UpdateSenha, Commit, ForgotInvalidate,
         ForgotCreate, ResetUsuario, ResetConsume, FlushCommit, locks
    <3> QED
      BY <1>1, <3>1
  <2> QED
    BY <2>1, <2>2, <2>3, <2>5
<1> QED
  BY <1>2, <1>3, <1>4, <1>5, Actor

\* A step preserves ScansOwn.
LEMMA ScansStep ==
    ASSUME TypeOK, WellFormed, RowLocks, ScansOwn, Next PROVE ScansOwn'
<1> USE DEF TypeOK
<1> SUFFICES ASSUME NEW p \in Requests, NEW t \in Tokens, t \in todo'[p] \/ lockT'[t] = p
             PROVE  /\ pc'[p] \in Scanning
                    /\ Issued(t)'
                    /\ IF op'[p].kind = "flush"
                         THEN refreshToken'[t].expired
                         ELSE refreshToken'[t].userId = op'[p].user
                    /\ lockT'[t] = p /\ op'[p].kind # "flush" => Active(t)'
  BY DEF ScansOwn, Scanning
<1>1. /\ pc'[p] \in Scanning
      /\ Issued(t)
      /\ IF op'[p].kind = "flush" THEN refreshToken[t].expired
                                  ELSE refreshToken[t].userId = op'[p].user
  <2>1. CASE (t \in todo[p] \/ lockT[t] = p) /\ op'[p] = op[p]
    BY <2>1, ScanStep DEF ScansOwn
  <2>2. CASE StartScan(p) /\ Active(t) /\ refreshToken[t].userId = op[p].user
    <3>1. op[p].kind # "flush" /\ op' = op
      BY <2>2 DEF StartScan, WellFormed, RequestOK, KindsAt, Statements
    <3> QED
      BY <2>2, <3>1, ScanStep DEF Active, Issued
  <2>3. CASE op'[p].kind = "flush" /\ Issued(t) /\ refreshToken[t].expired
    BY <2>3, ScanStep
  <2> QED
    BY <2>1, <2>2, <2>3, ScanStep
<1>2. Kept(t)
  BY <1>1, TokenFate DEF Born
<1>3. Issued(t)'
  BY <1>1, <1>2 DEF Kept, Issued
<1>4. ASSUME lockT'[t] = p, op'[p].kind # "flush" PROVE Active(t)'
  <2>1. refreshToken'[t].state = refreshToken[t].state
    BY <1>2, <1>4, ConstantsAssumption DEF Kept
  <2>2. ~Begin(p) /\ op'[p] = op[p]
    <3>1. ASSUME Begun(p) PROVE FALSE
      BY <1>4, <3>1 DEF Begun, ScansOwn
    <3> QED
      BY <3>1, Arrival, Beginning DEF Stays, Advances
  <2>3. Active(t)
    BY <1>4, <2>2, ScanStep DEF ScansOwn
  <2> QED
    BY <2>1, <2>3 DEF Active
<1> QED
  BY <1>1, <1>2, <1>3, <1>4 DEF Kept

-----------------------------------------------------------------------------
(* Every step implements a step of SessionStore.                           *)

\* A change of password finds its guard only in a request without ativo, whose
\* user is as committed.
LEMMA PlainSenha ==
    ASSUME TypeOK, WellFormed, Addressed, Drafts, NEW p \in Requests,
           pc[p] = "update.senha", Matches(p)
    PROVE  /\ op[p].kind = "update" /\ op[p].ativo = "keep" /\ op[p].user \in Users
           /\ Visible(p, op[p].user) = usuario[op[p].user]
<1>1. op[p].kind = "update" /\ op[p].user \in Users
  BY DEF WellFormed, RequestOK, KindsAt, Statements, Addressed
<1>2. CASE op[p].ativo # "keep"
  BY <1>1, <1>2 DEF Drafts, Matches, Visible
<1>3. CASE op[p].ativo = "keep"
  BY <1>1, <1>3 DEF Drafts, Visible
<1> QED
  BY <1>1, <1>2, <1>3

\* Whoever disables or restores finds the user as it was read.
LEMMA CleanAtivo ==
    ASSUME TypeOK, WellFormed, Addressed, FlipAsRead, NEW p \in Requests,
           pc[p] = "update.ativo", Matches(p), lockU[op[p].user] = None
    PROVE  /\ op[p].user \in Users
           /\ usuario[op[p].user].deletedAt = read[p]
           /\ (op[p].ativo = "restore") = (usuario[op[p].user].deletedAt # None)
<1>1. op[p].kind = "update" /\ op[p].user \in Users
  BY DEF WellFormed, RequestOK, KindsAt, Statements, Addressed
<1>2. usuario[op[p].user].deletedAt = read[p]
  BY ConstantsAssumption DEF Matches, Visible
<1> QED
  BY <1>1, <1>2 DEF FlipAsRead

\* A PATCH with ativo that succeeds flips a user which is as it was read.
LEMMA FlipsStep ==
    ASSUME IInv, Next, NEW p \in Requests,
           pc[p] # "ok", pc'[p] = "ok", op[p].ativo # "keep"
    PROVE  /\ usuario[op[p].user].deletedAt = read[p]
           /\ (op[p].ativo = "restore") = (usuario[op[p].user].deletedAt # None)
           /\ (op[p].ativo = "restore") = (usuario'[op[p].user].deletedAt = None)
<1> USE DEF IInv, TypeOK
<1>1. pc[p] # "idle" /\ op[p].kind = "update"
  BY DEF FlipAsRead
<1>2. Serve(p)
  BY <1>1, Actor, Beginning DEF Begun, LeftAlone, Stays, Rollback, Goto
<1>3. op[p].kind \in KindsAt(pc[p])
  BY <1>2, Served DEF WellFormed, RequestOK
<1>4. CASE UpdateAtivo(p)
  <2> DEFINE u == op[p].user
             restore == op[p].ativo = "restore"
             row == [usuario[u] EXCEPT !.ativo = restore,
                                       !.deletedAt = IF restore THEN None ELSE p]
  <2>1. Matches(p) /\ lockU[u] = None /\ Commit(p, u, row) /\ pc[p] = "update.ativo"
    BY <1>4 DEF UpdateAtivo, Rollback, Goto
  <2>2. /\ u \in Users /\ usuario[u].deletedAt = read[p]
        /\ restore = (usuario[u].deletedAt # None)
    BY <2>1, CleanAtivo
  <2>3. usuario'[u] = row
    BY <2>1, <2>2 DEF Commit
  <2>4. restore = (row.deletedAt = None)
    BY <2>2, ConstantsAssumption DEF UserRow
  <2> HIDE DEF row
  <2> QED
    BY <2>2, <2>3, <2>4
<1>5. CASE UpdateSenha(p)
  <2>1. ~Matches(p)
    BY <1>5, PlainSenha DEF UpdateSenha
  <2> QED
    BY <1>5, <2>1 DEF UpdateSenha, Rollback, Goto
<1>6. CASE LoginIssue(p) \/ RefreshRotate(p) \/ ForgotCreate(p) \/ ResetConsume(p) \/ FlushCommit(p)
  BY <1>1, <1>3, <1>6 DEF LoginIssue, RefreshRotate, ForgotCreate, ResetConsume, FlushCommit,
     KindsAt
<1>7. CASE ~(UpdateAtivo(p) \/ UpdateSenha(p) \/ LoginIssue(p) \/ RefreshRotate(p)
             \/ ForgotCreate(p) \/ ResetConsume(p) \/ FlushCommit(p))
  BY <1>2, <1>7 DEF Serve, LoginProfile, RefreshUser, ReuseThrow, Rollback, StartScan, LockRow,
     QueueForRow, EndScan, ForgotInvalidate, ResetUsuario, Goto
<1> QED
  BY <1>4, <1>5, <1>6, <1>7

\* What SessionStore sees of the progress of the requests.
Status == [p \in Requests |-> IF pc[p] = "idle" THEN "idle"
                              ELSE IF pc[p] \in Outcomes THEN "ended" ELSE "running"]

\* A request that ends was running in the eyes of SessionStore, and ends there.
LEMMA StatusEnds ==
    ASSUME TypeOK, NEW p \in Requests, pc[p] \in Statements, NEW s \in Outcomes, Goto(p, s),
           before' = before
    PROVE  Store!Running(p) /\ Store!End(p)
  BY DEF TypeOK, Goto, Store!Running, Store!End, Statements, Outcomes

\* One that goes on to another statement has not moved there.
LEMMA StatusStays ==
    ASSUME TypeOK, NEW p \in Requests, pc[p] \in Statements, NEW s \in Statements, Goto(p, s)
    PROVE  Status' = Status
  BY DEF TypeOK, Goto, Status, Statements, Outcomes

\* The initial states map to initial states.
LEMMA StoreInit == Init => Store!Init
<1> SUFFICES ASSUME Init PROVE Store!Init
  OBVIOUS
<1>1. ASSUME NEW u \in Users
      PROVE  /\ usuario[u].senha = Seed
             /\ usuario[u].deletedAt \in {None, Seed}
             /\ usuario[u].ativo = (usuario[u].deletedAt = None)
  <2>1. usuario[u] \in {[senha |-> Seed, ativo |-> TRUE, deletedAt |-> None],
                       [senha |-> Seed, ativo |-> FALSE, deletedAt |-> Seed]}
    BY DEF Init
  <2>2. Seed # None
    BY ConstantsAssumption
  <2>3. CASE usuario[u] = [senha |-> Seed, ativo |-> TRUE, deletedAt |-> None]
    <3>1. /\ usuario[u].senha = Seed /\ usuario[u].ativo = TRUE
          /\ usuario[u].deletedAt = None
      BY <2>3
    <3> QED
      BY <3>1, Zenon
  <2>4. CASE usuario[u] = [senha |-> Seed, ativo |-> FALSE, deletedAt |-> Seed]
    <3>1. /\ usuario[u].senha = Seed /\ usuario[u].ativo = FALSE
          /\ usuario[u].deletedAt = Seed
      BY <2>4
    <3> QED
      BY <2>2, <3>1, Zenon
  <2> QED
    BY <2>1, <2>3, <2>4
<1>2. \A t \in Tokens : /\ refreshToken[t].parent = None
                        /\ refreshToken[t].state \in {"absent", "active"}
                        /\ refreshToken[t].by \in {None, Seed}
  BY DEF Init, NewToken, AbsentToken
<1>3. \A r \in ResetTokens : /\ resetToken[r].state \in {"absent", "unused"}
                             /\ resetToken[r].by \in {None, Seed}
  BY DEF Init, NewReset, AbsentReset
<1>4. \A p \in Requests : pc[p] = "idle" /\ before[p] = {}
  BY DEF Init
<1>5. before = [p \in Requests |-> {}]
  BY DEF Init
<1> QED
  BY <1>1, <1>2, <1>3, <1>4, <1>5 DEF Store!Init

\* An arrival is one.
LEMMA StoreBegin ==
    ASSUME TypeOK, NEW p \in Requests, Begin(p) PROVE Store!Begin(p)
<1> USE DEF TypeOK
<1>1. /\ pc[p] = "idle" /\ before' = [before EXCEPT ![p] = Ended]
      /\ \E s : Goto(p, s)
      /\ UNCHANGED tables
  BY DEF Begin, BeginLogin, BeginRefresh, BeginUpdate, BeginForgot, BeginReset, BeginFlush,
     Arrive
<1>2. pc'[p] \in Statements \cup Outcomes
  BY Beginning DEF Begun
<1>3. Status' = [Status EXCEPT ![p] = IF pc'[p] \in Outcomes THEN "ended" ELSE "running"]
  BY <1>1, <1>2 DEF Goto, Status, Statements, Outcomes
<1>4. Status[p] = "idle" /\ {q \in Requests : Status[q] = "ended"} = Ended
  BY <1>1 DEF Status, Ended, Outcomes
<1> QED
  BY <1>1, <1>3, <1>4 DEF Store!Begin, Store!store, Status, tables

\* A rollback refuses a request.
LEMMA StoreRefuse ==
    ASSUME TypeOK, NEW p \in Requests, pc[p] \in Statements, NEW s \in Outcomes, Goto(p, s),
           UNCHANGED <<usuario, refreshToken, resetToken, before>>
    PROVE  Store!Refuse(p)
  BY StatusEnds DEF Store!Refuse, Store!store

\* A statement that commits nothing is not seen.
LEMMA StoreStutter ==
    ASSUME TypeOK, NEW p \in Requests, pc[p] \in Statements, NEW s \in Statements, Goto(p, s),
           UNCHANGED <<usuario, refreshToken, resetToken, before>>
    PROVE  UNCHANGED Store!vars
  BY StatusStays DEF Store!vars, Status

\* login issues a token.
LEMMA StoreIssue ==
    ASSUME TypeOK, WellFormed, Addressed, EnabledWhenIssuing, NEW p \in Requests, LoginIssue(p)
    PROVE  Store!Issue(p)
<1> USE DEF TypeOK
<1>1. PICK t \in Tokens :
        /\ refreshToken[t].state = "absent"
        /\ refreshToken' =
             [refreshToken EXCEPT ![t] = NewToken(op[p].user, None, op[p].cred, p)]
  BY DEF LoginIssue
<1>2. /\ pc[p] = "login.issue" /\ Goto(p, "ok")
      /\ UNCHANGED <<usuario, resetToken, before>>
  BY DEF LoginIssue
<1>3. op[p].user \in Users /\ op[p].cred \in Requests \cup {Seed}
  BY <1>2 DEF WellFormed, RequestOK, KindsAt, Statements, Addressed, Authors
<1>4. Store!MayIssue(p, op[p].user)
  BY <1>2 DEF EnabledWhenIssuing, Store!MayIssue, Store!Precedes, Precedes
<1>5. Store!Running(p) /\ Store!End(p)
  BY <1>2, StatusEnds DEF Statements, Outcomes
<1>6. NewToken(op[p].user, None, op[p].cred, p) = Store!NewToken(op[p].user, None, op[p].cred, p)
  BY DEF NewToken, Store!NewToken
<1> QED
  BY <1>1, <1>2, <1>3, <1>4, <1>5, <1>6 DEF Store!Issue

\* refreshTokens rotates one, or finds it deleted.
LEMMA StoreRotate ==
    ASSUME TypeOK, WellFormed, NotRotatedBefore, EnabledWhenIssuing, NEW p \in Requests,
           RefreshRotate(p)
    PROVE  Store!Rotate(p) \/ Store!Refuse(p)
<1> USE DEF TypeOK
<1> DEFINE parent == op[p].token
<1>1. /\ pc[p] = "refresh.rotate"
      /\ UNCHANGED <<usuario, resetToken, before>>
  BY DEF RefreshRotate
<1>2. /\ parent \in Tokens /\ refreshToken[parent].state # "absent"
      /\ refreshToken[parent].userId = op[p].user
  BY <1>1 DEF WellFormed, RequestOK, Issued
<1>3. CASE refreshToken[parent].state = "deleted"
  <2>1. Goto(p, "aborted") /\ UNCHANGED refreshToken
    BY <1>3 DEF RefreshRotate
  <2> QED
    BY <1>1, <2>1, StoreRefuse DEF Statements, Outcomes
<1>4. CASE refreshToken[parent].state # "deleted"
  <2>1. PICK t \in Tokens :
          /\ refreshToken[t].state = "absent"
          /\ refreshToken' = [refreshToken EXCEPT
               ![parent].state = "revoked",
               ![t] = NewToken(op[p].user, parent, refreshToken[parent].cred, p)]
    BY <1>4 DEF RefreshRotate
  <2>2. Goto(p, "ok")
    BY <1>4 DEF RefreshRotate
  <2>3. Store!Running(p) /\ Store!End(p)
    BY <1>1, <2>2, StatusEnds DEF Statements, Outcomes
  <2>4. refreshToken[parent].state \in {"active", "revoked"}
    BY <1>2, <1>4 DEF TokenRow
  <2>5. \A d \in Tokens : refreshToken[d].parent = parent => ~Store!Precedes(refreshToken[d].by, p)
    BY <1>1 DEF NotRotatedBefore, Store!Precedes, Precedes
  <2>6. Store!MayIssue(p, refreshToken[parent].userId)
    BY <1>1, <1>2 DEF EnabledWhenIssuing, Store!MayIssue, Store!Precedes, Precedes
  <2>7. NewToken(op[p].user, parent, refreshToken[parent].cred, p)
          = Store!NewToken(refreshToken[parent].userId, parent, refreshToken[parent].cred, p)
    BY <1>2 DEF NewToken, Store!NewToken
  <2> QED
    BY <1>1, <1>2, <2>1, <2>3, <2>4, <2>5, <2>6, <2>7 DEF Store!Rotate
<1> QED
  BY <1>3, <1>4

\* update flips a user, has drafted the change, or answers with a conflict.
LEMMA StoreFlip ==
    ASSUME TypeOK, WellFormed, Addressed, FlipAsRead, ScansOwn, NEW p \in Requests,
           UpdateAtivo(p)
    PROVE  Store!Flip(p) \/ Store!Refuse(p) \/ UNCHANGED Store!vars
<1> USE DEF TypeOK
<1> DEFINE u == op[p].user
           restore == op[p].ativo = "restore"
           row == [usuario[u] EXCEPT !.ativo = restore,
                                     !.deletedAt = IF restore THEN None ELSE p]
<1>1. pc[p] = "update.ativo" /\ pc[p] \in Statements
  BY DEF UpdateAtivo, Statements
<1>2. CASE Rollback(p, "conflict")
  BY <1>1, <1>2, StoreRefuse DEF Rollback, Outcomes
<1>3. CASE Matches(p) /\ lockU[u] = None /\ Commit(p, u, row) /\ UNCHANGED resetToken
  <2>1. u \in Users /\ restore = (usuario[u].deletedAt # None)
    BY <1>1, <1>3, CleanAtivo
  <2>2. refreshToken' = refreshToken
    <3>1. \A t \in Tokens : lockT[t] # p
      BY <1>1 DEF ScansOwn
    <3> QED
      BY <1>3, <3>1 DEF Commit, TokensAfterCommit
  <2>3. Store!Running(p) /\ Store!End(p)
    BY <1>1, <1>3, StatusEnds DEF Commit, Outcomes
  <2>4. usuario' = [usuario EXCEPT ![u].ativo = restore,
                                   ![u].deletedAt = IF restore THEN None ELSE p]
    <3>1. usuario' = [usuario EXCEPT ![u] = row]
      BY <1>3 DEF Commit
    <3> HIDE DEF restore
    <3> QED
      BY <2>1, <3>1 DEF UserRow
  <2> QED
    BY <1>3, <2>1, <2>2, <2>3, <2>4 DEF Store!Flip
<1>4. CASE /\ Goto(p, "scan")
           /\ UNCHANGED <<tables, before>>
  BY <1>1, <1>4, StoreStutter DEF tables, Statements
<1> QED
  BY <1>2, <1>3, <1>4 DEF UpdateAtivo

\* What p has locked when it changes a password are active tokens of its user,
\* all that are older than itself among them.
LEMMA StoreChange ==
    ASSUME TypeOK, Covered, ScanOver, ScansOwn, NEW p \in Requests,
           pc[p] \in {"update.senha", "reset.consume"},
           op[p].kind \in {"update", "reset"}, op[p].user \in Users,
           Commit(p, op[p].user, [usuario[op[p].user] EXCEPT !.senha = p])
    PROVE  Store!ChangePassword(p, op[p].user)
<1> USE DEF TypeOK
<1> DEFINE u == op[p].user
           dead == {t \in Tokens : lockT[t] = p}
<1>1. dead \in SUBSET {t \in Tokens :
                         refreshToken[t].state = "active" /\ refreshToken[t].userId = u}
  BY DEF ScansOwn, Active
<1>2. \A t \in Tokens : /\ refreshToken[t].state = "active"
                        /\ refreshToken[t].userId = u
                        /\ Store!Precedes(refreshToken[t].by, p)
                        => t \in dead
  BY DEF Covered, ScanOver, Active, Store!Precedes, Precedes
<1>3. refreshToken' = [t \in Tokens |-> IF t \in dead
         THEN [refreshToken[t] EXCEPT !.state = "revoked"] ELSE refreshToken[t]]
  BY DEF Commit, TokensAfterCommit
<1>4. usuario' = [usuario EXCEPT ![u].senha = p]
  BY DEF Commit, UserRow
<1>5. Store!End(p)
  BY StatusEnds DEF Commit, Statements, Outcomes
<1> HIDE DEF dead
<1> QED
  BY <1>1, <1>2, <1>3, <1>4, <1>5 DEF Store!ChangePassword

\* update changes the password and revokes, or answers with a conflict.
LEMMA StorePatch ==
    ASSUME TypeOK, WellFormed, Addressed, Drafts, Covered, ScanOver, ScansOwn,
           NEW p \in Requests, UpdateSenha(p)
    PROVE  Store!Patch(p) \/ Store!Refuse(p)
<1> DEFINE u == op[p].user
<1>1. pc[p] = "update.senha" /\ pc[p] \in Statements
  BY DEF UpdateSenha, Statements
<1>2. CASE Rollback(p, "conflict")
  BY <1>1, <1>2, StoreRefuse DEF Rollback, Outcomes
<1>3. CASE Matches(p) /\ Commit(p, u, [Visible(p, u) EXCEPT !.senha = p]) /\ UNCHANGED resetToken
  <2>1. op[p].kind = "update" /\ u \in Users /\ Visible(p, u) = usuario[u]
    BY <1>1, <1>3, PlainSenha
  <2>2. Store!ChangePassword(p, u)
    BY <1>1, <1>3, <2>1, StoreChange
  <2>3. Store!Running(p)
    BY <1>1, <1>3, StatusEnds DEF Commit, Outcomes
  <2> QED
    BY <1>3, <2>1, <2>2, <2>3 DEF Store!Patch
<1> QED
  BY <1>2, <1>3 DEF UpdateSenha

\* resetPassword does the same and uses its token up.
LEMMA StoreReset ==
    ASSUME TypeOK, WellFormed, Addressed, Drafts, Covered, ScanOver, ScansOwn,
           NEW p \in Requests, ResetConsume(p)
    PROVE  Store!Reset(p)
<1> DEFINE u == op[p].user
           r == op[p].reset
<1>1. /\ pc[p] = "reset.consume" /\ pc[p] \in Statements
      /\ Commit(p, u, draft[u])
      /\ resetToken' = [resetToken EXCEPT ![r].state = "used"]
  BY DEF ResetConsume, Statements
<1>2. op[p].kind = "reset"
  BY <1>1 DEF WellFormed, RequestOK, KindsAt
<1>3. /\ r \in ResetTokens /\ resetToken[r].state # "absent"
      /\ resetToken[r].userId = u /\ u \in Users
  BY <1>1, <1>2 DEF Addressed
<1>4. draft[u] = [usuario[u] EXCEPT !.senha = p]
  BY <1>1, <1>2 DEF Drafts
<1>5. Store!ChangePassword(p, u)
  BY <1>1, <1>2, <1>3, <1>4, StoreChange
<1>6. Store!Running(p)
  BY <1>1, StatusEnds DEF Commit, Outcomes
<1> QED
  BY <1>1, <1>3, <1>5, <1>6 DEF Store!Reset

\* forgotPassword invalidates and issues.
LEMMA StoreForgot ==
    ASSUME TypeOK, WellFormed, Addressed, InvalidatedBefore, NEW p \in Requests,
           ForgotInvalidate(p) \/ ForgotCreate(p)
    PROVE  Store!InvalidateResets(p) \/ Store!IssueReset(p)
<1> USE DEF TypeOK
<1>1. pc[p] \in Statements /\ op[p].user \in Users
  BY DEF ForgotInvalidate, ForgotCreate, Statements, WellFormed, RequestOK, KindsAt, Addressed
<1>2. CASE ForgotInvalidate(p)
  <2>1. Store!Running(p)
    BY <1>1 DEF Store!Running, Statements, Outcomes
  <2>2. Status' = Status
    BY <1>1, <1>2, StatusStays DEF ForgotInvalidate, Statements
  <2> QED
    BY <1>1, <1>2, <2>1, <2>2 DEF ForgotInvalidate, Store!InvalidateResets, Status
<1>3. CASE ForgotCreate(p)
  <2>1. Store!Running(p) /\ Store!End(p)
    BY <1>1, <1>3, StatusEnds DEF ForgotCreate, Outcomes
  <2>2. \A s \in ResetTokens :
          resetToken[s].state = "unused" /\ resetToken[s].userId = op[p].user
          => ~Store!Precedes(resetToken[s].by, p)
    BY <1>3 DEF ForgotCreate, InvalidatedBefore, Store!Precedes, Precedes
  <2> QED
    BY <1>1, <1>3, <2>1, <2>2 DEF ForgotCreate, NewReset, Store!IssueReset
<1> QED
  BY <1>2, <1>3

\* The purge takes expired rows.
LEMMA StorePurge ==
    ASSUME TypeOK, WellFormed, ScansOwn, NEW p \in Requests, FlushCommit(p)
    PROVE  Store!Purge(p)
<1> USE DEF TypeOK
<1> DEFINE gone == {t \in Tokens : lockT[t] = p}
<1>1. op[p].kind = "flush" /\ pc[p] \in Statements
  BY DEF FlushCommit, WellFormed, RequestOK, KindsAt, Statements
<1>2. gone \in SUBSET {t \in Tokens : refreshToken[t].expired}
  BY <1>1 DEF ScansOwn
<1>3. refreshToken' = [t \in Tokens |-> IF t \in gone
         THEN [refreshToken[t] EXCEPT !.state = "deleted"] ELSE refreshToken[t]]
  BY <1>1 DEF FlushCommit, TokensAfterCommit
<1>4. Store!Running(p) /\ Store!End(p)
  BY <1>1, StatusEnds DEF FlushCommit, Outcomes
<1> HIDE DEF gone
<1> QED
  BY <1>2, <1>3, <1>4 DEF FlushCommit, Store!Purge

\* Every step maps to a step of SessionStore or to a stutter.
LEMMA StoreStep ==
    ASSUME IInv, Next PROVE Store!Next \/ UNCHANGED Store!vars
<1> USE DEF IInv
<1>1. ASSUME NEW p \in Requests, Serve(p) PROVE Store!Next \/ UNCHANGED Store!vars
  <2>1. pc[p] \in Statements
    BY <1>1, Served
  <2>2. CASE LoginProfile(p)
    <3>1. PICK s \in {"login.issue", "unauthorized"} : Goto(p, s)
      BY <2>2 DEF LoginProfile
    <3>2. UNCHANGED <<usuario, refreshToken, resetToken, before>>
      BY <2>2 DEF LoginProfile
    <3> QED
      BY <2>1, <3>1, <3>2, StoreRefuse, StoreStutter DEF Statements, Outcomes, Store!Next
  <2>3. CASE RefreshUser(p)
    <3>1. PICK s \in {"refresh.rotate", "unauthorized"} : Goto(p, s)
      BY <2>3 DEF RefreshUser
    <3>2. UNCHANGED <<usuario, refreshToken, resetToken, before>>
      BY <2>3 DEF RefreshUser, tables
    <3> QED
      BY <2>1, <3>1, <3>2, StoreRefuse, StoreStutter DEF Statements, Outcomes, Store!Next
  <2>4. CASE LoginIssue(p) \/ RefreshRotate(p)
    BY <2>4, StoreIssue, StoreRotate DEF Store!Next
  <2>5. CASE ReuseThrow(p)
    BY <2>1, <2>5, StoreRefuse DEF ReuseThrow, Rollback, Outcomes, Store!Next
  <2>6. CASE StartScan(p) \/ ResetUsuario(p)
    <3>1. PICK s \in Statements : Goto(p, s)
      BY <2>6 DEF StartScan, ResetUsuario, Statements
    <3>2. UNCHANGED <<usuario, refreshToken, resetToken, before>>
      BY <2>6 DEF StartScan, ResetUsuario, tables
    <3> QED
      BY <2>1, <3>1, <3>2, StoreStutter
  <2>7. CASE EndScan(p)
    <3>1. PICK s \in Statements : Goto(p, s)
      BY <2>7 DEF EndScan, Statements
    <3>2. UNCHANGED <<usuario, refreshToken, resetToken, before>>
      BY <2>7 DEF EndScan, tables
    <3> QED
      BY <2>1, <3>1, <3>2, StoreStutter
  <2>8. CASE LockRow(p) \/ QueueForRow(p)
    BY <2>8 DEF LockRow, QueueForRow, tables, Store!vars
  <2>9. CASE UpdateAtivo(p)
    BY <2>9, StoreFlip DEF Store!Next
  <2>10. CASE UpdateSenha(p) \/ ResetConsume(p)
    BY <2>10, StorePatch, StoreReset DEF Store!Next
  <2>11. CASE ForgotInvalidate(p) \/ ForgotCreate(p)
    BY <2>11, StoreForgot DEF Store!Next
  <2>12. CASE FlushCommit(p)
    BY <2>12, StorePurge DEF Store!Next
  <2> QED
    BY <1>1, <2>2, <2>3, <2>4, <2>5, <2>6, <2>7, <2>8, <2>9, <2>10, <2>11, <2>12 DEF Serve
<1>2. ASSUME NEW p \in Requests, Begin(p) PROVE Store!Next
  BY <1>2, StoreBegin DEF Store!Next
<1>3. ASSUME NEW p \in Requests, Abort(p) \/ DeadlockVictim(p) PROVE Store!Next
  BY <1>3, CycleServed, StoreRefuse DEF Abort, DeadlockVictim, Rollback, Outcomes, Store!Next
<1>4. ASSUME NEW t \in Tokens, ExpireToken(t) PROVE Store!Next
  BY <1>4 DEF ExpireToken, Store!Next, Store!Expire
<1>5. ASSUME NEW r \in ResetTokens, ExpireReset(r) PROVE Store!Next
  BY <1>5 DEF ExpireReset, Store!Next, Store!Expire
<1>6. CASE AllServed
  BY <1>6 DEF AllServed, vars, Store!vars
<1> QED
  BY <1>1, <1>2, <1>3, <1>4, <1>5, <1>6 DEF Next

-----------------------------------------------------------------------------
(* The theorems.                                                           *)

\* IInv holds at the start.
LEMMA IInvInit == Init => IInv
<1> SUFFICES ASSUME Init PROVE IInv
  OBVIOUS
<1>1. TypeOK
  BY TypeInit
<1>2. ASSUME NEW t \in Tokens
      PROVE  /\ refreshToken[t].parent = None
             /\ TokenOK(t)
             /\ refreshToken[t].by \in {None, Seed}
  <2> PICK owner \in [Preissued -> Users] :
        refreshToken = [s \in Tokens |-> IF s \in Preissued
          THEN NewToken(owner[s], None, Seed, Seed) ELSE AbsentToken]
    BY DEF Init
  <2> QED
    BY ConstantsAssumption DEF NewToken, AbsentToken, TokenOK, Issued, Authors
<1>3. WellFormed
  BY <1>2 DEF Init, WellFormed, RequestOK, Statements
<1>4. RowLocks
  BY DEF Init, RowLocks
<1>5. RotationAtomic /\ SuccessorsOverlap
  BY <1>2 DEF RotationAtomic, SuccessorsOverlap
<1>6. Covered /\ ScanOver /\ RevocationCovers /\ NotRotatedBefore /\ EnabledWhenIssuing
  BY DEF Init, Covered, ScanOver, RevocationCovers, ChangedPassword, NotRotatedBefore,
         EnabledWhenIssuing
<1>7. NoIssueForDisabled
  <2> SUFFICES ASSUME NEW t \in Tokens, Issued(t) PROVE refreshToken[t].by = Seed
    BY DEF NoIssueForDisabled
  <2>1. refreshToken[t].by \in Authors
    BY <1>2 DEF TokenOK
  <2> QED
    BY <1>2, <2>1, ConstantsAssumption DEF Authors
<1>8. ASSUME NEW r \in ResetTokens
      PROVE  \/ resetToken[r].state = "absent" /\ resetToken[r].by = None
             \/ resetToken[r].userId \in Users /\ resetToken[r].by = Seed
  <2> PICK owner \in [PreissuedResets -> Users] :
        resetToken = [s \in ResetTokens |-> IF s \in PreissuedResets
          THEN NewReset(owner[s], Seed) ELSE AbsentReset]
    BY DEF Init
  <2> QED
    BY ConstantsAssumption DEF NewReset, AbsentReset
<1>9. ResetRows /\ LiveResetsOverlap
  BY <1>8, ConstantsAssumption DEF ResetRows, LiveResetsOverlap, Authors
<1>10. Addressed /\ Consumed /\ UnusedBefore /\ ResetReuseOverlaps /\ InvalidatedBefore
  BY DEF Init, Addressed, Consumed, UnusedBefore, ResetReuseOverlaps, InvalidatedBefore,
     Statements
<1>11. FlipAsRead /\ Drafts /\ ScansOwn
  BY ConstantsAssumption DEF Init, FlipAsRead, Drafts, ScansOwn, NoOperation
<1> QED
  BY <1>1, <1>3, <1>4, <1>5, <1>6, <1>7, <1>9, <1>10, <1>11 DEF IInv

\* Every step preserves IInv.
LEMMA IInvStep == IInv /\ [Next]_vars => IInv'
<1> SUFFICES ASSUME IInv, [Next]_vars PROVE IInv'
  OBVIOUS
<1>1. TypeOK'
  BY TypeStep DEF IInv
<1>2. CASE Next
  BY <1>1, <1>2, WellFormedStep, RowLocksStep, RotationStep, CoveredStep, RevocationStep,
     NotRotatedStep, SuccessorsStep, EnabledStep, NoIssueStep, ResetRowsStep, ConsumedStep,
     UnusedStep, ReuseStep, InvalidatedStep, LiveStep, FlipStep, DraftsStep, ScansStep DEF IInv
<1>3. CASE UNCHANGED vars
  <2> USE <1>3 DEF IInv, vars, Issued, Active, Precedes, Ended
  <2>1. WellFormed' /\ RowLocks'
    BY DEF WellFormed, TokenOK, RequestOK, RowLocks
  <2>2. RotationAtomic' /\ Covered' /\ ScanOver' /\ RevocationCovers'
    BY DEF RotationAtomic, Covered, ScanOver, RevocationCovers, ChangedPassword
  <2>3. NotRotatedBefore' /\ SuccessorsOverlap' /\ EnabledWhenIssuing' /\ NoIssueForDisabled'
    BY DEF NotRotatedBefore, SuccessorsOverlap, EnabledWhenIssuing, NoIssueForDisabled
  <2>4. ResetRows' /\ Addressed' /\ InvalidatedBefore' /\ LiveResetsOverlap'
    BY DEF ResetRows, Addressed, InvalidatedBefore, LiveResetsOverlap
  <2>5. Consumed' /\ UnusedBefore' /\ ResetReuseOverlaps'
    BY DEF Consumed, UnusedBefore, ResetReuseOverlaps
  <2>6. FlipAsRead' /\ Drafts' /\ ScansOwn'
    BY DEF FlipAsRead, Drafts, ScansOwn
  <2> QED
    BY <1>1, <2>1, <2>2, <2>3, <2>4, <2>5, <2>6
<1> QED
  BY <1>2, <1>3

\* The strengthening is an invariant of every behaviour, for any number of
\* requests, users and tokens.
THEOREM Inductive == Spec => []IInv
  BY IInvInit, IInvStep, PTL DEF Spec

\* The variables always have their types.
THEOREM TypeCorrect == Spec => []TypeOK
<1>1. IInv => TypeOK
  BY DEF IInv
<1> QED
  BY <1>1, Inductive, PTL

\* A refresh token that has a successor is revoked or purged: refreshTokens
\* never leaves parent and child both usable.
THEOREM RotationIsAtomic == Spec => []RotationAtomic
<1>1. IInv => RotationAtomic
  BY DEF IInv
<1> QED
  BY <1>1, Inductive, PTL

\* Two successors of one token come from two refreshes that overlapped.
THEOREM SuccessorsOverlapped == Spec => []SuccessorsOverlap
<1>1. IInv => SuccessorsOverlap
  BY DEF IInv
<1> QED
  BY <1>1, Inductive, PTL

\* A successful password change or reset leaves no active token of the user
\* that a request which ended before it began had obtained.
THEOREM RevocationIsComplete == Spec => []RevocationCovers
<1>1. IInv => RevocationCovers
  BY DEF IInv
<1> QED
  BY <1>1, Inductive, PTL

\* No request that began after a user was disabled has obtained a token for
\* that user while the user stays disabled.
THEOREM DisabledUsersGetNoToken == Spec => []NoIssueForDisabled
<1>1. IInv => NoIssueForDisabled
  BY DEF IInv
<1> QED
  BY <1>1, Inductive, PTL

\* Two successful resets with one reset token overlapped.
THEOREM ResetsAreOnce == Spec => []ResetReuseOverlaps
<1>1. IInv => ResetReuseOverlaps
  BY DEF IInv
<1> QED
  BY <1>1, Inductive, PTL

\* Two unused reset tokens of one user come from requests that overlapped:
\* forgotPassword leaves none of those that are older than itself.
THEOREM OldResetsAreInvalid == Spec => []LiveResetsOverlap
<1>1. IInv => LiveResetsOverlap
  BY DEF IInv
<1> QED
  BY <1>1, Inductive, PTL

\* Of two administrators who disable or restore one user at the same time, one
\* changes the row and finds it as read; the other is told.
THEOREM FlipsAreExclusive == Spec => FlipsExclusive
<1> DEFINE Flips == \A p \in Requests :
      /\ pc[p] # "ok" /\ pc'[p] = "ok" /\ op[p].ativo # "keep"
      => /\ usuario[op[p].user].deletedAt = read[p]
         /\ (op[p].ativo = "restore") = (usuario[op[p].user].deletedAt # None)
         /\ (op[p].ativo = "restore") = (usuario'[op[p].user].deletedAt = None)
<1>1. IInv /\ Next => Flips
  BY FlipsStep
<1>2. IInv /\ [Next]_vars => [Flips]_vars
  BY <1>1
<1> QED
  BY <1>2, Inductive, PTL DEF Spec, FlipsExclusive

\* The handlers, with their statements, locks and rollbacks, implement the
\* atomic operations of SessionStore.
THEOREM SessionsImplementStore == Spec => ImplementsStore
<1>1. Init => Store!Init
  BY StoreInit
<1>2. IInv /\ [Next]_vars => [Store!Next]_(Store!vars)
  <2>1. UNCHANGED vars => UNCHANGED Store!vars
    BY DEF vars, Store!vars
  <2> QED
    BY <2>1, StoreStep
<1> QED
  BY <1>1, <1>2, Inductive, PTL DEF Spec, ImplementsStore, Store!Spec
=============================================================================
