---------------------------- MODULE AuthSessions ----------------------------
(***************************************************************************)
(* Accounts, refresh tokens and password-reset tokens, and every handler   *)
(* that writes them: AuthService.login and refreshTokens,                  *)
(* UsuariosService.update, PasswordRecoveryService.forgotPassword and      *)
(* resetPassword, and RefreshFlushProcessor.process.                       *)
(*                                                                         *)
(* Each request is a process that takes one database statement at a time.  *)
(* Statements inside unitOfWork.execute run under Postgres READ COMMITTED: *)
(* a SELECT reads the committed rows, an UPDATE or DELETE takes a row lock *)
(* that lasts until COMMIT or ROLLBACK, waits while another transaction    *)
(* holds it, and then evaluates its WHERE clause again on the newly        *)
(* committed row.  The last statement of a transaction and its COMMIT are  *)
(* one step: nothing can block the transaction in between.                 *)
(***************************************************************************)
CONSTANTS
    Requests,         \* requests (and queue jobs), each served once
    Users,            \* rows of Usuario; never physically deleted
    Tokens,           \* identities of RefreshToken rows
    ResetTokens,      \* identities of PasswordResetToken rows
    None, Seed,       \* "no value"; the author of what is there at the start
    Kinds,            \* the handlers that receive requests
    Patches,          \* bodies of PATCH /usuarios/:id
    Preissued,        \* refresh tokens issued before the behaviour starts
    PreissuedResets,  \* reset tokens issued before the behaviour starts
    Expiring          \* tokens whose expiresAt may pass

AllKinds == {"login", "refresh", "update", "forgot", "reset", "flush"}

\* dto.ativo is absent, false or true; dto.senha is absent or present.
Patch == [ativo : {"keep", "disable", "restore"}, senha : BOOLEAN]

ASSUME ConstantsAssumption ==
    /\ None \notin Requests \cup Users \cup Tokens \cup ResetTokens \cup {Seed}
    /\ Seed \notin Requests
    /\ Kinds \subseteq AllKinds
    /\ Patches \subseteq Patch
    /\ Preissued \subseteq Tokens
    /\ PreissuedResets \subseteq ResetTokens

VARIABLES
    usuario,        \* committed Usuario rows
    refreshToken,   \* committed RefreshToken rows
    resetToken,     \* committed PasswordResetToken rows
    loginHistory,   \* requests that wrote a LoginHistory row
    draft,          \* latest, possibly uncommitted, version of a Usuario row
    lockU, lockT,   \* the transaction that holds the lock of a row
    pc,             \* the next statement of a request, or its outcome
    op,             \* the request's arguments
    read,           \* current.deletedAt, as UsuariosService.update read it
    todo, wanted,   \* rows a multi-row statement has still to lock; the one
                    \* it is queued for
    before          \* history: the requests that had ended when it began

tables == <<usuario, refreshToken, resetToken, loginHistory>>
locks == <<draft, lockU, lockT, todo, wanted>>
vars == <<usuario, refreshToken, resetToken, loginHistory, draft, lockU, lockT,
          pc, op, read, todo, wanted, before>>

-----------------------------------------------------------------------------
(* A password hash and a deletedAt timestamp are named by the request that *)
(* wrote them: two writes never produce the same value.                    *)
Authors == Requests \cup {Seed}

UserRow == [senha : Authors, ativo : BOOLEAN, deletedAt : Authors \cup {None}]

\* parent, cred and by are history: the token it was rotated from, the
\* password its session was opened with, the request that created it.
TokenRow ==
    [state : {"absent", "active", "revoked", "deleted"}, expired : BOOLEAN,
     userId : Users \cup {None}, parent : Tokens \cup {None},
     cred : Authors \cup {None}, by : Authors \cup {None}]

ResetRow == [state : {"absent", "unused", "used"}, expired : BOOLEAN,
             userId : Users \cup {None}, by : Authors \cup {None}]

Operation ==
    [kind : AllKinds \cup {"none"}, user : Users \cup {None},
     token : Tokens \cup {None}, reset : ResetTokens \cup {None},
     cred : Authors \cup {None}, ativo : {"keep", "disable", "restore"},
     senha : BOOLEAN]

Outcomes == {"ok", "unauthorized", "forbidden", "rejected", "conflict", "aborted"}

Statements == {"login.profile", "login.issue", "refresh.user", "refresh.rotate",
               "reuse.throw", "update.ativo", "update.senha", "forgot.invalidate",
               "forgot.create", "reset.usuario", "reset.consume", "flush.commit",
               "scan", "lock"}

TypeOK ==
    /\ usuario \in [Users -> UserRow]
    /\ refreshToken \in [Tokens -> TokenRow]
    /\ resetToken \in [ResetTokens -> ResetRow]
    /\ loginHistory \subseteq Requests
    /\ draft \in [Users -> UserRow]
    /\ lockU \in [Users -> Requests \cup {None}]
    /\ lockT \in [Tokens -> Requests \cup {None}]
    /\ pc \in [Requests -> {"idle"} \cup Statements \cup Outcomes]
    /\ op \in [Requests -> Operation]
    /\ read \in [Requests -> Authors \cup {None}]
    /\ todo \in [Requests -> SUBSET Tokens]
    /\ wanted \in [Requests -> Tokens \cup {None}]
    /\ before \in [Requests -> SUBSET Requests]

NoOperation == [kind |-> "none", user |-> None, token |-> None, reset |-> None,
                cred |-> None, ativo |-> "keep", senha |-> FALSE]

AbsentToken == [state |-> "absent", expired |-> FALSE, userId |-> None,
                parent |-> None, cred |-> None, by |-> None]

NewToken(u, parent, cred, by) ==
    [state |-> "active", expired |-> FALSE, userId |-> u,
     parent |-> parent, cred |-> cred, by |-> by]

AbsentReset == [state |-> "absent", expired |-> FALSE, userId |-> None, by |-> None]

NewReset(u, by) == [state |-> "unused", expired |-> FALSE, userId |-> u, by |-> by]

\* Any user may already be soft-deleted; any user may own the old tokens.
Init ==
    /\ usuario \in [Users -> {[senha |-> Seed, ativo |-> TRUE, deletedAt |-> None],
                              [senha |-> Seed, ativo |-> FALSE, deletedAt |-> Seed]}]
    /\ \E owner \in [Preissued -> Users] :
         refreshToken = [t \in Tokens |-> IF t \in Preissued
                           THEN NewToken(owner[t], None, Seed, Seed) ELSE AbsentToken]
    /\ \E owner \in [PreissuedResets -> Users] :
         resetToken = [r \in ResetTokens |-> IF r \in PreissuedResets
                         THEN NewReset(owner[r], Seed) ELSE AbsentReset]
    /\ loginHistory = {}
    /\ draft = usuario
    /\ lockU = [u \in Users |-> None]
    /\ lockT = [t \in Tokens |-> None]
    /\ pc = [p \in Requests |-> "idle"]
    /\ op = [p \in Requests |-> NoOperation]
    /\ read = [p \in Requests |-> None]
    /\ todo = [p \in Requests |-> {}]
    /\ wanted = [p \in Requests |-> None]
    /\ before = [p \in Requests |-> {}]

-----------------------------------------------------------------------------
(* Requests and transactions.                                              *)
Goto(p, s) == pc' = [pc EXCEPT ![p] = s]

Ended == {q \in Requests : pc[q] \in Outcomes}

\* Request p arrives with arguments o and runs to its first awaited result,
\* after which it is about to execute s.
Arrive(p, o, s) ==
    /\ pc[p] = "idle"
    /\ o.kind \in Kinds
    /\ op' = [op EXCEPT ![p] = o]
    /\ before' = [before EXCEPT ![p] = Ended]
    /\ Goto(p, s)

Unlock(lock, p) == [r \in DOMAIN lock |-> IF lock[r] = p THEN None ELSE lock[r]]

\* The locks of p are released and its queueing state forgotten.
Release(p) ==
    /\ lockU' = Unlock(lockU, p)
    /\ lockT' = Unlock(lockT, p)
    /\ todo' = [todo EXCEPT ![p] = {}]
    /\ wanted' = [wanted EXCEPT ![p] = None]

\* Fault: the failed transaction is left open, with its locks.
RollbackLeaksLocks(p, outcome) ==
    /\ Goto(p, outcome)
    /\ UNCHANGED <<tables, locks, op, read, before>>

Rollback(p, outcome) ==
    /\ Release(p)
    /\ draft' = [u \in Users |-> IF lockU[u] = p THEN usuario[u] ELSE draft[u]]
    /\ Goto(p, outcome)
    /\ UNCHANGED <<usuario, refreshToken, resetToken, loginHistory, op, read, before>>

\* What the rows locked by p become when it commits: only the purge deletes.
TokensAfterCommit(p) ==
    [t \in Tokens |-> IF lockT[t] # p THEN refreshToken[t]
       ELSE [refreshToken[t] EXCEPT !.state =
               IF op[p].kind = "flush" THEN "deleted" ELSE "revoked"]]

\* p commits: Usuario row u, if any, takes the value row.
Commit(p, u, row) ==
    /\ Release(p)
    /\ usuario' = [usuario EXCEPT ![u] = row]
    /\ draft' = [draft EXCEPT ![u] = row]
    /\ refreshToken' = TokensAfterCommit(p)
    /\ Goto(p, "ok")
    /\ UNCHANGED <<loginHistory, op, read, before>>

-----------------------------------------------------------------------------
(* AuthService.login.  The lockout check and its counter are in module     *)
(* LoginLockout; the hash comparison is equality of passwords.             *)
BeginLogin(p) == \E u \in Users, s \in Authors :
    /\ Arrive(p, [NoOperation EXCEPT !.kind = "login", !.user = u, !.cred = s],
              IF usuario[u].deletedAt = None /\ usuario[u].senha = s
                THEN "login.profile" ELSE "unauthorized")
    /\ UNCHANGED <<tables, locks, read>>

LoginProfile(p) ==
    /\ pc[p] = "login.profile"
    /\ loginHistory' = loginHistory \cup {p}
    /\ Goto(p, IF usuario[op[p].user].deletedAt = None THEN "login.issue"
                                                       ELSE "unauthorized")
    /\ UNCHANGED <<usuario, refreshToken, resetToken, locks, op, read, before>>

\* Fault: two arguments of the INSERT are swapped.
LoginIssueSwapped(p) == \E t \in Tokens :
    /\ pc[p] = "login.issue"
    /\ refreshToken[t].state = "absent"
    /\ refreshToken' =
         [refreshToken EXCEPT ![t] = NewToken(op[p].user, op[p].cred, None, p)]
    /\ Goto(p, "ok")
    /\ UNCHANGED <<usuario, resetToken, loginHistory, locks, op, read, before>>

\* generateTokens: one INSERT outside any transaction.
LoginIssue(p) == \E t \in Tokens :
    /\ pc[p] = "login.issue"
    /\ refreshToken[t].state = "absent"
    /\ refreshToken' =
         [refreshToken EXCEPT ![t] = NewToken(op[p].user, None, op[p].cred, p)]
    /\ Goto(p, "ok")
    /\ UNCHANGED <<usuario, resetToken, loginHistory, locks, op, read, before>>

-----------------------------------------------------------------------------
\* Fault: a revoked token is taken for a valid one.
BeginRefreshRevoked(p) == \E t \in Tokens :
    LET row == refreshToken[t] IN
    /\ row.state # "absent"
    /\ Arrive(p, [NoOperation EXCEPT !.kind = "refresh", !.user = row.userId,
                                     !.token = t],
              IF row.state = "deleted" \/ row.expired THEN "unauthorized"
              ELSE "refresh.user")
    /\ UNCHANGED <<tables, locks, read>>

(* AuthService.refreshTokens.  findUnique takes no lock; the user is read  *)
(* by a second SELECT.                                                     *)
BeginRefresh(p) == \E t \in Tokens :
    LET row == refreshToken[t] IN
    /\ row.state # "absent"
    /\ Arrive(p, [NoOperation EXCEPT !.kind = "refresh", !.user = row.userId,
                                     !.token = t],
              IF row.state = "revoked" THEN "scan"
              ELSE IF row.state = "deleted" \/ row.expired THEN "unauthorized"
              ELSE "refresh.user")
    /\ UNCHANGED <<tables, locks, read>>

\* Fault: the user's state is not looked at.
RefreshUserUnchecked(p) ==
    /\ pc[p] = "refresh.user"
    /\ Goto(p, "refresh.rotate")
    /\ UNCHANGED <<tables, locks, op, read, before>>

RefreshUser(p) ==
    /\ pc[p] = "refresh.user"
    /\ LET row == usuario[op[p].user] IN
         Goto(p, IF row.ativo /\ row.deletedAt = None THEN "refresh.rotate"
                                                      ELSE "unauthorized")
    /\ UNCHANGED <<tables, locks, op, read, before>>

\* Fault: the successor is created and its parent stays active.
RefreshRotateKeepsParent(p) ==
    /\ pc[p] = "refresh.rotate"
    /\ \E t \in Tokens :
         /\ refreshToken[t].state = "absent"
         /\ refreshToken' = [refreshToken EXCEPT
              ![t] = NewToken(op[p].user, op[p].token, refreshToken[op[p].token].cred, p)]
    /\ Goto(p, "ok")
    /\ UNCHANGED <<usuario, resetToken, loginHistory, locks, op, read, before>>

\* update({where: {id}}) revokes whatever it finds; no row is error P2025.
RefreshRotate(p) ==
    LET parent == op[p].token IN
    /\ pc[p] = "refresh.rotate"
    /\ lockT[parent] = None
    /\ IF refreshToken[parent].state = "deleted"
         THEN Goto(p, "aborted") /\ UNCHANGED refreshToken
         ELSE /\ \E t \in Tokens :
                   /\ refreshToken[t].state = "absent"
                   /\ refreshToken' = [refreshToken EXCEPT
                        ![parent].state = "revoked",
                        ![t] = NewToken(op[p].user, parent, refreshToken[parent].cred, p)]
              /\ Goto(p, "ok")
    /\ UNCHANGED <<usuario, resetToken, loginHistory, locks, op, read, before>>

\* Reuse: after revoking every active token, the exception rolls it back.
ReuseThrow(p) == pc[p] = "reuse.throw" /\ Rollback(p, "forbidden")

-----------------------------------------------------------------------------
\* Fault: the tokens are revoked outside the transaction.
StartScanOutside(p) ==
    /\ pc[p] = "scan"
    /\ refreshToken' = [t \in Tokens |->
         IF refreshToken[t].state = "active" /\ refreshToken[t].userId = op[p].user
           THEN [refreshToken[t] EXCEPT !.state = "revoked"] ELSE refreshToken[t]]
    /\ Goto(p, "lock")
    /\ UNCHANGED <<usuario, resetToken, loginHistory, locks, op, read, before>>

(* A statement over several RefreshToken rows: it fixes the matching rows  *)
(* when it starts, then locks them one at a time, in no given order.       *)
StartScan(p) ==
    /\ pc[p] = "scan"
    /\ todo' = [todo EXCEPT ![p] = {t \in Tokens :
                  /\ refreshToken[t].state = "active"
                  /\ refreshToken[t].userId = op[p].user}]
    /\ Goto(p, "lock")
    /\ UNCHANGED <<tables, draft, lockU, lockT, wanted, op, read, before>>

\* Whether the row matches the WHERE clause once its lock is free.  The purge
\* takes a row revoked meanwhile unless job.data.includeRevoked spares it.
StillMatches(p, t) ==
    IF op[p].kind = "flush" /\ refreshToken[t].state = "revoked"
      THEN BOOLEAN ELSE {refreshToken[t].state = "active"}

\* Fault: rows that another transaction has locked are skipped.
LockRowSkipLocked(p) == \E t \in todo[p] : \E matches \in StillMatches(p, t) :
    /\ pc[p] = "lock"
    /\ lockT' = IF lockT[t] = None /\ matches THEN [lockT EXCEPT ![t] = p] ELSE lockT
    /\ todo' = [todo EXCEPT ![p] = @ \ {t}]
    /\ wanted' = [wanted EXCEPT ![p] = None]
    /\ UNCHANGED <<tables, draft, lockU, pc, op, read, before>>

LockRow(p) == \E t \in todo[p] : \E matches \in StillMatches(p, t) :
    /\ pc[p] = "lock"
    /\ wanted[p] \in {None, t}
    /\ lockT[t] = None
    /\ lockT' = IF matches THEN [lockT EXCEPT ![t] = p] ELSE lockT
    /\ todo' = [todo EXCEPT ![p] = @ \ {t}]
    /\ wanted' = [wanted EXCEPT ![p] = None]
    /\ UNCHANGED <<tables, draft, lockU, pc, op, read, before>>

QueueForRow(p) == \E t \in todo[p] :
    /\ pc[p] = "lock"
    /\ wanted[p] = None
    /\ lockT[t] # None
    /\ wanted' = [wanted EXCEPT ![p] = t]
    /\ UNCHANGED <<tables, draft, lockU, lockT, todo, pc, op, read, before>>

EndScan(p) ==
    /\ pc[p] = "lock"
    /\ todo[p] = {}
    /\ Goto(p, CASE op[p].kind = "refresh" -> "reuse.throw"
                 [] op[p].kind = "update"  -> "update.senha"
                 [] op[p].kind = "reset"   -> "reset.consume"
                 [] OTHER                  -> "flush.commit")
    /\ UNCHANGED <<tables, locks, op, read, before>>

-----------------------------------------------------------------------------
\* Fault: a password change alone revokes nothing.
BeginUpdateNoRevocation(p) == \E u \in Users, b \in Patches :
    LET gone == usuario[u].deletedAt # None IN
    /\ Arrive(p, [NoOperation EXCEPT !.kind = "update", !.user = u,
                                     !.ativo = b.ativo, !.senha = b.senha],
              IF b.ativo = "keep" THEN (IF b.senha THEN "update.senha" ELSE "ok")
              ELSE IF gone = (b.ativo = "restore") THEN "update.ativo"
              ELSE "rejected")
    /\ read' = [read EXCEPT ![p] = usuario[u].deletedAt]
    /\ UNCHANGED <<tables, locks>>

(* UsuariosService.update, for a caller that may do what it asks.          *)
BeginUpdate(p) == \E u \in Users, b \in Patches :
    LET gone == usuario[u].deletedAt # None IN
    /\ Arrive(p, [NoOperation EXCEPT !.kind = "update", !.user = u,
                                     !.ativo = b.ativo, !.senha = b.senha],
              IF b.ativo = "keep" THEN (IF b.senha THEN "scan" ELSE "ok")
              ELSE IF gone = (b.ativo = "restore") THEN "update.ativo"
              ELSE "rejected")
    /\ read' = [read EXCEPT ![p] = usuario[u].deletedAt]
    /\ UNCHANGED <<tables, locks>>

\* The version of Usuario row u that transaction p sees.
Visible(p, u) == IF lockU[u] = p THEN draft[u] ELSE usuario[u]

\* Fault: updateMany names only the id.
MatchesAlways(p) == p \in Requests

\* updateMany({where: {id, deletedAt: <as read>}}) finds the row: it updates it
\* once no other transaction holds its lock.  A row that does not match is not
\* waited for.
Matches(p) == Visible(p, op[p].user).deletedAt = read[p]

\* Disable or restore, unless another request has done so since the read.
UpdateAtivo(p) ==
    LET u == op[p].user
        restore == op[p].ativo = "restore"
        row == [usuario[u] EXCEPT !.ativo = restore,
                                  !.deletedAt = IF restore THEN None ELSE p]
    IN
    /\ pc[p] = "update.ativo"
    /\ IF ~Matches(p) THEN Rollback(p, "conflict")
       ELSE /\ lockU[u] = None
            /\ IF ~op[p].senha THEN Commit(p, u, row) /\ UNCHANGED resetToken
               ELSE /\ lockU' = [lockU EXCEPT ![u] = p]
                    /\ draft' = [draft EXCEPT ![u] = row]
                    /\ Goto(p, "scan")
                    /\ UNCHANGED <<tables, lockT, todo, wanted, op, read, before>>

\* The tokens are locked; now the user's password, and COMMIT.
UpdateSenha(p) ==
    LET u == op[p].user IN
    /\ pc[p] = "update.senha"
    /\ IF ~Matches(p) THEN Rollback(p, "conflict")
       ELSE /\ lockU[u] \in {None, p}
            /\ Commit(p, u, [Visible(p, u) EXCEPT !.senha = p])
            /\ UNCHANGED resetToken

-----------------------------------------------------------------------------
(* PasswordRecoveryService.forgotPassword: three statements, no            *)
(* transaction.                                                            *)
BeginForgot(p) == \E u \in Users :
    /\ Arrive(p, [NoOperation EXCEPT !.kind = "forgot", !.user = u],
              IF usuario[u].deletedAt = None /\ usuario[u].ativo
                THEN "forgot.invalidate" ELSE "ok")
    /\ UNCHANGED <<tables, locks, read>>

\* Fault: the user's previous reset tokens stay valid.
ForgotInvalidateNothing(p) ==
    /\ pc[p] = "forgot.invalidate"
    /\ Goto(p, "forgot.create")
    /\ UNCHANGED <<tables, locks, op, read, before>>

ForgotInvalidate(p) ==
    /\ pc[p] = "forgot.invalidate"
    /\ resetToken' = [r \in ResetTokens |->
         IF resetToken[r].state = "unused" /\ resetToken[r].userId = op[p].user
           THEN [resetToken[r] EXCEPT !.state = "used"] ELSE resetToken[r]]
    /\ Goto(p, "forgot.create")
    /\ UNCHANGED <<usuario, refreshToken, loginHistory, locks, op, read, before>>

ForgotCreate(p) == \E r \in ResetTokens :
    /\ pc[p] = "forgot.create"
    /\ resetToken[r].state = "absent"
    /\ resetToken' = [resetToken EXCEPT ![r] = NewReset(op[p].user, p)]
    /\ Goto(p, "ok")
    /\ UNCHANGED <<usuario, refreshToken, loginHistory, locks, op, read, before>>

-----------------------------------------------------------------------------
\* Fault: usedAt is not looked at.
BeginResetUsed(p) == \E r \in ResetTokens :
    LET row == resetToken[r] IN
    /\ row.state # "absent"
    /\ Arrive(p, [NoOperation EXCEPT !.kind = "reset", !.user = row.userId,
                                     !.reset = r],
              IF ~row.expired THEN "reset.usuario" ELSE "unauthorized")
    /\ UNCHANGED <<tables, locks, read>>

(* PasswordRecoveryService.resetPassword: the token is validated before    *)
(* the transaction and marked as used at its end, without a guard.         *)
BeginReset(p) == \E r \in ResetTokens :
    LET row == resetToken[r] IN
    /\ row.state # "absent"
    /\ Arrive(p, [NoOperation EXCEPT !.kind = "reset", !.user = row.userId,
                                     !.reset = r],
              IF row.state = "unused" /\ ~row.expired THEN "reset.usuario"
                                                      ELSE "unauthorized")
    /\ UNCHANGED <<tables, locks, read>>

\* Fault: the password is changed outside the transaction.
ResetUsuarioOutside(p) ==
    LET u == op[p].user IN
    /\ pc[p] = "reset.usuario"
    /\ lockU[u] = None
    /\ usuario' = [usuario EXCEPT ![u].senha = p]
    /\ draft' = [draft EXCEPT ![u].senha = p]
    /\ Goto(p, "scan")
    /\ UNCHANGED <<refreshToken, resetToken, loginHistory, lockU, lockT, todo, wanted,
                   op, read, before>>

ResetUsuario(p) ==
    LET u == op[p].user IN
    /\ pc[p] = "reset.usuario"
    /\ lockU[u] = None
    /\ lockU' = [lockU EXCEPT ![u] = p]
    /\ draft' = [draft EXCEPT ![u].senha = p]
    /\ Goto(p, "scan")
    /\ UNCHANGED <<tables, lockT, todo, wanted, op, read, before>>

ResetConsume(p) ==
    /\ pc[p] = "reset.consume"
    /\ resetToken' = [resetToken EXCEPT ![op[p].reset].state = "used"]
    /\ Commit(p, op[p].user, draft[op[p].user])

-----------------------------------------------------------------------------
(* RefreshFlushProcessor.process: cutoff and includeRevoked select some of *)
(* the expired rows.                                                       *)
BeginFlush(p) == \E S \in SUBSET {t \in Tokens : refreshToken[t].expired} :
    /\ Arrive(p, [NoOperation EXCEPT !.kind = "flush"], "lock")
    /\ todo' = [todo EXCEPT ![p] =
         {t \in S : refreshToken[t].state \in {"active", "revoked"}}]
    /\ UNCHANGED <<tables, draft, lockU, lockT, wanted, read>>

FlushCommit(p) ==
    /\ pc[p] = "flush.commit"
    /\ Release(p)
    /\ refreshToken' = TokensAfterCommit(p)
    /\ Goto(p, "ok")
    /\ UNCHANGED <<usuario, resetToken, loginHistory, draft, op, read, before>>

-----------------------------------------------------------------------------
(* Failures and time.                                                      *)

\* The process stops, the connection breaks, or the interactive transaction
\* times out: what is not committed is rolled back.
Abort(p) == pc[p] \in Statements /\ Rollback(p, "aborted")

\* The transaction whose lock p is waiting for.
Blocker(p) ==
    LET u == op[p].user IN
    CASE pc[p] = "reset.usuario" -> lockU[u]
      [] pc[p] \in {"update.ativo", "update.senha"} /\ Matches(p) /\ lockU[u] # p ->
           lockU[u]
      [] pc[p] = "refresh.rotate" -> lockT[op[p].token]
      [] pc[p] = "lock" /\ wanted[p] # None -> lockT[wanted[p]]
      [] OTHER -> None

\* Every member of S waits for a member of S, p among them.
OnWaitCycle(p) == \E S \in SUBSET Requests :
    /\ p \in S
    /\ \A q \in S : Blocker(q) \in S /\ \E r \in S : Blocker(r) = q

\* Postgres aborts a member of a cycle of waiting transactions.
DeadlockVictim(p) == OnWaitCycle(p) /\ Rollback(p, "aborted")

ExpireToken(t) ==
    /\ refreshToken[t].state # "absent"
    /\ ~refreshToken[t].expired
    /\ refreshToken' = [refreshToken EXCEPT ![t].expired = TRUE]
    /\ UNCHANGED <<usuario, resetToken, loginHistory, locks, pc, op, read, before>>

ExpireReset(r) ==
    /\ resetToken[r].state # "absent"
    /\ ~resetToken[r].expired
    /\ resetToken' = [resetToken EXCEPT ![r].expired = TRUE]
    /\ UNCHANGED <<usuario, refreshToken, loginHistory, locks, pc, op, read, before>>

-----------------------------------------------------------------------------
Begin(p) == \/ BeginLogin(p) \/ BeginRefresh(p) \/ BeginUpdate(p)
            \/ BeginForgot(p) \/ BeginReset(p) \/ BeginFlush(p)

\* The next statement of a request that is being served.
Serve(p) ==
    \/ LoginProfile(p) \/ LoginIssue(p)
    \/ RefreshUser(p) \/ RefreshRotate(p) \/ ReuseThrow(p)
    \/ StartScan(p) \/ LockRow(p) \/ QueueForRow(p) \/ EndScan(p)
    \/ UpdateAtivo(p) \/ UpdateSenha(p)
    \/ ForgotInvalidate(p) \/ ForgotCreate(p)
    \/ ResetUsuario(p) \/ ResetConsume(p)
    \/ FlushCommit(p)

AllServed == (Ended = Requests) /\ UNCHANGED vars

Next ==
    \/ \E p \in Requests : Begin(p) \/ Serve(p) \/ Abort(p) \/ DeadlockVictim(p)
    \/ \E t \in Tokens \cap Expiring : ExpireToken(t)
    \/ \E r \in ResetTokens \cap Expiring : ExpireReset(r)
    \/ AllServed

Spec == Init /\ [][Next]_vars

\* The event loop runs every continuation, Postgres answers every statement
\* whose locks are free and, after deadlock_timeout, breaks a wait cycle.
Fairness == \A p \in Requests : WF_vars(Serve(p)) /\ WF_vars(DeadlockVictim(p))

FairSpec == Spec /\ Fairness

-----------------------------------------------------------------------------
(* Properties.  "p before q": p had ended when q began.                    *)
Active(t) == refreshToken[t].state = "active"

Issued(t) == refreshToken[t].state # "absent"

\* Token or request author a had ended when p began.
Precedes(a, p) == a = Seed \/ a \in before[p]

ChangedPassword(p) ==
    pc[p] = "ok" /\ (op[p].kind = "reset" \/ (op[p].kind = "update" /\ op[p].senha))

\* Rotation is atomic: a token that has a successor is dead, whatever
\* refreshes, revocations, purges and failures the rotation ran into.
RotationAtomic == \A t \in Tokens :
    LET parent == refreshToken[t].parent IN
    parent # None => refreshToken[parent].state \in {"revoked", "deleted"}

\* Two successors of one token come from two refreshes that overlapped: a
\* refresh that begins after a rotation has ended cannot rotate again.
SuccessorsOverlap == \A a, b \in Tokens :
    /\ a # b
    /\ refreshToken[a].parent # None
    /\ refreshToken[a].parent = refreshToken[b].parent
    => ~Precedes(refreshToken[a].by, refreshToken[b].by)

\* A password change or reset that has succeeded leaves no active token of
\* the user that a request which ended before it began had obtained.
RevocationCovers == \A p \in Requests, t \in Tokens :
    /\ ChangedPassword(p)
    /\ Active(t)
    /\ refreshToken[t].userId = op[p].user
    => ~Precedes(refreshToken[t].by, p)

\* While a user stays disabled, no request that began after the disabling
\* has obtained a token for that user, by login or by refresh.
NoIssueForDisabled == \A t \in Tokens :
    /\ Issued(t)
    /\ refreshToken[t].by # Seed
    /\ usuario[refreshToken[t].userId].deletedAt # None
    => ~Precedes(usuario[refreshToken[t].userId].deletedAt, refreshToken[t].by)

\* A request that succeeds in disabling a user found that user enabled at
\* that instant, and one that restores found it deleted: of two administrators
\* who race, one changes the row and the other is told.
FlipsExclusive == [][\A p \in Requests :
    /\ pc[p] # "ok" /\ pc'[p] = "ok" /\ op[p].ativo # "keep"
    => /\ usuario[op[p].user].deletedAt = read[p]
       /\ (op[p].ativo = "restore") = (usuario[op[p].user].deletedAt # None)
       /\ (op[p].ativo = "restore") = (usuario'[op[p].user].deletedAt = None)]_vars

\* The 409 of update ("foi modificado por outra requisicao") is only given
\* when another request has disabled or restored the user since the read.
ConflictMeansInterference == [][\A p \in Requests :
    pc[p] # "conflict" /\ pc'[p] = "conflict"
    => usuario[op[p].user].deletedAt # read[p]]_vars

\* Two resets that both succeed with the same reset token overlapped: the
\* token is refused to a reset that begins after a successful one.
ResetReuseOverlaps == \A p, q \in Requests :
    /\ p # q
    /\ pc[p] = "ok" /\ pc[q] = "ok"
    /\ op[p].kind = "reset" /\ op[q].kind = "reset" /\ op[p].reset = op[q].reset
    => ~Precedes(p, q)

\* Two unused reset tokens of one user come from two requests that overlapped.
LiveResetsOverlap == \A r, s \in ResetTokens :
    /\ r # s
    /\ resetToken[r].state = "unused" /\ resetToken[s].state = "unused"
    /\ resetToken[r].userId = resetToken[s].userId
    /\ resetToken[s].by # Seed
    => ~Precedes(resetToken[r].by, resetToken[s].by)

\* Every request that has begun ends, however the transactions wait for each
\* other's locks.
EveryRequestEnds == \A p \in Requests : pc[p] \in Statements ~> pc[p] \in Outcomes

-----------------------------------------------------------------------------
\* Statements, locks and rollbacks implement atomic changes of the tables:
\* every step is a step of SessionStore or leaves what it speaks of unchanged.
Store == INSTANCE SessionStore WITH
    status <- [p \in Requests |-> IF pc[p] = "idle" THEN "idle"
                                  ELSE IF pc[p] \in Outcomes THEN "ended" ELSE "running"]

ImplementsStore == Store!Spec

-----------------------------------------------------------------------------
(* The strengthening that makes the invariants above inductive.            *)

\* The handler that can be at statement s.
KindsAt(s) ==
    CASE s \in {"login.profile", "login.issue"}                    -> {"login"}
      [] s \in {"refresh.user", "refresh.rotate", "reuse.throw"}   -> {"refresh"}
      [] s \in {"update.ativo", "update.senha"}                    -> {"update"}
      [] s \in {"forgot.invalidate", "forgot.create"}              -> {"forgot"}
      [] s \in {"reset.usuario", "reset.consume"}                  -> {"reset"}
      [] s = "flush.commit"                                        -> {"flush"}
      [] s = "scan"                               -> {"refresh", "update", "reset"}
      [] OTHER                           -> {"refresh", "update", "reset", "flush"}

\* A row refers to rows that exist, and its author has ended.
TokenOK(t) ==
    LET row == refreshToken[t] IN
    /\ Issued(t) => row.userId \in Users /\ row.by \in Authors
    /\ ~Issued(t) => row.parent = None /\ row.by = None
    /\ row.by \in Requests => row.by \in Ended
    /\ row.parent # None => row.by \in Requests

\* A request is at a statement of its handler and refers to rows that exist;
\* those that preceded it have ended.
RequestOK(p) ==
    /\ before[p] \subseteq Ended
    /\ pc[p] \in Statements =>
         /\ op[p].kind \in KindsAt(pc[p])
         /\ op[p].kind \in {"login", "refresh"} => op[p].user \in Users
    /\ pc[p] \in {"refresh.user", "refresh.rotate"} =>
         /\ op[p].token \in Tokens
         /\ Issued(op[p].token)
         /\ refreshToken[op[p].token].userId = op[p].user

WellFormed == /\ \A t \in Tokens : TokenOK(t)
              /\ \A p \in Requests : RequestOK(p)

\* Only a running update or reset holds the lock of a Usuario row, its own
\* user's, and an uncommitted deletedAt is its own or the one of a restore; a
\* locked RefreshToken row exists.
RowLocks ==
    /\ \A u \in Users :
         /\ lockU[u] # None => /\ pc[lockU[u]] \in Statements
                               /\ op[lockU[u]].kind \in {"update", "reset"}
                               /\ op[lockU[u]].user = u
         /\ draft[u].deletedAt \in {usuario[u].deletedAt, None, lockU[u]}
    /\ \A t \in Tokens : lockT[t] # None => Issued(t)

\* A password change that has started its revocation has locked, or has still
\* to lock, every token that it must revoke.
Covered == \A p \in Requests, t \in Tokens :
    /\ pc[p] \in {"lock", "update.senha", "reset.consume"}
    /\ op[p].kind \in {"update", "reset"}
    /\ Active(t)
    /\ refreshToken[t].userId = op[p].user
    /\ Precedes(refreshToken[t].by, p)
    => t \in todo[p] \/ lockT[t] = p

\* A scan that is over has locked all its rows.
ScanOver == \A p \in Requests :
    pc[p] \in {"update.senha", "reset.consume"} => todo[p] = {}

\* A refresh in flight presented a token with no successor by a request that
\* had ended when it began.
NotRotatedBefore == \A p \in Requests, c \in Tokens :
    /\ pc[p] \in {"refresh.user", "refresh.rotate"}
    /\ refreshToken[c].parent = op[p].token
    => ~Precedes(refreshToken[c].by, p)

\* A request about to issue a token saw its user enabled.
EnabledWhenIssuing == \A p \in Requests :
    /\ pc[p] \in {"login.issue", "refresh.rotate"}
    /\ usuario[op[p].user].deletedAt # None
    => ~Precedes(usuario[op[p].user].deletedAt, p)

\* A reset token that exists belongs to a user, and its author has ended.
ResetRows == \A r \in ResetTokens :
    /\ resetToken[r].state # "absent" =>
         resetToken[r].userId \in Users /\ resetToken[r].by \in Authors
    /\ resetToken[r].by \in Requests => resetToken[r].by \in Ended

\* A request works on rows that exist, and those of its own user.
Addressed == \A p \in Requests :
    /\ pc[p] \in Statements =>
         /\ op[p].kind \in {"update", "forgot", "reset"} => op[p].user \in Users
         /\ op[p].kind = "login" => op[p].cred \in Authors
    /\ pc[p] \in Statements \cup {"ok"} /\ op[p].kind = "reset" =>
         /\ op[p].reset \in ResetTokens
         /\ resetToken[op[p].reset].state # "absent"
         /\ resetToken[op[p].reset].userId = op[p].user

\* A reset that has succeeded has used its token up.
Consumed == \A p \in Requests :
    pc[p] = "ok" /\ op[p].kind = "reset" => resetToken[op[p].reset].state = "used"

\* A reset in flight presented a token that no reset before it has used.
UnusedBefore == \A p, q \in Requests :
    /\ pc[p] = "ok" /\ pc[q] \in Statements
    /\ op[p].kind = "reset" /\ op[q].kind = "reset" /\ op[p].reset = op[q].reset
    => ~Precedes(p, q)

\* What forgotPassword has not invalidated before it creates a token is not
\* older than itself.
InvalidatedBefore == \A p \in Requests, r \in ResetTokens :
    /\ pc[p] = "forgot.create"
    /\ resetToken[r].state = "unused" /\ resetToken[r].userId = op[p].user
    => ~Precedes(resetToken[r].by, p)

\* Who disables has read an enabled user, who restores a deleted one.
FlipAsRead == \A p \in Requests :
    /\ op[p].ativo # "keep" => pc[p] # "idle" /\ op[p].kind = "update"
    /\ pc[p] = "update.ativo" =>
         op[p].ativo # "keep" /\ (op[p].ativo = "restore") = (read[p] # None)

\* The latest version of a user that nobody has locked is the committed one.
\* A transaction that has changed its user keeps the row until it ends.  With
\* the draft of a PATCH of ativo and senha its own guard no longer matches.
Drafts ==
    /\ \A u \in Users : lockU[u] = None => draft[u] = usuario[u]
    /\ \A p \in Requests :
         LET u == op[p].user IN
         pc[p] \in {"scan", "lock", "update.senha", "reset.consume"} =>
           /\ op[p].kind = "reset" =>
                lockU[u] = p /\ draft[u] = [usuario[u] EXCEPT !.senha = p]
           /\ op[p].kind = "update" /\ op[p].ativo # "keep" =>
                lockU[u] = p /\ draft[u].deletedAt # read[p]
           /\ op[p].kind = "update" /\ op[p].ativo = "keep" => lockU[u] # p

\* The rows that a statement still wants, and those that it has locked, are the
\* user's and active, or expired ones for the purge.
ScansOwn == \A p \in Requests, t \in Tokens :
    /\ t \in todo[p] \/ lockT[t] = p =>
         /\ pc[p] \in {"lock", "reuse.throw", "update.senha", "reset.consume",
                       "flush.commit"}
         /\ Issued(t)
         /\ IF op[p].kind = "flush" THEN refreshToken[t].expired
                                    ELSE refreshToken[t].userId = op[p].user
    /\ lockT[t] = p /\ op[p].kind # "flush" => Active(t)

IInv == /\ TypeOK /\ WellFormed /\ RowLocks /\ RotationAtomic
        /\ Covered /\ ScanOver /\ RevocationCovers
        /\ NotRotatedBefore /\ SuccessorsOverlap
        /\ EnabledWhenIssuing /\ NoIssueForDisabled
        /\ ResetRows /\ Addressed
        /\ Consumed /\ UnusedBefore /\ ResetReuseOverlaps
        /\ InvalidatedBefore /\ LiveResetsOverlap
        /\ FlipAsRead /\ Drafts /\ ScansOwn

-----------------------------------------------------------------------------
(* What comments and documents of the repository say, and the code does    *)
(* not do.                                                                 *)

\* "Cada refresh token e unico e de uso unico": one successor per token.
SingleSuccessor == \A a, b \in Tokens :
    /\ a # b
    /\ refreshToken[a].parent # None
    => refreshToken[a].parent # refreshToken[b].parent

\* "Todos os tokens revogados": after the 403 no token obtained by a request
\* that had ended when the refresh began is active.
ReuseRevokesAll == \A p \in Requests, t \in Tokens :
    pc[p] = "forbidden" /\ Active(t) /\ refreshToken[t].userId = op[p].user
    => ~Precedes(refreshToken[t].by, p)

\* "Se a senha mudou, tokens antigos nao sobrevivem": an active token belongs
\* to a session opened with the current password.
OldSessionsDie == \A t \in Tokens :
    Active(t) => refreshToken[t].cred = usuario[refreshToken[t].userId].senha

=============================================================================
