---------------------------- MODULE SessionStore ----------------------------
(***************************************************************************)
(* What the handlers of AuthSessions promise together, with transactions,  *)
(* locks and statements left out: a request begins, changes the three      *)
(* tables in one atomic step, and ends.  What it may do depends only on    *)
(* the tables and on the requests that had ended before it began.          *)
(***************************************************************************)
CONSTANTS Requests, Users, Tokens, ResetTokens, None, Seed

VARIABLES usuario, refreshToken, resetToken,
          status,   \* "idle", "running" or "ended"
          before    \* the requests that had ended when a request began

store == <<usuario, refreshToken, resetToken>>
vars == <<usuario, refreshToken, resetToken, status, before>>

Precedes(a, p) == a = Seed \/ a \in before[p]

Init ==
    /\ \A u \in Users : usuario[u].senha = Seed
                        /\ usuario[u].deletedAt \in {None, Seed}
                        /\ usuario[u].ativo = (usuario[u].deletedAt = None)
    /\ \A t \in Tokens : refreshToken[t].parent = None
                         /\ refreshToken[t].state \in {"absent", "active"}
                         /\ refreshToken[t].by \in {None, Seed}
    /\ \A r \in ResetTokens : resetToken[r].state \in {"absent", "unused"}
                              /\ resetToken[r].by \in {None, Seed}
    /\ status = [p \in Requests |-> "idle"]
    /\ before = [p \in Requests |-> {}]

\* p begins; a request may be answered at once.
Begin(p) ==
    /\ status[p] = "idle"
    /\ \E s \in {"running", "ended"} : status' = [status EXCEPT ![p] = s]
    /\ before' = [before EXCEPT ![p] = {q \in Requests : status[q] = "ended"}]
    /\ UNCHANGED store

Running(p) == status[p] = "running"

End(p) == status' = [status EXCEPT ![p] = "ended"] /\ UNCHANGED before

\* p ends without an effect: refused, aborted, or with nothing to do.
Refuse(p) == Running(p) /\ End(p) /\ UNCHANGED store

NewToken(u, parent, cred, by) ==
    [state |-> "active", expired |-> FALSE, userId |-> u,
     parent |-> parent, cred |-> cred, by |-> by]

\* No token for a user who was disabled before p began and still is.
MayIssue(p, u) == usuario[u].deletedAt # None => ~Precedes(usuario[u].deletedAt, p)

Issue(p) == \E u \in Users, t \in Tokens, s \in Requests \cup {Seed} :
    /\ Running(p)
    /\ MayIssue(p, u)
    /\ refreshToken[t].state = "absent"
    /\ refreshToken' = [refreshToken EXCEPT ![t] = NewToken(u, None, s, p)]
    /\ End(p)
    /\ UNCHANGED <<usuario, resetToken>>

\* One token dies and one is born, unless the token had been rotated before
\* p began.
Rotate(p) == \E t, c \in Tokens :
    LET row == refreshToken[t] IN
    /\ Running(p)
    /\ row.state \in {"active", "revoked"}
    /\ \A d \in Tokens : refreshToken[d].parent = t => ~Precedes(refreshToken[d].by, p)
    /\ MayIssue(p, row.userId)
    /\ refreshToken[c].state = "absent"
    /\ refreshToken' = [refreshToken EXCEPT
         ![t].state = "revoked", ![c] = NewToken(row.userId, t, row.cred, p)]
    /\ End(p)
    /\ UNCHANGED <<usuario, resetToken>>

\* The password changes and in the same step active tokens of that user die:
\* all those that were obtained before p began.
ChangePassword(p, u) == \E dead \in SUBSET {t \in Tokens :
                             refreshToken[t].state = "active" /\ refreshToken[t].userId = u} :
    /\ \A t \in Tokens : /\ refreshToken[t].state = "active"
                         /\ refreshToken[t].userId = u
                         /\ Precedes(refreshToken[t].by, p)
                         => t \in dead
    /\ refreshToken' = [t \in Tokens |-> IF t \in dead
         THEN [refreshToken[t] EXCEPT !.state = "revoked"] ELSE refreshToken[t]]
    /\ usuario' = [usuario EXCEPT ![u].senha = p]
    /\ End(p)

Patch(p) == \E u \in Users :
    Running(p) /\ ChangePassword(p, u) /\ UNCHANGED resetToken

\* A reset consumes its token in the step that changes the password.
Reset(p) == \E r \in ResetTokens :
    /\ Running(p)
    /\ resetToken[r].state # "absent"
    /\ ChangePassword(p, resetToken[r].userId)
    /\ resetToken' = [resetToken EXCEPT ![r].state = "used"]

\* A user is disabled only when enabled and restored only when disabled.
Flip(p) == \E u \in Users :
    LET disabled == usuario[u].deletedAt # None IN
    /\ Running(p)
    /\ usuario' = [usuario EXCEPT
         ![u].ativo = disabled, ![u].deletedAt = IF disabled THEN None ELSE p]
    /\ End(p)
    /\ UNCHANGED <<refreshToken, resetToken>>

\* forgotPassword is not atomic: it invalidates first and issues later.
InvalidateResets(p) == \E u \in Users :
    /\ Running(p)
    /\ resetToken' = [r \in ResetTokens |->
         IF resetToken[r].state = "unused" /\ resetToken[r].userId = u
           THEN [resetToken[r] EXCEPT !.state = "used"] ELSE resetToken[r]]
    /\ UNCHANGED <<usuario, refreshToken, status, before>>

IssueReset(p) == \E u \in Users, r \in ResetTokens :
    /\ Running(p)
    /\ \A s \in ResetTokens : resetToken[s].state = "unused" /\ resetToken[s].userId = u
                              => ~Precedes(resetToken[s].by, p)
    /\ resetToken[r].state = "absent"
    /\ resetToken' = [resetToken EXCEPT ![r] =
         [state |-> "unused", expired |-> FALSE, userId |-> u, by |-> p]]
    /\ End(p)
    /\ UNCHANGED <<usuario, refreshToken>>

\* Only expired rows are purged, all of them in one step.
Purge(p) == \E gone \in SUBSET {t \in Tokens : refreshToken[t].expired} :
    /\ Running(p)
    /\ refreshToken' = [t \in Tokens |-> IF t \in gone
         THEN [refreshToken[t] EXCEPT !.state = "deleted"] ELSE refreshToken[t]]
    /\ End(p)
    /\ UNCHANGED <<usuario, resetToken>>

Expire ==
    /\ \/ \E t \in Tokens : refreshToken' = [refreshToken EXCEPT ![t].expired = TRUE]
                            /\ UNCHANGED resetToken
       \/ \E r \in ResetTokens : resetToken' = [resetToken EXCEPT ![r].expired = TRUE]
                                 /\ UNCHANGED refreshToken
    /\ UNCHANGED <<usuario, status, before>>

Next ==
    \/ \E p \in Requests :
         \/ Begin(p) \/ Refuse(p) \/ Issue(p) \/ Rotate(p) \/ Patch(p) \/ Reset(p)
         \/ Flip(p) \/ InvalidateResets(p) \/ IssueReset(p) \/ Purge(p)
    \/ Expire

Spec == Init /\ [][Next]_vars
=============================================================================
