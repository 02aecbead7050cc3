------------------------- MODULE Idempotency_proofs -------------------------
(***************************************************************************)
(* Idempotency: its invariant IInv is inductive, for any set of requests,  *)
(* and two handlers run at once only if a lock did not last.               *)
(***************************************************************************)
EXTENDS Idempotency, TLAPS

USE IdempotencyAssumption

\* IInv holds at the beginning.
LEMMA InitInv == Init => IInv
BY DEF Init, IInv, TypeOK, Pending, HolderHasLock, LapseBegins, LockAccounted, AtWork, Ended

\* Every step of a request preserves IInv.
LEMMA HandleInv ==
    ASSUME IInv, NEW p \in Requests, Handle(p)
    PROVE  IInv'
<1> USE DEF IInv, TypeOK, Pending, HolderHasLock, LapseBegins, LockAccounted, AtWork,
            Ended, Goto
<1>1. CASE Get(p)
  BY <1>1 DEF Get
<1>2. CASE SetLock(p)
  BY <1>2 DEF SetLock
<1>3. CASE SetLockFails(p)
  BY <1>3 DEF SetLockFails
<1>4. CASE HandlerReturns(p)
  BY <1>4 DEF HandlerReturns
<1>5. CASE HandlerThrows(p)
  BY <1>5 DEF HandlerThrows
<1>6. CASE ReleaseAfterError(p)
  BY <1>6 DEF ReleaseAfterError, DeleteLock, Lose
<1>7. CASE ReleaseLands(p)
  BY <1>7 DEF ReleaseLands, DeleteLock, Lose
<1>8. CASE StoreLands(p)
  BY <1>8 DEF StoreLands
<1>9. CASE Stop(p)
  BY <1>9 DEF Stop
<1> QED
  BY <1>1, <1>2, <1>3, <1>4, <1>5, <1>6, <1>7, <1>8, <1>9 DEF Handle

\* So do the expiry of the lock and of the answer.
LEMMA ExpiryInv == IInv /\ (LockExpires \/ AnswerExpires) => IInv'
<1> USE DEF IInv, TypeOK, Pending, HolderHasLock, LapseBegins, LockAccounted, AtWork, Ended
<1>1. ASSUME IInv, LockExpires PROVE IInv'
  BY <1>1 DEF LockExpires, Lose
<1>2. ASSUME IInv, AnswerExpires PROVE IInv'
  BY <1>2 DEF AnswerExpires
<1> QED BY <1>1, <1>2

\* IInv is an invariant: in particular who is at work has the lock or has lost it, and
\* a lock that is set belongs to somebody at work but for failures of Redis and of
\* processes (IdempotencyInterceptor.intercept).
THEOREM Inductive == Spec => []IInv
<1>1. IInv /\ [Next]_vars => IInv'
  <2> SUFFICES ASSUME IInv, [Next]_vars PROVE IInv'
    OBVIOUS
  <2>1. ASSUME NEW p \in Requests, Handle(p) PROVE IInv'
    BY <2>1, HandleInv
  <2>2. CASE LockExpires \/ AnswerExpires
    BY <2>2, ExpiryInv
  <2>3. CASE UNCHANGED vars
    BY <2>3 DEF vars, IInv, TypeOK, Pending, HolderHasLock, LapseBegins, LockAccounted, AtWork
  <2> QED BY <2>1, <2>2, <2>3 DEF Next, AllServed
<1> QED BY <1>1, InitInv, PTL DEF Spec

\* "A 2ª request recebe 400 até a 1ª terminar": two handlers of one key run at once only
\* if a lock expired under its request or a SET failed.
THEOREM ExclusionHolds == Spec => []Exclusive
<1>1. IInv => Exclusive
  BY DEF IInv, HolderHasLock, LapseBegins, AtWork, Exclusive
<1> QED BY <1>1, Inductive, PTL

\* A 400 is for a request at work, but for failures of DEL and SET and stopped processes.
THEOREM LockIsAccounted == Spec => []LockAccounted
<1>1. IInv => LockAccounted
  BY DEF IInv
<1> QED BY <1>1, Inductive, PTL
=============================================================================
