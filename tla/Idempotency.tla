---------------------------- MODULE Idempotency ----------------------------
(***************************************************************************)
(* IdempotencyInterceptor for the requests that carry one Idempotency-Key  *)
(* of an accepted length to handlers marked with @Idempotent(): lookup of  *)
(* a stored answer, lock with a time to live, handler, storing of the      *)
(* answer and release of the lock.                                         *)
(*                                                                         *)
(* Each awaited call to Redis is a step, and so is the arrival of the two  *)
(* calls that nobody awaits.  A call may fail, having taken effect or not; *)
(* a process may stop.  getRedisClient returning null (no lock, no DEL) is *)
(* the case where the calls about the lock fail without effect.            *)
(***************************************************************************)
EXTENDS FiniteSets

CONSTANTS
    Requests,
    None

ASSUME IdempotencyAssumption == None \notin Requests

VARIABLES
    at,         \* where each request is
    lock,       \* the request that set idem:lock:<key>, or None
    answer,     \* the request whose answer is at idempotency:<key>, or None
    storing,    \* requests whose cache.set is in flight
    releasing,  \* requests whose redis.del is in flight and not awaited
    \* history
    outlived,   \* requests whose lock expired while at work, or whose SET failed
    lapsed,     \* these, and those whose lock was deleted while at work
    abandoned   \* requests that will not delete the lock they may have set

vars == <<at, lock, answer, storing, releasing, outlived, lapsed, abandoned>>

Ended == {"replayed", "refused", "answered", "failed", "stopped"}

TypeOK ==
    /\ at \in [Requests -> {"idle", "lock", "run", "release"} \cup Ended]
    /\ lock \in Requests \cup {None}
    /\ answer \in Requests \cup {None}
    /\ storing \subseteq Requests /\ releasing \subseteq Requests
    /\ outlived \subseteq Requests /\ lapsed \subseteq Requests
    /\ abandoned \subseteq Requests

Init ==
    /\ at = [p \in Requests |-> "idle"]
    /\ lock = None /\ answer = None
    /\ storing = {} /\ releasing = {}
    /\ outlived = {} /\ lapsed = {} /\ abandoned = {}

Goto(p, s) == at' = [at EXCEPT ![p] = s]

\* The request runs, or its DEL is still to arrive.
AtWork(p) == at[p] \in {"run", "release"} \/ p \in releasing

\* The lock of request q goes, although q is still at work.
Lose(q) == lapsed' = IF AtWork(q) THEN lapsed \cup {q} ELSE lapsed

\* DEL for p.
DeleteLock(p) ==
    /\ lock' = None
    /\ IF lock \notin {p, None} THEN Lose(lock) ELSE UNCHANGED lapsed
-----------------------------------------------------------------------------
\* cache.get.  Nothing catches its error, and the request ends with it.
Get(p) ==
    /\ at[p] = "idle"
    /\ \/ answer # None /\ Goto(p, "replayed")
       \/ answer = None /\ Goto(p, "lock")
       \/ Goto(p, "failed")
    /\ UNCHANGED <<lock, answer, storing, releasing, outlived, lapsed, abandoned>>

\* Fault: SET without NX.
SetLockAlways(p) ==
    /\ at[p] = "lock"
    /\ lock' = p
    /\ Goto(p, "run")
    /\ UNCHANGED <<answer, storing, releasing, outlived, lapsed, abandoned>>

\* SET NX EX.
SetLock(p) ==
    /\ at[p] = "lock"
    /\ \/ lock = None /\ lock' = p /\ Goto(p, "run")
       \/ lock # None /\ UNCHANGED lock /\ Goto(p, "refused")
    /\ UNCHANGED <<answer, storing, releasing, outlived, lapsed, abandoned>>

\* An error of SET other than the 400: the request runs as if it had the lock.
SetLockFails(p) ==
    /\ at[p] = "lock"
    /\ Goto(p, "run")
    /\ \/ lock = None /\ lock' = p
       \/ UNCHANGED lock
    /\ outlived' = outlived \cup {p} /\ lapsed' = lapsed \cup {p}
    /\ UNCHANGED <<answer, storing, releasing, abandoned>>

\* A 2xx answer: both calls are sent, neither is awaited.
HandlerReturns(p) ==
    /\ at[p] = "run"
    /\ Goto(p, "answered")
    /\ storing' = storing \cup {p}
    /\ releasing' = releasing \cup {p}
    /\ UNCHANGED <<lock, answer, outlived, lapsed, abandoned>>

\* Fault: the lock is not released when the handler fails.
HandlerThrowsKeeping(p) ==
    /\ at[p] = "run"
    /\ Goto(p, "failed")
    /\ UNCHANGED <<lock, answer, storing, releasing, outlived, lapsed, abandoned>>

\* catchError waits for its DEL before it rethrows.
HandlerThrows(p) ==
    /\ at[p] = "run"
    /\ Goto(p, "release")
    /\ UNCHANGED <<lock, answer, storing, releasing, outlived, lapsed, abandoned>>

\* DEL removes the lock whoever has set it; a failure is only logged.
ReleaseAfterError(p) ==
    /\ at[p] = "release"
    /\ Goto(p, "failed")
    /\ \/ DeleteLock(p) /\ UNCHANGED abandoned
       \/ abandoned' = abandoned \cup {p} /\ UNCHANGED <<lock, lapsed>>
    /\ UNCHANGED <<answer, storing, releasing, outlived>>

ReleaseLands(p) ==
    /\ p \in releasing
    /\ releasing' = releasing \ {p}
    /\ \/ DeleteLock(p) /\ UNCHANGED abandoned
       \/ abandoned' = abandoned \cup {p} /\ UNCHANGED <<lock, lapsed>>
    /\ UNCHANGED <<at, answer, storing, outlived>>

StoreLands(p) ==
    /\ p \in storing
    /\ storing' = storing \ {p}
    /\ answer' = p \/ UNCHANGED answer
    /\ UNCHANGED <<at, lock, releasing, outlived, lapsed, abandoned>>

\* EX: the lock's time is over, whether its request has ended or not.
LockExpires ==
    /\ lock # None
    /\ lock' = None /\ Lose(lock)
    /\ outlived' = IF AtWork(lock) THEN outlived \cup {lock} ELSE outlived
    /\ UNCHANGED <<at, answer, storing, releasing, abandoned>>

AnswerExpires ==
    /\ answer # None
    /\ answer' = None
    /\ UNCHANGED <<at, lock, storing, releasing, outlived, lapsed, abandoned>>

\* The process of the request stops, and what it had not sent is lost.
Stop(p) ==
    /\ at[p] \notin Ended \/ p \in storing \cup releasing
    /\ IF at[p] \in Ended THEN UNCHANGED at ELSE Goto(p, "stopped")
    /\ storing' = storing \ {p}
    /\ releasing' = releasing \ {p}
    /\ abandoned' = abandoned \cup {p}
    /\ UNCHANGED <<lock, answer, outlived, lapsed>>

AllServed ==
    /\ \A p \in Requests : at[p] \in Ended
    /\ storing = {} /\ releasing = {} /\ lock = None /\ answer = None
    /\ UNCHANGED vars

Handle(p) ==
    \/ Get(p) \/ SetLock(p) \/ SetLockFails(p) \/ HandlerReturns(p) \/ HandlerThrows(p)
    \/ ReleaseAfterError(p) \/ ReleaseLands(p) \/ StoreLands(p) \/ Stop(p)

Next ==
    \/ \E p \in Requests : Handle(p)
    \/ LockExpires \/ AnswerExpires \/ AllServed

Spec == Init /\ [][Next]_vars
-----------------------------------------------------------------------------
(* Properties.                                                             *)

\* "A 2ª request recebe 400 até a 1ª terminar": of two handlers that run at once
\* one has lost its lock, and that began with a lock that expired under its
\* request or a SET that failed.  Neither a 400 nor the DEL of a request that
\* has its lock takes the lock of another.
Exclusive == \A p, q \in Requests :
    p # q /\ at[p] = "run" /\ at[q] = "run"
      => (p \in lapsed \/ q \in lapsed) /\ outlived # {}

\* A 400 means that a request with this key is at work: it runs, or its DEL is
\* on the way, unless a DEL failed, a process stopped or a SET failed.
LockAccounted ==
    lock # None => AtWork(lock) \/ lock \in abandoned \cup lapsed

\* Whoever is at work has the lock, or has lost it.
HolderHasLock == \A p \in Requests : AtWork(p) => lock = p \/ p \in lapsed

\* Locks are lost only in consequence of one that did not last.
LapseBegins == lapsed # {} => outlived # {}

Pending == \A p \in Requests :
    p \in storing \cup releasing => at[p] = "answered"

IInv ==
    /\ TypeOK
    /\ Pending
    /\ HolderHasLock
    /\ LapseBegins
    /\ LockAccounted
=============================================================================
