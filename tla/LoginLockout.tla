---------------------------- MODULE LoginLockout ----------------------------
(***************************************************************************)
(* The account lockout of AuthService.login: CacheLoginAttemptTracker, its *)
(* counter in Redis and its fallback table login_attempts, for one e-mail  *)
(* address (keys and rows of different addresses never meet).              *)
(*                                                                         *)
(* A login is a process that takes one awaited call at a time.  A call to  *)
(* Redis or to the database may fail, and a write that fails may or may    *)
(* not have taken effect.  What follows clearFailures, the issue of the    *)
(* tokens, is in AuthSessions.                                             *)
(***************************************************************************)
EXTENDS Naturals, FiniteSets

CONSTANTS
    Logins,       \* POST /auth/login requests for the address, served once each
    MaxAttempts,  \* MAX_ATTEMPTS
    Unreliable    \* the stores whose calls may fail: "cache", "database"

ASSUME LockoutAssumption ==
    /\ IsFiniteSet(Logins)
    /\ MaxAttempts \in Nat \ {0}
    /\ Unreliable \subseteq {"cache", "database"}

VARIABLES
    counter,   \* auth:login:attempts:<email>; 0 when the key is absent
    attempts,  \* rows of login_attempts in the window: <<login, success>>
    pc,        \* the next call of a login, or its outcome
    current,   \* the counter as recordFailure read it
    \* history
    failed,    \* logins whose password was found to be wrong
    fresh,     \* those that wrote the key since it was last deleted or expired
    cleared,   \* logins that have deleted the key
    before     \* the logins that had ended when a login began

vars == <<counter, attempts, pc, current, failed, fresh, cleared, before>>

Calls == {"isLocked.count", "compare", "record.get", "record.set", "record.insert",
          "clear.del", "clear.insert"}

\* A login is refused by the counter, by the rows, or because both stores failed.
Refusals == {"locked", "locked.rows", "locked.closed"}

Outcomes == Refusals \cup {"unauthorized", "ok", "error"}

TypeOK ==
    /\ counter \in Nat
    /\ attempts \subseteq Logins \X BOOLEAN
    /\ pc \in [Logins -> {"idle"} \cup Calls \cup Outcomes]
    /\ current \in [Logins -> Nat]
    /\ failed \subseteq Logins /\ fresh \subseteq Logins /\ cleared \subseteq Logins
    /\ before \in [Logins -> SUBSET Logins]

Init ==
    /\ counter = 0 /\ attempts = {}
    /\ pc = [p \in Logins |-> "idle"]
    /\ current = [p \in Logins |-> 0]
    /\ failed = {} /\ fresh = {} /\ cleared = {}
    /\ before = [p \in Logins |-> {}]

-----------------------------------------------------------------------------
Goto(p, s) == pc' = [pc EXCEPT ![p] = s]

Ended == {q \in Logins : pc[q] \in Outcomes}

\* The rows with success = false.
Failures == {p \in Logins : <<p, FALSE>> \in attempts}

\* Fault: the account is locked one failure too late.
IsLockedLate(p) ==
    /\ pc[p] = "idle"
    /\ before' = [before EXCEPT ![p] = Ended]
    /\ Goto(p, IF counter > MaxAttempts THEN "locked" ELSE "compare")
    /\ UNCHANGED <<counter, attempts, current, failed, fresh, cleared>>

\* A login arrives; isLocked reads the counter.
IsLocked(p) ==
    /\ pc[p] = "idle"
    /\ before' = [before EXCEPT ![p] = Ended]
    /\ Goto(p, IF counter >= MaxAttempts THEN "locked" ELSE "compare")
    /\ UNCHANGED <<counter, attempts, current, failed, fresh, cleared>>

\* Redis does not answer: isLocked falls back to the rows.
IsLockedOffline(p) ==
    /\ pc[p] = "idle"
    /\ "cache" \in Unreliable
    /\ before' = [before EXCEPT ![p] = Ended]
    /\ Goto(p, "isLocked.count")
    /\ UNCHANGED <<counter, attempts, current, failed, fresh, cleared>>

\* Fault: successes are counted with the failures.
IsLockedCountAll(p) ==
    /\ pc[p] = "isLocked.count"
    /\ Goto(p, IF Cardinality(attempts) >= MaxAttempts THEN "locked.rows" ELSE "compare")
    /\ UNCHANGED <<counter, attempts, current, failed, fresh, cleared, before>>

\* With the database unreachable as well, the login is refused.
IsLockedCount(p) ==
    /\ pc[p] = "isLocked.count"
    /\ \/ Goto(p, IF Cardinality(Failures) >= MaxAttempts THEN "locked.rows" ELSE "compare")
       \/ "database" \in Unreliable /\ Goto(p, "locked.closed")
    /\ UNCHANGED <<counter, attempts, current, failed, fresh, cleared, before>>

-----------------------------------------------------------------------------
(* The credentials are looked up and the hashes compared.                  *)
WrongPassword(p) ==
    /\ pc[p] = "compare"
    /\ failed' = failed \cup {p}
    /\ Goto(p, "record.get")
    /\ UNCHANGED <<counter, attempts, current, fresh, cleared, before>>

RightPassword(p) ==
    /\ pc[p] = "compare"
    /\ Goto(p, "clear.del")
    /\ UNCHANGED <<counter, attempts, current, failed, fresh, cleared, before>>

\* findByEmailWithCredentials throws: HTTP 500.
LookupFails(p) ==
    /\ pc[p] = "compare"
    /\ "database" \in Unreliable
    /\ Goto(p, "error")
    /\ UNCHANGED <<counter, attempts, current, failed, fresh, cleared, before>>

-----------------------------------------------------------------------------
(* recordFailure: the counter is read, then written: two calls.            *)
RecordGet(p) ==
    /\ pc[p] = "record.get"
    /\ current' = [current EXCEPT ![p] = counter]
    /\ Goto(p, "record.set")
    /\ UNCHANGED <<counter, attempts, failed, fresh, cleared, before>>

\* Fault: the attempt is counted twice.
WriteCounterTwice(p) ==
    /\ counter' = current[p] + 2
    /\ fresh' = fresh \cup {p}

\* p's value reaches the key.
WriteCounter(p) ==
    /\ counter' = current[p] + 1
    /\ fresh' = fresh \cup {p}

RecordSet(p) ==
    /\ pc[p] = "record.set"
    /\ WriteCounter(p)
    /\ current' = [current EXCEPT ![p] = 0]
    /\ Goto(p, "unauthorized")
    /\ UNCHANGED <<attempts, failed, cleared, before>>

\* Redis fails in get or in set: the failure becomes a row.
RecordOffline(p) ==
    /\ pc[p] \in {"record.get", "record.set"}
    /\ "cache" \in Unreliable
    /\ \/ UNCHANGED <<counter, fresh>>
       \/ pc[p] = "record.set" /\ WriteCounter(p)
    /\ current' = [current EXCEPT ![p] = 0]
    /\ Goto(p, "record.insert")
    /\ UNCHANGED <<attempts, failed, cleared, before>>

\* A failing INSERT is swallowed.
RecordInsert(p) ==
    /\ pc[p] = "record.insert"
    /\ \/ attempts' = attempts \cup {<<p, FALSE>>}
       \/ "database" \in Unreliable /\ UNCHANGED attempts
    /\ Goto(p, "unauthorized")
    /\ UNCHANGED <<counter, current, failed, fresh, cleared, before>>

-----------------------------------------------------------------------------
(* clearFailures: DEL in Redis, and a row that records the success.        *)
DeleteKey == counter' = 0 /\ fresh' = {}

\* Fault: the key outlives a successful login.
ClearDelForgotten(p) ==
    /\ pc[p] = "clear.del"
    /\ cleared' = cleared \cup {p}
    /\ Goto(p, "clear.insert")
    /\ UNCHANGED <<counter, attempts, current, failed, fresh, before>>

ClearDel(p) ==
    /\ pc[p] = "clear.del"
    /\ DeleteKey
    /\ cleared' = cleared \cup {p}
    /\ Goto(p, "clear.insert")
    /\ UNCHANGED <<attempts, current, failed, before>>

ClearOffline(p) ==
    /\ pc[p] = "clear.del"
    /\ "cache" \in Unreliable
    /\ DeleteKey \/ UNCHANGED <<counter, fresh>>
    /\ Goto(p, "clear.insert")
    /\ UNCHANGED <<attempts, current, failed, cleared, before>>

ClearInsert(p) ==
    /\ pc[p] = "clear.insert"
    /\ \/ attempts' = attempts \cup {<<p, TRUE>>}
       \/ "database" \in Unreliable /\ UNCHANGED attempts
    /\ Goto(p, "ok")
    /\ UNCHANGED <<counter, current, failed, fresh, cleared, before>>

-----------------------------------------------------------------------------
(* Time: the key's TTL (or an eviction), and rows that leave the window.   *)
KeyExpires ==
    /\ counter > 0
    /\ DeleteKey
    /\ UNCHANGED <<attempts, pc, current, failed, cleared, before>>

RowLeavesWindow(row) ==
    /\ row \in attempts
    /\ attempts' = attempts \ {row}
    /\ UNCHANGED <<counter, pc, current, failed, fresh, cleared, before>>

Serve(p) ==
    \/ IsLocked(p) \/ IsLockedOffline(p) \/ IsLockedCount(p)
    \/ WrongPassword(p) \/ RightPassword(p) \/ LookupFails(p)
    \/ RecordGet(p) \/ RecordSet(p) \/ RecordOffline(p) \/ RecordInsert(p)
    \/ ClearDel(p) \/ ClearOffline(p) \/ ClearInsert(p)

AllServed == Ended = Logins /\ UNCHANGED vars

Next ==
    \/ \E p \in Logins : Serve(p)
    \/ KeyExpires
    \/ \E row \in attempts : RowLeavesWindow(row)
    \/ AllServed

Spec == Init /\ [][Next]_vars

-----------------------------------------------------------------------------
(* Properties.                                                             *)

\* Two logins overlapped: neither had ended when the other began.
Overlap(p, q) == p \notin before[q] /\ q \notin before[p]

\* Nobody is locked out unless MaxAttempts wrong passwords have been given,
\* however increments overlap, get lost, or are split between the two stores.
LockoutJustified == \A p \in Logins :
    pc[p] \in {"locked", "locked.rows"} => Cardinality(failed) >= MaxAttempts

\* The failures that had not ended when s began.
Since(s) == {f \in failed : f \notin before[s]}

\* A successful login resets the count: a later refusal by the counter rests on
\* MaxAttempts failures that had not ended when that login began, or on a
\* failure that overlapped it.
SuccessResets == \A p, s \in Logins :
    /\ pc[p] = "locked"
    /\ s \in cleared \cap before[p]
    => \/ Cardinality(Since(s)) >= MaxAttempts
       \/ \E f \in failed : Overlap(f, s)

\* No other failing login overlapped one that the counter stands for.
InSequence == \A f \in fresh : \A g \in failed \ {f} : ~Overlap(f, g)

\* Failures given one after the other are never lost: once MaxAttempts of them
\* have been counted, with no success and no expiry in between and no other
\* failing login overlapping them, no login passes on the counter.
SequentialFailuresLock == [][\A p \in Logins :
    pc[p] = "idle" /\ pc'[p] = "compare" /\ InSequence
    => Cardinality(fresh) < MaxAttempts]_vars

\* "Tolerar outage de Redis sem abrir o lockout": no login passes isLocked
\* while the counter stands at MaxAttempts.
OutageKeepsLock == [][\A p \in Logins :
    pc[p] \in {"idle", "isLocked.count"} /\ pc'[p] = "compare"
    => counter < MaxAttempts]_vars

-----------------------------------------------------------------------------
(* What makes the properties inductive: each value of the counter stands   *)
(* for that many failed logins that are past recordFailure's write.        *)
Counted == {f \in failed : pc[f] \notin {"record.get", "record.set"}}

CountBacked ==
    /\ counter <= Cardinality(Counted)
    /\ Failures \subseteq failed
    /\ \A p \in Logins :
         /\ pc[p] \in {"record.get", "record.set", "record.insert"} => p \in failed
         /\ pc[p] \in {"idle", "isLocked.count", "compare"} => p \notin failed
         /\ pc[p] = "record.set" => current[p] <= Cardinality(Counted)

\* Who had ended when a login began has ended; the written keys are of failed
\* logins, the deletions of successful ones.
Histories ==
    /\ \A p \in Logins : before[p] \subseteq Ended
    /\ fresh \subseteq failed
    /\ \A s \in cleared : pc[s] \in {"clear.insert", "ok"}

\* After a deletion, and as long as no failure overlapped its login, the counter
\* and what has been read of it stand for failures that came later.
ResetBacked == \A s \in cleared : (\A f \in failed : ~Overlap(f, s)) =>
    /\ counter <= Cardinality(Since(s) \cap Counted)
    /\ \A q \in Logins :
         pc[q] = "record.set" => current[q] <= Cardinality(Since(s) \cap Counted)

\* Failures in sequence are all in the counter, and in what has been read of it.
CountComplete == InSequence =>
    /\ Cardinality(fresh) <= counter
    /\ \A q \in Logins : pc[q] = "record.set" => Cardinality(fresh) <= current[q]

IInv == /\ TypeOK /\ CountBacked /\ LockoutJustified
        /\ Histories /\ ResetBacked /\ SuccessResets /\ CountComplete
=============================================================================
