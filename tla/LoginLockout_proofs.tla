------------------------ MODULE LoginLockout_proofs ------------------------
(* Theorems of LoginLockout, for every set of logins, every MAX_ATTEMPTS and *)
(* every pattern of failing stores.                                          *)
EXTENDS LoginLockout, FiniteSetTheorems, TLAPS

USE LockoutAssumption

\* The counted logins and the failed ones are finite sets, one inside the other.
LEMMA Sizes ==
    ASSUME TypeOK, Failures \subseteq failed
    PROVE  /\ IsFiniteSet(Counted) /\ IsFiniteSet(failed)
           /\ Cardinality(Counted) \in Nat /\ Cardinality(failed) \in Nat
           /\ Cardinality(Failures) \in Nat
           /\ Cardinality(Counted) <= Cardinality(failed)
           /\ Cardinality(Failures) <= Cardinality(failed)
<1>1. IsFiniteSet(failed)
  BY FS_Subset DEF TypeOK
<1>2. Counted \subseteq failed
  BY DEF Counted
<1>3. IsFiniteSet(Counted) /\ IsFiniteSet(Failures)
  BY <1>1, <1>2, FS_Subset
<1>4. /\ Cardinality(Counted) <= Cardinality(failed)
      /\ Cardinality(Failures) <= Cardinality(failed)
  BY <1>1, <1>2, FS_Subset
<1>5. QED
  BY <1>1, <1>3, <1>4, FS_CardinalityType

\* At the start nobody has failed and the key is absent.
LEMMA IInvInit == Init => IInv
<1> SUFFICES ASSUME Init PROVE IInv
  OBVIOUS
<1>1. TypeOK
  BY DEF Init, TypeOK
<1>2. Counted = {} /\ Failures = {}
  BY DEF Init, Counted, Failures
<1>3. Cardinality({}) = 0
  BY FS_EmptySet
<1>4. CountBacked
  BY <1>2, <1>3 DEF Init, CountBacked
<1>5. LockoutJustified
  BY DEF Init, LockoutJustified
<1>6. Histories /\ ResetBacked /\ SuccessResets
  BY DEF Init, Histories, ResetBacked, SuccessResets
<1>7. CountComplete
  BY <1>3 DEF Init, CountComplete
<1>8. QED
  BY <1>1, <1>4, <1>5, <1>6, <1>7 DEF IInv

\* A row that recordFailure or clearFailures inserts is well-typed.
LEMMA RowType ==
    ASSUME NEW p \in Logins, NEW b \in BOOLEAN,
           NEW rows \in SUBSET (Logins \X BOOLEAN)
    PROVE  rows \cup {<<p, b>>} \subseteq Logins \X BOOLEAN
<1>1. <<p, b>> \in Logins \X BOOLEAN
  OBVIOUS
<1>2. QED
  BY <1>1

\* A step preserves types.
LEMMA TypeStep == TypeOK /\ [Next]_vars => TypeOK'
<1> SUFFICES ASSUME TypeOK, [Next]_vars PROVE TypeOK'
  OBVIOUS
<1> USE DEF TypeOK, Goto, Calls, Outcomes, Refusals
<1>1. ASSUME NEW p \in Logins, Serve(p) PROVE TypeOK'
  <2>1. CASE IsLocked(p) \/ IsLockedOffline(p) \/ IsLockedCount(p)
    BY <2>1 DEF IsLocked, IsLockedOffline, IsLockedCount, Ended
  <2>2. CASE WrongPassword(p) \/ RightPassword(p) \/ LookupFails(p)
    BY <2>2 DEF WrongPassword, RightPassword, LookupFails
  <2>3. CASE RecordGet(p) \/ RecordSet(p)
    BY <2>3 DEF RecordGet, RecordSet, WriteCounter
  <2>4. CASE RecordOffline(p)
    BY <2>4 DEF RecordOffline, WriteCounter
  <2>5. CASE RecordInsert(p)
    <3>1. attempts' \subseteq Logins \X BOOLEAN
      <4>1. attempts \in SUBSET (Logins \X BOOLEAN) /\ FALSE \in BOOLEAN
        OBVIOUS
      <4>2. attempts' = attempts \cup {<<p, FALSE>>} \/ attempts' = attempts
        BY <2>5 DEF RecordInsert
      <4>3. attempts \cup {<<p, FALSE>>} \subseteq Logins \X BOOLEAN
        BY <4>1, RowType
      <4>4. QED
        BY <4>1, <4>2, <4>3
    <3>2. pc' \in [Logins -> {"idle"} \cup Calls \cup Outcomes]
      BY <2>5 DEF RecordInsert
    <3>3. QED
      BY <2>5, <3>1, <3>2 DEF RecordInsert
  <2>6. CASE ClearDel(p) \/ ClearOffline(p)
    BY <2>6 DEF ClearDel, ClearOffline, DeleteKey
  <2>7. CASE ClearInsert(p)
    <3>1. attempts' \subseteq Logins \X BOOLEAN
      <4>1. attempts \in SUBSET (Logins \X BOOLEAN) /\ TRUE \in BOOLEAN
        OBVIOUS
      <4>2. attempts' = attempts \cup {<<p, TRUE>>} \/ attempts' = attempts
        BY <2>7 DEF ClearInsert
      <4>3. attempts \cup {<<p, TRUE>>} \subseteq Logins \X BOOLEAN
        BY <4>1, RowType
      <4>4. QED
        BY <4>1, <4>2, <4>3
    <3>2. pc' \in [Logins -> {"idle"} \cup Calls \cup Outcomes]
      BY <2>7 DEF ClearInsert
    <3>3. QED
      BY <2>7, <3>1, <3>2 DEF ClearInsert
  <2>8. QED
    BY <1>1, <2>1, <2>2, <2>3, <2>4, <2>5, <2>6, <2>7 DEF Serve
<1>2. CASE KeyExpires
  BY <1>2 DEF KeyExpires, DeleteKey
<1>3. ASSUME NEW row \in attempts, RowLeavesWindow(row) PROVE TypeOK'
  BY <1>3 DEF RowLeavesWindow
<1>4. CASE UNCHANGED vars
  BY <1>4 DEF vars
<1>5. QED
  BY <1>1, <1>2, <1>3, <1>4 DEF Next, AllServed

\* A step that neither takes a login past recordFailure's write nor writes a
\* larger counter keeps the counter backed.
LEMMA SameCount ==
    ASSUME TypeOK, TypeOK', CountBacked, Counted' = Counted,
           counter' \in {counter, 0},
           \A q \in Logins : pc'[q] = "record.set" =>
               current'[q] = counter \/ (pc[q] = "record.set" /\ current'[q] = current[q])
    PROVE  /\ counter' <= Cardinality(Counted')
           /\ \A q \in Logins : pc'[q] = "record.set" => current'[q] <= Cardinality(Counted')
<1>1. Cardinality(Counted) \in Nat
  BY Sizes DEF CountBacked
<1>2. QED
  BY <1>1 DEF CountBacked, TypeOK

\* A step by which p passes recordFailure's write.
LEMMA OneMore ==
    ASSUME TypeOK, TypeOK', CountBacked, NEW p \in Logins,
           pc[p] \in {"record.get", "record.set"},
           pc' = [pc EXCEPT ![p] = "unauthorized"] \/ pc' = [pc EXCEPT ![p] = "record.insert"],
           failed' = failed,
           counter' = counter \/ (pc[p] = "record.set" /\ counter' = current[p] + 1),
           current' = [current EXCEPT ![p] = 0]
    PROVE  /\ counter' <= Cardinality(Counted')
           /\ \A q \in Logins : pc'[q] = "record.set" => current'[q] <= Cardinality(Counted')
<1>1. Counted' = Counted \cup {p}
  BY DEF Counted, CountBacked, TypeOK
<1>2. p \notin Counted
  BY DEF Counted
<1>3. IsFiniteSet(Counted) /\ Cardinality(Counted) \in Nat
  BY Sizes DEF CountBacked
<1>4. Cardinality(Counted') = Cardinality(Counted) + 1
  BY <1>1, <1>2, <1>3, FS_AddElement
<1>5. counter' <= Cardinality(Counted')
  BY <1>3, <1>4 DEF CountBacked, TypeOK
<1>6. \A q \in Logins : pc'[q] = "record.set" => pc[q] = "record.set" /\ current'[q] = current[q]
  BY DEF TypeOK
<1>7. QED
  BY <1>3, <1>4, <1>5, <1>6 DEF CountBacked, TypeOK

\* A step keeps the counter backed by failed logins.
LEMMA CountStep == TypeOK /\ CountBacked /\ [Next]_vars => CountBacked'
<1> SUFFICES ASSUME TypeOK, CountBacked, [Next]_vars PROVE CountBacked'
  OBVIOUS
<1>t. TypeOK'
  BY TypeStep
<1> DEFINE Backed == /\ counter' <= Cardinality(Counted')
                     /\ \A q \in Logins : pc'[q] = "record.set" =>
                          current'[q] <= Cardinality(Counted')
           Placed == /\ Failures' \subseteq failed'
                     /\ \A q \in Logins :
                          /\ pc'[q] \in {"record.get", "record.set", "record.insert"} => q \in failed'
                          /\ pc'[q] \in {"idle", "isLocked.count", "compare"} => q \notin failed'
<1> SUFFICES Backed /\ Placed
  BY DEF CountBacked
<1>1. ASSUME NEW p \in Logins, Serve(p) PROVE Backed /\ Placed
  <2>1. CASE IsLocked(p) \/ IsLockedOffline(p) \/ IsLockedCount(p)
    <3>1. Placed
      BY <2>1 DEF IsLocked, IsLockedOffline, IsLockedCount, Goto, CountBacked, TypeOK, Failures
    <3>2. Counted' = Counted
      BY <2>1 DEF IsLocked, IsLockedOffline, IsLockedCount, Goto, CountBacked, TypeOK, Counted
    <3>3. QED
      BY <1>t, <2>1, <3>1, <3>2, SameCount
      DEF IsLocked, IsLockedOffline, IsLockedCount, Goto, TypeOK
  <2>2. CASE WrongPassword(p) \/ RightPassword(p) \/ LookupFails(p)
    <3>1. Placed
      BY <2>2 DEF WrongPassword, RightPassword, LookupFails, Goto, CountBacked, TypeOK, Failures
    <3>2. Counted' = Counted
      BY <2>2 DEF WrongPassword, RightPassword, LookupFails, Goto, CountBacked, TypeOK, Counted
    <3>3. QED
      BY <1>t, <2>2, <3>1, <3>2, SameCount
      DEF WrongPassword, RightPassword, LookupFails, Goto, TypeOK
  <2>3. CASE RecordGet(p)
    <3>1. Placed
      BY <2>3 DEF RecordGet, Goto, CountBacked, TypeOK, Failures
    <3>2. Counted' = Counted
      BY <2>3 DEF RecordGet, Goto, CountBacked, TypeOK, Counted
    <3>3. QED
      BY <1>t, <2>3, <3>1, <3>2, SameCount DEF RecordGet, Goto, TypeOK
  <2>4. CASE RecordSet(p) \/ RecordOffline(p)
    <3>1. Placed
      BY <2>4 DEF RecordSet, RecordOffline, Goto, CountBacked, TypeOK, Failures
    <3>2. Backed
      BY <1>t, <2>4, OneMore DEF RecordSet, RecordOffline, WriteCounter, Goto
    <3>3. QED
      BY <3>1, <3>2
  <2>5. CASE RecordInsert(p)
    <3>1. Placed
      BY <2>5 DEF RecordInsert, Goto, CountBacked, TypeOK, Failures
    <3>2. Counted' = Counted
      BY <2>5 DEF RecordInsert, Goto, CountBacked, TypeOK, Counted
    <3>3. QED
      BY <1>t, <2>5, <3>1, <3>2, SameCount DEF RecordInsert, Goto, TypeOK
  <2>6. CASE ClearDel(p) \/ ClearOffline(p) \/ ClearInsert(p)
    <3>1. Placed
      BY <2>6 DEF ClearDel, ClearOffline, ClearInsert, Goto, CountBacked, TypeOK, Failures
    <3>2. Counted' = Counted
      BY <2>6 DEF ClearDel, ClearOffline, ClearInsert, Goto, TypeOK, Counted
    <3>3. QED
      BY <1>t, <2>6, <3>1, <3>2, SameCount
      DEF ClearDel, ClearOffline, ClearInsert, DeleteKey, Goto, TypeOK
  <2>7. QED
    BY <1>1, <2>1, <2>2, <2>3, <2>4, <2>5, <2>6 DEF Serve
<1>2. CASE KeyExpires
  <2>1. Placed /\ Counted' = Counted
    BY <1>2 DEF KeyExpires, CountBacked, Failures, Counted
  <2>2. QED
    BY <1>t, <1>2, <2>1, SameCount DEF KeyExpires, DeleteKey
<1>3. ASSUME NEW row \in attempts, RowLeavesWindow(row) PROVE Backed /\ Placed
  <2>1. Placed /\ Counted' = Counted
    BY <1>3 DEF RowLeavesWindow, CountBacked, Failures, Counted
  <2>2. QED
    BY <1>t, <1>3, <2>1, SameCount DEF RowLeavesWindow
<1>4. CASE UNCHANGED vars
  <2>1. Placed /\ Counted' = Counted
    BY <1>4 DEF vars, CountBacked, Failures, Counted
  <2>2. QED
    BY <1>t, <1>4, <2>1, SameCount DEF vars
<1>5. QED
  BY <1>1, <1>2, <1>3, <1>4 DEF Next, AllServed

\* The set of failed logins only grows.
LEMMA FailedGrows == [Next]_vars => failed \subseteq failed'
<1> SUFFICES ASSUME [Next]_vars PROVE failed \subseteq failed'
  OBVIOUS
<1>1. ASSUME NEW p \in Logins, Serve(p) PROVE failed \subseteq failed'
  BY <1>1 DEF Serve, IsLocked, IsLockedOffline, IsLockedCount, WrongPassword, RightPassword,
     LookupFails, RecordGet, RecordSet, RecordOffline, RecordInsert, ClearDel, ClearOffline,
     ClearInsert
<1>2. QED
  BY <1>1 DEF Next, KeyExpires, RowLeavesWindow, AllServed, vars

\* A login is refused by a step that saw a full counter or enough rows.
LEMMA RefusalStep ==
    ASSUME TypeOK, [Next]_vars, NEW p \in Logins,
           pc[p] \notin {"locked", "locked.rows"}, pc'[p] \in {"locked", "locked.rows"}
    PROVE  counter >= MaxAttempts \/ Cardinality(Failures) >= MaxAttempts
<1>1. ASSUME NEW q \in Logins, Serve(q)
      PROVE  counter >= MaxAttempts \/ Cardinality(Failures) >= MaxAttempts
  <2>1. CASE IsLocked(q) \/ IsLockedCount(q)
    BY <2>1 DEF IsLocked, IsLockedCount, Goto, TypeOK
  <2>2. CASE ~(IsLocked(q) \/ IsLockedCount(q))
    BY <1>1, <2>2 DEF Serve, IsLockedOffline, WrongPassword, RightPassword, LookupFails,
       RecordGet, RecordSet, RecordOffline, RecordInsert, ClearDel, ClearOffline, ClearInsert,
       Goto, TypeOK
  <2>3. QED
    BY <2>1, <2>2
<1>2. QED
  BY <1>1 DEF Next, KeyExpires, RowLeavesWindow, AllServed, vars

\* A step preserves the justification of every refusal.
LEMMA JustifiedStep ==
    ASSUME TypeOK, CountBacked, LockoutJustified, [Next]_vars
    PROVE  LockoutJustified'
<1> SUFFICES ASSUME NEW p \in Logins, pc'[p] \in {"locked", "locked.rows"}
             PROVE  Cardinality(failed') >= MaxAttempts
  BY DEF LockoutJustified
<1>1. Cardinality(failed) \in Nat /\ Cardinality(failed') \in Nat
      /\ Cardinality(failed) <= Cardinality(failed')
  <2>1. failed \subseteq failed' /\ IsFiniteSet(failed')
    BY FailedGrows, TypeStep, FS_Subset DEF TypeOK
  <2>2. QED
    BY <2>1, FS_Subset, FS_CardinalityType
<1>2. CASE pc[p] \in {"locked", "locked.rows"}
  BY <1>1, <1>2 DEF LockoutJustified
<1>3. CASE pc[p] \notin {"locked", "locked.rows"}
  <2>1. counter >= MaxAttempts \/ Cardinality(Failures) >= MaxAttempts
    BY <1>3, RefusalStep
  <2>2. Cardinality(failed) >= MaxAttempts
    BY <2>1, Sizes DEF CountBacked, TypeOK
  <2>3. QED
    BY <1>1, <2>2
<1>4. QED
  BY <1>2, <1>3

-----------------------------------------------------------------------------
(* What overlaps, and what the counter stands for after a success and in a   *)
(* sequence of failures.                                                     *)

\* A login that has begun keeps what it has found ended, and does not begin again.
LEMMA Begun ==
    ASSUME TypeOK, [Next]_vars, NEW p \in Logins, pc[p] # "idle"
    PROVE  before'[p] = before[p] /\ pc'[p] # "idle"
<1>1. ASSUME NEW q \in Logins, Serve(q) PROVE before'[p] = before[p] /\ pc'[p] # "idle"
  BY <1>1 DEF Serve, IsLocked, IsLockedOffline, IsLockedCount, WrongPassword, RightPassword,
     LookupFails, RecordGet, RecordSet, RecordOffline, RecordInsert, ClearDel, ClearOffline,
     ClearInsert, Goto, TypeOK
<1>2. QED
  BY <1>1 DEF Next, KeyExpires, RowLeavesWindow, AllServed, vars

\* A login that has ended takes no further step.
LEMMA OutcomeStays ==
    ASSUME TypeOK, [Next]_vars, NEW p \in Logins, pc[p] \in Outcomes
    PROVE  pc'[p] = pc[p]
<1>1. ASSUME NEW q \in Logins, Serve(q) PROVE pc'[p] = pc[p]
  BY <1>1 DEF Serve, IsLocked, IsLockedOffline, IsLockedCount, WrongPassword, RightPassword,
     LookupFails, RecordGet, RecordSet, RecordOffline, RecordInsert, ClearDel, ClearOffline,
     ClearInsert, Goto, TypeOK, Outcomes, Refusals
<1>2. QED
  BY <1>1 DEF Next, KeyExpires, RowLeavesWindow, AllServed, vars

\* Two logins that are both under way overlap.
LEMMA UnderWay ==
    ASSUME Histories, NEW p \in Logins, NEW q \in Logins,
           pc[p] \notin Outcomes, pc[q] \notin Outcomes
    PROVE  Overlap(p, q)
BY DEF Histories, Ended, Overlap

\* The counter is kept, deleted, or written by one login, and a value read from
\* it is the counter of that moment.
LEMMA CounterFate ==
    ASSUME TypeOK, [Next]_vars
    PROVE  /\ \/ counter' = counter /\ fresh' = fresh
              \/ counter' = 0 /\ fresh' = {}
              \/ \E q \in Logins : /\ pc[q] = "record.set" /\ counter' = current[q] + 1
                                   /\ pc' = [pc EXCEPT ![q] = pc'[q]]
                                   /\ pc'[q] \in {"unauthorized", "record.insert"}
                                   /\ fresh' = fresh \cup {q} /\ failed' = failed
           /\ \A q \in Logins : pc'[q] = "record.set" =>
                \/ pc[q] = "record.set" /\ current'[q] = current[q]
                \/ current'[q] = counter /\ counter' = counter /\ fresh' = fresh
<1> DEFINE Kept == \/ counter' = counter /\ fresh' = fresh
                   \/ counter' = 0 /\ fresh' = {}
           Written == \E q \in Logins :
                        /\ pc[q] = "record.set" /\ counter' = current[q] + 1
                        /\ pc' = [pc EXCEPT ![q] = pc'[q]]
                        /\ pc'[q] \in {"unauthorized", "record.insert"}
                        /\ fresh' = fresh \cup {q} /\ failed' = failed
           Read == \A q \in Logins : pc'[q] = "record.set" =>
                     \/ pc[q] = "record.set" /\ current'[q] = current[q]
                     \/ current'[q] = counter /\ counter' = counter /\ fresh' = fresh
<1>1. ASSUME NEW p \in Logins, Serve(p) PROVE (Kept \/ Written) /\ Read
  <2>1. CASE \/ IsLocked(p) \/ IsLockedOffline(p) \/ IsLockedCount(p)
             \/ WrongPassword(p) \/ RightPassword(p) \/ LookupFails(p) \/ RecordInsert(p)
             \/ RecordGet(p) \/ ClearInsert(p)
    BY <2>1 DEF IsLocked, IsLockedOffline, IsLockedCount, WrongPassword, RightPassword,
       LookupFails, RecordInsert, RecordGet, ClearInsert, Goto, TypeOK
  <2>2. CASE RecordSet(p)
    BY <2>2 DEF RecordSet, WriteCounter, Goto, TypeOK
  <2>3. CASE RecordOffline(p)
    BY <2>3 DEF RecordOffline, WriteCounter, Goto, TypeOK
  <2>4. CASE ClearDel(p) \/ ClearOffline(p)
    BY <2>4 DEF ClearDel, ClearOffline, DeleteKey, Goto, TypeOK
  <2>5. QED
    BY <1>1, <2>1, <2>2, <2>3, <2>4 DEF Serve
<1>2. CASE KeyExpires
  BY <1>2 DEF KeyExpires, DeleteKey
<1>3. CASE UNCHANGED vars \/ \E row \in attempts : RowLeavesWindow(row)
  BY <1>3 DEF vars, RowLeavesWindow
<1>4. QED
  BY <1>1, <1>2, <1>3 DEF Next, AllServed

\* Who deletes the key on success is past its password check.
LEMMA Clearing ==
    ASSUME TypeOK, [Next]_vars, NEW s \in cleared', s \notin cleared
    PROVE  /\ s \in Logins /\ pc[s] = "clear.del" /\ pc' = [pc EXCEPT ![s] = "clear.insert"]
           /\ current' = current /\ failed' = failed
<1>1. ASSUME NEW p \in Logins, Serve(p)
      PROVE  /\ s = p /\ pc[p] = "clear.del" /\ pc' = [pc EXCEPT ![p] = "clear.insert"]
             /\ current' = current /\ failed' = failed
  BY <1>1 DEF Serve, IsLocked, IsLockedOffline, IsLockedCount, WrongPassword, RightPassword,
     LookupFails, RecordGet, RecordSet, RecordOffline, RecordInsert, ClearDel, ClearOffline,
     ClearInsert, Goto
<1>2. QED
  BY <1>1 DEF Next, KeyExpires, RowLeavesWindow, AllServed, vars

\* A deletion is never forgotten.
LEMMA ClearedGrows == [Next]_vars => cleared \subseteq cleared'
<1>1. ASSUME NEW p \in Logins, Serve(p) PROVE cleared \subseteq cleared'
  BY <1>1 DEF Serve, IsLocked, IsLockedOffline, IsLockedCount, WrongPassword, RightPassword,
     LookupFails, RecordGet, RecordSet, RecordOffline, RecordInsert, ClearDel, ClearOffline,
     ClearInsert
<1>2. QED
  BY <1>1 DEF Next, KeyExpires, RowLeavesWindow, AllServed, vars

\* A step preserves the histories.
LEMMA HistoriesStep ==
    ASSUME TypeOK, TypeOK', CountBacked, Histories, [Next]_vars
    PROVE  Histories'
<1>1. Ended \subseteq Ended'
  BY OutcomeStays DEF Ended
<1>2. ASSUME NEW p \in Logins PROVE before'[p] \subseteq Ended'
  <2>1. before'[p] = before[p] \/ before'[p] = Ended
    <3>1. ASSUME NEW q \in Logins, Serve(q) PROVE before'[p] = before[p] \/ before'[p] = Ended
      BY <3>1 DEF Serve, IsLocked, IsLockedOffline, IsLockedCount, WrongPassword,
         RightPassword, LookupFails, RecordGet, RecordSet, RecordOffline, RecordInsert,
         ClearDel, ClearOffline, ClearInsert, TypeOK
    <3>2. QED
      BY <3>1 DEF Next, KeyExpires, RowLeavesWindow, AllServed, vars
  <2>2. QED
    BY <1>1, <2>1 DEF Histories
<1>3. fresh' \subseteq failed'
  BY CounterFate, FailedGrows DEF CountBacked, Histories
<1>4. ASSUME NEW s \in cleared' PROVE pc'[s] \in {"clear.insert", "ok"}
  <2>1. CASE s \notin cleared
    BY <1>4, <2>1, Clearing DEF TypeOK
  <2>2. CASE s \in cleared
    <3>1. pc[s] \in {"clear.insert", "ok"} /\ s \in Logins
      BY <2>2 DEF Histories, TypeOK
    <3>2. ASSUME NEW q \in Logins, Serve(q) PROVE pc'[s] \in {"clear.insert", "ok"}
      BY <3>1, <3>2 DEF Serve, IsLocked, IsLockedOffline, IsLockedCount, WrongPassword,
         RightPassword, LookupFails, RecordGet, RecordSet, RecordOffline, RecordInsert,
         ClearDel, ClearOffline, ClearInsert, Goto, TypeOK
    <3>3. QED
      BY <3>1, <3>2 DEF Next, KeyExpires, RowLeavesWindow, AllServed, vars
  <2>3. QED
    BY <2>1, <2>2
<1>5. QED
  BY <1>2, <1>3, <1>4 DEF Histories

\* Whether failed or cleared logins overlap is settled.
LEMMA OverlapStays ==
    ASSUME TypeOK, CountBacked, Histories, [Next]_vars,
           NEW f \in failed \cup cleared, NEW s \in failed \cup cleared
    PROVE  Overlap(f, s)' = Overlap(f, s)
<1>1. f \in Logins /\ s \in Logins /\ pc[f] # "idle" /\ pc[s] # "idle"
  BY DEF TypeOK, CountBacked, Histories
<1>2. before'[f] = before[f] /\ before'[s] = before[s]
  BY <1>1, Begun
<1>3. QED
  BY <1>2 DEF Overlap

\* The failures after s that the counter stands for.
Later(s) == Since(s) \cap Counted

\* They are finitely many and only become more.
LEMMA LaterGrows ==
    ASSUME TypeOK, TypeOK', CountBacked, Histories, [Next]_vars, NEW s \in cleared
    PROVE  /\ Since(s) \subseteq Since(s)' /\ Later(s) \subseteq Later(s)'
           /\ IsFiniteSet(Later(s)) /\ IsFiniteSet(Later(s)')
           /\ IsFiniteSet(Since(s)) /\ IsFiniteSet(Since(s)')
           /\ Cardinality(Later(s)) \in Nat /\ Cardinality(Later(s)') \in Nat
           /\ Cardinality(Since(s)) \in Nat /\ Cardinality(Since(s)') \in Nat
           /\ Cardinality(Later(s)) <= Cardinality(Later(s)')
           /\ Cardinality(Later(s)) <= Cardinality(Since(s))
           /\ Cardinality(Since(s)) <= Cardinality(Since(s)')
<1>1. failed \subseteq failed'
  BY FailedGrows
<1>2. before'[s] = before[s]
  BY Begun DEF Histories, TypeOK
<1>3. Since(s) \subseteq Since(s)'
  BY <1>1, <1>2 DEF Since
<1>4. ASSUME NEW f \in Counted PROVE f \in Counted'
  <2>1. f \in failed /\ f \in Logins /\ pc[f] \notin {"record.get", "record.set", "compare"}
    BY DEF Counted, CountBacked, TypeOK
  <2>2. pc'[f] \notin {"record.get", "record.set"}
    <3>1. ASSUME NEW q \in Logins, Serve(q) PROVE pc'[f] \notin {"record.get", "record.set"}
      BY <2>1, <3>1 DEF Serve, IsLocked, IsLockedOffline, IsLockedCount, WrongPassword,
         RightPassword, LookupFails, RecordGet, RecordSet, RecordOffline, RecordInsert,
         ClearDel, ClearOffline, ClearInsert, Goto, TypeOK
    <3>2. QED
      BY <2>1, <3>1 DEF Next, KeyExpires, RowLeavesWindow, AllServed, vars
  <2>3. QED
    BY <1>1, <2>1, <2>2 DEF Counted
<1>5. Later(s) \subseteq Later(s)' /\ Later(s) \subseteq Since(s)
  BY <1>3, <1>4 DEF Later
<1>6. Since(s) \subseteq Logins /\ Since(s)' \subseteq Logins /\ Later(s)' \subseteq Logins
  BY DEF Since, Later, TypeOK
<1>7. /\ IsFiniteSet(Since(s)) /\ IsFiniteSet(Since(s)')
      /\ IsFiniteSet(Later(s)) /\ IsFiniteSet(Later(s)')
  BY <1>5, <1>6, FS_Subset
<1>8. QED
  BY <1>3, <1>5, <1>7, FS_Subset, FS_CardinalityType

\* A step keeps the counter to failures that came after each success.
LEMMA ResetStep ==
    ASSUME TypeOK, TypeOK', CountBacked, Histories, ResetBacked, [Next]_vars
    PROVE  ResetBacked'
<1> SUFFICES ASSUME NEW s \in cleared', \A f \in failed' : ~Overlap(f, s)'
             PROVE  /\ counter' <= Cardinality(Later(s)')
                    /\ \A q \in Logins :
                         pc'[q] = "record.set" => current'[q] <= Cardinality(Later(s)')
  BY DEF ResetBacked, Later
<1>1. CASE s \notin cleared
  <2>1. /\ s \in Logins /\ pc[s] = "clear.del" /\ pc' = [pc EXCEPT ![s] = "clear.insert"]
        /\ current' = current /\ failed' = failed
    BY <1>1, Clearing
  <2>2. pc'[s] = "clear.insert"
    BY <2>1 DEF TypeOK
  <2>3. Histories'
    BY HistoriesStep
  <2>4. ASSUME NEW q \in Logins, pc'[q] = "record.set" PROVE FALSE
    <3>1. q \in failed'
      BY <2>1, <2>2, <2>4 DEF CountBacked, TypeOK
    <3>2. q \notin Ended' /\ s \notin Ended'
      BY <2>2, <2>4 DEF Ended, Outcomes, Refusals
    <3>3. Overlap(q, s)'
      BY <2>1, <2>3, <3>2 DEF Histories, Overlap
    <3>4. QED
      BY <3>1, <3>3
  <2>5. counter' = 0
    <3>1. ASSUME NEW p \in Logins, Serve(p) PROVE counter' = 0
      BY <1>1, <3>1 DEF Serve, IsLocked, IsLockedOffline, IsLockedCount, WrongPassword,
         RightPassword, LookupFails, RecordGet, RecordSet, RecordOffline, RecordInsert,
         ClearDel, ClearOffline, ClearInsert, DeleteKey
    <3>2. QED
      BY <1>1, <3>1 DEF Next, KeyExpires, RowLeavesWindow, AllServed, vars
  <2>6. Cardinality(Later(s)') \in Nat
    <3>1. Later(s)' \subseteq Logins
      BY DEF Later, Since, TypeOK
    <3>2. QED
      BY <3>1, FS_Subset, FS_CardinalityType
  <2>7. QED
    BY <2>4, <2>5, <2>6
<1>2. CASE s \in cleared
  <2>1. \A f \in failed : ~Overlap(f, s)
    BY <1>2, OverlapStays, FailedGrows
  <2>2. /\ counter <= Cardinality(Later(s))
        /\ \A q \in Logins : pc[q] = "record.set" => current[q] <= Cardinality(Later(s))
    BY <1>2, <2>1 DEF ResetBacked, Later
  <2>3. /\ Cardinality(Later(s)) \in Nat /\ Cardinality(Later(s)') \in Nat
        /\ Cardinality(Later(s)) <= Cardinality(Later(s)')
        /\ Later(s) \subseteq Later(s)' /\ IsFiniteSet(Later(s)) /\ IsFiniteSet(Later(s)')
    BY <1>2, LaterGrows
  <2>4. counter' <= Cardinality(Later(s)')
    <3>1. CASE counter' = counter \/ counter' = 0
      BY <2>2, <2>3, <3>1 DEF TypeOK
    <3>2. ASSUME NEW q \in Logins, pc[q] = "record.set", counter' = current[q] + 1,
                 pc' = [pc EXCEPT ![q] = pc'[q]],
                 pc'[q] \in {"unauthorized", "record.insert"}, failed' = failed
          PROVE  counter' <= Cardinality(Later(s)')
      <4>1. q \in failed /\ q \in failed' /\ q \notin Counted /\ q \in Counted'
        BY <3>2 DEF CountBacked, Counted
      <4>2. q \notin before[s]
        <5>1. s \in Logins
          BY <1>2 DEF TypeOK
        <5>2. q \notin Ended
          BY <3>2 DEF Ended, Outcomes, Refusals
        <5>3. QED
          BY <5>1, <5>2 DEF Histories
      <4>3. before'[s] = before[s]
        BY <1>2, Begun DEF Histories, TypeOK
      <4>4. q \in Later(s)' /\ q \notin Later(s)
        BY <4>1, <4>2, <4>3 DEF Later, Since
      <4>5. Cardinality(Later(s) \cup {q}) = Cardinality(Later(s)) + 1
        BY <2>3, <4>4, FS_AddElement
      <4>6. Cardinality(Later(s) \cup {q}) <= Cardinality(Later(s)')
        BY <2>3, <4>4, FS_Subset
      <4>7. QED
        BY <2>2, <2>3, <3>2, <4>5, <4>6 DEF TypeOK
    <3>3. QED
      BY <3>1, <3>2, CounterFate
  <2>5. ASSUME NEW q \in Logins, pc'[q] = "record.set"
        PROVE  current'[q] <= Cardinality(Later(s)')
    BY <2>2, <2>3, <2>5, CounterFate DEF TypeOK
  <2>6. QED
    BY <2>4, <2>5
<1>3. QED
  BY <1>1, <1>2

\* A step keeps what a success has promised: only IsLocked refuses by the counter.
LEMMA SuccessStep ==
    ASSUME TypeOK, TypeOK', CountBacked, Histories, ResetBacked, SuccessResets, [Next]_vars
    PROVE  SuccessResets'
<1> SUFFICES ASSUME NEW p \in Logins, NEW s \in Logins,
                    pc'[p] = "locked", s \in cleared', s \in before'[p],
                    \A f \in failed' : ~Overlap(f, s)'
             PROVE  Cardinality(Since(s)') >= MaxAttempts
  BY DEF SuccessResets
<1>1. s \in cleared
  <2> SUFFICES ASSUME s \notin cleared PROVE FALSE
    OBVIOUS
  <2>1. pc'[s] = "clear.insert"
    BY Clearing DEF TypeOK
  <2>2. s \in Ended'
    BY HistoriesStep DEF Histories
  <2>3. QED
    BY <2>1, <2>2 DEF Ended, Outcomes, Refusals
<1>2. \A f \in failed : ~Overlap(f, s)
  BY <1>1, OverlapStays, FailedGrows
<1>3. /\ Cardinality(Later(s)) \in Nat
      /\ Cardinality(Since(s)) \in Nat /\ Cardinality(Since(s)') \in Nat
      /\ Cardinality(Later(s)) <= Cardinality(Since(s))
      /\ Cardinality(Since(s)) <= Cardinality(Since(s)')
  BY <1>1, LaterGrows
<1>4. CASE pc[p] = "locked"
  <2>1. s \in before[p]
    BY <1>4, Begun
  <2>2. Cardinality(Since(s)) >= MaxAttempts
    BY <1>1, <1>2, <1>4, <2>1 DEF SuccessResets
  <2>3. QED
    BY <1>3, <2>2
<1>5. CASE pc[p] # "locked"
  <2>1. counter >= MaxAttempts
    <3>1. ASSUME NEW q \in Logins, Serve(q) PROVE counter >= MaxAttempts
      BY <1>5, <3>1 DEF Serve, IsLocked, IsLockedOffline, IsLockedCount, WrongPassword,
         RightPassword, LookupFails, RecordGet, RecordSet, RecordOffline, RecordInsert,
         ClearDel, ClearOffline, ClearInsert, Goto, TypeOK
    <3>2. QED
      BY <1>5, <3>1 DEF Next, KeyExpires, RowLeavesWindow, AllServed, vars
  <2>2. counter <= Cardinality(Later(s))
    BY <1>1, <1>2 DEF ResetBacked, Later
  <2>3. QED
    BY <1>3, <2>1, <2>2 DEF TypeOK
<1>6. QED
  BY <1>4, <1>5

\* A step keeps failures in sequence counted.
LEMMA CompleteStep ==
    ASSUME TypeOK, TypeOK', CountBacked, Histories, CountComplete, [Next]_vars
    PROVE  CountComplete'
<1> SUFFICES ASSUME InSequence'
             PROVE  /\ Cardinality(fresh') <= counter'
                    /\ \A q \in Logins : pc'[q] = "record.set" =>
                         Cardinality(fresh') <= current'[q]
  BY DEF CountComplete
<1>1. IsFiniteSet(fresh) /\ Cardinality(fresh) \in Nat
  BY FS_Subset, FS_CardinalityType DEF TypeOK
<1>2. ASSUME fresh \subseteq fresh' PROVE InSequence
  <2> SUFFICES ASSUME NEW f \in fresh, NEW g \in failed \ {f} PROVE ~Overlap(f, g)
    BY DEF InSequence
  <2>1. f \in fresh' /\ g \in failed' \ {f} /\ f \in failed
    BY <1>2, FailedGrows DEF Histories
  <2>2. ~Overlap(f, g)'
    BY <2>1 DEF InSequence
  <2>3. QED
    BY <2>1, <2>2, OverlapStays
<1>3. CASE counter' = counter /\ fresh' = fresh
  <2>1. InSequence
    BY <1>2, <1>3
  <2>2. QED
    BY <1>3, <2>1, CounterFate DEF CountComplete
<1>4. CASE counter' = 0 /\ fresh' = {}
  <2>1. Cardinality(fresh') = 0
    BY <1>4, FS_EmptySet
  <2>2. QED
    BY <1>4, <2>1 DEF TypeOK
<1>5. ASSUME NEW q \in Logins, pc[q] = "record.set", counter' = current[q] + 1,
             pc' = [pc EXCEPT ![q] = pc'[q]],
             pc'[q] \in {"unauthorized", "record.insert"}, fresh' = fresh \cup {q},
             failed' = failed
      PROVE  /\ Cardinality(fresh') <= counter'
             /\ \A r \in Logins : pc'[r] = "record.set" => Cardinality(fresh') <= current'[r]
  <2>1. InSequence /\ q \in failed
    BY <1>2, <1>5 DEF CountBacked
  <2>2. Cardinality(fresh) <= current[q]
    BY <1>5, <2>1 DEF CountComplete
  <2>3. Cardinality(fresh') \in Nat /\ Cardinality(fresh') <= Cardinality(fresh) + 1
    <3>1. Cardinality(fresh \cup {q}) = IF q \in fresh THEN Cardinality(fresh)
                                                      ELSE Cardinality(fresh) + 1
      BY <1>1, FS_AddElement
    <3>2. QED
      BY <1>1, <1>5, <3>1
  <2>4. Cardinality(fresh') <= counter'
    BY <1>1, <1>5, <2>2, <2>3 DEF TypeOK
  <2>5. ASSUME NEW r \in Logins, pc'[r] = "record.set" PROVE FALSE
    <3>1. pc[r] = "record.set" /\ r # q /\ r \in failed
      BY <1>5, <2>5 DEF TypeOK, CountBacked
    <3>2. Overlap(q, r)
      BY <1>5, <3>1, UnderWay DEF Outcomes, Refusals
    <3>3. Overlap(q, r)'
      BY <2>1, <3>1, <3>2, OverlapStays
    <3>4. QED
      BY <1>5, <3>1, <3>3 DEF InSequence
  <2>6. QED
    BY <2>4, <2>5
<1>6. QED
  BY <1>3, <1>4, <1>5, CounterFate

\* A step preserves the strengthening.
LEMMA IInvStep == IInv /\ [Next]_vars => IInv'
<1> SUFFICES ASSUME IInv, [Next]_vars PROVE IInv'
  OBVIOUS
<1>1. TypeOK' /\ CountBacked' /\ LockoutJustified'
  BY TypeStep, CountStep, JustifiedStep DEF IInv
<1>2. Histories'
  BY <1>1, HistoriesStep DEF IInv
<1>3. ResetBacked'
  BY <1>1, ResetStep DEF IInv
<1>4. SuccessResets'
  BY <1>1, SuccessStep DEF IInv
<1>5. CountComplete'
  BY <1>1, CompleteStep DEF IInv
<1>6. QED
  BY <1>1, <1>2, <1>3, <1>4, <1>5 DEF IInv

-----------------------------------------------------------------------------
\* The inductive invariant holds of every behaviour.
THEOREM Inductive == Spec => []IInv
BY IInvInit, IInvStep, PTL DEF Spec

\* CacheLoginAttemptTracker never refuses a login by its count unless that many
\* wrong passwords have been given, whatever interleaves or fails.
THEOREM LockoutIsJustified == Spec => []LockoutJustified
<1>1. IInv => LockoutJustified
  BY DEF IInv
<1>2. QED
  BY Inductive, <1>1, PTL

\* A successful login resets the count, whatever fails: a later refusal by the
\* counter rests on MAX_ATTEMPTS later failures or on one that overlapped it.
THEOREM SuccessIsReset == Spec => []SuccessResets
<1>1. IInv => SuccessResets
  BY DEF IInv
<1>2. QED
  BY Inductive, <1>1, PTL

\* Failures given one after the other are never lost from the counter: with
\* MAX_ATTEMPTS of them no login passes isLocked on it.
THEOREM SequencesLock == Spec => SequentialFailuresLock
<1> DEFINE Passes == \A p \in Logins :
             pc[p] = "idle" /\ pc'[p] = "compare" /\ InSequence
             => Cardinality(fresh) < MaxAttempts
<1>1. IInv /\ [Next]_vars => [Passes]_vars
  <2> SUFFICES ASSUME IInv, [Next]_vars, NEW p \in Logins,
                      pc[p] = "idle", pc'[p] = "compare", InSequence
               PROVE  Cardinality(fresh) < MaxAttempts
    OBVIOUS
  <2>1. counter < MaxAttempts
    <3>1. ASSUME NEW q \in Logins, Serve(q) PROVE counter < MaxAttempts
      <4>1. CASE IsLocked(q)
        BY <4>1 DEF IsLocked, Goto, IInv, TypeOK
      <4>2. CASE ~IsLocked(q)
        BY <3>1, <4>2 DEF Serve, IsLockedOffline, IsLockedCount, WrongPassword,
           RightPassword, LookupFails, RecordGet, RecordSet, RecordOffline, RecordInsert,
           ClearDel, ClearOffline, ClearInsert, Goto, IInv, TypeOK
      <4>3. QED
        BY <4>1, <4>2
    <3>2. QED
      BY <3>1 DEF Next, KeyExpires, RowLeavesWindow, AllServed, vars
  <2>2. Cardinality(fresh) <= counter /\ Cardinality(fresh) \in Nat
    BY FS_Subset, FS_CardinalityType DEF IInv, CountComplete, TypeOK
  <2>3. QED
    BY <2>1, <2>2 DEF IInv, TypeOK
<1>2. QED
  BY <1>1, Inductive, PTL DEF Spec, SequentialFailuresLock
=============================================================================
