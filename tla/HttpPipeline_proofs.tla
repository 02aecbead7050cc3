------------------------ MODULE HttpPipeline_proofs ------------------------
(***************************************************************************)
(* HttpPipeline: its invariants, for any number of requests, addresses,    *)
(* companies, tiers and buckets, and any limits.                           *)
(***************************************************************************)
EXTENDS HttpPipeline, TLAPS

USE HttpPipelineAssumption, NoneApart

-----------------------------------------------------------------------------
(* Types.                                                                  *)

LEMMA InitTyped == Init => TypeOK
BY DEF Init, TypeOK, Labels, Keys

\* What is sent is a status.
LEMMA StatusTyped == \A e \in Errors : StatusOf(e) \in Statuses
BY DEF StatusOf, Errors, Statuses

\* The metrics are numbers, also after an observation.
LEMMA ObserveTyped ==
    ASSUME TypeOK, NEW l \in Labels, NEW d \in 1..(Buckets + 1), Observe(l, d)
    PROVE  /\ total' \in [Labels -> Nat] /\ errors' \in [Labels -> Nat]
           /\ bucket' \in [Labels -> [1..Buckets -> Nat]] /\ count' \in [Labels -> Nat]
<1> USE DEF TypeOK
<1>1. \A f \in [Labels -> Nat] : Inc(f, l) \in [Labels -> Nat]
  BY DEF Inc
<1>2. bucket' \in [Labels -> [1..Buckets -> Nat]]
  <2>1. InBuckets(d, bucket[l]) \in [1..Buckets -> Nat]
    BY DEF InBuckets
  <2> QED BY <2>1 DEF Observe
<1> QED BY <1>1, <1>2 DEF Observe

LEMMA HandleTyped ==
    ASSUME TypeOK, Staged, NEW r \in Requests, Handle(r)
    PROVE  TypeOK'
<1>1. CASE Arrive(r)
  <2>1. asked' \in [Empresas -> Nat]
    BY <1>1 DEF Arrive, TypeOK
  <2> QED BY <1>1, <2>1 DEF TypeOK, Arrive, Goto, metrics
<1>2. CASE Throttle(r)
  <2>1. ask[r] \in Ask /\ user[r] = None
    BY <1>2 DEF Throttle, TypeOK, Staged
  <2>2. <<ask[r].kind, Tracker(r), tier[r]>> \in Keys
    BY <2>1 DEF Tracker, TenantOf, Keys, TypeOK, Ask
  <2>3. <<ask[r].kind, ask[r].ip, tier[r]>> \in Keys
    BY <2>1 DEF Keys, TypeOK, Ask
  <2>4. hits' \in [Keys -> Nat]
    BY <1>2, <2>2 DEF Throttle, TypeOK
  <2>5. \/ UNCHANGED <<tier, passed>>
        \/ /\ tier' = [tier EXCEPT ![r] = IF @ < Tiers THEN @ + 1 ELSE @]
           /\ passed' = [passed EXCEPT ![<<ask[r].kind, ask[r].ip, tier[r]>>] = @ + 1]
    BY <1>2 DEF Throttle
  <2>6. passed' \in [Keys -> Nat] /\ tier' \in [Requests -> 1..Tiers]
    <3>1. tier[r] \in 1..Tiers
      BY DEF TypeOK
    <3>2. tier[r] < Tiers => tier[r] + 1 \in 1..Tiers
      BY <3>1
    <3>3. tier' \in [Requests -> 1..Tiers]
      BY <2>5, <3>1, <3>2 DEF TypeOK
    <3>4. passed' \in [Keys -> Nat]
      <4> DEFINE own == <<ask[r].kind, ask[r].ip, tier[r]>>
      <4>1. own \in Keys /\ passed[own] + 1 \in Nat /\ passed \in [Keys -> Nat]
        BY <2>3 DEF TypeOK
      <4>2. passed' = passed \/ passed' = [passed EXCEPT ![own] = passed[own] + 1]
        BY <2>5
      <4> HIDE DEF own
      <4> QED BY <4>1, <4>2
    <3> QED BY <3>3, <3>4
  <2> QED BY <1>2, <2>4, <2>5, <2>6 DEF TypeOK, Throttle, Goto, Throw, metrics, Errors
<1>3. CASE ThrottleFails(r)
  BY <1>3 DEF TypeOK, ThrottleFails, Throw, metrics, Errors
<1>4. CASE Authenticate(r)
  <2>1. ask[r] \in Ask
    BY <1>4 DEF Authenticate, TypeOK, Staged
  <2> QED BY <1>4, <2>1 DEF TypeOK, Authenticate, Goto, Throw, metrics, Errors, Ask
<1>5. CASE Authorize(r)
  <2>1. ask[r] \in Ask
    BY <1>5 DEF Authorize, TypeOK, Staged
  <2> QED BY <1>5, <2>1 DEF TypeOK, Authorize, Goto, Throw, metrics, Errors, Ask, EmpresaOf
<1>6. ASSUME at[r] = "run", Measure(r)
      PROVE  /\ ask[r].kind \in Kinds
             /\ total' \in [Labels -> Nat] /\ errors' \in [Labels -> Nat]
             /\ bucket' \in [Labels -> [1..Buckets -> Nat]] /\ count' \in [Labels -> Nat]
  <2>1. ask[r] \in Ask
    BY <1>6 DEF TypeOK, Staged
  <2>2. <<ask[r].kind, "2xx">> \in Labels /\ ask[r].kind \in Kinds
    BY <2>1 DEF Labels, Ask
  <2> QED BY <1>6, <2>2, ObserveTyped DEF Measure
<1>7. CASE Return(r)
  <2>1. settled' \in [Kinds -> Nat]
    BY <1>6, <1>7 DEF TypeOK, Return
  <2>2. audited' \subseteq Requests
    BY <1>7 DEF TypeOK, Return
  <2> QED BY <1>6, <1>7, <2>1, <2>2 DEF TypeOK, Return, Goto
<1>8. CASE Fail(r)
  <2>1. settled' \in [Kinds -> Nat]
    BY <1>6, <1>8 DEF TypeOK, Fail
  <2> QED BY <1>6, <1>8, <2>1 DEF TypeOK, Fail, Throw, Errors
<1>9. CASE Reply(r)
  <2>1. CASE End(r, "2xx")
    BY <1>9, <2>1 DEF TypeOK, Reply, End, metrics, Statuses
  <2>2. CASE Throw(r, "other") /\ UNCHANGED <<tier, ask, user, answer>>
    BY <1>9, <2>2 DEF TypeOK, Reply, Throw, metrics, Errors
  <2> QED BY <1>9, <2>1, <2>2 DEF Reply
<1>10. CASE Filter(r)
  <2>1. error[r] \in Errors
    BY <1>10 DEF Filter, TypeOK, Staged
  <2>2. PICK s \in {StatusOf(error[r])} \cup EmergencyReply : End(r, s)
    BY <1>10 DEF Filter
  <2>3. s \in Statuses \cup {None, "lost"}
    BY <2>1, <2>2, StatusTyped DEF EmergencyReply, Statuses
  <2> QED BY <1>10, <2>2, <2>3 DEF TypeOK, Filter, End, metrics
<1> QED BY <1>1, <1>2, <1>3, <1>4, <1>5, <1>7, <1>8, <1>9, <1>10 DEF Handle

-----------------------------------------------------------------------------
(* Stages.                                                                 *)

LEMMA InitStaged == Init => Staged
<1> SUFFICES ASSUME Init PROVE Staged
  OBVIOUS
<1>1. \A r \in Requests : /\ at[r] = "idle" /\ ask[r] = None /\ user[r] = None
                           /\ ctx[r] = None /\ error[r] = None /\ answer[r] = None
  BY DEF Init
<1> QED BY <1>1 DEF Staged, Public

LEMMA HandleStaged ==
    ASSUME TypeOK, Staged, NEW r \in Requests, Handle(r)
    PROVE  Staged'
<1> USE DEF TypeOK, Staged, Public, Errors, Statuses
<1>1. CASE Arrive(r)
  BY <1>1 DEF Arrive, Goto, Ask
<1>2. CASE Throttle(r)
  BY <1>2 DEF Throttle, Goto, Throw
<1>3. CASE ThrottleFails(r)
  BY <1>3 DEF ThrottleFails, Throw
<1>4. CASE Authenticate(r)
  BY <1>4 DEF Authenticate, Goto, Throw, Public, Ask
<1>5. CASE Authorize(r)
  BY <1>5 DEF Authorize, Goto, Throw, EmpresaOf, Granted
<1>6. CASE Return(r)
  BY <1>6 DEF Return, Goto
<1>7. CASE Fail(r)
  BY <1>7 DEF Fail, Throw
<1>8. CASE Reply(r)
  BY <1>8 DEF Reply, End, Throw
<1>9. CASE Filter(r)
  <2>1. error[r] \in Errors
    BY <1>9 DEF Filter
  <2>2. PICK s \in {StatusOf(error[r])} \cup EmergencyReply : End(r, s)
    BY <1>9 DEF Filter
  <2>3. s # None
    BY <2>1, <2>2, StatusTyped DEF EmergencyReply
  <2> QED BY <1>9, <2>2, <2>3 DEF Filter, End
<1> QED BY <1>1, <1>2, <1>3, <1>4, <1>5, <1>6, <1>7, <1>8, <1>9 DEF Handle

-----------------------------------------------------------------------------
(* The throttler.                                                          *)

\* A request that is counted has no user yet: it is counted by address, with the
\* limit of FREE.
LEMMA CountedByAddress ==
    ASSUME TypeOK, Staged, NEW r \in Requests, Throttle(r)
    PROVE  \E k \in Keys :
             /\ hits' = [hits EXCEPT ![k] = @ + 1]
             /\ \/ UNCHANGED passed
                \/ hits[k] + 1 <= FreeLimit /\ passed' = [passed EXCEPT ![k] = @ + 1]
<1> DEFINE k == <<ask[r].kind, ask[r].ip, tier[r]>>
<1>1. ask[r] \in Ask /\ user[r] = None
  BY DEF Throttle, TypeOK, Staged
<1>2. k \in Keys
  BY <1>1 DEF Keys, TypeOK, Ask
<1>3. Tracker(r) = ask[r].ip /\ LimitsOf(r) = {FreeLimit}
  BY <1>1 DEF Tracker, LimitsOf, TenantOf
<1>4. hits' = [hits EXCEPT ![k] = @ + 1]
  BY <1>3 DEF Throttle
<1>5. UNCHANGED passed \/ (~(hits[k] + 1 > FreeLimit) /\ passed' = [passed EXCEPT ![k] = @ + 1])
  BY <1>3 DEF Throttle
<1>6. hits[k] \in Nat
  BY <1>2 DEF TypeOK
<1>7. UNCHANGED passed \/ (hits[k] + 1 <= FreeLimit /\ passed' = [passed EXCEPT ![k] = @ + 1])
  BY <1>5, <1>6
<1> HIDE DEF k
<1> QED BY <1>2, <1>4, <1>7

\* Counted and AddressBounded hold on.
LEMMA ThrottleBounded ==
    ASSUME TypeOK, Staged, Counted, AddressBounded, NEW r \in Requests, Throttle(r)
    PROVE  Counted' /\ AddressBounded'
<1>1. PICK k \in Keys :
        /\ hits' = [hits EXCEPT ![k] = @ + 1]
        /\ \/ UNCHANGED passed
           \/ hits[k] + 1 <= FreeLimit /\ passed' = [passed EXCEPT ![k] = @ + 1]
  BY CountedByAddress
<1>2. \A j \in Keys : hits[j] \in Nat /\ passed[j] \in Nat /\ passed[j] <= hits[j]
  BY DEF TypeOK, Counted
<1>3. \A j \in Keys : passed[j] <= FreeLimit
  BY DEF AddressBounded
<1>4. hits \in [Keys -> Nat] /\ passed \in [Keys -> Nat]
  BY DEF TypeOK
<1>5. \A j \in Keys : hits'[j] = IF j = k THEN hits[j] + 1 ELSE hits[j]
  BY <1>1, <1>4
<1>6. CASE UNCHANGED passed
  BY <1>2, <1>3, <1>5, <1>6 DEF Counted, AddressBounded
<1>7. CASE hits[k] + 1 <= FreeLimit /\ passed' = [passed EXCEPT ![k] = @ + 1]
  <2>1. \A j \in Keys : passed'[j] = IF j = k THEN passed[j] + 1 ELSE passed[j]
    BY <1>4, <1>7
  <2>2. \A j \in Keys : passed'[j] <= hits'[j] /\ passed'[j] <= FreeLimit
    BY <1>2, <1>3, <1>5, <1>7, <2>1
  <2> QED BY <2>2 DEF Counted, AddressBounded
<1> QED BY <1>1, <1>6, <1>7

\* At the end of a window both are 0.
LEMMA WindowBounded ==
    ASSUME TypeOK, Staged, Counted, AddressBounded, NEW k \in Keys, WindowEnds(k)
    PROVE  TypeOK' /\ Staged' /\ Counted' /\ AddressBounded'
<1>1. TypeOK'
  BY DEF TypeOK, WindowEnds, metrics
<1>2. Staged'
  BY DEF Staged, WindowEnds
<1>3. \A j \in Keys : /\ hits'[j] = IF j = k THEN 0 ELSE hits[j]
                      /\ passed'[j] = IF j = k THEN 0 ELSE passed[j]
  BY DEF TypeOK, WindowEnds
<1>4. Counted' /\ AddressBounded'
  BY <1>3 DEF Counted, AddressBounded
<1> QED BY <1>1, <1>2, <1>4

\* Only Throttle counts.
LEMMA HandleBounded ==
    ASSUME TypeOK, Staged, Counted, AddressBounded, NEW r \in Requests, Handle(r)
    PROVE  Counted' /\ AddressBounded'
<1>1. CASE Throttle(r)
  BY <1>1, ThrottleBounded
<1>2. ASSUME UNCHANGED <<hits, passed>> PROVE Counted' /\ AddressBounded'
  BY <1>2 DEF Counted, AddressBounded
<1>3. Handle(r) => Throttle(r) \/ UNCHANGED <<hits, passed>>
  BY DEF Handle, Arrive, ThrottleFails, Authenticate, Authorize, Return, Fail, Reply, Filter
<1> QED BY <1>1, <1>2, <1>3

-----------------------------------------------------------------------------
(* Context, audit and metrics.                                             *)

\* A handler of a route with a permission gets to run through Authorize alone.
LEMMA HandleChecked ==
    ASSUME TypeOK, Staged, RunsInCheckedCompany, NEW r \in Requests, Handle(r)
    PROVE  RunsInCheckedCompany'
<1> USE DEF RunsInCheckedCompany, TypeOK
<1>1. CASE Arrive(r)
  BY <1>1 DEF Arrive, Goto
<1>2. CASE Throttle(r)
  BY <1>2 DEF Throttle, Goto, Throw
<1>3. CASE ThrottleFails(r)
  BY <1>3 DEF ThrottleFails, Throw
<1>4. CASE Authenticate(r)
  BY <1>4 DEF Authenticate, Goto, Throw
<1>5. CASE Authorize(r)
  BY <1>5 DEF Authorize, Goto, Throw, EmpresaOf, Granted, Staged
<1>6. CASE Return(r)
  BY <1>6 DEF Return, Goto
<1>7. CASE Fail(r)
  BY <1>7 DEF Fail, Throw
<1>8. CASE Reply(r)
  BY <1>8 DEF Reply, End, Throw
<1>9. CASE Filter(r)
  BY <1>9 DEF Filter, End
<1> QED BY <1>1, <1>2, <1>3, <1>4, <1>5, <1>6, <1>7, <1>8, <1>9 DEF Handle

\* Only Return audits, and what comes after it fails with "other" or not at all.
LEMMA HandleAudited ==
    ASSUME TypeOK, Staged, AuditedDone, NEW r \in Requests, Handle(r)
    PROVE  AuditedDone'
<1> USE DEF AuditedDone, TypeOK
<1>1. CASE Arrive(r)
  BY <1>1 DEF Arrive, Goto
<1>2. CASE Throttle(r)
  BY <1>2 DEF Throttle, Goto, Throw
<1>3. CASE ThrottleFails(r)
  BY <1>3 DEF ThrottleFails, Throw
<1>4. CASE Authenticate(r)
  BY <1>4 DEF Authenticate, Goto, Throw
<1>5. CASE Authorize(r)
  BY <1>5 DEF Authorize, Goto, Throw
<1>6. CASE Return(r)
  <2>1. error[r] = None /\ answer[r] = None
    BY <1>6 DEF Return, Staged
  <2> QED BY <1>6, <2>1 DEF Return, Goto
<1>7. CASE Fail(r)
  BY <1>7 DEF Fail, Throw
<1>8. CASE Reply(r)
  <2>1. answer[r] = None
    BY <1>8 DEF Reply, Staged
  <2> QED BY <1>8, <2>1 DEF Reply, End, Throw
<1>9. CASE Filter(r)
  <2>1. PICK s \in {StatusOf(error[r])} \cup EmergencyReply : End(r, s)
    BY <1>9 DEF Filter
  <2>2. r \in audited => s \in {"500", "lost"}
    BY <1>9, <2>1 DEF Filter, Staged, StatusOf, EmergencyReply
  <2> QED BY <1>9, <2>1, <2>2 DEF Filter, End
<1> QED BY <1>1, <1>2, <1>3, <1>4, <1>5, <1>6, <1>7, <1>8, <1>9 DEF Handle

\* An observation keeps the buckets cumulative and the counters equal.
LEMMA MeasureAgrees ==
    ASSUME TypeOK, Staged, MetricsAgree, NEW r \in Requests, at[r] = "run", Measure(r),
           settled' = [settled EXCEPT ![ask[r].kind] = @ + 1]
    PROVE  MetricsAgree'
<1> DEFINE l == <<ask[r].kind, "2xx">>
<1>1. ask[r].kind \in Kinds
  BY DEF TypeOK, Staged, Ask
<1>2. l \in Labels
  BY <1>1 DEF Labels
<1>3. PICK d \in 1..(Buckets + 1) : Observe(l, d)
  BY DEF Measure
<1>4. /\ total' = [total EXCEPT ![l] = @ + 1]
      /\ count' = [count EXCEPT ![l] = @ + 1]
      /\ bucket' = [bucket EXCEPT ![l] = InBuckets(d, @)]
      /\ errors' = errors
  BY <1>3 DEF Observe, Inc
<1>5. \A k \in Kinds : total'[<<k, "2xx">>] + total'[<<k, "error">>] = settled'[k]
  <2> SUFFICES ASSUME NEW k \in Kinds
               PROVE  total'[<<k, "2xx">>] + total'[<<k, "error">>] = settled'[k]
    OBVIOUS
  <2>1. <<k, "2xx">> \in Labels /\ <<k, "error">> \in Labels /\ <<k, "error">> # l
    BY DEF Labels
  <2>2. total'[<<k, "error">>] = total[<<k, "error">>]
    BY <1>4, <2>1 DEF TypeOK
  <2>3. total'[<<k, "2xx">>] = total[<<k, "2xx">>] + (IF k = ask[r].kind THEN 1 ELSE 0)
    <3>1. CASE k = ask[r].kind
      <4>1. <<k, "2xx">> = l
        BY <3>1
      <4>2. total'[l] = total[l] + 1
        BY <1>2, <1>4 DEF TypeOK
      <4> QED BY <3>1, <4>1, <4>2
    <3>2. CASE k # ask[r].kind
      <4>1. <<k, "2xx">> # l /\ total[<<k, "2xx">>] \in Nat
        BY <2>1, <3>2 DEF TypeOK
      <4> HIDE DEF l
      <4>2. total'[<<k, "2xx">>] = total[<<k, "2xx">>]
        BY <1>4, <2>1, <4>1 DEF TypeOK
      <4> QED BY <3>2, <4>1, <4>2
    <3> QED BY <3>1, <3>2
  <2>4. settled'[k] = settled[k] + (IF k = ask[r].kind THEN 1 ELSE 0)
    BY DEF TypeOK
  <2>5. total[<<k, "2xx">>] + total[<<k, "error">>] = settled[k]
    BY DEF MetricsAgree
  <2>6. total[<<k, "2xx">>] \in Nat /\ total[<<k, "error">>] \in Nat /\ settled[k] \in Nat
    BY <2>1 DEF TypeOK
  <2> QED BY <2>2, <2>3, <2>4, <2>5, <2>6
<1>6. \A m \in Labels :
        /\ count'[m] = total'[m]
        /\ errors'[m] = IF m[2] = "2xx" THEN 0 ELSE total'[m]
  <2> SUFFICES ASSUME NEW m \in Labels
               PROVE  /\ count'[m] = total'[m]
                      /\ errors'[m] = IF m[2] = "2xx" THEN 0 ELSE total'[m]
    OBVIOUS
  <2>1. count[m] = total[m] /\ errors[m] = IF m[2] = "2xx" THEN 0 ELSE total[m]
    BY DEF MetricsAgree
  <2>2. CASE m = l
    <3>1. m[2] = "2xx"
      BY <2>2
    <3> QED BY <1>2, <1>4, <2>1, <2>2, <3>1 DEF TypeOK
  <2>3. CASE m # l
    BY <1>2, <1>4, <2>1, <2>3 DEF TypeOK
  <2> QED BY <2>2, <2>3
<1>7. ASSUME NEW m \in Labels, NEW b \in 1..Buckets
      PROVE  Shown(m)'[b] <= Shown(m)'[b + 1]
  <2>1. /\ bucket[m] \in [1..Buckets -> Nat] /\ count[m] \in Nat
        /\ Shown(m)[b] <= Shown(m)[b + 1]
    BY DEF TypeOK, MetricsAgree
  <2>2. /\ b \in 1..(Buckets + 1) /\ b + 1 \in 1..(Buckets + 1)
        /\ b + 1 <= Buckets => b + 1 \in 1..Buckets
    OBVIOUS
  <2>3. /\ Shown(m)[b] = bucket[m][b]
        /\ Shown(m)[b + 1] = IF b + 1 <= Buckets THEN bucket[m][b + 1] ELSE count[m]
        /\ Shown(m)'[b] = bucket'[m][b]
        /\ Shown(m)'[b + 1] = IF b + 1 <= Buckets THEN bucket'[m][b + 1] ELSE count'[m]
    BY <2>2 DEF Shown
  <2>4. CASE m # l
    <3>1. bucket'[m] = bucket[m] /\ count'[m] = count[m]
      BY <1>2, <1>4, <2>4 DEF TypeOK
    <3> QED BY <2>1, <2>3, <3>1
  <2>5. CASE m = l
    <3>1. bucket'[m] = InBuckets(d, bucket[m]) /\ count'[m] = count[m] + 1
      BY <1>2, <1>4, <2>5 DEF TypeOK
    <3>2. \A c \in 1..Buckets :
            bucket'[m][c] = IF d <= c THEN bucket[m][c] + 1 ELSE bucket[m][c]
      BY <3>1 DEF InBuckets
    <3>3. bucket[m][b] \in Nat /\ (b + 1 <= Buckets => bucket[m][b + 1] \in Nat)
      BY <2>1, <2>2
    <3>4. CASE b + 1 <= Buckets
      <4>1. /\ bucket'[m][b] = IF d <= b THEN bucket[m][b] + 1 ELSE bucket[m][b]
            /\ bucket'[m][b + 1] = IF d <= b + 1 THEN bucket[m][b + 1] + 1 ELSE bucket[m][b + 1]
        BY <2>2, <3>2, <3>4
      <4> QED BY <2>1, <2>3, <3>3, <3>4, <4>1
    <3>5. CASE ~(b + 1 <= Buckets)
      <4>1. bucket'[m][b] = IF d <= b THEN bucket[m][b] + 1 ELSE bucket[m][b]
        BY <3>2
      <4> QED BY <2>1, <2>3, <3>1, <3>3, <3>5, <4>1
    <3> QED BY <3>4, <3>5
  <2> QED BY <2>4, <2>5
<1> QED BY <1>5, <1>6, <1>7 DEF MetricsAgree

LEMMA HandleAgrees ==
    ASSUME TypeOK, Staged, MetricsAgree, NEW r \in Requests, Handle(r)
    PROVE  MetricsAgree'
<1>1. CASE Return(r)
  BY <1>1, MeasureAgrees DEF Return
<1>2. CASE Fail(r)
  BY <1>2, MeasureAgrees DEF Fail
<1>3. ASSUME UNCHANGED <<metrics, settled>> PROVE MetricsAgree'
  BY <1>3 DEF MetricsAgree, Shown, metrics
<1>4. Handle(r) => Return(r) \/ Fail(r) \/ UNCHANGED <<metrics, settled>>
  BY DEF Handle, Arrive, Throttle, ThrottleFails, Authenticate, Authorize, Reply, Filter
<1> QED BY <1>1, <1>2, <1>3, <1>4

-----------------------------------------------------------------------------
(* Theorems.                                                               *)

Safe == IInv /\ RunsInCheckedCompany /\ MetricsAgree /\ AddressBounded /\ AuditedDone

LEMMA InitSafe == Init => Safe
<1> SUFFICES ASSUME Init PROVE Safe
  OBVIOUS
<1>1. IInv
  BY InitTyped, InitStaged DEF IInv, Counted, Init
<1>2. RunsInCheckedCompany /\ AddressBounded /\ AuditedDone
  BY DEF RunsInCheckedCompany, AddressBounded, AuditedDone, Init
<1>3. MetricsAgree
  <2>1. \A l \in Labels : /\ total[l] = 0 /\ errors[l] = 0 /\ count[l] = 0
                          /\ \A b \in 1..Buckets : bucket[l][b] = 0
    BY DEF Init
  <2>2. \A k \in Kinds : <<k, "2xx">> \in Labels /\ <<k, "error">> \in Labels /\ settled[k] = 0
    BY DEF Init, Labels
  <2>3. \A l \in Labels : \A b \in 1..(Buckets + 1) : Shown(l)[b] = 0
    BY <2>1 DEF Shown
  <2>4. \A b \in 1..Buckets : b \in 1..(Buckets + 1) /\ b + 1 \in 1..(Buckets + 1)
    OBVIOUS
  <2> QED BY <2>1, <2>2, <2>3, <2>4 DEF MetricsAgree
<1> QED BY <1>1, <1>2, <1>3 DEF Safe

LEMMA StepSafe == Safe /\ [Next]_vars => Safe'
<1> SUFFICES ASSUME Safe, [Next]_vars PROVE Safe'
  OBVIOUS
<1> USE DEF Safe, IInv
<1>1. ASSUME NEW r \in Requests, Handle(r) PROVE Safe'
  BY <1>1, HandleTyped, HandleStaged, HandleBounded, HandleChecked, HandleAudited, HandleAgrees
<1>2. ASSUME NEW k \in Keys, WindowEnds(k) PROVE Safe'
  <2>1. RunsInCheckedCompany' /\ AuditedDone'
    BY <1>2 DEF WindowEnds, RunsInCheckedCompany, AuditedDone
  <2>2. MetricsAgree'
    BY <1>2 DEF WindowEnds, MetricsAgree, Shown, metrics
  <2> QED BY <1>2, <2>1, <2>2, WindowBounded
<1>3. CASE UNCHANGED vars
  <2>1. TypeOK' /\ Staged'
    BY <1>3 DEF vars, metrics, TypeOK, Staged
  <2>2. Counted' /\ AddressBounded' /\ AuditedDone' /\ RunsInCheckedCompany'
    BY <1>3 DEF vars, Counted, AddressBounded, AuditedDone, RunsInCheckedCompany
  <2>3. MetricsAgree'
    BY <1>3 DEF vars, metrics, MetricsAgree, Shown
  <2> QED BY <2>1, <2>2, <2>3
<1> QED BY <1>1, <1>2, <1>3 DEF Next, AllServed

\* IInv is an invariant: who stands behind the guards has passed them, there is a
\* context only while a handler runs, and the throttler counts what it lets pass.
THEOREM Inductive == Spec => []IInv
<1>1. Safe => IInv
  BY DEF Safe
<1> QED BY <1>1, InitSafe, StepSafe, PTL DEF Spec

\* The handler of a route with a permission runs in the company of the header, in which
\* the token grants that permission (PermissaoGuard, EmpresaInterceptor).
THEOREM CompanyIsChecked == Spec => []RunsInCheckedCompany
<1>1. Safe => RunsInCheckedCompany
  BY DEF Safe
<1> QED BY <1>1, InitSafe, StepSafe, PTL DEF Spec

\* Counters, histogram and the handlers that ran agree, for any buckets (registry.ts).
THEOREM MetricsAreConsistent == Spec => []MetricsAgree
<1>1. Safe => MetricsAgree
  BY DEF Safe
<1> QED BY <1>1, InitSafe, StepSafe, PTL DEF Spec

\* No address gets more requests through to a handler in a window than FREE allows
\* (TenantThrottlerGuard.handleRequest).
THEOREM AddressesAreBounded == Spec => []AddressBounded
<1>1. Safe => AddressBounded
  BY DEF Safe
<1> QED BY <1>1, InitSafe, StepSafe, PTL DEF Spec

\* An audit event is sent only for an operation that was done (AuditInterceptor).
THEOREM AuditIsOfDeeds == Spec => []AuditedDone
<1>1. Safe => AuditedDone
  BY DEF Safe
<1> QED BY <1>1, InitSafe, StepSafe, PTL DEF Spec
=============================================================================
