--------------------------- MODULE Outbox_proofs ---------------------------
(* Theorems of Outbox, for any sets of events, processes and jobs, any batch *)
(* size and numbers of attempts, and any number of failures.                 *)
EXTENDS Outbox, FiniteSetTheorems, TLAPS

USE OutboxAssumption

\* Nothing has happened at the start.
LEMMA IInvInit == Init => IInv
<1> SUFFICES ASSUME Init PROVE IInv
  OBVIOUS
<1> USE DEF Init
<1>1. TypeOK
  BY DEF TypeOK, Row, Job, AuditJob, FreeJob, FreeAuditJob
<1>2. JobsOK
  BY DEF JobsOK, JobOK, FreeJob
<1>3. PublishedIsCarried
  BY DEF PublishedIsCarried
<1>4. AnsweredOK
  BY DEF AnsweredOK
<1>5. StoredOnce
  BY DEF StoredOnce, Stored, FreeJob
<1>6. QED
  BY <1>1, <1>2, <1>3, <1>4, <1>5 DEF IInv

-----------------------------------------------------------------------------
(* What the calls do to the tables and queues.                             *)

\* A new "audit-log" job takes a free slot: every other job stays, the event is
\* carried from now on.
LEMMA AddedJob ==
    ASSUME TypeOK, NEW e \in Events, AddAuditJob(e)
    PROVE  /\ auditJob' \in [AuditJobs -> AuditJob]
           /\ \E a \in AuditJobs : auditJob'[a].event = e
           /\ \A f \in Events : (\E a \in AuditJobs : auditJob[a].event = f)
                                => \E a \in AuditJobs : auditJob'[a].event = f
<1>1. PICK a \in AuditJobs :
        /\ auditJob[a].event = None
        /\ auditJob' = [auditJob EXCEPT ![a] = [event |-> e, tries |-> 0]]
  BY DEF AddAuditJob
<1>2. auditJob \in [AuditJobs -> AuditJob]
  BY DEF TypeOK
<1>3. [event |-> e, tries |-> 0] \in AuditJob
  BY DEF AuditJob
<1>4. auditJob' \in [AuditJobs -> AuditJob] /\ auditJob'[a].event = e
  BY <1>1, <1>2, <1>3
<1>5. ASSUME NEW f \in Events, NEW b \in AuditJobs, auditJob[b].event = f
      PROVE  auditJob'[b].event = f
  BY <1>1, <1>2, <1>5
<1>6. QED
  BY <1>4, <1>5

\* createdAt of a new row is a positive number.
LEMMA InsertedRow ==
    ASSUME TypeOK, NEW e \in Events, InsertRow(e)
    PROVE  /\ row' \in [Events -> Row]
           /\ row'[e].createdAt # 0 /\ row'[e].published = FALSE
           /\ \A f \in Events \ {e} : row'[f] = row[f]
<1> DEFINE n == Cardinality({f \in Events : Stored(f)})
<1>1. n \in Nat
  BY FS_Subset, FS_CardinalityType
<1>2. row' = [row EXCEPT ![e] =
        [createdAt |-> 1 + n, published |-> FALSE, attempts |-> 0, due |-> TRUE]]
  BY DEF InsertRow
<1> HIDE DEF n
<1>3. [createdAt |-> 1 + n, published |-> FALSE, attempts |-> 0, due |-> TRUE] \in Row
  BY <1>1 DEF Row
<1>4. row \in [Events -> Row]
  BY DEF TypeOK
<1>5. 1 + n # 0
  BY <1>1
<1>6. QED
  BY <1>2, <1>3, <1>4, <1>5

\* The number of failures only grows.
LEMMA FaultCounts == ASSUME TypeOK, Fault PROVE faults' = faults + 1 /\ faults' \in Nat
  BY DEF Fault, TypeOK

\* A poll adds a job that waits for an event and touches no other job.
LEMMA AddedPublishJob ==
    ASSUME TypeOK, NEW i \in Pollers, AddJob(i)
    PROVE  /\ job' \in [Jobs -> Job]
           /\ \A j \in Jobs : \/ job'[j] = job[j]
                              \/ /\ job'[j].at = "waiting"
                                 /\ job'[j].event \in Events \cap batch[i]
<1>1. PICK e \in batch[i], j \in Jobs :
        job' = [job EXCEPT ![j] = [event |-> e, tries |-> 0, at |-> "waiting"]]
  BY DEF AddJob
<1>2. e \in Events /\ job \in [Jobs -> Job]
  BY DEF TypeOK
<1>3. [event |-> e, tries |-> 0, at |-> "waiting"] \in Job
  BY <1>2 DEF Job
<1>4. QED
  BY <1>1, <1>2, <1>3

\* Every step of a job leaves the job well-typed: with its own event or free.
LEMMA MovedJob ==
    ASSUME TypeOK, NEW j \in Jobs,
           \/ \E s \in {"waiting", "route", "mark", "reschedule"} : Step(j, s)
           \/ Finish(j)
           \/ Throw(j)
    PROVE  /\ job' \in [Jobs -> Job]
           /\ \A k \in Jobs \ {j} : job'[k] = job[k]
           /\ \/ job'[j].at = "free"
              \/ job'[j].event = job[j].event
<1>1. job \in [Jobs -> Job] /\ FreeJob \in Job /\ FreeJob.at = "free"
  BY DEF TypeOK, Job, FreeJob
<1>2. CASE \E s \in {"waiting", "route", "mark", "reschedule"} : Step(j, s)
  BY <1>1, <1>2 DEF Step, Job
<1>3. CASE Finish(j)
  BY <1>1, <1>3 DEF Finish
<1>4. CASE Throw(j)
  <2>1. CASE job[j].tries + 1 < PublishAttempts
    BY <1>1, <1>4, <2>1 DEF Throw, Job
  <2>2. CASE ~(job[j].tries + 1 < PublishAttempts)
    BY <1>1, <1>4, <2>2 DEF Throw, Finish
  <2>3. QED
    BY <2>1, <2>2
<1>5. QED
  BY <1>2, <1>3, <1>4

-----------------------------------------------------------------------------
\* An event that is carried stays so: an audit job ends in a row or is kept.
LEMMA CarriedStays ==
    ASSUME TypeOK, [Next]_vars, NEW f \in Events, Carried(f)
    PROVE  Carried(f)'
<1> USE DEF Carried
<1>1. CASE \E e \in Events : AddAuditJob(e) /\ UNCHANGED <<auditLog, exhausted>>
  BY <1>1, AddedJob
<1>2. CASE UNCHANGED <<auditJob, auditLog, exhausted>>
  BY <1>2
<1>3. CASE \E a \in AuditJobs : AuditProcess(a)
  <2>1. PICK a \in AuditJobs : AuditProcess(a)
    BY <1>3
  <2> DEFINE e == auditJob[a].event
  <2>2. e \in Events /\ auditLog \in [Events -> Nat] /\ auditJob \in [AuditJobs -> AuditJob]
    BY <2>1 DEF AuditProcess, TypeOK, AuditJob
  <2>3. auditLog' = [auditLog EXCEPT ![e] = @ + 1] /\ exhausted' = exhausted
        /\ auditJob' = [auditJob EXCEPT ![a] = FreeAuditJob]
    BY <2>1 DEF AuditProcess, WriteLog, Free
  <2> HIDE DEF e
  <2>4. CASE f = e
    BY <2>2, <2>3, <2>4
  <2>5. CASE f # e
    <3>1. auditLog'[f] = auditLog[f]
      BY <2>2, <2>3, <2>5
    <3>2. ASSUME NEW b \in AuditJobs, auditJob[b].event = f
          PROVE  auditJob'[b].event = f
      BY <2>2, <2>3, <2>5, <3>2 DEF e
    <3>3. QED
      BY <2>3, <3>1, <3>2
  <2>6. QED
    BY <2>4, <2>5
<1>4. CASE \E a \in AuditJobs : AuditFails(a) \/ AuditStalls(a)
  <2>1. PICK a \in AuditJobs : AuditFails(a) \/ AuditStalls(a)
    BY <1>4
  <2> DEFINE e == auditJob[a].event
  <2>2. e \in Events /\ auditLog \in [Events -> Nat] /\ auditJob \in [AuditJobs -> AuditJob]
    BY <2>1 DEF AuditFails, AuditStalls, TypeOK, AuditJob
  <2>3. auditLog[f] > 0 => auditLog'[f] > 0
    BY <2>1, <2>2 DEF AuditFails, AuditStalls, WriteLog
  <2>4. exhausted \subseteq exhausted'
    BY <2>1 DEF AuditFails, AuditStalls, GiveUp
  <2>5. ASSUME NEW b \in AuditJobs, auditJob[b].event = f
        PROVE  auditJob'[b].event = f \/ f \in exhausted'
    <3>1. CASE auditJob' = [auditJob EXCEPT ![a].tries = @ + 1]
      BY <2>2, <2>5, <3>1 DEF AuditJob
    <3>2. CASE UNCHANGED auditJob
      BY <2>5, <3>2
    <3>3. CASE GiveUp(a)
      BY <2>2, <2>5, <3>3 DEF GiveUp, Free
    <3>4. QED
      BY <2>1, <3>1, <3>2, <3>3 DEF AuditFails, AuditStalls
  <2>6. QED
    BY <2>3, <2>4, <2>5
<1>5. ASSUME NEW e \in Events, Request(e) PROVE Carried(f)'
  BY <1>1, <1>2, <1>5 DEF Request, Commit, Tap, PersistOutbox, PersistFails,
     EnqueueDirect, EnqueueFails, RequestCrashes
<1>6. ASSUME NEW e \in Events, BackoffPasses(e) PROVE Carried(f)'
  BY <1>2, <1>6 DEF BackoffPasses
<1>7. ASSUME NEW i \in Pollers, Poll(i) \/ PollAdd(i) \/ PollFails(i) PROVE Carried(f)'
  BY <1>2, <1>7 DEF Poll, PollAdd, PollFails
<1>8. ASSUME NEW j \in Jobs, RouteToQueue(j) \/ RouteFails(j) PROVE Carried(f)'
  <2>1. UNCHANGED <<auditLog, exhausted>>
    BY <1>8 DEF RouteToQueue, RouteFails
  <2>2. CASE AddAuditJob(job[j].event)
    <3>1. CASE job[j].event \in Events
      BY <1>1, <2>1, <2>2, <3>1
    <3>2. CASE job[j].event \notin Events
      <4>1. PICK a \in AuditJobs :
              /\ auditJob[a].event = None
              /\ auditJob' = [auditJob EXCEPT ![a] = [event |-> job[j].event, tries |-> 0]]
        BY <2>2 DEF AddAuditJob
      <4>2. auditJob \in [AuditJobs -> AuditJob]
        BY DEF TypeOK
      <4>3. \A b \in AuditJobs : auditJob[b].event = f => auditJob'[b].event = f
        BY <4>1, <4>2
      <4>4. QED
        BY <2>1, <4>3
    <3>3. QED
      BY <3>1, <3>2
  <2>3. CASE UNCHANGED auditJob
    BY <1>2, <2>1, <2>3
  <2>4. QED
    BY <1>8, <2>2, <2>3 DEF RouteToQueue, RouteFails
<1>9. ASSUME NEW j \in Jobs,
             \/ FindEvent(j) \/ MarkPublished(j) \/ Reschedule(j) \/ FindFails(j)
             \/ MarkFails(j) \/ RescheduleFails(j) \/ JobStalls(j)
      PROVE  Carried(f)'
  BY <1>2, <1>9 DEF FindEvent, MarkPublished, Reschedule, FindFails, MarkFails,
     RescheduleFails, JobStalls
<1>10. CASE UNCHANGED vars
  BY <1>2, <1>10 DEF vars
<1>11. QED
  BY <1>3, <1>4, <1>5, <1>6, <1>7, <1>8, <1>9, <1>10
     DEF Next, Work, WorkFails, AuditWork, Quiet

\* The step of a job keeps the types of the queues and of the table.
LEMMA WorkTypes ==
    ASSUME TypeOK, JobsOK, NEW j \in Jobs, Work(j) \/ WorkFails(j)
    PROVE  /\ TypeOK'
           /\ \A k \in Jobs \ {j} : job'[k] = job[k]
           /\ job'[j].at = "free" \/ job'[j].event = job[j].event
           /\ job[j].event \in Events
<1> DEFINE e == job[j].event
<1>1. e \in Events
  <2>1. job[j].at # "free"
    BY DEF Work, WorkFails, FindEvent, RouteToQueue, MarkPublished, Reschedule,
       FindFails, RouteFails, MarkFails, RescheduleFails, JobStalls, At
  <2>2. QED
    BY <2>1 DEF JobsOK, JobOK
<1>2. \/ \E s \in {"waiting", "route", "mark", "reschedule"} : Step(j, s)
      \/ Finish(j)
      \/ Throw(j)
  BY DEF Work, WorkFails, FindEvent, RouteToQueue, MarkPublished, Reschedule,
     FindFails, RouteFails, MarkFails, RescheduleFails, JobStalls
<1>3. auditJob' \in [AuditJobs -> AuditJob]
  <2>1. CASE AddAuditJob(e)
    BY <1>1, <2>1, AddedJob
  <2>2. CASE UNCHANGED auditJob
    BY <2>2 DEF TypeOK
  <2>3. QED
    BY <2>1, <2>2 DEF Work, WorkFails, FindEvent, RouteToQueue, MarkPublished,
       Reschedule, FindFails, RouteFails, MarkFails, RescheduleFails, JobStalls
<1>4. row' \in [Events -> Row]
  <2> row \in [Events -> Row]
    BY DEF TypeOK
  <2>1. CASE SetPublished(e)
    BY <1>1, <2>1 DEF SetPublished, Row
  <2>2. CASE Postpone(e)
    BY <1>1, <2>2 DEF Postpone, Row
  <2>3. CASE UNCHANGED row
    BY <2>3
  <2>4. QED
    BY <2>1, <2>2, <2>3 DEF Work, WorkFails, FindEvent, RouteToQueue, MarkPublished,
       Reschedule, FindFails, RouteFails, MarkFails, RescheduleFails, JobStalls
<1>5. faults' \in Nat
  BY FaultCounts DEF Work, WorkFails, FindEvent, RouteToQueue, MarkPublished,
     Reschedule, FindFails, RouteFails, MarkFails, RescheduleFails, JobStalls, TypeOK
<1>6. UNCHANGED <<requests, batch, exhausted, auditLog>>
  BY DEF Work, WorkFails, FindEvent, RouteToQueue, MarkPublished, Reschedule,
     FindFails, RouteFails, MarkFails, RescheduleFails, JobStalls
<1>7. TypeOK'
  BY <1>2, <1>3, <1>4, <1>5, <1>6, MovedJob DEF TypeOK, requests
<1>8. QED
  BY <1>1, <1>2, <1>7, MovedJob

\* A step preserves types.
LEMMA TypeStep == ASSUME TypeOK, JobsOK, [Next]_vars PROVE TypeOK'
<1>1. ASSUME NEW e \in Events, Request(e) PROVE TypeOK'
  <2>1. CASE Commit(e) \/ Tap(e)
    BY <2>1 DEF Commit, Tap, TypeOK
  <2>2. CASE PersistOutbox(e)
    <3>1. row' \in [Events -> Row]
      BY <2>2, InsertedRow DEF PersistOutbox
    <3>2. QED
      BY <2>2, <3>1 DEF PersistOutbox, TypeOK
  <2>3. CASE PersistFails(e)
    <3>1. row' \in [Events -> Row]
      BY <2>3, InsertedRow DEF PersistFails, TypeOK
    <3>2. faults' \in Nat
      BY <2>3, FaultCounts DEF PersistFails
    <3>3. QED
      BY <2>3, <3>1, <3>2 DEF PersistFails, TypeOK
  <2>4. CASE EnqueueDirect(e)
    <3>1. auditJob' \in [AuditJobs -> AuditJob]
      BY <2>4, AddedJob DEF EnqueueDirect
    <3>2. QED
      BY <2>4, <3>1 DEF EnqueueDirect, TypeOK
  <2>5. CASE EnqueueFails(e)
    <3>1. auditJob' \in [AuditJobs -> AuditJob]
      BY <2>5, AddedJob DEF EnqueueFails, TypeOK
    <3>2. faults' \in Nat
      BY <2>5, FaultCounts DEF EnqueueFails
    <3>3. QED
      BY <2>5, <3>1, <3>2 DEF EnqueueFails, TypeOK
  <2>6. CASE RequestCrashes(e)
    <3>1. faults' \in Nat
      BY <2>6, FaultCounts DEF RequestCrashes
    <3>2. QED
      BY <2>6, <3>1 DEF RequestCrashes, TypeOK
  <2>7. QED
    BY <1>1, <2>1, <2>2, <2>3, <2>4, <2>5, <2>6 DEF Request
<1>2. ASSUME NEW e \in Events, BackoffPasses(e) PROVE TypeOK'
  <2> row \in [Events -> Row]
    BY DEF TypeOK
  <2>1. row' \in [Events -> Row]
    BY <1>2 DEF BackoffPasses, Row
  <2>2. QED
    BY <1>2, <2>1 DEF BackoffPasses, TypeOK, requests
<1>3. ASSUME NEW i \in Pollers, Poll(i) \/ PollAdd(i) \/ PollFails(i) PROVE TypeOK'
  <2>1. CASE Poll(i)
    BY <2>1 DEF Poll, Oldest, Pending, TypeOK, requests
  <2>2. CASE PollAdd(i)
    <3>1. job' \in [Jobs -> Job]
      BY <2>2, AddedPublishJob DEF PollAdd
    <3>2. batch' \in [Pollers -> SUBSET Events]
      BY <2>2 DEF PollAdd, TypeOK
    <3>3. QED
      BY <2>2, <3>1, <3>2 DEF PollAdd, TypeOK, requests
  <2>3. CASE PollFails(i)
    <3>1. job' \in [Jobs -> Job]
      BY <2>3, AddedPublishJob DEF PollFails, TypeOK
    <3>2. faults' \in Nat
      BY <2>3, FaultCounts DEF PollFails
    <3>3. QED
      BY <2>3, <3>1, <3>2 DEF PollFails, TypeOK, requests
  <2>4. QED
    BY <1>3, <2>1, <2>2, <2>3
<1>4. ASSUME NEW j \in Jobs, Work(j) \/ WorkFails(j) PROVE TypeOK'
  BY <1>4, WorkTypes
<1>5. ASSUME NEW a \in AuditJobs, AuditProcess(a) PROVE TypeOK'
  <2> DEFINE e == auditJob[a].event
  <2>1. e \in Events
    BY <1>5 DEF AuditProcess, TypeOK, AuditJob
  <2>2. auditLog' \in [Events -> Nat]
    BY <1>5, <2>1 DEF AuditProcess, WriteLog, TypeOK
  <2>3. auditJob' \in [AuditJobs -> AuditJob]
    BY <1>5 DEF AuditProcess, Free, FreeAuditJob, AuditJob, TypeOK
  <2>4. QED
    BY <1>5, <2>2, <2>3 DEF AuditProcess, TypeOK, requests
<1>6. ASSUME NEW a \in AuditJobs, AuditFails(a) \/ AuditStalls(a) PROVE TypeOK'
  <2> DEFINE e == auditJob[a].event
  <2>1. e \in Events
    BY <1>6 DEF AuditFails, AuditStalls, TypeOK, AuditJob
  <2>2. auditLog' \in [Events -> Nat]
    BY <1>6, <2>1 DEF AuditFails, AuditStalls, WriteLog, TypeOK
  <2>3. auditJob' \in [AuditJobs -> AuditJob] /\ exhausted' \subseteq Events
    <3>1. CASE auditJob' = [auditJob EXCEPT ![a].tries = @ + 1] /\ UNCHANGED exhausted
      BY <3>1 DEF TypeOK, AuditJob
    <3>2. CASE UNCHANGED <<auditJob, exhausted>>
      BY <3>2 DEF TypeOK
    <3>3. CASE GiveUp(a)
      BY <2>1, <3>3 DEF GiveUp, Free, FreeAuditJob, TypeOK, AuditJob
    <3>4. QED
      BY <1>6, <3>1, <3>2, <3>3 DEF AuditFails, AuditStalls
  <2>4. faults' \in Nat
    BY <1>6, FaultCounts DEF AuditFails, AuditStalls
  <2>5. QED
    BY <1>6, <2>2, <2>3, <2>4 DEF AuditFails, AuditStalls, TypeOK, requests
<1>7. CASE UNCHANGED vars
  BY <1>7 DEF vars, requests, TypeOK
<1>8. QED
  BY <1>1, <1>2, <1>3, <1>4, <1>5, <1>6, <1>7 DEF Next, AuditWork, Quiet

\* A job reaches "mark" only by routing its event, which is carried from then on.
LEMMA JobsStep == ASSUME TypeOK, JobsOK, [Next]_vars PROVE JobsOK'
<1> SUFFICES ASSUME NEW k \in Jobs PROVE JobOK(k)'
  BY DEF JobsOK
<1>1. CASE job'[k] = job[k]
  BY <1>1, CarriedStays DEF JobsOK, JobOK
<1>2. ASSUME NEW j \in Jobs, Work(j) \/ WorkFails(j) PROVE JobOK(k)'
  <2>1. CASE k # j
    BY <1>1, <1>2, <2>1, WorkTypes
  <2>2. CASE k = j
    <3>1. job'[j].at # "free" => job'[j].event = job[j].event /\ job[j].event \in Events
      BY <1>2, WorkTypes
    <3>2. ASSUME job'[j].at = "mark" PROVE RouteToQueue(j)
      <4> job \in [Jobs -> Job]
        BY DEF TypeOK
      <4>1. ~Finish(j)
        BY <3>2 DEF Finish, FreeJob
      <4>2. ASSUME NEW s \in {"waiting", "route", "reschedule"} PROVE ~Step(j, s)
        BY <3>2, <4>2 DEF Step, Job
      <4>3. ~Throw(j)
        BY <3>2, <4>1 DEF Throw, Job
      <4>4. QED
        BY <1>2, <4>1, <4>2, <4>3 DEF Work, WorkFails, FindEvent, MarkPublished,
           Reschedule, FindFails, RouteFails, MarkFails, RescheduleFails, JobStalls
    <3>3. ASSUME NEW e \in Events, job'[j].at = "mark", job'[j].event = e
          PROVE  Carried(e)'
      <4>1. job[j].event = e
        BY <3>1, <3>3
      <4>2. AddAuditJob(e)
        BY <3>2, <3>3, <4>1 DEF RouteToQueue
      <4>3. QED
        BY <4>2, AddedJob DEF Carried
    <3>4. QED
      BY <2>2, <3>1, <3>3 DEF JobOK
  <2>3. QED
    BY <2>1, <2>2
<1>3. ASSUME NEW i \in Pollers, AddJob(i) PROVE JobOK(k)'
  <2>1. CASE job'[k] = job[k]
    BY <1>1, <2>1
  <2>2. CASE job'[k].at = "waiting" /\ job'[k].event \in Events
    BY <2>2 DEF JobOK
  <2>3. QED
    BY <1>3, <2>1, <2>2, AddedPublishJob
<1>4. ASSUME NEW e \in Events, Request(e) \/ BackoffPasses(e) PROVE job' = job
  BY <1>4 DEF Request, Commit, Tap, PersistOutbox, PersistFails, EnqueueDirect,
     EnqueueFails, RequestCrashes, BackoffPasses
<1>5. ASSUME NEW i \in Pollers, Poll(i) \/ PollAdd(i) \/ PollFails(i)
      PROVE  AddJob(i) \/ job' = job
  BY <1>5 DEF Poll, PollAdd, PollFails
<1>6. ASSUME NEW a \in AuditJobs, AuditWork(a) PROVE job' = job
  BY <1>6 DEF AuditWork, AuditProcess, AuditFails, AuditStalls
<1>7. CASE UNCHANGED vars
  BY <1>1, <1>7 DEF vars
<1>8. CASE job' = job
  BY <1>1, <1>8
<1>9. CASE \E e \in Events : Request(e) \/ BackoffPasses(e)
  BY <1>4, <1>8, <1>9
<1>10. CASE \E i \in Pollers : Poll(i) \/ PollAdd(i) \/ PollFails(i)
  BY <1>3, <1>5, <1>8, <1>10
<1>11. CASE \E a \in AuditJobs : AuditWork(a)
  BY <1>6, <1>8, <1>11
<1>12. QED
  BY <1>2, <1>7, <1>9, <1>10, <1>11 DEF Next, Quiet

\* publishedAt is set by a job that has routed its event.
LEMMA PublishedStep ==
    ASSUME TypeOK, JobsOK, PublishedIsCarried, [Next]_vars PROVE PublishedIsCarried'
<1> SUFFICES ASSUME NEW f \in Events, row'[f].published PROVE Carried(f)'
  BY DEF PublishedIsCarried
<1> SUFFICES ASSUME ~row[f].published, ~Carried(f) PROVE FALSE
  BY CarriedStays DEF PublishedIsCarried
<1> row \in [Events -> Row]
  BY DEF TypeOK
<1>1. ASSUME NEW e \in Events, Request(e) PROVE FALSE
  <2>1. CASE InsertRow(e)
    BY <2>1, InsertedRow
  <2>2. CASE UNCHANGED row
    BY <2>2
  <2>3. QED
    BY <1>1, <2>1, <2>2 DEF Request, Commit, Tap, PersistOutbox, PersistFails,
       EnqueueDirect, EnqueueFails, RequestCrashes
<1>2. ASSUME NEW e \in Events, BackoffPasses(e) PROVE FALSE
  BY <1>2 DEF BackoffPasses, Row
<1>3. ASSUME NEW j \in Jobs, Work(j) \/ WorkFails(j) PROVE FALSE
  <2> DEFINE e == job[j].event
  <2>1. e \in Events
    BY <1>3, WorkTypes
  <2>2. CASE SetPublished(e) /\ At(j, "mark")
    <3>1. f = e
      BY <2>1, <2>2 DEF SetPublished, Row
    <3>2. QED
      BY <2>2, <3>1 DEF JobsOK, JobOK, At
  <2>3. CASE Postpone(e)
    BY <2>1, <2>3 DEF Postpone, Row
  <2>4. CASE UNCHANGED row
    BY <2>4
  <2>5. QED
    BY <1>3, <2>2, <2>3, <2>4 DEF Work, WorkFails, FindEvent, RouteToQueue,
       MarkPublished, Reschedule, FindFails, RouteFails, MarkFails, RescheduleFails,
       JobStalls
<1>4. ASSUME NEW i \in Pollers, Poll(i) \/ PollAdd(i) \/ PollFails(i) PROVE FALSE
  BY <1>4 DEF Poll, PollAdd, PollFails
<1>5. ASSUME NEW a \in AuditJobs, AuditWork(a) PROVE FALSE
  BY <1>5 DEF AuditWork, AuditProcess, AuditFails, AuditStalls
<1>6. CASE UNCHANGED vars
  BY <1>6 DEF vars
<1>7. QED
  BY <1>1, <1>2, <1>3, <1>4, <1>5, <1>6 DEF Next, Quiet

\* An answered request has both its calls in flight, has made them, or lost
\* them to as many failures.
LEMMA AnsweredStep ==
    ASSUME TypeOK, JobsOK, AnsweredOK, [Next]_vars PROVE AnsweredOK'
<1> DEFINE Holds(f) ==
      operation[f] = "answered" =>
        /\ ~Stored(f) /\ f \notin persisting => faults >= 1
        /\ ~Carried(f) /\ f \notin enqueuing => faults >= 1
        /\ ~Stored(f) /\ ~Carried(f) /\ f \notin persisting \cup enqueuing => faults >= 2
<1>1. SUFFICES ASSUME NEW f \in Events PROVE Holds(f)'
  BY DEF AnsweredOK
<1>2. Holds(f)
  BY DEF AnsweredOK
<1>3. Carried(f) => Carried(f)'
  BY CarriedStays
<1>4. faults \in Nat /\ faults' \in Nat
  BY TypeStep DEF TypeOK
<1>5. ASSUME UNCHANGED requests, faults' >= faults, Stored(f) => Stored(f)'
      PROVE  Holds(f)'
  BY <1>2, <1>3, <1>4, <1>5 DEF requests
<1>6. ASSUME NEW e \in Events, Request(e) PROVE Holds(f)'
  <2>1. Stored(f) => Stored(f)'
    <3>1. InsertRow(e) => (Stored(f) => Stored(f)')
      BY InsertedRow DEF Stored
    <3>2. UNCHANGED row => (Stored(f) => Stored(f)')
      BY DEF Stored
    <3>3. QED
      BY <1>6, <3>1, <3>2 DEF Request, Commit, Tap, PersistOutbox, PersistFails,
         EnqueueDirect, EnqueueFails, RequestCrashes
  <2>2. CASE Commit(e)
    BY <1>2, <1>3, <1>4, <2>1, <2>2 DEF Commit, TypeOK
  <2>3. CASE Tap(e)
    BY <1>2, <1>3, <1>4, <2>1, <2>3 DEF Tap, TypeOK
  <2>4. CASE PersistOutbox(e)
    <3>1. Stored(e)'
      BY <2>4, InsertedRow DEF PersistOutbox, Stored
    <3>2. QED
      BY <1>2, <1>3, <1>4, <2>1, <2>4, <3>1 DEF PersistOutbox
  <2>5. CASE PersistFails(e)
    <3>1. faults' = faults + 1
      BY <2>5, FaultCounts DEF PersistFails
    <3>2. QED
      BY <1>2, <1>3, <1>4, <2>1, <2>5, <3>1 DEF PersistFails
  <2>6. CASE EnqueueDirect(e)
    <3>1. Carried(e)'
      BY <2>6, AddedJob DEF EnqueueDirect, Carried
    <3>2. QED
      BY <1>2, <1>3, <1>4, <2>1, <2>6, <3>1 DEF EnqueueDirect
  <2>7. CASE EnqueueFails(e)
    <3>1. faults' = faults + 1
      BY <2>7, FaultCounts DEF EnqueueFails
    <3>2. QED
      BY <1>2, <1>3, <1>4, <2>1, <2>7, <3>1 DEF EnqueueFails
  <2>8. CASE RequestCrashes(e)
    <3>1. faults' = faults + 1
      BY <2>8, FaultCounts DEF RequestCrashes
    <3>2. QED
      BY <1>2, <1>3, <1>4, <2>1, <2>8, <3>1 DEF RequestCrashes, TypeOK
  <2>9. QED
    BY <1>6, <2>2, <2>3, <2>4, <2>5, <2>6, <2>7, <2>8 DEF Request
<1>7. ASSUME NEW e \in Events, BackoffPasses(e) PROVE Holds(f)'
  <2>1. Stored(f) => Stored(f)'
    BY <1>7 DEF BackoffPasses, Stored, TypeOK, Row
  <2>2. QED
    BY <1>4, <1>5, <1>7, <2>1 DEF BackoffPasses
<1>8. ASSUME NEW j \in Jobs, Work(j) \/ WorkFails(j) PROVE Holds(f)'
  <2> DEFINE e == job[j].event
  <2>1. row' = row \/ SetPublished(e) \/ Postpone(e)
    BY <1>8 DEF Work, WorkFails, FindEvent, RouteToQueue, MarkPublished, Reschedule,
       FindFails, RouteFails, MarkFails, RescheduleFails, JobStalls
  <2>2. Stored(f) => Stored(f)'
    <3> row \in [Events -> Row]
      BY DEF TypeOK
    <3>1. CASE row' = row
      BY <3>1 DEF Stored
    <3>2. CASE SetPublished(e)
      BY <3>2 DEF SetPublished, Stored, Row
    <3>3. CASE Postpone(e)
      BY <3>3 DEF Postpone, Stored, Row
    <3>4. QED
      BY <2>1, <3>1, <3>2, <3>3
  <2>3. UNCHANGED requests /\ (Fault \/ faults' = faults)
    BY <1>8 DEF Work, WorkFails, FindEvent, RouteToQueue, MarkPublished, Reschedule,
       FindFails, RouteFails, MarkFails, RescheduleFails, JobStalls
  <2>4. faults' >= faults
    BY <1>4, <2>3, FaultCounts
  <2>5. QED
    BY <1>5, <2>2, <2>3, <2>4
<1>9. ASSUME NEW i \in Pollers, Poll(i) \/ PollAdd(i) \/ PollFails(i) PROVE Holds(f)'
  <2>1. UNCHANGED <<requests, row>> /\ (Fault \/ faults' = faults)
    BY <1>9 DEF Poll, PollAdd, PollFails
  <2>2. QED
    BY <1>4, <1>5, <2>1, FaultCounts DEF Stored
<1>10. ASSUME NEW a \in AuditJobs, AuditWork(a) PROVE Holds(f)'
  <2>1. UNCHANGED <<requests, row>> /\ (Fault \/ faults' = faults)
    BY <1>10 DEF AuditWork, AuditProcess, AuditFails, AuditStalls
  <2>2. QED
    BY <1>4, <1>5, <2>1, FaultCounts DEF Stored
<1>11. CASE UNCHANGED vars
  BY <1>4, <1>5, <1>11 DEF vars, Stored
<1>12. QED
  BY <1>6, <1>7, <1>8, <1>9, <1>10, <1>11 DEF Next, Quiet

\* The steps that are not those of a request.
Other ==
    \/ \E e \in Events : BackoffPasses(e)
    \/ \E j \in Jobs : Work(j) \/ WorkFails(j)
    \/ \E i \in Pollers : Poll(i) \/ PollAdd(i) \/ PollFails(i)
    \/ \E a \in AuditJobs : AuditWork(a)
    \/ UNCHANGED vars

\* A step belongs to a request or it does not.
LEMMA NextCases == [Next]_vars => (\E e \in Events : Request(e)) \/ Other
  BY DEF Next, Quiet, Other

\* The other steps touch no request.
LEMMA OtherRequests == Other => UNCHANGED requests
<1>1. ASSUME NEW e \in Events, BackoffPasses(e) PROVE UNCHANGED requests
  BY <1>1 DEF BackoffPasses
<1>2. ASSUME NEW j \in Jobs, Work(j) \/ WorkFails(j) PROVE UNCHANGED requests
  BY <1>2 DEF Work, WorkFails, FindEvent, RouteToQueue, MarkPublished, Reschedule,
     FindFails, RouteFails, MarkFails, RescheduleFails, JobStalls
<1>3. ASSUME NEW i \in Pollers, Poll(i) \/ PollAdd(i) \/ PollFails(i)
      PROVE  UNCHANGED requests
  BY <1>3 DEF Poll, PollAdd, PollFails
<1>4. ASSUME NEW a \in AuditJobs, AuditWork(a)
      PROVE  UNCHANGED requests
  BY <1>4 DEF AuditWork, AuditProcess, AuditFails, AuditStalls
<1>5. UNCHANGED vars => UNCHANGED requests
  BY DEF vars
<1>6. QED
  BY <1>1, <1>2, <1>3, <1>4, <1>5 DEF Other

\* A step of a job, of time, of a poll or of the audit queue inserts no row and
\* never clears publishedAt.
LEMMA RowsStay ==
    ASSUME TypeOK, JobsOK, NEW f \in Events,
           Other
    PROVE  /\ UNCHANGED requests
           /\ row'[f].createdAt = row[f].createdAt
           /\ row[f].published => row'[f].published
           /\ row'[f].published => \/ row[f].published
                                  \/ \E j \in Jobs : At(j, "mark") /\ job[j].event = f
<1> row \in [Events -> Row]
  BY DEF TypeOK
<1>1. CASE UNCHANGED <<requests, row>>
  BY <1>1
<1>2. ASSUME NEW e \in Events, BackoffPasses(e)
      PROVE  /\ UNCHANGED requests
             /\ row'[f].createdAt = row[f].createdAt
             /\ row'[f].published = row[f].published
  BY <1>2 DEF BackoffPasses, Row
<1>3. ASSUME NEW j \in Jobs, Work(j) \/ WorkFails(j)
      PROVE  LET e == job[j].event IN
             /\ UNCHANGED requests
             /\ row'[f].createdAt = row[f].createdAt
             /\ row[f].published => row'[f].published
             /\ row'[f].published => row[f].published \/ (At(j, "mark") /\ e = f)
  <2> DEFINE e == job[j].event
  <2>1. /\ UNCHANGED requests
        /\ row' = row \/ (At(j, "mark") /\ SetPublished(e)) \/ Postpone(e)
    BY <1>3 DEF Work, WorkFails, FindEvent, RouteToQueue, MarkPublished, Reschedule,
       FindFails, RouteFails, MarkFails, RescheduleFails, JobStalls
  <2>2. CASE row' = row
    BY <2>1, <2>2
  <2>3. CASE At(j, "mark") /\ SetPublished(e)
    BY <2>1, <2>3 DEF SetPublished, Row
  <2>4. CASE Postpone(e)
    BY <2>1, <2>4 DEF Postpone, Row
  <2>5. QED
    BY <2>1, <2>2, <2>3, <2>4
<1>4. ASSUME NEW i \in Pollers, Poll(i) \/ PollAdd(i) \/ PollFails(i)
      PROVE  UNCHANGED <<requests, row>>
  BY <1>4 DEF Poll, PollAdd, PollFails
<1>5. ASSUME NEW a \in AuditJobs, AuditWork(a)
      PROVE  UNCHANGED <<requests, row>>
  BY <1>5 DEF AuditWork, AuditProcess, AuditFails, AuditStalls
<1>6. UNCHANGED vars => UNCHANGED <<requests, row>>
  BY DEF vars
<1>7. QED
  BY <1>1, <1>2, <1>3, <1>4, <1>5, <1>6 DEF Other

\* Of the requests only PersistOutbox and PersistFails touch the table: they
\* insert the row of an operation that had none.
LEMMA RequestRows ==
    ASSUME TypeOK, StoredOnce, NEW e \in Events, Request(e)
    PROVE  /\ UNCHANGED <<batch, job>>
           /\ \/ row' = row
              \/ e \in persisting /\ e \notin persisting' /\ ~Stored(e) /\ InsertRow(e)
           /\ persisting' \subseteq persisting \cup {e}
           /\ enqueuing' \subseteq enqueuing \cup {e}
           /\ e \in persisting' => operation[e] = "committed" \/ e \in persisting
           /\ \A f \in Events \ {e} : operation'[f] = operation[f]
           /\ operation'[e] \in {"idle", "committed"} =>
                /\ operation[e] \in {"idle", "committed"}
                /\ UNCHANGED <<persisting, enqueuing>>
<1> USE DEF StoredOnce, TypeOK
<1>1. CASE Commit(e) \/ Tap(e)
  BY <1>1 DEF Commit, Tap
<1>2. CASE PersistOutbox(e) \/ PersistFails(e)
  BY <1>2 DEF PersistOutbox, PersistFails
<1>3. CASE EnqueueDirect(e) \/ EnqueueFails(e)
  BY <1>3 DEF EnqueueDirect, EnqueueFails
<1>4. CASE RequestCrashes(e)
  BY <1>4 DEF RequestCrashes
<1>5. QED
  BY <1>1, <1>2, <1>3, <1>4 DEF Request

\* A poll reads only events that are stored.
LEMMA BatchStored ==
    ASSUME TypeOK, StoredOnce, Other
    PROVE  \A i \in Pollers : \A f \in batch'[i] : f \in Events /\ Stored(f)
<1>1. batch \in [Pollers -> SUBSET Events]
  BY DEF TypeOK
<1>2. \A i \in Pollers : \A f \in batch[i] : f \in Events /\ Stored(f)
  BY <1>1 DEF StoredOnce
<1>3. CASE UNCHANGED batch
  BY <1>2, <1>3
<1>4. ASSUME NEW k \in Pollers, Poll(k)
      PROVE  \A i \in Pollers : \A f \in batch'[i] : f \in Events /\ Stored(f)
  <2>1. Oldest(Pending) \subseteq {f \in Events : Stored(f)}
    BY DEF Oldest, Pending
  <2>2. batch' = [batch EXCEPT ![k] = Oldest(Pending)]
    BY <1>4 DEF Poll
  <2>3. QED
    BY <1>1, <1>2, <2>1, <2>2
<1>5. ASSUME NEW k \in Pollers, PollAdd(k) \/ PollFails(k)
      PROVE  \A i \in Pollers : \A f \in batch'[i] : f \in Events /\ Stored(f)
  <2>1. \A i \in Pollers : batch'[i] \subseteq batch[i]
    BY <1>1, <1>5 DEF PollAdd, PollFails
  <2>2. QED
    BY <1>2, <2>1
<1>6. ASSUME NEW e \in Events, BackoffPasses(e) PROVE UNCHANGED batch
  BY <1>6 DEF BackoffPasses
<1>7. ASSUME NEW j \in Jobs, Work(j) \/ WorkFails(j) PROVE UNCHANGED batch
  BY <1>7 DEF Work, WorkFails, FindEvent, RouteToQueue, MarkPublished, Reschedule,
     FindFails, RouteFails, MarkFails, RescheduleFails, JobStalls
<1>8. ASSUME NEW a \in AuditJobs, AuditWork(a)
      PROVE  UNCHANGED batch
  BY <1>8 DEF AuditWork, AuditProcess, AuditFails, AuditStalls
<1>9. UNCHANGED vars => UNCHANGED batch
  BY DEF vars
<1>10. QED
  BY <1>3, <1>4, <1>5, <1>6, <1>7, <1>8, <1>9 DEF Other

\* Every job of the queue "outbox" is about an event that is stored.
LEMMA JobStored ==
    ASSUME TypeOK, JobsOK, StoredOnce, Other
    PROVE  \A j \in Jobs, f \in Events :
             job'[j].at # "free" /\ job'[j].event = f => Stored(f)
<1> SUFFICES ASSUME NEW j \in Jobs, NEW f \in Events,
                    job'[j].at # "free", job'[j].event = f
             PROVE  Stored(f)
  OBVIOUS
<1>1. job[j].at # "free" /\ job[j].event = f => Stored(f)
  BY DEF StoredOnce
<1>2. CASE job' = job
  BY <1>1, <1>2
<1>3. ASSUME NEW k \in Jobs, Work(k) \/ WorkFails(k) PROVE Stored(f)
  <2>1. job[k].at # "free"
    BY <1>3 DEF Work, WorkFails, FindEvent, RouteToQueue, MarkPublished, Reschedule,
       FindFails, RouteFails, MarkFails, RescheduleFails, JobStalls, At
  <2>2. \/ job'[j] = job[j]
        \/ j = k /\ job'[j].event = job[j].event
    BY <1>3, WorkTypes
  <2>3. QED
    BY <1>1, <2>1, <2>2
<1>4. ASSUME NEW i \in Pollers, AddJob(i) PROVE Stored(f)
  <2>1. job'[j] = job[j] \/ job'[j].event \in batch[i]
    BY <1>4, AddedPublishJob
  <2>2. \A e \in batch[i] : Stored(e)
    BY DEF StoredOnce
  <2>3. QED
    BY <1>1, <2>1, <2>2
<1>5. ASSUME NEW e \in Events, BackoffPasses(e) PROVE job' = job
  BY <1>5 DEF BackoffPasses
<1>6. ASSUME NEW i \in Pollers, Poll(i) \/ PollAdd(i) \/ PollFails(i)
      PROVE  AddJob(i) \/ job' = job
  BY <1>6 DEF Poll, PollAdd, PollFails
<1>7. ASSUME NEW a \in AuditJobs, AuditWork(a) PROVE job' = job
  BY <1>7 DEF AuditWork, AuditProcess, AuditFails, AuditStalls
<1>8. UNCHANGED vars => job' = job
  BY DEF vars
<1>9. QED
  BY <1>2, <1>3, <1>4, <1>5, <1>6, <1>7, <1>8 DEF Other

\* persistOutbox is called once per operation and inserts at most one row.
LEMMA StoredStep ==
    ASSUME TypeOK, JobsOK, StoredOnce, [Next]_vars PROVE StoredOnce'
<1>1. ASSUME NEW e \in Events, Request(e) PROVE StoredOnce'
  <2>1. /\ UNCHANGED <<batch, job>>
        /\ row' = row \/ (e \in persisting /\ e \notin persisting' /\ InsertRow(e))
        /\ persisting' \subseteq persisting \cup {e}
        /\ enqueuing' \subseteq enqueuing \cup {e}
        /\ e \in persisting' => operation[e] = "committed" \/ e \in persisting
        /\ \A f \in Events \ {e} : operation'[f] = operation[f]
        /\ operation'[e] \in {"idle", "committed"} =>
             /\ operation[e] \in {"idle", "committed"}
             /\ UNCHANGED <<persisting, enqueuing>>
    BY <1>1, RequestRows
  <2>2. row' = row \/ /\ row'[e].createdAt # 0 /\ row'[e].published = FALSE
                      /\ \A f \in Events \ {e} : row'[f] = row[f]
    BY <2>1, InsertedRow
  <2>3. \A f \in Events : Stored(f) => Stored(f)'
    BY <2>2 DEF Stored
  <2>4. \A f \in Events : Stored(f)' => Stored(f) \/ (f = e /\ e \in persisting /\ e \notin persisting')
    BY <2>1, <2>2 DEF Stored
  <2>5. ASSUME NEW f \in Events
        PROVE  /\ operation'[f] \in {"idle", "committed"}
                    => f \notin persisting' \cup enqueuing' /\ ~Stored(f)'
               /\ f \in persisting' => ~Stored(f)'
    <3>1. CASE f = e
      BY <2>1, <2>4, <3>1 DEF StoredOnce
    <3>2. CASE f # e
      BY <2>1, <2>4, <3>2 DEF StoredOnce
    <3>3. QED
      BY <3>1, <3>2
  <2>6. \A f \in Events : row'[f].published => Stored(f)'
    BY <2>2, <2>3 DEF StoredOnce
  <2>7. \A i \in Pollers : \A f \in batch'[i] : Stored(f)'
    BY <2>1, <2>3 DEF StoredOnce, TypeOK
  <2>8. \A j \in Jobs, f \in Events : job'[j].at # "free" /\ job'[j].event = f => Stored(f)'
    BY <2>1, <2>3 DEF StoredOnce
  <2>9. QED
    BY <2>5, <2>6, <2>7, <2>8 DEF StoredOnce
<1>2. ASSUME Other PROVE StoredOnce'
  <2>1. UNCHANGED <<operation, persisting, enqueuing>>
    BY <1>2, OtherRequests DEF requests
  <2>2. ASSUME NEW f \in Events
        PROVE  /\ row'[f].createdAt = row[f].createdAt
               /\ row'[f].published =>
                    row[f].published \/ \E j \in Jobs : At(j, "mark") /\ job[j].event = f
    BY <1>2, RowsStay
  <2>3. \A f \in Events : Stored(f)' <=> Stored(f)
    BY <2>2 DEF Stored
  <2>4. \A f \in Events :
          /\ operation'[f] \in {"idle", "committed"}
               => f \notin persisting' \cup enqueuing' /\ ~Stored(f)'
          /\ f \in persisting' => ~Stored(f)'
          /\ row'[f].published => Stored(f)'
    BY <2>1, <2>2, <2>3 DEF StoredOnce, At
  <2>5. \A i \in Pollers : \A f \in batch'[i] : f \in Events /\ Stored(f)
    BY <1>2, BatchStored
  <2>6. \A j \in Jobs, f \in Events : job'[j].at # "free" /\ job'[j].event = f => Stored(f)
    BY <1>2, JobStored
  <2>7. QED
    BY <2>3, <2>4, <2>5, <2>6 DEF StoredOnce
<1>3. QED
  BY <1>1, <1>2, NextCases

-----------------------------------------------------------------------------
\* IInv is an invariant: AuditInterceptor, OutboxPollerService, OutboxProcessor
\* and AuditProcessor preserve it together with the failures of their calls.
THEOREM Inductive == Spec => []IInv
<1>1. IInv /\ [Next]_vars => IInv'
  BY TypeStep, JobsStep, PublishedStep, AnsweredStep, StoredStep DEF IInv
<1>2. QED
  BY IInvInit, <1>1, PTL DEF Spec

\* OutboxProcessor sets publishedAt only on events that the queue "audit" has
\* received, with any number of failures, retries, workers and pollers.
THEOREM PublicationIsCarried == Spec => []PublishedIsCarried
<1>1. IInv => PublishedIsCarried
  BY DEF IInv
<1>2. QED
  BY Inductive, <1>1, PTL

\* The two writes of AuditInterceptor survive one failure of either.
THEOREM OneFailureIsHarmless == Spec => []OneFailureLosesNothing
<1>1. IInv => OneFailureLosesNothing
  <2> SUFFICES ASSUME TypeOK, AnsweredOK PROVE OneFailureLosesNothing
    BY DEF IInv
  <2>1. faults <= 1 => ~(faults >= 2)
    BY DEF TypeOK
  <2>2. QED
    BY <2>1 DEF AnsweredOK, OneFailureLosesNothing
<1>2. QED
  BY Inductive, <1>1, PTL

\* publishedAt is never cleared.
LEMMA PublishedStays ==
    ASSUME TypeOK, JobsOK, StoredOnce, [Next]_vars, NEW f \in Events, row[f].published
    PROVE  row'[f].published
<1>1. ASSUME NEW e \in Events, Request(e) PROVE row'[f].published
  <2>1. row' = row \/ (~Stored(e) /\ InsertRow(e))
    BY <1>1, RequestRows
  <2>2. CASE InsertRow(e) /\ ~Stored(e)
    BY <2>2, InsertedRow DEF StoredOnce
  <2>3. QED
    BY <2>1, <2>2
<1>2. Other => row'[f].published
  BY RowsStay
<1>3. QED
  BY <1>1, <1>2, NextCases

\* What arrives at the queue "audit" is the event of the call.
LEMMA Arrival ==
    ASSUME TypeOK, NEW e, AddAuditJob(e), NEW f \in Events, Arrives(f)
    PROVE  f = e
<1>1. PICK a \in AuditJobs :
        auditJob' = [auditJob EXCEPT ![a] = [event |-> e, tries |-> 0]]
  BY DEF AddAuditJob
<1>2. PICK b \in AuditJobs : auditJob[b].event # f /\ auditJob'[b].event = f
  BY DEF Arrives
<1>3. auditJob \in [AuditJobs -> AuditJob]
  BY DEF TypeOK
<1>4. b = a
  BY <1>1, <1>2, <1>3
<1>5. QED
  BY <1>1, <1>2, <1>3, <1>4

\* A job enqueues its event only when it stood at "route" with it, and gets
\* there only if the event was not published.
LEMMA WorkRoutes ==
    ASSUME TypeOK, JobsOK, NEW j \in Jobs, Work(j) \/ WorkFails(j), NEW f \in Events
    PROVE  /\ Arrives(f) => At(j, "route") /\ job[j].event = f
           /\ job'[j].at = "route" => ~row[job[j].event].published
<1> job \in [Jobs -> Job]
  BY DEF TypeOK
<1>1. auditJob' = auditJob \/ (At(j, "route") /\ AddAuditJob(job[j].event))
  BY DEF Work, WorkFails, FindEvent, RouteToQueue, MarkPublished, Reschedule,
     FindFails, RouteFails, MarkFails, RescheduleFails, JobStalls
<1>2. AddAuditJob(job[j].event) /\ Arrives(f) => job[j].event = f
  BY Arrival
<1>3. auditJob' = auditJob => ~Arrives(f)
  BY DEF Arrives
<1>4. ASSUME job'[j].at = "route" PROVE ~row[job[j].event].published
  <2>1. ~Finish(j)
    BY <1>4 DEF Finish, FreeJob
  <2>2. ASSUME NEW s \in {"waiting", "mark", "reschedule"} PROVE ~Step(j, s)
    BY <1>4, <2>2 DEF Step, Job
  <2>3. ~Throw(j)
    BY <1>4, <2>1 DEF Throw, Job
  <2>4. QED
    BY <2>1, <2>2, <2>3 DEF Work, WorkFails, FindEvent, RouteToQueue, MarkPublished,
       Reschedule, FindFails, RouteFails, MarkFails, RescheduleFails, JobStalls
<1>5. QED
  BY <1>1, <1>2, <1>3, <1>4

\* Of the requests only EnqueueDirect and EnqueueFails add a job: that of their
\* own event, whose call ends.
LEMMA RequestArrives ==
    ASSUME TypeOK, NEW e \in Events, Request(e), NEW f \in Events, Arrives(f)
    PROVE  f \in enqueuing \ enqueuing'
<1>1. auditJob' # auditJob
  BY DEF Arrives
<1>2. EnqueueDirect(e) \/ EnqueueFails(e)
  BY <1>1 DEF Request, Commit, Tap, PersistOutbox, PersistFails, RequestCrashes
<1>3. AddAuditJob(e) /\ e \in enqueuing \ enqueuing'
  BY <1>1, <1>2 DEF EnqueueDirect, EnqueueFails
<1>4. QED
  BY <1>3, Arrival

\* AuditProcessor adds no job.
LEMMA AuditAddsNothing ==
    ASSUME TypeOK, NEW a \in AuditJobs, AuditWork(a), NEW f \in Events
    PROVE  ~Arrives(f)
<1> USE DEF Arrives
<1>1. auditJob \in [AuditJobs -> AuditJob]
  BY DEF TypeOK
<1>2. CASE UNCHANGED auditJob
  BY <1>2
<1>3. CASE Free(a)
  BY <1>1, <1>3 DEF Free, FreeAuditJob
<1>4. CASE auditJob' = [auditJob EXCEPT ![a].tries = @ + 1]
  BY <1>1, <1>4 DEF AuditJob
<1>5. QED
  BY <1>2, <1>3, <1>4 DEF AuditWork, AuditProcess, AuditFails, AuditStalls, GiveUp

\* OutboxProcessor's check of publishedAt makes later jobs, retries and
\* redeliveries of an event harmless.
THEOREM PublishedStaysQuiet == Spec => NotRoutedAgain
<1>1. ASSUME TypeOK, JobsOK, StoredOnce, [Next]_vars, NEW f \in Events, Settled(f)
      PROVE  Settled(f)' /\ (Arrives(f) => f \in enqueuing \ enqueuing')
  <2>1. row[f].published /\ \A j \in Jobs : job[j].event = f => job[j].at # "route"
    BY <1>1 DEF Settled
  <2>2. row'[f].published
    BY <1>1, <2>1, PublishedStays
  <2>3. job' = job => Settled(f)'
    BY <2>1, <2>2 DEF Settled
  <2>4. auditJob' = auditJob => ~Arrives(f)
    BY DEF Arrives
  <2>5. ASSUME NEW j \in Jobs, Work(j) \/ WorkFails(j)
        PROVE  Settled(f)' /\ ~Arrives(f)
    <3>1. ~Arrives(f)
      BY <1>1, <2>1, <2>5, WorkRoutes DEF At
    <3>2. ASSUME NEW k \in Jobs, job'[k].event = f, job'[k].at = "route" PROVE FALSE
      <4>1. CASE k # j
        BY <1>1, <2>1, <2>5, <3>2, <4>1, WorkTypes
      <4>2. CASE k = j
        <5>1. job[j].event = f
          BY <1>1, <2>5, <3>2, <4>2, WorkTypes
        <5>2. QED
          BY <1>1, <2>1, <2>5, <3>2, <4>2, <5>1, WorkRoutes
      <4>3. QED
        BY <4>1, <4>2
    <3>3. QED
      BY <2>2, <3>1, <3>2 DEF Settled
  <2>6. ASSUME NEW i \in Pollers, Poll(i) \/ PollAdd(i) \/ PollFails(i)
        PROVE  Settled(f)' /\ ~Arrives(f)
    <3>1. (AddJob(i) \/ job' = job) /\ auditJob' = auditJob
      BY <2>6 DEF Poll, PollAdd, PollFails
    <3>2. AddJob(i) => \A k \in Jobs : job'[k].at = "route" => job'[k] = job[k]
      BY <1>1, AddedPublishJob
    <3>3. QED
      BY <2>1, <2>2, <2>3, <2>4, <3>1, <3>2 DEF Settled
  <2>7. ASSUME NEW e \in Events, Request(e)
        PROVE  job' = job /\ (Arrives(f) => f \in enqueuing \ enqueuing')
    BY <1>1, <2>7, RequestRows, RequestArrives
  <2>8. ASSUME NEW e \in Events, BackoffPasses(e)
        PROVE  job' = job /\ auditJob' = auditJob
    BY <2>8 DEF BackoffPasses
  <2>9. ASSUME NEW a \in AuditJobs, AuditWork(a)
        PROVE  job' = job /\ ~Arrives(f)
    BY <1>1, <2>9, AuditAddsNothing DEF AuditWork, AuditProcess, AuditFails, AuditStalls
  <2>10. UNCHANGED vars => job' = job /\ auditJob' = auditJob
    BY DEF vars
  <2>11. QED
    BY <1>1, <2>3, <2>4, <2>5, <2>6, <2>7, <2>8, <2>9, <2>10 DEF Next, Quiet
<1>2. IInv /\ [Next]_vars =>
        \A e \in Events : Settled(e) => Settled(e)' /\ (Arrives(e) => e \in enqueuing \ enqueuing')
  BY <1>1 DEF IInv
<1>3. QED
  BY Inductive, <1>2, PTL DEF Spec, NotRoutedAgain

-----------------------------------------------------------------------------
(* Every step implements a step of AuditTrail.                             *)

\* The initial states map to the initial state.
LEMMA TrailInit == Init => Trail!Init
  BY DEF Init, Trail!Init, Committed, Record, AllCarried, Carried, Stored, FreeAuditJob

\* What an event's record says depends on its row alone.
LEMMA RecordStays ==
    ASSUME \A f \in Events : /\ row'[f].createdAt = row[f].createdAt
                             /\ row'[f].published = row[f].published
    PROVE  Record' = Record
  BY DEF Record, Stored

\* Nobody else is carried after AddAuditJob than before, but its event.
LEMMA CarriedByAdd ==
    ASSUME TypeOK, [Next]_vars, NEW e \in Events,
           AddAuditJob(e), UNCHANGED <<exhausted, auditLog>>
    PROVE  AllCarried' = AllCarried \cup {e}
<1>1. ASSUME NEW f \in Events, Carried(f)', f # e PROVE Carried(f)
  BY <1>1, Arrival DEF Carried, Arrives
<1>2. Carried(e)'
  BY AddedJob DEF Carried
<1>3. \A f \in Events : Carried(f) => Carried(f)'
  BY CarriedStays
<1>4. QED
  BY <1>1, <1>2, <1>3 DEF AllCarried

\* AuditProcessor takes jobs from the queue and writes rows, at most one in a
\* step, but the events that are carried stay the same.
LEMMA AuditCarries ==
    ASSUME TypeOK, [Next]_vars, NEW a \in AuditJobs, AuditWork(a)
    PROVE  /\ AllCarried' = AllCarried
           /\ auditJob[a].event \in AllCarried
           /\ auditLog' = auditLog \/ WriteLog(auditJob[a].event)
<1> DEFINE e == auditJob[a].event
<1>1. e \in Events /\ auditLog \in [Events -> Nat] /\ Carried(e)
  BY DEF AuditWork, AuditProcess, AuditFails, AuditStalls, TypeOK, AuditJob, Carried
<1>2. /\ auditLog' = auditLog \/ WriteLog(e)
      /\ exhausted' = exhausted \/ exhausted' = exhausted \cup {e}
  BY DEF AuditWork, AuditProcess, AuditFails, AuditStalls, GiveUp
<1>3. ASSUME NEW f \in Events, Carried(f)', f # e PROVE Carried(f)
  <2>1. ~Arrives(f)
    BY AuditAddsNothing
  <2>2. auditLog'[f] = auditLog[f] /\ (f \in exhausted' => f \in exhausted)
    BY <1>1, <1>2, <1>3 DEF WriteLog
  <2>3. QED
    BY <1>3, <2>1, <2>2 DEF Carried, Arrives
<1>4. \A f \in Events : Carried(f) => Carried(f)'
  BY CarriedStays
<1>5. QED
  BY <1>1, <1>2, <1>3, <1>4 DEF AllCarried

\* What the actions do to the state of AuditTrail, and when.
TrailStays == UNCHANGED <<Committed, Record, AllCarried, auditLog>>

\* A step of a request commits, records, carries or does nothing of that.
LEMMA RequestTrail ==
    ASSUME IInv, [Next]_vars, NEW e \in Events, Request(e)
    PROVE  \/ Trail!Commit(e) \/ Trail!Record(e) \/ Trail!Carry(e) \/ TrailStays
<1> USE DEF IInv
<1>1. operation \in [Events -> {"idle", "committed", "answered", "crashed"}]
      /\ row \in [Events -> Row]
  BY DEF TypeOK
<1>2. UNCHANGED row => UNCHANGED Record
  BY DEF Record, Stored
<1>3. UNCHANGED <<auditJob, exhausted, auditLog>> => UNCHANGED AllCarried
  BY DEF AllCarried, Carried
<1>4. CASE Commit(e)
  <2>1. e \notin Committed /\ Committed' = Committed \cup {e}
    BY <1>1, <1>4 DEF Commit, Committed
  <2>2. UNCHANGED <<row, auditJob, exhausted, auditLog>>
    BY <1>4 DEF Commit
  <2>3. QED
    BY <1>2, <1>3, <2>1, <2>2 DEF Trail!Commit
<1>5. CASE Tap(e) \/ RequestCrashes(e)
  <2>1. UNCHANGED <<row, auditJob, exhausted, auditLog>>
    BY <1>5 DEF Tap, RequestCrashes
  <2>2. operation[e] # "idle"
    BY <1>5 DEF Tap, RequestCrashes, StoredOnce
  <2>3. \E s \in {"answered", "crashed"} : operation' = [operation EXCEPT ![e] = s]
    BY <1>5 DEF Tap, RequestCrashes
  <2>4. UNCHANGED Committed
    BY <1>1, <2>2, <2>3 DEF Committed
  <2>5. QED
    BY <1>2, <1>3, <2>1, <2>4 DEF TrailStays
<1>6. CASE PersistOutbox(e) \/ PersistFails(e)
  <2>1. UNCHANGED <<operation, auditJob, exhausted, auditLog>> /\ e \in persisting
    BY <1>6 DEF PersistOutbox, PersistFails
  <2>2. UNCHANGED <<Committed, AllCarried, auditLog>> /\ e \in Committed
    BY <1>3, <2>1 DEF Committed, StoredOnce
  <2>3. CASE InsertRow(e)
    <3>1. /\ row'[e].createdAt # 0 /\ row'[e].published = FALSE
          /\ \A f \in Events \ {e} : row'[f] = row[f]
      BY <2>3, InsertedRow
    <3>2. Record[e] = "absent" /\ Record' = [Record EXCEPT ![e] = "pending"]
      BY <2>1, <3>1 DEF Record, Stored, StoredOnce
    <3>3. QED
      BY <2>2, <3>2 DEF Trail!Record
  <2>4. CASE UNCHANGED row
    BY <1>2, <2>2, <2>4 DEF TrailStays
  <2>5. QED
    BY <1>6, <2>3, <2>4 DEF PersistOutbox, PersistFails
<1>7. CASE EnqueueDirect(e) \/ EnqueueFails(e)
  <2>1. UNCHANGED <<operation, row, exhausted, auditLog>> /\ e \in enqueuing
    BY <1>7 DEF EnqueueDirect, EnqueueFails
  <2>2. UNCHANGED <<Committed, Record, auditLog>> /\ e \in Committed
    BY <1>2, <2>1 DEF Committed, StoredOnce
  <2>3. CASE AddAuditJob(e)
    <3>1. AllCarried' = AllCarried \cup {e}
      BY <2>1, <2>3, CarriedByAdd
    <3>2. QED
      BY <2>2, <3>1 DEF Trail!Carry, TrailStays
  <2>4. CASE UNCHANGED auditJob
    BY <1>3, <2>1, <2>2, <2>4 DEF TrailStays
  <2>5. QED
    BY <1>7, <2>3, <2>4 DEF EnqueueDirect, EnqueueFails
<1>8. QED
  BY <1>4, <1>5, <1>6, <1>7 DEF Request

\* A step of a job of OutboxProcessor carries its event or publishes it, or
\* does neither.
LEMMA WorkTrail ==
    ASSUME IInv, [Next]_vars, NEW j \in Jobs, Work(j) \/ WorkFails(j)
    PROVE  LET e == job[j].event IN
           e \in Events /\ (Trail!Carry(e) \/ Trail!Publish(e) \/ TrailStays)
<1> USE DEF IInv
<1> DEFINE e == job[j].event
<1>1. e \in Events /\ row \in [Events -> Row]
  BY WorkTypes DEF TypeOK
<1>2. job[j].at # "free"
  BY DEF Work, WorkFails, FindEvent, RouteToQueue, MarkPublished, Reschedule,
     FindFails, RouteFails, MarkFails, RescheduleFails, JobStalls, At
<1>3. Stored(e) /\ e \in Committed
  BY <1>1, <1>2 DEF StoredOnce, Committed
<1>4. UNCHANGED <<operation, exhausted, auditLog>>
  BY DEF Work, WorkFails, FindEvent, RouteToQueue, MarkPublished, Reschedule,
     FindFails, RouteFails, MarkFails, RescheduleFails, JobStalls, requests
<1>5. UNCHANGED <<Committed, auditLog>>
  BY <1>4 DEF Committed
<1>6. UNCHANGED auditJob => UNCHANGED AllCarried
  BY <1>4 DEF AllCarried, Carried
<1>7. UNCHANGED row => UNCHANGED Record
  BY DEF Record, Stored
<1>8. \/ UNCHANGED <<row, auditJob>>
      \/ UNCHANGED row /\ AddAuditJob(e)
      \/ UNCHANGED auditJob /\ Postpone(e)
      \/ UNCHANGED auditJob /\ At(j, "mark") /\ SetPublished(e)
  BY DEF Work, WorkFails, FindEvent, RouteToQueue, MarkPublished, Reschedule,
     FindFails, RouteFails, MarkFails, RescheduleFails, JobStalls
<1>9. CASE UNCHANGED <<row, auditJob>>
  BY <1>1, <1>5, <1>6, <1>7, <1>9 DEF TrailStays
<1>10. CASE UNCHANGED row /\ AddAuditJob(e)
  <2>1. AllCarried' = AllCarried \cup {e}
    BY <1>1, <1>4, <1>10, CarriedByAdd
  <2>2. QED
    BY <1>1, <1>3, <1>5, <1>7, <1>10, <2>1 DEF Trail!Carry, TrailStays
<1>11. CASE UNCHANGED auditJob /\ Postpone(e)
  <2>1. \A f \in Events : /\ row'[f].createdAt = row[f].createdAt
                          /\ row'[f].published = row[f].published
    BY <1>1, <1>11 DEF Postpone, Row
  <2>2. QED
    BY <1>1, <1>5, <1>6, <1>11, <2>1, RecordStays DEF TrailStays
<1>12. CASE UNCHANGED auditJob /\ At(j, "mark") /\ SetPublished(e)
  <2>1. e \in AllCarried
    BY <1>1, <1>12 DEF JobsOK, JobOK, At, AllCarried
  <2>2. Record' = [Record EXCEPT ![e] = "published"]
    BY <1>1, <1>3, <1>12 DEF SetPublished, Record, Stored, Row
  <2>3. Record[e] \in {"pending", "published"}
    BY <1>1, <1>3 DEF Record
  <2>4. Record \in [Events -> {"absent", "pending", "published"}]
    BY DEF Record
  <2>5. CASE Record[e] = "published"
    BY <1>1, <1>5, <1>6, <1>12, <2>2, <2>4, <2>5 DEF TrailStays
  <2>6. CASE Record[e] = "pending"
    BY <1>1, <1>5, <1>6, <1>12, <2>1, <2>2, <2>6 DEF Trail!Publish
  <2>7. QED
    BY <2>3, <2>5, <2>6
<1>13. QED
  BY <1>8, <1>9, <1>10, <1>11, <1>12

\* Every step maps to a step of AuditTrail or to a stutter.
LEMMA TrailStep == IInv /\ [Next]_vars => [Trail!Next]_(Trail!vars)
<1> SUFFICES ASSUME IInv, [Next]_vars PROVE Trail!Next \/ TrailStays
  BY DEF TrailStays, Trail!vars
<1>1. ASSUME NEW e \in Events, Request(e) PROVE Trail!Next \/ TrailStays
  BY <1>1, RequestTrail DEF Trail!Next
<1>2. ASSUME NEW j \in Jobs, Work(j) \/ WorkFails(j) PROVE Trail!Next \/ TrailStays
  BY <1>2, WorkTrail DEF Trail!Next
<1>3. ASSUME NEW a \in AuditJobs, AuditWork(a) PROVE Trail!Next \/ TrailStays
  <2> DEFINE e == auditJob[a].event
  <2>1. AllCarried' = AllCarried /\ e \in AllCarried /\ (auditLog' = auditLog \/ WriteLog(e))
    BY <1>3, AuditCarries DEF IInv
  <2>2. UNCHANGED <<Committed, Record>>
    BY <1>3 DEF AuditWork, AuditProcess, AuditFails, AuditStalls, requests, Committed,
       Record, Stored
  <2>3. QED
    BY <2>1, <2>2 DEF Trail!Next, Trail!Log, WriteLog, TrailStays, AllCarried
<1>4. ASSUME UNCHANGED <<requests, auditJob, exhausted, auditLog>>, Record' = Record
      PROVE  TrailStays
  BY <1>4 DEF TrailStays, requests, Committed, AllCarried, Carried
<1>5. ASSUME NEW e \in Events, BackoffPasses(e) PROVE TrailStays
  <2>1. \A f \in Events : /\ row'[f].createdAt = row[f].createdAt
                          /\ row'[f].published = row[f].published
    BY <1>5 DEF BackoffPasses, IInv, TypeOK, Row
  <2>2. QED
    BY <1>4, <1>5, <2>1, RecordStays DEF BackoffPasses
<1>6. ASSUME NEW i \in Pollers, Poll(i) \/ PollAdd(i) \/ PollFails(i) PROVE TrailStays
  BY <1>4, <1>6, RecordStays DEF Poll, PollAdd, PollFails
<1>7. UNCHANGED vars => TrailStays
  BY <1>4, RecordStays DEF vars
<1>8. QED
  BY <1>1, <1>2, <1>3, <1>5, <1>6, <1>7, NextCases DEF Other

\* AuditInterceptor, OutboxPollerService, OutboxProcessor and AuditProcessor,
\* with failing calls, retries and stopping processes, implement AuditTrail.
THEOREM OutboxImplementsTrail == Spec => ImplementsTrail
  BY TrailInit, TrailStep, Inductive, PTL DEF Spec, ImplementsTrail, Trail!Spec
=============================================================================
