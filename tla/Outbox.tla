------------------------------- MODULE Outbox -------------------------------
(***************************************************************************)
(* The audit trail of an operation: AuditInterceptor writes an event to    *)
(* outbox_events and also enqueues it directly, OutboxPollerService turns  *)
(* pending events into jobs of the queue "outbox", OutboxProcessor routes  *)
(* each to the queue "audit" and marks it as published, and AuditProcessor *)
(* writes the AuditLog row.                                                *)
(*                                                                         *)
(* Each awaited call is a step.  A call may fail, having taken effect or   *)
(* not; a process may stop between any two calls.  The queues are BullMQ   *)
(* as the code uses it: a job is run again after an exception until its    *)
(* attempts are used up, and again when the worker that ran it is gone.    *)
(* Events of type "audit" are the only ones that anything produces.        *)
(***************************************************************************)
EXTENDS Naturals, FiniteSets

CONSTANTS
    Events,           \* audited operations; each has at most one event
    Pollers,          \* one OutboxPollerService per running process
    Jobs, AuditJobs,  \* slots for the jobs of the two queues (bounds)
    None,
    BatchSize,        \* BATCH_SIZE
    PublishAttempts,  \* attempts of an "outbox-publish" job
    AuditAttempts,    \* attempts of an "audit-log" job
    MaxFaults         \* bound on failing calls and stopping processes

ASSUME OutboxAssumption ==
    /\ IsFiniteSet(Events) /\ None \notin Events
    /\ BatchSize \in Nat \ {0}
    /\ PublishAttempts \in Nat \ {0}
    /\ AuditAttempts \in Nat \ {0}
    /\ MaxFaults \in Nat

VARIABLES
    operation,   \* how far the request has come
    persisting,  \* events whose persistOutbox call is in flight
    enqueuing,   \* events whose auditQueue.add call is in flight
    row,         \* outbox_events
    batch,       \* the events a poll has read and has still to enqueue
    job,         \* the queue "outbox", with the step of a running job
    auditJob,    \* the queue "audit"
    exhausted,   \* events with an "audit-log" job that failed for good
    auditLog,    \* number of AuditLog rows of an event
    faults       \* failures so far

requests == <<operation, persisting, enqueuing>>
vars == <<requests, row, batch, job, auditJob, exhausted, auditLog, faults>>

\* createdAt is 0 while there is no row; due is scheduledFor <= now().
Row == [createdAt : Nat, published : BOOLEAN, attempts : Nat, due : BOOLEAN]

Job == [event : Events \cup {None}, tries : Nat,
        at : {"free", "waiting", "route", "mark", "reschedule"}]

AuditJob == [event : Events \cup {None}, tries : Nat]

TypeOK ==
    /\ operation \in [Events -> {"idle", "committed", "answered", "crashed"}]
    /\ persisting \subseteq Events /\ enqueuing \subseteq Events
    /\ row \in [Events -> Row]
    /\ batch \in [Pollers -> SUBSET Events]
    /\ job \in [Jobs -> Job]
    /\ auditJob \in [AuditJobs -> AuditJob]
    /\ exhausted \subseteq Events
    /\ auditLog \in [Events -> Nat]
    /\ faults \in Nat

FreeJob == [event |-> None, tries |-> 0, at |-> "free"]
FreeAuditJob == [event |-> None, tries |-> 0]

Init ==
    /\ operation = [e \in Events |-> "idle"]
    /\ persisting = {} /\ enqueuing = {}
    /\ row = [e \in Events |->
         [createdAt |-> 0, published |-> FALSE, attempts |-> 0, due |-> FALSE]]
    /\ batch = [i \in Pollers |-> {}]
    /\ job = [j \in Jobs |-> FreeJob]
    /\ auditJob = [a \in AuditJobs |-> FreeAuditJob]
    /\ exhausted = {}
    /\ auditLog = [e \in Events |-> 0]
    /\ faults = 0

Stored(e) == row[e].createdAt # 0

Fault == faults < MaxFaults /\ faults' = faults + 1

\* auditQueue.add('audit-log', ...)
AddAuditJob(e) == \E a \in AuditJobs :
    /\ auditJob[a].event = None
    /\ auditJob' = [auditJob EXCEPT ![a] = [event |-> e, tries |-> 0]]

-----------------------------------------------------------------------------
(* AuditInterceptor.intercept.                                             *)

\* The handler has committed its work; the response is still to come.
Commit(e) ==
    /\ operation[e] = "idle"
    /\ operation' = [operation EXCEPT ![e] = "committed"]
    /\ UNCHANGED <<persisting, enqueuing, row, batch, job, auditJob, exhausted,
                   auditLog, faults>>

\* tap starts both calls and waits for neither.
Tap(e) ==
    /\ operation[e] = "committed"
    /\ operation' = [operation EXCEPT ![e] = "answered"]
    /\ persisting' = persisting \cup {e}
    /\ enqueuing' = enqueuing \cup {e}
    /\ UNCHANGED <<row, batch, job, auditJob, exhausted, auditLog, faults>>

InsertRow(e) == row' = [row EXCEPT ![e] =
    [createdAt |-> 1 + Cardinality({f \in Events : Stored(f)}),
     published |-> FALSE, attempts |-> 0, due |-> TRUE]]

PersistOutbox(e) ==
    /\ e \in persisting
    /\ persisting' = persisting \ {e}
    /\ InsertRow(e)
    /\ UNCHANGED <<operation, enqueuing, batch, job, auditJob, exhausted, auditLog,
                   faults>>

\* Fault: the direct call is chained to the INSERT.
PersistFailsBoth(e) ==
    /\ e \in persisting
    /\ Fault
    /\ persisting' = persisting \ {e}
    /\ enqueuing' = enqueuing \ {e}
    /\ UNCHANGED <<operation, row, batch, job, auditJob, exhausted, auditLog>>

PersistFails(e) ==
    /\ e \in persisting
    /\ Fault
    /\ persisting' = persisting \ {e}
    /\ InsertRow(e) \/ UNCHANGED row
    /\ UNCHANGED <<operation, enqueuing, batch, job, auditJob, exhausted, auditLog>>

EnqueueDirect(e) ==
    /\ e \in enqueuing
    /\ enqueuing' = enqueuing \ {e}
    /\ AddAuditJob(e)
    /\ UNCHANGED <<operation, persisting, row, batch, job, exhausted, auditLog,
                   faults>>

EnqueueFails(e) ==
    /\ e \in enqueuing
    /\ Fault
    /\ enqueuing' = enqueuing \ {e}
    /\ AddAuditJob(e) \/ UNCHANGED auditJob
    /\ UNCHANGED <<operation, persisting, row, batch, job, exhausted, auditLog>>

\* The process stops: its calls that have not been sent never will be.
RequestCrashes(e) ==
    /\ operation[e] = "committed" \/ e \in persisting \cup enqueuing
    /\ Fault
    /\ operation' = [operation EXCEPT ![e] = "crashed"]
    /\ persisting' = persisting \ {e}
    /\ enqueuing' = enqueuing \ {e}
    /\ UNCHANGED <<row, batch, job, auditJob, exhausted, auditLog>>

-----------------------------------------------------------------------------
(* OutboxPollerService.                                                    *)

\* Fault: published events come back with every batch.
AllDue == {e \in Events : Stored(e) /\ row[e].due}

Pending == {e \in Events : Stored(e) /\ ~row[e].published /\ row[e].due}

\* orderBy createdAt, take BATCH_SIZE.
Oldest(E) == {e \in E :
    Cardinality({f \in E : row[f].createdAt < row[e].createdAt}) < BatchSize}

\* pollSafely: no poll starts while the previous one of the process runs.
Poll(i) ==
    /\ batch[i] = {}
    /\ Pending # {}
    /\ batch' = [batch EXCEPT ![i] = Oldest(Pending)]
    /\ UNCHANGED <<requests, row, job, auditJob, exhausted, auditLog, faults>>

\* outboxQueue.add('outbox-publish', ...) for the next event of the batch.
AddJob(i) == \E e \in batch[i], j \in Jobs :
    /\ \A f \in batch[i] : row[e].createdAt <= row[f].createdAt
    /\ job[j].at = "free"
    /\ job' = [job EXCEPT ![j] = [event |-> e, tries |-> 0, at |-> "waiting"]]

PollAdd(i) ==
    /\ AddJob(i)
    /\ batch' = [batch EXCEPT ![i] = {e \in @ : \E f \in @ :
                   row[f].createdAt < row[e].createdAt}]
    /\ UNCHANGED <<requests, row, auditJob, exhausted, auditLog, faults>>

\* An exception, or the end of the process, ends the poll.
PollFails(i) ==
    /\ batch[i] # {}
    /\ Fault
    /\ AddJob(i) \/ UNCHANGED job
    /\ batch' = [batch EXCEPT ![i] = {}]
    /\ UNCHANGED <<requests, row, auditJob, exhausted, auditLog>>

-----------------------------------------------------------------------------
(* OutboxProcessor.process.                                                *)
At(j, s) == job[j].at = s

Step(j, s) == job' = [job EXCEPT ![j].at = s]

Finish(j) == job' = [job EXCEPT ![j] = FreeJob]

\* process has thrown: the queue runs the job again or gives it up.
Throw(j) ==
    IF job[j].tries + 1 < PublishAttempts
      THEN job' = [job EXCEPT ![j].at = "waiting", ![j].tries = @ + 1]
      ELSE Finish(j)

\* Fault: publishedAt is not looked at.
FindAnyEvent(j) ==
    /\ At(j, "waiting")
    /\ Step(j, "route")
    /\ UNCHANGED <<requests, row, batch, auditJob, exhausted, auditLog, faults>>

\* findUnique: an event already published is left alone.
FindEvent(j) ==
    /\ At(j, "waiting")
    /\ IF row[job[j].event].published THEN Finish(j) ELSE Step(j, "route")
    /\ UNCHANGED <<requests, row, batch, auditJob, exhausted, auditLog, faults>>

FindFails(j) ==
    /\ At(j, "waiting")
    /\ Fault
    /\ Throw(j)
    /\ UNCHANGED <<requests, row, batch, auditJob, exhausted, auditLog>>

RouteToQueue(j) ==
    /\ At(j, "route")
    /\ AddAuditJob(job[j].event)
    /\ Step(j, "mark")
    /\ UNCHANGED <<requests, row, batch, exhausted, auditLog, faults>>

\* Fault: the exception of the queue is swallowed.
RouteSwallows(j) ==
    /\ At(j, "route")
    /\ Fault
    /\ Step(j, "mark")
    /\ UNCHANGED <<requests, row, batch, auditJob, exhausted, auditLog>>

RouteFails(j) ==
    /\ At(j, "route")
    /\ Fault
    /\ AddAuditJob(job[j].event) \/ UNCHANGED auditJob
    /\ Step(j, "reschedule")
    /\ UNCHANGED <<requests, row, batch, exhausted, auditLog>>

SetPublished(e) == row' = [row EXCEPT ![e].published = TRUE]

MarkPublished(j) ==
    /\ At(j, "mark")
    /\ SetPublished(job[j].event)
    /\ Finish(j)
    /\ UNCHANGED <<requests, batch, auditJob, exhausted, auditLog, faults>>

MarkFails(j) ==
    /\ At(j, "mark")
    /\ Fault
    /\ SetPublished(job[j].event) \/ UNCHANGED row
    /\ Step(j, "reschedule")
    /\ UNCHANGED <<requests, batch, auditJob, exhausted, auditLog>>

Postpone(e) == row' = [row EXCEPT ![e].attempts = @ + 1, ![e].due = FALSE]

\* Fault: publishedAt is cleared with the retry.
RescheduleAnew(j) ==
    /\ At(j, "reschedule")
    /\ row' = [row EXCEPT ![job[j].event].published = FALSE,
                          ![job[j].event].due = FALSE]
    /\ Throw(j)
    /\ UNCHANGED <<requests, batch, auditJob, exhausted, auditLog, faults>>

\* The catch block, which throws again.
Reschedule(j) ==
    /\ At(j, "reschedule")
    /\ Postpone(job[j].event)
    /\ Throw(j)
    /\ UNCHANGED <<requests, batch, auditJob, exhausted, auditLog, faults>>

RescheduleFails(j) ==
    /\ At(j, "reschedule")
    /\ Fault
    /\ Postpone(job[j].event) \/ UNCHANGED row
    /\ Throw(j)
    /\ UNCHANGED <<requests, batch, auditJob, exhausted, auditLog>>

\* The worker is gone: the queue hands the job to another, or gives it up when
\* that has happened before.  A job "waiting" may be inside its findUnique.
JobStalls(j) ==
    /\ ~At(j, "free")
    /\ Fault
    /\ Step(j, "waiting") \/ Finish(j)
    /\ UNCHANGED <<requests, row, batch, auditJob, exhausted, auditLog>>

BackoffPasses(e) ==
    /\ Stored(e) /\ ~row[e].due
    /\ row' = [row EXCEPT ![e].due = TRUE]
    /\ UNCHANGED <<requests, batch, job, auditJob, exhausted, auditLog, faults>>

-----------------------------------------------------------------------------
(* AuditProcessor.process: one INSERT.                                     *)
Free(a) == auditJob' = [auditJob EXCEPT ![a] = FreeAuditJob]

WriteLog(e) == auditLog' = [auditLog EXCEPT ![e] = @ + 1]

AuditProcess(a) ==
    /\ auditJob[a].event # None
    /\ WriteLog(auditJob[a].event)
    /\ Free(a)
    /\ UNCHANGED <<requests, row, batch, job, exhausted, faults>>

\* The job is given up and kept for inspection.
GiveUp(a) == Free(a) /\ exhausted' = exhausted \cup {auditJob[a].event}

\* The INSERT fails, having taken effect or not: the queue counts the attempt.
AuditFails(a) ==
    LET e == auditJob[a].event IN
    /\ e # None
    /\ Fault
    /\ WriteLog(e) \/ UNCHANGED auditLog
    /\ IF auditJob[a].tries + 1 < AuditAttempts
         THEN auditJob' = [auditJob EXCEPT ![a].tries = @ + 1] /\ UNCHANGED exhausted
         ELSE GiveUp(a)
    /\ UNCHANGED <<requests, row, batch, job>>

\* The worker is gone before it could report its success.
AuditStalls(a) ==
    LET e == auditJob[a].event IN
    /\ e # None
    /\ Fault
    /\ WriteLog(e) \/ UNCHANGED auditLog
    /\ UNCHANGED <<auditJob, exhausted>> \/ GiveUp(a)
    /\ UNCHANGED <<requests, row, batch, job>>

-----------------------------------------------------------------------------
Request(e) == \/ Commit(e) \/ Tap(e) \/ PersistOutbox(e) \/ PersistFails(e)
              \/ EnqueueDirect(e) \/ EnqueueFails(e) \/ RequestCrashes(e)

Work(j) == \/ FindEvent(j) \/ RouteToQueue(j) \/ MarkPublished(j) \/ Reschedule(j)

WorkFails(j) == \/ FindFails(j) \/ RouteFails(j) \/ MarkFails(j)
                \/ RescheduleFails(j) \/ JobStalls(j)

AuditWork(a) == AuditProcess(a) \/ AuditFails(a) \/ AuditStalls(a)

\* Every operation has ended and nothing is left to do.
Quiet ==
    /\ \A e \in Events : operation[e] \in {"answered", "crashed"}
    /\ persisting = {} /\ enqueuing = {}
    /\ \A e \in Events : Stored(e) => row[e].published /\ row[e].due
    /\ \A i \in Pollers : batch[i] = {}
    /\ \A j \in Jobs : job[j] = FreeJob
    /\ \A a \in AuditJobs : auditJob[a] = FreeAuditJob
    /\ UNCHANGED vars

Next ==
    \/ \E e \in Events : Request(e) \/ BackoffPasses(e)
    \/ \E i \in Pollers : Poll(i) \/ PollAdd(i) \/ PollFails(i)
    \/ \E j \in Jobs : Work(j) \/ WorkFails(j)
    \/ \E a \in AuditJobs : AuditWork(a)
    \/ Quiet

Spec == Init /\ [][Next]_vars

\* setInterval fires, time passes, and the workers of both queues run jobs.
Fairness ==
    /\ \A e \in Events : WF_vars(BackoffPasses(e))
    /\ \A i \in Pollers : WF_vars(Poll(i)) /\ WF_vars(PollAdd(i))
    /\ \A j \in Jobs : WF_vars(Work(j))
    /\ \A a \in AuditJobs : WF_vars(AuditProcess(a))

FairSpec == Spec /\ Fairness

-----------------------------------------------------------------------------
(* Properties.                                                             *)

\* The event is in the audit log, on its way there, or in a job that has used
\* up its attempts and is kept for inspection.
Carried(e) ==
    \/ auditLog[e] > 0
    \/ e \in exhausted
    \/ \E a \in AuditJobs : auditJob[a].event = e

\* publishedAt is never set before the event is in the hands of the queue
\* "audit", whatever fails, stalls or is retried: the poller does not give up
\* an event that nobody carries.
PublishedIsCarried == \A e \in Events : row[e].published => Carried(e)

\* One failure alone loses no event of an operation that was answered: the two
\* writes of the interceptor are independent.
OneFailureLosesNothing == \A e \in Events :
    /\ operation[e] = "answered"
    /\ e \notin persisting \cup enqueuing
    /\ faults <= 1
    => Stored(e) \/ Carried(e)

\* No job is about to route the event.
Settled(e) == row[e].published /\ \A j \in Jobs : job[j].event = e => job[j].at # "route"

\* A job of the event is added to the queue "audit".
Arrives(e) == \E a \in AuditJobs : auditJob[a].event # e /\ auditJob'[a].event = e

\* Once an event is published and no job that had read it before is still about
\* to route it, it is never routed again: not by a job of another poll, a retry
\* or a job handed to another worker.  Only the interceptor's own call may still
\* arrive.
NotRoutedAgain == [][\A e \in Events :
    Settled(e) => Settled(e)' /\ (Arrives(e) => e \in enqueuing \ enqueuing')]_vars

\* A stored event reaches the audit log, or a job that failed for good.
StoredIsAudited == \A e \in Events :
    Stored(e) ~> auditLog[e] > 0 \/ e \in exhausted

-----------------------------------------------------------------------------
(* The strengthening of PublishedIsCarried and OneFailureLosesNothing.     *)

\* A job that runs or waits has an event; one about to mark it has routed it.
JobOK(j) ==
    /\ job[j].at # "free" => job[j].event \in Events
    /\ \A e \in Events : job[j].at = "mark" /\ job[j].event = e => Carried(e)

JobsOK == \A j \in Jobs : JobOK(j)

\* Of the two calls of an answered request that are over, the first to fail is
\* a fault, and so is the second.
AnsweredOK == \A e \in Events :
    operation[e] = "answered" =>
      /\ ~Stored(e) /\ e \notin persisting => faults >= 1
      /\ ~Carried(e) /\ e \notin enqueuing => faults >= 1
      /\ ~Stored(e) /\ ~Carried(e) /\ e \notin persisting \cup enqueuing => faults >= 2

\* A row is inserted once, after the operation was answered; polls and jobs are
\* about rows.
StoredOnce ==
    /\ \A e \in Events :
         /\ operation[e] \in {"idle", "committed"}
              => e \notin persisting \cup enqueuing /\ ~Stored(e)
         /\ e \in persisting => ~Stored(e)
         /\ row[e].published => Stored(e)
    /\ \A i \in Pollers : \A e \in batch[i] : Stored(e)
    /\ \A j \in Jobs, e \in Events : job[j].at # "free" /\ job[j].event = e => Stored(e)

IInv == TypeOK /\ JobsOK /\ PublishedIsCarried /\ AnsweredOK /\ StoredOnce

-----------------------------------------------------------------------------
(* The audit trail as a whole.                                             *)

Committed == {e \in Events : operation[e] # "idle"}

\* What a poller sees of an event.
Record == [e \in Events |->
    IF ~Stored(e) THEN "absent" ELSE IF row[e].published THEN "published" ELSE "pending"]

AllCarried == {e \in Events : Carried(e)}

\* Requests, pollers, jobs and failures together implement AuditTrail: every
\* step is a step of AuditTrail or leaves what it speaks of unchanged.
Trail == INSTANCE AuditTrail WITH
    committed <- Committed, record <- Record, carried <- AllCarried

ImplementsTrail == Trail!Spec

-----------------------------------------------------------------------------
(* What a comment of the repository says, and the code does not do.         *)

\* "A duplicacao e benigna": an operation has one row in the audit log.
AuditedOnce == \A e \in Events : auditLog[e] <= 1
=============================================================================
