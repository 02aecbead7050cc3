----------------------------- MODULE AuditTrail -----------------------------
(***************************************************************************)
(* What the pieces of Outbox promise together, with calls, jobs, retries   *)
(* and failures left out: an operation that has committed may be recorded  *)
(* in the outbox, once; its event comes into the hands of the queue        *)
(* "audit" and never leaves them; only then is its record published, for   *)
(* good, and only then are rows written to the audit log.                  *)
(***************************************************************************)
EXTENDS Naturals

CONSTANT Events

VARIABLES
    committed,   \* the operations whose handler has committed
    record,      \* "absent", "pending" or "published"
    carried,     \* the events that the queue "audit" has received
    auditLog     \* number of rows of an event

vars == <<committed, record, carried, auditLog>>

Init ==
    /\ committed = {} /\ carried = {}
    /\ record = [e \in Events |-> "absent"]
    /\ auditLog = [e \in Events |-> 0]

Commit(e) ==
    /\ e \notin committed
    /\ committed' = committed \cup {e}
    /\ UNCHANGED <<record, carried, auditLog>>

Record(e) ==
    /\ e \in committed
    /\ record[e] = "absent"
    /\ record' = [record EXCEPT ![e] = "pending"]
    /\ UNCHANGED <<committed, carried, auditLog>>

\* By the operation itself, or because it is recorded.
Carry(e) ==
    /\ e \in committed \ carried
    /\ carried' = carried \cup {e}
    /\ UNCHANGED <<committed, record, auditLog>>

Publish(e) ==
    /\ e \in carried
    /\ record[e] = "pending"
    /\ record' = [record EXCEPT ![e] = "published"]
    /\ UNCHANGED <<committed, carried, auditLog>>

\* An event may have more rows than one: a job may run twice.
Log(e) ==
    /\ e \in carried
    /\ auditLog' = [auditLog EXCEPT ![e] = @ + 1]
    /\ UNCHANGED <<committed, record, carried>>

Next == \E e \in Events :
    Commit(e) \/ Record(e) \/ Carry(e) \/ Publish(e) \/ Log(e)

Spec == Init /\ [][Next]_vars
=============================================================================
