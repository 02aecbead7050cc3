------------------------------ MODULE MCOutbox ------------------------------
(* Small instances of Outbox; symmetry for the runs that check no liveness. *)
EXTENDS Outbox, TLC

CONSTANTS e1, e2, i1, i2, j1, j2, a1, a2

Interchangeable ==
    Permutations(Events) \cup Permutations(Pollers)
    \cup Permutations(Jobs) \cup Permutations(AuditJobs)
=============================================================================
