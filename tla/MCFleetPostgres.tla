--------------------------- MODULE MCFleetPostgres ---------------------------
(* Small constants and starting tables for the runs of FleetPostgres.      *)
EXTENDS FleetPostgres, TLC

CONSTANTS s1, s2, a, b, p

Good == [verification_status |-> "UNKNOWN", status |-> "EXECUTED", exit_code |-> 0]

Failing == [verification_status |-> "UNKNOWN", status |-> "FAILED", exit_code |-> 1]

\* Nothing but the exit code is said.
Terse == [verification_status |-> None, status |-> None, exit_code |-> 0]

GoodOnly == {Good}

GoodAndFailing == {Good, Failing}

GoodAndTerse == {Good, Terse}

\* Nothing stops a caller that asks for a lease that is over when it begins.
Renewals == {-1, 1}

Symmetric == Permutations(Sessions) \cup Permutations(Actors)

----------------------------------------------------------------------------
(* Tables that a few calls leave behind, one after the other: all jobs  *)
(* were claimed at time 0, job 1 was completed and claimed for its         *)
(* verification; it is time 2 and all leases are over.                     *)

Queued == [NoRow EXCEPT !.state = "QUEUED", !.max_attempts = 2]

HeldByA ==
    [Queued EXCEPT !.state = "LEASED", !.attempts = 1, !.execution_worker_id = a,
                   !.execution_lease_hash = 1, !.execution_lease_expires_at = 1]

InspectedByB ==
    [Queued EXCEPT !.state = "VERIFYING", !.attempts = 1, !.execution_worker_id = a,
                   !.receipt = Good, !.verifier_id = b,
                   !.verification_lease_hash = 2, !.verification_lease_expires_at = 1]

Event(n, job, kind, state) ==
    [seq |-> n, prev |-> n - 1, job |-> job, kind |-> kind, state |-> state]

AllLapsed ==
    /\ clock = 2
    /\ plans = [q \in Plans |-> "VERIFIED_PLAN"]
    /\ jobs = [j \in Jobs |-> IF j = 1 THEN InspectedByB ELSE HeldByA]
    /\ events = {Event(1, None, "PLAN_RECORDED", "ABSENT"),
                 Event(8, 1, "EXECUTION_RECEIPT_ACCEPTED", "EXECUTED"),
                 Event(9, 1, "VERIFICATION_LEASE_GRANTED", "VERIFYING")}
                \cup {Event(j + 1, j, "JOB_ENQUEUED", "QUEUED") : j \in Jobs}
                \cup {Event(j + 4, j, "EXECUTION_LEASE_GRANTED", "LEASED") : j \in Jobs}
    /\ nextSeq = 10
    /\ leases = [j \in Jobs |-> << [kind |-> "execution", owner |-> a] >>
                    \o IF j = 1 THEN << [kind |-> "verification", owner |-> b] >> ELSE << >>]
    /\ holder = [j \in Jobs |-> None]
    /\ draft = [j \in Jobs |-> NoRow]
    /\ chainLock = None
    /\ txn = [s \in Sessions |-> Idle]

FairFromAllLapsed == AllLapsed /\ [][Next]_vars /\ Progress
=============================================================================
