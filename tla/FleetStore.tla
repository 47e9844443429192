----------------------------- MODULE FleetStore -----------------------------
(***************************************************************************)
(* DurableFleetStore (fleet.py): the durable queue of the executor fleet.  *)
(*                                                                         *)
(* Every public operation reads the clock, opens one BEGIN IMMEDIATE       *)
(* transaction and either commits all of its statements or rolls them all  *)
(* back, so an operation is one atomic action and a refused call, which    *)
(* changes nothing, is an action that is not enabled.  What is not atomic  *)
(* is the clock: it is read BEFORE the transaction may wait, up to the     *)
(* busy timeout, for the write lock, so an action works with a time `at'   *)
(* that may lie up to MaxWait behind `clock'.                              *)
(*                                                                         *)
(* The columns that no decision reads (workspace, capability, argv, cwd,   *)
(* the verification spec, last_error) are left out.                        *)
(***************************************************************************)
EXTENDS Integers, Sequences

CONSTANTS
    Jobs,           \* job ids; integers, because ORDER BY compares them
    Plans,          \* plan ids
    Actors,         \* worker and verifier ids: one name space
    Budgets,        \* values of max_attempts
    Priorities,     \* values of priority
    LeaseSeconds,   \* validated lease lengths of claim_execution
    RenewSeconds,   \* lease lengths of the calls that validate none
    RetryDelays,    \* values of retry_delay_seconds
    MaxWait,        \* longest wait for the database write lock
    MaxClock,       \* bound: the clock stops here
    MaxInspections, \* bound: verification leases granted per job
    None            \* SQL NULL

VARIABLES
    clock,      \* wall-clock seconds
    plans,      \* table plans: plan id -> status
    jobs,       \* table jobs: job id -> row
    log,        \* table fleet_events: how many events of a kind a job has
    leases      \* job id -> the leases handed out so far; the n-th has token n

vars == <<clock, plans, jobs, log, leases>>

----------------------------------------------------------------------------
(* The tables                                                              *)

PlanStates == {"ABSENT", "VERIFIED_PLAN", "BLOCKED"}

JobStates == {"QUEUED", "LEASED", "EXECUTED", "VERIFYING", "VERIFIED", "FAILED", "BLOCKED"}

Verdicts == {"VERIFIED", "FAILED", "BLOCKED"}

\* The hash of a token or of a receipt: it identifies what it is a hash of.
Sha256(x) == [sha256 |-> x]

Hashes == [sha256 : Nat]

\* A receipt is told apart by the lease under which its workload ran;
\* `succeeded' says that the result is EXECUTED with exit code 0.
Receipts == [run : Nat, verification_status : {"UNKNOWN", "VERIFIED"}, succeeded : BOOLEAN]

Verifications == [verdict : Verdicts, verifier_id : Actors,
                  receipt_sha256 : [sha256 : Receipts]]

Row == [state                         : JobStates \cup {"ABSENT"},
        plan_id                       : Plans \cup {None},
        priority                      : Int,
        available_at                  : Int,
        created_at                    : Int,
        updated_at                    : Int,
        attempts                      : Nat,
        max_attempts                  : Nat,
        execution_worker_id           : Actors \cup {None},
        execution_lease_hash          : Hashes \cup {None},
        execution_lease_expires_at    : Int \cup {None},
        receipt                       : Receipts \cup {None},
        verifier_id                   : Actors \cup {None},
        verification_lease_hash       : Hashes \cup {None},
        verification_lease_expires_at : Int \cup {None},
        verification                  : Verifications \cup {None}]

\* The place of a row that has not been inserted yet.
NoRow == [state |-> "ABSENT", plan_id |-> None, priority |-> 0,
          available_at |-> 0, created_at |-> 0, updated_at |-> 0,
          attempts |-> 0, max_attempts |-> 0,
          execution_worker_id |-> None, execution_lease_hash |-> None,
          execution_lease_expires_at |-> None, receipt |-> None,
          verifier_id |-> None, verification_lease_hash |-> None,
          verification_lease_expires_at |-> None, verification |-> None]

\* The kinds of event that carry a job id; heartbeats are not counted.
EventKinds == {"JOB_ENQUEUED", "EXECUTION_LEASE_GRANTED", "EXECUTION_LEASE_EXPIRED",
               "EXECUTION_RECEIPT_ACCEPTED", "EXECUTION_FAILED",
               "VERIFICATION_LEASE_GRANTED", "VERIFICATION_LEASE_EXPIRED",
               "INDEPENDENT_VERIFICATION"}

ASSUME FleetAssumption ==
    /\ Jobs \subseteq Nat
    /\ Budgets \subseteq Nat \ {0}
    /\ Priorities \subseteq Int
    /\ LeaseSeconds \subseteq Nat \ {0}
    /\ RenewSeconds \subseteq Int
    /\ RetryDelays \subseteq Int
    /\ MaxWait \in Nat
    /\ MaxClock \in Nat
    /\ MaxInspections \in Nat
    /\ None \notin Actors \cup Int \cup Hashes \cup Receipts \cup Verifications

LeaseRecords == [kind : {"execution", "verification"}, owner : Actors]

\* The times an operation that now enters its transaction may have read.
Nows == {t \in 0..clock : clock - t <= MaxWait}

\* _event: append one event of this kind to the ledger.
Event(tally, kind) == [tally EXCEPT ![kind] = @ + 1]

----------------------------------------------------------------------------
(* Plans and submission                                                    *)

Init ==
    /\ clock = 0
    /\ plans = [p \in Plans |-> "ABSENT"]
    /\ jobs = [j \in Jobs |-> NoRow]
    /\ log = [j \in Jobs |-> [k \in EventKinds |-> 0]]
    /\ leases = [j \in Jobs |-> << >>]

Tick ==
    /\ clock < MaxClock
    /\ clock' = clock + 1
    /\ UNCHANGED <<plans, jobs, log, leases>>

RecordPlan(p, status) ==
    /\ plans' = [plans EXCEPT ![p] = status]
    /\ UNCHANGED <<clock, jobs, log, leases>>

NewRow(p, priority, budget, at) ==
    [NoRow EXCEPT !.state = "QUEUED", !.plan_id = p, !.priority = priority,
                  !.available_at = at, !.created_at = at, !.updated_at = at,
                  !.max_attempts = budget]

Enqueue(j, p, priority, budget, at) ==
    /\ plans[p] = "VERIFIED_PLAN"
    /\ jobs[j].state = "ABSENT"
    /\ jobs' = [jobs EXCEPT ![j] = NewRow(p, priority, budget, at)]
    /\ log' = [log EXCEPT ![j] = Event(@, "JOB_ENQUEUED")]
    /\ UNCHANGED <<clock, plans, leases>>

----------------------------------------------------------------------------
(* Taking back lapsed leases                                               *)

\* Mutant: the deadline itself counts as passed.
ExecutionLapsedAtDeadline(r, at) ==
    r.state = "LEASED" /\ r.execution_lease_expires_at <= at

ExecutionLapsed(r, at) ==
    r.state = "LEASED" /\ r.execution_lease_expires_at < at

VerificationLapsed(r, at) ==
    r.state = "VERIFYING" /\ r.verification_lease_expires_at < at

\* Mutants: the last attempt is not seen as the last; attempts do not matter.
NextStateOffByOne(r) == IF r.attempts <= r.max_attempts THEN "QUEUED" ELSE "FAILED"

NextStateRetry(r) == "QUEUED"

\* Where a job goes whose attempt is lost.
NextState(r) == IF r.attempts < r.max_attempts THEN "QUEUED" ELSE "FAILED"

WithoutExecutionLease(r, at) ==
    [r EXCEPT !.state = NextState(r), !.execution_worker_id = None,
              !.execution_lease_hash = None, !.execution_lease_expires_at = None,
              !.updated_at = at]

WithoutVerificationLease(r, at) ==
    [r EXCEPT !.state = "EXECUTED", !.verifier_id = None,
              !.verification_lease_hash = None,
              !.verification_lease_expires_at = None, !.updated_at = at]

\* _reap_expired, the row: it opens the transaction of both claims.
ReapRow(r, at) ==
    IF ExecutionLapsed(r, at) THEN WithoutExecutionLease(r, at)
    ELSE IF VerificationLapsed(r, at) THEN WithoutVerificationLease(r, at)
    ELSE r

\* Mutant: only lapsed executions are recorded.
ReapEventOfExecutions(tally, r, at) ==
    IF ExecutionLapsed(r, at) THEN Event(tally, "EXECUTION_LEASE_EXPIRED") ELSE tally

\* _reap_expired, the event of that row.
ReapEvent(tally, r, at) ==
    IF ExecutionLapsed(r, at) THEN Event(tally, "EXECUTION_LEASE_EXPIRED")
    ELSE IF VerificationLapsed(r, at) THEN Event(tally, "VERIFICATION_LEASE_EXPIRED")
    ELSE tally

ReapedJobs(at) == [j \in Jobs |-> ReapRow(jobs[j], at)]

ReapedLog(at) == [j \in Jobs |-> ReapEvent(log[j], jobs[j], at)]

----------------------------------------------------------------------------
(* Execution                                                               *)

Claimable(r, at) ==
    /\ r.state = "QUEUED"
    /\ r.available_at <= at
    /\ r.attempts < r.max_attempts

\* Mutant: ORDER BY priority, job_id
ClaimedBeforeById(rows, i, j) ==
    \/ rows[i].priority < rows[j].priority
    \/ rows[i].priority = rows[j].priority /\ i < j

\* ORDER BY priority, created_at, job_id
ClaimedBefore(rows, i, j) ==
    \/ rows[i].priority < rows[j].priority
    \/ /\ rows[i].priority = rows[j].priority
       /\ \/ rows[i].created_at < rows[j].created_at
          \/ rows[i].created_at = rows[j].created_at /\ i < j

\* Mutant: the token is made from the number of attempts.
GrantExecutionByAttempt(r, worker, token, expires, at) ==
    [r EXCEPT !.state = "LEASED", !.execution_worker_id = worker,
              !.execution_lease_hash = Sha256(r.attempts),
              !.execution_lease_expires_at = expires,
              !.attempts = @ + 1, !.updated_at = at]

GrantExecution(r, worker, token, expires, at) ==
    [r EXCEPT !.state = "LEASED", !.execution_worker_id = worker,
              !.execution_lease_hash = Sha256(token),
              !.execution_lease_expires_at = expires,
              !.attempts = @ + 1, !.updated_at = at]

\* A claim that finds no job commits what it reaped.
ClaimExecution(worker, seconds, at) ==
    LET rows == ReapedJobs(at)
        events == ReapedLog(at)
        claimable == {j \in Jobs : Claimable(rows[j], at)}
    IN  /\ \/ /\ claimable = {}
              /\ jobs' = rows
              /\ log' = events
              /\ UNCHANGED leases
           \/ \E j \in claimable :
              /\ \A i \in claimable \ {j} : ~ ClaimedBefore(rows, i, j)
              /\ jobs' = [rows EXCEPT ![j] =
                            GrantExecution(@, worker, Len(leases[j]) + 1, at + seconds, at)]
              /\ log' = [events EXCEPT ![j] = Event(@, "EXECUTION_LEASE_GRANTED")]
              /\ leases' = [leases EXCEPT ![j] =
                              Append(@, [kind |-> "execution", owner |-> worker])]
        /\ UNCHANGED <<clock, plans>>

\* Mutant: the worker id is enough.
OwnsExecutionByName(r, worker, token) ==
    r.state = "LEASED" /\ r.execution_worker_id = worker

\* The caller holds the execution lease of this row.
OwnsExecution(r, worker, token) ==
    /\ r.state = "LEASED"
    /\ r.execution_worker_id = worker
    /\ r.execution_lease_hash = Sha256(token)

Extended(r, expires, at) ==
    [r EXCEPT !.execution_lease_expires_at = expires, !.updated_at = at]

HeartbeatExecution(j, worker, token, seconds, at) ==
    /\ OwnsExecution(jobs[j], worker, token)
    /\ jobs[j].execution_lease_expires_at >= at
    /\ jobs' = [jobs EXCEPT ![j] = Extended(@, at + seconds, at)]
    /\ UNCHANGED <<clock, plans, log, leases>>

\* The checks on a receipt that precede the transaction.
Acceptable(receipt, signed) ==
    signed /\ receipt.verification_status = "UNKNOWN" /\ receipt.succeeded

WithReceipt(r, receipt, at) ==
    [r EXCEPT !.state = "EXECUTED", !.receipt = receipt, !.execution_lease_hash = None,
              !.execution_lease_expires_at = None, !.updated_at = at]

CompleteExecution(j, worker, token, receipt, signed, at) ==
    /\ Acceptable(receipt, signed)
    /\ OwnsExecution(jobs[j], worker, token)
    /\ jobs[j].execution_lease_expires_at >= at
    /\ jobs' = [jobs EXCEPT ![j] = WithReceipt(@, receipt, at)]
    /\ log' = [log EXCEPT ![j] = Event(@, "EXECUTION_RECEIPT_ACCEPTED")]
    /\ UNCHANGED <<clock, plans, leases>>

RetryAt(at, delay) == at + (IF delay > 0 THEN delay ELSE 0)

Requeued(r, delay, at) ==
    [WithoutExecutionLease(r, at) EXCEPT !.available_at = RetryAt(at, delay)]

\* A failure is accepted from a lease that has lapsed but was not reaped.
FailExecution(j, worker, token, delay, at) ==
    /\ OwnsExecution(jobs[j], worker, token)
    /\ jobs' = [jobs EXCEPT ![j] = Requeued(@, delay, at)]
    /\ log' = [log EXCEPT ![j] = Event(@, "EXECUTION_FAILED")]
    /\ UNCHANGED <<clock, plans, leases>>

----------------------------------------------------------------------------
(* Verification                                                            *)

\* Mutant: anybody may inspect.
InspectableByAnybody(r, verifier) == r.state = "EXECUTED"

Inspectable(r, verifier) ==
    /\ r.state = "EXECUTED"
    /\ r.execution_worker_id = None \/ r.execution_worker_id # verifier

\* ORDER BY updated_at, job_id
InspectedBefore(rows, i, j) ==
    \/ rows[i].updated_at < rows[j].updated_at
    \/ rows[i].updated_at = rows[j].updated_at /\ i < j

GrantVerification(r, verifier, token, expires, at) ==
    [r EXCEPT !.state = "VERIFYING", !.verifier_id = verifier,
              !.verification_lease_hash = Sha256(token),
              !.verification_lease_expires_at = expires, !.updated_at = at]

ClaimVerification(verifier, seconds, at) ==
    LET rows == ReapedJobs(at)
        events == ReapedLog(at)
        inspectable == {j \in Jobs : Inspectable(rows[j], verifier)}
    IN  /\ \/ /\ inspectable = {}
              /\ jobs' = rows
              /\ log' = events
              /\ UNCHANGED leases
           \/ \E j \in inspectable :
              /\ \A i \in inspectable \ {j} : ~ InspectedBefore(rows, i, j)
              /\ log[j]["VERIFICATION_LEASE_GRANTED"] < MaxInspections
              /\ jobs' = [rows EXCEPT ![j] =
                            GrantVerification(@, verifier, Len(leases[j]) + 1, at + seconds, at)]
              /\ log' = [events EXCEPT ![j] = Event(@, "VERIFICATION_LEASE_GRANTED")]
              /\ leases' = [leases EXCEPT ![j] =
                              Append(@, [kind |-> "verification", owner |-> verifier])]
        /\ UNCHANGED <<clock, plans>>

OwnsVerification(r, verifier, token) ==
    /\ r.state = "VERIFYING"
    /\ r.verifier_id = verifier
    /\ r.execution_worker_id # verifier
    /\ r.verification_lease_hash = Sha256(token)

WithVerdict(r, verifier, verdict, at) ==
    [r EXCEPT !.state = verdict,
              !.verification = [verdict |-> verdict, verifier_id |-> verifier,
                                receipt_sha256 |-> Sha256(r.receipt)],
              !.verification_lease_hash = None,
              !.verification_lease_expires_at = None, !.updated_at = at]

\* `checks' is the set of the values of the checks in the proof.
CompleteVerification(j, verifier, token, verdict, checks, at) ==
    /\ verdict = "VERIFIED" => checks = {TRUE}
    /\ OwnsVerification(jobs[j], verifier, token)
    /\ jobs[j].verification_lease_expires_at >= at
    /\ jobs' = [jobs EXCEPT ![j] = WithVerdict(@, verifier, verdict, at)]
    /\ log' = [log EXCEPT ![j] = Event(@, "INDEPENDENT_VERIFICATION")]
    /\ UNCHANGED <<clock, plans, leases>>
----------------------------------------------------------------------------
(* The specification.  A caller presents the tokens it was handed, however *)
(* late; a worker presents the receipt of the run its lease was for.       *)

\* The owner of the t-th lease of job j makes use of it.
Call(j, owner, t, at) ==
    \/ \E seconds \in RenewSeconds : HeartbeatExecution(j, owner, t, seconds, at)
    \/ \E status \in {"UNKNOWN", "VERIFIED"}, ok, signed \in BOOLEAN :
          CompleteExecution(j, owner, t,
             [run |-> t, verification_status |-> status, succeeded |-> ok], signed, at)
    \/ \E delay \in RetryDelays : FailExecution(j, owner, t, delay, at)
    \/ \E verdict \in Verdicts, checks \in SUBSET BOOLEAN :
          CompleteVerification(j, owner, t, verdict, checks, at)

Next ==
    \/ Tick
    \/ \E p \in Plans, status \in PlanStates \ {"ABSENT"} : RecordPlan(p, status)
    \/ \E at \in Nows :
       \/ \E j \in Jobs, p \in Plans, priority \in Priorities, budget \in Budgets :
             Enqueue(j, p, priority, budget, at)
       \/ \E a \in Actors, seconds \in LeaseSeconds : ClaimExecution(a, seconds, at)
       \/ \E a \in Actors, seconds \in RenewSeconds : ClaimVerification(a, seconds, at)
       \/ \E j \in Jobs : \E t \in DOMAIN leases[j] : Call(j, leases[j][t].owner, t, at)

Spec == Init /\ [][Next]_vars

----------------------------------------------------------------------------
(* Properties                                                              *)

\* Every table holds rows of its type.
TypeOK ==
    /\ clock \in 0..MaxClock
    /\ plans \in [Plans -> PlanStates]
    /\ jobs \in [Jobs -> Row]
    /\ log \in [Jobs -> [EventKinds -> Nat]]
    /\ leases \in [Jobs -> Seq(LeaseRecords)]

HasExecutionLease(r) ==
    /\ r.execution_lease_hash # None
    /\ r.execution_lease_expires_at # None

NoExecutionLease(r) ==
    /\ r.execution_lease_hash = None
    /\ r.execution_lease_expires_at = None

HasVerificationLease(r) ==
    /\ r.verification_lease_hash # None
    /\ r.verification_lease_expires_at # None

NoVerificationLease(r) ==
    /\ r.verification_lease_hash = None
    /\ r.verification_lease_expires_at = None

ColumnsFit(r) ==
    /\ r.state \in {"ABSENT", "QUEUED"} =>
          /\ r.execution_worker_id = None /\ NoExecutionLease(r)
          /\ r.receipt = None /\ r.verification = None
    /\ r.state = "LEASED" =>
          /\ r.execution_worker_id # None /\ HasExecutionLease(r)
          /\ r.receipt = None /\ r.verification = None
    /\ r.state \in {"EXECUTED", "VERIFYING", "VERIFIED", "BLOCKED"} =>
          r.execution_worker_id # None /\ r.receipt # None
    /\ r.state = "VERIFYING" =>
          r.verifier_id # None /\ HasVerificationLease(r) /\ r.verification = None
    /\ r.state # "LEASED" => NoExecutionLease(r)
    /\ r.state # "VERIFYING" => NoVerificationLease(r)
    /\ r.state \notin Verdicts \cup {"VERIFYING"} => r.verifier_id = None

\* The columns of a row agree with its state in every order of claims,
\* heartbeats, completions, failures and lapses: no lease column outlives its
\* lease, a producer is named from the grant on and kept after the receipt.
ColumnsFitState == \A j \in Jobs : ColumnsFit(jobs[j])

NotStranded(r) ==
    /\ r.attempts <= r.max_attempts
    /\ r.state = "QUEUED" => r.attempts < r.max_attempts
    /\ r.state = "FAILED" /\ r.verification = None =>
          r.attempts = r.max_attempts /\ r.receipt = None

\* A job in the queue has an attempt left, so the claim's `attempts <
\* max_attempts' never strands it; and a job fails without a verdict only when
\* it has used up its attempts and nothing of it was accepted.
NoJobIsStranded == \A j \in Jobs : NotStranded(jobs[j])

ReceiptIsCurrent(r, handed) ==
    r.receipt # None =>
        /\ r.receipt.run \in DOMAIN handed
        /\ handed[r.receipt.run] = [kind |-> "execution", owner |-> r.execution_worker_id]
        /\ \A t \in DOMAIN handed : t > r.receipt.run => handed[t].kind = "verification"
        /\ r.receipt.succeeded /\ r.receipt.verification_status = "UNKNOWN"

\* The receipt on a row comes from the newest execution lease of the job and
\* from the worker the row names, never from an attempt that was superseded,
\* even if the same worker held both; it reports a success and claims no
\* verification of its own.
ReceiptFromNewestLease == \A j \in Jobs : ReceiptIsCurrent(jobs[j], leases[j])

VerdictStands(r, handed) ==
    /\ r.state = "VERIFYING" => r.verifier_id # r.execution_worker_id
    /\ r.state \in {"VERIFIED", "BLOCKED"} => r.verification # None
    /\ r.verification # None =>
          /\ r.state = r.verification.verdict
          /\ r.verification.verifier_id # r.execution_worker_id
          /\ handed # << >>
          /\ handed[Len(handed)] = [kind |-> "verification",
                                    owner |-> r.verification.verifier_id]
          /\ r.receipt # None
          /\ r.verification.receipt_sha256 = Sha256(r.receipt)

\* A verdict was given by the holder of the newest lease of the job, who is not
\* the worker that delivered the receipt, about the very receipt on the row.
VerdictIsIndependent == \A j \in Jobs : VerdictStands(jobs[j], leases[j])

BearerIsNewest(r, handed) ==
    /\ r.state = "LEASED" =>
          /\ handed # << >>
          /\ r.execution_lease_hash = Sha256(Len(handed))
          /\ handed[Len(handed)] = [kind |-> "execution", owner |-> r.execution_worker_id]
    /\ r.state = "VERIFYING" =>
          /\ handed # << >>
          /\ r.verification_lease_hash = Sha256(Len(handed))
          /\ handed[Len(handed)] = [kind |-> "verification", owner |-> r.verifier_id]

\* Of all the leases ever handed out for a job, only the newest is honoured: a
\* worker or verifier that comes back late after a lapse is no bearer.
OnlyNewestLeaseCounts == \A j \in Jobs : BearerIsNewest(jobs[j], leases[j])

One(condition) == IF condition THEN 1 ELSE 0

Balanced(r, n, handed) ==
    /\ n["JOB_ENQUEUED"] = One(r.state # "ABSENT")
    /\ n["EXECUTION_LEASE_GRANTED"] = r.attempts
    /\ r.attempts = n["EXECUTION_LEASE_EXPIRED"] + n["EXECUTION_FAILED"]
                    + n["EXECUTION_RECEIPT_ACCEPTED"] + One(r.state = "LEASED")
    /\ n["EXECUTION_RECEIPT_ACCEPTED"] = One(r.receipt # None)
    /\ n["VERIFICATION_LEASE_GRANTED"] =
          n["VERIFICATION_LEASE_EXPIRED"] + n["INDEPENDENT_VERIFICATION"]
          + One(r.state = "VERIFYING")
    /\ n["INDEPENDENT_VERIFICATION"] = One(r.verification # None)
    /\ Len(handed) = r.attempts + n["VERIFICATION_LEASE_GRANTED"]

\* The ledger accounts for every lease: each one granted has lapsed, failed,
\* been answered or is still held, and the attempts on the row are the grants.
LedgerBalances == \A j \in Jobs : Balanced(jobs[j], log[j], leases[j])

\* Deadlines bind both sides, although every operation decides with a time it
\* read before it waited for the lock: a lease is taken back only when its
\* deadline has passed on the clock, and an answer is accepted no later than
\* the longest wait after it.
DeadlinesBind ==
    [][\A j \in Jobs : LET r == jobs[j] IN
         /\ log'[j]["EXECUTION_LEASE_EXPIRED"] # log[j]["EXECUTION_LEASE_EXPIRED"] =>
               r.execution_lease_expires_at < clock
         /\ log'[j]["VERIFICATION_LEASE_EXPIRED"] # log[j]["VERIFICATION_LEASE_EXPIRED"] =>
               r.verification_lease_expires_at < clock
         /\ log'[j]["EXECUTION_RECEIPT_ACCEPTED"] # log[j]["EXECUTION_RECEIPT_ACCEPTED"] =>
               clock <= r.execution_lease_expires_at + MaxWait
         /\ log'[j]["INDEPENDENT_VERIFICATION"] # log[j]["INDEPENDENT_VERIFICATION"] =>
               clock <= r.verification_lease_expires_at + MaxWait]_vars

\* What was decided stays: a receipt is never replaced or withdrawn, whatever
\* becomes of the verification, and a finished job never changes again.
DecisionsAreFinal ==
    [][\A j \in Jobs :
         /\ jobs[j].receipt # None => /\ jobs'[j].receipt = jobs[j].receipt
                                      /\ jobs'[j].execution_worker_id
                                            = jobs[j].execution_worker_id
         /\ jobs[j].state \in Verdicts => jobs'[j] = jobs[j]]_vars

\* First come, first served among equals: once a job has been started, no job
\* of the same or a better priority that was certainly submitted before it, the
\* waits for the lock allowed for, is still waiting for its first attempt.
NoOvertaking ==
    \A i, j \in Jobs :
        /\ jobs[i].state = "QUEUED" /\ jobs[i].attempts = 0
        /\ jobs[i].priority <= jobs[j].priority
        /\ jobs[i].created_at + MaxWait < jobs[j].created_at
        => jobs[j].attempts = 0

----------------------------------------------------------------------------
(* The store keeps the promises of FleetContract.                          *)

Phase == [ABSENT    |-> "unborn",     QUEUED   |-> "waiting",  LEASED  |-> "running",
          EXECUTED  |-> "delivered",  VERIFYING |-> "inspecting",
          VERIFIED  |-> "verified",   FAILED   |-> "failed",   BLOCKED |-> "blocked"]

LifeOf(r) == [phase |-> Phase[r.state], tries |-> r.attempts, budget |-> r.max_attempts,
              producer |-> r.execution_worker_id, judge |-> r.verifier_id]

Contract == INSTANCE FleetContract WITH
    life <- [j \in Jobs |-> LifeOf(jobs[j])], Nobody <- None

\* Every step of the store is, for every job, a move the contract allows or no
\* move at all: the transactions that reap and grant in one go included.
KeepsContract == Contract!Spec
=============================================================================
