---------------------------- MODULE FleetPostgres ----------------------------
(***************************************************************************)
(* The fleet store of several coordinators: the functions of the migration *)
(* 20260830_r3_executor_fleet.sql, called through SupabaseFleetStore.      *)
(*                                                                         *)
(* A call is one transaction at READ COMMITTED.  `now()' is the time at    *)
(* which it began.  It reads committed rows and its own, locks the rows it *)
(* will write, writes drafts that nobody else sees, links its events into  *)
(* the chain under an advisory lock, and keeps every lock until it commits *)
(* or is rolled back.  A statement that has waited for a row lock decides  *)
(* again on the newest version of the row.                                 *)
(*                                                                         *)
(* Jobs are numbered in the order (priority, created_at, job_id) in which  *)
(* claims take them.  The order of claim_verification, by updated_at, is   *)
(* left open.  A plan id is fresh for every plan, so a plan is recorded    *)
(* once.                                                                   *)
(***************************************************************************)
EXTENDS Integers, Sequences, FiniteSets

CONSTANTS
    Sessions,     \* database sessions: calls under way at the same time
    Jobs,         \* job ids, in the order in which claims take them
    Plans,        \* plan ids
    Actors,       \* worker and verifier ids
    Budgets,      \* values of max_attempts
    LeaseSeconds, \* lease lengths that claim_execution accepts
    RenewSeconds, \* lease lengths of heartbeats and verifications: any integer will do
    RetryDelays,  \* values of p_retry_delay_seconds
    Receipts,     \* receipts that reach complete_execution
    Prefetch,     \* rows that a FOR loop over a query locks at a time
    MaxClock,     \* bound: the clock stops here
    MaxSeq,       \* bound: no call begins when so many events were written
    None          \* SQL NULL

VARIABLES
    clock,     \* wall-clock seconds
    plans,     \* table voodoo_plans, as committed
    jobs,      \* table voodoo_jobs, as committed
    events,    \* table voodoo_fleet_events, as committed
    nextSeq,   \* its identity sequence: a rollback does not return a number
    leases,    \* job id -> the leases handed out so far; the n-th has token n
    holder,    \* job id -> the session that holds the row lock, or None
    draft,     \* job id -> the row as the holder of its lock has written it
    chainLock, \* the session that holds the advisory lock, or None
    txn        \* session -> its transaction

vars == <<clock, plans, jobs, events, nextSeq, leases, holder, draft, chainLock, txn>>

----------------------------------------------------------------------------
(* The tables                                                              *)

JobStates == {"QUEUED", "LEASED", "EXECUTED", "VERIFYING", "VERIFIED", "FAILED", "BLOCKED"}

Verdicts == {"VERIFIED", "FAILED", "BLOCKED"}

Row == [state        : JobStates \cup {"ABSENT"},
        available_at : Nat,
        attempts     : Nat,
        max_attempts : Nat,
        execution_worker_id        : Actors \cup {None},
        execution_lease_hash       : Nat \cup {None},
        execution_lease_expires_at : Int \cup {None},
        receipt                    : Receipts \cup {None},
        verifier_id                   : Actors \cup {None},
        verification_lease_hash       : Nat \cup {None},
        verification_lease_expires_at : Int \cup {None}]

NoRow == [state |-> "ABSENT", available_at |-> 0, attempts |-> 0, max_attempts |-> 0,
          execution_worker_id |-> None, execution_lease_hash |-> None,
          execution_lease_expires_at |-> None, receipt |-> None,
          verifier_id |-> None, verification_lease_hash |-> None,
          verification_lease_expires_at |-> None]

Kinds == {"PLAN_RECORDED", "JOB_ENQUEUED", "EXECUTION_LEASE_GRANTED", "EXECUTION_HEARTBEAT",
          "EXECUTION_RECEIPT_ACCEPTED", "EXECUTION_FAILED", "EXECUTION_LEASE_EXPIRED",
          "VERIFICATION_LEASE_GRANTED", "VERIFICATION_LEASE_EXPIRED",
          "INDEPENDENT_VERIFICATION"}

\* The hash of an event is told apart by its number; `state' is the state that
\* the event says the job is in afterwards.
Events == [seq : Nat, prev : Nat, job : Jobs \cup {None}, kind : Kinds,
           state : JobStates \cup {"ABSENT"}]

LeaseRecords == [kind : {"execution", "verification"}, owner : Actors]

Calls ==
    [op : {"record_plan"}, plan : Plans, status : {"VERIFIED_PLAN", "BLOCKED"}]
    \cup [op : {"enqueue_job"}, job : Jobs, plan : Plans, budget : Budgets]
    \cup [op : {"claim_execution"}, actor : Actors, seconds : LeaseSeconds]
    \cup [op : {"claim_verification"}, actor : Actors, seconds : RenewSeconds]
    \cup [op : {"heartbeat_execution"}, job : Jobs, actor : Actors, token : Nat,
          seconds : RenewSeconds]
    \cup [op : {"complete_execution"}, job : Jobs, actor : Actors, token : Nat,
          receipt : Receipts, signed : BOOLEAN]
    \cup [op : {"fail_execution"}, job : Jobs, actor : Actors, token : Nat,
          delay : RetryDelays]
    \cup \* `proved': the checks of the proof are not empty and all true
         [op : {"complete_verification"}, job : Jobs, actor : Actors, token : Nat,
          verdict : Verdicts, proved : BOOLEAN]

\* Where a transaction stands: before its first statement, in the reap (locking
\* rows, taking them back), in the selection of a claim, before append_event,
\* before COMMIT.
Points == {"idle", "start", "fetch", "reap", "select", "try", "append", "commit"}

Idle == [at |-> 0, pc |-> "idle", call |-> None, todo |-> {}, next |-> None,
         batch |-> {}, job |-> None, out |-> {}]

Transactions ==
    [at : Nat, pc : Points, call : Calls \cup {None},
     todo  : SUBSET Jobs,      \* rows of a query's snapshot not visited yet
     next  : Jobs \cup {None}, \* the one of them that the reap has come to
     batch : SUBSET Jobs,      \* rows fetched by the reap, not taken back yet
     job   : Jobs \cup {None}, \* the job that the call is about
     out   : SUBSET Events]    \* events inserted so far

ASSUME PostgresAssumption ==
    /\ Jobs \subseteq Nat
    /\ Budgets \subseteq Nat \ {0}
    /\ LeaseSeconds \subseteq Nat \ {0}
    /\ RenewSeconds \subseteq Int
    /\ RetryDelays \subseteq Nat
    /\ Prefetch \in Nat \ {0}
    /\ None \notin Sessions \cup Jobs \cup Actors \cup Int \cup Receipts \cup Calls
    /\ None \notin {"UNKNOWN", "EXECUTED"}

Claims == {"claim_execution", "claim_verification"}

Init ==
    /\ clock = 0
    /\ plans = [p \in Plans |-> "ABSENT"]
    /\ jobs = [j \in Jobs |-> NoRow]
    /\ events = {}
    /\ nextSeq = 1
    /\ leases = [j \in Jobs |-> << >>]
    /\ holder = [j \in Jobs |-> None]
    /\ draft = [j \in Jobs |-> NoRow]
    /\ chainLock = None
    /\ txn = [s \in Sessions |-> Idle]

Tick ==
    /\ clock < MaxClock
    /\ clock' = clock + 1
    /\ UNCHANGED <<plans, jobs, events, nextSeq, leases, holder, draft, chainLock, txn>>

----------------------------------------------------------------------------
(* Locks and the event chain                                               *)

\* What a statement of s reads of a row.
Seen(s, j) == IF holder[j] = s THEN draft[j] ELSE jobs[j]

\* Mutant: the head is read without a lock.
ChainIsFreeForAll(s) == TRUE

\* pg_advisory_xact_lock
ChainIsFree(s) == chainLock \in {None, s}

IsHead(e, seen) == e \in seen /\ \A f \in seen : f.seq <= e.seq

\* voodoo_append_event, once the lock is granted: the number of the newest
\* event that this statement sees, 0 for the genesis hash.
Heads(s) ==
    LET seen == events \cup txn[s].out
    IN  IF seen = {} THEN {0} ELSE {e.seq : e \in {f \in seen : IsHead(f, seen)}}

NewEvents(s, job, kind, state) ==
    {[seq |-> nextSeq, prev |-> head, job |-> job, kind |-> kind, state |-> state] :
        head \in Heads(s)}

\* The effects of append_event in a step of s that takes its transaction to t.
AppendEvent(s, job, kind, state, t) ==
    /\ ChainIsFree(s)
    /\ chainLock' = s
    /\ nextSeq' = nextSeq + 1
    /\ txn' = [txn EXCEPT ![s] = [t EXCEPT !.out = @ \cup NewEvents(s, job, kind, state)]]

\* Mutant: pg_advisory_lock, which is held until the session ends.
UnlockedRowsOnly(s) ==
    /\ holder' = [j \in Jobs |-> IF holder[j] = s THEN None ELSE holder[j]]
    /\ draft' = [j \in Jobs |-> IF holder[j] = s THEN NoRow ELSE draft[j]]
    /\ UNCHANGED chainLock

\* The end of a transaction releases its row locks and the advisory lock.
Unlocked(s) ==
    /\ holder' = [j \in Jobs |-> IF holder[j] = s THEN None ELSE holder[j]]
    /\ draft' = [j \in Jobs |-> IF holder[j] = s THEN NoRow ELSE draft[j]]
    /\ chainLock' = IF chainLock = s THEN None ELSE chainLock

\* An exception, a deadlock or a lost connection: nothing of it remains.
Rollback(s) ==
    /\ txn[s].pc # "idle"
    /\ Unlocked(s)
    /\ txn' = [txn EXCEPT ![s] = Idle]
    /\ UNCHANGED <<clock, plans, jobs, events, nextSeq, leases>>

\* Mutant: select without `for update'.
RowIsFreeForAll(j) == TRUE

RowIsFree(j) == holder[j] = None

Locked(s, j, r) ==
    /\ holder' = [holder EXCEPT ![j] = s]
    /\ draft' = [draft EXCEPT ![j] = r]

----------------------------------------------------------------------------
(* Three-valued conditions: IF raises its exception only on "true".        *)

Differs(x, y) ==
    IF x = None \/ y = None THEN "null" ELSE IF x # y THEN "true" ELSE "false"

SqlOr(p, q) ==
    IF "true" \in {p, q} THEN "true" ELSE IF "null" \in {p, q} THEN "null" ELSE "false"

\* The exceptions of complete_execution that precede the lock of the row.
ReceiptRefused(receipt, signed) ==
    \/ ~ signed
    \/ Differs(receipt.verification_status, "UNKNOWN") = "true"
    \/ SqlOr(Differs(receipt.status, "EXECUTED"),
             IF receipt.exit_code # 0 THEN "true" ELSE "false") = "true"

RefusedAtOnce(call) ==
    call.op = "complete_execution" /\ ReceiptRefused(call.receipt, call.signed)

----------------------------------------------------------------------------
(* Rows                                                                    *)

ExecutionLapsed(r, at) == r.state = "LEASED" /\ r.execution_lease_expires_at < at

VerificationLapsed(r, at) == r.state = "VERIFYING" /\ r.verification_lease_expires_at < at

Lapsed(r, at) == ExecutionLapsed(r, at) \/ VerificationLapsed(r, at)

NextState(r) == IF r.attempts < r.max_attempts THEN "QUEUED" ELSE "FAILED"

Requeued(r) ==
    [r EXCEPT !.state = NextState(r), !.execution_worker_id = None,
              !.execution_lease_hash = None, !.execution_lease_expires_at = None]

Reopened(r) ==
    [r EXCEPT !.state = "EXECUTED", !.verifier_id = None,
              !.verification_lease_hash = None, !.verification_lease_expires_at = None]

\* The row as the loop body of the reap writes it, and its event.
TakenBack(r) == IF r.state = "LEASED" THEN Requeued(r) ELSE Reopened(r)

ReapEvent(r) ==
    IF r.state = "LEASED" THEN "EXECUTION_LEASE_EXPIRED" ELSE "VERIFICATION_LEASE_EXPIRED"

\* Mutant: the producer may inspect its own job.
EligibleForAnybody(call, r, at) ==
    r.state = (IF call.op = "claim_execution" THEN "QUEUED" ELSE "EXECUTED")

\* The predicate of the select of a claim.
Eligible(call, r, at) ==
    IF call.op = "claim_execution"
    THEN r.state = "QUEUED" /\ r.available_at <= at /\ r.attempts < r.max_attempts
    ELSE r.state = "EXECUTED" /\ r.execution_worker_id # call.actor

Leased(r, worker, token, expires) ==
    [r EXCEPT !.state = "LEASED", !.execution_worker_id = worker,
              !.execution_lease_hash = token, !.execution_lease_expires_at = expires,
              !.attempts = @ + 1]

UnderInspection(r, verifier, token, expires) ==
    [r EXCEPT !.state = "VERIFYING", !.verifier_id = verifier,
              !.verification_lease_hash = token, !.verification_lease_expires_at = expires]

Granted(call, r, token, at) ==
    IF call.op = "claim_execution"
    THEN Leased(r, call.actor, token, at + call.seconds)
    ELSE UnderInspection(r, call.actor, token, at + call.seconds)

\* The guards behind `select ... where job_id = p_job_id for update'.
Permitted(call, r, at) ==
    CASE call.op = "fail_execution" ->
            /\ r.state = "LEASED" /\ r.execution_worker_id = call.actor
            /\ r.execution_lease_hash = call.token
      [] call.op \in {"heartbeat_execution", "complete_execution"} ->
            /\ r.state = "LEASED" /\ r.execution_worker_id = call.actor
            /\ r.execution_lease_expires_at >= at /\ r.execution_lease_hash = call.token
      [] call.op = "complete_verification" ->
            /\ r.state = "VERIFYING" /\ r.verifier_id = call.actor
            /\ r.execution_worker_id # call.actor
            /\ r.verification_lease_expires_at >= at
            /\ r.verification_lease_hash = call.token
            /\ call.verdict = "VERIFIED" => call.proved

\* The update that follows those guards.
Updated(call, r, at) ==
    CASE call.op = "heartbeat_execution" ->
            [r EXCEPT !.execution_lease_expires_at = at + call.seconds]
      [] call.op = "complete_execution" ->
            [r EXCEPT !.state = "EXECUTED", !.receipt = call.receipt,
                      !.execution_lease_hash = None, !.execution_lease_expires_at = None]
      [] call.op = "fail_execution" ->
            [Requeued(r) EXCEPT !.available_at = at + call.delay]
      [] call.op = "complete_verification" ->
            [r EXCEPT !.state = call.verdict, !.verification_lease_hash = None,
                      !.verification_lease_expires_at = None]

EventOf(call) ==
    CASE call.op = "record_plan" -> "PLAN_RECORDED"
      [] call.op = "enqueue_job" -> "JOB_ENQUEUED"
      [] call.op = "claim_execution" -> "EXECUTION_LEASE_GRANTED"
      [] call.op = "heartbeat_execution" -> "EXECUTION_HEARTBEAT"
      [] call.op = "complete_execution" -> "EXECUTION_RECEIPT_ACCEPTED"
      [] call.op = "fail_execution" -> "EXECUTION_FAILED"
      [] call.op = "claim_verification" -> "VERIFICATION_LEASE_GRANTED"
      [] call.op = "complete_verification" -> "INDEPENDENT_VERIFICATION"

----------------------------------------------------------------------------
(* The steps of a transaction                                              *)

Begin(s, call) ==
    /\ txn[s].pc = "idle"
    /\ nextSeq <= MaxSeq
    /\ txn' = [txn EXCEPT ![s] =
          [Idle EXCEPT !.at = clock, !.pc = "start", !.call = call]]
    /\ UNCHANGED <<clock, plans, jobs, events, nextSeq, leases, holder, draft, chainLock>>

Raise(s) ==
    /\ txn' = [txn EXCEPT ![s] = Idle]
    /\ UNCHANGED <<holder, draft>>

\* record_plan writes a row that nobody else knows of.
StartPlan(s) ==
    LET t == txn[s]
    IN  /\ t.pc = "start" /\ t.call.op = "record_plan"
        /\ txn' = [txn EXCEPT ![s] = [t EXCEPT !.pc = "append"]]
        /\ UNCHANGED <<clock, plans, jobs, events, nextSeq, leases, holder, draft, chainLock>>

\* enqueue_job: the row it inserts stays invisible, and so does not block.
Insert(s) ==
    LET t == txn[s]
    IN  /\ t.pc = "start" /\ t.call.op = "enqueue_job"
        /\ \/ /\ plans[t.call.plan] # "VERIFIED_PLAN"
              /\ Raise(s)
           \/ /\ plans[t.call.plan] = "VERIFIED_PLAN"
              /\ Locked(s, t.call.job, [NoRow EXCEPT !.state = "QUEUED",
                            !.available_at = t.at, !.max_attempts = t.call.budget])
              /\ txn' = [txn EXCEPT ![s] = [t EXCEPT !.pc = "append", !.job = t.call.job]]
        /\ UNCHANGED <<clock, plans, jobs, events, nextSeq, leases, chainLock>>

RowCalls == {"heartbeat_execution", "complete_execution", "fail_execution",
             "complete_verification"}

\* Wait for the row, decide on its newest version, write it.
LockRow(s) ==
    LET t == txn[s]  j == t.call.job
    IN  /\ t.pc = "start" /\ t.call.op \in RowCalls
        /\ \/ /\ RefusedAtOnce(t.call)
              /\ Raise(s)
           \/ /\ ~ RefusedAtOnce(t.call)
              /\ RowIsFree(j)
              /\ ~ Permitted(t.call, jobs[j], t.at)
              /\ Raise(s)
           \/ /\ ~ RefusedAtOnce(t.call)
              /\ RowIsFree(j)
              /\ Permitted(t.call, jobs[j], t.at)
              /\ Locked(s, j, Updated(t.call, jobs[j], t.at))
              /\ txn' = [txn EXCEPT ![s] = [t EXCEPT !.pc = "append", !.job = j]]
        /\ UNCHANGED <<clock, plans, jobs, events, nextSeq, leases, chainLock>>

\* Where the scan of a query without ORDER BY goes on: the order of the rows depends on
\* where their versions are stored and on the plan.
AnyOf(todo) == IF todo = {} THEN {None} ELSE todo

\* reap_expired_leases: the snapshot of its query, and the first row of it.
ScanLapsed(s) ==
    LET t == txn[s]
        lapsed == {j \in Jobs : Lapsed(Seen(s, j), t.at)}
    IN  /\ t.pc = "start" /\ t.call.op \in Claims
        /\ \E next \in AnyOf(lapsed) :
              txn' = [txn EXCEPT ![s] =
                         [t EXCEPT !.pc = "fetch", !.todo = lapsed, !.next = next]]
        /\ UNCHANGED <<clock, plans, jobs, events, nextSeq, leases, holder, draft, chainLock>>

\* Mutant: the rows of the snapshot are taken back without a second look.
StillLapsedUnchecked(s, j) == TRUE

\* After the wait for its lock the row is judged again.
StillLapsed(s, j) == Lapsed(jobs[j], txn[s].at)

\* `for update': wait for the row that the scan has come to; one that has changed in the
\* meantime is passed over, and stays locked.
LockLapsed(s) ==
    LET t == txn[s]  j == t.next
    IN  /\ t.pc = "fetch" /\ Cardinality(t.batch) < Prefetch /\ j \in t.todo
        /\ RowIsFree(j)
        /\ Locked(s, j, jobs[j])
        /\ \E next \in AnyOf(t.todo \ {j}) :
              txn' = [txn EXCEPT ![s] =
                    [t EXCEPT !.todo = @ \ {j}, !.next = next,
                              !.batch = IF StillLapsed(s, j) THEN @ \cup {j} ELSE @]]
        /\ UNCHANGED <<clock, plans, jobs, events, nextSeq, leases, chainLock>>

Fetched(s) ==
    LET t == txn[s]
    IN  /\ t.pc = "fetch"
        /\ t.todo = {} \/ Cardinality(t.batch) = Prefetch
        /\ txn' = [txn EXCEPT ![s] = [t EXCEPT !.pc = "reap"]]
        /\ UNCHANGED <<clock, plans, jobs, events, nextSeq, leases, holder, draft, chainLock>>

TakeBack(s) ==
    LET t == txn[s]
    IN  /\ t.pc = "reap"
        /\ \E j \in t.batch :
              /\ draft' = [draft EXCEPT ![j] = TakenBack(@)]
              /\ AppendEvent(s, j, ReapEvent(draft[j]), TakenBack(draft[j]).state,
                             [t EXCEPT !.batch = @ \ {j}])
        /\ UNCHANGED <<clock, plans, jobs, events, leases, holder>>

Reaped(s) ==
    LET t == txn[s]
    IN  /\ t.pc = "reap" /\ t.batch = {}
        /\ txn' = [txn EXCEPT ![s] = [t EXCEPT !.pc = IF t.todo = {} THEN "select" ELSE "fetch"]]
        /\ UNCHANGED <<clock, plans, jobs, events, nextSeq, leases, holder, draft, chainLock>>

\* The snapshot of the select of a claim.
Select(s) ==
    LET t == txn[s]
    IN  /\ t.pc = "select"
        /\ txn' = [txn EXCEPT ![s] =
              [t EXCEPT !.pc = "try",
                        !.todo = {j \in Jobs : Eligible(t.call, Seen(s, j), t.at)}]]
        /\ UNCHANGED <<clock, plans, jobs, events, nextSeq, leases, holder, draft, chainLock>>

\* `order by priority, created_at, job_id'
First(S) == {j \in S : \A i \in S : j <= i}

\* The row is not locked by another session and still fits the predicate.
Takeable(s, j) ==
    holder[j] \in {None, s} /\ Eligible(txn[s].call, Seen(s, j), txn[s].at)

InOrder(call, S) == IF call.op = "claim_execution" THEN First(S) ELSE S

\* `for update skip locked limit 1', row by row in the order of the query; a
\* row that is free but no longer fits is passed over and stays locked.
TryNext(s) ==
    LET t == txn[s]
    IN  /\ t.pc = "try"
        /\ \E j \in InOrder(t.call, t.todo) :
           \/ /\ Takeable(s, j)
              /\ Locked(s, j, Granted(t.call, Seen(s, j), Len(leases[j]) + 1, t.at))
              /\ txn' = [txn EXCEPT ![s] =
                            [t EXCEPT !.pc = "append", !.todo = {}, !.job = j]]
           \/ /\ ~ Takeable(s, j)
              /\ txn' = [txn EXCEPT ![s] = [t EXCEPT !.todo = @ \ {j}]]
              /\ \/ holder[j] \in {None, s} /\ Locked(s, j, Seen(s, j))
                 \/ holder[j] \notin {None, s} /\ UNCHANGED <<holder, draft>>
        /\ UNCHANGED <<clock, plans, jobs, events, nextSeq, leases, chainLock>>

\* `if not found then return null'
FindNothing(s) ==
    LET t == txn[s]
    IN  /\ t.pc = "try" /\ t.todo = {}
        /\ txn' = [txn EXCEPT ![s] = [t EXCEPT !.pc = "commit"]]
        /\ UNCHANGED <<clock, plans, jobs, events, nextSeq, leases, holder, draft, chainLock>>

\* The event of the call itself.
AppendOwn(s) ==
    LET t == txn[s]
    IN  /\ t.pc = "append"
        /\ AppendEvent(s, t.job, EventOf(t.call),
                       IF t.job = None THEN "ABSENT" ELSE draft[t.job].state,
                       [t EXCEPT !.pc = "commit"])
        /\ UNCHANGED <<clock, plans, jobs, events, leases, holder, draft>>

Commit(s) ==
    LET t == txn[s]
    IN  /\ t.pc = "commit"
        /\ jobs' = [j \in Jobs |-> Seen(s, j)]
        /\ events' = events \cup t.out
        /\ plans' = IF t.call.op = "record_plan"
                    THEN [plans EXCEPT ![t.call.plan] = t.call.status] ELSE plans
        /\ leases' = IF t.call.op \in Claims /\ t.job # None
                     THEN [leases EXCEPT ![t.job] = Append(@,
                             [kind |-> IF t.call.op = "claim_execution"
                                       THEN "execution" ELSE "verification",
                              owner |-> t.call.actor])]
                     ELSE leases
        /\ Unlocked(s)
        /\ txn' = [txn EXCEPT ![s] = Idle]
        /\ UNCHANGED <<clock, nextSeq>>
----------------------------------------------------------------------------
(* The specification                                                       *)

UnderWay(op) == {s \in Sessions : txn[s].pc # "idle" /\ txn[s].call.op = op}

\* Plan and job ids are fresh.
FreshPlans == {p \in Plans : /\ plans[p] = "ABSENT"
                             /\ \A s \in UnderWay("record_plan") : txn[s].call.plan # p}

FreshJobs == {j \in Jobs : /\ jobs[j].state = "ABSENT"
                           /\ \A s \in UnderWay("enqueue_job") : txn[s].call.job # j}

PublicCalls ==
    [op : {"record_plan"}, plan : FreshPlans, status : {"VERIFIED_PLAN", "BLOCKED"}]
    \cup [op : {"enqueue_job"}, job : FreshJobs, plan : Plans, budget : Budgets]
    \cup [op : {"claim_execution"}, actor : Actors, seconds : LeaseSeconds]
    \cup [op : {"claim_verification"}, actor : Actors, seconds : RenewSeconds]

\* The calls with which the owner of the n-th lease of job j may come.
HolderCalls(j, n) ==
    LET owner == leases[j][n].owner
    IN  IF leases[j][n].kind = "execution"
        THEN [op : {"heartbeat_execution"}, job : {j}, actor : {owner}, token : {n},
              seconds : RenewSeconds]
             \cup [op : {"complete_execution"}, job : {j}, actor : {owner}, token : {n},
                   receipt : Receipts, signed : BOOLEAN]
             \cup [op : {"fail_execution"}, job : {j}, actor : {owner}, token : {n},
                   delay : RetryDelays]
        ELSE [op : {"complete_verification"}, job : {j}, actor : {owner}, token : {n},
              verdict : Verdicts, proved : BOOLEAN]

Step(s) ==
    \/ StartPlan(s)  \/ Insert(s)    \/ LockRow(s)
    \/ ScanLapsed(s) \/ LockLapsed(s) \/ Fetched(s) \/ TakeBack(s) \/ Reaped(s)
    \/ Select(s)     \/ TryNext(s)   \/ FindNothing(s)
    \/ AppendOwn(s)  \/ Commit(s)

Next ==
    \/ Tick
    \/ \E s \in Sessions :
       \/ \E call \in PublicCalls : Begin(s, call)
       \/ \E j \in Jobs : \E n \in DOMAIN leases[j] :
             \E call \in HolderCalls(j, n) : Begin(s, call)
       \/ Step(s)
       \/ Rollback(s)

Spec == Init /\ [][Next]_vars

\* The sessions for which s waits.
WaitsFor(s) ==
    LET t == txn[s]
    IN  CASE t.pc = "start" /\ t.call.op \in RowCalls -> {holder[t.call.job]} \ {None}
          [] t.pc = "fetch" /\ Cardinality(t.batch) < Prefetch /\ t.next \in t.todo ->
                {holder[t.next]} \ {None, s}
          [] t.pc \in {"append", "reap"} -> {chainLock} \ {None, s}
          [] OTHER -> {}

Deadlocked(s) ==
    \E S \in SUBSET Sessions :
        s \in S /\ \A u \in S : WaitsFor(u) \cap S # {}

\* The deadlock detector of the server ends one of the transactions of a cycle;
\* the queue of a lock is served in order, so nobody waits for ever.
Progress == \A s \in Sessions : SF_vars(Step(s)) /\ WF_vars(Deadlocked(s) /\ Rollback(s))

FairSpec == Spec /\ Progress

----------------------------------------------------------------------------
(* Properties                                                              *)

\* Every table, lock and transaction holds values of its type.
TypeOK ==
    /\ clock \in Nat
    /\ plans \in [Plans -> {"ABSENT", "VERIFIED_PLAN", "BLOCKED"}]
    /\ jobs \in [Jobs -> Row]
    /\ events \in SUBSET Events
    /\ nextSeq \in Nat \ {0}
    /\ leases \in [Jobs -> Seq(LeaseRecords)]
    /\ holder \in [Jobs -> Sessions \cup {None}]
    /\ draft \in [Jobs -> Row]
    /\ chainLock \in Sessions \cup {None}
    /\ txn \in [Sessions -> Transactions]

\* The event that precedes the one numbered n, by the identity column.
PrecedesIn(chain, prev, n) ==
    LET before == {f \in chain : f.seq < n}
    IN  \/ before = {} /\ prev = 0
        \/ \E f \in before : f.seq = prev /\ \A g \in before : g.seq <= f.seq

\* voodoo_verify_event_chain answers `ok' on every snapshot, whatever calls
\* overlapped and whatever was rolled back after it had taken a number.
ChainVerifies ==
    /\ \A e \in events : PrecedesIn(events, e.prev, e.seq)
    /\ \A e, f \in events : e.seq = f.seq => e = f

Last(chain, j) == {e \in chain : e.job = j /\ \A f \in chain : f.job = j => f.seq <= e.seq}

\* The newest event of a job says in which state the row of the job is, and a
\* job without events has no row: table and ledger never disagree.
EventsMatchRows ==
    \A j \in Jobs : {e.state : e \in Last(events, j)}
                    = {jobs[j].state} \ {"ABSENT"}

\* A lease is taken back only when it is over, also when it was extended while
\* the transaction that takes it back waited for the row.
TakenBackWhenOver ==
    [][\A e \in events' \ events :
         /\ e.kind = "EXECUTION_LEASE_EXPIRED" =>
               jobs[e.job].state = "LEASED" /\ jobs[e.job].execution_lease_expires_at < clock
         /\ e.kind = "VERIFICATION_LEASE_EXPIRED" =>
               jobs[e.job].state = "VERIFYING"
               /\ jobs[e.job].verification_lease_expires_at < clock]_vars

\* A reap that has rows and goes on to lock more of them.
HoldsAndFetches(s) == txn[s].pc = "fetch" /\ \E j \in Jobs : holder[j] = s

\* Calls wait for each other in a circle only on account of reaps: two of them that lock
\* rows, or one that goes on to lock rows after it has taken the chain, as it does when it
\* finds more rows than the loop fetches at a time.  Calls about one job never do.
CirclesNeedReaps ==
    \A s \in Sessions : Deadlocked(s) =>
        \/ \E u \in Sessions : chainLock = u /\ txn[u].pc = "fetch"
        \/ \E u, v \in Sessions : u # v /\ HoldsAndFetches(u) /\ HoldsAndFetches(v)

Newest(j) == Len(leases[j])

\* The newest lease of a job is the one that its row honours, and a call that changes
\* a row on the strength of a lease does so on the newest one, up to its commit:
\* nobody is granted another in between, or decides on a row that is out of date.
OnlyNewestLeaseCounts ==
    /\ \A j \in Jobs :
          /\ jobs[j].state = "LEASED" =>
                /\ jobs[j].execution_lease_hash = Newest(j) /\ Newest(j) \in DOMAIN leases[j]
                /\ leases[j][Newest(j)] = [kind  |-> "execution",
                                           owner |-> jobs[j].execution_worker_id]
          /\ jobs[j].state = "VERIFYING" =>
                /\ jobs[j].verification_lease_hash = Newest(j) /\ Newest(j) \in DOMAIN leases[j]
                /\ leases[j][Newest(j)] = [kind  |-> "verification",
                                           owner |-> jobs[j].verifier_id]
    /\ \A s \in Sessions : LET call == txn[s].call IN
          txn[s].pc \in {"append", "commit"} /\ call.op \in RowCalls =>
             call.token = Newest(call.job)

\* Every call ends, if only as the victim of a deadlock.
CallsEnd == \A s \in Sessions : txn[s].pc # "idle" ~> txn[s].pc = "idle"

\* docs/EXECUTOR_R3.md:56: a receipt is accepted only if it still says UNKNOWN.
AcceptedSayUnknown ==
    \A j \in Jobs : jobs[j].receipt # None =>
        jobs[j].receipt.verification_status = "UNKNOWN"

----------------------------------------------------------------------------
(* The store keeps the promises of FleetContract.                          *)

Phase == [ABSENT    |-> "unborn",     QUEUED    |-> "waiting",    LEASED |-> "running",
          EXECUTED  |-> "delivered",  VERIFYING |-> "inspecting",
          VERIFIED  |-> "verified",   FAILED    |-> "failed",     BLOCKED |-> "blocked"]

LifeOf(r) == [phase |-> Phase[r.state], tries |-> r.attempts, budget |-> r.max_attempts,
              producer |-> r.execution_worker_id, judge |-> r.verifier_id]

Contract == INSTANCE FleetContract WITH
    life <- [j \in Jobs |-> LifeOf(jobs[j])], Nobody <- None

\* What a commit publishes is, for every job, a move the contract allows or no
\* move: no interleaving of transactions loses an update or grants a job twice.
KeepsContract == Contract!Spec
=============================================================================
