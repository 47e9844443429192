# Formal model of VOODOO-SKILLSET

TLA+ specifications of the program under `src/`, TLC configurations that check
them on small instances, and proofs that TLAPS checks for every instance.
`PROJECT.json` maps each definition to the lines it translates.

## The system

| Component | State it keeps | Operations | What must hold |
|---|---|---|---|
| Durable fleet store, `fleet.py` | SQLite tables `plans`, `jobs`, `fleet_events` | record_plan, enqueue, claim / heartbeat / complete / fail execution, claim / complete verification, verify_event_chain | one honoured lease per job, attempts bounded, receipts from the current lease, verdicts by somebody else, nothing decided twice, a ledger that accounts for it all |
| Fleet store on Postgres, `fleet_supabase.py`, `supabase/migrations` | the same tables, row locks, one advisory lock | the same, as SQL functions | the same promises; calls that wait for each other in a circle are ended |
| Fleet worker, `fleet_worker.py` | the lease in hand, a heartbeat thread | run_once | reports success only while it owns the lease; an uncertain lease is never completed |
| Independent verifier, `fleet_worker.py` | the lease in hand | run_once | VERIFIED only if every check passed, and not by the executing worker |
| Coordinator client and API, `fleet_client.py`, `api.py` | none; replies may be lost | one HTTP call per store operation | a lost reply leaves a state from which the job still ends |
| Executor bridge, `executor_bridge.py` | SQLite table of nonces | execute_signed, claim | a signed request runs at most once, restarts included |
| Planner, `orchestrator.py` and what it calls | none | plan | a verified plan covers its selection once, in dependency order, with no blocker |
| Evidence ledger, `evidence.py` | list of events and a JSON file | append, verify | no event is lost, the chain verifies |
| Control plane, `api.py`, `observability.py` | runs, ledger, fleet | plan, execute_remote, enqueue | only verified plans are executed |
| Runners, `container_executor.py`, `execution.py`, `sandbox_child.py` | a process and its capture threads | execute | bounded output, a time-out ends the process, failure is reported |
| Governed terminal, `governed_terminal.py` | none | classify, grant_allows, execute | nothing beyond READ_ONLY runs without a matching grant |
| CASER workspace, `workspace.py` | three directory trees | write | nothing escapes its zone, the vault is not overwritten |

A plan is made by the planner, recorded by the control plane and turned into
jobs in the store. Workers and verifiers, on other machines, poll the store
(directly or through the HTTP API): a worker claims a job under a lease, keeps
the lease alive from a second thread, sends the workload to its executor as a
signed request and hands the signed receipt in; a verifier with another
identity claims the job for inspection and gives the verdict. There is no
scheduler: lapsed leases are taken back only inside somebody's next claim.

The hard part is time and loss: leases lapse while work goes on, every process
may die between two calls, every reply may be lost, and each operation decides
with a clock it read before it waited for the database lock. Next to it stand
files that are rewritten while somebody may die or somebody else may write. The complete list,
with source lines and the properties that watch over each, is under `hazards` in
`PROJECT.json`.

## The modules

| Module | Models | Theorems |
|---|---|---|
| `FleetContract` | what the coordinator promises about a job: an abstract life cycle without clock, tokens or columns | |
| `FleetStore` | `DurableFleetStore`: tables, leases and every operation that changes a job | `FleetStoreProofs` |
| `FleetPostgres` | the SQL functions of the same store for several coordinators, statement by statement | `FleetPostgresProofs` |
| `FleetSystem` | workers with their heartbeat threads, verifiers, and their calls to a coordinator that may be refused, lost, or carried out late | `FleetSystemProofs` |
| `ExecutorBridge` | the executor's signed requests, its threads, its table of nonces and the client's matching of receipts | `ExecutorBridgeProofs` |
| `ControlPlane` | the coordinator's own requests: plans, remote execution, jobs; its lock, its files and its counters | `ControlPlaneProofs` |
| `EvidenceLedger` | the chain of evidence in memory and the file it is written to | `FileProofs` |
| `Planner` | routing, staging, authority gates and verification of one request | `PlannerProofs` |
| `BoundedCapture` | the container runner's child process, its capture threads and its main loop | `BoundedCaptureProofs` |
| `CaserWorkspace` | `write` of the workspace, step by step | `FileProofs` |

Each module `M` has a module `MCM` with what the configurations of its runs need.
`FleetStore`, `FleetPostgres` and `FleetSystem` each implement `FleetContract`
(property `KeepsContract`), with the columns they have mapped to its life cycle.
The file of `EvidenceLedger` is one of the two files of `ControlPlane`: there it has one
process, its events belong to requests, and what it is without a loaded list is one
flag; here it may have several processes, and it is a chain.

### FleetStore

`jobs`, `plans` and `log` are the three tables. A row of `jobs` has the columns
that some decision reads; workspace, capability, argv, cwd, verification spec
and last_error, which no query looks at, are left out. `log` counts the events
of each kind for each job instead of listing them; heartbeats and recorded
plans are not counted. `leases` is what the outside world holds: the leases
handed out for a job in order, the n-th with token n. Tokens are 256 random bits
in the code, so distinct ones are distinct numbers here, and a hash is a record
that identifies what it is the hash of.

Each operation is one action because the code runs it in one `BEGIN IMMEDIATE`
transaction that is rolled back on any exception; a call that raises changes
nothing, so it is an action that is not enabled. A claim is the reaping of all
lapsed leases followed by the grant, in one action, and a claim that finds
nothing still commits what it reaped. The clock is read before the transaction
waits for the lock: an action takes a time `at` with `clock - MaxWait <= at <=
clock`. Every caller may present any token it was ever handed, at any time, with
any receipt for the run of that lease; a caller that has died simply does not.

### FleetSystem

`FleetSystem` composes the processes of `fleet_worker.py` with a coordinator that
is reduced to the life cycle `FleetContract` states, the lease it honours
(numbered like the tokens of `FleetStore`) and whether that lease has `lapsed`.
There is no clock: an operation that read the clock before the lapse may still
be accepted after it, one that reads it now is refused, and every claim takes
back all lapsed leases. Retry delays are taken to have passed, and the order of
the queue, which is the subject of `FleetStore`, is left open.

`calls` are the HTTP calls. A caller waits for its `open` call; when the call
raises (refusal, time-out, broken connection) or the caller crashes, the call is
closed, and a closed call is served later or lost, whichever comes first. Two
closed claims of the same identity count as one. A worker has a main thread
(`workers`, whose phases are the places of `run_once` where it waits) and a
heartbeat thread (`beats`). `HandIn` and `Withhold` are the join of that thread,
the reading of `heartbeat.error` and the call that follows; nothing of another
thread could tell them apart. `JoinTimesOut` says whether the join may end
before the thread. A completion that raises goes through the same `except`
branch as a workload that does, so `CompletionRaises` leads back to `stopping`,
and a verdict that raises is followed by a second one, BLOCKED. `started`,
`passed` and `reports` are history. Processes run with `--forever`, as their
units do, and are restarted when they end (`Restart=always`).

Fairness (`FairSpec`): each main thread and each heartbeat that can go on does,
an awaited call is served, an ended process is restarted, and a lease that no
process holds runs out. The first is scheduling, and a workload ends because
the runner limits its time; the second is the server; the last is the clock.
Nothing is assumed of closed calls, nor that heartbeats are sent. Faults (calls
given up, crashes, leases that lapse in the hands of their owner) are bounded by
`MaxFaults`: with faults without end no job needs to end.

### ExecutorBridge

`sent` is the requests made, `nonces` the table of `ReplayGuard`, `handlers` the
threads of the HTTP server, one per delivery, and `outcome` what each client
knows. `claims` and `runs` record, for the properties, when each claim of a nonce
committed and which of them had its workload started. `sent` stays available:
any thread may take up a request again, which is what a repeated delivery is (a
proxy or a client that sends the same signed body once more).

A thread goes through `Validate`, `ReadClock`, `Claim`, `Start` and `Finish`;
between any two of them the clock may advance, other threads may move, and the
server may be restarted, which empties `handlers` and nothing else. The two
readings of the clock are separate steps because they are separate calls of
`time.time()`: one in `execute_signed`, one in `ReplayGuard.claim`, before the
wait for its lock. The transaction (purge, then insert) is one action; a refused
insert rolls the purge back. `MaxStall` bounds the time from the first reading
to the commit of the claim. It is a parameter of the environment: the code has
no such bound except sqlite's time-out; the runs use 1, and one theorem assumes
0. `Skews` is how far the signer's clock is ahead or behind. The executor's
clock is assumed not to go back.

### FleetPostgres

A call is one transaction at READ COMMITTED, in a session of its own. `jobs`,
`plans` and `events` are the committed tables; what a transaction has written is
in `draft` for the rows it has locked (`holder`) and in `out` of its record for
its events, and `Commit` publishes both. Its statements are its steps: `Seen` is
the row as one of its statements reads it, a statement that waited for a row
decides again on the committed version (`LockRow`, `StillLapsed`), and a claim
skips rows that somebody has locked (`TryNext`). Events are linked under the
advisory lock, which is held to the end; the identity sequence does not take a
number back, so a rollback leaves a gap. `Rollback` stands for an exception, a
lost connection and the victim of a deadlock. Conditions with NULL have three
values (`Differs`, `SqlOr`), and `IF` acts on "true" only.

The loop of `reap_expired_leases` runs over a query `FOR UPDATE` that has no `ORDER
BY`. The rows are met and locked in whatever order the plan and the place of the row
versions give, which may differ between two reaps of the same rows: `AnyOf` picks the
row a scan comes to next, and `next` keeps it while the reap waits for it. That
PL/pgSQL fetches such a query in batches, ten rows and then fifty at a time, is a fact
of the server, not of this code; it is the constant `Prefetch`. It decides whether
the reap may lock a further row after it has taken the advisory lock.

`LeaseSeconds` are the lengths that `claim_execution` accepts; `RenewSeconds` are those
of heartbeats and of claims for verification, which nobody validates: any integers, so
that a deadline may lie before the epoch of the clock.

Jobs are numbered in the order (priority, created_at, job_id) of the claims; the
order by updated_at of `claim_verification` is left open, which allows more than
the code does. Plan and job ids are fresh UUIDs, so nobody records or inserts one
twice. Heartbeat, receipt, failure and verdict come with any token that was ever
committed, from its owner, at any time.

Fairness (`FairSpec`): strong fairness of each session's steps, since lock queues
are served in order, and weak fairness of `Rollback` for a session in a circle of
waits: the server's deadlock detector. Calls need not begin.

### ControlPlane

A thread serves one request at a time, of one coordinator. `pc` names the places
between which another thread, a crash or an error can come: the check of the
plan, the call to the executor, the wait for `App.lock`, the line of
`runs.jsonl`, each event, the record in the fleet store, the counter. `lock`,
`runs`, `ledger`, `saved` and `counts` belong to a coordinator, `fleet` is shared;
`configured` says which coordinators were started with a fleet store, and never
changes. A line that is cut short makes the file unreadable as a whole
(`ragged`), since the readers parse every line. The evidence file is emptied before
each list that is written to it (`evidence.py:19`): a write that fails, or a crash while
one is under way, may leave what was there, the whole new list, or a file that is empty
or ends in the middle (`torn`, with nothing left in `saved`). The process goes on with
its memory, and the next event that it can write puts everything back; a process that
starts over a torn file raises in `__init__` and stays down (`up`). That somebody repairs
or removes the file by hand is not modelled. Errors are answered or drop the
connection, as `do_POST` does; a store or an executor that raises may have done
what it was asked. `planned`, `jobs`, `ran` and `answers` are history. The
metrics are counted and typed, and no property is about them.

Fairness: a thread that can go on does (`WF` of `Proceed` and `TakeLock`: calls have
time-outs). Nothing is assumed of the order in which waiting threads get the lock,
which Python does not promise: requests are finitely many, so the lock stays free in
the end, and weak fairness is enough.

### EvidenceLedger

`memory` is the list of a process, `file` what the file holds: absent, empty, torn
or whole. `append` adds to the list, opens the file, which empties it, and writes
the text; any of the three may be the last. A whole file written by two
processes at once may hold the events of one up to some place and those of the
other behind it (`Splices`): text is cut at the edge of an event, since anything
else does not parse or does not verify, and is `torn`. Hashes are numbers, one
per event made: an event differs from every other by its time. `past` remembers
for each event the list it was made for, `alone` whether two processes have ever
been up at once. There is no lock between processes in the code; what holds
regardless of that is stated without `alone`.

### Planner

One request, with the registry of capabilities as a constant. `Route` chooses which
capabilities reach the threshold, for those that the mode does not demand; the
scores, which are sums of floating-point numbers, are thereby left open, and so
are the intents that words of the goal express. `ComposeStage` is one round of
`compose_stages`, with `raised` as its `ValueError`; `Gate` is `authority_gate`
for every capability; `Verify` is `verify_plan` and the status. The dependency
rules are those of `dag.py`.

### BoundedCapture

The child, one capture thread per stream and the main thread take steps in any
order. Output is counted in units: a read returns a full chunk, or less at the
end of the stream. `Remove`, `Wait` and `Insist` are the kill, the wait of five
seconds, the second kill and the second wait; either kill may come too late.
`Join` ends the joins whether the threads have ended or not; `gaveUp` remembers
the latter. The child is the docker client; the container behind it is the
runtime's.

Fairness: the main thread and the capture threads run, time passes. Nothing is
assumed of the child.

### CaserWorkspace

A call of `write` looks twice, opens, writes; others come in between. The class
has no caller in the program, so its callers are those of a library: any number,
unaware of each other. `content` is what is in a file and of which calls: nothing, the
text of one, or a part or a mixture (`Texts`); `Open` empties it, and a text that is
written when others have written since goes over theirs or is mixed with it (`Mixed`).
`ended` says of each call how many calls had begun when it ended, which is what
`Overlapped` compares; `told` is the calls that told their caller that the text is
written. The names differ from those of `EvidenceLedger`, so that one
module of theorems can extend both.

### Runs

| Run | Instance | Shows |
|---|---|---|
| `store_one` | 1 job, 2 actors, budget 2, leases of 1 s, waits of up to 1 s, clock to 4, 2 inspections | every single-job property, including late answers of both earlier leases, a reap that races a failure and a re-inspection after a lapse |
| `store_two` | 2 jobs, 2 priorities, 2 actors, budget 1, clock to 3 | claim order, and transactions that reap one job and grant another |
| `postgres_one` | 2 sessions, 1 job, 2 actors, budget 2, leases of 1 s, heartbeats of 1 s and of -1 s, clock to 2, calls begin until 5 events were numbered | a call changes a row only on its newest lease, up to its commit; the ledger says what the table says; a lease that was extended while a reap waited is not taken back; the contract is kept |
| `postgres_lapsed` | 2 sessions, 3 jobs whose leases are over, batches of 2, calls begin until number 11 | the chain verifies with gaps, circles of waits and rollbacks; such a circle is one of reaps; every call ends |
| `system` | 1 worker, 1 verifier, 1 job, budget 2, 2 faults | reports stay true, the budget holds, verdicts are earned whatever arrives late, and every accepted job ends |
| `bridge` | 2 requests, 2 threads, lifetimes 1 and 2 of which 1 is allowed, skew 1 allowed, stalls of up to 1 s, clock to 3 | a claim is durable before its run, one claim within the lifetime, bounded lifetime, the client's answer is its own |
| `control` | 2 coordinators with and without fleet store, 2 threads, 1 plan, window 2, 3 requests, 1 crash | only verified plans run, the events of a request stand together, what was answered is on record unless the file cannot be loaded at all, every request ends |
| `evidence` | 2 processes, 5 events | a list that verifies was really held; alone, nothing is forgotten and all verifies |
| `planner` | 10 capabilities, 4 modes, 6 combinations of 3 tools, with and without a connector and grants, 2 exclusions | composition never fails, stages follow the rules, composer and verifier agree, a verified plan is whole |
| `capture` | limit 4, chunk 2, pipe 3, output of up to 6 on each stream | no chunk is lost, a child is dead before its code is used, success is the child's own, every run ends |
| `capture_overflow` | the same, output of up to 5 | the documented promise about overflows does not hold: see below |
| `workspace` | 2 writers, a vault file and another, 4 calls | a write that was reported is lost only to calls that overlapped it or may replace it |

The bounds are enough for the cases at stake: two attempts give a first, a last
and a superseded lease; two actors, who may each be worker and verifier, give
the same and the other identity; a clock to 4 lets a lease of one second be
granted, lapse, be granted again and lapse. `RenewSeconds` contains a negative
length because heartbeat_execution and claim_verification do not validate it.
In `FleetPostgres` two sessions make every race of two transactions; a circle of
waits needs two; five numbers let a job be enqueued, granted, extended or
delivered and taken back while a second transaction is under way. A verdict needs a
sixth: that it keeps the contract is left to the proof. Three lapsed
jobs and batches of two are the least with which the loop fetches twice.
The run starts there (`AllLapsed`: three jobs enqueued and claimed, one of
them delivered and under inspection, and nobody heard of since). Two requests are needed for a receipt to be the wrong one, two
threads for a delivery to overtake another; a clock to 3 lets a request of one
second expire while a thread that validated it still waits, and others come
after. In `FleetSystem` a budget of two gives a first and a last attempt; two
faults give a call that is given up and arrives after another was, or after its
caller crashed and came back; a single job is enough since jobs meet only in the
queue, which `store_two` checks. Three requests of `control` are a plan, an
execution and a third that meets either; a window of two lets a plan fall out of
it. Five events of `evidence` let two processes diverge, write over each other
and be loaded again. Six units of output meet the limit, pass it by part of a
read and by a whole one. Actors, requests, threads, processes and writers are
symmetric where the configuration says so and no liveness is checked.

Deadlock is checked for `FleetStore`, where a claim that finds nothing is always
possible, and for `ExecutorBridge` and `FleetSystem`, whose processes can be
restarted. The others may really stop, or are stopped by a bound: a planned
request and a captured run are over; calls, requests, events and writes are
bounded by `MaxSeq`, `MaxOps`, `MaxEvents` and `MaxWrites`. That nobody stops
while something is under way is then what `CallsEnd`, `RequestsEnd` and `RunsEnd`
say. The type invariants are in no run: they are proved.

### Further configurations

They check one property each, and are kept for the questions they answer.

| Configuration | Question | Answer |
|---|---|---|
| `FleetSystem_join` | is a receipt withheld after a failed heartbeat, if the join waits for the thread? | yes |
| `FleetSystem_late` | and with the five seconds the code gives it? | no |
| `FleetSystem_executor` | may somebody inspect a job that he executed? | yes, in an earlier attempt |
| `FleetSystem_expiry` | is `VERIFYING_UNTIL_LEASE_EXPIRY` true when it is reported? | not always |
| `ExecutorBridge_replay` | does a replay stay blocked? | not across the end of the lifetime |
| `FleetPostgres_null` | does an accepted receipt say UNKNOWN? | not if it says nothing |
| `ControlPlane_shared` | is what is executed recorded locally as verified? | not with a fleet store |
| `Planner_compute` | does COMPUTE need an isolated runner? | a test runner will do |
| `CaserWorkspace_race` | is a vault file final? | not if two calls write it first |

### What the code does against its documentation

`capture_overflow`: a capture thread that finds an overflow sets a flag, which the
main loop reads as long as the child runs. A child that writes its last output
and exits before that is reported with its own exit code, 0, and a truncated
output; `tests/test_container_executor.py:79` expects overflows to fail closed. The cause
is at `container_executor.py:166`: the flag is not looked at after the loop.

`ExecutorBridge_replay`: a nonce is purged by the claim's own reading of the
clock, which is later than the one its request was validated with
(`executor_bridge.py:206`). Two deliveries validated in the last second of the
lifetime, one claiming in that second and the other in the next, are both
accepted: the second purges the nonce of the first, and the workload runs twice.
`executor_bridge.py:189` and `docs/EXECUTOR_R1.md:36` say that a replay remains
blocked. It needs a delivery that stalls across the end of the lifetime; theorem
`PromptClaimsBlockReplay` shows that nothing else is needed.

`FleetSystem_late`: `stop()` joins the heartbeat thread for at most five seconds
(`fleet_worker.py:60`), a heartbeat call may take thirty. `run_once` then reads no
error and sends the receipt, and the heartbeat fails while it is under way.
`fleet_worker.py:23` and `:52` say that the completion is withheld. The store
still decides by the token, so `ReceiptFromNewestLease` is not at risk.

`FleetSystem_executor`: `claim_verification` (`fleet.py:468`) compares the verifier
with the worker of the last attempt only. Who executed the job in an earlier
attempt may inspect it, even while its own run still goes on;
`docs/EXECUTOR_R3.md:56` excludes it. The deployed units give workers and
verifiers different identities.

`FleetSystem_expiry`: when the reply to a verdict is lost after it was committed,
the verifier sends BLOCKED, is refused, and reports status BLOCKED and
`VERIFYING_UNTIL_LEASE_EXPIRY` (`fleet_worker.py:271`) for a job that is
VERIFIED. `ReportsAreTrue` says of every other report that it can be relied on.

`FleetPostgres_null`: a receipt without verification_status makes the guard at
`supabase/migrations/20260830_r3_executor_fleet.sql:289` NULL, and `IF` does not
raise. `docs/EXECUTOR_R3.md:56` and the SQLite store demand UNKNOWN. Theorem
`UnlessNothingIsSaid` shows that nothing else gets past the guard.

`ControlPlane_shared`: with a fleet store the check of a plan (`api.py:286`) asks
the store, which every coordinator shares; `docs/EXECUTOR_R1.md:121` speaks of a
locally recorded plan. What runs was verified all the same
(`OnlyVerifiedPlansRun`), and without a fleet store it is on record locally
(`RecordedHereWithoutStore`).

`Planner_compute`: the gate (`policy.py:10`) accepts a test runner in place of an
isolated one; `docs/SECURITY.md:9` names the latter.

`CaserWorkspace_race`: `write` looks and then opens (`workspace.py:19`); two calls
may both find a vault file missing, and the second replaces what the first was told
is written. `docs/ARCHITECTURE.md:148` says that overwriting
the vault is denied. Theorem `AloneVaultIsFinal` shows that it takes two calls: with one
caller at a time a vault file is final.

`CirclesNeedReaps` is a property, not a difference: calls on Postgres can wait for each
other in a circle. Run `postgres_lapsed` meets both ways into one: two reaps that lock
the same lapsed rows in opposite orders, and a reap that has taken the chain and goes on
to lock a row whose holder waits for the chain. The server ends one of them, and
`CallsEnd` still holds; calls about a single job never make a circle of themselves.

## What is proved

Every safety property of the passing runs and every type invariant is proved for
all values of the constants that satisfy the named assumption of its module. The
assumptions say of which type the constants are, that budgets, leases and sizes
are positive, and that `None` is none of the values it stands beside; none bounds
the number of processes, jobs or steps. `CaptureAssumption` also says that the
limit is a multiple of the chunk. A theorem that assumes more says so.

No property is inductive alone. Each proof module first proves an inductive invariant
(`IInv`; `WInv` for the workspace) that says of every row, call, thread or file
what its place implies. Properties that relate several of them rest on a second one on
top of it, named below.

`FleetStoreProofs` (`FleetAssumption`) proves type correctness, the safety
invariants of run `store_one`, that the columns fit the state, that deadlines
bind and decisions are final, that nobody is overtaken, and that the store
implements `FleetContract`.

The invariant is, for every job, the conjunction of the row invariants. That only the newest lease is honoured needs the columns to fit the
state, for a token is compared only in states LEASED and VERIFYING; that a
receipt is the newest one needs in addition the fact that the owner who
completes holds the newest lease; the ledger needs the state of the row to tell
which lease is still open. `Pristine` is added: a row that was not inserted has
no leases and no events. The proof goes by the transitions of a single row
(reap, grant, extend, deliver, fail, inspect, judge); a claim is a reap of every
row followed by a grant of one, so each row lemma is used twice.

`NoOvertaking` relates pairs of jobs. `FairInv` adds to it that a job was
submitted at a time that has come and is available from then on until its first
attempt, since only a failure puts it off: whenever a claim could take a job, it
could have taken an older one of no worse priority.

`ExecutorBridgeProofs` (`BridgeAssumption`) proves the four invariants of run
`bridge` and, assuming `MaxStall = 0`, that a request is run at most once
(`PromptClaimsBlockReplay`). The invariant says of each thread what its phase implies (its request was
signed and valid at `validated_at`, the times are in order, its claim is one
that was recorded), and of the table that a claimed nonce is remembered with its
own expiry until a claim made after that expiry purges it. `LateAtMost` bounds
the wait of a pending thread by `MaxStall`: this is what turns the time of the
validation, which the code checks, into a bound on the time of the commit, which
it does not.

`FleetPostgresProofs` (`PostgresAssumption`) proves that the chain verifies, that
rows and events match, that a lease is taken back only when it is over, and that
what commits publish are moves of `FleetContract`. The invariant says of each
transaction what its place implies: the rows it holds have drafts that are one
move of the contract away from the committed rows (`HeldOK`), the events it has
not committed are about such rows and only the holder of the chain lock has any
(`OutOK`), and the committed chain continued by its own is a chain and says what
its drafts say (`LedgerOK`). A lemma, `Bystander`, says that a step of one
session leaves all of this true of another, because it changes only rows and
locks that are its own or free; so each statement is examined for its own session
alone. A lease that was taken back was over when the row was locked, and nobody
can have changed the row since: this carries the condition to the commit.

From the contract follow, for the tables as they are committed, that attempts stay
within the budget and that nobody decides on his own work (`PostgresKeepsWell`), and
that work is handed in and decided once per attempt (`PostgresHandsInOnce`): both are
stated in `FleetContract`.

`NewestLeaseCounts` is what the row lock is for. `LeaseInv` says of a transaction
that the rows it holds honour the leases that there will be once it has committed
(`Promised`), and of a call that came with a lease that this one is still the newest
(`Presents`). A commit adds a lease only to a row that it holds, so it takes none away
from a call that holds another row.

`ReceiptInv` says of committed rows and drafts that their receipts got past the
guards of complete_execution as SQL decides them (`ReceiptsPassTheGuards`).
`UnlessNothingIsSaid` assumes that no receipt has a NULL verification_status and
proves `AcceptedSayUnknown`, so NULL is all there is to the difference described above.

`CirclesHold` says how calls can come to wait for each other, and needs `IInv` only. A
session in a circle that waits for the chain waits for its holder, who waits for nothing
unless it fetches. Without such a one everybody in the circle waits for a row
(`WaitsForRow`), and whoever is waited for holds one: a call that holds a row is past the
lock of its own, so it is a reap that fetches, and so is the other session for which it
waits in turn. Nothing is assumed of the order of the rows.

`FleetSystemProofs` (`SystemAssumption`) proves `ReportsAreTrue`,
`RunsWithinBudget`, `VerifiedIsEarned`, `KeepsContract` and, when the join does
not time out, `WithheldAfterLoss` (`JoinedAreWithheld`). Rows only move in one
direction (`Later`): grants and attempts grow, a receipt and a ruling stay. Every
call, open or closed, is `Grounded`: its lease was granted, its run was started,
its checks passed, and what it was answered is still true of the row. An awaited
call fits the place of its caller (`Awaiting`). Runs are counted from the moment
the claim is granted, not from the start, so that a reply that is lost has
already used up its attempt (`Budgeted`).

`ControlPlaneProofs` (`ControlAssumption`) proves the four safety invariants of run
`control`, in three layers: `Shape` (types, and where a thread can be with what
request), `Authority` (a thread past the check has a verified plan, what a client
was told is in the store), and `Order`: a thread has written as many of its
events as it says, they are the last of the ledger while it holds the lock, and
nobody else writes. The file of such a thread is its ledger as soon as one event of its
own is in it, since every write is of the whole list; so what is loaded after a crash is
a list that memory once was, and a file that was cut short is not loaded at all. What is
on record is never short of an answer for that reason (`Recorded`), which says nothing of
a file that is lost whole. `RecordedHereWithoutStore` adds that a coordinator without a fleet
store executes only what its own file has as verified, although lines leave the
window in which it looks for them: what was checked stays in the file.

`FileProofs` is about both files that are rewritten in place. For the ledger
(`LedgerAssumption`) it proves `NothingForgotten` and `AlwaysVerifies`: as long as
`alone` is true one process is up at most (`OneIsUp`), its memory verifies and
has every acknowledged event, and the file, if it can be read at all, does too.
`VerifiedIsHistory` holds with any number of processes, and of the spliced files
they make. `HInv` says that every event anywhere was once made for a list
(`Genuine`) and that this list is still remembered under its hash (`Kept`); two
lists that verify and end with the same event are then equal
(`SameEndSameList`). This is an induction over the list. The prover has no
induction rule to offer, so it is done by a least counterexample: `Least` takes from
`WellFoundedInduction` that a set of natural numbers has a least element, and
the shorter lists agree. For the workspace it proves that a write that was
reported is lost only for cause, and, assuming one caller, that vault files are
final. `WInv` says what a call in each place has found and opened, and of a text that
a call has put into a file that it stands there alone or that every other call the
file shows is excused (`Stands`): a later call can add itself only after it looked, and
what it found there gives its excuse. `ended` only grows in time, so an overlap once
excused stays one.

`PlannerProofs` (`PlannerAssumption`) proves the four properties of run `planner`
for every registry and every choice of scores. `SomeoneIsReady` shows that the
dependency rules have no cycle on any team; `StagedSoFar` that stages are disjoint
and follow their dependencies; from these the verifier has nothing against the
order (`NoOrderProblems`).

`BoundedCaptureProofs` (`CaptureAssumption`) proves the three invariants of run
`capture`. `Accounts` keeps books per stream: while a thread reads, what was
written is in the pipe or in the buffer; a thread that has ended has kept all, or
as much as the limit allows.

Only model-checked: liveness (`JobsEnd`, `CallsEnd`, `RequestsEnd`, `RunsEnd`),
which is beyond the prover.

## Plan

What is left, in this order:

1. The event chain of the SQLite store, which `FleetStore` reduces to counts of
   events; `FleetPostgres` has it.
2. A proof that `FleetStore` does with a lease what `FleetSystem` takes its
   coordinator to do: the two are tied by `FleetContract` only, which has no leases.
3. `FleetSystem` over `FleetPostgres` in place of the contract: calls that roll back.

## Not modelled

- SQLite fleet store: the hash chain over events, and queries that only read.
- Executor node, command line: wiring and argument parsing without state.
- Namespace sandbox (`sandbox_child.py`, most of `execution.py`): mounts, limits
  and chroot, whose effects are the kernel's; the command line of docker and the
  staged copy of `container_executor.py`.
- Governed terminal: a table of commands and one comparison, without state and
  without a caller in the program.
- Learning store and blackboard: averages that nothing updates, a container that
  nothing fills.
- GET requests, bearer tokens, HTTP status codes beyond those of the answers,
  JSON, regular expressions and size limits of inputs.
- Web interface, deployment and CI.
