---------------------------- MODULE FleetSystem ----------------------------
(***************************************************************************)
(* The fleet: workers with their heartbeat threads and independent         *)
(* verifiers (fleet_worker.py), which reach the coordinator by HTTP calls  *)
(* (fleet_client.py, api.py).                                              *)
(*                                                                         *)
(* A call that its caller gives up, by a time-out, a broken connection or  *)
(* a crash, may still be carried out later, or may be lost.  Processes     *)
(* crash at any time and are restarted (Restart=always in their units).    *)
(*                                                                         *)
(* The coordinator is reduced to what FleetContract says of a job, plus    *)
(* the lease it honours.  Time is reduced to the lapse of that lease:      *)
(* after it, an operation that read the clock before may still be carried  *)
(* out, and one that reads it now is refused.  Delays of retries are taken *)
(* to have passed, and which job is claimed first is left open.            *)
(***************************************************************************)
EXTENDS Integers, FiniteSets

CONSTANTS
    Jobs,           \* the jobs of the fleet
    Workers,        \* identities of the worker processes
    Verifiers,      \* identities of the verifier processes
    Budget,         \* max_attempts
    JoinTimesOut,   \* the heartbeat may outlast the wait for its end
    MaxFaults,      \* bound: given up calls, crashes, untimely lapses
    None            \* no job, nothing said

\* The answers to a call.
Replies == {"idle", "granted", "done", "refused"}

\* What a receipt says of its run, and what a verdict says.
Bodies == {"succeeded", "unsuccessful", "VERIFIED", "FAILED", "BLOCKED"}

ASSUME SystemAssumption ==
    /\ Budget \in Nat \ {0}
    /\ JoinTimesOut \in BOOLEAN
    /\ MaxFaults \in Nat
    /\ None \notin Jobs /\ None \notin Replies /\ None \notin Bodies

VARIABLES
    jobs,       \* job -> its row at the coordinator
    calls,      \* calls on their way to the coordinator and back
    workers,    \* worker -> its main thread
    beats,      \* worker -> its heartbeat thread
    verifiers,  \* verifier -> its main thread
    started,    \* job -> the workloads started for it, by whom and under which lease
    passed,     \* job -> the verification leases under which every check passed
    reports,    \* job -> what run_once returned about it
    faults      \* how many faults there were

vars == <<jobs, calls, workers, beats, verifiers, started, passed, reports, faults>>

Ids == Workers \cup Verifiers

\* `lease' is the lease that is honoured and `granted' how many were handed out.
\* The receipt and the ruling are told apart by the lease they were given under.
Row == [state    : {"ABSENT", "QUEUED", "LEASED", "EXECUTED", "VERIFYING",
                    "VERIFIED", "FAILED", "BLOCKED"},
        attempts : 0..Budget, granted : Nat, lease : Nat, lapsed : BOOLEAN,
        worker   : Workers \cup {None}, verifier : Verifiers \cup {None},
        receipt  : Nat, ruling : Nat]

NoRow == [state |-> "ABSENT", attempts |-> 0, granted |-> 0, lease |-> 0, lapsed |-> FALSE,
          worker |-> None, verifier |-> None, receipt |-> 0, ruling |-> 0]

\* `open' says that the caller still waits; `reply' is None until there is one.
\* A claim that is granted carries the job and the lease back.
Calls == [op    : {"claim", "beat", "complete", "fail", "inspect", "rule"},
          from  : Ids, job : Jobs \cup {None}, lease : Nat, body : Bodies \cup {None},
          open  : BOOLEAN, reply : Replies \cup {None}]

Call(op, from, job, lease, body) ==
    [op |-> op, from |-> from, job |-> job, lease |-> lease, body |-> body,
     open |-> TRUE, reply |-> None]

\* `body' is the receipt in hand, or the verdict that was sent.
Processes == [phase : {"down", "polling", "claiming", "running", "stopping", "completing",
                       "failing", "inspecting", "ruling", "blocking"},
              job   : Jobs \cup {None}, lease : Nat, body : Bodies \cup {None}]

At(phase) == [phase |-> phase, job |-> None, lease |-> 0, body |-> None]

Report(role, lease, status) == [role |-> role, lease |-> lease, status |-> status]

Init ==
    /\ jobs = [j \in Jobs |-> NoRow]
    /\ calls = {}
    /\ workers = [w \in Workers |-> At("polling")]
    /\ beats = [w \in Workers |-> "off"]
    /\ verifiers = [v \in Verifiers |-> At("polling")]
    /\ started = [j \in Jobs |-> {}]
    /\ passed = [j \in Jobs |-> {}]
    /\ reports = [j \in Jobs |-> {}]
    /\ faults = 0

----------------------------------------------------------------------------
(* The coordinator                                                         *)

Enqueue(j) ==
    /\ jobs[j].state = "ABSENT"
    /\ jobs' = [jobs EXCEPT ![j].state = "QUEUED"]
    /\ UNCHANGED <<calls, workers, beats, verifiers, started, passed, reports, faults>>

\* The lease is in the hands of a process, or on its way there.
InHand(j) ==
    \/ \E w \in Workers : workers[w].job = j /\ workers[w].lease = jobs[j].lease
    \/ \E v \in Verifiers : verifiers[v].job = j /\ verifiers[v].lease = jobs[j].lease
    \/ \E c \in calls : c.open /\ c.reply = "granted" /\ c.job = j /\ c.lease = jobs[j].lease

\* The deadline of the honoured lease passes.
Lapse(j) ==
    /\ jobs[j].state \in {"LEASED", "VERIFYING"}
    /\ ~ jobs[j].lapsed
    /\ InHand(j) => faults < MaxFaults
    /\ faults' = IF InHand(j) THEN faults + 1 ELSE faults
    /\ jobs' = [jobs EXCEPT ![j].lapsed = TRUE]
    /\ UNCHANGED <<calls, workers, beats, verifiers, started, passed, reports>>

AttemptLost(r) ==
    [r EXCEPT !.state = IF r.attempts < Budget THEN "QUEUED" ELSE "FAILED",
              !.worker = None, !.lease = 0, !.lapsed = FALSE]

InspectionLost(r) ==
    [r EXCEPT !.state = "EXECUTED", !.verifier = None, !.lease = 0, !.lapsed = FALSE]

\* Mutant: a verification that lapsed is not taken back.
ReapedExecutionsOnly(r) == IF r.lapsed /\ r.state = "LEASED" THEN AttemptLost(r) ELSE r

Reaped(r) ==
    IF ~ r.lapsed THEN r
    ELSE IF r.state = "LEASED" THEN AttemptLost(r) ELSE InspectionLost(r)

\* Mutant: the attempt is not counted.
LeasedUncounted(r, worker) ==
    [r EXCEPT !.state = "LEASED", !.worker = worker,
              !.granted = @ + 1, !.lease = r.granted + 1]

Leased(r, worker) ==
    [r EXCEPT !.state = "LEASED", !.worker = worker, !.attempts = @ + 1,
              !.granted = @ + 1, !.lease = r.granted + 1]

UnderInspection(r, verifier) ==
    [r EXCEPT !.state = "VERIFYING", !.verifier = verifier,
              !.granted = @ + 1, !.lease = r.granted + 1]

\* The call has been carried out; the reply goes to whoever waits for it.
Answer(c, answered) ==
    calls' = (calls \ {c}) \cup (IF c.open THEN {answered} ELSE {})

\* What a claim takes back is committed whether it finds a job or not.
FindNothing(c, rows) ==
    /\ jobs' = rows
    /\ Answer(c, [c EXCEPT !.reply = "idle"])

Grant(c, j, rows, r) ==
    /\ jobs' = [rows EXCEPT ![j] = r]
    /\ Answer(c, [c EXCEPT !.reply = "granted", !.job = j, !.lease = r.lease])

ServeClaim(c) ==
    LET rows == [j \in Jobs |-> Reaped(jobs[j])]
        found == {j \in Jobs : rows[j].state = "QUEUED" /\ rows[j].attempts < Budget}
    IN  /\ c.op = "claim"
        /\ \/ found = {} /\ FindNothing(c, rows)
           \/ \E j \in found : Grant(c, j, rows, Leased(rows[j], c.from))

ServeInspect(c) ==
    LET rows == [j \in Jobs |-> Reaped(jobs[j])]
        found == {j \in Jobs : rows[j].state = "EXECUTED" /\ rows[j].worker # c.from}
    IN  /\ c.op = "inspect"
        /\ \/ found = {} /\ FindNothing(c, rows)
           \/ \E j \in found : Grant(c, j, rows, UnderInspection(rows[j], c.from))

\* Mutant: the id of the owner is enough.
BearerByName(c) ==
    c.from = IF c.op = "rule" THEN jobs[c.job].verifier ELSE jobs[c.job].worker

\* The caller is the owner and presents the token of the lease that is honoured.
Bearer(c) ==
    /\ c.from = IF c.op = "rule" THEN jobs[c.job].verifier ELSE jobs[c.job].worker
    /\ c.lease = jobs[c.job].lease

\* What the coordinator requires of a call other than a claim.
Entitled(c) ==
    /\ Bearer(c)
    /\ jobs[c.job].state = IF c.op = "rule" THEN "VERIFYING" ELSE "LEASED"
    /\ c.op = "complete" => c.body = "succeeded"
    /\ c.op = "rule" => jobs[c.job].worker # c.from

Delivered(r, lease) ==
    [r EXCEPT !.state = "EXECUTED", !.receipt = lease, !.lease = 0, !.lapsed = FALSE]

Ruled(r, verdict, lease) ==
    [r EXCEPT !.state = verdict, !.ruling = lease, !.lease = 0, !.lapsed = FALSE]

Perform(c) ==
    /\ c.op \in {"beat", "complete", "fail", "rule"}
    /\ Entitled(c)
    /\ \/ c.op = "beat"     /\ jobs' = [jobs EXCEPT ![c.job].lapsed = FALSE]
       \/ c.op = "complete" /\ jobs' = [jobs EXCEPT ![c.job] = Delivered(@, c.lease)]
       \/ c.op = "fail"     /\ jobs' = [jobs EXCEPT ![c.job] = AttemptLost(@)]
       \/ c.op = "rule"     /\ jobs' = [jobs EXCEPT ![c.job] = Ruled(@, c.body, c.lease)]
    /\ Answer(c, [c EXCEPT !.reply = "done"])

\* A failure is accepted even after the deadline.
Refuse(c) ==
    /\ c.op \in {"beat", "complete", "fail", "rule"}
    /\ Entitled(c) => jobs[c.job].lapsed /\ c.op # "fail"
    /\ Answer(c, [c EXCEPT !.reply = "refused"])
    /\ UNCHANGED jobs

Serve(c) ==
    /\ c.reply = None
    /\ ServeClaim(c) \/ ServeInspect(c) \/ Perform(c) \/ Refuse(c)
    /\ UNCHANGED <<workers, beats, verifiers, started, passed, reports, faults>>

\* A call that nobody waits for does not arrive.
Lose(c) ==
    /\ ~ c.open
    /\ calls' = calls \ {c}
    /\ UNCHANGED <<jobs, workers, beats, verifiers, started, passed, reports, faults>>

----------------------------------------------------------------------------
(* Calls, seen from the caller                                             *)

Awaited(from, ops) == {c \in calls : c.open /\ c.from = from /\ c.op \in ops}

\* Their caller no longer waits for the calls in S; what is not answered yet may
\* still arrive.
Closed(S) == (calls \ S) \cup {[c EXCEPT !.open = FALSE] : c \in {d \in S : d.reply = None}}

Returns(from, op, reply) == \E c \in Awaited(from, {op}) : c.reply = reply

\* The call raises: it is refused, times out or its connection breaks.
Raises(from, op) ==
    /\ Awaited(from, {op}) # {}
    /\ \/ Returns(from, op, "refused") /\ UNCHANGED faults
       \/ /\ ~ Returns(from, op, "refused")
          /\ faults < MaxFaults
          /\ faults' = faults + 1

Reported(role, p, status) ==
    reports' = [reports EXCEPT ![p.job] = @ \cup {Report(role, p.lease, status)}]

----------------------------------------------------------------------------
(* The worker                                                              *)

WorkerOps == {"claim", "beat", "complete", "fail"}

\* run_once returns, or the process ends.
Leave(w, phase) ==
    /\ workers' = [workers EXCEPT ![w] = At(phase)]
    /\ beats' = [beats EXCEPT ![w] = "off"]
    /\ calls' = Closed(Awaited(w, WorkerOps))

SendClaim(w) ==
    /\ workers[w].phase = "polling"
    /\ workers' = [workers EXCEPT ![w].phase = "claiming"]
    /\ calls' = calls \cup {Call("claim", w, None, 0, None)}
    /\ UNCHANGED <<beats, reports, started, faults>>

Idle(w) ==
    /\ workers[w].phase = "claiming"
    /\ Returns(w, "claim", "idle")
    /\ Leave(w, "polling")
    /\ UNCHANGED <<reports, started, faults>>

\* The claim is made outside of try: its exception ends the process.
ClaimRaises(w) ==
    /\ workers[w].phase = "claiming"
    /\ Raises(w, "claim")
    /\ Leave(w, "down")
    /\ UNCHANGED <<reports, started>>

\* The heartbeat is started, and the workload after it.
Run(w) ==
    \E c \in Awaited(w, {"claim"}) :
        /\ c.reply = "granted"
        /\ workers' = [workers EXCEPT ![w] = [phase |-> "running", job |-> c.job,
                                              lease |-> c.lease, body |-> None]]
        /\ beats' = [beats EXCEPT ![w] = "waiting"]
        /\ calls' = calls \ {c}
        /\ started' = [started EXCEPT ![c.job] = @ \cup {[by |-> w, lease |-> c.lease]}]
        /\ UNCHANGED <<reports, faults>>

\* The workload ends with a receipt, of success or not, or with an exception.
EndRun(w, body) ==
    /\ workers[w].phase = "running"
    /\ workers' = [workers EXCEPT ![w].phase = "stopping", ![w].body = body]
    /\ UNCHANGED <<beats, calls, reports, started, faults>>

\* heartbeat.error is not None
LeaseInDoubt(w) == beats[w] = "failed"

\* heartbeat.stop() joins the thread, but not for longer than a few seconds; then
\* the error is read and what there is to say is sent.
Stopped(w) ==
    /\ workers[w].phase = "stopping"
    /\ beats[w] = "calling" => JoinTimesOut

Withhold(w) ==
    /\ Stopped(w)
    /\ LeaseInDoubt(w)
    /\ Reported("worker", workers[w], "LEASE_UNCERTAIN")
    /\ Leave(w, "down")
    /\ UNCHANGED <<started, faults>>

HandIn(w) ==
    LET p == workers[w]
        op == IF p.body = None THEN "fail" ELSE "complete"
    IN  /\ Stopped(w)
        /\ ~ LeaseInDoubt(w)
        /\ workers' = [workers EXCEPT ![w].phase =
                         IF op = "fail" THEN "failing" ELSE "completing"]
        /\ beats' = [beats EXCEPT ![w] = IF @ = "waiting" THEN "off" ELSE @]
        /\ calls' = calls \cup {Call(op, w, p.job, p.lease, p.body)}
        /\ UNCHANGED <<reports, started, faults>>

Completed(w) ==
    /\ workers[w].phase = "completing"
    /\ Returns(w, "complete", "done")
    /\ Reported("worker", workers[w], "EXECUTED")
    /\ Leave(w, "polling")
    /\ UNCHANGED <<started, faults>>

\* The exception is handled like one of the workload.
CompletionRaises(w) ==
    /\ workers[w].phase = "completing"
    /\ Raises(w, "complete")
    /\ workers' = [workers EXCEPT ![w].phase = "stopping", ![w].body = None]
    /\ calls' = Closed(Awaited(w, {"complete"}))
    /\ UNCHANGED <<beats, reports, started>>

Failed(w) ==
    /\ workers[w].phase = "failing"
    /\ Returns(w, "fail", "done")
    /\ Reported("worker", workers[w], "FAILED")
    /\ Leave(w, "polling")
    /\ UNCHANGED <<started, faults>>

FailureRaises(w) ==
    /\ workers[w].phase = "failing"
    /\ Raises(w, "fail")
    /\ Reported("worker", workers[w], "LEASE_UNCERTAIN")
    /\ Leave(w, "down")
    /\ UNCHANGED started

RestartWorker(w) ==
    /\ workers[w].phase = "down"
    /\ Leave(w, "polling")
    /\ UNCHANGED <<reports, started, faults>>

\* Everything the main thread does of itself.
Main(w) ==
    /\ \/ SendClaim(w) \/ Idle(w) \/ ClaimRaises(w) \/ Run(w)
       \/ \E body \in {"succeeded", "unsuccessful", None} : EndRun(w, body)
       \/ Withhold(w) \/ HandIn(w) \/ Completed(w) \/ CompletionRaises(w)
       \/ Failed(w) \/ FailureRaises(w) \/ RestartWorker(w)
    /\ UNCHANGED <<jobs, verifiers, passed>>

CrashWorker(w) ==
    /\ workers[w].phase # "down"
    /\ faults < MaxFaults
    /\ faults' = faults + 1
    /\ Leave(w, "down")
    /\ UNCHANGED <<jobs, verifiers, started, passed, reports>>

SendBeat(w) ==
    /\ beats[w] = "waiting"
    /\ workers[w].phase = "running"
    /\ beats' = [beats EXCEPT ![w] = "calling"]
    /\ calls' = calls \cup {Call("beat", w, workers[w].job, workers[w].lease, None)}
    /\ UNCHANGED faults

BeatReturns(w) ==
    /\ Returns(w, "beat", "done")
    /\ beats' = [beats EXCEPT ![w] = IF workers[w].phase = "running" THEN "waiting" ELSE "off"]
    /\ calls' = Closed(Awaited(w, {"beat"}))
    /\ UNCHANGED faults

BeatRaises(w) ==
    /\ Raises(w, "beat")
    /\ beats' = [beats EXCEPT ![w] = "failed"]
    /\ calls' = Closed(Awaited(w, {"beat"}))

Beat(w) ==
    /\ SendBeat(w) \/ BeatReturns(w) \/ BeatRaises(w)
    /\ UNCHANGED <<jobs, workers, verifiers, started, passed, reports>>
----------------------------------------------------------------------------
(* The verifier                                                            *)

VerifierOps == {"inspect", "rule"}

Depart(v, phase) ==
    /\ verifiers' = [verifiers EXCEPT ![v] = At(phase)]
    /\ calls' = Closed(Awaited(v, VerifierOps))

SendInspect(v) ==
    /\ verifiers[v].phase = "polling"
    /\ verifiers' = [verifiers EXCEPT ![v].phase = "claiming"]
    /\ calls' = calls \cup {Call("inspect", v, None, 0, None)}
    /\ UNCHANGED <<passed, reports, faults>>

NothingToInspect(v) ==
    /\ verifiers[v].phase = "claiming"
    /\ Returns(v, "inspect", "idle")
    /\ Depart(v, "polling")
    /\ UNCHANGED <<passed, reports, faults>>

InspectRaises(v) ==
    /\ verifiers[v].phase = "claiming"
    /\ Raises(v, "inspect")
    /\ Depart(v, "down")
    /\ UNCHANGED <<passed, reports>>

Inspect(v) ==
    \E c \in Awaited(v, {"inspect"}) :
        /\ c.reply = "granted"
        /\ verifiers' = [verifiers EXCEPT ![v] = [phase |-> "inspecting", job |-> c.job,
                                                  lease |-> c.lease, body |-> None]]
        /\ calls' = calls \ {c}
        /\ UNCHANGED <<passed, reports, faults>>

\* The calls of v that are open are closed and a verdict is sent.
SendVerdict(v, phase, verdict) ==
    /\ verifiers' = [verifiers EXCEPT ![v].phase = phase, ![v].body = verdict]
    /\ calls' = Closed(Awaited(v, {"rule"}))
                    \cup {Call("rule", v, verifiers[v].job, verifiers[v].lease, verdict)}

\* Mutant: one check that passes is enough.
VerdictOfAny(checks) == IF TRUE \in checks THEN "VERIFIED" ELSE "FAILED"

VerdictOf(checks) == IF checks = {TRUE} THEN "VERIFIED" ELSE "FAILED"

\* `checks' is the set of the outcomes of the checks.
Judge(v, checks) ==
    LET p == verifiers[v]
    IN  /\ p.phase = "inspecting"
        /\ SendVerdict(v, "ruling", VerdictOf(checks))
        /\ passed' = IF checks = {TRUE} THEN [passed EXCEPT ![p.job] = @ \cup {p.lease}]
                     ELSE passed
        /\ UNCHANGED <<reports, faults>>

ChecksRaise(v) ==
    /\ verifiers[v].phase = "inspecting"
    /\ SendVerdict(v, "blocking", "BLOCKED")
    /\ UNCHANGED <<passed, reports, faults>>

RulingReturns(v) ==
    /\ Returns(v, "rule", "done")
    /\ Reported("verifier", verifiers[v], verifiers[v].body)
    /\ Depart(v, "polling")
    /\ UNCHANGED <<passed, faults>>

\* The exception is handled like one of the checks.
RulingRaises(v) ==
    /\ verifiers[v].phase = "ruling"
    /\ Raises(v, "rule")
    /\ SendVerdict(v, "blocking", "BLOCKED")
    /\ UNCHANGED <<passed, reports>>

BlockingRaises(v) ==
    /\ verifiers[v].phase = "blocking"
    /\ Raises(v, "rule")
    /\ Reported("verifier", verifiers[v], "VERIFYING_UNTIL_LEASE_EXPIRY")
    /\ Depart(v, "polling")
    /\ UNCHANGED passed

RestartVerifier(v) ==
    /\ verifiers[v].phase = "down"
    /\ Depart(v, "polling")
    /\ UNCHANGED <<passed, reports, faults>>

Verify(v) ==
    /\ \/ SendInspect(v) \/ NothingToInspect(v) \/ InspectRaises(v) \/ Inspect(v)
       \/ \E checks \in SUBSET BOOLEAN \ {{}} : Judge(v, checks)
       \/ ChecksRaise(v) \/ RulingReturns(v) \/ RulingRaises(v) \/ BlockingRaises(v)
       \/ RestartVerifier(v)
    /\ UNCHANGED <<jobs, workers, beats, started>>

CrashVerifier(v) ==
    /\ verifiers[v].phase # "down"
    /\ faults < MaxFaults
    /\ faults' = faults + 1
    /\ Depart(v, "down")
    /\ UNCHANGED <<jobs, workers, beats, started, passed, reports>>

----------------------------------------------------------------------------
(* The specification                                                       *)

Next ==
    \/ \E j \in Jobs : Enqueue(j) \/ Lapse(j)
    \/ \E c \in calls : Serve(c) \/ Lose(c)
    \/ \E w \in Workers : Main(w) \/ Beat(w) \/ CrashWorker(w)
    \/ \E v \in Verifiers : Verify(v) \/ CrashVerifier(v)

Spec == Init /\ [][Next]_vars

\* A call that is awaited is served; a heartbeat and the main thread of its
\* worker make separate calls.
Served(from, ops) == \E c \in Awaited(from, ops) : Serve(c)

\* Every process that can go on does, is restarted when it has ended and has its
\* calls answered; a lease that nobody holds runs out.
Fairness ==
    /\ \A j \in Jobs : WF_vars(Lapse(j) /\ ~ InHand(j))
    /\ \A w \in Workers :
          /\ WF_vars(Main(w)) /\ WF_vars(BeatReturns(w) /\ Beat(w))
          /\ WF_vars(BeatRaises(w) /\ Beat(w))
          /\ WF_vars(Served(w, {"beat"})) /\ WF_vars(Served(w, WorkerOps \ {"beat"}))
    /\ \A v \in Verifiers : WF_vars(Verify(v)) /\ WF_vars(Served(v, VerifierOps))

FairSpec == Spec /\ Fairness

----------------------------------------------------------------------------
(* Properties                                                              *)

\* Every variable holds values of its type, and attempts stay in the budget.
TypeOK ==
    /\ jobs \in [Jobs -> Row]
    /\ \A c \in calls : c \in Calls
    /\ workers \in [Workers -> Processes]
    /\ beats \in [Workers -> {"off", "waiting", "calling", "failed"}]
    /\ verifiers \in [Verifiers -> Processes]
    /\ \A j \in Jobs : \A s \in started[j] : s.by \in Workers /\ s.lease \in Nat
    /\ \A j \in Jobs : passed[j] \subseteq Nat
    /\ faults \in 0..MaxFaults

ReportIsTrue(r, report) ==
    /\ report.status = "EXECUTED" => r.receipt = report.lease
    /\ report.role = "worker" /\ report.status = "FAILED" => r.receipt # report.lease
    /\ report.role = "verifier" /\ report.status \in {"VERIFIED", "FAILED", "BLOCKED"} =>
          r.ruling = report.lease /\ r.state = report.status

\* What run_once returns stays true, whatever calls given up before arrive later:
\* after EXECUTED the receipt of that run is the one of the job, after a
\* failure that the coordinator knows of no receipt of that run is ever accepted,
\* and a verdict that was returned is the one of the job.
ReportsAreTrue == \A j \in Jobs : \A report \in reports[j] : ReportIsTrue(jobs[j], report)

\* A workload is started no more often than its budget allows, through crashes,
\* lost replies and leases that lapse under a running workload.
RunsWithinBudget == \A j \in Jobs : Cardinality(started[j]) <= Budget

Earned(j) ==
    LET r == jobs[j]
    IN  /\ r.ruling \in passed[j]
        /\ r.worker # r.verifier
        /\ [by |-> r.worker, lease |-> r.receipt] \in started[j]

\* A job is verified only when some verifier saw all checks pass under the very
\* lease the verdict was given under, on the receipt of another process's run; a
\* verdict that was given up and overtaken does not count.
VerifiedIsEarned == \A j \in Jobs : jobs[j].state = "VERIFIED" => Earned(j)

\* Once its heartbeat has failed, no receipt of a worker is on its way to be
\* accepted: it was handed in before, or it is withheld.
WithheldAfterLoss ==
    \A w \in Workers : beats[w] = "failed" =>
        \A c \in Awaited(w, {"complete"}) : c.reply # None

\* A worker does not get the verification lease of a job it executed.
ExecutorNeverInspects ==
    \A j \in Jobs : jobs[j].state = "VERIFYING" =>
        \A run \in started[j] : run.by # jobs[j].verifier

\* A job that its verifier reports as still under its lease is not decided by it.
UndecidedUntilExpiry ==
    \A j \in Jobs : \A report \in reports[j] :
        report.status = "VERIFYING_UNTIL_LEASE_EXPIRY" => jobs[j].ruling # report.lease

Ended(r) == r.state \in {"VERIFIED", "FAILED", "BLOCKED"}

\* Every job that was accepted ends, once faults have ceased: there is no
\* scheduler, and orphaned leases are taken back only by the claims of others.
JobsEnd == \A j \in Jobs : jobs[j].state = "QUEUED" ~> Ended(jobs[j])

Phase == [ABSENT    |-> "unborn",     QUEUED   |-> "waiting",  LEASED  |-> "running",
          EXECUTED  |-> "delivered",  VERIFYING |-> "inspecting",
          VERIFIED  |-> "verified",   FAILED   |-> "failed",   BLOCKED |-> "blocked"]

LifeOf(r) == [phase |-> Phase[r.state], tries |-> r.attempts,
              budget |-> IF r.state = "ABSENT" THEN 0 ELSE Budget,
              producer |-> r.worker, judge |-> r.verifier]

Contract == INSTANCE FleetContract WITH
    life <- [j \in Jobs |-> LifeOf(jobs[j])], Actors <- Ids, Budgets <- {Budget},
    Nobody <- None

\* With all its processes, its lost and late calls and its crashes the fleet moves
\* every job as the coordinator promises.
KeepsContract == Contract!Spec
=============================================================================
