---------------------------- MODULE ControlPlane ----------------------------
(***************************************************************************)
(* The requests that App serves in api.py: making a plan, executing it on  *)
(* the remote executor, and enqueueing a job for it.                       *)
(*                                                                         *)
(* Each coordinator is a process with a thread per request, one lock, a    *)
(* list of evidence, counters, and a state directory of its own with       *)
(* runs.jsonl and runtime-evidence.json.  The coordinators share the fleet *)
(* store.  Files and the store may fail at any call, the executor may run  *)
(* a workload and be unable to say so, and a coordinator may die at any    *)
(* step and be started again over the same directory.  The evidence file   *)
(* is emptied before every list that is written to it: a write that is cut *)
(* short leaves a file that no process can load, until a later request of  *)
(* the same process writes the whole list again; a process that starts     *)
(* over such a file does not come up.  Several processes over one file are *)
(* the subject of EvidenceLedger.                                          *)
(***************************************************************************)
EXTENDS Integers, Sequences, FiniteSets

CONSTANTS
    Coordinators,
    Threads,    \* threads that serve requests, of whichever coordinator
    Plans,      \* plan ids; each plan has a fresh one
    Window,     \* records of runs.jsonl that are searched for a plan (200)
    MaxOps,     \* bound: requests in all
    MaxCrashes, \* bound: crashes
    None

VARIABLES
    threads,  \* thread -> the request it serves
    lock,     \* coordinator -> the thread that holds App.lock, or None
    runs,     \* coordinator -> the lines of runs.jsonl
    ragged,   \* coordinator -> a line of runs.jsonl was cut short
    ledger,   \* coordinator -> the events in memory
    saved,    \* coordinator -> the events in its file
    torn,     \* coordinator -> its file was emptied and not, or not all, written
    up,       \* the coordinators that run
    counts,   \* coordinator -> Metrics
    configured, \* the coordinators that were started with a fleet store
    fleet,    \* the plans table of the fleet store
    ops,      \* requests so far; the n-th is operation n
    crashes,  \* crashes so far
    planned,  \* history: the verdict on each plan that was made
    jobs,     \* history: plans for which a job was enqueued
    ran,      \* history: the workloads that the executor ran
    answers   \* history: what the clients were told

files == <<runs, ragged, ledger, saved, torn, up>>
history == <<configured, planned, jobs, ran, answers>>
vars == <<threads, lock, files, counts, fleet, ops, crashes, history>>

ASSUME ControlAssumption ==
    /\ {Window, MaxOps, MaxCrashes} \subseteq Nat
    /\ None \notin Threads \cup Coordinators \cup Plans

----------------------------------------------------------------------------
Verdicts == {"VERIFIED_PLAN", "BLOCKED"}

Kinds == {"PLAN", "DAG", "AUTHORITY_GATES", "PLAN_VERIFICATION",
          "EXECUTION_REQUEST", "EXECUTION_RECEIPT"}

\* The events of one request, in the order in which they are appended.
EventsOf(op) ==
    CASE op = "plan"    -> <<"PLAN", "DAG", "AUTHORITY_GATES", "PLAN_VERIFICATION">>
      [] op = "execute" -> <<"EXECUTION_REQUEST", "EXECUTION_RECEIPT">>
      [] OTHER          -> << >>

Points == {"idle", "check", "remote", "lock", "run", "events", "record", "enqueue", "count"}

\* `written' counts the events appended; `durable' is durable_record.
Requests ==
    [pc : Points, op : {"none", "plan", "execute", "enqueue"}, at : Coordinators \cup {None},
     plan : Plans \cup {None}, n : Nat, written : Nat,
     durable : {"NONE", "RECORDED", "FAILED", "UNAVAILABLE"}]

Free == [pc |-> "idle", op |-> "none", at |-> None, plan |-> None, n |-> 0, written |-> 0,
         durable |-> "NONE"]

Runs == [plan : Plans, status : Verdicts \cup {"EXECUTED"}, n : Nat]

Evidence == [kind : Kinds, n : Nat]

Counters == [plans_requested : Nat, plans_verified : Nat, plans_blocked : Nat,
             executions_requested : Nat, executions_receipted : Nat, fleet_jobs_enqueued : Nat]

Zero == [plans_requested |-> 0, plans_verified |-> 0, plans_blocked |-> 0,
         executions_requested |-> 0, executions_receipted |-> 0, fleet_jobs_enqueued |-> 0]

Answers == [op : {"plan", "execute", "enqueue"}, code : {200, 400, 403, 502, 503},
            at : Coordinators, plan : Plans, n : Nat,
            durable : {"NONE", "RECORDED", "FAILED", "UNAVAILABLE"}]

Init ==
    /\ threads = [t \in Threads |-> Free]
    /\ lock = [c \in Coordinators |-> None]
    /\ runs = [c \in Coordinators |-> << >>]
    /\ ragged = [c \in Coordinators |-> FALSE]
    /\ ledger = [c \in Coordinators |-> << >>]
    /\ saved = [c \in Coordinators |-> << >>]
    /\ torn = [c \in Coordinators |-> FALSE]
    /\ up = Coordinators
    /\ counts = [c \in Coordinators |-> Zero]
    /\ configured \in SUBSET Coordinators
    /\ fleet = [p \in Plans |-> "ABSENT"]
    /\ ops = 0
    /\ crashes = 0
    /\ planned = [p \in Plans |-> "ABSENT"]
    /\ jobs = {}
    /\ ran = {}
    /\ answers = {}

HasFleet(c) == c \in configured

Goto(t, pc) == threads' = [threads EXCEPT ![t].pc = pc]

Inc(t, counter) == counts' = [counts EXCEPT ![threads[t].at][counter] = @ + 1]

\* The thread ends with an answer of do_POST.
Answer(t, code) ==
    LET r == threads[t]
    IN  /\ answers' = answers \cup {[op |-> r.op, code |-> code, at |-> r.at,
                                     plan |-> r.plan, n |-> r.n, durable |-> r.durable]}
        /\ threads' = [threads EXCEPT ![t] = Free]

----------------------------------------------------------------------------
(* Beginnings                                                              *)

Begin(t, c, op, p, pc) ==
    /\ threads[t].pc = "idle"
    /\ c \in up
    /\ ops < MaxOps
    /\ ops' = ops + 1
    /\ threads' = [threads EXCEPT ![t] =
          [Free EXCEPT !.pc = pc, !.op = op, !.at = c, !.plan = p, !.n = ops + 1]]

\* App.plan: the orchestrator keeps no state.
MakePlan(t, c, p, verdict) ==
    /\ planned[p] = "ABSENT"
    /\ Begin(t, c, "plan", p, "lock")
    /\ planned' = [planned EXCEPT ![p] = verdict]
    /\ counts' = [counts EXCEPT ![c].plans_requested = @ + 1]
    /\ UNCHANGED <<configured, lock, files, fleet, crashes, jobs, ran, answers>>

\* App.execute_remote and App.enqueue_fleet_job, for a plan id that was given out.
AskFor(t, c, op, p) ==
    /\ planned[p] # "ABSENT"
    /\ op = "enqueue" => HasFleet(c)
    /\ Begin(t, c, op, p, "check")
    /\ UNCHANGED <<lock, files, counts, fleet, crashes, history>>

----------------------------------------------------------------------------
(* The authority of a plan                                                 *)

\* The newest `Window' lines of the run store.
Recent(c) == {runs[c][i] : i \in {j \in DOMAIN runs[c] : j + Window > Len(runs[c])}}

\* Mutant: any record of the plan will do.
RecordedAtAll(c, p) ==
    IF HasFleet(c) THEN fleet[p] # "ABSENT" ELSE \E r \in Recent(c) : r.plan = p

RecordedAsVerified(c, p) ==
    IF HasFleet(c) THEN fleet[p] = "VERIFIED_PLAN"
    ELSE \E r \in Recent(c) : r.plan = p /\ r.status = "VERIFIED_PLAN"

\* The store cannot be asked, or a line cannot be parsed: one that was cut short,
\* or one that another thread is writing.
CheckMayRaise(t) ==
    \/ HasFleet(threads[t].at)
    \/ ragged[threads[t].at]
    \/ \E u \in Threads : threads[u].at = threads[t].at /\ threads[u].pc = "run"

CheckPlan(t) ==
    LET r == threads[t]
    IN  /\ r.pc = "check"
        /\ \/ /\ HasFleet(r.at) \/ ~ ragged[r.at]
              /\ RecordedAsVerified(r.at, r.plan)
              /\ Goto(t, IF r.op = "execute" THEN "remote" ELSE "enqueue")
              /\ UNCHANGED answers
           \/ /\ HasFleet(r.at) \/ ~ ragged[r.at]
              /\ ~ RecordedAsVerified(r.at, r.plan)
              /\ Answer(t, 403)
           \/ /\ CheckMayRaise(t)
              /\ Answer(t, IF HasFleet(r.at) THEN 503 ELSE 400)
        /\ UNCHANGED <<configured, lock, files, counts, fleet, ops, crashes, planned, jobs, ran>>

----------------------------------------------------------------------------
(* Execution                                                               *)

\* client.execute, without the lock.  The workload may have run although the
\* call raises.
Remote(t) ==
    LET r == threads[t]
        workload == [plan |-> r.plan, at |-> r.at, n |-> r.n]
    IN  /\ r.pc = "remote"
        /\ Inc(t, "executions_requested")
        /\ \/ /\ ran' = ran \cup {workload}
              /\ Goto(t, "lock")
              /\ UNCHANGED answers
           \/ /\ ran' \in {ran, ran \cup {workload}}
              /\ Answer(t, 502)
        /\ UNCHANGED <<configured, lock, files, fleet, ops, crashes, planned, jobs>>

----------------------------------------------------------------------------
(* Under the lock: one line of runs.jsonl, then the events                 *)

\* Mutant: the lock is not looked at.
LockIsFreeForAll(c) == TRUE

LockIsFree(c) == lock[c] = None

TakeLock(t) ==
    LET c == threads[t].at
    IN  /\ threads[t].pc = "lock"
        /\ LockIsFree(c)
        /\ lock' = [lock EXCEPT ![c] = t]
        /\ Goto(t, "run")
        /\ UNCHANGED <<files, counts, fleet, ops, crashes, history>>

\* Mutant: release() is not reached when an exception is raised.
ReleasedNever(c) == lock

Released(c) == [lock EXCEPT ![c] = None]

\* An OSError leaves the block and is not answered: the connection is dropped.
Drop(t) ==
    /\ lock' = Released(threads[t].at)
    /\ threads' = [threads EXCEPT ![t] = Free]

\* run_record: plan_status in the metadata of a plan, or EXECUTED.
StatusOf(r) == IF r.op = "plan" THEN planned[r.plan] ELSE "EXECUTED"

AppendRun(t) ==
    LET r == threads[t]
        line == [plan |-> r.plan, n |-> r.n, status |-> StatusOf(r)]
    IN  /\ r.pc = "run"
        /\ runs' = [runs EXCEPT ![r.at] = Append(@, line)]
        /\ Goto(t, "events")
        /\ UNCHANGED <<lock, ragged, ledger, saved, torn, up, counts, fleet, ops, crashes, history>>

\* The line is not written, or only a part of it, and the next record then stands
\* on the same line: from then on no reader can parse the file.
FailRun(t) ==
    LET c == threads[t].at
    IN  /\ threads[t].pc = "run"
        /\ \E cut \in BOOLEAN : ragged' = [ragged EXCEPT ![c] = @ \/ cut]
        /\ Drop(t)
        /\ UNCHANGED <<runs, ledger, saved, torn, up, counts, fleet, ops, crashes, history>>

NextEvent(t) ==
    [kind |-> EventsOf(threads[t].op)[threads[t].written + 1], n |-> threads[t].n]

\* _persist: the whole list replaces what is in the file.
Persist(c, events) ==
    /\ saved' = [saved EXCEPT ![c] = events]
    /\ torn' = [torn EXCEPT ![c] = FALSE]

\* The file is emptied and not, or not all, written.
PersistCut(c) ==
    /\ saved' = [saved EXCEPT ![c] = << >>]
    /\ torn' = [torn EXCEPT ![c] = TRUE]

Appending(t) ==
    /\ threads[t].pc = "events"
    /\ threads[t].written < Len(EventsOf(threads[t].op))

AppendEvent(t) ==
    LET c == threads[t].at
        events == Append(ledger[c], NextEvent(t))
    IN  /\ Appending(t)
        /\ ledger' = [ledger EXCEPT ![c] = events]
        /\ Persist(c, events)
        /\ threads' = [threads EXCEPT ![t].written = @ + 1]
        /\ UNCHANGED <<lock, runs, ragged, up, counts, fleet, ops, crashes, history>>

\* Mutant: a failed write goes unnoticed.
SkipEvent(t) ==
    /\ threads' = [threads EXCEPT ![t].written = @ + 1]
    /\ UNCHANGED lock

EventFails(t) == Drop(t)

\* The event stays in memory, whether the file was not opened, was cut short, or could
\* not be closed.
FailEvent(t) ==
    LET c == threads[t].at
        events == Append(ledger[c], NextEvent(t))
    IN  /\ Appending(t)
        /\ ledger' = [ledger EXCEPT ![c] = events]
        /\ UNCHANGED <<saved, torn>> \/ PersistCut(c) \/ Persist(c, events)
        /\ EventFails(t)
        /\ UNCHANGED <<runs, ragged, up, counts, fleet, ops, crashes, history>>

Release(t) ==
    LET r == threads[t]
    IN  /\ r.pc = "events" /\ r.written = Len(EventsOf(r.op))
        /\ lock' = Released(r.at)
        /\ Goto(t, IF r.op = "plan" THEN "record" ELSE "count")
        /\ UNCHANGED <<files, counts, fleet, ops, crashes, history>>

----------------------------------------------------------------------------
(* The fleet store                                                         *)

\* Mutant: what is reported does not depend on the outcome.
ReportOfNothing(c, done) == "RECORDED"

Report(c, done) == IF ~ HasFleet(c) THEN "UNAVAILABLE" ELSE IF done THEN "RECORDED" ELSE "FAILED"

\* record_plan, outside the lock.  An error may hide a row that was written.
RecordPlan(t) ==
    LET r == threads[t]
        row == [fleet EXCEPT ![r.plan] = planned[r.plan]]
    IN  /\ r.pc = "record"
        /\ \E done \in BOOLEAN :
              /\ fleet' \in IF ~ HasFleet(r.at) THEN {fleet} ELSE IF done THEN {row}
                          ELSE {fleet, row}
              /\ threads' = [threads EXCEPT ![t].durable = Report(r.at, done), ![t].pc = "count"]
        /\ UNCHANGED <<lock, files, counts, ops, crashes, history>>

\* fleet.enqueue looks at the plan again in its own transaction.  Errors of the
\* store are answered or drop the connection, whichever; a job may be left.
Enqueue(t) ==
    LET r == threads[t]
        accepted == IF fleet[r.plan] = "VERIFIED_PLAN" THEN {r.plan} ELSE {}
    IN  /\ r.pc = "enqueue"
        /\ \/ accepted # {} /\ jobs' = jobs \cup accepted /\ Goto(t, "count") /\ UNCHANGED answers
           \/ accepted = {} /\ Answer(t, 403) /\ UNCHANGED jobs
           \/ jobs' \in {jobs, jobs \cup accepted} /\ Answer(t, 503)
        /\ UNCHANGED <<configured, lock, files, counts, fleet, ops, crashes, planned, ran>>

----------------------------------------------------------------------------
(* Ends                                                                    *)

CounterOf(r) ==
    CASE r.op = "execute" -> "executions_receipted"
      [] r.op = "enqueue" -> "fleet_jobs_enqueued"
      [] r.op = "plan" /\ planned[r.plan] = "BLOCKED" -> "plans_blocked"
      [] OTHER -> "plans_verified"

Count(t) ==
    /\ threads[t].pc = "count"
    /\ Inc(t, CounterOf(threads[t]))
    /\ Answer(t, 200)
    /\ UNCHANGED <<configured, lock, files, fleet, ops, crashes, planned, jobs, ran>>

\* The process dies, perhaps while it writes an event, and App is built again over its
\* directory: __init__ raises when it cannot load the file.
Crash(c) ==
    LET here == {t \in Threads : threads[t].at = c}
    IN  /\ crashes < MaxCrashes
        /\ crashes' = crashes + 1
        /\ c \in up
        /\ threads' = [t \in Threads |-> IF t \in here THEN Free ELSE threads[t]]
        /\ lock' = Released(c)
        /\ \E cut \in {FALSE} \cup {threads[t].pc = "run" : t \in here} :
              ragged' = [ragged EXCEPT ![c] = @ \/ cut]
        /\ \/ UNCHANGED <<saved, torn>>
           \/ \E t \in here :
                 Appending(t) /\ (PersistCut(c) \/ Persist(c, Append(ledger[c], NextEvent(t))))
        /\ ledger' = [ledger EXCEPT ![c] = saved'[c]]
        /\ up' = IF torn'[c] THEN up \ {c} ELSE up
        /\ counts' = [counts EXCEPT ![c] = Zero]
        /\ UNCHANGED <<runs, fleet, ops, history>>

Proceed(t) ==
    \/ CheckPlan(t)  \/ Remote(t)  \/ AppendRun(t) \/ FailRun(t) \/ AppendEvent(t)
    \/ FailEvent(t)  \/ Release(t) \/ RecordPlan(t) \/ Enqueue(t) \/ Count(t)

Next ==
    \/ \E t \in Threads :
       \/ \E c \in Coordinators, p \in Plans :
          \/ \E verdict \in Verdicts : MakePlan(t, c, p, verdict)
          \/ \E op \in {"execute", "enqueue"} : AskFor(t, c, op, p)
       \/ TakeLock(t)
       \/ Proceed(t)
    \/ \E c \in Coordinators : Crash(c)

Spec == Init /\ [][Next]_vars

\* Threads run, calls to the executor and to the store return (they have time-outs),
\* and who waits for a lock that stays free gets it: requests are finitely many.
FairSpec == Spec /\ \A t \in Threads : WF_vars(Proceed(t) \/ TakeLock(t))

----------------------------------------------------------------------------
(* Properties                                                              *)

\* Every variable holds a value of its type.
TypeOK ==
    /\ threads \in [Threads -> Requests]
    /\ lock \in [Coordinators -> Threads \cup {None}]
    /\ runs \in [Coordinators -> Seq(Runs)]
    /\ ragged \in [Coordinators -> BOOLEAN]
    /\ ledger \in [Coordinators -> Seq(Evidence)]
    /\ saved \in [Coordinators -> Seq(Evidence)]
    /\ torn \in [Coordinators -> BOOLEAN]
    /\ up \subseteq Coordinators
    /\ counts \in [Coordinators -> Counters]
    /\ configured \subseteq Coordinators
    /\ fleet \in [Plans -> Verdicts \cup {"ABSENT"}]
    /\ ops \in 0 .. MaxOps
    /\ crashes \in 0 .. MaxCrashes
    /\ planned \in [Plans -> Verdicts \cup {"ABSENT"}]
    /\ jobs \subseteq Plans
    /\ ran \subseteq [plan : Plans, at : Coordinators, n : Nat]
    /\ answers \subseteq Answers

\* No workload runs and no job is queued for a plan that was not verified, though
\* the check and the use of the plan are apart, records of one plan are of several
\* kinds, and what was recorded is not what was answered.
OnlyVerifiedPlansRun ==
    /\ \A r \in ran : planned[r.plan] = "VERIFIED_PLAN"
    /\ \A p \in jobs : planned[p] = "VERIFIED_PLAN"

EventsIn(events, n) == {i \in DOMAIN events : events[i].n = n}

\* The events of one request stand together and in their order, in memory and on
\* disk, whichever threads append at the same time; a failure leaves a beginning.
GroupsStandTogether ==
    \A c \in Coordinators : \A events \in {ledger[c], saved[c]} :
        \A i, j \in DOMAIN events :
            i < j /\ events[i].n = events[j].n =>
                /\ events[i + 1].n = events[i].n
                /\ \E op \in {"plan", "execute"} : \E k \in DOMAIN EventsOf(op) :
                      /\ events[i].kind = EventsOf(op)[k]
                      /\ k < Len(EventsOf(op)) /\ events[i + 1].kind = EventsOf(op)[k + 1]

AllIn(events, a) == Cardinality(EventsIn(events, a.n)) = Len(EventsOf(a.op))

\* A plan or a receipt that a client was given keeps its line in runs.jsonl, and keeps
\* all its events in the memory of a coordinator that runs and in an evidence file that
\* can be loaded: failed writes and crashes may leave no such file, and then no such
\* coordinator, but never one that is short of what was answered.
AnsweredIsRecorded ==
    \A a \in answers :
        a.code = 200 /\ a.op # "enqueue" =>
            /\ \E i \in DOMAIN runs[a.at] : runs[a.at][i].n = a.n
            /\ a.at \in up => AllIn(ledger[a.at], a)
            /\ ~ torn[a.at] => AllIn(saved[a.at], a)

\* Who is told RECORDED finds the plan in the fleet store with its own verdict from then
\* on, whatever other coordinators record of it and whoever's answer the store loses.
ReportedAsRecorded ==
    \A a \in answers : a.durable = "RECORDED" => fleet[a.plan] = planned[a.plan]

\* Every request ends, answered or dropped, also when another one failed under
\* the lock.
RequestsEnd == \A t \in Threads : threads[t].pc # "idle" ~> threads[t].pc = "idle"

LocallyRecorded(r) ==
    \E i \in DOMAIN runs[r.at] :
        runs[r.at][i].plan = r.plan /\ runs[r.at][i].status = "VERIFIED_PLAN"

\* docs/EXECUTOR_R1.md:121: an execution needs a locally recorded VERIFIED_PLAN.
ExecutedAreLocallyRecorded == \A r \in ran : LocallyRecorded(r)
=============================================================================
