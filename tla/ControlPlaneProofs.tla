------------------------- MODULE ControlPlaneProofs -------------------------
(***************************************************************************)
(* What the requests of App promise for any number of coordinators,        *)
(* threads, plans and requests: the types, the authority of a plan, the    *)
(* mutual exclusion of the lock, and the order of the evidence.            *)
(***************************************************************************)
EXTENDS ControlPlane, FiniteSetTheorems, TLAPS

Ops == {"plan", "execute", "enqueue"}

Durabilities == {"NONE", "RECORDED", "FAILED", "UNAVAILABLE"}

CounterNames == {"plans_requested", "plans_verified", "plans_blocked",
                 "executions_requested", "executions_receipted", "fleet_jobs_enqueued"}

\* Where a request may be: what it serves fits where it is, and its plan was made.
Placed(r) ==
    /\ r.pc = "idle" => r = Free
    /\ r.pc # "idle" =>
          /\ r.at \in Coordinators /\ r.plan \in Plans /\ r.op \in Ops
          /\ planned[r.plan] # "ABSENT"
          /\ r.pc = "check" => r.op \in {"execute", "enqueue"}
          /\ r.pc = "remote" => r.op = "execute"
          /\ r.pc \in {"lock", "run", "events"} => r.op \in {"plan", "execute"}
          /\ r.pc = "record" => r.op = "plan"
          /\ r.pc = "enqueue" => r.op = "enqueue"

\* The first layer of the inductive invariant.
Shape == TypeOK /\ \A t \in Threads : Placed(threads[t])

----------------------------------------------------------------------------
(* Records                                                                 *)

LEMMA FreeIsRequest ==
    /\ Free \in Requests /\ Placed(Free)
    /\ Free.pc = "idle" /\ Free.at = None /\ Free.durable = "NONE" /\ Free.written = 0 /\ Free.n = 0
  <1>1. Free \in Requests
    BY DEF Free, Requests, Points
  <1>2. /\ Free.pc = "idle" /\ Free.at = None /\ Free.durable = "NONE" /\ Free.written = 0
        /\ Free.n = 0
    BY DEF Free
  <1> QED
    BY <1>1, <1>2 DEF Placed

LEMMA FieldsOfRequest ==
    ASSUME NEW r \in Requests
    PROVE  /\ r.pc \in Points /\ r.op \in Ops \cup {"none"} /\ r.at \in Coordinators \cup {None}
           /\ r.plan \in Plans \cup {None} /\ r.n \in Nat /\ r.written \in Nat
           /\ r.durable \in Durabilities
  BY DEF Requests, Ops, Durabilities

LEMMA SetPc ==
    ASSUME NEW r \in Requests, NEW pc \in Points
    PROVE  LET s == [r EXCEPT !.pc = pc]
           IN  /\ s \in Requests /\ s.pc = pc /\ s.op = r.op /\ s.at = r.at /\ s.plan = r.plan
               /\ s.n = r.n /\ s.written = r.written /\ s.durable = r.durable
  BY DEF Requests

LEMMA SetWritten ==
    ASSUME NEW r \in Requests, NEW k \in Nat
    PROVE  LET s == [r EXCEPT !.written = k]
           IN  /\ s \in Requests /\ s.pc = r.pc /\ s.op = r.op /\ s.at = r.at /\ s.plan = r.plan
               /\ s.n = r.n /\ s.written = k /\ s.durable = r.durable
  BY DEF Requests

LEMMA SetDurable ==
    ASSUME NEW r \in Requests, NEW d \in Durabilities
    PROVE  LET s == [r EXCEPT !.durable = d]
           IN  /\ s \in Requests /\ s.pc = r.pc /\ s.op = r.op /\ s.at = r.at /\ s.plan = r.plan
               /\ s.n = r.n /\ s.written = r.written /\ s.durable = d
  BY DEF Requests, Durabilities

LEMMA CountersCount ==
    ASSUME NEW r \in Counters, NEW counter \in CounterNames
    PROVE  [r EXCEPT ![counter] = @ + 1] \in Counters
  BY DEF Counters, CounterNames

LEMMA EventsAre ==
    /\ EventsOf("plan") = <<"PLAN", "DAG", "AUTHORITY_GATES", "PLAN_VERIFICATION">>
    /\ EventsOf("execute") = <<"EXECUTION_REQUEST", "EXECUTION_RECEIPT">>
    /\ EventsOf("enqueue") = << >>
    /\ \A op \in Ops : /\ Len(EventsOf(op)) \in Nat
                       /\ DOMAIN EventsOf(op) = 1 .. Len(EventsOf(op))
                       /\ \A k \in 1 .. Len(EventsOf(op)) : EventsOf(op)[k] \in Kinds
  BY DEF EventsOf, Kinds, Ops

----------------------------------------------------------------------------
(* What a step does to the threads                                         *)

Others(t) == \A u \in Threads \ {t} : threads'[u] = threads[u]

ThreadsTyped == threads \in [Threads -> Requests]

LEMMA GotoMoves ==
    ASSUME ThreadsTyped, NEW t \in Threads, NEW pc \in Points, Goto(t, pc)
    PROVE  /\ ThreadsTyped' /\ Others(t)
           /\ threads'[t].pc = pc /\ threads'[t].op = threads[t].op /\ threads'[t].at = threads[t].at
           /\ threads'[t].plan = threads[t].plan /\ threads'[t].n = threads[t].n
           /\ threads'[t].written = threads[t].written /\ threads'[t].durable = threads[t].durable
  <1> DEFINE s == [threads[t] EXCEPT !.pc = pc]
  <1>1. threads[t] \in Requests
    BY DEF ThreadsTyped
  <1>2. /\ s \in Requests /\ s.pc = pc /\ s.op = threads[t].op /\ s.at = threads[t].at
        /\ s.plan = threads[t].plan /\ s.n = threads[t].n
        /\ s.written = threads[t].written /\ s.durable = threads[t].durable
    BY <1>1, SetPc
  <1>3. threads' = [threads EXCEPT ![t] = s]
    BY DEF Goto
  <1> HIDE DEF s
  <1>4. threads' \in [Threads -> Requests] /\ threads'[t] = s /\ Others(t)
    BY <1>2, <1>3 DEF ThreadsTyped, Others
  <1> QED
    BY <1>2, <1>4 DEF ThreadsTyped

LEMMA FreeMoves ==
    ASSUME ThreadsTyped, NEW t \in Threads, threads' = [threads EXCEPT ![t] = Free]
    PROVE  ThreadsTyped' /\ Others(t) /\ threads'[t] = Free
  BY FreeIsRequest DEF ThreadsTyped, Others

LEMMA WrittenMoves ==
    ASSUME ThreadsTyped, NEW t \in Threads, threads' = [threads EXCEPT ![t].written = @ + 1]
    PROVE  /\ ThreadsTyped' /\ Others(t)
           /\ threads'[t].pc = threads[t].pc /\ threads'[t].op = threads[t].op
           /\ threads'[t].at = threads[t].at
           /\ threads'[t].plan = threads[t].plan /\ threads'[t].n = threads[t].n
           /\ threads'[t].written = threads[t].written + 1
           /\ threads'[t].durable = threads[t].durable
  <1> DEFINE s == [threads[t] EXCEPT !.written = threads[t].written + 1]
  <1>1. threads[t] \in Requests
    BY DEF ThreadsTyped
  <1>0. threads[t].written + 1 \in Nat
    BY <1>1, FieldsOfRequest
  <1>2. /\ s \in Requests /\ s.pc = threads[t].pc /\ s.op = threads[t].op /\ s.at = threads[t].at
        /\ s.plan = threads[t].plan /\ s.n = threads[t].n
        /\ s.written = threads[t].written + 1 /\ s.durable = threads[t].durable
    BY <1>0, <1>1, SetWritten
  <1>3. threads' = [threads EXCEPT ![t] = s]
    OBVIOUS
  <1> HIDE DEF s
  <1>4. threads' \in [Threads -> Requests] /\ threads'[t] = s /\ Others(t)
    BY <1>2, <1>3 DEF ThreadsTyped, Others
  <1> QED
    BY <1>2, <1>4 DEF ThreadsTyped

LEMMA RecordMoves ==
    ASSUME ThreadsTyped, NEW t \in Threads, NEW d \in Durabilities,
           threads' = [threads EXCEPT ![t].durable = d, ![t].pc = "count"]
    PROVE  /\ ThreadsTyped' /\ Others(t)
           /\ threads'[t].pc = "count" /\ threads'[t].op = threads[t].op
           /\ threads'[t].at = threads[t].at
           /\ threads'[t].plan = threads[t].plan /\ threads'[t].n = threads[t].n
           /\ threads'[t].written = threads[t].written
           /\ threads'[t].durable = d
  <1> DEFINE s == [threads[t] EXCEPT !.durable = d]
             u == [s EXCEPT !.pc = "count"]
  <1>1. threads[t] \in Requests /\ "count" \in Points
    BY DEF ThreadsTyped, Points
  <1>2. /\ s \in Requests /\ s.pc = threads[t].pc /\ s.op = threads[t].op /\ s.at = threads[t].at
        /\ s.plan = threads[t].plan /\ s.n = threads[t].n
        /\ s.written = threads[t].written /\ s.durable = d
    BY <1>1, SetDurable
  <1>3. threads' = [[threads EXCEPT ![t] = s] EXCEPT ![t].pc = "count"]
    OBVIOUS
  <1> HIDE DEF s
  <1>4. [threads EXCEPT ![t] = s][t] = s
    BY DEF ThreadsTyped
  <1>5. threads' = [threads EXCEPT ![t] = u]
    BY <1>3, <1>4 DEF ThreadsTyped
  <1>6. /\ u \in Requests /\ u.pc = "count" /\ u.op = s.op /\ u.at = s.at
        /\ u.plan = s.plan /\ u.n = s.n /\ u.written = s.written /\ u.durable = s.durable
    BY <1>1, <1>2, SetPc
  <1> HIDE DEF u
  <1>7. threads' \in [Threads -> Requests] /\ threads'[t] = u /\ Others(t)
    BY <1>5, <1>6 DEF ThreadsTyped, Others
  <1> QED
    BY <1>2, <1>6, <1>7 DEF ThreadsTyped

LEMMA BeginMoves ==
    ASSUME ThreadsTyped, ops \in Nat, NEW t \in Threads, NEW c \in Coordinators, NEW op \in Ops,
           NEW p \in Plans, NEW pc \in Points, Begin(t, c, op, p, pc)
    PROVE  /\ ThreadsTyped' /\ Others(t)
           /\ threads'[t].pc = pc /\ threads'[t].op = op /\ threads'[t].at = c
           /\ threads'[t].plan = p /\ threads'[t].n = ops + 1
           /\ threads'[t].written = 0 /\ threads'[t].durable = "NONE"
  <1>0. Free \in Requests /\ Free.written = 0 /\ Free.durable = "NONE"
    BY FreeIsRequest
  <1>p. PICK f \in Requests : f = Free
    BY <1>0
  <1>k. PICK k \in Nat : k = ops + 1
    OBVIOUS
  <1> DEFINE s == [f EXCEPT !.pc = pc, !.op = op, !.at = c, !.plan = p, !.n = k]
  <1>1. f.written = 0 /\ f.durable = "NONE"
    BY <1>0, <1>p
  <1>2. /\ s \in Requests /\ s.pc = pc /\ s.op = op /\ s.at = c /\ s.plan = p
        /\ s.n = k /\ s.written = f.written /\ s.durable = f.durable
    BY DEF Requests, Ops
  <1>3. threads' = [threads EXCEPT ![t] = s]
    BY <1>p, <1>k DEF Begin
  <1> HIDE DEF s
  <1>4. threads' \in [Threads -> Requests] /\ threads'[t] = s /\ Others(t)
    BY <1>2, <1>3 DEF ThreadsTyped, Others
  <1> QED
    BY <1>1, <1>2, <1>4, <1>k DEF ThreadsTyped

LEMMA AnswerMoves ==
    ASSUME Shape, NEW t \in Threads, threads[t].pc # "idle",
           NEW code \in {200, 400, 403, 502, 503}, Answer(t, code)
    PROVE  ThreadsTyped' /\ Others(t) /\ threads'[t] = Free /\ answers' \subseteq Answers
  <1>1. ThreadsTyped /\ answers \subseteq Answers /\ threads[t] \in Requests
    BY DEF Shape, TypeOK, ThreadsTyped
  <1>2. ThreadsTyped' /\ Others(t) /\ threads'[t] = Free
    <2>1. threads' = [threads EXCEPT ![t] = Free]
      BY DEF Answer
    <2> QED
      BY <1>1, <2>1, FreeIsRequest DEF ThreadsTyped, Others
  <1>3. /\ threads[t].op \in Ops /\ threads[t].at \in Coordinators /\ threads[t].plan \in Plans
        /\ threads[t].n \in Nat /\ threads[t].durable \in Durabilities
    BY <1>1, FieldsOfRequest DEF Shape, Placed
  <1>4. [op |-> threads[t].op, code |-> code, at |-> threads[t].at, plan |-> threads[t].plan,
         n |-> threads[t].n, durable |-> threads[t].durable] \in Answers
    BY <1>3 DEF Answers, Ops, Durabilities
  <1> QED
    BY <1>1, <1>2, <1>4 DEF Answer

LEMMA PlacedAgain ==
    ASSUME Shape, NEW t \in Threads, Others(t), Placed(threads'[t]), planned' = planned
    PROVE  \A u \in Threads : Placed(threads[u])'
  <1> SUFFICES ASSUME NEW u \in Threads PROVE Placed(threads[u])'
    OBVIOUS
  <1>1. Placed(threads'[u])
    BY DEF Shape, Others
  <1> QED
    BY <1>1 DEF Placed

LEMMA IncCounts ==
    ASSUME counts \in [Coordinators -> Counters], NEW t \in Threads, threads[t].at \in Coordinators,
           NEW counter \in CounterNames, Inc(t, counter)
    PROVE  counts' \in [Coordinators -> Counters]
  <1> DEFINE r == [counts[threads[t].at] EXCEPT ![counter] = @ + 1]
  <1>1. r \in Counters
    BY CountersCount
  <1>2. counts' = [counts EXCEPT ![threads[t].at] = r]
    BY DEF Inc
  <1> HIDE DEF r
  <1> QED
    BY <1>1, <1>2

----------------------------------------------------------------------------
(* Every step keeps the types and the places                               *)

LEMMA MakePlanShapes ==
    ASSUME Shape, NEW t \in Threads, NEW c \in Coordinators, NEW p \in Plans, NEW v \in Verdicts,
           MakePlan(t, c, p, v)
    PROVE  Shape'
  <1>1. ThreadsTyped /\ ops \in 0 .. MaxOps /\ ops \in Nat /\ MaxOps \in Nat
    BY ControlAssumption DEF Shape, TypeOK, ThreadsTyped
  <1>2. Begin(t, c, "plan", p, "lock") /\ "plan" \in Ops /\ "lock" \in Points
    BY DEF MakePlan, Ops, Points
  <1>3. /\ ThreadsTyped' /\ Others(t)
        /\ threads'[t].pc = "lock" /\ threads'[t].op = "plan" /\ threads'[t].at = c
        /\ threads'[t].plan = p
    BY <1>1, <1>2, BeginMoves
  <1>4. ASSUME NEW u \in Threads PROVE Placed(threads[u])'
    <2>1. /\ planned[p] = "ABSENT" /\ planned' = [planned EXCEPT ![p] = v] /\ v # "ABSENT"
          /\ planned \in [Plans -> Verdicts \cup {"ABSENT"}]
      BY DEF MakePlan, Verdicts, Shape, TypeOK
    <2>2. CASE u = t
      BY <1>2, <1>3, <2>1, <2>2 DEF Placed
    <2>3. CASE u # t
      <3>1. threads'[u] = threads[u] /\ Placed(threads[u])
        BY <1>3, <2>3 DEF Others, Shape
      <3>2. threads[u].pc # "idle" => planned'[threads[u].plan] # "ABSENT"
        BY <2>1, <3>1 DEF Placed
      <3> QED
        BY <3>1, <3>2 DEF Placed
    <2> QED
      BY <2>2, <2>3
  <1>5. ops' \in 0 .. MaxOps
    BY <1>1, <1>2 DEF Begin
  <1>6. counts' \in [Coordinators -> Counters]
    <2> DEFINE r == [counts[c] EXCEPT !["plans_requested"] = @ + 1]
    <2>1. counts[c] \in Counters /\ "plans_requested" \in CounterNames
      BY DEF Shape, TypeOK, CounterNames
    <2>2. r \in Counters
      BY <2>1, CountersCount
    <2>3. counts' = [counts EXCEPT ![c] = r]
      BY DEF MakePlan
    <2> HIDE DEF r
    <2> QED
      BY <2>2, <2>3 DEF Shape, TypeOK
  <1>7. planned' \in [Plans -> Verdicts \cup {"ABSENT"}]
    BY DEF MakePlan, Shape, TypeOK
  <1>8. TypeOK'
    BY <1>3, <1>5, <1>6, <1>7 DEF MakePlan, files, Shape, TypeOK, ThreadsTyped
  <1> QED
    BY <1>4, <1>8 DEF Shape

LEMMA AskForShapes ==
    ASSUME Shape, NEW t \in Threads, NEW c \in Coordinators, NEW p \in Plans,
           NEW op \in {"execute", "enqueue"}, AskFor(t, c, op, p)
    PROVE  Shape'
  <1>1. ThreadsTyped /\ ops \in 0 .. MaxOps /\ ops \in Nat /\ MaxOps \in Nat
    BY ControlAssumption DEF Shape, TypeOK, ThreadsTyped
  <1>2. Begin(t, c, op, p, "check") /\ op \in Ops /\ "check" \in Points
        /\ planned[p] # "ABSENT"
    BY DEF AskFor, Ops, Points
  <1>3. /\ ThreadsTyped' /\ Others(t)
        /\ threads'[t].pc = "check" /\ threads'[t].op = op /\ threads'[t].at = c
        /\ threads'[t].plan = p
    BY <1>1, <1>2, BeginMoves
  <1>4. Placed(threads'[t])
    BY <1>2, <1>3 DEF Placed
  <1>5. ops' \in 0 .. MaxOps
    BY <1>1, <1>2 DEF Begin
  <1>6. UNCHANGED <<lock, runs, ragged, ledger, saved, torn, up, counts, fleet, crashes, configured, planned,
                    jobs, ran, answers>>
    BY DEF AskFor, files, history
  <1>8. TypeOK'
    BY <1>3, <1>5, <1>6 DEF Shape, TypeOK, ThreadsTyped
  <1> QED
    BY <1>3, <1>4, <1>6, <1>8, PlacedAgain DEF Shape

LEMMA CheckPlanShapes ==
    ASSUME Shape, NEW t \in Threads, CheckPlan(t)
    PROVE  Shape'
  <1>1. ThreadsTyped /\ Placed(threads[t]) /\ threads[t].pc = "check" /\ threads[t].pc # "idle"
    BY DEF Shape, TypeOK, ThreadsTyped, CheckPlan
  <1>2. /\ UNCHANGED <<lock, runs, ragged, ledger, saved, torn, up, counts, fleet, ops, crashes, configured,
                       planned, jobs, ran>>
        /\ \/ \E pc \in {"remote", "enqueue"} :
                 /\ Goto(t, pc) /\ UNCHANGED answers
                 /\ pc = IF threads[t].op = "execute" THEN "remote" ELSE "enqueue"
           \/ \E code \in {400, 403, 503} : Answer(t, code)
    BY DEF CheckPlan, files
  <1>3. ThreadsTyped' /\ Others(t) /\ Placed(threads'[t]) /\ answers' \subseteq Answers
    <2>1. ASSUME NEW pc \in {"remote", "enqueue"}, Goto(t, pc), UNCHANGED answers,
                 pc = IF threads[t].op = "execute" THEN "remote" ELSE "enqueue"
          PROVE  ThreadsTyped' /\ Others(t) /\ Placed(threads'[t]) /\ answers' \subseteq Answers
      <3>1. pc \in Points
        BY DEF Points
      <3>2. /\ ThreadsTyped' /\ Others(t)
            /\ threads'[t].pc = pc /\ threads'[t].op = threads[t].op
            /\ threads'[t].at = threads[t].at /\ threads'[t].plan = threads[t].plan
        BY <1>1, <2>1, <3>1, GotoMoves
      <3>3. Placed(threads'[t])
        BY <1>1, <2>1, <3>2 DEF Placed
      <3> QED
        BY <2>1, <3>2, <3>3 DEF Shape, TypeOK
    <2>2. ASSUME NEW code \in {400, 403, 503}, Answer(t, code)
          PROVE  ThreadsTyped' /\ Others(t) /\ Placed(threads'[t]) /\ answers' \subseteq Answers
      <3>1. code \in {200, 400, 403, 502, 503}
        OBVIOUS
      <3> QED
        BY <1>1, <2>2, <3>1, AnswerMoves, FreeIsRequest
    <2> QED
      BY <1>2, <2>1, <2>2
  <1>4. TypeOK'
    BY <1>2, <1>3 DEF Shape, TypeOK, ThreadsTyped
  <1> QED
    BY <1>2, <1>3, <1>4, PlacedAgain DEF Shape

LEMMA RemoteShapes ==
    ASSUME Shape, NEW t \in Threads, Remote(t)
    PROVE  Shape'
  <1>1. /\ ThreadsTyped /\ Placed(threads[t]) /\ threads[t].pc = "remote" /\ threads[t].pc # "idle"
        /\ threads[t] \in Requests
    BY DEF Shape, TypeOK, ThreadsTyped, Remote
  <1>2. /\ threads[t].at \in Coordinators /\ threads[t].plan \in Plans /\ threads[t].op = "execute"
        /\ planned[threads[t].plan] # "ABSENT"
    BY <1>1 DEF Placed
  <1>3. /\ UNCHANGED <<lock, runs, ragged, ledger, saved, torn, up, fleet, ops, crashes, configured,
                       planned, jobs>>
        /\ ran' \in {ran, ran \cup {[plan |-> threads[t].plan, at |-> threads[t].at,
                                     n |-> threads[t].n]}}
        /\ (Goto(t, "lock") /\ UNCHANGED answers) \/ Answer(t, 502)
    BY DEF Remote, files
  <1>4. ran' \subseteq [plan : Plans, at : Coordinators, n : Nat]
    <2>1. threads[t].n \in Nat
      BY <1>1, FieldsOfRequest
    <2>2. [plan |-> threads[t].plan, at |-> threads[t].at, n |-> threads[t].n]
             \in [plan : Plans, at : Coordinators, n : Nat]
      BY <1>2, <2>1
    <2> QED
      BY <1>3, <2>2 DEF Shape, TypeOK
  <1>5. counts' \in [Coordinators -> Counters]
    BY <1>2, IncCounts DEF Remote, Shape, TypeOK, CounterNames
  <1>6. ThreadsTyped' /\ Others(t) /\ Placed(threads'[t]) /\ answers' \subseteq Answers
    <2>1. CASE Goto(t, "lock") /\ UNCHANGED answers
      <3>1. /\ ThreadsTyped' /\ Others(t)
            /\ threads'[t].pc = "lock" /\ threads'[t].op = threads[t].op
            /\ threads'[t].at = threads[t].at /\ threads'[t].plan = threads[t].plan
        BY <1>1, <2>1, GotoMoves DEF Points
      <3>2. Placed(threads'[t])
        BY <1>2, <3>1 DEF Placed, Ops
      <3> QED
        BY <2>1, <3>1, <3>2 DEF Shape, TypeOK
    <2>2. CASE Answer(t, 502)
      BY <1>1, <2>2, AnswerMoves, FreeIsRequest
    <2> QED
      BY <1>3, <2>1, <2>2
  <1>7. TypeOK'
    BY <1>3, <1>4, <1>5, <1>6 DEF Shape, TypeOK, ThreadsTyped
  <1> QED
    BY <1>3, <1>6, <1>7, PlacedAgain DEF Shape

LEMMA TakeLockShapes ==
    ASSUME Shape, NEW t \in Threads, TakeLock(t)
    PROVE  Shape'
  <1>1. /\ ThreadsTyped /\ Placed(threads[t]) /\ threads[t].pc = "lock" /\ Goto(t, "run")
        /\ "run" \in Points
        /\ UNCHANGED <<runs, ragged, ledger, saved, torn, up, counts, fleet, ops, crashes, configured,
                       planned, jobs, ran, answers>>
    BY DEF Shape, TypeOK, ThreadsTyped, TakeLock, Points, files, history
  <1>2. threads[t].at \in Coordinators /\ threads[t].plan \in Plans
        /\ threads[t].op \in {"plan", "execute"} /\ planned[threads[t].plan] # "ABSENT"
    BY <1>1 DEF Placed
  <1>3. lock' \in [Coordinators -> Threads \cup {None}]
    BY <1>2 DEF TakeLock, Shape, TypeOK
  <1>4. /\ ThreadsTyped' /\ Others(t)
        /\ threads'[t].pc = "run" /\ threads'[t].op = threads[t].op
        /\ threads'[t].at = threads[t].at /\ threads'[t].plan = threads[t].plan
    BY <1>1, GotoMoves
  <1>5. Placed(threads'[t])
    BY <1>2, <1>4 DEF Placed, Ops
  <1>6. TypeOK'
    BY <1>1, <1>3, <1>4 DEF Shape, TypeOK, ThreadsTyped
  <1> QED
    BY <1>1, <1>4, <1>5, <1>6, PlacedAgain DEF Shape

\* Who drops its connection has given the lock back.
LEMMA DropMoves ==
    ASSUME Shape, NEW t \in Threads, threads[t].pc # "idle", Drop(t)
    PROVE  /\ ThreadsTyped' /\ Others(t) /\ threads'[t] = Free
           /\ lock' \in [Coordinators -> Threads \cup {None}]
  <1>1. ThreadsTyped /\ threads[t].at \in Coordinators
    BY DEF Shape, TypeOK, ThreadsTyped, Placed
  <1> QED
    BY <1>1, FreeMoves DEF Drop, Released, Shape, TypeOK

LEMMA AppendRunShapes ==
    ASSUME Shape, NEW t \in Threads, AppendRun(t)
    PROVE  Shape'
  <1> DEFINE line == [plan |-> threads[t].plan, n |-> threads[t].n, status |-> StatusOf(threads[t])]
  <1>1. /\ ThreadsTyped /\ Placed(threads[t]) /\ threads[t].pc = "run" /\ Goto(t, "events")
        /\ "events" \in Points /\ threads[t] \in Requests
        /\ UNCHANGED <<lock, ragged, ledger, saved, torn, up, counts, fleet, ops, crashes, configured,
                       planned, jobs, ran, answers>>
        /\ runs' = [runs EXCEPT ![threads[t].at] = Append(@, line)]
    BY DEF Shape, TypeOK, ThreadsTyped, AppendRun, Points, history
  <1>2. threads[t].at \in Coordinators /\ threads[t].plan \in Plans
        /\ threads[t].op \in {"plan", "execute"} /\ planned[threads[t].plan] # "ABSENT"
    BY <1>1 DEF Placed
  <1>3. line \in Runs
    <2>1. StatusOf(threads[t]) \in Verdicts \cup {"EXECUTED"}
      BY <1>2 DEF StatusOf, Shape, TypeOK
    <2> QED
      BY <1>1, <1>2, <2>1, FieldsOfRequest DEF Runs
  <1> HIDE DEF line
  <1>4. /\ ThreadsTyped' /\ Others(t)
        /\ threads'[t].pc = "events" /\ threads'[t].op = threads[t].op
        /\ threads'[t].at = threads[t].at /\ threads'[t].plan = threads[t].plan
    BY <1>1, GotoMoves
  <1>5. Placed(threads'[t])
    BY <1>2, <1>4 DEF Placed, Ops
  <1>6. runs' \in [Coordinators -> Seq(Runs)]
    BY <1>1, <1>2, <1>3 DEF Shape, TypeOK
  <1>7. TypeOK'
    BY <1>1, <1>4, <1>6 DEF Shape, TypeOK, ThreadsTyped
  <1> QED
    BY <1>1, <1>4, <1>5, <1>7, PlacedAgain DEF Shape

LEMMA FailRunShapes ==
    ASSUME Shape, NEW t \in Threads, FailRun(t)
    PROVE  Shape'
  <1>1. threads[t].pc # "idle" /\ Drop(t)
        /\ UNCHANGED <<runs, ledger, saved, torn, up, counts, fleet, ops, crashes, configured, planned,
                       jobs, ran, answers>>
    BY DEF FailRun, history
  <1>2. /\ ThreadsTyped' /\ Others(t) /\ threads'[t] = Free
        /\ lock' \in [Coordinators -> Threads \cup {None}]
    BY <1>1, DropMoves
  <1>3. ragged' \in [Coordinators -> BOOLEAN]
    <2>1. PICK cut \in BOOLEAN : ragged' = [ragged EXCEPT ![threads[t].at] = @ \/ cut]
      BY DEF FailRun
    <2> QED
      BY <2>1 DEF Shape, TypeOK
  <1>4. TypeOK'
    BY <1>1, <1>2, <1>3 DEF Shape, TypeOK, ThreadsTyped
  <1> QED
    BY <1>1, <1>2, <1>4, PlacedAgain, FreeIsRequest DEF Shape

LEMMA NextEventIsEvidence ==
    ASSUME Shape, NEW t \in Threads, threads[t].pc = "events",
           threads[t].written < Len(EventsOf(threads[t].op))
    PROVE  NextEvent(t) \in Evidence
  <1>1. threads[t] \in Requests /\ threads[t].op \in Ops
    BY DEF Shape, TypeOK, Placed
  <1>2. threads[t].written + 1 \in 1 .. Len(EventsOf(threads[t].op)) /\ threads[t].n \in Nat
    BY <1>1, FieldsOfRequest, EventsAre
  <1>3. EventsOf(threads[t].op)[threads[t].written + 1] \in Kinds
    BY <1>1, <1>2, EventsAre
  <1> QED
    BY <1>2, <1>3 DEF NextEvent, Evidence

\* A file that was written, or cut short, is typed.
LEMMA PersistTypes ==
    ASSUME saved \in [Coordinators -> Seq(Evidence)], torn \in [Coordinators -> BOOLEAN],
           NEW c \in Coordinators, NEW events \in Seq(Evidence),
           UNCHANGED <<saved, torn>> \/ PersistCut(c) \/ Persist(c, events)
    PROVE  saved' \in [Coordinators -> Seq(Evidence)] /\ torn' \in [Coordinators -> BOOLEAN]
  <1>1. CASE UNCHANGED <<saved, torn>>
    BY <1>1
  <1>2. CASE PersistCut(c)
    <2>1. << >> \in Seq(Evidence)
      OBVIOUS
    <2>2. saved' = [saved EXCEPT ![c] = << >>] /\ torn' = [torn EXCEPT ![c] = TRUE]
      BY <1>2 DEF PersistCut
    <2> QED
      BY <2>1, <2>2
  <1>3. CASE Persist(c, events)
    <2>1. saved' = [saved EXCEPT ![c] = events] /\ torn' = [torn EXCEPT ![c] = FALSE]
      BY <1>3 DEF Persist
    <2> QED
      BY <2>1
  <1> QED
    BY <1>1, <1>2, <1>3

LEMMA AppendEventShapes ==
    ASSUME Shape, NEW t \in Threads, AppendEvent(t)
    PROVE  Shape'
  <1>1. /\ ThreadsTyped /\ Placed(threads[t]) /\ threads[t].pc = "events"
        /\ threads[t].written < Len(EventsOf(threads[t].op))
        /\ threads' = [threads EXCEPT ![t].written = @ + 1]
        /\ ledger' = [ledger EXCEPT ![threads[t].at] = Append(@, NextEvent(t))]
        /\ saved' = [saved EXCEPT ![threads[t].at] = Append(ledger[threads[t].at], NextEvent(t))]
        /\ torn' = [torn EXCEPT ![threads[t].at] = FALSE]
        /\ UNCHANGED <<lock, runs, ragged, up, counts, fleet, ops, crashes, configured, planned,
                       jobs, ran, answers>>
    BY DEF Shape, TypeOK, ThreadsTyped, AppendEvent, Appending, Persist, history
  <1>2. threads[t].at \in Coordinators
    BY <1>1 DEF Placed
  <1>3. PICK e \in Evidence : e = NextEvent(t)
    BY <1>1, NextEventIsEvidence
  <1>4. /\ ledger' \in [Coordinators -> Seq(Evidence)] /\ saved' \in [Coordinators -> Seq(Evidence)]
        /\ torn' \in [Coordinators -> BOOLEAN]
    BY <1>1, <1>2, <1>3 DEF Shape, TypeOK
  <1>5. /\ ThreadsTyped' /\ Others(t)
        /\ threads'[t].pc = "events" /\ threads'[t].op = threads[t].op
        /\ threads'[t].at = threads[t].at /\ threads'[t].plan = threads[t].plan
    BY <1>1, WrittenMoves
  <1>6. Placed(threads'[t])
    BY <1>1, <1>5 DEF Placed
  <1>7. TypeOK'
    BY <1>1, <1>4, <1>5 DEF Shape, TypeOK, ThreadsTyped
  <1> QED
    BY <1>1, <1>5, <1>6, <1>7, PlacedAgain DEF Shape

LEMMA FailEventShapes ==
    ASSUME Shape, NEW t \in Threads, FailEvent(t)
    PROVE  Shape'
  <1>1. /\ threads[t].pc = "events" /\ threads[t].pc # "idle" /\ Drop(t)
        /\ threads[t].written < Len(EventsOf(threads[t].op))
        /\ ledger' = [ledger EXCEPT ![threads[t].at] = Append(@, NextEvent(t))]
        /\ \/ UNCHANGED <<saved, torn>> \/ PersistCut(threads[t].at)
           \/ Persist(threads[t].at, Append(ledger[threads[t].at], NextEvent(t)))
        /\ UNCHANGED <<runs, ragged, up, counts, fleet, ops, crashes, configured, planned,
                       jobs, ran, answers>>
    BY DEF FailEvent, Appending, EventFails, history
  <1>2. /\ ThreadsTyped' /\ Others(t) /\ threads'[t] = Free
        /\ lock' \in [Coordinators -> Threads \cup {None}]
    BY <1>1, DropMoves
  <1>3. PICK e \in Evidence : e = NextEvent(t)
    BY <1>1, NextEventIsEvidence
  <1>4. /\ ledger' \in [Coordinators -> Seq(Evidence)] /\ saved' \in [Coordinators -> Seq(Evidence)]
        /\ torn' \in [Coordinators -> BOOLEAN]
    <2>1. /\ threads[t].at \in Coordinators /\ Append(ledger[threads[t].at], e) \in Seq(Evidence)
          /\ ledger \in [Coordinators -> Seq(Evidence)] /\ saved \in [Coordinators -> Seq(Evidence)]
          /\ torn \in [Coordinators -> BOOLEAN]
      BY <1>1 DEF Shape, TypeOK, Placed
    <2> QED
      BY <1>1, <1>3, <2>1, PersistTypes DEF PersistCut
  <1>5. TypeOK'
    BY <1>1, <1>2, <1>4 DEF Shape, TypeOK, ThreadsTyped
  <1> QED
    BY <1>1, <1>2, <1>5, PlacedAgain, FreeIsRequest DEF Shape

LEMMA ReleaseShapes ==
    ASSUME Shape, NEW t \in Threads, Release(t)
    PROVE  Shape'
  <1> DEFINE pc == IF threads[t].op = "plan" THEN "record" ELSE "count"
  <1>1. /\ ThreadsTyped /\ Placed(threads[t]) /\ threads[t].pc = "events" /\ Goto(t, pc)
        /\ lock' = [lock EXCEPT ![threads[t].at] = None]
        /\ UNCHANGED <<runs, ragged, ledger, saved, torn, up, counts, fleet, ops, crashes, configured,
                       planned, jobs, ran, answers>>
    BY DEF Shape, TypeOK, ThreadsTyped, Release, Released, files, history
  <1>2. threads[t].at \in Coordinators /\ threads[t].plan \in Plans
        /\ threads[t].op \in {"plan", "execute"} /\ planned[threads[t].plan] # "ABSENT"
        /\ pc \in Points
        /\ pc \in {"record", "count"} /\ (pc = "record" => threads[t].op = "plan")
    BY <1>1 DEF Placed, Points
  <1> HIDE DEF pc
  <1>3. lock' \in [Coordinators -> Threads \cup {None}]
    BY <1>1, <1>2 DEF Shape, TypeOK
  <1>4. /\ ThreadsTyped' /\ Others(t)
        /\ threads'[t].pc = pc /\ threads'[t].op = threads[t].op
        /\ threads'[t].at = threads[t].at /\ threads'[t].plan = threads[t].plan
    BY <1>1, <1>2, GotoMoves
  <1>5. Placed(threads'[t])
    BY <1>2, <1>4 DEF Placed, Ops
  <1>6. TypeOK'
    BY <1>1, <1>3, <1>4 DEF Shape, TypeOK, ThreadsTyped
  <1> QED
    BY <1>1, <1>4, <1>5, <1>6, PlacedAgain DEF Shape

LEMMA RecordPlanShapes ==
    ASSUME Shape, NEW t \in Threads, RecordPlan(t)
    PROVE  Shape'
  <1>1. /\ ThreadsTyped /\ Placed(threads[t]) /\ threads[t].pc = "record"
        /\ UNCHANGED <<lock, runs, ragged, ledger, saved, torn, up, counts, ops, crashes, configured,
                       planned, jobs, ran, answers>>
    BY DEF Shape, TypeOK, ThreadsTyped, RecordPlan, files, history
  <1>2. PICK done \in BOOLEAN :
            /\ fleet' \in {fleet, [fleet EXCEPT ![threads[t].plan] = planned[threads[t].plan]]}
            /\ threads' = [threads EXCEPT ![t].durable = Report(threads[t].at, done),
                                          ![t].pc = "count"]
    BY DEF RecordPlan
  <1>3. threads[t].plan \in Plans /\ threads[t].op = "plan"
    BY <1>1 DEF Placed
  <1>4. fleet' \in [Plans -> Verdicts \cup {"ABSENT"}]
    BY <1>2, <1>3 DEF Shape, TypeOK
  <1>5. Report(threads[t].at, done) \in Durabilities
    BY DEF Report, Durabilities
  <1>6. /\ ThreadsTyped' /\ Others(t)
        /\ threads'[t].pc = "count" /\ threads'[t].op = threads[t].op
        /\ threads'[t].at = threads[t].at /\ threads'[t].plan = threads[t].plan
    BY <1>1, <1>2, <1>5, RecordMoves
  <1>7. Placed(threads'[t])
    BY <1>1, <1>6 DEF Placed
  <1>8. TypeOK'
    BY <1>1, <1>4, <1>6 DEF Shape, TypeOK, ThreadsTyped
  <1> QED
    BY <1>1, <1>6, <1>7, <1>8, PlacedAgain DEF Shape

LEMMA EnqueueShapes ==
    ASSUME Shape, NEW t \in Threads, Enqueue(t)
    PROVE  Shape'
  <1>0. /\ ThreadsTyped /\ Placed(threads[t])
        /\ threads[t].pc = "enqueue" /\ threads[t].pc # "idle"
    <2>1. threads[t].pc = "enqueue"
      BY DEF Enqueue
    <2> QED
      BY <2>1 DEF Shape, TypeOK, ThreadsTyped
  <1>1. /\ UNCHANGED <<lock, runs, ragged, ledger, saved, torn, up, counts, fleet, ops, crashes, configured,
                       planned, ran>>
        /\ jobs' \in {jobs, jobs \cup {threads[t].plan}}
        /\ \/ Goto(t, "count") /\ UNCHANGED answers
           \/ \E code \in {403, 503} : Answer(t, code)
    BY DEF Enqueue, files
  <1>2. jobs' \subseteq Plans
    BY <1>0, <1>1 DEF Shape, TypeOK, Placed
  <1>3. ThreadsTyped' /\ Others(t) /\ Placed(threads'[t]) /\ answers' \subseteq Answers
    <2>1. CASE Goto(t, "count") /\ UNCHANGED answers
      <3>1. /\ ThreadsTyped' /\ Others(t)
            /\ threads'[t].pc = "count" /\ threads'[t].op = threads[t].op
            /\ threads'[t].at = threads[t].at /\ threads'[t].plan = threads[t].plan
        BY <1>0, <1>1, <2>1, GotoMoves DEF Points
      <3>2. Placed(threads'[t])
        BY <1>0, <1>1, <3>1 DEF Placed
      <3> QED
        BY <2>1, <3>1, <3>2 DEF Shape, TypeOK
    <2>2. ASSUME NEW code \in {403, 503}, Answer(t, code)
          PROVE  ThreadsTyped' /\ Others(t) /\ Placed(threads'[t]) /\ answers' \subseteq Answers
      <3>1. code \in {200, 400, 403, 502, 503}
        OBVIOUS
      <3> QED
        BY <1>0, <1>1, <2>2, <3>1, AnswerMoves, FreeIsRequest
    <2> QED
      BY <1>0, <1>1, <2>1, <2>2
  <1>4. TypeOK'
    BY <1>0, <1>1, <1>2, <1>3 DEF Shape, TypeOK, ThreadsTyped
  <1> QED
    BY <1>0, <1>1, <1>3, <1>4, PlacedAgain DEF Shape

LEMMA CountShapes ==
    ASSUME Shape, NEW t \in Threads, Count(t)
    PROVE  Shape'
  <1>1. /\ Placed(threads[t]) /\ threads[t].pc = "count" /\ threads[t].pc # "idle"
        /\ Answer(t, 200) /\ Inc(t, CounterOf(threads[t]))
        /\ UNCHANGED <<lock, runs, ragged, ledger, saved, torn, up, fleet, ops, crashes, configured,
                       planned, jobs, ran>>
    BY DEF Shape, Count, files
  <1>2. ThreadsTyped' /\ Others(t) /\ threads'[t] = Free /\ answers' \subseteq Answers
    BY <1>1, AnswerMoves
  <1>3. CounterOf(threads[t]) \in CounterNames
    BY DEF CounterOf, CounterNames
  <1>4. counts' \in [Coordinators -> Counters]
    BY <1>1, <1>3, IncCounts DEF Shape, TypeOK, Placed
  <1>5. TypeOK'
    BY <1>1, <1>2, <1>4 DEF Shape, TypeOK, ThreadsTyped
  <1> QED
    BY <1>1, <1>2, <1>5, PlacedAgain, FreeIsRequest DEF Shape

LEMMA CrashShapes ==
    ASSUME Shape, NEW c \in Coordinators, Crash(c)
    PROVE  Shape'
  <1>1. /\ UNCHANGED <<runs, fleet, ops, configured, planned, jobs, ran, answers>>
        /\ lock' = [lock EXCEPT ![c] = None] /\ ledger' = [ledger EXCEPT ![c] = saved'[c]]
        /\ up' \subseteq up
        /\ counts' = [counts EXCEPT ![c] = Zero]
        /\ crashes' = crashes + 1 /\ crashes < MaxCrashes
        /\ threads' = [t \in Threads |-> IF threads[t].at = c THEN Free ELSE threads[t]]
    BY DEF Crash, Released, history
  <1>2. \A t \in Threads : threads'[t] = Free \/ threads'[t] = threads[t]
    BY <1>1
  <1>3. threads' \in [Threads -> Requests]
    BY <1>1, <1>2, FreeIsRequest DEF Shape, TypeOK
  <1>4. ragged' \in [Coordinators -> BOOLEAN]
    <2>1. PICK cut : ragged' = [ragged EXCEPT ![c] = @ \/ cut]
      BY DEF Crash
    <2> QED
      BY <2>1 DEF Shape, TypeOK
  <1>5. Zero \in Counters
    BY DEF Zero, Counters
  <1>6. crashes' \in 0 .. MaxCrashes
    BY <1>1, ControlAssumption DEF Shape, TypeOK
  <1>n. saved' \in [Coordinators -> Seq(Evidence)] /\ torn' \in [Coordinators -> BOOLEAN]
    <2>1. /\ saved \in [Coordinators -> Seq(Evidence)] /\ torn \in [Coordinators -> BOOLEAN]
          /\ ledger \in [Coordinators -> Seq(Evidence)]
      BY DEF Shape, TypeOK
    <2>2. CASE UNCHANGED <<saved, torn>>
      BY <2>1, <2>2
    <2>3. ASSUME NEW t \in Threads, Appending(t),
                 PersistCut(c) \/ Persist(c, Append(ledger[c], NextEvent(t)))
          PROVE  saved' \in [Coordinators -> Seq(Evidence)] /\ torn' \in [Coordinators -> BOOLEAN]
      <3>1. PICK e \in Evidence : e = NextEvent(t)
        BY <2>3, NextEventIsEvidence DEF Appending
      <3>2. Append(ledger[c], NextEvent(t)) \in Seq(Evidence)
        BY <2>1, <3>1
      <3> QED
        BY <2>1, <2>3, <3>2, PersistTypes
    <2> QED
      BY <2>2, <2>3 DEF Crash
  <1>7. TypeOK'
    BY <1>1, <1>3, <1>4, <1>5, <1>6, <1>n DEF Shape, TypeOK
  <1>8. ASSUME NEW t \in Threads PROVE Placed(threads[t])'
    <2>1. Placed(threads'[t])
      BY <1>2, FreeIsRequest DEF Shape
    <2> QED
      BY <1>1, <2>1 DEF Placed
  <1> QED
    BY <1>7, <1>8 DEF Shape

LEMMA StutterShapes ==
    ASSUME Shape, UNCHANGED vars
    PROVE  Shape'
  BY DEF vars, files, history, Shape, TypeOK, Placed

LEMMA InitShapes == Init => Shape
  <1> SUFFICES ASSUME Init PROVE Shape
    OBVIOUS
  <1>1. threads \in [Threads -> Requests] /\ \A t \in Threads : Placed(threads[t])
    BY FreeIsRequest DEF Init
  <1>2. counts \in [Coordinators -> Counters]
    BY DEF Init, Zero, Counters
  <1>3. 0 \in 0 .. MaxOps /\ 0 \in 0 .. MaxCrashes
    BY ControlAssumption
  <1>4. /\ runs \in [Coordinators -> Seq(Runs)] /\ ledger \in [Coordinators -> Seq(Evidence)]
        /\ saved \in [Coordinators -> Seq(Evidence)] /\ torn \in [Coordinators -> BOOLEAN]
    BY DEF Init
  <1> QED
    BY <1>1, <1>2, <1>3, <1>4 DEF Init, Shape, TypeOK

LEMMA ShapeHolds == Spec => []Shape
  <1>1. ASSUME Shape, [Next]_vars PROVE Shape'
    BY <1>1, MakePlanShapes, AskForShapes, TakeLockShapes, CheckPlanShapes, RemoteShapes,
       AppendRunShapes, FailRunShapes, AppendEventShapes, FailEventShapes, ReleaseShapes,
       RecordPlanShapes, EnqueueShapes, CountShapes, CrashShapes, StutterShapes
       DEF Next, Proceed
  <1> QED
    BY <1>1, InitShapes, PTL DEF Spec

\* Every variable of the coordinators keeps its type, with any number of them.
THEOREM Typed == Spec => []TypeOK
  <1>1. Shape => TypeOK
    BY DEF Shape
  <1> QED
    BY <1>1, ShapeHolds, PTL

----------------------------------------------------------------------------
(* The authority of a plan: the second layer                               *)

\* What a request may rely on.
Entitled(r) ==
    r.pc # "idle" =>
        /\ r.pc \in {"remote", "enqueue"} => planned[r.plan] = "VERIFIED_PLAN"
        /\ r.durable = "RECORDED" => fleet[r.plan] = planned[r.plan]

\* The records of a plan say of it what was decided when it was made.
Authority ==
    /\ \A p \in Plans : fleet[p] # "ABSENT" => fleet[p] = planned[p]
    /\ \A c \in Coordinators : \A i \in DOMAIN runs[c] :
          runs[c][i].status = "VERIFIED_PLAN" => planned[runs[c][i].plan] = "VERIFIED_PLAN"
    /\ OnlyVerifiedPlansRun
    /\ \A a \in answers : planned[a.plan] # "ABSENT"
    /\ ReportedAsRecorded
    /\ \A t \in Threads : Entitled(threads[t])

\* A verdict is never changed, and a record of it is only ever made.
Grows ==
    \A p \in Plans :
        /\ planned[p] # "ABSENT" => planned'[p] = planned[p]
        /\ \/ fleet'[p] = fleet[p]
           \/ planned[p] # "ABSENT" /\ fleet'[p] = planned[p]

LEMMA StepGrows ==
    ASSUME Shape, [Next]_vars
    PROVE  Grows
  <1>0. fleet \in [Plans -> Verdicts \cup {"ABSENT"}] /\ planned \in [Plans -> Verdicts \cup {"ABSENT"}]
    BY DEF Shape, TypeOK
  <1>1. ASSUME NEW t \in Threads, NEW c \in Coordinators, NEW p \in Plans, NEW v \in Verdicts,
               MakePlan(t, c, p, v)
        PROVE  Grows
    BY <1>0, <1>1 DEF MakePlan, Grows
  <1>2. ASSUME NEW t \in Threads, RecordPlan(t)
        PROVE  Grows
    <2>1. /\ planned' = planned
          /\ fleet' \in {fleet, [fleet EXCEPT ![threads[t].plan] = planned[threads[t].plan]]}
      BY <1>2 DEF RecordPlan, history
    <2>2. threads[t].plan \in Plans /\ planned[threads[t].plan] # "ABSENT"
      BY <1>2 DEF RecordPlan, Shape, Placed
    <2> QED
      BY <1>0, <2>1, <2>2 DEF Grows
  <1>3. CASE planned' = planned /\ fleet' = fleet
    BY <1>3 DEF Grows
  <1>4. ASSUME NEW t \in Threads, NEW c \in Coordinators, NEW p \in Plans,
               NEW op \in {"execute", "enqueue"}, AskFor(t, c, op, p)
        PROVE  Grows
    BY <1>3, <1>4 DEF AskFor, history
  <1>5. ASSUME NEW t \in Threads, TakeLock(t)
        PROVE  Grows
    BY <1>3, <1>5 DEF TakeLock, history
  <1>6. ASSUME NEW t \in Threads, Proceed(t)
        PROVE  Grows
    <2>1. CASE CheckPlan(t) \/ Remote(t) \/ Enqueue(t) \/ Count(t)
      BY <1>3, <2>1 DEF CheckPlan, Remote, Enqueue, Count
    <2>2. CASE AppendRun(t) \/ FailRun(t) \/ AppendEvent(t) \/ FailEvent(t) \/ Release(t)
      BY <1>3, <2>2 DEF AppendRun, FailRun, AppendEvent, FailEvent, Release, history
    <2> QED
      BY <1>2, <1>6, <2>1, <2>2 DEF Proceed
  <1>7. ASSUME NEW c \in Coordinators, Crash(c)
        PROVE  Grows
    BY <1>3, <1>7 DEF Crash, history
  <1>8. CASE UNCHANGED vars
    BY <1>3, <1>8 DEF vars, history
  <1> QED
    BY <1>1, <1>4, <1>5, <1>6, <1>7, <1>8 DEF Next

\* Over any step what is entitled stays so, and so do records, workloads and answers
\* that were there before.
LEMMA EntitledStays ==
    ASSUME Grows, NEW r, Placed(r), Entitled(r)
    PROVE  Entitled(r)'
  BY DEF Grows, Entitled, Placed

LEMMA OldStays ==
    ASSUME Shape, Authority, Grows
    PROVE  /\ \A p \in Plans : fleet'[p] # "ABSENT" => fleet'[p] = planned'[p]
           /\ \A c \in Coordinators : \A i \in DOMAIN runs[c] :
                 runs[c][i].status = "VERIFIED_PLAN" => planned'[runs[c][i].plan] = "VERIFIED_PLAN"
           /\ \A w \in ran : planned'[w.plan] = "VERIFIED_PLAN"
           /\ \A p \in jobs : planned'[p] = "VERIFIED_PLAN"
           /\ \A a \in answers : /\ planned'[a.plan] # "ABSENT"
                                 /\ a.durable = "RECORDED" => fleet'[a.plan] = planned'[a.plan]
           /\ \A t \in Threads : Entitled(threads[t])'  \/ threads'[t] # threads[t]
  <1>1. \A p \in Plans : fleet'[p] # "ABSENT" => fleet'[p] = planned'[p]
    BY DEF Authority, Grows
  <1>2. ASSUME NEW c \in Coordinators, NEW i \in DOMAIN runs[c], runs[c][i].status = "VERIFIED_PLAN"
        PROVE  planned'[runs[c][i].plan] = "VERIFIED_PLAN"
    <2>1. runs[c][i] \in Runs
      BY DEF Shape, TypeOK
    <2>2. runs[c][i].plan \in Plans
      BY <2>1 DEF Runs
    <2>3. planned[runs[c][i].plan] = "VERIFIED_PLAN"
      BY <1>2 DEF Authority
    <2> QED
      BY <2>2, <2>3 DEF Grows
  <1>3. ASSUME NEW w \in ran PROVE planned'[w.plan] = "VERIFIED_PLAN"
    <2>1. w.plan \in Plans /\ planned[w.plan] = "VERIFIED_PLAN"
      BY DEF Authority, OnlyVerifiedPlansRun, Shape, TypeOK
    <2> QED
      BY <2>1 DEF Grows
  <1>4. \A p \in jobs : planned'[p] = "VERIFIED_PLAN"
    BY DEF Authority, OnlyVerifiedPlansRun, Grows, Shape, TypeOK
  <1>5. ASSUME NEW a \in answers
        PROVE  /\ planned'[a.plan] # "ABSENT"
               /\ a.durable = "RECORDED" => fleet'[a.plan] = planned'[a.plan]
    <2>1. a.plan \in Plans
      BY DEF Shape, TypeOK, Answers
    <2>2. planned[a.plan] # "ABSENT" /\ (a.durable = "RECORDED" => fleet[a.plan] = planned[a.plan])
      BY DEF Authority, ReportedAsRecorded
    <2> QED
      BY <2>1, <2>2 DEF Grows
  <1>6. ASSUME NEW t \in Threads, threads'[t] = threads[t] PROVE Entitled(threads[t])'
    <2>1. PICK r : r = threads[t]
      OBVIOUS
    <2>2. Entitled(r)'
      BY <2>1, EntitledStays DEF Shape, Authority
    <2> QED
      BY <1>6, <2>1, <2>2 DEF Entitled
  <1> QED
    BY <1>1, <1>2, <1>3, <1>4, <1>5, <1>6

\* What is left to show of a step of one thread.
LEMMA NewIsEntitled ==
    ASSUME Shape, Authority, Grows, NEW t \in Threads, Others(t), Entitled(threads[t])',
           runs' = runs, ran' = ran, jobs' = jobs,
           \A a \in answers' \ answers : /\ planned'[a.plan] # "ABSENT"
                                         /\ a.durable = "RECORDED" => fleet'[a.plan] = planned'[a.plan]
    PROVE  Authority'
  <1>1. \A u \in Threads : Entitled(threads[u])'
    BY OldStays DEF Others
  <1>2. OnlyVerifiedPlansRun'
    BY OldStays DEF OnlyVerifiedPlansRun
  <1>3. ReportedAsRecorded' /\ \A a \in answers' : planned'[a.plan] # "ABSENT"
    BY OldStays DEF ReportedAsRecorded
  <1> QED
    BY <1>1, <1>2, <1>3, OldStays DEF Authority

LEMMA FreeIsEntitled == \A t \in Threads : threads'[t] = Free => Entitled(threads[t])'
  BY FreeIsRequest DEF Entitled

\* An answer of a request that may rely on what it says.
LEMMA AnswerIsEntitled ==
    ASSUME Shape, Authority, Grows, NEW t \in Threads, threads[t].pc # "idle",
           NEW code \in {200, 400, 403, 502, 503}, Answer(t, code)
    PROVE  /\ Others(t) /\ Entitled(threads[t])'
           /\ \A a \in answers' \ answers :
                 /\ planned'[a.plan] # "ABSENT"
                 /\ a.durable = "RECORDED" => fleet'[a.plan] = planned'[a.plan]
  <1>1. Others(t) /\ Entitled(threads[t])'
    BY AnswerMoves, FreeIsEntitled
  <1>2. ASSUME NEW a \in answers' \ answers
        PROVE  a.plan = threads[t].plan /\ a.durable = threads[t].durable
    BY DEF Answer
  <1>3. /\ threads[t].plan \in Plans /\ planned[threads[t].plan] # "ABSENT"
        /\ threads[t].durable = "RECORDED" => fleet[threads[t].plan] = planned[threads[t].plan]
    BY DEF Shape, Placed, Authority, Entitled
  <1> QED
    BY <1>1, <1>2, <1>3 DEF Grows

\* The check reads a record of the plan, in the fleet store or in runs.jsonl.
LEMMA RecordedIsVerified ==
    ASSUME Shape, Authority, NEW c \in Coordinators, NEW p \in Plans, RecordedAsVerified(c, p)
    PROVE  planned[p] = "VERIFIED_PLAN"
  <1>1. CASE HasFleet(c)
    BY <1>1 DEF RecordedAsVerified, Authority
  <1>2. CASE ~ HasFleet(c)
    <2>1. PICK r \in Recent(c) : r.plan = p /\ r.status = "VERIFIED_PLAN"
      BY <1>2 DEF RecordedAsVerified
    <2>2. PICK i \in DOMAIN runs[c] : r = runs[c][i]
      BY <2>1 DEF Recent
    <2> QED
      BY <2>1, <2>2 DEF Authority
  <1> QED
    BY <1>1, <1>2

LEMMA CheckPlanIsEntitled ==
    ASSUME Shape, Authority, Grows, NEW t \in Threads, CheckPlan(t)
    PROVE  Authority'
  <1>1. /\ ThreadsTyped /\ threads[t].pc = "check" /\ threads[t].pc # "idle" /\ Placed(threads[t])
        /\ UNCHANGED <<runs, ran, jobs, fleet, planned>>
        /\ \/ \E pc \in {"remote", "enqueue"} :
                 /\ Goto(t, pc) /\ UNCHANGED answers
                 /\ RecordedAsVerified(threads[t].at, threads[t].plan)
           \/ \E code \in {400, 403, 503} : Answer(t, code)
    BY DEF Shape, TypeOK, ThreadsTyped, CheckPlan, files
  <1>2. ASSUME NEW pc \in {"remote", "enqueue"}, Goto(t, pc), UNCHANGED answers,
               RecordedAsVerified(threads[t].at, threads[t].plan)
        PROVE  Authority'
    <2>1. threads[t].plan \in Plans /\ threads[t].at \in Coordinators /\ pc \in Points
      BY <1>1 DEF Placed, Points
    <2>2. planned[threads[t].plan] = "VERIFIED_PLAN"
      BY <1>2, <2>1, RecordedIsVerified
    <2>3. /\ Others(t) /\ threads'[t].pc = pc /\ threads'[t].plan = threads[t].plan
          /\ threads'[t].durable = threads[t].durable
      BY <1>1, <1>2, <2>1, GotoMoves
    <2>4. Entitled(threads[t])'
      BY <1>1, <2>2, <2>3 DEF Entitled, Authority
    <2> QED
      BY <1>1, <1>2, <2>3, <2>4, NewIsEntitled
  <1>3. ASSUME NEW code \in {400, 403, 503}, Answer(t, code)
        PROVE  Authority'
    <2>1. code \in {200, 400, 403, 502, 503}
      OBVIOUS
    <2> QED
      BY <1>1, <1>3, <2>1, AnswerIsEntitled, NewIsEntitled
  <1> QED
    BY <1>1, <1>2, <1>3

LEMMA RemoteIsEntitled ==
    ASSUME Shape, Authority, Grows, NEW t \in Threads, Remote(t)
    PROVE  Authority'
  <1>1. /\ ThreadsTyped /\ threads[t].pc = "remote" /\ threads[t].pc # "idle"
        /\ UNCHANGED <<runs, jobs, fleet, planned>>
        /\ ran' \subseteq ran \cup {[plan |-> threads[t].plan, at |-> threads[t].at,
                                     n |-> threads[t].n]}
        /\ (Goto(t, "lock") /\ UNCHANGED answers) \/ Answer(t, 502)
    BY DEF Shape, TypeOK, ThreadsTyped, Remote, files
  <1>2. planned[threads[t].plan] = "VERIFIED_PLAN"
    BY <1>1 DEF Authority, Entitled
  <1>3. \A w \in ran' : planned'[w.plan] = "VERIFIED_PLAN"
    BY <1>1, <1>2, OldStays
  <1>4. /\ Others(t) /\ Entitled(threads[t])'
        /\ \A a \in answers' \ answers :
              /\ planned'[a.plan] # "ABSENT"
              /\ a.durable = "RECORDED" => fleet'[a.plan] = planned'[a.plan]
    <2>1. CASE Goto(t, "lock") /\ UNCHANGED answers
      <3>1. /\ Others(t) /\ threads'[t].pc = "lock" /\ threads'[t].plan = threads[t].plan
            /\ threads'[t].durable = threads[t].durable
        BY <1>1, <2>1, GotoMoves DEF Points
      <3> QED
        BY <1>1, <2>1, <3>1 DEF Entitled, Authority
    <2>2. CASE Answer(t, 502)
      BY <1>1, <2>2, AnswerIsEntitled
    <2> QED
      BY <1>1, <2>1, <2>2
  <1>5. \A u \in Threads : Entitled(threads[u])'
    BY <1>4, OldStays DEF Others
  <1>6. ReportedAsRecorded' /\ \A a \in answers' : planned'[a.plan] # "ABSENT"
    BY <1>4, OldStays DEF ReportedAsRecorded
  <1>7. OnlyVerifiedPlansRun'
    BY <1>1, <1>3, OldStays DEF OnlyVerifiedPlansRun
  <1> QED
    BY <1>1, <1>5, <1>6, <1>7, OldStays DEF Authority

LEMMA AppendRunIsEntitled ==
    ASSUME Shape, Authority, Grows, NEW t \in Threads, AppendRun(t)
    PROVE  Authority'
  <1> DEFINE line == [plan |-> threads[t].plan, n |-> threads[t].n, status |-> StatusOf(threads[t])]
  <1>1. /\ ThreadsTyped /\ threads[t].pc = "run" /\ threads[t].pc # "idle" /\ Placed(threads[t])
        /\ UNCHANGED <<ran, jobs, fleet, planned, answers>> /\ Goto(t, "events")
        /\ runs' = [runs EXCEPT ![threads[t].at] = Append(@, line)]
    BY DEF Shape, TypeOK, ThreadsTyped, AppendRun, history
  <1>2. /\ line.plan = threads[t].plan
        /\ line.status = "VERIFIED_PLAN" => planned[line.plan] = "VERIFIED_PLAN"
    BY DEF StatusOf
  <1> HIDE DEF line
  <1>3. /\ Others(t) /\ threads'[t].pc = "events" /\ threads'[t].plan = threads[t].plan
        /\ threads'[t].durable = threads[t].durable
    BY <1>1, GotoMoves DEF Points
  <1>4. Entitled(threads[t])'
    BY <1>1, <1>3 DEF Entitled, Authority
  <1>5. ASSUME NEW c \in Coordinators, NEW i \in DOMAIN runs'[c], runs'[c][i].status = "VERIFIED_PLAN"
        PROVE  planned'[runs'[c][i].plan] = "VERIFIED_PLAN"
    <2>1. runs[c] \in Seq(Runs) /\ runs \in [Coordinators -> Seq(Runs)]
      BY DEF Shape, TypeOK
    <2>2. CASE c # threads[t].at
      BY <1>1, <1>5, <2>1, <2>2, OldStays
    <2>3. CASE c = threads[t].at
      <3>1. runs'[c] = Append(runs[c], line)
        BY <1>1, <2>1, <2>3
      <3>2. CASE i \in DOMAIN runs[c]
        BY <1>1, <1>5, <2>1, <3>1, <3>2, OldStays
      <3>3. CASE i \notin DOMAIN runs[c]
        <4>1. runs'[c][i] = line
          BY <2>1, <3>1, <3>3
        <4> QED
          BY <1>1, <1>2, <1>5, <4>1
      <3> QED
        BY <3>2, <3>3
    <2> QED
      BY <2>2, <2>3
  <1>6. \A u \in Threads : Entitled(threads[u])'
    BY <1>3, <1>4, OldStays DEF Others
  <1> QED
    BY <1>1, <1>5, <1>6, OldStays DEF Authority, OnlyVerifiedPlansRun, ReportedAsRecorded

LEMMA RecordPlanIsEntitled ==
    ASSUME Shape, Authority, Grows, NEW t \in Threads, RecordPlan(t)
    PROVE  Authority'
  <1>1. /\ ThreadsTyped /\ threads[t].pc = "record" /\ Placed(threads[t])
        /\ UNCHANGED <<runs, ran, jobs, planned, answers>>
        /\ fleet \in [Plans -> Verdicts \cup {"ABSENT"}]
    BY DEF Shape, TypeOK, ThreadsTyped, RecordPlan, files, history
  <1>2. PICK done \in BOOLEAN :
            /\ fleet' \in IF ~ HasFleet(threads[t].at) THEN {fleet}
                          ELSE IF done THEN {[fleet EXCEPT ![threads[t].plan] = planned[threads[t].plan]]}
                          ELSE {fleet, [fleet EXCEPT ![threads[t].plan] = planned[threads[t].plan]]}
            /\ threads' = [threads EXCEPT ![t].durable = Report(threads[t].at, done),
                                          ![t].pc = "count"]
    BY DEF RecordPlan
  <1>3. Report(threads[t].at, done) \in Durabilities
    BY DEF Report, Durabilities
  <1>4. /\ Others(t) /\ threads'[t].pc = "count" /\ threads'[t].plan = threads[t].plan
        /\ threads'[t].durable = Report(threads[t].at, done)
    BY <1>1, <1>2, <1>3, RecordMoves
  <1>5. Report(threads[t].at, done) = "RECORDED" => fleet'[threads[t].plan] = planned[threads[t].plan]
    <2>1. threads[t].plan \in Plans
      BY <1>1 DEF Placed
    <2> QED
      BY <1>1, <1>2, <2>1 DEF Report
  <1>6. Entitled(threads[t])'
    BY <1>1, <1>4, <1>5 DEF Entitled
  <1> QED
    BY <1>1, <1>4, <1>6, NewIsEntitled

LEMMA EnqueueIsEntitled ==
    ASSUME Shape, Authority, Grows, NEW t \in Threads, Enqueue(t)
    PROVE  Authority'
  <1>1. /\ ThreadsTyped /\ threads[t].pc = "enqueue" /\ threads[t].pc # "idle" /\ Placed(threads[t])
        /\ UNCHANGED <<runs, ran, fleet, planned>>
        /\ \/ jobs' = jobs
           \/ jobs' = jobs \cup {threads[t].plan}
        /\ \/ Goto(t, "count") /\ UNCHANGED answers
           \/ \E code \in {403, 503} : Answer(t, code)
    <2>1. threads[t].pc = "enqueue"
      BY DEF Enqueue
    <2>2. ThreadsTyped /\ Placed(threads[t])
      BY <2>1 DEF Shape, TypeOK, ThreadsTyped
    <2>3. /\ UNCHANGED <<runs, ran, fleet, planned>>
          /\ \/ jobs' = jobs
             \/ jobs' = jobs \cup {threads[t].plan}
          /\ \/ Goto(t, "count") /\ UNCHANGED answers
             \/ \E code \in {403, 503} : Answer(t, code)
      BY DEF Enqueue, files
    <2> QED
      BY <2>1, <2>2, <2>3
  <1>2. planned[threads[t].plan] = "VERIFIED_PLAN"
    BY <1>1 DEF Authority, Entitled
  <1>3. \A p \in jobs' : planned'[p] = "VERIFIED_PLAN"
    BY <1>1, <1>2, OldStays
  <1>4. /\ Others(t) /\ Entitled(threads[t])'
        /\ \A a \in answers' \ answers :
              /\ planned'[a.plan] # "ABSENT"
              /\ a.durable = "RECORDED" => fleet'[a.plan] = planned'[a.plan]
    <2>1. CASE Goto(t, "count") /\ UNCHANGED answers
      <3>1. /\ Others(t) /\ threads'[t].pc = "count" /\ threads'[t].plan = threads[t].plan
            /\ threads'[t].durable = threads[t].durable
        BY <1>1, <2>1, GotoMoves DEF Points
      <3> QED
        BY <1>1, <2>1, <3>1 DEF Entitled, Authority
    <2>2. ASSUME NEW code \in {403, 503}, Answer(t, code)
          PROVE  /\ Others(t) /\ Entitled(threads[t])'
                 /\ \A a \in answers' \ answers :
                       /\ planned'[a.plan] # "ABSENT"
                       /\ a.durable = "RECORDED" => fleet'[a.plan] = planned'[a.plan]
      <3>1. code \in {200, 400, 403, 502, 503}
        OBVIOUS
      <3> QED
        BY <1>1, <2>2, <3>1, AnswerIsEntitled
    <2> QED
      BY <1>1, <2>1, <2>2
  <1>5. \A u \in Threads : Entitled(threads[u])'
    BY <1>4, OldStays DEF Others
  <1>6. ReportedAsRecorded' /\ \A a \in answers' : planned'[a.plan] # "ABSENT"
    BY <1>4, OldStays DEF ReportedAsRecorded
  <1>7. OnlyVerifiedPlansRun'
    BY <1>1, <1>3, OldStays DEF OnlyVerifiedPlansRun
  <1> QED
    BY <1>1, <1>5, <1>6, <1>7, OldStays DEF Authority

LEMMA CountIsEntitled ==
    ASSUME Shape, Authority, Grows, NEW t \in Threads, Count(t)
    PROVE  Authority'
  <1>1. /\ threads[t].pc # "idle" /\ Answer(t, 200)
        /\ UNCHANGED <<runs, ran, jobs, fleet, planned>>
    BY DEF Count, files
  <1> QED
    BY <1>1, AnswerIsEntitled, NewIsEntitled

\* The steps that end a request without an answer, or move it along.
LEMMA QuietIsEntitled ==
    ASSUME Shape, Authority, Grows, NEW t \in Threads,
           TakeLock(t) \/ FailRun(t) \/ AppendEvent(t) \/ FailEvent(t) \/ Release(t)
    PROVE  Authority'
  <1>1. /\ ThreadsTyped /\ threads[t].pc \in {"lock", "run", "events"}
        /\ UNCHANGED <<runs, ran, jobs, fleet, planned, answers>>
    BY DEF Shape, TypeOK, ThreadsTyped, TakeLock, FailRun, AppendEvent, FailEvent, Appending, Release, files,
           history
  <1>2. /\ Others(t)
        /\ \/ threads'[t] = Free
           \/ /\ threads'[t].pc \in {"run", "events", "record", "count"}
              /\ threads'[t].plan = threads[t].plan /\ threads'[t].durable = threads[t].durable
    <2>1. CASE TakeLock(t)
      BY <1>1, <2>1, GotoMoves DEF TakeLock, Points
    <2>2. CASE FailRun(t) \/ FailEvent(t)
      BY <1>1, <2>2, FreeMoves DEF FailRun, FailEvent, EventFails, Drop
    <2>3. CASE AppendEvent(t)
      BY <1>1, <2>3, WrittenMoves DEF AppendEvent, Appending
    <2>4. CASE Release(t)
      BY <1>1, <2>4, GotoMoves DEF Release, Points
    <2> QED
      BY <2>1, <2>2, <2>3, <2>4
  <1>3. Entitled(threads[t])'
    BY <1>1, <1>2, FreeIsEntitled DEF Entitled, Authority
  <1> QED
    BY <1>1, <1>2, <1>3, NewIsEntitled

LEMMA BeginIsEntitled ==
    ASSUME Shape, Authority, Grows, NEW t \in Threads, NEW c \in Coordinators, NEW p \in Plans,
           \/ \E v \in Verdicts : MakePlan(t, c, p, v)
           \/ \E op \in {"execute", "enqueue"} : AskFor(t, c, op, p)
    PROVE  Authority'
  <1>1. UNCHANGED <<runs, ran, jobs, fleet, answers>> /\ ThreadsTyped /\ ops \in Nat
    BY ControlAssumption DEF MakePlan, AskFor, files, history, Shape, TypeOK, ThreadsTyped
  <1>2. PICK op \in Ops, pc \in {"lock", "check"} : Begin(t, c, op, p, pc)
    BY DEF MakePlan, AskFor, Ops
  <1>3. Others(t) /\ threads'[t].pc = pc /\ threads'[t].durable = "NONE"
    BY <1>1, <1>2, BeginMoves DEF Points
  <1>4. Entitled(threads[t])'
    BY <1>3 DEF Entitled
  <1> QED
    BY <1>1, <1>3, <1>4, NewIsEntitled

LEMMA CrashIsEntitled ==
    ASSUME Shape, Authority, Grows, NEW c \in Coordinators, Crash(c)
    PROVE  Authority'
  <1>1. UNCHANGED <<runs, ran, jobs, fleet, planned, answers>>
    BY DEF Crash, history
  <1>2. \A t \in Threads : threads'[t] = Free \/ threads'[t] = threads[t]
    BY DEF Crash
  <1>3. \A t \in Threads : Entitled(threads[t])'
    BY <1>2, OldStays, FreeIsEntitled
  <1> QED
    BY <1>1, <1>3, OldStays DEF Authority, OnlyVerifiedPlansRun, ReportedAsRecorded

LEMMA StutterIsEntitled ==
    ASSUME Authority, UNCHANGED vars
    PROVE  Authority'
  BY DEF Authority, Entitled, OnlyVerifiedPlansRun, ReportedAsRecorded, vars, files, history

LEMMA AuthorityHolds == Spec => []Authority
  <1>1. Init => Authority
    BY FreeIsRequest DEF Init, Authority, Entitled, OnlyVerifiedPlansRun, ReportedAsRecorded
  <1>2. ASSUME Shape, Authority, [Next]_vars PROVE Authority'
    BY <1>2, StepGrows, BeginIsEntitled, QuietIsEntitled, CheckPlanIsEntitled, RemoteIsEntitled,
       AppendRunIsEntitled, RecordPlanIsEntitled, EnqueueIsEntitled, CountIsEntitled,
       CrashIsEntitled, StutterIsEntitled
       DEF Next, Proceed
  <1> QED
    BY <1>1, <1>2, ShapeHolds, PTL DEF Spec

\* execute_remote runs, and enqueue_fleet_job queues, only plans that were verified.
THEOREM OnlyVerified == Spec => []OnlyVerifiedPlansRun
  <1>1. Authority => OnlyVerifiedPlansRun
    BY DEF Authority
  <1> QED
    BY <1>1, AuthorityHolds, PTL

\* durable_record RECORDED is only answered for a plan that the fleet store holds.
THEOREM Reported == Spec => []ReportedAsRecorded
  <1>1. Authority => ReportedAsRecorded
    BY DEF Authority
  <1> QED
    BY <1>1, AuthorityHolds, PTL

----------------------------------------------------------------------------
(* Where the record of a plan is                                           *)

\* What is executed, and what is about to be, is on record locally as verified, or
\* its coordinator has a fleet store.
LocalInv ==
    /\ \A t \in Threads : threads[t].pc = "remote" =>
          HasFleet(threads[t].at) \/ LocallyRecorded(threads[t])
    /\ \A r \in ran : HasFleet(r.at) \/ LocallyRecorded(r)

\* No line of runs.jsonl is lost, and nobody is given or loses a fleet store.
LinesStay ==
    /\ configured' = configured
    /\ \A c \in Coordinators : \A i \in DOMAIN runs[c] :
          i \in DOMAIN runs'[c] /\ runs'[c][i] = runs[c][i]

LEMMA LinesAlwaysStay ==
    ASSUME Shape, [Next]_vars PROVE LinesStay
  <1>1. runs \in [Coordinators -> Seq(Runs)]
    BY DEF Shape, TypeOK
  <1>2. ASSUME NEW t \in Threads, AppendRun(t) PROVE LinesStay
    <2>1. PICK line : runs' = [runs EXCEPT ![threads[t].at] = Append(runs[threads[t].at], line)]
      BY <1>2 DEF AppendRun
    <2>2. threads[t].at \in Coordinators /\ configured' = configured
      BY <1>2 DEF AppendRun, Shape, Placed, history
    <2>3. \A c \in Coordinators : runs'[c] = runs[c] \/ runs'[c] = Append(runs[c], line)
      BY <1>1, <2>1, <2>2
    <2>4. ASSUME NEW c \in Coordinators, NEW i \in DOMAIN runs[c]
          PROVE  i \in DOMAIN runs'[c] /\ runs'[c][i] = runs[c][i]
      <3>1. runs[c] \in Seq(Runs)
        BY <1>1
      <3>2. /\ DOMAIN Append(runs[c], line) = 1 .. Len(runs[c]) + 1
            /\ DOMAIN runs[c] = 1 .. Len(runs[c]) /\ Len(runs[c]) \in Nat
            /\ Append(runs[c], line)[i] = runs[c][i]
        BY <3>1
      <3> QED
        BY <2>3, <3>2
    <2> QED
      BY <2>2, <2>4 DEF LinesStay
  <1>3. CASE configured' = configured /\ runs' = runs
    BY <1>3 DEF LinesStay
  <1>4. ASSUME NEW t \in Threads, NEW c \in Coordinators, NEW p \in Plans
        PROVE  /\ \A v \in Verdicts : MakePlan(t, c, p, v) => LinesStay
               /\ \A op \in {"execute", "enqueue"} : AskFor(t, c, op, p) => LinesStay
    BY <1>3 DEF MakePlan, AskFor, files, history
  <1>5. ASSUME NEW t \in Threads, TakeLock(t) \/ Proceed(t) PROVE LinesStay
    <2>1. CASE CheckPlan(t) \/ Remote(t) \/ Enqueue(t) \/ Count(t)
      BY <1>3, <2>1 DEF CheckPlan, Remote, Enqueue, Count, files
    <2>2. CASE TakeLock(t) \/ FailRun(t) \/ AppendEvent(t) \/ FailEvent(t) \/ Release(t)
               \/ RecordPlan(t)
      BY <1>3, <2>2 DEF TakeLock, FailRun, AppendEvent, FailEvent, Release, RecordPlan, files,
                        history
    <2> QED
      BY <1>2, <1>5, <2>1, <2>2 DEF Proceed
  <1>6. ASSUME NEW c \in Coordinators, Crash(c) PROVE LinesStay
    BY <1>3, <1>6 DEF Crash, history
  <1>7. CASE UNCHANGED vars
    BY <1>3, <1>7 DEF vars, files, history
  <1> QED
    BY <1>4, <1>5, <1>6, <1>7 DEF Next

\* Only the check lets a request go on to the executor, and only such a request runs.
LEMMA OnlyChecked ==
    ASSUME Shape, [Next]_vars
    PROVE  /\ \A t \in Threads : threads'[t].pc = "remote" =>
                 \/ threads'[t] = threads[t]
                 \/ /\ threads[t].pc = "check"
                    /\ threads'[t].at = threads[t].at /\ threads'[t].plan = threads[t].plan
                    /\ RecordedAsVerified(threads[t].at, threads[t].plan)
           /\ \A r \in ran' \ ran : \E t \in Threads :
                 threads[t].pc = "remote" /\ r.at = threads[t].at /\ r.plan = threads[t].plan
  <1> DEFINE Checked(t) ==
               \/ threads'[t] = threads[t]
               \/ /\ threads[t].pc = "check"
                  /\ threads'[t].at = threads[t].at /\ threads'[t].plan = threads[t].plan
                  /\ RecordedAsVerified(threads[t].at, threads[t].plan)
             Claim == /\ \A t \in Threads : threads'[t].pc = "remote" => Checked(t)
                      /\ \A r \in ran' \ ran : \E t \in Threads :
                            threads[t].pc = "remote" /\ r.at = threads[t].at
                            /\ r.plan = threads[t].plan
  <1>1. threads \in [Threads -> Requests] /\ ThreadsTyped
    BY DEF Shape, TypeOK, ThreadsTyped
  <1>2. ASSUME NEW t \in Threads, Others(t), threads'[t].pc # "remote" \/ Checked(t), ran' = ran
        PROVE  Claim
    BY <1>2 DEF Others
  <1>3. ASSUME NEW t \in Threads, NEW code, Answer(t, code), ran' = ran PROVE Claim
    BY <1>1, <1>2, <1>3, FreeMoves, FreeIsRequest DEF Answer
  <1>4. ASSUME NEW t \in Threads, NEW pc \in Points \ {"remote"}, Goto(t, pc), ran' = ran PROVE Claim
    BY <1>1, <1>2, <1>4, GotoMoves
  <1>5. ASSUME NEW t \in Threads, Drop(t), ran' = ran PROVE Claim
    BY <1>1, <1>2, <1>5, FreeMoves, FreeIsRequest DEF Drop
  <1>6. ASSUME NEW t \in Threads, CheckPlan(t) PROVE Claim
    <2>1. ran' = ran
      BY <1>6 DEF CheckPlan
    <2>2. CASE \E code : Answer(t, code)
      BY <1>3, <2>1, <2>2
    <2>3. CASE Goto(t, "enqueue")
      BY <1>4, <2>1, <2>3 DEF Points
    <2>4. CASE Goto(t, "remote") /\ RecordedAsVerified(threads[t].at, threads[t].plan)
      <3>1. Others(t) /\ threads'[t].at = threads[t].at /\ threads'[t].plan = threads[t].plan
        BY <1>1, <2>4, GotoMoves DEF Points
      <3> QED
        BY <1>2, <1>6, <2>1, <2>4, <3>1 DEF CheckPlan
    <2> QED
      BY <1>6, <2>2, <2>3, <2>4 DEF CheckPlan
  <1>7. ASSUME NEW t \in Threads, Remote(t) PROVE Claim
    <2>1. PICK w : /\ w = [plan |-> threads[t].plan, at |-> threads[t].at, n |-> threads[t].n]
                   /\ ran' \subseteq ran \cup {w} /\ threads[t].pc = "remote"
      BY <1>7 DEF Remote
    <2>2. Others(t) /\ threads'[t].pc # "remote"
      BY <1>1, <1>7, GotoMoves, FreeMoves, FreeIsRequest DEF Remote, Answer, Points
    <2> QED
      BY <2>1, <2>2 DEF Others
  <1>8. ASSUME NEW t \in Threads, NEW c \in Coordinators, NEW p \in Plans
        PROVE  /\ \A v \in Verdicts : MakePlan(t, c, p, v) => Claim
               /\ \A op \in {"execute", "enqueue"} : AskFor(t, c, op, p) => Claim
    <2>1. ASSUME NEW op \in Ops, NEW pc \in {"lock", "check"}, Begin(t, c, op, p, pc), ran' = ran
          PROVE  Claim
      <3>1. Others(t) /\ threads'[t].pc = pc
        <4>1. ops \in Nat /\ pc \in Points /\ ThreadsTyped
          BY <1>1, ControlAssumption DEF Shape, TypeOK, Points
        <4> QED
          BY <2>1, <4>1, BeginMoves
      <3> QED
        BY <1>2, <2>1, <3>1
    <2> QED
      BY <2>1 DEF MakePlan, AskFor, history, Ops
  <1>9. ASSUME NEW t \in Threads, TakeLock(t) \/ Proceed(t) PROVE Claim
    <2>1. CASE TakeLock(t) \/ AppendRun(t) \/ Release(t)
      BY <1>4, <2>1 DEF TakeLock, AppendRun, Release, history, Points
    <2>2. CASE FailRun(t) \/ FailEvent(t)
      BY <1>5, <2>2 DEF FailRun, FailEvent, EventFails, history
    <2>3. CASE AppendEvent(t)
      BY <1>1, <1>2, <2>3, WrittenMoves DEF AppendEvent, Appending, history
    <2>4. CASE RecordPlan(t)
      <3>1. PICK d \in Durabilities :
               threads' = [threads EXCEPT ![t].durable = d, ![t].pc = "count"]
        BY <2>4 DEF RecordPlan, Report, Durabilities
      <3>2. Others(t) /\ threads'[t].pc = "count"
        BY <1>1, <3>1, RecordMoves
      <3> QED
        BY <1>2, <2>4, <3>2 DEF RecordPlan, history
    <2>5. CASE Enqueue(t)
      BY <1>3, <1>4, <2>5 DEF Enqueue, Points
    <2>6. CASE Count(t)
      BY <1>3, <2>6 DEF Count
    <2> QED
      BY <1>6, <1>7, <1>9, <2>1, <2>2, <2>3, <2>4, <2>5, <2>6 DEF Proceed
  <1>10. ASSUME NEW c \in Coordinators, Crash(c) PROVE Claim
    <2>1. ran' = ran /\ \A t \in Threads : threads'[t] = Free \/ threads'[t] = threads[t]
      BY <1>10 DEF Crash, history
    <2> QED
      BY <2>1, FreeIsRequest
  <1>11. CASE UNCHANGED vars
    BY <1>11 DEF vars, history
  <1> QED
    BY <1>8, <1>9, <1>10, <1>11 DEF Next

\* What docs/EXECUTOR_R1.md:121 says is true of every coordinator without a fleet store,
\* also where others share one.
THEOREM RecordedHereWithoutStore ==
    Spec => [](\A r \in ran : HasFleet(r.at) \/ LocallyRecorded(r))
  <1>1. Init => LocalInv
    BY FreeIsRequest DEF Init, LocalInv
  <1>2. ASSUME Shape, LocalInv, [Next]_vars PROVE LocalInv'
    <2>1. LinesStay
      BY <1>2, LinesAlwaysStay
    <2>2. ASSUME NEW c \in Coordinators, NEW p,
                 HasFleet(c) \/ \E i \in DOMAIN runs[c] : runs[c][i].plan = p
                                                      /\ runs[c][i].status = "VERIFIED_PLAN"
          PROVE  c \in configured' \/ \E i \in DOMAIN runs'[c] :
                    runs'[c][i].plan = p /\ runs'[c][i].status = "VERIFIED_PLAN"
      BY <2>1, <2>2 DEF LinesStay, HasFleet
    <2>3. ASSUME NEW t \in Threads, threads'[t].pc = "remote"
          PROVE  (HasFleet(threads[t].at) \/ LocallyRecorded(threads[t]))'
      <3>1. PICK c, p : c = threads[t].at /\ p = threads[t].plan
        OBVIOUS
      <3>2. /\ c = threads'[t].at /\ p = threads'[t].plan
            /\ \/ threads'[t] = threads[t]
               \/ threads[t].pc = "check" /\ RecordedAsVerified(c, p)
        BY <1>2, <2>3, <3>1, OnlyChecked
      <3>3. c \in Coordinators
        BY <1>2, <2>3, <3>1, <3>2 DEF Shape, Placed
      <3>4. HasFleet(c) \/ \E i \in DOMAIN runs[c] : runs[c][i].plan = p
                                                 /\ runs[c][i].status = "VERIFIED_PLAN"
        BY <1>2, <2>3, <3>1, <3>2 DEF LocalInv, LocallyRecorded, RecordedAsVerified, Recent
      <3>5. c \in configured' \/ \E i \in DOMAIN runs'[c] :
               runs'[c][i].plan = p /\ runs'[c][i].status = "VERIFIED_PLAN"
        BY <2>2, <3>3, <3>4
      <3> QED
        BY <3>2, <3>5 DEF HasFleet, LocallyRecorded
    <2>4. ASSUME NEW r \in ran' PROVE (HasFleet(r.at) \/ LocallyRecorded(r))'
      <3>1. PICK c, p : c = r.at /\ p = r.plan
        OBVIOUS
      <3>2. c \in Coordinators /\ (HasFleet(c) \/ \E i \in DOMAIN runs[c] :
                                      runs[c][i].plan = p /\ runs[c][i].status = "VERIFIED_PLAN")
        <4>1. CASE r \in ran
          BY <1>2, <3>1, <4>1 DEF LocalInv, LocallyRecorded, Shape, TypeOK
        <4>2. CASE r \notin ran
          BY <1>2, <2>4, <3>1, <4>2, OnlyChecked DEF LocalInv, LocallyRecorded, Shape, Placed
        <4> QED
          BY <4>1, <4>2
      <3>3. c \in configured' \/ \E i \in DOMAIN runs'[c] :
               runs'[c][i].plan = p /\ runs'[c][i].status = "VERIFIED_PLAN"
        BY <2>2, <3>2
      <3> QED
        BY <3>1, <3>3 DEF HasFleet, LocallyRecorded
    <2> QED
      BY <2>3, <2>4 DEF LocalInv
  <1>3. LocalInv => \A r \in ran : HasFleet(r.at) \/ LocallyRecorded(r)
    BY DEF LocalInv
  <1> QED
    BY <1>1, <1>2, <1>3, ShapeHolds, PTL DEF Spec

----------------------------------------------------------------------------
(* The lock and the order of the evidence: the third layer                 *)

Inside(t) == threads[t].pc \in {"run", "events"}

Listed(c, n) == \E i \in DOMAIN runs[c] : runs[c][i].n = n

Absent(c, n) == EventsIn(ledger[c], n) = {} /\ EventsIn(saved[c], n) = {}

AllOf(events, n, op) == Cardinality(EventsIn(events, n)) = Len(EventsOf(op))

\* An answered request: a line, and all its events in the memory of a process that runs
\* and in a file that can be loaded.
OnRecord(c, n, op) ==
    /\ Listed(c, n)
    /\ c \in up => AllOf(ledger[c], n, op)
    /\ ~ torn[c] => AllOf(saved[c], n, op)

\* A request that is appending: its events are the last ones.
AtTheEnd(r) ==
    LET last == Len(ledger[r.at])
    IN  /\ Listed(r.at, r.n)
        /\ r.written <= Len(EventsOf(r.op)) /\ r.written <= last
        /\ EventsIn(ledger[r.at], r.n) = last - r.written + 1 .. last
        /\ r.written = 0 => EventsIn(saved[r.at], r.n) = {}
        /\ r.written # 0 => /\ saved[r.at] = ledger[r.at]
                            /\ ledger[r.at][last].kind = EventsOf(r.op)[r.written]

Progress(r) ==
    r.pc # "idle" =>
        /\ r.n \in 1 .. ops /\ r.at \in up
        /\ r.pc \in {"check", "remote", "lock", "run", "enqueue"} =>
              r.written = 0 /\ \A c \in Coordinators : Absent(c, r.n)
        /\ r.pc = "events" => AtTheEnd(r)
        /\ r.pc \in {"record", "count"} /\ r.op # "enqueue" => OnRecord(r.at, r.n, r.op)

Answered(a) ==
    /\ a.n \in 1 .. ops
    /\ a.code = 200 /\ a.op # "enqueue" => OnRecord(a.at, a.n, a.op)

Numbered(events) == \A i \in DOMAIN events : events[i].n \in 1 .. ops

\* The i-th event and the next one are of one request and follow each other in it.
Joined(events, i) ==
    /\ events[i + 1].n = events[i].n
    /\ \E op \in {"plan", "execute"} : \E k \in DOMAIN EventsOf(op) :
          /\ events[i].kind = EventsOf(op)[k]
          /\ k < Len(EventsOf(op)) /\ events[i + 1].kind = EventsOf(op)[k + 1]

Together(events) ==
    \A i, j \in DOMAIN events : i < j /\ events[i].n = events[j].n => Joined(events, i)

Order ==
    /\ \A t \in Threads : Inside(t) => lock[threads[t].at] = t
    /\ \A t \in Threads : Progress(threads[t])
    /\ \A t, u \in Threads :
          threads[t].pc # "idle" /\ threads[u].pc # "idle" /\ t # u => threads[t].n # threads[u].n
    /\ \A a \in answers : Answered(a)
    /\ \A a \in answers, t \in Threads : threads[t].pc # "idle" => threads[t].n # a.n
    /\ \A c \in Coordinators : /\ Numbered(ledger[c]) /\ Together(ledger[c])
                               /\ Numbered(saved[c]) /\ Together(saved[c])

\* A list has the events of a request from memory or from a file that can be loaded.
Kept(c, events, n) ==
    \/ c \in up /\ EventsIn(events, n) = EventsIn(ledger[c], n)
    \/ ~ torn[c] /\ EventsIn(events, n) = EventsIn(saved[c], n)

\* A step leaves the request with number n where it was in the files, as far as they can
\* be loaded.
Calm(n) ==
    \A c \in Coordinators :
        /\ Absent(c, n) => EventsIn(ledger'[c], n) = {} /\ EventsIn(saved'[c], n) = {}
        /\ c \in up' => Kept(c, ledger'[c], n)
        /\ ~ torn'[c] => Kept(c, saved'[c], n)
        /\ Listed(c, n) => Listed(c, n)'

LEMMA RecordStays ==
    ASSUME NEW c \in Coordinators, NEW n, NEW op, OnRecord(c, n, op), Calm(n)
    PROVE  OnRecord(c, n, op)'
  <1>1. /\ c \in up' => Kept(c, ledger'[c], n)
        /\ ~ torn'[c] => Kept(c, saved'[c], n)
        /\ Listed(c, n)'
    BY DEF Calm, OnRecord
  <1>2. ASSUME NEW events, Kept(c, events, n) PROVE AllOf(events, n, op)
    BY <1>2 DEF Kept, OnRecord, AllOf
  <1>3. /\ c \in up' => AllOf(ledger'[c], n, op)
        /\ ~ torn'[c] => AllOf(saved'[c], n, op)
    BY <1>1, <1>2
  <1> QED
    BY <1>1, <1>3 DEF OnRecord, AllOf

LEMMA ProgressStays ==
    ASSUME ops \in Nat, ops' \in {ops, ops + 1}, NEW r, Placed(r), Progress(r), Calm(r.n),
           r.pc = "events" => ledger'[r.at] = ledger[r.at] /\ saved'[r.at] = saved[r.at],
           r.at \in up => r.at \in up'
    PROVE  Progress(r)'
  <1> SUFFICES ASSUME r.pc # "idle" PROVE Progress(r)'
    BY DEF Progress
  <1>1. r.n \in 1 .. ops' /\ r.at \in up'
    BY DEF Progress
  <1>2. r.at \in Coordinators
    BY DEF Placed
  <1>3. CASE r.pc \in {"check", "remote", "lock", "run", "enqueue"}
    <2>1. r.written = 0 /\ \A c \in Coordinators : Absent(c, r.n)
      BY <1>3 DEF Progress
    <2>2. \A c \in Coordinators : EventsIn(ledger'[c], r.n) = {} /\ EventsIn(saved'[c], r.n) = {}
      BY <2>1 DEF Calm
    <2> QED
      BY <1>1, <1>3, <2>1, <2>2 DEF Progress, Absent
  <1>4. CASE r.pc = "events"
    <2>1. AtTheEnd(r)
      BY <1>4 DEF Progress
    <2>2. Listed(r.at, r.n) => Listed(r.at, r.n)'
      BY <1>2 DEF Calm
    <2>3. AtTheEnd(r)'
      BY <1>4, <2>1, <2>2 DEF AtTheEnd
    <2> QED
      BY <1>1, <1>4, <2>3 DEF Progress
  <1>5. CASE r.pc \in {"record", "count"}
    <2>1. ASSUME r.op # "enqueue" PROVE OnRecord(r.at, r.n, r.op)'
      BY <1>2, <1>5, <2>1, RecordStays DEF Progress
    <2> QED
      BY <1>1, <1>5, <2>1 DEF Progress
  <1>6. CASE r.pc \notin {"check", "remote", "lock", "run", "enqueue", "events", "record", "count"}
    BY <1>1, <1>6 DEF Progress
  <1> QED
    BY <1>3, <1>4, <1>5, <1>6

LEMMA AnsweredStays ==
    ASSUME ops \in Nat, ops' \in {ops, ops + 1}, NEW a \in Answers, Answered(a), Calm(a.n)
    PROVE  Answered(a)'
  <1>1. ASSUME a.code = 200, a.op # "enqueue" PROVE OnRecord(a.at, a.n, a.op)'
    BY <1>1, RecordStays DEF Answered, Answers
  <1> QED
    BY <1>1 DEF Answered

LEMMA LogsStay ==
    ASSUME UNCHANGED <<runs, ledger, saved, torn, up>>, NEW n
    PROVE  Calm(n)
  <1>1. /\ ledger' = ledger /\ saved' = saved /\ torn' = torn /\ up' = up
        /\ \A c : Listed(c, n) => Listed(c, n)'
    BY DEF Listed
  <1>2. \A c \in Coordinators : /\ c \in up => Kept(c, ledger[c], n)
                                /\ ~ torn[c] => Kept(c, saved[c], n)
    BY DEF Kept
  <1> QED
    BY <1>1, <1>2 DEF Calm, Absent

\* What is to be shown of a step of one thread.
LEMMA OneMoves ==
    ASSUME Shape, Order, NEW t \in Threads, Others(t), ops' \in {ops, ops + 1}, up' = up,
           \A n \in Nat : Calm(n) \/ (threads[t].pc # "idle" /\ n = threads[t].n),
           \A u \in Threads \ {t} : Inside(u) => /\ lock'[threads[u].at] = u
                                                 /\ ledger'[threads[u].at] = ledger[threads[u].at]
                                                 /\ saved'[threads[u].at] = saved[threads[u].at],
           Progress(threads[t])',
           Inside(t)' => lock'[threads'[t].at] = t,
           threads'[t].pc # "idle" =>
              \/ threads[t].pc # "idle" /\ threads'[t].n = threads[t].n
              \/ threads'[t].n = ops + 1 /\ ops' = ops + 1,
           \A a \in answers' \ answers :
              Answered(a)' /\ threads[t].pc # "idle" /\ a.n = threads[t].n /\ threads'[t].pc = "idle",
           \A c \in Coordinators : /\ Numbered(ledger[c])' /\ Together(ledger[c])'
                                   /\ Numbered(saved[c])' /\ Together(saved[c])'
    PROVE  Order'
  <1>0. ops \in Nat /\ answers \subseteq Answers /\ \A u \in Threads : threads[u] \in Requests
    BY DEF Shape, TypeOK
  <1>1. ASSUME NEW u \in Threads PROVE Progress(threads[u])'
    <2>1. CASE u = t
      BY <2>1
    <2>2. CASE u # t /\ threads[u].pc # "idle"
      <3>1. PICK r \in Requests : r = threads[u]
        BY <1>0
      <3>2. threads'[u] = r /\ Placed(r) /\ Progress(r) /\ r.n \in Nat
        BY <2>2, <3>1, FieldsOfRequest DEF Others, Shape, Order
      <3>3. Calm(r.n)
        BY <2>2, <3>1, <3>2 DEF Order
      <3>4. r.pc = "events" => ledger'[r.at] = ledger[r.at] /\ saved'[r.at] = saved[r.at]
        BY <2>2, <3>1 DEF Inside
      <3>5. Progress(r)'
        BY <1>0, <3>2, <3>3, <3>4, ProgressStays
      <3> QED
        BY <3>2, <3>5 DEF Progress
    <2>3. CASE u # t /\ threads[u].pc = "idle"
      BY <2>3 DEF Others, Progress
    <2> QED
      BY <2>1, <2>2, <2>3
  <1>2. ASSUME NEW u \in Threads, Inside(u)' PROVE lock'[threads'[u].at] = u
    BY <1>2 DEF Inside, Others
  <1>3. \A u \in Threads \ {t} :
           threads[u].pc # "idle" => threads[u].n \in 1 .. ops /\ threads'[u] = threads[u]
    BY DEF Order, Progress, Others
  <1>4. ASSUME NEW u \in Threads, NEW w \in Threads, threads'[u].pc # "idle", threads'[w].pc # "idle",
               u # w
        PROVE  threads'[u].n # threads'[w].n
    <2>1. CASE u # t /\ w # t
      BY <1>4, <2>1 DEF Others, Order
    <2>2. CASE u = t
      BY <1>0, <1>3, <1>4, <2>2 DEF Others, Order
    <2>3. CASE w = t
      BY <1>0, <1>3, <1>4, <2>3 DEF Others, Order
    <2> QED
      BY <2>1, <2>2, <2>3
  <1>5. ASSUME NEW a \in answers' PROVE Answered(a)'
    <2>1. CASE a \in answers
      <3>1. a \in Answers /\ Answered(a) /\ a.n \in Nat
        BY <1>0, <2>1 DEF Order, Answers
      <3>2. Calm(a.n)
        BY <2>1, <3>1 DEF Order
      <3> QED
        BY <1>0, <3>1, <3>2, AnsweredStays
    <2>2. CASE a \notin answers
      BY <2>2
    <2> QED
      BY <2>1, <2>2
  <1>6. ASSUME NEW a \in answers', NEW u \in Threads, threads'[u].pc # "idle"
        PROVE  threads'[u].n # a.n
    <2>1. CASE a \in answers /\ u # t
      BY <1>6, <2>1 DEF Others, Order
    <2>2. CASE a \in answers /\ u = t
      <3>1. a.n \in 1 .. ops
        BY <2>2 DEF Order, Answered
      <3> QED
        BY <1>0, <1>6, <2>2, <3>1 DEF Order
    <2>3. CASE a \notin answers
      <3>1. u # t
        BY <1>6, <2>3
      <3> QED
        BY <1>6, <2>3, <3>1 DEF Others, Order
    <2> QED
      BY <2>1, <2>2, <2>3
  <1> QED
    BY <1>1, <1>2, <1>4, <1>5, <1>6 DEF Order

\* The steps that leave lines and events alone.
LEMMA QuietMoves ==
    ASSUME Shape, Order, NEW t \in Threads, Others(t), ops' \in {ops, ops + 1},
           UNCHANGED <<runs, ledger, saved, torn, up>>,
           \A u \in Threads \ {t} : Inside(u) => lock'[threads[u].at] = u,
           Progress(threads[t])',
           Inside(t)' => lock'[threads'[t].at] = t,
           threads'[t].pc # "idle" =>
              \/ threads[t].pc # "idle" /\ threads'[t].n = threads[t].n
              \/ threads'[t].n = ops + 1 /\ ops' = ops + 1,
           \A a \in answers' \ answers :
              Answered(a)' /\ threads[t].pc # "idle" /\ a.n = threads[t].n /\ threads'[t].pc = "idle"
    PROVE  Order'
  <1>1. \A n \in Nat : Calm(n)
    BY LogsStay
  <1>2. ASSUME NEW c \in Coordinators
        PROVE  /\ Numbered(ledger[c])' /\ Together(ledger[c])'
               /\ Numbered(saved[c])' /\ Together(saved[c])'
    <2>1. /\ Numbered(ledger[c]) /\ Together(ledger[c])
          /\ Numbered(saved[c]) /\ Together(saved[c])
      BY DEF Order
    <2>2. ops \in Nat
      BY DEF Shape, TypeOK
    <2> QED
      BY <2>1, <2>2 DEF Numbered, Together
  <1> QED
    BY <1>1, <1>2, OneMoves

LEMMA LockIsKept ==
    ASSUME Shape, Order, NEW t \in Threads, threads[t].at \in Coordinators,
           \/ lock' = lock
           \/ Inside(t) /\ lock' = [lock EXCEPT ![threads[t].at] = None]
           \/ lock[threads[t].at] = None /\ lock' = [lock EXCEPT ![threads[t].at] = t]
    PROVE  \A u \in Threads \ {t} : Inside(u) => lock'[threads[u].at] = u
  <1> SUFFICES ASSUME NEW u \in Threads \ {t}, Inside(u) PROVE lock'[threads[u].at] = u
    OBVIOUS
  <1>1. lock[threads[u].at] = u /\ u # None /\ lock \in [Coordinators -> Threads \cup {None}]
        /\ threads[u].at \in Coordinators
    BY ControlAssumption DEF Order, Shape, TypeOK, Inside, Placed
  <1>2. CASE lock' = lock
    BY <1>1, <1>2
  <1>3. CASE Inside(t) /\ lock' = [lock EXCEPT ![threads[t].at] = None]
    <2>1. lock[threads[t].at] = t
      BY <1>3 DEF Order
    <2> QED
      BY <1>1, <1>3, <2>1
  <1>4. CASE lock[threads[t].at] = None /\ lock' = [lock EXCEPT ![threads[t].at] = t]
    BY <1>1, <1>4
  <1> QED
    BY <1>2, <1>3, <1>4

\* No event has a number that was not given out.
LEMMA NewIsAbsent ==
    ASSUME Shape, Order, NEW c \in Coordinators
    PROVE  Absent(c, ops + 1)
  <1>1. ops \in Nat /\ Numbered(ledger[c]) /\ Numbered(saved[c])
    BY DEF Shape, TypeOK, Order
  <1>2. ASSUME NEW events, Numbered(events) PROVE EventsIn(events, ops + 1) = {}
    BY <1>1, <1>2 DEF Numbered, EventsIn
  <1> QED
    BY <1>1, <1>2 DEF Absent

LEMMA BeginOrders ==
    ASSUME Shape, Order, NEW t \in Threads, NEW c \in Coordinators, NEW p \in Plans,
           \/ \E v \in Verdicts : MakePlan(t, c, p, v)
           \/ \E op \in {"execute", "enqueue"} : AskFor(t, c, op, p)
    PROVE  Order'
  <1>1. UNCHANGED <<runs, ledger, saved, torn, up, lock, answers>> /\ ThreadsTyped /\ ops \in Nat
    BY ControlAssumption DEF MakePlan, AskFor, files, history, Shape, TypeOK, ThreadsTyped
  <1>2. PICK op \in Ops, pc \in {"lock", "check"} : Begin(t, c, op, p, pc)
    BY DEF MakePlan, AskFor, Ops
  <1>3. /\ Others(t) /\ threads'[t].pc = pc /\ threads'[t].n = ops + 1 /\ threads'[t].written = 0
        /\ threads'[t].at = c /\ c \in up /\ ops' = ops + 1
    <2>1. pc \in Points
      BY DEF Points
    <2>2. ops' = ops + 1 /\ c \in up
      BY <1>2 DEF Begin
    <2> QED
      BY <1>1, <1>2, <2>1, <2>2, BeginMoves
  <1>5. Progress(threads[t])'
    <2>1. \A d \in Coordinators : Absent(d, threads[t].n)'
      <3> SUFFICES ASSUME NEW d \in Coordinators PROVE Absent(d, threads[t].n)'
        OBVIOUS
      <3>1. Absent(d, ops + 1)
        BY NewIsAbsent
      <3> QED
        BY <1>1, <1>3, <3>1 DEF Absent
    <2> QED
      BY <1>1, <1>3, <2>1 DEF Progress
  <1>6. ~ Inside(t)'
    BY <1>3 DEF Inside
  <1>7. \A u \in Threads \ {t} : Inside(u) => lock'[threads[u].at] = u
    BY <1>1 DEF Order
  <1> QED
    BY <1>1, <1>3, <1>5, <1>6, <1>7, QuietMoves

\* The thread ends, with or without an answer.
LEMMA EndOrders ==
    ASSUME Shape, Order, NEW t \in Threads, threads[t].pc # "idle", Others(t), threads'[t] = Free,
           UNCHANGED <<runs, ledger, saved, torn, up, ops>>,
           lock' = lock \/ (Inside(t) /\ lock' = [lock EXCEPT ![threads[t].at] = None]),
           \A a \in answers' \ answers :
              /\ a.n = threads[t].n /\ a.op = threads[t].op /\ a.at = threads[t].at
              /\ a.code = 200 => threads[t].pc = "count"
    PROVE  Order'
  <1>1. threads[t].at \in Coordinators /\ ops \in Nat
    BY DEF Shape, Placed, TypeOK
  <1>2. \A u \in Threads \ {t} : Inside(u) => lock'[threads[u].at] = u
    BY <1>1, LockIsKept
  <1>3. Progress(threads[t])' /\ threads'[t].pc = "idle" /\ ~ Inside(t)'
    BY FreeIsRequest DEF Progress, Inside
  <1>4. ASSUME NEW a \in answers' \ answers PROVE Answered(a)' /\ a.n = threads[t].n
    <2>1. /\ threads[t].n \in 1 .. ops
          /\ threads[t].pc = "count" /\ threads[t].op # "enqueue" =>
                OnRecord(threads[t].at, threads[t].n, threads[t].op)
      BY DEF Order, Progress
    <2> QED
      BY <2>1 DEF Answered, OnRecord, Listed
  <1> QED
    BY <1>1, <1>2, <1>3, <1>4, QuietMoves

LEMMA AnswerOrders ==
    ASSUME Shape, Order, NEW t \in Threads, threads[t].pc # "idle",
           NEW code \in {200, 400, 403, 502, 503}, Answer(t, code), code = 200 => threads[t].pc = "count",
           UNCHANGED <<runs, ledger, saved, torn, up, ops, lock>>
    PROVE  Order'
  <1>1. Others(t) /\ threads'[t] = Free
    BY AnswerMoves
  <1>2. \A a \in answers' \ answers :
           /\ a.n = threads[t].n /\ a.op = threads[t].op /\ a.at = threads[t].at
           /\ a.code = 200 => threads[t].pc = "count"
    BY DEF Answer
  <1> QED
    BY <1>1, <1>2, EndOrders

\* The thread goes on, and its number and what it has written stay.
LEMMA GotoOrders ==
    ASSUME Shape, Order, NEW t \in Threads, NEW pc \in Points \ {"idle"}, Goto(t, pc),
           UNCHANGED <<runs, ledger, saved, torn, up, ops, answers>>,
           \/ /\ threads[t].pc \in {"check", "remote"} /\ pc \in {"remote", "enqueue", "lock"}
              /\ lock' = lock
           \/ threads[t].pc = "enqueue" /\ pc = "count" /\ lock' = lock
           \/ /\ threads[t].pc = "lock" /\ pc = "run" /\ lock[threads[t].at] = None
              /\ lock' = [lock EXCEPT ![threads[t].at] = t]
    PROVE  Order'
  <1>1. /\ ThreadsTyped /\ threads[t].at \in Coordinators /\ threads[t].pc # "idle"
        /\ lock \in [Coordinators -> Threads \cup {None}] /\ ops \in Nat
        /\ threads[t].pc = "enqueue" => threads[t].op = "enqueue"
    BY DEF Shape, TypeOK, ThreadsTyped, Placed
  <1>2. /\ Others(t) /\ threads'[t].pc = pc /\ threads'[t].op = threads[t].op
        /\ threads'[t].at = threads[t].at /\ threads'[t].n = threads[t].n
        /\ threads'[t].written = threads[t].written
    BY <1>1, GotoMoves
  <1>3. \A u \in Threads \ {t} : Inside(u) => lock'[threads[u].at] = u
    BY <1>1, LockIsKept
  <1>4. /\ threads[t].n \in 1 .. ops /\ threads[t].written = 0 /\ threads[t].at \in up
        /\ \A c \in Coordinators : Absent(c, threads[t].n)
    BY <1>1 DEF Order, Progress
  <1>5. \A c \in Coordinators : Absent(c, threads[t].n)'
    BY <1>2, <1>4 DEF Absent
  <1>6. Progress(threads[t])'
    BY <1>1, <1>2, <1>4, <1>5 DEF Progress
  <1>7. Inside(t)' => lock'[threads'[t].at] = t
    BY <1>1, <1>2 DEF Inside
  <1> QED
    BY <1>1, <1>2, <1>3, <1>6, <1>7, QuietMoves

\* All events of a request are there when the lock is given back.
LEMMA ReleaseOrders ==
    ASSUME Shape, Order, NEW t \in Threads, Release(t)
    PROVE  Order'
  <1> DEFINE c == threads[t].at
             n == threads[t].n
             k == Len(EventsOf(threads[t].op))
  <1>1. /\ ThreadsTyped /\ threads[t].at \in Coordinators /\ threads[t].pc = "events"
        /\ threads[t].op \in {"plan", "execute"} /\ threads[t].written = k
        /\ lock' = [lock EXCEPT ![threads[t].at] = None] /\ ops \in Nat
        /\ UNCHANGED <<runs, ledger, saved, torn, up, ops, answers>>
    BY DEF Shape, TypeOK, ThreadsTyped, Placed, Release, Released, files, history
  <1>2. PICK pc \in {"record", "count"} : Goto(t, pc)
    BY DEF Release
  <1>3. /\ Others(t) /\ threads'[t].pc = pc /\ threads'[t].op = threads[t].op
        /\ threads'[t].at = threads[t].at /\ threads'[t].n = threads[t].n
    BY <1>1, <1>2, GotoMoves DEF Points
  <1>4. threads[t].n \in 1 .. ops /\ threads[t].at \in up /\ AtTheEnd(threads[t])
    BY <1>1 DEF Order, Progress
  <1>5. k \in Nat /\ k # 0
    <2>1. CASE threads[t].op = "plan"
      BY <2>1, EventsAre
    <2>2. CASE threads[t].op = "execute"
      BY <2>2, EventsAre
    <2> QED
      BY <1>1, <2>1, <2>2
  <1>6. Len(ledger[c]) \in Nat /\ k <= Len(ledger[c])
    BY <1>1, <1>4 DEF Shape, TypeOK, AtTheEnd
  <1>7. /\ EventsIn(ledger[c], n) = Len(ledger[c]) - k + 1 .. Len(ledger[c])
        /\ saved[c] = ledger[c] /\ Listed(c, n)
    BY <1>1, <1>4, <1>5 DEF AtTheEnd
  <1>8. Cardinality(Len(ledger[c]) - k + 1 .. Len(ledger[c])) = k
    <2> HIDE DEF k
    <2>1. PICK last \in Nat : last = Len(ledger[c])
      BY <1>6
    <2>2. last - k + 1 \in Int /\ last \in Int /\ last - k + 1 <= last
          /\ last - (last - k + 1) + 1 = k
      BY <1>5, <1>6, <2>1
    <2>3. Cardinality(last - k + 1 .. last) = last - (last - k + 1) + 1
      BY <2>2, FS_Interval
    <2> QED
      BY <2>1, <2>2, <2>3
  <1>9. OnRecord(c, n, threads[t].op)
    BY <1>7, <1>8 DEF OnRecord, AllOf
  <1>10. Progress(threads[t])'
    BY <1>1, <1>3, <1>4, <1>9 DEF Progress, OnRecord, Listed, AllOf
  <1>11. \A u \in Threads \ {t} : Inside(u) => lock'[threads[u].at] = u
    BY <1>1, LockIsKept DEF Inside
  <1>12. ~ Inside(t)'
    BY <1>3 DEF Inside
  <1> QED
    BY <1>1, <1>3, <1>10, <1>11, <1>12, QuietMoves

LEMMA RecordPlanOrders ==
    ASSUME Shape, Order, NEW t \in Threads, RecordPlan(t)
    PROVE  Order'
  <1>1. /\ ThreadsTyped /\ threads[t].at \in Coordinators /\ threads[t].pc = "record"
        /\ threads[t].op = "plan" /\ ops \in Nat
        /\ UNCHANGED <<runs, ledger, saved, torn, up, ops, answers, lock>>
    BY DEF Shape, TypeOK, ThreadsTyped, Placed, RecordPlan, files, history
  <1>2. PICK d \in Durabilities : threads' = [threads EXCEPT ![t].durable = d, ![t].pc = "count"]
    BY DEF RecordPlan, Report, Durabilities
  <1>3. /\ Others(t) /\ threads'[t].pc = "count" /\ threads'[t].op = threads[t].op
        /\ threads'[t].at = threads[t].at /\ threads'[t].n = threads[t].n
    BY <1>1, <1>2, RecordMoves
  <1>4. threads[t].n \in 1 .. ops /\ threads[t].at \in up /\ OnRecord(threads[t].at, threads[t].n, "plan")
    BY <1>1 DEF Order, Progress
  <1>5. Progress(threads[t])'
    BY <1>1, <1>3, <1>4 DEF Progress, OnRecord, Listed, AllOf
  <1>6. \A u \in Threads \ {t} : Inside(u) => lock'[threads[u].at] = u
    BY <1>1 DEF Order
  <1>7. ~ Inside(t)'
    BY <1>3 DEF Inside
  <1> QED
    BY <1>1, <1>3, <1>5, <1>6, <1>7, QuietMoves

LEMMA AppendRunOrders ==
    ASSUME Shape, Shape', Order, NEW t \in Threads, AppendRun(t)
    PROVE  Order'
  <1> DEFINE line == [plan |-> threads[t].plan, n |-> threads[t].n, status |-> StatusOf(threads[t])]
             c == threads[t].at
  <1>1. /\ ThreadsTyped /\ c \in Coordinators /\ threads[t].pc = "run"
        /\ threads[t].op \in {"plan", "execute"} /\ ops \in Nat /\ Goto(t, "events")
        /\ UNCHANGED <<ledger, saved, torn, up, ops, answers, lock>>
        /\ runs' = [runs EXCEPT ![c] = Append(@, line)] /\ line.n = threads[t].n
        /\ runs \in [Coordinators -> Seq(Runs)] /\ runs' \in [Coordinators -> Seq(Runs)]
    BY DEF Shape, TypeOK, ThreadsTyped, Placed, AppendRun, history
  <1> HIDE DEF line
  <1>2. /\ Others(t) /\ threads'[t].pc = "events" /\ threads'[t].op = threads[t].op
        /\ threads'[t].at = threads[t].at /\ threads'[t].n = threads[t].n
        /\ threads'[t].written = threads[t].written
    BY <1>1, GotoMoves DEF Points
  <1>3. /\ threads[t].n \in 1 .. ops /\ threads[t].written = 0 /\ Absent(c, threads[t].n)
        /\ c \in up
    BY <1>1 DEF Order, Progress
  <1>4. runs'[c] = Append(runs[c], line) /\ \A d \in Coordinators \ {c} : runs'[d] = runs[d]
    BY <1>1
  <1>5. \A d \in Coordinators : \A i \in DOMAIN runs[d] : i \in DOMAIN runs'[d] /\ runs'[d][i] = runs[d][i]
    BY <1>1, <1>4
  <1>6. ASSUME NEW n PROVE Calm(n)
    BY <1>1, <1>5 DEF Calm, Listed, Kept, Absent
  <1>7. Listed(c, threads[t].n)'
    <2>1. Len(runs[c]) + 1 \in DOMAIN runs'[c] /\ runs'[c][Len(runs[c]) + 1] = line
      BY <1>1, <1>4
    <2> QED
      BY <1>1, <1>2, <2>1 DEF Listed
  <1>8. Len(ledger[c]) \in Nat /\ Len(EventsOf(threads[t].op)) \in Nat
    BY <1>1, EventsAre DEF Shape, TypeOK, Ops
  <1>9. AtTheEnd(threads[t])'
    BY <1>1, <1>2, <1>3, <1>7, <1>8 DEF AtTheEnd, Absent
  <1>10. Progress(threads[t])'
    BY <1>1, <1>2, <1>3, <1>9 DEF Progress
  <1>11. Inside(t)' => lock'[threads'[t].at] = t
    BY <1>1, <1>2 DEF Order, Inside
  <1>12. \A u \in Threads \ {t} : Inside(u) => lock'[threads[u].at] = u
    BY <1>1 DEF Order
  <1>13. \A d \in Coordinators : /\ Numbered(ledger[d])' /\ Together(ledger[d])'
                                 /\ Numbered(saved[d])' /\ Together(saved[d])'
    <2> SUFFICES ASSUME NEW d \in Coordinators
                 PROVE  /\ Numbered(ledger[d])' /\ Together(ledger[d])'
                        /\ Numbered(saved[d])' /\ Together(saved[d])'
      OBVIOUS
    <2>1. /\ Numbered(ledger[d]) /\ Together(ledger[d])
          /\ Numbered(saved[d]) /\ Together(saved[d])
      BY DEF Order
    <2>2. ledger' = ledger /\ saved' = saved /\ ops' = ops
      BY <1>1
    <2> QED
      BY <2>1, <2>2 DEF Numbered, Together
  <1> QED
    BY <1>1, <1>2, <1>6, <1>10, <1>11, <1>12, <1>13, OneMoves

\* One event more at the end of a list.
LEMMA OneMore ==
    ASSUME NEW L \in Seq(Evidence), NEW e \in Evidence, NEW M, M = Append(L, e)
    PROVE  /\ Len(L) \in Nat /\ DOMAIN L = 1 .. Len(L)
           /\ M \in Seq(Evidence) /\ Len(M) = Len(L) + 1 /\ DOMAIN M = 1 .. Len(L) + 1
           /\ M[Len(L) + 1] = e
           /\ \A i \in 1 .. Len(L) : M[i] = L[i]
           /\ \A n : n # e.n => EventsIn(M, n) = EventsIn(L, n)
           /\ EventsIn(M, e.n) = EventsIn(L, e.n) \cup {Len(L) + 1}
           /\ e.n \in 1 .. ops /\ Numbered(L) => Numbered(M)
  <1>1. /\ Len(L) \in Nat /\ DOMAIN L = 1 .. Len(L)
        /\ M \in Seq(Evidence) /\ Len(M) = Len(L) + 1 /\ DOMAIN M = 1 .. Len(L) + 1
        /\ M[Len(L) + 1] = e
        /\ \A i \in 1 .. Len(L) : M[i] = L[i]
    OBVIOUS
  <1>2. ASSUME NEW n, n # e.n PROVE EventsIn(M, n) = EventsIn(L, n)
    BY <1>1, <1>2 DEF EventsIn
  <1>3. EventsIn(M, e.n) = EventsIn(L, e.n) \cup {Len(L) + 1}
    BY <1>1 DEF EventsIn
  <1>4. e.n \in 1 .. ops /\ Numbered(L) => Numbered(M)
    BY <1>1 DEF Numbered
  <1> QED
    BY <1>1, <1>2, <1>3, <1>4

\* The next event of a request that is at the end continues its group.
LEMMA GroupGrows ==
    ASSUME NEW L \in Seq(Evidence), NEW e \in Evidence, NEW M, M = Append(L, e), Together(L),
           NEW op \in {"plan", "execute"}, NEW w \in Nat, w < Len(EventsOf(op)),
           EventsIn(L, e.n) = Len(L) - w + 1 .. Len(L),
           w # 0 => L[Len(L)].kind = EventsOf(op)[w],
           e.kind = EventsOf(op)[w + 1]
    PROVE  Together(M)
  <1>1. /\ Len(L) \in Nat /\ DOMAIN L = 1 .. Len(L) /\ DOMAIN M = 1 .. Len(L) + 1
        /\ M[Len(L) + 1] = e /\ \A i \in 1 .. Len(L) : M[i] = L[i]
    BY OneMore
  <1>0. DOMAIN EventsOf(op) = 1 .. Len(EventsOf(op)) /\ Len(EventsOf(op)) \in Nat
    BY EventsAre DEF Ops
  <1> SUFFICES ASSUME NEW i \in 1 .. Len(L) + 1, NEW j \in 1 .. Len(L) + 1, i < j, M[i].n = M[j].n
               PROVE  Joined(M, i)
    BY <1>1 DEF Together
  <1>2. \A a, b \in 1 .. Len(L) : a < b /\ L[a].n = L[b].n => Joined(L, a)
    BY <1>1 DEF Together
  <1>3. \A a \in 1 .. Len(L) : a + 1 \in 1 .. Len(L) /\ Joined(L, a) => Joined(M, a)
    <2> SUFFICES ASSUME NEW a \in 1 .. Len(L), a + 1 \in 1 .. Len(L), Joined(L, a)
                 PROVE  Joined(M, a)
      OBVIOUS
    <2>1. M[a] = L[a] /\ M[a + 1] = L[a + 1]
      BY <1>1
    <2> QED
      BY <2>1 DEF Joined
  <1>4. i \in 1 .. Len(L) /\ M[i] = L[i]
    BY <1>1
  <1>5. CASE j \in 1 .. Len(L)
    <2>1. Joined(L, i) /\ i + 1 \in 1 .. Len(L)
      BY <1>1, <1>2, <1>4, <1>5
    <2> QED
      BY <1>3, <1>4, <2>1
  <1>6. CASE j = Len(L) + 1
    <2>1. L[i].n = e.n
      BY <1>1, <1>4, <1>6
    <2>2. i \in EventsIn(L, e.n)
      BY <1>1, <1>4, <2>1 DEF EventsIn
    <2>3. w # 0 /\ Len(L) \in EventsIn(L, e.n)
      BY <1>1, <2>2
    <2>4. L[Len(L)].n = e.n
      BY <2>3 DEF EventsIn
    <2>5. CASE i = Len(L)
      <3>1. M[i + 1] = e /\ M[i].kind = EventsOf(op)[w] /\ M[i + 1].kind = EventsOf(op)[w + 1]
        BY <1>1, <1>4, <2>3, <2>5
      <3>2. w \in DOMAIN EventsOf(op)
        BY <1>0, <2>3
      <3> QED
        BY <1>4, <2>1, <2>5, <3>1, <3>2 DEF Joined
    <2>6. CASE i # Len(L)
      <3>1. i < Len(L) /\ i + 1 \in 1 .. Len(L) /\ Len(L) \in 1 .. Len(L)
        <4>1. i \in 1 .. Len(L)
          BY <1>4
        <4>2. Len(L) \in Nat
          BY <1>1
        <4> QED
          BY <4>1, <4>2, <2>6
      <3>2. Joined(L, i)
        BY <1>2, <1>4, <2>1, <2>4, <3>1
      <3> QED
        BY <1>3, <1>4, <3>1, <3>2
    <2> QED
      BY <2>5, <2>6
  <1> QED
    BY <1>1, <1>5, <1>6

\* What both outcomes of an append share: the list in memory grows by an event of the
\* request, and what else is in the files stays in place.
LEMMA EventIsNext ==
    ASSUME Shape, Order, NEW t \in Threads, threads[t].pc = "events",
           threads[t].written < Len(EventsOf(threads[t].op)),
           NEW M, M = Append(ledger[threads[t].at], NextEvent(t))
    PROVE  /\ M \in Seq(Evidence) /\ Numbered(M) /\ Together(M)
           /\ \A n : n # threads[t].n => EventsIn(M, n) = EventsIn(ledger[threads[t].at], n)
           /\ Len(M) = Len(ledger[threads[t].at]) + 1
           /\ M[Len(M)].kind = EventsOf(threads[t].op)[threads[t].written + 1]
           /\ EventsIn(M, threads[t].n) = Len(M) - (threads[t].written + 1) + 1 .. Len(M)
  <1>1. /\ threads[t].at \in Coordinators /\ threads[t] \in Requests
        /\ threads[t].op \in {"plan", "execute"} /\ threads[t].written \in Nat
    BY FieldsOfRequest DEF Shape, TypeOK, Placed
  <1>2. PICK L \in Seq(Evidence) : L = ledger[threads[t].at]
    BY <1>1 DEF Shape, TypeOK
  <1>3. PICK e \in Evidence : e = NextEvent(t)
    BY NextEventIsEvidence
  <1>4. e.n = threads[t].n /\ e.kind = EventsOf(threads[t].op)[threads[t].written + 1]
    BY <1>3 DEF NextEvent
  <1>5. /\ e.n \in 1 .. ops /\ AtTheEnd(threads[t]) /\ Numbered(L) /\ Together(L)
    BY <1>1, <1>2, <1>4 DEF Order, Progress
  <1>6. /\ threads[t].written <= Len(L)
        /\ EventsIn(L, e.n) = Len(L) - threads[t].written + 1 .. Len(L)
        /\ threads[t].written # 0 => L[Len(L)].kind = EventsOf(threads[t].op)[threads[t].written]
    BY <1>2, <1>4, <1>5 DEF AtTheEnd
  <1>7. M = Append(L, e)
    BY <1>2, <1>3
  <1>8. /\ Len(L) \in Nat /\ M \in Seq(Evidence) /\ Len(M) = Len(L) + 1 /\ M[Len(L) + 1] = e
        /\ \A n : n # e.n => EventsIn(M, n) = EventsIn(L, n)
        /\ EventsIn(M, e.n) = EventsIn(L, e.n) \cup {Len(L) + 1}
    <2>1. Len(L) \in Nat /\ M \in Seq(Evidence) /\ Len(M) = Len(L) + 1 /\ M[Len(L) + 1] = e
      BY <1>7, OneMore
    <2>2. \A n : n # e.n => EventsIn(M, n) = EventsIn(L, n)
      <3> SUFFICES ASSUME NEW n, n # e.n PROVE EventsIn(M, n) = EventsIn(L, n)
        OBVIOUS
      <3>1. /\ DOMAIN L = 1 .. Len(L) /\ DOMAIN M = 1 .. Len(L) + 1 /\ Len(L) \in Nat
            /\ M[Len(L) + 1] = e /\ \A i \in 1 .. Len(L) : M[i] = L[i]
        BY <1>7, OneMore
      <3> QED
        BY <3>1 DEF EventsIn
    <2>3. EventsIn(M, e.n) = EventsIn(L, e.n) \cup {Len(L) + 1}
      BY <1>7, OneMore, Zenon
    <2> QED
      BY <2>1, <2>2, <2>3
  <1>n. Numbered(M)
    <2>1. e.n \in 1 .. ops /\ Numbered(L) => Numbered(M)
      BY <1>7, OneMore
    <2> QED
      BY <1>5, <2>1
  <1>9. Together(M)
    BY <1>1, <1>4, <1>5, <1>6, <1>7, GroupGrows
  <1>10. EventsIn(M, e.n) = Len(M) - (threads[t].written + 1) + 1 .. Len(M)
    <2>1. \A n, w \in Nat : w <= n => (n - w + 1 .. n) \cup {n + 1} = (n + 1) - (w + 1) + 1 .. n + 1
      OBVIOUS
    <2> QED
      BY <1>1, <1>6, <1>8, <2>1
  <1> QED
    BY <1>2, <1>4, <1>8, <1>9, <1>10, <1>n

\* What may become of the list in memory and of the file when a thread appends an event,
\* fails to, or dies: memory has the longer list M or what is in the file, and the file is
\* as before, cut short, or has M.
FilesMove(c, M) ==
    /\ \A d \in Coordinators \ {c} :
          ledger'[d] = ledger[d] /\ saved'[d] = saved[d] /\ torn'[d] = torn[d]
    /\ \/ saved'[c] = saved[c] /\ torn'[c] = torn[c]
       \/ saved'[c] = << >> /\ torn'[c]
       \/ saved'[c] = M
    /\ \/ ledger'[c] = M
       \/ ledger'[c] = saved'[c] /\ (c \in up' => ~ torn'[c])

LEMMA OthersAreCalm ==
    ASSUME NEW c \in up, NEW M, FilesMove(c, M), runs' = runs, up' \subseteq up,
           NEW n, EventsIn(M, n) = EventsIn(ledger[c], n)
    PROVE  Calm(n)
  <1> SUFFICES ASSUME NEW d \in Coordinators
               PROVE  /\ Absent(d, n) => EventsIn(ledger'[d], n) = {} /\ EventsIn(saved'[d], n) = {}
                      /\ d \in up' => Kept(d, ledger'[d], n)
                      /\ ~ torn'[d] => Kept(d, saved'[d], n)
                      /\ Listed(d, n) => Listed(d, n)'
    BY DEF Calm
  <1>1. Listed(d, n) => Listed(d, n)'
    BY DEF Listed
  <1>2. CASE d # c
    BY <1>1, <1>2 DEF FilesMove, Kept, Absent
  <1>3. CASE d = c
    <2>1. /\ Absent(c, n) => EventsIn(saved'[c], n) = {}
          /\ ~ torn'[c] => Kept(c, saved'[c], n)
      <3>1. EventsIn(<< >>, n) = {}
        BY DEF EventsIn
      <3> QED
        BY <3>1 DEF FilesMove, Kept, Absent
    <2>2. /\ Absent(c, n) => EventsIn(ledger'[c], n) = {}
          /\ c \in up' => Kept(c, ledger'[c], n)
      BY <2>1 DEF FilesMove, Kept, Absent
    <2> QED
      BY <1>1, <1>3, <2>1, <2>2
  <1> QED
    BY <1>2, <1>3

LEMMA ListsStayOrdered ==
    ASSUME Order, ops' = ops, NEW c \in Coordinators, NEW M, Numbered(M), Together(M),
           FilesMove(c, M)
    PROVE  \A d \in Coordinators : /\ Numbered(ledger[d])' /\ Together(ledger[d])'
                                   /\ Numbered(saved[d])' /\ Together(saved[d])'
  <1> SUFFICES ASSUME NEW d \in Coordinators
               PROVE  /\ Numbered(ledger[d])' /\ Together(ledger[d])'
                      /\ Numbered(saved[d])' /\ Together(saved[d])'
    OBVIOUS
  <1>1. /\ Numbered(ledger[d]) /\ Together(ledger[d])
        /\ Numbered(saved[d]) /\ Together(saved[d])
        /\ Numbered(<< >>) /\ Together(<< >>)
    BY DEF Order, Numbered, Together
  <1>2. ledger'[d] \in {M, ledger[d], saved[d], << >>} /\ saved'[d] \in {M, saved[d], << >>}
    BY DEF FilesMove
  <1>3. \A L : Numbered(L) => Numbered(L)'
    BY DEF Numbered
  <1>4. PICK L, K : L = ledger'[d] /\ K = saved'[d]
    OBVIOUS
  <1>5. Numbered(L)' /\ Together(L) /\ Numbered(K)' /\ Together(K)
    BY <1>1, <1>2, <1>3, <1>4
  <1> QED
    BY <1>4, <1>5 DEF Numbered, Together, Joined

LEMMA AppendEventOrders ==
    ASSUME Shape, Order, NEW t \in Threads, AppendEvent(t)
    PROVE  Order'
  <1> DEFINE c == threads[t].at
  <1>1. /\ ThreadsTyped /\ c \in Coordinators /\ threads[t].pc = "events"
        /\ threads[t].op \in {"plan", "execute"} /\ ops \in Nat /\ threads[t] \in Requests
        /\ threads[t].written < Len(EventsOf(threads[t].op))
        /\ threads' = [threads EXCEPT ![t].written = @ + 1]
        /\ ledger \in [Coordinators -> Seq(Evidence)] /\ saved \in [Coordinators -> Seq(Evidence)]
        /\ torn \in [Coordinators -> BOOLEAN] /\ UNCHANGED <<runs, up, ops, answers, lock>>
    BY DEF Shape, TypeOK, ThreadsTyped, Placed, AppendEvent, Appending, history
  <1>2. PICK M : M = Append(ledger[c], NextEvent(t))
    OBVIOUS
  <1>3. /\ ledger' = [ledger EXCEPT ![c] = M] /\ saved' = [saved EXCEPT ![c] = M]
        /\ torn' = [torn EXCEPT ![c] = FALSE]
    BY <1>2 DEF AppendEvent, Persist
  <1>4. /\ M \in Seq(Evidence) /\ Numbered(M) /\ Together(M)
        /\ \A n : n # threads[t].n => EventsIn(M, n) = EventsIn(ledger[c], n)
        /\ Len(M) = Len(ledger[c]) + 1
        /\ M[Len(M)].kind = EventsOf(threads[t].op)[threads[t].written + 1]
        /\ EventsIn(M, threads[t].n) = Len(M) - (threads[t].written + 1) + 1 .. Len(M)
    <2>1. threads[t].pc = "events" /\ threads[t].written < Len(EventsOf(threads[t].op))
      BY <1>1
    <2> QED
      BY <1>2, <2>1, EventIsNext
  <1>5. /\ ledger'[c] = M /\ saved'[c] = M
        /\ \A d \in Coordinators \ {c} :
              ledger'[d] = ledger[d] /\ saved'[d] = saved[d] /\ torn'[d] = torn[d]
    BY <1>1, <1>3
  <1>m. FilesMove(c, M)
    BY <1>5 DEF FilesMove
  <1>6. /\ Others(t) /\ threads'[t].pc = "events" /\ threads'[t].op = threads[t].op
        /\ threads'[t].at = threads[t].at /\ threads'[t].n = threads[t].n
        /\ threads'[t].written = threads[t].written + 1
    BY <1>1, WrittenMoves
  <1>8. /\ threads[t].n \in 1 .. ops /\ c \in up /\ AtTheEnd(threads[t]) /\ lock[c] = t
    BY <1>1 DEF Order, Progress, Inside
  <1>7. \A n \in Nat : Calm(n) \/ (threads[t].pc # "idle" /\ n = threads[t].n)
    <2> SUFFICES ASSUME NEW n \in Nat, n # threads[t].n PROVE Calm(n)
      BY <1>1
    <2>1. EventsIn(M, n) = EventsIn(ledger[c], n) /\ runs' = runs /\ up' \subseteq up
      BY <1>1, <1>4
    <2> QED
      BY <1>8, <1>m, <2>1, OthersAreCalm
  <1>9. AtTheEnd(threads[t])'
    <2>1. Listed(c, threads[t].n)
      BY <1>8 DEF AtTheEnd
    <2>2. Listed(threads[t].at, threads[t].n)'
      BY <1>1, <1>6, <2>1 DEF Listed
    <2>3. /\ threads[t].written + 1 <= Len(EventsOf(threads[t].op))
          /\ threads[t].written + 1 <= Len(M) /\ threads[t].written + 1 # 0
      <3>1. threads[t].written \in Nat /\ Len(EventsOf(threads[t].op)) \in Nat /\ Len(ledger[c]) \in Nat
        BY <1>1, FieldsOfRequest, EventsAre DEF Ops
      <3>2. threads[t].written <= Len(ledger[c])
        BY <1>8 DEF AtTheEnd
      <3>3. threads[t].written < Len(EventsOf(threads[t].op))
        BY <1>1
      <3>4. Len(M) = Len(ledger[c]) + 1
        BY <1>4
      <3> QED
        BY <3>1, <3>2, <3>3, <3>4
    <2> QED
      BY <1>4, <1>5, <1>6, <2>2, <2>3 DEF AtTheEnd
  <1>10. Progress(threads[t])'
    BY <1>1, <1>6, <1>8, <1>9 DEF Progress
  <1>11. \A u \in Threads \ {t} : Inside(u) => /\ lock'[threads[u].at] = u
                                               /\ ledger'[threads[u].at] = ledger[threads[u].at]
                                               /\ saved'[threads[u].at] = saved[threads[u].at]
    <2> SUFFICES ASSUME NEW u \in Threads \ {t}, Inside(u)
                 PROVE  /\ lock'[threads[u].at] = u
                        /\ ledger'[threads[u].at] = ledger[threads[u].at]
                        /\ saved'[threads[u].at] = saved[threads[u].at]
      OBVIOUS
    <2>1. lock[threads[u].at] = u /\ threads[u].at \in Coordinators
      BY DEF Order, Inside, Shape, Placed
    <2> QED
      BY <1>1, <1>5, <1>8, <2>1
  <1>12. Inside(t)' => lock'[threads'[t].at] = t
    BY <1>1, <1>6, <1>8
  <1>13. \A d \in Coordinators : /\ Numbered(ledger[d])' /\ Together(ledger[d])'
                                 /\ Numbered(saved[d])' /\ Together(saved[d])'
    BY <1>1, <1>4, <1>m, ListsStayOrdered
  <1> QED
    BY <1>1, <1>6, <1>7, <1>10, <1>11, <1>12, <1>13, OneMoves

LEMMA FailEventOrders ==
    ASSUME Shape, Order, NEW t \in Threads, FailEvent(t)
    PROVE  Order'
  <1> DEFINE c == threads[t].at
  <1>1. /\ ThreadsTyped /\ c \in Coordinators /\ threads[t].pc = "events" /\ ops \in Nat
        /\ threads[t].written < Len(EventsOf(threads[t].op)) /\ Drop(t)
        /\ ledger \in [Coordinators -> Seq(Evidence)] /\ lock \in [Coordinators -> Threads \cup {None}]
        /\ saved \in [Coordinators -> Seq(Evidence)] /\ torn \in [Coordinators -> BOOLEAN]
        /\ UNCHANGED <<runs, up, ops, answers>>
    BY DEF Shape, TypeOK, ThreadsTyped, Placed, FailEvent, Appending, EventFails, history
  <1>2. PICK M : M = Append(ledger[c], NextEvent(t))
    OBVIOUS
  <1>3. /\ ledger' = [ledger EXCEPT ![c] = M]
        /\ UNCHANGED <<saved, torn>> \/ PersistCut(c) \/ Persist(c, M)
    BY <1>2 DEF FailEvent
  <1>4. /\ M \in Seq(Evidence) /\ Numbered(M) /\ Together(M)
        /\ \A n : n # threads[t].n => EventsIn(M, n) = EventsIn(ledger[c], n)
    <2>1. threads[t].pc = "events" /\ threads[t].written < Len(EventsOf(threads[t].op))
      BY <1>1
    <2> QED
      BY <1>2, <2>1, EventIsNext
  <1>m. FilesMove(c, M)
    <2>1. CASE UNCHANGED <<saved, torn>>
      BY <1>1, <1>3, <2>1 DEF FilesMove
    <2>2. CASE PersistCut(c)
      BY <1>1, <1>3, <2>2 DEF FilesMove, PersistCut
    <2>3. CASE Persist(c, M)
      BY <1>1, <1>3, <2>3 DEF FilesMove, Persist
    <2> QED
      BY <1>3, <2>1, <2>2, <2>3
  <1>5. \A d \in Coordinators \ {c} : ledger'[d] = ledger[d] /\ saved'[d] = saved[d]
    BY <1>m DEF FilesMove
  <1>6. Others(t) /\ threads'[t] = Free /\ threads'[t].pc = "idle"
    BY <1>1, FreeMoves, FreeIsRequest DEF Drop
  <1>7. \A n \in Nat : Calm(n) \/ (threads[t].pc # "idle" /\ n = threads[t].n)
    <2> SUFFICES ASSUME NEW n \in Nat, n # threads[t].n PROVE Calm(n)
      BY <1>1
    <2>1. EventsIn(M, n) = EventsIn(ledger[c], n) /\ runs' = runs /\ up' \subseteq up
      BY <1>1, <1>4
    <2>2. c \in up
      BY <1>1 DEF Order, Progress
    <2> QED
      BY <1>m, <2>1, <2>2, OthersAreCalm
  <1>8. Progress(threads[t])' /\ ~ Inside(t)'
    BY <1>6 DEF Progress, Inside
  <1>9. lock[c] = t /\ lock' = [lock EXCEPT ![c] = None]
    BY <1>1 DEF Order, Inside, Drop, Released
  <1>10. \A u \in Threads \ {t} : Inside(u) => /\ lock'[threads[u].at] = u
                                               /\ ledger'[threads[u].at] = ledger[threads[u].at]
                                               /\ saved'[threads[u].at] = saved[threads[u].at]
    <2> SUFFICES ASSUME NEW u \in Threads \ {t}, Inside(u)
                 PROVE  /\ lock'[threads[u].at] = u
                        /\ ledger'[threads[u].at] = ledger[threads[u].at]
                        /\ saved'[threads[u].at] = saved[threads[u].at]
      OBVIOUS
    <2>1. lock[threads[u].at] = u /\ threads[u].at \in Coordinators
      BY DEF Order, Inside, Shape, Placed
    <2> QED
      BY <1>1, <1>5, <1>9, <2>1
  <1>11. \A d \in Coordinators : /\ Numbered(ledger[d])' /\ Together(ledger[d])'
                                 /\ Numbered(saved[d])' /\ Together(saved[d])'
    BY <1>1, <1>4, <1>m, ListsStayOrdered
  <1> QED
    BY <1>1, <1>6, <1>7, <1>8, <1>10, <1>11, OneMoves

LEMMA CrashOrders ==
    ASSUME Shape, Order, NEW c \in Coordinators, Crash(c)
    PROVE  Order'
  <1>1. /\ UNCHANGED <<runs, ops, answers>> /\ ops \in Nat
        /\ ledger' = [ledger EXCEPT ![c] = saved'[c]] /\ lock' = [lock EXCEPT ![c] = None]
        /\ up' = IF torn'[c] THEN up \ {c} ELSE up
        /\ threads' = [t \in Threads |-> IF threads[t].at = c THEN Free ELSE threads[t]]
        /\ ledger \in [Coordinators -> Seq(Evidence)] /\ lock \in [Coordinators -> Threads \cup {None}]
        /\ saved \in [Coordinators -> Seq(Evidence)] /\ torn \in [Coordinators -> BOOLEAN]
        /\ answers \subseteq Answers /\ \A t \in Threads : threads[t] \in Requests
    BY DEF Crash, Released, history, Shape, TypeOK
  <1>2. c \in up
    BY DEF Crash
  <1>3. \A t \in Threads : \/ threads'[t].pc = "idle"
                           \/ threads'[t] = threads[t] /\ threads[t].at # c
    BY <1>1, FreeIsRequest
  <1>d. \A t \in Threads : threads[t].at = c => threads[t].pc # "idle"
    BY ControlAssumption DEF Shape, Placed, Free
  <1>m. PICK M : /\ Numbered(M) /\ Together(M)
                 /\ \/ UNCHANGED <<saved, torn>> \/ PersistCut(c) \/ Persist(c, M)
                 /\ \A n : \/ EventsIn(M, n) = EventsIn(ledger[c], n)
                          \/ \E t \in Threads : threads[t].at = c /\ threads[t].n = n
    <2>1. CASE UNCHANGED <<saved, torn>> \/ PersistCut(c)
      <3>1. Numbered(ledger[c]) /\ Together(ledger[c])
        BY DEF Order
      <3> QED
        BY <2>1, <3>1
    <2>2. CASE \E t \in Threads : /\ threads[t].at = c /\ Appending(t)
                                  /\ Persist(c, Append(ledger[c], NextEvent(t)))
      <3>1. PICK t \in Threads : /\ threads[t].at = c /\ Appending(t)
                                 /\ Persist(c, Append(ledger[c], NextEvent(t)))
        BY <2>2
      <3>2. PICK M : M = Append(ledger[threads[t].at], NextEvent(t))
        OBVIOUS
      <3>3. threads[t].pc = "events" /\ threads[t].written < Len(EventsOf(threads[t].op))
        BY <3>1 DEF Appending
      <3>4. /\ Numbered(M) /\ Together(M)
            /\ \A n : n # threads[t].n => EventsIn(M, n) = EventsIn(ledger[threads[t].at], n)
        BY <3>2, <3>3, EventIsNext
      <3>5. Persist(c, M)
        BY <3>1, <3>2
      <3> QED
        BY <3>1, <3>4, <3>5
    <2> QED
      BY <2>1, <2>2 DEF Crash
  <1>f. FilesMove(c, M)
    <2>1. /\ \A d \in Coordinators \ {c} : ledger'[d] = ledger[d]
          /\ ledger'[c] = saved'[c] /\ (c \in up' => ~ torn'[c])
      BY <1>1
    <2>2. CASE UNCHANGED <<saved, torn>>
      BY <1>1, <2>1, <2>2 DEF FilesMove
    <2>3. CASE PersistCut(c)
      BY <1>1, <2>1, <2>3 DEF FilesMove, PersistCut
    <2>4. CASE Persist(c, M)
      BY <1>1, <2>1, <2>4 DEF FilesMove, Persist
    <2> QED
      BY <1>m, <2>2, <2>3, <2>4
  <1>4. ASSUME NEW n, \A t \in Threads : threads[t].at = c => threads[t].n # n
        PROVE  Calm(n)
    <2>1. EventsIn(M, n) = EventsIn(ledger[c], n)
      BY <1>4, <1>m
    <2>2. c \in up /\ up' \subseteq up /\ runs' = runs
      BY <1>1, <1>2
    <2> QED
      BY <1>f, <2>1, <2>2, OthersAreCalm
  <1>5. ASSUME NEW t \in Threads PROVE Progress(threads[t])'
    <2>1. CASE threads'[t].pc = "idle"
      BY <2>1 DEF Progress
    <2>2. CASE threads'[t].pc # "idle"
      <3>1. PICK r \in Requests : r = threads[t]
        BY <1>1
      <3>2. threads'[t] = r /\ r.at # c /\ Placed(r) /\ Progress(r) /\ r.pc # "idle"
        BY <1>3, <2>2, <3>1 DEF Shape, Order
      <3>3. ledger'[r.at] = ledger[r.at] /\ saved'[r.at] = saved[r.at] /\ r.at \in up'
        BY <1>1, <1>f, <3>2 DEF Placed, Progress, FilesMove
      <3>4. Calm(r.n)
        <4>1. ASSUME NEW u \in Threads, threads[u].at = c PROVE threads[u].n # r.n
          BY <1>d, <3>1, <3>2, <4>1 DEF Order
        <4> QED
          BY <1>4, <4>1
      <3>5. Progress(r)'
        BY <1>1, <3>2, <3>3, <3>4, ProgressStays
      <3> QED
        BY <3>2, <3>5 DEF Progress
    <2> QED
      BY <2>1, <2>2
  <1>6. ASSUME NEW t \in Threads, Inside(t)' PROVE lock'[threads'[t].at] = t
    <2>1. threads'[t] = threads[t] /\ threads[t].at # c /\ Inside(t)
      BY <1>3, <1>6 DEF Inside
    <2>2. lock[threads[t].at] = t /\ threads[t].at \in Coordinators
      BY <2>1 DEF Order, Inside, Shape, Placed
    <2> QED
      BY <1>1, <2>1, <2>2
  <1>7. ASSUME NEW a \in answers' PROVE Answered(a)'
    <2>1. a \in answers /\ a \in Answers /\ Answered(a)
      BY <1>1, <1>7 DEF Order
    <2>2. \A t \in Threads : threads[t].at = c => threads[t].n # a.n
      BY <1>d, <2>1 DEF Order
    <2> QED
      BY <1>1, <1>4, <2>1, <2>2, AnsweredStays
  <1>8. /\ \A t, u \in Threads :
              threads'[t].pc # "idle" /\ threads'[u].pc # "idle" /\ t # u => threads'[t].n # threads'[u].n
        /\ \A a \in answers', t \in Threads : threads'[t].pc # "idle" => threads'[t].n # a.n
    BY <1>1, <1>3 DEF Order
  <1>9. \A d \in Coordinators : /\ Numbered(ledger[d])' /\ Together(ledger[d])'
                                /\ Numbered(saved[d])' /\ Together(saved[d])'
    BY <1>1, <1>m, <1>f, ListsStayOrdered
  <1> QED
    BY <1>5, <1>6, <1>7, <1>8, <1>9 DEF Order

LEMMA StutterOrders ==
    ASSUME Shape, Order, UNCHANGED vars
    PROVE  Order'
  <1>1. UNCHANGED <<threads, lock, runs, ledger, saved, torn, up, ops, answers>>
    BY DEF vars, files, history
  <1>2. \A t \in Threads : Progress(threads[t])' <=> Progress(threads[t])
    BY <1>1 DEF Progress, AtTheEnd, OnRecord, Absent, Listed, AllOf
  <1>3. \A a \in answers : Answered(a)' <=> Answered(a)
    BY <1>1 DEF Answered, OnRecord, Listed, AllOf
  <1>4. \A c \in Coordinators : /\ Numbered(ledger[c])' <=> Numbered(ledger[c])
                                /\ Numbered(saved[c])' <=> Numbered(saved[c])
                                /\ Together(ledger[c])' <=> Together(ledger[c])
                                /\ Together(saved[c])' <=> Together(saved[c])
    BY <1>1 DEF Numbered, Together, Joined
  <1> QED
    BY <1>1, <1>2, <1>3, <1>4 DEF Order, Inside

LEMMA CheckAndRunOrder ==
    ASSUME Shape, Order, NEW t \in Threads,
           CheckPlan(t) \/ Remote(t) \/ TakeLock(t) \/ Enqueue(t) \/ Count(t) \/ FailRun(t)
    PROVE  Order'
  <1>1. CASE CheckPlan(t)
    <2>1. /\ threads[t].pc = "check" /\ UNCHANGED <<runs, ledger, saved, torn, up, ops, lock>>
          /\ \/ \E pc \in {"remote", "enqueue"} : Goto(t, pc) /\ answers' = answers
             \/ \E code \in {400, 403, 503} : Answer(t, code)
      BY <1>1 DEF CheckPlan, files
    <2>2. ASSUME NEW pc \in {"remote", "enqueue"}, Goto(t, pc), answers' = answers PROVE Order'
      <3>1. pc \in Points \ {"idle"}
        BY DEF Points
      <3> QED
        BY <2>1, <2>2, <3>1, GotoOrders
    <2>3. ASSUME NEW code \in {400, 403, 503}, Answer(t, code) PROVE Order'
      <3>1. code \in {200, 400, 403, 502, 503} /\ code # 200
        OBVIOUS
      <3> QED
        BY <2>1, <2>3, <3>1, AnswerOrders
    <2> QED
      BY <2>1, <2>2, <2>3
  <1>2. CASE Remote(t)
    <2>1. /\ threads[t].pc = "remote" /\ UNCHANGED <<runs, ledger, saved, torn, up, ops, lock>>
          /\ (Goto(t, "lock") /\ answers' = answers) \/ Answer(t, 502)
      BY <1>2 DEF Remote, files
    <2>2. CASE Goto(t, "lock") /\ answers' = answers
      <3>1. "lock" \in Points \ {"idle"}
        BY DEF Points
      <3> QED
        BY <2>1, <2>2, <3>1, GotoOrders
    <2>3. CASE Answer(t, 502)
      BY <2>1, <2>3, AnswerOrders
    <2> QED
      BY <2>1, <2>2, <2>3
  <1>3. CASE TakeLock(t)
    <2>1. /\ threads[t].pc = "lock" /\ UNCHANGED <<runs, ledger, saved, torn, up, ops, answers>>
          /\ lock[threads[t].at] = None /\ lock' = [lock EXCEPT ![threads[t].at] = t] /\ Goto(t, "run")
      BY <1>3 DEF TakeLock, LockIsFree, files, history
    <2>2. "run" \in Points \ {"idle"}
      BY DEF Points
    <2> QED
      BY <2>1, <2>2, GotoOrders
  <1>4. CASE Enqueue(t)
    <2>1. /\ threads[t].pc = "enqueue" /\ UNCHANGED <<runs, ledger, saved, torn, up, ops, lock>>
          /\ \/ Goto(t, "count") /\ answers' = answers
             \/ \E code \in {403, 503} : Answer(t, code)
      BY <1>4 DEF Enqueue, files
    <2>2. CASE Goto(t, "count") /\ answers' = answers
      <3>1. "count" \in Points \ {"idle"}
        BY DEF Points
      <3> QED
        BY <2>1, <2>2, <3>1, GotoOrders
    <2>3. ASSUME NEW code \in {403, 503}, Answer(t, code) PROVE Order'
      <3>1. code \in {200, 400, 403, 502, 503} /\ code # 200
        OBVIOUS
      <3> QED
        BY <2>1, <2>3, <3>1, AnswerOrders
    <2> QED
      BY <2>1, <2>2, <2>3
  <1>5. CASE Count(t)
    <2>1. threads[t].pc = "count" /\ UNCHANGED <<runs, ledger, saved, torn, up, ops, lock>> /\ Answer(t, 200)
      BY <1>5 DEF Count, files
    <2> QED
      BY <2>1, AnswerOrders
  <1>6. CASE FailRun(t)
    <2>1. /\ threads[t].pc = "run" /\ Inside(t) /\ UNCHANGED <<runs, ledger, saved, torn, up, ops, answers>>
          /\ Drop(t)
      BY <1>6 DEF FailRun, history, Inside
    <2>2. Others(t) /\ threads'[t] = Free
      BY <2>1, DropMoves
    <2>3. lock' = [lock EXCEPT ![threads[t].at] = None]
      BY <2>1 DEF Drop, Released
    <2> QED
      BY <2>1, <2>2, <2>3, EndOrders
  <1> QED
    BY <1>1, <1>2, <1>3, <1>4, <1>5, <1>6

LEMMA InitOrders == Init => Order
  <1> SUFFICES ASSUME Init PROVE Order
    OBVIOUS
  <1>1. \A t \in Threads : threads[t].pc = "idle"
    BY FreeIsRequest DEF Init
  <1>2. \A c \in Coordinators : ledger[c] = << >> /\ saved[c] = << >>
    BY DEF Init
  <1>3. Numbered(<< >>) /\ Together(<< >>)
    BY DEF Numbered, Together
  <1>4. answers = {}
    BY DEF Init
  <1> QED
    BY <1>1, <1>2, <1>3, <1>4 DEF Order, Inside, Progress

LEMMA OrderHolds == Spec => []Order
  <1>1. ASSUME Shape, Shape', Order, [Next]_vars PROVE Order'
    BY <1>1, BeginOrders, CheckAndRunOrder, AppendRunOrders, AppendEventOrders, FailEventOrders,
       ReleaseOrders, RecordPlanOrders, CrashOrders, StutterOrders
       DEF Next, Proceed
  <1> QED
    BY <1>1, InitOrders, ShapeHolds, PTL DEF Spec

\* The events of one request stand together, whichever requests App serves at once
\* and whatever fails.
THEOREM Grouped == Spec => []GroupsStandTogether
  <1>1. ASSUME Order PROVE GroupsStandTogether
    <2>1. \A c \in Coordinators : \A events \in {ledger[c], saved[c]} : Together(events)
      BY <1>1 DEF Order
    <2> QED
      BY <2>1 DEF GroupsStandTogether, Together, Joined
  <1> QED
    BY <1>1, OrderHolds, PTL

\* Whatever plan or receipt was answered keeps its line, and a running process and a file
\* that can be loaded have all its events: writes that fail or are cut short and crashes
\* take a whole file, never a part of what was answered.
THEOREM Recorded == Spec => []AnsweredIsRecorded
  <1>1. Order => AnsweredIsRecorded
    BY DEF Order, Answered, OnRecord, Listed, AllOf, AllIn, AnsweredIsRecorded
  <1> QED
    BY <1>1, OrderHolds, PTL
=============================================================================
