------------------------ MODULE FleetPostgresProofs ------------------------
(***************************************************************************)
(* Proofs about FleetPostgres, for any number of sessions, jobs and calls. *)
(*                                                                         *)
(* What a transaction may rely on is what its locks protect: a row that it *)
(* holds is changed by nobody else, so that its draft stays one move of    *)
(* the contract away from the committed row (HeldOK), and only the holder  *)
(* of the advisory lock has events that are not committed (OutOK), so that *)
(* they continue the chain of the committed ones (LedgerOK).               *)
(***************************************************************************)
EXTENDS FleetPostgres, SequenceTheorems, FiniteSetTheorems, TLAPS

----------------------------------------------------------------------------
(* Rows                                                                    *)

\* The deadline of a lease that is held is known; nothing is known of a job that
\* was not enqueued.
RowOK(r) ==
    /\ r \in Row
    /\ r.state = "LEASED" => r.execution_lease_expires_at \in Int
    /\ r.state = "VERIFYING" => r.verification_lease_expires_at \in Int
    /\ r.state = "ABSENT" => r = NoRow

\* A step of the contract, or none.
Moves(r, d) == LifeOf(d) = LifeOf(r) \/ Contract!Move(LifeOf(r), LifeOf(d))

LEMMA LifeFields ==
    ASSUME NEW r \in Row
    PROVE  LET l == LifeOf(r) IN
           /\ l \in Contract!Life
           /\ l.tries = r.attempts /\ l.budget = r.max_attempts
           /\ l.producer = r.execution_worker_id /\ l.judge = r.verifier_id
           /\ r.state = "ABSENT" => l.phase = "unborn"
           /\ r.state = "QUEUED" => l.phase = "waiting"
           /\ r.state = "LEASED" => l.phase = "running"
           /\ r.state = "EXECUTED" => l.phase = "delivered"
           /\ r.state = "VERIFYING" => l.phase = "inspecting"
           /\ r.state = "FAILED" => l.phase = "failed"
           /\ r.state \in Verdicts => l.phase \in Contract!Ended
<1>1. /\ r.state \in JobStates \cup {"ABSENT"}
      /\ r.attempts \in Nat /\ r.max_attempts \in Nat
      /\ r.execution_worker_id \in Actors \cup {None} /\ r.verifier_id \in Actors \cup {None}
  BY DEF Row
<1>2. Phase[r.state] \in Contract!Phases
  BY <1>1 DEF Phase, Contract!Phases, JobStates
<1>3. LifeOf(r) \in Contract!Life
  BY <1>1, <1>2 DEF LifeOf, Contract!Life
<1> QED
  BY <1>3 DEF LifeOf, Phase, Verdicts, Contract!Ended

\* The moves of the contract, field by field.
LEMMA RowMoves ==
    ASSUME NEW r \in Row, NEW d \in Row
    PROVE  /\ /\ r.state = "ABSENT" /\ d.state = "QUEUED" /\ d.max_attempts \in Budgets
              /\ d.attempts = r.attempts
              /\ d.execution_worker_id = r.execution_worker_id
              /\ d.verifier_id = r.verifier_id
              => Moves(r, d)
           /\ /\ r.state = "QUEUED" /\ d.state = "LEASED" /\ d.max_attempts = r.max_attempts
              /\ r.attempts < r.max_attempts /\ d.attempts = r.attempts + 1
              /\ d.execution_worker_id \in Actors /\ d.verifier_id = r.verifier_id
              => Moves(r, d)
           /\ /\ r.state = "LEASED" /\ d.state = NextState(r)
              /\ d.max_attempts = r.max_attempts /\ d.attempts = r.attempts
              /\ d.execution_worker_id = None /\ d.verifier_id = r.verifier_id
              => Moves(r, d)
           /\ /\ r.state = "LEASED" /\ d.state = "LEASED" /\ d.max_attempts = r.max_attempts
              /\ r.attempts < r.max_attempts /\ d.attempts = r.attempts + 1
              /\ d.execution_worker_id \in Actors /\ d.verifier_id = r.verifier_id
              => Moves(r, d)
           /\ /\ r.state = "LEASED" /\ d.state = "EXECUTED"
              /\ d.max_attempts = r.max_attempts /\ d.attempts = r.attempts
              /\ d.execution_worker_id = r.execution_worker_id
              /\ d.verifier_id = r.verifier_id
              => Moves(r, d)
           /\ /\ r.state \in {"EXECUTED", "VERIFYING"} /\ d.state = "VERIFYING"
              /\ d.max_attempts = r.max_attempts /\ d.attempts = r.attempts
              /\ d.execution_worker_id = r.execution_worker_id
              /\ d.verifier_id \in Actors \ {r.execution_worker_id}
              => Moves(r, d)
           /\ /\ r.state = "VERIFYING" /\ d.state = "EXECUTED"
              /\ d.max_attempts = r.max_attempts /\ d.attempts = r.attempts
              /\ d.execution_worker_id = r.execution_worker_id /\ d.verifier_id = None
              => Moves(r, d)
           /\ /\ r.state = "VERIFYING" /\ d.state \in Verdicts
              /\ d.max_attempts = r.max_attempts /\ d.attempts = r.attempts
              /\ d.execution_worker_id = r.execution_worker_id
              /\ d.verifier_id = r.verifier_id
              => Moves(r, d)
<1>1. PICK l : l = LifeOf(r)
  OBVIOUS
<1>2. PICK k : k = LifeOf(d)
  OBVIOUS
<1>3. l \in Contract!Life /\ k \in Contract!Life
  BY <1>1, <1>2, LifeFields
<1>4. Contract!Move(l, k) => Moves(r, d)
  BY <1>1, <1>2 DEF Moves
<1>5. /\ l.tries = r.attempts /\ l.budget = r.max_attempts
      /\ l.producer = r.execution_worker_id /\ l.judge = r.verifier_id
      /\ k.tries = d.attempts /\ k.budget = d.max_attempts
      /\ k.producer = d.execution_worker_id /\ k.judge = d.verifier_id
  BY <1>1, <1>2, LifeFields
<1>6. ASSUME r.state = "ABSENT", d.state = "QUEUED", d.max_attempts \in Budgets,
             d.attempts = r.attempts, d.execution_worker_id = r.execution_worker_id,
             d.verifier_id = r.verifier_id
      PROVE  Moves(r, d)
  <2>1. /\ l.phase = "unborn" /\ k.phase = "waiting" /\ k.budget \in Budgets
        /\ k.tries = l.tries /\ k.producer = l.producer /\ k.judge = l.judge
    BY <1>1, <1>2, <1>5, <1>6, LifeFields
  <2>2. Contract!Submit(l, k)
    BY <1>3, <2>1 DEF Contract!Submit, Contract!Life
  <2> QED
    BY <1>4, <2>2 DEF Contract!Move
<1>7. ASSUME r.state = "QUEUED", d.state = "LEASED", d.max_attempts = r.max_attempts,
             r.attempts < r.max_attempts, d.attempts = r.attempts + 1,
             d.execution_worker_id \in Actors, d.verifier_id = r.verifier_id
      PROVE  Moves(r, d)
  <2>1. /\ l.phase = "waiting" /\ k.phase = "running" /\ k.budget = l.budget
        /\ l.tries < l.budget /\ k.tries = l.tries + 1
        /\ k.producer \in Actors /\ k.judge = l.judge
    BY <1>1, <1>2, <1>5, <1>7, LifeFields
  <2>2. Contract!Start(l, k)
    BY <1>3, <2>1 DEF Contract!Start, Contract!Life
  <2> QED
    BY <1>4, <2>2 DEF Contract!Move
<1>8. ASSUME r.state = "LEASED", d.state = NextState(r), d.max_attempts = r.max_attempts,
             d.attempts = r.attempts, d.execution_worker_id = None,
             d.verifier_id = r.verifier_id
      PROVE  Moves(r, d)
  <2>1. /\ l.phase = "running" /\ k.budget = l.budget /\ k.tries = l.tries
        /\ k.producer = None /\ k.judge = l.judge
        /\ k.phase = IF l.tries < l.budget THEN "waiting" ELSE "failed"
    BY <1>1, <1>2, <1>5, <1>8, LifeFields DEF NextState
  <2>2. Contract!Lose(l, k)
    BY <1>3, <2>1 DEF Contract!Lose, Contract!Life
  <2> QED
    BY <1>4, <2>2 DEF Contract!Move
<1>9. ASSUME r.state = "LEASED", d.state = "LEASED", d.max_attempts = r.max_attempts,
             r.attempts < r.max_attempts, d.attempts = r.attempts + 1,
             d.execution_worker_id \in Actors, d.verifier_id = r.verifier_id
      PROVE  Moves(r, d)
  <2>1. /\ l.phase = "running" /\ k.phase = "running" /\ k.budget = l.budget
        /\ l.tries < l.budget /\ k.tries = l.tries + 1
        /\ k.producer \in Actors /\ k.judge = l.judge
    BY <1>1, <1>2, <1>5, <1>9, LifeFields
  <2>2. Contract!Takeover(l, k)
    BY <1>3, <2>1 DEF Contract!Takeover, Contract!Life
  <2> QED
    BY <1>4, <2>2 DEF Contract!Move
<1>10. ASSUME r.state = "LEASED", d.state = "EXECUTED", d.max_attempts = r.max_attempts,
              d.attempts = r.attempts, d.execution_worker_id = r.execution_worker_id,
              d.verifier_id = r.verifier_id
       PROVE  Moves(r, d)
  <2>1. l.phase = "running" /\ k.phase = "delivered"
    BY <1>1, <1>2, <1>10, LifeFields
  <2>2. Contract!Deliver(l, k)
    BY <1>3, <1>5, <1>10, <2>1 DEF Contract!Deliver, Contract!Life
  <2> QED
    BY <1>4, <2>2 DEF Contract!Move
<1>11. ASSUME r.state \in {"EXECUTED", "VERIFYING"}, d.state = "VERIFYING",
              d.max_attempts = r.max_attempts, d.attempts = r.attempts,
              d.execution_worker_id = r.execution_worker_id,
              d.verifier_id \in Actors \ {r.execution_worker_id}
       PROVE  Moves(r, d)
  <2>1. /\ l.phase \in {"delivered", "inspecting"} /\ k.phase = "inspecting"
        /\ k.budget = l.budget /\ k.tries = l.tries /\ k.producer = l.producer
        /\ k.judge \in Actors \ {l.producer}
    BY <1>1, <1>2, <1>5, <1>11, LifeFields
  <2>2. Contract!Inspect(l, k)
    BY <1>3, <2>1 DEF Contract!Inspect, Contract!Life
  <2> QED
    BY <1>4, <2>2 DEF Contract!Move
<1>12. ASSUME r.state = "VERIFYING", d.state = "EXECUTED", d.max_attempts = r.max_attempts,
              d.attempts = r.attempts, d.execution_worker_id = r.execution_worker_id,
              d.verifier_id = None
       PROVE  Moves(r, d)
  <2>1. /\ l.phase = "inspecting" /\ k.phase = "delivered" /\ k.judge = None
        /\ k.budget = l.budget /\ k.tries = l.tries /\ k.producer = l.producer
    BY <1>1, <1>2, <1>5, <1>12, LifeFields
  <2>2. Contract!Abandon(l, k)
    BY <1>3, <2>1 DEF Contract!Abandon, Contract!Life
  <2> QED
    BY <1>4, <2>2 DEF Contract!Move
<1>13. ASSUME r.state = "VERIFYING", d.state \in Verdicts, d.max_attempts = r.max_attempts,
              d.attempts = r.attempts, d.execution_worker_id = r.execution_worker_id,
              d.verifier_id = r.verifier_id
       PROVE  Moves(r, d)
  <2>1. l.phase = "inspecting" /\ k.phase \in Contract!Ended
    BY <1>1, <1>2, <1>13, LifeFields
  <2>2. Contract!Rule(l, k)
    BY <1>3, <1>5, <1>13, <2>1 DEF Contract!Rule, Contract!Life
  <2> QED
    BY <1>4, <2>2 DEF Contract!Move
<1> QED
  BY <1>6, <1>7, <1>8, <1>9, <1>10, <1>11, <1>12, <1>13

LEMMA Requeues ==
    ASSUME NEW r, RowOK(r), r.state = "LEASED"
    PROVE  LET d == Requeued(r)
           IN  /\ RowOK(d) /\ d.state = NextState(r) /\ d.state \in {"QUEUED", "FAILED"}
               /\ d.attempts = r.attempts /\ d.max_attempts = r.max_attempts
               /\ d.execution_worker_id = None /\ d.verifier_id = r.verifier_id
               /\ Moves(r, d)
<1>1. PICK d : d = Requeued(r)
  OBVIOUS
<1>2. r \in Row
  BY DEF RowOK
<1>3. NextState(r) \in {"QUEUED", "FAILED"}
  BY DEF NextState
<1>4. d \in Row
  BY <1>1, <1>2, <1>3 DEF Requeued, Row, JobStates
<1>5. /\ d.state = NextState(r) /\ d.attempts = r.attempts
      /\ d.max_attempts = r.max_attempts
      /\ d.execution_worker_id = None /\ d.verifier_id = r.verifier_id
  BY <1>1, <1>2, <1>3 DEF Requeued, Row
<1>6. Moves(r, d)
  BY <1>2, <1>4, <1>5, RowMoves
<1>7. RowOK(d)
  BY <1>3, <1>4, <1>5 DEF RowOK
<1> QED
  BY <1>1, <1>3, <1>5, <1>6, <1>7

LEMMA Reopens ==
    ASSUME NEW r, RowOK(r), r.state = "VERIFYING"
    PROVE  LET d == Reopened(r)
           IN  /\ RowOK(d) /\ d.state = "EXECUTED"
               /\ d.attempts = r.attempts /\ d.max_attempts = r.max_attempts
               /\ d.execution_worker_id = r.execution_worker_id
               /\ Moves(r, d)
<1>1. PICK d : d = Reopened(r)
  OBVIOUS
<1>2. r \in Row
  BY DEF RowOK
<1>3. d \in Row
  BY <1>1, <1>2 DEF Reopened, Row, JobStates
<1>4. /\ d.state = "EXECUTED" /\ d.attempts = r.attempts
      /\ d.max_attempts = r.max_attempts
      /\ d.execution_worker_id = r.execution_worker_id /\ d.verifier_id = None
  BY <1>1, <1>2 DEF Reopened, Row
<1>5. Moves(r, d)
  BY <1>2, <1>3, <1>4, RowMoves
<1>6. RowOK(d)
  BY <1>3, <1>4 DEF RowOK
<1> QED
  BY <1>1, <1>4, <1>5, <1>6

\* What a claim finds: the committed row, or what it has taken back itself.
Found(r, d) ==
    \/ d = r
    \/ r.state \in {"LEASED", "VERIFYING"} /\ d = TakenBack(r)

LEMMA Finds ==
    ASSUME NEW r, RowOK(r), r.state # "ABSENT", NEW d, Found(r, d)
    PROVE  /\ RowOK(d) /\ d.state # "ABSENT" /\ Moves(r, d)
           /\ d.attempts = r.attempts /\ d.max_attempts = r.max_attempts
           /\ d.state = "QUEUED" =>
                 r.state \in {"QUEUED", "LEASED"} /\ d.verifier_id = r.verifier_id
           /\ d.state = "EXECUTED" =>
                 /\ r.state \in {"EXECUTED", "VERIFYING"}
                 /\ d.execution_worker_id = r.execution_worker_id
<1>1. CASE d = r
  BY <1>1 DEF Moves
<1>2. CASE r.state = "LEASED" /\ d = Requeued(r)
  BY <1>2, Requeues
<1>3. CASE r.state = "VERIFYING" /\ d = Reopened(r)
  BY <1>3, Reopens
<1> QED
  BY <1>1, <1>2, <1>3 DEF Found, TakenBack

----------------------------------------------------------------------------
(* Calls                                                                   *)

LEMMA CallFields ==
    ASSUME NEW call \in Calls
    PROVE  /\ call.op \in {"record_plan", "enqueue_job"} \cup Claims \cup RowCalls
           /\ call.op = "record_plan" =>
                 call.plan \in Plans /\ call.status \in {"VERIFIED_PLAN", "BLOCKED"}
           /\ call.op = "enqueue_job" =>
                 call.job \in Jobs /\ call.plan \in Plans /\ call.budget \in Budgets
           /\ call.op \in Claims =>
                 call.actor \in Actors /\ call.seconds \in LeaseSeconds \cup RenewSeconds
           /\ call.op \in RowCalls => call.job \in Jobs
           /\ call.op = "heartbeat_execution" => call.seconds \in RenewSeconds
           /\ call.op = "complete_execution" => call.receipt \in Receipts
           /\ call.op = "fail_execution" => call.delay \in RetryDelays
           /\ call.op = "complete_verification" => call.verdict \in Verdicts
BY DEF Calls, Claims, RowCalls

LEMMA Seconds ==
    /\ \A x \in LeaseSeconds \cup RenewSeconds, y \in Nat : y + x \in Int
    /\ \A x \in RetryDelays, y \in Nat : y + x \in Nat
<1>1. /\ LeaseSeconds \cup RenewSeconds \subseteq Int
      /\ RetryDelays \subseteq Nat
  BY PostgresAssumption
<1> QED
  BY <1>1

LEMMA GrantsMove ==
    ASSUME NEW r, RowOK(r), r.state # "ABSENT", NEW d, Found(r, d),
           NEW call \in Calls, call.op \in Claims, NEW at \in Nat, NEW token \in Nat,
           Eligible(call, d, at)
    PROVE  LET e == Granted(call, d, token, at)
           IN  RowOK(e) /\ e.state \in {"LEASED", "VERIFYING"} /\ Moves(r, e)
<1>1. PICK e : e = Granted(call, d, token, at)
  OBVIOUS
<1>2. /\ RowOK(d) /\ d \in Row /\ r \in Row
      /\ d.attempts = r.attempts /\ d.max_attempts = r.max_attempts
  BY Finds DEF RowOK
<1>3. call.actor \in Actors /\ at + call.seconds \in Int
  BY CallFields, Seconds
<1>4. CASE call.op = "claim_execution"
  <2>1. d.state = "QUEUED" /\ d.attempts < d.max_attempts
        /\ e = Leased(d, call.actor, token, at + call.seconds)
    BY <1>1, <1>4 DEF Eligible, Granted
  <2>2. d.attempts + 1 \in Nat
    BY <1>2 DEF Row
  <2>3. e \in Row
    BY <1>2, <1>3, <2>1, <2>2 DEF Leased, Row, JobStates
  <2>4. /\ e.state = "LEASED" /\ e.attempts = d.attempts + 1
        /\ e.max_attempts = d.max_attempts /\ e.execution_worker_id = call.actor
        /\ e.verifier_id = d.verifier_id
        /\ e.execution_lease_expires_at = at + call.seconds
    BY <1>2, <1>3, <2>1 DEF Leased, Row
  <2>5. Moves(r, e)
    BY <1>2, <1>3, <2>1, <2>3, <2>4, Finds, RowMoves
  <2>6. RowOK(e)
    BY <1>3, <2>3, <2>4 DEF RowOK
  <2> QED
    BY <1>1, <2>4, <2>5, <2>6
<1>5. CASE call.op = "claim_verification"
  <2>1. d.state = "EXECUTED" /\ d.execution_worker_id # call.actor
        /\ e = UnderInspection(d, call.actor, token, at + call.seconds)
    BY <1>1, <1>5 DEF Eligible, Granted
  <2>2. e \in Row
    BY <1>2, <1>3, <2>1 DEF UnderInspection, Row, JobStates
  <2>3. /\ e.state = "VERIFYING" /\ e.attempts = d.attempts
        /\ e.max_attempts = d.max_attempts /\ e.verifier_id = call.actor
        /\ e.execution_worker_id = d.execution_worker_id
        /\ e.verification_lease_expires_at = at + call.seconds
    BY <1>2, <1>3, <2>1 DEF UnderInspection, Row
  <2>4. Moves(r, e)
    BY <1>2, <1>3, <2>1, <2>2, <2>3, Finds, RowMoves
  <2>5. RowOK(e)
    BY <1>3, <2>2, <2>3 DEF RowOK
  <2> QED
    BY <1>1, <2>3, <2>4, <2>5
<1> QED
  BY <1>4, <1>5 DEF Claims

LEMMA UpdatesMove ==
    ASSUME NEW r, RowOK(r), NEW call \in Calls, call.op \in RowCalls, NEW at \in Nat,
           Permitted(call, r, at)
    PROVE  LET d == Updated(call, r, at)
           IN  RowOK(d) /\ d.state # "ABSENT" /\ Moves(r, d)
<1>1. PICK d : d = Updated(call, r, at)
  OBVIOUS
<1>2. r \in Row
  BY DEF RowOK
<1>3. CASE call.op = "heartbeat_execution"
  <2>1. r.state = "LEASED" /\ d = [r EXCEPT !.execution_lease_expires_at = at + call.seconds]
    BY <1>1, <1>3 DEF Permitted, Updated
  <2>2. at + call.seconds \in Int
    BY <1>3, CallFields, Seconds
  <2>3. d \in Row
    BY <1>2, <2>1, <2>2 DEF Row
  <2>4. d.state = "LEASED" /\ d.execution_lease_expires_at = at + call.seconds
    BY <1>2, <2>1 DEF Row
  <2>5. Moves(r, d)
    BY <1>2, <2>1 DEF Moves, LifeOf, Row
  <2> QED
    BY <1>1, <2>2, <2>3, <2>4, <2>5 DEF RowOK
<1>4. CASE call.op = "complete_execution"
  <2>1. r.state = "LEASED"
        /\ d = [r EXCEPT !.state = "EXECUTED", !.receipt = call.receipt,
                         !.execution_lease_hash = None, !.execution_lease_expires_at = None]
    BY <1>1, <1>4 DEF Permitted, Updated
  <2>2. call.receipt \in Receipts
    BY <1>4, CallFields
  <2>3. d \in Row
    BY <1>2, <2>1, <2>2 DEF Row, JobStates
  <2>4. /\ d.state = "EXECUTED" /\ d.attempts = r.attempts
        /\ d.max_attempts = r.max_attempts /\ d.verifier_id = r.verifier_id
        /\ d.execution_worker_id = r.execution_worker_id
    BY <1>2, <2>1 DEF Row
  <2>5. Moves(r, d)
    BY <1>2, <2>1, <2>3, <2>4, RowMoves
  <2> QED
    BY <1>1, <2>3, <2>4, <2>5 DEF RowOK
<1>5. CASE call.op = "fail_execution"
  <2>1. PICK q : q = Requeued(r)
    OBVIOUS
  <2>2. r.state = "LEASED" /\ d = [q EXCEPT !.available_at = at + call.delay]
    BY <1>1, <1>5, <2>1 DEF Permitted, Updated
  <2>3. RowOK(q) /\ q \in Row /\ q.state \in {"QUEUED", "FAILED"} /\ Moves(r, q)
    BY <2>1, <2>2, Requeues DEF RowOK
  <2>4. at + call.delay \in Nat
    BY <1>5, CallFields, Seconds
  <2>5. d \in Row /\ d.state = q.state
    BY <2>2, <2>3, <2>4 DEF Row
  <2>6. LifeOf(d) = LifeOf(q)
    BY <2>2, <2>3 DEF LifeOf, Row
  <2>7. Moves(r, d)
    BY <2>3, <2>6 DEF Moves
  <2> QED
    BY <1>1, <2>3, <2>5, <2>7 DEF RowOK
<1>6. CASE call.op = "complete_verification"
  <2>1. PICK verdict : verdict = call.verdict
    OBVIOUS
  <2>2. r.state = "VERIFYING"
        /\ d = [r EXCEPT !.state = verdict, !.verification_lease_hash = None,
                         !.verification_lease_expires_at = None]
    BY <1>1, <1>6, <2>1 DEF Permitted, Updated
  <2>3. verdict \in Verdicts
    BY <1>6, <2>1, CallFields
  <2>4. d \in Row
    BY <1>2, <2>2, <2>3 DEF Row, JobStates, Verdicts
  <2>5. /\ d.state = verdict /\ d.attempts = r.attempts
        /\ d.max_attempts = r.max_attempts /\ d.verifier_id = r.verifier_id
        /\ d.execution_worker_id = r.execution_worker_id
    BY <1>2, <2>2 DEF Row
  <2>6. Moves(r, d)
    BY <1>2, <2>2, <2>3, <2>4, <2>5, RowMoves
  <2>7. d.state \notin {"LEASED", "VERIFYING", "ABSENT"}
    BY <2>3, <2>5 DEF Verdicts
  <2> QED
    BY <1>1, <2>4, <2>6, <2>7 DEF RowOK
<1> QED
  BY <1>3, <1>4, <1>5, <1>6 DEF RowCalls

----------------------------------------------------------------------------
(* The chain of events                                                     *)

Linked(chain) ==
    /\ \A e \in chain : PrecedesIn(chain, e.prev, e.seq)
    /\ \A e, f \in chain : e.seq = f.seq => e = f

Headed(chain) == chain = {} \/ \E e \in chain : IsHead(e, chain)

Below(chain, n) == \A e \in chain : e.seq \in Nat /\ e.seq < n

\* The newest event of j is about this state.
Matches(chain, j, state) == {e.state : e \in Last(chain, j)} = {state} \ {"ABSENT"}

\* A new event with the next number and the number of the head continues a chain.
Continues(e, chain, n) ==
    /\ e \in Events /\ e.seq = n
    /\ \/ chain = {} /\ e.prev = 0
       \/ \E h \in chain : IsHead(h, chain) /\ e.prev = h.seq

LEMMA ChainGrows ==
    ASSUME NEW chain, NEW n \in Nat, Below(chain, n), Linked(chain), Headed(chain),
           NEW e, Continues(e, chain, n)
    PROVE  LET longer == chain \cup {e}
           IN  /\ Below(longer, n + 1) /\ Linked(longer) /\ Headed(longer)
               /\ \A j : \A state : j # e.job /\ Matches(chain, j, state) =>
                                      Matches(longer, j, state)
               /\ e.state # "ABSENT" => Matches(longer, e.job, e.state)
<1>1. PICK longer : longer = chain \cup {e}
  OBVIOUS
<1>2. e.seq = n /\ \A f \in chain : f.seq \in Nat /\ f.seq < n
  BY DEF Continues, Below
<1>3. Below(longer, n + 1)
  BY <1>1, <1>2 DEF Below
<1>4. IsHead(e, longer)
  BY <1>1, <1>2 DEF IsHead
<1>5. ASSUME NEW f \in longer PROVE PrecedesIn(longer, f.prev, f.seq)
  <2>1. CASE f \in chain
    <3>1. PrecedesIn(chain, f.prev, f.seq)
      BY <2>1 DEF Linked
    <3>2. {g \in longer : g.seq < f.seq} = {g \in chain : g.seq < f.seq}
      BY <1>1, <1>2, <2>1
    <3> QED
      BY <3>1, <3>2 DEF PrecedesIn
  <2>2. CASE f = e
    <3>1. {g \in longer : g.seq < e.seq} = chain
      BY <1>1, <1>2
    <3>2. CASE chain = {} /\ e.prev = 0
      BY <2>2, <3>1, <3>2 DEF PrecedesIn
    <3>3. CASE \E h \in chain : IsHead(h, chain) /\ e.prev = h.seq
      BY <2>2, <3>1, <3>3 DEF PrecedesIn, IsHead
    <3> QED
      BY <3>2, <3>3 DEF Continues
  <2> QED
    BY <1>1, <2>1, <2>2
<1>6. \A f, g \in longer : f.seq = g.seq => f = g
  BY <1>1, <1>2 DEF Linked
<1>7. Linked(longer) /\ Headed(longer)
  BY <1>1, <1>4, <1>5, <1>6 DEF Linked, Headed
<1>8. ASSUME NEW j, j # e.job PROVE Last(longer, j) = Last(chain, j)
  BY <1>1, <1>8 DEF Last
<1>9. Last(longer, e.job) = {e}
  <2>1. \A f \in longer : f.seq <= e.seq
    BY <1>4 DEF IsHead
  <2>2. e \in Last(longer, e.job)
    BY <1>1, <2>1 DEF Last
  <2>3. ASSUME NEW f \in Last(longer, e.job) PROVE f = e
    <3>1. f \in longer /\ e.seq <= f.seq
      BY <1>1, <2>3 DEF Last
    <3>2. f.seq \in Nat /\ e.seq \in Nat /\ f.seq <= e.seq
      BY <1>3, <2>1, <3>1, <1>2 DEF Below
    <3>3. f.seq = e.seq
      BY <3>1, <3>2
    <3> QED
      BY <1>1, <1>6, <3>1, <3>3
  <2> QED
    BY <2>2, <2>3
<1>10. \A j : \A state : j # e.job /\ Matches(chain, j, state) => Matches(longer, j, state)
  BY <1>8 DEF Matches
<1>11. e.state # "ABSENT" => Matches(longer, e.job, e.state)
  BY <1>9 DEF Matches
<1> QED
  BY <1>1, <1>3, <1>7, <1>10, <1>11

\* Events of other jobs do not count.
LEMMA OthersDoNotCount ==
    ASSUME NEW chain, NEW more, NEW j, \A e \in more : e.job # j
    PROVE  \A state : Matches(chain, j, state) => Matches(chain \cup more, j, state)
<1>1. Last(chain \cup more, j) = Last(chain, j)
  BY DEF Last
<1> QED
  BY <1>1 DEF Matches

\* append_event makes one event, which continues what the session sees.
Made(s, job, kind, state, e) ==
    /\ NewEvents(s, job, kind, state) = {e}
    /\ Continues(e, events \cup txn[s].out, nextSeq)
    /\ e.job = job /\ e.kind = kind /\ e.state = state

LEMMA OneEvent ==
    ASSUME NEW s, Headed(events \cup txn[s].out), Below(events \cup txn[s].out, nextSeq),
           nextSeq \in Nat, NEW job \in Jobs \cup {None}, NEW kind \in Kinds,
           NEW state \in JobStates \cup {"ABSENT"}
    PROVE  \E e : Made(s, job, kind, state, e)
<1>1. PICK chain : chain = events \cup txn[s].out
  OBVIOUS
<1>2. \E head \in Nat : /\ Heads(s) = {head}
                        /\ \/ chain = {} /\ head = 0
                           \/ \E h \in chain : IsHead(h, chain) /\ head = h.seq
  <2>1. CASE chain = {}
    BY <1>1, <2>1 DEF Heads
  <2>2. CASE chain # {}
    <3>1. PICK h \in chain : IsHead(h, chain)
      BY <1>1, <2>2 DEF Headed
    <3>2. Heads(s) = {e.seq : e \in {f \in chain : IsHead(f, chain)}}
      BY <1>1, <2>2 DEF Heads
    <3>3. \A f \in chain : IsHead(f, chain) => f.seq = h.seq
      BY <1>1, <3>1 DEF IsHead, Below
    <3>4. Heads(s) = {h.seq}
      BY <3>1, <3>2, <3>3
    <3>5. h.seq \in Nat
      BY <1>1, <3>1 DEF Below
    <3> QED
      BY <3>1, <3>4, <3>5
  <2> QED
    BY <2>1, <2>2
<1>3. PICK head \in Nat : /\ Heads(s) = {head}
                          /\ \/ chain = {} /\ head = 0
                             \/ \E h \in chain : IsHead(h, chain) /\ head = h.seq
  BY <1>2
<1>4. PICK e : e = [seq |-> nextSeq, prev |-> head, job |-> job, kind |-> kind,
                    state |-> state]
  OBVIOUS
<1>5. NewEvents(s, job, kind, state) = {e}
  BY <1>3, <1>4 DEF NewEvents
<1>6. e \in Events
  BY <1>3, <1>4 DEF Events
<1>7. Continues(e, chain, nextSeq)
  BY <1>3, <1>4, <1>6 DEF Continues
<1> QED
  BY <1>1, <1>4, <1>5, <1>7 DEF Made

----------------------------------------------------------------------------
(* The inductive invariant                                                 *)

Claiming == {"fetch", "reap", "select", "try"}

Types ==
    /\ clock \in Nat
    /\ plans \in [Plans -> {"ABSENT", "VERIFIED_PLAN", "BLOCKED"}]
    /\ jobs \in [Jobs -> Row] /\ \A j \in Jobs : RowOK(jobs[j])
    /\ draft \in [Jobs -> Row] /\ \A j \in Jobs : RowOK(draft[j])
    /\ events \subseteq Events
    /\ nextSeq \in Nat \ {0}
    /\ leases \in [Jobs -> Seq(LeaseRecords)]
    /\ holder \in [Jobs -> Sessions \cup {None}]
    /\ chainLock \in Sessions \cup {None}
    /\ txn \in [Sessions -> Transactions]

\* The tables, as committed.
Committed ==
    /\ Linked(events) /\ Headed(events) /\ Below(events, nextSeq)
    /\ \A j \in Jobs : Matches(events, j, jobs[j].state)
    /\ \A j \in Jobs : leases[j] # << >> => jobs[j].state # "ABSENT"

\* Of a transaction t of s: its call,
CallOK(t) ==
    t.pc # "idle" =>
        /\ t.call \in Calls /\ t.at <= clock
        /\ t.call.op = "enqueue_job" => jobs[t.call.job].state = "ABSENT"
        /\ t.call.op \in RowCalls => jobs[t.call.job].state # "ABSENT"

\* its beginning, at which it has no locks,
RestOK(s, t) ==
    t.pc \in {"idle", "start"} =>
        /\ \A j \in Jobs : holder[j] # s
        /\ chainLock # s /\ t.out = {} /\ t.job = None

\* the rows that a claim has found,
ClaimOK(s, t) ==
    /\ t.pc \in Claiming => t.call.op \in Claims /\ t.job = None
    /\ \A j \in t.todo : jobs[j].state # "ABSENT"
    /\ \A j \in t.batch : holder[j] = s /\ draft[j] = jobs[j] /\ Lapsed(jobs[j], t.at)
    /\ t.pc \notin {"fetch", "reap"} => t.batch = {}

OwnOK(s, t) ==
    t.pc \in {"append", "commit"} /\ t.job # None => holder[t.job] = s

\* its events, which are about rows it holds,
OutOK(s, t) ==
    \A e \in t.out :
        /\ chainLock = s
        /\ e.job # None => holder[e.job] = s
        /\ e.kind = "EXECUTION_LEASE_EXPIRED" =>
              e.job \in Jobs /\ ExecutionLapsed(jobs[e.job], t.at)
        /\ e.kind = "VERIFICATION_LEASE_EXPIRED" =>
              e.job \in Jobs /\ VerificationLapsed(jobs[e.job], t.at)

\* its rows, each a move away from the committed one,
HeldOK(s, t) ==
    \A j \in Jobs : holder[j] = s =>
        /\ jobs[j].state = "ABSENT" => t.call.op = "enqueue_job" /\ t.call.job = j
        /\ draft[j].state # "ABSENT" /\ Moves(jobs[j], draft[j])
        /\ t.pc \in Claiming => Found(jobs[j], draft[j])

\* and the chain that it sees.
LedgerOK(s, t) ==
    LET chain == events \cup t.out
    IN  /\ Linked(chain) /\ Headed(chain) /\ Below(chain, nextSeq)
        /\ \A j \in Jobs : holder[j] = s /\ ~ (t.pc = "append" /\ t.job = j) =>
              Matches(chain, j, draft[j].state)

SessionOK(s, t) ==
    /\ CallOK(t) /\ RestOK(s, t) /\ ClaimOK(s, t) /\ OwnOK(s, t)
    /\ OutOK(s, t) /\ HeldOK(s, t) /\ LedgerOK(s, t)

\* A job id is generated once.
Enqueues(t, j) == t.pc # "idle" /\ t.call.op = "enqueue_job" /\ t.call.job = j

Distinct ==
    \A s, u \in Sessions : \A j \in Jobs :
        Enqueues(txn[s], j) /\ Enqueues(txn[u], j) => s = u

IInv ==
    /\ Types /\ Committed /\ Distinct
    /\ \A s \in Sessions : SessionOK(s, txn[s])

----------------------------------------------------------------------------
(* What a step of one session leaves alone                                 *)

\* The locks of s change, and no others.
OnlyLocksOf(s) ==
    /\ \A j \in Jobs : \/ holder'[j] = holder[j] /\ draft'[j] = draft[j]
                       \/ holder[j] \in {None, s} /\ holder'[j] \in {None, s}
    /\ \/ chainLock' = chainLock
       \/ chainLock \in {None, s} /\ chainLock' \in {None, s}

\* The rows that s holds may change, and stay.
OnlyRowsOf(s) ==
    \A j \in Jobs : \/ jobs'[j] = jobs[j]
                    \/ /\ holder[j] = s /\ jobs'[j].state # "ABSENT"
                       /\ jobs[j].state = "ABSENT" => Enqueues(txn[s], j)

LEMMA NoneIsNoSession == None \notin Sessions /\ None \notin Jobs /\ None \notin Calls
BY PostgresAssumption

LEMMA Bystander ==
    ASSUME IInv, NEW s \in Sessions, NEW u \in Sessions, u # s, NEW t, t = txn[u],
           OnlyLocksOf(s), OnlyRowsOf(s), clock' \in Nat, clock <= clock'
    PROVE  /\ CallOK(t)' /\ RestOK(u, t)' /\ ClaimOK(u, t)' /\ OwnOK(u, t)'
           /\ OutOK(u, t)' /\ HeldOK(u, t)'
<1>1. t \in Transactions /\ SessionOK(u, t)
  BY DEF IInv, Types
<1>2. \A j \in Jobs : holder[j] \in Sessions \cup {None}
  BY DEF IInv, Types
<1>3. /\ \A j \in Jobs : holder[j] = u <=> holder'[j] = u
      /\ \A j \in Jobs : holder[j] = u => draft'[j] = draft[j] /\ jobs'[j] = jobs[j]
      /\ chainLock = u <=> chainLock' = u
  BY NoneIsNoSession DEF OnlyLocksOf, OnlyRowsOf
<1>4. \A j \in Jobs : jobs[j].state # "ABSENT" => jobs'[j].state # "ABSENT"
  BY DEF OnlyRowsOf
<1>5. t.todo \subseteq Jobs /\ t.batch \subseteq Jobs /\ t.job \in Jobs \cup {None}
      /\ t.out \subseteq Events /\ t.at \in Nat
  BY <1>1 DEF Transactions
<1>6. \A e \in t.out : e.job \in Jobs \cup {None}
  BY <1>5 DEF Events
<1>7. CallOK(t)'
  <2> SUFFICES ASSUME t.pc # "idle"
               PROVE  /\ t.call \in Calls /\ t.at <= clock'
                      /\ t.call.op = "enqueue_job" => jobs'[t.call.job].state = "ABSENT"
                      /\ t.call.op \in RowCalls => jobs'[t.call.job].state # "ABSENT"
    BY DEF CallOK
  <2>1. /\ t.call \in Calls /\ t.at <= clock
        /\ t.call.op = "enqueue_job" => jobs[t.call.job].state = "ABSENT"
        /\ t.call.op \in RowCalls => jobs[t.call.job].state # "ABSENT"
    BY <1>1 DEF SessionOK, CallOK
  <2>2. clock \in Nat /\ t.at <= clock'
    BY <1>5, <2>1 DEF IInv, Types
  <2>3. ASSUME t.call.op = "enqueue_job" PROVE jobs'[t.call.job].state = "ABSENT"
    <3>1. t.call.job \in Jobs /\ jobs[t.call.job].state = "ABSENT"
      BY <2>1, <2>3, CallFields
    <3>2. Enqueues(txn[u], t.call.job)
      BY <2>3 DEF Enqueues
    <3>3. ~ Enqueues(txn[s], t.call.job)
      BY <3>1, <3>2 DEF IInv, Distinct
    <3> QED
      BY <3>1, <3>3 DEF OnlyRowsOf
  <2>4. ASSUME t.call.op \in RowCalls PROVE jobs'[t.call.job].state # "ABSENT"
    BY <1>4, <2>1, <2>4, CallFields
  <2> QED
    BY <2>1, <2>2, <2>3, <2>4
<1>8. RestOK(u, t)'
  BY <1>1, <1>3 DEF SessionOK, RestOK
<1>9. ClaimOK(u, t)'
  BY <1>1, <1>3, <1>4, <1>5 DEF SessionOK, ClaimOK
<1>10. OwnOK(u, t)'
  BY <1>1, <1>3, <1>5 DEF SessionOK, OwnOK
<1>11. OutOK(u, t)'
  <2>1. \A e \in t.out : chainLock = u /\ (e.job \in Jobs => holder[e.job] = u)
    BY <1>1, NoneIsNoSession DEF SessionOK, OutOK
  <2>2. \A e \in t.out : e.job \in Jobs => jobs'[e.job] = jobs[e.job] /\ holder'[e.job] = u
    BY <1>3, <2>1
  <2> QED
    BY <1>1, <1>3, <1>6, <2>1, <2>2 DEF SessionOK, OutOK
<1>12. HeldOK(u, t)'
  BY <1>1, <1>3 DEF SessionOK, HeldOK
<1> QED
  BY <1>7, <1>8, <1>9, <1>10, <1>11, <1>12

LEMMA BystanderLedger ==
    ASSUME IInv, NEW s \in Sessions, NEW u \in Sessions, u # s, NEW t, t = txn[u],
           OnlyLocksOf(s), UNCHANGED events, nextSeq' \in Nat, nextSeq <= nextSeq'
    PROVE  LedgerOK(u, t)'
<1>1. LedgerOK(u, t) /\ nextSeq \in Nat
  BY DEF IInv, SessionOK, Types
<1>2. /\ \A j \in Jobs : holder'[j] = u => holder[j] = u /\ draft'[j] = draft[j]
  BY NoneIsNoSession DEF OnlyLocksOf
<1>3. Below(events \cup t.out, nextSeq')
  BY <1>1 DEF LedgerOK, Below
<1> QED
  BY <1>1, <1>2, <1>3 DEF LedgerOK

\* A step of s that is no commit.
LEMMA SessionStep ==
    ASSUME IInv, NEW s \in Sessions, NEW t \in Transactions, txn' = [txn EXCEPT ![s] = t],
           holder' \in [Jobs -> Sessions \cup {None}],
           draft' \in [Jobs -> Row], \A j \in Jobs : RowOK(draft'[j]),
           chainLock' \in Sessions \cup {None}, nextSeq' \in Nat, nextSeq <= nextSeq',
           OnlyLocksOf(s), UNCHANGED <<clock, plans, jobs, events, leases>>,
           t.pc = "idle" \/ (txn[s].pc # "idle" /\ t.call = txn[s].call),
           SessionOK(s, t)'
    PROVE  IInv'
<1>1. nextSeq \in Nat \ {0} /\ txn \in [Sessions -> Transactions] /\ Types
  BY DEF IInv, Types
<1>2. Types'
  BY <1>1 DEF Types
<1>3. Committed'
  BY <1>1 DEF IInv, Committed, Below
<1>4. /\ \A u \in Sessions \ {s} : txn'[u] = txn[u]
      /\ txn'[s] = t
  BY <1>1
<1>5. Distinct'
  <2>1. \A u \in Sessions : \A j \in Jobs : Enqueues(txn'[u], j) => Enqueues(txn[u], j)
    BY <1>4 DEF Enqueues
  <2> QED
    BY <2>1 DEF IInv, Distinct
<1>6. OnlyRowsOf(s)
  BY DEF OnlyRowsOf
<1>7. clock' \in Nat /\ clock <= clock'
  BY <1>1 DEF Types
<1>8. ASSUME NEW u \in Sessions PROVE SessionOK(u, txn[u])'
  <2>1. CASE u = s
    BY <1>4, <2>1
  <2>2. CASE u # s
    <3>1. PICK k : k = txn[u]
      OBVIOUS
    <3>2. SessionOK(u, k)'
      BY <1>6, <1>7, <2>2, <3>1, Bystander, BystanderLedger DEF SessionOK
    <3>3. txn'[u] = k
      BY <1>4, <2>2, <3>1
    <3> QED
      BY <3>2, <3>3
  <2> QED
    BY <2>1, <2>2
<1> QED
  BY <1>2, <1>3, <1>5, <1>8 DEF IInv

----------------------------------------------------------------------------
(* Steps that change no row and no event                                   *)

LEMMA Session ==
    ASSUME IInv, NEW s \in Sessions, NEW t, t = txn[s]
    PROVE  /\ t \in Transactions
           /\ CallOK(t) /\ RestOK(s, t) /\ ClaimOK(s, t) /\ OwnOK(s, t)
           /\ OutOK(s, t) /\ HeldOK(s, t) /\ LedgerOK(s, t)
           /\ t.at \in Nat /\ t.pc \in Points /\ t.call \in Calls \cup {None}
           /\ t.todo \subseteq Jobs /\ t.batch \subseteq Jobs
           /\ t.job \in Jobs \cup {None} /\ t.out \subseteq Events
<1>1. t \in Transactions /\ SessionOK(s, t)
  BY DEF IInv, Types
<1> QED
  BY <1>1 DEF SessionOK, Transactions

LEMMA Typing ==
    ASSUME IInv
    PROVE  /\ holder \in [Jobs -> Sessions \cup {None}] /\ draft \in [Jobs -> Row]
           /\ jobs \in [Jobs -> Row]
           /\ \A j \in Jobs : RowOK(draft[j]) /\ RowOK(jobs[j])
           /\ chainLock \in Sessions \cup {None} /\ nextSeq \in Nat /\ clock \in Nat
           /\ txn \in [Sessions -> Transactions]
BY DEF IInv, Types

LEMMA SameLocks ==
    ASSUME NEW s, UNCHANGED <<holder, draft, chainLock>> PROVE OnlyLocksOf(s)
BY DEF OnlyLocksOf

LEMMA Goes ==
    ASSUME IInv, NEW s \in Sessions, NEW u, u = txn[s], NEW t \in Transactions,
           txn' = [txn EXCEPT ![s] = t],
           UNCHANGED <<clock, plans, jobs, events, nextSeq, leases, holder, draft, chainLock>>,
           t.call = u.call, t.at = u.at, t.out = u.out, t.batch = u.batch, t.job = u.job,
           u.pc \in {"start"} \cup Claiming, t.pc \notin {"idle", "start"},
           t.pc \in Claiming => t.call.op \in Claims,
           t.pc \notin {"fetch", "reap"} => t.batch = {},
           \A j \in t.todo : jobs[j].state # "ABSENT"
    PROVE  IInv'
<1>1. /\ CallOK(u) /\ RestOK(s, u) /\ ClaimOK(s, u) /\ OwnOK(s, u)
      /\ OutOK(s, u) /\ HeldOK(s, u) /\ LedgerOK(s, u)
  BY Session
<1>2. u.pc # "idle" /\ u.job = None
  BY <1>1 DEF Claiming, RestOK, ClaimOK
<1>3. CallOK(t)' /\ RestOK(s, t)' /\ OwnOK(s, t)' /\ OutOK(s, t)'
  BY <1>1, <1>2 DEF CallOK, RestOK, OwnOK, OutOK
<1>4. ClaimOK(s, t)'
  BY <1>1, <1>2 DEF ClaimOK
<1>5. HeldOK(s, t)'
  <2>1. CASE u.pc = "start"
    BY <1>1, <2>1 DEF RestOK, HeldOK
  <2>2. CASE u.pc \in Claiming
    BY <1>1, <2>2 DEF HeldOK
  <2> QED
    BY <2>1, <2>2
<1>6. LedgerOK(s, t)'
  <2>1. u.pc # "append"
    BY DEF Claiming
  <2> QED
    BY <1>1, <2>1 DEF LedgerOK
<1>7. OnlyLocksOf(s)
  BY SameLocks
<1>8. SessionOK(s, t)'
  BY <1>3, <1>4, <1>5, <1>6 DEF SessionOK
<1>9. /\ holder' \in [Jobs -> Sessions \cup {None}]
      /\ draft' \in [Jobs -> Row] /\ \A j \in Jobs : RowOK(draft'[j])
      /\ chainLock' \in Sessions \cup {None} /\ nextSeq' \in Nat /\ nextSeq <= nextSeq'
      /\ UNCHANGED <<clock, plans, jobs, events, leases>>
  BY Typing
<1>10. txn[s].pc # "idle" /\ t.call = txn[s].call
  BY <1>2
<1> QED
  BY <1>7, <1>8, <1>9, <1>10, SessionStep

LEMMA StartPlanOK ==
    ASSUME IInv, NEW s \in Sessions, StartPlan(s) PROVE IInv'
<1>1. PICK u : u = txn[s]
  OBVIOUS
<1>2. PICK t : t = [u EXCEPT !.pc = "append"]
  OBVIOUS
<1>3. /\ u.pc = "start" /\ txn' = [txn EXCEPT ![s] = t]
      /\ UNCHANGED <<clock, plans, jobs, events, nextSeq, leases, holder, draft, chainLock>>
  BY <1>1, <1>2 DEF StartPlan
<1>4. u \in Transactions /\ ClaimOK(s, u)
  BY <1>1, Session
<1>5. /\ t \in Transactions /\ t.pc = "append" /\ t.call = u.call /\ t.at = u.at
      /\ t.out = u.out /\ t.batch = u.batch /\ t.job = u.job /\ t.todo = u.todo
  BY <1>2, <1>4 DEF Transactions, Points
<1>6. t.batch = {} /\ \A j \in t.todo : jobs[j].state # "ABSENT"
  BY <1>3, <1>4, <1>5 DEF ClaimOK
<1> QED
  BY <1>1, <1>3, <1>5, <1>6, Goes DEF Claiming

LEMMA ScanLapsedOK ==
    ASSUME IInv, NEW s \in Sessions, ScanLapsed(s) PROVE IInv'
<1>1. PICK u : u = txn[s]
  OBVIOUS
<1>2. PICK S : S = {j \in Jobs : Lapsed(Seen(s, j), u.at)}
  OBVIOUS
<1>3. PICK next \in AnyOf(S) :
         txn' = [txn EXCEPT ![s] = [u EXCEPT !.pc = "fetch", !.todo = S, !.next = next]]
  BY <1>1, <1>2 DEF ScanLapsed
<1>4. PICK t : t = [u EXCEPT !.pc = "fetch", !.todo = S, !.next = next]
  OBVIOUS
<1>5. /\ u.pc = "start" /\ u.call.op \in Claims /\ txn' = [txn EXCEPT ![s] = t]
      /\ UNCHANGED <<clock, plans, jobs, events, nextSeq, leases, holder, draft, chainLock>>
  BY <1>1, <1>3, <1>4 DEF ScanLapsed
<1>6. u \in Transactions /\ RestOK(s, u)
  BY <1>1, Session
<1>7. S \subseteq Jobs /\ next \in Jobs \cup {None}
  BY <1>2 DEF AnyOf
<1>8. /\ t \in Transactions /\ t.pc = "fetch" /\ t.call = u.call /\ t.at = u.at
      /\ t.out = u.out /\ t.batch = u.batch /\ t.job = u.job /\ t.todo = S
  BY <1>4, <1>6, <1>7 DEF Transactions, Points
<1>9. \A j \in S : jobs[j].state # "ABSENT"
  BY <1>2, <1>5, <1>6 DEF RestOK, Seen, Lapsed, ExecutionLapsed, VerificationLapsed
<1> QED
  BY <1>1, <1>5, <1>8, <1>9, Goes DEF Claiming

LEMMA FetchedOK ==
    ASSUME IInv, NEW s \in Sessions, Fetched(s) PROVE IInv'
<1>1. PICK u : u = txn[s]
  OBVIOUS
<1>2. PICK t : t = [u EXCEPT !.pc = "reap"]
  OBVIOUS
<1>3. /\ u.pc = "fetch" /\ txn' = [txn EXCEPT ![s] = t]
      /\ UNCHANGED <<clock, plans, jobs, events, nextSeq, leases, holder, draft, chainLock>>
  BY <1>1, <1>2 DEF Fetched
<1>4. u \in Transactions /\ ClaimOK(s, u)
  BY <1>1, Session
<1>5. /\ t \in Transactions /\ t.pc = "reap" /\ t.call = u.call /\ t.at = u.at
      /\ t.out = u.out /\ t.batch = u.batch /\ t.job = u.job /\ t.todo = u.todo
  BY <1>2, <1>4 DEF Transactions, Points
<1>6. u.call.op \in Claims /\ \A j \in t.todo : jobs[j].state # "ABSENT"
  BY <1>3, <1>4, <1>5 DEF ClaimOK, Claiming
<1> QED
  BY <1>1, <1>3, <1>5, <1>6, Goes DEF Claiming

LEMMA ReapedOK ==
    ASSUME IInv, NEW s \in Sessions, Reaped(s) PROVE IInv'
<1>1. PICK u : u = txn[s]
  OBVIOUS
<1>2. PICK pc : pc = IF u.todo = {} THEN "select" ELSE "fetch"
  OBVIOUS
<1>3. PICK t : t = [u EXCEPT !.pc = pc]
  OBVIOUS
<1>4. /\ u.pc = "reap" /\ u.batch = {} /\ txn' = [txn EXCEPT ![s] = t]
      /\ UNCHANGED <<clock, plans, jobs, events, nextSeq, leases, holder, draft, chainLock>>
  BY <1>1, <1>2, <1>3 DEF Reaped
<1>5. u \in Transactions /\ ClaimOK(s, u) /\ pc \in {"select", "fetch"}
  BY <1>1, <1>2, Session
<1>6. /\ t \in Transactions /\ t.pc = pc /\ t.call = u.call /\ t.at = u.at
      /\ t.out = u.out /\ t.batch = u.batch /\ t.job = u.job /\ t.todo = u.todo
  BY <1>3, <1>5 DEF Transactions, Points
<1>7. u.call.op \in Claims /\ \A j \in t.todo : jobs[j].state # "ABSENT"
  BY <1>4, <1>5, <1>6 DEF ClaimOK, Claiming
<1> QED
  BY <1>1, <1>4, <1>5, <1>6, <1>7, Goes DEF Claiming

LEMMA SelectOK ==
    ASSUME IInv, NEW s \in Sessions, Select(s) PROVE IInv'
<1>1. PICK u : u = txn[s]
  OBVIOUS
<1>2. PICK S : S = {j \in Jobs : Eligible(u.call, Seen(s, j), u.at)}
  OBVIOUS
<1>3. PICK t : t = [u EXCEPT !.pc = "try", !.todo = S]
  OBVIOUS
<1>4. /\ u.pc = "select" /\ txn' = [txn EXCEPT ![s] = t]
      /\ UNCHANGED <<clock, plans, jobs, events, nextSeq, leases, holder, draft, chainLock>>
  BY <1>1, <1>2, <1>3 DEF Select
<1>5. u \in Transactions /\ ClaimOK(s, u) /\ HeldOK(s, u)
  BY <1>1, Session
<1>6. /\ t \in Transactions /\ t.pc = "try" /\ t.call = u.call /\ t.at = u.at
      /\ t.out = u.out /\ t.batch = u.batch /\ t.job = u.job /\ t.todo = S
  BY <1>2, <1>3, <1>5 DEF Transactions, Points
<1>7. u.call.op \in Claims /\ u.batch = {}
  BY <1>4, <1>5 DEF ClaimOK, Claiming
<1>8. ASSUME NEW j \in S PROVE jobs[j].state # "ABSENT"
  <2>1. j \in Jobs /\ Eligible(u.call, Seen(s, j), u.at)
    BY <1>2
  <2>2. CASE holder[j] = s
    BY <1>5, <1>7, <2>1, <2>2 DEF HeldOK, Claims
  <2>3. CASE holder[j] # s
    BY <2>1, <2>3 DEF Seen, Eligible
  <2> QED
    BY <2>2, <2>3
<1> QED
  BY <1>1, <1>4, <1>6, <1>7, <1>8, Goes DEF Claiming

LEMMA FindNothingOK ==
    ASSUME IInv, NEW s \in Sessions, FindNothing(s) PROVE IInv'
<1>1. PICK u : u = txn[s]
  OBVIOUS
<1>2. PICK t : t = [u EXCEPT !.pc = "commit"]
  OBVIOUS
<1>3. /\ u.pc = "try" /\ u.todo = {} /\ txn' = [txn EXCEPT ![s] = t]
      /\ UNCHANGED <<clock, plans, jobs, events, nextSeq, leases, holder, draft, chainLock>>
  BY <1>1, <1>2 DEF FindNothing
<1>4. u \in Transactions /\ ClaimOK(s, u)
  BY <1>1, Session
<1>5. /\ t \in Transactions /\ t.pc = "commit" /\ t.call = u.call /\ t.at = u.at
      /\ t.out = u.out /\ t.batch = u.batch /\ t.job = u.job /\ t.todo = u.todo
  BY <1>2, <1>4 DEF Transactions, Points
<1>6. u.batch = {}
  BY <1>3, <1>4 DEF ClaimOK
<1> QED
  BY <1>1, <1>3, <1>5, <1>6, Goes DEF Claiming

----------------------------------------------------------------------------
(* Steps that lock a row                                                   *)

\* The lock is granted, and the draft takes the place of the row.
LEMMA LockTaken ==
    ASSUME IInv, NEW s \in Sessions, NEW j \in Jobs, holder[j] \in {None, s},
           NEW d, RowOK(d), Locked(s, j, d), UNCHANGED chainLock
    PROVE  /\ holder' \in [Jobs -> Sessions \cup {None}]
           /\ draft' \in [Jobs -> Row] /\ \A i \in Jobs : RowOK(draft'[i])
           /\ holder'[j] = s /\ draft'[j] = d
           /\ \A i \in Jobs \ {j} : holder'[i] = holder[i] /\ draft'[i] = draft[i]
           /\ OnlyLocksOf(s)
<1>1. /\ holder \in [Jobs -> Sessions \cup {None}] /\ draft \in [Jobs -> Row]
      /\ \A i \in Jobs : RowOK(draft[i])
  BY Typing
<1>2. d \in Row
  BY DEF RowOK
<1>3. holder' = [holder EXCEPT ![j] = s] /\ draft' = [draft EXCEPT ![j] = d]
  BY DEF Locked
<1>4. /\ holder'[j] = s /\ draft'[j] = d
      /\ \A i \in Jobs \ {j} : holder'[i] = holder[i] /\ draft'[i] = draft[i]
  BY <1>1, <1>3
<1>5. holder' \in [Jobs -> Sessions \cup {None}] /\ draft' \in [Jobs -> Row]
  BY <1>1, <1>2, <1>3
<1>6. \A i \in Jobs : RowOK(draft'[i])
  BY <1>1, <1>4
<1>7. OnlyLocksOf(s)
  BY <1>4 DEF OnlyLocksOf
<1> QED
  BY <1>4, <1>5, <1>6, <1>7

\* Rows that nobody holds have no events that are not committed.
LEMMA FreshRow ==
    ASSUME IInv, NEW s \in Sessions, NEW u, u = txn[s], NEW j \in Jobs, holder[j] # s
    PROVE  Matches(events \cup u.out, j, jobs[j].state)
<1>1. OutOK(s, u)
  BY Session
<1>2. \A e \in u.out : e.job # j
  BY <1>1, NoneIsNoSession DEF OutOK
<1> QED
  BY <1>2, OthersDoNotCount DEF IInv, Committed

\* The row of the call is written.
LEMMA FirstRow ==
    ASSUME IInv, NEW s \in Sessions, NEW u, u = txn[s], u.pc = "start",
           NEW j \in Jobs, holder[j] = None, NEW d, RowOK(d), Locked(s, j, d),
           d.state # "ABSENT", Moves(jobs[j], d),
           jobs[j].state = "ABSENT" => u.call.op = "enqueue_job" /\ u.call.job = j,
           txn' = [txn EXCEPT ![s] = [u EXCEPT !.pc = "append", !.job = j]],
           UNCHANGED <<clock, plans, jobs, events, nextSeq, leases, chainLock>>
    PROVE  IInv'
<1>1. PICK t : t = [u EXCEPT !.pc = "append", !.job = j]
  OBVIOUS
<1>2. /\ u \in Transactions
      /\ CallOK(u) /\ RestOK(s, u) /\ ClaimOK(s, u) /\ OutOK(s, u) /\ LedgerOK(s, u)
  BY Session
<1>3. /\ t \in Transactions /\ t.pc = "append" /\ t.call = u.call /\ t.at = u.at
      /\ t.out = u.out /\ t.batch = u.batch /\ t.job = j /\ t.todo = u.todo
  BY <1>1, <1>2 DEF Transactions, Points
<1>4. /\ holder' \in [Jobs -> Sessions \cup {None}]
      /\ draft' \in [Jobs -> Row] /\ \A i \in Jobs : RowOK(draft'[i])
      /\ holder'[j] = s /\ draft'[j] = d
      /\ \A i \in Jobs \ {j} : holder'[i] = holder[i] /\ draft'[i] = draft[i]
      /\ OnlyLocksOf(s)
  BY LockTaken
<1>5. \A i \in Jobs : holder'[i] = s <=> i = j
  BY <1>2, <1>4 DEF RestOK
<1>6. u.out = {} /\ t.batch = {}
  BY <1>2, <1>3 DEF RestOK, ClaimOK
<1>7. CallOK(t)' /\ RestOK(s, t)' /\ OwnOK(s, t)' /\ OutOK(s, t)'
  BY <1>2, <1>3, <1>4, <1>6 DEF CallOK, RestOK, OwnOK, OutOK
<1>8. ClaimOK(s, t)'
  BY <1>2, <1>3, <1>6 DEF ClaimOK, Claiming
<1>9. HeldOK(s, t)'
  BY <1>3, <1>4, <1>5 DEF HeldOK, Claiming
<1>10. LedgerOK(s, t)'
  BY <1>2, <1>3, <1>5 DEF LedgerOK
<1>11. SessionOK(s, t)'
  BY <1>7, <1>8, <1>9, <1>10 DEF SessionOK
<1>12. /\ chainLock' \in Sessions \cup {None} /\ nextSeq' \in Nat /\ nextSeq <= nextSeq'
       /\ txn' = [txn EXCEPT ![s] = t] /\ txn[s].pc # "idle" /\ t.call = txn[s].call
       /\ UNCHANGED <<clock, plans, jobs, events, leases>>
  BY <1>1, <1>3, Typing
<1> QED
  BY <1>3, <1>4, <1>11, <1>12, SessionStep

\* The transaction ends and releases its locks.
LEMMA Released ==
    ASSUME IInv, NEW s \in Sessions, txn' = [txn EXCEPT ![s] = Idle],
           holder' \in [Jobs -> Sessions \cup {None}],
           draft' \in [Jobs -> Row], \A j \in Jobs : RowOK(draft'[j]),
           chainLock' \in Sessions \cup {None}, OnlyLocksOf(s),
           \A j \in Jobs : holder'[j] # s, chainLock' # s,
           UNCHANGED <<clock, plans, jobs, events, nextSeq, leases>>
    PROVE  IInv'
<1>1. PICK t : t = Idle
  OBVIOUS
<1>2. /\ t \in Transactions /\ t.pc = "idle" /\ t.out = {} /\ t.job = None
      /\ t.todo = {} /\ t.batch = {}
  BY <1>1 DEF Idle, Transactions, Points
<1>3. CallOK(t)' /\ RestOK(s, t)' /\ ClaimOK(s, t)' /\ OwnOK(s, t)' /\ OutOK(s, t)'
  BY <1>2 DEF CallOK, RestOK, ClaimOK, OwnOK, OutOK, Claiming
<1>4. HeldOK(s, t)'
  BY DEF HeldOK
<1>5. LedgerOK(s, t)'
  BY <1>2 DEF LedgerOK, IInv, Committed
<1>6. SessionOK(s, t)'
  BY <1>3, <1>4, <1>5 DEF SessionOK
<1>7. /\ nextSeq' \in Nat /\ nextSeq <= nextSeq'
      /\ txn' = [txn EXCEPT ![s] = t]
      /\ UNCHANGED <<clock, plans, jobs, events, leases>>
  BY <1>1, Typing
<1> QED
  BY <1>2, <1>6, <1>7, SessionStep

LEMMA RaiseOK ==
    ASSUME IInv, NEW s \in Sessions, txn[s].pc = "start", Raise(s),
           UNCHANGED <<clock, plans, jobs, events, nextSeq, leases, chainLock>>
    PROVE  IInv'
<1>1. PICK u : u = txn[s]
  OBVIOUS
<1>2. (\A j \in Jobs : holder[j] # s) /\ chainLock # s
  BY <1>1, Session DEF RestOK
<1>3. /\ txn' = [txn EXCEPT ![s] = Idle]
      /\ UNCHANGED <<clock, plans, jobs, events, nextSeq, leases, holder, draft, chainLock>>
  BY DEF Raise
<1>4. OnlyLocksOf(s)
  BY <1>3, SameLocks
<1>5. /\ holder' \in [Jobs -> Sessions \cup {None}]
      /\ draft' \in [Jobs -> Row] /\ (\A j \in Jobs : RowOK(draft'[j]))
      /\ chainLock' \in Sessions \cup {None}
      /\ (\A j \in Jobs : holder'[j] # s) /\ chainLock' # s
  BY <1>2, <1>3, Typing
<1> QED
  BY <1>3, <1>4, <1>5, Released

LEMMA NoRowOK == RowOK(NoRow) /\ NoRow \in Row
<1>1. NoRow \in Row
  BY DEF NoRow, Row
<1> QED
  BY <1>1 DEF RowOK, NoRow

\* What the end of a transaction releases.
LEMMA UnlockedLocks ==
    ASSUME IInv, NEW s \in Sessions, Unlocked(s)
    PROVE  /\ holder' \in [Jobs -> Sessions \cup {None}]
           /\ draft' \in [Jobs -> Row] /\ (\A j \in Jobs : RowOK(draft'[j]))
           /\ chainLock' \in Sessions \cup {None} /\ OnlyLocksOf(s)
           /\ (\A j \in Jobs : holder'[j] # s) /\ chainLock' # s
<1>1. /\ holder \in [Jobs -> Sessions \cup {None}] /\ draft \in [Jobs -> Row]
      /\ (\A j \in Jobs : RowOK(draft[j])) /\ chainLock \in Sessions \cup {None}
  BY Typing
<1>2. /\ \A j \in Jobs : holder'[j] = IF holder[j] = s THEN None ELSE holder[j]
      /\ \A j \in Jobs : draft'[j] = IF holder[j] = s THEN NoRow ELSE draft[j]
      /\ chainLock' = IF chainLock = s THEN None ELSE chainLock
  BY DEF Unlocked
<1>3. holder' \in [Jobs -> Sessions \cup {None}]
  BY <1>1 DEF Unlocked
<1>4. draft' \in [Jobs -> Row]
  BY <1>1, NoRowOK DEF Unlocked
<1>5. \A j \in Jobs : RowOK(draft'[j])
  BY <1>1, <1>2, NoRowOK
<1>6. OnlyLocksOf(s)
  BY <1>2 DEF OnlyLocksOf
<1>7. (\A j \in Jobs : holder'[j] # s) /\ chainLock' # s /\ chainLock' \in Sessions \cup {None}
  BY <1>1, <1>2, NoneIsNoSession
<1> QED
  BY <1>3, <1>4, <1>5, <1>6, <1>7

LEMMA RollbackOK ==
    ASSUME IInv, NEW s \in Sessions, Rollback(s) PROVE IInv'
<1>1. /\ Unlocked(s) /\ txn' = [txn EXCEPT ![s] = Idle]
      /\ UNCHANGED <<clock, plans, jobs, events, nextSeq, leases>>
  BY DEF Rollback
<1> QED
  BY <1>1, UnlockedLocks, Released

LEMMA InsertOK ==
    ASSUME IInv, NEW s \in Sessions, Insert(s) PROVE IInv'
<1>1. PICK u : u = txn[s]
  OBVIOUS
<1>2. u.pc = "start" /\ u.call.op = "enqueue_job"
      /\ UNCHANGED <<clock, plans, jobs, events, nextSeq, leases, chainLock>>
  BY <1>1 DEF Insert
<1>3. CASE Raise(s)
  BY <1>1, <1>2, <1>3, RaiseOK
<1>4. CASE ~ Raise(s)
  <2>1. PICK j : j = u.call.job
    OBVIOUS
  <2>2. PICK d : d = [NoRow EXCEPT !.state = "QUEUED", !.available_at = u.at,
                                   !.max_attempts = u.call.budget]
    OBVIOUS
  <2>3. /\ Locked(s, j, d)
        /\ txn' = [txn EXCEPT ![s] = [u EXCEPT !.pc = "append", !.job = j]]
    BY <1>1, <1>4, <2>1, <2>2 DEF Insert
  <2>4. u.call \in Calls /\ CallOK(u) /\ RestOK(s, u) /\ u.at \in Nat
    BY <1>1, <1>2, Session DEF CallOK
  <2>5. j \in Jobs /\ u.call.budget \in Budgets /\ jobs[j].state = "ABSENT"
    BY <1>2, <2>1, <2>4, CallFields DEF CallOK
  <2>6. u.call.budget \in Nat
    <3>1. Budgets \subseteq Nat
      BY PostgresAssumption
    <3> QED
      BY <2>5, <3>1
  <2>7. jobs[j] = NoRow
    BY <2>5, Typing DEF RowOK
  <2>8. d \in Row
    BY <2>2, <2>4, <2>6, NoRowOK DEF Row, JobStates
  <2>9. /\ d.state = "QUEUED" /\ d.max_attempts = u.call.budget
        /\ d.attempts = NoRow.attempts
        /\ d.execution_worker_id = NoRow.execution_worker_id
        /\ d.verifier_id = NoRow.verifier_id
    BY <2>2, NoRowOK DEF Row
  <2>10. Moves(jobs[j], d) /\ RowOK(d)
    <3>1. NoRow.state = "ABSENT"
      BY DEF NoRow
    <3> QED
      BY <2>5, <2>7, <2>8, <2>9, <3>1, NoRowOK, RowMoves DEF RowOK
  <2>11. holder[j] = None
    <3>1. SUFFICES ASSUME NEW w \in Sessions, holder[j] = w PROVE FALSE
      BY <2>5, Typing
    <3>2. PICK k : k = txn[w]
      OBVIOUS
    <3>3. RestOK(w, k) /\ HeldOK(w, k)
      BY <3>2, Session
    <3>4. Enqueues(txn[w], j)
      BY <2>5, <3>1, <3>2, <3>3 DEF RestOK, HeldOK, Enqueues
    <3>5. Enqueues(txn[s], j)
      BY <1>1, <1>2, <2>1 DEF Enqueues
    <3>6. w = s
      BY <2>5, <3>4, <3>5 DEF IInv, Distinct
    <3> QED
      BY <1>2, <2>4, <2>5, <3>1, <3>6 DEF RestOK
  <2> QED
    BY <1>1, <1>2, <2>1, <2>3, <2>5, <2>9, <2>10, <2>11, FirstRow
<1> QED
  BY <1>3, <1>4

LEMMA LockRowOK ==
    ASSUME IInv, NEW s \in Sessions, LockRow(s) PROVE IInv'
<1>1. PICK u : u = txn[s]
  OBVIOUS
<1>2. u.pc = "start" /\ u.call.op \in RowCalls
      /\ UNCHANGED <<clock, plans, jobs, events, nextSeq, leases, chainLock>>
  BY <1>1 DEF LockRow
<1>3. CASE Raise(s)
  BY <1>1, <1>2, <1>3, RaiseOK
<1>4. CASE ~ Raise(s)
  <2>1. PICK j : j = u.call.job
    OBVIOUS
  <2>2. PICK d : d = Updated(u.call, jobs[j], u.at)
    OBVIOUS
  <2>3. /\ RowIsFree(j) /\ Permitted(u.call, jobs[j], u.at) /\ Locked(s, j, d)
        /\ txn' = [txn EXCEPT ![s] = [u EXCEPT !.pc = "append", !.job = j]]
    BY <1>1, <1>4, <2>1, <2>2 DEF LockRow
  <2>4. u.call \in Calls /\ CallOK(u) /\ u.at \in Nat
    BY <1>1, <1>2, Session DEF CallOK
  <2>5. j \in Jobs /\ jobs[j].state # "ABSENT"
    BY <1>2, <2>1, <2>4, CallFields DEF CallOK
  <2>6. RowOK(d) /\ d.state # "ABSENT" /\ Moves(jobs[j], d)
    BY <1>2, <2>2, <2>3, <2>4, <2>5, Typing, UpdatesMove
  <2> QED
    BY <1>1, <1>2, <2>3, <2>5, <2>6, FirstRow DEF RowIsFree
<1> QED
  BY <1>3, <1>4

\* A claim locks a row as it finds it.
LEMMA ClaimLock ==
    ASSUME IInv, NEW s \in Sessions, NEW u, u = txn[s], u.pc \in Claiming,
           NEW j \in Jobs, jobs[j].state # "ABSENT", holder[j] \in {None, s},
           Locked(s, j, Seen(s, j)),
           NEW t \in Transactions, txn' = [txn EXCEPT ![s] = t],
           t.pc = u.pc, t.call = u.call, t.at = u.at, t.out = u.out, t.job = u.job,
           t.todo \subseteq u.todo,
           \/ t.batch = u.batch
           \/ /\ t.batch = u.batch \cup {j} /\ t.pc = "fetch"
              /\ holder[j] = None /\ Lapsed(jobs[j], t.at),
           UNCHANGED <<clock, plans, jobs, events, nextSeq, leases, chainLock>>
    PROVE  IInv'
<1>1. PICK d : d = Seen(s, j)
  OBVIOUS
<1>2. /\ CallOK(u) /\ RestOK(s, u) /\ ClaimOK(s, u) /\ OutOK(s, u) /\ HeldOK(s, u)
      /\ LedgerOK(s, u)
  BY Session
<1>3. /\ holder[j] = s => d = draft[j]
      /\ holder[j] # s => d = jobs[j]
  BY <1>1 DEF Seen
<1>4. RowOK(d)
  BY <1>3, Typing
<1>5. /\ holder' \in [Jobs -> Sessions \cup {None}]
      /\ draft' \in [Jobs -> Row] /\ \A i \in Jobs : RowOK(draft'[i])
      /\ holder'[j] = s /\ draft'[j] = d
      /\ \A i \in Jobs \ {j} : holder'[i] = holder[i] /\ draft'[i] = draft[i]
      /\ OnlyLocksOf(s)
  BY <1>1, <1>4, LockTaken
<1>6. /\ \A i \in Jobs : holder[i] = s => holder'[i] = s /\ draft'[i] = draft[i]
      /\ \A i \in Jobs : holder'[i] = s => holder[i] = s \/ (i = j /\ draft'[i] = jobs[i])
  BY <1>3, <1>5
<1>7. CallOK(t)'
  BY <1>2 DEF CallOK
<1>8. RestOK(s, t)' /\ OwnOK(s, t)'
  BY DEF RestOK, OwnOK, Claiming
<1>9. ClaimOK(s, t)'
  <2>1. u.batch \subseteq Jobs
    BY Session
  <2>2. \A i \in t.batch : holder'[i] = s /\ draft'[i] = jobs[i] /\ Lapsed(jobs[i], t.at)
    <3>1. \A i \in u.batch : holder'[i] = s /\ draft'[i] = jobs[i] /\ Lapsed(jobs[i], t.at)
      BY <1>2, <1>6, <2>1 DEF ClaimOK
    <3>2. holder[j] = None => holder'[j] = s /\ draft'[j] = jobs[j]
      BY <1>3, <1>5, NoneIsNoSession
    <3> QED
      BY <3>1, <3>2
  <2>3. \A i \in t.todo : jobs[i].state # "ABSENT"
    BY <1>2 DEF ClaimOK
  <2>4. /\ t.pc \in Claiming => t.call.op \in Claims /\ t.job = None
        /\ t.pc \notin {"fetch", "reap"} => t.batch = {}
    BY <1>2 DEF ClaimOK
  <2> QED
    BY <2>2, <2>3, <2>4 DEF ClaimOK
<1>10. OutOK(s, t)'
  <2>1. \A e \in u.out : e.job \in Jobs \cup {None}
    BY Session DEF Events
  <2> QED
    BY <1>2, <1>6, <2>1 DEF OutOK
<1>11. HeldOK(s, t)'
  <2>1. ASSUME NEW i \in Jobs, holder[i] = s
        PROVE  /\ jobs[i].state = "ABSENT" => t.call.op = "enqueue_job" /\ t.call.job = i
               /\ draft'[i].state # "ABSENT" /\ Moves(jobs[i], draft'[i])
               /\ Found(jobs[i], draft'[i])
    BY <1>2, <1>6, <2>1 DEF HeldOK
  <2>2. ASSUME NEW i \in Jobs, i = j, draft'[i] = jobs[i]
        PROVE  /\ draft'[i].state # "ABSENT" /\ Moves(jobs[i], draft'[i])
               /\ Found(jobs[i], draft'[i])
    BY <2>2 DEF Moves, Found
  <2> QED
    BY <1>6, <2>1, <2>2 DEF HeldOK
<1>12. LedgerOK(s, t)'
  <2>1. PICK chain : chain = events \cup u.out
    OBVIOUS
  <2>2. Linked(chain) /\ Headed(chain) /\ Below(chain, nextSeq)
    BY <1>2, <2>1 DEF LedgerOK
  <2>3. ASSUME NEW i \in Jobs, holder'[i] = s PROVE Matches(chain, i, draft'[i].state)
    <3>1. CASE holder[i] = s
      <4>1. u.pc # "append"
        BY DEF Claiming
      <4> QED
        BY <1>2, <1>6, <2>1, <3>1, <4>1 DEF LedgerOK
    <3>2. CASE holder[i] # s
      BY <1>6, <2>1, <2>3, <3>2, FreshRow
    <3> QED
      BY <3>1, <3>2
  <2> QED
    BY <2>1, <2>2, <2>3 DEF LedgerOK
<1>13. SessionOK(s, t)'
  BY <1>7, <1>8, <1>9, <1>10, <1>11, <1>12 DEF SessionOK
<1>14. /\ chainLock' \in Sessions \cup {None} /\ nextSeq' \in Nat /\ nextSeq <= nextSeq'
       /\ txn[s].pc # "idle" /\ t.call = txn[s].call
       /\ UNCHANGED <<clock, plans, jobs, events, leases>>
  BY Typing DEF Claiming
<1> QED
  BY <1>5, <1>13, <1>14, SessionStep

LEMMA LockLapsedOK ==
    ASSUME IInv, NEW s \in Sessions, LockLapsed(s) PROVE IInv'
<1>1. PICK u : u = txn[s]
  OBVIOUS
<1>2. u \in Transactions /\ ClaimOK(s, u) /\ u.todo \subseteq Jobs /\ u.batch \subseteq Jobs
  BY <1>1, Session
<1>j. PICK j : j = u.next
  OBVIOUS
<1>n. PICK next \in AnyOf(u.todo \ {j}) :
         txn' = [txn EXCEPT ![s] =
               [u EXCEPT !.todo = @ \ {j}, !.next = next,
                         !.batch = IF StillLapsed(s, j) THEN @ \cup {j} ELSE @]]
  BY <1>1, <1>j DEF LockLapsed
<1>3. /\ j \in u.todo /\ RowIsFree(j) /\ Locked(s, j, jobs[j])
      /\ next \in Jobs \cup {None}
  BY <1>1, <1>2, <1>j DEF LockLapsed, AnyOf
<1>4. u.pc = "fetch"
      /\ UNCHANGED <<clock, plans, jobs, events, nextSeq, leases, chainLock>>
  BY <1>1 DEF LockLapsed
<1>5. PICK batch : batch = IF StillLapsed(s, j) THEN u.batch \cup {j} ELSE u.batch
  OBVIOUS
<1>6. PICK todo : todo = u.todo \ {j}
  OBVIOUS
<1>7. PICK t : t = [u EXCEPT !.todo = todo, !.next = next, !.batch = batch]
  OBVIOUS
<1>8. todo \subseteq u.todo /\ batch \subseteq Jobs
  BY <1>2, <1>3, <1>5, <1>6
<1>9. /\ t \in Transactions /\ t.pc = u.pc /\ t.call = u.call /\ t.at = u.at
      /\ t.out = u.out /\ t.job = u.job /\ t.todo = todo /\ t.batch = batch
  BY <1>2, <1>3, <1>7, <1>8 DEF Transactions
<1>10. txn' = [txn EXCEPT ![s] = t]
  BY <1>2, <1>n, <1>5, <1>6, <1>7 DEF Transactions
<1>11. holder[j] = None /\ jobs[j] = Seen(s, j) /\ jobs[j].state # "ABSENT"
  BY <1>2, <1>3, NoneIsNoSession DEF RowIsFree, Seen, ClaimOK
<1>12. \/ t.batch = u.batch
       \/ /\ t.batch = u.batch \cup {j} /\ t.pc = "fetch"
          /\ holder[j] = None /\ Lapsed(jobs[j], t.at)
  BY <1>1, <1>4, <1>5, <1>9, <1>11 DEF StillLapsed
<1>13. /\ u.pc \in Claiming /\ holder[j] \in {None, s} /\ Locked(s, j, Seen(s, j))
       /\ t.todo \subseteq u.todo /\ j \in Jobs
  BY <1>2, <1>3, <1>4, <1>8, <1>9, <1>11 DEF Claiming
<1> QED
  BY <1>1, <1>4, <1>9, <1>10, <1>11, <1>12, <1>13, ClaimLock

\* The row of a claim is written.
LEMMA TakesRow ==
    ASSUME IInv, NEW s \in Sessions, NEW u, u = txn[s], u.pc = "try",
           NEW j \in Jobs, jobs[j].state # "ABSENT", holder[j] \in {None, s},
           NEW d, RowOK(d), d.state # "ABSENT", Moves(jobs[j], d), Locked(s, j, d),
           txn' = [txn EXCEPT ![s] = [u EXCEPT !.pc = "append", !.todo = {}, !.job = j]],
           UNCHANGED <<clock, plans, jobs, events, nextSeq, leases, chainLock>>
    PROVE  IInv'
<1>1. PICK t : t = [u EXCEPT !.pc = "append", !.todo = {}, !.job = j]
  OBVIOUS
<1>2. /\ u \in Transactions
      /\ CallOK(u) /\ ClaimOK(s, u) /\ OutOK(s, u) /\ HeldOK(s, u) /\ LedgerOK(s, u)
  BY Session
<1>3. /\ t \in Transactions /\ t.pc = "append" /\ t.call = u.call /\ t.at = u.at
      /\ t.out = u.out /\ t.batch = u.batch /\ t.job = j /\ t.todo = {}
  BY <1>1, <1>2 DEF Transactions, Points
<1>4. /\ holder' \in [Jobs -> Sessions \cup {None}]
      /\ draft' \in [Jobs -> Row] /\ \A i \in Jobs : RowOK(draft'[i])
      /\ holder'[j] = s /\ draft'[j] = d
      /\ \A i \in Jobs \ {j} : holder'[i] = holder[i] /\ draft'[i] = draft[i]
      /\ OnlyLocksOf(s)
  BY LockTaken
<1>5. t.batch = {}
  BY <1>2, <1>3 DEF ClaimOK
<1>6. CallOK(t)' /\ RestOK(s, t)' /\ OwnOK(s, t)'
  BY <1>2, <1>3, <1>4 DEF CallOK, RestOK, OwnOK
<1>7. ClaimOK(s, t)'
  BY <1>3, <1>5 DEF ClaimOK, Claiming
<1>8. OutOK(s, t)'
  <2>1. \A e \in u.out : e.job \in Jobs \cup {None}
    BY Session DEF Events
  <2> QED
    BY <1>2, <1>3, <1>4, <2>1 DEF OutOK
<1>9. HeldOK(s, t)'
  BY <1>2, <1>3, <1>4 DEF HeldOK, Claiming
<1>10. LedgerOK(s, t)'
  BY <1>2, <1>3, <1>4 DEF LedgerOK
<1>11. SessionOK(s, t)'
  BY <1>6, <1>7, <1>8, <1>9, <1>10 DEF SessionOK
<1>12. /\ chainLock' \in Sessions \cup {None} /\ nextSeq' \in Nat /\ nextSeq <= nextSeq'
       /\ txn' = [txn EXCEPT ![s] = t] /\ txn[s].pc # "idle" /\ t.call = txn[s].call
       /\ UNCHANGED <<clock, plans, jobs, events, leases>>
  BY <1>1, <1>3, Typing
<1> QED
  BY <1>3, <1>4, <1>11, <1>12, SessionStep

LEMMA TryNextOK ==
    ASSUME IInv, NEW s \in Sessions, TryNext(s) PROVE IInv'
<1>1. PICK u : u = txn[s]
  OBVIOUS
<1>2. /\ u \in Transactions /\ CallOK(u) /\ ClaimOK(s, u) /\ HeldOK(s, u)
      /\ u.todo \subseteq Jobs /\ u.at \in Nat
  BY <1>1, Session
<1>3. u.pc = "try"
      /\ UNCHANGED <<clock, plans, jobs, events, nextSeq, leases, chainLock>>
  BY <1>1 DEF TryNext
<1>4. u.call \in Calls /\ u.call.op \in Claims
  BY <1>2, <1>3 DEF CallOK, ClaimOK, Claiming
<1>5. ASSUME NEW j \in u.todo, Takeable(s, j),
             Locked(s, j, Granted(u.call, Seen(s, j), Len(leases[j]) + 1, u.at)),
             txn' = [txn EXCEPT ![s] = [u EXCEPT !.pc = "append", !.todo = {}, !.job = j]]
      PROVE  IInv'
  <2>1. j \in Jobs /\ jobs[j].state # "ABSENT"
    BY <1>2 DEF ClaimOK
  <2>2. Found(jobs[j], Seen(s, j))
    BY <1>2, <1>3, <2>1 DEF HeldOK, Seen, Found, Claiming
  <2>3. Len(leases[j]) + 1 \in Nat
    <3>1. leases[j] \in Seq(LeaseRecords)
      BY <2>1 DEF IInv, Types
    <3> QED
      BY <3>1, LenProperties
  <2>4. PICK d : d = Granted(u.call, Seen(s, j), Len(leases[j]) + 1, u.at)
    OBVIOUS
  <2>5. RowOK(d) /\ d.state \in {"LEASED", "VERIFYING"} /\ Moves(jobs[j], d)
    <3>1. Eligible(u.call, Seen(s, j), u.at)
      BY <1>1, <1>5 DEF Takeable
    <3>2. RowOK(jobs[j])
      BY <2>1, Typing
    <3> QED
      BY <1>2, <1>4, <2>1, <2>2, <2>3, <2>4, <3>1, <3>2, GrantsMove
  <2>6. holder[j] \in {None, s}
    BY <1>5 DEF Takeable
  <2> QED
    BY <1>1, <1>3, <1>5, <2>1, <2>4, <2>5, <2>6, TakesRow
<1>6. ASSUME NEW j \in u.todo, txn' = [txn EXCEPT ![s] = [u EXCEPT !.todo = @ \ {j}]],
             \/ holder[j] \in {None, s} /\ Locked(s, j, Seen(s, j))
             \/ holder[j] \notin {None, s} /\ UNCHANGED <<holder, draft>>
      PROVE  IInv'
  <2>1. PICK todo : todo = u.todo \ {j}
    OBVIOUS
  <2>2. PICK t : t = [u EXCEPT !.todo = todo]
    OBVIOUS
  <2>3. /\ t \in Transactions /\ t.pc = u.pc /\ t.call = u.call /\ t.at = u.at
        /\ t.out = u.out /\ t.job = u.job /\ t.todo = todo /\ t.batch = u.batch
        /\ txn' = [txn EXCEPT ![s] = t] /\ todo \subseteq u.todo
    <3>1. todo \subseteq Jobs
      BY <1>2, <2>1
    <3> QED
      BY <1>2, <1>6, <2>1, <2>2, <3>1 DEF Transactions
  <2>4. j \in Jobs /\ jobs[j].state # "ABSENT" /\ \A i \in todo : jobs[i].state # "ABSENT"
    BY <1>2, <2>1 DEF ClaimOK
  <2>5. t.pc \in Claiming /\ t.pc \notin {"idle", "start", "fetch", "reap"} /\ t.batch = {}
    BY <1>2, <1>3, <2>3 DEF Claiming, ClaimOK
  <2>6. CASE holder[j] \in {None, s} /\ Locked(s, j, Seen(s, j))
    BY <1>1, <1>3, <2>3, <2>4, <2>5, <2>6, ClaimLock
  <2>7. CASE UNCHANGED <<holder, draft>>
    BY <1>1, <1>3, <1>4, <2>3, <2>4, <2>5, <2>7, Goes
  <2> QED
    BY <1>6, <2>6, <2>7
<1> QED
  BY <1>1, <1>5, <1>6 DEF TryNext, InOrder, First

----------------------------------------------------------------------------
(* Steps that write an event                                               *)

\* What append_event leaves in t, the transaction of s that was u; e is the event.
Appended(s, u, v, job, kind, state, t, e) ==
    /\ txn' = [txn EXCEPT ![s] = t]
    /\ t.pc = v.pc /\ t.call = v.call /\ t.at = v.at /\ t.job = v.job
    /\ t.todo = v.todo /\ t.batch = v.batch /\ t.out = u.out \cup {e}
    /\ e.job = job /\ e.kind = kind /\ e.state = state
    /\ chainLock \in {None, s} /\ chainLock' = s
    /\ nextSeq' \in Nat /\ nextSeq <= nextSeq'
    /\ Linked(events \cup t.out) /\ Headed(events \cup t.out)
    /\ Below(events \cup t.out, nextSeq')
    /\ \A j : \A st : j # job /\ Matches(events \cup u.out, j, st) =>
                         Matches(events \cup t.out, j, st)
    /\ state # "ABSENT" => Matches(events \cup t.out, job, state)

LEMMA Appends ==
    ASSUME IInv, NEW s \in Sessions, NEW u, u = txn[s],
           NEW v \in Transactions, v.out = u.out,
           NEW job \in Jobs \cup {None}, NEW kind \in Kinds,
           NEW state \in JobStates \cup {"ABSENT"}, AppendEvent(s, job, kind, state, v)
    PROVE  \E t \in Transactions : \E e \in Events :
              Appended(s, u, v, job, kind, state, t, e)
<1>1. PICK chain : chain = events \cup u.out
  OBVIOUS
<1>2. /\ Linked(chain) /\ Headed(chain) /\ Below(chain, nextSeq)
      /\ nextSeq \in Nat /\ u.out \subseteq Events
  BY <1>1, Session, Typing DEF LedgerOK
<1>3. PICK e : /\ NewEvents(s, job, kind, state) = {e}
               /\ Continues(e, chain, nextSeq)
               /\ e.job = job /\ e.kind = kind /\ e.state = state
  <2>1. Headed(events \cup txn[s].out) /\ Below(events \cup txn[s].out, nextSeq)
    BY <1>1, <1>2
  <2>2. \E e : Made(s, job, kind, state, e)
    BY <1>2, <2>1, OneEvent
  <2> QED
    BY <1>1, <2>2 DEF Made
<1>4. e \in Events
  BY <1>3 DEF Continues
<1>5. PICK t : t = [v EXCEPT !.out = u.out \cup {e}]
  OBVIOUS
<1>6. /\ t \in Transactions
      /\ t.pc = v.pc /\ t.call = v.call /\ t.at = v.at /\ t.job = v.job
      /\ t.todo = v.todo /\ t.batch = v.batch /\ t.out = u.out \cup {e}
  <2>1. u.out \cup {e} \subseteq Events
    BY <1>2, <1>4
  <2> QED
    BY <1>5, <2>1 DEF Transactions
<1>7. /\ txn' = [txn EXCEPT ![s] = t] /\ chainLock \in {None, s} /\ chainLock' = s
      /\ nextSeq' = nextSeq + 1
  BY <1>3, <1>5 DEF AppendEvent, ChainIsFree
<1>8. PICK longer : longer = chain \cup {e}
  OBVIOUS
<1>9. /\ Below(longer, nextSeq + 1) /\ Linked(longer) /\ Headed(longer)
      /\ \A j : \A st : j # e.job /\ Matches(chain, j, st) => Matches(longer, j, st)
      /\ e.state # "ABSENT" => Matches(longer, e.job, e.state)
  BY <1>2, <1>3, <1>8, ChainGrows
<1>10. longer = events \cup t.out
  BY <1>1, <1>6, <1>8
<1>11. nextSeq' \in Nat /\ nextSeq <= nextSeq'
  BY <1>2, <1>7
<1>12. /\ Linked(events \cup t.out) /\ Headed(events \cup t.out)
       /\ Below(events \cup t.out, nextSeq')
       /\ \A j : \A st : j # job /\ Matches(events \cup u.out, j, st) =>
                            Matches(events \cup t.out, j, st)
       /\ state # "ABSENT" => Matches(events \cup t.out, job, state)
  BY <1>1, <1>3, <1>7, <1>9, <1>10
<1> QED
  BY <1>3, <1>4, <1>6, <1>7, <1>11, <1>12 DEF Appended

LEMMA TakeBackOK ==
    ASSUME IInv, NEW s \in Sessions, TakeBack(s) PROVE IInv'
<1>1. PICK u : u = txn[s]
  OBVIOUS
<1>2. /\ u \in Transactions
      /\ CallOK(u) /\ RestOK(s, u) /\ ClaimOK(s, u) /\ OwnOK(s, u)
      /\ OutOK(s, u) /\ HeldOK(s, u) /\ LedgerOK(s, u)
      /\ u.batch \subseteq Jobs /\ u.out \subseteq Events
  BY <1>1, Session
<1>3. PICK j \in u.batch :
         /\ draft' = [draft EXCEPT ![j] = TakenBack(@)]
         /\ AppendEvent(s, j, ReapEvent(draft[j]), TakenBack(draft[j]).state,
                        [u EXCEPT !.batch = @ \ {j}])
  BY <1>1 DEF TakeBack
<1>4. u.pc = "reap" /\ UNCHANGED <<clock, plans, jobs, events, leases, holder>>
  BY <1>1 DEF TakeBack
<1>5. j \in Jobs /\ holder[j] = s /\ draft[j] = jobs[j] /\ Lapsed(jobs[j], u.at)
  BY <1>2 DEF ClaimOK
<1>6. PICK d : d = TakenBack(jobs[j])
  OBVIOUS
<1>7. /\ Found(jobs[j], d) /\ jobs[j].state \in {"LEASED", "VERIFYING"}
  BY <1>5, <1>6 DEF Found, Lapsed, ExecutionLapsed, VerificationLapsed
<1>8. RowOK(d) /\ d \in Row /\ d.state # "ABSENT" /\ Moves(jobs[j], d)
  BY <1>5, <1>7, Finds, Typing DEF RowOK
<1>9. PICK batch : batch = u.batch \ {j}
  OBVIOUS
<1>10. PICK v : v = [u EXCEPT !.batch = batch]
  OBVIOUS
<1>11. batch \subseteq Jobs
  BY <1>2, <1>9
<1>12. /\ v \in Transactions /\ v.pc = "reap" /\ v.call = u.call /\ v.at = u.at
       /\ v.job = u.job /\ v.todo = u.todo /\ v.batch = batch /\ v.out = u.out
  BY <1>2, <1>4, <1>10, <1>11 DEF Transactions
<1>13. PICK kind : kind = ReapEvent(jobs[j])
  OBVIOUS
<1>14. kind \in Kinds /\ d.state \in JobStates \cup {"ABSENT"} /\ j \in Jobs \cup {None}
  BY <1>5, <1>8, <1>13 DEF ReapEvent, Kinds, Row
<1>15. AppendEvent(s, j, kind, d.state, v)
  BY <1>2, <1>3, <1>5, <1>6, <1>9, <1>10, <1>13 DEF Transactions
<1>16. PICK t \in Transactions, e \in Events : Appended(s, u, v, j, kind, d.state, t, e)
  BY <1>1, <1>12, <1>14, <1>15, Appends
<1>ev. /\ txn' = [txn EXCEPT ![s] = t]
       /\ t.pc = v.pc /\ t.call = v.call /\ t.at = v.at /\ t.job = v.job
       /\ t.todo = v.todo /\ t.batch = v.batch /\ t.out = u.out \cup {e}
       /\ e.job = j /\ e.kind = kind /\ e.state = d.state
       /\ chainLock \in {None, s} /\ chainLock' = s
       /\ nextSeq' \in Nat /\ nextSeq <= nextSeq'
       /\ Linked(events \cup t.out) /\ Headed(events \cup t.out)
       /\ Below(events \cup t.out, nextSeq')
       /\ \A i : \A st : i # j /\ Matches(events \cup u.out, i, st) =>
                            Matches(events \cup t.out, i, st)
       /\ d.state # "ABSENT" => Matches(events \cup t.out, j, d.state)
  BY <1>16 DEF Appended
<1>17. /\ draft' \in [Jobs -> Row] /\ draft'[j] = d
       /\ \A i \in Jobs \ {j} : draft'[i] = draft[i]
  BY <1>3, <1>5, <1>6, <1>8, Typing
<1>18. \A i \in Jobs : RowOK(draft'[i])
  BY <1>8, <1>17, Typing
<1>19. OnlyLocksOf(s)
  BY <1>4, <1>5, <1>ev, <1>17 DEF OnlyLocksOf
<1>20. CallOK(t)' /\ RestOK(s, t)' /\ OwnOK(s, t)'
  BY <1>2, <1>4, <1>12, <1>ev DEF CallOK, RestOK, OwnOK
<1>21. ClaimOK(s, t)'
  <2>1. \A i \in batch : holder'[i] = s /\ draft'[i] = jobs'[i] /\ Lapsed(jobs'[i], t.at)
    BY <1>2, <1>4, <1>9, <1>11, <1>12, <1>ev, <1>17 DEF ClaimOK
  <2> QED
    BY <1>2, <1>4, <1>12, <1>ev, <2>1 DEF ClaimOK
<1>22. OutOK(s, t)'
  <2>1. /\ kind = "EXECUTION_LEASE_EXPIRED" => ExecutionLapsed(jobs[j], t.at)
        /\ kind = "VERIFICATION_LEASE_EXPIRED" => VerificationLapsed(jobs[j], t.at)
    BY <1>5, <1>12, <1>13, <1>ev DEF ReapEvent, Lapsed, ExecutionLapsed, VerificationLapsed
  <2>2. chainLock' = s /\ e.job \in Jobs /\ holder'[e.job] = s /\ jobs' = jobs
    BY <1>4, <1>5, <1>ev
  <2>3. ASSUME NEW f \in u.out
        PROVE  /\ f.job # None => holder'[f.job] = s
               /\ f.kind = "EXECUTION_LEASE_EXPIRED" =>
                     f.job \in Jobs /\ ExecutionLapsed(jobs'[f.job], t.at)
               /\ f.kind = "VERIFICATION_LEASE_EXPIRED" =>
                     f.job \in Jobs /\ VerificationLapsed(jobs'[f.job], t.at)
    BY <1>2, <1>4, <1>12, <1>ev, <2>3 DEF OutOK
  <2>4. /\ e.job # None => holder'[e.job] = s
        /\ e.kind = "EXECUTION_LEASE_EXPIRED" =>
              e.job \in Jobs /\ ExecutionLapsed(jobs'[e.job], t.at)
        /\ e.kind = "VERIFICATION_LEASE_EXPIRED" =>
              e.job \in Jobs /\ VerificationLapsed(jobs'[e.job], t.at)
    BY <1>ev, <2>1, <2>2
  <2>5. t.out = u.out \cup {e}
    BY <1>ev
  <2> QED
    BY <2>2, <2>3, <2>4, <2>5 DEF OutOK, ExecutionLapsed, VerificationLapsed
<1>23. HeldOK(s, t)'
  <2>1. u.pc \in Claiming /\ t.call = u.call
    BY <1>4, <1>12, <1>ev DEF Claiming
  <2>2. ASSUME NEW i \in Jobs, holder[i] = s
        PROVE  /\ jobs[i].state = "ABSENT" => t.call.op = "enqueue_job" /\ t.call.job = i
               /\ draft'[i].state # "ABSENT" /\ Moves(jobs[i], draft'[i])
               /\ Found(jobs[i], draft'[i])
    <3>1. CASE i = j
      BY <1>7, <1>8, <1>17, <3>1
    <3>2. CASE i # j
      BY <1>2, <1>17, <2>1, <2>2, <3>2 DEF HeldOK
    <3> QED
      BY <3>1, <3>2
  <2> QED
    BY <1>4, <2>2 DEF HeldOK, Moves, Found
<1>24. LedgerOK(s, t)'
  <2>1. u.pc # "append"
    BY <1>4
  <2>2. ASSUME NEW i \in Jobs, holder[i] = s
        PROVE  Matches(events \cup t.out, i, draft'[i].state)
    <3>1. CASE i = j
      BY <1>8, <1>ev, <1>17, <3>1
    <3>2. CASE i # j
      BY <1>2, <1>ev, <1>17, <2>1, <2>2, <3>2 DEF LedgerOK
    <3> QED
      BY <3>1, <3>2
  <2> QED
    BY <1>4, <1>ev, <2>2 DEF LedgerOK
<1>25. SessionOK(s, t)'
  BY <1>20, <1>21, <1>22, <1>23, <1>24 DEF SessionOK
<1>26. /\ holder' \in [Jobs -> Sessions \cup {None}] /\ chainLock' \in Sessions \cup {None}
       /\ txn[s].pc # "idle" /\ t.call = txn[s].call
       /\ UNCHANGED <<clock, plans, jobs, events, leases>>
  BY <1>1, <1>4, <1>12, <1>ev, Typing
<1> QED
  BY <1>ev, <1>17, <1>18, <1>19, <1>25, <1>26, SessionStep

LEMMA AppendOwnOK ==
    ASSUME IInv, NEW s \in Sessions, AppendOwn(s) PROVE IInv'
<1>1. PICK u : u = txn[s]
  OBVIOUS
<1>2. /\ u \in Transactions
      /\ CallOK(u) /\ RestOK(s, u) /\ ClaimOK(s, u) /\ OwnOK(s, u)
      /\ OutOK(s, u) /\ HeldOK(s, u) /\ LedgerOK(s, u)
      /\ u.job \in Jobs \cup {None} /\ u.out \subseteq Events
  BY <1>1, Session
<1>3. u.pc = "append" /\ UNCHANGED <<clock, plans, jobs, events, leases, holder, draft>>
  BY <1>1 DEF AppendOwn
<1>4. PICK v : v = [u EXCEPT !.pc = "commit"]
  OBVIOUS
<1>5. PICK kind : kind = EventOf(u.call)
  OBVIOUS
<1>6. PICK state : state = IF u.job = None THEN "ABSENT" ELSE draft[u.job].state
  OBVIOUS
<1>7. AppendEvent(s, u.job, kind, state, v)
  BY <1>1, <1>4, <1>5, <1>6 DEF AppendOwn
<1>8. /\ v \in Transactions /\ v.pc = "commit" /\ v.call = u.call /\ v.at = u.at
      /\ v.job = u.job /\ v.todo = u.todo /\ v.batch = u.batch /\ v.out = u.out
  BY <1>2, <1>4 DEF Transactions, Points
<1>9. kind \in Kinds \ {"EXECUTION_LEASE_EXPIRED", "VERIFICATION_LEASE_EXPIRED"}
  <2>1. u.call \in Calls
    BY <1>2, <1>3 DEF CallOK
  <2>2. u.call.op \in {"record_plan", "enqueue_job"} \cup Claims \cup RowCalls
    BY <2>1, CallFields
  <2> QED
    BY <1>5, <2>2 DEF EventOf, Kinds, Claims, RowCalls
<1>10. state \in JobStates \cup {"ABSENT"}
  BY <1>2, <1>6, Typing DEF Row
<1>11. u.job # None => u.job \in Jobs /\ holder[u.job] = s /\ state = draft[u.job].state
                       /\ state # "ABSENT"
  BY <1>2, <1>3, <1>6 DEF OwnOK, HeldOK
<1>12. PICK t \in Transactions, e \in Events : Appended(s, u, v, u.job, kind, state, t, e)
  BY <1>1, <1>2, <1>7, <1>8, <1>9, <1>10, Appends
<1>ev. /\ txn' = [txn EXCEPT ![s] = t]
       /\ t.pc = v.pc /\ t.call = v.call /\ t.at = v.at /\ t.job = v.job
       /\ t.todo = v.todo /\ t.batch = v.batch /\ t.out = u.out \cup {e}
       /\ e.job = u.job /\ e.kind = kind /\ e.state = state
       /\ chainLock \in {None, s} /\ chainLock' = s
       /\ nextSeq' \in Nat /\ nextSeq <= nextSeq'
       /\ Linked(events \cup t.out) /\ Headed(events \cup t.out)
       /\ Below(events \cup t.out, nextSeq')
       /\ \A i : \A st : i # u.job /\ Matches(events \cup u.out, i, st) =>
                            Matches(events \cup t.out, i, st)
       /\ state # "ABSENT" => Matches(events \cup t.out, u.job, state)
  BY <1>12 DEF Appended
<1>13. OnlyLocksOf(s)
  BY <1>3, <1>ev DEF OnlyLocksOf
<1>14. CallOK(t)' /\ RestOK(s, t)' /\ ClaimOK(s, t)' /\ OwnOK(s, t)'
  BY <1>2, <1>3, <1>8, <1>ev DEF CallOK, RestOK, ClaimOK, OwnOK, Claiming
<1>15. OutOK(s, t)'
  <2>1. \A f \in u.out :
           /\ f.job # None => holder'[f.job] = s
           /\ f.kind = "EXECUTION_LEASE_EXPIRED" =>
                 f.job \in Jobs /\ ExecutionLapsed(jobs'[f.job], t.at)
           /\ f.kind = "VERIFICATION_LEASE_EXPIRED" =>
                 f.job \in Jobs /\ VerificationLapsed(jobs'[f.job], t.at)
    BY <1>2, <1>3, <1>8, <1>ev DEF OutOK
  <2>2. /\ e.job # None => holder'[e.job] = s
        /\ e.kind \notin {"EXECUTION_LEASE_EXPIRED", "VERIFICATION_LEASE_EXPIRED"}
    BY <1>3, <1>9, <1>11, <1>ev
  <2>3. chainLock' = s /\ t.out = u.out \cup {e}
    BY <1>ev
  <2> QED
    BY <2>1, <2>2, <2>3 DEF OutOK, ExecutionLapsed, VerificationLapsed
<1>16. HeldOK(s, t)'
  BY <1>2, <1>3, <1>8, <1>ev DEF HeldOK, Claiming
<1>17. LedgerOK(s, t)'
  <2>1. ASSUME NEW i \in Jobs, holder[i] = s
        PROVE  Matches(events \cup t.out, i, draft[i].state)
    <3>1. CASE i = u.job
      BY <1>11, <1>ev, <3>1, NoneIsNoSession
    <3>2. CASE i # u.job
      BY <1>2, <1>ev, <2>1, <3>2 DEF LedgerOK
    <3> QED
      BY <3>1, <3>2
  <2> QED
    BY <1>3, <1>ev, <2>1 DEF LedgerOK
<1>18. SessionOK(s, t)'
  BY <1>14, <1>15, <1>16, <1>17 DEF SessionOK
<1>19. /\ holder' \in [Jobs -> Sessions \cup {None}]
       /\ draft' \in [Jobs -> Row] /\ \A i \in Jobs : RowOK(draft'[i])
       /\ chainLock' \in Sessions \cup {None}
       /\ txn[s].pc # "idle" /\ t.call = txn[s].call
       /\ UNCHANGED <<clock, plans, jobs, events, leases>>
  BY <1>1, <1>3, <1>8, <1>ev, Typing
<1> QED
  BY <1>ev, <1>13, <1>18, <1>19, SessionStep

----------------------------------------------------------------------------
(* The ends of a transaction                                               *)

\* A transaction that is about to commit.
LEMMA Published ==
    ASSUME IInv, NEW s \in Sessions, Commit(s), NEW u, u = txn[s]
    PROVE  /\ u.call \in Calls /\ u.pc = "commit" /\ OnlyRowsOf(s)
           /\ jobs' \in [Jobs -> Row] /\ \A j \in Jobs : RowOK(jobs'[j])
           /\ \A j \in Jobs : /\ holder[j] = s => /\ jobs'[j] = draft[j]
                                                  /\ draft[j].state # "ABSENT"
                                                  /\ Moves(jobs[j], draft[j])
                              /\ holder[j] # s => jobs'[j] = jobs[j]
<1>1. u.pc = "commit" /\ CallOK(u) /\ HeldOK(s, u)
  BY Session DEF Commit
<1>2. jobs' = [j \in Jobs |-> Seen(s, j)]
  BY DEF Commit
<1>3. \A j \in Jobs : /\ holder[j] = s => jobs'[j] = draft[j]
                      /\ holder[j] # s => jobs'[j] = jobs[j]
  BY <1>2 DEF Seen
<1>4. \A j \in Jobs : RowOK(jobs'[j])
  BY <1>3, Typing
<1>5. jobs' \in [Jobs -> Row]
  BY <1>2, <1>4 DEF RowOK
<1>6. \A j \in Jobs : holder[j] = s =>
         /\ draft[j].state # "ABSENT" /\ Moves(jobs[j], draft[j])
         /\ jobs[j].state = "ABSENT" => Enqueues(txn[s], j)
  BY <1>1 DEF HeldOK, Enqueues
<1>7. OnlyRowsOf(s)
  BY <1>3, <1>6 DEF OnlyRowsOf
<1> QED
  BY <1>1, <1>3, <1>4, <1>5, <1>6, <1>7 DEF CallOK

LEMMA CommitTypes ==
    ASSUME IInv, NEW s \in Sessions, Commit(s) PROVE Types'
<1>1. PICK u : u = txn[s]
  OBVIOUS
<1>2. /\ u.call \in Calls /\ jobs' \in [Jobs -> Row] /\ \A j \in Jobs : RowOK(jobs'[j])
  BY <1>1, Published
<1>3. /\ events' = events \cup u.out /\ Unlocked(s) /\ txn' = [txn EXCEPT ![s] = Idle]
      /\ clock' = clock /\ nextSeq' = nextSeq
  BY <1>1 DEF Commit
<1>4. /\ holder' \in [Jobs -> Sessions \cup {None}]
      /\ draft' \in [Jobs -> Row] /\ (\A j \in Jobs : RowOK(draft'[j]))
      /\ chainLock' \in Sessions \cup {None}
  BY <1>3, UnlockedLocks
<1>5. plans' \in [Plans -> {"ABSENT", "VERIFIED_PLAN", "BLOCKED"}]
  <2>1. plans \in [Plans -> {"ABSENT", "VERIFIED_PLAN", "BLOCKED"}]
    BY DEF IInv, Types
  <2>2. u.call.op = "record_plan" =>
           u.call.plan \in Plans /\ u.call.status \in {"VERIFIED_PLAN", "BLOCKED"}
    BY <1>2, CallFields
  <2>3. \/ u.call.op = "record_plan" /\ plans' = [plans EXCEPT ![u.call.plan] = u.call.status]
        \/ plans' = plans
    BY <1>1 DEF Commit
  <2> QED
    BY <2>1, <2>2, <2>3
<1>6. leases' \in [Jobs -> Seq(LeaseRecords)]
  <2>1. leases \in [Jobs -> Seq(LeaseRecords)]
    BY DEF IInv, Types
  <2>2. PICK l : l = [kind |-> IF u.call.op = "claim_execution"
                               THEN "execution" ELSE "verification",
                      owner |-> u.call.actor]
    OBVIOUS
  <2>3. u.call.op \in Claims => l \in LeaseRecords
    BY <1>2, <2>2, CallFields DEF LeaseRecords
  <2>4. \/ /\ u.call.op \in Claims
           /\ leases' = [leases EXCEPT ![u.job] = Append(leases[u.job], l)]
        \/ leases' = leases
    BY <1>1, <2>2 DEF Commit
  <2>5. ASSUME u.job \in Jobs, u.call.op \in Claims
        PROVE  Append(leases[u.job], l) \in Seq(LeaseRecords)
    BY <2>1, <2>3, <2>5, AppendProperties
  <2>6. u.job \notin Jobs => [leases EXCEPT ![u.job] = Append(leases[u.job], l)] = leases
    BY <2>1
  <2> QED
    BY <2>1, <2>4, <2>5, <2>6
<1>7. Idle \in Transactions
  BY DEF Idle, Transactions, Points
<1>8. u.out \subseteq Events
  BY <1>1, Session
<1> QED
  BY <1>2, <1>3, <1>4, <1>5, <1>6, <1>7, <1>8 DEF IInv, Types

LEMMA CommitTables ==
    ASSUME IInv, NEW s \in Sessions, Commit(s) PROVE Committed'
<1>1. PICK u : u = txn[s]
  OBVIOUS
<1>2. /\ u.call \in Calls /\ u.pc = "commit"
      /\ \A j \in Jobs : /\ holder[j] = s => jobs'[j] = draft[j] /\ draft[j].state # "ABSENT"
                         /\ holder[j] # s => jobs'[j] = jobs[j]
  BY <1>1, Published
<1>3. events' = events \cup u.out /\ nextSeq' = nextSeq
  BY <1>1 DEF Commit
<1>4. LedgerOK(s, u) /\ OwnOK(s, u) /\ u.job \in Jobs \cup {None}
  BY <1>1, Session
<1>5. Linked(events') /\ Headed(events') /\ Below(events', nextSeq')
  BY <1>3, <1>4 DEF LedgerOK
<1>6. ASSUME NEW j \in Jobs PROVE Matches(events', j, jobs'[j].state)
  <2>1. CASE holder[j] = s
    BY <1>2, <1>3, <1>4, <2>1 DEF LedgerOK
  <2>2. CASE holder[j] # s
    BY <1>1, <1>2, <1>3, <2>2, FreshRow
  <2> QED
    BY <2>1, <2>2
<1>7. ASSUME NEW j \in Jobs, leases'[j] # << >> PROVE jobs'[j].state # "ABSENT"
  <2>1. CASE holder[j] = s
    BY <1>2, <2>1
  <2>2. CASE holder[j] # s
    <3>1. u.job # j
      BY <1>2, <1>4, <2>2, NoneIsNoSession DEF OwnOK
    <3>2. leases'[j] = leases[j]
      <4>1. leases \in [Jobs -> Seq(LeaseRecords)]
        BY DEF IInv, Types
      <4> QED
        BY <1>1, <3>1, <4>1 DEF Commit
    <3> QED
      BY <1>2, <1>7, <2>2, <3>2 DEF IInv, Committed
  <2> QED
    BY <2>1, <2>2
<1> QED
  BY <1>5, <1>6, <1>7 DEF Committed, Matches

\* Of two sessions at most one has events that are not committed.
LEMMA CommitLedger ==
    ASSUME IInv, NEW s \in Sessions, Commit(s),
           NEW w \in Sessions, w # s, NEW k, k = txn[w]
    PROVE  LedgerOK(w, k)'
<1>1. PICK u : u = txn[s]
  OBVIOUS
<1>2. events' = events \cup u.out /\ Unlocked(s) /\ nextSeq' = nextSeq
  BY <1>1 DEF Commit
<1>3. OnlyLocksOf(s)
  BY <1>2, UnlockedLocks
<1>4. CASE u.out = {}
  <2>1. nextSeq' \in Nat /\ nextSeq <= nextSeq' /\ UNCHANGED events
    BY <1>2, <1>4, Typing
  <2> QED
    BY <1>3, <2>1, BystanderLedger
<1>5. CASE u.out # {}
  <2>1. OutOK(s, u) /\ OutOK(w, k) /\ LedgerOK(s, u) /\ LedgerOK(w, k)
    BY <1>1, Session
  <2>2. k.out = {}
    BY <1>5, <2>1 DEF OutOK
  <2>3. events' \cup k.out = events \cup u.out
    BY <1>2, <2>2
  <2>4. /\ Linked(events' \cup k.out) /\ Headed(events' \cup k.out)
        /\ Below(events' \cup k.out, nextSeq')
    BY <1>2, <2>1, <2>3 DEF LedgerOK
  <2>5. ASSUME NEW j \in Jobs, holder'[j] = w, ~ (k.pc = "append" /\ k.job = j)
        PROVE  Matches(events' \cup k.out, j, draft'[j].state)
    <3>1. holder[j] = w /\ draft'[j] = draft[j]
      BY <1>3, <2>5, NoneIsNoSession DEF OnlyLocksOf
    <3>2. Matches(events, j, draft[j].state)
      BY <2>1, <2>2, <2>5, <3>1 DEF LedgerOK
    <3>3. \A e \in u.out : e.job # j
      BY <2>1, <3>1, NoneIsNoSession DEF OutOK
    <3> QED
      BY <2>3, <3>1, <3>2, <3>3, OthersDoNotCount
  <2> QED
    BY <2>4, <2>5 DEF LedgerOK
<1> QED
  BY <1>4, <1>5

\* At rest a session sees what is committed.
LEMMA Rests ==
    ASSUME Committed', NEW s, NEW t, t = Idle, (\A j \in Jobs : holder'[j] # s), chainLock' # s
    PROVE  SessionOK(s, t)'
<1>1. /\ t.pc = "idle" /\ t.out = {} /\ t.job = None /\ t.todo = {} /\ t.batch = {}
  BY DEF Idle
<1>2. CallOK(t)' /\ RestOK(s, t)' /\ ClaimOK(s, t)' /\ OwnOK(s, t)' /\ OutOK(s, t)'
  BY <1>1 DEF CallOK, RestOK, ClaimOK, OwnOK, OutOK, Claiming
<1>3. HeldOK(s, t)'
  BY DEF HeldOK
<1>4. LedgerOK(s, t)'
  BY <1>1 DEF LedgerOK, Committed
<1> QED
  BY <1>2, <1>3, <1>4 DEF SessionOK

LEMMA CommitOK ==
    ASSUME IInv, NEW s \in Sessions, Commit(s) PROVE IInv'
<1>1. Types' /\ Committed'
  BY CommitTypes, CommitTables
<1>2. Unlocked(s) /\ txn' = [txn EXCEPT ![s] = Idle] /\ clock' = clock
  BY DEF Commit
<1>3. (\A j \in Jobs : holder'[j] # s) /\ chainLock' # s /\ OnlyLocksOf(s)
  BY <1>2, UnlockedLocks
<1>4. txn'[s] = Idle /\ \A u \in Sessions \ {s} : txn'[u] = txn[u]
  BY <1>2, Typing
<1>5. Distinct'
  <2>1. \A u \in Sessions : \A j \in Jobs : Enqueues(txn'[u], j) => Enqueues(txn[u], j)
    BY <1>4 DEF Enqueues, Idle
  <2> QED
    BY <2>1 DEF IInv, Distinct
<1>6. OnlyRowsOf(s) /\ clock' \in Nat /\ clock <= clock'
  BY <1>2, Published, Typing
<1>7. ASSUME NEW u \in Sessions PROVE SessionOK(u, txn[u])'
  <2>1. PICK k : k = txn'[u]
    OBVIOUS
  <2>2. CASE u = s
    BY <1>1, <1>3, <1>4, <2>1, <2>2, Rests
  <2>3. CASE u # s
    <3>1. k = txn[u]
      BY <1>4, <2>1, <2>3
    <3>2. LedgerOK(u, k)'
      BY <2>3, <3>1, CommitLedger
    <3>3. /\ CallOK(k)' /\ RestOK(u, k)' /\ ClaimOK(u, k)' /\ OwnOK(u, k)'
          /\ OutOK(u, k)' /\ HeldOK(u, k)'
      BY <1>3, <1>6, <2>3, <3>1, Bystander
    <3>4. SessionOK(u, k)'
      BY <3>2, <3>3 DEF SessionOK
    <3> QED
      BY <2>1, <3>4
  <2> QED
    BY <2>1, <2>2, <2>3
<1> QED
  BY <1>1, <1>5, <1>7 DEF IInv

----------------------------------------------------------------------------
(* The beginning of a transaction, and time                                *)

LEMMA PublicCall ==
    ASSUME NEW call \in PublicCalls
    PROVE  /\ call \in Calls /\ call.op \notin RowCalls
           /\ call.op = "enqueue_job" => call.job \in FreshJobs
<1>1. CASE call \in [op : {"record_plan"}, plan : FreshPlans,
                     status : {"VERIFIED_PLAN", "BLOCKED"}]
  <2>1. call \in [op : {"record_plan"}, plan : Plans, status : {"VERIFIED_PLAN", "BLOCKED"}]
    BY <1>1 DEF FreshPlans
  <2> QED
    BY <1>1, <2>1 DEF Calls, RowCalls
<1>2. CASE call \in [op : {"enqueue_job"}, job : FreshJobs, plan : Plans, budget : Budgets]
  <2>1. call \in [op : {"enqueue_job"}, job : Jobs, plan : Plans, budget : Budgets]
    BY <1>2 DEF FreshJobs
  <2> QED
    BY <1>2, <2>1 DEF Calls, RowCalls
<1>3. CASE call \in [op : {"claim_execution"}, actor : Actors, seconds : LeaseSeconds]
  BY <1>3 DEF Calls, RowCalls
<1>4. CASE call \in [op : {"claim_verification"}, actor : Actors, seconds : RenewSeconds]
  BY <1>4 DEF Calls, RowCalls
<1> QED
  BY <1>1, <1>2, <1>3, <1>4 DEF PublicCalls

LEMMA HolderCall ==
    ASSUME IInv, NEW j \in Jobs, NEW n \in DOMAIN leases[j], NEW call \in HolderCalls(j, n)
    PROVE  /\ call \in Calls /\ call.op # "enqueue_job" /\ call.op \in RowCalls
           /\ call.job = j /\ jobs[j].state # "ABSENT"
<1>1. leases[j] \in Seq(LeaseRecords)
  BY DEF IInv, Types
<1>2. n \in Nat /\ leases[j][n] \in LeaseRecords /\ leases[j] # << >>
  BY <1>1, ElementOfSeq, LenProperties, EmptySeq
<1>3. jobs[j].state # "ABSENT"
  BY <1>2 DEF IInv, Committed
<1>4. PICK owner \in Actors : owner = leases[j][n].owner
  BY <1>2 DEF LeaseRecords
<1>5. \/ call \in [op : {"heartbeat_execution"}, job : {j}, actor : {owner}, token : {n},
                   seconds : RenewSeconds]
      \/ call \in [op : {"complete_execution"}, job : {j}, actor : {owner}, token : {n},
                   receipt : Receipts, signed : BOOLEAN]
      \/ call \in [op : {"fail_execution"}, job : {j}, actor : {owner}, token : {n},
                   delay : RetryDelays]
      \/ call \in [op : {"complete_verification"}, job : {j}, actor : {owner}, token : {n},
                   verdict : Verdicts, proved : BOOLEAN]
  BY <1>4 DEF HolderCalls
<1>6. \/ call \in [op : {"heartbeat_execution"}, job : Jobs, actor : Actors, token : Nat,
                   seconds : RenewSeconds]
      \/ call \in [op : {"complete_execution"}, job : Jobs, actor : Actors, token : Nat,
                   receipt : Receipts, signed : BOOLEAN]
      \/ call \in [op : {"fail_execution"}, job : Jobs, actor : Actors, token : Nat,
                   delay : RetryDelays]
      \/ call \in [op : {"complete_verification"}, job : Jobs, actor : Actors, token : Nat,
                   verdict : Verdicts, proved : BOOLEAN]
  BY <1>2, <1>5
<1>7. call \in Calls
  BY <1>6 DEF Calls
<1>8. call.op \in RowCalls /\ call.op # "enqueue_job" /\ call.job = j
  BY <1>5 DEF RowCalls
<1> QED
  BY <1>3, <1>7, <1>8

LEMMA BeginOK ==
    ASSUME IInv, NEW s \in Sessions, NEW call \in Calls, Begin(s, call),
           call.op = "enqueue_job" => call.job \in FreshJobs,
           call.op \in RowCalls => jobs[call.job].state # "ABSENT"
    PROVE  IInv'
<1>1. PICK t : t = [Idle EXCEPT !.at = clock, !.pc = "start", !.call = call]
  OBVIOUS
<1>2. /\ t.at = clock /\ t.pc = "start" /\ t.call = call /\ t.todo = {} /\ t.batch = {}
      /\ t.job = None /\ t.out = {} /\ t \in Transactions
  BY <1>1, Typing DEF Idle, Transactions, Points
<1>3. /\ txn' = [txn EXCEPT ![s] = t] /\ txn[s].pc = "idle"
      /\ UNCHANGED <<clock, plans, jobs, events, nextSeq, leases, holder, draft, chainLock>>
  BY <1>1 DEF Begin
<1>4. /\ txn'[s] = t /\ \A u \in Sessions \ {s} : txn'[u] = txn[u]
      /\ txn' \in [Sessions -> Transactions]
  BY <1>2, <1>3, Typing
<1>5. Types'
  BY <1>3, <1>4 DEF IInv, Types
<1>6. Committed'
  BY <1>3 DEF IInv, Committed, Matches
<1>7. Distinct'
  <2>1. ASSUME NEW u \in Sessions \ {s}, NEW j \in Jobs, Enqueues(txn[u], j), Enqueues(t, j)
        PROVE  FALSE
    <3>1. j \in FreshJobs
      BY <1>2, <2>1 DEF Enqueues
    <3>2. u \in UnderWay("enqueue_job") /\ txn[u].call.job = j
      BY <2>1 DEF Enqueues, UnderWay
    <3> QED
      BY <3>1, <3>2 DEF FreshJobs
  <2> QED
    BY <1>4, <2>1 DEF IInv, Distinct
<1>8. OnlyLocksOf(s) /\ OnlyRowsOf(s) /\ clock' \in Nat /\ clock <= clock'
      /\ nextSeq' \in Nat /\ nextSeq <= nextSeq' /\ events' = events
  BY <1>3, SameLocks, Typing DEF OnlyRowsOf
<1>9. SessionOK(s, t)'
  <2>1. PICK k : k = txn[s]
    OBVIOUS
  <2>2. RestOK(s, k)
    BY <2>1, Session
  <2>3. k.pc = "idle"
    BY <1>3, <2>1
  <2>4. (\A j \in Jobs : holder'[j] # s) /\ chainLock' # s
    BY <1>3, <2>2, <2>3 DEF RestOK
  <2>5. CallOK(t)'
    BY <1>2, <1>3, Typing DEF CallOK, FreshJobs
  <2>6. RestOK(s, t)' /\ ClaimOK(s, t)' /\ OwnOK(s, t)' /\ OutOK(s, t)'
    BY <1>2, <2>4 DEF RestOK, ClaimOK, OwnOK, OutOK, Claiming
  <2>7. HeldOK(s, t)'
    BY <2>4 DEF HeldOK
  <2>8. LedgerOK(s, t)'
    BY <1>2, <1>6, <2>4 DEF LedgerOK, Committed
  <2> QED
    BY <2>5, <2>6, <2>7, <2>8 DEF SessionOK
<1>10. ASSUME NEW u \in Sessions PROVE SessionOK(u, txn[u])'
  <2>1. PICK k : k = txn'[u]
    OBVIOUS
  <2>2. CASE u = s
    BY <1>4, <1>9, <2>1, <2>2
  <2>3. CASE u # s
    <3>1. k = txn[u]
      BY <1>4, <2>1, <2>3
    <3>2. SessionOK(u, k)'
      BY <1>8, <2>3, <3>1, Bystander, BystanderLedger DEF SessionOK
    <3> QED
      BY <2>1, <3>2
  <2> QED
    BY <2>1, <2>2, <2>3
<1> QED
  BY <1>5, <1>6, <1>7, <1>10 DEF IInv

\* Time passes, and nothing else happens.
LEMMA TimePasses ==
    ASSUME IInv, clock' \in Nat, clock <= clock',
           UNCHANGED <<plans, jobs, events, nextSeq, leases, holder, draft, chainLock, txn>>
    PROVE  IInv'
<1>1. Types'
  BY DEF IInv, Types
<1>2. Committed' /\ Distinct'
  BY DEF IInv, Committed, Matches, Distinct
<1>3. ASSUME NEW u \in Sessions PROVE SessionOK(u, txn[u])'
  <2>1. PICK t : t = txn[u]
    OBVIOUS
  <2>2. /\ CallOK(t) /\ RestOK(u, t) /\ ClaimOK(u, t) /\ OwnOK(u, t) /\ OutOK(u, t)
        /\ HeldOK(u, t) /\ LedgerOK(u, t) /\ t.at \in Nat /\ clock \in Nat
    BY <2>1, Session, Typing
  <2>3. CallOK(t)'
    BY <2>2 DEF CallOK
  <2>4. RestOK(u, t)' /\ ClaimOK(u, t)' /\ OwnOK(u, t)' /\ OutOK(u, t)'
    BY <2>2 DEF RestOK, ClaimOK, OwnOK, OutOK
  <2>5. HeldOK(u, t)' /\ LedgerOK(u, t)'
    BY <2>2 DEF HeldOK, LedgerOK
  <2>6. SessionOK(u, t)'
    BY <2>3, <2>4, <2>5 DEF SessionOK
  <2>7. txn'[u] = t
    BY <2>1
  <2> QED
    BY <2>6, <2>7
<1> QED
  BY <1>1, <1>2, <1>3 DEF IInv

LEMMA Initially ==
    ASSUME Init PROVE IInv
<1>1. Idle \in Transactions
  BY DEF Idle, Transactions, Points
<1>2. Types
  <2>1. plans \in [Plans -> {"ABSENT", "VERIFIED_PLAN", "BLOCKED"}]
    BY DEF Init
  <2>2. /\ jobs \in [Jobs -> Row] /\ \A j \in Jobs : RowOK(jobs[j])
        /\ draft \in [Jobs -> Row] /\ \A j \in Jobs : RowOK(draft[j])
    BY NoRowOK DEF Init
  <2>3. leases \in [Jobs -> Seq(LeaseRecords)]
    BY EmptySeq DEF Init
  <2>4. txn \in [Sessions -> Transactions]
    BY <1>1 DEF Init
  <2>5. /\ clock \in Nat /\ events \subseteq Events /\ nextSeq \in Nat \ {0}
        /\ holder \in [Jobs -> Sessions \cup {None}] /\ chainLock \in Sessions \cup {None}
    BY DEF Init
  <2> QED
    BY <2>1, <2>2, <2>3, <2>4, <2>5 DEF Types
<1>3. \A e : e \notin events
  BY DEF Init
<1>4. \A j \in Jobs : jobs[j].state = "ABSENT" /\ leases[j] = << >>
  BY DEF Init, NoRow
<1>5. Committed
  <2>1. \A j : Last(events, j) = {}
    BY <1>3 DEF Last
  <2>2. \A j \in Jobs : Matches(events, j, jobs[j].state)
    BY <1>4, <2>1 DEF Matches
  <2>3. Linked(events) /\ Headed(events) /\ Below(events, nextSeq)
    BY <1>3 DEF Linked, Headed, Below
  <2> QED
    BY <1>4, <2>2, <2>3 DEF Committed
<1>6. \A s \in Sessions : txn[s] = Idle
  BY DEF Init
<1>7. Distinct
  BY <1>6 DEF Distinct, Enqueues, Idle
<1>8. ASSUME NEW s \in Sessions PROVE SessionOK(s, txn[s])
  <2>1. PICK t : t = txn[s]
    OBVIOUS
  <2>2. /\ t.pc = "idle" /\ t.out = {} /\ t.job = None /\ t.todo = {} /\ t.batch = {}
    BY <1>6, <2>1 DEF Idle
  <2>3. (\A j \in Jobs : holder[j] # s) /\ chainLock # s
    BY NoneIsNoSession DEF Init
  <2>4. CallOK(t) /\ RestOK(s, t) /\ ClaimOK(s, t) /\ OwnOK(s, t) /\ OutOK(s, t)
    BY <2>2, <2>3 DEF CallOK, RestOK, ClaimOK, OwnOK, OutOK, Claiming
  <2>5. HeldOK(s, t)
    BY <2>3 DEF HeldOK
  <2>6. LedgerOK(s, t)
    BY <1>5, <2>2, <2>3 DEF LedgerOK, Committed
  <2> QED
    BY <2>1, <2>4, <2>5, <2>6 DEF SessionOK
<1> QED
  BY <1>2, <1>5, <1>7, <1>8 DEF IInv

LEMMA EveryStep ==
    ASSUME IInv, [Next]_vars PROVE IInv'
<1>1. CASE Tick
  <2>1. clock \in Nat /\ clock' = clock + 1
        /\ UNCHANGED <<plans, jobs, events, nextSeq, leases, holder, draft, chainLock, txn>>
    BY <1>1, Typing DEF Tick
  <2> QED
    BY <2>1, TimePasses
<1>2. ASSUME NEW s \in Sessions, NEW call \in PublicCalls, Begin(s, call) PROVE IInv'
  BY <1>2, PublicCall, BeginOK
<1>3. ASSUME NEW s \in Sessions, NEW j \in Jobs, NEW n \in DOMAIN leases[j],
             NEW call \in HolderCalls(j, n), Begin(s, call)
      PROVE  IInv'
  <2>1. /\ call \in Calls /\ call.op # "enqueue_job"
        /\ call.job = j /\ jobs[j].state # "ABSENT"
    BY HolderCall
  <2> QED
    BY <1>3, <2>1, BeginOK
<1>4. ASSUME NEW s \in Sessions, Step(s) PROVE IInv'
  BY <1>4, StartPlanOK, InsertOK, LockRowOK, ScanLapsedOK, LockLapsedOK, FetchedOK,
     TakeBackOK, ReapedOK, SelectOK, TryNextOK, FindNothingOK, AppendOwnOK, CommitOK
     DEF Step
<1>5. ASSUME NEW s \in Sessions, Rollback(s) PROVE IInv'
  BY <1>5, RollbackOK
<1>6. CASE UNCHANGED vars
  <2>1. clock \in Nat /\ clock' = clock
        /\ UNCHANGED <<plans, jobs, events, nextSeq, leases, holder, draft, chainLock, txn>>
    BY <1>6, Typing DEF vars
  <2> QED
    BY <2>1, TimePasses
<1> QED
  BY <1>1, <1>2, <1>3, <1>4, <1>5, <1>6 DEF Next

----------------------------------------------------------------------------
(* The theorems                                                            *)

\* The invariant: what the locks of a transaction protect, it can rely on.
THEOREM Inductive == Spec => []IInv
BY Initially, EveryStep, PTL DEF Spec

\* Tables, locks and transactions hold values of their types.
THEOREM Typed == Spec => []TypeOK
<1>1. IInv => TypeOK
  BY DEF IInv, Types, TypeOK
<1> QED
  BY <1>1, Inductive, PTL

\* voodoo_verify_event_chain answers `ok', whatever calls overlap, deadlock or are
\* rolled back after they have taken a number.
THEOREM ChainHolds == Spec => []ChainVerifies
<1>1. IInv => ChainVerifies
  BY DEF IInv, Committed, Linked, ChainVerifies
<1> QED
  BY <1>1, Inductive, PTL

\* The newest committed event of a job says in which state its row is.
THEOREM RowsMatchEvents == Spec => []EventsMatchRows
<1>1. IInv => EventsMatchRows
  BY DEF IInv, Committed, Matches, EventsMatchRows
<1> QED
  BY <1>1, Inductive, PTL

\* Rows and events change for others only when somebody commits.
LEMMA OnlyCommits ==
    ASSUME [Next]_vars
    PROVE  (\E s \in Sessions : Commit(s)) \/ UNCHANGED <<jobs, events>>
<1>1. CASE Tick
  BY <1>1 DEF Tick
<1>2. ASSUME NEW s \in Sessions, NEW call, Begin(s, call) PROVE UNCHANGED <<jobs, events>>
  BY <1>2 DEF Begin
<1>3. ASSUME NEW s \in Sessions, Step(s), ~ Commit(s) PROVE UNCHANGED <<jobs, events>>
  BY <1>3 DEF Step, StartPlan, Insert, LockRow, ScanLapsed, LockLapsed, Fetched,
              TakeBack, Reaped, Select, TryNext, FindNothing, AppendOwn
<1>4. ASSUME NEW s \in Sessions, Rollback(s) PROVE UNCHANGED <<jobs, events>>
  BY <1>4 DEF Rollback
<1>5. CASE UNCHANGED vars
  BY <1>5 DEF vars
<1> QED
  BY <1>1, <1>2, <1>3, <1>4, <1>5 DEF Next

\* A lease is taken back only when it is over, also when it was extended while the
\* transaction that takes it back waited for the row.
THEOREM TakenBackHolds == Spec => TakenBackWhenOver
<1>1. ASSUME IInv, [Next]_vars, NEW e \in events' \ events
      PROVE  /\ e.kind = "EXECUTION_LEASE_EXPIRED" =>
                   jobs[e.job].state = "LEASED"
                   /\ jobs[e.job].execution_lease_expires_at < clock
             /\ e.kind = "VERIFICATION_LEASE_EXPIRED" =>
                   jobs[e.job].state = "VERIFYING"
                   /\ jobs[e.job].verification_lease_expires_at < clock
  <2>1. PICK s \in Sessions : Commit(s)
    BY <1>1, OnlyCommits
  <2>2. PICK u : u = txn[s]
    OBVIOUS
  <2>3. e \in u.out
    BY <1>1, <2>1, <2>2 DEF Commit
  <2>4. OutOK(s, u) /\ CallOK(u) /\ u.at \in Nat /\ clock \in Nat /\ u.pc = "commit"
    BY <1>1, <2>1, <2>2, Session, Typing DEF Commit
  <2>5. u.at <= clock
    BY <2>4 DEF CallOK
  <2>6. ASSUME e.kind = "EXECUTION_LEASE_EXPIRED"
        PROVE  jobs[e.job].state = "LEASED" /\ jobs[e.job].execution_lease_expires_at < clock
    <3>1. e.job \in Jobs /\ ExecutionLapsed(jobs[e.job], u.at)
      BY <2>3, <2>4, <2>6 DEF OutOK
    <3>2. /\ jobs[e.job].state = "LEASED"
          /\ jobs[e.job].execution_lease_expires_at < u.at
      BY <3>1 DEF ExecutionLapsed
    <3>3. jobs[e.job].execution_lease_expires_at \in Int
      BY <1>1, <3>1, <3>2, Typing DEF RowOK
    <3> QED
      BY <2>4, <2>5, <3>2, <3>3
  <2>7. ASSUME e.kind = "VERIFICATION_LEASE_EXPIRED"
        PROVE  jobs[e.job].state = "VERIFYING"
               /\ jobs[e.job].verification_lease_expires_at < clock
    <3>1. e.job \in Jobs /\ VerificationLapsed(jobs[e.job], u.at)
      BY <2>3, <2>4, <2>7 DEF OutOK
    <3>2. /\ jobs[e.job].state = "VERIFYING"
          /\ jobs[e.job].verification_lease_expires_at < u.at
      BY <3>1 DEF VerificationLapsed
    <3>3. jobs[e.job].verification_lease_expires_at \in Int
      BY <1>1, <3>1, <3>2, Typing DEF RowOK
    <3> QED
      BY <2>4, <2>5, <3>2, <3>3
  <2> QED
    BY <2>6, <2>7
<1> DEFINE Over ==
      \A e \in events' \ events :
         /\ e.kind = "EXECUTION_LEASE_EXPIRED" =>
               jobs[e.job].state = "LEASED" /\ jobs[e.job].execution_lease_expires_at < clock
         /\ e.kind = "VERIFICATION_LEASE_EXPIRED" =>
               jobs[e.job].state = "VERIFYING"
               /\ jobs[e.job].verification_lease_expires_at < clock
<1>2. IInv /\ [Next]_vars => [Over]_vars
  BY <1>1
<1> QED
  BY <1>2, Inductive, PTL DEF Spec, TakenBackWhenOver

----------------------------------------------------------------------------
(* Receipts                                                                *)

\* The receipt of a row, if any, is one that complete_execution does not refuse.
Accepted(r) == r.receipt # None => ~ ReceiptRefused(r.receipt, TRUE)

ReceiptInv == \A j \in Jobs : Accepted(jobs[j]) /\ Accepted(draft[j])

\* No row operation writes a receipt but that of complete_execution.
LEMMA ReceiptsStay ==
    ASSUME NEW r \in Row, NEW call, NEW token, NEW at
    PROVE  /\ TakenBack(r).receipt = r.receipt
           /\ Granted(call, r, token, at).receipt = r.receipt
           /\ call.op \in RowCalls /\ call.op # "complete_execution" =>
                 Updated(call, r, at).receipt = r.receipt
           /\ call.op = "complete_execution" => Updated(call, r, at).receipt = call.receipt
BY DEF Row, TakenBack, Requeued, Reopened, Granted, Leased, UnderInspection, Updated, RowCalls

LEMMA ReceiptsKept ==
    ASSUME IInv, ReceiptInv, [Next]_vars PROVE ReceiptInv'
<1> USE DEF ReceiptInv
<1>1. CASE UNCHANGED <<jobs, draft>>
  BY <1>1 DEF Accepted, ReceiptRefused
<1>2. Accepted(NoRow)
  BY DEF Accepted, NoRow
<1>3. ASSUME NEW s \in Sessions, NEW j \in Jobs, NEW r, Locked(s, j, r), UNCHANGED jobs,
             Accepted(r)
      PROVE  ReceiptInv'
  <2>1. \A i \in Jobs : draft'[i] = r \/ draft'[i] = draft[i]
    BY <1>3, Typing DEF Locked
  <2>2. ASSUME NEW i \in Jobs PROVE Accepted(jobs'[i]) /\ Accepted(draft'[i])
    BY <1>3, <2>1
  <2> QED
    BY <2>2
<1>4. ASSUME NEW s \in Sessions, Unlocked(s),
             \A j \in Jobs : jobs'[j] = jobs[j] \/ jobs'[j] = draft[j]
      PROVE  ReceiptInv'
  <2>1. \A j \in Jobs : draft'[j] = NoRow \/ draft'[j] = draft[j]
    BY <1>4 DEF Unlocked
  <2>2. ASSUME NEW j \in Jobs PROVE Accepted(jobs'[j]) /\ Accepted(draft'[j])
    BY <1>2, <1>4, <2>1
  <2> QED
    BY <2>2
<1>5. ASSUME NEW s \in Sessions, Insert(s), ~ UNCHANGED <<jobs, draft>> PROVE ReceiptInv'
  <2>1. PICK t : t = txn[s]
    OBVIOUS
  <2>2. PICK r : r = [NoRow EXCEPT !.state = "QUEUED", !.available_at = t.at,
                                   !.max_attempts = t.call.budget]
    OBVIOUS
  <2>3. Locked(s, t.call.job, r) /\ UNCHANGED jobs /\ t.call.op = "enqueue_job" /\ t.pc # "idle"
    BY <1>5, <2>1, <2>2 DEF Insert, Raise
  <2>4. t.call.job \in Jobs
    BY <2>1, <2>3, Session, CallFields DEF CallOK
  <2>5. r.receipt = None
    BY <2>2 DEF NoRow
  <2> QED
    BY <1>3, <2>3, <2>4, <2>5 DEF Accepted
<1>6. ASSUME NEW s \in Sessions, LockRow(s), ~ UNCHANGED <<jobs, draft>> PROVE ReceiptInv'
  <2>1. PICK t : t = txn[s]
    OBVIOUS
  <2>2. PICK call, j : call = t.call /\ j = call.job
    OBVIOUS
  <2>3. /\ call.op \in RowCalls /\ t.pc # "idle" /\ ~ RefusedAtOnce(call)
        /\ Locked(s, j, Updated(call, jobs[j], t.at)) /\ UNCHANGED jobs
    BY <1>6, <2>1, <2>2 DEF LockRow, Raise
  <2>4. call \in Calls /\ j \in Jobs
    BY <2>1, <2>2, <2>3, Session, CallFields DEF CallOK
  <2>5. jobs[j] \in Row
    BY <2>4, Typing
  <2>6. Accepted(Updated(call, jobs[j], t.at))
    <3> PICK d : d = Updated(call, jobs[j], t.at)
      OBVIOUS
    <3>0. /\ call.op # "complete_execution" => d.receipt = jobs[j].receipt
          /\ call.op = "complete_execution" => d.receipt = call.receipt
      BY <2>3, <2>5, ReceiptsStay
    <3>1. CASE call.op = "complete_execution"
      <4>1. ~ ReceiptRefused(call.receipt, TRUE)
        BY <2>3, <3>1 DEF RefusedAtOnce, ReceiptRefused
      <4> QED
        BY <3>0, <3>1, <4>1 DEF Accepted
    <3>2. CASE call.op # "complete_execution"
      BY <2>4, <3>0, <3>2 DEF Accepted
    <3> QED
      BY <3>1, <3>2
  <2> QED
    BY <1>3, <2>3, <2>4, <2>6
<1>7. ASSUME NEW s \in Sessions, LockLapsed(s) PROVE ReceiptInv'
  <2>1. PICK j \in txn[s].todo : Locked(s, j, jobs[j])
    BY <1>7 DEF LockLapsed
  <2>2. UNCHANGED jobs /\ txn[s].todo \subseteq Jobs
    BY <1>7, Session DEF LockLapsed
  <2>3. j \in Jobs
    BY <2>1, <2>2
  <2> QED
    BY <1>3, <2>1, <2>2, <2>3
<1>8. ASSUME NEW s \in Sessions, TakeBack(s) PROVE ReceiptInv'
  <2>1. PICK j \in txn[s].batch : draft' = [draft EXCEPT ![j] = TakenBack(draft[j])]
    BY <1>8 DEF TakeBack
  <2>2. UNCHANGED jobs /\ txn[s].batch \subseteq Jobs
    BY <1>8, Session DEF TakeBack
  <2>3. j \in Jobs /\ draft \in [Jobs -> Row] /\ draft[j] \in Row
    BY <2>1, <2>2, Typing
  <2>4. Accepted(TakenBack(draft[j]))
    <3> PICK r, d : r = draft[j] /\ d = TakenBack(r)
      OBVIOUS
    <3>1. d.receipt = r.receipt
      BY <2>3, ReceiptsStay
    <3> QED
      BY <2>3, <3>1 DEF Accepted
  <2>5. \A i \in Jobs : draft'[i] = TakenBack(draft[j]) \/ draft'[i] = draft[i]
    BY <2>1, <2>3
  <2>6. ASSUME NEW i \in Jobs PROVE Accepted(jobs'[i]) /\ Accepted(draft'[i])
    BY <2>2, <2>4, <2>5
  <2> QED
    BY <2>6
<1>9. ASSUME NEW s \in Sessions, TryNext(s), ~ UNCHANGED <<jobs, draft>> PROVE ReceiptInv'
  <2>1. PICK t : t = txn[s]
    OBVIOUS
  <2>2. PICK j \in InOrder(t.call, t.todo) :
           \/ Locked(s, j, Granted(t.call, Seen(s, j), Len(leases[j]) + 1, t.at))
           \/ Locked(s, j, Seen(s, j))
    BY <1>9, <2>1 DEF TryNext
  <2>3. UNCHANGED jobs /\ t.todo \subseteq Jobs
    BY <1>9, <2>1, Session DEF TryNext
  <2>4. j \in Jobs
    BY <2>2, <2>3 DEF InOrder, First
  <2>5. Seen(s, j) \in Row /\ Accepted(Seen(s, j))
    BY <2>4, Typing DEF Seen
  <2>6. Accepted(Granted(t.call, Seen(s, j), Len(leases[j]) + 1, t.at))
    <3> PICK r, d : r = Seen(s, j) /\ d = Granted(t.call, r, Len(leases[j]) + 1, t.at)
      OBVIOUS
    <3>1. d.receipt = r.receipt
      BY <2>5, ReceiptsStay
    <3> QED
      BY <2>5, <3>1 DEF Accepted
  <2> QED
    BY <1>3, <2>2, <2>3, <2>4, <2>5, <2>6
<1>10. ASSUME NEW s \in Sessions, Commit(s) PROVE ReceiptInv'
  BY <1>4, <1>10 DEF Commit, Seen
<1>11. ASSUME NEW s \in Sessions, Rollback(s) PROVE ReceiptInv'
  BY <1>4, <1>11 DEF Rollback
<1>12. ASSUME NEW s \in Sessions, Step(s) PROVE ReceiptInv'
  BY <1>1, <1>5, <1>6, <1>7, <1>8, <1>9, <1>10, <1>12
     DEF Step, StartPlan, ScanLapsed, Fetched, Reaped, Select, FindNothing, AppendOwn
<1>13. CASE Tick \/ UNCHANGED vars
  BY <1>1, <1>13 DEF Tick, vars
<1>14. ASSUME NEW s \in Sessions, NEW call, Begin(s, call) PROVE ReceiptInv'
  BY <1>1, <1>14 DEF Begin
<1> QED
  BY <1>11, <1>12, <1>13, <1>14 DEF Next

\* What is on record as a receipt got past the guards of complete_execution as SQL
\* decides them, in whichever order calls came.
THEOREM ReceiptsPassTheGuards ==
    Spec => [](\A j \in Jobs : jobs[j].receipt # None => ~ ReceiptRefused(jobs[j].receipt, TRUE))
<1>1. Init => ReceiptInv
  <2>1. Accepted(NoRow)
    BY DEF Accepted, NoRow
  <2> QED
    BY <2>1 DEF Init, ReceiptInv
<1>2. IInv /\ ReceiptInv /\ [Next]_vars => ReceiptInv'
  BY ReceiptsKept
<1>3. ReceiptInv => \A j \in Jobs :
                       jobs[j].receipt # None => ~ ReceiptRefused(jobs[j].receipt, TRUE)
  BY DEF ReceiptInv, Accepted
<1> QED
  BY <1>1, <1>2, <1>3, Inductive, PTL DEF Spec

\* docs/EXECUTOR_R3.md:56 is true of receipts that say something of verification:
\* NULL is the only way around it.
THEOREM UnlessNothingIsSaid ==
    ASSUME \A receipt \in Receipts : receipt.verification_status # None
    PROVE  Spec => []AcceptedSayUnknown
<1> DEFINE Passed == \A j \in Jobs : jobs[j].receipt # None =>
                        ~ ReceiptRefused(jobs[j].receipt, TRUE)
<1>1. IInv /\ Passed => AcceptedSayUnknown
  <2> SUFFICES ASSUME IInv, Passed, NEW j \in Jobs, jobs[j].receipt # None
               PROVE  jobs[j].receipt.verification_status = "UNKNOWN"
    BY DEF AcceptedSayUnknown
  <2>1. PICK receipt : receipt = jobs[j].receipt
    OBVIOUS
  <2>2. receipt \in Receipts
    BY <2>1, Typing DEF Row
  <2>3. Differs(receipt.verification_status, "UNKNOWN") # "true"
    BY <2>1 DEF ReceiptRefused
  <2> QED
    BY <2>1, <2>2, <2>3, PostgresAssumption DEF Differs
<1> QED
  BY <1>1, ReceiptsPassTheGuards, Inductive, PTL

----------------------------------------------------------------------------
(* Leases                                                                  *)

\* The row honours the newest lease of the list, if any.
Honours(r, list) ==
    /\ r.state = "LEASED" =>
          /\ r.execution_lease_hash = Len(list) /\ Len(list) \in DOMAIN list
          /\ list[Len(list)] = [kind |-> "execution", owner |-> r.execution_worker_id]
    /\ r.state = "VERIFYING" =>
          /\ r.verification_lease_hash = Len(list) /\ Len(list) \in DOMAIN list
          /\ list[Len(list)] = [kind |-> "verification", owner |-> r.verifier_id]

LeaseFor(call) ==
    [kind |-> IF call.op = "claim_execution" THEN "execution" ELSE "verification",
     owner |-> call.actor]

Writing(t) == t.pc \in {"append", "commit"}

\* The leases of job j once transaction t has committed.
Promised(t, j) ==
    IF Writing(t) /\ t.job = j /\ t.call.op \in Claims
    THEN Append(leases[j], LeaseFor(t.call)) ELSE leases[j]

\* A call that came with a lease has written the row of that lease.
Presents(t) ==
    Writing(t) /\ t.call.op \in RowCalls =>
        t.job = t.call.job /\ t.call.token = Len(leases[t.call.job])

LeasesOK(s, t) ==
    /\ \A j \in Jobs : holder[j] = s => Honours(draft[j], Promised(t, j))
    /\ Presents(t)

LeaseInv ==
    /\ \A j \in Jobs : Honours(jobs[j], leases[j])
    /\ \A s \in Sessions : LeasesOK(s, txn[s])

LEMMA TakenBackHonours ==
    ASSUME NEW r \in Row, NEW list PROVE Honours(TakenBack(r), list)
BY DEF Row, Honours, TakenBack, Requeued, NextState, Reopened

LEMMA UpdatesHonour ==
    ASSUME NEW r \in Row, NEW list, Honours(r, list), NEW call, NEW at,
           call.op \in RowCalls, call.op = "complete_verification" => call.verdict \in Verdicts
    PROVE  Honours(Updated(call, r, at), list)
<1>1. CASE call.op = "heartbeat_execution"
  BY <1>1 DEF Row, Honours, Updated
<1>2. CASE call.op = "complete_execution"
  BY <1>2 DEF Row, Honours, Updated
<1>3. CASE call.op = "fail_execution"
  BY <1>3 DEF Row, Honours, Updated, Requeued, NextState
<1>4. CASE call.op = "complete_verification"
  BY <1>4 DEF Row, Honours, Updated, Verdicts
<1> QED
  BY <1>1, <1>2, <1>3, <1>4 DEF RowCalls

LEMMA GrantsHonour ==
    ASSUME NEW r \in Row, NEW list \in Seq(LeaseRecords), NEW call \in Calls,
           call.op \in Claims, NEW at
    PROVE  Honours(Granted(call, r, Len(list) + 1, at), Append(list, LeaseFor(call)))
<1>1. PICK more : more = Append(list, LeaseFor(call))
  OBVIOUS
<1>2. LeaseFor(call) \in LeaseRecords
  BY CallFields DEF LeaseFor, LeaseRecords
<1>3. /\ Len(more) = Len(list) + 1 /\ Len(more) \in DOMAIN more
      /\ more[Len(more)] = LeaseFor(call)
  BY <1>1, <1>2
<1>4. PICK d, n : d = Granted(call, r, n, at) /\ n = Len(list) + 1
  OBVIOUS
<1>5. CASE call.op = "claim_execution"
  <2>1. /\ d.state = "LEASED" /\ d.execution_lease_hash = n
        /\ d.execution_worker_id = call.actor
    BY <1>4, <1>5 DEF Row, Granted, Leased
  <2>2. LeaseFor(call) = [kind |-> "execution", owner |-> call.actor]
    BY <1>5 DEF LeaseFor
  <2> QED
    BY <1>1, <1>3, <1>4, <2>1, <2>2 DEF Honours
<1>6. CASE call.op = "claim_verification"
  <2>1. /\ d.state = "VERIFYING" /\ d.verification_lease_hash = n /\ d.verifier_id = call.actor
    BY <1>4, <1>6 DEF Row, Granted, UnderInspection
  <2>2. LeaseFor(call) = [kind |-> "verification", owner |-> call.actor]
    BY <1>6 DEF LeaseFor
  <2> QED
    BY <1>1, <1>3, <1>4, <2>1, <2>2 DEF Honours
<1> QED
  BY <1>5, <1>6 DEF Claims

\* A step of s that is no commit: it is enough to look at s.
LEMMA LeaseStep ==
    ASSUME IInv, LeaseInv, NEW s \in Sessions, NEW t, txn' = [txn EXCEPT ![s] = t],
           \A j \in Jobs : \/ holder'[j] = holder[j] /\ draft'[j] = draft[j]
                           \/ holder'[j] \in {None, s},
           UNCHANGED <<jobs, leases>>, LeasesOK(s, t)'
    PROVE  LeaseInv'
<1>1. txn'[s] = t /\ \A u \in Sessions \ {s} : txn'[u] = txn[u]
  BY Typing
<1>2. ASSUME NEW u \in Sessions, u # s PROVE LeasesOK(u, txn[u])'
  <2>1. PICK k : k = txn[u]
    OBVIOUS
  <2>2. LeasesOK(u, k)
    BY <2>1 DEF LeaseInv
  <2>3. \A j \in Jobs : holder'[j] = u => holder[j] = u /\ draft'[j] = draft[j]
    BY <1>2, NoneIsNoSession
  <2>4. LeasesOK(u, k)'
    BY <2>2, <2>3 DEF LeasesOK, Promised, Presents, Writing
  <2> QED
    BY <1>1, <1>2, <2>1, <2>4
<1>3. \A u \in Sessions : LeasesOK(u, txn[u])'
  BY <1>1, <1>2
<1>4. \A j \in Jobs : Honours(jobs'[j], leases'[j])
  BY DEF LeaseInv
<1> QED
  BY <1>3, <1>4 DEF LeaseInv

\* A session that holds no row afterwards, and comes with no lease.
LEMMA EmptyHands ==
    ASSUME IInv, LeaseInv, NEW s \in Sessions, NEW t, txn' = [txn EXCEPT ![s] = t],
           \A j \in Jobs : \/ holder'[j] = holder[j] /\ draft'[j] = draft[j]
                           \/ holder'[j] \in {None, s},
           UNCHANGED <<jobs, leases>>, \A j \in Jobs : holder'[j] # s,
           Writing(t) => t.call.op \notin RowCalls
    PROVE  LeaseInv'
<1>1. LeasesOK(s, t)'
  BY DEF LeasesOK, Presents, Writing
<1> QED
  BY <1>1, LeaseStep

\* A claim on its way that has not found its job: its rows are as they were.
LEMMA StillClaiming ==
    ASSUME IInv, LeaseInv, NEW s \in Sessions, NEW t, txn' = [txn EXCEPT ![s] = t],
           UNCHANGED <<holder, draft, jobs, leases>>, txn[s].pc \in Claiming,
           t.call = txn[s].call, t.job = txn[s].job
    PROVE  LeaseInv'
<1>1. PICK u : u = txn[s]
  OBVIOUS
<1>2. u.call.op \in Claims /\ u.job = None
  BY <1>1, Session DEF ClaimOK
<1>3. LeasesOK(s, u)
  BY <1>1 DEF LeaseInv
<1>4. \A j \in Jobs : Promised(u, j) = leases[j] /\ Promised(t, j)' = leases[j]
  BY <1>1, <1>2, NoneIsNoSession DEF Promised
<1>5. LeasesOK(s, t)'
  BY <1>1, <1>2, <1>3, <1>4 DEF LeasesOK, Presents, Claims, RowCalls
<1> QED
  BY <1>5, LeaseStep

LEMMA LockRowHonours ==
    ASSUME IInv, LeaseInv, NEW s \in Sessions, LockRow(s) PROVE LeaseInv'
<1>1. PICK u, call, j : u = txn[s] /\ call = u.call /\ j = call.job
  OBVIOUS
<1>2. u.pc = "start" /\ call.op \in RowCalls /\ UNCHANGED <<jobs, leases>>
  BY <1>1 DEF LockRow
<1>3. call \in Calls /\ j \in Jobs /\ u \in Transactions
  BY <1>1, <1>2, Session, CallFields DEF CallOK
<1>4. \A i \in Jobs : holder[i] # s
  BY <1>1, <1>2, Session DEF RestOK
<1>5. CASE Raise(s)
  <2>1. txn' = [txn EXCEPT ![s] = Idle] /\ UNCHANGED <<holder, draft>>
    BY <1>5 DEF Raise
  <2>2. ~ Writing(Idle)
    BY DEF Writing, Idle
  <2> QED
    BY <1>2, <1>4, <2>1, <2>2, EmptyHands
<1>6. CASE ~ Raise(s)
  <2>1. PICK t : t = [u EXCEPT !.pc = "append", !.job = j]
    OBVIOUS
  <2>2. /\ Permitted(call, jobs[j], u.at) /\ Locked(s, j, Updated(call, jobs[j], u.at))
        /\ txn' = [txn EXCEPT ![s] = t]
    BY <1>1, <1>6, <2>1 DEF LockRow
  <2>3. t.call = call /\ t.job = j /\ t.pc = "append"
    BY <1>1, <1>3, <2>1 DEF Transactions
  <2>4. PICK r, d : r = jobs[j] /\ d = Updated(call, r, u.at)
    OBVIOUS
  <2>5. r \in Row /\ Honours(r, leases[j])
    BY <1>3, <2>4, Typing DEF LeaseInv
  <2>6. Honours(d, leases[j])
    BY <1>2, <1>3, <2>4, <2>5, CallFields, UpdatesHonour
  <2>7. call.token = Len(leases[j])
    BY <1>2, <2>2, <2>4, <2>5 DEF Permitted, Honours, RowCalls
  <2>8. /\ \A i \in Jobs \ {j} : holder'[i] = holder[i] /\ draft'[i] = draft[i]
        /\ holder'[j] = s /\ draft'[j] = d
    BY <1>3, <2>2, <2>4, Typing DEF Locked
  <2>9. Promised(t, j)' = leases[j]
    BY <1>2, <2>3 DEF Promised, Claims, RowCalls
  <2>10. LeasesOK(s, t)'
    BY <1>1, <1>2, <1>4, <2>3, <2>6, <2>7, <2>8, <2>9 DEF LeasesOK, Presents
  <2>11. \A i \in Jobs : \/ holder'[i] = holder[i] /\ draft'[i] = draft[i]
                         \/ holder'[i] \in {None, s}
    BY <2>8
  <2> QED
    BY <1>2, <2>2, <2>10, <2>11, LeaseStep
<1> QED
  BY <1>5, <1>6

\* A claim locks a row, or writes it, without granting it.
LEMMA ClaimHolds ==
    ASSUME IInv, LeaseInv, NEW s \in Sessions, NEW t, txn' = [txn EXCEPT ![s] = t],
           txn[s].pc \in Claiming, t.call = txn[s].call, t.job = txn[s].job,
           UNCHANGED <<jobs, leases>>, NEW j \in Jobs, NEW r, Honours(r, leases[j]),
           \A i \in Jobs \ {j} : holder'[i] = holder[i] /\ draft'[i] = draft[i],
           holder'[j] = s, draft'[j] = r
    PROVE  LeaseInv'
<1>1. PICK u : u = txn[s]
  OBVIOUS
<1>2. u.call.op \in Claims /\ u.job = None
  BY <1>1, Session DEF ClaimOK
<1>3. LeasesOK(s, u)
  BY <1>1 DEF LeaseInv
<1>4. \A i \in Jobs : Promised(u, i) = leases[i] /\ Promised(t, i)' = leases[i]
  BY <1>1, <1>2, NoneIsNoSession DEF Promised
<1>5. LeasesOK(s, t)'
  BY <1>1, <1>2, <1>3, <1>4 DEF LeasesOK, Presents, Claims, RowCalls
<1>6. \A i \in Jobs : \/ holder'[i] = holder[i] /\ draft'[i] = draft[i]
                      \/ holder'[i] \in {None, s}
  OBVIOUS
<1> QED
  BY <1>5, <1>6, LeaseStep

\* What a claim sees of a row honours its newest lease.
LEMMA SeenHonours ==
    ASSUME IInv, LeaseInv, NEW s \in Sessions, txn[s].pc \in Claiming, NEW j \in Jobs
    PROVE  Seen(s, j) \in Row /\ Honours(Seen(s, j), leases[j])
<1>1. PICK u : u = txn[s]
  OBVIOUS
<1>2. u.job = None /\ LeasesOK(s, u)
  BY <1>1, Session DEF ClaimOK, LeaseInv
<1>3. holder[j] = s => Honours(draft[j], leases[j])
  BY <1>2, NoneIsNoSession DEF LeasesOK, Promised
<1> QED
  BY <1>3, Typing DEF Seen, LeaseInv

LEMMA LockLapsedHonours ==
    ASSUME IInv, LeaseInv, NEW s \in Sessions, LockLapsed(s) PROVE LeaseInv'
<1>1. PICK u : u = txn[s]
  OBVIOUS
<1>2. u \in Transactions /\ u.todo \subseteq Jobs /\ u.pc = "fetch" /\ UNCHANGED <<jobs, leases>>
  BY <1>1, Session DEF LockLapsed
<1>3. PICK j \in u.todo : Locked(s, j, jobs[j]) /\ j = u.next
  BY <1>1 DEF LockLapsed
<1>n. PICK next :
         txn' = [txn EXCEPT ![s] =
               [u EXCEPT !.todo = u.todo \ {j}, !.next = next,
                         !.batch = IF StillLapsed(s, j) THEN u.batch \cup {j} ELSE u.batch]]
  BY <1>1, <1>2, <1>3 DEF LockLapsed, Transactions
<1>4. PICK t : t = [u EXCEPT !.todo = u.todo \ {j}, !.next = next,
                             !.batch = IF StillLapsed(s, j) THEN u.batch \cup {j} ELSE u.batch]
  OBVIOUS
<1>5. t.call = u.call /\ t.job = u.job /\ txn' = [txn EXCEPT ![s] = t]
  BY <1>2, <1>n, <1>4 DEF Transactions
<1>6. j \in Jobs /\ Honours(jobs[j], leases[j])
  BY <1>2, <1>3 DEF LeaseInv
<1>7. /\ \A i \in Jobs \ {j} : holder'[i] = holder[i] /\ draft'[i] = draft[i]
      /\ holder'[j] = s /\ draft'[j] = jobs[j]
  BY <1>3, <1>6, Typing DEF Locked
<1> QED
  BY <1>1, <1>2, <1>5, <1>6, <1>7, ClaimHolds DEF Claiming

LEMMA TakeBackHonours ==
    ASSUME IInv, LeaseInv, NEW s \in Sessions, TakeBack(s) PROVE LeaseInv'
<1>1. PICK u : u = txn[s]
  OBVIOUS
<1>2. u \in Transactions /\ u.batch \subseteq Jobs /\ u.pc = "reap" /\ ClaimOK(s, u)
      /\ UNCHANGED <<jobs, leases, holder>>
  BY <1>1, Session DEF TakeBack
<1>3. PICK j \in u.batch :
         /\ draft' = [draft EXCEPT ![j] = TakenBack(draft[j])]
         /\ AppendEvent(s, j, ReapEvent(draft[j]), TakenBack(draft[j]).state,
                        [u EXCEPT !.batch = @ \ {j}])
  BY <1>1, <1>2 DEF TakeBack
<1>4. PICK v : v = [u EXCEPT !.batch = @ \ {j}]
  OBVIOUS
<1>5. PICK more : txn' = [txn EXCEPT ![s] = [v EXCEPT !.out = @ \cup more]]
  BY <1>3, <1>4 DEF AppendEvent
<1>6. PICK t : t = [v EXCEPT !.out = @ \cup more]
  OBVIOUS
<1>7. t.call = u.call /\ t.job = u.job /\ txn' = [txn EXCEPT ![s] = t]
  BY <1>2, <1>4, <1>5, <1>6 DEF Transactions
<1>8. j \in Jobs /\ holder[j] = s /\ draft \in [Jobs -> Row] /\ draft[j] \in Row
  BY <1>2, <1>3, Typing DEF ClaimOK
<1>9. Honours(TakenBack(draft[j]), leases[j])
  BY <1>8, TakenBackHonours
<1>10. /\ \A i \in Jobs \ {j} : holder'[i] = holder[i] /\ draft'[i] = draft[i]
       /\ holder'[j] = s /\ draft'[j] = TakenBack(draft[j])
  BY <1>2, <1>3, <1>8
<1> QED
  BY <1>1, <1>2, <1>7, <1>8, <1>9, <1>10, ClaimHolds DEF Claiming

LEMMA TryNextHonours ==
    ASSUME IInv, LeaseInv, NEW s \in Sessions, TryNext(s) PROVE LeaseInv'
<1>1. PICK u, call : u = txn[s] /\ call = u.call
  OBVIOUS
<1>2. u \in Transactions /\ u.todo \subseteq Jobs /\ u.pc = "try" /\ UNCHANGED <<jobs, leases>>
      /\ call \in Calls /\ call.op \in Claims /\ u.job = None /\ LeasesOK(s, u)
  BY <1>1, Session DEF TryNext, ClaimOK, CallOK, Claiming, LeaseInv
<1>3. PICK j \in InOrder(call, u.todo) :
         \/ /\ Locked(s, j, Granted(call, Seen(s, j), Len(leases[j]) + 1, u.at))
            /\ txn' = [txn EXCEPT ![s] = [u EXCEPT !.pc = "append", !.todo = {}, !.job = j]]
         \/ /\ txn' = [txn EXCEPT ![s] = [u EXCEPT !.todo = u.todo \ {j}]]
            /\ Locked(s, j, Seen(s, j)) \/ UNCHANGED <<holder, draft>>
  BY <1>1, <1>2 DEF TryNext, Transactions
<1>4. j \in Jobs
  BY <1>2, <1>3 DEF InOrder, First
<1>5. PICK r : r = Seen(s, j) /\ r \in Row /\ Honours(r, leases[j])
  BY <1>1, <1>2, <1>4, SeenHonours DEF Claiming
<1>6. CASE /\ Locked(s, j, Granted(call, Seen(s, j), Len(leases[j]) + 1, u.at))
           /\ txn' = [txn EXCEPT ![s] = [u EXCEPT !.pc = "append", !.todo = {}, !.job = j]]
  <2>1. PICK t : t = [u EXCEPT !.pc = "append", !.todo = {}, !.job = j]
    OBVIOUS
  <2>2. t.call = call /\ t.job = j /\ t.pc = "append"
    BY <1>1, <1>2, <2>1 DEF Transactions
  <2>3. PICK d : d = Granted(call, r, Len(leases[j]) + 1, u.at)
    OBVIOUS
  <2>4. leases[j] \in Seq(LeaseRecords)
    BY <1>4 DEF IInv, Types
  <2>5. Honours(d, Append(leases[j], LeaseFor(call)))
    BY <1>2, <1>5, <2>3, <2>4, GrantsHonour
  <2>6. Promised(t, j)' = Append(leases[j], LeaseFor(call))
    BY <1>2, <2>2 DEF Promised, Writing
  <2>7. \A i \in Jobs \ {j} : Promised(t, i)' = leases[i] /\ Promised(u, i) = leases[i]
    BY <1>2, <2>2, NoneIsNoSession DEF Promised
  <2>8. /\ \A i \in Jobs \ {j} : holder'[i] = holder[i] /\ draft'[i] = draft[i]
        /\ holder'[j] = s /\ draft'[j] = d
    BY <1>4, <1>5, <1>6, <2>3, Typing DEF Locked
  <2>9. ASSUME NEW i \in Jobs, holder'[i] = s PROVE Honours(draft'[i], Promised(t, i)')
    <3>1. CASE i = j
      BY <2>5, <2>6, <2>8, <3>1
    <3>2. CASE i # j
      BY <1>2, <2>7, <2>8, <2>9, <3>2 DEF LeasesOK
    <3> QED
      BY <3>1, <3>2
  <2>10. LeasesOK(s, t)'
    BY <1>2, <2>2, <2>9 DEF LeasesOK, Presents, Claims, RowCalls
  <2>11. \A i \in Jobs : \/ holder'[i] = holder[i] /\ draft'[i] = draft[i]
                         \/ holder'[i] \in {None, s}
    BY <2>8
  <2>12. txn' = [txn EXCEPT ![s] = t]
    BY <1>6, <2>1
  <2> QED
    BY <1>2, <2>10, <2>11, <2>12, LeaseStep
<1>7. CASE /\ txn' = [txn EXCEPT ![s] = [u EXCEPT !.todo = u.todo \ {j}]]
           /\ Locked(s, j, Seen(s, j)) \/ UNCHANGED <<holder, draft>>
  <2>1. PICK t : t = [u EXCEPT !.todo = u.todo \ {j}]
    OBVIOUS
  <2>2. t.call = u.call /\ t.job = u.job /\ txn' = [txn EXCEPT ![s] = t]
    BY <1>2, <1>7, <2>1 DEF Transactions
  <2>3. CASE UNCHANGED <<holder, draft>>
    BY <1>1, <1>2, <2>2, <2>3, StillClaiming DEF Claiming
  <2>4. CASE Locked(s, j, Seen(s, j))
    <3>1. /\ \A i \in Jobs \ {j} : holder'[i] = holder[i] /\ draft'[i] = draft[i]
          /\ holder'[j] = s /\ draft'[j] = r
      BY <1>4, <1>5, <2>4, Typing DEF Locked
    <3> QED
      BY <1>1, <1>2, <1>4, <1>5, <2>2, <3>1, ClaimHolds DEF Claiming
  <2> QED
    BY <1>7, <2>3, <2>4
<1> QED
  BY <1>3, <1>6, <1>7

\* The row that enqueue_job inserts was never handed out.
LEMMA InsertHonours ==
    ASSUME IInv, LeaseInv, NEW s \in Sessions, Insert(s) PROVE LeaseInv'
<1>1. PICK u, call, j : u = txn[s] /\ call = u.call /\ j = call.job
  OBVIOUS
<1>2. u.pc = "start" /\ call.op = "enqueue_job" /\ UNCHANGED <<jobs, leases>>
  BY <1>1 DEF Insert
<1>3. call \in Calls /\ j \in Jobs /\ u \in Transactions /\ \A i \in Jobs : holder[i] # s
  BY <1>1, <1>2, Session, CallFields DEF CallOK, RestOK
<1>4. CASE Raise(s)
  <2>1. txn' = [txn EXCEPT ![s] = Idle] /\ UNCHANGED <<holder, draft>>
    BY <1>4 DEF Raise
  <2>2. ~ Writing(Idle)
    BY DEF Writing, Idle
  <2> QED
    BY <1>2, <1>3, <2>1, <2>2, EmptyHands
<1>5. CASE ~ Raise(s)
  <2>1. PICK d : d = [NoRow EXCEPT !.state = "QUEUED", !.available_at = u.at,
                                   !.max_attempts = call.budget]
    OBVIOUS
  <2>2. PICK t : t = [u EXCEPT !.pc = "append", !.job = j]
    OBVIOUS
  <2>3. Locked(s, j, d) /\ txn' = [txn EXCEPT ![s] = t]
    BY <1>1, <1>5, <2>1, <2>2 DEF Insert
  <2>4. d.state = "QUEUED" /\ t.call = call
    BY <1>1, <1>3, <2>1, <2>2 DEF NoRow, Transactions
  <2>5. /\ \A i \in Jobs \ {j} : holder'[i] = holder[i] /\ draft'[i] = draft[i]
        /\ holder'[j] = s /\ draft'[j] = d
    BY <1>3, <2>3, Typing DEF Locked
  <2>6. LeasesOK(s, t)'
    BY <1>2, <1>3, <2>4, <2>5 DEF LeasesOK, Honours, Presents, RowCalls
  <2>7. \A i \in Jobs : \/ holder'[i] = holder[i] /\ draft'[i] = draft[i]
                        \/ holder'[i] \in {None, s}
    BY <2>5
  <2> QED
    BY <1>2, <2>3, <2>6, <2>7, LeaseStep
<1> QED
  BY <1>4, <1>5

\* The steps at the beginning of a call, which holds no row yet.
LEMMA StartHonours ==
    ASSUME IInv, LeaseInv, NEW s \in Sessions,
           StartPlan(s) \/ ScanLapsed(s) \/ \E call : Begin(s, call)
    PROVE  LeaseInv'
<1>1. PICK u : u = txn[s]
  OBVIOUS
<1>2. u \in Transactions /\ u.pc \in {"idle", "start"} /\ RestOK(s, u)
      /\ UNCHANGED <<jobs, leases, holder, draft>>
  BY <1>1, Session DEF StartPlan, ScanLapsed, Begin
<1>3. \A j \in Jobs : holder'[j] # s
  BY <1>2 DEF RestOK
<1>4. \E t : txn' = [txn EXCEPT ![s] = t] /\ (Writing(t) => t.call.op \notin RowCalls)
  <2>1. CASE StartPlan(s)
    <3>1. PICK t : t = [u EXCEPT !.pc = "append"]
      OBVIOUS
    <3>2. txn' = [txn EXCEPT ![s] = t] /\ u.call.op = "record_plan"
      BY <1>1, <2>1, <3>1 DEF StartPlan
    <3>3. t.call = u.call
      BY <1>2, <3>1 DEF Transactions
    <3> QED
      BY <3>2, <3>3 DEF RowCalls
  <2>2. CASE ScanLapsed(s)
    <3>0. PICK S, next : txn' = [txn EXCEPT ![s] =
                                   [u EXCEPT !.pc = "fetch", !.todo = S, !.next = next]]
      BY <1>1, <2>2 DEF ScanLapsed
    <3>1. PICK t : t = [u EXCEPT !.pc = "fetch", !.todo = S, !.next = next]
      OBVIOUS
    <3>2. txn' = [txn EXCEPT ![s] = t]
      BY <3>0, <3>1
    <3>3. t.pc = "fetch"
      BY <1>2, <3>1 DEF Transactions
    <3> QED
      BY <3>2, <3>3 DEF Writing
  <2>3. ASSUME NEW call, Begin(s, call)
        PROVE  \E t : txn' = [txn EXCEPT ![s] = t] /\ (Writing(t) => t.call.op \notin RowCalls)
    <3>1. PICK t : t = [Idle EXCEPT !.at = clock, !.pc = "start", !.call = call]
      OBVIOUS
    <3>2. txn' = [txn EXCEPT ![s] = t]
      BY <2>3, <3>1 DEF Begin
    <3>3. t.pc = "start"
      BY <3>1 DEF Idle
    <3> QED
      BY <3>2, <3>3 DEF Writing
  <2> QED
    BY <2>1, <2>2, <2>3
<1> QED
  BY <1>2, <1>3, <1>4, EmptyHands

\* The steps between the statements of a claim.
LEMMA SearchHonours ==
    ASSUME IInv, LeaseInv, NEW s \in Sessions,
           Fetched(s) \/ Reaped(s) \/ Select(s) \/ FindNothing(s)
    PROVE  LeaseInv'
<1>1. PICK u : u = txn[s]
  OBVIOUS
<1>2. u \in Transactions /\ u.pc \in Claiming /\ UNCHANGED <<jobs, leases, holder, draft>>
  BY <1>1, Session DEF Fetched, Reaped, Select, FindNothing, Claiming
<1>3. \E t : txn' = [txn EXCEPT ![s] = t] /\ t.call = u.call /\ t.job = u.job
  <2>1. ASSUME NEW pc, NEW todo, txn' = [txn EXCEPT ![s] = [u EXCEPT !.pc = pc, !.todo = todo]]
        PROVE  \E t : txn' = [txn EXCEPT ![s] = t] /\ t.call = u.call /\ t.job = u.job
    <3>1. PICK t : t = [u EXCEPT !.pc = pc, !.todo = todo]
      OBVIOUS
    <3>2. t.call = u.call /\ t.job = u.job
      BY <1>2, <3>1 DEF Transactions
    <3> QED
      BY <2>1, <3>1, <3>2
  <2>2. ASSUME NEW pc, txn' = [txn EXCEPT ![s] = [u EXCEPT !.pc = pc]]
        PROVE  \E t : txn' = [txn EXCEPT ![s] = t] /\ t.call = u.call /\ t.job = u.job
    <3>1. PICK t : t = [u EXCEPT !.pc = pc]
      OBVIOUS
    <3>2. t.call = u.call /\ t.job = u.job
      BY <1>2, <3>1 DEF Transactions
    <3> QED
      BY <2>2, <3>1, <3>2
  <2> QED
    BY <1>1, <2>1, <2>2 DEF Fetched, Reaped, Select, FindNothing
<1> QED
  BY <1>1, <1>2, <1>3, StillClaiming

LEMMA AppendOwnHonours ==
    ASSUME IInv, LeaseInv, NEW s \in Sessions, AppendOwn(s) PROVE LeaseInv'
<1>1. PICK u : u = txn[s]
  OBVIOUS
<1>2. u \in Transactions /\ u.pc = "append" /\ UNCHANGED <<jobs, leases, holder, draft>>
      /\ LeasesOK(s, u)
  BY <1>1, Session DEF AppendOwn, LeaseInv
<1>3. PICK v : v = [u EXCEPT !.pc = "commit"]
  OBVIOUS
<1>4. PICK more : txn' = [txn EXCEPT ![s] = [v EXCEPT !.out = @ \cup more]]
  BY <1>1, <1>3 DEF AppendOwn, AppendEvent
<1>5. PICK t : t = [v EXCEPT !.out = @ \cup more]
  OBVIOUS
<1>6. t.pc = "commit" /\ t.call = u.call /\ t.job = u.job /\ txn' = [txn EXCEPT ![s] = t]
  BY <1>2, <1>3, <1>4, <1>5 DEF Transactions
<1>7. LeasesOK(s, t)'
  BY <1>2, <1>6 DEF LeasesOK, Promised, Presents, Writing
<1> QED
  BY <1>2, <1>6, <1>7, LeaseStep

LEMMA RollbackHonours ==
    ASSUME IInv, LeaseInv, NEW s \in Sessions, Rollback(s) PROVE LeaseInv'
<1>1. /\ txn' = [txn EXCEPT ![s] = Idle] /\ UNCHANGED <<jobs, leases>>
      /\ \A j \in Jobs : \/ holder'[j] = holder[j] /\ draft'[j] = draft[j]
                         \/ holder'[j] \in {None, s}
      /\ \A j \in Jobs : holder'[j] # s
  BY NoneIsNoSession DEF Rollback, Unlocked
<1>2. ~ Writing(Idle)
  BY DEF Writing, Idle
<1> QED
  BY <1>1, <1>2, EmptyHands

\* A commit keeps its promise, and only for a row that nobody else holds.
LEMMA CommitHonours ==
    ASSUME IInv, LeaseInv, NEW s \in Sessions, Commit(s) PROVE LeaseInv'
<1>1. PICK u : u = txn[s]
  OBVIOUS
<1>2. u \in Transactions /\ Writing(u) /\ OwnOK(s, u) /\ LeasesOK(s, u)
  BY <1>1, Session DEF Commit, Writing, LeaseInv
<1>3. \A j \in Jobs : u.job = j => holder[j] = s
  BY <1>2, NoneIsNoSession DEF OwnOK, Writing
<1>4. \A j \in Jobs : leases'[j] = Promised(u, j)
  <2>1. leases' = IF u.call.op \in Claims /\ u.job # None
                  THEN [leases EXCEPT ![u.job] = Append(@, LeaseFor(u.call))] ELSE leases
    BY <1>1 DEF Commit, LeaseFor
  <2>2. leases \in [Jobs -> Seq(LeaseRecords)]
    BY DEF IInv, Types
  <2> QED
    BY <1>2, <2>1, <2>2, NoneIsNoSession DEF Promised
<1>5. \A j \in Jobs : holder[j] # s => leases'[j] = leases[j]
  BY <1>3, <1>4 DEF Promised
<1>6. ASSUME NEW j \in Jobs PROVE Honours(jobs'[j], leases'[j])
  <2>1. jobs'[j] = Seen(s, j)
    BY DEF Commit
  <2>2. CASE holder[j] = s
    BY <1>2, <1>4, <2>1, <2>2 DEF Seen, LeasesOK
  <2>3. CASE holder[j] # s
    BY <1>5, <2>1, <2>3 DEF Seen, LeaseInv
  <2> QED
    BY <2>2, <2>3
<1>7. txn'[s] = Idle /\ \A v \in Sessions \ {s} : txn'[v] = txn[v]
  BY Typing DEF Commit
<1>8. LeasesOK(s, Idle)'
  BY NoneIsNoSession DEF Commit, Unlocked, LeasesOK, Presents, Writing, Idle
<1>9. ASSUME NEW v \in Sessions, v # s PROVE LeasesOK(v, txn[v])'
  <2>1. PICK k : k = txn[v]
    OBVIOUS
  <2>2. LeasesOK(v, k) /\ OwnOK(v, k) /\ CallOK(k)
    BY <2>1, Session DEF LeaseInv
  <2>3. ASSUME NEW j \in Jobs, holder'[j] = v PROVE Honours(draft'[j], Promised(k, j)')
    <3>1. holder[j] = v /\ draft'[j] = draft[j] /\ leases'[j] = leases[j]
      BY <1>5, <1>9, <2>3, NoneIsNoSession DEF Commit, Unlocked
    <3>2. Promised(k, j)' = Promised(k, j)
      BY <3>1 DEF Promised
    <3> QED
      BY <2>2, <3>1, <3>2 DEF LeasesOK
  <2>4. Presents(k)'
    <3> SUFFICES ASSUME Writing(k), k.call.op \in RowCalls
                 PROVE  k.job = k.call.job /\ k.call.token = Len(leases'[k.call.job])
      BY DEF Presents, Writing
    <3>1. k.job = k.call.job /\ k.call.token = Len(leases[k.call.job]) /\ k.job \in Jobs
      BY <2>2, CallFields DEF LeasesOK, Presents, CallOK, Writing
    <3>2. holder[k.job] = v
      BY <2>2, <3>1, NoneIsNoSession DEF OwnOK, Writing
    <3>3. leases'[k.job] = leases[k.job]
      BY <1>5, <1>9, <3>1, <3>2
    <3> QED
      BY <3>1, <3>3
  <2>5. LeasesOK(v, k)'
    BY <2>3, <2>4 DEF LeasesOK
  <2> QED
    BY <1>7, <1>9, <2>1, <2>5
<1>10. \A v \in Sessions : LeasesOK(v, txn[v])'
  BY <1>7, <1>8, <1>9
<1> QED
  BY <1>6, <1>10 DEF LeaseInv

LEMMA LeaseKept ==
    ASSUME IInv, LeaseInv, [Next]_vars PROVE LeaseInv'
<1>1. CASE Tick \/ UNCHANGED vars
  BY <1>1 DEF Tick, vars, LeaseInv, LeasesOK, Promised, Presents
<1>2. ASSUME NEW s \in Sessions, Step(s) PROVE LeaseInv'
  BY <1>2, StartHonours, InsertHonours, LockRowHonours, LockLapsedHonours, TakeBackHonours,
     SearchHonours, TryNextHonours, AppendOwnHonours, CommitHonours DEF Step
<1>3. ASSUME NEW s \in Sessions, Rollback(s) \/ \E call : Begin(s, call) PROVE LeaseInv'
  BY <1>3, StartHonours, RollbackHonours
<1> QED
  BY <1>1, <1>2, <1>3 DEF Next

LEMMA LeaseInitially ==
    ASSUME Init PROVE LeaseInv
BY NoneIsNoSession DEF Init, LeaseInv, LeasesOK, Honours, Presents, Writing, Idle, NoRow

\* The newest lease of a job is the one that its row honours, and the row lock keeps
\* others from being granted while a call acts on it: what is written on the strength
\* of a lease is never out of date when it is committed.
THEOREM NewestLeaseCounts == Spec => []OnlyNewestLeaseCounts
<1>1. LeaseInv => OnlyNewestLeaseCounts
  <2> SUFFICES ASSUME LeaseInv PROVE OnlyNewestLeaseCounts
    OBVIOUS
  <2>1. ASSUME NEW s \in Sessions, txn[s].pc \in {"append", "commit"},
               txn[s].call.op \in RowCalls
        PROVE  txn[s].call.token = Newest(txn[s].call.job)
    BY <2>1 DEF LeaseInv, LeasesOK, Presents, Writing, Newest
  <2>2. ASSUME NEW j \in Jobs PROVE Honours(jobs[j], leases[j])
    BY DEF LeaseInv
  <2> QED
    BY <2>1, <2>2 DEF OnlyNewestLeaseCounts, Honours, Newest
<1> QED
  BY <1>1, LeaseInitially, LeaseKept, Inductive, PTL DEF Spec

----------------------------------------------------------------------------
(* Circles of waiting calls                                                *)

\* A call of a circle waits for a row that one of them holds, unless a reap of the
\* circle fetches with the chain locked: whoever holds the chain does not wait for it,
\* and a call that has its row waits for nothing but the chain.
LEMMA WaitsForRow ==
    ASSUME IInv, NEW S \in SUBSET Sessions, \A u \in S : WaitsFor(u) \cap S # {},
           \A u \in Sessions : chainLock = u => txn[u].pc # "fetch",
           NEW u \in S
    PROVE  /\ txn[u].pc \in {"start", "fetch"}
           /\ \E v \in S : \E j \in Jobs :
                 holder[j] = v /\ (txn[u].pc = "fetch" => v # u)
<1>1. PICK t : t = txn[u]
  OBVIOUS
<1>2. CallOK(t) /\ t.todo \subseteq Jobs
  BY <1>1, Session
<1>3. CASE t.pc = "start" /\ t.call.op \in RowCalls
  <2>1. t.call.job \in Jobs
    BY <1>2, <1>3, CallFields DEF CallOK
  <2>2. WaitsFor(u) = {holder[t.call.job]} \ {None}
    BY <1>1, <1>3 DEF WaitsFor
  <2> QED
    BY <1>1, <1>3, <2>1, <2>2
<1>4. CASE /\ t.pc = "fetch" /\ Cardinality(t.batch) < Prefetch /\ t.next \in t.todo
  <2>1. t.next \in Jobs
    BY <1>2, <1>4
  <2>2. WaitsFor(u) = {holder[t.next]} \ {None, u}
    BY <1>1, <1>4 DEF WaitsFor
  <2> QED
    BY <1>1, <1>4, <2>1, <2>2
<1>5. CASE t.pc \in {"append", "reap"}
  <2>1. WaitsFor(u) = {chainLock} \ {None, u}
    BY <1>1, <1>5 DEF WaitsFor
  <2>2. PICK v \in S : chainLock = v /\ v # u
    BY <2>1
  <2>3. RestOK(v, txn[v])
    BY <2>2, Session
  <2>4. txn[v].pc # "start" /\ txn[v].pc # "fetch"
    BY <2>2, <2>3 DEF RestOK
  <2>5. WaitsFor(v) \subseteq {chainLock} \ {None, v}
    BY <2>4 DEF WaitsFor
  <2> QED
    BY <2>2, <2>5
<1>6. CASE /\ ~ (t.pc = "start" /\ t.call.op \in RowCalls)
           /\ ~ (t.pc = "fetch" /\ Cardinality(t.batch) < Prefetch /\ t.next \in t.todo)
           /\ t.pc \notin {"append", "reap"}
  <2>1. WaitsFor(u) = {}
    BY <1>1, <1>6 DEF WaitsFor
  <2> QED
    BY <2>1
<1> QED
  BY <1>3, <1>4, <1>5, <1>6

\* Calls wait for each other in a circle only on account of reaps, however many
\* sessions and jobs there are: who is waited for holds a row, so that it is past the
\* lock of its own row and still waits for another, as only a reap does.
THEOREM CirclesHold == Spec => []CirclesNeedReaps
<1>1. ASSUME IInv, NEW s \in Sessions, Deadlocked(s),
             \A u \in Sessions : chainLock = u => txn[u].pc # "fetch"
      PROVE  \E u, v \in Sessions : u # v /\ HoldsAndFetches(u) /\ HoldsAndFetches(v)
  <2>1. PICK S \in SUBSET Sessions : s \in S /\ \A u \in S : WaitsFor(u) \cap S # {}
    BY <1>1 DEF Deadlocked
  <2>2. ASSUME NEW v \in S, NEW j \in Jobs, holder[j] = v
        PROVE  HoldsAndFetches(v)
    <3>1. txn[v].pc \in {"start", "fetch"}
      BY <1>1, <2>1, WaitsForRow
    <3>2. RestOK(v, txn[v])
      BY <1>1, <2>1, Session
    <3> QED
      BY <2>2, <3>1, <3>2 DEF RestOK, HoldsAndFetches
  <2>3. PICK v \in S : HoldsAndFetches(v)
    <3>1. \E v \in S : \E j \in Jobs : holder[j] = v
      BY <1>1, <2>1, WaitsForRow
    <3> QED
      BY <2>2, <3>1
  <2>4. txn[v].pc = "fetch"
    BY <2>3 DEF HoldsAndFetches
  <2>5. PICK w \in S : HoldsAndFetches(w) /\ w # v
    <3>1. \E w \in S : \E j \in Jobs : holder[j] = w /\ (txn[v].pc = "fetch" => w # v)
      BY <1>1, <2>1, WaitsForRow
    <3> QED
      BY <2>2, <2>4, <3>1
  <2> QED
    BY <2>1, <2>3, <2>5
<1>2. IInv => CirclesNeedReaps
  BY <1>1 DEF CirclesNeedReaps
<1> QED
  BY <1>2, Inductive, PTL DEF Spec

----------------------------------------------------------------------------
(* The calls implement the contract                                        *)

\* Whatever transactions overlap, what their commits publish is a run of the
\* contract: no update is lost, and no job is granted twice.
THEOREM PostgresKeepsContract == Spec => KeepsContract
<1> DEFINE lives == [j \in Jobs |-> LifeOf(jobs[j])]
<1>1. Init => Contract!Init
  <2> SUFFICES ASSUME Init PROVE Contract!Init
    OBVIOUS
  <2>1. lives = [j \in Jobs |-> Contract!Unborn]
    BY DEF Init, LifeOf, NoRow, Phase, Contract!Unborn
  <2> QED
    BY <2>1 DEF Contract!Init
<1>2. ASSUME IInv, [Next]_vars PROVE Contract!Next \/ UNCHANGED lives
  <2>1. CASE UNCHANGED <<jobs, events>>
    BY <2>1
  <2>2. ASSUME NEW s \in Sessions, Commit(s) PROVE Contract!Next
    <3>1. /\ jobs' \in [Jobs -> Row]
          /\ \A j \in Jobs : /\ holder[j] = s => jobs'[j] = draft[j] /\ Moves(jobs[j], draft[j])
                             /\ holder[j] # s => jobs'[j] = jobs[j]
      BY <1>2, <2>2, Published
    <3>2. lives' \in [Jobs -> Contract!Life]
      BY <3>1, LifeFields
    <3>3. ASSUME NEW j \in Jobs
          PROVE  lives'[j] = lives[j] \/ Contract!Move(lives[j], lives'[j])
      <4>1. Moves(jobs[j], jobs'[j])
        BY <3>1 DEF Moves
      <4>2. lives[j] = LifeOf(jobs[j]) /\ lives'[j] = LifeOf(jobs'[j])
        BY DEF LifeOf
      <4> QED
        BY <4>1, <4>2 DEF Moves
    <3> QED
      BY <3>2, <3>3 DEF Contract!Next
  <2> QED
    BY <1>2, <2>1, <2>2, OnlyCommits
<1> QED
  BY <1>1, <1>2, Inductive, PTL DEF Spec, KeepsContract, Contract!Spec

LEMMA MovesKeepWell ==
    ASSUME NEW r, NEW d, Contract!WellKept(r), Contract!Move(r, d)
    PROVE  Contract!WellKept(d)
<1>1. /\ r \in Contract!Life /\ Budgets \subseteq Nat \ {0}
      /\ r.tries \in Nat /\ r.budget \in Nat /\ r.tries <= r.budget
      /\ r.producer \in Actors \cup {None} /\ r.judge \in Actors \cup {None}
  BY PostgresAssumption DEF Contract!WellKept, Contract!Life
<1>2. CASE Contract!Submit(r, d)
  <2>1. PICK b \in Budgets : d = [r EXCEPT !.phase = "waiting", !.budget = b]
    BY <1>2 DEF Contract!Submit
  <2>2. r.phase = "unborn" /\ r.tries = 0
    BY <1>2 DEF Contract!Submit, Contract!WellKept, Contract!Unborn
  <2>3. /\ d \in Contract!Life /\ d.phase = "waiting" /\ d.tries = r.tries /\ d.budget = b
    BY <1>1, <2>1 DEF Contract!Life, Contract!Phases
  <2> QED
    BY <1>1, <2>2, <2>3 DEF Contract!WellKept
<1>3. CASE Contract!Start(r, d)
  <2>1. PICK a \in Actors :
           d = [r EXCEPT !.phase = "running", !.tries = r.tries + 1, !.producer = a]
    BY <1>1, <1>3 DEF Contract!Start, Contract!Life
  <2>2. d \in Contract!Life
    <3>1. r \in Contract!Life /\ r.tries + 1 \in Nat
      BY <1>1
    <3> QED
      BY <2>1, <3>1 DEF Contract!Life, Contract!Phases
  <2>3. /\ d.phase = "running" /\ d.tries = r.tries + 1
        /\ d.budget = r.budget /\ d.producer = a
    BY <1>1, <2>1 DEF Contract!Life
  <2> QED
    BY <1>1, <1>3, <2>2, <2>3 DEF Contract!WellKept, Contract!Start
<1>4. CASE Contract!Lose(r, d)
  BY <1>1, <1>4 DEF Contract!WellKept, Contract!Lose, Contract!Life, Contract!Phases
<1>5. CASE Contract!Takeover(r, d)
  <2>1. PICK a \in Actors : d = [r EXCEPT !.tries = r.tries + 1, !.producer = a]
    BY <1>1, <1>5 DEF Contract!Takeover, Contract!Life
  <2>2. d \in Contract!Life
    <3>1. r \in Contract!Life /\ r.tries + 1 \in Nat
      BY <1>1
    <3> QED
      BY <2>1, <3>1 DEF Contract!Life
  <2>3. /\ d.phase = "running" /\ d.tries = r.tries + 1
        /\ d.budget = r.budget /\ d.producer = a
    BY <1>1, <1>5, <2>1 DEF Contract!Life, Contract!Takeover
  <2> QED
    BY <1>1, <1>5, <2>2, <2>3 DEF Contract!WellKept, Contract!Takeover
<1>6. CASE Contract!Deliver(r, d)
  BY <1>1, <1>6 DEF Contract!WellKept, Contract!Deliver, Contract!Life, Contract!Phases
<1>7. CASE Contract!Inspect(r, d)
  BY <1>1, <1>7 DEF Contract!WellKept, Contract!Inspect, Contract!Life, Contract!Phases
<1>8. CASE Contract!Abandon(r, d)
  BY <1>1, <1>8 DEF Contract!WellKept, Contract!Abandon, Contract!Life, Contract!Phases
<1>9. CASE Contract!Rule(r, d)
  BY <1>1, <1>9 DEF Contract!WellKept, Contract!Rule, Contract!Life, Contract!Phases, Contract!Ended
<1> QED
  BY <1>2, <1>3, <1>4, <1>5, <1>6, <1>7, <1>8, <1>9 DEF Contract!Move

\* So for several coordinators over one database: no job is run more often than its
\* budget says, and none is inspected or judged by who handed it in.
THEOREM PostgresKeepsWell == Spec => []Contract!JobsWellKept
<1> DEFINE lives == [j \in Jobs |-> LifeOf(jobs[j])]
<1>1. Contract!Init => Contract!JobsWellKept
  BY DEF Contract!Init, Contract!JobsWellKept, Contract!WellKept, Contract!Unborn,
         Contract!Life, Contract!Phases
<1>2. ASSUME Contract!JobsWellKept, Contract!Next \/ UNCHANGED lives
      PROVE  Contract!JobsWellKept'
  <2> SUFFICES ASSUME NEW j \in Jobs PROVE Contract!WellKept(lives'[j])
    BY DEF Contract!JobsWellKept
  <2>1. Contract!WellKept(lives[j])
    BY <1>2 DEF Contract!JobsWellKept
  <2>2. lives'[j] = lives[j] \/ Contract!Move(lives[j], lives'[j])
    BY <1>2 DEF Contract!Next
  <2> QED
    BY <2>1, <2>2, MovesKeepWell
<1> QED
  BY <1>1, <1>2, PostgresKeepsContract, PTL DEF KeepsContract, Contract!Spec

\* And what was handed in, or judged, stays so, whatever arrives late or twice.
THEOREM PostgresHandsInOnce == Spec => Contract!HandedInOnce
<1> DEFINE lives == [j \in Jobs |-> LifeOf(jobs[j])]
           Once == \A j \in Jobs :
                     /\ lives[j].phase \in {"delivered", "inspecting"} =>
                           /\ lives'[j].tries = lives[j].tries
                           /\ lives'[j].producer = lives[j].producer
                     /\ lives[j].phase \in Contract!Ended => lives'[j] = lives[j]
<1>1. Contract!JobsWellKept /\ [Contract!Next]_lives => [Once]_lives
  <2> SUFFICES ASSUME Contract!JobsWellKept, Contract!Next, NEW j \in Jobs
               PROVE  /\ lives[j].phase \in {"delivered", "inspecting"} =>
                            /\ lives'[j].tries = lives[j].tries
                            /\ lives'[j].producer = lives[j].producer
                      /\ lives[j].phase \in Contract!Ended => lives'[j] = lives[j]
    OBVIOUS
  <2>1. PICK r, d : r = lives[j] /\ d = lives'[j]
    OBVIOUS
  <2>2. r \in Contract!Life /\ (d = r \/ Contract!Move(r, d))
    BY <2>1 DEF Contract!JobsWellKept, Contract!WellKept, Contract!Next
  <2>3. /\ r.phase \in {"delivered", "inspecting"} => d.tries = r.tries /\ d.producer = r.producer
        /\ r.phase \in Contract!Ended => d = r
    BY <2>2 DEF Contract!Life, Contract!Move, Contract!Submit, Contract!Start, Contract!Lose,
                Contract!Takeover, Contract!Deliver, Contract!Inspect, Contract!Abandon,
                Contract!Rule, Contract!Ended
  <2> QED
    BY <2>1, <2>3
<1> QED
  BY <1>1, PostgresKeepsWell, PostgresKeepsContract, PTL
     DEF KeepsContract, Contract!Spec, Contract!HandedInOnce
=============================================================================
