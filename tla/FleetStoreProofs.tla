-------------------------- MODULE FleetStoreProofs --------------------------
(***************************************************************************)
(* Proofs about FleetStore.  The inductive invariant IInv is TypeOK and,   *)
(* for every job, JobInv: a formula about the row of the job, its tally in *)
(* the ledger and the leases handed out for it.  Each lemma about a row    *)
(* operator says that the operator preserves JobOK; an action is one or    *)
(* two of them applied to one job, and a reap applied to all the others.   *)
(***************************************************************************)
EXTENDS FleetStore, TLAPS

\* Nothing is known about a job that was never submitted.
Pristine(r, n, handed) ==
    r.state = "ABSENT" => r = NoRow /\ handed = << >> /\ n = [k \in EventKinds |-> 0]

JobInv(r, n, handed) ==
    /\ Pristine(r, n, handed)
    /\ ColumnsFit(r)
    /\ NotStranded(r)
    /\ ReceiptIsCurrent(r, handed)
    /\ VerdictStands(r, handed)
    /\ BearerIsNewest(r, handed)
    /\ Balanced(r, n, handed)

JobOK(r, n, handed) ==
    /\ r \in Row
    /\ n \in [EventKinds -> Nat]
    /\ handed \in Seq(LeaseRecords)
    /\ JobInv(r, n, handed)

IInv ==
    /\ clock \in 0..MaxClock
    /\ plans \in [Plans -> PlanStates]
    /\ jobs \in [Jobs -> Row]
    /\ log \in [Jobs -> [EventKinds -> Nat]]
    /\ leases \in [Jobs -> Seq(LeaseRecords)]
    /\ \A j \in Jobs : JobInv(jobs[j], log[j], leases[j])

----------------------------------------------------------------------------
(* Lemmas about the row operators                                          *)

\* The ledger grows by one event of a kind.
LEMMA EventType ==
    ASSUME NEW n \in [EventKinds -> Nat], NEW k \in EventKinds
    PROVE  /\ Event(n, k) \in [EventKinds -> Nat]
           /\ Event(n, k)[k] = n[k] + 1
           /\ \A m \in EventKinds \ {k} : Event(n, k)[m] = n[m]
BY DEF Event

\* NULL is none of the values a column may hold otherwise.
LEMMA NoneIsNoValue ==
    /\ \A x \in Actors : x # None
    /\ \A x \in Int : x # None
    /\ \A x \in Nat : Sha256(x) # None /\ Sha256(x) \in Hashes
    /\ \A x \in Receipts : x # None
    /\ \A x \in Verifications : x # None
BY FleetAssumption DEF Sha256, Hashes

\* Different tokens have different hashes.
LEMMA HashInjective ==
    ASSUME NEW x, NEW y, Sha256(x) = Sha256(y) PROVE x = y
BY DEF Sha256

\* A row that is inserted by enqueue is in order.
LEMMA NewRowOK ==
    ASSUME NEW r, NEW n, NEW handed, JobOK(r, n, handed), r.state = "ABSENT",
           NEW p \in Plans, NEW priority \in Priorities, NEW budget \in Budgets, NEW at \in Int
    PROVE  JobOK(NewRow(p, priority, budget, at), Event(n, "JOB_ENQUEUED"), handed)
<1> DEFINE s == NewRow(p, priority, budget, at)
           m == Event(n, "JOB_ENQUEUED")
<1>1. s \in Row
  BY FleetAssumption DEF NewRow, NoRow, Row, JobStates
<1>2. handed = << >> /\ n = [k \in EventKinds |-> 0]
  BY DEF JobOK, JobInv, Pristine
<1>3. /\ m \in [EventKinds -> Nat] /\ m["JOB_ENQUEUED"] = 1
      /\ \A k \in EventKinds \ {"JOB_ENQUEUED"} : m[k] = 0
  <2>1. n \in [EventKinds -> Nat] /\ "JOB_ENQUEUED" \in EventKinds
    BY DEF JobOK, EventKinds
  <2> QED
    BY <1>2, <2>1, EventType
<1>4. /\ s.state = "QUEUED" /\ s.attempts = 0 /\ s.max_attempts = budget
      /\ s.receipt = None /\ s.verification = None /\ s.verifier_id = None
      /\ s.execution_worker_id = None
      /\ NoExecutionLease(s) /\ NoVerificationLease(s)
  BY DEF NewRow, NoRow, NoExecutionLease, NoVerificationLease
<1>5. Pristine(s, m, handed) /\ ColumnsFit(s) /\ ReceiptIsCurrent(s, handed)
      /\ VerdictStands(s, handed) /\ BearerIsNewest(s, handed)
  BY <1>4 DEF Pristine, ColumnsFit, ReceiptIsCurrent, VerdictStands, BearerIsNewest, Verdicts
<1>6. NotStranded(s)
  BY <1>4, FleetAssumption DEF NotStranded
<1>7. Balanced(s, m, handed)
  BY <1>2, <1>3, <1>4 DEF Balanced, One, EventKinds
<1> QED
  BY <1>1, <1>2, <1>3, <1>5, <1>6, <1>7 DEF JobOK, JobInv

\* A row whose execution lease is taken away, for whatever reason the ledger
\* gives, is in order.
LEMMA LostExecutionOK ==
    ASSUME NEW r, NEW n, NEW handed, JobOK(r, n, handed), r.state = "LEASED",
           NEW at \in Int,
           NEW k \in {"EXECUTION_LEASE_EXPIRED", "EXECUTION_FAILED"}
    PROVE  JobOK(WithoutExecutionLease(r, at), Event(n, k), handed)
<1> DEFINE s == WithoutExecutionLease(r, at)
           m == Event(n, k)
<1>1. s \in Row /\ r \in Row
  <2>1. r \in Row /\ NextState(r) \in JobStates
    BY DEF JobOK, NextState, JobStates
  <2> QED
    BY <2>1, ZenonT(60) DEF WithoutExecutionLease, Row
<1>2. /\ m \in [EventKinds -> Nat] /\ m[k] = n[k] + 1
      /\ \A q \in EventKinds \ {k} : m[q] = n[q]
  <2>1. n \in [EventKinds -> Nat] /\ k \in EventKinds
    BY DEF JobOK, EventKinds
  <2> QED
    BY <2>1, EventType
<1>3. /\ s.state = (IF r.attempts < r.max_attempts THEN "QUEUED" ELSE "FAILED")
      /\ s.attempts = r.attempts /\ s.max_attempts = r.max_attempts
      /\ s.receipt = r.receipt /\ s.verification = r.verification
      /\ s.verifier_id = r.verifier_id /\ s.execution_worker_id = None
      /\ NoExecutionLease(s) /\ (NoVerificationLease(r) => NoVerificationLease(s))
  BY <1>1 DEF WithoutExecutionLease, NextState, Row, NoExecutionLease, NoVerificationLease
<1>4. ColumnsFit(r) /\ NotStranded(r) /\ Balanced(r, n, handed)
  BY DEF JobOK, JobInv
<1>5. r.receipt = None /\ r.verification = None /\ r.verifier_id = None
      /\ NoVerificationLease(r)
  BY <1>4 DEF ColumnsFit, Verdicts
<1>6. Pristine(s, m, handed) /\ ColumnsFit(s) /\ ReceiptIsCurrent(s, handed)
      /\ VerdictStands(s, handed) /\ BearerIsNewest(s, handed)
  BY <1>3, <1>5 DEF Pristine, ColumnsFit, ReceiptIsCurrent, VerdictStands, BearerIsNewest, Verdicts
<1>7. NotStranded(s)
  BY <1>1, <1>3, <1>4, <1>5 DEF NotStranded, Row
<1>8. Balanced(s, m, handed)
  <2>1. n \in [EventKinds -> Nat] /\ r.attempts \in Nat
    BY <1>1 DEF JobOK, Row
  <2>2. m["EXECUTION_LEASE_EXPIRED"] + m["EXECUTION_FAILED"]
          = n["EXECUTION_LEASE_EXPIRED"] + n["EXECUTION_FAILED"] + 1
    <3>1. CASE k = "EXECUTION_LEASE_EXPIRED"
      BY <1>2, <2>1, <3>1 DEF EventKinds
    <3>2. CASE k = "EXECUTION_FAILED"
      BY <1>2, <2>1, <3>2 DEF EventKinds
    <3> QED
      BY <3>1, <3>2
  <2>3. \A q \in {"JOB_ENQUEUED", "EXECUTION_LEASE_GRANTED", "EXECUTION_RECEIPT_ACCEPTED",
                "VERIFICATION_LEASE_GRANTED", "VERIFICATION_LEASE_EXPIRED",
                "INDEPENDENT_VERIFICATION"} : m[q] = n[q]
    BY <1>2 DEF EventKinds
  <2>4. s.state \in {"QUEUED", "FAILED"}
    BY <1>3
  <2>5. m \in [EventKinds -> Nat]
    BY <1>2
  <2> HIDE DEF s, m
  <2> QED
    BY <1>3, <1>4, <1>5, <2>1, <2>2, <2>3, <2>4, <2>5 DEF Balanced, One, EventKinds
<1> QED
  BY <1>1, <1>2, <1>6, <1>7, <1>8 DEF JobOK, JobInv

\* A row whose verification lease has lapsed is in order.
LEMMA LostVerificationOK ==
    ASSUME NEW r, NEW n, NEW handed, JobOK(r, n, handed), r.state = "VERIFYING", NEW at \in Int
    PROVE  JobOK(WithoutVerificationLease(r, at), Event(n, "VERIFICATION_LEASE_EXPIRED"), handed)
<1> DEFINE s == WithoutVerificationLease(r, at)
           m == Event(n, "VERIFICATION_LEASE_EXPIRED")
<1>1. s \in Row /\ r \in Row
  <2>1. r \in Row /\ "EXECUTED" \in JobStates
    BY DEF JobOK, JobStates
  <2> QED
    BY <2>1, ZenonT(60) DEF WithoutVerificationLease, Row
<1>2. /\ m \in [EventKinds -> Nat]
      /\ m["VERIFICATION_LEASE_EXPIRED"] = n["VERIFICATION_LEASE_EXPIRED"] + 1
      /\ \A q \in EventKinds \ {"VERIFICATION_LEASE_EXPIRED"} : m[q] = n[q]
  BY EventType DEF JobOK, EventKinds
<1>3. /\ s.state = "EXECUTED"
      /\ s.attempts = r.attempts /\ s.max_attempts = r.max_attempts
      /\ s.receipt = r.receipt /\ s.verification = r.verification
      /\ s.verifier_id = None /\ s.execution_worker_id = r.execution_worker_id
      /\ NoVerificationLease(s) /\ (NoExecutionLease(r) => NoExecutionLease(s))
  BY <1>1 DEF WithoutVerificationLease, Row, NoExecutionLease, NoVerificationLease
<1>4. /\ ColumnsFit(r) /\ NotStranded(r) /\ Balanced(r, n, handed)
      /\ ReceiptIsCurrent(r, handed)
  BY DEF JobOK, JobInv
<1>5. r.receipt # None /\ r.verification = None /\ r.execution_worker_id # None
      /\ NoExecutionLease(r)
  BY <1>4 DEF ColumnsFit
<1>6. Pristine(s, m, handed) /\ ColumnsFit(s) /\ ReceiptIsCurrent(s, handed)
      /\ VerdictStands(s, handed) /\ BearerIsNewest(s, handed) /\ NotStranded(s)
  BY <1>3, <1>4, <1>5
     DEF Pristine, ColumnsFit, ReceiptIsCurrent, VerdictStands, BearerIsNewest, Verdicts, NotStranded
<1>7. Balanced(s, m, handed)
  <2>1. n \in [EventKinds -> Nat] /\ r.attempts \in Nat
    BY <1>1 DEF JobOK, Row
  <2>2. m["VERIFICATION_LEASE_EXPIRED"] = n["VERIFICATION_LEASE_EXPIRED"] + 1
        /\ n["VERIFICATION_LEASE_EXPIRED"] \in Nat /\ n["INDEPENDENT_VERIFICATION"] \in Nat
    BY <1>2, <2>1 DEF EventKinds
  <2>3. \A q \in {"JOB_ENQUEUED", "EXECUTION_LEASE_GRANTED", "EXECUTION_LEASE_EXPIRED",
                "EXECUTION_FAILED", "EXECUTION_RECEIPT_ACCEPTED",
                "VERIFICATION_LEASE_GRANTED", "INDEPENDENT_VERIFICATION"} : m[q] = n[q]
    BY <1>2 DEF EventKinds
  <2> HIDE DEF s, m
  <2>4. n["VERIFICATION_LEASE_GRANTED"]
          = n["VERIFICATION_LEASE_EXPIRED"] + n["INDEPENDENT_VERIFICATION"] + 1
    BY <1>4 DEF Balanced, One
  <2>5. m["VERIFICATION_LEASE_GRANTED"] = m["VERIFICATION_LEASE_EXPIRED"]
          + m["INDEPENDENT_VERIFICATION"] + One(s.state = "VERIFYING")
    BY <1>3, <2>2, <2>3, <2>4 DEF One
  <2> QED
    BY <1>3, <1>4, <2>3, <2>5 DEF Balanced, One
<1> QED
  BY <1>1, <1>2, <1>6, <1>7 DEF JobOK, JobInv

\* Reaping leaves every row in order.
LEMMA ReapOK ==
    ASSUME NEW r, NEW n, NEW handed, JobOK(r, n, handed), NEW at \in Int
    PROVE  JobOK(ReapRow(r, at), ReapEvent(n, r, at), handed)
<1>1. CASE ExecutionLapsed(r, at)
  BY <1>1, LostExecutionOK DEF ReapRow, ReapEvent, ExecutionLapsed
<1>2. CASE ~ ExecutionLapsed(r, at) /\ VerificationLapsed(r, at)
  BY <1>2, LostVerificationOK DEF ReapRow, ReapEvent, VerificationLapsed
<1>3. CASE ~ ExecutionLapsed(r, at) /\ ~ VerificationLapsed(r, at)
  BY <1>3 DEF ReapRow, ReapEvent
<1> QED
  BY <1>1, <1>2, <1>3
\* What Append does to the leases handed out.
LEMMA HandedOut ==
    ASSUME NEW handed \in Seq(LeaseRecords), NEW l \in LeaseRecords
    PROVE  LET longer == Append(handed, l) IN
           /\ longer \in Seq(LeaseRecords)
           /\ Len(longer) = Len(handed) + 1 /\ longer # << >>
           /\ longer[Len(longer)] = l
           /\ DOMAIN longer = DOMAIN handed \cup {Len(longer)}
           /\ \A t \in DOMAIN handed : t \in 1..Len(handed) /\ longer[t] = handed[t]
OBVIOUS

\* A row that is granted to a worker is in order.
LEMMA GrantExecutionOK ==
    ASSUME NEW r, NEW n, NEW handed, JobOK(r, n, handed),
           NEW at \in Int, Claimable(r, at), NEW worker \in Actors, NEW expires \in Int
    PROVE  JobOK(GrantExecution(r, worker, Len(handed) + 1, expires, at),
                 Event(n, "EXECUTION_LEASE_GRANTED"),
                 Append(handed, [kind |-> "execution", owner |-> worker]))
<1> DEFINE s == GrantExecution(r, worker, Len(handed) + 1, expires, at)
           m == Event(n, "EXECUTION_LEASE_GRANTED")
           l == [kind |-> "execution", owner |-> worker]
           longer == Append(handed, l)
<1>1. r \in Row /\ n \in [EventKinds -> Nat] /\ handed \in Seq(LeaseRecords)
      /\ l \in LeaseRecords /\ Len(handed) \in Nat
  BY DEF JobOK, LeaseRecords
<1>2. s \in Row
  <2>1. "LEASED" \in JobStates /\ r.attempts + 1 \in Nat
        /\ Sha256(Len(handed) + 1) \in Hashes
    BY <1>1, NoneIsNoValue DEF JobStates, Row
  <2> QED
    BY <1>1, <2>1, ZenonT(60) DEF GrantExecution, Row
<1>3. /\ m \in [EventKinds -> Nat]
      /\ m["EXECUTION_LEASE_GRANTED"] = n["EXECUTION_LEASE_GRANTED"] + 1
      /\ \A q \in EventKinds \ {"EXECUTION_LEASE_GRANTED"} : m[q] = n[q]
  <2>1. "EXECUTION_LEASE_GRANTED" \in EventKinds
    BY DEF EventKinds
  <2> QED
    BY <1>1, <2>1, EventType
<1>4. /\ s.state = "LEASED" /\ s.attempts = r.attempts + 1
      /\ s.max_attempts = r.max_attempts /\ s.receipt = r.receipt
      /\ s.verification = r.verification /\ s.verifier_id = r.verifier_id
      /\ s.execution_worker_id = worker
      /\ s.execution_lease_hash = Sha256(Len(handed) + 1)
      /\ s.execution_lease_expires_at = expires
      /\ (NoVerificationLease(r) => NoVerificationLease(s))
  BY <1>1 DEF GrantExecution, Row, NoVerificationLease
<1>5. r.state = "QUEUED" /\ r.attempts < r.max_attempts
  BY DEF Claimable
<1>6. ColumnsFit(r) /\ Balanced(r, n, handed)
  BY DEF JobOK, JobInv
<1>7. r.receipt = None /\ r.verification = None /\ r.verifier_id = None
      /\ NoVerificationLease(r)
  BY <1>5, <1>6 DEF ColumnsFit, Verdicts
<1>8. /\ longer \in Seq(LeaseRecords) /\ Len(longer) = Len(handed) + 1
      /\ longer # << >> /\ longer[Len(longer)] = l
  BY <1>1, HandedOut
<1>9. worker # None /\ expires # None /\ Sha256(Len(handed) + 1) # None
  BY <1>1, NoneIsNoValue
<1> HIDE DEF s, m, longer
<1>10. Pristine(s, m, longer) /\ ColumnsFit(s) /\ ReceiptIsCurrent(s, longer)
      /\ VerdictStands(s, longer) /\ BearerIsNewest(s, longer)
  BY <1>4, <1>7, <1>8, <1>9 DEF Pristine, ColumnsFit, HasExecutionLease, ReceiptIsCurrent,
     VerdictStands, BearerIsNewest, Verdicts, l
<1>11. NotStranded(s)
  BY <1>1, <1>4, <1>5 DEF NotStranded, Row
<1>12. Balanced(s, m, longer)
  <2>1. r.attempts \in Nat
    BY <1>1 DEF Row
  <2>2. \A q \in EventKinds : n[q] \in Nat
    BY <1>1
  <2>3. /\ Len(longer) = Len(handed) + 1 /\ Len(handed) \in Nat
        /\ s.state = "LEASED" /\ s.attempts = r.attempts + 1
        /\ s.receipt = None /\ s.verification = None
    BY <1>1, <1>4, <1>7, <1>8
  <2>4. /\ n["JOB_ENQUEUED"] = 1 /\ n["EXECUTION_LEASE_GRANTED"] = r.attempts
        /\ r.attempts = n["EXECUTION_LEASE_EXPIRED"] + n["EXECUTION_FAILED"]
        /\ n["EXECUTION_RECEIPT_ACCEPTED"] = 0
        /\ n["VERIFICATION_LEASE_GRANTED"] = n["VERIFICATION_LEASE_EXPIRED"]
        /\ n["INDEPENDENT_VERIFICATION"] = 0
        /\ Len(handed) = r.attempts + n["VERIFICATION_LEASE_GRANTED"]
    BY <1>5, <1>6, <1>7, <2>1, <2>2 DEF Balanced, One, EventKinds
  <2>5. /\ n["EXECUTION_LEASE_EXPIRED"] \in Nat /\ n["EXECUTION_FAILED"] \in Nat
        /\ n["VERIFICATION_LEASE_EXPIRED"] \in Nat
    BY <2>2 DEF EventKinds
  <2>6. /\ m["JOB_ENQUEUED"] = 1 /\ m["EXECUTION_LEASE_GRANTED"] = r.attempts + 1
        /\ m["EXECUTION_LEASE_EXPIRED"] = n["EXECUTION_LEASE_EXPIRED"]
        /\ m["EXECUTION_FAILED"] = n["EXECUTION_FAILED"]
        /\ m["EXECUTION_RECEIPT_ACCEPTED"] = 0
        /\ m["VERIFICATION_LEASE_GRANTED"] = n["VERIFICATION_LEASE_EXPIRED"]
        /\ m["VERIFICATION_LEASE_EXPIRED"] = n["VERIFICATION_LEASE_EXPIRED"]
        /\ m["INDEPENDENT_VERIFICATION"] = 0
    BY <1>3, <2>4 DEF EventKinds
  <2> QED
    BY <2>1, <2>3, <2>4, <2>5, <2>6 DEF Balanced, One
<1>13. JobOK(s, m, longer)
  BY <1>2, <1>3, <1>8, <1>10, <1>11, <1>12 DEF JobOK, JobInv
<1> QED
  BY <1>13 DEF s, m, longer

\* A heartbeat leaves the row in order.
LEMMA ExtendedOK ==
    ASSUME NEW r, NEW n, NEW handed, JobOK(r, n, handed), r.state = "LEASED",
           NEW expires \in Int, NEW at \in Int
    PROVE  JobOK(Extended(r, expires, at), n, handed)
<1> DEFINE s == Extended(r, expires, at)
<1>1. r \in Row /\ JobInv(r, n, handed)
  BY DEF JobOK
<1>2. s \in Row
  BY <1>1, ZenonT(60) DEF Extended, Row
<1>3. /\ s.state = r.state /\ s.attempts = r.attempts
      /\ s.max_attempts = r.max_attempts /\ s.receipt = r.receipt
      /\ s.verification = r.verification /\ s.verifier_id = r.verifier_id
      /\ s.execution_worker_id = r.execution_worker_id
      /\ s.execution_lease_hash = r.execution_lease_hash
      /\ s.execution_lease_expires_at = expires
      /\ s.verification_lease_hash = r.verification_lease_hash
      /\ s.verification_lease_expires_at = r.verification_lease_expires_at
  BY <1>1, ZenonT(60) DEF Extended, Row
<1>4. expires # None
  BY NoneIsNoValue
<1> HIDE DEF s
<1>5. Pristine(s, n, handed) /\ ColumnsFit(s) /\ BearerIsNewest(s, handed)
  BY <1>1, <1>3, <1>4 DEF JobInv, Pristine, ColumnsFit, HasExecutionLease, NoExecutionLease,
     NoVerificationLease, HasVerificationLease, BearerIsNewest
<1>6. NotStranded(s) /\ ReceiptIsCurrent(s, handed) /\ VerdictStands(s, handed)
  BY <1>1, <1>3 DEF JobInv, NotStranded, ReceiptIsCurrent, VerdictStands
<1>7. Balanced(s, n, handed)
  BY <1>1, <1>3 DEF JobInv, Balanced
<1>8. JobOK(s, n, handed)
  BY <1>2, <1>5, <1>6, <1>7 DEF JobOK, JobInv
<1> QED
  BY <1>8 DEF s

\* A row whose receipt was accepted from the bearer of its lease is in order.
LEMMA WithReceiptOK ==
    ASSUME NEW r, NEW n, NEW handed, JobOK(r, n, handed), NEW at \in Int,
           NEW worker, NEW token \in DOMAIN handed, OwnsExecution(r, worker, token),
           NEW receipt \in Receipts, receipt.run = token,
           NEW signed, Acceptable(receipt, signed)
    PROVE  JobOK(WithReceipt(r, receipt, at), Event(n, "EXECUTION_RECEIPT_ACCEPTED"), handed)
<1> DEFINE s == WithReceipt(r, receipt, at)
           m == Event(n, "EXECUTION_RECEIPT_ACCEPTED")
<1>1. r \in Row /\ n \in [EventKinds -> Nat] /\ handed \in Seq(LeaseRecords)
      /\ JobInv(r, n, handed)
  BY DEF JobOK
<1>2. s \in Row
  <2>1. "EXECUTED" \in JobStates
    BY DEF JobStates
  <2> QED
    BY <1>1, <2>1, ZenonT(60) DEF WithReceipt, Row
<1>3. /\ m \in [EventKinds -> Nat]
      /\ m["EXECUTION_RECEIPT_ACCEPTED"] = n["EXECUTION_RECEIPT_ACCEPTED"] + 1
      /\ \A q \in EventKinds \ {"EXECUTION_RECEIPT_ACCEPTED"} : m[q] = n[q]
  <2>1. "EXECUTION_RECEIPT_ACCEPTED" \in EventKinds
    BY DEF EventKinds
  <2> QED
    BY <1>1, <2>1, EventType
<1>4. /\ s.state = "EXECUTED" /\ s.attempts = r.attempts
      /\ s.max_attempts = r.max_attempts /\ s.receipt = receipt
      /\ s.verification = r.verification /\ s.verifier_id = r.verifier_id
      /\ s.execution_worker_id = r.execution_worker_id /\ NoExecutionLease(s)
      /\ s.verification_lease_hash = r.verification_lease_hash
      /\ s.verification_lease_expires_at = r.verification_lease_expires_at
  BY <1>1 DEF WithReceipt, Row, NoExecutionLease
<1>5. r.state = "LEASED" /\ r.execution_lease_hash = Sha256(token)
  BY DEF OwnsExecution
<1>6. /\ r.receipt = None /\ r.verification = None /\ r.verifier_id = None
      /\ r.execution_worker_id # None /\ NoVerificationLease(s)
  BY <1>1, <1>4, <1>5 DEF JobInv, ColumnsFit, Verdicts, NoVerificationLease
<1>7. /\ token = Len(handed)
      /\ handed[token] = [kind |-> "execution", owner |-> r.execution_worker_id]
  BY <1>1, <1>5, HashInjective DEF JobInv, BearerIsNewest
<1>8. receipt # None
  BY NoneIsNoValue
<1> HIDE DEF s, m
<1>9. ReceiptIsCurrent(s, handed)
  <2>1. \A t \in DOMAIN handed : ~ (t > token)
    BY <1>1, <1>7
  <2> QED
    BY <1>4, <1>7, <2>1 DEF ReceiptIsCurrent, Acceptable
<1>10. /\ Pristine(s, m, handed) /\ ColumnsFit(s) /\ VerdictStands(s, handed)
       /\ BearerIsNewest(s, handed)
  BY <1>4, <1>6, <1>8 DEF Pristine, ColumnsFit, VerdictStands, BearerIsNewest, Verdicts
<1>11. NotStranded(s)
  BY <1>1, <1>4 DEF JobInv, NotStranded
<1>12. Balanced(s, m, handed)
  <2>1. /\ n["JOB_ENQUEUED"] = 1 /\ n["EXECUTION_LEASE_GRANTED"] = r.attempts
        /\ r.attempts = n["EXECUTION_LEASE_EXPIRED"] + n["EXECUTION_FAILED"] + 1
        /\ n["EXECUTION_RECEIPT_ACCEPTED"] = 0
        /\ n["VERIFICATION_LEASE_GRANTED"] = n["VERIFICATION_LEASE_EXPIRED"]
        /\ n["INDEPENDENT_VERIFICATION"] = 0
        /\ Len(handed) = r.attempts + n["VERIFICATION_LEASE_GRANTED"]
    BY <1>1, <1>5, <1>6 DEF JobInv, Balanced, One, EventKinds
  <2>2. /\ n["EXECUTION_LEASE_EXPIRED"] \in Nat /\ n["EXECUTION_FAILED"] \in Nat
        /\ n["VERIFICATION_LEASE_EXPIRED"] \in Nat
    BY <1>1 DEF EventKinds
  <2>3. /\ m["JOB_ENQUEUED"] = 1 /\ m["EXECUTION_LEASE_GRANTED"] = r.attempts
        /\ m["EXECUTION_LEASE_EXPIRED"] = n["EXECUTION_LEASE_EXPIRED"]
        /\ m["EXECUTION_FAILED"] = n["EXECUTION_FAILED"]
        /\ m["EXECUTION_RECEIPT_ACCEPTED"] = 1
        /\ m["VERIFICATION_LEASE_GRANTED"] = n["VERIFICATION_LEASE_EXPIRED"]
        /\ m["VERIFICATION_LEASE_EXPIRED"] = n["VERIFICATION_LEASE_EXPIRED"]
        /\ m["INDEPENDENT_VERIFICATION"] = 0
    BY <1>3, <2>1 DEF EventKinds
  <2> QED
    BY <1>4, <1>6, <1>8, <2>1, <2>2, <2>3 DEF Balanced, One
<1>13. JobOK(s, m, handed)
  BY <1>1, <1>2, <1>3, <1>9, <1>10, <1>11, <1>12 DEF JobOK, JobInv
<1> QED
  BY <1>13 DEF s, m

\* A row whose worker reported a failure is in order.
LEMMA RequeuedOK ==
    ASSUME NEW r, NEW n, NEW handed, JobOK(r, n, handed), NEW at \in Int,
           r.state = "LEASED", NEW delay \in Int
    PROVE  JobOK(Requeued(r, delay, at), Event(n, "EXECUTION_FAILED"), handed)
<1> DEFINE s == WithoutExecutionLease(r, at)
           u == Requeued(r, delay, at)
           m == Event(n, "EXECUTION_FAILED")
<1>1. JobOK(s, m, handed) /\ s \in Row
  BY LostExecutionOK DEF JobOK
<1> HIDE DEF s, m
<1>2. u = [s EXCEPT !.available_at = RetryAt(at, delay)]
  BY DEF Requeued, s
<1>3. RetryAt(at, delay) \in Int
  BY DEF RetryAt
<1> HIDE DEF u
<1>4. u \in Row
  BY <1>1, <1>2, <1>3 DEF Row
<1>5. /\ u.state = s.state /\ u.attempts = s.attempts
      /\ u.max_attempts = s.max_attempts /\ u.receipt = s.receipt
      /\ u.verification = s.verification /\ u.verifier_id = s.verifier_id
      /\ u.execution_worker_id = s.execution_worker_id
      /\ u.execution_lease_hash = s.execution_lease_hash
      /\ u.execution_lease_expires_at = s.execution_lease_expires_at
      /\ u.verification_lease_hash = s.verification_lease_hash
      /\ u.verification_lease_expires_at = s.verification_lease_expires_at
      /\ s.state # "ABSENT"
  <2>1. s.state # "ABSENT"
    BY DEF s, WithoutExecutionLease, NextState, JobOK, Row
  <2> QED
    BY <1>1, <1>2, <2>1 DEF Row
<1>6. Pristine(u, m, handed) /\ ColumnsFit(u) /\ BearerIsNewest(u, handed)
  BY <1>1, <1>5 DEF JobOK, JobInv, Pristine, ColumnsFit, HasExecutionLease, NoExecutionLease,
     NoVerificationLease, HasVerificationLease, BearerIsNewest
<1>7. NotStranded(u) /\ ReceiptIsCurrent(u, handed) /\ VerdictStands(u, handed)
  BY <1>1, <1>5 DEF JobOK, JobInv, NotStranded, ReceiptIsCurrent, VerdictStands
<1>8. Balanced(u, m, handed)
  BY <1>1, <1>5 DEF JobOK, JobInv, Balanced
<1>9. JobOK(u, m, handed)
  BY <1>1, <1>4, <1>6, <1>7, <1>8 DEF JobOK, JobInv
<1> QED
  BY <1>9 DEF u, m

\* A row that is granted to a verifier is in order.
LEMMA GrantVerificationOK ==
    ASSUME NEW r, NEW n, NEW handed, JobOK(r, n, handed), NEW at \in Int,
           NEW verifier \in Actors, Inspectable(r, verifier), NEW expires \in Int
    PROVE  JobOK(GrantVerification(r, verifier, Len(handed) + 1, expires, at),
                 Event(n, "VERIFICATION_LEASE_GRANTED"),
                 Append(handed, [kind |-> "verification", owner |-> verifier]))
<1> DEFINE s == GrantVerification(r, verifier, Len(handed) + 1, expires, at)
           m == Event(n, "VERIFICATION_LEASE_GRANTED")
           l == [kind |-> "verification", owner |-> verifier]
           longer == Append(handed, l)
<1>1. r \in Row /\ n \in [EventKinds -> Nat] /\ handed \in Seq(LeaseRecords)
      /\ l \in LeaseRecords /\ Len(handed) \in Nat /\ JobInv(r, n, handed)
  BY DEF JobOK, LeaseRecords
<1>2. s \in Row
  <2>1. "VERIFYING" \in JobStates /\ Sha256(Len(handed) + 1) \in Hashes
    BY <1>1, NoneIsNoValue DEF JobStates
  <2> QED
    BY <1>1, <2>1, ZenonT(60) DEF GrantVerification, Row
<1>3. /\ m \in [EventKinds -> Nat]
      /\ m["VERIFICATION_LEASE_GRANTED"] = n["VERIFICATION_LEASE_GRANTED"] + 1
      /\ \A q \in EventKinds \ {"VERIFICATION_LEASE_GRANTED"} : m[q] = n[q]
  <2>1. "VERIFICATION_LEASE_GRANTED" \in EventKinds
    BY DEF EventKinds
  <2> QED
    BY <1>1, <2>1, EventType
<1>4. /\ s.state = "VERIFYING" /\ s.attempts = r.attempts
      /\ s.max_attempts = r.max_attempts /\ s.receipt = r.receipt
      /\ s.verification = r.verification /\ s.verifier_id = verifier
      /\ s.execution_worker_id = r.execution_worker_id
      /\ s.verification_lease_hash = Sha256(Len(handed) + 1)
      /\ s.verification_lease_expires_at = expires
      /\ (NoExecutionLease(r) => NoExecutionLease(s))
  BY <1>1 DEF GrantVerification, Row, NoExecutionLease
<1>5. r.state = "EXECUTED"
  BY DEF Inspectable
<1>6. /\ r.receipt # None /\ r.verification = None /\ r.execution_worker_id # None
      /\ NoExecutionLease(s)
  <2>1. r.verification # None => r.verification.verdict \in Verdicts
    BY <1>1 DEF Row, Verifications
  <2>2. r.verification # None => r.state = r.verification.verdict
    BY <1>1 DEF JobInv, VerdictStands
  <2>3. r.verification = None
    BY <1>5, <2>1, <2>2 DEF Verdicts
  <2> QED
    BY <1>1, <1>4, <1>5, <2>3 DEF JobInv, ColumnsFit
<1>7. r.execution_worker_id # verifier
  BY <1>6 DEF Inspectable
<1>8. /\ longer \in Seq(LeaseRecords) /\ Len(longer) = Len(handed) + 1
      /\ longer # << >> /\ longer[Len(longer)] = l
      /\ DOMAIN longer = DOMAIN handed \cup {Len(longer)}
      /\ \A t \in DOMAIN handed : longer[t] = handed[t]
  BY <1>1, HandedOut
<1>9. verifier # None /\ expires # None /\ Sha256(Len(handed) + 1) # None
  BY <1>1, NoneIsNoValue
<1> HIDE DEF s, m, longer
<1>10. ReceiptIsCurrent(s, longer)
  <2>1. ReceiptIsCurrent(r, handed)
    BY <1>1 DEF JobInv
  <2> QED
    BY <1>4, <1>6, <1>8, <2>1 DEF ReceiptIsCurrent, l
<1>11. /\ Pristine(s, m, longer) /\ ColumnsFit(s) /\ VerdictStands(s, longer)
       /\ BearerIsNewest(s, longer)
  BY <1>4, <1>6, <1>7, <1>8, <1>9 DEF Pristine, ColumnsFit, HasVerificationLease,
     VerdictStands, BearerIsNewest, Verdicts, l
<1>12. NotStranded(s)
  BY <1>1, <1>4 DEF JobInv, NotStranded
<1>13. Balanced(s, m, longer)
  <2>1. /\ n["JOB_ENQUEUED"] = 1 /\ n["EXECUTION_LEASE_GRANTED"] = r.attempts
        /\ r.attempts = n["EXECUTION_LEASE_EXPIRED"] + n["EXECUTION_FAILED"]
                        + n["EXECUTION_RECEIPT_ACCEPTED"]
        /\ n["EXECUTION_RECEIPT_ACCEPTED"] = 1
        /\ n["VERIFICATION_LEASE_GRANTED"] = n["VERIFICATION_LEASE_EXPIRED"]
        /\ n["INDEPENDENT_VERIFICATION"] = 0
        /\ Len(handed) = r.attempts + n["VERIFICATION_LEASE_GRANTED"]
    BY <1>1, <1>5, <1>6 DEF JobInv, Balanced, One, EventKinds
  <2>2. /\ n["EXECUTION_LEASE_EXPIRED"] \in Nat /\ n["EXECUTION_FAILED"] \in Nat
        /\ n["VERIFICATION_LEASE_EXPIRED"] \in Nat /\ r.attempts \in Nat
    BY <1>1 DEF EventKinds, Row
  <2>3. /\ m["JOB_ENQUEUED"] = 1 /\ m["EXECUTION_LEASE_GRANTED"] = r.attempts
        /\ m["EXECUTION_LEASE_EXPIRED"] = n["EXECUTION_LEASE_EXPIRED"]
        /\ m["EXECUTION_FAILED"] = n["EXECUTION_FAILED"]
        /\ m["EXECUTION_RECEIPT_ACCEPTED"] = 1
        /\ m["VERIFICATION_LEASE_GRANTED"] = n["VERIFICATION_LEASE_EXPIRED"] + 1
        /\ m["VERIFICATION_LEASE_EXPIRED"] = n["VERIFICATION_LEASE_EXPIRED"]
        /\ m["INDEPENDENT_VERIFICATION"] = 0
    BY <1>3, <2>1 DEF EventKinds
  <2>4. Len(longer) = s.attempts + m["VERIFICATION_LEASE_GRANTED"]
    BY <1>4, <1>8, <2>1, <2>2, <2>3
  <2>5. s.state = "VERIFYING" /\ s.receipt # None /\ s.verification = None
        /\ s.attempts = r.attempts
    BY <1>4, <1>6
  <2> QED
    BY <2>1, <2>2, <2>3, <2>4, <2>5 DEF Balanced, One
<1>14. JobOK(s, m, longer)
  BY <1>2, <1>3, <1>8, <1>10, <1>11, <1>12, <1>13 DEF JobOK, JobInv
<1> QED
  BY <1>14 DEF s, m, longer

\* A row on which the bearer of its verification lease ruled is in order.
LEMMA WithVerdictOK ==
    ASSUME NEW r, NEW n, NEW handed, JobOK(r, n, handed), NEW at \in Int,
           NEW verifier \in Actors, NEW token, OwnsVerification(r, verifier, token),
           NEW verdict \in Verdicts
    PROVE  JobOK(WithVerdict(r, verifier, verdict, at),
                 Event(n, "INDEPENDENT_VERIFICATION"), handed)
<1> DEFINE v == [verdict |-> verdict, verifier_id |-> verifier,
                 receipt_sha256 |-> Sha256(r.receipt)]
           s == WithVerdict(r, verifier, verdict, at)
           m == Event(n, "INDEPENDENT_VERIFICATION")
<1>1. r \in Row /\ n \in [EventKinds -> Nat] /\ handed \in Seq(LeaseRecords)
      /\ JobInv(r, n, handed)
  BY DEF JobOK
<1>2. r.state = "VERIFYING" /\ r.verifier_id = verifier /\ r.execution_worker_id # verifier
  BY DEF OwnsVerification
<1>3. /\ r.receipt # None /\ r.verification = None /\ r.execution_worker_id # None
      /\ NoExecutionLease(r)
  BY <1>1, <1>2 DEF JobInv, ColumnsFit
<1>4. v \in Verifications /\ v # None
  <2>1. r.receipt \in Receipts
    BY <1>1, <1>3 DEF Row
  <2>2. Sha256(r.receipt) \in [sha256 : Receipts]
    BY <2>1 DEF Sha256
  <2>3. v \in Verifications
    BY <2>2 DEF Verifications
  <2> QED
    BY <2>3, NoneIsNoValue
<1>5. s = [r EXCEPT !.state = verdict, !.verification = v,
              !.verification_lease_hash = None,
              !.verification_lease_expires_at = None, !.updated_at = at]
  BY DEF WithVerdict
<1>6. v.verdict = verdict /\ v.verifier_id = verifier
      /\ v.receipt_sha256 = Sha256(r.receipt)
  OBVIOUS
<1> HIDE DEF v, s
<1>7. s \in Row
  <2>1. verdict \in JobStates
    BY DEF JobStates, Verdicts
  <2> QED
    BY <1>1, <1>4, <1>5, <2>1 DEF Row
<1>8. /\ m \in [EventKinds -> Nat]
      /\ m["INDEPENDENT_VERIFICATION"] = n["INDEPENDENT_VERIFICATION"] + 1
      /\ \A q \in EventKinds \ {"INDEPENDENT_VERIFICATION"} : m[q] = n[q]
  <2>1. "INDEPENDENT_VERIFICATION" \in EventKinds
    BY DEF EventKinds
  <2> QED
    BY <1>1, <2>1, EventType
<1> HIDE DEF m
<1>9. /\ s.state = verdict /\ s.attempts = r.attempts
      /\ s.max_attempts = r.max_attempts /\ s.receipt = r.receipt
      /\ s.verification = v /\ s.verifier_id = verifier
      /\ s.execution_worker_id = r.execution_worker_id
      /\ NoVerificationLease(s) /\ NoExecutionLease(s)
  BY <1>1, <1>2, <1>3, <1>5 DEF Row, NoExecutionLease, NoVerificationLease
<1>10. ReceiptIsCurrent(s, handed)
  BY <1>1, <1>9 DEF JobInv, ReceiptIsCurrent
<1>11. /\ handed # << >>
       /\ handed[Len(handed)] = [kind |-> "verification", owner |-> verifier]
  BY <1>1, <1>2 DEF JobInv, BearerIsNewest
<1>12. /\ Pristine(s, m, handed) /\ ColumnsFit(s) /\ VerdictStands(s, handed)
       /\ BearerIsNewest(s, handed)
  BY <1>2, <1>3, <1>4, <1>6, <1>9, <1>11 DEF Pristine, ColumnsFit, HasVerificationLease,
     VerdictStands, BearerIsNewest, Verdicts
<1>13. NotStranded(s)
  BY <1>1, <1>4, <1>9 DEF JobInv, NotStranded, Verdicts
<1>14. Balanced(s, m, handed)
  <2>1. /\ n["JOB_ENQUEUED"] = 1 /\ n["EXECUTION_LEASE_GRANTED"] = r.attempts
        /\ r.attempts = n["EXECUTION_LEASE_EXPIRED"] + n["EXECUTION_FAILED"]
                        + n["EXECUTION_RECEIPT_ACCEPTED"]
        /\ n["EXECUTION_RECEIPT_ACCEPTED"] = 1
        /\ n["VERIFICATION_LEASE_GRANTED"] = n["VERIFICATION_LEASE_EXPIRED"] + 1
        /\ n["INDEPENDENT_VERIFICATION"] = 0
        /\ Len(handed) = r.attempts + n["VERIFICATION_LEASE_GRANTED"]
    BY <1>1, <1>2, <1>3 DEF JobInv, Balanced, One, EventKinds
  <2>2. /\ n["EXECUTION_LEASE_EXPIRED"] \in Nat /\ n["EXECUTION_FAILED"] \in Nat
        /\ n["VERIFICATION_LEASE_EXPIRED"] \in Nat /\ r.attempts \in Nat
    BY <1>1 DEF EventKinds, Row
  <2>3. /\ m["JOB_ENQUEUED"] = 1 /\ m["EXECUTION_LEASE_GRANTED"] = r.attempts
        /\ m["EXECUTION_LEASE_EXPIRED"] = n["EXECUTION_LEASE_EXPIRED"]
        /\ m["EXECUTION_FAILED"] = n["EXECUTION_FAILED"]
        /\ m["EXECUTION_RECEIPT_ACCEPTED"] = 1
        /\ m["VERIFICATION_LEASE_GRANTED"] = n["VERIFICATION_LEASE_EXPIRED"] + 1
        /\ m["VERIFICATION_LEASE_EXPIRED"] = n["VERIFICATION_LEASE_EXPIRED"]
        /\ m["INDEPENDENT_VERIFICATION"] = 1
    <3>1. m["INDEPENDENT_VERIFICATION"] = 1
      BY <1>8, <2>1
    <3>2. \A q \in {"JOB_ENQUEUED", "EXECUTION_LEASE_GRANTED", "EXECUTION_LEASE_EXPIRED",
                  "EXECUTION_FAILED", "EXECUTION_RECEIPT_ACCEPTED",
                  "VERIFICATION_LEASE_GRANTED", "VERIFICATION_LEASE_EXPIRED"} : m[q] = n[q]
      BY <1>8 DEF EventKinds
    <3> QED
      BY <2>1, <3>1, <3>2
  <2>4. s.state \in {"VERIFIED", "FAILED", "BLOCKED"}
    BY <1>9 DEF Verdicts
  <2> QED
    BY <1>3, <1>4, <1>9, <2>1, <2>2, <2>3, <2>4 DEF Balanced, One
<1>15. JobOK(s, m, handed)
  BY <1>1, <1>7, <1>8, <1>10, <1>12, <1>13, <1>14 DEF JobOK, JobInv
<1> QED
  BY <1>15 DEF s, m, v

----------------------------------------------------------------------------
(* The inductive invariant                                                 *)

\* IInv says that every job is in order, and conversely.
LEMMA JobsInOrder ==
    ASSUME IInv PROVE \A j \in Jobs : JobOK(jobs[j], log[j], leases[j])
BY DEF IInv, JobOK

LEMMA TimesAreIntegers ==
    ASSUME IInv PROVE \A at \in Nows : at \in Int
BY FleetAssumption DEF IInv, Nows

\* A step that changes one job, and leaves that one in order, keeps IInv.
LEMMA OneJobStep ==
    ASSUME IInv, NEW j \in Jobs, NEW r, NEW n, NEW handed, JobOK(r, n, handed),
           jobs' = [jobs EXCEPT ![j] = r], log' = [log EXCEPT ![j] = n],
           leases' = [leases EXCEPT ![j] = handed], UNCHANGED <<clock, plans>>
    PROVE  IInv'
<1>1. /\ jobs' \in [Jobs -> Row] /\ log' \in [Jobs -> [EventKinds -> Nat]]
      /\ leases' \in [Jobs -> Seq(LeaseRecords)]
  BY DEF IInv, JobOK
<1>2. ASSUME NEW i \in Jobs PROVE JobInv(jobs'[i], log'[i], leases'[i])
  <2>1. CASE i = j
    BY <2>1 DEF IInv, JobOK
  <2>2. CASE i # j
    BY <2>2 DEF IInv
  <2> QED
    BY <2>1, <2>2
<1> QED
  BY <1>1, <1>2 DEF IInv

\* So does a step that first reaps every job and then changes one, or none.
LEMMA ReapStep ==
    ASSUME IInv, NEW at \in Int, jobs' = ReapedJobs(at), log' = ReapedLog(at),
           UNCHANGED <<clock, plans, leases>>
    PROVE  IInv'
<1>1. \A i \in Jobs : JobOK(jobs'[i], log'[i], leases[i])
  BY JobsInOrder, ReapOK DEF ReapedJobs, ReapedLog
<1> QED
  BY <1>1 DEF IInv, JobOK, ReapedJobs, ReapedLog

LEMMA ReapAndGrantStep ==
    ASSUME IInv, NEW at \in Int, NEW j \in Jobs, NEW r, NEW n, NEW handed,
           JobOK(r, n, handed),
           jobs' = [ReapedJobs(at) EXCEPT ![j] = r], log' = [ReapedLog(at) EXCEPT ![j] = n],
           leases' = [leases EXCEPT ![j] = handed], UNCHANGED <<clock, plans>>
    PROVE  IInv'
<1>1. \A i \in Jobs : JobOK(ReapedJobs(at)[i], ReapedLog(at)[i], leases[i])
  BY JobsInOrder, ReapOK DEF ReapedJobs, ReapedLog
<1>2. ReapedJobs(at) \in [Jobs -> Row] /\ ReapedLog(at) \in [Jobs -> [EventKinds -> Nat]]
  BY <1>1 DEF JobOK, ReapedJobs, ReapedLog
<1>3. /\ jobs' \in [Jobs -> Row] /\ log' \in [Jobs -> [EventKinds -> Nat]]
      /\ leases' \in [Jobs -> Seq(LeaseRecords)]
  BY <1>2 DEF IInv, JobOK
<1>4. ASSUME NEW i \in Jobs PROVE JobInv(jobs'[i], log'[i], leases'[i])
  <2>1. CASE i = j
    BY <1>2, <2>1 DEF IInv, JobOK
  <2>2. CASE i # j
    BY <1>1, <1>2, <2>2 DEF IInv, JobOK
  <2> QED
    BY <2>1, <2>2
<1> QED
  BY <1>3, <1>4 DEF IInv

LEMMA InitIInv == Init => IInv
<1> SUFFICES ASSUME Init PROVE IInv
  OBVIOUS
<1>1. NoRow \in Row
  BY DEF NoRow, Row
<1>2. /\ jobs \in [Jobs -> Row] /\ log \in [Jobs -> [EventKinds -> Nat]]
      /\ leases \in [Jobs -> Seq(LeaseRecords)] /\ clock \in 0..MaxClock
      /\ plans \in [Plans -> PlanStates]
  BY <1>1, FleetAssumption DEF Init, PlanStates
<1>3. ASSUME NEW j \in Jobs PROVE JobInv(jobs[j], log[j], leases[j])
  <2>1. jobs[j] = NoRow /\ log[j] = [k \in EventKinds |-> 0] /\ leases[j] = << >>
    BY DEF Init
  <2>2. ColumnsFit(NoRow) /\ NotStranded(NoRow) /\ ReceiptIsCurrent(NoRow, << >>)
        /\ VerdictStands(NoRow, << >>) /\ BearerIsNewest(NoRow, << >>)
    BY DEF NoRow, ColumnsFit, NotStranded, ReceiptIsCurrent, VerdictStands, BearerIsNewest,
       NoExecutionLease, NoVerificationLease, Verdicts
  <2>3. Balanced(NoRow, [k \in EventKinds |-> 0], << >>)
    BY DEF Balanced, One, NoRow, EventKinds
  <2> QED
    BY <2>1, <2>2, <2>3 DEF JobInv, Pristine
<1> QED
  BY <1>2, <1>3 DEF IInv

\* Every action keeps the inductive invariant.
LEMMA NextIInv == IInv /\ [Next]_vars => IInv'
<1> SUFFICES ASSUME IInv, [Next]_vars PROVE IInv'
  OBVIOUS
<1>1. CASE UNCHANGED vars
  BY <1>1 DEF IInv, vars
<1>2. CASE Tick
  BY <1>2, FleetAssumption DEF IInv, Tick
<1>3. ASSUME NEW p \in Plans, NEW status \in PlanStates \ {"ABSENT"}, RecordPlan(p, status)
      PROVE  IInv'
  BY <1>3 DEF IInv, RecordPlan
<1>4. ASSUME NEW at \in Nows, NEW j \in Jobs, NEW p \in Plans, NEW priority \in Priorities,
             NEW budget \in Budgets, Enqueue(j, p, priority, budget, at)
      PROVE  IInv'
  <2>1. JobOK(NewRow(p, priority, budget, at), Event(log[j], "JOB_ENQUEUED"), leases[j])
    BY <1>4, JobsInOrder, TimesAreIntegers, NewRowOK DEF Enqueue
  <2>2. leases' = [leases EXCEPT ![j] = leases[j]]
    BY <1>4 DEF Enqueue, IInv
  <2> QED
    BY <1>4, <2>1, <2>2, OneJobStep DEF Enqueue
<1>5. ASSUME NEW at \in Nows, NEW a \in Actors, NEW seconds \in LeaseSeconds,
             ClaimExecution(a, seconds, at)
      PROVE  IInv'
  <2> DEFINE claimable == {j \in Jobs : Claimable(ReapedJobs(at)[j], at)}
  <2>1. at \in Int /\ at + seconds \in Int
    BY TimesAreIntegers, FleetAssumption
  <2>2. CASE claimable = {} /\ jobs' = ReapedJobs(at) /\ log' = ReapedLog(at)
             /\ UNCHANGED leases
    BY <1>5, <2>1, <2>2, ReapStep DEF ClaimExecution
  <2>3. ASSUME NEW j \in claimable,
               jobs' = [ReapedJobs(at) EXCEPT ![j] =
                          GrantExecution(@, a, Len(leases[j]) + 1, at + seconds, at)],
               log' = [ReapedLog(at) EXCEPT ![j] = Event(@, "EXECUTION_LEASE_GRANTED")],
               leases' = [leases EXCEPT ![j] =
                            Append(@, [kind |-> "execution", owner |-> a])]
        PROVE  IInv'
    <3>1. JobOK(ReapedJobs(at)[j], ReapedLog(at)[j], leases[j])
      BY <2>1, JobsInOrder, ReapOK DEF ReapedJobs, ReapedLog
    <3>2. JobOK(GrantExecution(ReapedJobs(at)[j], a, Len(leases[j]) + 1, at + seconds, at),
                Event(ReapedLog(at)[j], "EXECUTION_LEASE_GRANTED"),
                Append(leases[j], [kind |-> "execution", owner |-> a]))
      BY <2>1, <3>1, GrantExecutionOK
    <3> QED
      BY <1>5, <2>1, <2>3, <3>2, ReapAndGrantStep DEF ClaimExecution
  <2> QED
    BY <1>5, <2>2, <2>3 DEF ClaimExecution
<1>6. ASSUME NEW at \in Nows, NEW a \in Actors, NEW seconds \in RenewSeconds,
             ClaimVerification(a, seconds, at)
      PROVE  IInv'
  <2> DEFINE inspectable == {j \in Jobs : Inspectable(ReapedJobs(at)[j], a)}
  <2>1. at \in Int /\ at + seconds \in Int
    BY TimesAreIntegers, FleetAssumption
  <2>2. CASE inspectable = {} /\ jobs' = ReapedJobs(at) /\ log' = ReapedLog(at)
             /\ UNCHANGED leases
    BY <1>6, <2>1, <2>2, ReapStep DEF ClaimVerification
  <2>3. ASSUME NEW j \in inspectable,
               jobs' = [ReapedJobs(at) EXCEPT ![j] =
                          GrantVerification(@, a, Len(leases[j]) + 1, at + seconds, at)],
               log' = [ReapedLog(at) EXCEPT ![j] = Event(@, "VERIFICATION_LEASE_GRANTED")],
               leases' = [leases EXCEPT ![j] =
                            Append(@, [kind |-> "verification", owner |-> a])]
        PROVE  IInv'
    <3>1. JobOK(ReapedJobs(at)[j], ReapedLog(at)[j], leases[j])
      BY <2>1, JobsInOrder, ReapOK DEF ReapedJobs, ReapedLog
    <3>2. JobOK(GrantVerification(ReapedJobs(at)[j], a, Len(leases[j]) + 1, at + seconds, at),
                Event(ReapedLog(at)[j], "VERIFICATION_LEASE_GRANTED"),
                Append(leases[j], [kind |-> "verification", owner |-> a]))
      BY <2>1, <3>1, GrantVerificationOK
    <3> QED
      BY <1>6, <2>1, <2>3, <3>2, ReapAndGrantStep DEF ClaimVerification
  <2> QED
    BY <1>6, <2>2, <2>3 DEF ClaimVerification
<1>7. ASSUME NEW at \in Nows, NEW j \in Jobs, NEW t \in DOMAIN leases[j],
             NEW seconds \in RenewSeconds,
             HeartbeatExecution(j, leases[j][t].owner, t, seconds, at)
      PROVE  IInv'
  <2>1. at \in Int /\ at + seconds \in Int
    BY TimesAreIntegers, FleetAssumption
  <2>2. JobOK(Extended(jobs[j], at + seconds, at), log[j], leases[j])
    BY <1>7, <2>1, JobsInOrder, ExtendedOK DEF HeartbeatExecution, OwnsExecution
  <2>3. log' = [log EXCEPT ![j] = log[j]] /\ leases' = [leases EXCEPT ![j] = leases[j]]
    BY <1>7 DEF HeartbeatExecution, IInv
  <2>4. jobs' = [jobs EXCEPT ![j] = Extended(jobs[j], at + seconds, at)]
        /\ UNCHANGED <<clock, plans>>
    BY <1>7 DEF HeartbeatExecution
  <2> QED
    BY <2>2, <2>3, <2>4, OneJobStep
<1>8. ASSUME NEW at \in Nows, NEW j \in Jobs, NEW t \in DOMAIN leases[j],
             NEW status \in {"UNKNOWN", "VERIFIED"}, NEW ok \in BOOLEAN, NEW signed \in BOOLEAN,
             CompleteExecution(j, leases[j][t].owner, t,
                [run |-> t, verification_status |-> status, succeeded |-> ok], signed, at)
      PROVE  IInv'
  <2> DEFINE receipt == [run |-> t, verification_status |-> status, succeeded |-> ok]
  <2>1. at \in Int /\ t \in Nat
    BY TimesAreIntegers DEF IInv
  <2>2. receipt \in Receipts /\ receipt.run = t
    BY <2>1 DEF Receipts
  <2> HIDE DEF receipt
  <2>3. JobOK(WithReceipt(jobs[j], receipt, at),
              Event(log[j], "EXECUTION_RECEIPT_ACCEPTED"), leases[j])
    BY <1>8, <2>1, <2>2, JobsInOrder, WithReceiptOK DEF CompleteExecution, receipt
  <2>4. leases' = [leases EXCEPT ![j] = leases[j]]
    BY <1>8 DEF CompleteExecution, IInv
  <2> QED
    BY <1>8, <2>3, <2>4, OneJobStep DEF CompleteExecution, receipt
<1>9. ASSUME NEW at \in Nows, NEW j \in Jobs, NEW t \in DOMAIN leases[j],
             NEW delay \in RetryDelays, FailExecution(j, leases[j][t].owner, t, delay, at)
      PROVE  IInv'
  <2>1. at \in Int /\ delay \in Int
    BY TimesAreIntegers, FleetAssumption
  <2>2. JobOK(Requeued(jobs[j], delay, at), Event(log[j], "EXECUTION_FAILED"), leases[j])
    BY <1>9, <2>1, JobsInOrder, RequeuedOK DEF FailExecution, OwnsExecution
  <2>3. leases' = [leases EXCEPT ![j] = leases[j]]
    BY <1>9 DEF FailExecution, IInv
  <2> QED
    BY <1>9, <2>2, <2>3, OneJobStep DEF FailExecution
<1>10. ASSUME NEW at \in Nows, NEW j \in Jobs, NEW t \in DOMAIN leases[j],
             NEW verdict \in Verdicts, NEW checks \in SUBSET BOOLEAN,
             CompleteVerification(j, leases[j][t].owner, t, verdict, checks, at)
      PROVE  IInv'
  <2>1. at \in Int /\ leases[j][t].owner \in Actors
    <3>1. leases[j][t] \in LeaseRecords
      BY DEF IInv
    <3> QED
      BY <3>1, TimesAreIntegers DEF LeaseRecords
  <2>2. JobOK(WithVerdict(jobs[j], leases[j][t].owner, verdict, at),
              Event(log[j], "INDEPENDENT_VERIFICATION"), leases[j])
    BY <1>10, <2>1, JobsInOrder, WithVerdictOK DEF CompleteVerification
  <2>3. leases' = [leases EXCEPT ![j] = leases[j]]
    BY <1>10 DEF CompleteVerification, IInv
  <2> QED
    BY <1>10, <2>2, <2>3, OneJobStep DEF CompleteVerification
<1>11. ASSUME NEW at \in Nows, NEW j \in Jobs, NEW t \in DOMAIN leases[j],
              Call(j, leases[j][t].owner, t, at)
       PROVE  IInv'
  BY <1>7, <1>8, <1>9, <1>10, <1>11 DEF Call
<1> QED
  BY <1>1, <1>2, <1>3, <1>4, <1>5, <1>6, <1>11 DEF Next

\* The inductive invariant holds throughout.
THEOREM Invariance == Spec => []IInv
<1>1. Init => IInv
  BY InitIInv
<1>2. IInv /\ [Next]_vars => IInv'
  BY NextIInv
<1> QED
  BY <1>1, <1>2, PTL DEF Spec

\* Every table always holds rows of its type.
THEOREM TypeCorrect == Spec => []TypeOK
<1>1. IInv => TypeOK
  BY DEF IInv, TypeOK
<1> QED
  BY <1>1, Invariance, PTL

\* The columns of a row always agree with its state.
THEOREM ColumnsAlwaysFit == Spec => []ColumnsFitState
<1>1. IInv => ColumnsFitState
  BY DEF IInv, JobInv, ColumnsFitState
<1> QED
  BY <1>1, Invariance, PTL

\* Only the newest lease of a job is ever honoured (_token_hash in the guards
\* of heartbeat, completion and failure).
THEOREM NewestLeaseCounts == Spec => []OnlyNewestLeaseCounts
<1>1. IInv => OnlyNewestLeaseCounts
  BY DEF IInv, JobInv, OnlyNewestLeaseCounts
<1> QED
  BY <1>1, Invariance, PTL

\* No job is ever stranded in the queue or failed without having used up its
\* attempts (the budget of _reap_expired, fail_execution and claim_execution).
THEOREM NoneStranded == Spec => []NoJobIsStranded
<1>1. IInv => NoJobIsStranded
  BY DEF IInv, JobInv, NoJobIsStranded
<1> QED
  BY <1>1, Invariance, PTL

\* A receipt on a row was delivered under the newest execution lease of the
\* job by the worker the row names (the guards of complete_execution).
THEOREM ReceiptsAreCurrent == Spec => []ReceiptFromNewestLease
<1>1. IInv => ReceiptFromNewestLease
  BY DEF IInv, JobInv, ReceiptFromNewestLease
<1> QED
  BY <1>1, Invariance, PTL

\* Every verdict is the newest verifier's, about the receipt on the row, and
\* never the producer's (claim_verification and complete_verification).
THEOREM VerdictsAreIndependent == Spec => []VerdictIsIndependent
<1>1. IInv => VerdictIsIndependent
  BY DEF IInv, JobInv, VerdictIsIndependent
<1> QED
  BY <1>1, Invariance, PTL

\* The ledger accounts for every lease of every job.
THEOREM LedgerAlwaysBalances == Spec => []LedgerBalances
<1>1. IInv => LedgerBalances
  BY DEF IInv, JobInv, LedgerBalances
<1> QED
  BY <1>1, Invariance, PTL

----------------------------------------------------------------------------
(* What a step does to one job                                             *)

\* All that may become of the row r and the tally n of a job in one step.
Moved(r, n, s, m) ==
    \/ s = r /\ m = n
    \/ \E p \in Plans, priority \in Priorities, budget \in Budgets, at \in Nows :
          /\ r.state = "ABSENT"
          /\ s = NewRow(p, priority, budget, at)
          /\ m = Event(n, "JOB_ENQUEUED")
    \/ \E at \in Nows : s = ReapRow(r, at) /\ m = ReapEvent(n, r, at)
    \/ \E at \in Nows, worker \in Actors, token \in Nat, expires \in Int :
          /\ Claimable(ReapRow(r, at), at)
          /\ s = GrantExecution(ReapRow(r, at), worker, token, expires, at)
          /\ m = Event(ReapEvent(n, r, at), "EXECUTION_LEASE_GRANTED")
    \/ \E at \in Nows, verifier \in Actors, token \in Nat, expires \in Int :
          /\ Inspectable(ReapRow(r, at), verifier)
          /\ s = GrantVerification(ReapRow(r, at), verifier, token, expires, at)
          /\ m = Event(ReapEvent(n, r, at), "VERIFICATION_LEASE_GRANTED")
    \/ \E at \in Nows, expires \in Int :
          r.state = "LEASED" /\ s = Extended(r, expires, at) /\ m = n
    \/ \E at \in Nows, receipt \in Receipts :
          /\ r.state = "LEASED" /\ r.execution_lease_expires_at >= at
          /\ s = WithReceipt(r, receipt, at)
          /\ m = Event(n, "EXECUTION_RECEIPT_ACCEPTED")
    \/ \E at \in Nows, delay \in Int :
          /\ r.state = "LEASED"
          /\ s = Requeued(r, delay, at)
          /\ m = Event(n, "EXECUTION_FAILED")
    \/ \E at \in Nows, verdict \in Verdicts :
          /\ r.state = "VERIFYING" /\ r.verification_lease_expires_at >= at
          /\ s = WithVerdict(r, r.verifier_id, verdict, at)
          /\ m = Event(n, "INDEPENDENT_VERIFICATION")

\* Every step is, for every job, one of these moves.
LEMMA JobsMove ==
    IInv /\ [Next]_vars => \A j \in Jobs : Moved(jobs[j], log[j], jobs'[j], log'[j])
<1> SUFFICES ASSUME IInv, [Next]_vars, NEW i \in Jobs
             PROVE  Moved(jobs[i], log[i], jobs'[i], log'[i])
  OBVIOUS
<1> DEFINE r == jobs[i]
           n == log[i]
           Goal == Moved(r, n, jobs'[i], log'[i])
<1>0. jobs \in [Jobs -> Row] /\ log \in [Jobs -> [EventKinds -> Nat]]
  BY DEF IInv
<1>1. CASE jobs' = jobs /\ log' = log
  BY <1>1 DEF Moved
<1>2. ASSUME NEW at \in Nows, NEW j \in Jobs, NEW p \in Plans, NEW priority \in Priorities,
             NEW budget \in Budgets, Enqueue(j, p, priority, budget, at)
      PROVE  Goal
  <2>1. CASE i = j
    BY <1>0, <1>2, <2>1 DEF Enqueue, Moved
  <2>2. CASE i # j
    BY <1>0, <1>2, <2>2 DEF Enqueue, Moved
  <2> QED
    BY <2>1, <2>2
<1>3. ASSUME NEW at \in Nows, NEW a \in Actors, NEW seconds \in LeaseSeconds,
             ClaimExecution(a, seconds, at)
      PROVE  Goal
  <2> DEFINE claimable == {j \in Jobs : Claimable(ReapedJobs(at)[j], at)}
  <2>1. /\ ReapedJobs(at)[i] = ReapRow(r, at) /\ ReapedLog(at)[i] = ReapEvent(n, r, at)
        /\ at + seconds \in Int /\ Len(leases[i]) + 1 \in Nat
    BY TimesAreIntegers, FleetAssumption DEF ReapedJobs, ReapedLog, IInv
  <2>2. CASE jobs' = ReapedJobs(at) /\ log' = ReapedLog(at)
    BY <2>1, <2>2 DEF Moved
  <2>3. ASSUME NEW j \in claimable,
               jobs' = [ReapedJobs(at) EXCEPT ![j] =
                          GrantExecution(@, a, Len(leases[j]) + 1, at + seconds, at)],
               log' = [ReapedLog(at) EXCEPT ![j] = Event(@, "EXECUTION_LEASE_GRANTED")]
        PROVE  Goal
    <3>1. CASE i = j
      <4>1. /\ jobs'[i] = GrantExecution(ReapRow(r, at), a, Len(leases[i]) + 1, at + seconds, at)
            /\ log'[i] = Event(ReapEvent(n, r, at), "EXECUTION_LEASE_GRANTED")
            /\ Claimable(ReapRow(r, at), at)
        BY <2>1, <2>3, <3>1 DEF ReapedJobs, ReapedLog
      <4> QED
        BY <2>1, <4>1 DEF Moved
    <3>2. CASE i # j
      <4>1. jobs'[i] = ReapRow(r, at) /\ log'[i] = ReapEvent(n, r, at)
        BY <2>1, <2>3, <3>2 DEF ReapedJobs, ReapedLog
      <4> QED
        BY <4>1 DEF Moved
    <3> QED
      BY <3>1, <3>2
  <2> QED
    BY <1>3, <2>2, <2>3 DEF ClaimExecution
<1>4. ASSUME NEW at \in Nows, NEW a \in Actors, NEW seconds \in RenewSeconds,
             ClaimVerification(a, seconds, at)
      PROVE  Goal
  <2> DEFINE inspectable == {j \in Jobs : Inspectable(ReapedJobs(at)[j], a)}
  <2>1. /\ ReapedJobs(at)[i] = ReapRow(r, at) /\ ReapedLog(at)[i] = ReapEvent(n, r, at)
        /\ at + seconds \in Int /\ Len(leases[i]) + 1 \in Nat
    BY TimesAreIntegers, FleetAssumption DEF ReapedJobs, ReapedLog, IInv
  <2>2. CASE jobs' = ReapedJobs(at) /\ log' = ReapedLog(at)
    BY <2>1, <2>2 DEF Moved
  <2>3. ASSUME NEW j \in inspectable,
               jobs' = [ReapedJobs(at) EXCEPT ![j] =
                          GrantVerification(@, a, Len(leases[j]) + 1, at + seconds, at)],
               log' = [ReapedLog(at) EXCEPT ![j] = Event(@, "VERIFICATION_LEASE_GRANTED")]
        PROVE  Goal
    <3>1. CASE i = j
      <4>1. /\ jobs'[i] = GrantVerification(ReapRow(r, at), a, Len(leases[i]) + 1,
                                            at + seconds, at)
            /\ log'[i] = Event(ReapEvent(n, r, at), "VERIFICATION_LEASE_GRANTED")
            /\ Inspectable(ReapRow(r, at), a)
        BY <2>1, <2>3, <3>1 DEF ReapedJobs, ReapedLog
      <4> QED
        BY <2>1, <4>1 DEF Moved
    <3>2. CASE i # j
      <4>1. jobs'[i] = ReapRow(r, at) /\ log'[i] = ReapEvent(n, r, at)
        BY <2>1, <2>3, <3>2 DEF ReapedJobs, ReapedLog
      <4> QED
        BY <4>1 DEF Moved
    <3> QED
      BY <3>1, <3>2
  <2> QED
    BY <1>4, <2>2, <2>3 DEF ClaimVerification
<1>5. ASSUME NEW at \in Nows, NEW j \in Jobs, NEW t \in DOMAIN leases[j],
             Call(j, leases[j][t].owner, t, at)
      PROVE  Goal
  <2> DEFINE owner == leases[j][t].owner
  <2>1. CASE i # j
    BY <1>0, <1>5, <2>1 DEF Call, HeartbeatExecution, CompleteExecution, FailExecution,
       CompleteVerification, Moved
  <2>2. ASSUME i = j, NEW seconds \in RenewSeconds, HeartbeatExecution(j, owner, t, seconds, at)
        PROVE  Goal
    <3>1. /\ jobs'[i] = Extended(r, at + seconds, at) /\ log'[i] = n
          /\ r.state = "LEASED" /\ at + seconds \in Int
      BY <1>0, <2>2, TimesAreIntegers, FleetAssumption DEF HeartbeatExecution, OwnsExecution
    <3> QED
      BY <3>1 DEF Moved
  <2>3. ASSUME i = j, NEW status \in {"UNKNOWN", "VERIFIED"}, NEW ok \in BOOLEAN,
               NEW signed \in BOOLEAN,
               CompleteExecution(j, owner, t,
                  [run |-> t, verification_status |-> status, succeeded |-> ok], signed, at)
        PROVE  Goal
    <3> DEFINE receipt == [run |-> t, verification_status |-> status, succeeded |-> ok]
    <3>1. receipt \in Receipts
      <4>1. t \in Nat
        BY DEF IInv
      <4> QED
        BY <4>1 DEF Receipts
    <3> HIDE DEF receipt
    <3>2. /\ jobs'[i] = WithReceipt(r, receipt, at)
          /\ log'[i] = Event(n, "EXECUTION_RECEIPT_ACCEPTED")
          /\ r.state = "LEASED" /\ r.execution_lease_expires_at >= at
      BY <1>0, <2>3 DEF CompleteExecution, OwnsExecution, receipt
    <3> QED
      BY <3>1, <3>2 DEF Moved
  <2>4. ASSUME i = j, NEW delay \in RetryDelays, FailExecution(j, owner, t, delay, at)
        PROVE  Goal
    <3>1. /\ jobs'[i] = Requeued(r, delay, at) /\ log'[i] = Event(n, "EXECUTION_FAILED")
          /\ r.state = "LEASED" /\ delay \in Int
      BY <1>0, <2>4, FleetAssumption DEF FailExecution, OwnsExecution
    <3> QED
      BY <3>1 DEF Moved
  <2>5. ASSUME i = j, NEW verdict \in Verdicts, NEW checks \in SUBSET BOOLEAN,
               CompleteVerification(j, owner, t, verdict, checks, at)
        PROVE  Goal
    <3>1. /\ jobs'[i] = WithVerdict(r, r.verifier_id, verdict, at)
          /\ log'[i] = Event(n, "INDEPENDENT_VERIFICATION")
          /\ r.state = "VERIFYING" /\ r.verification_lease_expires_at >= at
      BY <1>0, <2>5 DEF CompleteVerification, OwnsVerification
    <3> QED
      BY <3>1 DEF Moved
  <2> QED
    BY <1>5, <2>1, <2>2, <2>3, <2>4, <2>5 DEF Call
<1> QED
  BY <1>1, <1>2, <1>3, <1>4, <1>5 DEF Next, vars, Tick, RecordPlan

\* What reaping leaves alone.
LEMMA ReapFacts ==
    ASSUME NEW r \in Row, NEW at \in Int
    PROVE  LET s == ReapRow(r, at) IN
           /\ s \in Row
           /\ s.receipt = r.receipt
           /\ s.attempts = r.attempts /\ s.max_attempts = r.max_attempts
           /\ r.state \notin {"LEASED", "VERIFYING"} => s = r
           /\ r.state = "LEASED" => \/ s = r
                                    \/ s = WithoutExecutionLease(r, at)
           /\ r.state = "VERIFYING" => \/ s = r
                                       \/ s = WithoutVerificationLease(r, at)
           /\ r.state # "LEASED" => s.execution_worker_id = r.execution_worker_id
<1>1. "EXECUTED" \in JobStates /\ NextState(r) \in JobStates
  BY DEF JobStates, NextState
<1>2. /\ WithoutExecutionLease(r, at) \in Row
      /\ WithoutExecutionLease(r, at).receipt = r.receipt
      /\ WithoutExecutionLease(r, at).attempts = r.attempts
      /\ WithoutExecutionLease(r, at).max_attempts = r.max_attempts
  BY <1>1, ZenonT(60) DEF WithoutExecutionLease, Row
<1>3. /\ WithoutVerificationLease(r, at) \in Row
      /\ WithoutVerificationLease(r, at).receipt = r.receipt
      /\ WithoutVerificationLease(r, at).attempts = r.attempts
      /\ WithoutVerificationLease(r, at).max_attempts = r.max_attempts
      /\ WithoutVerificationLease(r, at).execution_worker_id = r.execution_worker_id
  <2>1. WithoutVerificationLease(r, at) \in Row
    BY <1>1, ZenonT(60) DEF WithoutVerificationLease, Row
  <2> QED
    BY <2>1, ZenonT(60) DEF WithoutVerificationLease, Row
<1>4. CASE ExecutionLapsed(r, at)
  BY <1>2, <1>4 DEF ReapRow, ExecutionLapsed
<1>5. CASE ~ ExecutionLapsed(r, at) /\ VerificationLapsed(r, at)
  BY <1>3, <1>5 DEF ReapRow, VerificationLapsed
<1>6. CASE ~ ExecutionLapsed(r, at) /\ ~ VerificationLapsed(r, at)
  BY <1>6 DEF ReapRow
<1> QED
  BY <1>4, <1>5, <1>6

\* A receipt stays on its row, and a finished row stays as it is.
LEMMA MovesKeepDecisions ==
    ASSUME IInv, NEW r \in Row, NEW n, NEW handed, JobOK(r, n, handed),
           NEW s, NEW m, Moved(r, n, s, m)
    PROVE  /\ r.receipt # None => /\ s.receipt = r.receipt
                                  /\ s.execution_worker_id = r.execution_worker_id
           /\ r.state \in Verdicts => s = r
<1> DEFINE Goal == /\ r.receipt # None => /\ s.receipt = r.receipt
                                          /\ s.execution_worker_id = r.execution_worker_id
                   /\ r.state \in Verdicts => s = r
<1>1. /\ r.receipt # None => r.state \notin {"ABSENT", "QUEUED", "LEASED"}
      /\ \A at \in Nows : at \in Int
  BY TimesAreIntegers DEF JobOK, JobInv, ColumnsFit
<1>2. CASE s = r
  BY <1>2
<1>3. CASE r.state = "ABSENT"
  BY <1>1, <1>3 DEF Verdicts
<1>4. CASE r.state = "LEASED"
  BY <1>1, <1>4 DEF Verdicts
<1>5. ASSUME NEW at \in Nows, s = ReapRow(r, at)
      PROVE  Goal
  BY <1>1, <1>5, ReapFacts DEF Verdicts
<1>6. ASSUME NEW at \in Nows, NEW worker \in Actors, NEW token \in Nat, NEW expires \in Int,
             Claimable(ReapRow(r, at), at),
             s = GrantExecution(ReapRow(r, at), worker, token, expires, at)
      PROVE  Goal
  <2>1. r.state \in {"LEASED", "QUEUED"}
    <3>1. ReapRow(r, at).state = "QUEUED"
      BY <1>6 DEF Claimable
    <3>2. WithoutVerificationLease(r, at).state = "EXECUTED"
      BY DEF WithoutVerificationLease, Row
    <3> QED
      BY <1>1, <3>1, <3>2, ReapFacts
  <2> QED
    BY <1>1, <2>1 DEF Verdicts
<1>7. ASSUME NEW at \in Nows, NEW verifier \in Actors, NEW token \in Nat, NEW expires \in Int,
             Inspectable(ReapRow(r, at), verifier),
             s = GrantVerification(ReapRow(r, at), verifier, token, expires, at)
      PROVE  Goal
  <2> DEFINE u == ReapRow(r, at)
  <2>1. /\ u \in Row /\ u.state = "EXECUTED" /\ u.receipt = r.receipt
        /\ (r.state # "LEASED" => u.execution_worker_id = r.execution_worker_id)
        /\ (r.state \in Verdicts => u = r)
    BY <1>1, <1>7, ReapFacts DEF Inspectable, Verdicts
  <2> HIDE DEF u
  <2>2. s.receipt = u.receipt /\ s.execution_worker_id = u.execution_worker_id
    BY <1>7, <2>1 DEF GrantVerification, Row, u
  <2> QED
    BY <1>1, <2>1, <2>2 DEF Verdicts
<1>8. ASSUME r.state = "VERIFYING", NEW at \in Nows, NEW verdict \in Verdicts,
             s = WithVerdict(r, r.verifier_id, verdict, at)
      PROVE  Goal
  BY <1>8 DEF WithVerdict, Row, Verdicts
<1> QED
  BY <1>2, <1>3, <1>4, <1>5, <1>6, <1>7, <1>8 DEF Moved

\* A receipt is never replaced, and a finished job never changes again.
THEOREM DecisionsStay == Spec => DecisionsAreFinal
<1>1. IInv /\ [Next]_vars =>
        [\A j \in Jobs :
          /\ jobs[j].receipt # None => /\ jobs'[j].receipt = jobs[j].receipt
                                       /\ jobs'[j].execution_worker_id
                                             = jobs[j].execution_worker_id
          /\ jobs[j].state \in Verdicts => jobs'[j] = jobs[j]]_vars
  <2> SUFFICES ASSUME IInv, [Next]_vars, NEW j \in Jobs
               PROVE  /\ jobs[j].receipt # None =>
                            /\ jobs'[j].receipt = jobs[j].receipt
                            /\ jobs'[j].execution_worker_id = jobs[j].execution_worker_id
                      /\ jobs[j].state \in Verdicts => jobs'[j] = jobs[j]
    OBVIOUS
  <2>1. JobOK(jobs[j], log[j], leases[j]) /\ jobs[j] \in Row
    BY JobsInOrder DEF JobOK
  <2> QED
    BY <2>1, JobsMove, MovesKeepDecisions
<1> QED
  BY <1>1, Invariance, PTL DEF Spec, DecisionsAreFinal

\* A lapse is recorded only after the deadline, an answer only in time.
LEMMA MovesKeepDeadlines ==
    ASSUME IInv, NEW r \in Row, NEW n, NEW handed, JobOK(r, n, handed),
           NEW s, NEW m, Moved(r, n, s, m)
    PROVE  /\ m["EXECUTION_LEASE_EXPIRED"] # n["EXECUTION_LEASE_EXPIRED"] =>
                 r.execution_lease_expires_at < clock
           /\ m["VERIFICATION_LEASE_EXPIRED"] # n["VERIFICATION_LEASE_EXPIRED"] =>
                 r.verification_lease_expires_at < clock
           /\ m["EXECUTION_RECEIPT_ACCEPTED"] # n["EXECUTION_RECEIPT_ACCEPTED"] =>
                 clock <= r.execution_lease_expires_at + MaxWait
           /\ m["INDEPENDENT_VERIFICATION"] # n["INDEPENDENT_VERIFICATION"] =>
                 clock <= r.verification_lease_expires_at + MaxWait
<1> DEFINE Same(k) == m[k] = n[k]
           Goal == /\ ~ Same("EXECUTION_LEASE_EXPIRED") => r.execution_lease_expires_at < clock
                   /\ ~ Same("VERIFICATION_LEASE_EXPIRED") =>
                         r.verification_lease_expires_at < clock
                   /\ ~ Same("EXECUTION_RECEIPT_ACCEPTED") =>
                         clock <= r.execution_lease_expires_at + MaxWait
                   /\ ~ Same("INDEPENDENT_VERIFICATION") =>
                         clock <= r.verification_lease_expires_at + MaxWait
<1>0. /\ n \in [EventKinds -> Nat] /\ clock \in Int /\ MaxWait \in Nat
      /\ \A at \in Nows : at \in Int /\ at <= clock /\ clock <= at + MaxWait
  BY FleetAssumption DEF JobOK, IInv, Nows
<1>1. /\ r.state = "LEASED" => r.execution_lease_expires_at \in Int
      /\ r.state = "VERIFYING" => r.verification_lease_expires_at \in Int
  BY DEF JobOK, JobInv, ColumnsFit, HasExecutionLease, HasVerificationLease, Row
<1>2. ASSUME NEW k \in EventKinds, NEW p \in [EventKinds -> Nat]
      PROVE  /\ Event(p, k) \in [EventKinds -> Nat]
             /\ \A q \in EventKinds : q # k => Event(p, k)[q] = p[q]
  BY EventType
<1>3. ASSUME NEW at \in Nows
      PROVE  /\ ReapEvent(n, r, at) \in [EventKinds -> Nat]
             /\ ReapEvent(n, r, at)["EXECUTION_LEASE_EXPIRED"] # n["EXECUTION_LEASE_EXPIRED"] =>
                   r.execution_lease_expires_at < clock
             /\ ReapEvent(n, r, at)["VERIFICATION_LEASE_EXPIRED"]
                     # n["VERIFICATION_LEASE_EXPIRED"] =>
                   r.verification_lease_expires_at < clock
             /\ \A q \in EventKinds \ {"EXECUTION_LEASE_EXPIRED", "VERIFICATION_LEASE_EXPIRED"} :
                   ReapEvent(n, r, at)[q] = n[q]
  <2> DEFINE e == Event(n, "EXECUTION_LEASE_EXPIRED")
             v == Event(n, "VERIFICATION_LEASE_EXPIRED")
  <2>1. /\ e \in [EventKinds -> Nat] /\ v \in [EventKinds -> Nat]
        /\ \A q \in EventKinds : q # "EXECUTION_LEASE_EXPIRED" => e[q] = n[q]
        /\ \A q \in EventKinds : q # "VERIFICATION_LEASE_EXPIRED" => v[q] = n[q]
    BY <1>0, <1>2 DEF EventKinds
  <2> HIDE DEF e, v
  <2>2. CASE ExecutionLapsed(r, at)
    <3>1. ReapEvent(n, r, at) = e
      BY <2>2 DEF ReapEvent, e
    <3>2. r.execution_lease_expires_at < clock
      BY <1>0, <1>1, <2>2 DEF ExecutionLapsed
    <3> QED
      BY <2>1, <3>1, <3>2 DEF EventKinds
  <2>3. CASE ~ ExecutionLapsed(r, at) /\ VerificationLapsed(r, at)
    <3>1. ReapEvent(n, r, at) = v
      BY <2>3 DEF ReapEvent, v
    <3>2. r.verification_lease_expires_at < clock
      BY <1>0, <1>1, <2>3 DEF VerificationLapsed
    <3> QED
      BY <2>1, <3>1, <3>2 DEF EventKinds
  <2>4. CASE ~ ExecutionLapsed(r, at) /\ ~ VerificationLapsed(r, at)
    BY <1>0, <2>4 DEF ReapEvent
  <2> QED
    BY <2>2, <2>3, <2>4
<1>4. CASE m = n
  BY <1>4
<1>5. CASE m = Event(n, "JOB_ENQUEUED") \/ m = Event(n, "EXECUTION_FAILED")
  BY <1>0, <1>2, <1>5 DEF EventKinds
<1>6. ASSUME NEW at \in Nows, m = ReapEvent(n, r, at)
      PROVE  Goal
  BY <1>3, <1>6 DEF EventKinds
<1>7. ASSUME NEW at \in Nows, NEW k \in {"EXECUTION_LEASE_GRANTED", "VERIFICATION_LEASE_GRANTED"},
             m = Event(ReapEvent(n, r, at), k)
      PROVE  Goal
  <2> DEFINE p == ReapEvent(n, r, at)
  <2>1. k \in EventKinds
    BY DEF EventKinds
  <2>2. /\ m["EXECUTION_LEASE_EXPIRED"] = p["EXECUTION_LEASE_EXPIRED"]
        /\ m["VERIFICATION_LEASE_EXPIRED"] = p["VERIFICATION_LEASE_EXPIRED"]
        /\ m["EXECUTION_RECEIPT_ACCEPTED"] = p["EXECUTION_RECEIPT_ACCEPTED"]
        /\ m["INDEPENDENT_VERIFICATION"] = p["INDEPENDENT_VERIFICATION"]
    BY <1>2, <1>3, <1>7, <2>1 DEF EventKinds
  <2> QED
    BY <1>3, <2>2 DEF EventKinds
<1>8. ASSUME NEW at \in Nows, r.state = "LEASED", r.execution_lease_expires_at >= at,
             m = Event(n, "EXECUTION_RECEIPT_ACCEPTED")
      PROVE  Goal
  <2>1. clock <= r.execution_lease_expires_at + MaxWait
    BY <1>0, <1>1, <1>8
  <2> QED
    BY <1>0, <1>2, <1>8, <2>1 DEF EventKinds
<1>9. ASSUME NEW at \in Nows, r.state = "VERIFYING", r.verification_lease_expires_at >= at,
             m = Event(n, "INDEPENDENT_VERIFICATION")
      PROVE  Goal
  <2>1. clock <= r.verification_lease_expires_at + MaxWait
    BY <1>0, <1>1, <1>9
  <2> QED
    BY <1>0, <1>2, <1>9, <2>1 DEF EventKinds
<1>10. Goal
  BY <1>4, <1>5, <1>6, <1>7, <1>8, <1>9 DEF Moved
<1> QED
  BY <1>10

\* No lease is taken back before its deadline, and no answer is accepted later
\* than the longest wait for the lock after it.
THEOREM DeadlinesAlwaysBind == Spec => DeadlinesBind
<1>1. IInv /\ [Next]_vars =>
        [\A j \in Jobs : LET r == jobs[j] IN
          /\ log'[j]["EXECUTION_LEASE_EXPIRED"] # log[j]["EXECUTION_LEASE_EXPIRED"] =>
                r.execution_lease_expires_at < clock
          /\ log'[j]["VERIFICATION_LEASE_EXPIRED"] # log[j]["VERIFICATION_LEASE_EXPIRED"] =>
                r.verification_lease_expires_at < clock
          /\ log'[j]["EXECUTION_RECEIPT_ACCEPTED"] # log[j]["EXECUTION_RECEIPT_ACCEPTED"] =>
                clock <= r.execution_lease_expires_at + MaxWait
          /\ log'[j]["INDEPENDENT_VERIFICATION"] # log[j]["INDEPENDENT_VERIFICATION"] =>
                clock <= r.verification_lease_expires_at + MaxWait]_vars
  BY JobsInOrder, JobsMove, MovesKeepDeadlines DEF JobOK
<1> QED
  BY <1>1, Invariance, PTL DEF Spec, DeadlinesBind

----------------------------------------------------------------------------
(* First come, first served                                                *)

\* Submitted and never started.
Waiting(r) == r.state = "QUEUED" /\ r.attempts = 0

\* A job was submitted at a time that has come, and is available from then on
\* until its first attempt: only fail_execution puts it off.
InPlace(r) ==
    /\ r.state # "ABSENT" => r.created_at <= clock
    /\ Waiting(r) => r.available_at = r.created_at

FairInv == (\A j \in Jobs : InPlace(jobs[j])) /\ NoOvertaking

\* The columns by which the queue is ordered, and the attempts, are the same.
SamePlace(r, s) ==
    /\ s.priority = r.priority /\ s.created_at = r.created_at
    /\ s.attempts = r.attempts

\* No operation on a row touches these columns but a grant, which counts an
\* attempt: reaping,
LEMMA ReapKeepsPlace ==
    ASSUME NEW r \in Row, NEW at PROVE SamePlace(r, ReapRow(r, at))
<1>1. SamePlace(r, WithoutExecutionLease(r, at))
  BY DEF SamePlace, WithoutExecutionLease, Row
<1>2. SamePlace(r, WithoutVerificationLease(r, at))
  BY DEF SamePlace, WithoutVerificationLease, Row
<1> QED
  BY <1>1, <1>2 DEF ReapRow, SamePlace

\* the two grants,
LEMMA GrantKeepsPlace ==
    ASSUME NEW r \in Row, NEW at, NEW who, NEW token, NEW expires
    PROVE  /\ SamePlace(r, GrantVerification(r, who, token, expires, at))
           /\ LET s == GrantExecution(r, who, token, expires, at) IN
                 /\ s.priority = r.priority /\ s.created_at = r.created_at
                 /\ s.attempts = r.attempts + 1 /\ s.state = "LEASED"
<1>1. SamePlace(r, GrantVerification(r, who, token, expires, at))
  BY DEF SamePlace, GrantVerification, Row
<1>2. LET s == GrantExecution(r, who, token, expires, at) IN
         /\ s.priority = r.priority /\ s.created_at = r.created_at
         /\ s.attempts = r.attempts + 1 /\ s.state = "LEASED"
  BY DEF GrantExecution, Row
<1> QED
  BY <1>1, <1>2

\* and what the holder of a lease may do.
LEMMA AnswersKeepPlace ==
    ASSUME NEW r \in Row, NEW at
    PROVE  /\ \A expires : SamePlace(r, Extended(r, expires, at))
           /\ \A receipt : SamePlace(r, WithReceipt(r, receipt, at))
           /\ \A delay : SamePlace(r, Requeued(r, delay, at))
           /\ \A who, verdict : SamePlace(r, WithVerdict(r, who, verdict, at))
<1>1. \A expires : SamePlace(r, Extended(r, expires, at))
  BY DEF SamePlace, Extended, Row
<1>2. \A receipt : SamePlace(r, WithReceipt(r, receipt, at))
  BY DEF SamePlace, WithReceipt, Row
<1>3. \A delay : SamePlace(r, Requeued(r, delay, at))
  BY DEF SamePlace, Requeued, WithoutExecutionLease, Row
<1>4. \A who, verdict : SamePlace(r, WithVerdict(r, who, verdict, at))
  BY DEF SamePlace, WithVerdict, Row
<1> QED
  BY <1>1, <1>2, <1>3, <1>4

\* A job that runs, or that delivered a receipt, has been started.
LEMMA StartedRows ==
    ASSUME NEW r, NEW n, NEW handed, JobOK(r, n, handed),
           r.state \in {"LEASED", "EXECUTED", "VERIFYING"}
    PROVE  r.attempts \in Nat /\ r.attempts >= 1
<1>1. r \in Row /\ n \in [EventKinds -> Nat] /\ ColumnsFit(r) /\ Balanced(r, n, handed)
  BY DEF JobOK, JobInv
<1>2. /\ r.attempts \in Nat /\ n["EXECUTION_LEASE_EXPIRED"] \in Nat
      /\ n["EXECUTION_FAILED"] \in Nat /\ n["EXECUTION_RECEIPT_ACCEPTED"] \in Nat
  BY <1>1 DEF Row, EventKinds
<1>3. r.attempts = n["EXECUTION_LEASE_EXPIRED"] + n["EXECUTION_FAILED"]
                   + One(r.receipt # None) + One(r.state = "LEASED")
  BY <1>1 DEF Balanced
<1>4. r.state = "LEASED" \/ r.receipt # None
  BY <1>1 DEF ColumnsFit
<1> QED
  BY <1>2, <1>3, <1>4 DEF One

\* What a step does to the place of a job.
LEMMA MovesKeepPlace ==
    ASSUME IInv, NEW r, NEW n, NEW handed, JobOK(r, n, handed), InPlace(r),
           NEW s, NEW m, Moved(r, n, s, m)
    PROVE  /\ InPlace(s)
           /\ r.state # "ABSENT" => /\ s.priority = r.priority
                                    /\ s.created_at = r.created_at
                                    /\ Waiting(s) => s = r
           /\ r.state = "ABSENT" => s = r \/ /\ s.attempts = 0
                                             /\ clock <= s.created_at + MaxWait
           /\ s.attempts = 0 => r.attempts = 0
<1> DEFINE Stays == /\ s.priority = r.priority /\ s.created_at = r.created_at
                    /\ ~ Waiting(s) /\ r.state # "ABSENT" /\ s.attempts = r.attempts
           Goal == /\ InPlace(s)
                   /\ r.state # "ABSENT" => /\ s.priority = r.priority
                                            /\ s.created_at = r.created_at
                                            /\ Waiting(s) => s = r
                   /\ r.state = "ABSENT" => s = r \/ /\ s.attempts = 0
                                                     /\ clock <= s.created_at + MaxWait
                   /\ s.attempts = 0 => r.attempts = 0
<1>1. /\ r \in Row /\ r.attempts \in Nat
      /\ r.state \in {"LEASED", "EXECUTED", "VERIFYING"} => r.attempts >= 1
      /\ r.state = "ABSENT" => r = NoRow
      /\ \A at \in Nows : at \in Int /\ at <= clock /\ clock <= at + MaxWait
      /\ clock \in Int /\ MaxWait \in Int
  <2>1. clock \in 0..MaxClock /\ MaxClock \in Nat /\ MaxWait \in Nat
    BY FleetAssumption DEF IInv
  <2>2. \A at \in Nows : at \in Int /\ at <= clock /\ clock <= at + MaxWait
    BY <2>1 DEF Nows
  <2> QED
    BY <2>1, <2>2, StartedRows DEF JobOK, JobInv, Pristine, Row
<1>2. CASE s = r
  BY <1>1, <1>2
<1>3. ASSUME Stays PROVE Goal
  BY <1>3 DEF InPlace
<1>4. ASSUME NEW p \in Plans, NEW priority \in Priorities, NEW budget \in Budgets,
             NEW at \in Nows, r.state = "ABSENT", s = NewRow(p, priority, budget, at)
      PROVE  Goal
  <2>1. s.state = "QUEUED" /\ s.attempts = 0 /\ s.created_at = at /\ s.available_at = at
    BY <1>4 DEF NewRow, NoRow
  <2>2. r.attempts = 0
    BY <1>1, <1>4 DEF NoRow
  <2> QED
    BY <1>1, <1>4, <2>1, <2>2 DEF InPlace
<1>5. ASSUME NEW at \in Nows
      PROVE  LET u == ReapRow(r, at) IN
             \/ u = r
             \/ /\ u.priority = r.priority /\ u.created_at = r.created_at
                /\ u.attempts = r.attempts /\ u.attempts >= 1 /\ r.state # "ABSENT"
  BY <1>1, ReapKeepsPlace, ReapFacts DEF SamePlace
<1>6. ASSUME NEW at \in Nows, s = ReapRow(r, at)
      PROVE  Goal
  BY <1>1, <1>2, <1>3, <1>5, <1>6 DEF Waiting
<1>7. ASSUME NEW at \in Nows, NEW worker \in Actors, NEW token \in Nat, NEW expires \in Int,
             Claimable(ReapRow(r, at), at),
             s = GrantExecution(ReapRow(r, at), worker, token, expires, at)
      PROVE  Goal
  <2> DEFINE u == ReapRow(r, at)
  <2>1. /\ u \in Row /\ u.priority = r.priority /\ u.created_at = r.created_at
        /\ u.attempts = r.attempts
    BY <1>1, ReapKeepsPlace, ReapFacts DEF SamePlace
  <2>2. r.state # "ABSENT"
    BY <1>1, <1>7, ReapFacts DEF Claimable
  <2> HIDE DEF u
  <2>3. /\ s.priority = r.priority /\ s.created_at = r.created_at
        /\ s.attempts = r.attempts + 1 /\ s.state = "LEASED"
    BY <1>7, <2>1, GrantKeepsPlace DEF u
  <2> QED
    BY <1>1, <2>2, <2>3 DEF InPlace, Waiting
<1>8. ASSUME NEW at \in Nows, NEW verifier \in Actors, NEW token \in Nat, NEW expires \in Int,
             Inspectable(ReapRow(r, at), verifier),
             s = GrantVerification(ReapRow(r, at), verifier, token, expires, at)
      PROVE  Goal
  <2> DEFINE u == ReapRow(r, at)
  <2>1. /\ u \in Row /\ u.priority = r.priority /\ u.created_at = r.created_at
        /\ u.attempts = r.attempts
    BY <1>1, ReapKeepsPlace, ReapFacts DEF SamePlace
  <2>2. r.state # "ABSENT"
    BY <1>1, <1>8, ReapFacts DEF Inspectable
  <2> HIDE DEF u
  <2>3. /\ s.priority = r.priority /\ s.created_at = r.created_at
        /\ s.attempts = r.attempts
    BY <1>8, <2>1, GrantKeepsPlace DEF u, SamePlace
  <2>4. s.state = "VERIFYING"
    BY <1>8, <2>1 DEF GrantVerification, Row, u
  <2> QED
    BY <1>3, <2>2, <2>3, <2>4 DEF Waiting
<1>9. ASSUME NEW at \in Nows, NEW expires \in Int, r.state = "LEASED",
             s = Extended(r, expires, at)
      PROVE  Goal
  BY <1>1, <1>3, <1>9, AnswersKeepPlace DEF Waiting, SamePlace
<1>10. ASSUME NEW at \in Nows, NEW receipt \in Receipts, r.state = "LEASED",
              s = WithReceipt(r, receipt, at)
       PROVE  Goal
  <2>1. SamePlace(r, s)
    BY <1>1, <1>10, AnswersKeepPlace
  <2> QED
    BY <1>1, <1>3, <1>10, <2>1 DEF Waiting, SamePlace
<1>11. ASSUME NEW at \in Nows, NEW delay \in Int, r.state = "LEASED",
              s = Requeued(r, delay, at)
       PROVE  Goal
  BY <1>1, <1>3, <1>11, AnswersKeepPlace DEF Waiting, SamePlace
<1>12. ASSUME NEW at \in Nows, NEW verdict \in Verdicts, r.state = "VERIFYING",
              s = WithVerdict(r, r.verifier_id, verdict, at)
       PROVE  Goal
  BY <1>1, <1>3, <1>12, AnswersKeepPlace DEF Waiting, SamePlace
<1>13. CASE r.state = "LEASED" /\ \E at \in Nows :
               \/ \E expires \in Int : s = Extended(r, expires, at)
               \/ \E receipt \in Receipts : s = WithReceipt(r, receipt, at)
               \/ \E delay \in Int : s = Requeued(r, delay, at)
  BY <1>9, <1>10, <1>11, <1>13
<1> QED
  BY <1>2, <1>4, <1>6, <1>7, <1>8, <1>12, <1>13 DEF Moved

\* The first attempt of a job is granted by a claim, and the claim found no other
\* claimable job that comes before it.
LEMMA FirstGrant ==
    ASSUME IInv, Next, NEW j \in Jobs, jobs[j].attempts = 0, jobs'[j].attempts # 0
    PROVE  /\ clock' = clock
           /\ \E at \in Nows :
                 LET rows == ReapedJobs(at) IN
                 \A i \in Jobs \ {j} : Claimable(rows[i], at) => ~ ClaimedBefore(rows, i, j)
<1>0. jobs \in [Jobs -> Row] /\ \A at \in Nows : at \in Int
  BY TimesAreIntegers DEF IInv
<1>1. CASE jobs' = jobs
  BY <1>1
<1>2. ASSUME NEW at \in Nows, NEW k \in Jobs, NEW p \in Plans, NEW priority \in Priorities,
             NEW budget \in Budgets, Enqueue(k, p, priority, budget, at)
      PROVE  FALSE
  <2>1. NewRow(p, priority, budget, at).attempts = 0
    BY DEF NewRow, NoRow
  <2> QED
    BY <1>0, <1>2, <2>1 DEF Enqueue
<1>3. ASSUME NEW at \in Nows
      PROVE  \A k \in Jobs : /\ ReapedJobs(at)[k] \in Row
                             /\ ReapedJobs(at)[k].attempts = jobs[k].attempts
  BY <1>0, ReapFacts DEF ReapedJobs
<1>4. ASSUME NEW at \in Nows, NEW a \in Actors, NEW seconds \in LeaseSeconds,
             ClaimExecution(a, seconds, at)
      PROVE  \A i \in Jobs \ {j} :
                Claimable(ReapedJobs(at)[i], at) => ~ ClaimedBefore(ReapedJobs(at), i, j)
  <2> DEFINE rows == ReapedJobs(at)
             claimable == {k \in Jobs : Claimable(rows[k], at)}
  <2>1. PICK k \in claimable :
           /\ \A i \in claimable \ {k} : ~ ClaimedBefore(rows, i, k)
           /\ jobs' = [rows EXCEPT ![k] =
                         GrantExecution(@, a, Len(leases[k]) + 1, at + seconds, at)]
    BY <1>3, <1>4 DEF ClaimExecution
  <2>2. j = k
    BY <1>3, <2>1 DEF ReapedJobs
  <2> QED
    BY <2>1, <2>2
<1>5. ASSUME NEW at \in Nows, NEW a \in Actors, NEW seconds \in RenewSeconds,
             ClaimVerification(a, seconds, at)
      PROVE  FALSE
  <2> DEFINE rows == ReapedJobs(at)
  <2>1. \/ jobs' = rows
        \/ \E k \in Jobs : jobs' = [rows EXCEPT ![k] =
              GrantVerification(@, a, Len(leases[k]) + 1, at + seconds, at)]
    BY <1>5 DEF ClaimVerification
  <2>2. \A k \in Jobs : GrantVerification(rows[k], a, Len(leases[k]) + 1, at + seconds, at).attempts
                        = jobs[k].attempts
    BY <1>3, GrantKeepsPlace DEF SamePlace
  <2>3. rows \in [Jobs -> Row] /\ \A k \in Jobs : rows[k].attempts = jobs[k].attempts
    BY <1>3 DEF ReapedJobs
  <2> QED
    BY <2>1, <2>2, <2>3
<1>6. ASSUME NEW at \in Nows, NEW k \in Jobs, NEW t \in DOMAIN leases[k],
             Call(k, leases[k][t].owner, t, at)
      PROVE  FALSE
  <2>1. \/ \E expires : jobs' = [jobs EXCEPT ![k] = Extended(@, expires, at)]
        \/ \E receipt : jobs' = [jobs EXCEPT ![k] = WithReceipt(@, receipt, at)]
        \/ \E delay : jobs' = [jobs EXCEPT ![k] = Requeued(@, delay, at)]
        \/ \E who, verdict : jobs' = [jobs EXCEPT ![k] = WithVerdict(@, who, verdict, at)]
    BY <1>6 DEF Call, HeartbeatExecution, CompleteExecution, FailExecution, CompleteVerification
  <2>2. jobs'[j].attempts = jobs[j].attempts
    BY <1>0, <2>1, AnswersKeepPlace DEF SamePlace
  <2> QED
    BY <2>2
<1>7. \/ jobs' = jobs
      \/ /\ clock' = clock
         /\ \E at \in Nows, a \in Actors, seconds \in LeaseSeconds : ClaimExecution(a, seconds, at)
  BY <1>2, <1>5, <1>6 DEF Next, Tick, RecordPlan, ClaimExecution
<1> QED
  BY <1>1, <1>4, <1>7

\* The invariant holds at first, and every step keeps it.
LEMMA InitFair == Init => FairInv
BY DEF Init, FairInv, InPlace, Waiting, NoOvertaking, NoRow

LEMMA NextFair == IInv /\ FairInv /\ [Next]_vars => FairInv'
<1> SUFFICES ASSUME IInv, FairInv, [Next]_vars PROVE FairInv'
  OBVIOUS
<1>1. CASE UNCHANGED vars
  BY <1>1 DEF FairInv, InPlace, NoOvertaking, vars
<1>2. CASE Next
  <2>1. clock \in Nat /\ clock' \in Nat /\ clock <= clock' /\ MaxWait \in Nat
    <3>1. clock \in Nat /\ MaxWait \in Nat
      BY FleetAssumption DEF IInv
    <3>2. clock' = clock \/ clock' = clock + 1
      <4>1. ASSUME NEW at \in Nows, NEW j \in Jobs, NEW t \in DOMAIN leases[j],
                   Call(j, leases[j][t].owner, t, at)
            PROVE  clock' = clock
        BY <4>1 DEF Call, HeartbeatExecution, CompleteExecution, FailExecution,
           CompleteVerification
      <4> QED
        BY <1>2, <4>1 DEF Next, Tick, RecordPlan, Enqueue, ClaimExecution, ClaimVerification
    <3> QED
      BY <3>1, <3>2
  <2>2. \A j \in Jobs : /\ jobs[j] \in Row /\ jobs'[j] \in Row
                        /\ JobOK(jobs[j], log[j], leases[j])
                        /\ Moved(jobs[j], log[j], jobs'[j], log'[j])
                        /\ InPlace(jobs[j])
    BY NextIInv, JobsInOrder, JobsMove DEF IInv, FairInv
  <2>3. \A j \in Jobs :
           /\ InPlace(jobs'[j])
           /\ jobs[j].state # "ABSENT" =>
                 /\ jobs'[j].priority = jobs[j].priority
                 /\ jobs'[j].created_at = jobs[j].created_at
                 /\ Waiting(jobs'[j]) => jobs'[j] = jobs[j]
           /\ jobs[j].state = "ABSENT" =>
                 \/ jobs'[j] = jobs[j]
                 \/ jobs'[j].attempts = 0 /\ clock <= jobs'[j].created_at + MaxWait
           /\ jobs'[j].attempts = 0 => jobs[j].attempts = 0
    BY <2>2, MovesKeepPlace
  <2>4. (\A j \in Jobs : InPlace(jobs[j]))'
    BY <2>1, <2>2, <2>3 DEF InPlace, Row
  <2>5. ASSUME NEW i \in Jobs, NEW j \in Jobs, Waiting(jobs'[i]),
               jobs'[i].priority <= jobs'[j].priority,
               jobs'[i].created_at + MaxWait < jobs'[j].created_at,
               jobs'[j].attempts # 0
        PROVE  FALSE
    <3>1. i # j
      BY <2>5 DEF Waiting
    <3>2. /\ jobs[j].state # "ABSENT" /\ jobs'[j].priority = jobs[j].priority
          /\ jobs'[j].created_at = jobs[j].created_at /\ jobs[j].created_at <= clock
      <4>1. jobs[j].state = "ABSENT" => jobs[j].attempts = 0
        BY <2>2 DEF JobOK, JobInv, Pristine, NoRow
      <4> QED
        BY <2>2, <2>3, <2>5, <4>1 DEF InPlace
    <3>3. jobs[i].state # "ABSENT" /\ jobs'[i] = jobs[i]
      BY <2>1, <2>2, <2>3, <2>5, <3>2 DEF Waiting, Row
    <3>4. jobs[j].attempts = 0
      BY <2>5, <3>2, <3>3 DEF FairInv, NoOvertaking, Waiting
    <3>5. PICK at \in Nows :
             \A k \in Jobs \ {j} : Claimable(ReapedJobs(at)[k], at) =>
                                     ~ ClaimedBefore(ReapedJobs(at), k, j)
      BY <1>2, <2>5, <3>4, FirstGrant
    <3>6. /\ ReapedJobs(at)[i] = jobs[i]
          /\ ReapedJobs(at)[j].priority = jobs[j].priority
          /\ ReapedJobs(at)[j].created_at = jobs[j].created_at
      BY <2>2, <2>5, <3>3, ReapFacts, ReapKeepsPlace, TimesAreIntegers
         DEF ReapedJobs, Waiting, SamePlace
    <3>7. jobs[i].created_at < at
      BY <2>1, <2>2, <2>5, <3>2, <3>3 DEF Nows, Row
    <3>8. Claimable(jobs[i], at)
      <4>1. jobs[i].available_at = jobs[i].created_at
        BY <2>2, <2>5, <3>3 DEF InPlace
      <4>2. NotStranded(jobs[i])
        BY DEF IInv, JobInv
      <4> QED
        BY <2>2, <2>5, <3>3, <3>7, <4>1, <4>2 DEF Claimable, Waiting, NotStranded, Row, Nows
    <3>9. ClaimedBefore(ReapedJobs(at), i, j)
      BY <2>1, <2>2, <2>5, <3>2, <3>3, <3>6 DEF ClaimedBefore, Row
    <3> QED
      BY <3>1, <3>5, <3>6, <3>8, <3>9
  <2> QED
    BY <2>4, <2>5 DEF FairInv, NoOvertaking, Waiting
<1> QED
  BY <1>1, <1>2

\* First come, first served among equals (the ORDER BY of claim_execution):
\* once a job has been started, no job of the same or a better priority that
\* was submitted certainly before it still waits for its first attempt, however
\* many jobs there are and however long the waits for the lock.
THEOREM NobodyIsOvertaken == Spec => []NoOvertaking
<1>1. Init => FairInv
  BY InitFair
<1>2. IInv /\ FairInv /\ [Next]_vars => FairInv'
  BY NextFair
<1>3. FairInv => NoOvertaking
  BY DEF FairInv
<1> QED
  BY <1>1, <1>2, <1>3, Invariance, PTL DEF Spec

----------------------------------------------------------------------------
(* The store implements the contract                                       *)

LEMMA LifeType ==
    ASSUME NEW r \in Row PROVE LifeOf(r) \in Contract!Life
<1>1. Phase[r.state] \in Contract!Phases
  BY DEF Row, JobStates, Phase, Contract!Phases
<1> QED
  BY <1>1 DEF LifeOf, Row, Contract!Life

\* A row in the terms of the contract.
LEMMA LifeFields ==
    ASSUME NEW r \in Row
    PROVE  LET l == LifeOf(r) IN
           /\ l \in Contract!Life
           /\ l.tries = r.attempts /\ l.budget = r.max_attempts
           /\ l.producer = r.execution_worker_id /\ l.judge = r.verifier_id
           /\ r.state = "QUEUED" => l.phase = "waiting"
           /\ r.state = "LEASED" => l.phase = "running"
           /\ r.state = "EXECUTED" => l.phase = "delivered"
           /\ r.state = "VERIFYING" => l.phase = "inspecting"
           /\ r.state = "FAILED" => l.phase = "failed"
           /\ r.state \in Verdicts => l.phase \in Contract!Ended
BY LifeType DEF LifeOf, Phase, Verdicts, Contract!Ended

\* The moves of the contract, field by field.
LEMMA ContractMoves ==
    ASSUME NEW l \in Contract!Life, NEW k \in Contract!Life, k.budget = l.budget
    PROVE  /\ /\ l.phase = "running" /\ k.tries = l.tries /\ k.judge = l.judge
              /\ k.producer = None
              /\ k.phase = (IF l.tries < l.budget THEN "waiting" ELSE "failed")
              => Contract!Lose(l, k)
           /\ /\ l.phase = "waiting" /\ l.tries < l.budget /\ k.phase = "running"
              /\ k.tries = l.tries + 1 /\ k.judge = l.judge /\ k.producer \in Actors
              => Contract!Start(l, k)
           /\ /\ l.phase = "running" /\ l.tries < l.budget /\ k.phase = "running"
              /\ k.tries = l.tries + 1 /\ k.judge = l.judge /\ k.producer \in Actors
              => Contract!Takeover(l, k)
           /\ /\ l.phase = "running" /\ k.phase = "delivered" /\ k.tries = l.tries
              /\ k.judge = l.judge /\ k.producer = l.producer
              => Contract!Deliver(l, k)
           /\ /\ l.phase \in {"delivered", "inspecting"} /\ k.phase = "inspecting"
              /\ k.tries = l.tries /\ k.producer = l.producer
              /\ k.judge \in Actors \ {l.producer}
              => Contract!Inspect(l, k)
           /\ /\ l.phase = "inspecting" /\ k.phase = "delivered" /\ k.tries = l.tries
              /\ k.producer = l.producer /\ k.judge = None
              => Contract!Abandon(l, k)
           /\ /\ l.phase = "inspecting" /\ k.phase \in Contract!Ended /\ k.tries = l.tries
              /\ k.producer = l.producer /\ k.judge = l.judge
              => Contract!Rule(l, k)
<1>2. ASSUME l.phase = "running", k.tries = l.tries, k.judge = l.judge, k.producer = None,
             k.phase = (IF l.tries < l.budget THEN "waiting" ELSE "failed")
      PROVE  Contract!Lose(l, k)
  BY <1>2 DEF Contract!Lose, Contract!Life
<1>3. ASSUME l.phase = "waiting", l.tries < l.budget, k.phase = "running",
             k.tries = l.tries + 1, k.judge = l.judge, k.producer \in Actors
      PROVE  Contract!Start(l, k)
  BY <1>3 DEF Contract!Start, Contract!Life
<1>4. ASSUME l.phase = "running", l.tries < l.budget, k.phase = "running",
             k.tries = l.tries + 1, k.judge = l.judge, k.producer \in Actors
      PROVE  Contract!Takeover(l, k)
  BY <1>4 DEF Contract!Takeover, Contract!Life
<1>5. ASSUME l.phase = "running", k.phase = "delivered", k.tries = l.tries,
             k.judge = l.judge, k.producer = l.producer
      PROVE  Contract!Deliver(l, k)
  BY <1>5 DEF Contract!Deliver, Contract!Life
<1>6. ASSUME l.phase \in {"delivered", "inspecting"}, k.phase = "inspecting",
             k.tries = l.tries, k.producer = l.producer, k.judge \in Actors \ {l.producer}
      PROVE  Contract!Inspect(l, k)
  BY <1>6 DEF Contract!Inspect, Contract!Life
<1>7. ASSUME l.phase = "inspecting", k.phase = "delivered", k.tries = l.tries,
             k.producer = l.producer, k.judge = None
      PROVE  Contract!Abandon(l, k)
  BY <1>7 DEF Contract!Abandon, Contract!Life
<1>8. ASSUME l.phase = "inspecting", k.phase \in Contract!Ended, k.tries = l.tries,
             k.producer = l.producer, k.judge = l.judge
      PROVE  Contract!Rule(l, k)
  BY <1>8 DEF Contract!Rule, Contract!Life
<1> QED
  BY <1>2, <1>3, <1>4, <1>5, <1>6, <1>7, <1>8

LEMMA SubmitMove ==
    ASSUME NEW l \in Contract!Life, NEW k \in Contract!Life, l.phase = "unborn",
           k.phase = "waiting", k.budget \in Budgets, k.tries = l.tries,
           k.producer = l.producer, k.judge = l.judge
    PROVE  Contract!Submit(l, k)
BY DEF Contract!Submit, Contract!Life

\* Taking leases back is losing the attempt, abandoning the inspection, or nothing.
LEMMA ReapIsMove ==
    ASSUME NEW r \in Row, NEW at \in Int
    PROVE  LET s == ReapRow(r, at) IN
           \/ s = r
           \/ r.state = "LEASED" /\ s.state \in {"QUEUED", "FAILED"}
              /\ Contract!Lose(LifeOf(r), LifeOf(s))
           \/ r.state = "VERIFYING" /\ s.state = "EXECUTED"
              /\ Contract!Abandon(LifeOf(r), LifeOf(s))
<1> DEFINE s == ReapRow(r, at)
<1>1. CASE r.state = "LEASED" /\ s = WithoutExecutionLease(r, at)
  <2>1. /\ s \in Row
        /\ s.state = NextState(r) /\ s.attempts = r.attempts
        /\ s.max_attempts = r.max_attempts /\ s.execution_worker_id = None
        /\ s.verifier_id = r.verifier_id
    <3>1. s \in Row
      BY ReapFacts
    <3> QED
      BY <1>1, <3>1, ZenonT(60) DEF WithoutExecutionLease, Row
  <2> HIDE DEF s
  <2>2. Contract!Lose(LifeOf(r), LifeOf(s))
    BY <1>1, <2>1, LifeFields, ContractMoves DEF NextState
  <2> QED
    BY <1>1, <2>1, <2>2 DEF NextState, s
<1>2. CASE r.state = "VERIFYING" /\ s = WithoutVerificationLease(r, at)
  <2>1. /\ s \in Row
        /\ s.state = "EXECUTED" /\ s.attempts = r.attempts
        /\ s.max_attempts = r.max_attempts /\ s.verifier_id = None
        /\ s.execution_worker_id = r.execution_worker_id
    <3>1. s \in Row
      BY ReapFacts
    <3> QED
      BY <1>2, <3>1, ZenonT(60) DEF WithoutVerificationLease, Row
  <2> HIDE DEF s
  <2>2. Contract!Abandon(LifeOf(r), LifeOf(s))
    BY <1>2, <2>1, LifeFields, ContractMoves
  <2> QED
    BY <1>2, <2>1, <2>2 DEF s
<1> QED
  BY <1>1, <1>2, ReapFacts

\* Every move of a row is a move of the contract, or none.
LEMMA MovesKeepContract ==
    ASSUME IInv, NEW r \in Row, NEW n, NEW handed, JobOK(r, n, handed),
           NEW s \in Row, NEW m, Moved(r, n, s, m)
    PROVE  LifeOf(s) = LifeOf(r) \/ Contract!Move(LifeOf(r), LifeOf(s))
<1> DEFINE Goal == LifeOf(s) = LifeOf(r) \/ Contract!Move(LifeOf(r), LifeOf(s))
<1>0. \A at \in Nows : at \in Int
  BY TimesAreIntegers
<1>1. CASE s = r
  BY <1>1
<1>2. ASSUME NEW p \in Plans, NEW priority \in Priorities, NEW budget \in Budgets,
             NEW at \in Nows, r.state = "ABSENT", s = NewRow(p, priority, budget, at)
      PROVE  Goal
  <2>1. r = NoRow
    BY <1>2 DEF JobOK, JobInv, Pristine
  <2>2. /\ s.state = "QUEUED" /\ s.attempts = 0 /\ s.max_attempts = budget
        /\ s.execution_worker_id = None /\ s.verifier_id = None
    BY <1>2 DEF NewRow, NoRow
  <2>3. Contract!Submit(LifeOf(r), LifeOf(s))
    <3>1. LifeOf(r).phase = "unborn"
      BY <2>1 DEF LifeOf, Phase, NoRow
    <3>2. /\ r.attempts = 0 /\ r.execution_worker_id = None /\ r.verifier_id = None
      BY <2>1 DEF NoRow
    <3> QED
      BY <2>2, <3>1, <3>2, LifeFields, SubmitMove
  <2> QED
    BY <2>3 DEF Contract!Move
<1>3. ASSUME NEW at \in Nows, s = ReapRow(r, at) PROVE Goal
  BY <1>0, <1>3, ReapIsMove DEF Contract!Move
<1>4. ASSUME NEW at \in Nows, NEW worker \in Actors, NEW token \in Nat, NEW expires \in Int,
             Claimable(ReapRow(r, at), at),
             s = GrantExecution(ReapRow(r, at), worker, token, expires, at)
      PROVE  Goal
  <2> DEFINE u == ReapRow(r, at)
  <2>1. /\ u \in Row /\ u.state = "QUEUED" /\ u.attempts < u.max_attempts
        /\ u.attempts = r.attempts /\ u.max_attempts = r.max_attempts
    BY <1>0, <1>4, ReapFacts DEF Claimable
  <2>2. \/ u = r
        \/ r.state = "LEASED" /\ Contract!Lose(LifeOf(r), LifeOf(u))
    BY <1>0, <2>1, ReapIsMove
  <2> HIDE DEF u
  <2>3. /\ s.state = "LEASED" /\ s.attempts = u.attempts + 1
        /\ s.max_attempts = u.max_attempts /\ s.execution_worker_id = worker
        /\ s.verifier_id = u.verifier_id
    BY <1>4, <2>1 DEF GrantExecution, Row, u
  <2>4. CASE u = r
    <3>1. Contract!Start(LifeOf(r), LifeOf(s))
      BY <2>1, <2>3, <2>4, LifeFields, ContractMoves
    <3> QED
      BY <3>1 DEF Contract!Move
  <2>5. CASE r.state = "LEASED" /\ Contract!Lose(LifeOf(r), LifeOf(u))
    <3>1. u.verifier_id = r.verifier_id
      BY <2>5 DEF Contract!Lose, LifeOf
    <3>2. Contract!Takeover(LifeOf(r), LifeOf(s))
      BY <2>1, <2>3, <2>5, <3>1, LifeFields, ContractMoves
    <3> QED
      BY <3>2 DEF Contract!Move
  <2> QED
    BY <2>2, <2>4, <2>5
<1>5. ASSUME NEW at \in Nows, NEW verifier \in Actors, NEW token \in Nat, NEW expires \in Int,
             Inspectable(ReapRow(r, at), verifier),
             s = GrantVerification(ReapRow(r, at), verifier, token, expires, at)
      PROVE  Goal
  <2> DEFINE u == ReapRow(r, at)
  <2>1. u \in Row /\ u.state = "EXECUTED"
    BY <1>0, <1>5, ReapFacts DEF Inspectable
  <2>2. /\ r.state \in {"EXECUTED", "VERIFYING"}
        /\ u.attempts = r.attempts /\ u.max_attempts = r.max_attempts
        /\ u.execution_worker_id = r.execution_worker_id
    BY <1>0, <2>1, ReapFacts, ReapIsMove
  <2>3. r.execution_worker_id # verifier
    <3>1. r.execution_worker_id # None
      BY <2>2 DEF JobOK, JobInv, ColumnsFit
    <3> QED
      BY <1>5, <2>2, <3>1 DEF Inspectable
  <2> HIDE DEF u
  <2>4. /\ s.state = "VERIFYING" /\ s.attempts = u.attempts
        /\ s.max_attempts = u.max_attempts /\ s.verifier_id = verifier
        /\ s.execution_worker_id = u.execution_worker_id
    BY <1>5, <2>1 DEF GrantVerification, Row, u
  <2>5. Contract!Inspect(LifeOf(r), LifeOf(s))
    BY <2>2, <2>3, <2>4, LifeFields, ContractMoves
  <2> QED
    BY <2>5 DEF Contract!Move
<1>6. ASSUME NEW at \in Nows, NEW expires \in Int, s = Extended(r, expires, at)
      PROVE  Goal
  BY <1>6 DEF Extended, Row, LifeOf
<1>7. ASSUME NEW at \in Nows, NEW receipt \in Receipts, r.state = "LEASED",
             s = WithReceipt(r, receipt, at)
      PROVE  Goal
  <2>1. /\ s.state = "EXECUTED" /\ s.attempts = r.attempts
        /\ s.max_attempts = r.max_attempts /\ s.verifier_id = r.verifier_id
        /\ s.execution_worker_id = r.execution_worker_id
    BY <1>7, ZenonT(60) DEF WithReceipt, Row
  <2>2. Contract!Deliver(LifeOf(r), LifeOf(s))
    BY <1>7, <2>1, LifeFields, ContractMoves
  <2> QED
    BY <2>2 DEF Contract!Move
<1>8. ASSUME NEW at \in Nows, NEW delay \in Int, r.state = "LEASED", s = Requeued(r, delay, at)
      PROVE  Goal
  <2>1. /\ s.state = NextState(r) /\ s.attempts = r.attempts
        /\ s.max_attempts = r.max_attempts /\ s.execution_worker_id = None
        /\ s.verifier_id = r.verifier_id
    BY <1>8 DEF Requeued, WithoutExecutionLease, Row
  <2>2. Contract!Lose(LifeOf(r), LifeOf(s))
    BY <1>8, <2>1, LifeFields, ContractMoves DEF NextState
  <2> QED
    BY <2>2 DEF Contract!Move
<1>9. ASSUME NEW at \in Nows, NEW verdict \in Verdicts, r.state = "VERIFYING",
             s = WithVerdict(r, r.verifier_id, verdict, at)
      PROVE  Goal
  <2>1. /\ s.state = verdict /\ s.attempts = r.attempts
        /\ s.max_attempts = r.max_attempts /\ s.verifier_id = r.verifier_id
        /\ s.execution_worker_id = r.execution_worker_id
    BY <1>9, ZenonT(60) DEF WithVerdict, Row
  <2>2. Contract!Rule(LifeOf(r), LifeOf(s))
    BY <1>9, <2>1, LifeFields, ContractMoves
  <2> QED
    BY <2>2 DEF Contract!Move
<1> QED
  BY <1>1, <1>2, <1>3, <1>4, <1>5, <1>6, <1>7, <1>8, <1>9 DEF Moved

\* The store implements the contract of the fleet: every transaction is, for
\* every job at once, a move of the contract or no move.
THEOREM StoreKeepsContract == Spec => KeepsContract
<1>1. Init => Contract!Init
  BY DEF Init, Contract!Init, Contract!Unborn, LifeOf, Phase, NoRow
<1>2. IInv /\ IInv' /\ [Next]_vars => [Contract!Next]_([j \in Jobs |-> LifeOf(jobs[j])])
  <2> SUFFICES ASSUME IInv, IInv', [Next]_vars PROVE Contract!Next
    OBVIOUS
  <2>1. \A j \in Jobs : jobs[j] \in Row /\ jobs'[j] \in Row /\ JobOK(jobs[j], log[j], leases[j])
    BY DEF IInv, JobOK
  <2>2. \A j \in Jobs : \/ LifeOf(jobs'[j]) = LifeOf(jobs[j])
                         \/ Contract!Move(LifeOf(jobs[j]), LifeOf(jobs'[j]))
    BY <2>1, JobsMove, MovesKeepContract
  <2>3. [j \in Jobs |-> LifeOf(jobs'[j])] \in [Jobs -> Contract!Life]
    BY <2>1, LifeType
  <2> QED
    BY <2>2, <2>3 DEF Contract!Next
<1> QED
  BY <1>1, <1>2, Invariance, PTL DEF Spec, KeepsContract, Contract!Spec
=============================================================================
