------------------------- MODULE FleetSystemProofs -------------------------
(***************************************************************************)
(* Proofs about FleetSystem.  A job is judged by its row: RowOK says which *)
(* rows occur, and Later what becomes of a row in one step of the          *)
(* coordinator.  A call is judged by what its caller knows when it sends   *)
(* it (Grounded), which Later never takes away, however late it arrives,   *)
(* and, while the caller waits, by the state of the caller (Awaiting).     *)
(* The budget is kept because a granted claim is counted as a run from the *)
(* grant on (Runs), whether its reply arrives or not.                      *)
(***************************************************************************)
EXTENDS FleetSystem, FiniteSetTheorems, TLAPS

Verdicts == {"VERIFIED", "FAILED", "BLOCKED"}

\* The leases that a row names were granted; the lease that is honoured is named
\* exactly while it is held; a receipt is of a run, a verdict of passed checks.
RowOK(r, ran, sound) ==
    /\ r \in Row
    /\ r.lease <= r.granted /\ r.receipt <= r.granted
    /\ r.state \in {"LEASED", "VERIFYING"} => r.lease # 0
    /\ r.state \notin {"LEASED", "VERIFYING"} => r.lease = 0 /\ ~ r.lapsed
    /\ r.state \in {"ABSENT", "QUEUED", "LEASED"} => r.receipt = 0
    /\ r.state \in {"EXECUTED", "VERIFYING", "VERIFIED"} => r.receipt # 0
    /\ r.receipt # 0 => [by |-> r.worker, lease |-> r.receipt] \in ran
    /\ r.state \in {"VERIFYING", "VERIFIED"} => r.worker # r.verifier
    /\ r.state = "VERIFIED" => r.ruling \in sound

\* A lease that will never be answered with a receipt any more.
Spent(r, lease) == lease \in 1..r.granted /\ lease # r.lease /\ lease # r.receipt

Later(r, s) ==
    /\ r.granted <= s.granted /\ r.attempts <= s.attempts
    /\ r.receipt # 0 => s.receipt = r.receipt
    /\ \A lease \in Nat : Spent(r, lease) => Spent(s, lease)
    /\ r.state \in Verdicts => s = r

\* A step of the contract, or none.
Moves(r, s) == LifeOf(s) = LifeOf(r) \/ Contract!Move(LifeOf(r), LifeOf(s))

----------------------------------------------------------------------------
(* Rows                                                                    *)

\* None is no answer, and no state of anything else.
LEMMA NoneApart ==
    /\ None # "idle" /\ None # "granted" /\ None # "done" /\ None # "refused"
    /\ None \notin Jobs
BY SystemAssumption DEF Replies

LEMMA LaterReflexive ==
    ASSUME NEW r \in Row PROVE Later(r, r)
BY DEF Later, Row

LEMMA LaterTransitive ==
    ASSUME NEW r \in Row, NEW s \in Row, NEW t \in Row, Later(r, s), Later(s, t)
    PROVE  Later(r, t)
BY DEF Later, Row

\* Rows are mapped to lives, and rows that differ only in what a life does not
\* show to the same life.
LEMMA LifeTyped ==
    ASSUME NEW r \in Row PROVE LifeOf(r) \in Contract!Life
<1>1. /\ r.state \in {"ABSENT", "QUEUED", "LEASED", "EXECUTED", "VERIFYING",
                      "VERIFIED", "FAILED", "BLOCKED"}
      /\ r.attempts \in 0..Budget /\ r.worker \in Workers \cup {None}
      /\ r.verifier \in Verifiers \cup {None}
  BY DEF Row
<1>2. Phase[r.state] \in Contract!Phases
  BY <1>1 DEF Phase, Contract!Phases
<1>3. r.attempts \in Nat /\ Budget \in Nat
  BY <1>1, SystemAssumption
<1> QED
  BY <1>1, <1>2, <1>3 DEF LifeOf, Contract!Life, Ids

\* The attempt of a leased job is lost.
LEMMA Lost ==
    ASSUME NEW ran, NEW sound, NEW r, RowOK(r, ran, sound), r.state = "LEASED"
    PROVE  LET s == AttemptLost(r)
           IN  /\ RowOK(s, ran, sound) /\ Later(r, s) /\ s.attempts = r.attempts
               /\ s.state \in {"QUEUED", "FAILED"} /\ s.lease = 0 /\ s.receipt = 0
               /\ s.granted = r.granted
               /\ s.state = (IF r.attempts < Budget THEN "QUEUED" ELSE "FAILED")
               /\ s.worker = None /\ s.verifier = r.verifier
<1> DEFINE s == AttemptLost(r)
<1>1. r \in Row /\ r.receipt = 0
  BY DEF RowOK
<1>2. s \in Row
  BY <1>1 DEF AttemptLost, Row
<1>3. /\ s.state = (IF r.attempts < Budget THEN "QUEUED" ELSE "FAILED")
      /\ s.worker = None /\ s.lease = 0 /\ s.lapsed = FALSE
      /\ s.attempts = r.attempts /\ s.granted = r.granted /\ s.receipt = r.receipt
      /\ s.verifier = r.verifier /\ s.ruling = r.ruling
  BY <1>1 DEF AttemptLost, Row
<1> HIDE DEF s
<1>4. RowOK(s, ran, sound)
  BY <1>1, <1>2, <1>3 DEF RowOK, Row
<1>5. Later(r, s)
  BY <1>1, <1>2, <1>3 DEF Later, Row, Spent, Verdicts
<1>6. /\ RowOK(s, ran, sound) /\ Later(r, s) /\ s.attempts = r.attempts
      /\ s.state \in {"QUEUED", "FAILED"} /\ s.lease = 0 /\ s.receipt = 0
      /\ s.granted = r.granted
      /\ s.state = (IF r.attempts < Budget THEN "QUEUED" ELSE "FAILED")
      /\ s.worker = None /\ s.verifier = r.verifier
  BY <1>1, <1>3, <1>4, <1>5
<1> QED
  BY <1>6 DEF s

\* The lease of a verification lapses and is taken back.
LEMMA Abandoned ==
    ASSUME NEW ran, NEW sound, NEW r, RowOK(r, ran, sound), r.state = "VERIFYING"
    PROVE  LET s == InspectionLost(r)
           IN  /\ RowOK(s, ran, sound) /\ Later(r, s) /\ s.attempts = r.attempts
               /\ s.state = "EXECUTED" /\ s.worker = r.worker /\ s.verifier = None
               /\ s.granted = r.granted
<1> DEFINE s == InspectionLost(r)
<1>1. r \in Row
  BY DEF RowOK
<1>2. s \in Row
  BY <1>1 DEF InspectionLost, Row
<1>3. /\ s.state = "EXECUTED" /\ s.worker = r.worker /\ s.verifier = None
      /\ s.lease = 0 /\ s.lapsed = FALSE
      /\ s.attempts = r.attempts /\ s.granted = r.granted /\ s.receipt = r.receipt
      /\ s.ruling = r.ruling
  BY <1>1 DEF InspectionLost, Row
<1> HIDE DEF s
<1>4. RowOK(s, ran, sound)
  BY <1>1, <1>2, <1>3 DEF RowOK, Row
<1>5. Later(r, s)
  BY <1>1, <1>2, <1>3 DEF Later, Row, Spent, Verdicts
<1>6. /\ RowOK(s, ran, sound) /\ Later(r, s) /\ s.attempts = r.attempts
      /\ s.state = "EXECUTED" /\ s.worker = r.worker /\ s.verifier = None
      /\ s.granted = r.granted
  BY <1>3, <1>4, <1>5
<1> QED
  BY <1>6 DEF s

\* What a claim takes back.
LEMMA ReapedOK ==
    ASSUME NEW ran, NEW sound, NEW r, RowOK(r, ran, sound)
    PROVE  /\ RowOK(Reaped(r), ran, sound) /\ Later(r, Reaped(r))
           /\ Reaped(r).attempts = r.attempts
<1>0. r \in Row
  BY DEF RowOK
<1>1. CASE ~ r.lapsed
  BY <1>0, <1>1, LaterReflexive DEF Reaped
<1>2. CASE r.lapsed /\ r.state = "LEASED"
  BY <1>2, Lost DEF Reaped
<1>3. CASE r.lapsed /\ r.state # "LEASED"
  <2>1. r.state = "VERIFYING"
    BY <1>3 DEF RowOK
  <2> QED
    BY <2>1, <1>3, Abandoned DEF Reaped
<1> QED
  BY <1>1, <1>2, <1>3

\* A job is submitted.
LEMMA QueuedOK ==
    ASSUME NEW ran, NEW sound, NEW r, RowOK(r, ran, sound), r.state = "ABSENT"
    PROVE  LET s == [r EXCEPT !.state = "QUEUED"]
           IN  RowOK(s, ran, sound) /\ Later(r, s) /\ s.attempts = r.attempts
BY DEF RowOK, Later, Row, Spent, Verdicts

\* The deadline of a lease passes, or is put off.
LEMMA LapsedOK ==
    ASSUME NEW ran, NEW sound, NEW r, RowOK(r, ran, sound), NEW lapsed \in BOOLEAN,
           r.state \in {"LEASED", "VERIFYING"}
    PROVE  LET s == [r EXCEPT !.lapsed = lapsed]
           IN  RowOK(s, ran, sound) /\ Later(r, s) /\ s.attempts = r.attempts
BY DEF RowOK, Later, Row, Spent, Verdicts

\* A worker gets the lease of a waiting job.
LEMMA LeasedOK ==
    ASSUME NEW ran, NEW sound, NEW r, RowOK(r, ran, sound), r.state = "QUEUED",
           r.attempts < Budget, NEW w \in Workers
    PROVE  LET s == Leased(r, w) IN RowOK(s, ran, sound) /\ Later(r, s)
<1> DEFINE s == Leased(r, w)
<1>1. r \in Row
  BY DEF RowOK
<1>2. s \in Row
  <2>1. r.attempts + 1 \in 0..Budget /\ r.granted + 1 \in Nat /\ w \in Workers \cup {None}
    BY <1>1, SystemAssumption DEF Row
  <2> QED
    BY <1>1, <2>1, ZenonT(60) DEF Leased, Row
<1>3. /\ s.state = "LEASED" /\ s.worker = w /\ s.attempts = r.attempts + 1
      /\ s.granted = r.granted + 1 /\ s.lease = r.granted + 1
      /\ s.receipt = r.receipt /\ s.ruling = r.ruling
      /\ s.verifier = r.verifier /\ s.lapsed = r.lapsed
  BY <1>1 DEF Leased, Row
<1> HIDE DEF s
<1>4. RowOK(s, ran, sound)
  BY <1>1, <1>2, <1>3 DEF RowOK, Row
<1>5. Later(r, s)
  BY <1>1, <1>2, <1>3 DEF Later, Row, RowOK, Spent, Verdicts
<1> QED
  BY <1>4, <1>5 DEF s

\* A verifier gets the lease of a delivered job.
LEMMA UnderInspectionOK ==
    ASSUME NEW ran, NEW sound, NEW r, RowOK(r, ran, sound), r.state = "EXECUTED",
           NEW v \in Verifiers, r.worker # v
    PROVE  LET s == UnderInspection(r, v) IN RowOK(s, ran, sound) /\ Later(r, s)
<1> DEFINE s == UnderInspection(r, v)
<1>1. r \in Row
  BY DEF RowOK
<1>2. s \in Row
  <2>1. r.granted + 1 \in Nat /\ v \in Verifiers \cup {None}
    BY <1>1 DEF Row
  <2> QED
    BY <1>1, <2>1, ZenonT(60) DEF UnderInspection, Row
<1>3. /\ s.state = "VERIFYING" /\ s.verifier = v
      /\ s.granted = r.granted + 1 /\ s.lease = r.granted + 1
      /\ s.attempts = r.attempts /\ s.worker = r.worker
      /\ s.receipt = r.receipt /\ s.ruling = r.ruling
      /\ s.lapsed = r.lapsed
  BY <1>1 DEF UnderInspection, Row
<1> HIDE DEF s
<1>4. RowOK(s, ran, sound)
  BY <1>1, <1>2, <1>3 DEF RowOK, Row
<1>5. Later(r, s)
  BY <1>1, <1>2, <1>3 DEF Later, Row, RowOK, Spent, Verdicts
<1> QED
  BY <1>4, <1>5 DEF s

\* The receipt of a run is accepted.
LEMMA DeliveredOK ==
    ASSUME NEW ran, NEW sound, NEW r, RowOK(r, ran, sound), r.state = "LEASED",
           [by |-> r.worker, lease |-> r.lease] \in ran, r.lease \in 1..r.granted
    PROVE  LET s == Delivered(r, r.lease) IN RowOK(s, ran, sound) /\ Later(r, s)
<1> DEFINE s == Delivered(r, r.lease)
<1>1. r \in Row
  BY DEF RowOK
<1>2. s \in Row
  BY <1>1 DEF Delivered, Row
<1>3. /\ s.state = "EXECUTED" /\ s.receipt = r.lease /\ s.lease = 0
      /\ s.lapsed = FALSE /\ s.granted = r.granted
      /\ s.attempts = r.attempts /\ s.worker = r.worker
      /\ s.verifier = r.verifier /\ s.ruling = r.ruling
  BY <1>1 DEF Delivered, Row
<1> HIDE DEF s
<1>4. RowOK(s, ran, sound)
  BY <1>1, <1>2, <1>3 DEF RowOK, Row
<1>5. Later(r, s)
  BY <1>1, <1>2, <1>3 DEF Later, Row, RowOK, Spent, Verdicts
<1> QED
  BY <1>4, <1>5 DEF s

\* A verdict is accepted.
LEMMA RuledOK ==
    ASSUME NEW ran, NEW sound, NEW r, RowOK(r, ran, sound), r.state = "VERIFYING",
           NEW verdict \in Verdicts, verdict = "VERIFIED" => r.lease \in sound
    PROVE  LET s == Ruled(r, verdict, r.lease) IN RowOK(s, ran, sound) /\ Later(r, s)
<1> DEFINE s == Ruled(r, verdict, r.lease)
<1>1. r \in Row
  BY DEF RowOK
<1>2. s \in Row
  BY <1>1 DEF Ruled, Row, Verdicts
<1>3. /\ s.state = verdict /\ s.ruling = r.lease /\ s.lease = 0
      /\ s.lapsed = FALSE /\ s.receipt = r.receipt /\ s.granted = r.granted
      /\ s.attempts = r.attempts /\ s.worker = r.worker
      /\ s.verifier = r.verifier
  BY <1>1 DEF Ruled, Row, Verdicts
<1> HIDE DEF s
<1>4. RowOK(s, ran, sound)
  <2>1. /\ s.lease <= s.granted /\ s.receipt <= s.granted /\ s.receipt # 0
        /\ s.state \in Verdicts /\ s.lease = 0 /\ ~ s.lapsed /\ s.worker # s.verifier
        /\ [by |-> s.worker, lease |-> s.receipt] \in ran
    BY <1>1, <1>3 DEF RowOK, Row
  <2>2. s.state = "VERIFIED" => s.ruling \in sound
    BY <1>3
  <2> QED
    BY <1>2, <2>1, <2>2 DEF RowOK, Verdicts
<1>5. Later(r, s)
  BY <1>1, <1>2, <1>3 DEF Later, Row, RowOK, Spent, Verdicts
<1> QED
  BY <1>4, <1>5 DEF s

----------------------------------------------------------------------------
(* The inductive invariant                                                 *)

Beats == {"off", "waiting", "calling", "failed"}

Reports == [role : {"worker", "verifier"}, lease : Nat,
            status : {"EXECUTED", "VERIFIED", "FAILED", "BLOCKED", "LEASE_UNCERTAIN",
                      "VERIFYING_UNTIL_LEASE_EXPIRY"}]

Starts == [by : Workers, lease : Nat]

Types ==
    /\ jobs \in [Jobs -> Row]
    /\ workers \in [Workers -> Processes]
    /\ beats \in [Workers -> Beats]
    /\ verifiers \in [Verifiers -> Processes]
    /\ started \in [Jobs -> SUBSET Starts]
    /\ passed \in [Jobs -> SUBSET Nat]
    /\ reports \in [Jobs -> SUBSET Reports]
    /\ faults \in 0..MaxFaults

Shaped(c) ==
    /\ c \in Calls
    /\ c.op \in WorkerOps => c.from \in Workers
    /\ c.op \in VerifierOps => c.from \in Verifiers
    /\ c.reply # None => c.open
    /\ c.op \in {"claim", "inspect"} => c.reply \in {None, "idle", "granted"}
    /\ c.op \notin {"claim", "inspect"} => c.reply \in {None, "done", "refused"}
    /\ c.op = "rule" => c.body \in Verdicts

\* What a call says is of a lease that was granted, of a run that was started and
\* of checks that passed; what it was answered holds of the row.
Grounded(c, rows, ran, sound) ==
    /\ c.op \notin {"claim", "inspect"} \/ c.reply = "granted" =>
          c.job \in Jobs /\ c.lease \in 1..rows[c.job].granted
    /\ c.op = "complete" => [by |-> c.from, lease |-> c.lease] \in ran[c.job]
    /\ c.op = "rule" /\ c.body = "VERIFIED" => c.lease \in sound[c.job]
    /\ c.op = "complete" /\ c.reply = "done" => rows[c.job].receipt = c.lease
    /\ c.op = "fail" /\ c.reply = "done" => Spent(rows[c.job], c.lease)
    /\ c.op = "rule" /\ c.reply = "done" =>
          rows[c.job].ruling = c.lease /\ rows[c.job].state = c.body

Holds(p, c) == p.job = c.job /\ p.lease = c.lease

\* Whoever waits for a call is where it was when it sent it.
Awaiting(c) ==
    /\ c.op = "claim" => workers[c.from].phase = "claiming"
    /\ c.op = "beat" => Holds(workers[c.from], c) /\ beats[c.from] = "calling"
    /\ c.op = "complete" =>
          Holds(workers[c.from], c) /\ workers[c.from].phase = "completing"
    /\ c.op = "fail" => Holds(workers[c.from], c) /\ workers[c.from].phase = "failing"
    /\ c.op = "inspect" => verifiers[c.from].phase = "claiming"
    /\ c.op = "rule" =>
          Holds(verifiers[c.from], c) /\ verifiers[c.from].body = c.body

CallOK(c) ==
    /\ Shaped(c)
    /\ Grounded(c, jobs, started, passed)
    /\ c.open => Awaiting(c)

AtRest == {"down", "polling", "claiming"}

WorkerOK(w, p, beat) ==
    /\ p.phase \in AtRest => p.job = None
    /\ p.phase \notin AtRest =>
          /\ p.job \in Jobs /\ p.lease \in 1..jobs[p.job].granted
          /\ [by |-> w, lease |-> p.lease] \in started[p.job]
    /\ ~ JoinTimesOut /\ p.phase \in {"completing", "failing"} => beat = "off"

VerifierOK(p) ==
    /\ p.phase \in AtRest => p.job = None
    /\ p.phase \notin AtRest => p.job \in Jobs /\ p.lease \in 1..jobs[p.job].granted

ReportOK(r, report) ==
    /\ report.status = "EXECUTED" => r.receipt = report.lease /\ report.lease # 0
    /\ report.role = "worker" /\ report.status = "FAILED" => Spent(r, report.lease)
    /\ report.role = "verifier" /\ report.status \in Verdicts =>
          r.ruling = report.lease /\ r.state = report.status

\* The runs that were started, and those whose grant is on its way.
Granted(j) == {c \in calls : c.op = "claim" /\ c.reply = "granted" /\ c.job = j}

RunOf(c) == [by |-> c.from, lease |-> c.lease]

Runs(j) == started[j] \cup {RunOf(c) : c \in Granted(j)}

Budgeted(j) == IsFiniteSet(Runs(j)) /\ Cardinality(Runs(j)) <= jobs[j].attempts

\* Nobody waits for two claims at once.
Single ==
    \A c, d \in calls :
        /\ c.open /\ d.open /\ c.from = d.from
        /\ c.op = d.op /\ c.op \in {"claim", "inspect"}
        => c = d

IInv ==
    /\ Types
    /\ Single
    /\ \A j \in Jobs : RowOK(jobs[j], started[j], passed[j])
    /\ \A c \in calls : CallOK(c)
    /\ \A w \in Workers : WorkerOK(w, workers[w], beats[w])
    /\ \A v \in Verifiers : VerifierOK(verifiers[v])
    /\ \A j \in Jobs : \A report \in reports[j] : ReportOK(jobs[j], report)
    /\ \A j \in Jobs : Budgeted(j)

----------------------------------------------------------------------------
(* What stays                                                              *)

\* A fact of a call is never taken away.
LEMMA GroundedStays ==
    ASSUME NEW c, NEW rows \in [Jobs -> Row], NEW rows2 \in [Jobs -> Row],
           NEW ran, NEW ran2, NEW sound, NEW sound2,
           Shaped(c), Grounded(c, rows, ran, sound),
           \A j \in Jobs : Later(rows[j], rows2[j]),
           \A j \in Jobs : ran[j] \subseteq ran2[j] /\ sound[j] \subseteq sound2[j]
    PROVE  Grounded(c, rows2, ran2, sound2)
<1>1. CASE c.op \notin {"claim", "inspect"} \/ c.reply = "granted"
  <2>1. c.job \in Jobs /\ c.lease \in 1..rows[c.job].granted
    BY <1>1 DEF Grounded
  <2>2. PICK r : r = rows[c.job]
    OBVIOUS
  <2>3. PICK s : s = rows2[c.job]
    OBVIOUS
  <2>4. r \in Row /\ s \in Row /\ Later(r, s) /\ c.lease \in 1..r.granted
    BY <2>1, <2>2, <2>3
  <2>5. /\ c.lease \in 1..s.granted /\ c.lease \in Nat /\ c.lease # 0
    BY <2>4 DEF Later, Row
  <2>6. c.op = "complete" /\ c.reply = "done" => s.receipt = c.lease
    <3>1. c.op = "complete" /\ c.reply = "done" => r.receipt = c.lease
      BY <2>2 DEF Grounded
    <3> QED
      BY <3>1, <2>4, <2>5 DEF Later
  <2>7. c.op = "fail" /\ c.reply = "done" => Spent(s, c.lease)
    <3>1. c.op = "fail" /\ c.reply = "done" => Spent(r, c.lease)
      BY <2>2 DEF Grounded
    <3> QED
      BY <3>1, <2>4, <2>5 DEF Later
  <2>8. c.op = "rule" /\ c.reply = "done" => s.ruling = c.lease /\ s.state = c.body
    <3>1. c.op = "rule" /\ c.reply = "done" =>
             r.ruling = c.lease /\ r.state = c.body /\ c.body \in Verdicts
      BY <2>2 DEF Grounded, Shaped
    <3> QED
      BY <3>1, <2>4 DEF Later
  <2>9. /\ c.op = "complete" => RunOf(c) \in ran2[c.job]
        /\ c.op = "rule" /\ c.body = "VERIFIED" => c.lease \in sound2[c.job]
    BY <2>1 DEF Grounded, RunOf
  <2> QED
    BY <2>1, <2>3, <2>5, <2>6, <2>7, <2>8, <2>9 DEF Grounded, RunOf
<1>2. CASE ~ (c.op \notin {"claim", "inspect"} \/ c.reply = "granted")
  BY <1>2 DEF Grounded
<1> QED
  BY <1>1, <1>2

\* A call that its caller gives up says what it said.
LEMMA GivenUp ==
    ASSUME NEW d, NEW rows, NEW ran, NEW sound, Shaped(d), Grounded(d, rows, ran, sound),
           d.reply = None
    PROVE  LET c == [d EXCEPT !.open = FALSE]
           IN  Shaped(c) /\ Grounded(c, rows, ran, sound) /\ ~ c.open /\ c.reply = None
<1> DEFINE c == [d EXCEPT !.open = FALSE]
<1>1. d \in Calls
  BY DEF Shaped
<1>2. c \in Calls
  BY <1>1 DEF Calls
<1>3. /\ c.op = d.op /\ c.from = d.from /\ c.job = d.job /\ c.lease = d.lease
      /\ c.body = d.body /\ c.reply = d.reply /\ c.open = FALSE
  BY <1>1 DEF Calls
<1> HIDE DEF c
<1>4. Shaped(c)
  BY <1>2, <1>3 DEF Shaped
<1>5. Grounded(c, rows, ran, sound)
  BY <1>3 DEF Grounded
<1>6. Shaped(c) /\ Grounded(c, rows, ran, sound) /\ ~ c.open /\ c.reply = None
  BY <1>3, <1>4, <1>5
<1> QED
  BY <1>6 DEF c

\* What was reported of a row stays true of it.
LEMMA ReportStays ==
    ASSUME NEW r \in Row, NEW s \in Row, Later(r, s), NEW report, ReportOK(r, report)
    PROVE  ReportOK(s, report)
<1>1. report.status = "EXECUTED" => s.receipt = report.lease /\ report.lease # 0
  BY DEF Later, ReportOK
<1>2. report.role = "worker" /\ report.status = "FAILED" => Spent(s, report.lease)
  <2>1. Spent(r, report.lease) => report.lease \in Nat
    BY DEF Spent, Row
  <2> QED
    BY <2>1 DEF Later, ReportOK
<1>3. report.role = "verifier" /\ report.status \in Verdicts =>
          s.ruling = report.lease /\ s.state = report.status
  BY DEF Later, ReportOK
<1> QED
  BY <1>1, <1>2, <1>3 DEF ReportOK

\* A job whose runs do not grow keeps its budget.
LEMMA BudgetStays ==
    ASSUME NEW j \in Jobs, Budgeted(j), jobs[j].attempts <= jobs'[j].attempts,
           jobs[j].attempts \in Nat, jobs'[j].attempts \in Nat,
           Runs(j)' \subseteq Runs(j)
    PROVE  Budgeted(j)'
<1>1. PICK A : A = Runs(j)
  OBVIOUS
<1>2. PICK B : B = Runs(j)'
  OBVIOUS
<1>3. IsFiniteSet(A) /\ B \subseteq A /\ Cardinality(A) <= jobs[j].attempts
  BY <1>1, <1>2 DEF Budgeted
<1>4. IsFiniteSet(B) /\ Cardinality(B) <= Cardinality(A)
  BY <1>3, FS_Subset
<1>5. Cardinality(A) \in Nat /\ Cardinality(B) \in Nat
  BY <1>3, <1>4, FS_CardinalityType
<1>6. Cardinality(B) <= jobs'[j].attempts
  BY <1>3, <1>4, <1>5
<1> QED
  BY <1>2, <1>4, <1>6 DEF Budgeted

\* Nothing is granted by a step that only gives calls up or sends new ones.
LEMMA NoGrant ==
    ASSUME \A c \in calls' : c.reply = "granted" => c \in calls, UNCHANGED started,
           NEW j \in Jobs
    PROVE  Runs(j)' \subseteq Runs(j)
BY DEF Runs, Granted, RunOf

\* How the calls may change when a caller takes a step.
Follows(c) ==
    \/ c \in calls /\ (c.open => Awaiting(c)')
    \/ \E d \in calls : d.reply = None /\ c = [d EXCEPT !.open = FALSE]
    \/ CallOK(c)'

LEMMA CallsFollow ==
    ASSUME IInv, UNCHANGED jobs,
           \A j \in Jobs : started[j] \subseteq started'[j] /\ passed[j] \subseteq passed'[j],
           NEW c \in calls', Follows(c)
    PROVE  CallOK(c)'
<1>1. jobs \in [Jobs -> Row] /\ \A j \in Jobs : Later(jobs[j], jobs[j])
  BY LaterReflexive DEF IInv, Types
<1>2. ASSUME NEW d, Shaped(d), Grounded(d, jobs, started, passed)
      PROVE  Grounded(d, jobs, started', passed')
  BY <1>1, <1>2, GroundedStays
<1>3. CASE c \in calls /\ (c.open => Awaiting(c)')
  <2>1. CallOK(c)
    BY <1>3 DEF IInv
  <2> QED
    BY <1>2, <1>3, <2>1 DEF CallOK, Shaped
<1>4. ASSUME NEW d \in calls, d.reply = None, c = [d EXCEPT !.open = FALSE] PROVE CallOK(c)'
  <2>1. CallOK(d)
    BY DEF IInv
  <2>2. Shaped(d) /\ Grounded(d, jobs, started, passed)
    BY <2>1 DEF CallOK
  <2>3. Shaped(c) /\ Grounded(c, jobs, started, passed) /\ ~ c.open
    BY <1>4, <2>2, GivenUp
  <2> QED
    BY <1>2, <2>3 DEF CallOK, Shaped
<1> QED
  BY <1>3, <1>4 DEF Follows

\* The parts of the invariant that only look at rows, after a caller's step.
LEMMA RowsFollow ==
    ASSUME IInv, UNCHANGED jobs,
           \A j \in Jobs : started[j] \subseteq started'[j] /\ passed[j] \subseteq passed'[j],
           NEW j \in Jobs
    PROVE  RowOK(jobs'[j], started'[j], passed'[j])
<1>1. RowOK(jobs[j], started[j], passed[j])
  BY DEF IInv
<1> QED
  BY <1>1 DEF RowOK

\* The calls of others are not touched by a step of one process.
OwnFollows(from, ops, c) ==
    \/ c \in calls /\ (c.open /\ c.from = from /\ c.op \in ops => Awaiting(c)')
    \/ \E d \in calls : d.reply = None /\ c = [d EXCEPT !.open = FALSE]
    \/ CallOK(c)'

\* What a step of one worker has to show.
LEMMA WorkerStep ==
    ASSUME IInv, NEW w \in Workers, UNCHANGED <<jobs, verifiers, passed>>,
           workers' \in [Workers -> Processes], beats' \in [Workers -> Beats],
           \A u \in Workers \ {w} : workers'[u] = workers[u] /\ beats'[u] = beats[u],
           started' \in [Jobs -> SUBSET Starts],
           \A j \in Jobs : started[j] \subseteq started'[j],
           faults' \in 0..MaxFaults, reports' \in [Jobs -> SUBSET Reports],
           \A j \in Jobs : \A report \in reports'[j] :
              report \in reports[j] \/ ReportOK(jobs[j], report),
           WorkerOK(w, workers[w], beats[w])',
           \A c \in calls' : OwnFollows(w, WorkerOps, c), Single',
           \A j \in Jobs : Runs(j)' \subseteq Runs(j)
    PROVE  IInv'
<1>1. Types'
  BY DEF IInv, Types
<1>2. \A j \in Jobs : started[j] \subseteq started'[j] /\ passed[j] \subseteq passed'[j]
  OBVIOUS
<1>3. \A j \in Jobs : RowOK(jobs'[j], started'[j], passed'[j])
  BY <1>2, RowsFollow
<1>4. ASSUME NEW c \in calls' PROVE CallOK(c)'
  <2>1. ASSUME c \in calls, c.open /\ c.from = w /\ c.op \in WorkerOps => Awaiting(c)'
        PROVE  c.open => Awaiting(c)'
    <3>1. CallOK(c)
      BY <2>1 DEF IInv
    <3>2. /\ c.op \in WorkerOps => c.from \in Workers
          /\ c.open => Awaiting(c)
      BY <3>1 DEF CallOK, Shaped
    <3>3. CASE c.op \in WorkerOps /\ c.from # w
      <4>1. workers'[c.from] = workers[c.from] /\ beats'[c.from] = beats[c.from]
        BY <3>2, <3>3
      <4> QED
        BY <3>2, <4>1 DEF Awaiting
    <3>4. CASE c.op \notin WorkerOps
      BY <3>2, <3>4 DEF Awaiting, WorkerOps
    <3> QED
      BY <2>1, <3>3, <3>4
  <2>2. Follows(c)
    BY <2>1 DEF Follows, OwnFollows
  <2> QED
    BY <1>2, <2>2, CallsFollow
<1>5. ASSUME NEW u \in Workers PROVE WorkerOK(u, workers[u], beats[u])'
  <2>1. CASE u # w
    <3>1. WorkerOK(u, workers[u], beats[u])
      BY DEF IInv
    <3>2. workers'[u] = workers[u] /\ beats'[u] = beats[u]
      BY <2>1
    <3> QED
      BY <3>1, <3>2 DEF WorkerOK
  <2> QED
    BY <2>1
<1>6. \A v \in Verifiers : VerifierOK(verifiers[v])'
  BY DEF IInv, VerifierOK
<1>7. \A j \in Jobs : \A report \in reports'[j] : ReportOK(jobs'[j], report)
  BY DEF IInv
<1>8. ASSUME NEW j \in Jobs PROVE Budgeted(j)'
  <2>1. jobs[j].attempts \in Nat
    BY SystemAssumption DEF IInv, Types, Row
  <2> QED
    BY <2>1, BudgetStays DEF IInv
<1> QED
  BY <1>1, <1>3, <1>4, <1>5, <1>6, <1>7, <1>8 DEF IInv

\* What a step of one verifier has to show.
LEMMA VerifierStep ==
    ASSUME IInv, NEW v \in Verifiers, UNCHANGED <<jobs, workers, beats, started>>,
           verifiers' \in [Verifiers -> Processes],
           \A u \in Verifiers \ {v} : verifiers'[u] = verifiers[u],
           passed' \in [Jobs -> SUBSET Nat],
           \A j \in Jobs : passed[j] \subseteq passed'[j],
           faults' \in 0..MaxFaults, reports' \in [Jobs -> SUBSET Reports],
           \A j \in Jobs : \A report \in reports'[j] :
              report \in reports[j] \/ ReportOK(jobs[j], report),
           VerifierOK(verifiers[v])',
           \A c \in calls' : OwnFollows(v, VerifierOps, c), Single',
           \A c \in calls' : c.reply = "granted" => c \in calls
    PROVE  IInv'
<1>1. Types'
  BY DEF IInv, Types
<1>2. \A j \in Jobs : started[j] \subseteq started'[j] /\ passed[j] \subseteq passed'[j]
  OBVIOUS
<1>3. \A j \in Jobs : RowOK(jobs'[j], started'[j], passed'[j])
  BY <1>2, RowsFollow
<1>4. ASSUME NEW c \in calls' PROVE CallOK(c)'
  <2>1. ASSUME c \in calls, c.open /\ c.from = v /\ c.op \in VerifierOps => Awaiting(c)'
        PROVE  c.open => Awaiting(c)'
    <3>1. CallOK(c)
      BY <2>1 DEF IInv
    <3>2. /\ c.op \in VerifierOps => c.from \in Verifiers
          /\ c.open => Awaiting(c)
      BY <3>1 DEF CallOK, Shaped
    <3>3. CASE c.op \in VerifierOps /\ c.from # v
      <4>1. verifiers'[c.from] = verifiers[c.from]
        BY <3>2, <3>3
      <4> QED
        BY <3>2, <3>3, <4>1 DEF Awaiting, VerifierOps
    <3>4. CASE c.op \notin VerifierOps
      BY <3>2, <3>4 DEF Awaiting, VerifierOps
    <3> QED
      BY <2>1, <3>3, <3>4
  <2>2. Follows(c)
    BY <2>1 DEF Follows, OwnFollows
  <2> QED
    BY <1>2, <2>2, CallsFollow
<1>5. \A u \in Workers : WorkerOK(u, workers[u], beats[u])'
  BY DEF IInv, WorkerOK
<1>6. ASSUME NEW u \in Verifiers PROVE VerifierOK(verifiers[u])'
  <2>1. CASE u # v
    BY <2>1 DEF IInv, VerifierOK
  <2> QED
    BY <2>1
<1>7. \A j \in Jobs : \A report \in reports'[j] : ReportOK(jobs'[j], report)
  BY DEF IInv
<1>8. ASSUME NEW j \in Jobs PROVE Budgeted(j)'
  <2>1. jobs[j].attempts \in Nat
    BY SystemAssumption DEF IInv, Types, Row
  <2>2. Runs(j)' \subseteq Runs(j)
    BY NoGrant
  <2> QED
    BY <2>1, <2>2, BudgetStays DEF IInv
<1> QED
  BY <1>1, <1>3, <1>4, <1>5, <1>6, <1>7, <1>8 DEF IInv

----------------------------------------------------------------------------
(* The worker                                                              *)

\* A call is left alone or given up.
LEMMA ClosedCalls ==
    ASSUME IInv, NEW from, NEW ops, NEW c \in Closed(Awaited(from, ops))
    PROVE  /\ \/ c \in calls /\ ~ (c.open /\ c.from = from /\ c.op \in ops)
              \/ \E d \in calls : d.reply = None /\ c = [d EXCEPT !.open = FALSE]
           /\ c.reply = "granted" \/ c.open => c \in calls
<1>1. CASE c \in calls \ Awaited(from, ops)
  BY <1>1 DEF Awaited
<1>2. ASSUME NEW d \in calls, d.reply = None, c = [d EXCEPT !.open = FALSE]
      PROVE  c.reply # "granted" /\ ~ c.open
  <2>1. Shaped(d) /\ d \in Calls
    BY DEF IInv, CallOK, Shaped
  <2>2. c.reply = d.reply /\ c.open = FALSE
    BY <1>2, <2>1 DEF Calls
  <2> QED
    BY <1>2, <2>2, NoneApart
<1> QED
  BY <1>1, <1>2 DEF Closed, Awaited

LEMMA SingleStays ==
    ASSUME IInv, \A c \in calls' : c.open /\ c.op \in {"claim", "inspect"} => c \in calls
    PROVE  Single'
BY DEF IInv, Single

LEMMA FaultsTyped ==
    ASSUME IInv, NEW from, NEW op, Raises(from, op)
    PROVE  faults' \in 0..MaxFaults
BY SystemAssumption DEF IInv, Types, Raises

\* run_once returns or the process ends: nothing of it is awaited any more.
LEMMA Leaving ==
    ASSUME IInv, NEW w \in Workers, NEW phase \in {"down", "polling"}, Leave(w, phase),
           UNCHANGED <<jobs, verifiers, passed, started>>,
           faults' \in 0..MaxFaults, reports' \in [Jobs -> SUBSET Reports],
           \A j \in Jobs : \A report \in reports'[j] :
              report \in reports[j] \/ ReportOK(jobs[j], report)
    PROVE  IInv'
<1>1. PICK p : p = At(phase)
  OBVIOUS
<1>2. /\ p \in Processes /\ p.phase = phase /\ p.job = None
  BY <1>1 DEF At, Processes
<1>3. /\ workers' = [workers EXCEPT ![w] = p] /\ beats' = [beats EXCEPT ![w] = "off"]
      /\ calls' = Closed(Awaited(w, WorkerOps))
  BY <1>1 DEF Leave
<1>4. /\ workers' \in [Workers -> Processes] /\ beats' \in [Workers -> Beats]
      /\ \A u \in Workers \ {w} : workers'[u] = workers[u] /\ beats'[u] = beats[u]
      /\ workers'[w] = p
  BY <1>2, <1>3 DEF IInv, Types, Beats
<1>5. WorkerOK(w, workers[w], beats[w])'
  BY <1>2, <1>4 DEF WorkerOK, AtRest
<1>6. \A c \in calls' : OwnFollows(w, WorkerOps, c)
                        /\ (c.reply = "granted" \/ c.open => c \in calls)
  BY <1>3, ClosedCalls DEF OwnFollows
<1>7. \A j \in Jobs : Runs(j)' \subseteq Runs(j)
  BY <1>6, NoGrant
<1>8. started' \in [Jobs -> SUBSET Starts]
  BY DEF IInv, Types
<1>9. Single'
  BY <1>6, SingleStays
<1> QED
  BY <1>4, <1>5, <1>6, <1>7, <1>8, <1>9, WorkerStep

\* Only the phase and the body of a worker change, and its calls are those of S.
LEMMA WorkerMoves ==
    ASSUME IInv, NEW w \in Workers, NEW p \in Processes,
           workers' = [workers EXCEPT ![w] = p],
           UNCHANGED <<jobs, verifiers, passed, started, reports>>,
           NEW b \in Beats, beats' = [beats EXCEPT ![w] = b],
           faults' \in 0..MaxFaults, WorkerOK(w, p, b),
           Single',
           \A c \in calls' : OwnFollows(w, WorkerOps, c) /\ (c.reply = "granted" => c \in calls)
    PROVE  IInv'
<1>1. /\ workers' \in [Workers -> Processes] /\ beats' \in [Workers -> Beats]
      /\ \A u \in Workers \ {w} : workers'[u] = workers[u] /\ beats'[u] = beats[u]
      /\ workers'[w] = p /\ beats'[w] = b
  BY DEF IInv, Types
<1>2. WorkerOK(w, workers[w], beats[w])'
  BY <1>1 DEF WorkerOK
<1>3. \A j \in Jobs : Runs(j)' \subseteq Runs(j)
  BY NoGrant
<1>4. /\ started' \in [Jobs -> SUBSET Starts] /\ reports' \in [Jobs -> SUBSET Reports]
      /\ started' = started /\ reports' = reports
  BY DEF IInv, Types
<1> QED
  BY <1>1, <1>2, <1>3, <1>4, WorkerStep

\* What the invariant knows of a worker.
LEMMA Known ==
    ASSUME IInv, NEW w \in Workers
    PROVE  /\ workers[w] \in Processes /\ beats[w] \in Beats
           /\ WorkerOK(w, workers[w], beats[w])
           /\ faults \in 0..MaxFaults
           /\ workers = [workers EXCEPT ![w] = workers[w]]
           /\ beats = [beats EXCEPT ![w] = beats[w]]
<1>1. workers \in [Workers -> Processes] /\ beats \in [Workers -> Beats]
  BY DEF IInv, Types
<1> QED
  BY <1>1 DEF IInv, Types

\* What it knows of a call that is awaited.
LEMMA KnownCall ==
    ASSUME IInv, NEW c \in calls, c.open
    PROVE  Shaped(c) /\ Grounded(c, jobs, started, passed) /\ Awaiting(c)
BY DEF IInv, CallOK

\* A process that is at rest waits for no call about a job; one that is not waits
\* for no claim.
LEMMA RestingCalls ==
    ASSUME IInv, NEW w \in Workers, workers[w].phase \in AtRest,
           NEW c \in calls, c.open, c.from = w, c.op \in WorkerOps
    PROVE  c.op = "claim" /\ workers[w].phase = "claiming"
<1>1. Shaped(c) /\ Grounded(c, jobs, started, passed) /\ Awaiting(c)
  BY KnownCall
<1>2. WorkerOK(w, workers[w], beats[w])
  BY DEF IInv
<1>3. workers[w].job \notin Jobs
  BY <1>2, NoneApart DEF WorkerOK
<1>4. c.op # "claim" => c.job \in Jobs /\ Holds(workers[w], c)
  BY <1>1 DEF Grounded, Awaiting, WorkerOps
<1>5. c.op = "claim"
  BY <1>3, <1>4 DEF Holds
<1> QED
  BY <1>1, <1>5 DEF Awaiting

LEMMA NewCall ==
    ASSUME NEW c \in Calls, c.open = TRUE, c.reply = None,
           c.op \in WorkerOps => c.from \in Workers,
           c.op \in VerifierOps => c.from \in Verifiers,
           c.op = "rule" => c.body \in Verdicts
    PROVE  Shaped(c)
BY DEF Shaped

LEMMA SendClaimOK ==
    ASSUME IInv, NEW w \in Workers, SendClaim(w), UNCHANGED <<jobs, verifiers, passed>>
    PROVE  IInv'
<1>1. PICK p : p = [workers[w] EXCEPT !.phase = "claiming"]
  OBVIOUS
<1>2. workers[w] \in Processes /\ workers[w].phase = "polling"
      /\ WorkerOK(w, workers[w], beats[w])
  BY Known DEF SendClaim
<1>3. p \in Processes /\ p.phase = "claiming" /\ p.job = workers[w].job
  BY <1>1, <1>2 DEF Processes
<1>4. WorkerOK(w, p, beats[w])
  BY <1>2, <1>3 DEF WorkerOK, AtRest
<1>5. PICK c : c = Call("claim", w, None, 0, None)
  OBVIOUS
<1>6. Shaped(c) /\ c.op = "claim" /\ c.from = w /\ c.open = TRUE /\ c.reply = None
  <2>1. c.op = "claim" /\ c.from = w /\ c.open = TRUE /\ c.reply = None
    BY <1>5 DEF Call
  <2>2. c \in Calls
    BY <1>5 DEF Call, Calls, Ids
  <2> QED
    BY <2>1, <2>2, NewCall DEF WorkerOps, VerifierOps
<1>7. workers' = [workers EXCEPT ![w] = p] /\ calls' = calls \cup {c}
  BY <1>1, <1>5 DEF SendClaim
<1>8. CallOK(c)'
  <2>1. workers'[w].phase = "claiming"
    BY <1>3, <1>7 DEF IInv, Types
  <2>2. Awaiting(c)'
    BY <2>1, <1>6 DEF Awaiting
  <2>3. Grounded(c, jobs, started, passed)'
    BY <1>6, NoneApart DEF Grounded
  <2>4. Shaped(c)'
    BY <1>6 DEF Shaped
  <2> QED
    BY <2>2, <2>3, <2>4 DEF CallOK
<1>9. ASSUME NEW d \in calls, d.open, d.from = w, d.op \in WorkerOps PROVE FALSE
  BY <1>9, <1>2, RestingCalls DEF AtRest
<1>11. \A d \in calls' : OwnFollows(w, WorkerOps, d) /\ (d.reply = "granted" => d \in calls)
  BY <1>6, <1>7, <1>8, <1>9, NoneApart DEF OwnFollows
<1>12. Single'
  <2>1. "claim" \in WorkerOps
    BY DEF WorkerOps
  <2> QED
    BY <1>6, <1>7, <1>9, <2>1 DEF IInv, Single
<1>10. beats' = [beats EXCEPT ![w] = beats[w]] /\ beats[w] \in Beats
       /\ faults' \in 0..MaxFaults
  BY Known DEF SendClaim
<1> QED
  BY <1>3, <1>4, <1>7, <1>10, <1>11, <1>12, WorkerMoves DEF SendClaim

\* The grant was counted as a run before the reply arrived.
LEMMA RunOK ==
    ASSUME IInv, NEW w \in Workers, Run(w), UNCHANGED <<jobs, verifiers, passed>>
    PROVE  IInv'
<1>1. PICK c \in Awaited(w, {"claim"}) :
        /\ c.reply = "granted"
        /\ workers' = [workers EXCEPT ![w] = [phase |-> "running", job |-> c.job,
                                              lease |-> c.lease, body |-> None]]
        /\ beats' = [beats EXCEPT ![w] = "waiting"]
        /\ calls' = calls \ {c}
        /\ started' = [started EXCEPT ![c.job] = @ \cup {[by |-> w, lease |-> c.lease]}]
        /\ UNCHANGED <<reports, faults>>
  BY DEF Run
<1>2. c \in calls /\ c.open /\ c.from = w /\ c.op = "claim"
  BY DEF Awaited
<1>3. /\ Awaiting(c) /\ Grounded(c, jobs, started, passed)
  BY <1>2, KnownCall
<1>4. /\ workers[w].phase = "claiming" /\ c.job \in Jobs
      /\ c.lease \in 1..jobs[c.job].granted
  BY <1>1, <1>2, <1>3 DEF Awaiting, Grounded
<1>5. jobs[c.job].granted \in Nat /\ c.lease \in Nat
  BY <1>4 DEF IInv, Types, Row
<1>6. PICK p : p = [phase |-> "running", job |-> c.job, lease |-> c.lease, body |-> None]
  OBVIOUS
<1>7. p \in Processes /\ p.phase = "running" /\ p.job = c.job /\ p.lease = c.lease
  BY <1>4, <1>5, <1>6 DEF Processes
<1>8. /\ workers' \in [Workers -> Processes] /\ beats' \in [Workers -> Beats]
      /\ \A u \in Workers \ {w} : workers'[u] = workers[u] /\ beats'[u] = beats[u]
      /\ workers'[w] = p
  BY <1>1, <1>6, <1>7 DEF IInv, Types, Beats
<1>9. PICK s : s = [by |-> w, lease |-> c.lease]
  OBVIOUS
<1>10. s \in Starts
  BY <1>5, <1>9 DEF Starts
<1>11. /\ started' \in [Jobs -> SUBSET Starts]
       /\ \A j \in Jobs : started'[j] = IF j = c.job THEN started[j] \cup {s} ELSE started[j]
  BY <1>1, <1>4, <1>9, <1>10 DEF IInv, Types
<1>12. WorkerOK(w, workers[w], beats[w])'
  BY <1>4, <1>7, <1>8, <1>9, <1>11 DEF WorkerOK, AtRest
<1>13. \A d \in calls' : OwnFollows(w, WorkerOps, d)
  <2>1. ASSUME NEW d \in calls, d # c, d.open, d.from = w, d.op \in WorkerOps
        PROVE  FALSE
    <3>1. d.op = "claim"
      BY <1>4, <2>1, RestingCalls DEF AtRest
    <3> QED
      BY <1>2, <2>1, <3>1 DEF IInv, Single
  <2> QED
    BY <1>1, <2>1 DEF OwnFollows
<1>14. Single'
  BY <1>1, SingleStays
<1>15. \A j \in Jobs : Runs(j)' \subseteq Runs(j)
  <2>1. c.job \in Jobs => RunOf(c) = s /\ c \in Granted(c.job)
    BY <1>1, <1>2, <1>9 DEF RunOf, Granted
  <2>2. ASSUME NEW j \in Jobs PROVE Granted(j)' \subseteq Granted(j)
    BY <1>1 DEF Granted
  <2>3. ASSUME NEW j \in Jobs, NEW x \in Runs(j)' PROVE x \in Runs(j)
    <3>1. x \in started'[j] \/ \E d \in Granted(j) : x = RunOf(d)
      BY <2>2 DEF Runs, RunOf
    <3> QED
      BY <1>4, <1>11, <2>1, <3>1 DEF Runs
  <2> QED
    BY <2>3
<1>16. /\ faults' \in 0..MaxFaults /\ reports' \in [Jobs -> SUBSET Reports]
       /\ reports' = reports
  BY <1>1 DEF IInv, Types
<1> QED
  BY <1>8, <1>11, <1>12, <1>13, <1>14, <1>15, <1>16, WorkerStep

\* A worker that runs or stops waits for nothing but a heartbeat, and one that
\* hands in for that and its answer.
LEMMA BusyCalls ==
    ASSUME IInv, NEW w \in Workers,
           NEW c \in calls, c.open, c.from = w, c.op \in WorkerOps, c.op # "beat",
           workers[w].phase \notin AtRest
    PROVE  /\ c.op = "complete" => workers[w].phase = "completing"
           /\ c.op = "fail" => workers[w].phase = "failing"
           /\ c.op \in {"complete", "fail"} /\ Holds(workers[w], c)
<1>1. Awaiting(c)
  BY KnownCall
<1> QED
  BY <1>1 DEF Awaiting, WorkerOps, AtRest

LEMMA BeatCalls ==
    ASSUME IInv, NEW c \in calls, c.open, c.op = "beat"
    PROVE  beats[c.from] = "calling" /\ Holds(workers[c.from], c)
<1>1. Awaiting(c)
  BY KnownCall
<1> QED
  BY <1>1 DEF Awaiting

\* A heartbeat is awaited through the moves of the main thread.
LEMMA BeatStays ==
    ASSUME IInv, NEW c \in calls, c.open, c.op = "beat",
           workers'[c.from].job = workers[c.from].job,
           workers'[c.from].lease = workers[c.from].lease,
           beats[c.from] = "calling" => beats'[c.from] = "calling"
    PROVE  Awaiting(c)'
<1>1. beats[c.from] = "calling" /\ Holds(workers[c.from], c)
  BY BeatCalls
<1> QED
  BY <1>1 DEF Awaiting, Holds

LEMMA EndRunOK ==
    ASSUME IInv, NEW w \in Workers, NEW body \in {"succeeded", "unsuccessful", None},
           EndRun(w, body), UNCHANGED <<jobs, verifiers, passed>>
    PROVE  IInv'
<1>1. PICK p : p = [workers[w] EXCEPT !.phase = "stopping", !.body = body]
  OBVIOUS
<1>2. workers[w] \in Processes /\ workers[w].phase = "running"
      /\ WorkerOK(w, workers[w], beats[w])
  BY Known DEF EndRun
<1>3. p \in Processes /\ p.phase = "stopping" /\ p.job = workers[w].job
      /\ p.lease = workers[w].lease
  BY <1>1, <1>2 DEF Processes, Bodies
<1>4. WorkerOK(w, p, beats[w])
  BY <1>2, <1>3 DEF WorkerOK, AtRest
<1>5. workers' = [workers EXCEPT ![w] = p]
  BY <1>1 DEF EndRun
<1>6. workers'[w] = p
  BY <1>5 DEF IInv, Types
<1>7. UNCHANGED <<beats, calls, reports, started, faults>>
  BY DEF EndRun
<1>8. ASSUME NEW d \in calls, d.open, d.from = w, d.op \in WorkerOps PROVE Awaiting(d)'
  <2>1. d.op = "beat"
    BY <1>2, <1>8, BusyCalls DEF AtRest
  <2> QED
    BY <1>3, <1>6, <1>7, <1>8, <2>1, BeatStays
<1>9. \A d \in calls' : OwnFollows(w, WorkerOps, d) /\ (d.reply = "granted" => d \in calls)
  BY <1>7, <1>8 DEF OwnFollows
<1>10. Single' /\ beats' = [beats EXCEPT ![w] = beats[w]] /\ beats[w] \in Beats
       /\ faults' \in 0..MaxFaults
  BY <1>7, Known, SingleStays
<1> QED
  BY <1>3, <1>4, <1>5, <1>7, <1>9, <1>10, WorkerMoves

\* What is handed in is said of the run under its lease, and by a worker that may
\* wait for its heartbeat no longer has none under way.
LEMMA HandInOK ==
    ASSUME IInv, NEW w \in Workers, HandIn(w), UNCHANGED <<jobs, verifiers, passed>>
    PROVE  IInv'
<1>0. PICK op : op = IF workers[w].body = None THEN "fail" ELSE "complete"
  OBVIOUS
<1>1. PICK p : p = [workers[w] EXCEPT !.phase = IF op = "fail" THEN "failing" ELSE "completing"]
  OBVIOUS
<1>2. /\ workers[w] \in Processes /\ workers[w].phase = "stopping" /\ beats[w] \in Beats
      /\ WorkerOK(w, workers[w], beats[w]) /\ op \in {"fail", "complete"}
  BY <1>0, Known DEF HandIn, Stopped
<1>3. /\ p \in Processes /\ p.job = workers[w].job /\ p.lease = workers[w].lease
      /\ p.phase = IF op = "fail" THEN "failing" ELSE "completing"
  BY <1>1, <1>2 DEF Processes
<1>4. PICK b : b = IF beats[w] = "waiting" THEN "off" ELSE beats[w]
  OBVIOUS
<1>5. /\ b \in Beats
      /\ ~ JoinTimesOut => b = "off"
      /\ beats[w] = "calling" => b = "calling"
  BY <1>2, <1>4 DEF Beats, HandIn, Stopped, LeaseInDoubt
<1>6. WorkerOK(w, p, b)
  <2>1. p.phase \notin AtRest /\ workers[w].phase \notin AtRest
    BY <1>2, <1>3 DEF AtRest
  <2> QED
    BY <1>2, <1>3, <1>5, <2>1 DEF WorkerOK
<1>7. PICK c : c = Call(op, w, workers[w].job, workers[w].lease, workers[w].body)
  OBVIOUS
<1>8. workers' = [workers EXCEPT ![w] = p]
  BY <1>0, <1>1 DEF HandIn
<1>9. beats' = [beats EXCEPT ![w] = b] /\ calls' = calls \cup {c}
      /\ UNCHANGED <<reports, started, faults>>
  BY <1>0, <1>4, <1>7 DEF HandIn
<1>10. workers'[w] = p /\ beats'[w] = b
  BY <1>8, <1>9 DEF IInv, Types
<1>11. /\ c.op = op /\ c.from = w /\ c.job = workers[w].job /\ c.lease = workers[w].lease
       /\ c.open = TRUE /\ c.reply = None /\ c.body = workers[w].body
  BY <1>7 DEF Call
<1>12. c \in Calls
  BY <1>2, <1>7 DEF Call, Calls, Ids, Processes
<1>13. Shaped(c)
  BY <1>2, <1>11, <1>12, NewCall DEF WorkerOps, VerifierOps
<1>14. Grounded(c, jobs, started, passed)
  BY <1>2, <1>11, NoneApart DEF Grounded, WorkerOK, AtRest
<1>15. Awaiting(c)'
  BY <1>2, <1>3, <1>10, <1>11 DEF Awaiting, Holds
<1>16. CallOK(c)'
  BY <1>9, <1>13, <1>14, <1>15 DEF CallOK, Shaped
<1>17. ASSUME NEW d \in calls, d.open, d.from = w, d.op \in WorkerOps PROVE Awaiting(d)'
  <2>1. d.op = "beat"
    BY <1>2, <1>17, BusyCalls DEF AtRest
  <2> QED
    BY <1>3, <1>5, <1>10, <1>17, <2>1, BeatStays
<1>18. \A d \in calls' : OwnFollows(w, WorkerOps, d) /\ (d.reply = "granted" => d \in calls)
  BY <1>9, <1>11, <1>16, <1>17, NoneApart DEF OwnFollows
<1>19. Single'
  BY <1>2, <1>9, <1>11, SingleStays
<1>20. faults' \in 0..MaxFaults
  BY <1>9, Known
<1>21. /\ p \in Processes /\ b \in Beats /\ beats' = [beats EXCEPT ![w] = b]
       /\ UNCHANGED <<jobs, verifiers, passed, started, reports>>
  BY <1>3, <1>5, <1>9
<1> QED
  BY <1>6, <1>8, <1>18, <1>19, <1>20, <1>21, WorkerMoves

LEMMA CompletionRaisesOK ==
    ASSUME IInv, NEW w \in Workers, CompletionRaises(w), UNCHANGED <<jobs, verifiers, passed>>
    PROVE  IInv'
<1>1. PICK p : p = [workers[w] EXCEPT !.phase = "stopping", !.body = None]
  OBVIOUS
<1>2. workers[w] \in Processes /\ workers[w].phase = "completing"
      /\ WorkerOK(w, workers[w], beats[w])
  BY Known DEF CompletionRaises
<1>3. p \in Processes /\ p.phase = "stopping" /\ p.job = workers[w].job
      /\ p.lease = workers[w].lease
  BY <1>1, <1>2 DEF Processes
<1>4. WorkerOK(w, p, beats[w])
  BY <1>2, <1>3 DEF WorkerOK, AtRest
<1>5. workers' = [workers EXCEPT ![w] = p]
  BY <1>1 DEF CompletionRaises
<1>6. workers'[w] = p
  BY <1>5 DEF IInv, Types
<1>7. UNCHANGED <<beats, reports, started>> /\ calls' = Closed(Awaited(w, {"complete"}))
  BY DEF CompletionRaises
<1>8. ASSUME NEW d \in calls, d.open, d.from = w, d.op \in WorkerOps, d.op # "complete"
      PROVE  Awaiting(d)'
  <2>1. d.op = "beat"
    BY <1>2, <1>8, BusyCalls DEF AtRest
  <2> QED
    BY <1>3, <1>6, <1>7, <1>8, <2>1, BeatStays
<1>9. \A d \in calls' : OwnFollows(w, WorkerOps, d)
                        /\ (d.reply = "granted" \/ d.open => d \in calls)
  BY <1>7, <1>8, ClosedCalls DEF OwnFollows
<1>10. Single' /\ beats' = [beats EXCEPT ![w] = beats[w]] /\ beats[w] \in Beats
  BY <1>7, <1>9, Known, SingleStays
<1>11. faults' \in 0..MaxFaults
  BY FaultsTyped DEF CompletionRaises
<1> QED
  BY <1>3, <1>4, <1>5, <1>7, <1>9, <1>10, <1>11, WorkerMoves

LEMMA SendBeatOK ==
    ASSUME IInv, NEW w \in Workers, SendBeat(w),
           UNCHANGED <<jobs, workers, verifiers, started, passed, reports>>
    PROVE  IInv'
<1>1. /\ workers[w] \in Processes /\ workers[w].phase = "running" /\ beats[w] = "waiting"
      /\ WorkerOK(w, workers[w], beats[w])
  BY Known DEF SendBeat
<1>2. WorkerOK(w, workers[w], "calling")
  BY <1>1 DEF WorkerOK, AtRest
<1>3. PICK c : c = Call("beat", w, workers[w].job, workers[w].lease, None)
  OBVIOUS
<1>4. /\ beats' = [beats EXCEPT ![w] = "calling"] /\ calls' = calls \cup {c}
      /\ workers' = [workers EXCEPT ![w] = workers[w]] /\ UNCHANGED faults
  BY <1>3, Known DEF SendBeat
<1>5. beats'[w] = "calling" /\ workers'[w] = workers[w]
  BY <1>4 DEF IInv, Types
<1>6. /\ c.op = "beat" /\ c.from = w /\ c.job = workers[w].job /\ c.lease = workers[w].lease
      /\ c.open = TRUE /\ c.reply = None
  BY <1>3 DEF Call
<1>7. c \in Calls
  BY <1>1, <1>3 DEF Call, Calls, Ids, Processes
<1>8. Shaped(c)
  BY <1>6, <1>7, NewCall DEF WorkerOps, VerifierOps
<1>9. Grounded(c, jobs, started, passed)
  BY <1>1, <1>6, NoneApart DEF Grounded, WorkerOK, AtRest
<1>10. Awaiting(c)'
  BY <1>5, <1>6 DEF Awaiting, Holds
<1>11. CallOK(c)'
  BY <1>8, <1>9, <1>10 DEF CallOK, Shaped
<1>12. ASSUME NEW d \in calls, d.open, d.from = w, d.op \in WorkerOps PROVE FALSE
  <2>1. d.op = "beat"
    BY <1>1, <1>12, BusyCalls DEF AtRest
  <2> QED
    BY <1>1, <1>12, <2>1, BeatCalls
<1>13. \A d \in calls' : OwnFollows(w, WorkerOps, d) /\ (d.reply = "granted" => d \in calls)
  BY <1>4, <1>6, <1>11, <1>12, NoneApart DEF OwnFollows
<1>14. Single' /\ faults' \in 0..MaxFaults /\ "calling" \in Beats
  BY <1>4, <1>6, Known, SingleStays DEF Beats
<1> QED
  BY <1>1, <1>2, <1>4, <1>13, <1>14, WorkerMoves

\* The reply of a heartbeat, or that there is none, is noted by its thread only
\* while one is awaited.
LEMMA BeatEndsOK ==
    ASSUME IInv, NEW w \in Workers, Awaited(w, {"beat"}) # {},
           NEW b \in Beats, beats' = [beats EXCEPT ![w] = b],
           calls' = Closed(Awaited(w, {"beat"})), faults' \in 0..MaxFaults,
           UNCHANGED <<jobs, workers, verifiers, started, passed, reports>>
    PROVE  IInv'
<1>1. WorkerOK(w, workers[w], beats[w]) /\ workers[w] \in Processes
      /\ workers' = [workers EXCEPT ![w] = workers[w]]
  BY Known
<1>2. beats[w] = "calling"
  BY BeatCalls DEF Awaited
<1>3. WorkerOK(w, workers[w], b)
  BY <1>1, <1>2 DEF WorkerOK
<1>4. ASSUME NEW d \in calls, d.open, d.from = w, d.op \in WorkerOps, d.op # "beat"
      PROVE  Awaiting(d)'
  <2>1. Awaiting(d)
    BY <1>4, KnownCall
  <2> QED
    BY <1>4, <2>1 DEF Awaiting, Holds, WorkerOps
<1>5. \A d \in calls' : OwnFollows(w, WorkerOps, d)
                        /\ (d.reply = "granted" \/ d.open => d \in calls)
  BY <1>4, ClosedCalls DEF OwnFollows
<1>6. Single'
  BY <1>5, SingleStays
<1>7. UNCHANGED <<jobs, verifiers, passed, started, reports>>
  OBVIOUS
<1> QED
  BY <1>1, <1>3, <1>5, <1>6, <1>7, WorkerMoves

LEMMA BeatOK ==
    ASSUME IInv, NEW w \in Workers, Beat(w)
    PROVE  IInv'
<1>1. UNCHANGED <<jobs, workers, verifiers, started, passed, reports>>
  BY DEF Beat
<1>2. CASE SendBeat(w)
  BY <1>1, <1>2, SendBeatOK
<1>3. CASE BeatReturns(w)
  <2>1. PICK b : b = IF workers[w].phase = "running" THEN "waiting" ELSE "off"
    OBVIOUS
  <2>2. b \in Beats /\ beats' = [beats EXCEPT ![w] = b] /\ faults' \in 0..MaxFaults
        /\ calls' = Closed(Awaited(w, {"beat"})) /\ Awaited(w, {"beat"}) # {}
    BY <1>3, <2>1, Known DEF BeatReturns, Beats, Returns
  <2> QED
    BY <1>1, <2>2, BeatEndsOK
<1>4. CASE BeatRaises(w)
  <2>1. "failed" \in Beats /\ beats' = [beats EXCEPT ![w] = "failed"]
        /\ calls' = Closed(Awaited(w, {"beat"})) /\ Awaited(w, {"beat"}) # {}
    BY <1>4 DEF BeatRaises, Beats, Raises
  <2>2. faults' \in 0..MaxFaults
    BY <1>4, FaultsTyped DEF BeatRaises
  <2> QED
    BY <1>1, <2>1, <2>2, BeatEndsOK
<1> QED
  BY <1>2, <1>3, <1>4 DEF Beat

\* The report of a process about its job.
LEMMA Reporting ==
    ASSUME IInv, NEW role \in {"worker", "verifier"}, NEW p \in Processes, p.job \in Jobs,
           NEW status, Report(role, p.lease, status) \in Reports,
           Reported(role, p, status),
           ReportOK(jobs[p.job], Report(role, p.lease, status))
    PROVE  /\ reports' \in [Jobs -> SUBSET Reports]
           /\ \A j \in Jobs : \A report \in reports'[j] :
                 report \in reports[j] \/ ReportOK(jobs[j], report)
<1>1. PICK x : x = Report(role, p.lease, status)
  OBVIOUS
<1>2. /\ reports' = [reports EXCEPT ![p.job] = @ \cup {x}]
      /\ reports \in [Jobs -> SUBSET Reports] /\ x \in Reports
  BY <1>1 DEF Reported, IInv, Types
<1> QED
  BY <1>1, <1>2

LEMMA LeavingSilently ==
    ASSUME IInv, NEW w \in Workers, NEW phase \in {"down", "polling"}, Leave(w, phase),
           UNCHANGED <<jobs, verifiers, passed, started, reports>>,
           faults' \in 0..MaxFaults
    PROVE  IInv'
<1>1. reports' \in [Jobs -> SUBSET Reports]
      /\ \A j \in Jobs : \A report \in reports'[j] :
              report \in reports[j] \/ ReportOK(jobs[j], report)
  BY DEF IInv, Types
<1>2. UNCHANGED <<jobs, verifiers, passed, started>>
  OBVIOUS
<1> QED
  BY <1>1, <1>2, Leaving

\* A worker that is not at rest leaves with a report.
LEMMA LeavingWithReport ==
    ASSUME IInv, NEW w \in Workers, NEW phase \in {"down", "polling"}, Leave(w, phase),
           UNCHANGED <<jobs, verifiers, passed, started>>, faults' \in 0..MaxFaults,
           workers[w].phase \notin AtRest,
           NEW status \in {"EXECUTED", "FAILED", "LEASE_UNCERTAIN"},
           Reported("worker", workers[w], status),
           status = "EXECUTED" => jobs[workers[w].job].receipt = workers[w].lease,
           status = "FAILED" => Spent(jobs[workers[w].job], workers[w].lease)
    PROVE  IInv'
<1>1. PICK p : p = workers[w]
  OBVIOUS
<1>2. p \in Processes /\ p.job \in Jobs /\ p.lease # 0
  <2>1. WorkerOK(w, p, beats[w]) /\ p \in Processes
    BY <1>1, Known
  <2>2. p.job \in Jobs /\ p.lease \in 1..jobs[p.job].granted
    BY <1>1, <2>1 DEF WorkerOK
  <2> QED
    BY <2>1, <2>2
<1>3. /\ Report("worker", p.lease, status) \in Reports
      /\ Report("worker", p.lease, status).role = "worker"
      /\ Report("worker", p.lease, status).lease = p.lease
      /\ Report("worker", p.lease, status).status = status
  BY <1>2 DEF Report, Reports, Processes
<1>4. ReportOK(jobs[p.job], Report("worker", p.lease, status))
  BY <1>1, <1>2, <1>3 DEF ReportOK
<1>5. Reported("worker", p, status)
  BY <1>1
<1>6. reports' \in [Jobs -> SUBSET Reports]
      /\ \A j \in Jobs : \A report \in reports'[j] :
              report \in reports[j] \/ ReportOK(jobs[j], report)
  BY <1>2, <1>3, <1>4, <1>5, Reporting
<1> QED
  BY <1>6, Leaving

\* What an awaited call was answered is said of the job in hand.
LEMMA AnswerInHand ==
    ASSUME IInv, NEW w \in Workers, NEW op \in {"complete", "fail"}, Returns(w, op, "done")
    PROVE  /\ op = "complete" => jobs[workers[w].job].receipt = workers[w].lease
           /\ op = "fail" => Spent(jobs[workers[w].job], workers[w].lease)
<1>1. PICK c \in calls : c.open /\ c.from = w /\ c.op = op /\ c.reply = "done"
  BY DEF Returns, Awaited
<1>2. Grounded(c, jobs, started, passed) /\ Awaiting(c)
  BY <1>1, KnownCall
<1>3. Holds(workers[w], c)
  BY <1>1, <1>2 DEF Awaiting
<1> QED
  BY <1>1, <1>2, <1>3 DEF Grounded, Holds

LEMMA MainOK ==
    ASSUME IInv, NEW w \in Workers, Main(w)
    PROVE  IInv'
<1>1. UNCHANGED <<jobs, verifiers, passed>> /\ faults \in 0..MaxFaults
  BY Known DEF Main
<1>2. CASE SendClaim(w)
  BY <1>1, <1>2, SendClaimOK
<1>3. CASE Idle(w)
  <2>1. Leave(w, "polling") /\ UNCHANGED <<reports, started, faults>>
    BY <1>3 DEF Idle
  <2> QED
    BY <1>1, <2>1, LeavingSilently
<1>4. CASE ClaimRaises(w)
  <2>1. Leave(w, "down") /\ UNCHANGED <<reports, started>> /\ Raises(w, "claim")
    BY <1>4 DEF ClaimRaises
  <2>2. faults' \in 0..MaxFaults
    BY <2>1, FaultsTyped
  <2> QED
    BY <1>1, <2>1, <2>2, LeavingSilently
<1>5. CASE Run(w)
  BY <1>1, <1>5, RunOK
<1>6. CASE \E body \in {"succeeded", "unsuccessful", None} : EndRun(w, body)
  BY <1>1, <1>6, EndRunOK
<1>7. CASE Withhold(w)
  <2>1. /\ Leave(w, "down") /\ UNCHANGED <<started, faults>>
        /\ Reported("worker", workers[w], "LEASE_UNCERTAIN") /\ workers[w].phase \notin AtRest
    BY <1>7 DEF Withhold, Stopped, AtRest
  <2> QED
    BY <1>1, <2>1, LeavingWithReport
<1>8. CASE HandIn(w)
  BY <1>1, <1>8, HandInOK
<1>9. CASE Completed(w)
  <2>1. /\ Leave(w, "polling") /\ UNCHANGED <<started, faults>>
        /\ Reported("worker", workers[w], "EXECUTED") /\ workers[w].phase \notin AtRest
    BY <1>9 DEF Completed, AtRest
  <2>2. jobs[workers[w].job].receipt = workers[w].lease
    BY <1>9, AnswerInHand DEF Completed
  <2> QED
    BY <1>1, <2>1, <2>2, LeavingWithReport
<1>10. CASE CompletionRaises(w)
  BY <1>1, <1>10, CompletionRaisesOK
<1>11. CASE Failed(w)
  <2>1. /\ Leave(w, "polling") /\ UNCHANGED <<started, faults>>
        /\ Reported("worker", workers[w], "FAILED") /\ workers[w].phase \notin AtRest
    BY <1>11 DEF Failed, AtRest
  <2>2. Spent(jobs[workers[w].job], workers[w].lease)
    BY <1>11, AnswerInHand DEF Failed
  <2> QED
    BY <1>1, <2>1, <2>2, LeavingWithReport
<1>12. CASE FailureRaises(w)
  <2>1. /\ Leave(w, "down") /\ UNCHANGED started /\ Raises(w, "fail")
        /\ Reported("worker", workers[w], "LEASE_UNCERTAIN") /\ workers[w].phase \notin AtRest
    BY <1>12 DEF FailureRaises, AtRest
  <2>2. faults' \in 0..MaxFaults
    BY <2>1, FaultsTyped
  <2> QED
    BY <1>1, <2>1, <2>2, LeavingWithReport
<1>13. CASE RestartWorker(w)
  <2>1. Leave(w, "polling") /\ UNCHANGED <<reports, started, faults>>
    BY <1>13 DEF RestartWorker
  <2> QED
    BY <1>1, <2>1, LeavingSilently
<1> QED
  BY <1>2, <1>3, <1>4, <1>5, <1>6, <1>7, <1>8, <1>9, <1>10, <1>11, <1>12, <1>13 DEF Main

LEMMA CrashWorkerOK ==
    ASSUME IInv, NEW w \in Workers, CrashWorker(w)
    PROVE  IInv'
<1>1. Leave(w, "down") /\ UNCHANGED <<jobs, verifiers, started, passed, reports>>
  BY DEF CrashWorker
<1>2. faults' \in 0..MaxFaults
  BY Known, SystemAssumption DEF CrashWorker
<1> QED
  BY <1>1, <1>2, LeavingSilently

----------------------------------------------------------------------------
(* The verifier                                                            *)

LEMMA KnownVerifier ==
    ASSUME IInv, NEW v \in Verifiers
    PROVE  /\ verifiers[v] \in Processes /\ VerifierOK(verifiers[v])
           /\ faults \in 0..MaxFaults
           /\ passed \in [Jobs -> SUBSET Nat] /\ reports \in [Jobs -> SUBSET Reports]
BY DEF IInv, Types

\* A verifier that is at rest waits for no answer to a verdict, and one that is not
\* for no claim.
LEMMA VerifierCalls ==
    ASSUME IInv, NEW v \in Verifiers,
           NEW c \in calls, c.open, c.from = v, c.op \in VerifierOps
    PROVE  /\ c.op = "inspect" => verifiers[v].phase = "claiming"
           /\ c.op = "rule" => verifiers[v].phase \notin AtRest
<1>1. Awaiting(c) /\ Grounded(c, jobs, started, passed)
  BY KnownCall
<1>2. VerifierOK(verifiers[v])
  BY KnownVerifier
<1>3. c.op = "rule" => c.job \in Jobs /\ verifiers[v].job = c.job
  BY <1>1 DEF Awaiting, Grounded, Holds
<1> QED
  BY <1>1, <1>2, <1>3, NoneApart DEF Awaiting, VerifierOK

\* What a move of one verifier has to show.
LEMMA VerifierMoves ==
    ASSUME IInv, NEW v \in Verifiers, NEW p \in Processes,
           verifiers' = [verifiers EXCEPT ![v] = p],
           UNCHANGED <<jobs, workers, beats, started>>, VerifierOK(p),
           passed' \in [Jobs -> SUBSET Nat],
           \A j \in Jobs : passed[j] \subseteq passed'[j],
           faults' \in 0..MaxFaults, reports' \in [Jobs -> SUBSET Reports],
           \A j \in Jobs : \A report \in reports'[j] :
              report \in reports[j] \/ ReportOK(jobs[j], report),
           \A c \in calls' : OwnFollows(v, VerifierOps, c) /\ (c.reply = "granted" => c \in calls),
           Single'
    PROVE  IInv'
<1>1. /\ verifiers' \in [Verifiers -> Processes] /\ verifiers'[v] = p
      /\ \A u \in Verifiers \ {v} : verifiers'[u] = verifiers[u]
  BY DEF IInv, Types
<1>2. VerifierOK(verifiers[v])'
  BY <1>1 DEF VerifierOK
<1> QED
  BY <1>1, <1>2, VerifierStep

LEMMA Departing ==
    ASSUME IInv, NEW v \in Verifiers, NEW phase \in {"down", "polling"}, Depart(v, phase),
           UNCHANGED <<jobs, workers, beats, started, passed>>,
           faults' \in 0..MaxFaults, reports' \in [Jobs -> SUBSET Reports],
           \A j \in Jobs : \A report \in reports'[j] :
              report \in reports[j] \/ ReportOK(jobs[j], report)
    PROVE  IInv'
<1>1. PICK p : p = At(phase)
  OBVIOUS
<1>2. p \in Processes /\ p.phase = phase /\ p.job = None
  BY <1>1 DEF At, Processes
<1>3. /\ verifiers' = [verifiers EXCEPT ![v] = p]
      /\ calls' = Closed(Awaited(v, VerifierOps))
  BY <1>1 DEF Depart
<1>4. VerifierOK(p)
  BY <1>2 DEF VerifierOK, AtRest
<1>5. \A c \in calls' : OwnFollows(v, VerifierOps, c)
                        /\ (c.reply = "granted" \/ c.open => c \in calls)
  BY <1>3, ClosedCalls DEF OwnFollows
<1>6. Single'
  BY <1>5, SingleStays
<1>7. passed' \in [Jobs -> SUBSET Nat] /\ passed' = passed
  BY KnownVerifier
<1>8. UNCHANGED <<jobs, workers, beats, started>>
  OBVIOUS
<1> QED
  BY <1>2, <1>3, <1>4, <1>5, <1>6, <1>7, <1>8, VerifierMoves

LEMMA DepartingSilently ==
    ASSUME IInv, NEW v \in Verifiers, NEW phase \in {"down", "polling"}, Depart(v, phase),
           UNCHANGED <<jobs, workers, beats, started, passed, reports>>,
           faults' \in 0..MaxFaults
    PROVE  IInv'
<1>1. /\ reports' \in [Jobs -> SUBSET Reports]
      /\ \A j \in Jobs : \A report \in reports'[j] :
            report \in reports[j] \/ ReportOK(jobs[j], report)
  BY KnownVerifier
<1>2. UNCHANGED <<jobs, workers, beats, started, passed>>
  OBVIOUS
<1> QED
  BY <1>1, <1>2, Departing

LEMMA DepartingWithReport ==
    ASSUME IInv, NEW v \in Verifiers, NEW phase \in {"down", "polling"}, Depart(v, phase),
           UNCHANGED <<jobs, workers, beats, started, passed>>, faults' \in 0..MaxFaults,
           verifiers[v].phase \notin AtRest,
           NEW status \in Verdicts \cup {"VERIFYING_UNTIL_LEASE_EXPIRY"},
           Reported("verifier", verifiers[v], status),
           status \in Verdicts => /\ jobs[verifiers[v].job].ruling = verifiers[v].lease
                                  /\ jobs[verifiers[v].job].state = status
    PROVE  IInv'
<1>1. PICK p : p = verifiers[v]
  OBVIOUS
<1>2. p \in Processes /\ p.job \in Jobs
  BY <1>1, KnownVerifier DEF VerifierOK
<1>3. /\ Report("verifier", p.lease, status) \in Reports
      /\ Report("verifier", p.lease, status).role = "verifier"
      /\ Report("verifier", p.lease, status).lease = p.lease
      /\ Report("verifier", p.lease, status).status = status
  BY <1>2 DEF Report, Reports, Processes, Verdicts
<1>4. ReportOK(jobs[p.job], Report("verifier", p.lease, status))
  BY <1>1, <1>3 DEF ReportOK, Verdicts
<1>5. Reported("verifier", p, status)
  BY <1>1
<1>6. /\ reports' \in [Jobs -> SUBSET Reports]
      /\ \A j \in Jobs : \A report \in reports'[j] :
            report \in reports[j] \/ ReportOK(jobs[j], report)
  BY <1>2, <1>3, <1>4, <1>5, Reporting
<1> QED
  BY <1>6, Departing

LEMMA SendInspectOK ==
    ASSUME IInv, NEW v \in Verifiers, SendInspect(v),
           UNCHANGED <<jobs, workers, beats, started>>
    PROVE  IInv'
<1>1. PICK p : p = [verifiers[v] EXCEPT !.phase = "claiming"]
  OBVIOUS
<1>2. verifiers[v] \in Processes /\ verifiers[v].phase = "polling"
      /\ VerifierOK(verifiers[v])
  BY KnownVerifier DEF SendInspect
<1>3. p \in Processes /\ p.phase = "claiming" /\ p.job = verifiers[v].job
  BY <1>1, <1>2 DEF Processes
<1>4. VerifierOK(p)
  BY <1>2, <1>3 DEF VerifierOK, AtRest
<1>5. PICK c : c = Call("inspect", v, None, 0, None)
  OBVIOUS
<1>6. Shaped(c) /\ c.op = "inspect" /\ c.from = v /\ c.open = TRUE /\ c.reply = None
  <2>1. c.op = "inspect" /\ c.from = v /\ c.open = TRUE /\ c.reply = None
    BY <1>5 DEF Call
  <2>2. c \in Calls
    BY <1>5 DEF Call, Calls, Ids
  <2> QED
    BY <2>1, <2>2, NewCall DEF WorkerOps, VerifierOps
<1>7. /\ verifiers' = [verifiers EXCEPT ![v] = p] /\ calls' = calls \cup {c}
      /\ UNCHANGED <<passed, reports, faults>>
  BY <1>1, <1>5 DEF SendInspect
<1>8. CallOK(c)'
  <2>1. verifiers'[v].phase = "claiming"
    BY <1>3, <1>7 DEF IInv, Types
  <2>2. Awaiting(c)'
    BY <2>1, <1>6 DEF Awaiting
  <2>3. Grounded(c, jobs, started, passed)'
    BY <1>6, NoneApart DEF Grounded
  <2>4. Shaped(c)'
    BY <1>6 DEF Shaped
  <2> QED
    BY <2>2, <2>3, <2>4 DEF CallOK
<1>9. ASSUME NEW d \in calls, d.open, d.from = v, d.op \in VerifierOps PROVE FALSE
  <2>1. /\ d.op = "inspect" => verifiers[v].phase = "claiming"
        /\ d.op = "rule" => verifiers[v].phase \notin AtRest
    BY <1>9, VerifierCalls
  <2> QED
    BY <1>2, <1>9, <2>1 DEF AtRest, VerifierOps
<1>10. \A d \in calls' : OwnFollows(v, VerifierOps, d) /\ (d.reply = "granted" => d \in calls)
  BY <1>6, <1>7, <1>8, <1>9, NoneApart DEF OwnFollows
<1>11. Single'
  <2>1. "inspect" \in VerifierOps
    BY DEF VerifierOps
  <2> QED
    BY <1>6, <1>7, <1>9, <2>1 DEF IInv, Single
<1>12. /\ passed' \in [Jobs -> SUBSET Nat] /\ passed' = passed
       /\ faults' \in 0..MaxFaults /\ reports' \in [Jobs -> SUBSET Reports]
       /\ reports' = reports
  BY <1>7, KnownVerifier
<1> QED
  BY <1>3, <1>4, <1>7, <1>10, <1>11, <1>12, VerifierMoves

LEMMA InspectOK ==
    ASSUME IInv, NEW v \in Verifiers, Inspect(v),
           UNCHANGED <<jobs, workers, beats, started>>
    PROVE  IInv'
<1>1. PICK c \in Awaited(v, {"inspect"}) :
        /\ c.reply = "granted"
        /\ verifiers' = [verifiers EXCEPT ![v] = [phase |-> "inspecting", job |-> c.job,
                                                  lease |-> c.lease, body |-> None]]
        /\ calls' = calls \ {c}
        /\ UNCHANGED <<passed, reports, faults>>
  BY DEF Inspect
<1>2. c \in calls /\ c.open /\ c.from = v /\ c.op = "inspect"
  BY DEF Awaited
<1>3. Awaiting(c) /\ Grounded(c, jobs, started, passed)
  BY <1>2, KnownCall
<1>4. /\ verifiers[v].phase = "claiming" /\ c.job \in Jobs
      /\ c.lease \in 1..jobs[c.job].granted
  BY <1>1, <1>2, <1>3 DEF Awaiting, Grounded
<1>5. jobs[c.job].granted \in Nat /\ c.lease \in Nat
  BY <1>4 DEF IInv, Types, Row
<1>6. PICK p : p = [phase |-> "inspecting", job |-> c.job, lease |-> c.lease, body |-> None]
  OBVIOUS
<1>7. p \in Processes /\ p.phase = "inspecting" /\ p.job = c.job /\ p.lease = c.lease
  BY <1>4, <1>5, <1>6 DEF Processes
<1>8. verifiers' = [verifiers EXCEPT ![v] = p]
  BY <1>1, <1>6
<1>9. VerifierOK(p)
  BY <1>4, <1>7 DEF VerifierOK, AtRest
<1>10. ASSUME NEW d \in calls, d # c, d.open, d.from = v, d.op \in VerifierOps
       PROVE  FALSE
  <2>1. d.op = "rule" => verifiers[v].phase \notin AtRest
    BY <1>10, VerifierCalls
  <2>2. d.op = "inspect"
    BY <1>4, <1>10, <2>1 DEF AtRest, VerifierOps
  <2> QED
    BY <1>2, <1>10, <2>2 DEF IInv, Single
<1>11. \A d \in calls' : OwnFollows(v, VerifierOps, d) /\ (d.reply = "granted" => d \in calls)
  BY <1>1, <1>10 DEF OwnFollows
<1>12. Single'
  BY <1>1, SingleStays
<1>13. /\ passed' \in [Jobs -> SUBSET Nat] /\ passed' = passed
       /\ faults' \in 0..MaxFaults /\ reports' \in [Jobs -> SUBSET Reports]
       /\ reports' = reports
  BY <1>1, KnownVerifier
<1> QED
  BY <1>7, <1>8, <1>9, <1>11, <1>12, <1>13, VerifierMoves

\* The verdict VERIFIED is sent only of checks that all passed under this lease.
LEMMA SendVerdictOK ==
    ASSUME IInv, NEW v \in Verifiers, NEW phase \in {"ruling", "blocking"},
           NEW verdict \in Verdicts, SendVerdict(v, phase, verdict),
           verifiers[v].phase \notin AtRest,
           UNCHANGED <<jobs, workers, beats, started, reports>>,
           passed' \in [Jobs -> SUBSET Nat],
           \A j \in Jobs : passed[j] \subseteq passed'[j],
           verdict = "VERIFIED" => verifiers[v].lease \in passed'[verifiers[v].job],
           faults' \in 0..MaxFaults
    PROVE  IInv'
<1>1. PICK p : p = [verifiers[v] EXCEPT !.phase = phase, !.body = verdict]
  OBVIOUS
<1>2. verifiers[v] \in Processes /\ VerifierOK(verifiers[v])
  BY KnownVerifier
<1>3. /\ p \in Processes /\ p.phase = phase /\ p.job = verifiers[v].job
      /\ p.lease = verifiers[v].lease /\ p.body = verdict
  BY <1>1, <1>2 DEF Processes, Bodies, Verdicts
<1>4. VerifierOK(p)
  BY <1>2, <1>3 DEF VerifierOK, AtRest
<1>5. PICK c : c = Call("rule", v, verifiers[v].job, verifiers[v].lease, verdict)
  OBVIOUS
<1>6. /\ verifiers' = [verifiers EXCEPT ![v] = p]
      /\ calls' = Closed(Awaited(v, {"rule"})) \cup {c}
  BY <1>1, <1>5 DEF SendVerdict
<1>7. verifiers'[v] = p
  BY <1>6 DEF IInv, Types
<1>8. /\ c.op = "rule" /\ c.from = v /\ c.job = verifiers[v].job
      /\ c.lease = verifiers[v].lease /\ c.body = verdict
      /\ c.open = TRUE /\ c.reply = None
  BY <1>5 DEF Call
<1>9. c \in Calls
  BY <1>2, <1>5 DEF Call, Calls, Ids, Processes, Bodies, Verdicts
<1>10. Shaped(c)
  BY <1>8, <1>9, NewCall DEF WorkerOps, VerifierOps
<1>11. Grounded(c, jobs, started, passed')
  BY <1>2, <1>8, NoneApart DEF Grounded, VerifierOK
<1>12. Awaiting(c)'
  BY <1>3, <1>7, <1>8 DEF Awaiting, Holds
<1>13. CallOK(c)'
  BY <1>10, <1>11, <1>12 DEF CallOK, Shaped
<1>14. ASSUME NEW d \in calls, d.open, d.from = v, d.op \in VerifierOps
       PROVE  d.op = "rule"
  <2>1. d.op = "inspect" => verifiers[v].phase = "claiming"
    BY <1>14, VerifierCalls
  <2> QED
    BY <1>14, <2>1 DEF AtRest, VerifierOps
<1>15. \A d \in calls' : \/ d = c
                         \/ /\ OwnFollows(v, VerifierOps, d)
                            /\ (d.reply = "granted" \/ d.open => d \in calls)
  BY <1>6, <1>14, ClosedCalls DEF OwnFollows
<1>16. \A d \in calls' : OwnFollows(v, VerifierOps, d) /\ (d.reply = "granted" => d \in calls)
  BY <1>8, <1>13, <1>15, NoneApart DEF OwnFollows
<1>17. Single'
  BY <1>8, <1>15, SingleStays
<1>18. reports' \in [Jobs -> SUBSET Reports] /\ reports' = reports
  BY KnownVerifier
<1>19. UNCHANGED <<jobs, workers, beats, started>>
  OBVIOUS
<1> QED
  BY <1>3, <1>4, <1>6, <1>16, <1>17, <1>18, <1>19, VerifierMoves

LEMMA JudgeOK ==
    ASSUME IInv, NEW v \in Verifiers, NEW checks \in SUBSET BOOLEAN, Judge(v, checks),
           UNCHANGED <<jobs, workers, beats, started>>
    PROVE  IInv'
<1>1. PICK p : p = verifiers[v]
  OBVIOUS
<1>2. /\ p.phase = "inspecting" /\ p \in Processes /\ p.job \in Jobs
  BY <1>1, KnownVerifier DEF Judge, VerifierOK, AtRest
<1>3. /\ SendVerdict(v, "ruling", VerdictOf(checks))
      /\ passed' = IF checks = {TRUE} THEN [passed EXCEPT ![p.job] = @ \cup {p.lease}]
                   ELSE passed
      /\ UNCHANGED <<reports, faults>>
  BY <1>1 DEF Judge
<1>4. PICK verdict : verdict = VerdictOf(checks)
  OBVIOUS
<1>5. verdict \in Verdicts /\ (verdict = "VERIFIED" => checks = {TRUE})
  BY <1>4 DEF VerdictOf, Verdicts
<1>6. p.lease \in Nat
  BY <1>2 DEF Processes
<1>7. /\ passed' \in [Jobs -> SUBSET Nat]
      /\ \A j \in Jobs : passed[j] \subseteq passed'[j]
      /\ verdict = "VERIFIED" => p.lease \in passed'[p.job]
  BY <1>2, <1>3, <1>5, <1>6, KnownVerifier
<1>8. /\ faults' \in 0..MaxFaults /\ SendVerdict(v, "ruling", verdict)
      /\ verifiers[v].phase \notin AtRest
      /\ UNCHANGED <<jobs, workers, beats, started, reports>>
  BY <1>1, <1>2, <1>3, <1>4, KnownVerifier DEF AtRest
<1>9. verdict = "VERIFIED" => verifiers[v].lease \in passed'[verifiers[v].job]
  BY <1>1, <1>7
<1> QED
  BY <1>5, <1>7, <1>8, <1>9, SendVerdictOK

LEMMA BlockedOK ==
    ASSUME IInv, NEW v \in Verifiers, SendVerdict(v, "blocking", "BLOCKED"),
           verifiers[v].phase \in {"inspecting", "ruling"}, faults' \in 0..MaxFaults,
           UNCHANGED <<jobs, workers, beats, started, reports, passed>>
    PROVE  IInv'
<1>1. /\ passed' \in [Jobs -> SUBSET Nat] /\ \A j \in Jobs : passed[j] \subseteq passed'[j]
  BY KnownVerifier
<1>2. "BLOCKED" \in Verdicts /\ "BLOCKED" # "VERIFIED" /\ verifiers[v].phase \notin AtRest
  BY DEF Verdicts, AtRest
<1>3. UNCHANGED <<jobs, workers, beats, started, reports>>
  OBVIOUS
<1> QED
  BY <1>1, <1>2, <1>3, SendVerdictOK

LEMMA RulingReturnsOK ==
    ASSUME IInv, NEW v \in Verifiers, RulingReturns(v),
           UNCHANGED <<jobs, workers, beats, started>>
    PROVE  IInv'
<1>1. PICK c \in calls : c.open /\ c.from = v /\ c.op = "rule" /\ c.reply = "done"
  BY DEF RulingReturns, Returns, Awaited
<1>2. Grounded(c, jobs, started, passed) /\ Awaiting(c) /\ Shaped(c)
  BY <1>1, KnownCall
<1>3. /\ verifiers[v].job = c.job /\ verifiers[v].lease = c.lease
      /\ verifiers[v].body = c.body /\ c.body \in Verdicts
  BY <1>1, <1>2 DEF Awaiting, Holds, Shaped
<1>4. jobs[c.job].ruling = c.lease /\ jobs[c.job].state = c.body
  BY <1>1, <1>2 DEF Grounded
<1>5. verifiers[v].phase \notin AtRest
  BY <1>1, VerifierCalls DEF VerifierOps
<1>6. /\ Depart(v, "polling") /\ UNCHANGED <<passed, faults>>
      /\ Reported("verifier", verifiers[v], c.body)
  BY <1>3 DEF RulingReturns
<1>7. faults' \in 0..MaxFaults /\ UNCHANGED <<jobs, workers, beats, started, passed>>
  BY <1>6, KnownVerifier
<1>8. jobs[verifiers[v].job].ruling = verifiers[v].lease /\ jobs[verifiers[v].job].state = c.body
  BY <1>3, <1>4
<1> QED
  BY <1>3, <1>5, <1>6, <1>7, <1>8, DepartingWithReport

LEMMA VerifyOK ==
    ASSUME IInv, NEW v \in Verifiers, Verify(v)
    PROVE  IInv'
<1>1. UNCHANGED <<jobs, workers, beats, started>> /\ faults \in 0..MaxFaults
  BY KnownVerifier DEF Verify
<1>2. CASE SendInspect(v)
  BY <1>1, <1>2, SendInspectOK
<1>3. CASE NothingToInspect(v)
  <2>1. Depart(v, "polling") /\ UNCHANGED <<passed, reports, faults>>
    BY <1>3 DEF NothingToInspect
  <2> QED
    BY <1>1, <2>1, DepartingSilently
<1>4. CASE InspectRaises(v)
  <2>1. Depart(v, "down") /\ UNCHANGED <<passed, reports>> /\ Raises(v, "inspect")
    BY <1>4 DEF InspectRaises
  <2>2. faults' \in 0..MaxFaults
    BY <2>1, FaultsTyped
  <2> QED
    BY <1>1, <2>1, <2>2, DepartingSilently
<1>5. CASE Inspect(v)
  BY <1>1, <1>5, InspectOK
<1>6. CASE \E checks \in SUBSET BOOLEAN \ {{}} : Judge(v, checks)
  BY <1>1, <1>6, JudgeOK
<1>7. CASE ChecksRaise(v)
  BY <1>1, <1>7, BlockedOK DEF ChecksRaise
<1>8. CASE RulingReturns(v)
  BY <1>1, <1>8, RulingReturnsOK
<1>9. CASE RulingRaises(v)
  <2>1. faults' \in 0..MaxFaults
    BY <1>9, FaultsTyped DEF RulingRaises
  <2> QED
    BY <1>1, <1>9, <2>1, BlockedOK DEF RulingRaises
<1>10. CASE BlockingRaises(v)
  <2>1. faults' \in 0..MaxFaults
    BY <1>10, FaultsTyped DEF BlockingRaises
  <2>2. /\ Depart(v, "polling") /\ UNCHANGED passed
        /\ verifiers[v].phase \notin AtRest
        /\ Reported("verifier", verifiers[v], "VERIFYING_UNTIL_LEASE_EXPIRY")
    BY <1>10 DEF BlockingRaises, AtRest
  <2>3. "VERIFYING_UNTIL_LEASE_EXPIRY" \notin Verdicts
    BY DEF Verdicts
  <2> QED
    BY <1>1, <2>1, <2>2, <2>3, DepartingWithReport
<1>11. CASE RestartVerifier(v)
  <2>1. Depart(v, "polling") /\ UNCHANGED <<passed, reports, faults>>
    BY <1>11 DEF RestartVerifier
  <2> QED
    BY <1>1, <2>1, DepartingSilently
<1> QED
  BY <1>2, <1>3, <1>4, <1>5, <1>6, <1>7, <1>8, <1>9, <1>10, <1>11 DEF Verify

LEMMA CrashVerifierOK ==
    ASSUME IInv, NEW v \in Verifiers, CrashVerifier(v)
    PROVE  IInv'
<1>1. Depart(v, "down") /\ UNCHANGED <<jobs, workers, beats, started, passed, reports>>
  BY DEF CrashVerifier
<1>2. faults' \in 0..MaxFaults
  BY KnownVerifier, SystemAssumption DEF CrashVerifier
<1> QED
  BY <1>1, <1>2, DepartingSilently

----------------------------------------------------------------------------
(* The coordinator                                                         *)

\* What a step of the coordinator has to show.
LEMMA CoordinatorStep ==
    ASSUME IInv, UNCHANGED <<workers, beats, verifiers, started, passed, reports>>,
           faults' \in 0..MaxFaults, jobs' \in [Jobs -> Row],
           \A j \in Jobs : RowOK(jobs'[j], started[j], passed[j]) /\ Later(jobs[j], jobs'[j]),
           \A d \in calls' : d \in calls \/ CallOK(d)',
           Single', \A j \in Jobs : Budgeted(j)'
    PROVE  IInv'
<1>1. jobs \in [Jobs -> Row] /\ Types'
  BY DEF IInv, Types
<1>2. ASSUME NEW d \in calls PROVE CallOK(d)'
  <2>1. CallOK(d)
    BY DEF IInv
  <2>2. Grounded(d, jobs', started, passed)
    BY <1>1, <2>1, GroundedStays DEF CallOK
  <2> QED
    BY <2>1, <2>2 DEF CallOK, Shaped, Awaiting
<1>3. ASSUME NEW j \in Jobs, NEW lease, lease \in 1..jobs[j].granted
      PROVE  lease \in 1..jobs'[j].granted
  <2>1. Later(jobs[j], jobs'[j]) /\ jobs[j] \in Row /\ jobs'[j] \in Row
    BY <1>1
  <2>2. jobs[j].granted \in Nat /\ jobs'[j].granted \in Nat
        /\ jobs[j].granted <= jobs'[j].granted
    BY <2>1 DEF Later, Row
  <2> QED
    BY <1>3, <2>2
<1>4. ASSUME NEW w \in Workers PROVE WorkerOK(w, workers[w], beats[w])'
  <2>1. WorkerOK(w, workers[w], beats[w])
    BY DEF IInv
  <2> QED
    BY <1>3, <2>1 DEF WorkerOK
<1>5. ASSUME NEW v \in Verifiers PROVE VerifierOK(verifiers[v])'
  <2>1. VerifierOK(verifiers[v])
    BY DEF IInv
  <2> QED
    BY <1>3, <2>1 DEF VerifierOK
<1>6. \A j \in Jobs : \A report \in reports'[j] : ReportOK(jobs'[j], report)
  BY <1>1, ReportStays DEF IInv
<1>7. \A j \in Jobs : RowOK(jobs'[j], started'[j], passed'[j])
  OBVIOUS
<1>8. \A d \in calls' : CallOK(d)'
  BY <1>2
<1> QED
  BY <1>1, <1>4, <1>5, <1>6, <1>7, <1>8 DEF IInv

\* An answer to a claim, or to another call.
AnswerTo(c, a) ==
    /\ a \in Calls /\ a.op = c.op /\ a.from = c.from /\ a.body = c.body /\ a.open = TRUE
    /\ c.op \in {"claim", "inspect"} => a.reply \in {"idle", "granted"}
    /\ c.op \notin {"claim", "inspect"} =>
          a.reply \in {"done", "refused"} /\ a.job = c.job /\ a.lease = c.lease

LEMMA Answering ==
    ASSUME IInv, NEW c \in calls, c.reply = None, NEW a, Answer(c, a),
           UNCHANGED <<workers, beats, verifiers, started, passed, reports, faults>>,
           jobs' \in [Jobs -> Row],
           \A j \in Jobs : RowOK(jobs'[j], started[j], passed[j]) /\ Later(jobs[j], jobs'[j]),
           c.open => AnswerTo(c, a) /\ Grounded(a, jobs', started, passed),
           \A j \in Jobs : Budgeted(j)'
    PROVE  IInv'
<1>1. CallOK(c)
  BY DEF IInv
<1>2. ASSUME c.open PROVE CallOK(a)'
  <2>1. Shaped(c) /\ Awaiting(c) /\ AnswerTo(c, a)
    BY <1>1, <1>2 DEF CallOK
  <2>2. Shaped(a)
    BY <2>1 DEF Shaped, AnswerTo
  <2>3. Awaiting(a)
    <3>1. /\ a.op = c.op /\ a.from = c.from /\ a.body = c.body
          /\ c.op \notin {"claim", "inspect"} => a.job = c.job /\ a.lease = c.lease
      BY <2>1 DEF AnswerTo
    <3> QED
      BY <2>1, <3>1 DEF Awaiting, Holds
  <2> QED
    BY <1>2, <2>2, <2>3 DEF CallOK, Shaped, Awaiting
<1>3. \A d \in calls' : d \in calls \/ CallOK(d)'
  BY <1>2 DEF Answer
<1>4. Single'
  <2>1. CASE c.open
    <3>1. a.op = c.op /\ a.from = c.from
      BY <2>1 DEF AnswerTo
    <3>2. calls' = (calls \ {c}) \cup {a}
      BY <2>1 DEF Answer
    <3> QED
      BY <2>1, <3>1, <3>2 DEF IInv, Single
  <2>2. CASE ~ c.open
    <3>1. calls' \subseteq calls
      BY <2>2 DEF Answer
    <3> QED
      BY <3>1 DEF IInv, Single
  <2> QED
    BY <2>1, <2>2
<1>5. faults' \in 0..MaxFaults
  BY DEF IInv, Types
<1> QED
  BY <1>3, <1>4, <1>5, CoordinatorStep

\* A row has its attempts, and they do not decrease.
LEMMA AttemptsGrow ==
    ASSUME IInv, jobs' \in [Jobs -> Row], NEW j \in Jobs, Later(jobs[j], jobs'[j])
    PROVE  /\ jobs[j].attempts \in Nat /\ jobs'[j].attempts \in Nat
           /\ jobs[j].attempts <= jobs'[j].attempts
BY SystemAssumption DEF IInv, Types, Row, Later

\* An answer that grants no run keeps the budgets.
LEMMA BudgetsStay ==
    ASSUME IInv, NEW c \in calls, NEW a, Answer(c, a), UNCHANGED started,
           jobs' \in [Jobs -> Row], \A j \in Jobs : Later(jobs[j], jobs'[j]),
           c.open => a.op # "claim" \/ a.reply # "granted"
    PROVE  \A j \in Jobs : Budgeted(j)'
<1>1. \A d \in calls' : d.op = "claim" /\ d.reply = "granted" => d \in calls
  BY DEF Answer
<1> TAKE j \in Jobs
<1>2. Granted(j)' \subseteq Granted(j)
  BY <1>1 DEF Granted
<1>3. Runs(j)' \subseteq Runs(j)
  BY <1>2 DEF Runs, RunOf
<1>4. Budgeted(j)
  BY DEF IInv
<1> QED
  BY <1>3, <1>4, AttemptsGrow, BudgetStays

\* One that grants a run counts an attempt for it.
LEMMA BudgetGrows ==
    ASSUME IInv, NEW c \in calls, NEW a, Answer(c, a), UNCHANGED started,
           jobs' \in [Jobs -> Row], \A j \in Jobs : Later(jobs[j], jobs'[j]),
           NEW k \in Jobs, c.open => a.job = k,
           jobs'[k].attempts = jobs[k].attempts + 1
    PROVE  \A j \in Jobs : Budgeted(j)'
<1> TAKE j \in Jobs
<1>1. Budgeted(j) /\ jobs[j].attempts \in Nat /\ jobs'[j].attempts \in Nat
      /\ jobs[j].attempts <= jobs'[j].attempts
  BY AttemptsGrow DEF IInv
<1>2. CASE j # k
  <2>1. Granted(j)' \subseteq Granted(j)
    BY <1>2 DEF Granted, Answer
  <2>2. Runs(j)' \subseteq Runs(j)
    BY <2>1 DEF Runs, RunOf
  <2> QED
    BY <1>1, <2>2, BudgetStays
<1>3. CASE j = k
  <2>1. PICK A : A = Runs(j)
    OBVIOUS
  <2>2. PICK B : B = Runs(j)'
    OBVIOUS
  <2>3. PICK x : x = RunOf(a)
    OBVIOUS
  <2>4. Granted(j)' \subseteq Granted(j) \cup {a}
    BY DEF Granted, Answer
  <2>5. B \subseteq A \cup {x}
    BY <2>1, <2>2, <2>3, <2>4 DEF Runs, RunOf
  <2>6. IsFiniteSet(A) /\ Cardinality(A) <= jobs[j].attempts /\ Cardinality(A) \in Nat
    BY <1>1, <2>1, FS_CardinalityType DEF Budgeted
  <2>7. /\ IsFiniteSet(A \cup {x}) /\ Cardinality(A \cup {x}) \in Nat
        /\ Cardinality(A \cup {x}) <= Cardinality(A) + 1
    <3>1. /\ IsFiniteSet(A \cup {x})
          /\ \/ Cardinality(A \cup {x}) = Cardinality(A)
             \/ Cardinality(A \cup {x}) = Cardinality(A) + 1
      BY <2>6, FS_AddElement
    <3> QED
      BY <2>6, <3>1
  <2>8. IsFiniteSet(B) /\ Cardinality(B) <= Cardinality(A \cup {x}) /\ Cardinality(B) \in Nat
    BY <2>5, <2>7, FS_Subset, FS_CardinalityType
  <2>9. Cardinality(B) <= jobs'[j].attempts
    BY <1>1, <1>3, <2>6, <2>7, <2>8
  <2> QED
    BY <2>2, <2>8, <2>9 DEF Budgeted
<1> QED
  BY <1>2, <1>3

RowsOK(rows) ==
    /\ rows \in [Jobs -> Row]
    /\ \A j \in Jobs : /\ RowOK(rows[j], started[j], passed[j]) /\ Later(jobs[j], rows[j])
                       /\ rows[j].attempts = jobs[j].attempts

LEMMA ReapedRows ==
    ASSUME IInv
    PROVE  RowsOK([j \in Jobs |-> Reaped(jobs[j])])
<1>1. PICK rows : rows = [j \in Jobs |-> Reaped(jobs[j])]
  OBVIOUS
<1>2. ASSUME NEW j \in Jobs
      PROVE  /\ rows[j] \in Row
             /\ RowOK(rows[j], started[j], passed[j]) /\ Later(jobs[j], rows[j])
             /\ rows[j].attempts = jobs[j].attempts
  <2>1. rows[j] = Reaped(jobs[j]) /\ RowOK(jobs[j], started[j], passed[j])
    BY <1>1 DEF IInv
  <2>2. /\ RowOK(rows[j], started[j], passed[j]) /\ Later(jobs[j], rows[j])
        /\ rows[j].attempts = jobs[j].attempts
    BY <2>1, ReapedOK
  <2> QED
    BY <2>2 DEF RowOK
<1>3. rows \in [Jobs -> Row]
  BY <1>1, <1>2
<1> QED
  BY <1>1, <1>2, <1>3 DEF RowsOK

\* A call as the coordinator finds it.
LEMMA ServedCall ==
    ASSUME IInv, NEW c \in calls
    PROVE  /\ Shaped(c) /\ c \in Calls /\ Grounded(c, jobs, started, passed)
           /\ c.op \in {"claim", "beat", "complete", "fail", "inspect", "rule"}
           /\ c.op \in {"claim", "beat", "complete", "fail"} => c.from \in Workers
           /\ c.op \in {"inspect", "rule"} => c.from \in Verifiers
BY DEF IInv, CallOK, Shaped, Calls, WorkerOps, VerifierOps

LEMMA FindNothingOK ==
    ASSUME IInv, NEW c \in calls, c.reply = None, c.op \in {"claim", "inspect"},
           NEW rows, RowsOK(rows), FindNothing(c, rows),
           UNCHANGED <<workers, beats, verifiers, started, passed, reports, faults>>
    PROVE  IInv'
<1>1. PICK a : a = [c EXCEPT !.reply = "idle"]
  OBVIOUS
<1>2. jobs' = rows /\ Answer(c, a)
  BY <1>1 DEF FindNothing
<1>3. c \in Calls
  BY ServedCall
<1>4. /\ a \in Calls /\ a.op = c.op /\ a.from = c.from /\ a.body = c.body
      /\ a.open = c.open /\ a.reply = "idle"
  BY <1>1, <1>3 DEF Calls, Replies
<1>5. c.open => AnswerTo(c, a)
  BY <1>3, <1>4 DEF AnswerTo, Calls
<1>6. Grounded(a, jobs', started, passed)
  BY <1>4, NoneApart DEF Grounded
<1>7. /\ jobs' \in [Jobs -> Row]
      /\ \A j \in Jobs : RowOK(jobs'[j], started[j], passed[j]) /\ Later(jobs[j], jobs'[j])
  BY <1>2 DEF RowsOK
<1>8. \A j \in Jobs : Budgeted(j)'
  BY <1>2, <1>4, <1>7, BudgetsStay
<1> QED
  BY <1>2, <1>5, <1>6, <1>7, <1>8, Answering

\* What is granted is the newest lease of the row that is committed.
LEMMA GrantOK ==
    ASSUME IInv, NEW c \in calls, c.reply = None, c.op \in {"claim", "inspect"},
           NEW rows, RowsOK(rows), NEW k \in Jobs, NEW r, Grant(c, k, rows, r),
           RowOK(r, started[k], passed[k]), Later(rows[k], r),
           r.lease = r.granted, r.lease # 0,
           c.op = "claim" => r.attempts = jobs[k].attempts + 1,
           UNCHANGED <<workers, beats, verifiers, started, passed, reports, faults>>
    PROVE  IInv'
<1>1. PICK a : a = [c EXCEPT !.reply = "granted", !.job = k, !.lease = r.lease]
  OBVIOUS
<1>2. jobs' = [rows EXCEPT ![k] = r] /\ Answer(c, a)
  BY <1>1 DEF Grant
<1>3. c \in Calls /\ r \in Row
  BY ServedCall DEF RowOK
<1>4. /\ a \in Calls /\ a.op = c.op /\ a.from = c.from /\ a.body = c.body
      /\ a.open = c.open /\ a.reply = "granted" /\ a.job = k /\ a.lease = r.lease
  <2>1. r.lease \in Nat
    BY <1>3 DEF Row
  <2> QED
    BY <1>1, <1>3, <2>1 DEF Calls, Replies
<1>5. c.open => AnswerTo(c, a)
  BY <1>3, <1>4 DEF AnswerTo, Calls
<1>6. /\ jobs' \in [Jobs -> Row] /\ jobs'[k] = r
      /\ \A j \in Jobs \ {k} : jobs'[j] = rows[j]
  BY <1>2, <1>3 DEF RowsOK
<1>7. Grounded(a, jobs', started, passed)
  <2>1. a.lease \in 1..jobs'[a.job].granted
    BY <1>3, <1>4, <1>6 DEF Row
  <2> QED
    BY <1>4, <2>1, NoneApart DEF Grounded
<1>8. \A j \in Jobs : RowOK(jobs'[j], started[j], passed[j]) /\ Later(jobs[j], jobs'[j])
  <2>1. Later(jobs[k], r)
    BY <1>3, LaterTransitive DEF RowsOK, IInv, Types
  <2> QED
    BY <1>6, <2>1 DEF RowsOK
<1>9. \A j \in Jobs : Budgeted(j)'
  <2>1. CASE c.op = "claim"
    <3>1. jobs'[k].attempts = jobs[k].attempts + 1 /\ a.job = k
      BY <1>4, <1>6, <2>1
    <3> QED
      BY <1>2, <1>6, <1>8, <3>1, BudgetGrows
  <2>2. CASE c.op # "claim"
    BY <1>2, <1>4, <1>6, <1>8, <2>2, BudgetsStay
  <2> QED
    BY <2>1, <2>2
<1> QED
  BY <1>2, <1>5, <1>6, <1>7, <1>8, <1>9, Answering

LEMMA ServeClaimOK ==
    ASSUME IInv, NEW c \in calls, c.reply = None, ServeClaim(c),
           UNCHANGED <<workers, beats, verifiers, started, passed, reports, faults>>
    PROVE  IInv'
<1>1. PICK rows : rows = [j \in Jobs |-> Reaped(jobs[j])]
  OBVIOUS
<1>2. RowsOK(rows) /\ c.op = "claim" /\ c.from \in Workers
  BY <1>1, ReapedRows, ServedCall DEF ServeClaim
<1>3. CASE FindNothing(c, rows)
  BY <1>2, <1>3, FindNothingOK
<1>4. ASSUME NEW k \in Jobs, rows[k].state = "QUEUED", rows[k].attempts < Budget,
             Grant(c, k, rows, Leased(rows[k], c.from))
      PROVE  IInv'
  <2>1. PICK r : r = Leased(rows[k], c.from)
    OBVIOUS
  <2>2. PICK q : q = rows[k]
    OBVIOUS
  <2>3. RowOK(q, started[k], passed[k]) /\ q \in Row /\ q.attempts = jobs[k].attempts
    BY <1>2, <2>2 DEF RowsOK
  <2>4. RowOK(r, started[k], passed[k]) /\ Later(q, r)
    BY <1>2, <1>4, <2>1, <2>2, <2>3, LeasedOK
  <2>5. r.lease = q.granted + 1 /\ r.granted = q.granted + 1 /\ r.attempts = q.attempts + 1
    BY <2>1, <2>2, <2>3 DEF Leased, Row
  <2>6. r.lease = r.granted /\ r.lease # 0 /\ r.attempts = jobs[k].attempts + 1
    BY <2>3, <2>5 DEF Row
  <2> QED
    BY <1>2, <1>4, <2>1, <2>2, <2>4, <2>6, GrantOK
<1>5. \/ FindNothing(c, rows)
      \/ \E j \in {k \in Jobs : rows[k].state = "QUEUED" /\ rows[k].attempts < Budget} :
            Grant(c, j, rows, Leased(rows[j], c.from))
  BY <1>1 DEF ServeClaim
<1> QED
  BY <1>3, <1>4, <1>5

LEMMA ServeInspectOK ==
    ASSUME IInv, NEW c \in calls, c.reply = None, ServeInspect(c),
           UNCHANGED <<workers, beats, verifiers, started, passed, reports, faults>>
    PROVE  IInv'
<1>1. PICK rows : rows = [j \in Jobs |-> Reaped(jobs[j])]
  OBVIOUS
<1>2. RowsOK(rows) /\ c.op = "inspect" /\ c.from \in Verifiers
  BY <1>1, ReapedRows, ServedCall DEF ServeInspect
<1>3. CASE FindNothing(c, rows)
  BY <1>2, <1>3, FindNothingOK
<1>4. ASSUME NEW k \in Jobs, rows[k].state = "EXECUTED", rows[k].worker # c.from,
             Grant(c, k, rows, UnderInspection(rows[k], c.from))
      PROVE  IInv'
  <2>1. PICK r : r = UnderInspection(rows[k], c.from)
    OBVIOUS
  <2>2. PICK q : q = rows[k]
    OBVIOUS
  <2>3. RowOK(q, started[k], passed[k]) /\ q \in Row
    BY <1>2, <2>2 DEF RowsOK
  <2>4. RowOK(r, started[k], passed[k]) /\ Later(q, r)
    BY <1>2, <1>4, <2>1, <2>2, <2>3, UnderInspectionOK
  <2>5. r.lease = q.granted + 1 /\ r.granted = q.granted + 1
    BY <2>1, <2>2, <2>3 DEF UnderInspection, Row
  <2>6. r.lease = r.granted /\ r.lease # 0
    BY <2>3, <2>5 DEF Row
  <2> QED
    BY <1>2, <1>4, <2>1, <2>2, <2>4, <2>6, GrantOK
<1>5. \/ FindNothing(c, rows)
      \/ \E j \in {k \in Jobs : rows[k].state = "EXECUTED" /\ rows[k].worker # c.from} :
            Grant(c, j, rows, UnderInspection(rows[j], c.from))
  BY <1>1 DEF ServeInspect
<1> QED
  BY <1>3, <1>4, <1>5

\* A call other than a claim is answered, and the row of its job is s from then on.
LEMMA SettledOK ==
    ASSUME IInv, NEW c \in calls, c.reply = None,
           c.op \in {"beat", "complete", "fail", "rule"},
           NEW reply \in {"done", "refused"}, Answer(c, [c EXCEPT !.reply = reply]),
           NEW s, jobs' = [jobs EXCEPT ![c.job] = s],
           RowOK(s, started[c.job], passed[c.job]), Later(jobs[c.job], s),
           reply = "done" /\ c.op = "complete" => s.receipt = c.lease,
           reply = "done" /\ c.op = "fail" => Spent(s, c.lease),
           reply = "done" /\ c.op = "rule" => s.ruling = c.lease /\ s.state = c.body,
           UNCHANGED <<workers, beats, verifiers, started, passed, reports, faults>>
    PROVE  IInv'
<1>1. PICK a : a = [c EXCEPT !.reply = reply]
  OBVIOUS
<1>2. PICK k : k = c.job
  OBVIOUS
<1>3. c \in Calls /\ s \in Row /\ Grounded(c, jobs, started, passed) /\ Answer(c, a)
  BY <1>1, ServedCall DEF RowOK
<1>4. k \in Jobs /\ c.lease \in 1..jobs[k].granted
  BY <1>2, <1>3 DEF Grounded
<1>5. /\ a \in Calls /\ a.op = c.op /\ a.from = c.from /\ a.body = c.body
      /\ a.open = c.open /\ a.reply = reply /\ a.job = k /\ a.lease = c.lease
  BY <1>1, <1>2, <1>3 DEF Calls, Replies
<1>6. c.open => AnswerTo(c, a)
  BY <1>2, <1>3, <1>5 DEF AnswerTo, Calls
<1>7. /\ jobs' \in [Jobs -> Row] /\ jobs'[k] = s
      /\ \A j \in Jobs \ {k} : jobs'[j] = jobs[j]
  BY <1>2, <1>3, <1>4 DEF IInv, Types
<1>8. \A j \in Jobs : RowOK(jobs'[j], started[j], passed[j]) /\ Later(jobs[j], jobs'[j])
  BY <1>2, <1>7, LaterReflexive DEF IInv, Types
<1>9. a.lease \in 1..jobs'[k].granted
  <2>1. jobs[k] \in Row /\ Later(jobs[k], s)
    BY <1>2, <1>4 DEF IInv, Types
  <2>2. jobs[k].granted \in Nat /\ s.granted \in Nat /\ jobs[k].granted <= s.granted
    BY <1>3, <2>1 DEF Row, Later
  <2> QED
    BY <1>4, <1>5, <1>7, <2>2
<1>10. /\ a.op = "complete" => RunOf(a) \in started[k]
       /\ a.op = "rule" /\ a.body = "VERIFIED" => a.lease \in passed[k]
  BY <1>2, <1>3, <1>5 DEF Grounded, RunOf
<1>11. Grounded(a, jobs', started, passed)
  <2>1. /\ a.op = "complete" /\ a.reply = "done" => jobs'[k].receipt = a.lease
        /\ a.op = "fail" /\ a.reply = "done" => Spent(jobs'[k], a.lease)
        /\ a.op = "rule" /\ a.reply = "done" =>
              jobs'[k].ruling = a.lease /\ jobs'[k].state = a.body
    BY <1>5, <1>7
  <2> QED
    BY <1>4, <1>5, <1>9, <1>10, <2>1 DEF Grounded, RunOf
<1>12. \A j \in Jobs : Budgeted(j)'
  BY <1>3, <1>5, <1>7, <1>8, BudgetsStay
<1> QED
  BY <1>3, <1>6, <1>7, <1>8, <1>11, <1>12, Answering

LEMMA PerformOK ==
    ASSUME IInv, NEW c \in calls, c.reply = None, Perform(c),
           UNCHANGED <<workers, beats, verifiers, started, passed, reports, faults>>
    PROVE  IInv'
<1>1. PICK k : k = c.job
  OBVIOUS
<1>2. PICK r : r = jobs[k]
  OBVIOUS
<1>3. /\ Grounded(c, jobs, started, passed) /\ Shaped(c)
      /\ c.op \in {"beat", "complete", "fail", "rule"}
      /\ Answer(c, [c EXCEPT !.reply = "done"])
  BY ServedCall DEF Perform
<1>4. k \in Jobs /\ c.lease \in 1..r.granted
  BY <1>1, <1>2, <1>3 DEF Grounded
<1>5. RowOK(r, started[k], passed[k]) /\ r \in Row /\ r = jobs[c.job]
  BY <1>1, <1>2, <1>4 DEF IInv, Types
<1>6. /\ c.lease = r.lease
      /\ c.op = "rule" => r.state = "VERIFYING" /\ c.from = r.verifier
      /\ c.op # "rule" => r.state = "LEASED" /\ c.from = r.worker
  BY <1>1, <1>2 DEF Perform, Entitled, Bearer
<1>7. CASE c.op = "beat" /\ jobs' = [jobs EXCEPT ![c.job].lapsed = FALSE]
  <2>1. PICK s : s = [r EXCEPT !.lapsed = FALSE]
    OBVIOUS
  <2>2. RowOK(s, started[k], passed[k]) /\ Later(r, s)
    BY <1>5, <1>6, <1>7, <2>1, LapsedOK
  <2>3. jobs' = [jobs EXCEPT ![c.job] = s]
    BY <1>5, <1>7, <2>1
  <2> QED
    BY <1>1, <1>3, <1>5, <1>7, <2>2, <2>3, SettledOK
<1>8. CASE c.op = "complete" /\ jobs' = [jobs EXCEPT ![c.job] = Delivered(@, c.lease)]
  <2>1. PICK s : s = Delivered(r, r.lease)
    OBVIOUS
  <2>2. [by |-> r.worker, lease |-> r.lease] \in started[k] /\ r.lease \in 1..r.granted
    BY <1>1, <1>3, <1>4, <1>6, <1>8 DEF Grounded
  <2>3. RowOK(s, started[k], passed[k]) /\ Later(r, s)
    BY <1>5, <1>6, <1>8, <2>1, <2>2, DeliveredOK
  <2>4. s.receipt = c.lease
    BY <1>5, <1>6, <2>1 DEF Delivered, Row
  <2>5. jobs' = [jobs EXCEPT ![c.job] = s]
    BY <1>5, <1>6, <1>8, <2>1
  <2> QED
    BY <1>1, <1>3, <1>5, <1>8, <2>3, <2>4, <2>5, SettledOK
<1>9. CASE c.op = "fail" /\ jobs' = [jobs EXCEPT ![c.job] = AttemptLost(@)]
  <2>1. PICK s : s = AttemptLost(r)
    OBVIOUS
  <2>2. /\ RowOK(s, started[k], passed[k]) /\ Later(r, s)
        /\ s.lease = 0 /\ s.receipt = 0 /\ s.granted = r.granted
    BY <1>5, <1>6, <1>9, <2>1, Lost
  <2>3. Spent(s, c.lease)
    BY <1>4, <1>5, <2>2 DEF Spent, Row
  <2>4. jobs' = [jobs EXCEPT ![c.job] = s]
    BY <1>5, <1>9, <2>1
  <2> QED
    BY <1>1, <1>3, <1>5, <1>9, <2>2, <2>3, <2>4, SettledOK
<1>10. CASE c.op = "rule" /\ jobs' = [jobs EXCEPT ![c.job] = Ruled(@, c.body, c.lease)]
  <2>1. PICK verdict : verdict = c.body
    OBVIOUS
  <2>2. PICK s : s = Ruled(r, verdict, r.lease)
    OBVIOUS
  <2>3. verdict \in Verdicts /\ (verdict = "VERIFIED" => r.lease \in passed[k])
    BY <1>1, <1>3, <1>6, <1>10, <2>1 DEF Shaped, Grounded
  <2>4. RowOK(s, started[k], passed[k]) /\ Later(r, s)
    BY <1>5, <1>6, <1>10, <2>2, <2>3, RuledOK
  <2>5. s.ruling = c.lease /\ s.state = c.body
    BY <1>5, <1>6, <2>1, <2>2 DEF Ruled, Row
  <2>6. jobs' = [jobs EXCEPT ![c.job] = s]
    BY <1>5, <1>6, <1>10, <2>1, <2>2
  <2> QED
    BY <1>1, <1>3, <1>5, <1>10, <2>4, <2>5, <2>6, SettledOK
<1> QED
  BY <1>7, <1>8, <1>9, <1>10 DEF Perform

LEMMA RefuseOK ==
    ASSUME IInv, NEW c \in calls, c.reply = None, Refuse(c),
           UNCHANGED <<workers, beats, verifiers, started, passed, reports, faults>>
    PROVE  IInv'
<1>1. /\ Grounded(c, jobs, started, passed)
      /\ c.op \in {"beat", "complete", "fail", "rule"}
      /\ Answer(c, [c EXCEPT !.reply = "refused"]) /\ UNCHANGED jobs
  BY ServedCall DEF Refuse
<1>2. c.job \in Jobs
  BY <1>1 DEF Grounded
<1>3. PICK s : s = jobs[c.job]
  OBVIOUS
<1>4. /\ RowOK(s, started[c.job], passed[c.job]) /\ Later(jobs[c.job], s)
      /\ jobs' = [jobs EXCEPT ![c.job] = s]
  BY <1>1, <1>2, <1>3, LaterReflexive DEF IInv, Types
<1> QED
  BY <1>1, <1>4, SettledOK

LEMMA ServeOK ==
    ASSUME IInv, NEW c \in calls, Serve(c)
    PROVE  IInv'
<1>1. c.reply = None
      /\ UNCHANGED <<workers, beats, verifiers, started, passed, reports, faults>>
  BY DEF Serve
<1> QED
  BY <1>1, ServeClaimOK, ServeInspectOK, PerformOK, RefuseOK DEF Serve

LEMMA LoseOK ==
    ASSUME IInv, NEW c \in calls, Lose(c)
    PROVE  IInv'
<1>1. /\ calls' \subseteq calls /\ faults' \in 0..MaxFaults
      /\ UNCHANGED <<jobs, workers, beats, verifiers, started, passed, reports>>
  BY DEF Lose, IInv, Types
<1>2. Single'
  BY <1>1, SingleStays
<1>3. /\ jobs' \in [Jobs -> Row]
      /\ \A j \in Jobs : RowOK(jobs'[j], started[j], passed[j]) /\ Later(jobs[j], jobs'[j])
  BY <1>1, LaterReflexive DEF IInv, Types
<1>4. ASSUME NEW j \in Jobs PROVE Budgeted(j)'
  <2>1. Budgeted(j) /\ Runs(j)' \subseteq Runs(j)
    BY <1>1, NoGrant DEF IInv
  <2> QED
    BY <1>3, <2>1, AttemptsGrow, BudgetStays
<1> QED
  BY <1>1, <1>2, <1>3, <1>4, CoordinatorStep

\* A row changes and nothing else does.
LEMMA RowStep ==
    ASSUME IInv, NEW k \in Jobs, NEW s, jobs' = [jobs EXCEPT ![k] = s],
           RowOK(s, started[k], passed[k]), Later(jobs[k], s), faults' \in 0..MaxFaults,
           UNCHANGED <<calls, workers, beats, verifiers, started, passed, reports>>
    PROVE  IInv'
<1>1. Single'
  BY SingleStays
<1>2. /\ jobs' \in [Jobs -> Row]
      /\ \A j \in Jobs : RowOK(jobs'[j], started[j], passed[j]) /\ Later(jobs[j], jobs'[j])
  BY LaterReflexive DEF IInv, Types, RowOK
<1>3. ASSUME NEW j \in Jobs PROVE Budgeted(j)'
  <2>1. Budgeted(j) /\ Runs(j)' \subseteq Runs(j)
    BY NoGrant DEF IInv
  <2> QED
    BY <1>2, <2>1, AttemptsGrow, BudgetStays
<1> QED
  BY <1>1, <1>2, <1>3, CoordinatorStep

LEMMA EnqueueOK ==
    ASSUME IInv, NEW k \in Jobs, Enqueue(k)
    PROVE  IInv'
<1>1. PICK r : r = jobs[k]
  OBVIOUS
<1>2. PICK s : s = [r EXCEPT !.state = "QUEUED"]
  OBVIOUS
<1>3. RowOK(r, started[k], passed[k]) /\ r.state = "ABSENT"
  BY <1>1 DEF IInv, Enqueue
<1>4. RowOK(s, started[k], passed[k]) /\ Later(r, s)
  BY <1>2, <1>3, QueuedOK
<1>5. jobs' = [jobs EXCEPT ![k] = s] /\ faults' \in 0..MaxFaults
      /\ UNCHANGED <<calls, workers, beats, verifiers, started, passed, reports>>
  BY <1>1, <1>2 DEF Enqueue, IInv, Types
<1> QED
  BY <1>1, <1>4, <1>5, RowStep

LEMMA LapseOK ==
    ASSUME IInv, NEW k \in Jobs, Lapse(k)
    PROVE  IInv'
<1>1. PICK r : r = jobs[k]
  OBVIOUS
<1>2. PICK s : s = [r EXCEPT !.lapsed = TRUE]
  OBVIOUS
<1>3. RowOK(r, started[k], passed[k]) /\ r.state \in {"LEASED", "VERIFYING"}
  BY <1>1 DEF IInv, Lapse
<1>4. RowOK(s, started[k], passed[k]) /\ Later(r, s)
  BY <1>2, <1>3, LapsedOK
<1>5. jobs' = [jobs EXCEPT ![k] = s]
      /\ UNCHANGED <<calls, workers, beats, verifiers, started, passed, reports>>
  BY <1>1, <1>2 DEF Lapse, IInv, Types
<1>6. faults' \in 0..MaxFaults
  BY SystemAssumption DEF Lapse, IInv, Types
<1> QED
  BY <1>1, <1>4, <1>5, <1>6, RowStep

----------------------------------------------------------------------------
(* The invariant                                                           *)

LEMMA Initially ==
    ASSUME Init PROVE IInv
<1>1. NoRow \in Row
  BY SystemAssumption DEF NoRow, Row
<1>2. At("polling") \in Processes /\ At("polling").job = None /\ At("polling").phase = "polling"
  BY DEF At, Processes
<1>3. Types
  BY <1>1, <1>2, SystemAssumption DEF Init, Types, Beats
<1>4. \A j \in Jobs : RowOK(jobs[j], started[j], passed[j])
  BY <1>1 DEF Init, RowOK, NoRow
<1>5. \A w \in Workers : WorkerOK(w, workers[w], beats[w])
  BY <1>2 DEF Init, WorkerOK, AtRest
<1>6. \A v \in Verifiers : VerifierOK(verifiers[v])
  BY <1>2 DEF Init, VerifierOK, AtRest
<1>7. ASSUME NEW j \in Jobs PROVE Budgeted(j)
  <2>1. Runs(j) = {} /\ jobs[j].attempts = 0
    BY DEF Init, Runs, Granted, NoRow
  <2> QED
    BY <2>1, FS_EmptySet DEF Budgeted
<1> QED
  BY <1>3, <1>4, <1>5, <1>6, <1>7 DEF Init, IInv, Single

LEMMA Stuttering ==
    ASSUME IInv, UNCHANGED vars PROVE IInv'
<1>1. UNCHANGED <<jobs, calls, workers, beats, verifiers, started, passed, reports, faults>>
  BY DEF vars
<1> USE <1>1
<1>2. Types' /\ Single'
  BY DEF IInv, Types, Single
<1>3. \A j \in Jobs : RowOK(jobs[j], started[j], passed[j])'
  BY DEF IInv
<1>4. \A c \in calls : CallOK(c)
  BY DEF IInv
<1>5. \A c \in calls' : CallOK(c)'
  BY <1>4 DEF CallOK, Awaiting, Shaped
<1>6. \A w \in Workers : WorkerOK(w, workers[w], beats[w])'
  BY DEF IInv, WorkerOK
<1>7. \A v \in Verifiers : VerifierOK(verifiers[v])'
  BY DEF IInv, VerifierOK
<1>8. \A j \in Jobs : \A report \in reports'[j] : ReportOK(jobs'[j], report)
  BY DEF IInv
<1>9. \A j \in Jobs : Budgeted(j)'
  BY DEF IInv, Budgeted, Runs, Granted, RunOf
<1> QED
  BY <1>2, <1>3, <1>5, <1>6, <1>7, <1>8, <1>9 DEF IInv

LEMMA EveryStep ==
    ASSUME IInv, [Next]_vars PROVE IInv'
<1>1. CASE \E j \in Jobs : Enqueue(j) \/ Lapse(j)
  BY <1>1, EnqueueOK, LapseOK
<1>2. CASE \E c \in calls : Serve(c) \/ Lose(c)
  BY <1>2, ServeOK, LoseOK
<1>3. CASE \E w \in Workers : Main(w) \/ Beat(w) \/ CrashWorker(w)
  BY <1>3, MainOK, BeatOK, CrashWorkerOK
<1>4. CASE \E v \in Verifiers : Verify(v) \/ CrashVerifier(v)
  BY <1>4, VerifyOK, CrashVerifierOK
<1>5. CASE UNCHANGED vars
  BY <1>5, Stuttering
<1> QED
  BY <1>1, <1>2, <1>3, <1>4, <1>5 DEF Next

\* Everything above holds of every reachable state: of the rows, of each call at
\* whatever time it is carried out, of each process and of each report.
THEOREM Inductive == Spec => []IInv
BY Initially, EveryStep, PTL DEF Spec

----------------------------------------------------------------------------
(* The theorems                                                            *)

\* Every variable is well typed: the rows of the coordinator, the calls under way
\* and the processes of fleet_worker.py.
THEOREM Typed == Spec => []TypeOK
<1>1. IInv => TypeOK
  BY DEF IInv, Types, TypeOK, CallOK, Shaped, Beats, Starts
<1> QED
  BY <1>1, Inductive, PTL

\* What run_once returns stays true of the job, whatever given up calls arrive
\* later.
THEOREM ReportsStayTrue == Spec => []ReportsAreTrue
<1>1. ASSUME IInv PROVE ReportsAreTrue
  <2>1. ASSUME NEW j \in Jobs, NEW report \in reports[j]
        PROVE  ReportIsTrue(jobs[j], report)
    <3>1. ReportOK(jobs[j], report)
      BY <1>1 DEF IInv
    <3> QED
      BY <3>1 DEF ReportOK, ReportIsTrue, Spent, Verdicts
  <2> QED
    BY <2>1 DEF ReportsAreTrue
<1> QED
  BY <1>1, Inductive, PTL

\* No job is started more often than its budget of attempts allows, through
\* crashes, lost replies and lapsed leases.
THEOREM BudgetHolds == Spec => []RunsWithinBudget
<1>1. ASSUME IInv PROVE RunsWithinBudget
  <2>1. ASSUME NEW j \in Jobs PROVE Cardinality(started[j]) <= Budget
    <3>1. PICK A : A = Runs(j)
      OBVIOUS
    <3>2. /\ IsFiniteSet(A) /\ Cardinality(A) <= jobs[j].attempts
          /\ started[j] \subseteq A
      BY <1>1, <3>1 DEF IInv, Budgeted, Runs
    <3>3. /\ Cardinality(started[j]) <= Cardinality(A) /\ Cardinality(A) \in Nat
          /\ Cardinality(started[j]) \in Nat
      BY <3>2, FS_Subset, FS_CardinalityType
    <3>4. jobs[j].attempts \in Nat /\ Budget \in Nat /\ jobs[j].attempts <= Budget
      BY <1>1, SystemAssumption DEF IInv, Types, Row
    <3> QED
      BY <3>2, <3>3, <3>4
  <2> QED
    BY <2>1 DEF RunsWithinBudget
<1> QED
  BY <1>1, Inductive, PTL

\* A job is verified only when all checks passed under the very lease of the
\* verdict, by another identity than the one whose run delivered the receipt.
THEOREM VerifiedAreEarned == Spec => []VerifiedIsEarned
<1>1. ASSUME IInv PROVE VerifiedIsEarned
  <2>1. ASSUME NEW j \in Jobs, jobs[j].state = "VERIFIED" PROVE Earned(j)
    <3>1. RowOK(jobs[j], started[j], passed[j])
      BY <1>1 DEF IInv
    <3> QED
      BY <2>1, <3>1 DEF RowOK, Earned
  <2> QED
    BY <2>1 DEF VerifiedIsEarned
<1> QED
  BY <1>1, Inductive, PTL

\* If stop() always waits until the heartbeat thread has ended, a worker whose
\* heartbeat failed has no receipt under way that could still be accepted; the
\* five seconds after which it waits no longer are what breaks this.
THEOREM JoinedAreWithheld ==
    ASSUME JoinTimesOut = FALSE PROVE Spec => []WithheldAfterLoss
<1>1. ASSUME IInv PROVE WithheldAfterLoss
  <2>1. ASSUME NEW w \in Workers, beats[w] = "failed", NEW c \in Awaited(w, {"complete"})
        PROVE  FALSE
    <3>1. c \in calls /\ c.open /\ c.from = w /\ c.op = "complete"
      BY <2>1 DEF Awaited
    <3>2. Awaiting(c)
      BY <1>1, <3>1, KnownCall
    <3>3. workers[w].phase = "completing"
      BY <3>1, <3>2 DEF Awaiting
    <3>4. WorkerOK(w, workers[w], beats[w])
      BY <1>1 DEF IInv
    <3> QED
      BY <2>1, <3>3, <3>4 DEF WorkerOK
  <2> QED
    BY <2>1 DEF WithheldAfterLoss
<1> QED
  BY <1>1, Inductive, PTL

----------------------------------------------------------------------------
(* The contract of the coordinator                                         *)

LEMMA LifeFields ==
    ASSUME NEW r \in Row
    PROVE  LET l == LifeOf(r) IN
           /\ l \in Contract!Life
           /\ l.tries = r.attempts /\ l.producer = r.worker /\ l.judge = r.verifier
           /\ l.budget = IF r.state = "ABSENT" THEN 0 ELSE Budget
           /\ r.state = "ABSENT" => l.phase = "unborn"
           /\ r.state = "QUEUED" => l.phase = "waiting"
           /\ r.state = "LEASED" => l.phase = "running"
           /\ r.state = "EXECUTED" => l.phase = "delivered"
           /\ r.state = "VERIFYING" => l.phase = "inspecting"
           /\ r.state = "FAILED" => l.phase = "failed"
           /\ r.state \in Verdicts => l.phase \in Contract!Ended
BY LifeTyped DEF LifeOf, Phase, Verdicts, Contract!Ended

\* A lease is granted.
LEMMA GrantsMove ==
    ASSUME NEW l \in Contract!Life, NEW k \in Contract!Life, k.budget = l.budget
    PROVE  /\ /\ l.phase \in {"waiting", "running"} /\ l.tries < l.budget
              /\ k.phase = "running" /\ k.tries = l.tries + 1 /\ k.judge = l.judge
              /\ k.producer \in Ids
              => Contract!Start(l, k) \/ Contract!Takeover(l, k)
           /\ /\ l.phase \in {"delivered", "inspecting"} /\ k.phase = "inspecting"
              /\ k.tries = l.tries /\ k.producer = l.producer
              /\ k.judge \in Ids \ {l.producer}
              => Contract!Inspect(l, k)
<1>1. PICK A : A = Ids
  OBVIOUS
<1>2. ASSUME l.phase = "waiting", l.tries < l.budget, k.phase = "running",
             k.tries = l.tries + 1, k.judge = l.judge, k.producer \in A
      PROVE  Contract!Start(l, k)
  BY <1>1, <1>2 DEF Contract!Start, Contract!Life
<1>3. ASSUME l.phase = "running", l.tries < l.budget, k.phase = "running",
             k.tries = l.tries + 1, k.judge = l.judge, k.producer \in A
      PROVE  Contract!Takeover(l, k)
  BY <1>1, <1>3 DEF Contract!Takeover, Contract!Life
<1>4. ASSUME l.phase \in {"delivered", "inspecting"}, k.phase = "inspecting",
             k.tries = l.tries, k.producer = l.producer, k.judge \in A \ {l.producer}
      PROVE  Contract!Inspect(l, k)
  BY <1>1, <1>4 DEF Contract!Inspect, Contract!Life
<1> QED
  BY <1>1, <1>2, <1>3, <1>4

\* A row becomes another one as the contract has it, field by field.
LEMMA RowsMove ==
    ASSUME NEW r \in Row, NEW s \in Row, s.attempts = r.attempts
    PROVE  /\ /\ r.state = "ABSENT" /\ s.state = "QUEUED"
              /\ s.worker = r.worker /\ s.verifier = r.verifier
              => Moves(r, s)
           /\ /\ r.state = "LEASED" /\ s.worker = None /\ s.verifier = r.verifier
              /\ s.state = (IF r.attempts < Budget THEN "QUEUED" ELSE "FAILED")
              => Moves(r, s)
           /\ /\ r.state = "LEASED" /\ s.state = "EXECUTED"
              /\ s.worker = r.worker /\ s.verifier = r.verifier
              => Moves(r, s)
           /\ /\ r.state = "VERIFYING" /\ s.state = "EXECUTED"
              /\ s.worker = r.worker /\ s.verifier = None
              => Moves(r, s)
           /\ /\ r.state = "VERIFYING" /\ s.state \in Verdicts
              /\ s.worker = r.worker /\ s.verifier = r.verifier
              => Moves(r, s)
<1> DEFINE l == LifeOf(r)
           k == LifeOf(s)
<1>1. l \in Contract!Life /\ k \in Contract!Life /\ k.tries = l.tries
  BY LifeFields
<1>2. ASSUME r.state = "ABSENT", s.state = "QUEUED",
             s.worker = r.worker, s.verifier = r.verifier
      PROVE  Moves(r, s)
  <2>1. /\ l.phase = "unborn" /\ k.phase = "waiting" /\ k.budget = Budget
        /\ k.producer = l.producer /\ k.judge = l.judge
    BY <1>2, LifeFields
  <2>2. Contract!Submit(l, k)
    <3> HIDE DEF l, k
    <3> QED
      BY <1>1, <2>1 DEF Contract!Submit, Contract!Life
  <2> QED
    BY <2>2 DEF Contract!Move, Moves
<1>3. ASSUME r.state = "LEASED", s.worker = None, s.verifier = r.verifier,
             s.state = (IF r.attempts < Budget THEN "QUEUED" ELSE "FAILED")
      PROVE  Moves(r, s)
  <2>1. /\ l.phase = "running" /\ k.budget = l.budget /\ k.producer = None
        /\ k.phase = (IF l.tries < l.budget THEN "waiting" ELSE "failed")
        /\ k.judge = l.judge
    BY <1>3, LifeFields
  <2>2. Contract!Lose(l, k)
    <3> HIDE DEF l, k
    <3> QED
      BY <1>1, <2>1 DEF Contract!Lose, Contract!Life
  <2> QED
    BY <2>2 DEF Contract!Move, Moves
<1>4. ASSUME r.state = "LEASED", s.state = "EXECUTED",
             s.worker = r.worker, s.verifier = r.verifier
      PROVE  Moves(r, s)
  <2>1. /\ l.phase = "running" /\ k.phase = "delivered" /\ k.budget = l.budget
        /\ k.producer = l.producer /\ k.judge = l.judge
    BY <1>4, LifeFields
  <2>2. Contract!Deliver(l, k)
    <3> HIDE DEF l, k
    <3> QED
      BY <1>1, <2>1 DEF Contract!Deliver, Contract!Life
  <2> QED
    BY <2>2 DEF Contract!Move, Moves
<1>5. ASSUME r.state = "VERIFYING", s.state = "EXECUTED",
             s.worker = r.worker, s.verifier = None
      PROVE  Moves(r, s)
  <2>1. /\ l.phase = "inspecting" /\ k.phase = "delivered" /\ k.budget = l.budget
        /\ k.producer = l.producer /\ k.judge = None
    BY <1>5, LifeFields
  <2>2. Contract!Abandon(l, k)
    <3> HIDE DEF l, k
    <3> QED
      BY <1>1, <2>1 DEF Contract!Abandon, Contract!Life
  <2> QED
    BY <2>2 DEF Contract!Move, Moves
<1>6. ASSUME r.state = "VERIFYING", s.state \in Verdicts,
             s.worker = r.worker, s.verifier = r.verifier
      PROVE  Moves(r, s)
  <2>1. /\ l.phase = "inspecting" /\ k.phase \in Contract!Ended /\ k.budget = l.budget
        /\ k.producer = l.producer /\ k.judge = l.judge
    <3>1. s.state # "ABSENT"
      BY <1>6 DEF Verdicts
    <3> QED
      BY <1>6, <3>1, LifeFields
  <2>2. Contract!Rule(l, k)
    <3> HIDE DEF l, k
    <3> QED
      BY <1>1, <2>1 DEF Contract!Rule, Contract!Life
  <2> QED
    BY <2>2 DEF Contract!Move, Moves
<1> QED
  BY <1>2, <1>3, <1>4, <1>5, <1>6

\* Taking a lease back is a move, or nothing.
LEMMA ReapedMoves ==
    ASSUME NEW ran, NEW sound, NEW r, RowOK(r, ran, sound)
    PROVE  Moves(r, Reaped(r))
<1>1. r \in Row
  BY DEF RowOK
<1>2. CASE ~ r.lapsed
  BY <1>2 DEF Reaped, Moves
<1>3. CASE r.lapsed /\ r.state = "LEASED"
  <2>1. PICK s : s = AttemptLost(r)
    OBVIOUS
  <2>2. s \in Row /\ s = Reaped(r)
    BY <1>3, <2>1, Lost DEF Reaped, RowOK
  <2>3. Moves(r, s)
    BY <1>1, <1>3, <2>1, <2>2, Lost, RowsMove
  <2> QED
    BY <2>2, <2>3
<1>4. CASE r.lapsed /\ r.state # "LEASED"
  <2>1. r.state = "VERIFYING"
    BY <1>4 DEF RowOK
  <2>2. PICK s : s = InspectionLost(r)
    OBVIOUS
  <2>3. s \in Row /\ s = Reaped(r)
    BY <1>4, <2>1, <2>2, Abandoned DEF Reaped, RowOK
  <2>4. /\ s.attempts = r.attempts /\ s.state = "EXECUTED"
        /\ s.worker = r.worker /\ s.verifier = None
    BY <2>1, <2>2, Abandoned
  <2>5. Moves(r, s)
    BY <1>1, <2>1, <2>3, <2>4, RowsMove
  <2> QED
    BY <2>3, <2>5
<1> QED
  BY <1>2, <1>3, <1>4

\* A claim may take a lease back and grant it in one step.
LEMMA LeasedMoves ==
    ASSUME NEW ran, NEW sound, NEW r, RowOK(r, ran, sound), NEW w \in Workers,
           Reaped(r).state = "QUEUED", Reaped(r).attempts < Budget
    PROVE  Moves(r, Leased(Reaped(r), w))
<1>1. PICK u : u = Reaped(r)
  OBVIOUS
<1>2. PICK s : s = Leased(u, w)
  OBVIOUS
<1>3. RowOK(u, ran, sound) /\ u.state = "QUEUED" /\ u.attempts < Budget
      /\ u.attempts = r.attempts
  BY <1>1, ReapedOK
<1>4. r \in Row /\ u \in Row /\ s \in Row
  BY <1>2, <1>3, LeasedOK DEF RowOK
<1>5. /\ s.state = "LEASED" /\ s.worker = w /\ s.attempts = r.attempts + 1
      /\ s.verifier = u.verifier
  BY <1>2, <1>3, <1>4 DEF Leased, Row
<1>6. \/ r.state = "QUEUED" /\ u = r
      \/ r.state = "LEASED" /\ u.verifier = r.verifier
  <2>1. CASE ~ r.lapsed
    BY <1>1, <1>3, <2>1 DEF Reaped
  <2>2. CASE r.lapsed /\ r.state = "LEASED"
    BY <1>1, <2>2, Lost DEF Reaped
  <2>3. CASE r.lapsed /\ r.state # "LEASED"
    BY <1>1, <1>3, <1>4, <2>3 DEF Reaped, InspectionLost, Row
  <2> QED
    BY <2>1, <2>2, <2>3
<1>7. PICK l : l = LifeOf(r)
  OBVIOUS
<1>8. PICK k : k = LifeOf(s)
  OBVIOUS
<1>9. /\ l \in Contract!Life /\ k \in Contract!Life /\ l.phase \in {"waiting", "running"}
      /\ k.phase = "running" /\ k.producer = w /\ k.tries = l.tries + 1
      /\ l.tries < l.budget /\ k.budget = l.budget /\ k.judge = l.judge
  BY <1>3, <1>4, <1>5, <1>6, <1>7, <1>8, LifeFields
<1>10. Contract!Start(l, k) \/ Contract!Takeover(l, k)
  <2>1. k.producer \in Ids
    BY <1>9 DEF Ids
  <2> QED
    BY <1>9, <2>1, GrantsMove
<1> QED
  BY <1>1, <1>2, <1>7, <1>8, <1>10 DEF Contract!Move, Moves

LEMMA UnderInspectionMoves ==
    ASSUME NEW ran, NEW sound, NEW r, RowOK(r, ran, sound), NEW v \in Verifiers,
           Reaped(r).state = "EXECUTED", Reaped(r).worker # v
    PROVE  Moves(r, UnderInspection(Reaped(r), v))
<1>1. PICK u : u = Reaped(r)
  OBVIOUS
<1>2. PICK s : s = UnderInspection(u, v)
  OBVIOUS
<1>3. RowOK(u, ran, sound) /\ u.state = "EXECUTED" /\ u.worker # v
      /\ u.attempts = r.attempts
  BY <1>1, ReapedOK
<1>4. r \in Row /\ u \in Row /\ s \in Row
  BY <1>2, <1>3, UnderInspectionOK DEF RowOK
<1>5. /\ s.state = "VERIFYING" /\ s.worker = u.worker /\ s.attempts = r.attempts
      /\ s.verifier = v
  BY <1>2, <1>3, <1>4 DEF UnderInspection, Row
<1>6. r.state \in {"EXECUTED", "VERIFYING"} /\ u.worker = r.worker
  <2>1. CASE ~ r.lapsed
    BY <1>1, <1>3, <2>1 DEF Reaped
  <2>2. CASE r.lapsed /\ r.state = "LEASED"
    BY <1>1, <1>3, <2>2, Lost DEF Reaped
  <2>3. CASE r.lapsed /\ r.state # "LEASED"
    <3>1. r.state = "VERIFYING"
      BY <2>3 DEF RowOK
    <3> QED
      BY <1>1, <2>3, <3>1, Abandoned DEF Reaped
  <2> QED
    BY <2>1, <2>2, <2>3
<1>7. PICK l : l = LifeOf(r)
  OBVIOUS
<1>8. PICK k : k = LifeOf(s)
  OBVIOUS
<1>9. /\ l \in Contract!Life /\ k \in Contract!Life
      /\ l.phase \in {"delivered", "inspecting"} /\ k.phase = "inspecting"
      /\ k.tries = l.tries /\ k.budget = l.budget /\ k.producer = l.producer
      /\ k.judge = v /\ v # l.producer
  BY <1>3, <1>4, <1>5, <1>6, <1>7, <1>8, LifeFields
<1>10. Contract!Inspect(l, k)
  <2>1. k.judge \in Ids \ {l.producer}
    BY <1>9 DEF Ids
  <2> QED
    BY <1>9, <2>1, GrantsMove
<1> QED
  BY <1>1, <1>2, <1>7, <1>8, <1>10 DEF Contract!Move, Moves

\* What a call that is not a claim does to the row of its job.
LEMMA PerformMoves ==
    ASSUME IInv, NEW c \in calls, c.reply = None, Perform(c)
    PROVE  \A j \in Jobs : Moves(jobs[j], jobs'[j])
<1>1. PICK k : k = c.job
  OBVIOUS
<1>2. PICK r : r = jobs[k]
  OBVIOUS
<1>3. /\ Grounded(c, jobs, started, passed) /\ Shaped(c)
      /\ c.op \in {"beat", "complete", "fail", "rule"}
  BY ServedCall DEF Perform
<1>4. k \in Jobs /\ RowOK(r, started[k], passed[k]) /\ r \in Row /\ jobs \in [Jobs -> Row]
  BY <1>1, <1>2, <1>3 DEF Grounded, IInv, Types
<1>5. /\ c.op = "rule" => r.state = "VERIFYING" /\ c.body \in Verdicts
      /\ c.op # "rule" => r.state = "LEASED"
  BY <1>1, <1>2, <1>3 DEF Perform, Entitled, Shaped
<1>6. ASSUME NEW s, jobs' = [jobs EXCEPT ![k] = s], Moves(r, s)
      PROVE  \A j \in Jobs : Moves(jobs[j], jobs'[j])
  BY <1>2, <1>4, <1>6 DEF Moves
<1>7. CASE c.op = "beat" /\ jobs' = [jobs EXCEPT ![c.job].lapsed = FALSE]
  <2>1. PICK s : s = [r EXCEPT !.lapsed = FALSE]
    OBVIOUS
  <2>2. Moves(r, s)
    BY <1>4, <2>1 DEF Moves, LifeOf, Row
  <2> QED
    BY <1>1, <1>2, <1>6, <1>7, <2>1, <2>2
<1>8. CASE c.op = "complete" /\ jobs' = [jobs EXCEPT ![c.job] = Delivered(@, c.lease)]
  <2>1. PICK s : s = Delivered(r, c.lease)
    OBVIOUS
  <2>2. /\ s.state = "EXECUTED" /\ s.attempts = r.attempts
        /\ s.worker = r.worker /\ s.verifier = r.verifier
    BY <1>4, <2>1 DEF Delivered, Row
  <2>3. s \in Row
    <3>1. c.lease \in Nat
      BY <1>3 DEF Shaped, Calls
    <3> QED
      BY <1>4, <2>1, <3>1 DEF Delivered, Row
  <2>4. Moves(r, s)
    BY <1>4, <1>5, <1>8, <2>2, <2>3, RowsMove
  <2> QED
    BY <1>1, <1>2, <1>6, <1>8, <2>1, <2>4
<1>9. CASE c.op = "fail" /\ jobs' = [jobs EXCEPT ![c.job] = AttemptLost(@)]
  <2>1. PICK s : s = AttemptLost(r)
    OBVIOUS
  <2>2. s \in Row
    BY <1>4, <1>5, <1>9, <2>1, Lost DEF RowOK
  <2>3. Moves(r, s)
    BY <1>4, <1>5, <1>9, <2>1, <2>2, Lost, RowsMove
  <2> QED
    BY <1>1, <1>2, <1>6, <1>9, <2>1, <2>3
<1>10. CASE c.op = "rule" /\ jobs' = [jobs EXCEPT ![c.job] = Ruled(@, c.body, c.lease)]
  <2>1. PICK verdict : verdict = c.body
    OBVIOUS
  <2>2. PICK s : s = Ruled(r, verdict, c.lease)
    OBVIOUS
  <2>3. verdict \in Verdicts /\ c.lease \in Nat
    BY <1>3, <1>5, <1>10, <2>1 DEF Shaped, Calls
  <2>4. s \in Row
    BY <1>4, <2>2, <2>3 DEF Ruled, Row, Verdicts
  <2>5. /\ s.state = verdict /\ s.attempts = r.attempts
        /\ s.worker = r.worker /\ s.verifier = r.verifier
    BY <1>4, <2>2 DEF Ruled, Row
  <2>6. Moves(r, s)
    BY <1>4, <1>5, <1>10, <2>3, <2>4, <2>5, RowsMove
  <2> QED
    BY <1>1, <1>2, <1>6, <1>10, <2>1, <2>2, <2>6
<1> QED
  BY <1>7, <1>8, <1>9, <1>10 DEF Perform

\* What a claim of either kind does to the rows of all jobs.
LEMMA ClaimMoves ==
    ASSUME IInv, NEW c \in calls, c.reply = None, ServeClaim(c) \/ ServeInspect(c)
    PROVE  \A j \in Jobs : Moves(jobs[j], jobs'[j])
<1> DEFINE rows == [j \in Jobs |-> Reaped(jobs[j])]
<1>1. \A j \in Jobs : RowOK(jobs[j], started[j], passed[j])
  BY DEF IInv
<1>2. Shaped(c)
  BY ServedCall
<1>3. \A j \in Jobs : Moves(jobs[j], rows[j])
  BY <1>1, ReapedMoves
<1>4. CASE jobs' = rows
  BY <1>3, <1>4
<1>5. ASSUME NEW k \in Jobs, NEW s, jobs' = [rows EXCEPT ![k] = s], Moves(jobs[k], s)
      PROVE  \A j \in Jobs : Moves(jobs[j], jobs'[j])
  BY <1>3, <1>5
<1>6. CASE ServeClaim(c)
  <2>1. c.from \in Workers
    BY <1>2, <1>6 DEF ServeClaim, Shaped, WorkerOps
  <2>2. CASE FindNothing(c, rows)
    BY <1>4, <2>2 DEF FindNothing
  <2>3. ASSUME NEW k \in Jobs, rows[k].state = "QUEUED", rows[k].attempts < Budget,
               Grant(c, k, rows, Leased(rows[k], c.from))
        PROVE  \A j \in Jobs : Moves(jobs[j], jobs'[j])
    <3>1. Moves(jobs[k], Leased(Reaped(jobs[k]), c.from))
      BY <1>1, <2>1, <2>3, LeasedMoves
    <3> QED
      BY <1>5, <2>3, <3>1 DEF Grant
  <2> QED
    BY <1>6, <2>2, <2>3 DEF ServeClaim
<1>7. CASE ServeInspect(c)
  <2>1. c.from \in Verifiers
    BY <1>2, <1>7 DEF ServeInspect, Shaped, VerifierOps
  <2>2. CASE FindNothing(c, rows)
    BY <1>4, <2>2 DEF FindNothing
  <2>3. ASSUME NEW k \in Jobs, rows[k].state = "EXECUTED", rows[k].worker # c.from,
               Grant(c, k, rows, UnderInspection(rows[k], c.from))
        PROVE  \A j \in Jobs : Moves(jobs[j], jobs'[j])
    <3>1. Moves(jobs[k], UnderInspection(Reaped(jobs[k]), c.from))
      BY <1>1, <2>1, <2>3, UnderInspectionMoves
    <3> QED
      BY <1>5, <2>3, <3>1 DEF Grant
  <2> QED
    BY <1>7, <2>2, <2>3 DEF ServeInspect
<1> QED
  BY <1>6, <1>7

LEMMA EveryRowMoves ==
    ASSUME IInv, [Next]_vars PROVE \A j \in Jobs : Moves(jobs[j], jobs'[j])
<1>1. jobs \in [Jobs -> Row]
  BY DEF IInv, Types
<1>2. CASE UNCHANGED jobs
  BY <1>2 DEF Moves
<1>3. ASSUME NEW k \in Jobs, Enqueue(k)
      PROVE  \A j \in Jobs : Moves(jobs[j], jobs'[j])
  <2>1. PICK r : r = jobs[k]
    OBVIOUS
  <2>2. PICK s : s = [r EXCEPT !.state = "QUEUED"]
    OBVIOUS
  <2>3. /\ r \in Row /\ r.state = "ABSENT"
        /\ jobs' = [jobs EXCEPT ![k] = s]
    BY <1>1, <1>3, <2>1, <2>2 DEF Enqueue
  <2>4. /\ s \in Row /\ s.state = "QUEUED" /\ s.attempts = r.attempts
        /\ s.worker = r.worker /\ s.verifier = r.verifier
    BY <2>2, <2>3 DEF Row
  <2>5. Moves(r, s)
    BY <2>3, <2>4, RowsMove
  <2> QED
    BY <1>1, <2>1, <2>3, <2>5 DEF Moves
<1>4. ASSUME NEW k \in Jobs, Lapse(k)
      PROVE  \A j \in Jobs : Moves(jobs[j], jobs'[j])
  <2>1. PICK r : r = jobs[k]
    OBVIOUS
  <2>2. PICK s : s = [r EXCEPT !.lapsed = TRUE]
    OBVIOUS
  <2>3. r \in Row /\ jobs' = [jobs EXCEPT ![k] = s]
    BY <1>1, <1>4, <2>1, <2>2 DEF Lapse
  <2>4. Moves(r, s)
    BY <2>2, <2>3 DEF Moves, LifeOf, Row
  <2> QED
    BY <1>1, <2>1, <2>3, <2>4 DEF Moves
<1>5. ASSUME NEW c \in calls, Serve(c)
      PROVE  \A j \in Jobs : Moves(jobs[j], jobs'[j])
  <2>1. c.reply = None
    BY <1>5 DEF Serve
  <2>2. CASE Refuse(c)
    BY <1>2, <2>2 DEF Refuse
  <2> QED
    BY <1>5, <2>1, <2>2, ClaimMoves, PerformMoves DEF Serve
<1>6. CASE \E w \in Workers : Main(w) \/ Beat(w) \/ CrashWorker(w)
  BY <1>2, <1>6 DEF Main, Beat, CrashWorker
<1>7. CASE \E v \in Verifiers : Verify(v) \/ CrashVerifier(v)
  BY <1>2, <1>7 DEF Verify, CrashVerifier
<1> QED
  BY <1>2, <1>3, <1>4, <1>5, <1>6, <1>7 DEF Next, Lose, vars

\* With its workers, its verifiers, its late and lost calls and its crashes the
\* fleet implements the contract: what the processes of fleet_worker.py bring
\* about is, for every job, what FleetStore promises.
THEOREM FleetKeepsContract == Spec => KeepsContract
<1>1. Init => Contract!Init
  BY DEF Init, Contract!Init, Contract!Unborn, LifeOf, Phase, NoRow
<1>2. IInv /\ IInv' /\ [Next]_vars => [Contract!Next]_([j \in Jobs |-> LifeOf(jobs[j])])
  <2> SUFFICES ASSUME IInv, IInv', [Next]_vars PROVE Contract!Next
    OBVIOUS
  <2>1. \A j \in Jobs : jobs'[j] \in Row
    BY DEF IInv, Types
  <2>2. \A j \in Jobs : Moves(jobs[j], jobs'[j])
    BY EveryRowMoves
  <2>3. [j \in Jobs |-> LifeOf(jobs'[j])] \in [Jobs -> Contract!Life]
    BY <2>1, LifeTyped
  <2> QED
    BY <2>2, <2>3 DEF Contract!Next, Moves
<1> QED
  BY <1>1, <1>2, Inductive, PTL DEF Spec, KeepsContract, Contract!Spec
=============================================================================
