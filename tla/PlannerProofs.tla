--------------------------- MODULE PlannerProofs ---------------------------
(***************************************************************************)
(* Theorems about Planner, for every registry, every runtime and whatever  *)
(* the scores.                                                             *)
(*                                                                         *)
(* The invariant says how far the stages are: what is completed is what is *)
(* staged, each stage depends on earlier ones only, and what routing and   *)
(* the gates have found has not been lost.                                 *)
(***************************************************************************)
EXTENDS Planner, TLAPS

\* The stages so far hold the completed workers, once each, after what they need.
StagedSoFar ==
    /\ remaining \subseteq workers
    /\ completed = workers \ remaining
    /\ Staged = completed
    /\ \A i, j \in DOMAIN stages : i # j => stages[i] \cap stages[j] = {}
    /\ \A i \in DOMAIN stages : \A c \in stages[i] : \A d \in Deps(c) :
          \E j \in DOMAIN stages : j < i /\ d \in stages[j]

\* What Route has decided.
Routed ==
    /\ \A c \in Candidates : Demanded(c) /\ Available(c) /\ ~ IsIo(c) => c \in workers
    /\ \A c \in io : Intended(c)

Progress ==
    /\ pc = "route" => stages = << >> /\ workers = {} /\ io = {} /\ completed = {} /\ remaining = {}
    /\ pc # "route" => Routed
    /\ pc \in {"gate", "verify", "done"} => remaining = {}
    /\ pc \in {"route", "compose", "gate"} => gates = << >>
    /\ pc \in {"compose", "gate"} => blocked = Missing
    /\ pc \in {"verify", "done"} =>
          /\ blocked = Missing \cup {c \in workers : Decision(c) = "BLOCK"}
          /\ gates = [c \in workers \cup io |-> Decision(c)]
    /\ pc # "done" => status = "PROPOSED"
    /\ pc = "done" =>
          status = IF OrderProblems \/ VerifierMissing \/ blocked # {} THEN "BLOCKED"
                   ELSE "VERIFIED_PLAN"

IInv == TypeOK /\ ComposesAlways /\ StagedSoFar /\ Progress

----------------------------------------------------------------------------
\* The rules have no cycle: while a worker remains, one of them waits only for
\* completed ones.  The roles are taken in the order in which they depend on
\* each other.
LEMMA SomeoneIsReady ==
    ASSUME remaining \subseteq workers, completed = workers \ remaining, remaining # {}
    PROVE  Ready # {}
<1> DEFINE Reviewers == {"evidence-curator", "independent-verifier"}
           Roles == {"implementer", "test-engineer", "devops-reviewer", "red-team"} \cup Reviewers
<1>1. CASE \E c \in remaining : c \notin Roles
    BY <1>1 DEF Ready, Deps, DependencyRules
<1>2. CASE remaining \subseteq Roles /\ "implementer" \in remaining
  <2>1. Deps("implementer") \cap Roles = {} /\ Deps("implementer") \subseteq workers
      BY DEF Deps, DependencyRules
  <2> QED
      BY <1>2, <2>1 DEF Ready
<1>3. CASE remaining \subseteq Roles \ {"implementer"} /\ "test-engineer" \in remaining
  <2>1. Deps("test-engineer") \subseteq workers \cap {"implementer"}
      BY DEF Deps, DependencyRules
  <2> QED
      BY <1>3, <2>1 DEF Ready
<1>4. CASE remaining \subseteq Roles \ {"implementer", "test-engineer"} /\ "devops-reviewer" \in remaining
  <2>1. Deps("devops-reviewer") \subseteq workers \cap {"test-engineer"}
      BY DEF Deps, DependencyRules
  <2> QED
      BY <1>4, <2>1 DEF Ready
<1>5. CASE remaining \subseteq {"red-team"} \cup Reviewers /\ "red-team" \in remaining
  <2>1. Deps("red-team") = workers \ ({"red-team"} \cup Reviewers)
      BY DEF Deps
  <2> QED
      BY <1>5, <2>1 DEF Ready
<1>6. CASE remaining \subseteq Reviewers
  <2>1. \A c \in Reviewers : Deps(c) = workers \ Reviewers
      BY DEF Deps
  <2>2. PICK c \in remaining : c \in Reviewers
      BY <1>6
  <2> QED
      BY <1>6, <2>1, <2>2 DEF Ready
<1> QED
    BY <1>1, <1>2, <1>3, <1>4, <1>5, <1>6

\* Where finds the one stage that holds a capability.
LEMMA WhereIsUnique ==
    ASSUME \A i, j \in DOMAIN stages : i # j => stages[i] \cap stages[j] = {},
           NEW c, NEW i \in DOMAIN stages, c \in stages[i]
    PROVE  Where(c) = i
  BY DEF Where

\* Dependencies of a worker are workers.
LEMMA DepsAreWorkers == \A c : Deps(c) \subseteq workers
  BY DEF Deps

\* What the invariant says of the stages, in terms of Where.
LEMMA RulesFollowed == ASSUME IInv PROVE StagesFollowRules
<1> SUFFICES ASSUME pc \in {"gate", "verify", "done"}
             PROVE  /\ Staged = workers
                    /\ \A i, j \in DOMAIN stages : i # j => stages[i] \cap stages[j] = {}
                    /\ \A c \in workers : \A d \in Deps(c) : Where(d) < Where(c)
    BY DEF StagesFollowRules
<1>1. Staged = workers
    BY DEF IInv, Progress, StagedSoFar
<1>2. \A i, j \in DOMAIN stages : i # j => stages[i] \cap stages[j] = {}
    BY DEF IInv, StagedSoFar
<1>3. ASSUME NEW c \in workers, NEW d \in Deps(c) PROVE Where(d) < Where(c)
  <2>1. PICK i \in DOMAIN stages : c \in stages[i]
      BY <1>1 DEF Staged
  <2>2. PICK j \in DOMAIN stages : j < i /\ d \in stages[j]
      BY <2>1 DEF IInv, StagedSoFar
  <2>3. Where(c) = i /\ Where(d) = j
      BY <1>2, <2>1, <2>2, WhereIsUnique
  <2> QED
      BY <2>2, <2>3
<1> QED
    BY <1>1, <1>2, <1>3

\* verify_plan finds nothing wrong with the stages that compose_stages makes.
LEMMA NoOrderProblems == ASSUME IInv, pc \in {"verify", "done"} PROVE ~ OrderProblems
<1>1. StagesFollowRules
    BY RulesFollowed
<1>2. /\ Staged = workers
      /\ \A i, j \in DOMAIN stages : i # j => stages[i] \cap stages[j] = {}
      /\ \A c \in workers : \A d \in Deps(c) : Where(d) < Where(c)
    BY <1>1 DEF StagesFollowRules
<1>3. stages \in Seq(SUBSET Capabilities)
    BY DEF IInv, TypeOK
<1>4. \A c \in workers : Where(c) \in Nat
  <2> SUFFICES ASSUME NEW c \in workers PROVE Where(c) \in Nat
      OBVIOUS
  <2>1. PICK i \in DOMAIN stages : c \in stages[i]
      BY <1>2 DEF Staged
  <2>2. Where(c) = i
      BY <1>2, <2>1, WhereIsUnique
  <2> QED
      BY <1>3, <2>2
<1>5. ASSUME "implementer" \in workers, "test-engineer" \in workers
      PROVE  Where("implementer") < Where("test-engineer")
  <2>1. "implementer" \in Deps("test-engineer")
      BY <1>5 DEF Deps, DependencyRules
  <2> QED
      BY <1>2, <1>5, <2>1
<1>6. ASSUME "independent-verifier" \in workers,
             NEW c \in workers \ {"independent-verifier", "evidence-curator"}
      PROVE  Where(c) < Where("independent-verifier")
  <2>1. c \in Deps("independent-verifier")
      BY DEF Deps
  <2> QED
      BY <1>2, <1>6, <2>1
<1> QED
    BY <1>2, <1>4, <1>5, <1>6 DEF OrderProblems

----------------------------------------------------------------------------
LEMMA InitHolds == Init => IInv
<1> SUFFICES ASSUME Init PROVE IInv
    OBVIOUS
<1> USE DEF Init
<1>1. TypeOK
    BY DEF TypeOK, Points
<1>2. StagedSoFar
    BY DEF StagedSoFar, Staged
<1> QED
    BY <1>1, <1>2 DEF IInv, ComposesAlways, Progress

\* Route starts with no stages and keeps what it found.
LEMMA RouteKeeps == ASSUME IInv, Route PROVE IInv'
<1> USE DEF IInv
<1>1. stages = << >> /\ completed = {} /\ stages' = stages /\ completed' = completed
    BY DEF Route, Progress
<1>2. PICK favoured \in SUBSET {c \in Candidates : Available(c) /\ (IsIo(c) \/ ~ Demanded(c))} :
          /\ workers' = {c \in Candidates : Available(c) /\ ~ IsIo(c) /\ (Demanded(c) \/ c \in favoured)}
          /\ io' = {c \in favoured : IsIo(c) /\ Intended(c)}
          /\ remaining' = workers'
    BY DEF Route
<1>3. pc' = "compose" /\ blocked' = Missing /\ status' = "PROPOSED" /\ request' = request
      /\ gates' = gates /\ gates = << >>
    BY DEF Route, Progress
<1>4. Candidates' = Candidates /\ Missing' = Missing
      /\ \A c : Demanded(c)' = Demanded(c) /\ Available(c)' = Available(c)
                /\ Intended(c)' = Intended(c)
    BY <1>3 DEF Candidates, Missing, Demanded, Available, Intended
<1>5. TypeOK'
    BY <1>1, <1>2, <1>3 DEF TypeOK, Points, Candidates, Missing
<1>6. StagedSoFar'
    BY <1>1, <1>2 DEF StagedSoFar, Staged
<1>7. Progress'
    BY <1>2, <1>3, <1>4 DEF Progress, Routed, IsIo
<1> QED
    BY <1>3, <1>5, <1>6, <1>7 DEF ComposesAlways

\* The next stage holds workers that waited only for earlier stages.
LEMMA ComposeKeeps == ASSUME IInv, ComposeStage PROVE IInv'
<1> USE DEF IInv
<1>1. remaining \subseteq workers /\ completed = workers \ remaining /\ remaining # {}
    BY DEF ComposeStage, StagedSoFar
<1>2. Ready # {}
    BY <1>1, SomeoneIsReady
<1>3. /\ stages' = Append(stages, Ready)
      /\ completed' = completed \cup Ready
      /\ remaining' = remaining \ Ready
      /\ pc = "compose" /\ pc' = pc
      /\ UNCHANGED <<request, workers, io, gates, blocked, status>>
    BY <1>2 DEF ComposeStage
<1>4. Ready \subseteq remaining /\ \A c \in Ready : Deps(c) \subseteq completed
    BY DEF Ready
<1>5. stages \in Seq(SUBSET Capabilities) /\ workers \subseteq Capabilities
    BY DEF TypeOK
<1> DEFINE n == Len(stages)
<1>6. /\ n \in Nat /\ DOMAIN stages = 1 .. n /\ DOMAIN stages' = 1 .. n + 1
      /\ stages'[n + 1] = Ready
      /\ \A i \in 1 .. n : stages'[i] = stages[i]
    BY <1>3, <1>5
<1>7. Staged' = Staged \cup Ready
    BY <1>6 DEF Staged
<1>8. \A c : Deps(c)' = Deps(c)
    BY <1>3 DEF Deps
<1>9. \A i \in 1 .. n : stages[i] \cap Ready = {}
    BY <1>1, <1>4, <1>6 DEF StagedSoFar, Staged
<1>10. \A i, j \in DOMAIN stages' : i # j => stages'[i] \cap stages'[j] = {}
  <2> SUFFICES ASSUME NEW i \in 1 .. n + 1, NEW j \in 1 .. n + 1, i # j
               PROVE  stages'[i] \cap stages'[j] = {}
      BY <1>6
  <2>1. CASE i \in 1 .. n /\ j \in 1 .. n
      BY <1>6, <2>1 DEF StagedSoFar
  <2>2. CASE i = n + 1 /\ j \in 1 .. n
      BY <1>6, <1>9, <2>2
  <2>3. CASE i \in 1 .. n /\ j = n + 1
      BY <1>6, <1>9, <2>3
  <2> QED
      BY <1>6, <2>1, <2>2, <2>3
<1>11. ASSUME NEW i \in DOMAIN stages', NEW c \in stages'[i], NEW d \in Deps(c)'
       PROVE  \E j \in DOMAIN stages' : j < i /\ d \in stages'[j]
  <2>1. CASE i \in 1 .. n
    <3>1. PICK j \in DOMAIN stages : j < i /\ d \in stages[j]
        BY <1>6, <1>8, <1>11, <2>1 DEF StagedSoFar
    <3> QED
        BY <1>6, <3>1
  <2>2. CASE i = n + 1
    <3>1. d \in Staged
        BY <1>4, <1>6, <1>8, <1>11, <2>2 DEF StagedSoFar
    <3>2. PICK j \in DOMAIN stages : d \in stages[j]
        BY <3>1 DEF Staged
    <3> QED
        BY <1>6, <2>2, <3>2
  <2> QED
      BY <1>6, <2>1, <2>2
<1>12. StagedSoFar'
    BY <1>1, <1>3, <1>4, <1>7, <1>10, <1>11 DEF StagedSoFar
<1>13. TypeOK'
    BY <1>1, <1>3, <1>4, <1>5 DEF TypeOK
<1>14. Progress'
    BY <1>3 DEF Progress, Routed, Missing, Candidates, Demanded, Available, IsIo, Intended
<1> QED
    BY <1>3, <1>12, <1>13, <1>14 DEF ComposesAlways

\* The other steps leave the stages as they are.
LEMMA StagesStay ==
    ASSUME StagedSoFar, UNCHANGED <<request, workers, stages, remaining, completed>>
    PROVE  StagedSoFar'
  BY DEF StagedSoFar, Staged, Deps

LEMMA RoutedStays ==
    ASSUME Routed, UNCHANGED <<request, workers, io>>
    PROVE  Routed' /\ Missing' = Missing /\ \A c : Decision(c)' = Decision(c)
<1>1. Candidates' = Candidates /\ Missing' = Missing
      /\ \A c : Demanded(c)' = Demanded(c) /\ Available(c)' = Available(c)
                /\ Intended(c)' = Intended(c)
    BY DEF Candidates, Missing, Demanded, Available, Intended
<1>2. \A c : Decision(c)' = Decision(c)
    BY DEF Decision, Granted
<1> QED
    BY <1>1, <1>2 DEF Routed, IsIo

LEMMA ComposedKeeps == ASSUME IInv, Composed PROVE IInv'
<1> USE DEF IInv, Composed
<1>1. StagedSoFar'
    BY StagesStay
<1>2. Routed' /\ Missing' = Missing
    BY RoutedStays DEF Progress
<1>3. TypeOK'
    BY DEF TypeOK, Points
<1> QED
    BY <1>1, <1>2, <1>3 DEF ComposesAlways, Progress

LEMMA GateKeeps == ASSUME IInv, Gate PROVE IInv'
<1> USE DEF IInv, Gate
<1>1. StagedSoFar'
    BY StagesStay
<1>2. Routed' /\ Missing' = Missing /\ \A c : Decision(c)' = Decision(c)
    BY RoutedStays DEF Progress
<1>3. \A c : Decision(c) \in {"ALLOW", "APPROVAL_REQUIRED", "BLOCK"}
    BY DEF Decision, Granted
<1>4. TypeOK'
    BY <1>3 DEF TypeOK, Points
<1> QED
    BY <1>1, <1>2, <1>4 DEF ComposesAlways, Progress

LEMMA VerifyKeeps == ASSUME IInv, Verify PROVE IInv'
<1> USE DEF IInv, Verify
<1>1. StagedSoFar'
    BY StagesStay
<1>2. Routed' /\ Missing' = Missing /\ \A c : Decision(c)' = Decision(c)
    BY RoutedStays DEF Progress
<1>3. TypeOK'
    BY DEF TypeOK, Points
<1>4. OrderProblems' = OrderProblems /\ VerifierMissing' = VerifierMissing
    BY DEF OrderProblems, VerifierMissing, Staged, Where
<1> QED
    BY <1>1, <1>2, <1>3, <1>4 DEF ComposesAlways, Progress

LEMMA NextKeeps == ASSUME IInv, [Next]_vars PROVE IInv'
<1>1. CASE Route
    BY <1>1, RouteKeeps
<1>2. CASE ComposeStage
    BY <1>2, ComposeKeeps
<1>3. CASE Composed
    BY <1>3, ComposedKeeps
<1>4. CASE Gate
    BY <1>4, GateKeeps
<1>5. CASE Verify
    BY <1>5, VerifyKeeps
<1>6. CASE UNCHANGED vars
  <2> USE <1>6 DEF vars
  <2>1. StagedSoFar'
      BY StagesStay DEF IInv
  <2>2. TypeOK' /\ ComposesAlways'
      BY DEF IInv, TypeOK, ComposesAlways
  <2>3. pc # "route" => Routed' /\ Missing' = Missing /\ \A c : Decision(c)' = Decision(c)
      BY RoutedStays DEF IInv, Progress
  <2>4. OrderProblems' = OrderProblems /\ VerifierMissing' = VerifierMissing
      BY DEF OrderProblems, VerifierMissing, Staged, Where
  <2>5. Progress'
      BY <2>3, <2>4 DEF IInv, Progress
  <2> QED
      BY <2>1, <2>2, <2>5 DEF IInv
<1> QED
    BY <1>1, <1>2, <1>3, <1>4, <1>5, <1>6 DEF Next

LEMMA AlwaysIInv == Spec => []IInv
  BY InitHolds, NextKeeps, PTL DEF Spec

----------------------------------------------------------------------------
\* Every variable keeps its type, for any registry.
THEOREM PlannerTypeCorrect == Spec => []TypeOK
<1>1. IInv => TypeOK
    BY DEF IInv
<1> QED
    BY <1>1, AlwaysIInv, PTL

\* compose_stages (dag.py) never raises, whatever workers were selected.
THEOREM CompositionNeverFails == Spec => []ComposesAlways
<1>1. IInv => ComposesAlways
    BY DEF IInv
<1> QED
    BY <1>1, AlwaysIInv, PTL

\* The stages of a plan hold every worker once, after all it depends on.
THEOREM StagesAreOrdered == Spec => []StagesFollowRules
  BY RulesFollowed, AlwaysIInv, PTL

\* verify_plan (verifier.py) never blocks a plan for what compose_stages did.
THEOREM BlockedWithReason == Spec => []NeverBlockedByItself
<1>1. IInv => NeverBlockedByItself
  <2> SUFFICES ASSUME IInv, status = "BLOCKED", ~ VerifierMissing
               PROVE  \/ \E c \in Candidates : Demanded(c) /\ ~ Available(c)
                      \/ \E c \in workers : Decision(c) = "BLOCK"
      BY DEF NeverBlockedByItself
  <2>1. pc = "done"
      BY DEF IInv, Progress
  <2>2. blocked # {}
      BY <2>1, NoOrderProblems DEF IInv, Progress
  <2>3. blocked = Missing \cup {c \in workers : Decision(c) = "BLOCK"}
      BY <2>1 DEF IInv, Progress
  <2> QED
      BY <2>2, <2>3 DEF Missing
<1> QED
    BY <1>1, AlwaysIInv, PTL

\* A verified plan is complete, ordered, and authorised as far as it was allowed.
THEOREM VerifiedPlansAreWhole == Spec => []VerifiedIsWhole
<1>1. IInv => VerifiedIsWhole
  <2> SUFFICES ASSUME IInv, status = "VERIFIED_PLAN"
               PROVE  VerifiedIsWhole
      BY DEF VerifiedIsWhole
  <2>1. pc = "done"
      BY DEF IInv, Progress
  <2>2. ~ OrderProblems /\ ~ VerifierMissing /\ blocked = {}
      BY <2>1 DEF IInv, Progress
  <2>3. /\ blocked = Missing \cup {c \in workers : Decision(c) = "BLOCK"}
        /\ gates = [c \in workers \cup io |-> Decision(c)]
        /\ Routed
      BY <2>1 DEF IInv, Progress
  <2>4. StagesFollowRules
      BY RulesFollowed
  <2>5. ASSUME NEW c \in Candidates, Demanded(c), ~ IsIo(c) PROVE c \in workers
      BY <2>2, <2>3, <2>5 DEF Missing, Routed
  <2>6. ASSUME request.mode # "FAST"
        PROVE  /\ "independent-verifier" \in workers
               /\ \A c \in workers \ {"independent-verifier", "evidence-curator"} :
                     Where(c) < Where("independent-verifier")
    <3>1. "independent-verifier" \in workers
        BY <2>2, <2>6 DEF VerifierMissing
    <3>2. \A c \in workers \ {"independent-verifier", "evidence-curator"} :
              c \in Deps("independent-verifier")
        BY DEF Deps
    <3> QED
        BY <2>1, <2>4, <3>1, <3>2 DEF StagesFollowRules
  <2>7. ASSUME NEW c \in workers \cup io PROVE Intended(c)
    <3>1. CASE c \in io
        BY <2>3, <3>1 DEF Routed
    <3>2. CASE c \in workers
        BY <2>2, <2>3, <3>2 DEF Intended, Decision
    <3> QED
        BY <3>1, <3>2
  <2>8. ASSUME NEW c \in workers \cup io,
               Registry[c].authority \notin {"READ", "COMPUTE"}, gates[c] = "ALLOW"
        PROVE  Registry[c].authority \in request.grants
    <3>1. Decision(c) = "ALLOW"
        BY <2>3, <2>8
    <3> QED
        BY <2>8, <3>1 DEF Decision, Granted
  <2> QED
      BY <2>5, <2>6, <2>7, <2>8 DEF VerifiedIsWhole
<1> QED
    BY <1>1, AlwaysIInv, PTL
=============================================================================
