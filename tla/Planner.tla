------------------------------ MODULE Planner ------------------------------
(***************************************************************************)
(* Orchestrator.plan: one request is routed to capabilities, the workers   *)
(* among them are put into stages, every capability passes the authority   *)
(* gate, and the plan is verified.                                         *)
(*                                                                         *)
(* Scores are not computed: whether a capability that the mode does not    *)
(* demand reaches the threshold, and whether it shares an intent with the  *)
(* goal, is chosen.  So is what classify_intent makes of the goal.  A      *)
(* stage, and the list of workers, is a set: nothing depends on the order  *)
(* in it.                                                                  *)
(***************************************************************************)
EXTENDS Integers, Sequences

CONSTANTS
    Registry,   \* capability id -> its entry in capabilities.json
    Excludable, \* bound: capabilities that a request may exclude
    Toolsets, Connectorsets, Grantsets \* the runtimes a request may declare

VARIABLES
    pc,        \* where the request is
    request,   \* mode, exclude, runtime and what was made of the goal
    workers, io,
    stages,    \* the DAG
    remaining, completed, \* of compose_stages
    gates,     \* capability of the plan -> the decision of its gate
    blocked,   \* capabilities in `blockers'
    status     \* of the plan

vars == <<pc, request, workers, io, stages, remaining, completed, gates, blocked, status>>

Capabilities == DOMAIN Registry

Modes == {"FAST", "PRO", "ALL", "REDTEAM"}

Authorities == {"READ", "COMPUTE", "WRITE", "REMOTE_WRITE", "DEPLOY", "DESTRUCTIVE", "PRIVILEGED"}

Kinds == {"skill", "agent", "subagent", "verifier", "plugin", "tool"}

ASSUME PlannerAssumption ==
    /\ \A c \in Capabilities :
          LET e == Registry[c]
          IN  /\ e.kind \in Kinds
              /\ e.authority \in Authorities
              /\ e.enabled \in BOOLEAN
              /\ e.always \subseteq Modes
    /\ Excludable \subseteq Capabilities

Points == {"route", "compose", "gate", "verify", "done", "raised"}

Requests ==
    [mode : Modes, exclude : SUBSET Excludable, tools : Toolsets, connectors : Connectorsets,
     grants : Grantsets, write : BOOLEAN, deploy : BOOLEAN]

Init ==
    /\ pc = "route"
    /\ request \in Requests
    /\ workers = {} /\ io = {}
    /\ stages = << >> /\ remaining = {} /\ completed = {}
    /\ gates = << >>
    /\ blocked = {}
    /\ status = "PROPOSED"

----------------------------------------------------------------------------
(* router.py                                                               *)

IsIo(c) == Registry[c].kind \in {"plugin", "tool"}

Demanded(c) == request.mode \in Registry[c].always

Candidates == {c \in Capabilities : Registry[c].enabled /\ c \notin request.exclude}

Available(c) ==
    /\ Registry[c].tools \subseteq request.tools
    /\ Registry[c].connectors \subseteq request.connectors

\* Capabilities that the mode demands and the runtime does not offer.
Missing == {c \in Candidates : ~ Available(c) /\ Demanded(c)}

Intended(c) ==
    /\ Registry[c].authority \in {"WRITE", "REMOTE_WRITE"} => request.write
    /\ Registry[c].authority = "DEPLOY" => request.deploy

\* A demanded capability scores 0.92 at least; every threshold is below that.
Route ==
    /\ pc = "route"
    /\ \E favoured \in SUBSET {c \in Candidates : Available(c) /\ (IsIo(c) \/ ~ Demanded(c))} :
          /\ workers' = {c \in Candidates : Available(c) /\ ~ IsIo(c) /\ (Demanded(c) \/ c \in favoured)}
          /\ io' = {c \in favoured : IsIo(c) /\ Intended(c)}
          /\ remaining' = workers'
    /\ blocked' = Missing
    /\ pc' = "compose"
    /\ UNCHANGED <<request, stages, completed, gates, status>>

----------------------------------------------------------------------------
(* dag.py                                                                  *)

DependencyRules(c) ==
    CASE c = "implementer"     -> {"architect", "repo-auditor", "security-reviewer", "reality-checker"}
      [] c = "test-engineer"   -> {"implementer"}
      [] c = "devops-reviewer" -> {"test-engineer"}
      [] OTHER                 -> {}

\* Mutants: the evidence curator waits for the verifier, which waits for it; the
\* verifier does not wait for the red team.
DepsInCircle(c) ==
    CASE c = "independent-verifier" -> workers \ {"independent-verifier"}
      [] c = "evidence-curator" -> workers \ {"evidence-curator"}
      [] OTHER -> DependencyRules(c) \cap workers

DepsOfRulesOnly(c) ==
    IF c = "independent-verifier" THEN workers \ {c, "evidence-curator", "red-team"}
    ELSE DependencyRules(c) \cap workers

Deps(c) ==
    CASE c = "red-team" -> workers \ {"red-team", "independent-verifier", "evidence-curator"}
      [] c \in {"independent-verifier", "evidence-curator"} ->
             workers \ {"evidence-curator", "independent-verifier"}
      [] OTHER -> DependencyRules(c) \cap workers

\* Mutant: one prerequisite is enough.
ReadyOnAny == {c \in remaining : Deps(c) = {} \/ Deps(c) \cap completed # {}}

Ready == {c \in remaining : Deps(c) \subseteq completed}

ComposeStage ==
    /\ pc = "compose"
    /\ remaining # {}
    /\ IF Ready = {}
       THEN pc' = "raised" /\ UNCHANGED <<stages, completed, remaining>>
       ELSE /\ stages' = Append(stages, Ready)
            /\ completed' = completed \cup Ready
            /\ remaining' = remaining \ Ready
            /\ UNCHANGED pc
    /\ UNCHANGED <<request, workers, io, gates, blocked, status>>

Composed ==
    /\ pc = "compose"
    /\ remaining = {}
    /\ pc' = "gate"
    /\ UNCHANGED <<request, workers, io, stages, remaining, completed, gates, blocked, status>>

----------------------------------------------------------------------------
(* policy.py                                                               *)

Granted(a) == IF a \in request.grants THEN "ALLOW" ELSE "APPROVAL_REQUIRED"

\* Mutant: an intent is not asked for.
DecisionWithoutIntent(c) ==
    IF Registry[c].authority \in {"WRITE", "REMOTE_WRITE", "DEPLOY"}
    THEN Granted(Registry[c].authority) ELSE "ALLOW"

Decision(c) ==
    LET a == Registry[c].authority
    IN  CASE a = "READ" -> "ALLOW"
          [] a = "COMPUTE" ->
                 IF {"isolated-runner", "test-runner"} \cap request.tools # {} THEN "ALLOW" ELSE "BLOCK"
          [] a \in {"WRITE", "REMOTE_WRITE"} -> IF request.write THEN Granted(a) ELSE "BLOCK"
          [] a = "DEPLOY" -> IF request.deploy THEN Granted(a) ELSE "BLOCK"
          [] OTHER -> "APPROVAL_REQUIRED"

Gate ==
    /\ pc = "gate"
    /\ gates' = [c \in workers \cup io |-> Decision(c)]
    /\ blocked' = blocked \cup {c \in workers : Decision(c) = "BLOCK"}
    /\ pc' = "verify"
    /\ UNCHANGED <<request, workers, io, stages, remaining, completed, status>>

----------------------------------------------------------------------------
(* verifier.py                                                             *)

Staged == UNION {stages[i] : i \in DOMAIN stages}

Where(c) == CHOOSE i \in DOMAIN stages : c \in stages[i]

\* What verify_plan has against the stages.
OrderProblems ==
    \/ \E i, j \in DOMAIN stages : i # j /\ stages[i] \cap stages[j] # {}
    \/ Staged # workers
    \/ {"implementer", "test-engineer"} \subseteq Staged
          /\ Where("implementer") >= Where("test-engineer")
    \/ "independent-verifier" \in Staged
          /\ \E c \in workers \ {"independent-verifier", "evidence-curator"} :
                Where(c) >= Where("independent-verifier")

VerifierMissing == request.mode # "FAST" /\ "independent-verifier" \notin workers

Verify ==
    /\ pc = "verify"
    /\ status' = IF OrderProblems \/ VerifierMissing \/ blocked # {} THEN "BLOCKED"
                 ELSE "VERIFIED_PLAN"
    /\ pc' = "done"
    /\ UNCHANGED <<request, workers, io, stages, remaining, completed, gates, blocked>>

Next == Route \/ ComposeStage \/ Composed \/ Gate \/ Verify

Spec == Init /\ [][Next]_vars

----------------------------------------------------------------------------
(* Properties                                                              *)

\* Every variable holds a value of its type.
TypeOK ==
    /\ pc \in Points
    /\ request \in Requests
    /\ workers \subseteq Capabilities /\ io \subseteq Capabilities
    /\ stages \in Seq(SUBSET Capabilities)
    /\ remaining \subseteq workers /\ completed \subseteq workers
    /\ \/ gates = << >>
       \/ gates \in [workers \cup io -> {"ALLOW", "APPROVAL_REQUIRED", "BLOCK"}]
    /\ blocked \subseteq Capabilities
    /\ status \in {"PROPOSED", "VERIFIED_PLAN", "BLOCKED"}

\* Whatever team is selected, the rules of the dependencies that fall on it have no
\* cycle: compose_stages never raises.
ComposesAlways == pc # "raised"

\* Every worker is in exactly one stage, and only after everything it depends on.
StagesFollowRules ==
    pc \in {"gate", "verify", "done"} =>
        /\ Staged = workers
        /\ \A i, j \in DOMAIN stages : i # j => stages[i] \cap stages[j] = {}
        /\ \A c \in workers : \A d \in Deps(c) : Where(d) < Where(c)

\* compose_stages and verify_plan agree: a plan is BLOCKED for what was asked of it
\* or what the runtime lacks, never for the order of its stages.
NeverBlockedByItself ==
    status = "BLOCKED" =>
        \/ VerifierMissing
        \/ \E c \in Candidates : Demanded(c) /\ ~ Available(c)
        \/ \E c \in workers : Decision(c) = "BLOCK"

\* A verified plan has every worker that its mode demands and that the request did
\* not exclude; what is produced is verified by someone who comes after it; and
\* nothing in it writes or deploys unless the goal says so, or without an approval
\* unless there is a grant.
VerifiedIsWhole ==
    status = "VERIFIED_PLAN" =>
        /\ \A c \in Candidates : Demanded(c) /\ ~ IsIo(c) => c \in workers
        /\ request.mode # "FAST" =>
              /\ "independent-verifier" \in workers
              /\ \A c \in workers \ {"independent-verifier", "evidence-curator"} :
                    Where(c) < Where("independent-verifier")
        /\ \A c \in workers \cup io :
              /\ Intended(c)
              /\ Registry[c].authority \notin {"READ", "COMPUTE"} /\ gates[c] = "ALLOW" =>
                    Registry[c].authority \in request.grants

\* docs/SECURITY.md:9: COMPUTE requires an isolated runner.
ComputeIsIsolated ==
    status = "VERIFIED_PLAN" =>
        \A c \in workers : Registry[c].authority = "COMPUTE" => "isolated-runner" \in request.tools
=============================================================================
