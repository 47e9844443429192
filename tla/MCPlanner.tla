----------------------------- MODULE MCPlanner -----------------------------
(* Constants for the runs of Planner: the entries of capabilities.json on  *)
(* which the rules, gates and modes differ, and a deployment tool.         *)
EXTENDS Planner, TLC

Entry(kind, authority, tools, connectors, always) ==
    [kind |-> kind, authority |-> authority, tools |-> tools, connectors |-> connectors,
     enabled |-> TRUE, always |-> always]

MCRegistry ==
    "security-reviewer" :> Entry("agent", "READ", {}, {}, {}) @@
    "implementer" :> Entry("agent", "WRITE", {"filesystem-write"}, {}, {"ALL"}) @@
    "test-engineer" :> Entry("agent", "COMPUTE", {"test-runner"}, {}, {"ALL", "REDTEAM"}) @@
    "devops-reviewer" :> Entry("agent", "READ", {}, {}, {}) @@
    "red-team" :> Entry("agent", "READ", {}, {}, {"REDTEAM"}) @@
    "evidence-curator" :> Entry("subagent", "READ", {}, {}, {"ALL", "REDTEAM"}) @@
    "independent-verifier" :> Entry("verifier", "READ", {}, {}, {"PRO", "ALL", "REDTEAM"}) @@
    "governed-terminal" :> Entry("plugin", "COMPUTE", {"isolated-runner"}, {}, {}) @@
    "github-write-plugin" :> Entry("plugin", "REMOTE_WRITE", {}, {"github"}, {}) @@
    "deployment-tool" :> Entry("tool", "DEPLOY", {}, {}, {})

MCToolsets ==
    {{}, {"filesystem-write"}, {"test-runner"}, {"filesystem-write", "test-runner"},
     {"isolated-runner"}, {"filesystem-write", "test-runner", "isolated-runner"}}

MCExcludable == {"implementer", "independent-verifier"}

MCConnectorsets == {{}, {"github"}}

MCGrantsets == {{}, {"WRITE", "DEPLOY"}}
=============================================================================
