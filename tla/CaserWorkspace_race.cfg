SPECIFICATION WorkspaceSpec
CONSTANTS
    w1 = w1
    w2 = w2
    evidence = evidence
    draft = draft
    None = None
    Writers = {w1, w2}
    Targets = {evidence, draft}
    Vault = {evidence}
    MaxWrites = 2
SYMMETRY Symmetric
CHECK_DEADLOCK FALSE
INVARIANTS VaultIsFinal
