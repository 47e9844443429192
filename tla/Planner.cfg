SPECIFICATION Spec
CONSTANTS
    Registry <- MCRegistry
    Excludable <- MCExcludable
    Toolsets <- MCToolsets
    Connectorsets <- MCConnectorsets
    Grantsets <- MCGrantsets
CHECK_DEADLOCK FALSE
INVARIANTS
    ComposesAlways
    StagesFollowRules
    NeverBlockedByItself
    VerifiedIsWhole
