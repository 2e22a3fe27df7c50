\* A claim that arrives with a high tier keeps it without any proof.
SPECIFICATION Spec
CONSTANTS
    Fold <- MCFold
    Number <- MCNumber
    SingleValued <- MCSingleValued
    Commands = {p1}
    Packs <- MCPacks
    Policies <- MCPolicies
    Added <- MCAdded
    MaxCommands = 1
    MaxAdded = 0
    MaxCrashes = 0
INVARIANTS
    ProofBehindTopTiers
CHECK_DEADLOCK FALSE
