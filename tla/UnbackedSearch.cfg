SPECIFICATION Spec
CONSTANTS
    Names <- MCNames
    Relations <- MCRelations
    Numerals <- MCNumerals
    NumeralValue <- MCNumeralValue
    Unbound = Unbound
    NoAnswer = NoAnswer
    MaxFacts = 2
    MaxConstraints = 0
    Cases <- UnbackedCases
    Configs <- OneConfig
    ProposalLimit = 32
    Interpretations <- MCInterpretations
INVARIANT VerifiedIsBacked
CHECK_DEADLOCK FALSE
