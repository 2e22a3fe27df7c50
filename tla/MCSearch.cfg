SPECIFICATION Spec
CONSTANTS
    Names <- MCNames
    Relations <- MCRelations
    Numerals <- MCNumerals
    NumeralValue <- MCNumeralValue
    Unbound = Unbound
    NoAnswer = NoAnswer
    MaxFacts = 3
    MaxConstraints = 2
    Cases <- MCCases
    Configs <- MCConfigs
    ProposalLimit = 32
    Interpretations <- MCInterpretations
INVARIANTS
    Bounded
    AnswersAreOfCase
    Complete
PROPERTIES
    Terminates
    ImplementsSearch
CHECK_DEADLOCK FALSE
