SPECIFICATION CaseSpec
SYMMETRY Alike
CONSTANTS
    Names <- MCNames
    Relations <- MCRelations
    Numerals <- MCNumerals
    NumeralValue <- MCNumeralValue
    Unbound = Unbound
    Facts <- MCFacts
    CaseConstraints <- MCConstraints
    CaseGoals <- MCGoals
    BundleRelations = {"equals"}
    MaxCase = 3
    MaxClaims = 6
    MaxGoals = 1
    MaxEvidence = 1
    Interpretations <- MCInterpretations
    Typists = {t1, t2}
    Lower <- MCLower
    Editions <- MCEditions
    Inquiries <- MCInquiries
    Benchmarks <- MCBenchmarks
    MaxJobs = 4
    MaxKills = 1
INVARIANTS
    WellFounded
    Sound
    NoFalseAlarm
    BindingsJustified
    VerifiedIsSupported
    FactsComeFromPack
    ValidRestores
PROPERTIES
    AppendOnly
    ConflictIsFinal
