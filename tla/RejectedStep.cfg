\* One command at a time, on plans with a step the validator rejects.
SPECIFICATION TaskSpec
CONSTANTS
    Commands = {c1, c2}
    N = 3
    InvalidSets <- MCInvalidSets
    MaxStarts = 4
    Absent = Absent
    Empty = Empty
    Torn = Torn
    Names <- MCNames
    Relations <- MCRelations
    Numerals <- MCNumerals
    NumeralValue <- MCNumeralValue
    Unbound = Unbound
    Talkers = {s1, s2}
    Texts <- MCTexts
    Plain <- MCPlain
    Phrase <- MCPhrase
    Asking = {"paris"}
    Pronouns = {"he"}
    Bundle <- MCBundle
    MaxTurns = 3
    MaxAnswers = 3
    Orders <- MCOrders
    Paths = {"notes", "/etc"}
    UnsafePaths = {"/etc"}
    None = None
    MaxPowerBase = 3
    MaxPowerExponent = 3
    MaxNodes = 6
    MaxOperations = 2
    MaxPowerDepth = 2
    Users = {u1, u2}
    TaskIds = {t1, t2}
    NoArchive = NoArchive
    MaxOrders = 5
    MaxSaves = 2
    MaxDeaths = 1
    Documents <- MCDocuments
    Templates = {"parts", "csv_triples", "unknown"}
    OwnTemplate <- MCOwnTemplate
    Singular <- MCSingular
    Requirement <- MCRequirement
    MaxImports = 2
    Specs <- MCSpecs
    Shelf <- MCShelf
    CaseFiles <- MCCaseFiles
    MaxEdits = 1
INVARIANTS
    RejectedStepFailsTask
CHECK_DEADLOCK FALSE
