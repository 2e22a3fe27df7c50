\* vcse reason over a compiled file, with a policy that blocks some of it.
SPECIFICATION LibrarySpec
SYMMETRY CommandsAreAlike
CONSTANTS
    Worlds = {"compiled"}
    Installers = {p1, p2}
    Sources <- MCSources
    TextOrder <- MCTextOrder
    Specs <- MCSpecs
    MaxInstalls = 2
    MaxDeaths = 1
    Workers = {p1, p2}
    PackDirs = {"a", "b", "c"}
    Origin <- MCOrigin
    MaxChores = 3
    MaxKills = 1
    Sealers = {p1, p2}
    KeyPairs = {k1}
    NoFile = NoFile
    Cut = Cut
    MaxJobs = 3
    MaxEdits = 1
    MaxLosses = 1
    Fold <- MCFold
    Number <- MCNumber
    SingleValued <- MCSingleValued
    Commands = {p1, p2}
    Packs <- MCPacks
    Policies <- MCPolicies
    Added <- MCAdded
    MaxCommands = 2
    MaxAdded = 1
    MaxCrashes = 1
    Clients = {p1, p2}
    CanonFiles <- MCCanonFiles
    ShelfPacks <- MCShelfPacks
    Questions <- MCQuestions
    Plain <- MCFold
    Alphabetical <- MCAlphabetical
    ManyValued = {"has_type"}
    MaxRequests = 3
    MaxRevisions = 1
    MaxAborts = 1
INVARIANT NoSilentBypass
CHECK_DEADLOCK FALSE
