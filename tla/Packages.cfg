SPECIFICATION Spec
CONSTANTS
    Files = {1, 2}
    Config = Config
    Passphrases = {"p", "q"}
    Planned <- PlannedSizes
    Lengths = {0, 3}
    NoFile = NoFile
    Torn = Torn
    Beginnings <- SomeFiles
    Earlier <- EarlierFiles
    MaxCalls = 2
INVARIANT AnswerMatchesDisk
INVARIANT OpensForItsOwn
INVARIANT UnpackedIsPackage
PROPERTY ProgressOnlyGrows
PROPERTY CancelStopsWriting
