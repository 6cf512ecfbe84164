SPECIFICATION Spec
CONSTANTS
    Files = {"f1", "f2", "f3"}
    Units = {"f1", "f3"}
    Configs <- MCConfigs
    Symbols = {"base", "caller", "over"}
    NoFile = NoFile
    None = None
    Contents <- MCContents
    Selections = {{"f2", "f3"}}
    Deletable = {"base"}
    MaxPublished = 3
    MaxDeleted = 1
    MaxFailed = 1
INVARIANTS
    TypeOK
    DerivedCurrent
    FailedNotReady
PROPERTIES
    EventuallyCurrent
CHECK_DEADLOCK FALSE
