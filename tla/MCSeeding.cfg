SPECIFICATION MCSpec
CONSTANTS
    SeedData <- MCSeedData
    Other = "own"
    Url = "url"
    Importer = {1, 2}
    MaxRuns = 2
    MaxImports = 3
    MaxColumn = 2
    MaxId = 4
INVARIANT TypeOK OneRowPerKey ReportedOk
PROPERTY LoneImportReplaces
CHECK_DEADLOCK FALSE
