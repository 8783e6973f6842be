SPECIFICATION MCSpec
CHECK_DEADLOCK FALSE
CONSTANTS
    MaxObjects = 2
    MaxSimilarityQueries = 1
    TotalDeadline = 2
    MaxExactRecords = 1
    MaxSimilarityCandidates = 2
    MaxPartitions = 2
    ValidatorPartitions = 3
    ChunkSize = 2
    MaxNodes = 6
    Root = 2
    FirstBlock = 2
    LastBlock = 5
    FullBlock = 2
    MaxEntries = 2
    MaxIsoNodes = 6
    MaxMembers = 2
    MaxComponents = 3
    MaxStream = 4
    MiniCutoff = 2
    FullSector = 2
INVARIANTS
    TablesAreTrue
    HashesCoverPartitions
    FatVerdictsAreTrue
    FatImagesAreReadWhole
    FloppiesAreReadAlike
    MediaAreReadWhole
    CompoundFilesAreReadOrRefused
    VerdictsAreConservative
    JobsAreBounded
    AnswersAreEarned
