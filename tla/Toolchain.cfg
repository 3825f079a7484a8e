SPECIFICATION PipelineSpec
CONSTANTS
    Versions = {v1, v2}
    NoFile = NoFile
    Builds = {b1, b2}
    MaxBuilds = 2
    MaxChanges = 1
    MaxIds = 2
    MaxEdits = 2
    Names = {"a", "b", "c"}
    ModuleCount = 2
    Libraries <- MCLibraries
    Programs <- MCPrograms
    SymbolCount = 3
    PartitionCount = 2
    Units <- MCUnits
INVARIANTS
    SettledHitsAreFresh
    CachesNeverDecide
    TempsReaped
    
    HostRunsAreOurs
    MergeIsExact
    SplitLinks
    EmissionIsWhole
SYMMETRY Symmetry
CHECK_DEADLOCK FALSE
