SPECIFICATION Spec
CONSTANTS
    Names <- MCNames
    Contents <- MCContents
    RawLen <- MCRawLen
    PackedLen <- MCPackedLen
    OutputSets <- MCOutputSets
    JarLists <- MCJarLists
    FileSpecs <- MCFileSpecs
    NoFile = NoFile
    Garbage = Garbage
    Fresh = Fresh
    MaxFaults = 0
    MaxEdits = 1
    MaxClock = 3
    MaxRuns = 2
PROPERTY UpdateRemovesDeleted
CHECK_DEADLOCK FALSE
