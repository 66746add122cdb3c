CONSTANTS
    TypeNameOrder <- MCTypeNameOrder
    ConfigOrder <- MCConfigOrder
    LeafOrder <- MCLeafOrder
    Ties = "kept"
    Own = "own"
    HashOf <- MCHashOf
    MaxCacheEntries = 2
    ParentByName <- MCParentByName
    Pseudolocalize <- MCPseudolocalize
    HostPackage = "host"
    DirName <- MCDirName
    CaseFold <- MCCaseFold
    ValidName <- MCValidName
    InvalidNames = {"bad-name"}
    CharsOf <- MCCharsOf
    LastPart <- MCLastPart
    Plan <- CompatPlan
SPECIFICATION Spec
CHECK_DEADLOCK FALSE
INVARIANT OldXmlClean
