CONSTANTS
    None = None
    Null = Null
    drv1 = drv1
    drv2 = drv2
    linux = linux
    darwin = darwin
    Workers <- TwoWorkers
    Node <- AllNodes
    Root = "root"
    Kind <- KindOf
    Children <- ChildrenOf
    Result <- ResultOf
    Drv <- DrvOf
    ForceRecurse = {TRUE, FALSE}
    Meta = TRUE
    ShowInputDrvs = TRUE
    GcRoots = TRUE
    MaxAttrDepth = 3
    MaxMetaDepth = 3
    RootErrors = 1
    DirectoryNames <- TwoNames
    GcRootsDir <- NixGcRoots
    MaxLen = 6
    Inputs <- AllUsualInputs
    Overrides <- AnyOverride
    Revisions = 2
    Configs <- AllConfigs
    Answers <- AllAnswers
    Words <- SizeOf
    Versions <- TwoVersions
    Rounds = 2
    BadPaths <- NotText
    Environments <- FourEnvironments
    Forbidden <- Newline
    KeyAs <- NixKeys
    ValueAs <- NixValues
    RemoteOptions <- RestrictEval
    DaemonVersion = 2
    WorkerVersion = 1
    DefaultTimeout = 1800
    LocalLimit = 64
    RemoteLimit = 8
    Paths <- TwoPaths
    DrvPaths <- TwoDrvs
    Systems <- TwoSystems
    Metas <- OneMeta
    AttrPrefixes <- FourPrefixes
    Queries <- ThreeQueries
    MaxEvents = 2
    MaxEvals = 3
    Characters <- Letters
    MaxPattern = 4
    MaxValue = 3
SPECIFICATION Spec
CHECK_DEADLOCK FALSE
INVARIANTS
    AttributesRight
    RootsKept
    InputAgrees
    WireFaithful
    GraphMeans
