CONSTANTS
    LocalWorkers = 0
    RemoteWorkers = 2
    RemoteSystems <- TwoLinuxRemotes
    Systems <- TwoSystems
    Paths <- DeepPaths
    Root = "root"
    Children <- DeepChildren
    SystemOf <- DeepSystemOf
    Replies <- DeepReplies
SPECIFICATION FairSpec
INVARIANTS
    ReportsSound
    EvaluatesWithLiveClient
PROPERTIES
    ImplementsTraversal
    RunEnds
