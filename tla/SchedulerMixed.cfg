CONSTANTS
    LocalWorkers = 2
    RemoteWorkers = 1
    RemoteSystems <- OneLinuxRemote
    Systems <- TwoSystems
    Paths <- FlatPaths
    Root = "root"
    Children <- FlatChildren
    SystemOf <- FlatSystemOf
    Replies <- FlatReplies
SPECIFICATION Spec
INVARIANTS
    TypeOK
    WorkConserved
    IdleWorkersWait
    FailureHasCause
    NoTaskLeftBehind
