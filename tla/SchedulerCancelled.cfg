CONSTANTS
    LocalWorkers = 2
    RemoteWorkers = 0
    RemoteSystems <- NoRemote
    Systems <- TwoSystems
    Paths <- FlatPaths
    Root = "root"
    Children <- FlatChildren
    SystemOf <- FlatSystemOf
    Replies <- FlatReplies
SPECIFICATION Spec
INVARIANTS
    AbortCancelsInFlight
