SPECIFICATION Spec
CONSTANTS
    Post = {"a", "b"}
    NoPost = "none"
    Root <- MCRoot
    File = {"f", "g"}
    FilesOf <- MCFilesOf
    Text = {0, 1}
    RemoteChoice <- MCRemote
    Workers = 1
    QueueSize = 1
    MaxTracked = 1
    CleanupEvery = 2
    MaxJobs <- MCNoChanges
    MaxChange = 0
    MaxFault = 0
INVARIANTS FilesArrive
CHECK_DEADLOCK FALSE
