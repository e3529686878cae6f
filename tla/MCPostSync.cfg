SPECIFICATION Spec
CONSTANTS
    Post = {"a", "b"}
    NoPost = "none"
    Root <- MCRoot
    File = {"f", "g"}
    FilesOf <- MCFilesOf
    Text = {0, 1}
    RemoteChoice <- MCRemote
    Workers = 1
    QueueSize = 1
    MaxTracked = 1
    CleanupEvery = 1
    MaxJobs <- MCMaxJobs
    MaxChange = 2
    MaxFault = 1
INVARIANTS TypeOK Converges SentOnce
CHECK_DEADLOCK FALSE
