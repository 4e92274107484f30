SPECIFICATION Spec
CONSTANTS
    MaxTasks = 14
    Files = {p, q}
    FolderFiles = {r}
    Versions = {0, 1}
    MaxFaults = 1
    Frames = {1, 2}
    Media = {m1, m2}
    RecentLimit = 2
    Errors = 1
    Prudent = FALSE
    MaxJobs = 1
    Sessions <- MCSessions
    Acts <- MCActs
INVARIANTS
    NoPanic
