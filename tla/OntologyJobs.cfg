\* Two owners, two threads, two jobs, one resume, one crash, two attempts.
CONSTANTS
    extract = extract
    project = project
    Owners = {extract, project}
    Priority <- MCPriority
    ResumePrio = 8
    Clients = {c1, c2}
    MaxAttempts = 2
    MaxJobs = 2
    MaxResumes = 1
    MaxCrashes = 1
SPECIFICATION FairSpec
INVARIANTS
    TypeOK
    OneActivePerOwner
    QueuedHasOriginUndisturbed
    RunsUnderOrigin
    AttemptsBounded
PROPERTIES
    RevivesOnlyCurrent
    QueuedSettles
    ExpiredIsReclaimed
