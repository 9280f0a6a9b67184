\* As OntologyJobs.cfg with no crash: what a resume call alone can queue.
CONSTANTS
    extract = extract
    project = project
    Owners = {extract, project}
    Priority <- MCPriority
    ResumePrio = 8
    Clients = {c1}
    MaxAttempts = 2
    MaxJobs = 1
    MaxResumes = 1
    MaxCrashes = 0
SPECIFICATION Spec
INVARIANT QueuedHasOrigin
