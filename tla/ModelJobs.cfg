\* A pull and a load, two threads, two jobs, two cancels, one crash.
CONSTANTS
    pull = pull
    load = load
    Targets = {pull, load}
    Pulls = {pull}
    MaxAttempts <- MCMaxAttempts
    Clients = {c1, c2}
    MaxJobs = 2
    MaxCancels = 2
    MaxCrashes = 1
SPECIFICATION FairSpec
INVARIANTS
    TypeOK
    SucceededPullInstalled
    AttemptsBounded
    FailsWhenSpent
PROPERTIES
    EndsForGood
    QueuedSettles
    ExpiredCancelSettles
    TimelyCancelSettles
