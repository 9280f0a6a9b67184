\* One thread, two jobs of one target, no cancel and no crash.
CONSTANTS
    pull = pull
    load = load
    Targets = {pull, load}
    Pulls = {pull}
    MaxAttempts <- MCMaxAttempts
    Clients = {c1}
    MaxJobs = 2
    MaxCancels = 0
    MaxCrashes = 0
SPECIFICATION Spec
INVARIANTS
    OneActivePerTarget
