\* One job, one cancel, no crash: a cancel that arrives at the wrong moment.
CONSTANTS
    pull = pull
    load = load
    Targets = {pull, load}
    Pulls = {pull}
    MaxAttempts <- MCMaxAttempts
    Clients = {c1}
    MaxJobs = 1
    MaxCancels = 1
    MaxCrashes = 0
SPECIFICATION FairSpec
PROPERTIES
    CancelCompletes
