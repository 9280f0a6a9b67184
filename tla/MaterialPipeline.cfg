\* One material with a short and a long text, its file edited twice: to the
\* long content and back.  Two clients with concurrent calls, one retry or
\* resumption, any number of restarts.
SPECIFICATION Spec
CONSTANTS
    m1 = m1  u1 = u1  u2 = u2
    Materials = {m1}
    Clients = {u1, u2}
    MaxContent = 2
    Long = {2}
    MaxEdits = 2
    MaxRequeues = 1
INVARIANTS
    SnapshotReadable
    FencedUnlessRestored
    DraftReadyIsCurrent
    OnlyAskedWork
PROPERTIES
    CurrentKept
    JobSettles
CHECK_DEADLOCK TRUE
