\* A request sent by two threads and a batch of files; the server may crash at any time.
SPECIFICATION Spec
CONSTANTS
    t1 = t1  t2 = t2  imp = imp  job = job  home = home
    q = q  b = b  p1 = p1  local = local
    Callers = {t1, t2, imp, job, home}
    Background = {job}
    Channels = {local}
    ChannelOf <- MCChannelOf
    Limit <- MCLimit
    Turns = {t1, t2, imp}
    Importer = imp
    Requests = {q, b}
    Imports = {b}
    Deliberate = {q}
    Batch = b
    Routes = {p1}
INVARIANTS
    GateCounted
    NoLostWakeup
    FollowedUpOnce
    FollowUpHasReply
    NoOrphanRows
    ReplyingHasWorker
    BatchCompleteHasReply
PROPERTIES
    AnswersKept
    LockGivenBack
CHECK_DEADLOCK TRUE
