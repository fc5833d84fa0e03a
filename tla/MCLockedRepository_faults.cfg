\* Leases run out and a process dies: the lock may be split. Calls stop starting at MaxEvents, so SpecAll may stop.
SPECIFICATION SpecAll
CONSTANTS
    None = None
    Nil = Nil
    standard = standard
    m1 = m1
    c1 = c1
    a = a
    b = b
    c = c
    p = p
    q = q
    r = r
    s1 = s1
    RequiredPhases <- MCRequiredPhases
    Prerequisites <- MCPrerequisites
    SaltOf <- MCSalt
    Scopes = {standard}
    Phases = {}
    SkipReasons = {}
    AcceptsSkip = {}
    Milestones = {m1}
    Gates = {}
    Statuses = {}
    TerminalStatuses = {}
    MinRationale = 1
    Commits = {c1}
    CommitKinds = {"feat"}
    RationaleLengths = {}
    Anchors = {}
    Agents = {}
    Calls = {}
    Models = {}
    Approvers = {}
    MaxAttempt = 0
    Details = {d1}
    MaxTime = 2
    Readings = {0}
    MaxRetries = 2
    Exclusive = FALSE
    MaxPolls = 1
    Tasks = {a, b, c}
    Procs = {p, q}
    ProcOf <- Together
    Inodes = {1, 2, 3, 4}
    Batches <- TwoBatches
    Modes = {"AllOrNothing"}
    CacheUse = {FALSE}
    MaxEvents = 1
    Sees <- TwoUsers
    PidsRecur = FALSE
    MayDie = {q}
    LeasesExpire = TRUE
    MarkerFails = TRUE
INVARIANT TypeOK
INVARIANT NoTornBatch
INVARIANT InProcessExclusion
CHECK_DEADLOCK FALSE
