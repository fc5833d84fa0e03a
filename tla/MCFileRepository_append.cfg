\* Callers of append and with_cache under an exclusive lock, two workflow salts.
\* Calls stop starting at MaxEvents, so Spec may stop.
SPECIFICATION Spec
CONSTANTS
    None = None
    standard = standard
    m1 = m1
    c1 = c1
    c2 = c2
    a = a
    b = b
    c = c
    s1 = s1
    s2 = s2
    RequiredPhases <- MCRequiredPhases
    Prerequisites <- MCPrerequisites
    Batches <- MCBatches
    SaltOf <- TwoSalts
    Scopes = {standard}
    Phases = {}
    SkipReasons = {}
    AcceptsSkip = {}
    Milestones = {m1}
    Gates = {}
    Statuses = {}
    TerminalStatuses = {}
    MinRationale = 1
    Commits = {c1, c2}
    CommitKinds = {"feat"}
    RationaleLengths = {}
    Anchors = {}
    Agents = {}
    Calls = {}
    Models = {}
    Approvers = {}
    MaxAttempt = 0
    Details = {d1}
    MaxTime = 2
    Readings = {0}
    MaxEvents = 2
    Tasks = {a, b, c}
    Modes = {"AllOrNothing", "BestEffort"}
    CacheUse = {TRUE, FALSE}
    MaxRetries = 2
    Exclusive = TRUE
INVARIANT LegalDisk
INVARIANT ReportedIsOnDisk
INVARIANT CacheFollowsLog
PROPERTY WholeBatches
PROPERTY ImplementsMemory
SYMMETRY Interchangeable
CHECK_DEADLOCK FALSE
