\* Streams of a process whose callers commit while it subscribes.
\* Calls stop starting at MaxEvents and streams end, so SpecSub may stop.
SPECIFICATION SpecSub
CONSTANTS
    None = None
    standard = standard
    m1 = m1
    c1 = c1
    c2 = c2
    a = a
    b = b
    c = c
    s1 = s1
    RequiredPhases <- MCRequiredPhases
    Prerequisites <- MCPrerequisites
    Batches <- MCBatches
    SaltOf <- MCSalt
    Scopes = {standard}
    Phases = {}
    SkipReasons = {}
    AcceptsSkip = {}
    Milestones = {m1}
    Gates = {}
    Statuses = {}
    TerminalStatuses = {}
    MinRationale = 1
    Commits = {c1, c2}
    CommitKinds = {"feat"}
    RationaleLengths = {}
    Anchors = {}
    Agents = {}
    Calls = {}
    Models = {}
    Approvers = {}
    MaxAttempt = 0
    Details = {d1}
    MaxTime = 2
    Readings = {0}
    MaxEvents = 4
    Tasks = {a, b, c}
    Local = {a, c}
    Subscribers = {x}
    Replays = {"LiveOnly", "FromBeginning", "FromEventId"}
    Capacity = 2
    Modes = {"BestEffort"}
    CacheUse = {FALSE}
    MaxRetries = 1
    Exclusive = TRUE
INVARIANT TypeOKSub
INVARIANT StreamFollowsFile
INVARIANT NoHole
SYMMETRY Interchangeable
CHECK_DEADLOCK FALSE
