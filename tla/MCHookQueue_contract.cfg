\* Two hooks and two drains that may die, either policy. The hooks end, so it may stop.
SPECIFICATION QueueSpec
CONSTANTS
    None = None
    m1 = m1
    m2 = m2
    c1 = c1
    c2 = c2
    c3 = c3
    RequiredPhases <- MCRequiredPhases
    Prerequisites <- MCPrerequisites
    Scopes = {}
    Phases = {}
    SkipReasons = {}
    AcceptsSkip = {}
    Milestones = {m1, m2}
    Gates = {}
    Statuses = {}
    TerminalStatuses = {}
    MinRationale = 1
    Commits = {c1, c2, c3}
    CommitKinds = {"feat"}
    RationaleLengths = {}
    Anchors = {}
    Agents = {}
    Calls = {}
    Models = {}
    Approvers = {}
    MaxAttempt = 0
    Details = {}
    MaxTime = 2
    Hooks = {h1, h2}
    Drainers = {d1, d2}
    Tools <- ShipAndRevert
    Leftovers <- OneLeftover
    Foreign <- OtherPreset
    Cap = 1
    Policies = {"Reject", "SpillOldest"}
    MaxAttempts = 2
    Faults = TRUE
    Prunes = TRUE
INVARIANT TypeOKQueue
INVARIANT NothingIsLost
SYMMETRY Interchangeable
CHECK_DEADLOCK FALSE
