\* Two drains, nothing dies, an entry no workflow reads is first. The hooks end, so it may stop.
SPECIFICATION FairSpec
CONSTANTS
    None = None
    m1 = m1
    m2 = m2
    c1 = c1
    c2 = c2
    c3 = c3
    RequiredPhases <- MCRequiredPhases
    Prerequisites <- MCPrerequisites
    Scopes = {}
    Phases = {}
    SkipReasons = {}
    AcceptsSkip = {}
    Milestones = {m1, m2}
    Gates = {}
    Statuses = {}
    TerminalStatuses = {}
    MinRationale = 1
    Commits = {c1, c2, c3}
    CommitKinds = {"feat"}
    RationaleLengths = {}
    Anchors = {}
    Agents = {}
    Calls = {}
    Models = {}
    Approvers = {}
    MaxAttempt = 0
    Details = {}
    MaxTime = 2
    Hooks = {h1, h2}
    Drainers = {d1, d2}
    Tools <- LateShip
    Leftovers <- OldLeftovers
    Foreign <- OtherPreset
    Cap = 2
    Policies = {"Reject"}
    MaxAttempts = 1
    Faults = FALSE
    Prunes = FALSE
INVARIANT OverrunIsBounded
PROPERTY QueueDrains
CHECK_DEADLOCK FALSE
