\* Two sessions, a reconciler and a command line at work on one milestone.
SPECIFICATION Spec
SYMMETRY Interchangeable

CONSTANTS
    None = None
    m1 = m1
    p1 = p1
    c1 = c1
    c2 = c2
    r1 = r1
    s1 = s1
    s2 = s2
    done = done
    d1 = d1
    Scopes = {standard}
    Phases = {p1}
    RequiredPhases <- MCRequiredPhases
    SkipReasons = {r1}
    AcceptsSkip <- MCAcceptsSkip
    Milestones = {m1}
    Gates = {g1}
    Prerequisites <- MCPrerequisites
    Statuses = {done}
    TerminalStatuses = {done}
    MinRationale = 1
    Commits <- Spelling
    CommitKinds <- ConventionalKinds
    RationaleLengths = {1}
    Anchors = {}
    Agents = {a1}
    Calls = {t1}
    Models = {A, B}
    Approvers = {b1}
    MaxAttempt = 1
    Details = {d1}
    MaxTime = 0
    Shas = {c1, c2}
    MaxProposals = 3
    Artifacts = d1
    Configured <- MCConfigured
    PresentFiles <- MCPresentFiles
    ScanProposals <- MCScanProposals
    Sessions = {s1, s2}
    Messages <- MCMessages
    Lines <- MCLines
    Commands <- MCCommands
    MaxQueued = 1
    MaxUnderWay = 2
    Explored <- MCExplored

INVARIANTS
    LogNamesRealCommits

PROPERTIES
    MergeIsDeterministic
    HooksActOnWhatTheySaw
