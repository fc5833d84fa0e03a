\* Every kind of event. The log stops growing, so Spec may stop.
SPECIFICATION Spec
CONSTANTS
    None = None
    p1 = p1
    p2 = p2
    amnesty = amnesty
    standard = standard
    tiny = tiny
    g1 = g1
    g2 = g2
    g3 = g3
    RequiredPhases <- MCRequiredPhases
    AcceptsSkip <- MCAcceptsSkip
    Prerequisites <- MCPrerequisites
    Scopes = {standard, tiny}
    Phases = {p1, p2}
    SkipReasons = {amnesty}
    Milestones = {m1}
    Gates = {g1, g2, g3}
    Statuses = {draft, archived}
    TerminalStatuses = {archived}
    MinRationale = 1
    Commits = {c1, c2}
    CommitKinds = {"feat", "docs"}
    RationaleLengths = {0, 1}
    Anchors = {a1}
    Agents = {s1}
    Calls = {t1}
    Models = {o1, o2}
    Approvers = {r1}
    MaxAttempt = 2
    Details = {d1, d2}
    MaxTime = 4
    Readings = {0, 2}
    Explored <- MCExplored
INVARIANT TypeOK
INVARIANT TerminalGuard
INVARIANT PhaseViewsAgree
INVARIANT GateLadder
INVARIANT OneOutcomePerSubject
INVARIANT ShipsAndRevertsAlternate
INVARIANT CountersRise
INVARIANT SupersedeIsWellFounded
PROPERTY NoResurrection
SYMMETRY Interchangeable
CHECK_DEADLOCK FALSE
