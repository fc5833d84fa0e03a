\* A project whose files are set up, edited and spoilt, whose workflow changes under its log, and whose
\* schema migrators are of every kind.
SPECIFICATION Spec
CONSTANTS
    None = None
    Specs <- MCSpecs
    Tools = {"prettier"}
    EditedEvents = {"PostToolUse", "SessionEnd"}
    Lines = {"target", "/.knotch"}
    Versions = {1, 2, 3}
    Migrators <- MCMigrators
    MaxSteps = 3
    Scopes = {"tiny", "standard"}
    Statuses = {"draft", "archived"}
    SkipReasons <- MCSkipReasons
    RationaleLengths = {2, 8}
    Details = {"none"}
    Explored <- MCExplored
INVARIANTS
    InitLeavesASoundProject
    LogObeysItsWorkflows
    LifecycleAgrees
    MigrationLands
