\* `knotch init --with-hooks --include-optional' on a fresh project.
SPECIFICATION Spec
CONSTANTS
    None = None
    Specs <- MCSpecs
    Tools = {"prettier"}
    EditedEvents = {"PostToolUse", "SessionEnd"}
    Lines = {"target", "/.knotch"}
    Versions = {1, 2}
    Migrators <- MCMigrators
    MaxSteps = 1
    Scopes = {"tiny", "standard"}
    Statuses = {"draft", "archived"}
    SkipReasons <- MCSkipReasons
    RationaleLengths = {8}
    Details = {"none"}
    Explored <- MCExplored
INVARIANT MandatoryHooksAlwaysMerged
