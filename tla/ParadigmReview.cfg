SPECIFICATION Spec
CONSTANTS
    Text <- MCText
    Capitalised <- MCCapitalised
    Rank <- MCRank
    FeatureName = {"a", "b", "core", "infra", "util", "tests"}
    Paradigms = {}
    Commands <- MCCommands
    Workspaces <- MCWorkspaces
    Starts <- MCStarts
    MaxDecisions = 3
INVARIANTS TypeOK VacantIsSilent
PROPERTIES DeclaringMovesOneWay EarlierOverridesWin
CHECK_DEADLOCK FALSE
