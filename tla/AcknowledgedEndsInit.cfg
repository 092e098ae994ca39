SPECIFICATION Spec
CONSTANTS
    Text <- MCText
    Capitalised <- MCCapitalised
    Rank <- MCRank
    FeatureName = {"app", "web", "domain", "main"}
    Paradigms = {"DG", "FO"}
    Commands = {}
    Workspaces <- OnboardingWorkspaces
    Starts <- FreshStarts
    MaxDecisions = 0
INVARIANT AcknowledgedEndsInit
CHECK_DEADLOCK FALSE
