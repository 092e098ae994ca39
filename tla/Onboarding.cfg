SPECIFICATION Spec
CONSTANTS
    Text <- MCText
    Capitalised <- MCCapitalised
    Rank <- MCRank
    FeatureName = {"app", "web", "domain", "main"}
    Paradigms = {"BO", "RM", "CX", "CR", "DG"}
    Commands <- OnboardingCommands
    Workspaces <- OnboardingWorkspaces
    Starts <- OnboardingStarts
    MaxDecisions = 1
PROPERTIES OnboardingEnds FollowingShrinks CapFitsMost
CHECK_DEADLOCK FALSE
