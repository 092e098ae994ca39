SPECIFICATION Spec
CONSTANTS
    Section = {"CX", "OT"}
    Budget = {"default_max_function_lines"}
    SectionOf <- MCSectionOf
    Fallback <- MCFallback
    Unset = Unset
    Pattern = {"narrow", "broad"}
    Module = {"a", "b"}
    Matches <- MCMatches
    ExemptSection = {"CX"}
    ExemptNeedsDebt = {"CX"}
    DefaultExempt <- MCDefaultExempt
    Prefix = {"RW"}
    Converters = {"convert"}
    ConverterSection = "OT"
    Commanded = {"default_max_function_lines"}
    MaxBudget = 3
    MaxOverrides = 3
    MaxEdits = 3
    InitialPolicies <- MCInitialPolicies
INVARIANTS TypeOK NothingUngranted
PROPERTY StrictMergeNeverWidens
CHECK_DEADLOCK FALSE
