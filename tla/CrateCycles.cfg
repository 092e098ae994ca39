SPECIFICATION FairSpec
CONSTANTS
    Crate = {1, 2, 3, 4}
    Imports <- MCImports
INVARIANTS NeverPanics ComponentsAreClasses CyclesReportedOnce
PROPERTY Terminates
CHECK_DEADLOCK FALSE
