SPECIFICATION Spec
CONSTANTS
    Registered = {"CX001"}
    Paradigm = {"CX"}
    ParadigmOf <- MCParadigmOf
    Listed = {}
    GovernanceCode = {"LOCUS001", "LOCUS002", "LOCUS003", "LOCUS004", "LOCUS005"}
    Rule = {"CX001", "CX003", "XX001", "PG001",
            "LOCUS001", "LOCUS002", "LOCUS003", "LOCUS004", "LOCUS005"}
    Family = {"CX", "LO"}
    FamilyOf <- MCFamilyOf
    File = {"a.rs", "b.rs", ".locus/lock.json", "<governance>"}
    Suffix = {}
    Wildcard = Wildcard
    Never = Never
    Diag <- MCDiag
    Suppressor <- MCSuppressor
    Scans <- MCScans
    Archs <- MCArchs
    Lockfiles <- MCLockfiles
    Today = 1
    ChangedFiles = {{}, {"b.rs"}}
    Everything = Everything
    Audits <- MCAudits
INVARIANTS TypeOK NeverPanics DecisionsStayPaired SuccessMeansExcused ShownOnce
CHECK_DEADLOCK FALSE
