SPECIFICATION Spec
CONSTANTS
    Rule = {"OT002", "OT004"}
    Family = {"OT"}
    FamilyOf <- MCFamilyOf
    File = {"src/lib.rs", "lib.rs"}
    Suffix <- MCSuffix
    Wildcard = Wildcard
    Never = Never
    Diag <- MCDiag
    Suppressor <- MCSuppressor
    MaxDay = 2
    Origins <- MCOrigins
PROPERTIES LapseIsAnnounced PruneIsNeutral ShownStaysShown DateFollowsCalendar
