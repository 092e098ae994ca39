SPECIFICATION Spec
CONSTANTS
    Segment = {"a", "b", "x", "api", "*", ""}
    Names = {f, g, h}
    Pattern <- MCPattern
    Name <- MCName
    Module <- MCModule
    Path <- MCPath
    Apis <- MCApis
    Codes <- MCCodes
    MaxEntries = 3
INVARIANTS TypeOK SuggestionSpeaksOfFindings
PROPERTIES DeclaringNeverHides FollowingSettles
SYMMETRY Symmetry
