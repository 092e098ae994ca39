SPECIFICATION Spec
CONSTANTS
    user = user
    order = order
    User = User
    UserDto = UserDto
    fromDto = fromDto
    NoSymbol = NoSymbol
    Unreadable = Unreadable
    Concept <- MCConcept
    Symbol <- MCSymbol
    Converter <- MCConverter
    Path = {path}
    ConceptRank <- MCConceptRank
    SymbolRank <- MCSymbolRank
    Stem <- MCStem
    Clusterable <- MCSymbol
    Alike <- MCAlike
    Endpoints <- MCEndpoints
    Proc = {p1, p2}
    Prefix = {"RW"}
    Exc = {e1}
    Expires <- MCExpires
    MaxDay = 1
    Airs <- MCAirs
    MaxEdits = 3
INVARIANTS TypeOK OneConceptOnDisk NoOrphansOnDisk
PROPERTIES LossNeedsOverlap RefinesHistory
SYMMETRY Symmetry
CHECK_DEADLOCK FALSE
