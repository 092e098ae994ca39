SPECIFICATION Spec
CONSTANTS
    user = user
    order = order
    User = User
    UserDto = UserDto
    fromDto = fromDto
    NoSymbol = NoSymbol
    Unreadable = Unreadable
    Concept <- MCConcept
    Symbol <- MCSymbol
    Converter <- MCConverter
    Path = {path}
    ConceptRank <- MCConceptRank
    SymbolRank <- MCSymbolRank
    Stem <- MCStem
    Clusterable <- MCSymbol
    Alike <- MCAlike
    Endpoints <- MCEndpoints
    Proc = {p1}
    Prefix = {"RW"}
    Exc = {e1}
    Expires <- MCExpires
    MaxDay = 1
    Airs <- MCAirs
    MaxEdits = 3
PROPERTY InitKeepsAccepted

CHECK_DEADLOCK FALSE
