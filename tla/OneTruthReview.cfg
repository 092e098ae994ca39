SPECIFICATION Spec
CONSTANTS
    user = user
    email = email
    status = status
    state = state
    User = User
    UserDto = UserDto
    UserRow = UserRow
    Email = Email
    OtherEmail = OtherEmail
    Status = Status
    State = State
    WireUser = WireUser
    UserView = UserView
    fromDto = fromDto
    fromRow = fromRow
    rowToDto = rowToDto
    fromWire = fromWire
    handler = handler
    parse = parse
    domain = domain
    api = api
    NoSymbol = NoSymbol
    Concept <- MCConcept
    Symbol <- MCSymbol
    Converter <- MCConverter
    Path = {"tests"}
    ConceptRank <- MCConceptRank
    SymbolRank <- MCSymbolRank
    Stem <- MCStem
    Clusterable <- MCClusterable
    Alike <- MCAlike
    Endpoints <- MCEndpoints
    Name <- MCName
    File <- MCFile
    NameOf <- MCNameOf
    NameRank <- MCNameRank
    TextRank <- MCTextRank
    EndName <- MCEndName
    FileOf <- MCFileOf
    FunctionFile <- MCFunctionFile
    Stated <- MCStated
    Covers <- MCCovers
    Validator <- MCValidator
    Enum <- MCEnum
    Newtype <- MCNewtype
    Starts <- DistinctNames
    Denotes <- MCDenotes
    MaxCommands = 2
INVARIANTS TypeOK RebuiltIsRegistered
PROPERTIES AcceptingConverterAnswers AcceptingBoundaryAnswers FixesConverge
CHECK_DEADLOCK FALSE
