-------------------------- MODULE MCOneTruthReview --------------------------
(***************************************************************************)
(* Five workspaces.  A User with two DTOs, conversions between them and    *)
(* functions that use them; an Email and a newtype of the same name; an    *)
(* enum and one that shadows it under another stem; a User with a DTO and  *)
(* an alias that is hinted as well; and a User whose DTO is called User    *)
(* too, which no run takes, see the README.                                *)
(***************************************************************************)
EXTENDS OneTruthReview, TLC

CONSTANTS
    user, email, status, state,                     \* concepts
    User, UserDto, UserRow, Email, OtherEmail, Status, State, WireUser, UserView,
    fromDto, fromRow, rowToDto, fromWire, handler, parse,
    domain, api                                     \* files

MCConcept   == {user, email, status, state}
MCSymbol    == {User, UserDto, UserRow, Email, OtherEmail, Status, State, WireUser, UserView}
MCConverter == {fromDto, fromRow, rowToDto, fromWire, handler, parse}
MCName      == {"User", "UserDto", "UserRow", "UserView", "Email", "Status", "State"}
MCFile      == {domain, api}

Rank(seq) == [x \in {seq[i] : i \in DOMAIN seq} |-> CHOOSE i \in DOMAIN seq : seq[i] = x]

MCConceptRank == Rank(<<email, state, status, user>>)
MCSymbolRank  == Rank(<<UserView, User, WireUser, UserDto, UserRow, Email, OtherEmail, Status, State>>)
MCTextRank    == Rank(<<OtherEmail, UserDto, UserRow, UserView, WireUser, Email, State, Status, User>>)
MCNameRank    == Rank(<<"Email", "State", "Status", "User", "UserDto", "UserRow", "UserView">>)

MCNameOf ==
    (User :> "User") @@ (WireUser :> "User") @@ (UserDto :> "UserDto") @@ (UserRow :> "UserRow")
    @@ (UserView :> "UserView") @@ (Email :> "Email") @@ (OtherEmail :> "Email")
    @@ (Status :> "Status") @@ (State :> "State")
MCStem ==
    (User :> user) @@ (WireUser :> user) @@ (UserDto :> user) @@ (UserRow :> user)
    @@ (UserView :> user) @@ (Email :> email) @@ (OtherEmail :> email)
    @@ (Status :> status) @@ (State :> state)

Overlapping == {{User, UserDto}, {User, UserRow}, {User, WireUser}, {Status, State}}
MCAlike == {p \in MCSymbol \X MCSymbol : {p[1], p[2]} \in Overlapping}

\* UserView is a type alias.
MCClusterable == MCSymbol \ {UserView}

\* `impl From<User> for crate::domain::User`, in the file of the other User: the
\* full path is that of no symbol, which begins with the package.
MCEndpoints ==
    (fromDto :> <<{UserDto}, {User}>>) @@ (fromRow :> <<{UserRow}, {User}>>)
    @@ (rowToDto :> <<{UserRow}, {UserDto}>>) @@ (fromWire :> <<{User, WireUser}, {}>>)
    @@ (handler :> <<{}, {}>>) @@ (parse :> <<{}, {}>>)
MCEndName ==
    (fromDto :> <<"UserDto", "User">>) @@ (fromRow :> <<"UserRow", "User">>)
    @@ (rowToDto :> <<"UserRow", "UserDto">>) @@ (fromWire :> <<"User", "User">>)
    @@ (handler :> <<"Status", "State">>) @@ (parse :> <<"Status", "Email">>)
MCDenotes ==
    (fromDto :> <<UserDto, User>>) @@ (fromRow :> <<UserRow, User>>)
    @@ (rowToDto :> <<UserRow, UserDto>>) @@ (fromWire :> <<WireUser, User>>)
    @@ (handler :> <<Status, State>>) @@ (parse :> <<Status, Email>>)

InApi          == {UserDto, UserRow, WireUser, OtherEmail}
MCFileOf       == [s \in MCSymbol |-> IF s \in InApi THEN api ELSE domain]
MCFunctionFile == [f \in MCConverter |-> IF f \in {handler} THEN domain ELSE api]
MCStated       == {fromDto, fromRow, rowToDto, fromWire}
MCCovers       == [p \in {"tests"} |-> {parse}]
MCValidator    == {parse}
MCEnum         == {Status, State}
MCNewtype      == {OtherEmail}

Silent == [f \in MCConverter |-> {}]
Plain(types) ==
    [types |-> types, canonical |-> {}, boundary |-> {}, converters |-> {}, protocol |-> {},
     signature |-> Silent, constructs |-> {}, methods |-> {}, primitives |-> {}]

Users ==
    [Plain({User, UserDto, UserRow}) EXCEPT
        !.converters = {fromDto, rowToDto},
        !.signature = [Silent EXCEPT ![handler] = {"UserDto"}, ![parse] = {"User"}],
        !.constructs = {<<parse, "User">>},
        !.methods = {UserDto}]
Emails ==
    [Plain({User, Email, OtherEmail}) EXCEPT
        !.canonical = {Email},
        !.primitives = {<<User, "Email">>}]

\* The scan meets the alias first.
Aliased ==
    [Plain({UserView, User, UserDto}) EXCEPT
        !.canonical = {UserView, User}, !.boundary = {UserDto}, !.converters = {fromDto}]

Fresh(codes) == {[section |-> EmptySection, code |-> cd] : cd \in codes}

DistinctNames ==
    Fresh({[Users EXCEPT !.canonical = hints[1], !.boundary = hints[2]] :
              hints \in {<<{}, {}>>, <<{User}, {UserDto, UserRow}>>, <<{User, UserRow}, {UserDto}>>}})
    \cup Fresh({Aliased, Emails, [Plain({Status, State}) EXCEPT !.canonical = {Status}]})
    \cup {[section |-> [EmptySection EXCEPT !.converter_paths = {"tests"}],
           code |-> [Users EXCEPT !.boundary = {UserDto}]]}
SharedName ==
    Fresh({[Plain({User, WireUser}) EXCEPT !.canonical = {User}, !.boundary = {WireUser},
                                           !.converters = {fromWire}]})
=============================================================================
