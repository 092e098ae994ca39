------------------------- MODULE MCLockfileCommands -------------------------
(***************************************************************************)
(* A small workspace: User and UserDto share the stem `user`, one impl      *)
(* converts UserDto to User, and a second concept can be named explicitly. *)
(* The tree exists without hints and with them, so that `locus init` finds *)
(* nothing in one scan and rebuilds the section in the other.              *)
(***************************************************************************)
EXTENDS LockfileCommands, TLC

CONSTANTS user, order, User, UserDto, fromDto

MCConcept     == {user, order}
MCSymbol      == {User, UserDto}
MCConverter   == {fromDto}
MCConceptRank == [c \in MCConcept |-> IF c = order THEN 1 ELSE 2]
MCSymbolRank  == [s \in MCSymbol |-> IF s = User THEN 1 ELSE 2]
MCStem        == [s \in MCSymbol |-> user]
MCAlike       == {<<User, UserDto>>, <<UserDto, User>>}
MCEndpoints   == [f \in MCConverter |-> <<{UserDto}, {User}>>]
MCExpires     == [e \in Exc |-> 0]

Bare   == [types |-> MCSymbol, canonical |-> {}, boundary |-> {},
           converters |-> MCConverter]
Hinted == [types |-> MCSymbol, canonical |-> {User}, boundary |-> {UserDto},
           converters |-> MCConverter]
MCAirs == {Bare, Hinted}

\* The invocations are interchangeable.
Symmetry == Permutations(Proc)
=============================================================================
