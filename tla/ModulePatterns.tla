---------------------------- MODULE ModulePatterns ----------------------------
(***************************************************************************)
(* The patterns by which lockfile sections name modules.  Patterns and     *)
(* paths are sequences of segments: "a::b" is <<"a", "b">>, a pattern      *)
(* "a::*" is <<"a", "*">>, and the empty text is <<"">>.                   *)
(***************************************************************************)
EXTENDS Integers, Sequences

Wild == "*"
Empty == <<"">>

LeadingWild(pattern)  == Len(pattern) > 1 /\ pattern[1] = Wild
TrailingWild(pattern) == Len(pattern) > 1 /\ pattern[Len(pattern)] = Wild

\* "*::*": what is cut off in front and behind overlaps, and the slice panics.
Unsliceable(pattern) == pattern = <<Wild, Wild>>

\* What is left of a pattern without its wildcards.
Stripped(pattern) ==
    SubSeq(pattern,
           IF LeadingWild(pattern) THEN 2 ELSE 1,
           IF TrailingWild(pattern) THEN Len(pattern) - 1 ELSE Len(pattern))

\* The segments left stand in the path, at its start and at its end unless there
\* is a wildcard.
Matches(pattern, path) ==
    \/ pattern = <<Wild>>
    \/ LET stripped == Stripped(pattern)
       IN  /\ ~Unsliceable(pattern)
           /\ stripped # Empty
           /\ \E i \in 1..Len(path) :
                LET last == i + Len(stripped) - 1
                IN  /\ last <= Len(path)
                    /\ SubSeq(path, i, last) = stripped
                    /\ LeadingWild(pattern) \/ i = 1
                    /\ TrailingWild(pattern) \/ last = Len(path)

\* The first of a list of patterns to match, as `find` and `any` look for it.
IsFirst(patterns, path, i) ==
    /\ i \in DOMAIN patterns
    /\ Matches(patterns[i], path)
    /\ \A j \in DOMAIN patterns : j < i => ~Matches(patterns[j], path)

AnyMatches(patterns, path) == \E i \in DOMAIN patterns : Matches(patterns[i], path)

\* Looking for the first match comes to a pattern that panics.
SearchPanics(patterns, path) ==
    \E i \in DOMAIN patterns :
        /\ Unsliceable(patterns[i])
        /\ \A j \in DOMAIN patterns : j < i => ~Matches(patterns[j], path)
=============================================================================
