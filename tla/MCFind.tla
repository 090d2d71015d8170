------------------------------- MODULE MCFind -------------------------------
(***************************************************************************)
(* Constants of CEFind for TLC that a cfg file cannot write.                *)
(***************************************************************************)
EXTENDS CEFind

Upto(chars, n) == UNION {[1 .. k -> chars] : k \in 0 .. n}

MCFiles == {<<"a">>, <<"A", "b">>, <<"b">>}
MCPatterns == {<<"a", "*">>, <<"?">>}
MCTriedPatterns == Upto({"a", "*", "?"}, 4)
MCTriedNames == Upto({"A", "b"}, 3)
MCTriedPaths == Upto({"a", ".", "/", "\\", ":", "wide"}, 5)
-----------------------------------------------------------------------------
\* The properties of the pure functions do not depend on the state.  They are stated for
\* the states before the first search, which makes invariants of them.
BeforeSearch == opened = 0

\* WildcardIsGlob: the recursive matcher decides what its pattern means (CEKernel.c
\* 157-169).
MatchesAsMeant == BeforeSearch => WildcardIsGlob

\* UpwardsRefused and FoundNamesOpen: a path is refused exactly if a component leads
\* upwards, and a name survives being reported and passed back exactly if the guest can
\* have made it (85-98 and 185).
PathsRight == BeforeSearch => UpwardsRefused /\ FoundNamesOpen
=============================================================================
