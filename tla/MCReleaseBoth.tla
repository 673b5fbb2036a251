--------------------------- MODULE MCReleaseBoth ---------------------------
(***************************************************************************)
(* A small instance of ReleaseBoth: two sessions, two version codes, two   *)
(* texts and two TestFlight builds.                                        *)
(***************************************************************************)
EXTENDS ReleaseBoth, TLC

CONSTANTS c1, c2, v1, v2, n1, n2

Symmetry == Permutations(Calls) \cup Permutations(Codes)

Ask(bundle, notes) == [bundle |-> bundle, notes |-> notes]

\* A bundle with notes, and the build on the track again without any.
Asked == {Ask(TRUE, n1), Ask(FALSE, NoText)}

=============================================================================
