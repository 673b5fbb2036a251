--------------------------- MODULE MCPlayRelease ---------------------------
(***************************************************************************)
(* Small instances of PlayRelease: two sessions, one testing track and     *)
(* production, two builds.                                                 *)
(***************************************************************************)
EXTENDS PlayRelease, TLC

CONSTANTS c1, c2, internal, production, b1, b2

Symmetry == Permutations(Calls)

Rel(code, status, fraction) == [code |-> code, status |-> status, fraction |-> fraction]

All(code) == {Rel(code, "completed", NoFraction)}

\* Production in mid-rollout: b1 for everyone else, b2 for ten percent.
MidRollout == All(b1) \cup {Rel(b2, "inProgress", 10)}

AllTracks == (internal :> {All(b1), All(b2)}) @@ (production :> {MidRollout})

OnlyMidRollout == (internal :> {{}}) @@ (production :> {MidRollout})

Ask(tool, track, from, code, fraction, status) ==
  [tool |-> tool, track |-> track, from |-> from, code |-> code,
   fraction |-> fraction, status |-> status]

Create(code, fraction, status) ==
  Ask("create", production, production, code, fraction, status)
Promote(fraction) ==
  Ask("promote", production, internal, NoBuild, fraction, NoStatus)
Expand(fraction) ==
  Ask("expand", production, production, NoBuild, fraction, NoStatus)
Halt == Ask("halt", production, production, NoBuild, NoFraction, NoStatus)
Upload(track) == Ask("upload", track, track, NoBuild, NoFraction, NoStatus)

\* The policy turns down the third: its share, like the one the expansion may
\* reach, is beyond the ceiling.  Play turns down the first.
Working ==
  {Create(b1, 5, NoStatus), Create(b2, NoFraction, NoStatus),
   Create(b1, 60, "inProgress"), Promote(NoFraction), Upload(production),
   Expand(60), Halt}

HaltOnly == {Halt}

=============================================================================
