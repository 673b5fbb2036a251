--------------------------- MODULE RolloutPolicy ---------------------------
(***************************************************************************)
(* The staged-rollout policy of core/guards.py, which every Play write     *)
(* that puts a release on a track consults: production starts small, and   *)
(* only the expansion, a tool of its own name, may reach everyone.         *)
(*                                                                         *)
(* A fraction of users is a whole percentage, which stands for the float   *)
(* of the code: the policy only compares fractions and takes their minimum *)
(* and maximum.  A refusal (ValidationError) is the empty set of decisions.*)
(***************************************************************************)
EXTENDS Integers

CONSTANTS
  Tracks,      \* release tracks of one app, as resolve_track returns them
  Production,  \* those for which is_production_track holds
  Requested,   \* STOREPILOT_MAX_INITIAL_ROLLOUT, or NoFraction if unset,
               \* not a number or NaN
  NoFraction,  \* a user_fraction that is None
  NoStatus     \* a status that is None or blank

Status == {"draft", "inProgress", "halted", "completed"}

ASSUME PolicyAssumption ==
  /\ Production \subseteq Tracks
  /\ NoFraction \notin Int
  /\ NoStatus \notin Status
  /\ Requested \in Int \cup {NoFraction}

Least(m, n) == IF m <= n THEN m ELSE n
Greatest(m, n) == IF m <= n THEN n ELSE m

\* The first production rollout is at most this share of users.
Ceiling ==
  IF Requested = NoFraction THEN 20 ELSE Least(Greatest(Requested, 1), 50)

Default == Least(10, Ceiling)

InRange(fraction) == fraction \in 1..100

Decision == [status : Status, fraction : Int \cup {NoFraction}]

Decided(status, fraction) == {[status |-> status, fraction |-> fraction]}

\* A testing track: any share of its testers, everyone unless asked otherwise.
DecideTesting(fraction, wanted) ==
  CASE wanted = "draft" -> Decided("draft", NoFraction)
    [] wanted # "draft" /\ fraction # NoFraction ->
         IF InRange(fraction) THEN Decided("inProgress", fraction) ELSE {}
    [] wanted # "draft" /\ fraction = NoFraction ->
         Decided(IF wanted = NoStatus THEN "completed" ELSE wanted, NoFraction)

Mutant_NoCeiling(fraction) ==
  LET share == IF fraction = NoFraction THEN Default ELSE fraction
  IN  IF InRange(share) THEN Decided("inProgress", share) ELSE {}

\* The share a staged production release starts at, the default if none is given.
DecideStaged(fraction) ==
  LET share == IF fraction = NoFraction THEN Default ELSE fraction
  IN  IF InRange(share) /\ share <= Ceiling THEN Decided("inProgress", share) ELSE {}

\* Production: a draft or a halted release as asked (its share is not looked
\* at), never everyone, else a staged rollout under the ceiling.
DecideProduction(fraction, wanted) ==
  CASE wanted = "draft" -> Decided("draft", NoFraction)
    [] wanted = "halted" -> Decided("halted", fraction)
    [] wanted = "completed" -> {}
    [] wanted \notin {"draft", "halted", "completed"} -> DecideStaged(fraction)

Decide(track, fraction, wanted) ==
  IF track \in Production THEN DecideProduction(fraction, wanted)
                          ELSE DecideTesting(fraction, wanted)

DecideExpansion(fraction) ==
  IF ~InRange(fraction) THEN {}
  ELSE IF fraction = 100 THEN Decided("completed", NoFraction)
  ELSE Decided("inProgress", fraction)

=============================================================================
