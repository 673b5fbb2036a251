-------------------------- MODULE RolloutContract --------------------------
(***************************************************************************)
(* What the Play tools promise about the tracks of an app, whoever calls   *)
(* them and in whatever order: how a track may differ from one moment to   *)
(* the next, without edits, legs or sessions.                              *)
(***************************************************************************)
EXTENDS Integers

CONSTANTS
  Tracks, Production,
  Release,      \* what may stand on a track
  Ceiling,      \* the largest share a production rollout starts at
  NoFraction

VARIABLES tracks, elsewhere

\* One release of track t becomes another; the rest of the app stays.
Swap(t, r, new) ==
  tracks' = [tracks EXCEPT ![t] = (tracks[t] \ {r}) \cup {new}]

\* A new release takes a track over, on production at most to the ceiling.
Publish(t) ==
  \E r \in Release :
    /\ t \in Production => \/ r.status \in {"draft", "halted"}
                           \/ r.status = "inProgress" /\ r.fraction \in 1..Ceiling
    /\ tracks' = [tracks EXCEPT ![t] = {r}]

\* A staged or halted release reaches more users, or all.
Widen(t) ==
  \E r \in tracks[t], new \in Release :
    /\ r.status \in {"inProgress", "halted"}
    /\ new.code = r.code
    /\ \/ new.status = "completed"
       \/ /\ new.status = "inProgress"
          /\ new.fraction \in 1..99
          /\ r.fraction = NoFraction \/ new.fraction > r.fraction
    /\ Swap(t, r, new)

\* A release nobody has in full is stopped, its share kept.
Halt(t) ==
  \E r \in tracks[t] :
    /\ r.status \in {"inProgress", "draft"}
    /\ Swap(t, r, [r EXCEPT !.status = "halted"])

Operate ==
  /\ tracks' # tracks
  /\ \E t \in Tracks : Publish(t) \/ Widen(t) \/ Halt(t)

Init == tracks \in [Tracks -> SUBSET Release]

Next == \/ Operate /\ UNCHANGED elsewhere
        \/ elsewhere' = elsewhere + 1   \* others do as they please

Spec == Init /\ [][Next]_<<tracks, elsewhere>>

=============================================================================
