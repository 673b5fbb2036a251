-------------------------- MODULE MCAppStoreWrites --------------------------
(***************************************************************************)
(* A small instance of AppStoreWrites: two sessions, two versions and two  *)
(* texts.                                                                  *)
(***************************************************************************)
EXTENDS AppStoreWrites, TLC

CONSTANTS c1, c2, t1, t2

Symmetry == Permutations(Calls)

Ask(tool, body, notes, title, phased, skip) ==
  [tool |-> tool, body |-> body, notes |-> notes, name |-> title,
   phased |-> phased, skip |-> skip]

Reply == Ask("reply", t1, Unset, Unset, FALSE, FALSE)
PlayReply == Ask("play_reply", t1, Unset, Unset, FALSE, FALSE)
Update(notes, title) == Ask("metadata", Unset, notes, title, FALSE, FALSE)
Submit(phased, skip) == Ask("submit", Unset, Unset, Unset, phased, skip)

\* Copy is rewritten while the version is submitted, phased and prechecked,
\* or neither.
Asked ==
  {Reply, PlayReply, Update(t1, t1), Submit(TRUE, FALSE), Submit(FALSE, TRUE)}

=============================================================================
