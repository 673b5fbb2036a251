--------------------------- MODULE MCListingMirror ---------------------------
(***************************************************************************)
(* Instances of ListingMirror for TLC: one field of each holder, of which  *)
(* the name is the one with the short limit.                               *)
(***************************************************************************)
EXTENDS ListingMirror, TLC

CONSTANTS en, title, description, name, t1, t2

Holders == title :> "listing" @@ description :> "version" @@ name :> "info"

Limits == {<<name, t2>>}

Pull == [kind |-> "pull", stores |-> {"play", "apple"}]
Push == [kind |-> "push", stores |-> {"play", "apple"}]
Update == [kind |-> "update", texts |-> [Nothing EXCEPT ![<<title, en>>] = t2]]

\* A locale known to both of Apple's resources, and one only the version has.
Found ==
  {[homes |-> Held, texts |-> [s \in Slot |-> IF s[1] = name THEN NoText ELSE t1]],
   [homes |-> {<<"version", en>>}, texts |-> Nothing]}

AllTools == {Pull, Push, Update}

Symmetry == Permutations(Calls)

=============================================================================
