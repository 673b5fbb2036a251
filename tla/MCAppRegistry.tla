---------------------------- MODULE MCAppRegistry ----------------------------
(***************************************************************************)
(* Instances of AppRegistry and AppMatching for TLC.  The packages are     *)
(* com.acme.todo and com.acme.notes, the apps of the App Store those of    *)
(* com.acme.todo.ios and com.acme.notes.todo.  On both stores the first is *)
(* called "Daily Todo" and the second "Notes".                             *)
(***************************************************************************)
EXTENDS AppMatching, TLC

CONSTANTS todo, notes, itodo, inotes

\* Keys in alphabetical order: daily-todo, daily-todo-2, ..., daily-todo-8,
\* notes, notes-2, ..., notes-8, todo.
KeyVariants ==
  [k \in 1..17 |->
     CASE k = 1 -> [n \in 1..8 |-> n] [] k = 9 -> [n \in 1..8 |-> 8 + n]
       [] k \notin {1, 9} -> <<k>>]

Ask(key, name, play, apple) ==
  [key |-> key, name |-> name, play |-> play, apple |-> apple]

\* Names in alphabetical order: an id, "Daily Todo", "Notes".
SortsAs == [id \in {todo, notes, itodo, inotes} |-> 1]
Titles == [id \in {todo, notes, itodo, inotes} |-> IF id \in {todo, itodo} THEN 2 ELSE 3]
Slugs == [id \in {todo, notes, itodo, inotes} |-> IF id \in {todo, itodo} THEN 1 ELSE 9]

OnTheStores == <<todo, notes, inotes, itodo>>

Identifiers ==
  [m \in {todo, notes} \X {itodo, inotes} |->
     CASE m = <<todo, itodo>> -> "suffix" [] m = <<todo, inotes>> -> "owner_end"
       [] m[1] = notes -> "owner"]

LookAlikes == [m \in {todo, notes} \X {itodo, inotes} |-> 680]

Names ==
  [m \in {todo, notes} \X {itodo, inotes} |->
     IF m \in {<<todo, itodo>>, <<notes, inotes>>} THEN 1000 ELSE 0]

Sides == {Ask(17, 0, todo, NoId), Ask(1, 2, NoId, itodo), Ask(17, 0, todo, itodo)}

Calling ==
  Sides \cup {Ask(17, 0, NoId, itodo), Ask(1, 0, notes, NoId), Ask(9, 1, notes, itodo)}

\* What release_both ("daily", or nothing) and metadata_push are asked for.
Asking ==
  {[text |-> "daily", both |-> TRUE], [text |-> "com.acme.todo", both |-> FALSE],
   [text |-> "", both |-> TRUE]}

KeysBegin == ("daily" :> 1..8) @@ ("com.acme.todo" :> {}) @@ ("" :> Key)
NamesBegin == ("daily" :> {2}) @@ ("com.acme.todo" :> {}) @@ ("" :> Name)
IdsBegin ==
  ("daily" :> {}) @@ ("com.acme.todo" :> {todo}) @@ ("" :> Packages \cup AppleIds)

=============================================================================
