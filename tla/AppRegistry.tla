----------------------------- MODULE AppRegistry -----------------------------
(***************************************************************************)
(* The app registry of cross/apps.py, a file that says which Play package  *)
(* and which App Store app are one product, and the tools of               *)
(* cross/tools.py that write it (pair_apps) and act on what it says        *)
(* (release_both and metadata_push, here "use").                           *)
(*                                                                         *)
(* A pairing call loads the file, merges its entry into the list, writes   *)
(* all of it to a temporary file of one fixed name and moves that over the *)
(* registry.  Nothing locks the file between the load and the move.  A use *)
(* loads the file and finds one entry on its preview and again on its      *)
(* confirm call; its token is bound to the two store ids.                  *)
(*                                                                         *)
(* Opening a file truncates it, and a file that was moved is still written *)
(* by whoever has it open, so files are numbered and the two names lead to *)
(* numbers.  Keys and names are numbered in alphabetical order.  A bundle  *)
(* id is the package's name, as when none is given; directories and        *)
(* locales follow the names and are left out.                              *)
(***************************************************************************)
EXTENDS Naturals, FiniteSets

CONSTANTS
  Calls,      \* sessions that may be open at a time
  Writers,    \* those that may pair
  MaxKey, MaxName,
  Packages, AppleIds,
  NameOf,     \* where an id sorts when it serves as a name
  Pairings,   \* the arguments of pair_apps
  Queries,    \* the "app" argument of the others, and whether they need both stores
  KeysLike, NamesLike, IdsLike,  \* what begins with a text, in any case of letters
  NoId, NoTarget, NoJob

Key == 1..MaxKey
Name == 1..MaxName
Package == Packages \cup {NoId}
AppleId == AppleIds \cup {NoId}
Entry == [key : Key, name : Name, play : Package, apple : AppleId]

\* The key is the one slugify makes of what the caller gave; name 0: omitted.
Pairing == [key : Key, name : Name \cup {0}, play : Package, apple : AppleId]

\* A call that has opened a file holds it until it is done.
File == 0..Cardinality(Calls) + 1
NoFile == Cardinality(Calls) + 2

\* A file that is opened is torn until it is written; no entry is read from
\* it.  One that two calls have written may be mixed, or no TOML at all.
Content == [whole : BOOLEAN, valid : BOOLEAN, entries : SUBSET Entry]
Torn == [whole |-> FALSE, valid |-> TRUE, entries |-> {}]
Whole(list) == [whole |-> TRUE, valid |-> TRUE, entries |-> list]
Mixed(list) == [whole |-> FALSE, valid |-> TRUE, entries |-> list]
Invalid == [whole |-> FALSE, valid |-> FALSE, entries |-> {}]

Target == Package \X AppleId

ASSUME RegistryAssumption ==
  /\ IsFiniteSet(Calls)
  /\ Writers \subseteq Calls
  /\ MaxKey \in Nat /\ MaxName \in Nat
  /\ NameOf \in [Packages \cup AppleIds -> Name]
  /\ Pairings \subseteq Pairing
  /\ \A q \in Pairings : q.play # NoId \/ q.apple # NoId
  /\ NoId \notin Key \cup Packages \cup AppleIds
  /\ Packages \cap AppleIds = {}
  /\ NoTarget \notin Target
  /\ LET texts == {q.text : q \in Queries} IN
     /\ KeysLike \in [texts -> SUBSET Key]
     /\ NamesLike \in [texts -> SUBSET Name]
     /\ IdsLike \in [texts -> SUBSET (Packages \cup AppleIds)]

Label == {"idle", "open", "fill", "replace", "resolve", "waiting", "act"}

\* list is what a pairing call will write, handle the file it has open;
\* token is what a use is bound to, shown what its preview named, found what
\* the registry says now.
Job ==
  [pairing : Pairings, list : SUBSET Entry, handle : File \cup {NoFile}]
    \cup [query : Queries, confirmed : BOOLEAN, token : Target \cup {NoTarget},
          shown : Target \cup {NoTarget}, found : Target \cup {NoTarget}]

ASSUME NoJobAssumption == NoJob \notin Job

VARIABLES
  disk,      \* what each file holds
  registry,  \* the file apps.toml leads to
  tmp,       \* the file apps.toml.tmp leads to
  pc, job,
  linked     \* history: the ids and keys the user's calls have linked, in groups

vars == <<disk, registry, tmp, pc, job, linked>>

Goto(c, label) == pc' = [pc EXCEPT ![c] = label]

Return(c) ==
  /\ Goto(c, "idle")
  /\ job' = [job EXCEPT ![c] = NoJob]

-----------------------------------------------------------------------------
(***************************************************************************)
(* load                                                                    *)
(***************************************************************************)
Mutant_Clash(e, f) == e.play # NoId /\ e.play = f.play

Clash(e, f) ==
  \/ e.play # NoId /\ e.play = f.play
  \/ e.apple # NoId /\ e.apple = f.apple

\* The entries are in the order of their keys and the first claim of an id
\* wins: an entry is kept unless it clashes with an earlier one that is kept.
Loaded(entries) ==
  LET kept[e \in entries] ==
        \A f \in entries : f.key < e.key /\ Clash(e, f) => ~kept[f]
  IN {e \in entries : kept[e]}

Pairs == Loaded(disk[registry].entries)

-----------------------------------------------------------------------------
(***************************************************************************)
(* pair_apps and upsert                                                    *)
(***************************************************************************)
Mutant_Same(e, q) ==
  \/ e.key = q.key
  \/ q.play # NoId /\ e.play = q.play
  \/ e.apple = q.apple

\* An id that was not given matches nothing.
Same(e, q) ==
  \/ e.key = q.key
  \/ q.play # NoId /\ e.play = q.play
  \/ q.apple # NoId /\ e.apple = q.apple

\* The list is sorted by name, then by key as it came from the file.
Before(e, f) == e.name < f.name \/ (e.name = f.name /\ e.key < f.key)

First(entries) == CHOOSE e \in entries : \A f \in entries \ {e} : Before(e, f)

\* The entry whose name an omitted name leaves alone.
Existing(pairs, q) ==
  IF \E e \in pairs : e.key = q.key
    THEN {e \in pairs : e.key = q.key}
    ELSE {e \in pairs : Same(e, q)}

DisplayName(pairs, q) ==
  IF q.name # 0 THEN q.name
  ELSE IF Existing(pairs, q) # {} THEN First(Existing(pairs, q)).name
  ELSE IF q.play # NoId THEN NameOf[q.play] ELSE NameOf[q.apple]

Merge(e, name, q) ==
  [key |-> e.key, name |-> name,
   play |-> IF q.play # NoId THEN q.play ELSE e.play,
   apple |-> IF q.apple # NoId THEN q.apple ELSE e.apple]

Upsert(pairs, q) ==
  LET matches == {e \in pairs : Same(e, q)}
      name == DisplayName(pairs, q)
      e == First(matches)
  IN IF matches = {}
       THEN pairs \cup {[key |-> q.key, name |-> name, play |-> q.play, apple |-> q.apple]}
       ELSE (pairs \ {e}) \cup {Merge(e, name, q)}

\* What a pairing call, or an entry, links.
Links(q) == {q.key, q.play, q.apple} \ {NoId}

\* Groups that have something in common become one.
Join(groups, links) ==
  {g \in groups : g \cap links = {}}
    \cup {links \cup UNION {g \in groups : g \cap links # {}}}

\* What is not valid TOML is an error of every tool.
Load(c) ==
  /\ pc[c] = "idle"
  /\ c \in Writers
  /\ disk[registry].valid
  /\ \E q \in Pairings :
       /\ job' = [job EXCEPT ![c] =
            [pairing |-> q, list |-> Upsert(Pairs, q), handle |-> NoFile]]
       /\ linked' = Join(linked, Links(q))
  /\ Goto(c, "open")
  /\ UNCHANGED <<disk, registry, tmp>>

-----------------------------------------------------------------------------
(***************************************************************************)
(* save: open and truncate, write, move.                                   *)
(***************************************************************************)
InUse ==
  {registry, tmp} \cup
    {job[c].handle : c \in {d \in Calls : pc[d] \in {"fill", "replace"}}}

Fresh == CHOOSE f \in File : f \notin InUse

Mutant_Open(c) ==
  /\ pc[c] = "open"
  /\ disk' = [disk EXCEPT ![registry] = Torn]
  /\ tmp' = registry
  /\ job' = [job EXCEPT ![c].handle = registry]
  /\ Goto(c, "fill")
  /\ UNCHANGED <<registry, linked>>

Open(c) ==
  LET f == IF tmp = NoFile THEN Fresh ELSE tmp IN
  /\ pc[c] = "open"
  /\ tmp' = f
  /\ disk' = [disk EXCEPT ![f] = Torn]
  /\ job' = [job EXCEPT ![c].handle = f]
  /\ Goto(c, "fill")
  /\ UNCHANGED <<registry, linked>>

\* A text is in the order of the keys.
IsLast(e, list) == \A f \in list : f.key <= e.key

\* An entry with an id it had not, of the entry that another text is cut in.
Gains(e, cut) ==
  {f \in {e, [e EXCEPT !.play = cut.play], [e EXCEPT !.apple = cut.apple]} :
     (e.play # NoId => f.play = e.play) /\ (e.apple # NoId => f.apple = e.apple)}

\* What load finds in a text that ends in the tail of a longer one: a table
\* or a field that is there twice makes it invalid.
Mixtures(old, new) ==
  UNION {{(new \ {last}) \cup {e} \cup rest :
            e \in UNION {Gains(last, cut) : cut \in old},
            rest \in SUBSET {f \in old : \A g \in new : f.key # g.key}} :
          last \in {e \in new : IsLast(e, new)}}

\* What a file is left with when a list is written from its start.
Over(content, list) ==
  IF content = Torn THEN {Whole(list)}
  ELSE {Whole(list), Invalid} \cup {Mixed(both) : both \in Mixtures(content.entries, list)}

Fill(c) ==
  /\ pc[c] = "fill"
  /\ \E content \in Over(disk[job[c].handle], job[c].list) :
       disk' = [disk EXCEPT ![job[c].handle] = content]
  /\ Goto(c, "replace")
  /\ UNCHANGED <<registry, tmp, job, linked>>

\* The move takes whatever file the temporary name leads to.
Replace(c) ==
  /\ pc[c] = "replace"
  /\ tmp # NoFile
  /\ registry' = tmp
  /\ tmp' = NoFile
  /\ disk' = [disk EXCEPT ![registry] = Torn]   \* nothing leads there any more
  /\ Return(c)
  /\ UNCHANGED linked

\* An OSError: the name is gone, or the disk refuses.
FailSave(c) ==
  /\ pc[c] \in {"open", "fill", "replace"}
  /\ Return(c)
  /\ UNCHANGED <<disk, registry, tmp, linked>>

-----------------------------------------------------------------------------
(***************************************************************************)
(* _resolve_pair, and the tools that write to the stores it names.         *)
(***************************************************************************)
\* A text matches what it begins; an empty one matches everything.
Matches(text) ==
  {e \in Pairs : \/ e.key \in KeysLike[text] \/ e.name \in NamesLike[text]
                 \/ {e.play, e.apple} \cap IdsLike[text] # {}}

Found(query) ==
  {e \in Matches(query.text) : query.both => e.play # NoId /\ e.apple # NoId}

Begin(c) ==
  /\ pc[c] = "idle"
  /\ \E q \in Queries :
       job' = [job EXCEPT ![c] =
         [query |-> q, confirmed |-> FALSE, token |-> NoTarget, shown |-> NoTarget,
          found |-> NoTarget]]
  /\ Goto(c, "resolve")
  /\ UNCHANGED <<disk, registry, tmp, linked>>

Resolve(c) ==
  /\ pc[c] = "resolve"
  /\ \E e \in Found(job[c].query) :
       /\ Found(job[c].query) = {e}
       /\ job' = [job EXCEPT ![c].found = <<e.play, e.apple>>]
  /\ Goto(c, "act")
  /\ UNCHANGED <<disk, registry, tmp, linked>>

\* No entry, or several, or a file that is not valid.
Refuse(c) ==
  /\ pc[c] = "resolve"
  /\ Cardinality(Found(job[c].query)) # 1
  /\ Return(c)
  /\ UNCHANGED <<disk, registry, tmp, linked>>

Mutant_Operation(found) == <<NoId, NoId>>

\* The target of the operation is both ids.
Operation(found) == found

Preview(c) ==
  /\ pc[c] = "act"
  /\ ~job[c].confirmed
  /\ job' = [job EXCEPT
       ![c].token = Operation(job[c].found), ![c].shown = job[c].found,
       ![c].found = NoTarget]
  /\ Goto(c, "waiting")
  /\ UNCHANGED <<disk, registry, tmp, linked>>

Confirm(c) ==
  /\ pc[c] = "waiting"
  /\ job' = [job EXCEPT ![c].confirmed = TRUE]
  /\ Goto(c, "resolve")
  /\ UNCHANGED <<disk, registry, tmp, linked>>

\* The gate lets the call pass, and the tool writes to the ids it found.
Passes(c) ==
  /\ pc[c] = "act"
  /\ job[c].confirmed
  /\ Operation(job[c].found) = job[c].token

Act(c) ==
  /\ Passes(c)
  /\ Return(c)
  /\ UNCHANGED <<disk, registry, tmp, linked>>

\* The token is bound to other ids, or the user never confirms.
Reject(c) ==
  /\ \/ pc[c] = "act" /\ job[c].confirmed /\ ~Passes(c)
     \/ pc[c] = "waiting"
  /\ Return(c)
  /\ UNCHANGED <<disk, registry, tmp, linked>>

\* The server dies: calls in progress are gone, tokens and files are not.
Crash ==
  /\ job' = [c \in Calls |-> IF pc[c] = "waiting" THEN job[c] ELSE NoJob]
  /\ pc' = [c \in Calls |-> IF pc[c] = "waiting" THEN "waiting" ELSE "idle"]
  /\ UNCHANGED <<disk, registry, tmp, linked>>

-----------------------------------------------------------------------------
\* No registry yet: a file that is missing is loaded as an empty one.
Init ==
  /\ disk = [f \in File |-> IF f = 0 THEN Whole({}) ELSE Torn]
  /\ registry = 0
  /\ tmp = NoFile
  /\ pc = [c \in Calls |-> "idle"]
  /\ job = [c \in Calls |-> NoJob]
  /\ linked = {}

Next ==
  \/ \E c \in Calls :
       \/ Load(c) \/ Open(c) \/ Fill(c) \/ Replace(c) \/ FailSave(c)
       \/ Begin(c) \/ Resolve(c) \/ Refuse(c) \/ Preview(c) \/ Confirm(c)
       \/ Act(c) \/ Reject(c)
  \/ Crash

Spec == Init /\ [][Next]_vars

-----------------------------------------------------------------------------
(***************************************************************************)
(* Properties.                                                             *)
(***************************************************************************)

\* The type invariant; a session has a record exactly while it is not idle.
TypeOK ==
  /\ disk \in [File -> Content]
  /\ registry \in File
  /\ tmp \in File \cup {NoFile}
  /\ pc \in [Calls -> Label]
  /\ job \in [Calls -> Job \cup {NoJob}]
  /\ \A c \in Calls : pc[c] = "idle" <=> job[c] = NoJob
  /\ linked \subseteq SUBSET (Key \cup Packages \cup AppleIds)

\* apps.toml is never half written, wherever a save fails or the server dies,
\* as long as one call at a time saves.
RegistryIsWhole == Cardinality(Writers) = 1 => disk[registry].whole

\* Two ids stand in one entry only if the user's calls linked them, by naming
\* them together, the same key for both, or through other ids and keys; again
\* as long as one call at a time saves.
PairedOnPurpose ==
  Cardinality(Writers) = 1 =>
    \A e \in Pairs : e.play # NoId /\ e.apple # NoId =>
      \E g \in linked : {e.play, e.apple} \subseteq g

\* A confirmed write goes to the two store ids that its preview named, however
\* the registry was paired anew in between.
ActsOnThePairShown == \A c \in Calls : Passes(c) => job[c].found = job[c].shown

=============================================================================
