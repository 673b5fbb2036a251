-------------------------- MODULE AppRegistryProofs --------------------------
(***************************************************************************)
(* Results about the app registry, for any calls, ids and pairings: with   *)
(* one writer apps.toml is never half written, a confirmed write goes to   *)
(* the two ids its preview named, and two ids stand in one entry only if   *)
(* the user linked them.  And about what is made of it, for any apps: every*)
(* app has one row of the portfolio, and proposals are accepted as shown.  *)
(***************************************************************************)
EXTENDS AppMatching, FiniteSetTheorems, WellFoundedInduction, TLAPS

-----------------------------------------------------------------------------
(***************************************************************************)
(* The registry is whole.                                                  *)
(***************************************************************************)

\* What save relies on: the temporary name never leads to the registry's file,
\* and what is moved over the registry has been written.
Saving(w) ==
  /\ disk = [f \in File |-> disk[f]]
  /\ registry \in File /\ tmp \in File \cup {NoFile} /\ tmp # registry
  /\ disk[registry].whole
  /\ pc = [c \in Calls |-> pc[c]] /\ job = [c \in Calls |-> job[c]]
  /\ \A c \in Calls : pc[c] \in {"open", "fill", "replace"} => c = w
  /\ pc[w] = "open" => "handle" \in DOMAIN job[w]
  /\ pc[w] \in {"fill", "replace"} => tmp \in File /\ job[w].handle = tmp
  /\ pc[w] = "fill" => disk[tmp] = Torn
  /\ pc[w] = "replace" => disk[tmp].whole

LEMMA FileNames == NoFile \notin File /\ 0 \in File /\ Cardinality(Calls) \in Nat
BY RegistryAssumption, FS_CardinalityType DEF File, NoFile

LEMMA SavingInit == ASSUME NEW w \in Calls, Init PROVE Saving(w)
BY FileNames DEF Init, Saving, Whole

\* A step that leaves the files alone, and in which no call but the writer's
\* comes to save.
LEMMA FilesAlone ==
  ASSUME NEW w \in Calls, Saving(w), UNCHANGED <<disk, registry, tmp>>,
         NEW c \in Calls, NEW label, NEW record,
         label \notin {"open", "fill", "replace"},
         pc' = [pc EXCEPT ![c] = label], job' = [job EXCEPT ![c] = record]
  PROVE  Saving(w)'
BY DEF Saving

LEMMA SavingStep ==
  ASSUME NEW w \in Calls, Writers = {w}, Saving(w), [Next]_vars
  PROVE  Saving(w)'
<1>1. ASSUME NEW c \in Calls, Load(c) PROVE Saving(w)'
  <2>1. c = w /\ UNCHANGED <<disk, registry, tmp>> /\ pc' = [pc EXCEPT ![c] = "open"]
    BY <1>1 DEF Load, Goto
  <2>2. PICK q \in Pairings :
          job' = [job EXCEPT ![c] =
            [pairing |-> q, list |-> Upsert(Pairs, q), handle |-> NoFile]]
    BY <1>1 DEF Load
  <2>3. "handle" \in DOMAIN job'[w]
    BY <2>1, <2>2 DEF Saving
  <2>. QED BY <2>1, <2>2, <2>3 DEF Saving
<1>2. ASSUME NEW c \in Calls, Open(c) PROVE Saving(w)'
  <2>. DEFINE f == IF tmp = NoFile THEN Fresh ELSE tmp
  <2>1. c = w /\ pc[w] = "open"
    BY <1>2 DEF Open, Saving
  <2>2. f \in File /\ f # registry
    <3>1. CASE tmp = NoFile
      <4>1. InUse = {registry, NoFile}
        <5>1. {d \in Calls : pc[d] \in {"fill", "replace"}} = {}
          BY <2>1 DEF Saving
        <5>. QED BY <3>1, <5>1 DEF InUse
      <4>2. Cardinality(Calls) # 0
        BY RegistryAssumption, FS_EmptySet
      <4>3. 0 \in File /\ 1 \in File
        BY <4>2, FileNames DEF File
      <4>4. \E g \in File : g \notin InUse
        BY <4>1, <4>3, FileNames
      <4>. QED BY <3>1, <4>1, <4>4 DEF Fresh
    <3>. QED BY <3>1 DEF Saving
  <2>3. /\ tmp' = f /\ disk' = [disk EXCEPT ![f] = Torn]
        /\ job' = [job EXCEPT ![c].handle = f]
        /\ pc' = [pc EXCEPT ![c] = "fill"] /\ registry' = registry
    BY <1>2 DEF Open, Goto
  <2>. HIDE DEF f
  <2>4. job'[w].handle = f
    BY <2>1, <2>3 DEF Saving
  <2>. QED BY <2>1, <2>2, <2>3, <2>4 DEF Saving
<1>3. ASSUME NEW c \in Calls, Fill(c) PROVE Saving(w)'
  <2>1. c = w /\ pc[w] = "fill"
    BY <1>3 DEF Fill, Saving
  <2>2. /\ disk' = [disk EXCEPT ![tmp] = Whole(job[c].list)]
        /\ pc' = [pc EXCEPT ![c] = "replace"] /\ UNCHANGED <<registry, tmp, job>>
    BY <1>3, <2>1 DEF Fill, Over, Goto, Saving
  <2>3. disk'[tmp].whole
    BY <2>1, <2>2 DEF Whole, Saving
  <2>. QED BY <2>1, <2>2, <2>3 DEF Saving
<1>4. ASSUME NEW c \in Calls, Replace(c) PROVE Saving(w)'
  <2>1. c = w /\ pc[w] = "replace"
    BY <1>4 DEF Replace, Saving
  <2>2. /\ registry' = tmp /\ tmp' = NoFile /\ disk' = [disk EXCEPT ![registry] = Torn]
        /\ pc' = [pc EXCEPT ![c] = "idle"] /\ job' = [job EXCEPT ![c] = NoJob]
    BY <1>4 DEF Replace, Return, Goto
  <2>3. disk'[tmp] = disk[tmp] /\ disk[tmp].whole
    BY <2>1, <2>2 DEF Saving
  <2>. QED BY <2>1, <2>2, <2>3, FileNames DEF Saving
<1>5. ASSUME NEW c \in Calls, FailSave(c) \/ Refuse(c) \/ Act(c) \/ Reject(c) PROVE Saving(w)'
  <2>1. /\ UNCHANGED <<disk, registry, tmp>>
        /\ pc' = [pc EXCEPT ![c] = "idle"] /\ job' = [job EXCEPT ![c] = NoJob]
    BY <1>5 DEF FailSave, Refuse, Act, Reject, Return, Goto
  <2>. QED BY <2>1, FilesAlone
<1>6. ASSUME NEW c \in Calls, Begin(c) PROVE Saving(w)'
  <2>1. PICK q \in Queries :
          job' = [job EXCEPT ![c] =
            [query |-> q, confirmed |-> FALSE, token |-> NoTarget, shown |-> NoTarget,
             found |-> NoTarget]]
    BY <1>6 DEF Begin
  <2>2. UNCHANGED <<disk, registry, tmp>> /\ pc' = [pc EXCEPT ![c] = "resolve"]
    BY <1>6 DEF Begin, Goto
  <2>. QED BY <2>1, <2>2, FilesAlone
<1>7. ASSUME NEW c \in Calls, Resolve(c) \/ Preview(c) \/ Confirm(c) PROVE Saving(w)'
  <2>1. /\ UNCHANGED <<disk, registry, tmp>>
        /\ \E label \in {"act", "waiting", "resolve"} : pc' = [pc EXCEPT ![c] = label]
        /\ pc[c] \notin {"open", "fill", "replace"}
    BY <1>7 DEF Resolve, Preview, Confirm, Goto
  <2>2. job' = [job EXCEPT ![c] = job'[c]]
    <3>1. CASE Resolve(c)
      <4>1. PICK e \in Found(job[c].query) :
              job' = [job EXCEPT ![c].found = <<e.play, e.apple>>]
        BY <3>1 DEF Resolve
      <4>. QED BY <4>1 DEF Saving
    <3>2. CASE Preview(c)
      BY <3>2 DEF Preview, Saving
    <3>3. CASE Confirm(c)
      BY <3>3 DEF Confirm, Saving
    <3>. QED BY <1>7, <3>1, <3>2, <3>3
  <2>. QED BY <2>1, <2>2, FilesAlone
<1>8. ASSUME Crash PROVE Saving(w)'
  BY <1>8 DEF Crash, Saving
<1>9. ASSUME UNCHANGED vars PROVE Saving(w)'
  BY <1>9 DEF vars, Saving
<1>. QED BY <1>1, <1>2, <1>3, <1>4, <1>5, <1>6, <1>7, <1>8, <1>9 DEF Next

\* With one writer, apps.toml is never half written, wherever a save fails or
\* the server dies (AppRegistry.save).
THEOREM RegistryStaysWhole == Spec => []RegistryIsWhole
<1>1. ASSUME NEW w \in Calls, Writers = {w} PROVE Spec => []RegistryIsWhole
  <2>1. Saving(w) => RegistryIsWhole
    BY DEF Saving, RegistryIsWhole
  <2>2. Saving(w) /\ [Next]_vars => Saving(w)'
    BY <1>1, SavingStep
  <2>3. Init => Saving(w)
    BY <1>1, SavingInit
  <2>. QED BY <2>1, <2>2, <2>3, PTL DEF Spec
<1>2. CASE Cardinality(Writers) # 1
  <2>1. RegistryIsWhole
    BY <1>2 DEF RegistryIsWhole
  <2>. QED BY <2>1, PTL
<1>3. CASE Cardinality(Writers) = 1
  <2>1. IsFiniteSet(Writers)
    BY RegistryAssumption, FS_Subset
  <2>2. PICK w : Writers = {w}
    BY <1>3, <2>1, FS_Singleton
  <2>3. w \in Calls
    BY <2>2, RegistryAssumption
  <2>. QED BY <1>1, <2>2, <2>3
<1>. QED BY <1>2, <1>3

-----------------------------------------------------------------------------
(***************************************************************************)
(* The pair that was shown.                                                *)
(***************************************************************************)

\* A token is bound to what its preview named.
Bound ==
  /\ pc = [c \in Calls |-> pc[c]] /\ job = [c \in Calls |-> job[c]]
  /\ \A c \in Calls : pc[c] \in {"resolve", "act", "waiting"} =>
       /\ {"confirmed", "token", "shown", "found"} \subseteq DOMAIN job[c]
       /\ job[c].token = job[c].shown

\* A step of one call, that keeps its record bound.
LEMMA OneCallMoves ==
  ASSUME Bound, NEW c \in Calls, NEW label, NEW record,
         pc' = [pc EXCEPT ![c] = label], job' = [job EXCEPT ![c] = record],
         label \in {"resolve", "act", "waiting"} =>
           /\ {"confirmed", "token", "shown", "found"} \subseteq DOMAIN record
           /\ record.token = record.shown
  PROVE  Bound'
BY DEF Bound

LEMMA BoundStep == ASSUME Bound, [Next]_vars PROVE Bound'
<1>1. ASSUME NEW c \in Calls, Load(c) PROVE Bound'
  <2>1. PICK q \in Pairings :
          job' = [job EXCEPT ![c] =
            [pairing |-> q, list |-> Upsert(Pairs, q), handle |-> NoFile]]
    BY <1>1 DEF Load
  <2>2. pc' = [pc EXCEPT ![c] = "open"]
    BY <1>1 DEF Load, Goto
  <2>. QED BY <2>1, <2>2, OneCallMoves
<1>2. ASSUME NEW c \in Calls, Open(c) \/ Fill(c) PROVE Bound'
  <2>1. \E label \in {"fill", "replace"} : pc' = [pc EXCEPT ![c] = label]
    BY <1>2 DEF Open, Fill, Goto
  <2>2. job' = [job EXCEPT ![c] = job'[c]]
    BY <1>2 DEF Open, Fill, Bound
  <2>. QED BY <2>1, <2>2, OneCallMoves
<1>3. ASSUME NEW c \in Calls,
             Replace(c) \/ FailSave(c) \/ Refuse(c) \/ Act(c) \/ Reject(c)
      PROVE  Bound'
  <2>1. pc' = [pc EXCEPT ![c] = "idle"] /\ job' = [job EXCEPT ![c] = NoJob]
    BY <1>3 DEF Replace, FailSave, Refuse, Act, Reject, Return, Goto
  <2>. QED BY <2>1, OneCallMoves
<1>4. ASSUME NEW c \in Calls, Begin(c) PROVE Bound'
  <2>1. PICK q \in Queries :
          job' = [job EXCEPT ![c] =
            [query |-> q, confirmed |-> FALSE, token |-> NoTarget, shown |-> NoTarget,
             found |-> NoTarget]]
    BY <1>4 DEF Begin
  <2>2. pc' = [pc EXCEPT ![c] = "resolve"]
    BY <1>4 DEF Begin, Goto
  <2>. QED BY <2>1, <2>2, OneCallMoves
<1>5. ASSUME NEW c \in Calls, Resolve(c) PROVE Bound'
  <2>1. PICK e \in Found(job[c].query) :
          job' = [job EXCEPT ![c].found = <<e.play, e.apple>>]
    BY <1>5 DEF Resolve
  <2>2. pc[c] = "resolve" /\ pc' = [pc EXCEPT ![c] = "act"]
    BY <1>5 DEF Resolve, Goto
  <2>. DEFINE record == [job[c] EXCEPT !.found = <<e.play, e.apple>>]
  <2>3. job' = [job EXCEPT ![c] = record]
    BY <2>1
  <2>4. /\ {"confirmed", "token", "shown", "found"} \subseteq DOMAIN record
        /\ record.token = record.shown
    BY <2>2 DEF Bound
  <2>. HIDE DEF record
  <2>. QED BY <2>2, <2>3, <2>4, OneCallMoves
<1>6. ASSUME NEW c \in Calls, Preview(c) PROVE Bound'
  <2>. DEFINE record ==
         [job[c] EXCEPT !.token = job[c].found, !.shown = job[c].found, !.found = NoTarget]
  <2>1. pc[c] = "act" /\ pc' = [pc EXCEPT ![c] = "waiting"]
    BY <1>6 DEF Preview, Goto
  <2>2. job' = [job EXCEPT ![c] = record]
    BY <1>6 DEF Preview, Operation, Bound
  <2>3. /\ {"confirmed", "token", "shown", "found"} \subseteq DOMAIN record
        /\ record.token = record.shown
    BY <2>1 DEF Bound
  <2>. HIDE DEF record
  <2>. QED BY <2>1, <2>2, <2>3, OneCallMoves
<1>7. ASSUME NEW c \in Calls, Confirm(c) PROVE Bound'
  <2>. DEFINE record == [job[c] EXCEPT !.confirmed = TRUE]
  <2>1. pc[c] = "waiting" /\ pc' = [pc EXCEPT ![c] = "resolve"]
    BY <1>7 DEF Confirm, Goto
  <2>2. job' = [job EXCEPT ![c] = record]
    BY <1>7 DEF Confirm
  <2>3. /\ {"confirmed", "token", "shown", "found"} \subseteq DOMAIN record
        /\ record.token = record.shown
    BY <2>1 DEF Bound
  <2>. HIDE DEF record
  <2>. QED BY <2>1, <2>2, <2>3, OneCallMoves
<1>8. ASSUME Crash PROVE Bound'
  BY <1>8 DEF Crash, Bound
<1>9. ASSUME UNCHANGED vars PROVE Bound'
  BY <1>9 DEF vars, Bound
<1>. QED BY <1>1, <1>2, <1>3, <1>4, <1>5, <1>6, <1>7, <1>8, <1>9 DEF Next

\* A confirmed write goes to the two store ids its preview named, however the
\* registry was paired anew in between (_resolve_pair and the gate).
THEOREM ActsAsShown == Spec => []ActsOnThePairShown
<1>1. Init => Bound
  BY DEF Init, Bound
<1>2. Bound => ActsOnThePairShown
  BY DEF Bound, ActsOnThePairShown, Passes, Operation
<1>. QED BY <1>1, <1>2, BoundStep, PTL DEF Spec

-----------------------------------------------------------------------------
(***************************************************************************)
(* What the entries link, whoever writes them.                             *)
(***************************************************************************)
AtSave == {"open", "fill", "replace"}
AtUse == {"resolve", "waiting", "act"}

Saves == [pairing : Pairings, list : SUBSET Entry, handle : File \cup {NoFile}]
Uses == [query : Queries, confirmed : BOOLEAN, token : Target \cup {NoTarget},
         shown : Target \cup {NoTarget}, found : Target \cup {NoTarget}]

KeysDiffer(entries) == \A e \in entries, f \in entries : e.key = f.key => e = f

Grouped(entries, groups) == \A e \in entries : \E g \in groups : Links(e) \subseteq g

AskedKeys == {q.key : q \in Pairings}

\* The groups that an entry's ids are in: those the user linked, if one call
\* at a time saves; else a file may be a mixture, and this says nothing.
Alone == Cardinality(Writers) = 1
Anything == Key \cup Packages \cup AppleIds
Groups == IF Alone THEN linked ELSE {Anything}

\* A list of the registry: each key once and only keys a user gave, and what
\* an entry links the user's calls have linked.
Sound(entries, groups) ==
  /\ entries \in SUBSET Entry
  /\ KeysDiffer(entries)
  /\ \A e \in entries : e.key \in AskedKeys
  /\ Grouped(entries, groups)

\* The inductive invariant: what is in a file, half written, mixed or left
\* over, or about to be written, is such a list; and a call that is alone
\* writes to an empty file.
Inv ==
  /\ TypeOK
  /\ \A f \in File : Sound(disk[f].entries, Groups)
  /\ \A c \in Calls : pc[c] \in AtSave =>
       c \in Writers /\ job[c] \in Saves /\ Sound(job[c].list, Groups)
  /\ \A c \in Calls : pc[c] = "fill" =>
       job[c].handle \in File /\ (Alone => disk[job[c].handle] = Torn)
  /\ \A c \in Calls : pc[c] \in AtUse => job[c] \in Uses

LEMMA EntryFields ==
  ASSUME NEW e \in Entry
  PROVE  /\ e.key \in Key /\ e.name \in Name /\ e.play \in Package /\ e.apple \in AppleId
         /\ e.key \in Nat /\ e.name \in Nat
BY RegistryAssumption DEF Entry, Key, Name

LEMMA OneWriter ==
  ASSUME Alone, NEW c \in Writers, NEW d \in Writers PROVE c = d
<1>1. IsFiniteSet(Writers)
  BY RegistryAssumption, FS_Subset
<1>2. PICK w : Writers = {w}
  BY <1>1, FS_Singleton DEF Alone
<1> QED BY <1>2

\* Whatever the entries link is something.
LEMMA AnyGroup == \A entries \in SUBSET Entry : Grouped(entries, {Anything})
<1> SUFFICES ASSUME NEW e \in Entry PROVE Links(e) \subseteq Anything
  BY DEF Grouped
<1> QED BY EntryFields DEF Links, Anything, Package, AppleId

\* Any set of numbers has a least one.
LEMMA Least ==
  ASSUME NEW T, T \subseteq Nat, T # {}
  PROVE  \E x \in T : \A y \in T : x <= y
<1>1. PICK x \in T : \A y \in T : ~ (<<y, x>> \in OpToRel(<, Nat))
  BY NatLessThanWellFounded, WFMin
<1>2. ASSUME NEW y \in T PROVE x <= y
  <2>1. ~(y < x)
    BY <1>1, Zenon DEF OpToRel
  <2> QED BY <2>1
<1> QED BY <1>2

\* Of entries with different keys one is the first by name and key.
LEMMA FirstIsOne ==
  ASSUME NEW S \in SUBSET Entry, KeysDiffer(S), S # {}
  PROVE  First(S) \in S
<1> DEFINE names == {e.name : e \in S}
<1>1. names \subseteq Nat /\ names # {}
  BY EntryFields
<1>2. PICK n \in names : \A m \in names : n <= m
  <2> HIDE DEF names
  <2> QED BY <1>1, Least
<1> DEFINE keys == {e.key : e \in {f \in S : f.name = n}}
<1>3. keys \subseteq Nat /\ keys # {}
  BY EntryFields
<1>4. PICK k \in keys : \A m \in keys : k <= m
  <2> HIDE DEF keys
  <2> QED BY <1>3, Least
<1>5. PICK e \in S : e.name = n /\ e.key = k
  OBVIOUS
<1>6. ASSUME NEW f \in S \ {e} PROVE Before(e, f)
  <2>1. e.name <= f.name /\ e.key # f.key
    BY <1>2, <1>5 DEF KeysDiffer
  <2>2. f.name = n => e.key <= f.key
    BY <1>4, <1>5
  <2>3. e \in Entry /\ f \in Entry
    OBVIOUS
  <2> QED BY <1>5, <2>1, <2>2, <2>3, EntryFields DEF Before
<1> QED BY <1>5, <1>6 DEF First

LEMMA PairingIs ==
  ASSUME NEW q \in Pairings
  PROVE  /\ q.key \in Key /\ q.name \in Name \cup {0} /\ q.play \in Package
         /\ q.apple \in AppleId /\ (q.play # NoId \/ q.apple # NoId)
BY RegistryAssumption DEF Pairing

LEMMA NameIsOne ==
  ASSUME NEW S \in SUBSET Entry, KeysDiffer(S), NEW q \in Pairings
  PROVE  DisplayName(S, q) \in Name
<1>1. CASE q.name # 0
  BY <1>1, PairingIs DEF DisplayName
<1>2. CASE q.name = 0 /\ Existing(S, q) # {}
  <2>1. Existing(S, q) \in SUBSET Entry /\ KeysDiffer(Existing(S, q))
    BY DEF Existing, KeysDiffer
  <2>2. First(Existing(S, q)) \in Entry
    <3> HIDE DEF Existing
    <3> QED BY <1>2, <2>1, FirstIsOne
  <2> QED BY <1>2, <2>2, EntryFields DEF DisplayName
<1>3. CASE q.name = 0 /\ Existing(S, q) = {}
  <2>1. IF q.play # NoId THEN q.play \in Packages ELSE q.apple \in AppleIds
    BY PairingIs DEF Package, AppleId
  <2>2. NameOf \in [Packages \cup AppleIds -> Name]
    BY RegistryAssumption
  <2> QED BY <1>3, <2>1, <2>2 DEF DisplayName
<1> QED BY <1>1, <1>2, <1>3

\* Joining loses no group.
LEMMA JoinGrows ==
  ASSUME NEW groups, NEW links, NEW g \in groups
  PROVE  \E h \in Join(groups, links) : g \subseteq h
<1>1. CASE g \cap links = {}
  BY <1>1 DEF Join
<1>2. CASE g \cap links # {}
  BY <1>2 DEF Join
<1> QED BY <1>1, <1>2

\* What meets the links that are joined, or is among them, is in one group with them.
LEMMA JoinJoins ==
  ASSUME NEW groups, NEW links, NEW g \in groups, g \cap links # {}
  PROVE  \E h \in Join(groups, links) : g \cup links \subseteq h
<1> DEFINE h == links \cup UNION {m \in groups : m \cap links # {}}
<1>1. h \in Join(groups, links)
  BY DEF Join
<1>2. g \cup links \subseteq h
  OBVIOUS
<1> QED BY <1>1, <1>2

\* A pairing call adds its entry, or merges it into one it shares a key or an
\* id with (upsert).
LEMMA UpsertIsSound ==
  ASSUME NEW S, NEW groups, Sound(S, groups), NEW q \in Pairings
  PROVE  Sound(Upsert(S, q), Join(groups, Links(q)))
<1> DEFINE matches == {e \in S : Same(e, q)}
           n == DisplayName(S, q)
           joined == Join(groups, Links(q))
<1>1. /\ S \in SUBSET Entry /\ KeysDiffer(S) /\ Grouped(S, groups)
      /\ \A e \in S : e.key \in AskedKeys
  BY DEF Sound
<1>2. n \in Name
  BY <1>1, NameIsOne
<1>3. Grouped(S, joined)
  <2> SUFFICES ASSUME NEW e \in S PROVE \E h \in joined : Links(e) \subseteq h
    BY DEF Grouped
  <2>1. PICK g \in groups : Links(e) \subseteq g
    BY <1>1 DEF Grouped
  <2> QED BY <2>1, JoinGrows
<1> HIDE DEF n, joined
<1>4. CASE matches = {}
  <2> DEFINE new == [key |-> q.key, name |-> n, play |-> q.play, apple |-> q.apple]
  <2>1. Upsert(S, q) = S \cup {new}
    BY <1>4 DEF Upsert, n
  <2>2. new \in Entry
    BY <1>2, PairingIs DEF Entry
  <2>3. (\A e \in S : e.key # new.key) /\ new.key \in AskedKeys
    BY <1>4 DEF Same, AskedKeys
  <2>4. \E h \in joined : Links(new) \subseteq h
    <3>1. Links(new) = Links(q)
      BY DEF Links
    <3>2. Links(q) \cup UNION {m \in groups : m \cap Links(q) # {}} \in joined
      BY DEF Join, joined
    <3> HIDE DEF new
    <3> QED BY <3>1, <3>2
  <2> HIDE DEF new, matches
  <2>5. KeysDiffer(S \cup {new})
    BY <1>1, <2>3 DEF KeysDiffer
  <2>6. Grouped(S \cup {new}, joined)
    BY <1>3, <2>4 DEF Grouped
  <2> QED BY <1>1, <2>1, <2>2, <2>3, <2>5, <2>6 DEF Sound, joined
<1>5. CASE matches # {}
  <2> DEFINE e == First(matches)
             new == Merge(e, n, q)
  <2>1. Upsert(S, q) = (S \ {e}) \cup {new}
    BY <1>5 DEF Upsert, n
  <2>2. e \in S /\ Same(e, q)
    <3>1. matches \in SUBSET Entry /\ KeysDiffer(matches)
      BY <1>1 DEF KeysDiffer
    <3>2. e \in matches
      <4> HIDE DEF matches
      <4> QED BY <1>5, <3>1, FirstIsOne
    <3> HIDE DEF e
    <3> QED BY <3>2
  <2> HIDE DEF e, matches
  <2>3. e \in Entry
    BY <1>1, <2>2
  <2>4. new \in Entry /\ new.key = e.key
    BY <1>2, <2>3, PairingIs, EntryFields DEF Entry, Merge
  <2>5. Links(new) \subseteq Links(e) \cup Links(q)
    BY DEF Links, Merge
  <2>6. Links(e) \cap Links(q) # {}
    <3>1. CASE e.key = q.key
      <4>1. e.key # NoId
        BY <2>3, EntryFields, RegistryAssumption
      <4> QED BY <3>1, <4>1 DEF Links
    <3>2. CASE q.play # NoId /\ e.play = q.play
      BY <3>2 DEF Links
    <3>3. CASE q.apple # NoId /\ e.apple = q.apple
      BY <3>3 DEF Links
    <3> QED BY <2>2, <3>1, <3>2, <3>3 DEF Same
  <2>7. \E h \in joined : Links(new) \subseteq h
    <3>1. PICK g \in groups : Links(e) \subseteq g
      BY <1>1, <2>2 DEF Grouped
    <3>2. g \cap Links(q) # {}
      BY <2>6, <3>1
    <3>3. PICK h \in joined : g \cup Links(q) \subseteq h
      BY <3>2, JoinJoins DEF joined
    <3> QED BY <2>5, <3>1, <3>3
  <2> HIDE DEF new
  <2>8. KeysDiffer((S \ {e}) \cup {new})
    BY <1>1, <2>2, <2>4 DEF KeysDiffer
  <2>9. Grouped((S \ {e}) \cup {new}, joined)
    BY <1>3, <2>7 DEF Grouped
  <2> QED BY <1>1, <2>1, <2>2, <2>4, <2>8, <2>9 DEF Sound, joined
<1> QED BY <1>4, <1>5

-----------------------------------------------------------------------------
(***************************************************************************)
(* The steps.                                                              *)
(***************************************************************************)

\* There is always a file nobody uses: the calls that write hold one each.
LEMMA FreshFile ==
  ASSUME tmp = NoFile
  PROVE  Fresh \in File
<1> DEFINE writers == {d \in Calls : pc[d] \in {"fill", "replace"}}
           handles == {job[c].handle : c \in writers}
           g == [c \in writers |-> job[c].handle]
           N == Cardinality(Calls)
<1> SUFFICES ASSUME \A f \in File : f \in {registry, tmp} \cup handles PROVE FALSE
  BY DEF Fresh, InUse
<1>1. IsFiniteSet(Calls) /\ N \in Nat
  BY RegistryAssumption, FS_CardinalityType
<1>2. IsFiniteSet(writers) /\ Cardinality(writers) <= N /\ Cardinality(writers) \in Nat
  BY <1>1, FS_Subset, FS_CardinalityType
<1>3. g \in Surjection(writers, handles)
  BY DEF Surjection
<1>4. IsFiniteSet(handles) /\ Cardinality(handles) <= N /\ Cardinality(handles) \in Nat
  <2> HIDE DEF g, handles, writers
  <2> QED BY <1>1, <1>2, <1>3, FS_Surjection, FS_CardinalityType
<1>5. /\ IsFiniteSet(handles \cup {registry})
      /\ Cardinality(handles \cup {registry}) <= N + 1
      /\ Cardinality(handles \cup {registry}) \in Nat
  <2> HIDE DEF handles
  <2>1. /\ IsFiniteSet(handles \cup {registry})
        /\ Cardinality(handles \cup {registry}) =
             IF registry \in handles THEN Cardinality(handles) ELSE Cardinality(handles) + 1
    BY <1>4, FS_AddElement
  <2> QED BY <1>1, <1>4, <2>1
<1>6. File \subseteq handles \cup {registry}
  BY <1>1, FileNames
<1>7. IsFiniteSet(File) /\ Cardinality(File) = N + 2
  BY <1>1, FS_Interval DEF File
<1> HIDE DEF handles
<1> QED BY <1>1, <1>5, <1>6, <1>7, FS_Subset

LEMMA ContentIs ==
  /\ Torn \in Content /\ \A groups : Sound(Torn.entries, groups)
  /\ \A list \in SUBSET Entry : Whole(list) \in Content /\ Whole(list).entries = list
BY DEF Torn, Whole, Content, Sound, KeysDiffer, Grouped

\* What becomes of a file that is written.
LEMMA OverIsSound ==
  ASSUME NEW old \in Content, Sound(old.entries, Groups), NEW list, Sound(list, Groups),
         Alone => old = Torn, NEW content \in Over(old, list)
  PROVE  content \in Content /\ Sound(content.entries, Groups)
<1>1. list \in SUBSET Entry /\ old.entries \in SUBSET Entry
  BY DEF Sound
<1>2. CASE content = Whole(list)
  BY <1>1, <1>2, ContentIs
<1>3. CASE content = Invalid
  BY <1>3 DEF Invalid, Content, Sound, KeysDiffer, Grouped
<1>4. ASSUME NEW both \in Mixtures(old.entries, list), content = Mixed(both), ~Alone
      PROVE  content \in Content /\ Sound(content.entries, Groups)
  <2> DEFINE others == {f \in old.entries : \A g \in list : f.key # g.key}
  <2>1. PICK last \in list, cut \in old.entries :
          \E e \in Gains(last, cut), rest \in SUBSET others :
            both = (list \ {last}) \cup {e} \cup rest
    BY <1>4 DEF Mixtures
  <2>2. PICK e \in Gains(last, cut), rest \in SUBSET others :
          both = (list \ {last}) \cup {e} \cup rest
    BY <2>1
  <2>3. last \in Entry /\ cut \in Entry
    BY <1>1, <2>1
  <2>4. e \in Entry /\ e.key = last.key
    BY <2>2, <2>3 DEF Gains, Entry
  <2>5. both \in SUBSET Entry
    BY <1>1, <2>2, <2>4
  <2>6. KeysDiffer(both)
    <3>1. \A f \in rest, g \in list : f.key # g.key
      BY <2>2
    <3>2. \A f, g \in rest : f.key = g.key => f = g
      BY <2>2 DEF Sound, KeysDiffer
    <3>3. \A f \in list : f.key = last.key => f = last
      BY <2>1 DEF Sound, KeysDiffer
    <3>4. \A f, g \in list : f.key = g.key => f = g
      BY DEF Sound, KeysDiffer
    <3> HIDE DEF others
    <3> QED BY <2>2, <2>4, <3>1, <3>2, <3>3, <3>4 DEF KeysDiffer
  <2>7. \A f \in both : f.key \in AskedKeys
    BY <2>1, <2>2, <2>4 DEF Sound
  <2>8. Grouped(both, Groups)
    BY <1>4, <2>5, AnyGroup DEF Groups
  <2>9. content \in Content /\ content.entries = both
    BY <1>4, <2>5 DEF Mixed, Content
  <2> QED BY <2>5, <2>6, <2>7, <2>8, <2>9 DEF Sound
<1>5. CASE Alone
  BY <1>2, <1>5 DEF Over
<1>6. CASE ~Alone
  BY <1>2, <1>3, <1>4, <1>6 DEF Over
<1> QED BY <1>5, <1>6

LEMMA InitRegistry == Init => Inv
<1> SUFFICES ASSUME Init PROVE Inv
  OBVIOUS
<1>1. \A f \in File : disk[f] \in Content /\ Sound(disk[f].entries, Groups)
  BY ContentIs DEF Init, Whole, Sound, KeysDiffer, Grouped
<1>2. TypeOK
  <2>1. disk \in [File -> Content]
    BY <1>1 DEF Init
  <2> QED BY <2>1, FileNames DEF Init, TypeOK, Label
<1> QED BY <1>1, <1>2 DEF Init, Inv, AtSave, AtUse

\* What the registry says.
LEMMA PairsAreSound == Inv => Sound(Pairs, Groups)
BY DEF Inv, TypeOK, Sound, KeysDiffer, Grouped, Pairs, Loaded

LEMMA JobIs ==
  /\ Saves \subseteq Job /\ Uses \subseteq Job /\ NoJob \notin Saves /\ NoJob \notin Uses
  /\ AtSave \subseteq Label /\ AtUse \subseteq Label
  /\ Label = {"idle"} \cup AtSave \cup AtUse
  /\ "idle" \notin AtSave /\ "idle" \notin AtUse /\ AtSave \cap AtUse = {}
BY NoJobAssumption DEF Saves, Uses, Job, AtSave, AtUse, Label

\* A call goes on, and perhaps has written a file, or the user linked more.
LEMMA Moves ==
  ASSUME Inv, NEW c \in Calls, NEW label \in Label, NEW record,
         pc' = [pc EXCEPT ![c] = label], job' = [job EXCEPT ![c] = record],
         label = "idle" => record = NoJob,
         label \in AtSave => c \in Writers /\ record \in Saves /\ Sound(record.list, Groups'),
         label = "fill" => record.handle \in File /\ (Alone => disk'[record.handle] = Torn),
         label \in AtUse => record \in Uses,
         disk' = disk \/ c \in Writers, disk' \in [File -> Content], registry' \in File, tmp' \in File \cup {NoFile},
         \A f \in File : disk'[f] = disk[f] \/ Sound(disk'[f].entries, Groups'),
         linked' \subseteq SUBSET (Key \cup Packages \cup AppleIds),
         \A g \in Groups : \E h \in Groups' : g \subseteq h
  PROVE  Inv'
<1>1. ASSUME NEW entries, Sound(entries, Groups) PROVE Sound(entries, Groups')
  <2> SUFFICES ASSUME NEW e \in entries PROVE \E h \in Groups' : Links(e) \subseteq h
    BY <1>1 DEF Sound, Grouped
  <2>1. PICK g \in Groups : Links(e) \subseteq g
    BY <1>1 DEF Sound, Grouped
  <2> QED BY <2>1
<1>2. pc'[c] = label /\ job'[c] = record
  BY DEF Inv, TypeOK
<1>3. \A d \in Calls : d # c => pc'[d] = pc[d] /\ job'[d] = job[d]
  BY DEF Inv, TypeOK
<1>4. TypeOK'
  <2>1. record \in Job \cup {NoJob} /\ (label = "idle" <=> record = NoJob)
    BY JobIs
  <2>2. pc' \in [Calls -> Label] /\ job' \in [Calls -> Job \cup {NoJob}]
    BY <2>1 DEF Inv, TypeOK
  <2>3. \A d \in Calls : pc'[d] = "idle" <=> job'[d] = NoJob
    BY <1>2, <1>3, <2>1 DEF Inv, TypeOK
  <2> QED BY <2>2, <2>3 DEF TypeOK
<1>5. \A f \in File : Sound(disk[f].entries, Groups)'
  BY <1>1 DEF Inv
<1>6. \A d \in Calls : pc'[d] \in AtSave =>
        d \in Writers /\ job'[d] \in Saves /\ Sound(job'[d].list, Groups')
  <2> SUFFICES ASSUME NEW d \in Calls, pc'[d] \in AtSave
               PROVE  d \in Writers /\ job'[d] \in Saves /\ Sound(job'[d].list, Groups')
    OBVIOUS
  <2>1. CASE d = c
    BY <1>2, <2>1
  <2>2. CASE d # c
    BY <1>1, <1>3, <2>2 DEF Inv
  <2> QED BY <2>1, <2>2
<1>7. \A d \in Calls : pc'[d] \in AtUse => job'[d] \in Uses
  BY <1>2, <1>3 DEF Inv
<1>8. ASSUME NEW d \in Calls, pc'[d] = "fill"
      PROVE  job'[d].handle \in File /\ (Alone => disk'[job'[d].handle] = Torn)
  <2>1. CASE d = c
    BY <1>2, <1>8, <2>1
  <2>2. CASE d # c
    <3>1. pc[d] = "fill" /\ job'[d] = job[d] /\ d \in Writers
      BY <1>3, <1>8, <2>2 DEF Inv, AtSave
    <3>2. job[d].handle \in File /\ (Alone => disk[job[d].handle] = Torn)
      BY <3>1 DEF Inv
    <3>3. Alone => disk' = disk
      BY <2>2, <3>1, OneWriter
    <3> QED BY <3>1, <3>2, <3>3
  <2> QED BY <2>1, <2>2
<1> QED BY <1>4, <1>5, <1>6, <1>7, <1>8 DEF Inv

\* The same, when nothing new is linked.
LEMMA GoesOn ==
  ASSUME Inv, NEW c \in Calls, NEW label \in Label, NEW record,
         pc' = [pc EXCEPT ![c] = label], job' = [job EXCEPT ![c] = record],
         label = "idle" => record = NoJob,
         label \in AtSave => c \in Writers /\ record \in Saves /\ Sound(record.list, Groups),
         label = "fill" => record.handle \in File /\ (Alone => disk'[record.handle] = Torn),
         label \in AtUse => record \in Uses,
         disk' = disk \/ c \in Writers, disk' \in [File -> Content], registry' \in File, tmp' \in File \cup {NoFile},
         \A f \in File : disk'[f] = disk[f] \/ Sound(disk'[f].entries, Groups),
         linked' = linked
  PROVE  Inv'
<1>1. /\ linked' \subseteq SUBSET (Key \cup Packages \cup AppleIds)
      /\ Groups' = Groups /\ \A g \in Groups : \E h \in Groups' : g \subseteq h
  BY DEF Inv, TypeOK, Groups
<1> QED BY <1>1, Moves

\* The same, when the files are left alone.
LEMMA GoesOnAlone ==
  ASSUME Inv, NEW c \in Calls, NEW label \in Label, NEW record,
         pc' = [pc EXCEPT ![c] = label], job' = [job EXCEPT ![c] = record],
         label = "idle" => record = NoJob,
         label \notin AtSave, label \in AtUse => record \in Uses,
         UNCHANGED <<disk, registry, tmp, linked>>
  PROVE  Inv'
<1>1. disk' \in [File -> Content] /\ registry' \in File /\ tmp' \in File \cup {NoFile}
  BY DEF Inv, TypeOK
<1>2. label # "fill"
  BY DEF AtSave
<1> QED BY <1>1, <1>2, GoesOn

LEMMA LoadKeeps == ASSUME Inv, NEW c \in Calls, Load(c) PROVE Inv'
<1>1. PICK q \in Pairings :
        /\ job' = [job EXCEPT ![c] =
             [pairing |-> q, list |-> Upsert(Pairs, q), handle |-> NoFile]]
        /\ linked' = Join(linked, Links(q))
  BY DEF Load
<1> DEFINE record == [pairing |-> q, list |-> Upsert(Pairs, q), handle |-> NoFile]
<1>2. pc' = [pc EXCEPT ![c] = "open"] /\ UNCHANGED <<disk, registry, tmp>> /\ c \in Writers
  BY DEF Load, Goto
<1>3. Sound(Upsert(Pairs, q), Groups')
  <2>1. Sound(Upsert(Pairs, q), Join(Groups, Links(q)))
    BY PairsAreSound, UpsertIsSound
  <2>2. CASE Alone
    BY <1>1, <2>1, <2>2 DEF Groups
  <2>3. CASE ~Alone
    BY <2>1, <2>3, AnyGroup DEF Groups, Sound
  <2> QED BY <2>2, <2>3
<1>4. record \in Saves /\ Sound(record.list, Groups')
  BY <1>3 DEF Saves, Sound
<1>5. linked' \subseteq SUBSET (Key \cup Packages \cup AppleIds)
  <2>1. Links(q) \subseteq Key \cup Packages \cup AppleIds
    BY PairingIs DEF Links, Package, AppleId
  <2> QED BY <1>1, <2>1 DEF Inv, TypeOK, Join
<1>6. \A g \in Groups : \E h \in Groups' : g \subseteq h
  BY <1>1, JoinGrows DEF Groups
<1>7. disk' \in [File -> Content] /\ registry' \in File /\ tmp' \in File \cup {NoFile}
  BY <1>2 DEF Inv, TypeOK
<1>8. "open" \in Label /\ "open" \notin AtUse /\ "open" # "fill"
  BY DEF Label, AtUse
<1>9. job' = [job EXCEPT ![c] = record]
  BY <1>1
<1> HIDE DEF record
<1> QED BY <1>2, <1>4, <1>5, <1>6, <1>7, <1>8, <1>9, Moves

\* What a pairing call will write.
LEMMA SavesIs ==
  ASSUME Inv, NEW c \in Calls, pc[c] \in AtSave
  PROVE  /\ job[c] \in Saves /\ job[c].list \in SUBSET Entry
         /\ Sound(job[c].list, Groups) /\ c \in Writers
         /\ Whole(job[c].list) \in Content
         /\ Whole(job[c].list).entries = job[c].list
BY ContentIs DEF Inv, Sound

LEMMA OpenKeeps == ASSUME Inv, NEW c \in Calls, Open(c) PROVE Inv'
<1> DEFINE f == IF tmp = NoFile THEN Fresh ELSE tmp
           record == [job[c] EXCEPT !.handle = f]
<1>1. f \in File
  BY FreshFile DEF Inv, TypeOK
<1>2. /\ tmp' = f /\ disk' = [disk EXCEPT ![f] = Torn] /\ pc[c] = "open"
      /\ job' = [job EXCEPT ![c] = record]
      /\ pc' = [pc EXCEPT ![c] = "fill"] /\ UNCHANGED <<registry, linked>>
  BY DEF Open, Goto
<1> HIDE DEF f
<1>3. record \in Saves /\ record.list = job[c].list
  BY <1>1, <1>2, SavesIs DEF Saves, AtSave
<1>4. Sound(record.list, Groups) /\ c \in Writers /\ record.handle = f
  BY <1>1, <1>2, <1>3, SavesIs DEF AtSave, Saves
<1>5. /\ disk' \in [File -> Content] /\ registry' \in File /\ tmp' \in File \cup {NoFile}
      /\ \A g \in File : disk'[g] = disk[g] \/ Sound(disk'[g].entries, Groups)
      /\ disk'[f] = Torn
  BY <1>1, <1>2, ContentIs DEF Inv, TypeOK
<1> DEFINE label == "fill"
<1>6. label \in Label /\ label \notin AtUse /\ label # "idle"
  BY DEF Label, AtUse
<1>7. /\ pc' = [pc EXCEPT ![c] = label] /\ job' = [job EXCEPT ![c] = record]
      /\ linked' = linked
  BY <1>2
<1>8. /\ label = "idle" => record = NoJob
      /\ label \in AtSave => c \in Writers /\ record \in Saves /\ Sound(record.list, Groups)
      /\ label = "fill" => record.handle \in File /\ (Alone => disk'[record.handle] = Torn)
      /\ label \in AtUse => record \in Uses
  BY <1>1, <1>3, <1>4, <1>5, <1>6
<1>9. disk' = disk \/ c \in Writers
  BY <1>4
<1> HIDE DEF record, label
<1> QED BY <1>5, <1>6, <1>7, <1>8, <1>9, GoesOn

LEMMA FillKeeps == ASSUME Inv, NEW c \in Calls, Fill(c) PROVE Inv'
<1> DEFINE h == job[c].handle
           list == job[c].list
<1>1. /\ pc[c] = "fill" /\ pc[c] \in AtSave
      /\ pc' = [pc EXCEPT ![c] = "replace"] /\ UNCHANGED <<registry, tmp, job, linked>>
  BY DEF Fill, Goto, AtSave
<1>2. job' = [job EXCEPT ![c] = job[c]]
  BY <1>1 DEF Inv, TypeOK
<1>3. /\ disk' \in [File -> Content] /\ registry' \in File /\ tmp' \in File \cup {NoFile}
      /\ \A g \in File : disk'[g] = disk[g] \/ Sound(disk'[g].entries, Groups)
  <2>1. PICK content \in Over(disk[h], list) : disk' = [disk EXCEPT ![h] = content]
    BY DEF Fill
  <2>2. h \in File /\ (Alone => disk[h] = Torn)
    BY <1>1 DEF Inv
  <2>3. disk[h] \in Content /\ Sound(disk[h].entries, Groups) /\ Sound(list, Groups)
    BY <1>1, <2>2, SavesIs DEF Inv, TypeOK
  <2> HIDE DEF h, list
  <2>4. content \in Content /\ Sound(content.entries, Groups)
    BY <2>1, <2>2, <2>3, OverIsSound
  <2> QED BY <1>1, <2>1, <2>2, <2>4 DEF Inv, TypeOK
<1>4. "replace" \in Label /\ "replace" \notin AtUse /\ "replace" # "fill"
  BY DEF Label, AtUse
<1> QED BY <1>1, <1>2, <1>3, <1>4, SavesIs, GoesOn

LEMMA ReplaceKeeps == ASSUME Inv, NEW c \in Calls, Replace(c) PROVE Inv'
<1>0. c \in Writers
  BY SavesIs DEF Replace, AtSave
<1>1. /\ tmp # NoFile /\ registry' = tmp /\ tmp' = NoFile
      /\ disk' = [disk EXCEPT ![registry] = Torn] /\ linked' = linked
      /\ pc' = [pc EXCEPT ![c] = "idle"] /\ job' = [job EXCEPT ![c] = NoJob]
  BY DEF Replace, Return, Goto
<1>2. /\ disk' \in [File -> Content] /\ registry' \in File /\ tmp' \in File \cup {NoFile}
      /\ \A g \in File : disk'[g] = disk[g] \/ Sound(disk'[g].entries, Groups)
  BY <1>1, ContentIs DEF Inv, TypeOK
<1> QED BY <1>0, <1>1, <1>2, JobIs, GoesOn

LEMMA EndKeeps ==
  ASSUME Inv, NEW c \in Calls, FailSave(c) \/ Refuse(c) \/ Act(c) \/ Reject(c) PROVE Inv'
<1>1. /\ UNCHANGED <<disk, registry, tmp, linked>>
      /\ pc' = [pc EXCEPT ![c] = "idle"] /\ job' = [job EXCEPT ![c] = NoJob]
  BY DEF FailSave, Refuse, Act, Reject, Return, Goto
<1> QED BY <1>1, JobIs, GoesOnAlone

LEMMA UseKeeps ==
  ASSUME Inv, NEW c \in Calls, Begin(c) \/ Resolve(c) \/ Preview(c) \/ Confirm(c) PROVE Inv'
<1> SUFFICES ASSUME NEW label \in AtUse, NEW record \in Uses,
                    pc' = [pc EXCEPT ![c] = label], job' = [job EXCEPT ![c] = record],
                    UNCHANGED <<disk, registry, tmp, linked>>
             PROVE  Inv'
  <2>1. UNCHANGED <<disk, registry, tmp, linked>>
    BY DEF Begin, Resolve, Preview, Confirm
  <2>2. CASE Begin(c)
    <3>1. PICK q \in Queries :
            job' = [job EXCEPT ![c] =
              [query |-> q, confirmed |-> FALSE, token |-> NoTarget, shown |-> NoTarget,
               found |-> NoTarget]]
      BY <2>2 DEF Begin
    <3>2. [query |-> q, confirmed |-> FALSE, token |-> NoTarget, shown |-> NoTarget,
           found |-> NoTarget] \in Uses
      BY DEF Uses
    <3>3. pc' = [pc EXCEPT ![c] = "resolve"] /\ "resolve" \in AtUse
      BY <2>2 DEF Begin, Goto, AtUse
    <3> QED BY <2>1, <3>1, <3>2, <3>3
  <2>3. CASE Resolve(c)
    <3>1. PICK e \in Found(job[c].query) :
            job' = [job EXCEPT ![c].found = <<e.play, e.apple>>]
      BY <2>3 DEF Resolve
    <3>2. e \in Entry /\ <<e.play, e.apple>> \in Target
      BY PairsAreSound, EntryFields DEF Found, Matches, Sound, Target
    <3>3. job[c] \in Uses
      BY <2>3 DEF Resolve, Inv, AtUse
    <3> DEFINE record == [job[c] EXCEPT !.found = <<e.play, e.apple>>]
    <3>4. record \in Uses /\ job' = [job EXCEPT ![c] = record]
      BY <3>1, <3>2, <3>3 DEF Uses
    <3>5. pc' = [pc EXCEPT ![c] = "act"] /\ "act" \in AtUse
      BY <2>3 DEF Resolve, Goto, AtUse
    <3> HIDE DEF record
    <3> QED BY <2>1, <3>4, <3>5
  <2>4. CASE Preview(c)
    <3>1. job[c] \in Uses
      BY <2>4 DEF Preview, Inv, AtUse
    <3> DEFINE record ==
          [job[c] EXCEPT !.token = job[c].found, !.shown = job[c].found, !.found = NoTarget]
    <3>2. record \in Uses
      BY <3>1 DEF Uses
    <3>3. job' = [job EXCEPT ![c] = record]
      BY <2>4 DEF Preview, Operation, Inv, TypeOK
    <3>4. pc' = [pc EXCEPT ![c] = "waiting"] /\ "waiting" \in AtUse
      BY <2>4 DEF Preview, Goto, AtUse
    <3> HIDE DEF record
    <3> QED BY <2>1, <3>2, <3>3, <3>4
  <2>5. CASE Confirm(c)
    <3>1. job[c] \in Uses
      BY <2>5 DEF Confirm, Inv, AtUse
    <3> DEFINE record == [job[c] EXCEPT !.confirmed = TRUE]
    <3>2. record \in Uses /\ job' = [job EXCEPT ![c] = record]
      BY <2>5, <3>1 DEF Uses, Confirm
    <3>3. pc' = [pc EXCEPT ![c] = "resolve"] /\ "resolve" \in AtUse
      BY <2>5 DEF Confirm, Goto, AtUse
    <3> HIDE DEF record
    <3> QED BY <2>1, <3>2, <3>3
  <2> QED BY <2>2, <2>3, <2>4, <2>5
<1> QED BY JobIs, GoesOnAlone

LEMMA CrashKeeps == ASSUME Inv, Crash PROVE Inv'
<1>1. /\ job' = [c \in Calls |-> IF pc[c] = "waiting" THEN job[c] ELSE NoJob]
      /\ pc' = [c \in Calls |-> IF pc[c] = "waiting" THEN "waiting" ELSE "idle"]
      /\ UNCHANGED <<disk, registry, tmp, linked>>
  BY DEF Crash
<1>2. TypeOK'
  BY <1>1, JobIs DEF Inv, TypeOK, Label
<1>3. Groups' = Groups
  BY <1>1 DEF Groups
<1> QED BY <1>1, <1>2, <1>3, JobIs DEF Inv, AtSave, AtUse

LEMMA RegistryInvariance == Spec => []Inv
<1>1. ASSUME Inv, [Next]_vars PROVE Inv'
  <2>1. ASSUME NEW c \in Calls,
               \/ Load(c) \/ Open(c) \/ Fill(c) \/ Replace(c) \/ FailSave(c)
               \/ Begin(c) \/ Resolve(c) \/ Refuse(c) \/ Preview(c) \/ Confirm(c)
               \/ Act(c) \/ Reject(c)
        PROVE  Inv'
    BY <1>1, <2>1, LoadKeeps, OpenKeeps, FillKeeps, ReplaceKeeps, EndKeeps, UseKeeps
  <2>2. CASE UNCHANGED vars
    BY <1>1, <2>2 DEF vars, Inv, TypeOK, Groups
  <2> QED BY <1>1, <2>1, <2>2, CrashKeeps DEF Next
<1> QED BY <1>1, InitRegistry, PTL DEF Spec

\* Every state of the registry is well typed, however many sessions pair at
\* once: among others, a call that saves always finds a file to write to.
THEOREM TypeCorrect == Spec => []TypeOK
BY RegistryInvariance, PTL DEF Inv

\* With one writer, two ids never come to stand in one entry unless the user's
\* pairing calls linked them: not by a merge, nor by a save that failed, was
\* cut short or left its temporary file behind (upsert, load and save).
THEOREM PairsAreDeliberate == Spec => []PairedOnPurpose
<1>1. Inv => PairedOnPurpose
  <2> SUFFICES ASSUME Inv, Alone, NEW e \in Pairs, e.play # NoId, e.apple # NoId
               PROVE  \E g \in linked : {e.play, e.apple} \subseteq g
    BY DEF PairedOnPurpose, Alone
  <2>1. PICK g \in linked : Links(e) \subseteq g
    BY PairsAreSound DEF Sound, Grouped, Groups
  <2> QED BY <2>1 DEF Links
<1> QED BY <1>1, RegistryInvariance, PTL

-----------------------------------------------------------------------------
(***************************************************************************)
(* What load keeps.                                                        *)
(***************************************************************************)

\* Induction up to a number, over the set of those for which something holds.
LEMMA UpTo ==
  ASSUME NEW N \in Nat, NEW T, 0 \in T, \A n \in 1..N : n - 1 \in T => n \in T
  PROVE  \A n \in 0..N : n \in T
<1> DEFINE bad == {n \in 0..N : n \notin T}
<1> SUFFICES ASSUME bad # {} PROVE FALSE
  OBVIOUS
<1>1. bad \subseteq Nat
  OBVIOUS
<1>2. PICK n \in bad : \A m \in bad : n <= m
  <2> HIDE DEF bad
  <2> QED BY <1>1, Least
<1>3. n \in 1..N /\ n - 1 \in 0..N
  BY <1>2
<1>4. n - 1 \notin bad
  BY <1>2, <1>3
<1> QED BY <1>2, <1>3, <1>4

\* Of two entries that clash, load keeps the one with the first key, unless
\* that one has to go itself: whether it does depends on earlier keys only.
LEMMA LoadedIs ==
  ASSUME NEW S \in SUBSET Entry
  PROVE  /\ Loaded(S) \subseteq S
         /\ \A e \in S : e \in Loaded(S) <=>
              \A f \in S : f.key < e.key /\ Clash(e, f) => f \notin Loaded(S)
<1> DEFINE Good(n, K) == \A e \in S : e.key <= n =>
             (e \in K <=> \A f \in S : f.key < e.key /\ Clash(e, f) => f \notin K)
           T == {n \in 0..MaxKey : \E K \in SUBSET S : Good(n, K)}
<1>1. /\ MaxKey \in Nat
      /\ \A e \in S : e.key \in Nat /\ 1 <= e.key /\ e.key <= MaxKey
  BY RegistryAssumption, EntryFields DEF Key
<1>2. 0 \in T
  <2>1. Good(0, {})
    BY <1>1
  <2> QED BY <1>1, <2>1
<1>3. ASSUME NEW n \in 1..MaxKey, n - 1 \in T PROVE n \in T
  <2>1. PICK K \in SUBSET S : Good(n - 1, K)
    BY <1>3
  <2> DEFINE L == {e \in S : IF e.key <= n - 1 THEN e \in K
                     ELSE \A f \in S : f.key < e.key /\ Clash(e, f) => f \notin K}
  <2>2. ASSUME NEW e \in S, e.key <= n
        PROVE  e \in L <=> \A f \in S : f.key < e.key /\ Clash(e, f) => f \notin L
    <3>1. \A f \in S : f.key < e.key => (f \in L <=> f \in K)
      BY <1>1, <2>2
    <3>2. CASE e.key <= n - 1
      <4>1. e \in L <=> e \in K
        BY <3>2
      <4>2. e \in K <=> \A f \in S : f.key < e.key /\ Clash(e, f) => f \notin K
        BY <2>1, <3>2
      <4> HIDE DEF L
      <4> QED BY <3>1, <4>1, <4>2
    <3>3. CASE ~(e.key <= n - 1)
      <4>1. e \in L <=> \A f \in S : f.key < e.key /\ Clash(e, f) => f \notin K
        BY <3>3
      <4> HIDE DEF L
      <4> QED BY <3>1, <4>1
    <3> QED BY <3>2, <3>3
  <2>3. L \in SUBSET S
    OBVIOUS
  <2> HIDE DEF L
  <2>4. Good(n, L)
    BY <2>2
  <2> QED BY <1>1, <2>3, <2>4
<1>4. MaxKey \in T
  <2> HIDE DEF T
  <2> QED BY <1>1, <1>2, <1>3, UpTo
<1>5. PICK K \in SUBSET S : Good(MaxKey, K)
  BY <1>4
<1> DEFINE equation(kept) ==
      kept = [e \in S |-> \A f \in S : f.key < e.key /\ Clash(e, f) => ~kept[f]]
<1>6. equation([e \in S |-> e \in K])
  <2> DEFINE kept == [e \in S |-> e \in K]
  <2>1. ASSUME NEW e \in S
        PROVE  kept[e] = (\A f \in S : f.key < e.key /\ Clash(e, f) => ~kept[f])
    <3>1. e.key <= MaxKey
      BY <1>1
    <3>2. e \in K <=> \A f \in S : f.key < e.key /\ Clash(e, f) => f \notin K
      BY <1>5, <3>1
    <3>3. \A f \in S : kept[f] = (f \in K)
      BY Zenon
    <3>4. \A f \in S : kept[f] <=> f \in K
      BY <3>3, Zenon
    <3>5. kept[e] \in BOOLEAN
      <4>1. kept \in [S -> BOOLEAN]
        BY SMT
      <4> QED BY <4>1
    <3>6. (kept[e] <=> e \in K) /\ kept[e] \in BOOLEAN /\ \A f \in S : kept[f] <=> f \in K
      BY <3>4, <3>5, Zenon
    <3> HIDE DEF kept, Good
    <3>7. kept[e] <=> \A f \in S : f.key < e.key /\ Clash(e, f) => ~kept[f]
      BY <3>2, <3>6, Zenon
    <3> DEFINE earlier == \A f \in S : f.key < e.key /\ Clash(e, f) => ~kept[f]
    <3>8. earlier \in BOOLEAN /\ (kept[e] <=> earlier)
      BY <3>7, Zenon
    <3> HIDE DEF earlier
    <3>9. kept[e] = earlier
      BY <3>6, <3>8
    <3> QED BY <3>9, Zenon DEF earlier
  <2> HIDE DEF Good
  <2> QED BY <2>1, Zenon
<1> DEFINE kept == CHOOSE kept : equation(kept)
<1>7. equation(kept)
  <2> HIDE DEF equation
  <2> QED BY <1>6
<1>8. Loaded(S) = {e \in S : kept[e]}
  BY DEF Loaded
<1> HIDE DEF kept
<1>9. ASSUME NEW e \in S
      PROVE  kept[e] <=> \A f \in S : f.key < e.key /\ Clash(e, f) => ~kept[f]
  BY <1>7, Zenon
<1> QED BY <1>8, <1>9, Zenon

\* What is kept does not clash.
LEMMA LoadedApart ==
  ASSUME NEW S \in SUBSET Entry, KeysDiffer(S), NEW e \in Loaded(S), NEW f \in Loaded(S),
         Clash(e, f)
  PROVE  e = f
<1>1. e \in S /\ f \in S /\ Clash(f, e)
  BY LoadedIs DEF Clash
<1>2. e.key \in Nat /\ f.key \in Nat
  BY <1>1, EntryFields
<1>3. ~(f.key < e.key) /\ ~(e.key < f.key)
  BY <1>1, LoadedIs
<1> QED BY <1>1, <1>2, <1>3 DEF KeysDiffer

\* Where nothing clashes all is kept.
LEMMA LoadedAll ==
  ASSUME NEW S \in SUBSET Entry, \A e, f \in S : Clash(e, f) => e = f
  PROVE  Loaded(S) = S
<1>1. ASSUME NEW e \in S PROVE e \in Loaded(S)
  <2>1. \A f \in S : ~(f.key < e.key /\ Clash(e, f))
    BY EntryFields
  <2> QED BY <2>1, LoadedIs
<1> QED BY <1>1, LoadedIs

-----------------------------------------------------------------------------
(***************************************************************************)
(* Keys of their own.                                                      *)
(***************************************************************************)
MaxTaken == Cardinality(AskedKeys) + Len(Apps)

\* As long as no more keys are taken than there can be rows, an app's key or
\* one of its numbered variants is free.
LEMMA KeyIsFree ==
  ASSUME NEW id \in Listed, NEW taken, IsFiniteSet(taken), Cardinality(taken) < MaxTaken + 1
  PROVE  UniqueKey(Slug[id], taken) \in Key \ taken
<1> DEFINE variants == Numbered[Slug[id]]
           free == {n \in DOMAIN variants : variants[n] \notin taken}
<1>1. id \in Packages \cup AppleIds
  BY MatchingAssumption DEF Listed
<1>2. variants \in Seq(Key)
  BY <1>1, MatchingAssumption
<1>3. /\ \A m, n \in DOMAIN variants : variants[m] = variants[n] => m = n
      /\ Len(variants) > MaxTaken
  BY EnoughKeysAssumption DEF MaxTaken, AskedKeys
<1> HIDE DEF variants
<1>4. MaxTaken \in Int /\ Cardinality(taken) \in Nat
  <2>1. AskedKeys \subseteq Key /\ IsFiniteSet(Key)
    BY PairingIs, RegistryAssumption, FS_Interval DEF AskedKeys, Key
  <2> QED BY <2>1, MatchingAssumption, FS_Subset, FS_CardinalityType DEF MaxTaken
<1>5. free # {}
  <2> SUFFICES ASSUME free = {} PROVE FALSE
    OBVIOUS
  <2>1. variants \in Injection(1..Len(variants), taken)
    <3>1. DOMAIN variants = 1..Len(variants) /\ variants = [n \in DOMAIN variants |-> variants[n]]
      BY <1>2
    <3>2. \A n \in DOMAIN variants : variants[n] \in taken
      OBVIOUS
    <3>3. variants \in [1..Len(variants) -> taken]
      BY <3>1, <3>2
    <3> QED BY <1>3, <3>1, <3>3 DEF Injection, IsInjective
  <2>2. Cardinality(1..Len(variants)) = Len(variants) /\ Len(variants) \in Nat
    <3>1. Len(variants) \in Nat
      BY <1>2
    <3>2. Cardinality(1..Len(variants)) =
            IF 1 > Len(variants) THEN 0 ELSE Len(variants) - 1 + 1
      BY <3>1, FS_Interval
    <3> QED BY <3>1, <3>2
  <2>3. Cardinality(1..Len(variants)) <= Cardinality(taken)
    BY <2>1, FS_Injection
  <2> QED BY <1>3, <1>4, <2>2, <2>3
<1>6. free \subseteq Nat
  BY <1>2
<1>7. PICK n \in free : \A m \in free : n <= m
  <2> HIDE DEF free
  <2> QED BY <1>5, <1>6, Least
<1> DEFINE first == CHOOSE m \in DOMAIN variants :
             variants[m] \notin taken /\ \A l \in 1..m - 1 : variants[l] \in taken
<1>8. \A l \in 1..n - 1 : variants[l] \in taken
  BY <1>2, <1>7
<1>9. first \in DOMAIN variants /\ variants[first] \notin taken
  BY <1>7, <1>8
<1>10. UniqueKey(Slug[id], taken) = variants[first]
  BY DEF UniqueKey, variants
<1> HIDE DEF first
<1> QED BY <1>2, <1>9, <1>10

-----------------------------------------------------------------------------
(***************************************************************************)
(* The portfolio.                                                          *)
(***************************************************************************)
Ids(r) == {r.play, r.apple} \ {NoId}

\* What holds of the rows after n apps: nobody's id on two rows, no key on two,
\* not more keys than entries and apps, and a row for every app so far.
RowsOK(rows, n, visible, pairs) ==
  /\ \A r \in rows : r.key \in Key /\ r.play \in Package /\ r.apple \in AppleId
  /\ \A r, s \in rows : r.key = s.key \/ Ids(r) \cap Ids(s) # {} => r = s
  /\ IsFiniteSet(KeysOf(rows)) /\ Cardinality(KeysOf(rows)) <= Cardinality(AskedKeys) + n
  /\ \A e \in pairs : Row(e.key, e.play, e.apple) \in rows
  /\ \A i \in 1..n : Apps[i] \in visible => \E r \in rows : Apps[i] \in Ids(r)
  /\ \A r \in rows : \A id \in Ids(r) : id \in Claimed(pairs) \/ \E i \in 1..n : id = Apps[i]

\* The registry's entries, as the model loads them.
Entries(pairs) ==
  /\ pairs \in SUBSET Entry
  /\ KeysDiffer(pairs)
  /\ \A e \in pairs : e.key \in AskedKeys
  /\ \A e, f \in pairs : Clash(e, f) => e = f

LEMMA PairsAreEntries == Inv => Entries(Pairs)
<1> SUFFICES ASSUME Inv PROVE Entries(Pairs)
  OBVIOUS
<1>1. /\ disk[registry].entries \in SUBSET Entry /\ KeysDiffer(disk[registry].entries)
      /\ Sound(Pairs, Groups)
  BY PairsAreSound DEF Inv, TypeOK, Sound
<1>2. \A e, f \in Pairs : Clash(e, f) => e = f
  BY <1>1, LoadedApart DEF Pairs
<1> QED BY <1>1, <1>2 DEF Entries, Sound

LEMMA AskedAreFinite ==
  /\ IsFiniteSet(AskedKeys) /\ Cardinality(AskedKeys) \in Nat
  /\ Len(Apps) \in Nat /\ DOMAIN Apps = 1..Len(Apps)
  /\ \A i \in 1..Len(Apps) : Apps[i] \in Packages \cup AppleIds /\ Apps[i] \in Listed
<1>1. AskedKeys \subseteq Key /\ IsFiniteSet(Key)
  BY PairingIs, RegistryAssumption, FS_Interval DEF AskedKeys, Key
<1>2. Apps \in Seq(Packages \cup AppleIds)
  BY MatchingAssumption
<1> QED BY <1>1, <1>2, FS_Subset, FS_CardinalityType DEF Listed

\* The keys of a registry.
LEMMA KeysAreFinite ==
  ASSUME NEW pairs, Entries(pairs)
  PROVE  /\ IsFiniteSet(KeysOf(pairs)) /\ Cardinality(KeysOf(pairs)) \in Nat
         /\ Cardinality(KeysOf(pairs)) <= Cardinality(AskedKeys)
BY AskedAreFinite, FS_Subset, FS_CardinalityType DEF Entries, KeysOf

LEMMA RowsBegin ==
  ASSUME NEW pairs, Entries(pairs), NEW visible
  PROVE  RowsOK({Row(e.key, e.play, e.apple) : e \in pairs}, 0, visible, pairs)
<1> DEFINE rows == {Row(e.key, e.play, e.apple) : e \in pairs}
<1>1. \A e \in pairs : e \in Entry
  BY DEF Entries
<1>2. \A r \in rows : r.key \in Key /\ r.play \in Package /\ r.apple \in AppleId
  BY <1>1, EntryFields DEF Row
<1>3. ASSUME NEW r \in rows, NEW s \in rows, r.key = s.key \/ Ids(r) \cap Ids(s) # {}
      PROVE  r = s
  <2>1. PICK e \in pairs : r = Row(e.key, e.play, e.apple)
    OBVIOUS
  <2>2. PICK f \in pairs : s = Row(f.key, f.play, f.apple)
    OBVIOUS
  <2>3. e.key = f.key \/ Clash(e, f)
    <3>1. CASE Ids(r) \cap Ids(s) # {}
      <4>1. PICK id \in Ids(r) : id \in Ids(s)
        BY <3>1
      <4>2. id \in {e.play, e.apple} /\ id \in {f.play, f.apple} /\ id # NoId
        BY <2>1, <2>2, <4>1 DEF Ids, Row
      <4>3. /\ e.play \in Packages \cup {NoId} /\ f.play \in Packages \cup {NoId}
            /\ e.apple \in AppleIds \cup {NoId} /\ f.apple \in AppleIds \cup {NoId}
        BY <1>1, EntryFields DEF Package, AppleId
      <4> QED BY <4>2, <4>3, RegistryAssumption DEF Clash
    <3>2. CASE r.key = s.key
      BY <2>1, <2>2, <3>2 DEF Row
    <3> QED BY <1>3, <3>1, <3>2
  <2> QED BY <2>1, <2>2, <2>3 DEF Entries, KeysDiffer
<1>4. KeysOf(rows) = KeysOf(pairs)
  <2>1. \A e \in pairs : Row(e.key, e.play, e.apple).key = e.key
    BY DEF Row
  <2>2. \A k \in KeysOf(pairs) : k \in KeysOf(rows)
    BY <2>1 DEF KeysOf
  <2>3. \A k \in KeysOf(rows) : k \in KeysOf(pairs)
    BY <2>1 DEF KeysOf
  <2> QED BY <2>2, <2>3
<1>5. \A r \in rows : \A id \in Ids(r) : id \in Claimed(pairs)
  BY DEF Ids, Claimed, Row
<1>6. Cardinality(KeysOf(rows)) <= Cardinality(AskedKeys) + 0 /\ IsFiniteSet(KeysOf(rows))
  BY <1>4, KeysAreFinite, AskedAreFinite
<1>7. \A e \in pairs : Row(e.key, e.play, e.apple) \in rows
  OBVIOUS
<1> HIDE DEF rows
<1>8. RowsOK(rows, 0, visible, pairs)
  BY <1>2, <1>3, <1>5, <1>6, <1>7 DEF RowsOK
<1> QED BY <1>8 DEF rows

LEMMA RowsGrow ==
  ASSUME NEW pairs, Entries(pairs), NEW visible, NEW n \in 1..Len(Apps), NEW rows,
         RowsOK(rows, n - 1, visible, pairs)
  PROVE  RowsOK(IF Apps[n] \in visible THEN AddApp(rows, pairs, Apps[n]) ELSE rows,
                n, visible, pairs)
<1> DEFINE id == Apps[n]
<1>1. /\ n \in Nat /\ n - 1 \in Nat /\ Len(Apps) \in Nat /\ Cardinality(AskedKeys) \in Nat
      /\ id \in Packages \cup AppleIds /\ id \in Listed
      /\ \A i \in 1..n : i = n \/ i \in 1..n - 1
      /\ 1..n - 1 \subseteq 1..n
  BY AskedAreFinite
<1>2. /\ IsFiniteSet(KeysOf(rows)) /\ Cardinality(KeysOf(rows)) \in Nat
      /\ Cardinality(KeysOf(rows)) <= Cardinality(AskedKeys) + (n - 1)
  BY FS_CardinalityType DEF RowsOK
<1>3. Cardinality(KeysOf(rows)) <= Cardinality(AskedKeys) + n
  BY <1>1, <1>2
<1>4. CASE id \in visible => id \in Claimed(pairs)
  <2>1. id \in visible => \E r \in rows : id \in Ids(r)
    <3> SUFFICES ASSUME id \in visible PROVE \E r \in rows : id \in Ids(r)
      OBVIOUS
    <3>1. PICK e \in pairs : id \in {e.play, e.apple}
      BY <1>4 DEF Claimed
    <3>2. id # NoId
      BY <1>1, RegistryAssumption
    <3>3. Row(e.key, e.play, e.apple) \in rows
      BY DEF RowsOK
    <3> QED BY <3>1, <3>2, <3>3 DEF Ids, Row
  <2>2. RowsOK(rows, n, visible, pairs)
    BY <1>1, <1>3, <2>1 DEF RowsOK
  <2> QED BY <1>4, <2>2 DEF AddApp
<1>5. CASE id \in visible /\ id \notin Claimed(pairs)
  <2> DEFINE key == UniqueKey(Slug[id], KeysOf(rows))
             new == IF id \in Packages THEN Row(key, id, NoId) ELSE Row(key, NoId, id)
             more == rows \cup {new}
  <2>1. AddApp(rows, pairs, id) = more
    BY <1>5 DEF AddApp
  <2>2. key \in Key \ KeysOf(rows)
    BY <1>1, <1>2, KeyIsFree DEF MaxTaken
  <2> HIDE DEF key
  <2>3. /\ new.key = key /\ new.play \in Package /\ new.apple \in AppleId /\ Ids(new) = {id}
    BY <1>1, RegistryAssumption DEF Row, Ids, Package, AppleId
  <2> HIDE DEF new
  <2>4. \A r \in rows : r.key # new.key /\ id \notin Ids(r)
    <3>1. ASSUME NEW i \in 1..n - 1 PROVE id # Apps[i]
      <4>1. i \in DOMAIN Apps /\ n \in DOMAIN Apps /\ i # n
        BY AskedAreFinite
      <4> QED BY <4>1, MatchingAssumption
    <3> QED BY <1>5, <2>2, <2>3, <3>1 DEF RowsOK, KeysOf
  <2>5. KeysOf(more) = KeysOf(rows) \cup {key}
    BY <2>3 DEF KeysOf
  <2>6. /\ IsFiniteSet(KeysOf(more))
        /\ Cardinality(KeysOf(more)) <= Cardinality(AskedKeys) + n
    <3>1. /\ IsFiniteSet(KeysOf(rows) \cup {key})
          /\ Cardinality(KeysOf(rows) \cup {key}) = Cardinality(KeysOf(rows)) + 1
      BY <1>2, <2>2, FS_AddElement
    <3>2. Cardinality(KeysOf(rows)) + 1 <= Cardinality(AskedKeys) + n
      BY <1>1, <1>2
    <3> HIDE DEF more
    <3> QED BY <2>5, <3>1, <3>2
  <2>7. \A r \in more : r.key \in Key /\ r.play \in Package /\ r.apple \in AppleId
    BY <2>2, <2>3 DEF RowsOK
  <2>8. \A r, s \in more : r.key = s.key \/ Ids(r) \cap Ids(s) # {} => r = s
    BY <2>3, <2>4 DEF RowsOK
  <2>9. /\ \A e \in pairs : Row(e.key, e.play, e.apple) \in more
        /\ \A i \in 1..n : Apps[i] \in visible => \E r \in more : Apps[i] \in Ids(r)
    BY <1>1, <2>3 DEF RowsOK
  <2>10. \A r \in more : \A i \in Ids(r) : i \in Claimed(pairs) \/ \E k \in 1..n : i = Apps[k]
    BY <1>1, <2>3 DEF RowsOK
  <2> HIDE DEF more
  <2>11. RowsOK(more, n, visible, pairs)
    BY <2>6, <2>7, <2>8, <2>9, <2>10 DEF RowsOK
  <2> QED BY <1>5, <2>1, <2>11
<1> QED BY <1>4, <1>5


\* The rows are what the recursion says: there is a function that satisfies it.
LEMMA RowsAre ==
  ASSUME NEW visible, NEW pairs
  PROVE  /\ RowsAfter(visible, pairs)[0] = {Row(e.key, e.play, e.apple) : e \in pairs}
         /\ \A n \in 1..Len(Apps) :
              RowsAfter(visible, pairs)[n] =
                IF Apps[n] \in visible
                  THEN AddApp(RowsAfter(visible, pairs)[n - 1], pairs, Apps[n])
                  ELSE RowsAfter(visible, pairs)[n - 1]
<1> DEFINE base == {Row(e.key, e.play, e.apple) : e \in pairs}
           step(rows, n) == IF Apps[n] \in visible THEN AddApp(rows, pairs, Apps[n]) ELSE rows
           equation(f, m) == f = [n \in 0..m |-> IF n = 0 THEN base ELSE step(f[n - 1], n)]
           T == {m \in 0..Len(Apps) : \E f : equation(f, m)}
           rows == CHOOSE f : equation(f, Len(Apps))
<1>1. Len(Apps) \in Nat
  BY AskedAreFinite
<1>2. rows = RowsAfter(visible, pairs)
  <2>1. \A f, m : equation(f, m) <=>
          f = [n \in 0..m |->
                 IF n = 0 THEN {Row(e.key, e.play, e.apple) : e \in pairs}
                 ELSE IF Apps[n] \in visible THEN AddApp(f[n - 1], pairs, Apps[n])
                 ELSE f[n - 1]]
    OBVIOUS
  <2> QED BY DEF RowsAfter
<1> HIDE DEF base, step
<1>3. 0 \in T
  <2>1. equation([n \in 0..0 |-> base], 0)
    OBVIOUS
  <2> HIDE DEF equation
  <2> QED BY <1>1, <2>1
<1>4. ASSUME NEW m \in 1..Len(Apps), m - 1 \in T PROVE m \in T
  <2>1. PICK f : equation(f, m - 1)
    BY <1>4
  <2> DEFINE g == [n \in 0..m |-> IF n <= m - 1 THEN f[n] ELSE step(f[m - 1], m)]
  <2>2. \A n \in 0..m - 1 : f[n] = IF n = 0 THEN base ELSE step(f[n - 1], n)
    BY <1>1, <2>1
  <2>3. \A n \in 0..m - 1 : g[n] = f[n]
    BY <1>1
  <2>4. g[m] = step(f[m - 1], m)
    BY <1>1
  <2>5. ASSUME NEW n \in 0..m PROVE g[n] = IF n = 0 THEN base ELSE step(g[n - 1], n)
    <3>1. n = m \/ n \in 0..m - 1
      BY <1>1
    <3>2. n = 0 \/ n - 1 \in 0..m - 1
      BY <1>1
    <3> HIDE DEF g
    <3>3. CASE n = m
      <4>1. n # 0 /\ n - 1 \in 0..m - 1
        BY <1>1, <3>3
      <4> QED BY <2>3, <2>4, <3>3, <4>1
    <3>4. CASE n = 0
      BY <2>2, <2>3, <1>1, <3>4
    <3>5. CASE n \in 0..m - 1 /\ n # 0
      <4>1. n - 1 \in 0..m - 1
        BY <1>1, <3>5
      <4> QED BY <2>2, <2>3, <3>5, <4>1
    <3> QED BY <3>1, <3>3, <3>4, <3>5
  <2>6. equation(g, m)
    BY <2>5
  <2> HIDE DEF equation, g
  <2> QED BY <1>1, <2>6
<1>5. Len(Apps) \in T
  <2> DEFINE N == Len(Apps)
  <2>1. N \in Nat /\ 0 \in T /\ \A n \in 1..N : n - 1 \in T => n \in T
    BY <1>1, <1>3, <1>4
  <2> HIDE DEF T, N
  <2>2. \A n \in 0..N : n \in T
    BY <2>1, UpTo
  <2>3. N \in T
    BY <2>1, <2>2
  <2> QED BY <2>3 DEF N
<1>6. equation(rows, Len(Apps))
  <2> HIDE DEF equation
  <2> QED BY <1>5
<1> HIDE DEF rows
<1>7. \A n \in 0..Len(Apps) : rows[n] = IF n = 0 THEN base ELSE step(rows[n - 1], n)
  BY <1>6
<1>8. rows[0] = base
  BY <1>1, <1>7
<1>9. \A n \in 1..Len(Apps) : rows[n] = step(rows[n - 1], n)
  BY <1>1, <1>7
<1> QED BY <1>2, <1>8, <1>9 DEF base, step

LEMMA PortfolioOK ==
  ASSUME NEW pairs, Entries(pairs), NEW visible
  PROVE  RowsOK(Portfolio(visible, pairs), Len(Apps), visible, pairs)
<1> DEFINE rows == RowsAfter(visible, pairs)
           T == {n \in 0..Len(Apps) : RowsOK(rows[n], n, visible, pairs)}
<1>1. Len(Apps) \in Nat
  BY AskedAreFinite
<1>2. RowsOK(rows[0], 0, visible, pairs)
  BY RowsAre, RowsBegin
<1>3. ASSUME NEW n \in 1..Len(Apps), RowsOK(rows[n - 1], n - 1, visible, pairs)
      PROVE  RowsOK(rows[n], n, visible, pairs)
  <2>1. rows[n] = IF Apps[n] \in visible THEN AddApp(rows[n - 1], pairs, Apps[n])
                  ELSE rows[n - 1]
    BY RowsAre
  <2> HIDE DEF rows
  <2> QED BY <1>3, <2>1, RowsGrow
<1> HIDE DEF rows
<1>4. 0 \in T /\ \A n \in 1..Len(Apps) : n - 1 \in T => n \in T
  BY <1>1, <1>2, <1>3
<1>5. Len(Apps) \in T
  <2> DEFINE N == Len(Apps)
  <2>1. N \in Nat /\ 0 \in T /\ \A n \in 1..N : n - 1 \in T => n \in T
    BY <1>1, <1>4
  <2> HIDE DEF T, N
  <2>2. \A n \in 0..N : n \in T
    BY <2>1, UpTo
  <2>3. N \in T
    BY <2>1, <2>2
  <2> QED BY <2>3 DEF N
<1> QED BY <1>5 DEF rows, Portfolio

\* Whatever calls made the registry and whatever each store shows, every app
\* stands on exactly one row of the portfolio, and no key on two: the entries of
\* a registry never share an id or a key, and an app that no entry claims
\* gets a key that is still free (build_portfolio, _unique_key).
THEOREM EveryAppHasOneRow == Spec => []EveryAppOnce
<1>1. ASSUME Inv PROVE EveryAppOnce
  <2> SUFFICES ASSUME NEW visible \in SUBSET Listed
      PROVE /\ \A id \in visible :
                 \E r \in Portfolio(visible, Pairs) :
                   {s \in Portfolio(visible, Pairs) : id \in {s.play, s.apple}} = {r}
            /\ \A e \in Pairs : Row(e.key, e.play, e.apple) \in Portfolio(visible, Pairs)
            /\ \A r, s \in Portfolio(visible, Pairs) : r.key = s.key => r = s
    BY DEF EveryAppOnce
  <2> DEFINE rows == Portfolio(visible, Pairs)
  <2>1. RowsOK(rows, Len(Apps), visible, Pairs)
    BY <1>1, PairsAreEntries, PortfolioOK
  <2> HIDE DEF rows
  <2>2. ASSUME NEW id \in visible
        PROVE  \E r \in rows : {s \in rows : id \in {s.play, s.apple}} = {r}
    <3>1. PICK i \in 1..Len(Apps) : id = Apps[i]
      BY AskedAreFinite DEF Listed
    <3>2. id # NoId
      BY <3>1, AskedAreFinite, RegistryAssumption
    <3>3. PICK r \in rows : id \in Ids(r)
      BY <2>1, <3>1 DEF RowsOK
    <3>4. \A s \in rows : id \in {s.play, s.apple} => id \in Ids(s)
      BY <3>2 DEF Ids
    <3>5. \A s \in rows : id \in {s.play, s.apple} => s = r
      BY <2>1, <3>3, <3>4 DEF RowsOK
    <3>6. id \in {r.play, r.apple}
      BY <3>3 DEF Ids
    <3> QED BY <3>3, <3>5, <3>6
  <2> QED BY <2>1, <2>2 DEF RowsOK, rows
<1> QED BY <1>1, RegistryInvariance, PTL

-----------------------------------------------------------------------------
(***************************************************************************)
(* The proposals.                                                          *)
(***************************************************************************)
LEMMA ScoreIs == ASSUME NEW m \in Packages \X AppleIds PROVE Score(m) \in 0..1000
<1>1. /\ IdsAlike[m] \in Likeness /\ NamesAlike[m] \in 0..1000
      /\ LooksAlike[m] \in 680..800
  BY MatchingAssumption
<1>2. BundleScore(m) \in 0..1000
  <2>1. CASE IdsAlike[m] = "same"
    BY <2>1 DEF BundleScore
  <2>2. CASE IdsAlike[m] = "suffix"
    BY <2>2 DEF BundleScore
  <2>3. CASE IdsAlike[m] = "owner_end"
    BY <2>3 DEF BundleScore
  <2>4. CASE IdsAlike[m] = "end"
    BY <2>4 DEF BundleScore
  <2>5. CASE IdsAlike[m] = "owner"
    BY <2>5 DEF BundleScore
  <2>6. CASE IdsAlike[m] = "similar"
    BY <2>6, <1>1 DEF BundleScore
  <2>7. CASE IdsAlike[m] = "none"
    BY <2>7 DEF BundleScore
  <2> QED BY <1>1, <2>1, <2>2, <2>3, <2>4, <2>5, <2>6, <2>7 DEF Likeness
<1> DEFINE bundle == BundleScore(m)
           name == NamesAlike[m]
<1>3. Score(m) = LET sum == IF bundle >= name THEN bundle + (name + 5) \div 10
                            ELSE name + (bundle + 5) \div 10
                 IN  IF sum > 1000 THEN 1000 ELSE sum
  BY DEF Score
<1>4. bundle \in 0..1000 /\ name \in 0..1000
  BY <1>1, <1>2
<1> HIDE DEF bundle, name
<1>5. (name + 5) \div 10 \in Nat /\ (bundle + 5) \div 10 \in Nat
  BY <1>4
<1> QED BY <1>3, <1>4, <1>5

LEMMA PositionIs ==
  /\ \A id \in Listed : Position(id) \in Nat
  /\ \A id, other \in Listed : Position(id) = Position(other) => id = other
<1>1. \A id \in Listed : Position(id) \in DOMAIN Apps /\ Apps[Position(id)] = id
  BY DEF Listed, Position
<1> QED BY <1>1, AskedAreFinite

LEMMA LeastOf ==
  ASSUME NEW S, S # {}, NEW f, \A x \in S : f[x] \in Nat
  PROVE  \E x \in S : \A y \in S : f[x] <= f[y]
<1> DEFINE T == {f[x] : x \in S}
<1>1. T \subseteq Nat /\ T # {}
  OBVIOUS
<1>2. PICK t \in T : \A u \in T : t <= u
  <2> HIDE DEF T
  <2> QED BY <1>1, Least
<1>3. PICK x \in S : t = f[x]
  OBVIOUS
<1> QED BY <1>2, <1>3

\* The order of the proposals is total: among some there is a best.
LEMMA BestIs ==
  ASSUME NEW ms \in SUBSET (Packages \X AppleIds), ms # {},
         \A m \in ms : m[1] \in Listed /\ m[2] \in Listed
  PROVE  Best(ms) \in ms
<1> DEFINE score == [m \in ms |-> 1000 - Score(m)]
           title == [m \in ms |-> Title[m[1]]]
           first == [m \in ms |-> Position(m[1])]
           second == [m \in ms |-> Position(m[2])]
<1>1. ASSUME NEW m \in ms
      PROVE  /\ score[m] \in Nat /\ title[m] \in Nat
             /\ first[m] \in Nat /\ second[m] \in Nat
  <2>1. score[m] \in Nat
    BY ScoreIs
  <2>2. title[m] \in Nat
    <3>1. m[1] \in Packages \cup AppleIds
      OBVIOUS
    <3>2. Title[m[1]] \in Name
      BY <3>1, MatchingAssumption
    <3> QED BY <3>2, RegistryAssumption DEF Name
  <2>3. first[m] \in Nat /\ second[m] \in Nat
    BY PositionIs
  <2> QED BY <2>1, <2>2, <2>3
<1>2. ASSUME NEW m \in ms, NEW n \in ms,
             \/ score[m] < score[n]
             \/ /\ score[m] = score[n]
                /\ \/ title[m] < title[n]
                   \/ /\ title[m] = title[n]
                      /\ \/ first[m] < first[n]
                         \/ first[m] = first[n] /\ second[m] < second[n]
      PROVE  Better(m, n)
  <2>1. Score(m) \in 0..1000 /\ Score(n) \in 0..1000
    BY ScoreIs
  <2>2. /\ score[m] < score[n] => Score(m) > Score(n)
        /\ score[m] = score[n] => Score(m) = Score(n)
    <3>1. score[m] = 1000 - Score(m) /\ score[n] = 1000 - Score(n)
      OBVIOUS
    <3> DEFINE x == Score(m)
               y == Score(n)
               u == score[m]
               v == score[n]
    <3>2. x \in Int /\ y \in Int /\ u = 1000 - x /\ v = 1000 - y
      BY <2>1, <3>1
    <3> HIDE DEF x, y, u, v
    <3>3. (u < v => x > y) /\ (u = v => x = y)
      BY <3>2
    <3> QED BY <3>3 DEF x, y, u, v
  <2>3. first[m] = first[n] => m[1] = n[1]
    BY PositionIs
  <2>4. title[m] = Title[m[1]] /\ title[n] = Title[n[1]]
    OBVIOUS
  <2>5. first[m] = Position(m[1]) /\ first[n] = Position(n[1])
    OBVIOUS
  <2>6. second[m] = Position(m[2]) /\ second[n] = Position(n[2])
    OBVIOUS
  <2> HIDE DEF score, title, first, second
  <2> QED BY <1>2, <2>2, <2>3, <2>4, <2>5, <2>6 DEF Better
<1>3. ASSUME NEW m \in ms, NEW n \in ms, first[m] = first[n], second[m] = second[n]
      PROVE  m = n
  <2>1. m[1] = n[1] /\ m[2] = n[2]
    BY <1>3, PositionIs
  <2> QED BY <2>1
<1> HIDE DEF score, title, first, second
<1>4. PICK a \in ms : \A m \in ms : score[a] <= score[m]
  BY <1>1, LeastOf
<1> DEFINE ms1 == {m \in ms : score[m] = score[a]}
<1>5. PICK b \in ms1 : \A m \in ms1 : title[b] <= title[m]
  <2>1. ms1 # {} /\ \A m \in ms1 : title[m] \in Nat
    BY <1>1
  <2> HIDE DEF ms1
  <2> QED BY <2>1, LeastOf
<1> DEFINE ms2 == {m \in ms1 : title[m] = title[b]}
<1>6. PICK c \in ms2 : \A m \in ms2 : first[c] <= first[m]
  <2>1. ms2 # {} /\ \A m \in ms2 : first[m] \in Nat
    BY <1>1
  <2> HIDE DEF ms2
  <2> QED BY <2>1, LeastOf
<1> DEFINE ms3 == {m \in ms2 : first[m] = first[c]}
<1>7. PICK best \in ms3 : \A m \in ms3 : second[best] <= second[m]
  <2>1. ms3 # {} /\ \A m \in ms3 : second[m] \in Nat
    BY <1>1
  <2> HIDE DEF ms3
  <2> QED BY <2>1, LeastOf
<1>8. /\ best \in ms /\ score[best] = score[a] /\ title[best] = title[b]
      /\ first[best] = first[c]
  BY <1>7
<1>9. ASSUME NEW n \in ms \ {best} PROVE Better(best, n)
  <2>1. score[best] < score[n] \/ n \in ms1
    BY <1>1, <1>4, <1>8
  <2>2. n \in ms1 => title[best] < title[n] \/ n \in ms2
    BY <1>1, <1>5, <1>8
  <2>3. n \in ms2 => first[best] < first[n] \/ n \in ms3
    BY <1>1, <1>6, <1>8
  <2>4. n \in ms3 => second[best] < second[n]
    BY <1>1, <1>3, <1>7, <1>8
  <2>5. /\ n \in ms1 => score[best] = score[n]
        /\ n \in ms2 => title[best] = title[n] /\ n \in ms1
        /\ n \in ms3 => first[best] = first[n] /\ n \in ms2
    BY <1>8
  <2> HIDE DEF ms1, ms2, ms3
  <2> QED BY <1>2, <1>8, <2>1, <2>2, <2>3, <2>4, <2>5
<1> QED BY <1>8, <1>9 DEF Best

\* What holds of the proposals of n rounds: their ids and keys are nobody
\* else's, neither another proposal's nor an entry's.
ProposedOK(proposals, n, pairs) ==
  /\ proposals \in SUBSET Entry
  /\ \A q \in proposals : /\ q.play \in Packages \ Claimed(pairs)
                          /\ q.apple \in AppleIds \ Claimed(pairs)
                          /\ q.key \notin KeysOf(pairs)
  /\ \A q, r \in proposals :
       q.key = r.key \/ q.play = r.play \/ q.apple = r.apple => q = r
  /\ IsFiniteSet(KeysOf(proposals)) /\ Cardinality(KeysOf(proposals)) <= n

LEMMA TakeKeeps ==
  ASSUME NEW pairs, Entries(pairs), NEW n \in 1..Len(Apps), NEW proposals,
         ProposedOK(proposals, n - 1, pairs)
  PROVE  ProposedOK(Take(pairs, proposals), n, pairs)
<1>1. /\ n \in Nat /\ n - 1 \in Nat /\ Len(Apps) \in Nat /\ Cardinality(AskedKeys) \in Nat
  BY AskedAreFinite
<1>2. /\ IsFiniteSet(KeysOf(proposals)) /\ Cardinality(KeysOf(proposals)) \in Nat
      /\ Cardinality(KeysOf(proposals)) <= n - 1
  BY FS_CardinalityType DEF ProposedOK
<1>3. CASE Unused(pairs, proposals) = {}
  <2>1. Take(pairs, proposals) = proposals
    BY <1>3 DEF Take
  <2>2. Cardinality(KeysOf(proposals)) <= n
    BY <1>1, <1>2
  <2> QED BY <2>1, <2>2 DEF ProposedOK
<1>4. CASE Unused(pairs, proposals) # {}
  <2> DEFINE ms == Unused(pairs, proposals)
             m == Best(ms)
             taken == KeysOf(pairs) \cup KeysOf(proposals)
             key == UniqueKey(Slug[m[1]], taken)
             new == [key |-> key, name |-> Title[m[1]], play |-> m[1], apple |-> m[2]]
             more == proposals \cup {new}
  <2>1. Take(pairs, proposals) = more
    BY <1>4 DEF Take
  <2>2. /\ ms \in SUBSET (Packages \X AppleIds)
        /\ \A x \in ms : x[1] \in Listed /\ x[2] \in Listed
    BY DEF Unused, Scored
  <2>3. m \in ms
    <3> HIDE DEF ms
    <3> QED BY <1>4, <2>2, BestIs DEF ms
  <2> HIDE DEF m
  <2>4. /\ m[1] \in Packages \ Claimed(pairs) /\ m[2] \in AppleIds \ Claimed(pairs)
        /\ m[1] \in Listed
        /\ \A q \in proposals : q.play # m[1] /\ q.apple # m[2]
    BY <2>3 DEF Unused, Scored
  <2>5. IsFiniteSet(taken) /\ Cardinality(taken) < MaxTaken + 1
    <3>1. /\ IsFiniteSet(KeysOf(pairs)) /\ Cardinality(KeysOf(pairs)) \in Nat
          /\ Cardinality(KeysOf(pairs)) <= Cardinality(AskedKeys)
      BY KeysAreFinite
    <3>2. /\ IsFiniteSet(taken) /\ Cardinality(taken) \in Nat
          /\ Cardinality(KeysOf(pairs) \cap KeysOf(proposals)) \in Nat
          /\ Cardinality(taken) = Cardinality(KeysOf(pairs)) + Cardinality(KeysOf(proposals))
                                    - Cardinality(KeysOf(pairs) \cap KeysOf(proposals))
      BY <1>2, <3>1, FS_Union, FS_Intersection, FS_CardinalityType
    <3> HIDE DEF taken
    <3> QED BY <1>1, <1>2, <3>1, <3>2 DEF MaxTaken
  <2>6. key \in Key /\ key \notin KeysOf(pairs) /\ key \notin KeysOf(proposals)
    <3>1. key \in Key \ taken
      <4> HIDE DEF taken
      <4> QED BY <2>4, <2>5, KeyIsFree
    <3> QED BY <3>1
  <2> HIDE DEF key
  <2>7. new \in Entry
    <3>1. Title[m[1]] \in Name
      BY <2>4, MatchingAssumption
    <3> QED BY <2>4, <2>6, <3>1 DEF Entry, Package, AppleId
  <2>8. new.key = key /\ new.play = m[1] /\ new.apple = m[2]
    OBVIOUS
  <2> HIDE DEF new
  <2>9. IsFiniteSet(KeysOf(more)) /\ Cardinality(KeysOf(more)) <= n
    <3>1. KeysOf(more) = KeysOf(proposals) \cup {key}
      BY <2>8 DEF KeysOf
    <3>2. /\ IsFiniteSet(KeysOf(proposals) \cup {key})
          /\ Cardinality(KeysOf(proposals) \cup {key}) = Cardinality(KeysOf(proposals)) + 1
      BY <1>2, <2>6, FS_AddElement
    <3>3. Cardinality(KeysOf(proposals)) + 1 <= n
      BY <1>1, <1>2
    <3> HIDE DEF more
    <3> QED BY <3>1, <3>2, <3>3
  <2>10. more \in SUBSET Entry
    BY <2>7 DEF ProposedOK
  <2>11. \A q \in more : /\ q.play \in Packages \ Claimed(pairs)
                         /\ q.apple \in AppleIds \ Claimed(pairs)
                         /\ q.key \notin KeysOf(pairs)
    BY <2>4, <2>6, <2>8 DEF ProposedOK
  <2>12. \A q \in proposals : q.key # new.key /\ q.play # new.play /\ q.apple # new.apple
    BY <2>4, <2>6, <2>8 DEF KeysOf
  <2>13. \A q, r \in more :
           q.key = r.key \/ q.play = r.play \/ q.apple = r.apple => q = r
    BY <2>12 DEF ProposedOK
  <2> HIDE DEF more
  <2>14. ProposedOK(more, n, pairs)
    BY <2>9, <2>10, <2>11, <2>13 DEF ProposedOK
  <2> QED BY <2>1, <2>14
<1> QED BY <1>3, <1>4

LEMMA ProposalsAre ==
  ASSUME NEW pairs
  PROVE  /\ ProposedAfter(pairs)[0] = {}
         /\ \A n \in 1..Len(Apps) :
              ProposedAfter(pairs)[n] = Take(pairs, ProposedAfter(pairs)[n - 1])
<1> DEFINE step(proposals) == Take(pairs, proposals)
           equation(f, m) == f = [n \in 0..m |-> IF n = 0 THEN {} ELSE step(f[n - 1])]
           T == {m \in 0..Len(Apps) : \E f : equation(f, m)}
           proposals == CHOOSE f : equation(f, Len(Apps))
<1>1. Len(Apps) \in Nat
  BY AskedAreFinite
<1>2. proposals = ProposedAfter(pairs)
  BY DEF ProposedAfter
<1> HIDE DEF step
<1>3. 0 \in T
  <2>1. equation([n \in 0..0 |-> {}], 0)
    OBVIOUS
  <2> HIDE DEF equation
  <2> QED BY <1>1, <2>1
<1>4. ASSUME NEW m \in 1..Len(Apps), m - 1 \in T PROVE m \in T
  <2>1. PICK f : equation(f, m - 1)
    BY <1>4
  <2> DEFINE g == [n \in 0..m |-> IF n <= m - 1 THEN f[n] ELSE step(f[m - 1])]
  <2>2. \A n \in 0..m - 1 : f[n] = IF n = 0 THEN {} ELSE step(f[n - 1])
    BY <1>1, <2>1
  <2>3. \A n \in 0..m - 1 : g[n] = f[n]
    BY <1>1
  <2>4. g[m] = step(f[m - 1])
    BY <1>1
  <2>5. ASSUME NEW n \in 0..m PROVE g[n] = IF n = 0 THEN {} ELSE step(g[n - 1])
    <3>1. n = m \/ n \in 0..m - 1
      BY <1>1
    <3> HIDE DEF g
    <3>2. CASE n = m
      <4>1. n # 0 /\ n - 1 \in 0..m - 1
        BY <1>1, <3>2
      <4> QED BY <2>3, <2>4, <3>2, <4>1
    <3>3. CASE n = 0
      BY <2>2, <2>3, <1>1, <3>3
    <3>4. CASE n \in 0..m - 1 /\ n # 0
      <4>1. n - 1 \in 0..m - 1
        BY <1>1, <3>4
      <4> QED BY <2>2, <2>3, <3>4, <4>1
    <3> QED BY <3>1, <3>2, <3>3, <3>4
  <2>6. equation(g, m)
    BY <2>5
  <2> HIDE DEF equation, g
  <2> QED BY <1>1, <2>6
<1>5. Len(Apps) \in T
  <2> DEFINE N == Len(Apps)
  <2>1. N \in Nat /\ 0 \in T /\ \A n \in 1..N : n - 1 \in T => n \in T
    BY <1>1, <1>3, <1>4
  <2> HIDE DEF T, N
  <2>2. \A n \in 0..N : n \in T
    BY <2>1, UpTo
  <2>3. N \in T
    BY <2>1, <2>2
  <2> QED BY <2>3 DEF N
<1>6. equation(proposals, Len(Apps))
  <2> HIDE DEF equation
  <2> QED BY <1>5
<1> HIDE DEF proposals
<1>7. \A n \in 0..Len(Apps) : proposals[n] = IF n = 0 THEN {} ELSE step(proposals[n - 1])
  BY <1>6
<1>8. proposals[0] = {}
  BY <1>1, <1>7
<1>9. \A n \in 1..Len(Apps) : proposals[n] = step(proposals[n - 1])
  BY <1>1, <1>7
<1> QED BY <1>2, <1>8, <1>9 DEF step

LEMMA ProposeOK ==
  ASSUME NEW pairs, Entries(pairs) PROVE ProposedOK(Propose(pairs), Len(Apps), pairs)
<1> DEFINE proposals == ProposedAfter(pairs)
           T == {n \in 0..Len(Apps) : ProposedOK(proposals[n], n, pairs)}
<1>1. Len(Apps) \in Nat
  BY AskedAreFinite
<1>2. ProposedOK({}, 0, pairs)
  <2>1. KeysOf({}) = {}
    BY DEF KeysOf
  <2> QED BY <2>1, FS_EmptySet DEF ProposedOK
<1>3. ProposedOK(proposals[0], 0, pairs)
  BY <1>2, ProposalsAre
<1>4. ASSUME NEW n \in 1..Len(Apps), ProposedOK(proposals[n - 1], n - 1, pairs)
      PROVE  ProposedOK(proposals[n], n, pairs)
  <2>1. proposals[n] = Take(pairs, proposals[n - 1])
    BY ProposalsAre
  <2> HIDE DEF proposals
  <2> QED BY <1>4, <2>1, TakeKeeps
<1> HIDE DEF proposals
<1>5. Len(Apps) \in T
  <2> DEFINE N == Len(Apps)
  <2>1. N \in Nat /\ 0 \in T /\ \A n \in 1..N : n - 1 \in T => n \in T
    BY <1>1, <1>3, <1>4
  <2> HIDE DEF T, N
  <2>2. \A n \in 0..N : n \in T
    BY <2>1, UpTo
  <2>3. N \in T
    BY <2>1, <2>2
  <2> QED BY <2>3 DEF N
<1> QED BY <1>5 DEF proposals, Propose

\* Accepting proposals, in whatever order and as many as the user likes, adds
\* just them: none meets an entry or another proposal by its key or an id, so
\* nothing is merged and load drops nothing (propose, upsert, load).
THEOREM ProposalsAreAdded == Spec => []AcceptedAsProposed
<1>1. ASSUME Inv PROVE AcceptedAsProposed
  <2> SUFFICES ASSUME NEW accepted \in SUBSET Propose(Pairs),
                      NEW q \in Propose(Pairs) \ accepted
               PROVE  Loaded(Upsert(Pairs \cup accepted, q)) = Pairs \cup accepted \cup {q}
    BY DEF AcceptedAsProposed
  <2> DEFINE proposals == Propose(Pairs)
             S == Pairs \cup accepted
             more == S \cup {q}
  <2>1. Entries(Pairs) /\ ProposedOK(proposals, Len(Apps), Pairs)
    BY <1>1, PairsAreEntries, ProposeOK
  <2>2. accepted \subseteq proposals /\ q \in proposals /\ q \notin accepted
    OBVIOUS
  <2> HIDE DEF proposals
  <2>3. /\ more \in SUBSET Entry /\ q \in Entry
        /\ q.play \in Packages /\ q.apple \in AppleIds
        /\ q.key \in Key /\ q.name \in Name
    <3>1. q \in Entry /\ more \in SUBSET Entry /\ q.play \in Packages /\ q.apple \in AppleIds
      BY <2>1, <2>2 DEF Entries, ProposedOK
    <3> HIDE DEF more
    <3> QED BY <3>1, EntryFields
  <2>4. \A r \in proposals : \A e \in Pairs :
          e.key # r.key /\ e.play # r.play /\ e.apple # r.apple
    BY <2>1 DEF ProposedOK, KeysOf, Claimed
  <2>5. \A e \in S : e.key # q.key /\ e.play # q.play /\ e.apple # q.apple
    <3>1. \A e \in accepted : e.key # q.key /\ e.play # q.play /\ e.apple # q.apple
      BY <2>1, <2>2 DEF ProposedOK
    <3> QED BY <2>2, <2>4, <3>1
  <2>6. {e \in S : Same(e, q)} = {}
    <3> HIDE DEF S
    <3> QED BY <2>5 DEF Same
  <2>7. DisplayName(S, q) = q.name
    <3>1. q.name # 0
      BY <2>3, RegistryAssumption DEF Name
    <3> HIDE DEF S
    <3> QED BY <3>1 DEF DisplayName
  <2>8. Upsert(S, q) = more
    <3>1. q = [key |-> q.key, name |-> q.name, play |-> q.play, apple |-> q.apple]
      BY <2>3 DEF Entry
    <3> HIDE DEF S
    <3> QED BY <2>6, <2>7, <3>1 DEF Upsert
  <2>9. \A e, f \in more : Clash(e, f) => e = f
    <3>1. \A e, f \in Pairs : Clash(e, f) => e = f
      BY <2>1 DEF Entries
    <3>2. \A e, f \in proposals : Clash(e, f) => e = f
      BY <2>1 DEF ProposedOK, Clash
    <3>3. \A e \in Pairs : \A f \in proposals : ~Clash(e, f) /\ ~Clash(f, e)
      BY <2>4 DEF Clash
    <3>4. \A e \in more : e \in Pairs \/ e \in proposals
      BY <2>2
    <3> HIDE DEF more
    <3> QED BY <3>1, <3>2, <3>3, <3>4
  <2>10. Loaded(more) = more
    <3> HIDE DEF more
    <3> QED BY <2>3, <2>9, LoadedAll
  <2> QED BY <2>8, <2>10
<1> QED BY <1>1, RegistryInvariance, PTL
=============================================================================
