----------------------------- MODULE AppMatching -----------------------------
(***************************************************************************)
(* What cross/apps.py makes of the registry and of the apps each store     *)
(* lists: the rows of the portfolio, and the pairs suggest_app_pairs       *)
(* proposes for a user to accept with pair_apps.                           *)
(*                                                                         *)
(* How alike two identifiers and two names are is given; the scores are in *)
(* thousandths.  The order of the rows and of the proposals is left out:   *)
(* only keys depend on it, through the order in which they are given.      *)
(* slugify cuts a key after 48 characters.  Here it leaves a key made of a *)
(* title alone, since both stores allow titles of 30.                      *)
(***************************************************************************)
EXTENDS AppRegistry, Sequences

CONSTANTS
  Apps,       \* the ids the stores list, Play's first, in their order
  Title,      \* where an app's name sorts
  Slug,       \* the key its name makes
  Numbered,   \* a key, and the same with -2, -3, ...
  IdsAlike,   \* how the identifiers of a Play and an App Store app compare
  LooksAlike, \* the score of identifiers that only look alike
  NamesAlike, \* the score of their names
  Minimum     \* MIN_PROPOSAL_SCORE

Likeness == {"same", "suffix", "owner_end", "end", "owner", "similar", "none"}

Listed == {Apps[i] : i \in DOMAIN Apps}

Position(id) == CHOOSE i \in DOMAIN Apps : Apps[i] = id

ASSUME MatchingAssumption ==
  /\ Apps \in Seq(Packages \cup AppleIds)
  /\ \A i, j \in DOMAIN Apps : Apps[i] = Apps[j] => i = j
  /\ Title \in [Packages \cup AppleIds -> Name]
  /\ Slug \in [Packages \cup AppleIds -> Key]
  /\ Numbered \in [Key -> Seq(Key)]
  /\ IdsAlike \in [Packages \X AppleIds -> Likeness]
  /\ LooksAlike \in [Packages \X AppleIds -> 680..800]
  /\ NamesAlike \in [Packages \X AppleIds -> 0..1000]
  /\ Minimum \in 0..1000

\* The code counts up until a key is free; here a key has as many numbered
\* variants as there can be rows, all different.
ASSUME EnoughKeysAssumption ==
  \A id \in Listed :
    LET variants == Numbered[Slug[id]] IN
    /\ \A m, n \in DOMAIN variants : variants[m] = variants[n] => m = n
    /\ Len(variants) > Cardinality({q.key : q \in Pairings}) + Len(Apps)

\* The first of a key and its numbered variants that is free.
UniqueKey(base, taken) ==
  LET variants == Numbered[base]
      n == CHOOSE n \in DOMAIN variants :
             variants[n] \notin taken /\ \A m \in 1..n - 1 : variants[m] \in taken
  IN  variants[n]

KeysOf(rows) == {r.key : r \in rows}

Claimed(pairs) == {e.play : e \in pairs} \cup {e.apple : e \in pairs}

-----------------------------------------------------------------------------
(***************************************************************************)
(* build_portfolio: a row for every entry, and one for every app that no   *)
(* entry claims.                                                           *)
(***************************************************************************)
Row(key, play, apple) == [key |-> key, play |-> play, apple |-> apple]

AddApp(rows, pairs, id) ==
  IF id \in Claimed(pairs) THEN rows
  ELSE LET key == UniqueKey(Slug[id], KeysOf(rows)) IN
    rows \cup {IF id \in Packages THEN Row(key, id, NoId) ELSE Row(key, NoId, id)}

\* The rows after so many apps; visible are those the stores show: nothing of
\* a store that is down.
RowsAfter(visible, pairs) ==
  LET rows[n \in 0..Len(Apps)] ==
        IF n = 0 THEN {Row(e.key, e.play, e.apple) : e \in pairs}
        ELSE IF Apps[n] \in visible THEN AddApp(rows[n - 1], pairs, Apps[n])
        ELSE rows[n - 1]
  IN rows

Portfolio(visible, pairs) == RowsAfter(visible, pairs)[Len(Apps)]

-----------------------------------------------------------------------------
(***************************************************************************)
(* propose: greedy, best score first, each app once.                       *)
(***************************************************************************)
BundleScore(m) ==
  LET alike == IdsAlike[m] IN
  CASE alike = "same" -> 1000 [] alike = "suffix" -> 920 [] alike = "owner_end" -> 800
    [] alike = "end" -> 650 [] alike = "owner" -> 550
    [] alike = "similar" -> LooksAlike[m] [] alike = "none" -> 0

\* Two signals that agree are worth more than the better of them: by a tenth of
\* the other, rounded.
Score(m) ==
  LET bundle == BundleScore(m)
      name == NamesAlike[m]
      sum == IF bundle >= name THEN bundle + (name + 5) \div 10
             ELSE name + (bundle + 5) \div 10
  IN  IF sum > 1000 THEN 1000 ELSE sum

Scored(pairs) ==
  {m \in Packages \X AppleIds :
     {m[1], m[2]} \subseteq Listed \ Claimed(pairs) /\ Score(m) >= Minimum}

\* By score, then by name; the sort is stable.
Better(m, n) ==
  \/ Score(m) > Score(n)
  \/ /\ Score(m) = Score(n)
     /\ \/ Title[m[1]] < Title[n[1]]
        \/ /\ Title[m[1]] = Title[n[1]]
           /\ \/ Position(m[1]) < Position(n[1])
              \/ m[1] = n[1] /\ Position(m[2]) < Position(n[2])

Best(ms) == CHOOSE m \in ms : \A n \in ms \ {m} : Better(m, n)

Mutant_Unused(pairs, proposals) ==
  {m \in Scored(pairs) : ~ \E q \in proposals : q.play = m[1] /\ q.apple = m[2]}

\* An app that is in a proposal is in no other.
Unused(pairs, proposals) ==
  {m \in Scored(pairs) : ~ \E q \in proposals : q.play = m[1] \/ q.apple = m[2]}

\* A proposal is the pair_apps call that accepts it.
Take(pairs, proposals) ==
  LET m == Best(Unused(pairs, proposals)) IN
  IF Unused(pairs, proposals) = {} THEN proposals
  ELSE proposals \cup
         {[key |-> UniqueKey(Slug[m[1]], KeysOf(pairs) \cup KeysOf(proposals)),
           name |-> Title[m[1]], play |-> m[1], apple |-> m[2]]}

\* Every round takes a listed app.
ProposedAfter(pairs) ==
  LET proposals[n \in 0..Len(Apps)] ==
        IF n = 0 THEN {} ELSE Take(pairs, proposals[n - 1])
  IN proposals

Propose(pairs) == ProposedAfter(pairs)[Len(Apps)]

-----------------------------------------------------------------------------
(***************************************************************************)
(* Properties, of every registry that pairing calls leave behind and of    *)
(* what either store shows of its apps.                                    *)
(***************************************************************************)
AtRest == \A c \in Calls : pc[c] = "idle"

\* An app a store lists stands on exactly one row of the portfolio, beside a
\* row for every entry, and no two rows share a key: no revenue is counted
\* twice and no app disappears (build_portfolio, cross/apps.py).
EveryAppOnce ==
  AtRest =>
    \A visible \in SUBSET Listed :
      LET rows == Portfolio(visible, Pairs) IN
      /\ \A id \in visible : \E r \in rows : {s \in rows : id \in {s.play, s.apple}} = {r}
      /\ \A e \in Pairs : Row(e.key, e.play, e.apple) \in rows
      /\ \A r, s \in rows : r.key = s.key => r = s

\* Accepting what suggest_app_pairs proposes, one pair_apps call after the
\* other, in whatever order and as many as the user likes, adds just these
\* pairs: no entry of the registry is merged with another, renamed or lost.
AcceptedAsProposed ==
  AtRest =>
    \A accepted \in SUBSET Propose(Pairs) : \A q \in Propose(Pairs) \ accepted :
      Loaded(Upsert(Pairs \cup accepted, q)) = Pairs \cup accepted \cup {q}

=============================================================================
