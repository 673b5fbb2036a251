---------------------------- MODULE ListingMirror ----------------------------
(***************************************************************************)
(* metadata_pull and metadata_push of cross/tools.py, the local tree of    *)
(* core/metadata_mirror.py they keep, and play_update_listing of           *)
(* google_play/tools_write.py, which writes one of the same listings.      *)
(*                                                                         *)
(* A session is one use of a tool.  A pull reads a listing and writes the  *)
(* file of every field the store returned.  A push compares the files with *)
(* the listings, shows the difference and returns a token; its confirm     *)
(* call compares again, and with the token sends the difference: one Play  *)
(* edit per locale, then up to two App Store requests per locale, for the  *)
(* text that lives on the version and the text that lives on the app.      *)
(* Nothing is rolled back.  Sessions interleave with each other, with the  *)
(* user's editor and with whatever else changes the stores.                *)
(*                                                                         *)
(* One app is enough: the operation binds the ids of the pair.  The files  *)
(* of a locale are read in one step with the Play listing they are         *)
(* compared to.  The changelogs a pull writes and its sidecar of digests   *)
(* are left out: no tool reads them back.  The stores and the editor are   *)
(* external.                                                               *)
(***************************************************************************)
EXTENDS Naturals, FiniteSets

CONSTANTS
  Calls,         \* sessions that may be open at a time
  Locales,
  Fields,        \* PLAY_FIELDS and APPLE_FIELDS
  Owner,         \* what holds a field: "listing", or Apple's "version" or "info"
  Texts,         \* what a field may say
  Blank,         \* the empty text
  TooLong,       \* <<field, text>> beyond the field's limit
  Requests,      \* the arguments sessions are started with
  Listings,      \* what the stores may hold at first
  MaxElsewhere,  \* bound on the changes others make
  NoText, NoPlan, NoJob

Text == Texts \cup {Blank}
Maybe == Text \cup {NoText}
Slot == Fields \X Locales
Copy == [Slot -> Maybe]
Nothing == [s \in Slot |-> NoText]

\* One round of a push or a pull: a locale of a store.
Item == {"play", "apple"} \X Locales
StoreOf(s) == IF Owner[s[1]] = "listing" THEN "play" ELSE "apple"
ItemOf(s) == <<StoreOf(s), s[2]>>

\* The Play listing, the version localization or the app's holds a text.
Part == {"listing", "version", "info"} \X Locales
Held == {"version", "info"} \X Locales
HeldBy(s) == <<Owner[s[1]], s[2]>>

\* The keys of a copy that carry text.
Carries(copy) == {s \in Slot : copy[s] # NoText}

Blanks(copy) == {s \in Slot : copy[s] = Blank}

\* update_listing names its locale and its texts; the others their stores.
Request ==
  [kind : {"pull", "push"}, stores : SUBSET {"play", "apple"}]
    \cup [kind : {"update"}, texts : Copy]

ASSUME MirrorAssumption ==
  /\ Owner \in [Fields -> {"listing", "version", "info"}]
  /\ Blank \notin Texts
  /\ NoText \notin Text
  /\ NoPlan \notin Copy
  /\ TooLong \subseteq Fields \X Text
  /\ Requests \subseteq Request
  /\ Listings \subseteq [homes : SUBSET Held, texts : Copy]
  /\ \A l \in Listings : \A s \in Carries(l.texts) :   \* no text without a localization
       HeldBy(s) \in l.homes \/ StoreOf(s) = "play"
  /\ \A l \in Listings : Blanks(l.texts) = {}
  /\ MaxElsewhere \in Nat

Label ==
  {"idle", "scan", "write", "listing", "decide", "waiting", "send"}

\* read is the listing a pull writes or a push compares with, homes the
\* localizations it lists; plan is what will be sent, shown what the preview
\* displayed, sent what has landed.
Job ==
  [request : Requests, confirmed : BOOLEAN, todo : SUBSET (Item \cup Part), read : Copy,
   homes : SUBSET Held, over : BOOLEAN, plan : Copy, token : Copy \cup {NoPlan},
   shown : Copy \cup {NoPlan}, sent : SUBSET Slot]

ASSUME NoJobAssumption == NoJob \notin Job

VARIABLES
  remote,     \* what each store holds
  homes,      \* the localizations the editable version and the app have
  editable,   \* whether Apple takes changes to them
  file,       \* the local tree, NoText where a file is missing
  pc, job,
  blanked,    \* history: the fields somebody meant to be empty
  elsewhere   \* changes others have made

stores == <<remote, homes, editable>>
vars == <<stores, file, pc, job, blanked, elsewhere>>

Goto(c, label) == pc' = [pc EXCEPT ![c] = label]

\* The call is over and only its answer is left.
Return(c) ==
  /\ Goto(c, "idle")
  /\ job' = [job EXCEPT ![c] = NoJob]

Slots(i) == {s \in Slot : ItemOf(s) = i}

PlayTodo(c) == {i \in job[c].todo : i[1] = "play"}
Wanted(q) == q.stores \X Locales

-----------------------------------------------------------------------------
(***************************************************************************)
(* The calls begin.                                                        *)
(***************************************************************************)
Start(q) ==
  [request |-> q, confirmed |-> FALSE,
   todo |-> IF q.kind = "update" THEN {} ELSE Wanted(q),
   read |-> Nothing, homes |-> {},
   over |-> q.kind = "update" /\ \E s \in Carries(q.texts) : <<s[1], q.texts[s]>> \in TooLong,
   plan |-> IF q.kind = "update" THEN q.texts ELSE Nothing,
   token |-> NoPlan, shown |-> NoPlan, sent |-> {}]

\* play_update_listing needs no look at the tree; its user means every text.
Begin(c) ==
  /\ pc[c] = "idle"
  /\ \E q \in Requests :
       /\ job' = [job EXCEPT ![c] = Start(q)]
       /\ Goto(c, IF q.kind = "update" THEN "decide" ELSE "scan")
       /\ blanked' = IF q.kind = "update" THEN blanked \cup Blanks(q.texts) ELSE blanked
  /\ UNCHANGED <<stores, file, elsewhere>>

\* A store is not configured or does not answer: its part is skipped.
SkipStore(c) ==
  /\ pc[c] = "scan"
  /\ \E i \in job[c].todo :
       /\ i[1] = "apple" => PlayTodo(c) = {}
       /\ job' = [job EXCEPT
            ![c].todo = IF i[1] = "apple" THEN {} ELSE @ \ {i}]
  /\ UNCHANGED <<stores, file, pc, blanked, elsewhere>>

\* What _apple_listing finds: the localizations of the version it chose, and
\* those of the app only while it can be edited.
Listed == IF editable THEN homes ELSE {h \in homes : h[1] = "version"}

AppleCopy ==
  [s \in Slot |-> IF HeldBy(s) \in Listed THEN remote[s] ELSE NoText]

Mutant_PlayCopy(i) ==
  [s \in Slot |->
     IF ItemOf(s) # i THEN NoText
     ELSE IF remote[s] = NoText THEN Blank ELSE remote[s]]

PlayCopy(i) == [s \in Slot |-> IF ItemOf(s) = i THEN remote[s] ELSE NoText]

-----------------------------------------------------------------------------
(***************************************************************************)
(* metadata_pull                                                           *)
(***************************************************************************)
Pulls(c) == pc[c] = "scan" /\ job[c].request.kind = "pull"

PullPlay(c) ==
  /\ Pulls(c)
  /\ \E i \in PlayTodo(c) :
       job' = [job EXCEPT ![c].read = PlayCopy(i), ![c].todo = @ \ {i}]
  /\ Goto(c, "write")
  /\ UNCHANGED <<stores, file, blanked, elsewhere>>

PullApple(c) ==
  /\ Pulls(c)
  /\ PlayTodo(c) = {}
  /\ job[c].todo # {}
  /\ job' = [job EXCEPT ![c].read = AppleCopy, ![c].todo = {}]
  /\ Goto(c, "write")
  /\ UNCHANGED <<stores, file, blanked, elsewhere>>

\* write_locale leaves alone the files of the fields a store did not return.
WriteFile(c) ==
  /\ pc[c] = "write"
  /\ \E s \in Carries(job[c].read) :
       /\ file' = [file EXCEPT ![s] = job[c].read[s]]
       /\ job' = [job EXCEPT ![c].read[s] = NoText]
  /\ UNCHANGED <<stores, pc, blanked, elsewhere>>

WroteAll(c) ==
  /\ pc[c] = "write"
  /\ Carries(job[c].read) = {}
  /\ Goto(c, "scan")
  /\ UNCHANGED <<stores, file, job, blanked, elsewhere>>

\* Everything is pulled; or a file cannot be written and the call raises.
EndPull(c) ==
  /\ \/ Pulls(c) /\ job[c].todo = {}
     \/ pc[c] = "write"
  /\ Return(c)
  /\ UNCHANGED <<stores, file, blanked, elsewhere>>

-----------------------------------------------------------------------------
(***************************************************************************)
(* metadata_push: the plan, made alike on the preview and the confirm      *)
(* call, and play_update_listing, whose plan is its arguments.             *)
(***************************************************************************)
Pushes(c, label) == pc[c] = label /\ job[c].request.kind = "push"

\* diff_fields
Status(local, there) ==
  CASE local = NoText -> "absent"
    [] there \in {NoText, Blank} -> "new"
    [] local = there -> "unchanged"
    [] OTHER -> "changed"

\* FieldDiff.will_push; a field that is too long stops the push as a whole.
WillPush(local, there) == Status(local, there) \in {"new", "changed"}

Over(s) == <<s[1], file[s]>> \in TooLong

Compare(c, i, there) ==
  job' = [job EXCEPT
    ![c].plan = [s \in Slot |->
       IF s \in Slots(i) /\ WillPush(file[s], there[s]) THEN file[s] ELSE @[s]],
    ![c].over = @ \/ \E s \in Slots(i) : Over(s),
    ![c].todo = @ \ {i}]

PlanPlay(c) ==
  /\ Pushes(c, "scan")
  /\ \E i \in PlayTodo(c) : Compare(c, i, PlayCopy(i))
  /\ UNCHANGED <<stores, file, pc, blanked, elsewhere>>

\* _apple_listing; a frozen version is a problem to report.
ReadListing(c) ==
  /\ Pushes(c, "scan")
  /\ PlayTodo(c) = {}
  /\ job[c].todo # {}
  /\ job' = [job EXCEPT
       ![c].read = IF editable THEN AppleCopy ELSE @,
       ![c].homes = IF editable THEN Listed ELSE @,
       ![c].todo = IF editable THEN @ ELSE {}]
  /\ Goto(c, "listing")
  /\ UNCHANGED <<stores, file, blanked, elsewhere>>

\* Both localizations of a locale share one entry of the listing; a locale
\* that has neither is a problem to report.
Known(c, locale) == \E h \in job[c].homes : h[2] = locale

PlanApple(c) ==
  /\ pc[c] = "listing"
  /\ \E i \in job[c].todo :
       IF Known(c, i[2])
         THEN Compare(c, i, job[c].read)
         ELSE job' = [job EXCEPT ![c].todo = @ \ {i}]
  /\ UNCHANGED <<stores, file, pc, blanked, elsewhere>>

EndPlan(c) ==
  /\ \/ Pushes(c, "scan")
     \/ pc[c] = "listing"
  /\ job[c].todo = {}
  /\ job' = [job EXCEPT ![c].read = Nothing]
  /\ Goto(c, "decide")
  /\ UNCHANGED <<stores, file, blanked, elsewhere>>

Mutant_Operation(plan) == [s \in Slot |-> IF plan[s] = NoText THEN NoText ELSE Blank]

\* What the operation binds: the digest of every text to be sent.
Operation(plan) == plan

Sendable(c) == ~job[c].over /\ Carries(job[c].plan) # {}

\* Nothing to push, a field too long, or a token bound to other texts.
Stop(c) ==
  /\ pc[c] = "decide"
  /\ \/ ~Sendable(c)
     \/ job[c].confirmed /\ Operation(job[c].plan) # job[c].token
  /\ Return(c)
  /\ UNCHANGED <<stores, file, blanked, elsewhere>>

\* The plan is shown and bound; the confirm call makes it anew.
Preview(c) ==
  /\ Pushes(c, "decide")
  /\ ~job[c].confirmed
  /\ Sendable(c)
  /\ job' = [job EXCEPT
       ![c].token = Operation(job[c].plan), ![c].shown = job[c].plan,
       ![c].homes = {}, ![c].plan = Nothing]
  /\ Goto(c, "waiting")
  /\ UNCHANGED <<stores, file, blanked, elsewhere>>

\* play_update_listing shows its arguments beside the listing an edit holds,
\* which it makes, patches, validates and deletes.
Rehearse(c) ==
  /\ pc[c] = "decide"
  /\ job[c].request.kind = "update"
  /\ ~job[c].confirmed
  /\ Sendable(c)
  /\ job' = [job EXCEPT ![c].token = Operation(job[c].plan), ![c].shown = job[c].plan]
  /\ Goto(c, "waiting")
  /\ UNCHANGED <<stores, file, blanked, elsewhere>>

Confirm(c) ==
  /\ pc[c] = "waiting"
  /\ job' = [job EXCEPT
       ![c].confirmed = TRUE,
       ![c].todo = Start(job[c].request).todo]
  /\ Goto(c, IF job[c].request.kind = "update" THEN "decide" ELSE "scan")
  /\ UNCHANGED <<stores, file, blanked, elsewhere>>

\* The user never confirms, or the rehearsal of update_listing fails.
Abandon(c) ==
  /\ \/ pc[c] = "waiting"
     \/ pc[c] = "decide" /\ job[c].request.kind = "update"
  /\ Return(c)
  /\ UNCHANGED <<stores, file, blanked, elsewhere>>

\* The gate lets the call pass; the loop over pushable begins.
Execute(c) ==
  /\ pc[c] = "decide"
  /\ job[c].confirmed
  /\ Sendable(c)
  /\ Operation(job[c].plan) = job[c].token
  /\ job' = [job EXCEPT ![c].todo = {HeldBy(s) : s \in Carries(job[c].plan)}]
  /\ Goto(c, "send")
  /\ UNCHANGED <<stores, file, blanked, elsewhere>>

-----------------------------------------------------------------------------
(***************************************************************************)
(* The writes.                                                             *)
(***************************************************************************)
\* One write: the planned texts of one locale that one resource holds.
Sends(c, u) == {s \in Carries(job[c].plan) : HeldBy(s) = u}

\* Play before Apple, and a locale's version before its name and subtitle.
Turns(c) ==
  IF pc[c] # "send" THEN {}
  ELSE {u \in job[c].todo :
    /\ u[1] # "listing" => \A v \in job[c].todo : v[1] # "listing"
    /\ u[1] = "info" => <<"version", u[2]>> \notin job[c].todo}

\* A Play edit commits unless another overtook it, one of the ways to fail;
\* Apple refuses once the version is frozen.
Takes(u) == u[1] = "listing" \/ (editable /\ u \in homes)

\* A write lands and is answered, or its answer is lost and the call fails.
Land(c, u) ==
  /\ remote' = [s \in Slot |-> IF s \in Sends(c, u) THEN job[c].plan[s] ELSE remote[s]]
  /\ \/ /\ job' = [job EXCEPT ![c].sent = @ \cup Sends(c, u), ![c].todo = @ \ {u}]
        /\ UNCHANGED pc
     \/ Return(c)
  /\ UNCHANGED <<homes, editable, file, blanked, elsewhere>>

\* An edit that patches the listing of one locale.
PatchListing(c) == \E u \in Turns(c) : u[1] = "listing" /\ Land(c, u)

\* A request for a localization that the plan's listing had.
PatchLocalization(c) ==
  \E u \in Turns(c) : u[1] # "listing" /\ u \in job[c].homes /\ Takes(u) /\ Land(c, u)

Mutant_SkipPart(c) ==
  /\ \E u \in Turns(c) :
       /\ u[1] # "listing"
       /\ job' = [job EXCEPT ![c].todo = @ \ {u}]
  /\ UNCHANGED <<stores, file, pc, blanked, elsewhere>>

\* A localization the listing did not have: nothing is sent, or said.
SkipPart(c) ==
  /\ \E u \in Turns(c) :
       /\ u[1] # "listing"
       /\ u \notin job[c].homes
       /\ job' = [job EXCEPT ![c].todo = @ \ {u}]
  /\ UNCHANGED <<stores, file, pc, blanked, elsewhere>>

\* A write is refused or does not arrive: the call raises, the rest is not sent.
LoseWrite(c) ==
  /\ pc[c] = "send"
  /\ job[c].todo # {}
  /\ Return(c)
  /\ UNCHANGED <<stores, file, blanked, elsewhere>>

\* "[done]", with a line "[ok]" for every field of the plan.
Done(c) == pc[c] = "send" /\ job[c].todo = {}

Finish(c) ==
  /\ Done(c)
  /\ Return(c)
  /\ UNCHANGED <<stores, file, blanked, elsewhere>>

-----------------------------------------------------------------------------
(***************************************************************************)
(* Around the sessions.                                                    *)
(***************************************************************************)
Elsewhere ==
  /\ elsewhere < MaxElsewhere
  /\ elsewhere' = elsewhere + 1

\* The user writes or deletes a file.
EditFile ==
  /\ Elsewhere
  /\ \E s \in Slot : \E t \in Maybe \ {file[s]} :
       /\ file' = [file EXCEPT ![s] = t]
       /\ blanked' = IF t = Blank THEN blanked \cup {s} ELSE blanked
  /\ UNCHANGED <<stores, pc, job>>

\* Somebody changes a text in a console.
EditStore ==
  /\ Elsewhere
  /\ \E s \in Slot : \E t \in Texts \ {remote[s]} :
       /\ Takes(HeldBy(s))
       /\ <<s[1], t>> \notin TooLong
       /\ remote' = [remote EXCEPT ![s] = t]
  /\ UNCHANGED <<homes, editable, file, pc, job, blanked>>

\* The version is submitted, or comes back from review.
Freeze ==
  /\ Elsewhere
  /\ editable' = ~editable
  /\ UNCHANGED <<remote, homes, file, pc, job, blanked>>

\* The server dies: calls in progress are gone, tokens handed out are not.
Crash ==
  /\ job' = [c \in Calls |-> IF pc[c] = "waiting" THEN job[c] ELSE NoJob]
  /\ pc' = [c \in Calls |-> IF pc[c] = "waiting" THEN "waiting" ELSE "idle"]
  /\ UNCHANGED <<stores, file, blanked, elsewhere>>

-----------------------------------------------------------------------------
\* A tree that was never pulled.
Init ==
  /\ \E l \in Listings : homes = l.homes /\ remote = l.texts
  /\ editable = TRUE
  /\ file = Nothing
  /\ pc = [c \in Calls |-> "idle"]
  /\ job = [c \in Calls |-> NoJob]
  /\ blanked = {}
  /\ elsewhere = 0

Next ==
  \/ \E c \in Calls :
       \/ Begin(c) \/ SkipStore(c) \/ PullPlay(c) \/ PullApple(c) \/ WriteFile(c)
       \/ WroteAll(c) \/ EndPull(c) \/ PlanPlay(c) \/ ReadListing(c) \/ PlanApple(c)
       \/ EndPlan(c) \/ Stop(c) \/ Preview(c) \/ Rehearse(c) \/ Confirm(c) \/ Abandon(c) \/ Execute(c)
       \/ PatchListing(c) \/ PatchLocalization(c) \/ SkipPart(c) \/ LoseWrite(c) \/ Finish(c)
  \/ EditFile \/ EditStore \/ Freeze \/ Crash

Spec == Init /\ [][Next]_vars

-----------------------------------------------------------------------------
(***************************************************************************)
(* Properties.                                                             *)
(***************************************************************************)

\* The type invariant; a session has a record exactly while it is not idle.
TypeOK ==
  /\ remote \in Copy
  /\ homes \subseteq Held
  /\ editable \in BOOLEAN
  /\ file \in Copy
  /\ pc \in [Calls -> Label]
  /\ job \in [Calls -> Job \cup {NoJob}]
  /\ \A c \in Calls : pc[c] = "idle" <=> job[c] = NoJob
  /\ blanked \subseteq Slot
  /\ elsewhere \in 0..MaxElsewhere

\* Absent is not empty: a store field becomes empty only where somebody left
\* an empty file or asked for the empty text, whatever was pulled in between.
OnlyDeliberateBlanks == Blanks(remote) \subseteq blanked

\* "[done]" claims no field beyond those that were sent, except the fields of
\* a localization the listing did not have.
DoneMeansSent ==
  \A c \in Calls : Done(c) =>
    \A s \in Carries(job[c].plan) \ job[c].sent :
      StoreOf(s) = "apple" /\ HeldBy(s) \notin job[c].homes

\* What session c writes when it takes a step of its loop.
Changes(c) ==
  IF pc[c] = "send" /\ job'[c] # job[c] THEN {s \in Slot : remote'[s] # remote[s]} ELSE {}

\* A write puts into a store the very text its preview showed, and none over
\* its field's limit, however files and stores changed in between.
PushedAsShown ==
  [][\A c \in Calls : \A s \in Changes(c) :
       /\ remote'[s] = job[c].shown[s]
       /\ <<s[1], remote'[s]>> \notin TooLong]_vars

=============================================================================
