--------------------------- MODULE AppStoreWrites ---------------------------
(***************************************************************************)
(* The App Store tools that write: asc_reply_review, asc_update_metadata   *)
(* and asc_submit_for_review of app_store/tools.py over the requests of    *)
(* app_store/resources.py; and play_reply_review, the counterpart of the   *)
(* first in google_play/tools_write.py.                                    *)
(*                                                                         *)
(* A session is one use of a tool: a preview call that looks things up and *)
(* returns a token, then perhaps a confirm call that looks them up again   *)
(* and, when the operation is still the one the token is bound to, writes. *)
(* A write is one or two requests; any of them may be refused, lost, or    *)
(* land with its answer lost (AscClient sends it again and meets its own   *)
(* trace).  Between any two requests another session, someone in App Store *)
(* Connect or Apple's reviewers may change what was looked up.             *)
(*                                                                         *)
(* One app, one platform, one locale, one review.  Of the listing copy two *)
(* fields stand for all: notes lives on a version's localization, name on  *)
(* the app's.  A reply on Google Play overwrites whatever is there, which  *)
(* no tool looks at, so only whether it landed is kept.  App Store Connect *)
(* and Google Play are external.                                           *)
(***************************************************************************)
EXTENDS Naturals, FiniteSets

CONSTANTS
  Calls,       \* sessions that may be open at a time
  Texts,       \* texts of notes, names and replies
  Requests,    \* the arguments sessions are started with
  MaxVersion,  \* versions are numbered 1..MaxVersion, newer ones higher
  MaxElsewhere,  \* bound on what others edit
  Empty,       \* the empty text; for the name, the one it had
  Unset,       \* an argument not given
  NoReply, NoVersion, NoToken, NoJob, NoAnswer

Versions == 1..MaxVersion
Tool == {"reply", "metadata", "submit", "play_reply"}

Request ==
  [tool : Tool, body : Texts \cup {Unset}, notes : Texts \cup {Empty, Unset},
   name : Texts \cup {Unset}, phased : BOOLEAN, skip : BOOLEAN]

ASSUME WritesAssumption ==
  /\ MaxVersion \in Nat \ {0}
  /\ MaxElsewhere \in Nat
  /\ Requests \subseteq Request
  /\ \A q \in Requests :
       /\ q.tool \in {"reply", "play_reply"} => q.body \in Texts
       /\ q.tool = "metadata" => {q.notes, q.name} # {Unset}
  /\ Empty \notin Texts /\ Unset \notin Texts \cup {Empty}
  /\ NoReply \notin Texts
  /\ NoVersion \notin Nat

State == {"absent", "prepare", "rejected", "waiting", "live"}

\* EDITABLE_STATES
Editable == {"prepare", "rejected"}

Version == [state : State, build : BOOLEAN, notes : Texts \cup {Empty}, phased : BOOLEAN]

Part == {"reply", "play_reply", "notes", "name", "phased", "submission"}

\* What the last call to end left in the log; whole and any are history,
\* whether all of its writes landed, or any.
Answer ==
  [outcome : {"executed", "failed", "blocked", "rejected"},
   whole : BOOLEAN, any : BOOLEAN]

\* What an operation's params derive: the version, or whether there is a
\* reply to replace.
Token == [version : Versions \cup {NoVersion}, replaces : BOOLEAN]

\* seen is what the current leg derived, shown what the preview did; fresh is
\* history: nothing else has changed the app since the leg's lookup.
Job ==
  [request : Requests, confirmed : BOOLEAN, token : Token \cup {NoToken},
   seen : Token \cup {NoToken}, shown : Token \cup {NoToken},
   fresh : BOOLEAN, landed : SUBSET Part]

Label ==
  {"idle", "lookup", "precheck", "waiting", "reply", "play_reply", "notes",
   "name", "phased", "enable", "submit"}

ASSUME NoneAssumption ==
  NoToken \notin Token /\ NoJob \notin Job /\ NoAnswer \notin Answer

VARIABLES
  version,  \* the app's versions
  name,     \* the app's name
  reply,    \* the public reply to the review
  pc, job, answer,
  elsewhere \* edits others have made

store == <<version, name, reply>>
vars == <<store, pc, job, answer, elsewhere>>

Goto(c, label) == pc' = [pc EXCEPT ![c] = label]

\* The lookup of every session but those is now of an app that is no more.
Aged(js, own) ==
  [d \in Calls |->
     IF d \in own \/ js[d] = NoJob THEN js[d] ELSE [js[d] EXCEPT !.fresh = FALSE]]

\* The parts of the app a call sets out to write.
Wanted(q) ==
  CASE q.tool \in {"reply", "play_reply"} -> {q.tool}
    [] q.tool = "metadata" ->
         {p \in {"notes", "name"} : q[p] # Unset}
    [] q.tool = "submit" ->
         {"submission"} \cup (IF q.phased THEN {"phased"} ELSE {})

Tell(c, outcome, landed) ==
  answer' = [outcome |-> outcome, whole |-> landed = Wanted(job[c].request),
             any |-> landed # {}]

Return(c, outcome, landed) ==
  /\ Tell(c, outcome, landed)
  /\ Goto(c, "idle")
  /\ job' = [job EXCEPT ![c] = NoJob]

-----------------------------------------------------------------------------
(***************************************************************************)
(* Both legs: look up, check, derive the operation, pass the gate.         *)
(***************************************************************************)
\* The newest version that can still be edited; NoVersion if there is none.
EditableVersion(vs) ==
  LET open == {v \in Versions : vs[v].state \in Editable}
  IN  IF open = {} THEN NoVersion ELSE CHOOSE v \in open : \A w \in open : w <= v

Begin(c) ==
  /\ pc[c] = "idle"
  /\ \E q \in Requests :
       job' = [job EXCEPT ![c] =
         [request |-> q, confirmed |-> FALSE, token |-> NoToken, seen |-> NoToken,
          shown |-> NoToken, fresh |-> FALSE, landed |-> {}]]
  /\ Goto(c, "lookup")
  /\ UNCHANGED <<store, answer>>

\* What resolving a call's target yields now: get_review, editable_version,
\* or, on Google Play, nothing.
SeenReview == [version |-> NoVersion, replaces |-> reply # NoReply]
SeenVersion == [version |-> EditableVersion(version), replaces |-> FALSE]
SeenNothing == [version |-> NoVersion, replaces |-> FALSE]

Mutant_Bound(seen) == [seen EXCEPT !.version = NoVersion]

Mutant_BoundReply(seen) == [seen EXCEPT !.replaces = FALSE]

\* The derived part of the operation's params.
Bound(seen) == seen

\* The first write of a call that passed the gate.
FirstWrite(q) ==
  CASE q.tool \in {"reply", "play_reply"} -> q.tool
    [] q.tool = "metadata" -> IF q.notes # Unset THEN "notes" ELSE "name"
    [] q.tool = "submit" -> IF q.phased THEN "phased" ELSE "submit"

\* require_confirmation: a preview hands out a token, a confirm call needs
\* one bound to the same operation.
Gate(c, seen, fresh) ==
  IF ~job[c].confirmed
    THEN /\ job' = [job EXCEPT ![c].seen = seen, ![c].shown = seen,
                               ![c].token = Bound(seen), ![c].fresh = FALSE]
         /\ Goto(c, "waiting")
         /\ UNCHANGED answer
  ELSE IF job[c].token = Bound(seen)
    THEN /\ job' = [job EXCEPT ![c].seen = seen, ![c].fresh = fresh]
         /\ Goto(c, FirstWrite(job[c].request))
         /\ UNCHANGED answer
  ELSE Return(c, "rejected", {})

LooksUp(c, tool) == pc[c] = "lookup" /\ job[c].request.tool = tool

\* asc_reply_review: whether there is a reply to replace.
LookupReply(c) ==
  /\ LooksUp(c, "reply")
  /\ Gate(c, SeenReview, TRUE)
  /\ UNCHANGED store

\* play_reply_review reads the review for its preview only, and does without.
LookupPlayReply(c) ==
  /\ LooksUp(c, "play_reply")
  /\ Gate(c, SeenNothing, TRUE)
  /\ UNCHANGED store

\* asc_update_metadata: the version whose localization it will change.
LookupCopy(c) ==
  /\ LooksUp(c, "metadata")
  /\ SeenVersion.version # NoVersion
  /\ Gate(c, SeenVersion, TRUE)
  /\ UNCHANGED store

Mutant_NeedsPrecheck(c) == ~job[c].request.skip /\ ~job[c].confirmed

\* The precheck runs on the preview and again on the confirm call.
NeedsPrecheck(c) == ~job[c].request.skip

\* asc_submit_for_review: the version to submit.
LookupSubmission(c) ==
  /\ LooksUp(c, "submit")
  /\ SeenVersion.version # NoVersion
  /\ IF NeedsPrecheck(c)
       THEN /\ job' = [job EXCEPT ![c].seen = SeenVersion, ![c].fresh = TRUE]
            /\ Goto(c, "precheck")
            /\ UNCHANGED answer
       ELSE Gate(c, SeenVersion, TRUE)
  /\ UNCHANGED store

\* What submission_precheck asks of a version: editable, a valid build, copy.
Submittable(v) ==
  /\ version[v].state \in Editable
  /\ version[v].build
  /\ version[v].notes # Empty

\* Problems block the call before any token is looked at.
Precheck(c) ==
  /\ pc[c] = "precheck"
  /\ IF Submittable(job[c].seen.version)
       THEN Gate(c, job[c].seen, job[c].fresh)
       ELSE Return(c, "blocked", {})
  /\ UNCHANGED store

\* No editable version, the review is gone, a locale is missing, or a
\* request fails; nothing is logged.
Fail(c) ==
  /\ pc[c] \in {"lookup", "precheck"}
  /\ job[c].request.tool # "play_reply"
  /\ Goto(c, "idle")
  /\ job' = [job EXCEPT ![c] = NoJob]
  /\ UNCHANGED <<store, answer>>

Confirm(c) ==
  /\ pc[c] = "waiting"
  /\ job' = [job EXCEPT ![c].confirmed = TRUE]
  /\ Goto(c, "lookup")
  /\ UNCHANGED <<store, answer>>

Abandon(c) ==
  /\ pc[c] = "waiting"
  /\ Goto(c, "idle")
  /\ job' = [job EXCEPT ![c] = NoJob]
  /\ UNCHANGED <<store, answer>>

-----------------------------------------------------------------------------
(***************************************************************************)
(* The writes, inside audit_execution.                                     *)
(***************************************************************************)
\* A request to write a part lands: the session goes on to next, or is done,
\* or the answer is lost and the call fails.
Land(c, part, next) ==
  LET landed == job[c].landed \cup {part} IN
  \/ /\ next # "idle"
     /\ job' = Aged([job EXCEPT ![c].landed = landed], {c})
     /\ Goto(c, next)
     /\ UNCHANGED answer
  \/ \E outcome \in {"failed"} \cup (IF next = "idle" THEN {"executed"} ELSE {}) :
       /\ Tell(c, outcome, landed)
       /\ Goto(c, "idle")
       /\ job' = Aged([job EXCEPT ![c] = NoJob], {c})

Writing == {"reply", "play_reply", "notes", "name", "phased", "enable", "submit"}

Mutant_LoseWrite(c) ==
  /\ pc[c] \in Writing
  /\ IF pc[c] \in {"phased", "enable"}
       THEN Goto(c, "submit") /\ UNCHANGED <<job, answer>>
       ELSE Return(c, "failed", job[c].landed)
  /\ UNCHANGED store

\* A request is refused or never arrives; what landed before stays.
LoseWrite(c) ==
  /\ pc[c] \in Writing
  /\ Return(c, "failed", job[c].landed)
  /\ UNCHANGED store

\* A reply found at the lookup is edited, and must still be there.
EditReply(c) ==
  /\ pc[c] = "reply"
  /\ job[c].seen.replaces
  /\ reply # NoReply
  /\ reply' = job[c].request.body
  /\ Land(c, "reply", "idle")
  /\ UNCHANGED <<version, name>>

\* Otherwise one is created, and takes the place of one made meanwhile.
CreateReply(c) ==
  /\ pc[c] = "reply"
  /\ ~job[c].seen.replaces
  /\ reply' = job[c].request.body
  /\ Land(c, "reply", "idle")
  /\ UNCHANGED <<version, name>>

\* reviews.reply of Google Play.
ReplyOnPlay(c) ==
  /\ pc[c] = "play_reply"
  /\ Land(c, "play_reply", "idle")
  /\ UNCHANGED store

\* Only an editable version's copy can be changed.
WriteNotes(c) ==
  LET q == job[c].request
      v == job[c].seen.version
  IN  /\ pc[c] = "notes"
      /\ version[v].state \in Editable
      /\ version' = [version EXCEPT ![v].notes = q.notes]
      /\ Land(c, "notes", IF q.name # Unset THEN "name" ELSE "idle")
      /\ UNCHANGED <<name, reply>>

\* The name belongs to the app, and is locked while no version is editable.
NameIsOpen == EditableVersion(version) # NoVersion

WriteName(c) ==
  /\ pc[c] = "name"
  /\ NameIsOpen
  /\ name' = job[c].request.name
  /\ Land(c, "name", "idle")
  /\ UNCHANGED <<version, reply>>

\* get_phased_release: none is not a failure.
ReadPhased(c) ==
  /\ pc[c] = "phased"
  /\ IF version[job[c].seen.version].phased
       THEN /\ job' = [job EXCEPT ![c].landed = @ \cup {"phased"}]
            /\ Goto(c, "submit")
       ELSE Goto(c, "enable") /\ UNCHANGED job
  /\ UNCHANGED <<store, answer>>

\* A version has one phased release; a second is refused.
EnablePhased(c) ==
  LET v == job[c].seen.version IN
  /\ pc[c] = "enable"
  /\ ~version[v].phased
  /\ version' = [version EXCEPT ![v].phased = TRUE]
  /\ Land(c, "phased", "submit")
  /\ UNCHANGED <<name, reply>>

\* Apple takes a version into review that is editable and has a build.
CreateSubmission(c) ==
  LET v == job[c].seen.version IN
  /\ pc[c] = "submit"
  /\ version[v].state \in Editable
  /\ version[v].build
  /\ version' = [version EXCEPT ![v].state = "waiting"]
  /\ Land(c, "submission", "idle")
  /\ UNCHANGED <<name, reply>>

-----------------------------------------------------------------------------
(***************************************************************************)
(* Others: someone in App Store Connect, the reviewer of the app, and a    *)
(* crash of the server, which takes the calls in progress with it.         *)
(***************************************************************************)
Others == pc' = pc /\ job' = Aged(job, {}) /\ answer' = answer

Edits == elsewhere < MaxElsewhere /\ elsewhere' = elsewhere + 1

EditElsewhere ==
  /\ Edits
  /\ \E v \in Versions :
       /\ version[v].state \in Editable
       /\ \/ \E t \in Texts \cup {Empty} : version' = [version EXCEPT ![v].notes = t]
          \/ version' = [version EXCEPT ![v].build = ~@]
          \/ version' = [version EXCEPT ![v].phased = ~@]
          \/ version' = [version EXCEPT ![v].state = "waiting"] /\ version[v].build
  /\ Others
  /\ UNCHANGED <<name, reply>>

ReplyElsewhere ==
  /\ Edits
  /\ reply' \in Texts \cup {NoReply}
  /\ Others
  /\ UNCHANGED <<version, name>>

\* Apple decides on a version in review.
Review ==
  /\ \E v \in Versions :
       /\ version[v].state = "waiting"
       /\ \E s \in {"rejected", "live"} : version' = [version EXCEPT ![v].state = s]
  /\ Others
  /\ UNCHANGED <<name, reply, elsewhere>>

\* The next version is made when the last one is live.
CreateVersion ==
  /\ \E v \in Versions :
       /\ version[v].state = "absent"
       /\ \A w \in Versions : w < v => version[w].state = "live"
       /\ version' = [version EXCEPT ![v].state = "prepare"]
  /\ Others
  /\ UNCHANGED <<name, reply, elsewhere>>

Crash ==
  LET Dead(c) == pc[c] \notin {"idle", "waiting"} IN
  /\ \E c \in Calls : Dead(c)
  /\ pc' = [c \in Calls |-> IF Dead(c) THEN "idle" ELSE pc[c]]
  /\ job' = [c \in Calls |-> IF Dead(c) THEN NoJob ELSE job[c]]
  /\ UNCHANGED <<store, answer, elsewhere>>

Init ==
  /\ \E build \in BOOLEAN :
       version = [v \in Versions |->
         [state |-> IF v = 1 THEN "prepare" ELSE "absent", build |-> build,
          notes |-> Empty, phased |-> FALSE]]
  /\ name = Empty
  /\ reply = NoReply
  /\ pc = [c \in Calls |-> "idle"]
  /\ job = [c \in Calls |-> NoJob]
  /\ answer = NoAnswer
  /\ elsewhere = 0

Step(c) ==
  \/ Begin(c) \/ LookupReply(c) \/ LookupPlayReply(c) \/ LookupCopy(c)
  \/ LookupSubmission(c) \/ Precheck(c) \/ Fail(c) \/ Confirm(c) \/ Abandon(c)
  \/ EditReply(c) \/ CreateReply(c) \/ ReplyOnPlay(c) \/ WriteNotes(c) \/ WriteName(c)
  \/ ReadPhased(c) \/ EnablePhased(c) \/ CreateSubmission(c) \/ LoseWrite(c)

Next ==
  \/ \E c \in Calls : Step(c) /\ UNCHANGED elsewhere
  \/ EditElsewhere \/ ReplyElsewhere \/ Review \/ CreateVersion
  \/ Crash

Spec == Init /\ [][Next]_vars

-----------------------------------------------------------------------------
(***************************************************************************)
(* Properties.                                                             *)
(***************************************************************************)

(* The variables keep their types, and a session past the gate has the     *)
(* token of its own preview and knows what it writes to.                   *)
TypeOK ==
  /\ version \in [Versions -> Version]
  /\ name \in Texts \cup {Empty}
  /\ reply \in Texts \cup {NoReply}
  /\ pc \in [Calls -> Label]
  /\ job \in [Calls -> Job \cup {NoJob}]
  /\ answer \in Answer \cup {NoAnswer}
  /\ elsewhere \in 0..MaxElsewhere
  /\ \A c \in Calls :
       /\ job[c] = NoJob <=> pc[c] = "idle"
       /\ pc[c] \notin {"idle", "lookup"} => job[c].seen # NoToken
       /\ job[c] # NoJob /\ job[c].confirmed => job[c].shown # NoToken
       /\ pc[c] \in {"precheck", "notes", "phased", "enable", "submit"} =>
            job[c].seen.version \in Versions

(* The log says "executed" only of a call all of whose writes landed, and  *)
(* "rejected" or "blocked" only of one that wrote nothing: a failure half  *)
(* way through two requests is never a success (_guards.executing).        *)
LogIsTrue ==
  answer # NoAnswer =>
    /\ answer.outcome = "executed" => answer.whole
    /\ answer.outcome \in {"rejected", "blocked"} => ~answer.any

\* Session c's submission lands in this step.
Submits(c) == pc[c] = "submit" /\ version' # version /\ pc'[c] # pc[c]

(* What the human approved is the version that is written: neither copy    *)
(* nor a submission lands on another one, though the previewed version may *)
(* be live and the next one open by the time the call is confirmed.        *)
WritesLandOnTheVersionShown ==
  [][\A c \in Calls :
       pc[c] \in {"notes", "enable", "submit"} /\ pc'[c] # pc[c] =>
         \A v \in Versions : version'[v] # version[v] =>
           job[c].confirmed /\ v = job[c].shown.version]_vars

(* A version enters review by asc_submit_for_review only as the precheck   *)
(* of the confirm call found it: with a build and its copy, unless it was  *)
(* changed after that call looked, or the check was skipped on request.    *)
SubmittedAsPrechecked ==
  [][\A c \in Calls :
       Submits(c) /\ ~job[c].request.skip /\ job[c].fresh =>
         Submittable(job[c].seen.version)]_vars

(* With phased_release a version never enters review without its phased    *)
(* release, unless someone took it away after the call looked: "an         *)
(* unphased release reaches every user at once".                           *)
SubmittedPhased ==
  [][\A c \in Calls :
       Submits(c) /\ job[c].request.phased =>
         "phased" \in job[c].landed
         /\ (job[c].fresh => version[job[c].seen.version].phased)]_vars

(* A public reply that the confirm call found is replaced only when the    *)
(* preview said that it would be; one posted after that is beyond the tool.*)
ReplacementIsAnnounced ==
  [][\A c \in Calls :
       /\ pc[c] = "reply" /\ pc'[c] # pc[c]
       /\ reply # NoReply /\ reply' # reply
       /\ job[c].fresh
       => job[c].shown.replaces]_vars

=============================================================================
