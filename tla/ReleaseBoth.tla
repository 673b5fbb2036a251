---------------------------- MODULE ReleaseBoth ----------------------------
(***************************************************************************)
(* release_both of cross/tools.py: one version released to a Google Play   *)
(* track and to Apple TestFlight under one confirmation token.             *)
(*                                                                         *)
(* A session is one use of the tool.  Its preview call looks at the bundle *)
(* and at TestFlight, rehearses the Play half in an edit it throws away    *)
(* and returns a token; its confirm call looks again, and with the token   *)
(* runs the Play leg and then the Apple leg, which publishes the testers'  *)
(* notes of a build that is already in TestFlight.  Nothing is rolled      *)
(* back: the answer says what each leg did.  Sessions interleave with each *)
(* other, with other releases on either store, with rebuilds of the bundle *)
(* and with a crash of the server.                                         *)
(*                                                                         *)
(* The registry's pair, the track, the version and the rollout policy are  *)
(* arguments both legs share, so one of each is enough; PlayRelease models *)
(* the edit step by step, here its rehearsal is one step, its writes are   *)
(* one and its commit another.  The version code stands for the bundle.    *)
(* Play, TestFlight and the disk are external.                             *)
(***************************************************************************)
EXTENDS Naturals, FiniteSets

CONSTANTS
  Calls,         \* sessions that may be open at a time
  Codes,         \* version codes of bundles and releases
  Texts,         \* release notes
  Requests,      \* the arguments sessions are started with
  MaxBuild,      \* TestFlight builds of the version are numbered 1..MaxBuild
  MaxElsewhere,  \* bound on the changes others make
  NoCode, NoText, NoToken, NoJob, NoEdit, NoAnswer

Build == 0..MaxBuild      \* 0: TestFlight holds no build of the version
Code == Codes \cup {NoCode}
Text == Texts \cup {NoText}

Request == [bundle : BOOLEAN, notes : Text]

ASSUME BothAssumption ==
  /\ MaxBuild \in Nat
  /\ MaxElsewhere \in Nat
  /\ Requests \subseteq Request
  /\ NoCode \notin Codes
  /\ NoText \notin Texts

\* What an operation binds of the two stores: the bundle and the build.
Token == [code : Code, build : Build]

LegStatus == {"ok", "failed", "skipped", "not-attempted"}

\* What a call that executed says; landed is history.
Answer ==
  [play : LegStatus, apple : LegStatus, code : Code, notes : Text,
   lines : SUBSET {"executed", "failed"}, landed : SUBSET {"play", "apple"}]

\* code and build are those the current leg found, shown what the preview
\* displayed, found whether the notes have a localization to update.
Job ==
  [request : Requests, confirmed : BOOLEAN, code : Code, build : Build,
   token : Token \cup {NoToken}, shown : Token \cup {NoToken},
   play : LegStatus \cup {"none"}, found : BOOLEAN]

Edit == [code : Codes, fresh : BOOLEAN]

Label == {"idle", "resolve", "rehearse", "waiting", "play", "commit", "apple", "notes"}

ASSUME NoneAssumption ==
  /\ NoToken \notin Token
  /\ NoJob \notin Job
  /\ NoEdit \notin Edit
  /\ NoAnswer \notin Answer

VARIABLES
  live,       \* the version code the Play track serves
  spent,      \* the version codes Play has taken
  disk,       \* the version code in the bundle file
  newest,     \* the newest TestFlight build of the version
  testers,    \* each build's notes, NoText while it has no localization
  pc, job, edit,
  answer,     \* what the last call to execute said
  elsewhere   \* changes others have made

stores == <<live, spent, newest, testers>>
vars == <<stores, disk, pc, job, edit, answer, elsewhere>>

Goto(c, label) == pc' = [pc EXCEPT ![c] = label]

Mutant_Return(c) ==
  /\ Goto(c, "idle")
  /\ job' = [job EXCEPT ![c] = NoJob]
  /\ UNCHANGED edit

\* The call is over and only its answer is left.
Return(c) ==
  /\ Goto(c, "idle")
  /\ job' = [job EXCEPT ![c] = NoJob]
  /\ edit' = [edit EXCEPT ![c] = NoEdit]

-----------------------------------------------------------------------------
(***************************************************************************)
(* Both legs begin alike: the bundle is hashed and the newest build of the *)
(* version is looked up, and the operation binds the two.                  *)
(***************************************************************************)
Begin(c) ==
  /\ pc[c] = "idle"
  /\ \E q \in Requests :
       job' = [job EXCEPT ![c] =
         [request |-> q, confirmed |-> FALSE, code |-> NoCode, build |-> 0,
          token |-> NoToken, shown |-> NoToken, play |-> "none", found |-> FALSE]]
  /\ Goto(c, "resolve")
  /\ UNCHANGED <<stores, disk, edit, answer, elsewhere>>

Hashed(q) == IF q.bundle THEN disk ELSE NoCode

Mutant_Operation(code, build) == [code |-> code, build |-> 0]

Operation(code, build) == [code |-> code, build |-> build]

Resolve(c) ==
  LET code == Hashed(job[c].request) IN
  /\ pc[c] = "resolve"
  /\ job[c].confirmed => Operation(code, newest) = job[c].token
  /\ job' = [job EXCEPT ![c].code = code, ![c].build = newest]
  /\ Goto(c, IF job[c].confirmed THEN "play" ELSE "rehearse")
  /\ UNCHANGED <<stores, disk, edit, answer, elsewhere>>

\* The token is bound to another bundle or another build.
Reject(c) ==
  /\ pc[c] = "resolve"
  /\ job[c].confirmed
  /\ Operation(Hashed(job[c].request), newest) # job[c].token
  /\ Return(c)
  /\ UNCHANGED <<stores, disk, answer, elsewhere>>

\* A lookup fails, or the rehearsal does; nothing was sent for good.
Fail(c) ==
  /\ pc[c] \in {"resolve", "rehearse"}
  /\ Return(c)
  /\ UNCHANGED <<stores, disk, answer, elsewhere>>

-----------------------------------------------------------------------------
(***************************************************************************)
(* run_play: the bundle, opened again by its path, or else the build that  *)
(* the track serves, becomes the track's only release.                     *)
(***************************************************************************)
Shipped(q) == IF q.bundle THEN disk ELSE live

\* Play takes a version code once; without a bundle there must be a release.
PlayTakes(q) == IF q.bundle THEN disk \notin spent ELSE live # NoCode

\* run_play(dry_run=True) and the preview it fills in.
Rehearse(c) ==
  LET q == job[c].request IN
  /\ pc[c] = "rehearse"
  /\ PlayTakes(q)
  /\ job' = [job EXCEPT
       ![c].shown = [code |-> Shipped(q), build |-> job[c].build],
       ![c].token = Operation(job[c].code, job[c].build)]
  /\ Goto(c, "waiting")
  /\ UNCHANGED <<stores, disk, edit, answer, elsewhere>>

Confirm(c) ==
  /\ pc[c] = "waiting"
  /\ job' = [job EXCEPT ![c].confirmed = TRUE]
  /\ Goto(c, "resolve")
  /\ UNCHANGED <<stores, disk, edit, answer, elsewhere>>

Abandon(c) ==
  /\ pc[c] = "waiting"
  /\ Return(c)
  /\ UNCHANGED <<stores, disk, answer, elsewhere>>

-----------------------------------------------------------------------------
(***************************************************************************)
(* The answer: a partial release has a leg that failed and one that is ok, *)
(* and adds a line of its own to the audit log; the block around the legs  *)
(* closes as executed whatever they did.                                   *)
(***************************************************************************)
Partial(legs) == "failed" \in legs /\ "ok" \in legs

Header(a) ==
  IF {a.play, a.apple} \subseteq {"failed", "not-attempted"} THEN "nowhere"
  ELSE IF Partial({a.play, a.apple}) THEN "partial" ELSE "done"

Say(c, play, apple, landed) ==
  answer' =
    [play |-> play, apple |-> apple, notes |-> job[c].request.notes,
     code |-> IF edit[c] = NoEdit THEN NoCode ELSE edit[c].code,
     lines |-> {"executed"} \cup (IF Partial({play, apple}) THEN {"failed"} ELSE {}),
     landed |-> landed]

Finish(c, play, apple, landed) ==
  /\ Say(c, play, apple, landed)
  /\ Return(c)

Mutant_PlayLegFails(c) ==
  /\ job' = [job EXCEPT ![c].play = "failed"]
  /\ Goto(c, "apple")
  /\ edit' = [edit EXCEPT ![c] = [code |-> disk, fresh |-> FALSE]]
  /\ UNCHANGED answer

\* The Play leg raised: Apple is not attempted.
PlayLegFails(c) == Finish(c, "failed", "not-attempted", {})

\* edits.insert, the upload and the track update.
OpenPlay(c) ==
  LET q == job[c].request IN
  /\ pc[c] = "play"
  /\ PlayTakes(q)
  /\ edit' = [edit EXCEPT ![c] = [code |-> Shipped(q), fresh |-> TRUE]]
  /\ Goto(c, "commit")
  /\ UNCHANGED <<stores, disk, job, answer, elsewhere>>

\* Play refuses the bundle, or the track has no build to release again.
RefusePlay(c) ==
  /\ pc[c] = "play"
  /\ ~PlayTakes(job[c].request)
  /\ PlayLegFails(c)
  /\ UNCHANGED <<stores, disk, elsewhere>>

\* A request fails before the commit arrived, or the commit is refused.
LosePlay(c) ==
  /\ pc[c] \in {"play", "commit"}
  /\ PlayLegFails(c)
  /\ UNCHANGED <<stores, disk, elsewhere>>

Outdate(es) ==
  [c \in Calls |-> IF es[c] = NoEdit THEN NoEdit ELSE [es[c] EXCEPT !.fresh = FALSE]]

\* The commit lands; its answer arrives, or is lost and the leg has failed.
CommitPlay(c) ==
  /\ pc[c] = "commit"
  /\ edit[c].fresh
  /\ live' = edit[c].code
  /\ spent' = spent \cup {edit[c].code}
  /\ \/ /\ job' = [job EXCEPT ![c].play = "ok"]
        /\ edit' = Outdate(edit)
        /\ Goto(c, "apple")
        /\ UNCHANGED answer
     \/ /\ Say(c, "failed", "not-attempted", {"play"})
        /\ Goto(c, "idle")
        /\ job' = [job EXCEPT ![c] = NoJob]
        /\ edit' = Outdate([edit EXCEPT ![c] = NoEdit])
  /\ UNCHANGED <<newest, testers, disk, elsewhere>>

-----------------------------------------------------------------------------
(***************************************************************************)
(* _run_apple_leg: the notes of the build the operation names.             *)
(***************************************************************************)
Mutant_AppleLeg(c, status, landed) == Finish(c, job[c].play, "ok", {"play"} \cup landed)

AppleLeg(c, status, landed) == Finish(c, job[c].play, status, {"play"} \cup landed)

\* Neither asks Apple anything.
SkipApple(c) ==
  /\ pc[c] = "apple"
  /\ job[c].build = 0
  /\ AppleLeg(c, "skipped", {})
  /\ UNCHANGED <<stores, disk, elsewhere>>

LeaveNotes(c) ==
  /\ pc[c] = "apple"
  /\ job[c].build # 0
  /\ job[c].request.notes = NoText
  /\ AppleLeg(c, "ok", {})
  /\ UNCHANGED <<stores, disk, elsewhere>>

\* _apple_beta_localizations
ReadNotes(c) ==
  /\ pc[c] = "apple"
  /\ job[c].build # 0
  /\ job[c].request.notes # NoText
  /\ job' = [job EXCEPT ![c].found = testers[job[c].build] # NoText]
  /\ Goto(c, "notes")
  /\ UNCHANGED <<stores, disk, edit, answer, elsewhere>>

\* A localization found is updated; Apple refuses to create a second one.
AppleTakes(c) == job[c].found \/ testers[job[c].build] = NoText

\* The write lands and is answered, or its answer is lost; a create sent
\* again by the client then meets the localization it has made itself.
NotesAnswers == {"ok", "failed"}

WriteNotes(c) ==
  /\ pc[c] = "notes"
  /\ AppleTakes(c)
  /\ testers' = [testers EXCEPT ![job[c].build] = job[c].request.notes]
  /\ \E status \in NotesAnswers : AppleLeg(c, status, {"apple"})
  /\ UNCHANGED <<live, spent, newest, disk, elsewhere>>

\* The read or the write fails, or the create is refused.
FailApple(c) ==
  /\ \/ pc[c] = "notes"
     \/ pc[c] = "apple" /\ job[c].build # 0 /\ job[c].request.notes # NoText
  /\ AppleLeg(c, "failed", {})
  /\ UNCHANGED <<stores, disk, elsewhere>>

-----------------------------------------------------------------------------
(***************************************************************************)
(* Around the sessions.                                                    *)
(***************************************************************************)
Elsewhere ==
  /\ elsewhere < MaxElsewhere
  /\ elsewhere' = elsewhere + 1

\* Someone releases another build on the track.
ReleaseElsewhere ==
  /\ Elsewhere
  /\ live' \in Codes
  /\ spent' = spent \cup {live'}
  /\ edit' = Outdate(edit)
  /\ UNCHANGED <<newest, testers, disk, pc, job, answer>>

\* Apple finishes processing a newer build of the version.
ProcessBuild ==
  /\ newest < MaxBuild
  /\ newest' = newest + 1
  /\ UNCHANGED <<live, spent, testers, disk, pc, job, edit, answer, elsewhere>>

\* Someone writes the notes of the newest build.
WriteNotesElsewhere ==
  /\ Elsewhere
  /\ newest # 0
  /\ \E t \in Texts : testers' = [testers EXCEPT ![newest] = t]
  /\ UNCHANGED <<live, spent, newest, disk, pc, job, edit, answer>>

Rebuild ==
  /\ disk' \in Codes \ {disk}
  /\ UNCHANGED <<stores, pc, job, edit, answer, elsewhere>>

\* The server dies: calls in progress are gone, tokens handed out are not.
Crash ==
  LET Dead(c) == pc[c] \notin {"idle", "waiting"} IN
  /\ \E c \in Calls : Dead(c)
  /\ pc' = [c \in Calls |-> IF Dead(c) THEN "idle" ELSE pc[c]]
  /\ job' = [c \in Calls |-> IF Dead(c) THEN NoJob ELSE job[c]]
  /\ edit' = [c \in Calls |-> NoEdit]
  /\ UNCHANGED <<stores, disk, answer, elsewhere>>

Init ==
  /\ live \in Code
  /\ spent = {live} \ {NoCode}
  /\ disk \in Codes
  /\ newest \in {0, 1} \cap Build
  /\ testers = [b \in 1..MaxBuild |-> NoText]
  /\ pc = [c \in Calls |-> "idle"]
  /\ job = [c \in Calls |-> NoJob]
  /\ edit = [c \in Calls |-> NoEdit]
  /\ answer = NoAnswer
  /\ elsewhere = 0

Step(c) ==
  \/ Begin(c) \/ Resolve(c) \/ Reject(c) \/ Fail(c) \/ Rehearse(c)
  \/ Confirm(c) \/ Abandon(c)
  \/ OpenPlay(c) \/ RefusePlay(c) \/ LosePlay(c) \/ CommitPlay(c)
  \/ SkipApple(c) \/ LeaveNotes(c) \/ ReadNotes(c) \/ WriteNotes(c) \/ FailApple(c)

Others == ReleaseElsewhere \/ ProcessBuild \/ WriteNotesElsewhere \/ Rebuild

Next == (\E c \in Calls : Step(c)) \/ Others \/ Crash

Spec == Init /\ [][Next]_vars

-----------------------------------------------------------------------------
(***************************************************************************)
(* Properties.                                                             *)
(***************************************************************************)

(* The variables keep their types; an edit is open while the Play leg      *)
(* commits and remembered until the answer is given (release_both).        *)
TypeOK ==
  /\ live \in Code
  /\ spent \subseteq Codes
  /\ disk \in Codes
  /\ newest \in Build
  /\ testers \in [1..MaxBuild -> Text]
  /\ pc \in [Calls -> Label]
  /\ job \in [Calls -> Job \cup {NoJob}]
  /\ edit \in [Calls -> Edit \cup {NoEdit}]
  /\ answer \in Answer \cup {NoAnswer}
  /\ elsewhere \in 0..MaxElsewhere
  /\ \A c \in Calls :
       /\ job[c] = NoJob <=> pc[c] = "idle"
       /\ edit[c] # NoEdit <=> pc[c] \in {"commit", "apple", "notes"}
       /\ pc[c] \in {"waiting", "play", "commit", "apple", "notes"} => job[c].token # NoToken

\* Session c writes to TestFlight in this step.
WritesToApple(c) ==
  /\ pc[c] = "notes"
  /\ pc'[c] # pc[c]
  /\ testers' # testers

(* The testers of a build are told of a release only when Play has it: the *)
(* Apple leg writes after the commit of its own Play leg has landed and    *)
(* was answered, and the code it released is one Play has taken (the       *)
(* execution order of release_both, "Play first, then Apple").             *)
AppleFollowsPlay ==
  [][\A c \in Calls :
       WritesToApple(c) =>
         /\ job[c].confirmed
         /\ job[c].play = "ok"
         /\ edit[c].code \in spent]_vars

(* The notes are published on the TestFlight build the preview displayed,  *)
(* though a newer one of the same version may have been processed between  *)
(* the two calls (the operation binds the build).                          *)
NotesReachTheBuildShown ==
  [][\A c \in Calls :
       WritesToApple(c) =>
         \A b \in 1..MaxBuild : testers'[b] # testers[b] => b = job[c].shown.build]_vars

(* The answer never claims a half that did not land, "done" leaves out no  *)
(* half it was asked for but one it calls skipped, a half it calls skipped *)
(* or not attempted did not happen, a release that landed nowhere left the *)
(* testers alone, and a Play half that landed beside an Apple half that    *)
(* failed is a failure in the audit log (_render_release_result).          *)
AnswerIsTrue ==
  answer # NoAnswer =>
    /\ answer.play = "ok" => "play" \in answer.landed
    /\ answer.apple \in {"skipped", "not-attempted"} => "apple" \notin answer.landed
    /\ Header(answer) = "done" =>
         /\ "play" \in answer.landed
         /\ "apple" \in answer.landed \/ answer.apple = "skipped" \/ answer.notes = NoText
    /\ Header(answer) = "nowhere" => "apple" \notin answer.landed
    /\ "play" \in answer.landed /\ answer.apple = "failed" => "failed" \in answer.lines

=============================================================================
