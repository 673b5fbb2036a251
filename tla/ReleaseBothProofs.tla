-------------------------- MODULE ReleaseBothProofs --------------------------
(***************************************************************************)
(* Theorems about release_both, for any number of sessions, any version    *)
(* codes, builds and requests, and any changes others make.                *)
(***************************************************************************)
EXTENDS ReleaseBoth, TLAPS

\* What a session j at a label, with an edit e, knows once its preview was
\* shown, once the gate has let it pass, and once its Play leg is done.
Holds(j, label, e) ==
  /\ j.token # NoToken => j.shown # NoToken /\ j.token.build = j.shown.build
  /\ label \in {"play", "commit", "apple", "notes"} =>
       j.confirmed /\ j.token.build = j.build
  /\ label \in {"apple", "notes"} => j.play = "ok" /\ e.code \in spent

Knows(c) == job[c] # NoJob => Holds(job[c], pc[c], edit[c])

\* The inductive invariant.
Inv == TypeOK /\ AnswerIsTrue /\ \A c \in Calls : Knows(c)

\* Nobody is a token, a session, an edit or an answer.
LEMMA Nobody ==
  NoToken \notin Token /\ NoJob \notin Job /\ NoEdit \notin Edit /\ NoAnswer \notin Answer
BY NoneAssumption

\* The fields of a session.
LEMMA JobFields ==
  ASSUME NEW j \in Job
  PROVE  /\ j.request \in Request /\ j.request.bundle \in BOOLEAN /\ j.request.notes \in Text
         /\ j.confirmed \in BOOLEAN /\ j.code \in Code /\ j.build \in Build
         /\ j.token \in Token \cup {NoToken} /\ j.shown \in Token \cup {NoToken}
         /\ j.play \in LegStatus \cup {"none"} /\ j.found \in BOOLEAN
BY BothAssumption DEF Job, Request

LEMMA InitInv == Init => Inv
<1> SUFFICES ASSUME Init PROVE Inv
  OBVIOUS
<1> USE DEF Init
<1>1. TypeOK
  BY BothAssumption DEF TypeOK, Code, Label, Text, Build
<1>2. AnswerIsTrue /\ \A c \in Calls : Knows(c)
  BY DEF AnswerIsTrue, Knows
<1> QED BY <1>1, <1>2 DEF Inv

\* What any step does to the stores.
Kept ==
  /\ live' \in Code /\ newest' \in Build /\ testers' \in [1..MaxBuild -> Text]
  /\ spent \subseteq spent' /\ spent' \subseteq Codes

LEMMA UnchangedKept == Inv /\ UNCHANGED stores => Kept
BY DEF Inv, TypeOK, stores, Kept

\* A call that returns leaves nothing behind.
LEMMA ReturnKeeps ==
  ASSUME Inv, NEW c \in Calls, Return(c), AnswerIsTrue',
         answer' \in Answer \cup {NoAnswer},
         Kept, UNCHANGED <<disk, elsewhere>>
  PROVE  Inv'
<1>1. TypeOK'
  BY DEF Inv, TypeOK, Return, Goto, Label, Kept
<1>2. \A d \in Calls : Knows(d)'
  BY DEF Inv, TypeOK, Knows, Holds, Return, Goto, Kept
<1> QED BY <1>1, <1>2 DEF Inv

\* A call that goes on with a session of its own.
LEMMA GoOnKeeps ==
  ASSUME Inv, NEW c \in Calls, NEW label \in Label \ {"idle"}, NEW j \in Job,
         Goto(c, label), job' = [job EXCEPT ![c] = j],
         UNCHANGED <<stores, disk, answer, elsewhere>>,
         edit' \in [Calls -> Edit \cup {NoEdit}],
         \A d \in Calls \ {c} : edit'[d] = edit[d],
         edit'[c] # NoEdit <=> label \in {"commit", "apple", "notes"},
         label \in {"waiting", "play", "commit", "apple", "notes"} => j.token # NoToken,
         Holds(j, label, edit'[c])
  PROVE  Inv'
<1>1. TypeOK'
  BY Nobody DEF Inv, TypeOK, Goto, stores
<1>2. \A d \in Calls : Knows(d)'
  BY DEF Inv, TypeOK, Knows, Holds, Goto, stores
<1>3. AnswerIsTrue'
  BY DEF Inv, AnswerIsTrue
<1> QED BY <1>1, <1>2, <1>3 DEF Inv

\* A call that executed says what it did, and that is true.
LEMMA FinishKeeps ==
  ASSUME Inv, NEW c \in Calls, pc[c] # "idle",
         NEW play \in LegStatus, NEW apple \in LegStatus,
         NEW landed \in SUBSET {"play", "apple"}, Finish(c, play, apple, landed),
         play = "ok" <=> "play" \in landed,
         play \in {"ok", "failed"},
         play = "failed" => apple = "not-attempted",
         play = "ok" => apple # "not-attempted",
         apple \in {"skipped", "not-attempted"} => "apple" \notin landed,
         apple = "ok" => "apple" \in landed \/ job[c].request.notes = NoText,
         Kept, UNCHANGED <<disk, elsewhere>>
  PROVE  Inv'
<1>1. job[c] \in Job /\ edit[c] \in Edit \cup {NoEdit}
  BY DEF Inv, TypeOK
<1>2. answer' \in Answer
  BY <1>1, JobFields DEF Finish, Say, Answer, Code, Edit, LegStatus, Partial
<1>3. AnswerIsTrue'
  BY <1>2, Nobody DEF Finish, Say, AnswerIsTrue, Header, Partial, LegStatus
<1> QED BY <1>2, <1>3, ReturnKeeps DEF Finish

\* What the session of a call that is under way is made of.
LEMMA Session ==
  ASSUME Inv, NEW c \in Calls, pc[c] # "idle"
  PROVE  job[c] \in Job
BY DEF Inv, TypeOK

-----------------------------------------------------------------------------
(***************************************************************************)
(* The actions, up to the gate.                                            *)
(***************************************************************************)
LEMMA BeginInv == ASSUME Inv, NEW c \in Calls, Begin(c) PROVE Inv'
<1>1. PICK q \in Requests :
        job' = [job EXCEPT ![c] =
          [request |-> q, confirmed |-> FALSE, code |-> NoCode, build |-> 0,
           token |-> NoToken, shown |-> NoToken, play |-> "none", found |-> FALSE]]
  BY DEF Begin
<1> DEFINE j ==
      [request |-> q, confirmed |-> FALSE, code |-> NoCode, build |-> 0,
       token |-> NoToken, shown |-> NoToken, play |-> "none", found |-> FALSE]
<1>2. j \in Job
  BY BothAssumption DEF Job, Code, Build
<1>3. Holds(j, "resolve", edit[c])
  BY DEF Holds
<1>4. "resolve" \in Label \ {"idle"}
  BY DEF Label
<1> HIDE DEF j
<1>5. job' = [job EXCEPT ![c] = j]
  BY <1>1 DEF j
<1> QED BY <1>2, <1>3, <1>4, <1>5, GoOnKeeps DEF Begin, Inv, TypeOK

LEMMA ResolveInv == ASSUME Inv, NEW c \in Calls, Resolve(c) PROVE Inv'
<1> DEFINE code == Hashed(job[c].request)
           j == [job[c] EXCEPT !.code = code, !.build = newest]
           label == IF job[c].confirmed THEN "play" ELSE "rehearse"
<1>1. job[c] \in Job
  BY Session DEF Resolve
<1>2. code \in Code /\ newest \in Build
  BY DEF Inv, TypeOK, Hashed, Code
<1>3. j \in Job
  BY <1>1, <1>2, JobFields DEF Job
<1>4. job' = [job EXCEPT ![c] = j] /\ Goto(c, label)
  BY <1>1 DEF Resolve, Job
<1>5. job[c].confirmed => job[c].token = [code |-> code, build |-> newest]
  BY DEF Resolve, Operation
<1>6. label = "play" => j.token # NoToken
  BY <1>1, <1>2, <1>5, Nobody DEF Token, Job
<1>7. Holds(j, label, edit[c])
  <2>1. Holds(job[c], pc[c], edit[c])
    BY <1>1, Nobody DEF Inv, Knows
  <2>2. j.token = job[c].token /\ j.shown = job[c].shown /\ j.build = newest
        /\ j.confirmed = job[c].confirmed
    BY <1>1 DEF Job
  <2> HIDE DEF j, code
  <2> QED BY <1>5, <2>1, <2>2 DEF Holds
<1>8. label \in Label \ {"idle"}
  BY DEF Label
<1>9. edit[c] = NoEdit
  BY DEF Inv, TypeOK, Resolve
<1> HIDE DEF j
<1>10. label \in {"play", "rehearse"}
  OBVIOUS
<1> HIDE DEF label
<1> QED BY <1>3, <1>4, <1>6, <1>7, <1>8, <1>9, <1>10, GoOnKeeps DEF Resolve, Inv, TypeOK

LEMMA RehearseInv == ASSUME Inv, NEW c \in Calls, Rehearse(c) PROVE Inv'
<1> DEFINE shown == [code |-> Shipped(job[c].request), build |-> job[c].build]
           token == Operation(job[c].code, job[c].build)
           j == [job[c] EXCEPT !.shown = shown, !.token = token]
<1>1. job[c] \in Job
  BY Session DEF Rehearse
<1>2. shown \in Token /\ token \in Token /\ token.build = shown.build
  BY <1>1, JobFields DEF Inv, TypeOK, Shipped, Operation, Token, Code
<1>3. j \in Job
  BY <1>1, <1>2, JobFields DEF Job
<1>4. job' = [job EXCEPT ![c] = j]
  BY <1>1 DEF Rehearse, Job
<1>5. j.shown = shown /\ j.token = token
  BY <1>1 DEF Job
<1>6. edit[c] = NoEdit
  BY DEF Inv, TypeOK, Rehearse
<1> HIDE DEF j, shown, token
<1>7. Holds(j, "waiting", edit[c])
  BY <1>2, <1>5, Nobody DEF Holds
<1>8. "waiting" \in Label \ {"idle"}
  BY DEF Label
<1> QED BY <1>2, <1>3, <1>4, <1>5, <1>6, <1>7, <1>8, Nobody, GoOnKeeps DEF Rehearse, Inv, TypeOK

LEMMA ConfirmInv == ASSUME Inv, NEW c \in Calls, Confirm(c) PROVE Inv'
<1> DEFINE j == [job[c] EXCEPT !.confirmed = TRUE]
<1>1. job[c] \in Job
  BY Session DEF Confirm
<1>2. j \in Job /\ j.token = job[c].token /\ j.shown = job[c].shown
  BY <1>1, JobFields DEF Job
<1>3. job' = [job EXCEPT ![c] = j]
  BY <1>1 DEF Confirm, Job
<1>4. edit[c] = NoEdit
  BY DEF Inv, TypeOK, Confirm
<1> HIDE DEF j
<1>5. Holds(j, "resolve", edit[c])
  BY <1>1, <1>2, Nobody DEF Holds, Knows, Inv
<1>6. "resolve" \in Label \ {"idle"}
  BY DEF Label
<1> QED BY <1>2, <1>3, <1>4, <1>5, <1>6, GoOnKeeps DEF Confirm, Inv, TypeOK

\* Rejected, failed or abandoned: the call is over and nothing was sent.
LEMMA StopInv ==
  ASSUME Inv, NEW c \in Calls, Reject(c) \/ Fail(c) \/ Abandon(c) PROVE Inv'
<1>1. Return(c) /\ UNCHANGED <<stores, disk, answer, elsewhere>>
  BY DEF Reject, Fail, Abandon
<1>2. AnswerIsTrue' /\ answer' \in Answer \cup {NoAnswer}
  BY <1>1 DEF Inv, TypeOK, AnswerIsTrue
<1> QED BY <1>1, <1>2, UnchangedKept, ReturnKeeps

-----------------------------------------------------------------------------
(***************************************************************************)
(* The Play leg.                                                           *)
(***************************************************************************)
LEMMA OpenPlayInv == ASSUME Inv, NEW c \in Calls, OpenPlay(c) PROVE Inv'
<1> DEFINE j == job[c]
           e == [code |-> Shipped(j.request), fresh |-> TRUE]
<1>1. j \in Job /\ j # NoJob
  BY Session, Nobody DEF OpenPlay
<1>2. e \in Edit
  BY DEF OpenPlay, PlayTakes, Shipped, Inv, TypeOK, Code, Edit
<1>3. edit' = [edit EXCEPT ![c] = e] /\ Goto(c, "commit") /\ pc[c] = "play"
  BY DEF OpenPlay
<1>4. UNCHANGED <<stores, disk, job, answer, elsewhere>>
  BY DEF OpenPlay
<1>5. Holds(j, "commit", e) /\ j.token # NoToken
  BY <1>1, <1>3 DEF Holds, Knows, Inv, TypeOK
<1>6. "commit" \in Label \ {"idle"}
  BY DEF Label
<1> HIDE DEF e
<1>7. job' = [job EXCEPT ![c] = j]
  BY <1>4 DEF Inv, TypeOK
<1> HIDE DEF j
<1> QED BY <1>1, <1>2, <1>3, <1>4, <1>5, <1>6, <1>7, Nobody, GoOnKeeps DEF Inv, TypeOK

LEMMA PlayFailsInv ==
  ASSUME Inv, NEW c \in Calls, RefusePlay(c) \/ LosePlay(c) PROVE Inv'
<1>1. pc[c] # "idle" /\ PlayLegFails(c) /\ UNCHANGED <<stores, disk, elsewhere>>
  BY DEF RefusePlay, LosePlay
<1>2. Kept
  BY <1>1, UnchangedKept
<1> QED BY <1>1, <1>2, FinishKeeps DEF PlayLegFails, LegStatus

\* A step in which every open edit goes stale.
LEMMA OutdateFields ==
  ASSUME NEW es \in [Calls -> Edit \cup {NoEdit}]
  PROVE  /\ Outdate(es) \in [Calls -> Edit \cup {NoEdit}]
         /\ \A d \in Calls : /\ Outdate(es)[d] = NoEdit <=> es[d] = NoEdit
                             /\ es[d] # NoEdit => Outdate(es)[d].code = es[d].code
BY Nobody DEF Outdate, Edit

LEMMA CommitPlayInv == ASSUME Inv, NEW c \in Calls, CommitPlay(c) PROVE Inv'
<1>1. job[c] \in Job /\ job[c] # NoJob /\ edit[c] \in Edit /\ edit[c] # NoEdit
  BY Session, Nobody DEF CommitPlay, Inv, TypeOK
<1>2. Kept /\ UNCHANGED <<disk, elsewhere>>
  BY <1>1 DEF CommitPlay, Inv, TypeOK, Kept, Edit, Code
<1>3. CASE /\ job' = [job EXCEPT ![c].play = "ok"]
           /\ edit' = Outdate(edit)
           /\ Goto(c, "apple")
           /\ UNCHANGED answer
  <2> DEFINE j == [job[c] EXCEPT !.play = "ok"]
  <2>1. /\ j \in Job /\ j.token = job[c].token /\ j.shown = job[c].shown /\ j.play = "ok"
        /\ j.build = job[c].build /\ j.confirmed = job[c].confirmed
    BY <1>1, JobFields DEF Job, LegStatus
  <2>2. job' = [job EXCEPT ![c] = j]
    BY <1>1, <1>3 DEF Job
  <2>3. /\ edit' \in [Calls -> Edit \cup {NoEdit}]
        /\ \A d \in Calls : /\ edit'[d] = NoEdit <=> edit[d] = NoEdit
                            /\ edit[d] # NoEdit => edit'[d].code = edit[d].code
    BY <1>3, OutdateFields DEF Inv, TypeOK
  <2>4. edit[c].code \in spent' /\ pc[c] = "commit"
    BY DEF CommitPlay
  <2> HIDE DEF j
  <2>9. pc' = [pc EXCEPT ![c] = "apple"] /\ job[c].token # NoToken
    BY <1>3, <2>4 DEF Goto, Inv, TypeOK
  <2>5. TypeOK'
    <3>1. /\ live' \in Code /\ spent' \subseteq Codes /\ newest' \in Build
          /\ testers' \in [1..MaxBuild -> Text] /\ disk' \in Codes
          /\ answer' \in Answer \cup {NoAnswer} /\ elsewhere' \in 0..MaxElsewhere
      BY <1>2, <1>3 DEF Inv, TypeOK, Kept
    <3>2. /\ pc' \in [Calls -> Label] /\ job' \in [Calls -> Job \cup {NoJob}]
      BY <2>1, <2>2, <2>9 DEF Inv, TypeOK, Label
    <3>3. \A d \in Calls :
            /\ job'[d] = NoJob <=> pc'[d] = "idle"
            /\ edit'[d] # NoEdit <=> pc'[d] \in {"commit", "apple", "notes"}
            /\ pc'[d] \in {"waiting", "play", "commit", "apple", "notes"} => job'[d].token # NoToken
      BY <2>1, <2>2, <2>3, <2>4, <2>9, <1>1, Nobody DEF Inv, TypeOK
    <3> QED BY <3>1, <3>2, <3>3, <2>3 DEF TypeOK
  <2>6. Knows(c)'
    BY <1>1, <1>3, <2>1, <2>2, <2>3, <2>4 DEF Inv, TypeOK, Knows, Holds, Goto
  <2>7. \A d \in Calls \ {c} : Knows(d)'
    BY <1>2, <1>3, <2>2, <2>3 DEF Inv, TypeOK, Knows, Holds, Goto, Kept
  <2>8. AnswerIsTrue'
    BY <1>3 DEF Inv, AnswerIsTrue
  <2> QED BY <2>5, <2>6, <2>7, <2>8 DEF Inv
<1>4. CASE /\ Say(c, "failed", "not-attempted", {"play"})
           /\ Goto(c, "idle")
           /\ job' = [job EXCEPT ![c] = NoJob]
           /\ edit' = Outdate([edit EXCEPT ![c] = NoEdit])
  <2> DEFINE es == [edit EXCEPT ![c] = NoEdit]
  <2>1. answer' \in Answer
    BY <1>1, <1>4, JobFields DEF Say, Answer, Code, Edit, LegStatus, Partial
  <2>2. AnswerIsTrue'
    BY <1>4, <2>1, Nobody DEF Say, AnswerIsTrue, Header, Partial
  <2>3. es \in [Calls -> Edit \cup {NoEdit}]
    BY DEF Inv, TypeOK
  <2>4. /\ edit' \in [Calls -> Edit \cup {NoEdit}]
        /\ \A d \in Calls : /\ edit'[d] = NoEdit <=> es[d] = NoEdit
                            /\ es[d] # NoEdit => edit'[d].code = es[d].code
    <3> HIDE DEF es
    <3> QED BY <1>4, <2>3, OutdateFields DEF es
  <2>5. TypeOK'
    BY <1>2, <1>4, <2>1, <2>4 DEF Inv, TypeOK, Kept, Goto, Label
  <2>7. \A d \in Calls \ {c} : es[d] = edit[d] /\ job'[d] = job[d] /\ pc'[d] = pc[d]
    BY <1>4 DEF Inv, TypeOK, Goto
  <2>8. job'[c] = NoJob
    BY <1>4 DEF Inv, TypeOK
  <2> HIDE DEF es
  <2>6. \A d \in Calls : Knows(d)'
    BY <1>2, <2>4, <2>7, <2>8 DEF Inv, TypeOK, Knows, Holds, Kept
  <2> QED BY <2>2, <2>5, <2>6 DEF Inv
<1> QED BY <1>3, <1>4 DEF CommitPlay

-----------------------------------------------------------------------------
(***************************************************************************)
(* The Apple leg.                                                          *)
(***************************************************************************)
LEMMA AppleDoneKeeps ==
  ASSUME Inv, NEW c \in Calls, pc[c] \in {"apple", "notes"},
         NEW status \in {"ok", "failed", "skipped"}, NEW landed \in SUBSET {"apple"},
         AppleLeg(c, status, landed),
         status = "skipped" => "apple" \notin landed,
         status = "ok" => "apple" \in landed \/ job[c].request.notes = NoText,
         Kept, UNCHANGED <<disk, elsewhere>>
  PROVE  Inv'
<1>1. job[c].play = "ok"
  BY DEF Inv, TypeOK, Knows, Holds
<1> DEFINE all == {"play"} \cup landed
<1>2. all \in SUBSET {"play", "apple"} /\ "play" \in all /\ ("apple" \in all <=> "apple" \in landed)
  OBVIOUS
<1>3. Finish(c, "ok", status, all)
  BY <1>1 DEF AppleLeg
<1> HIDE DEF all
<1> QED BY <1>2, <1>3, FinishKeeps DEF LegStatus

LEMMA AppleEndsInv ==
  ASSUME Inv, NEW c \in Calls, SkipApple(c) \/ LeaveNotes(c) \/ FailApple(c) PROVE Inv'
<1>1. pc[c] \in {"apple", "notes"} /\ UNCHANGED <<stores, disk, elsewhere>>
  BY DEF SkipApple, LeaveNotes, FailApple
<1>2. Kept
  BY <1>1, UnchangedKept
<1>3. PICK status \in {"ok", "failed", "skipped"} :
        AppleLeg(c, status, {}) /\ (status = "ok" => job[c].request.notes = NoText)
  BY DEF SkipApple, LeaveNotes, FailApple
<1> QED BY <1>1, <1>2, <1>3, AppleDoneKeeps

LEMMA ReadNotesInv == ASSUME Inv, NEW c \in Calls, ReadNotes(c) PROVE Inv'
<1> DEFINE j == [job[c] EXCEPT !.found = testers[job[c].build] # NoText]
<1>1. job[c] \in Job /\ job[c] # NoJob
  BY Session, Nobody DEF ReadNotes
<1>2. /\ j \in Job /\ j.token = job[c].token /\ j.shown = job[c].shown
      /\ j.play = job[c].play /\ j.build = job[c].build /\ j.confirmed = job[c].confirmed
  BY <1>1, JobFields DEF Job
<1>3. job' = [job EXCEPT ![c] = j]
  BY <1>1 DEF ReadNotes, Job
<1>4. /\ Goto(c, "notes") /\ pc[c] = "apple"
      /\ UNCHANGED <<stores, disk, edit, answer, elsewhere>>
  BY DEF ReadNotes
<1> HIDE DEF j
<1>5. Holds(j, "notes", edit[c]) /\ j.token # NoToken /\ edit[c] # NoEdit
  BY <1>1, <1>2, <1>4 DEF Holds, Knows, Inv, TypeOK
<1>6. "notes" \in Label \ {"idle"}
  BY DEF Label
<1> QED BY <1>2, <1>3, <1>4, <1>5, <1>6, GoOnKeeps DEF Inv, TypeOK

LEMMA WriteNotesInv == ASSUME Inv, NEW c \in Calls, WriteNotes(c) PROVE Inv'
<1>1. job[c] \in Job /\ pc[c] = "notes"
  BY Session DEF WriteNotes
<1>2. PICK status \in NotesAnswers : AppleLeg(c, status, {"apple"})
  BY DEF WriteNotes
<1>3. Kept /\ UNCHANGED <<disk, elsewhere>>
  BY <1>1, JobFields DEF WriteNotes, Kept, Inv, TypeOK
<1> QED BY <1>1, <1>2, <1>3, AppleDoneKeeps DEF NotesAnswers

-----------------------------------------------------------------------------
(***************************************************************************)
(* Around the sessions, and every step.                                    *)
(***************************************************************************)
LEMMA OthersInv == Inv /\ Others => Inv'
<1> SUFFICES ASSUME Inv, Others PROVE Inv'
  OBVIOUS
<1>1. CASE ReleaseElsewhere
  <2>1. /\ edit' \in [Calls -> Edit \cup {NoEdit}]
        /\ \A d \in Calls : /\ edit'[d] = NoEdit <=> edit[d] = NoEdit
                            /\ edit[d] # NoEdit => edit'[d].code = edit[d].code
    BY <1>1, OutdateFields DEF ReleaseElsewhere, Inv, TypeOK
  <2>2. TypeOK'
    BY <1>1, <2>1, BothAssumption DEF ReleaseElsewhere, Elsewhere, Inv, TypeOK, Code
  <2>3. \A d \in Calls : Knows(d)'
    BY <1>1, <2>1 DEF ReleaseElsewhere, Inv, TypeOK, Knows, Holds
  <2> QED BY <1>1, <2>2, <2>3 DEF Inv, AnswerIsTrue, ReleaseElsewhere
<1>2. CASE ProcessBuild \/ Rebuild
  <2>1. TypeOK'
    BY <1>2, BothAssumption DEF ProcessBuild, Rebuild, stores, Inv, TypeOK, Build
  <2>2. \A d \in Calls : Knows(d)'
    BY <1>2 DEF ProcessBuild, Rebuild, stores, Inv, Knows, Holds
  <2> QED BY <1>2, <2>1, <2>2 DEF Inv, AnswerIsTrue, ProcessBuild, Rebuild
<1>3. CASE WriteNotesElsewhere
  <2>3. testers' \in [1..MaxBuild -> Text]
    BY <1>3 DEF WriteNotesElsewhere, Inv, TypeOK, Text
  <2>4. elsewhere' \in 0..MaxElsewhere
    BY <1>3, BothAssumption DEF WriteNotesElsewhere, Elsewhere, Inv, TypeOK
  <2>1. TypeOK'
    BY <1>3, <2>3, <2>4 DEF WriteNotesElsewhere, Inv, TypeOK
  <2>2. \A d \in Calls : Knows(d)'
    BY <1>3 DEF WriteNotesElsewhere, Inv, Knows, Holds
  <2> QED BY <1>3, <2>1, <2>2 DEF Inv, AnswerIsTrue, WriteNotesElsewhere
<1> QED BY <1>1, <1>2, <1>3 DEF Others

LEMMA CrashInv == Inv /\ Crash => Inv'
<1> SUFFICES ASSUME Inv, Crash PROVE Inv'
  OBVIOUS
<1>1. TypeOK'
  BY DEF Crash, Inv, TypeOK, Label, stores
<1>2. \A d \in Calls : Knows(d)'
  BY DEF Crash, Inv, TypeOK, Knows, Holds, stores
<1> QED BY <1>1, <1>2 DEF Inv, AnswerIsTrue, Crash

LEMMA NextInv == Inv /\ [Next]_vars => Inv'
<1> SUFFICES ASSUME Inv, [Next]_vars PROVE Inv'
  OBVIOUS
<1>1. ASSUME NEW c \in Calls, Step(c) PROVE Inv'
  BY <1>1, BeginInv, ResolveInv, RehearseInv, ConfirmInv, StopInv, OpenPlayInv, PlayFailsInv,
     CommitPlayInv, AppleEndsInv, ReadNotesInv, WriteNotesInv DEF Step
<1>2. CASE UNCHANGED vars
  BY <1>2 DEF Inv, TypeOK, AnswerIsTrue, Knows, Holds, vars, stores
<1> QED BY <1>1, <1>2, OthersInv, CrashInv DEF Next

LEMMA Invariance == Spec => []Inv
BY InitInv, NextInv, PTL DEF Spec

-----------------------------------------------------------------------------
(***************************************************************************)
(* The theorems.                                                           *)
(***************************************************************************)

\* Every state of release_both is well typed: among others, no session
\* confirms without a token, and an edit is open only while Play is written.
THEOREM TypeCorrect == Spec => []TypeOK
BY Invariance, PTL DEF Inv

\* The answer of release_both tells what happened on the two stores, whatever
\* was lost, refused or changed by others while it ran.
THEOREM AnswersAreTrue == Spec => []AnswerIsTrue
BY Invariance, PTL DEF Inv

\* A step that changes the notes while c is about to write them is either its
\* own write or leaves it where it is.
LEMMA OwnWrite ==
  ASSUME Inv, [Next]_vars, NEW c \in Calls, WritesToApple(c)
  PROVE  WriteNotes(c)
<1>1. Next
  BY DEF WritesToApple, vars, stores
<1>2. ASSUME NEW d \in Calls, Step(d) PROVE WriteNotes(d)
  <2>1. \/ WriteNotes(d)
        \/ UNCHANGED testers
    BY <1>2 DEF Step, Begin, Resolve, Reject, Fail, Rehearse, Confirm, Abandon, OpenPlay,
       RefusePlay, LosePlay, CommitPlay, SkipApple, LeaveNotes, ReadNotes, FailApple, stores
  <2> QED BY <2>1 DEF WritesToApple
<1>3. ~Others
  BY DEF Others, ReleaseElsewhere, ProcessBuild, WriteNotesElsewhere, Rebuild, WritesToApple
<1>4. ~Crash
  BY DEF Crash, WritesToApple, stores
<1>5. PICK d \in Calls : WriteNotes(d)
  BY <1>1, <1>2, <1>3, <1>4 DEF Next
<1>6. d = c
  BY <1>5 DEF WriteNotes, AppleLeg, Finish, Return, Goto, WritesToApple, Inv, TypeOK
<1> QED BY <1>5, <1>6

\* "Play first, then Apple" holds of every write to TestFlight.
THEOREM PlayComesFirst == Spec => AppleFollowsPlay
<1>1. ASSUME Inv, [Next]_vars, NEW c \in Calls, WritesToApple(c)
      PROVE  job[c].confirmed /\ job[c].play = "ok" /\ edit[c].code \in spent
  BY <1>1, Nobody DEF WritesToApple, Inv, TypeOK, Knows, Holds
<1>2. Inv /\ [Next]_vars =>
        [\A c \in Calls : WritesToApple(c) =>
           /\ job[c].confirmed
           /\ job[c].play = "ok"
           /\ edit[c].code \in spent]_vars
  BY <1>1
<1> QED BY <1>2, Invariance, PTL DEF Spec, AppleFollowsPlay

\* The notes reach the build the preview displayed, for any number of builds
\* processed between the two calls.
THEOREM NotesReachTheBuild == Spec => NotesReachTheBuildShown
<1>1. ASSUME Inv, [Next]_vars, NEW c \in Calls, WritesToApple(c), NEW b \in 1..MaxBuild,
             testers'[b] # testers[b]
      PROVE  b = job[c].shown.build
  <2>1. WriteNotes(c)
    BY <1>1, OwnWrite
  <2>2. b = job[c].build
    BY <1>1, <2>1 DEF WriteNotes, Inv, TypeOK
  <2>3. job[c].build = job[c].shown.build
    BY <1>1, Nobody DEF WritesToApple, Inv, TypeOK, Knows, Holds
  <2> QED BY <2>2, <2>3
<1>2. Inv /\ [Next]_vars =>
        [\A c \in Calls : WritesToApple(c) =>
           \A b \in 1..MaxBuild : testers'[b] # testers[b] => b = job[c].shown.build]_vars
  BY <1>1
<1> QED BY <1>2, Invariance, PTL DEF Spec, NotesReachTheBuildShown

=============================================================================
