------------------------- MODULE AppStoreWritesProofs -------------------------
(***************************************************************************)
(* Theorems about the tools that write to the App Store, for any number of *)
(* sessions, versions, texts and requests, and any edits others make.      *)
(***************************************************************************)
EXTENDS AppStoreWrites, FiniteSetTheorems, WellFoundedInduction, TLAPS

\* The labels at which a version is known.
AtVersion == {"precheck", "notes", "phased", "enable", "submit"}

\* What has landed of a session j that stands at a label.
Progress(j, label) ==
  LET q == j.request IN
  /\ label \in {"lookup", "precheck", "waiting"} => j.landed = {}
  /\ label \in {"reply", "play_reply"} => q.tool = label /\ j.landed = {}
  /\ label = "precheck" => q.tool = "submit"
  /\ label = "notes" => q.tool = "metadata" /\ q.notes # Unset /\ j.landed = {}
  /\ label = "name" =>
       /\ q.tool = "metadata" /\ q.name # Unset
       /\ j.landed = IF q.notes # Unset THEN {"notes"} ELSE {}
  /\ label \in {"phased", "enable"} => q.tool = "submit" /\ q.phased /\ j.landed = {}
  /\ label = "submit" =>
       q.tool = "submit" /\ j.landed = IF q.phased THEN {"phased"} ELSE {}

\* What it was told, and what it has been allowed.
Allowed(j, label) ==
  /\ j.token # NoToken => j.token = j.shown
  /\ j.confirmed => j.token # NoToken
  /\ label = "waiting" => j.token # NoToken
  /\ label \notin {"idle", "lookup"} => j.seen # NoToken
  /\ label \in AtVersion => j.seen.version \in Versions
  /\ label \in Writing => j.confirmed /\ j.seen = j.shown

\* What it has seen is so while nothing changed the app after it looked.
Timely(j, label, vs, r) ==
  LET v == j.seen.version IN
  j.fresh =>
    /\ label = "reply" => (j.seen.replaces <=> r # NoReply)
    /\ label \in {"phased", "enable", "submit"} /\ ~j.request.skip =>
         vs[v].state \in Editable /\ vs[v].build /\ vs[v].notes # Empty
    /\ label = "submit" /\ j.request.phased => vs[v].phased

Fits(j, label) == Progress(j, label) /\ Allowed(j, label)

Knows(c) ==
  job[c] # NoJob => Fits(job[c], pc[c]) /\ Timely(job[c], pc[c], version, reply)

\* The inductive invariant.
Inv == TypeOK /\ LogIsTrue /\ \A c \in Calls : Knows(c)

\* Nobody is a token, a session or an answer.
LEMMA Nobody == NoToken \notin Token /\ NoJob \notin Job /\ NoAnswer \notin Answer
BY NoneAssumption

\* The fields of a session.
LEMMA JobFields ==
  ASSUME NEW j \in Job
  PROVE  /\ j.request \in Request /\ j.request \in Requests
         /\ j.request.tool \in Tool /\ j.request.phased \in BOOLEAN
         /\ j.request.skip \in BOOLEAN
         /\ j.confirmed \in BOOLEAN
         /\ j.token \in Token \cup {NoToken} /\ j.seen \in Token \cup {NoToken}
         /\ j.shown \in Token \cup {NoToken} /\ j.fresh \in BOOLEAN
         /\ j.landed \in SUBSET Part
BY WritesAssumption DEF Job, Request

\* What each tool sets out to write.
LEMMA WantedIs ==
  ASSUME NEW q
  PROVE  /\ q.tool \in {"reply", "play_reply"} => Wanted(q) = {q.tool}
         /\ q.tool = "metadata" =>
              Wanted(q) = (IF q.notes # Unset THEN {"notes"} ELSE {})
                            \cup (IF q.name # Unset THEN {"name"} ELSE {})
         /\ q.tool = "submit" =>
              Wanted(q) = {"submission"} \cup (IF q.phased THEN {"phased"} ELSE {})
<1>1. CASE q.tool \in {"reply", "play_reply"}
  BY <1>1, Zenon DEF Wanted
<1>2. CASE q.tool = "metadata"
  BY <1>2, Zenon DEF Wanted
<1>3. CASE q.tool = "submit"
  BY <1>3, Zenon DEF Wanted
<1>4. CASE q.tool \notin Tool
  BY <1>4 DEF Tool
<1> QED BY <1>1, <1>2, <1>3, <1>4 DEF Tool

\* Where each tool begins to write.
LEMMA FirstWriteIs ==
  ASSUME NEW q, q.tool \in Tool
  PROVE  /\ FirstWrite(q) \in {"reply", "play_reply", "notes", "name", "phased", "submit"}
         /\ q.tool \in {"reply", "play_reply"} => FirstWrite(q) = q.tool
         /\ q.tool = "metadata" =>
              FirstWrite(q) = IF q.notes # Unset THEN "notes" ELSE "name"
         /\ q.tool = "submit" => FirstWrite(q) = IF q.phased THEN "phased" ELSE "submit"
<1>1. CASE q.tool \in {"reply", "play_reply"}
  BY <1>1, Zenon DEF FirstWrite
<1>2. CASE q.tool = "metadata"
  BY <1>2, Zenon DEF FirstWrite
<1>3. CASE q.tool = "submit"
  BY <1>3, Zenon DEF FirstWrite
<1> QED BY <1>1, <1>2, <1>3 DEF Tool

\* Among the open versions there is a newest one.
LEMMA EditableVersionType ==
  ASSUME NEW vs PROVE EditableVersion(vs) \in Versions \cup {NoVersion}
<1> DEFINE open == {v \in Versions : vs[v].state \in Editable}
           From(v) == {w \in open : v <= w}
           tails == {From(v) : v \in open}
<1> SUFFICES ASSUME open # {} PROVE \E v \in open : \A w \in open : w <= v
  BY DEF EditableVersion
<1>1. IsFiniteSet(Versions)
  BY FS_Interval, WritesAssumption DEF Versions
<1>2. tails \subseteq FiniteSubsetsOf(Versions) /\ tails # {}
  <2>1. ASSUME NEW v \in open PROVE From(v) \in FiniteSubsetsOf(Versions)
    <3>1. From(v) \in SUBSET Versions
      OBVIOUS
    <3> QED BY <1>1, <3>1, FS_Subset DEF FiniteSubsetsOf
  <2> QED BY <2>1
<1>3. PICK t \in tails : \A u \in tails : <<u, t>> \notin StrictSubsetOrdering(Versions)
  BY <1>2, FS_StrictSubsetOrderingWellFounded, WFMin
<1>4. PICK v \in open : t = From(v)
  OBVIOUS
<1>5. ASSUME NEW w \in open, v < w PROVE FALSE
  <2>1. From(w) \subseteq t /\ v \in t /\ v \notin From(w)
    BY <1>4, <1>5, WritesAssumption DEF Versions
  <2>2. From(w) \in SUBSET Versions /\ t \in SUBSET Versions /\ From(w) \in tails
    BY <1>4
  <2> QED BY <1>3, <2>1, <2>2 DEF StrictSubsetOrdering
<1> QED BY <1>5 DEF Versions

LEMMA InitInv == Init => Inv
<1> SUFFICES ASSUME Init PROVE Inv
  OBVIOUS
<1> USE DEF Init
<1>1. TypeOK
  BY WritesAssumption DEF TypeOK, Version, State, Label
<1>2. LogIsTrue /\ \A c \in Calls : Knows(c)
  BY DEF LogIsTrue, Knows
<1> QED BY <1>1, <1>2 DEF Inv

-----------------------------------------------------------------------------
(***************************************************************************)
(* What a step can do to a session.                                        *)
(***************************************************************************)
\* The stores and the edits of others keep their types.
Kept ==
  /\ version' \in [Versions -> Version] /\ name' \in Texts \cup {Empty}
  /\ reply' \in Texts \cup {NoReply} /\ elsewhere' \in 0..MaxElsewhere

LEMMA UnchangedKept == Inv /\ UNCHANGED <<store, elsewhere>> => Kept
BY DEF Inv, TypeOK, store, Kept

\* A session that stands somewhere fits its place.
LEMMA Here ==
  ASSUME Inv, NEW c \in Calls, pc[c] # "idle"
  PROVE  /\ job[c] \in Job /\ job[c] # NoJob
         /\ Fits(job[c], pc[c]) /\ Timely(job[c], pc[c], version, reply)
<1>1. job[c] \in Job /\ job[c] # NoJob
  BY Nobody DEF Inv, TypeOK
<1> QED BY <1>1 DEF Inv, Knows

\* Every other session keeps what it knows when the app stays as it is, and
\* knows that it may have changed otherwise.
Apart(c) ==
  \A d \in Calls \ {c} :
    /\ pc'[d] = pc[d]
    /\ \/ job'[d] = job[d] /\ UNCHANGED store
       \/ job[d] = NoJob /\ job'[d] = NoJob
       \/ job[d] # NoJob /\ job'[d] = [job[d] EXCEPT !.fresh = FALSE]

LEMMA AgedFits ==
  ASSUME NEW j \in Job, NEW label, Fits(j, label), NEW vs, NEW r
  PROVE  LET k == [j EXCEPT !.fresh = FALSE] IN
         k \in Job /\ k # NoJob /\ Fits(k, label) /\ Timely(k, label, vs, r)
<1> DEFINE k == [j EXCEPT !.fresh = FALSE]
<1>1. /\ k \in Job /\ k.fresh = FALSE /\ k.request = j.request /\ k.landed = j.landed
      /\ k.token = j.token /\ k.shown = j.shown /\ k.seen = j.seen
      /\ k.confirmed = j.confirmed
  BY JobFields DEF Job
<1> HIDE DEF k
<1>2. Fits(k, label)
  BY <1>1 DEF Fits, Progress, Allowed
<1>3. Timely(k, label, vs, r)
  BY <1>1 DEF Timely
<1> QED BY <1>1, <1>2, <1>3, Nobody DEF k

LEMMA OtherKeeps ==
  ASSUME Inv, NEW c, Apart(c), NEW d \in Calls \ {c}
  PROVE  /\ job'[d] \in Job \cup {NoJob}
         /\ job'[d] = NoJob <=> pc'[d] = "idle"
         /\ Knows(d)'
         /\ job'[d] # NoJob => Fits(job'[d], pc'[d])
<1>1. CASE job'[d] = job[d] /\ UNCHANGED store
  BY <1>1 DEF Apart, Inv, TypeOK, Knows, store
<1>2. CASE job[d] = NoJob /\ job'[d] = NoJob
  BY <1>2 DEF Apart, Inv, TypeOK, Knows
<1>3. CASE job[d] # NoJob /\ job'[d] = [job[d] EXCEPT !.fresh = FALSE]
  <2>1. job[d] \in Job /\ pc[d] # "idle" /\ Fits(job[d], pc[d]) /\ pc'[d] = pc[d]
    BY <1>3 DEF Apart, Inv, TypeOK, Knows
  <2>2. /\ job'[d] \in Job /\ job'[d] # NoJob /\ Fits(job'[d], pc[d])
        /\ Timely(job'[d], pc[d], version', reply')
    BY <1>3, <2>1, AgedFits
  <2> QED BY <2>1, <2>2 DEF Knows
<1> QED BY <1>1, <1>2, <1>3 DEF Apart

\* A step of c that leaves it with the session j at a label, or with none.
LEMMA StepKeeps ==
  ASSUME Inv, Kept, NEW c \in Calls, Apart(c),
         pc' \in [Calls -> Label], DOMAIN job' = Calls, job' = [d \in Calls |-> job'[d]],
         answer' \in Answer \cup {NoAnswer}, LogIsTrue',
         \/ job'[c] = NoJob /\ pc'[c] = "idle"
         \/ /\ job'[c] \in Job /\ pc'[c] # "idle" /\ Fits(job'[c], pc'[c])
            /\ Timely(job'[c], pc'[c], version', reply')
  PROVE  Inv'
<1>1. \A d \in Calls :
        /\ job'[d] \in Job \cup {NoJob}
        /\ job'[d] = NoJob <=> pc'[d] = "idle"
        /\ Knows(d)'
        /\ job'[d] # NoJob => Fits(job'[d], pc'[d])
  <2>1. /\ job'[c] \in Job \cup {NoJob}
        /\ job'[c] = NoJob <=> pc'[c] = "idle"
        /\ Knows(c)'
        /\ job'[c] # NoJob => Fits(job'[c], pc'[c])
    BY Nobody DEF Knows
  <2> QED BY <2>1, OtherKeeps
<1>2. \A d \in Calls :
        /\ pc'[d] \notin {"idle", "lookup"} => job'[d].seen # NoToken
        /\ job'[d] # NoJob /\ job'[d].confirmed => job'[d].shown # NoToken
        /\ pc'[d] \in {"precheck", "notes", "phased", "enable", "submit"} =>
             job'[d].seen.version \in Versions
  BY <1>1 DEF Fits, Allowed, AtVersion
<1>3. TypeOK'
  BY <1>1, <1>2 DEF TypeOK, Kept
<1> QED BY <1>1, <1>3 DEF Inv

\* A call that returns and leaves the app alone.
LEMMA ReturnKeeps ==
  ASSUME Inv, NEW c \in Calls, Goto(c, "idle"), job' = [job EXCEPT ![c] = NoJob],
         answer' \in Answer \cup {NoAnswer}, LogIsTrue', UNCHANGED <<store, elsewhere>>
  PROVE  Inv'
<1>1. Apart(c) /\ job'[c] = NoJob /\ pc'[c] = "idle" /\ pc' \in [Calls -> Label]
  BY DEF Inv, TypeOK, Goto, Apart, Label
<1>2. DOMAIN job' = Calls /\ job' = [d \in Calls |-> job'[d]]
  BY DEF Inv, TypeOK
<1> QED BY <1>1, <1>2, UnchangedKept, StepKeeps

\* A call that goes on and leaves the app alone.
LEMMA GoOnKeeps ==
  ASSUME Inv, NEW c \in Calls, NEW label \in Label \ {"idle"}, NEW j \in Job,
         Goto(c, label), job' = [job EXCEPT ![c] = j],
         UNCHANGED <<store, answer, elsewhere>>,
         Fits(j, label), Timely(j, label, version, reply)
  PROVE  Inv'
<1>1. /\ Apart(c) /\ job'[c] = j /\ pc'[c] = label /\ pc' \in [Calls -> Label]
      /\ version' = version /\ reply' = reply
  BY DEF Inv, TypeOK, Goto, Apart, store
<1>2. DOMAIN job' = Calls /\ job' = [d \in Calls |-> job'[d]]
  BY DEF Inv, TypeOK
<1>3. LogIsTrue' /\ answer' \in Answer \cup {NoAnswer}
  BY DEF Inv, TypeOK, LogIsTrue
<1> QED BY <1>1, <1>2, <1>3, UnchangedKept, StepKeeps

-----------------------------------------------------------------------------
(***************************************************************************)
(* The legs up to the gate.                                                *)
(***************************************************************************)
LEMMA TellIsTrue ==
  ASSUME NEW c \in Calls, NEW outcome \in {"executed", "failed", "blocked", "rejected"},
         NEW landed, Tell(c, outcome, landed),
         outcome = "executed" => landed = Wanted(job[c].request),
         outcome \in {"blocked", "rejected"} => landed = {}
  PROVE  answer' \in Answer /\ LogIsTrue'
BY DEF Tell, Answer, LogIsTrue

LEMMA GateKeeps ==
  ASSUME Inv, NEW c \in Calls, pc[c] \in {"lookup", "precheck"},
         NEW seen \in Token, NEW fresh \in BOOLEAN, Gate(c, seen, fresh),
         UNCHANGED <<store, elsewhere>>,
         job[c].request.tool \in {"metadata", "submit"} => seen.version \in Versions,
         fresh /\ job[c].request.tool = "reply" => (seen.replaces <=> reply # NoReply),
         fresh /\ job[c].request.tool = "submit" /\ ~job[c].request.skip =>
           Submittable(seen.version)
  PROVE  Inv'
<1> DEFINE q == job[c].request
<1>1. job[c] \in Job /\ job[c] # NoJob /\ Fits(job[c], pc[c])
  BY Here
<1>2. job[c].landed = {} /\ seen # NoToken
  BY <1>1, Nobody DEF Fits, Progress
<1>3. CASE ~job[c].confirmed
  <2> DEFINE j == [job[c] EXCEPT !.seen = seen, !.shown = seen, !.token = Bound(seen),
                                 !.fresh = FALSE]
  <2>1. /\ job' = [job EXCEPT ![c] = j] /\ Goto(c, "waiting") /\ UNCHANGED answer
    BY <1>1, <1>3 DEF Gate, Job
  <2>2. /\ j \in Job /\ j.landed = {} /\ j.token = seen /\ j.shown = seen /\ j.seen = seen
        /\ j.confirmed = FALSE /\ j.fresh = FALSE
    BY <1>1, <1>2, <1>3, JobFields DEF Job, Bound
  <2> HIDE DEF j
  <2>3. Fits(j, "waiting") /\ Timely(j, "waiting", version, reply)
    BY <1>2, <2>2 DEF Fits, Progress, Allowed, Timely, AtVersion, Writing
  <2> QED BY <2>1, <2>2, <2>3, GoOnKeeps DEF Label
<1>4. CASE job[c].confirmed /\ job[c].token = Bound(seen)
  <2> DEFINE j == [job[c] EXCEPT !.seen = seen, !.fresh = fresh]
             label == FirstWrite(q)
  <2>1. /\ job' = [job EXCEPT ![c] = j] /\ Goto(c, label) /\ UNCHANGED answer
    BY <1>1, <1>4 DEF Gate, Job
  <2>2. /\ j \in Job /\ j.landed = {} /\ j.token = seen /\ j.shown = seen /\ j.seen = seen
        /\ j.confirmed = TRUE /\ j.fresh = fresh /\ j.request = q
    BY <1>1, <1>2, <1>4, JobFields DEF Job, Bound, Fits, Allowed
  <2>3. /\ q.tool \in Tool /\ q \in Requests
        /\ q.tool = "metadata" => q.notes # Unset \/ q.name # Unset
    BY <1>1, JobFields, WritesAssumption
  <2>4. /\ label \in {"reply", "play_reply", "notes", "name", "phased", "submit"}
        /\ label \in {"reply", "play_reply"} => q.tool = label
        /\ label = "notes" => q.tool = "metadata" /\ q.notes # Unset
        /\ label = "name" => q.tool = "metadata" /\ q.notes = Unset /\ q.name # Unset
        /\ label = "phased" => q.tool = "submit" /\ q.phased
        /\ label = "submit" => q.tool = "submit" /\ ~q.phased
    <3> HIDE DEF q
    <3> QED BY <2>3, FirstWriteIs DEF Tool
  <2> HIDE DEF j, label
  <2>5. Progress(j, label)
    BY <2>2, <2>4 DEF Progress
  <2>6. Allowed(j, label)
    BY <1>2, <2>2, <2>4 DEF Allowed, AtVersion
  <2>7. Timely(j, label, version, reply)
    BY <2>2, <2>4 DEF Timely, Submittable
  <2> QED BY <2>1, <2>2, <2>4, <2>5, <2>6, <2>7, GoOnKeeps DEF Label, Fits
<1>5. CASE job[c].confirmed /\ job[c].token # Bound(seen)
  <2>1. Return(c, "rejected", {})
    BY <1>5 DEF Gate
  <2>2. answer' \in Answer /\ LogIsTrue'
    BY <2>1, TellIsTrue DEF Return
  <2> QED BY <2>1, <2>2, ReturnKeeps DEF Return
<1>6. job[c].confirmed \in BOOLEAN
  BY <1>1, JobFields
<1> QED BY <1>3, <1>4, <1>5, <1>6

LEMMA LookupInv ==
  ASSUME Inv, NEW c \in Calls, UNCHANGED elsewhere,
         LookupReply(c) \/ LookupPlayReply(c) \/ LookupCopy(c) \/ LookupSubmission(c)
  PROVE  Inv'
<1>1. pc[c] = "lookup" /\ UNCHANGED <<store, elsewhere>>
  BY DEF LookupReply, LookupPlayReply, LookupCopy, LookupSubmission, LooksUp
<1>2. SeenReview \in Token /\ SeenNothing \in Token /\ SeenVersion \in Token
  BY EditableVersionType DEF SeenReview, SeenNothing, SeenVersion, Token
<1>3. SeenVersion.version \in Versions \/ SeenVersion.version = NoVersion
  BY EditableVersionType DEF SeenVersion
<1>4. CASE LookupReply(c)
  BY <1>1, <1>2, <1>4, GateKeeps DEF LookupReply, LooksUp, SeenReview
<1>5. CASE LookupPlayReply(c)
  BY <1>1, <1>2, <1>5, GateKeeps DEF LookupPlayReply, LooksUp
<1>6. CASE LookupCopy(c)
  BY <1>1, <1>2, <1>3, <1>6, GateKeeps DEF LookupCopy, LooksUp
<1>7. CASE LookupSubmission(c)
  <2>1. /\ job[c].request.tool = "submit" /\ SeenVersion.version \in Versions
    BY <1>3, <1>7 DEF LookupSubmission, LooksUp
  <2>2. CASE ~NeedsPrecheck(c)
    BY <1>1, <1>2, <1>7, <2>1, <2>2, GateKeeps DEF LookupSubmission, NeedsPrecheck
  <2>3. CASE NeedsPrecheck(c)
    <3> DEFINE j == [job[c] EXCEPT !.seen = SeenVersion, !.fresh = TRUE]
    <3>1. job[c] \in Job /\ job[c] # NoJob /\ Fits(job[c], "lookup")
      BY <1>1, Here
    <3>2. job' = [job EXCEPT ![c] = j] /\ Goto(c, "precheck") /\ UNCHANGED answer
      BY <1>7, <2>3, <3>1 DEF LookupSubmission, Job
    <3>3. /\ j \in Job /\ j.seen = SeenVersion /\ j.request = job[c].request
          /\ j.landed = job[c].landed /\ j.token = job[c].token /\ j.shown = job[c].shown
          /\ j.confirmed = job[c].confirmed
      BY <1>2, <3>1, JobFields DEF Job
    <3> HIDE DEF j
    <3>4. Fits(j, "precheck") /\ Timely(j, "precheck", version, reply)
      BY <1>2, <2>1, <3>1, <3>3, Nobody DEF Fits, Progress, Allowed, Timely, AtVersion, Writing
    <3> QED BY <1>1, <3>2, <3>3, <3>4, GoOnKeeps DEF Label
  <2> QED BY <2>2, <2>3
<1> QED BY <1>4, <1>5, <1>6, <1>7

LEMMA PrecheckInv ==
  ASSUME Inv, NEW c \in Calls, UNCHANGED elsewhere, Precheck(c) PROVE Inv'
<1>1. pc[c] = "precheck" /\ UNCHANGED <<store, elsewhere>>
  BY DEF Precheck
<1>2. /\ job[c] \in Job /\ job[c] # NoJob /\ job[c].request.tool = "submit"
      /\ job[c].seen \in Token /\ job[c].seen.version \in Versions /\ job[c].fresh \in BOOLEAN
  BY <1>1, Here, JobFields DEF Fits, Progress, Allowed, AtVersion
<1>3. CASE Submittable(job[c].seen.version)
  BY <1>1, <1>2, <1>3, GateKeeps DEF Precheck
<1>4. CASE ~Submittable(job[c].seen.version)
  <2>1. Return(c, "blocked", {})
    BY <1>4 DEF Precheck
  <2>2. answer' \in Answer /\ LogIsTrue'
    BY <2>1, TellIsTrue DEF Return
  <2> QED BY <1>1, <2>1, <2>2, ReturnKeeps DEF Return
<1> QED BY <1>3, <1>4

LEMMA BeginInv == ASSUME Inv, NEW c \in Calls, UNCHANGED elsewhere, Begin(c) PROVE Inv'
<1>1. PICK q \in Requests :
        job' = [job EXCEPT ![c] =
          [request |-> q, confirmed |-> FALSE, token |-> NoToken, seen |-> NoToken,
           shown |-> NoToken, fresh |-> FALSE, landed |-> {}]]
  BY DEF Begin
<1> DEFINE j == [request |-> q, confirmed |-> FALSE, token |-> NoToken, seen |-> NoToken,
                 shown |-> NoToken, fresh |-> FALSE, landed |-> {}]
<1>2. j \in Job
  BY DEF Job
<1>3. Fits(j, "lookup") /\ Timely(j, "lookup", version, reply)
  BY DEF Fits, Progress, Allowed, Timely, AtVersion, Writing
<1> HIDE DEF j
<1>4. job' = [job EXCEPT ![c] = j]
  BY <1>1 DEF j
<1> QED BY <1>2, <1>3, <1>4, GoOnKeeps DEF Begin, Label

LEMMA ConfirmInv == ASSUME Inv, NEW c \in Calls, UNCHANGED elsewhere, Confirm(c) PROVE Inv'
<1> DEFINE j == [job[c] EXCEPT !.confirmed = TRUE]
<1>1. job[c] \in Job /\ job[c] # NoJob /\ Fits(job[c], "waiting")
  BY Here DEF Confirm
<1>2. /\ j \in Job /\ j.landed = job[c].landed /\ j.token = job[c].token
      /\ j.shown = job[c].shown
  BY <1>1, JobFields DEF Job
<1>3. job' = [job EXCEPT ![c] = j]
  BY <1>1 DEF Confirm, Job
<1> HIDE DEF j
<1>4. Fits(j, "lookup") /\ Timely(j, "lookup", version, reply)
  BY <1>1, <1>2 DEF Fits, Progress, Allowed, Timely, AtVersion, Writing
<1> QED BY <1>2, <1>3, <1>4, GoOnKeeps DEF Confirm, Label

\* Nothing was sent and nothing is said.
LEMMA StopInv ==
  ASSUME Inv, NEW c \in Calls, UNCHANGED elsewhere, Fail(c) \/ Abandon(c) PROVE Inv'
<1>1. /\ Goto(c, "idle") /\ job' = [job EXCEPT ![c] = NoJob]
      /\ UNCHANGED <<store, elsewhere, answer>>
  BY DEF Fail, Abandon
<1> QED BY <1>1, ReturnKeeps DEF Inv, TypeOK, LogIsTrue

-----------------------------------------------------------------------------
(***************************************************************************)
(* The writes.                                                             *)
(***************************************************************************)
\* A write that does not land leaves the app and what landed before.
LEMMA LoseWriteInv ==
  ASSUME Inv, NEW c \in Calls, UNCHANGED elsewhere, LoseWrite(c) PROVE Inv'
<1>1. Return(c, "failed", job[c].landed) /\ UNCHANGED <<store, elsewhere>>
  BY DEF LoseWrite
<1>2. answer' \in Answer /\ LogIsTrue'
  <2> DEFINE outcome == "failed"
             landed == job[c].landed
  <2>1. Tell(c, outcome, landed) /\ outcome = "failed"
    BY <1>1 DEF Return
  <2> HIDE DEF outcome, landed
  <2> QED BY <2>1, TellIsTrue
<1> QED BY <1>1, <1>2, ReturnKeeps DEF Return

\* A write that lands: j is what the session is when it goes on.
LEMMA LandKeeps ==
  ASSUME Inv, NEW c \in Calls, pc[c] \in Writing, NEW part, NEW next \in {"idle", "name", "submit"},
         Land(c, part, next), Kept,
         next = "idle" => job[c].landed \cup {part} = Wanted(job[c].request),
         NEW j \in Job, j = [job[c] EXCEPT !.landed = @ \cup {part}],
         next # "idle" => Fits(j, next) /\ Timely(j, next, version', reply')
  PROVE  Inv'
<1>1. job \in [Calls -> Job \cup {NoJob}] /\ job[c] \in Job
  BY Here DEF Inv, TypeOK, Writing
<1>2. CASE /\ next # "idle"
           /\ job' = Aged([job EXCEPT ![c].landed = job[c].landed \cup {part}], {c})
           /\ Goto(c, next)
           /\ UNCHANGED answer
  <2>1. [job EXCEPT ![c].landed = job[c].landed \cup {part}] = [job EXCEPT ![c] = j]
    BY <1>1 DEF Job
  <2>2. job' = Aged([job EXCEPT ![c] = j], {c})
    BY <1>2, <2>1
  <2>3. DOMAIN job' = Calls /\ job' = [d \in Calls |-> job'[d]] /\ job'[c] = j /\ Apart(c)
    BY <1>1, <1>2, <2>2 DEF Aged, Apart, Goto, Inv, TypeOK
  <2>4. pc'[c] = next /\ pc' \in [Calls -> Label]
    BY <1>2 DEF Goto, Inv, TypeOK, Label
  <2>5. answer' \in Answer \cup {NoAnswer} /\ LogIsTrue'
    BY <1>2 DEF Inv, TypeOK, LogIsTrue
  <2> QED BY <1>2, <2>3, <2>4, <2>5, StepKeeps
<1>3. CASE \E outcome \in {"failed"} \cup (IF next = "idle" THEN {"executed"} ELSE {}) :
             /\ Tell(c, outcome, job[c].landed \cup {part})
             /\ Goto(c, "idle")
             /\ job' = Aged([job EXCEPT ![c] = NoJob], {c})
  <2>1. PICK outcome \in {"failed"} \cup (IF next = "idle" THEN {"executed"} ELSE {}) :
          Tell(c, outcome, job[c].landed \cup {part})
    BY <1>3
  <2>2. /\ outcome \in {"executed", "failed", "blocked", "rejected"}
        /\ outcome \notin {"blocked", "rejected"}
        /\ outcome = "executed" => next = "idle"
    OBVIOUS
  <2>3. answer' \in Answer /\ LogIsTrue'
    BY <2>1, <2>2, TellIsTrue
  <2>4. /\ DOMAIN job' = Calls /\ job' = [d \in Calls |-> job'[d]] /\ job'[c] = NoJob
        /\ Apart(c)
    BY <1>1, <1>3 DEF Aged, Apart, Goto, Inv, TypeOK
  <2>5. pc'[c] = "idle" /\ pc' \in [Calls -> Label]
    BY <1>3 DEF Goto, Inv, TypeOK, Label
  <2> QED BY <2>3, <2>4, <2>5, StepKeeps
<1> QED BY <1>2, <1>3 DEF Land

\* A part more has landed.
LEMMA LandedFields ==
  ASSUME NEW j \in Job, NEW part \in Part
  PROVE  LET k == [j EXCEPT !.landed = @ \cup {part}] IN
         /\ k \in Job /\ k.landed = j.landed \cup {part} /\ k.request = j.request
         /\ k.token = j.token /\ k.shown = j.shown /\ k.seen = j.seen
         /\ k.confirmed = j.confirmed /\ k.fresh = j.fresh
BY JobFields DEF Job

\* The only write of its call.
LEMMA ReplyInv ==
  ASSUME Inv, NEW c \in Calls, UNCHANGED elsewhere,
         EditReply(c) \/ CreateReply(c) \/ ReplyOnPlay(c)
  PROVE  Inv'
<1>1. PICK part \in {"reply", "play_reply"} : pc[c] = part /\ Land(c, part, "idle")
  BY DEF EditReply, CreateReply, ReplyOnPlay
<1>2. /\ job[c] \in Job /\ job[c].request \in Request /\ job[c].landed = {}
      /\ job[c].request.tool = part
  BY <1>1, Here, JobFields DEF Fits, Progress
<1>3. job[c].request.body \in Texts /\ job[c].landed \cup {part} = Wanted(job[c].request)
  BY <1>2, JobFields, WritesAssumption, WantedIs
<1>4. Kept
  BY <1>3 DEF EditReply, CreateReply, ReplyOnPlay, Kept, Inv, TypeOK, store
<1> DEFINE j == [job[c] EXCEPT !.landed = @ \cup {part}]
<1>5. j \in Job
  BY <1>2, LandedFields DEF Part
<1> QED BY <1>1, <1>3, <1>4, <1>5, LandKeeps DEF Writing

LEMMA WriteNotesInv ==
  ASSUME Inv, NEW c \in Calls, UNCHANGED elsewhere, WriteNotes(c) PROVE Inv'
<1> DEFINE q == job[c].request
           next == IF q.name # Unset THEN "name" ELSE "idle"
           j == [job[c] EXCEPT !.landed = @ \cup {"notes"}]
<1>1. /\ pc[c] = "notes" /\ Land(c, "notes", next)
      /\ version' = [version EXCEPT ![job[c].seen.version].notes = q.notes]
      /\ UNCHANGED <<name, reply, elsewhere>>
  BY DEF WriteNotes
<1>2. /\ job[c] \in Job /\ q \in Request /\ job[c].landed = {} /\ q.tool = "metadata"
      /\ q.notes # Unset /\ job[c].seen.version \in Versions /\ Fits(job[c], "notes")
  BY <1>1, Here, JobFields DEF Fits, Progress, Allowed, AtVersion
<1>3. next = "idle" => job[c].landed \cup {"notes"} = Wanted(q)
  BY <1>2, WantedIs
<1>4. Kept
  BY <1>1, <1>2 DEF Kept, Inv, TypeOK, Version, Request
<1>5. /\ j \in Job /\ j.landed = {"notes"} /\ j.request = q /\ j.token = job[c].token
      /\ j.shown = job[c].shown /\ j.seen = job[c].seen /\ j.confirmed = job[c].confirmed
  BY <1>2, LandedFields DEF Part
<1>6. next # "idle" => Fits(j, next) /\ Timely(j, next, version', reply')
  <2> HIDE DEF j, q
  <2> QED BY <1>2, <1>5 DEF Fits, Progress, Allowed, Timely, AtVersion, Writing
<1>7. next \in {"idle", "name", "submit"}
  OBVIOUS
<1> HIDE DEF next
<1> QED BY <1>1, <1>3, <1>4, <1>5, <1>6, <1>7, LandKeeps DEF Writing

LEMMA WriteNameInv ==
  ASSUME Inv, NEW c \in Calls, UNCHANGED elsewhere, WriteName(c) PROVE Inv'
<1> DEFINE q == job[c].request
           j == [job[c] EXCEPT !.landed = @ \cup {"name"}]
<1>1. /\ pc[c] = "name" /\ Land(c, "name", "idle") /\ name' = q.name
      /\ UNCHANGED <<version, reply, elsewhere>>
  BY DEF WriteName
<1>2. /\ job[c] \in Job /\ q \in Request /\ q.tool = "metadata" /\ q.name # Unset
      /\ job[c].landed = IF q.notes # Unset THEN {"notes"} ELSE {}
  BY <1>1, Here, JobFields DEF Fits, Progress
<1>3. job[c].landed \cup {"name"} = Wanted(q)
  BY <1>2, WantedIs
<1>4. Kept
  BY <1>1, <1>2 DEF Kept, Inv, TypeOK, Request
<1>5. j \in Job
  BY <1>2, LandedFields DEF Part
<1> QED BY <1>1, <1>3, <1>4, <1>5, LandKeeps DEF Writing

LEMMA ReadPhasedInv ==
  ASSUME Inv, NEW c \in Calls, UNCHANGED elsewhere, ReadPhased(c) PROVE Inv'
<1>1. pc[c] = "phased" /\ UNCHANGED <<store, answer, elsewhere>>
  BY DEF ReadPhased
<1>2. /\ job[c] \in Job /\ job[c].landed = {} /\ Fits(job[c], "phased")
      /\ Timely(job[c], "phased", version, reply)
  BY <1>1, Here DEF Fits, Progress
<1>3. CASE version[job[c].seen.version].phased
  <2> DEFINE j == [job[c] EXCEPT !.landed = @ \cup {"phased"}]
  <2>1. job' = [job EXCEPT ![c] = j] /\ Goto(c, "submit")
    BY <1>2, <1>3 DEF ReadPhased, Job
  <2>2. /\ j \in Job /\ j.landed = {"phased"} /\ j.request = job[c].request
        /\ j.token = job[c].token /\ j.shown = job[c].shown /\ j.seen = job[c].seen
        /\ j.confirmed = job[c].confirmed /\ j.fresh = job[c].fresh
    BY <1>2, LandedFields DEF Part
  <2> HIDE DEF j
  <2>3. Fits(j, "submit") /\ Timely(j, "submit", version, reply)
    BY <1>2, <1>3, <2>2 DEF Fits, Progress, Allowed, Timely, AtVersion, Writing
  <2> QED BY <1>1, <2>1, <2>2, <2>3, GoOnKeeps DEF Label
<1>4. CASE ~version[job[c].seen.version].phased
  <2> DEFINE j == job[c]
  <2>1. job' = [job EXCEPT ![c] = j] /\ Goto(c, "enable")
    BY <1>4 DEF ReadPhased, Inv, TypeOK
  <2>2. Fits(j, "enable") /\ Timely(j, "enable", version, reply)
    BY <1>2 DEF Fits, Progress, Allowed, Timely, AtVersion, Writing
  <2> HIDE DEF j
  <2>3. j \in Job
    BY <1>2 DEF j
  <2> QED BY <1>1, <2>1, <2>2, <2>3, GoOnKeeps DEF Label
<1> QED BY <1>3, <1>4

LEMMA EnablePhasedInv ==
  ASSUME Inv, NEW c \in Calls, UNCHANGED elsewhere, EnablePhased(c) PROVE Inv'
<1> DEFINE v == job[c].seen.version
           j == [job[c] EXCEPT !.landed = @ \cup {"phased"}]
<1>1. /\ pc[c] = "enable" /\ Land(c, "phased", "submit")
      /\ version' = [version EXCEPT ![v].phased = TRUE]
      /\ UNCHANGED <<name, reply, elsewhere>>
  BY DEF EnablePhased
<1>2. /\ job[c] \in Job /\ job[c].landed = {} /\ Fits(job[c], "enable")
      /\ Timely(job[c], "enable", version, reply) /\ v \in Versions
      /\ version \in [Versions -> Version]
  BY <1>1, Here DEF Fits, Progress, Allowed, AtVersion, Inv, TypeOK
<1>3. /\ version'[v].phased = TRUE /\ version'[v].state = version[v].state
      /\ version'[v].build = version[v].build /\ version'[v].notes = version[v].notes
      /\ version' \in [Versions -> Version]
  BY <1>1, <1>2 DEF Version
<1>4. Kept
  BY <1>1, <1>3 DEF Kept, Inv, TypeOK
<1>5. /\ j \in Job /\ j.landed = {"phased"} /\ j.request = job[c].request
      /\ j.token = job[c].token /\ j.shown = job[c].shown /\ j.seen = job[c].seen
      /\ j.confirmed = job[c].confirmed /\ j.fresh = job[c].fresh
  BY <1>2, LandedFields DEF Part
<1>6. Fits(j, "submit") /\ Timely(j, "submit", version', reply')
  <2> HIDE DEF j
  <2> QED BY <1>2, <1>3, <1>5 DEF Fits, Progress, Allowed, Timely, AtVersion, Writing
<1> QED BY <1>1, <1>4, <1>5, <1>6, LandKeeps DEF Writing

LEMMA CreateSubmissionInv ==
  ASSUME Inv, NEW c \in Calls, UNCHANGED elsewhere, CreateSubmission(c) PROVE Inv'
<1> DEFINE v == job[c].seen.version
           j == [job[c] EXCEPT !.landed = @ \cup {"submission"}]
<1>1. /\ pc[c] = "submit" /\ Land(c, "submission", "idle")
      /\ version' = [version EXCEPT ![v].state = "waiting"]
      /\ UNCHANGED <<name, reply, elsewhere>>
  BY DEF CreateSubmission
<1>2. /\ job[c] \in Job /\ job[c].request.tool = "submit" /\ v \in Versions
      /\ job[c].landed = IF job[c].request.phased THEN {"phased"} ELSE {}
  BY <1>1, Here DEF Fits, Progress, Allowed, AtVersion
<1>3. job[c].landed \cup {"submission"} = Wanted(job[c].request)
  BY <1>2, WantedIs
<1>4. Kept
  BY <1>1, <1>2 DEF Kept, Inv, TypeOK, Version, State
<1>5. j \in Job
  BY <1>2, LandedFields DEF Part
<1> QED BY <1>1, <1>3, <1>4, <1>5, LandKeeps DEF Writing

-----------------------------------------------------------------------------
(***************************************************************************)
(* Others, a crash, and every step.                                        *)
(***************************************************************************)
LEMMA OthersKeep == ASSUME Inv, Others, Kept PROVE Inv'
<1>1. \A d \in Calls :
        /\ pc'[d] = pc[d]
        /\ job[d] = NoJob => job'[d] = NoJob
        /\ job[d] # NoJob => job'[d] = [job[d] EXCEPT !.fresh = FALSE]
  BY DEF Others, Aged
<1>2. DOMAIN job' = Calls /\ job' = [d \in Calls |-> job'[d]]
  BY DEF Others, Aged
<1>3. \A d \in Calls :
        /\ job'[d] \in Job \cup {NoJob}
        /\ job'[d] = NoJob <=> pc'[d] = "idle"
        /\ Knows(d)'
        /\ job'[d] # NoJob => Fits(job'[d], pc'[d])
  <2> TAKE d \in Calls
  <2>1. CASE job[d] = NoJob
    BY <1>1, <2>1 DEF Inv, TypeOK, Knows
  <2>2. CASE job[d] # NoJob
    <3>1. job[d] \in Job /\ pc[d] # "idle" /\ Fits(job[d], pc[d])
      BY <2>2 DEF Inv, TypeOK, Knows
    <3>3. job'[d] = [job[d] EXCEPT !.fresh = FALSE]
      BY <1>1, <2>2
    <3>2. /\ job'[d] \in Job /\ job'[d] # NoJob /\ Fits(job'[d], pc[d])
          /\ Timely(job'[d], pc[d], version', reply')
      BY <3>1, <3>3, AgedFits
    <3> QED BY <1>1, <3>1, <3>2 DEF Knows
  <2> QED BY <2>1, <2>2
<1>4. \A d \in Calls :
        /\ pc'[d] \notin {"idle", "lookup"} => job'[d].seen # NoToken
        /\ job'[d] # NoJob /\ job'[d].confirmed => job'[d].shown # NoToken
        /\ pc'[d] \in {"precheck", "notes", "phased", "enable", "submit"} =>
             job'[d].seen.version \in Versions
  BY <1>3 DEF Fits, Allowed, AtVersion
<1>5. TypeOK'
  BY <1>2, <1>3, <1>4 DEF TypeOK, Kept, Inv, Others
<1>6. LogIsTrue'
  BY DEF Others, Inv, LogIsTrue
<1> QED BY <1>3, <1>5, <1>6 DEF Inv

LEMMA ElsewhereInv ==
  Inv /\ (EditElsewhere \/ ReplyElsewhere \/ Review \/ CreateVersion) => Inv'
<1> SUFFICES ASSUME Inv, EditElsewhere \/ ReplyElsewhere \/ Review \/ CreateVersion
             PROVE  Kept /\ Others
  BY OthersKeep
<1>1. version \in [Versions -> Version]
  BY DEF Inv, TypeOK
<1>2. CASE EditElsewhere
  <2>1. PICK v \in Versions :
          \/ \E t \in Texts \cup {Empty} : version' = [version EXCEPT ![v].notes = t]
          \/ version' = [version EXCEPT ![v].build = ~@]
          \/ version' = [version EXCEPT ![v].phased = ~@]
          \/ version' = [version EXCEPT ![v].state = "waiting"]
    BY <1>2 DEF EditElsewhere
  <2>4. version[v].build \in BOOLEAN /\ version[v].phased \in BOOLEAN /\ version[v] \in Version
    BY <1>1 DEF Version
  <2>5. PICK ver \in Version : version' = [version EXCEPT ![v] = ver]
    <3>1. /\ \A t \in Texts \cup {Empty} : [version[v] EXCEPT !.notes = t] \in Version
          /\ [version[v] EXCEPT !.build = ~@] \in Version
          /\ [version[v] EXCEPT !.phased = ~@] \in Version
          /\ [version[v] EXCEPT !.state = "waiting"] \in Version
      BY <2>4 DEF Version, State
    <3> QED BY <2>1, <3>1, Zenon
  <2>2. version' \in [Versions -> Version]
    BY <1>1, <2>5
  <2>3. elsewhere' \in 0..MaxElsewhere
    BY <1>2, WritesAssumption DEF EditElsewhere, Edits, Inv, TypeOK
  <2> QED BY <1>2, <2>2, <2>3 DEF EditElsewhere, Kept, Inv, TypeOK
<1>3. CASE ReplyElsewhere
  <2>1. elsewhere' \in 0..MaxElsewhere
    BY <1>3, WritesAssumption DEF ReplyElsewhere, Edits, Inv, TypeOK
  <2> QED BY <1>3, <2>1 DEF ReplyElsewhere, Kept, Inv, TypeOK
<1>4. CASE Review \/ CreateVersion
  <2>1. PICK v \in Versions, s \in State : version' = [version EXCEPT ![v].state = s]
    BY <1>4 DEF Review, CreateVersion, State
  <2>2. version' \in [Versions -> Version]
    BY <1>1, <2>1 DEF Version
  <2> QED BY <1>4, <2>2 DEF Review, CreateVersion, Kept, Inv, TypeOK
<1> QED BY <1>2, <1>3, <1>4

LEMMA CrashInv == Inv /\ Crash => Inv'
<1> SUFFICES ASSUME Inv, Crash PROVE Inv'
  OBVIOUS
<1>1. \A d \in Calls :
        \/ pc'[d] = "idle" /\ job'[d] = NoJob
        \/ pc'[d] = pc[d] /\ job'[d] = job[d]
  BY DEF Crash
<1>2. UNCHANGED <<store, answer, elsewhere>>
  BY DEF Crash
<1>3. pc' \in [Calls -> Label] /\ job' \in [Calls -> Job \cup {NoJob}]
  BY DEF Crash, Inv, TypeOK, Label
<1>4. TypeOK'
  BY <1>1, <1>2, <1>3 DEF Inv, TypeOK, store
<1>5. \A d \in Calls : Knows(d)'
  BY <1>1, <1>2 DEF Inv, Knows, store
<1> QED BY <1>2, <1>4, <1>5 DEF Inv, LogIsTrue

LEMMA NextInv == Inv /\ [Next]_vars => Inv'
<1> SUFFICES ASSUME Inv, [Next]_vars PROVE Inv'
  OBVIOUS
<1>1. ASSUME NEW c \in Calls, Step(c), UNCHANGED elsewhere PROVE Inv'
  BY <1>1, BeginInv, LookupInv, PrecheckInv, StopInv, ConfirmInv, ReplyInv, WriteNotesInv,
     WriteNameInv, ReadPhasedInv, EnablePhasedInv, CreateSubmissionInv, LoseWriteInv DEF Step
<1>2. CASE UNCHANGED vars
  BY <1>2 DEF Inv, TypeOK, LogIsTrue, Knows, vars, store
<1> QED BY <1>1, <1>2, ElsewhereInv, CrashInv DEF Next

LEMMA Invariance == Spec => []Inv
BY InitInv, NextInv, PTL DEF Spec

-----------------------------------------------------------------------------
(***************************************************************************)
(* The theorems.                                                           *)
(***************************************************************************)

\* Every state of the App Store tools is well typed: among others, a session
\* past the gate has the token of its own preview and knows its version.
THEOREM TypeCorrect == Spec => []TypeOK
BY Invariance, PTL DEF Inv

\* The audit log says "executed" only when every write of the call landed,
\* and "rejected" or "blocked" only when none did.
THEOREM TheLogIsTrue == Spec => []LogIsTrue
BY Invariance, PTL DEF Inv

\* A step in which a session stops writing a part is its own write, or its
\* end, or a crash; only the first changes the app.
LEMMA OwnStep ==
  ASSUME Inv, [Next]_vars, NEW c \in Calls, pc[c] \in Writing, pc'[c] # pc[c],
         ~UNCHANGED store
  PROVE  Step(c)
<1>1. Next /\ ~Crash
  BY DEF vars, Crash
<1>2. ~(EditElsewhere \/ ReplyElsewhere \/ Review \/ CreateVersion)
  BY DEF EditElsewhere, ReplyElsewhere, Review, CreateVersion, Others
<1>3. PICK d \in Calls : Step(d)
  BY <1>1, <1>2 DEF Next
<1>4. \A e \in Calls \ {d} : pc'[e] = pc[e]
  <2>1. \A label : Goto(d, label) => \A e \in Calls \ {d} : pc'[e] = pc[e]
    BY DEF Goto, Inv, TypeOK
  <2>2. \E label : Goto(d, label)
    BY <1>3, Zenon DEF Step, Begin, LookupReply, LookupPlayReply, LookupCopy, LookupSubmission,
       Precheck, Fail, Confirm, Abandon, EditReply, CreateReply, ReplyOnPlay, WriteNotes,
       WriteName, ReadPhased, EnablePhased, CreateSubmission, LoseWrite, Gate, Return, Land
  <2> QED BY <2>1, <2>2
<1> QED BY <1>3, <1>4

\* Its own write is one of these.
LEMMA OwnWrite ==
  ASSUME Inv, [Next]_vars, NEW c \in Calls, pc[c] \in Writing, pc'[c] # pc[c],
         ~UNCHANGED store
  PROVE  \/ EditReply(c) \/ CreateReply(c) \/ WriteNotes(c) \/ WriteName(c)
         \/ EnablePhased(c) \/ CreateSubmission(c)
BY OwnStep DEF Step, Begin, LookupReply, LookupPlayReply, LookupCopy, LookupSubmission, LooksUp,
   Precheck, Fail, Confirm, Abandon, ReplyOnPlay, ReadPhased, LoseWrite, Writing

\* What the human approved is the version that is written.
THEOREM WrittenAsShown == Spec => WritesLandOnTheVersionShown
<1>1. ASSUME Inv, [Next]_vars, NEW c \in Calls, pc[c] \in {"notes", "enable", "submit"},
             pc'[c] # pc[c], NEW v \in Versions, version'[v] # version[v]
      PROVE  job[c].confirmed /\ v = job[c].shown.version
  <2>1. job[c].confirmed /\ job[c].seen = job[c].shown /\ pc[c] \in Writing
    BY <1>1, Here DEF Fits, Allowed, Writing
  <2>2. ~UNCHANGED store
    BY <1>1 DEF store
  <2>4. WriteNotes(c) \/ EnablePhased(c) \/ CreateSubmission(c)
    BY <1>1, <2>1, <2>2, OwnWrite DEF EditReply, CreateReply, WriteName
  <2>5. \E ver : version' = [version EXCEPT ![job[c].seen.version] = ver]
    BY <2>4, Zenon DEF WriteNotes, EnablePhased, CreateSubmission
  <2>3. v = job[c].seen.version
    BY <1>1, <2>5 DEF Inv, TypeOK
  <2> QED BY <2>1, <2>3
<1>2. Inv /\ [Next]_vars =>
        [\A c \in Calls :
           pc[c] \in {"notes", "enable", "submit"} /\ pc'[c] # pc[c] =>
             \A v \in Versions : version'[v] # version[v] =>
               job[c].confirmed /\ v = job[c].shown.version]_vars
  BY <1>1
<1> QED BY <1>2, Invariance, PTL DEF Spec, WritesLandOnTheVersionShown

\* No version enters review in another state than the precheck of the
\* confirm call found, but one changed after that call looked.
THEOREM SubmittedOnlyAsPrechecked == Spec => SubmittedAsPrechecked
<1>1. ASSUME Inv, [Next]_vars, NEW c \in Calls, Submits(c), ~job[c].request.skip, job[c].fresh
      PROVE  Submittable(job[c].seen.version)
  BY <1>1, Here DEF Submits, Timely, Submittable
<1>2. Inv /\ [Next]_vars =>
        [\A c \in Calls :
           Submits(c) /\ ~job[c].request.skip /\ job[c].fresh =>
             Submittable(job[c].seen.version)]_vars
  BY <1>1
<1> QED BY <1>2, Invariance, PTL DEF Spec, SubmittedAsPrechecked

\* No version submitted with phased_release reaches every user at once.
THEOREM SubmittedOnlyPhased == Spec => SubmittedPhased
<1>1. ASSUME Inv, [Next]_vars, NEW c \in Calls, Submits(c), job[c].request.phased
      PROVE  /\ "phased" \in job[c].landed
             /\ job[c].fresh => version[job[c].seen.version].phased
  BY <1>1, Here DEF Submits, Timely, Fits, Progress
<1>2. Inv /\ [Next]_vars =>
        [\A c \in Calls :
           Submits(c) /\ job[c].request.phased =>
             "phased" \in job[c].landed
             /\ (job[c].fresh => version[job[c].seen.version].phased)]_vars
  BY <1>1
<1> QED BY <1>2, Invariance, PTL DEF Spec, SubmittedPhased

\* No public reply is replaced unannounced, but one posted after the confirm
\* call looked.
THEOREM RepliesReplacedAsAnnounced == Spec => ReplacementIsAnnounced
<1>1. ASSUME Inv, [Next]_vars, NEW c \in Calls, pc[c] = "reply", pc'[c] # pc[c],
             reply # NoReply, reply' # reply, job[c].fresh
      PROVE  job[c].shown.replaces
  BY <1>1, Here DEF Timely, Fits, Allowed, Writing
<1>2. Inv /\ [Next]_vars =>
        [\A c \in Calls :
           /\ pc[c] = "reply" /\ pc'[c] # pc[c]
           /\ reply # NoReply /\ reply' # reply
           /\ job[c].fresh
           => job[c].shown.replaces]_vars
  BY <1>1
<1> QED BY <1>2, Invariance, PTL DEF Spec, ReplacementIsAnnounced

=============================================================================
