-------------------------- MODULE PlayReleaseProofs --------------------------
(***************************************************************************)
(* Theorems about the Play release tools, for any number of sessions,      *)
(* tracks and builds, any requests and any changes others make.            *)
(***************************************************************************)
EXTENDS PlayRelease, TLAPS

-----------------------------------------------------------------------------
(***************************************************************************)
(* What the helpers and the policy return.                                 *)
(***************************************************************************)
Releasing == {"upload", "create", "promote"}

\* build_release makes a release of what it is given.
LEMMA BuildReleaseType ==
  ASSUME NEW code \in Builds, NEW status \in Status,
         NEW fraction \in Int \cup {NoFraction}
  PROVE  BuildRelease(code, status, fraction) \in Release
BY DEF BuildRelease, Release, Status

\* Whatever the environment variable holds, the ceiling is clamped.
LEMMA CeilingRange == Ceiling \in 1..50
BY PolicyAssumption DEF Ceiling, Least, Greatest

\* The policy's alternatives, one at a time.
LEMMA TestingCases ==
  ASSUME NEW f, NEW s, NEW d \in DecideTesting(f, s)
  PROVE  \/ d \in Decided("draft", NoFraction)
         \/ InRange(f) /\ d \in Decided("inProgress", f)
         \/ s = NoStatus /\ d \in Decided("completed", NoFraction)
         \/ s # NoStatus /\ d \in Decided(s, NoFraction)
BY Zenon DEF DecideTesting

\* The same of production: its staged alternative is the only one with a share.
LEMMA ProductionCases ==
  ASSUME NEW f, NEW s, NEW d \in DecideProduction(f, s)
  PROVE  \/ d \in Decided("draft", NoFraction)
         \/ d \in Decided("halted", f)
         \/ d \in DecideStaged(f)
BY Zenon DEF DecideProduction

\* An expansion is a share below everyone, or everyone.
LEMMA ExpansionCases ==
  ASSUME NEW f, NEW d \in DecideExpansion(f)
  PROVE  \/ d \in Decided("completed", NoFraction)
         \/ InRange(f) /\ f < 100 /\ d \in Decided("inProgress", f)
BY DEF DecideExpansion, InRange

\* Which part of the policy each tool asks.
LEMMA PolicyCases ==
  ASSUME NEW q, q.tool \in Tool, NEW d \in PolicyFor(q)
  PROVE  \/ q.tool = "upload" /\ d \in Decide(q.track, NoFraction, NoStatus)
         \/ q.tool = "create" /\ d \in Decide(q.track, q.fraction, q.status)
         \/ q.tool = "promote" /\ d \in Decide(q.track, q.fraction, NoStatus)
         \/ q.tool = "expand" /\ d \in DecideExpansion(q.fraction)
         \/ q.tool = "halt" /\ d \in Decided("halted", NoFraction)
BY Zenon DEF PolicyFor, Tool

\* A staged production release starts between one percent and the ceiling.
LEMMA StagedType ==
  ASSUME NEW f \in Int \cup {NoFraction}, NEW d \in DecideStaged(f)
  PROVE  d.status = "inProgress" /\ d.fraction \in 1..Ceiling /\ d \in Decision
BY CeilingRange, PolicyAssumption DEF DecideStaged, Default, Least, InRange, Decided, Decision, Status

\* Whatever is asked of it, the policy answers with a decision or refuses.
LEMMA PolicyType ==
  ASSUME NEW q \in Requests, NEW d \in PolicyFor(q)
  PROVE  d \in Decision
<1> USE PolicyAssumption DEF Decision, Decided, Status
<1>1. /\ q.tool \in Tool
      /\ q.fraction \in Int \cup {NoFraction}
      /\ q.status \in Status \cup {NoStatus}
  BY ReleaseAssumption DEF Request
<1>2. ASSUME NEW f \in Int \cup {NoFraction}, NEW s \in Status \cup {NoStatus},
             NEW t, d \in Decide(t, f, s)
      PROVE  d \in Decision
  BY <1>2, TestingCases, ProductionCases, StagedType DEF Decide, InRange
<1>3. ASSUME NEW f \in Int \cup {NoFraction}, d \in DecideExpansion(f)
      PROVE  d \in Decision
  BY <1>3, ExpansionCases
<1>4. CASE d \in DecideExpansion(q.fraction)
  BY <1>1, <1>3, <1>4
<1>5. CASE d \in Decided("halted", NoFraction)
  BY <1>5
<1>6. ASSUME NEW f \in {q.fraction, NoFraction}, NEW s \in {q.status, NoStatus},
             d \in Decide(q.track, f, s)
      PROVE  d \in Decision
  BY <1>1, <1>2, <1>6
<1> QED BY <1>1, <1>4, <1>5, <1>6, PolicyCases

\* The policy lets production start as a draft, halted, or under the ceiling.
LEMMA PolicyStartsSmall ==
  ASSUME NEW q \in Requests, q.tool \in Releasing, q.track \in Production,
         NEW d \in PolicyFor(q)
  PROVE  \/ d.status \in {"draft", "halted"}
         \/ d.status = "inProgress" /\ d.fraction \in 1..Ceiling
<1>1. q.tool \in Tool /\ q.fraction \in Int \cup {NoFraction}
  BY ReleaseAssumption DEF Request
<1>2. ASSUME NEW f \in Int \cup {NoFraction}, NEW s, d \in DecideProduction(f, s)
      PROVE  \/ d.status \in {"draft", "halted"}
             \/ d.status = "inProgress" /\ d.fraction \in 1..Ceiling
  BY <1>2, ProductionCases, StagedType DEF Decided
<1> QED BY <1>1, <1>2, PolicyCases DEF Decide, Releasing

\* Shares can be compared with numbers.
LEMMA SharesAreNumbers == \A x \in Shares : x \in Int
BY ReleaseAssumption

\* What Play serves is a release.
LEMMA ServedIsRelease == Served \subseteq Release
<1>1. ASSUME NEW r \in Served PROVE r \in Release
  BY SharesAreNumbers DEF Served, Release
<1> QED BY <1>1

\* Releases that pass edits.validate may stand on a track.
LEMMA AcceptedIsServed ==
  ASSUME NEW rs \in SUBSET Release, PlayAccepts(rs)
  PROVE  rs \subseteq Served
BY DEF PlayAccepts, Release, Served, Status

\* Swapping a release for one of the same build keeps builds apart, and
\* touches no other.
LEMMA ReplaceReleaseSwaps ==
  ASSUME NEW rs, Distinct(rs), NEW target \in rs, NEW new, new.code = target.code
  PROVE  /\ Distinct(ReplaceRelease(rs, target, new))
         /\ ReplaceRelease(rs, target, new) = (rs \ {target}) \cup {new}
BY DEF Distinct, ReplaceRelease

-----------------------------------------------------------------------------
(***************************************************************************)
(* The inductive invariant.                                                *)
(***************************************************************************)
\* What is committed is what Play accepts, every build once.
TracksOK == \A t \in Tracks : Distinct(tracks[t]) /\ PlayAccepts(tracks[t])

\* A session's decision is the policy's; the release it showed is the one its
\* decision makes of the build its token binds, and a confirmed leg derived
\* that build again.
JobOK(c) ==
  LET j == job[c] IN
  /\ j.decision \in PolicyFor(j.request)
  /\ j.request.tool = "create" /\ pc[c] # "resolve" => j.code \in Builds
  /\ pc[c] = "commit" \/ j.request.tool = "halt" => j.confirmed
  /\ pc[c] = "validate" => j.confirmed \/ j.to # NoRelease
  /\ j.request.tool \in {"create", "promote"} =>
       /\ pc[c] = "validate" /\ ~j.confirmed =>
            j.to = BuildRelease(j.code, j.decision.status, j.decision.fraction)
       /\ pc[c] = "waiting" \/ j.confirmed =>
            j.to = BuildRelease(j.token, j.decision.status, j.decision.fraction)
       /\ j.confirmed /\ pc[c] # "resolve" => j.code = j.token
       /\ j.confirmed /\ pc[c] \in {"validate", "commit"} =>
            edit[c].copy[j.request.track] = {j.to}

JobsOK == \A c \in Calls : pc[c] # "idle" => JobOK(c)

\* How a tool with arguments q and decision d rewrites a track.
Rewrites(q, d, old, new) ==
  \/ /\ q.tool \in Releasing
     /\ \E code \in Builds : new = {BuildRelease(code, d.status, d.fraction)}
  \/ /\ q.tool = "expand"
     /\ \E live \in CurrentRelease(old) :
          /\ Widens(live, q)
          /\ new = ReplaceRelease(old, live, BuildRelease(live.code, d.status, d.fraction))
  \/ /\ q.tool = "halt"
     /\ \E live \in CurrentRelease(old) :
          /\ Haltable(live)
          /\ new = ReplaceRelease(old, live, BuildRelease(live.code, "halted", live.fraction))

\* An edit that can still be committed differs from the app by what its tool
\* did to one track, and by nothing else.
EditOK(c) ==
  LET q == job[c].request
      copy == edit[c].copy
  IN  /\ pc[c] = "write" => copy = tracks
      /\ pc[c] \in {"validate", "commit"} =>
           /\ \A t \in Tracks : t # q.track => copy[t] = tracks[t]
           /\ Rewrites(q, job[c].decision, tracks[q.track], copy[q.track])
      /\ pc[c] = "commit" => PlayAccepts(copy[q.track])

EditsOK ==
  \A c \in Calls : pc[c] \in {"write", "validate", "commit"} /\ edit[c].fresh => EditOK(c)

Inv == TypeOK /\ TracksOK /\ JobsOK /\ EditsOK

\* The app starts as someone published it, with no session.
LEMMA InvInit == Init => Inv
<1> SUFFICES ASSUME Init PROVE Inv
  OBVIOUS
<1> USE ReleaseAssumption DEF Init
<1>1. TypeOK
  BY DEF TypeOK, Label
<1>2. TracksOK
  BY DEF TracksOK
<1>3. JobsOK /\ EditsOK
  BY DEF JobsOK, EditsOK
<1> QED BY <1>1, <1>2, <1>3 DEF Inv

\* What a session that is under way has at hand.
LEMMA SessionTypes ==
  ASSUME Inv, NEW c \in Calls, pc[c] # "idle"
  PROVE  /\ job[c] \in Job
         /\ job[c].request \in Requests
         /\ job[c].request \in Request
         /\ job[c].decision \in Decision
         /\ pc[c] \in {"write", "validate", "commit"} => edit[c] \in Edit
         /\ JobOK(c)
BY ReleaseAssumption, NoneAssumption DEF Inv, TypeOK, JobsOK, Job

\* The swap of a release in a list of releases is one.
LEMMA ReplaceReleaseType ==
  ASSUME NEW rs \in SUBSET Release, NEW target, NEW new \in Release
  PROVE  ReplaceRelease(rs, target, new) \in SUBSET Release
BY DEF ReplaceRelease

\* What the body of a tool does: it rewrites its track and goes on to the
\* validation, raises, or finds nothing to halt.
LEMMA WriteCases ==
  ASSUME Inv, NEW c \in Calls, Write(c)
  PROVE  \/ \E to \in Release, rs \in SUBSET Release :
              /\ Update(c, to, rs)
              /\ Rewrites(job[c].request, job[c].decision,
                          edit[c].copy[job[c].request.track], rs)
              /\ job[c].request.tool \in {"create", "promote"} =>
                   /\ to = BuildRelease(job[c].code, job[c].decision.status,
                                        job[c].decision.fraction)
                   /\ rs = {to}
         \/ Raise(c)
         \/ /\ job[c].request.tool = "halt"
            /\ \E live \in Live(edit[c].copy[job[c].request.track]) : ~ Haltable(live)
            /\ Goto(c, "blocked")
            /\ edit' = [edit EXCEPT ![c] = NoEdit]
            /\ UNCHANGED <<job, log>>
<1> DEFINE q == job[c].request
           d == job[c].decision
           rs == edit[c].copy[q.track]
<1>1. /\ pc[c] = "write" /\ job[c] \in Job /\ JobOK(c)
      /\ q \in Request /\ q \in Requests /\ d \in Decision /\ edit[c] \in Edit
  BY SessionTypes DEF Write
<1>2. /\ rs \in SUBSET Release /\ edit[c].copy[q.from] \in SUBSET Release
      /\ d.status \in Status /\ d.fraction \in Int \cup {NoFraction}
  BY <1>1 DEF Edit, App, Request, Decision
<1>3. ASSUME NEW code \in Builds, SetRelease(c, code), q.tool \in Releasing,
             q.tool \in {"create", "promote"} => code = job[c].code
      PROVE  \E to \in Release, new \in SUBSET Release :
              /\ Update(c, to, new)
              /\ Rewrites(q, d, rs, new)
              /\ q.tool \in {"create", "promote"} =>
                   to = BuildRelease(job[c].code, d.status, d.fraction) /\ new = {to}
  <2> DEFINE to == BuildRelease(code, d.status, d.fraction)
  <2>1. to \in Release
    BY <1>2, BuildReleaseType
  <2>2. Update(c, to, {to})
    BY <1>3 DEF SetRelease
  <2>3. Rewrites(q, d, rs, {to})
    BY <1>3 DEF Rewrites
  <2> QED BY <1>3, <2>1, <2>2, <2>3
<1>4. CASE WriteUpload(c)
  BY <1>3, <1>4, ReleaseAssumption DEF WriteUpload, UploadBundle, Releasing, Inv, TypeOK
<1>5. CASE WriteCreate(c)
  BY <1>1, <1>3, <1>5 DEF WriteCreate, Releasing, JobOK
<1>6. CASE WritePromote(c) \/ MissSource(c)
  BY <1>2, <1>3, <1>6 DEF WritePromote, MissSource, Releasing, CurrentRelease, Release
<1>7. CASE WriteExpand(c)
  <2>1. SUFFICES ASSUME NEW live \in Live(rs), Widens(live, q),
                        Update(c, BuildRelease(live.code, d.status, d.fraction),
                          ReplaceRelease(rs, live, BuildRelease(live.code, d.status, d.fraction)))
                 PROVE  \E to \in Release, new \in SUBSET Release :
                          Update(c, to, new) /\ Rewrites(q, d, rs, new)
    BY <1>7 DEF WriteExpand
  <2>2. live \in CurrentRelease(rs) /\ live \in Release
    BY <1>2, <2>1 DEF Widens, Live, CurrentRelease
  <2>3. BuildRelease(live.code, d.status, d.fraction) \in Release
    BY <1>2, <2>2, BuildReleaseType DEF Release
  <2>4. Rewrites(q, d, rs, ReplaceRelease(rs, live, BuildRelease(live.code, d.status, d.fraction)))
    BY <1>7, <2>1, <2>2 DEF Rewrites, WriteExpand
  <2> QED BY <1>2, <2>1, <2>3, <2>4, ReplaceReleaseType
<1>8. CASE WriteHalt(c)
  <2>1. PICK live \in Live(rs) :
          IF Haltable(live)
            THEN Update(c, BuildRelease(live.code, "halted", live.fraction),
                   ReplaceRelease(rs, live, BuildRelease(live.code, "halted", live.fraction)))
            ELSE /\ Goto(c, "blocked")
                 /\ edit' = [edit EXCEPT ![c] = NoEdit]
                 /\ UNCHANGED <<job, log>>
    BY <1>8 DEF WriteHalt
  <2>2. CASE ~ Haltable(live)
    BY <1>8, <2>1, <2>2 DEF WriteHalt
  <2>3. CASE Haltable(live)
    <3>1. live \in CurrentRelease(rs) /\ live \in Release
      BY <1>2, <2>1, <2>3 DEF Haltable, Live, CurrentRelease
    <3>2. BuildRelease(live.code, "halted", live.fraction) \in Release
      BY <3>1, BuildReleaseType DEF Release, Status
    <3>3. Rewrites(q, d, rs,
            ReplaceRelease(rs, live, BuildRelease(live.code, "halted", live.fraction)))
      BY <1>8, <2>3, <3>1 DEF Rewrites, WriteHalt
    <3> QED BY <1>2, <1>8, <2>1, <2>3, <3>2, <3>3, ReplaceReleaseType DEF WriteHalt
  <2> QED BY <2>2, <2>3
<1> QED BY <1>4, <1>5, <1>6, <1>7, <1>8 DEF Write

\* What a call leaves in the audit log.
LEMMA TellType ==
  ASSUME NEW outcomes \in SUBSET Outcome, Tell(outcomes)
  PROVE  log' \subseteq Outcome
BY DEF Tell

\* A call that raises leaves the app as it was.
LEMMA RaiseKeeps ==
  ASSUME Inv, NEW c \in Calls, pc[c] # "idle",
         Raise(c), UNCHANGED <<tracks, disk, elsewhere>>
  PROVE  Inv'
<1> USE SessionTypes DEF Inv, Raise, Return, Tell, Goto
<1>1. TypeOK'
  <2>1. log' \subseteq Outcome
    BY DEF TypeOK, Outcome
  <2>2. /\ pc' = [pc EXCEPT ![c] = "idle"] /\ job' = [job EXCEPT ![c] = NoJob]
        /\ edit' = [edit EXCEPT ![c] = NoEdit] /\ UNCHANGED <<tracks, disk, elsewhere>>
    OBVIOUS
  <2> QED BY <2>1, <2>2 DEF TypeOK, Label
<1>2. TracksOK' /\ JobsOK' /\ EditsOK'
  BY DEF TracksOK, JobsOK, JobOK, EditsOK, EditOK, TypeOK
<1> QED BY <1>1, <1>2

\* The build a tool derives from its arguments is one.
LEMMA MeantType ==
  ASSUME TypeOK, NEW q \in Requests, NEW code \in Meant(q)
  PROVE  /\ code \in Builds \cup {NoBuild}
         /\ q.tool = "create" => code \in Builds
<1>1. \/ q.tool = "upload" /\ code = disk
      \/ q.tool = "create" /\ code = q.code
      \/ q.tool = "promote" /\ code \in {r.code : r \in CurrentRelease(tracks[q.from])}
      \/ q.tool \in {"expand", "halt"} /\ code = NoBuild
  <2>1. q.tool \in Tool
    BY ReleaseAssumption DEF Request
  <2> QED BY <2>1, Zenon DEF Meant, Digest, Tool
<1>2. disk \in Builds /\ tracks[q.from] \subseteq Served
  BY ReleaseAssumption DEF TypeOK, Request
<1> QED BY <1>1, <1>2, ReleaseAssumption DEF CurrentRelease, Served

\* A rewrite keeps builds apart.
LEMMA RewritesDistinct ==
  ASSUME NEW q, NEW d, NEW old, NEW new, Distinct(old), Rewrites(q, d, old, new)
  PROVE  Distinct(new)
<1>1. CASE q.tool \in Releasing
  BY <1>1 DEF Rewrites, Releasing, Distinct
<1>2. CASE q.tool \notin Releasing
  <2>1. PICK live \in CurrentRelease(old) :
          \E to : to.code = live.code /\ new = ReplaceRelease(old, live, to)
    BY <1>2 DEF Rewrites, BuildRelease
  <2> QED BY <2>1, ReplaceReleaseSwaps DEF CurrentRelease
<1> QED BY <1>1, <1>2

\* What a commit puts live: one track rewritten, and accepted by Play.
LEMMA CommitCases ==
  ASSUME Inv, NEW c \in Calls, Commit(c)
  PROVE  LET q == job[c].request IN
         /\ q \in Request /\ q \in Requests /\ JobOK(c) /\ job[c].confirmed
         /\ tracks' = edit[c].copy /\ edit[c].copy \in App
         /\ \A t \in Tracks : t # q.track => tracks'[t] = tracks[t]
         /\ Rewrites(q, job[c].decision, tracks[q.track], tracks'[q.track])
         /\ PlayAccepts(tracks'[q.track])
         /\ tracks'[q.track] \subseteq Served
<1>1. pc[c] = "commit" /\ edit[c].fresh /\ tracks' = edit[c].copy
  BY DEF Commit
<1>2. /\ job[c].request \in Request /\ job[c].request \in Requests /\ JobOK(c)
      /\ edit[c] \in Edit
  BY <1>1, SessionTypes
<1>3. EditOK(c)
  BY <1>1 DEF Inv, EditsOK
<1>4. edit[c].copy \in App /\ tracks'[job[c].request.track] \in SUBSET Release
  BY <1>1, <1>2 DEF Edit, App, Request
<1>5. PlayAccepts(tracks'[job[c].request.track])
  BY <1>1, <1>3 DEF EditOK
<1> QED BY <1>1, <1>2, <1>3, <1>4, <1>5, AcceptedIsServed DEF EditOK, JobOK

\* After a commit every track is still what Play accepts, every build once.
LEMMA CommitKeeps ==
  ASSUME Inv, NEW c \in Calls, Commit(c), NEW t \in Tracks
  PROVE  Distinct(tracks'[t]) /\ PlayAccepts(tracks'[t]) /\ tracks'[t] \subseteq Served
<1>1. CASE t # job[c].request.track
  BY <1>1, CommitCases DEF Inv, TracksOK, TypeOK
<1>2. CASE t = job[c].request.track
  BY <1>2, CommitCases, RewritesDistinct DEF Inv, TracksOK
<1> QED BY <1>1, <1>2

\* Every step keeps the invariant.
LEMMA InvNext == Inv /\ [Next]_vars => Inv'
<1> SUFFICES ASSUME Inv, [Next]_vars PROVE Inv'
  OBVIOUS
<1> USE DEF Goto
<1>1. ASSUME NEW c \in Calls, Begin(c) PROVE Inv'
  <2> DEFINE Started(q, d) ==
               /\ job' = [job EXCEPT ![c] =
                    [request |-> q, decision |-> d, confirmed |-> q.tool = "halt",
                     code |-> NoBuild, token |-> NoBuild, to |-> NoRelease]]
               /\ pc' = [pc EXCEPT ![c] = IF q.tool = "halt" THEN "open" ELSE "resolve"]
  <2>1. PICK q \in Requests : \E d \in PolicyFor(q) : Started(q, d)
    BY <1>1 DEF Begin
  <2>2. PICK d \in PolicyFor(q) : Started(q, d)
    BY <2>1
  <2>3. pc[c] = "idle" /\ UNCHANGED <<tracks, disk, edit, log, elsewhere>>
    BY <1>1 DEF Begin
  <2>4. d \in Decision /\ q \in Request
    BY PolicyType, ReleaseAssumption
  <2>5. TypeOK'
    <3>1. job'[c] \in Job
      BY <2>2, <2>4 DEF Inv, TypeOK, Job
    <3> QED BY <2>2, <2>3, <3>1, NoneAssumption DEF Inv, TypeOK, Label
  <2>6. TracksOK' /\ EditsOK'
    BY <2>2, <2>3 DEF Inv, TypeOK, TracksOK, EditsOK, EditOK
  <2>7. JobsOK'
    BY <2>2, <2>3 DEF Inv, TypeOK, JobsOK, JobOK
  <2> QED BY <2>5, <2>6, <2>7 DEF Inv
<1>2. ASSUME NEW c \in Calls, Resolve(c) PROVE Inv'
  <2>1. PICK code \in Meant(job[c].request) :
          /\ job[c].confirmed => Bound(job[c].request, code) = job[c].token
          /\ job' = [job EXCEPT ![c].code = code]
    BY <1>2 DEF Resolve
  <2>2. /\ pc[c] = "resolve" /\ pc' = [pc EXCEPT ![c] = "open"]
        /\ UNCHANGED <<tracks, disk, edit, log, elsewhere>>
        /\ job[c] \in Job /\ JobOK(c) /\ job[c].request \in Requests
    BY <1>2, SessionTypes DEF Resolve
  <2>3. /\ code \in Builds \cup {NoBuild}
        /\ job[c].request.tool = "create" => code \in Builds
    BY <2>1, <2>2, MeantType DEF Inv
  <2>4. TypeOK'
    BY <2>1, <2>2, <2>3, NoneAssumption DEF Inv, TypeOK, Label, Job
  <2>5. TracksOK' /\ EditsOK'
    BY <2>1, <2>2 DEF Inv, TypeOK, TracksOK, EditsOK, EditOK
  <2>6. JobsOK'
    BY <2>1, <2>2, <2>3 DEF Inv, TypeOK, JobsOK, JobOK, Bound, Job
  <2> QED BY <2>4, <2>5, <2>6 DEF Inv
<1>3. ASSUME NEW c \in Calls, Reject(c) PROVE Inv'
  <2>1. /\ pc[c] = "resolve" /\ Tell({"rejected"}) /\ Return(c)
        /\ UNCHANGED <<tracks, disk, elsewhere>>
        /\ job[c].request \in Request
    BY <1>3, SessionTypes DEF Reject
  <2>2. TypeOK'
    <3>1. log' \subseteq Outcome
      BY <2>1, TellType DEF Outcome
    <3> QED BY <2>1, <3>1 DEF Inv, TypeOK, Return, Label
  <2>3. TracksOK' /\ JobsOK' /\ EditsOK'
    BY <2>1 DEF Inv, TypeOK, Return, TracksOK, JobsOK, JobOK, EditsOK, EditOK
  <2> QED BY <2>2, <2>3 DEF Inv
<1>4. ASSUME NEW c \in Calls, Open(c) PROVE Inv'
  <2>1. /\ pc[c] = "open" /\ pc' = [pc EXCEPT ![c] = "write"]
        /\ edit' = [edit EXCEPT ![c] = [copy |-> tracks, fresh |-> TRUE]]
        /\ UNCHANGED <<tracks, disk, job, log, elsewhere>>
    BY <1>4 DEF Open
  <2>2. TypeOK'
    <3>1. tracks \in App
      BY ServedIsRelease DEF Inv, TypeOK, App
    <3>2. edit'[c] \in Edit
      BY <2>1, <3>1 DEF Inv, TypeOK, Edit
    <3> QED BY <2>1, <3>2, NoneAssumption DEF Inv, TypeOK, Label
  <2>3. TracksOK' /\ JobsOK' /\ EditsOK'
    BY <2>1 DEF Inv, TypeOK, TracksOK, JobsOK, JobOK, EditsOK, EditOK
  <2> QED BY <2>2, <2>3 DEF Inv
<1>5. ASSUME NEW c \in Calls, Write(c) PROVE Inv'
  <2>1. /\ pc[c] = "write" /\ UNCHANGED <<tracks, disk, elsewhere>>
        /\ job[c] \in Job /\ JobOK(c) /\ job[c].request \in Request /\ edit[c] \in Edit
    BY <1>5, SessionTypes DEF Write
  <2>2. CASE Raise(c)
    BY <2>1, <2>2, RaiseKeeps
  <2>3. ASSUME job[c].request.tool = "halt", pc' = [pc EXCEPT ![c] = "blocked"],
               edit' = [edit EXCEPT ![c] = NoEdit], UNCHANGED <<job, log>>
        PROVE  Inv'
    <3>1. TypeOK'
      BY <2>1, <2>3 DEF Inv, TypeOK, Label
    <3>2. TracksOK' /\ JobsOK' /\ EditsOK'
      BY <2>1, <2>3 DEF Inv, TypeOK, TracksOK, JobsOK, JobOK, EditsOK, EditOK
    <3> QED BY <3>1, <3>2 DEF Inv
  <2>4. ASSUME NEW to \in Release, NEW rs \in SUBSET Release, Update(c, to, rs),
               Rewrites(job[c].request, job[c].decision,
                 edit[c].copy[job[c].request.track], rs),
               job[c].request.tool \in {"create", "promote"} =>
                 /\ to = BuildRelease(job[c].code, job[c].decision.status,
                                     job[c].decision.fraction)
                 /\ rs = {to}
        PROVE  Inv'
    <3>1. /\ edit' = [edit EXCEPT ![c].copy[job[c].request.track] = rs]
          /\ job' = IF job[c].confirmed THEN job ELSE [job EXCEPT ![c].to = to]
          /\ pc' = [pc EXCEPT ![c] = "validate"]
          /\ UNCHANGED log
      BY <2>4 DEF Update
    <3>2. TypeOK'
      <4>1. edit'[c] \in Edit
        BY <2>1, <3>1 DEF Inv, TypeOK, Edit, App, Request
      <4>2. job'[c] \in Job
        BY <2>1, <3>1 DEF Inv, TypeOK, Job
      <4> QED BY <2>1, <3>1, <4>1, <4>2, NoneAssumption DEF Inv, TypeOK, Label
    <3>3. TracksOK'
      BY <2>1 DEF Inv, TracksOK
    <3>4. JobsOK'
      <4>1. /\ edit'[c].copy[job[c].request.track] = rs
            /\ job'[c] = IF job[c].confirmed THEN job[c] ELSE [job[c] EXCEPT !.to = to]
            /\ pc'[c] = "validate"
        BY <2>1, <3>1 DEF Inv, TypeOK, Edit, App, Request
      <4>2. JobOK(c)'
        BY <2>1, <2>4, <4>1, ReleaseAssumption DEF JobOK, Job
      <4>3. ASSUME NEW e \in Calls, e # c, pc'[e] # "idle" PROVE JobOK(e)'
        BY <3>1, <4>3 DEF Inv, TypeOK, JobsOK, JobOK
      <4> QED BY <4>2, <4>3 DEF JobsOK
    <3>5. EditsOK'
      BY <2>1, <2>4, <3>1 DEF Inv, TypeOK, EditsOK, EditOK, Job, Edit, App, Request
    <3> QED BY <3>2, <3>3, <3>4, <3>5 DEF Inv
  <2> QED BY <1>5, <2>2, <2>3, <2>4, WriteCases
<1>6. ASSUME NEW c \in Calls, ReturnBlocked(c) PROVE Inv'
  <2>1. /\ pc[c] = "blocked" /\ Tell({"blocked", "executed"}) /\ Return(c)
        /\ UNCHANGED <<tracks, disk, elsewhere>>
        /\ job[c].request \in Request
    BY <1>6, SessionTypes DEF ReturnBlocked
  <2>2. TypeOK'
    <3>1. log' \subseteq Outcome
      BY <2>1, TellType DEF Outcome
    <3> QED BY <2>1, <3>1 DEF Inv, TypeOK, Return, Label
  <2>3. TracksOK' /\ JobsOK' /\ EditsOK'
    BY <2>1 DEF Inv, TypeOK, Return, TracksOK, JobsOK, JobOK, EditsOK, EditOK
  <2> QED BY <2>2, <2>3 DEF Inv
<1>7. ASSUME NEW c \in Calls, Discard(c) PROVE Inv'
  <2>1. /\ pc[c] = "validate" /\ ~ job[c].confirmed
        /\ job' = [job EXCEPT ![c].token = Bound(job[c].request, job[c].code)]
        /\ edit' = [edit EXCEPT ![c] = NoEdit]
        /\ pc' = [pc EXCEPT ![c] = "waiting"]
        /\ UNCHANGED <<tracks, disk, log, elsewhere>>
        /\ job[c] \in Job /\ JobOK(c)
    BY <1>7, SessionTypes DEF Discard
  <2>2. TypeOK'
    BY <2>1, NoneAssumption DEF Inv, TypeOK, Label, Job, Bound, JobOK
  <2>3. TracksOK' /\ EditsOK'
    BY <2>1 DEF Inv, TypeOK, TracksOK, EditsOK, EditOK
  <2>4. JobsOK'
    BY <2>1 DEF Inv, TypeOK, JobsOK, JobOK, Job, Bound
  <2> QED BY <2>2, <2>3, <2>4 DEF Inv
<1>8. ASSUME NEW c \in Calls, Validate(c) PROVE Inv'
  <2>1. /\ pc[c] = "validate" /\ job[c].confirmed /\ Valid(c)
        /\ pc' = [pc EXCEPT ![c] = "commit"]
        /\ UNCHANGED <<tracks, disk, job, edit, log, elsewhere>>
    BY <1>8 DEF Validate
  <2>2. TypeOK'
    BY <2>1 DEF Inv, TypeOK, Label
  <2>3. TracksOK' /\ JobsOK'
    BY <2>1 DEF Inv, TypeOK, TracksOK, JobsOK, JobOK
  <2>4. EditsOK'
    BY <2>1 DEF Inv, TypeOK, EditsOK, EditOK, Valid
  <2> QED BY <2>2, <2>3, <2>4 DEF Inv
<1>9. ASSUME NEW c \in Calls, Invalid(c) \/ LoseCommit(c) \/ Fail(c) PROVE Inv'
  BY <1>9, RaiseKeeps DEF Invalid, LoseCommit, Fail
<1>10. ASSUME NEW c \in Calls, Commit(c) PROVE Inv'
  <2>1. /\ pc[c] = "commit" /\ edit[c].fresh /\ tracks' = edit[c].copy
        /\ edit' = Outdate([edit EXCEPT ![c] = NoEdit])
        /\ job' = [job EXCEPT ![c] = NoJob]
        /\ pc' = [pc EXCEPT ![c] = "idle"]
        /\ Tell({"executed"}) \/ Tell({"failed"})
        /\ UNCHANGED <<disk, elsewhere>>
        /\ job[c].request \in Request /\ edit[c] \in Edit
    BY <1>10, SessionTypes DEF Commit
  <2>2. \A t \in Tracks : /\ Distinct(tracks'[t]) /\ PlayAccepts(tracks'[t])
                         /\ tracks'[t] \subseteq Served
    BY <1>10, CommitKeeps
  <2>3. \A d \in Calls : edit'[d] # NoEdit =>
          /\ d # c /\ edit'[d] \in Edit /\ ~ edit'[d].fresh /\ edit[d] # NoEdit
          /\ edit'[d].copy = edit[d].copy
    BY <2>1, NoneAssumption DEF Inv, TypeOK, Outdate, Edit
  <2>4. \A d \in Calls : d # c /\ edit[d] # NoEdit => edit'[d] # NoEdit
    BY <2>1, NoneAssumption DEF Inv, TypeOK, Outdate, Edit
  <2>5. TypeOK'
    <3>1. edit' \in [Calls -> Edit \cup {NoEdit}]
      BY <2>1, <2>3 DEF Outdate
    <3>2. tracks' \in [Tracks -> SUBSET Served]
      BY <2>1, <2>2 DEF Edit, App
    <3>3. log' \subseteq Outcome
      BY <2>1, TellType DEF Outcome
    <3> QED BY <2>1, <2>3, <2>4, <3>1, <3>2, <3>3 DEF Inv, TypeOK, Label
  <2>6. TracksOK'
    BY <2>2 DEF TracksOK
  <2>7. EditsOK'
    BY <2>1, <2>3, <2>5 DEF EditsOK, TypeOK
  <2>8. JobsOK'
    <3>1. ASSUME NEW d \in Calls, pc'[d] # "idle"
          PROVE  JobOK(d)'
      <4>1. d # c /\ pc'[d] = pc[d] /\ job'[d] = job[d] /\ JobOK(d)
        BY <2>1, <3>1 DEF Inv, TypeOK, JobsOK
      <4>2. pc[d] \in {"validate", "commit"} => edit'[d].copy = edit[d].copy
        BY <2>3, <2>4, <4>1 DEF Inv, TypeOK
      <4> QED BY <4>1, <4>2 DEF JobOK
    <3> QED BY <3>1 DEF JobsOK
  <2> QED BY <2>5, <2>6, <2>7, <2>8 DEF Inv
<1>11. ASSUME NEW c \in Calls, Confirm(c) PROVE Inv'
  <2>1. /\ pc[c] = "waiting" /\ pc' = [pc EXCEPT ![c] = "resolve"]
        /\ job' = [job EXCEPT ![c].confirmed = TRUE]
        /\ UNCHANGED <<tracks, disk, edit, log, elsewhere>>
        /\ job[c] \in Job /\ JobOK(c)
    BY <1>11, SessionTypes DEF Confirm
  <2>2. TypeOK'
    BY <2>1, NoneAssumption DEF Inv, TypeOK, Label, Job
  <2>3. TracksOK' /\ JobsOK' /\ EditsOK'
    BY <2>1 DEF Inv, TypeOK, TracksOK, JobsOK, JobOK, Job, EditsOK, EditOK
  <2> QED BY <2>2, <2>3 DEF Inv
<1>12. ASSUME NEW c \in Calls, Abandon(c) PROVE Inv'
  <2>1. /\ pc[c] = "waiting" /\ Return(c)
        /\ UNCHANGED <<tracks, disk, log, elsewhere>>
    BY <1>12 DEF Abandon
  <2>2. TypeOK'
    BY <2>1 DEF Inv, TypeOK, Return, Label
  <2>3. TracksOK' /\ JobsOK' /\ EditsOK'
    BY <2>1 DEF Inv, TypeOK, Return, TracksOK, JobsOK, JobOK, EditsOK, EditOK
  <2> QED BY <2>2, <2>3 DEF Inv
<1>13. ASSUME ReleaseElsewhere PROVE Inv'
  <2>1. PICK t \in Tracks : \E rs \in Published[t] : tracks' = [tracks EXCEPT ![t] = rs]
    BY <1>13 DEF ReleaseElsewhere
  <2>2. PICK rs \in Published[t] : tracks' = [tracks EXCEPT ![t] = rs]
    BY <2>1
  <2>3. /\ elsewhere < MaxElsewhere /\ elsewhere' = elsewhere + 1
        /\ edit' = Outdate(edit) /\ UNCHANGED <<disk, pc, job, log>>
    BY <1>13 DEF ReleaseElsewhere
  <2>4. \A d \in Calls :
          /\ edit[d] # NoEdit => /\ edit'[d] \in Edit /\ ~ edit'[d].fresh
                                /\ edit'[d].copy = edit[d].copy
          /\ edit[d] = NoEdit => edit'[d] = NoEdit
    BY <2>3 DEF Inv, TypeOK, Outdate, Edit
  <2>5. rs \in SUBSET Served /\ Distinct(rs) /\ PlayAccepts(rs)
    BY ReleaseAssumption
  <2>6. TypeOK'
    <3>1. edit' \in [Calls -> Edit \cup {NoEdit}]
      BY <2>3, <2>4 DEF Outdate
    <3>2. elsewhere' \in 0..MaxElsewhere
      BY <2>3, ReleaseAssumption DEF Inv, TypeOK
    <3>3. \A d \in Calls : edit'[d] # NoEdit <=> edit[d] # NoEdit
      BY <2>4, NoneAssumption
    <3> QED BY <2>2, <2>3, <2>5, <3>1, <3>2, <3>3 DEF Inv, TypeOK
  <2>7. TracksOK'
    BY <2>2, <2>5 DEF Inv, TypeOK, TracksOK
  <2>8. EditsOK'
    BY <2>3, <2>4 DEF Inv, TypeOK, EditsOK
  <2>9. JobsOK'
    BY <2>3, <2>4 DEF Inv, TypeOK, JobsOK, JobOK
  <2> QED BY <2>6, <2>7, <2>8, <2>9 DEF Inv
<1>14. ASSUME Rebuild \/ UNCHANGED vars PROVE Inv'
  <2>1. disk' \in Bundles /\ UNCHANGED <<tracks, pc, job, edit, log, elsewhere>>
    BY <1>14 DEF Rebuild, vars, Inv, TypeOK
  <2> QED
    BY <2>1 DEF Inv, TypeOK, TracksOK, JobsOK, JobOK, EditsOK, EditOK
<1> QED
  BY <1>1, <1>2, <1>3, <1>4, <1>5, <1>6, <1>7, <1>8, <1>9, <1>10, <1>11, <1>12,
     <1>13, <1>14 DEF Next, Step

\* So it always holds.
LEMMA InvAlways == Spec => []Inv
BY InvInit, InvNext, PTL DEF Spec

-----------------------------------------------------------------------------
(***************************************************************************)
(* The theorems.                                                           *)
(***************************************************************************)
\* Type correctness: in particular an edit is open exactly between its insert
\* and its end, and Play serves only releases of shares it knows.
THEOREM ReleaseTypes == Spec => []TypeOK
<1>1. Inv => TypeOK
  BY DEF Inv
<1> QED BY <1>1, InvAlways, PTL

\* publisher.replace_release never leaves a build behind: whatever sessions
\* and others do, no track lists a version code twice.
THEOREM BuildsStayDistinct == Spec => []OneReleasePerBuild
<1>1. Inv => OneReleasePerBuild
  BY DEF Inv, TracksOK, OneReleasePerBuild
<1> QED BY <1>1, InvAlways, PTL

\* Only Commit ends in a commit.
LEMMA CommitsIsCommit ==
  ASSUME Inv, [Next]_vars, NEW c \in Calls, Commits(c)
  PROVE  Commit(c)
BY DEF Inv, TypeOK, Next, Step, Commits, Begin, Resolve, Reject, Open, Write, ReturnBlocked,
   Discard, Validate, Invalid, Commit, LoseCommit, Fail, Confirm, Abandon, ReleaseElsewhere,
   Rebuild, vars, Raise, Return, Goto

\* Tracks change by a commit or by someone else.
LEMMA OnlyCommitsChange ==
  ASSUME [Next]_vars
  PROVE  \/ UNCHANGED <<tracks, elsewhere>>
         \/ \E c \in Calls : Commit(c)
         \/ ReleaseElsewhere
BY DEF Next, Step, Begin, Resolve, Reject, Open, Write, ReturnBlocked, Discard, Validate,
   Invalid, LoseCommit, Fail, Confirm, Abandon, Rebuild, vars

\* docs/SECURITY.md G3 and G6 for any number of sessions: a confirmed
\* create_release or promote_release leaves on its track the very release its
\* preview displayed, whatever happened in between.
THEOREM ShownIsShipped == Spec => ShipsWhatWasShown
<1>1. ASSUME Inv, [Next]_vars, NEW c \in Calls, Commits(c),
             job[c].request.tool \in {"create", "promote"}
      PROVE  job[c].confirmed /\ tracks'[job[c].request.track] = {job[c].to}
  <2>1. Commit(c)
    BY <1>1, CommitsIsCommit
  <2> QED BY <1>1, <2>1, CommitCases DEF JobOK, Commit
<1>2. Inv /\ [Next]_vars =>
        [\A c \in Calls :
           Commits(c) /\ job[c].request.tool \in {"create", "promote"} =>
             /\ job[c].confirmed
             /\ tracks'[job[c].request.track] = {job[c].to}]_vars
  BY <1>1
<1> QED BY <1>2, InvAlways, PTL DEF Spec, ShipsWhatWasShown

\* halt_rollout finds nothing to halt only where nothing is in progress.
THEOREM HaltsReachTheRollout == Spec => HaltReachesTheRollout
<1>1. ASSUME Inv, [Next]_vars, NEW c \in Calls, pc[c] = "write", pc'[c] = "blocked",
             NEW r \in edit[c].copy[job[c].request.track]
      PROVE  r.status # "inProgress"
  <2>1. ASSUME NEW d \in Calls, Write(d) PROVE d = c
    BY <1>1, <2>1, WriteCases DEF Update, Raise, Return, Goto, Inv, TypeOK
  <2>2. Write(c)
    BY <1>1, <2>1 DEF Inv, TypeOK, Next, Step, Begin, Resolve, Reject, Open, ReturnBlocked,
       Discard, Validate, Invalid, Commit, LoseCommit, Fail, Confirm, Abandon,
       ReleaseElsewhere, Rebuild, vars, Raise, Return, Goto
  <2>3. \E live \in Live(edit[c].copy[job[c].request.track]) : ~ Haltable(live)
    BY <1>1, <2>2, WriteCases DEF Update, Raise, Return, Goto, Inv, TypeOK
  <2>4. job[c].request \in Request /\ edit[c] \in Edit
    BY <1>1, SessionTypes
  <2>5. edit[c].copy[job[c].request.track] \in SUBSET Release
    BY <2>4 DEF Edit, App, Request
  <2> QED BY <1>1, <2>3, <2>5, ReleaseAssumption
          DEF Live, CurrentRelease, Haltable, Rank, Release, Status
<1>2. Inv /\ [Next]_vars =>
        [\A c \in Calls :
           pc[c] = "write" /\ pc'[c] = "blocked" =>
             \A r \in edit[c].copy[job[c].request.track] : r.status # "inProgress"]_vars
  BY <1>1
<1> QED BY <1>2, InvAlways, PTL DEF Spec, HaltReachesTheRollout

\* What a commit does to production, however it came about.
LEMMA CommitStaysStaged ==
  ASSUME Inv, NEW c \in Calls, Commit(c), job[c].request.tool # "expand",
         NEW t \in Production, NEW r \in tracks'[t]
  PROVE  \/ Share(r) <= Ceiling
         \/ \E s \in tracks[t] : s.code = r.code /\ Share(s) >= Share(r)
<1> DEFINE q == job[c].request
           d == job[c].decision
<1>1. t \in Tracks
  BY PolicyAssumption
<1>2. ASSUME r \in tracks[t] PROVE \E s \in tracks[t] : s.code = r.code /\ Share(s) >= Share(r)
  <2>1. r \in Served /\ (r.status = "inProgress" => r.fraction \in Int)
    BY <1>1, <1>2, SharesAreNumbers DEF Inv, TypeOK, TracksOK, PlayAccepts
  <2>2. Share(r) \in Int
    BY <2>1 DEF Share
  <2> QED BY <1>2, <2>2
<1>3. CASE t # q.track
  BY <1>1, <1>2, <1>3, CommitCases
<1>4. CASE t = q.track /\ q.tool \in Releasing
  <2>1. PICK code \in Builds : r = BuildRelease(code, d.status, d.fraction)
    BY <1>4, CommitCases DEF Rewrites, Releasing
  <2>2. \/ d.status \in {"draft", "halted"}
        \/ d.status = "inProgress" /\ d.fraction \in 1..Ceiling
    BY <1>4, CommitCases, PolicyStartsSmall DEF JobOK
  <2> QED BY <2>1, <2>2, CeilingRange DEF BuildRelease, Share
<1>5. CASE t = q.track /\ q.tool \notin Releasing
  <2>1. PICK live \in CurrentRelease(tracks[t]) :
          tracks'[t] = ReplaceRelease(tracks[t], live, BuildRelease(live.code, "halted", live.fraction))
    BY <1>5, CommitCases DEF Rewrites
  <2>2. CASE r = BuildRelease(live.code, "halted", live.fraction)
    BY <2>2, CeilingRange DEF BuildRelease, Share
  <2>3. CASE r \in tracks[t]
    BY <1>2, <2>3
  <2> QED BY <2>1, <2>2, <2>3 DEF ReplaceRelease
<1> QED BY <1>3, <1>4, <1>5

\* docs/SECURITY.md G7 for any ceiling, any requests and any sequence of
\* sessions: no step but an expansion takes a build beyond the ceiling.
THEOREM ProductionIsStaged == Spec => StagedProduction
<1>1. ASSUME Inv, [Next]_vars, NEW t \in Production, NEW r \in tracks'[t]
      PROVE  \/ Share(r) <= Ceiling
             \/ \E s \in tracks[t] : s.code = r.code /\ Share(s) >= Share(r)
             \/ elsewhere' # elsewhere
             \/ \E c \in Calls : Commits(c) /\ job[c].request.tool = "expand"
  <2>1. CASE tracks' = tracks
    <3>1. r \in Served /\ (r.status = "inProgress" => r.fraction \in Int)
      BY <1>1, <2>1, PolicyAssumption, SharesAreNumbers DEF Inv, TypeOK, TracksOK, PlayAccepts
    <3> QED BY <1>1, <2>1, <3>1 DEF Share
  <2>2. CASE tracks' # tracks /\ \E c \in Calls : Commit(c)
    BY <1>1, <2>2, CommitStaysStaged DEF Commit, Commits, Goto, Inv, TypeOK
  <2>3. CASE ReleaseElsewhere
    BY <1>1, <2>3 DEF ReleaseElsewhere, Inv, TypeOK
  <2> QED BY <1>1, <2>1, <2>2, <2>3, OnlyCommitsChange
<1>2. Inv /\ [Next]_vars =>
        [\A t \in Production : \A r \in tracks'[t] :
           \/ Share(r) <= Ceiling
           \/ \E s \in tracks[t] : s.code = r.code /\ Share(s) >= Share(r)
           \/ elsewhere' # elsewhere
           \/ \E c \in Calls : Commits(c) /\ job[c].request.tool = "expand"]_vars
  BY <1>1
<1> QED BY <1>2, InvAlways, PTL DEF Spec, StagedProduction

-----------------------------------------------------------------------------
(***************************************************************************)
(* The sessions keep the rollout contract.                                 *)
(***************************************************************************)
\* A commit that changes the tracks is a step of the contract.
LEMMA CommitIsOperate ==
  ASSUME Inv, NEW c \in Calls, Commit(c), tracks' # tracks
  PROVE  Contract!Operate
<1> DEFINE q == job[c].request
           d == job[c].decision
           t == q.track
<1>1. /\ q \in Request /\ q \in Requests /\ d \in PolicyFor(q) /\ d \in Decision /\ t \in Tracks
      /\ Rewrites(q, d, tracks[t], tracks'[t])
      /\ tracks'[t] \subseteq Served /\ PlayAccepts(tracks'[t])
  BY CommitCases, SessionTypes DEF JobOK, Request, Commit
<1>2. tracks' = [tracks EXCEPT ![t] = tracks'[t]]
  BY <1>1, CommitCases DEF Inv, TypeOK, App
<1>3. Distinct(tracks[t]) /\ PlayAccepts(tracks[t]) /\ tracks[t] \subseteq Served
  BY <1>1 DEF Inv, TypeOK, TracksOK
<1>4. CASE q.tool \in Releasing
  <2>1. PICK code \in Builds : tracks'[t] = {BuildRelease(code, d.status, d.fraction)}
    BY <1>1, <1>4 DEF Rewrites, Releasing
  <2> DEFINE r == BuildRelease(code, d.status, d.fraction)
  <2>2. r \in Served /\ tracks' = [tracks EXCEPT ![t] = {r}]
    BY <1>1, <1>2, <2>1
  <2>3. t \in Production =>
          \/ r.status \in {"draft", "halted"}
          \/ r.status = "inProgress" /\ r.fraction \in 1..Ceiling
    BY <1>1, <1>4, PolicyStartsSmall DEF BuildRelease
  <2>4. Contract!Publish(t)
    BY <2>2, <2>3 DEF Contract!Publish
  <2> QED BY <1>1, <2>4 DEF Contract!Operate
<1>5. CASE q.tool = "expand"
  <2>1. PICK live \in CurrentRelease(tracks[t]) :
          /\ Widens(live, q)
          /\ tracks'[t] = ReplaceRelease(tracks[t], live, BuildRelease(live.code, d.status, d.fraction))
    BY <1>1, <1>5 DEF Rewrites, Releasing
  <2> DEFINE new == BuildRelease(live.code, d.status, d.fraction)
  <2>2. live \in tracks[t] /\ new.code = live.code
    BY <2>1 DEF CurrentRelease, BuildRelease
  <2>3. tracks'[t] = (tracks[t] \ {live}) \cup {new}
    BY <1>3, <2>1, <2>2, ReplaceReleaseSwaps
  <2>4. new \in Served /\ (new.status = "inProgress" => new.fraction \in Shares \ {0})
    BY <1>1, <2>3 DEF PlayAccepts
  <2>5. Contract!Swap(t, live, new)
    BY <1>2, <2>3 DEF Contract!Swap
  <2>6. d \in DecideExpansion(q.fraction)
    BY <1>1, <1>5, PolicyCases DEF Request
  <2>7. \/ new.status = "completed"
        \/ /\ new.status = "inProgress"
           /\ new.fraction \in 1..99
           /\ live.fraction = NoFraction \/ new.fraction > live.fraction
    BY <2>1, <2>6, ExpansionCases DEF InRange, Decided, BuildRelease, Widens
  <2>8. Contract!Widen(t)
    BY <2>1, <2>2, <2>4, <2>5, <2>7 DEF Contract!Widen, Widens
  <2> QED BY <1>1, <2>8 DEF Contract!Operate
<1>6. CASE q.tool = "halt"
  <2>1. PICK live \in CurrentRelease(tracks[t]) :
          /\ Haltable(live)
          /\ tracks'[t] = ReplaceRelease(tracks[t], live, BuildRelease(live.code, "halted", live.fraction))
    BY <1>1, <1>6 DEF Rewrites, Releasing
  <2> DEFINE new == BuildRelease(live.code, "halted", live.fraction)
  <2>2. live \in tracks[t] /\ new.code = live.code /\ live \in Served
    BY <1>3, <2>1 DEF CurrentRelease, BuildRelease
  <2>3. tracks'[t] = (tracks[t] \ {live}) \cup {new}
    BY <1>3, <2>1, <2>2, ReplaceReleaseSwaps
  <2>4. new = [live EXCEPT !.status = "halted"]
    BY <2>2 DEF BuildRelease, Served
  <2>5. Contract!Swap(t, live, [live EXCEPT !.status = "halted"])
    BY <1>2, <2>3, <2>4 DEF Contract!Swap
  <2>6. live.status \in {"inProgress", "draft"}
    BY <2>1, <2>2 DEF Haltable, Served, Status
  <2>7. Contract!Halt(t)
    BY <2>2, <2>5, <2>6 DEF Contract!Halt
  <2> QED BY <1>1, <2>7 DEF Contract!Operate
<1> QED BY <1>1, <1>4, <1>5, <1>6 DEF Rewrites

\* The tools of any number of sessions implement RolloutContract: all that a
\* user of StorePilot may see happen to the tracks, besides what others do.
THEOREM SessionsKeepTheContract == Spec => ImplementsRolloutContract
<1>1. Inv => Contract!Init
  BY DEF Inv, TypeOK, Contract!Init
<1>2. Inv /\ [Next]_vars => [Contract!Next]_<<tracks, elsewhere>>
  <2> SUFFICES ASSUME Inv, [Next]_vars
               PROVE  Contract!Next \/ UNCHANGED <<tracks, elsewhere>>
    OBVIOUS
  <2>1. ASSUME NEW c \in Calls, Commit(c), tracks' # tracks PROVE Contract!Next
    BY <2>1, CommitIsOperate DEF Commit, Contract!Next
  <2>2. CASE ReleaseElsewhere
    BY <2>2 DEF ReleaseElsewhere, Contract!Next
  <2>3. CASE \E c \in Calls : Commit(c) /\ tracks' = tracks
    BY <2>3 DEF Commit
  <2> QED BY <2>1, <2>2, <2>3, OnlyCommitsChange
<1> QED BY <1>1, <1>2, InvInit, InvAlways, PTL DEF Spec, ImplementsRolloutContract, Contract!Spec

=============================================================================
