---------------------------- MODULE PlayRelease ----------------------------
(***************************************************************************)
(* Releases on Google Play: the PlayEdit transaction of                    *)
(* google_play/publisher.py and the tools of google_play/tools_write.py    *)
(* that upload, create, promote, expand and halt releases with it.         *)
(*                                                                         *)
(* A session is one use of a tool: a preview call that rehearses the write *)
(* in an edit it throws away and returns a token, then perhaps a confirm   *)
(* call that brings the token back and writes for real.  halt_rollout      *)
(* writes at once.  Sessions interleave with each other, with whoever else *)
(* releases this app (Play Console, a CI job) and with rebuilds of the     *)
(* bundle on disk.                                                         *)
(*                                                                         *)
(* The gate is used at its contract, which ConfirmationGate establishes: a *)
(* token is good once, for the operation it was issued for.  The arguments *)
(* of a session's two calls are the same, so what the gate compares is the *)
(* part of the fingerprint the tool derives, the build (see Bound).        *)
(*                                                                         *)
(* A track is the set of its releases; which of two releases of the same   *)
(* rank comes first is left open.  The version codes of a release are one  *)
(* value, notes and names are left out.                                    *)
(*                                                                         *)
(* Play itself is external: an edit is a copy of the app taken at insert,  *)
(* its commit replaces the app by the copy, and is refused when something  *)
(* else was committed since.                                               *)
(***************************************************************************)
EXTENDS RolloutPolicy

CONSTANTS
  Calls,         \* sessions that may be open at a time
  Builds,        \* version codes
  Bundles,       \* those the bundle file on disk may hold
  Published,     \* configurations others put on each track
  Requests,      \* the arguments sessions are started with
  MaxElsewhere,  \* bound on the changes others make
  Shares,        \* percentages Play knows; all of 0..99 but for TLC
  NoBuild, NoRelease, NoJob, NoEdit

Tool == {"upload", "create", "promote", "expand", "halt"}

Release == [code : Builds, status : Status, fraction : Int \cup {NoFraction}]

\* Those that may stand on a track; Play refuses the shares of others.
Served == [code : Builds, status : Status, fraction : Shares \cup {NoFraction}]

Request ==
  [tool : Tool, track : Tracks, from : Tracks, code : Builds \cup {NoBuild},
   fraction : Int \cup {NoFraction}, status : Status \cup {NoStatus}]

App == [Tracks -> SUBSET Release]

\* Play identifies a release of a track by its version codes.
Distinct(rs) == \A r, s \in rs : r.code = s.code => r = s

\* What edits.validate lets through: the field combinations Play accepts.
PlayAccepts(rs) ==
  \A r \in rs :
    /\ r.status = "inProgress" => r.fraction \in Shares \ {0}
    /\ r.status = "halted" => r.fraction \in Shares \cup {NoFraction}
    /\ r.status \in {"draft", "completed"} => r.fraction = NoFraction

ASSUME ReleaseAssumption ==
  /\ Published \in [Tracks -> SUBSET SUBSET Served]
  /\ \A t \in Tracks : \A rs \in Published[t] : Distinct(rs) /\ PlayAccepts(rs)
  /\ Bundles \subseteq Builds
  /\ Requests \subseteq Request
  /\ \A q \in Requests : q.tool = "create" => q.code \in Builds
  /\ MaxElsewhere \in Nat
  /\ Shares \subseteq 0..99
  /\ NoBuild \notin Builds
  /\ NoRelease \notin Release

Outcome == {"rejected", "blocked", "executed", "failed"}

Edit == [copy : App, fresh : BOOLEAN]

Job ==
  [request : Requests, decision : Decision, confirmed : BOOLEAN,
   code : Builds \cup {NoBuild}, token : Builds \cup {NoBuild},
   to : Release \cup {NoRelease}]

Label == {"idle", "resolve", "open", "write", "validate", "commit",
          "blocked", "waiting"}

ASSUME NoneAssumption == NoJob \notin Job /\ NoEdit \notin Edit

VARIABLES
  tracks,     \* the app's tracks as committed
  disk,       \* the build in the bundle file uploads name
  pc,         \* where a session stands
  job,        \* request, policy decision, leg and derived build of a session;
              \* to is the release its preview said would result
  edit,       \* the edit a session has open
  log,        \* what the last call to end left in audit.log, which nothing
              \* reads
  elsewhere   \* changes others have made

vars == <<tracks, disk, pc, job, edit, log, elsewhere>>

Goto(c, label) == pc' = [pc EXCEPT ![c] = label]

Tell(outcomes) == log' = outcomes

Mutant_Return(c) ==
  /\ Goto(c, "idle")
  /\ job' = [job EXCEPT ![c] = NoJob]
  /\ UNCHANGED edit

\* The session is over; an edit still open is deleted.
Return(c) ==
  /\ Goto(c, "idle")
  /\ job' = [job EXCEPT ![c] = NoJob]
  /\ edit' = [edit EXCEPT ![c] = NoEdit]

(***************************************************************************)
(* A call raises.  Inside audit_execution, where only the confirmed leg    *)
(* opens an edit, that is recorded; PlayEdit deletes the edit on the way.  *)
(***************************************************************************)
Raise(c) ==
  /\ IF job[c].confirmed /\ pc[c] # "resolve"
       THEN Tell({"failed"})
       ELSE UNCHANGED log
  /\ Return(c)

-----------------------------------------------------------------------------
(***************************************************************************)
(* Reading and rewriting a track.                                          *)
(***************************************************************************)

\* The rank current_release sorts by: the release being served comes first.
Rank == [inProgress |-> 0, completed |-> 1, halted |-> 2, draft |-> 3]

Mutant_CurrentRelease(rs) ==
  {r \in rs : \A s \in rs : (r.status = "completed") \/ (s.status # "completed")}

CurrentRelease(rs) ==
  {r \in rs : \A s \in rs : Rank[r.status] <= Rank[s.status]}

\* The tool's view of the live release; NoRelease if the track has none.
Live(rs) == IF rs = {} THEN {NoRelease} ELSE CurrentRelease(rs)

\* A share goes only with a release that is being rolled out or was halted.
BuildRelease(code, status, fraction) ==
  [code |-> code, status |-> status,
   fraction |-> IF status \in {"inProgress", "halted"} THEN fraction ELSE NoFraction]

Mutant_ReplaceRelease(rs, target, replacement) == {replacement}

Mutant_KeepTarget(rs, target, replacement) == rs \cup {replacement}

ReplaceRelease(rs, target, replacement) ==
  {r \in rs : r.code # target.code} \cup {replacement}

-----------------------------------------------------------------------------
(***************************************************************************)
(* Starting a call.  A request the policy refuses leaves no trace, so only *)
(* decided ones are begun.                                                 *)
(***************************************************************************)
PolicyFor(q) ==
  CASE q.tool = "upload" -> Decide(q.track, NoFraction, NoStatus)
    [] q.tool = "create" -> Decide(q.track, q.fraction, q.status)
    [] q.tool = "promote" ->
         IF q.from = q.track THEN {} ELSE Decide(q.track, q.fraction, NoStatus)
    [] q.tool = "expand" -> DecideExpansion(q.fraction)
    [] q.tool = "halt" -> Decided("halted", NoFraction)

Begin(c) ==
  /\ pc[c] = "idle"
  /\ \E q \in Requests : \E d \in PolicyFor(q) :
       /\ job' = [job EXCEPT ![c] =
            [request |-> q, decision |-> d, confirmed |-> q.tool = "halt",
             code |-> NoBuild, token |-> NoBuild, to |-> NoRelease]]
       /\ Goto(c, IF q.tool = "halt" THEN "open" ELSE "resolve")
  /\ UNCHANGED <<tracks, disk, edit, log, elsewhere>>

\* inspect_aab: the digest of the bundle file, which stands for the build in it.
Digest == disk

\* The builds a request may mean when it is looked at: the bundle's digest,
\* the codes given, or those live on the track promoted from (read_track).
Meant(q) ==
  CASE q.tool = "upload" -> {Digest}
    [] q.tool = "create" -> {q.code}
    [] q.tool = "promote" -> {r.code : r \in CurrentRelease(tracks[q.from])}
    [] q.tool \in {"expand", "halt"} -> {NoBuild}

Mutant_Bound(q, code) == IF q.tool = "promote" THEN NoBuild ELSE code

\* What the operation's params bind of the build: for an expansion, nothing.
Bound(q, code) == IF q.tool = "expand" THEN NoBuild ELSE code

(***************************************************************************)
(* The part of a tool before its writes: it derives the build, and on the  *)
(* confirmed leg require_confirmation refuses a token bound to another.    *)
(***************************************************************************)
Resolve(c) ==
  /\ pc[c] = "resolve"
  /\ \E code \in Meant(job[c].request) :
       /\ job[c].confirmed => Bound(job[c].request, code) = job[c].token
       /\ job' = [job EXCEPT ![c].code = code]
  /\ Goto(c, "open")
  /\ UNCHANGED <<tracks, disk, edit, log, elsewhere>>

Reject(c) ==
  /\ pc[c] = "resolve"
  /\ job[c].confirmed
  /\ \E code \in Meant(job[c].request) : Bound(job[c].request, code) # job[c].token
  /\ Tell({"rejected"})
  /\ Return(c)
  /\ UNCHANGED <<tracks, disk, elsewhere>>

\* PlayEdit.__enter__
Open(c) ==
  /\ pc[c] = "open"
  /\ edit' = [edit EXCEPT ![c] = [copy |-> tracks, fresh |-> TRUE]]
  /\ Goto(c, "write")
  /\ UNCHANGED <<tracks, disk, job, log, elsewhere>>

\* A request to Play fails, before anything was committed.
Fail(c) ==
  /\ pc[c] \in {"resolve", "open", "write", "validate"}
  /\ Raise(c)
  /\ UNCHANGED <<tracks, disk, elsewhere>>

-----------------------------------------------------------------------------
(***************************************************************************)
(* The bodies of run(): what each tool does to its edit.  The release it   *)
(* makes is what a preview of it displays.                                 *)
(***************************************************************************)
Update(c, to, rs) ==
  LET t == job[c].request.track IN
  /\ edit' = [edit EXCEPT ![c].copy[t] = rs]
  /\ job' = IF job[c].confirmed THEN job
            ELSE [job EXCEPT ![c].to = to]
  /\ Goto(c, "validate")
  /\ UNCHANGED log

\* set_release makes one release all that the track serves.
SetRelease(c, code) ==
  LET to == BuildRelease(code, job[c].decision.status, job[c].decision.fraction)
  IN  Update(c, to, {to})

\* PlayEdit.upload_bundle opens the file again by its path, and Play answers
\* with the code in it.
UploadBundle == disk

WriteUpload(c) ==
  /\ job[c].request.tool = "upload"
  /\ SetRelease(c, UploadBundle)

WriteCreate(c) ==
  /\ job[c].request.tool = "create"
  /\ SetRelease(c, job[c].code)

\* The source track is read again inside the edit and must not have changed.
WritePromote(c) ==
  /\ job[c].request.tool = "promote"
  /\ \E r \in CurrentRelease(edit[c].copy[job[c].request.from]) :
       IF r.code = job[c].code THEN SetRelease(c, r.code) ELSE Raise(c)

\* The source track has no active release any more.
MissSource(c) ==
  /\ job[c].request.tool = "promote"
  /\ edit[c].copy[job[c].request.from] = {}
  /\ Raise(c)

\* expand_rollout goes on only with a staged rollout that it would widen.
Widens(live, q) ==
  /\ live # NoRelease
  /\ live.status \in {"inProgress", "halted"}
  /\ live.fraction = NoFraction \/ q.fraction > live.fraction

WriteExpand(c) ==
  LET q == job[c].request
      d == job[c].decision
      rs == edit[c].copy[q.track]
  IN  /\ q.tool = "expand"
      /\ \E live \in Live(rs) :
           IF Widens(live, q)
             THEN LET to == BuildRelease(live.code, d.status, d.fraction)
                  IN  Update(c, to, ReplaceRelease(rs, live, to))
             ELSE Raise(c)

\* Nothing to halt: discard() the edit, and go on as if nothing happened.
Haltable(live) == live # NoRelease /\ live.status \notin {"halted", "completed"}

WriteHalt(c) ==
  LET q == job[c].request
      rs == edit[c].copy[q.track]
  IN  /\ q.tool = "halt"
      /\ \E live \in Live(rs) :
           IF Haltable(live)
             THEN LET to == BuildRelease(live.code, "halted", live.fraction)
                  IN  Update(c, to, ReplaceRelease(rs, live, to))
             ELSE /\ Goto(c, "blocked")
                  /\ edit' = [edit EXCEPT ![c] = NoEdit]
                  /\ UNCHANGED <<job, log>>

Write(c) ==
  /\ pc[c] = "write"
  /\ \/ WriteUpload(c)
     \/ WriteCreate(c)
     \/ WritePromote(c)
     \/ MissSource(c)
     \/ WriteExpand(c)
     \/ WriteHalt(c)
  /\ UNCHANGED <<tracks, disk, elsewhere>>

\* halt_rollout records that it was blocked and returns; unguarded() then
\* closes as it does after any normal return.
ReturnBlocked(c) ==
  /\ pc[c] = "blocked"
  /\ Tell({"blocked", "executed"})
  /\ Return(c)
  /\ UNCHANGED <<tracks, disk, elsewhere>>

-----------------------------------------------------------------------------
(***************************************************************************)
(* PlayEdit.__exit__: validate, then delete the rehearsal or commit.       *)
(***************************************************************************)
Valid(c) == PlayAccepts(edit[c].copy[job[c].request.track])

\* The end of a preview: the edit is deleted and the token handed out.
Discard(c) ==
  /\ pc[c] = "validate"
  /\ ~job[c].confirmed
  /\ Valid(c)
  /\ job' = [job EXCEPT ![c].token = Bound(job[c].request, job[c].code)]
  /\ edit' = [edit EXCEPT ![c] = NoEdit]
  /\ Goto(c, "waiting")
  /\ UNCHANGED <<tracks, disk, log, elsewhere>>

Validate(c) ==
  /\ pc[c] = "validate"
  /\ job[c].confirmed
  /\ Valid(c)
  /\ Goto(c, "commit")
  /\ UNCHANGED <<tracks, disk, job, edit, log, elsewhere>>

\* edits.validate turns the edit down.
Invalid(c) ==
  /\ pc[c] = "validate"
  /\ ~Valid(c)
  /\ Raise(c)
  /\ UNCHANGED <<tracks, disk, elsewhere>>

\* Every other open edit is of an app that is no more.
Outdate(es) ==
  [c \in Calls |-> IF es[c] = NoEdit THEN NoEdit ELSE [es[c] EXCEPT !.fresh = FALSE]]

\* The commit lands and its answer arrives, or the answer is lost: the
\* delete that follows is refused, and the tool reports an error.
Commit(c) ==
  /\ pc[c] = "commit"
  /\ edit[c].fresh
  /\ tracks' = edit[c].copy
  /\ edit' = Outdate([edit EXCEPT ![c] = NoEdit])
  /\ job' = [job EXCEPT ![c] = NoJob]
  /\ Goto(c, "idle")
  /\ Tell({"executed"}) \/ Tell({"failed"})
  /\ UNCHANGED <<disk, elsewhere>>

\* The commit is refused, the edit being outdated, or never reaches Play.
LoseCommit(c) ==
  /\ pc[c] = "commit"
  /\ Raise(c)
  /\ UNCHANGED <<tracks, disk, elsewhere>>

-----------------------------------------------------------------------------
(***************************************************************************)
(* Between the legs, and around the sessions.                              *)
(***************************************************************************)
Confirm(c) ==
  /\ pc[c] = "waiting"
  /\ job' = [job EXCEPT ![c].confirmed = TRUE]
  /\ Goto(c, "resolve")
  /\ UNCHANGED <<tracks, disk, edit, log, elsewhere>>

\* The token is never used, or expires first.
Abandon(c) ==
  /\ pc[c] = "waiting"
  /\ Return(c)
  /\ UNCHANGED <<tracks, disk, log, elsewhere>>

\* Someone else releases on this app.
ReleaseElsewhere ==
  /\ elsewhere < MaxElsewhere
  /\ elsewhere' = elsewhere + 1
  /\ \E t \in Tracks : \E rs \in Published[t] : tracks' = [tracks EXCEPT ![t] = rs]
  /\ edit' = Outdate(edit)
  /\ UNCHANGED <<disk, pc, job, log>>

\* The bundle is built again in place.
Rebuild ==
  /\ disk' \in Bundles
  /\ UNCHANGED <<tracks, pc, job, edit, log, elsewhere>>

Init ==
  /\ tracks \in [Tracks -> UNION {Published[t] : t \in Tracks}]
  /\ \A t \in Tracks : tracks[t] \in Published[t]
  /\ disk \in Bundles
  /\ pc = [c \in Calls |-> "idle"]
  /\ job = [c \in Calls |-> NoJob]
  /\ edit = [c \in Calls |-> NoEdit]
  /\ log = {}
  /\ elsewhere = 0

Step(c) ==
  \/ Begin(c) \/ Resolve(c) \/ Reject(c) \/ Open(c) \/ Write(c) \/ ReturnBlocked(c)
  \/ Discard(c) \/ Validate(c) \/ Invalid(c) \/ Commit(c) \/ LoseCommit(c)
  \/ Fail(c) \/ Confirm(c) \/ Abandon(c)

Next == (\E c \in Calls : Step(c)) \/ ReleaseElsewhere \/ Rebuild

Spec == Init /\ [][Next]_vars

-----------------------------------------------------------------------------
(***************************************************************************)
(* Properties.                                                             *)
(***************************************************************************)

(* The variables keep their types, a session has an edit open exactly      *)
(* between its insert and its end, and a token only after a preview that   *)
(* showed something (PlayEdit.__enter__ and __exit__).                     *)
TypeOK ==
  /\ tracks \in [Tracks -> SUBSET Served]
  /\ disk \in Bundles
  /\ pc \in [Calls -> Label]
  /\ job \in [Calls -> Job \cup {NoJob}]
  /\ edit \in [Calls -> Edit \cup {NoEdit}]
  /\ log \subseteq Outcome
  /\ elsewhere \in 0..MaxElsewhere
  /\ \A c \in Calls :
       /\ job[c] = NoJob <=> pc[c] = "idle"
       /\ edit[c] # NoEdit <=> pc[c] \in {"write", "validate", "commit"}
       /\ pc[c] = "waiting" => job[c].to # NoRelease

(* No track ever lists a version code twice: replace_release matches the   *)
(* release it swaps by version codes and would leave a second one behind.  *)
OneReleasePerBuild == \A t \in Tracks : Distinct(tracks[t])

\* Session c commits its edit in this step.
Commits(c) == pc[c] = "commit" /\ pc'[c] # "commit" /\ tracks' # tracks

(* What a confirmed create_release or promote_release leaves on its track  *)
(* is the release its preview displayed, build, status and share, whatever *)
(* others did to either track in the meantime; and nothing is committed by *)
(* a preview (docs/SECURITY.md G3 and G6).                                 *)
ShipsWhatWasShown ==
  [][\A c \in Calls :
       Commits(c) /\ job[c].request.tool \in {"create", "promote"} =>
         /\ job[c].confirmed
         /\ tracks'[job[c].request.track] = {job[c].to}]_vars

\* The share of users a release reaches.
Share(r) ==
  IF r.status = "completed" THEN 100
  ELSE IF r.status = "inProgress" THEN r.fraction ELSE 0

(* StorePilot never takes a build beyond the ceiling on production in one  *)
(* step, except by an expand_rollout (docs/SECURITY.md G7).                *)
StagedProduction ==
  [][\A t \in Production : \A r \in tracks'[t] :
       \/ Share(r) <= Ceiling
       \/ \E s \in tracks[t] : s.code = r.code /\ Share(s) >= Share(r)
       \/ elsewhere' # elsewhere
       \/ \E c \in Calls : Commits(c) /\ job[c].request.tool = "expand"]_vars

(* halt_rollout turns away only when nothing is being rolled out: while    *)
(* any release of the track is in progress it goes on to halt one.         *)
HaltReachesTheRollout ==
  [][\A c \in Calls :
       pc[c] = "write" /\ pc'[c] = "blocked" =>
         \A r \in edit[c].copy[job[c].request.track] : r.status # "inProgress"]_vars

Contract == INSTANCE RolloutContract WITH Release <- Served

(* The committed tracks change only as RolloutContract allows: a release   *)
(* the policy lets start, one staged release widened, one stopped, the     *)
(* track's other releases left alone by both (publisher.replace_release).  *)
ImplementsRolloutContract == Contract!Spec

(* A rollout that halt_rollout stopped can be resumed with expand_rollout, *)
(* as its answer and docs/SECURITY.md N2 say: the release expand_rollout   *)
(* then finds live is the halted one, not one it turns down.               *)
HaltIsRecoverable ==
  [][\A c \in Calls :
       Commits(c) /\ job[c].request.tool = "halt" =>
         \A live \in CurrentRelease(tracks'[job[c].request.track]) :
            live.status = "halted"]_vars

=============================================================================
