----------------------------- MODULE ReportCache -----------------------------
(***************************************************************************)
(* The reports both stores publish once per period, and the file cache of  *)
(* core/cache.py that answers for them: Apple's sales reports              *)
(* (app_store/reports.py) and Google Play's bucket of monthly statistics   *)
(* and earnings (google_play/gcs_reports.py).                              *)
(*                                                                         *)
(* A store publishes a period's report some days after the period ends; a  *)
(* call asks the cache and, on a miss, the store.  The entry it keeps is a *)
(* blob and a meta file, written one after the other; the meta file says   *)
(* since when it is kept and whether it expires after a day or never.      *)
(* Calls interleave with each other, with the publication and with the     *)
(* passing of days.                                                        *)
(*                                                                         *)
(* One report is enough: entries of different keys share nothing.  Opening *)
(* a file truncates it, and a file that was moved is still written by      *)
(* whoever has it open, so files are numbered and the two names of the     *)
(* blob lead to numbers.  Every step of a save may fail, and the server    *)
(* may die anywhere.  A report is reduced to how much of the period it     *)
(* has; a week's is treated as a day's.  Time is counted in days: what is  *)
(* kept for 24 hours may or may not have expired on the day after.  Stores *)
(* and clock are external.                                                 *)
(***************************************************************************)
EXTENDS Integers, FiniteSets

CONSTANTS
  Calls,       \* calls that may be under way at a time
  Kinds,       \* reports to consider
  End,         \* the period's last day
  Lag,         \* its figures are all there less than this many days after
  Claimed,     \* and are presented as complete from this many days after
  MaxDay,
  Candidates   \* values of filter[version] that are tried in turn

\* get_sales by the day and by the month; Play's statistics and earnings.
Sales == {"daily", "monthly"}
Kind == Sales \cup {"stats", "earnings"}

Day == 0..MaxDay

ASSUME CacheAssumption ==
  /\ IsFiniteSet(Calls)
  /\ Kinds \subseteq Kind
  /\ End \in Nat /\ MaxDay \in Nat
  /\ Lag \in [Kind -> Nat \ {0}]
  /\ Claimed \in [Kind -> Nat]
  /\ Candidates \in Nat \ {0}

Rows == {"none", "part", "full"}

\* What a file holds: what the store offered on a day, or not a byte because
\* it was opened and never written; one not written to its end counts as that.
Blob == [rows : Rows, day : Day]
Empty == [rows |-> "none", day |-> -1]
Meta == [stored : Day, forever : BOOLEAN]
NoMeta == [stored |-> -1, forever |-> FALSE]

File == 0..Cardinality(Calls) + 1
NoFile == -1

Label == {"idle", "get", "read", "fetch",
          "touch", "open", "fill", "replace", "erase", "stamp"}

\* What a caller is told: the rows, of the day they were fetched on, the day
\* they were asked for, and whether they are said to be complete.
Told == [rows : Rows, of : Day \cup {-1}, asked : Day, complete : BOOLEAN]
Nothing == [rows |-> "none", of |-> 0, asked |-> 0, complete |-> FALSE]

\* began is the day the call began, calm whether every other call under way
\* had begun that day too; forever is the policy it will keep, tried the
\* versions the store has refused, data what the store answered, handle the
\* file it has open and time the stored_at it is about to write.
Job == [began : Day, calm : BOOLEAN, forever : BOOLEAN, tried : 0..Candidates,
        data : Blob \cup {Empty}, handle : File \cup {NoFile}, time : Day]
NoJob == [began |-> 0, calm |-> TRUE, forever |-> FALSE, tried |-> 0,
          data |-> Empty, handle |-> NoFile, time |-> 0]

VARIABLES
  kind,      \* the report asked for
  day,
  offer,     \* what the store has
  final,     \* whether it will change any more
  disk,      \* what each file holds
  blob, tmp, \* the files the entry's two names lead to
  meta,
  pc, job,
  answer     \* what the step just taken returned to its caller, if anything

vars == <<kind, day, offer, final, disk, blob, tmp, meta, pc, job, answer>>

store == <<kind, offer, final>>
entry == <<disk, blob, tmp, meta>>

Goto(c, label) == pc' = [pc EXCEPT ![c] = label]

Busy == {c \in Calls : pc[c] # "idle"}

Return(c) ==
  /\ Goto(c, "idle")
  /\ job' = [job EXCEPT ![c] = NoJob]

-----------------------------------------------------------------------------
(***************************************************************************)
(* How long an answer is kept.                                             *)
(***************************************************************************)
\* monthly_policy only waits for the month to end.
MonthIsPast(today) == End < today

Mutant_KeptForever(k, today) ==
  IF k = "daily" THEN End + Claimed[k] < today ELSE MonthIsPast(today)

\* _cache_policy waits for a daily report's lag and one day more.
KeptForever(k, today) ==
  IF k = "daily" THEN End + Claimed[k] + 1 < today ELSE MonthIsPast(today)

Mutant_MayBeFresh(m, today) == m # NoMeta /\ (m.forever \/ today <= m.stored + 2)

\* CachePolicy.is_fresh; no entry is fresh without a meta file.
MayBeFresh(m, today) == m # NoMeta /\ (m.forever \/ today <= m.stored + 1)

MayBeStale(m, today) == m = NoMeta \/ (~m.forever /\ today > m.stored)

\* Whether the answer claims to be the period's complete figures: by
\* sales_freshness, and by report_freshness for Google Play.
SalesComplete(k, today, rows) == End + Claimed[k] <= today /\ rows # "none"

PlayComplete(k, today, rows) ==
  /\ End + Claimed[k] <= today
  /\ k = "stats" => today <= End + Lag[k] \/ rows # "none"

Mutant_Complete(k, today, rows) == PlayComplete(k, today, rows)

Complete(k, today, rows) ==
  IF k \in Sales THEN SalesComplete(k, today, rows) ELSE PlayComplete(k, today, rows)

Answer(c, data) ==
  /\ Return(c)
  /\ answer' = [rows |-> data.rows, of |-> data.day, asked |-> job[c].began,
                complete |-> Complete(kind, day, data.rows)]

Silent == answer' = Nothing

-----------------------------------------------------------------------------
(***************************************************************************)
(* get                                                                     *)
(***************************************************************************)
Begin(c) ==
  /\ pc[c] = "idle"
  /\ job' = [job EXCEPT ![c] =
       [NoJob EXCEPT !.began = day, !.forever = KeptForever(kind, day),
                     !.calm = \A d \in Busy : job[d].began = day]]
  /\ Goto(c, "get")
  /\ UNCHANGED <<store, day, entry>>
  /\ Silent

Get(c) ==
  /\ pc[c] = "get"
  /\ \/ blob # NoFile /\ MayBeFresh(meta, day) /\ Goto(c, "read")
     \/ (blob = NoFile \/ MayBeStale(meta, day)) /\ Goto(c, "fetch")
  /\ UNCHANGED <<store, day, entry, job>>
  /\ Silent

Hit(c) ==
  /\ pc[c] = "read"
  /\ Answer(c, disk[blob])
  /\ UNCHANGED <<store, day, entry>>

-----------------------------------------------------------------------------
(***************************************************************************)
(* The store.                                                              *)
(***************************************************************************)
Offered == [rows |-> offer, day |-> day]

\* The answer is there to be kept, if only that there is none.
Fetched(c) ==
  /\ pc[c] = "fetch"
  /\ job' = [job EXCEPT ![c].data = Offered, ![c].tried = 0]
  /\ Goto(c, "touch")
  /\ UNCHANGED <<store, day, entry>>
  /\ Silent

\* A report that Apple does not have is cached as an empty one.
FetchSales(c) == kind \in Sales /\ Fetched(c)

\* An object the bucket does not have is an error, which is not cached.
FetchStats(c) == kind = "stats" /\ offer # "none" /\ Fetched(c)

\* The objects of the earnings are found through a listing; it is cached,
\* also when it is empty.
FetchEarnings(c) == kind = "earnings" /\ Fetched(c)

\* Apple answers 400 to a version it does not know: the next one is tried.
RefuseVersion(c) ==
  /\ pc[c] = "fetch"
  /\ kind \in Sales
  /\ job[c].tried + 1 < Candidates
  /\ job' = [job EXCEPT ![c].tried = @ + 1]
  /\ UNCHANGED <<store, day, entry, pc>>
  /\ Silent

\* The last version is refused, the request fails, or there is no object.
FailFetch(c) ==
  /\ pc[c] = "fetch"
  /\ Return(c)
  /\ UNCHANGED <<store, day, entry>>
  /\ Silent

-----------------------------------------------------------------------------
(***************************************************************************)
(* set: the blob by way of a temporary file, then the meta file.           *)
(***************************************************************************)
Fresh == CHOOSE f \in File :
  f \notin {blob, tmp} \cup {job[c].handle : c \in {d \in Calls : pc[d] = "fill"}}

Named == IF tmp = NoFile THEN Fresh ELSE tmp

\* touch and chmod of the temporary name.
Touch(c) ==
  /\ pc[c] = "touch"
  /\ tmp' = Named
  /\ disk' = IF tmp = NoFile THEN [disk EXCEPT ![Fresh] = Empty] ELSE disk
  /\ Goto(c, "open")
  /\ UNCHANGED <<store, day, blob, meta, job>>
  /\ Silent

\* write_bytes truncates the file and then writes it.
Open(c) ==
  /\ pc[c] = "open"
  /\ tmp' = Named
  /\ disk' = [disk EXCEPT ![Named] = Empty]
  /\ job' = [job EXCEPT ![c].handle = Named]
  /\ Goto(c, "fill")
  /\ UNCHANGED <<store, day, blob, meta>>
  /\ Silent

\* What a file is left with when new is written from its start over old: not
\* having a report takes no byte, and sales do not change.  What else there
\* is may end in the tail of what was there.
Over(old, new) ==
  IF old.rows = "none" THEN {new}
  ELSE IF kind \in Sales THEN {IF new.rows = "none" THEN old ELSE new}
  ELSE {new, [old EXCEPT !.rows = "part"]}

\* Nobody reads a file that no name leads to any more.
Put(f, data) ==
  disk' = IF f \in {blob, tmp} THEN [disk EXCEPT ![f] = data] ELSE disk

Fill(c) ==
  LET f == job[c].handle IN
  /\ pc[c] = "fill"
  /\ \E data \in Over(disk[f], job[c].data) : Put(f, data)
  /\ job' = [job EXCEPT ![c].handle = NoFile]
  /\ Goto(c, "replace")
  /\ UNCHANGED <<store, day, blob, tmp, meta>>
  /\ Silent

\* The move takes whatever file the temporary name leads to.
Replace(c) ==
  /\ pc[c] = "replace"
  /\ tmp # NoFile
  /\ blob' = tmp
  /\ tmp' = NoFile
  /\ disk' = [f \in File |-> IF f = blob THEN Empty ELSE disk[f]]
  /\ Goto(c, "erase")
  /\ UNCHANGED <<store, day, meta, job>>
  /\ Silent

\* write_text of the meta file: the time is taken, then the file truncated;
\* one that is empty is no entry.
EraseMeta(c) ==
  /\ pc[c] = "erase"
  /\ job' = [job EXCEPT ![c].time = day]
  /\ meta' = NoMeta
  /\ Goto(c, "stamp")
  /\ UNCHANGED <<store, day, disk, blob, tmp>>
  /\ Silent

\* Two texts over each other may be none that json.loads accepts.
Stamp(c) ==
  /\ pc[c] = "stamp"
  /\ \/ meta' = [stored |-> job[c].time, forever |-> job[c].forever]
     \/ meta # NoMeta /\ meta' = NoMeta
  /\ Answer(c, job[c].data)
  /\ UNCHANGED <<store, day, disk, blob, tmp>>

Saving == {"touch", "open", "fill", "replace", "erase", "stamp"}

\* An OSError is swallowed, the caller has its data: someone else has moved
\* the temporary file, or the disk fails.
FailSet(c) ==
  /\ pc[c] \in Saving
  /\ Answer(c, job[c].data)
  /\ UNCHANGED <<store, day, entry>>

-----------------------------------------------------------------------------
(***************************************************************************)
(* Around the calls.                                                       *)
(***************************************************************************)
\* Midnight passes between any two steps.  No call takes half a day: none
\* sees two midnights, nor meets at one a call that met others before it.
Tick ==
  /\ day < MaxDay
  /\ day + 1 >= End + Lag[kind] => final
  /\ \A c \in Busy : job[c].began = day /\ job[c].calm
  /\ day' = day + 1
  /\ UNCHANGED <<store, entry, pc, job>>
  /\ Silent

\* Statistics are rewritten as they come in.
Accrue ==
  /\ kind = "stats"
  /\ ~final
  /\ offer' = "part"
  /\ UNCHANGED <<kind, day, final, entry, pc, job>>
  /\ Silent

\* The figures are all there.
Publish ==
  /\ ~final
  /\ day >= End
  /\ offer' = "full"
  /\ final' = TRUE
  /\ UNCHANGED <<kind, day, entry, pc, job>>
  /\ Silent

\* Nothing happened in the period: no report ever appears.
StayEmpty ==
  /\ ~final
  /\ day >= End
  /\ offer = "none"
  /\ final' = TRUE
  /\ UNCHANGED <<kind, day, offer, entry, pc, job>>
  /\ Silent

\* The server dies.
Crash ==
  /\ Busy # {}
  /\ pc' = [c \in Calls |-> "idle"]
  /\ job' = [c \in Calls |-> NoJob]
  /\ UNCHANGED <<store, day, entry>>
  /\ Silent

-----------------------------------------------------------------------------
Init ==
  /\ kind \in Kinds
  /\ day = 0
  /\ offer = "none"
  /\ final = FALSE
  /\ disk = [f \in File |-> Empty]
  /\ blob = NoFile
  /\ tmp = NoFile
  /\ meta = NoMeta
  /\ pc = [c \in Calls |-> "idle"]
  /\ job = [c \in Calls |-> NoJob]
  /\ answer = Nothing

Step(c) ==
  \/ Begin(c) \/ Get(c) \/ Hit(c) \/ FetchSales(c) \/ FetchStats(c)
  \/ FetchEarnings(c) \/ RefuseVersion(c) \/ FailFetch(c)
  \/ Touch(c) \/ Open(c) \/ Fill(c) \/ Replace(c) \/ EraseMeta(c) \/ Stamp(c) \/ FailSet(c)

Next == (\E c \in Calls : Step(c)) \/ Tick \/ Accrue \/ Publish \/ StayEmpty \/ Crash

Spec == Init /\ [][Next]_vars

-----------------------------------------------------------------------------
(***************************************************************************)
(* Properties.                                                             *)
(***************************************************************************)

\* The type invariant.
TypeOK ==
  /\ kind \in Kinds
  /\ day \in Day
  /\ offer \in Rows
  /\ final \in BOOLEAN
  /\ disk \in [File -> Blob \cup {Empty}]
  /\ blob \in File \cup {NoFile}
  /\ tmp \in File \cup {NoFile}
  /\ meta \in Meta \cup {NoMeta}
  /\ pc \in [Calls -> Label]
  /\ job \in [Calls -> Job]
  /\ \A c \in Calls : pc[c] = "idle" => job[c] = NoJob
  /\ answer \in Told

KeptForEver == Busy = {} /\ blob # NoFile /\ meta.forever

\* _cache_policy: "Past periods never change, so they are cached forever", of
\* a day's sales: at rest, an entry that never expires is of a day whose
\* figures will not change any more and has them, whatever calls saved at
\* once, over whichever midnight, and wherever one failed or died; unless its
\* file has not a byte because a save was torn.  (A month's sales are kept
\* from the day after the month, when Apple need not have published them.)
DailyKeptIsFinal ==
  kind = "daily" /\ KeptForEver /\ disk[blob] # Empty =>
    final /\ disk[blob].rows = offer

\* A day's sales that still change are answered with figures of two days
\* before the question at the oldest: an entry is kept for 24 hours, and the
\* blob beside its meta file may have been fetched before the last midnight.
AnswerIsRecent ==
  kind = "daily" /\ answer.of # -1 /\ answer.rows # offer =>
    answer.asked - answer.of <= 2

\* sales_freshness: "the failure this prevents" is to present figures that
\* have not been published as complete ones.
SalesCompleteIsTrue ==
  kind \in Sales /\ answer.complete => final /\ answer.rows = offer

\* report_freshness, the same of a month of Play's: an answer that is said to
\* be complete, when the figures are all there, has what the bucket has.
PlayCompleteIsTrue ==
  kind \in {"stats", "earnings"} /\ final /\ answer.complete => answer.rows = offer

=============================================================================
