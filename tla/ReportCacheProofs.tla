--------------------------- MODULE ReportCacheProofs ---------------------------
(***************************************************************************)
(* Theorems about the cached reports, for any number of calls, any period, *)
(* any lag of publication and any time kept.                               *)
(***************************************************************************)
EXTENDS ReportCache, FiniteSetTheorems, TLAPS

\* Apple publishes a report as a whole: what anyone holds of a period's sales
\* is nothing, or is what the store has by now.
Whole(rows) == rows = "none" \/ (rows = "full" /\ offer = "full")

SalesAreWhole ==
  kind \in Sales =>
    /\ Whole(offer)
    /\ offer = "full" => final
    /\ \A f \in File : Whole(disk[f].rows)
    /\ \A c \in Calls : Whole(job[c].data.rows)
    /\ Whole(answer.rows)
    /\ answer.complete => answer.rows # "none"

\* A call that found the entry fresh finds its file.
ReadsAFile == \A c \in Calls : pc[c] = "read" => blob # NoFile

\* A call that writes has a file open.
WritesAFile == \A c \in Calls : pc[c] = "fill" => job[c].handle \in File

\* The inductive invariant.
Inv == TypeOK /\ SalesAreWhole /\ ReadsAFile /\ WritesAFile

\* There is always a file nobody uses: the calls that write hold one each, and
\* only the blob's name leads to another.
LEMMA FreshFile ==
  ASSUME Inv, tmp = NoFile
  PROVE  Fresh \in File /\ Fresh # blob
<1> DEFINE handles == {job[c].handle : c \in {d \in Calls : pc[d] = "fill"}}
           used == {blob, tmp} \cup handles
<1> SUFFICES ASSUME \A f \in File : f \in used PROVE FALSE
  BY DEF Fresh
<1>1. IsFiniteSet(Calls) /\ Cardinality(Calls) \in Nat
  BY CacheAssumption, FS_CardinalityType
<1> DEFINE N == Cardinality(Calls)
           writers == {d \in Calls : pc[d] = "fill"}
           g == [c \in writers |-> job[c].handle]
<1>2. IsFiniteSet(writers) /\ Cardinality(writers) <= N /\ Cardinality(writers) \in Nat
  BY <1>1, FS_Subset, FS_CardinalityType
<1>3. g \in Surjection(writers, handles)
  BY DEF Surjection
<1>4. IsFiniteSet(handles) /\ Cardinality(handles) <= N /\ Cardinality(handles) \in Nat
  <2> HIDE DEF g, handles, writers
  <2> QED BY <1>1, <1>2, <1>3, FS_Surjection, FS_CardinalityType
<1>5. /\ IsFiniteSet(handles \cup {blob})
      /\ Cardinality(handles \cup {blob}) <= N + 1
      /\ Cardinality(handles \cup {blob}) \in Nat
  <2> HIDE DEF handles
  <2>1. /\ IsFiniteSet(handles \cup {blob})
        /\ Cardinality(handles \cup {blob}) =
             IF blob \in handles THEN Cardinality(handles) ELSE Cardinality(handles) + 1
    BY <1>4, FS_AddElement
  <2> QED BY <1>1, <1>4, <2>1
<1>6. File \subseteq handles \cup {blob}
  BY <1>1 DEF File, NoFile
<1>7. IsFiniteSet(File) /\ Cardinality(File) = N + 2
  BY <1>1, FS_Interval DEF File
<1> HIDE DEF handles
<1> QED BY <1>1, <1>5, <1>6, <1>7, FS_Subset

LEMMA InitInv == Init => Inv
<1> SUFFICES ASSUME Init PROVE Inv
  OBVIOUS
<1>1. kind \in Kinds /\ day \in Day /\ NoJob \in Job
  BY CacheAssumption DEF Init, Day, NoJob, Job, Empty, NoFile
<1>2. TypeOK
  BY <1>1, CacheAssumption DEF Init, TypeOK, Rows, Label, Day, Told, Nothing
<1>3. SalesAreWhole
  BY DEF Init, SalesAreWhole, Whole, Empty, NoJob, Nothing
<1> QED BY <1>2, <1>3 DEF Inv, Init, ReadsAFile, WritesAFile

\* The fields of a call.
LEMMA JobFields ==
  ASSUME NEW j \in Job
  PROVE  /\ j.began \in Day /\ j.forever \in BOOLEAN /\ j.tried \in 0..Candidates
         /\ j.data \in Blob \cup {Empty} /\ j.handle \in File \cup {NoFile}
         /\ j.calm \in BOOLEAN /\ j.time \in Day
BY DEF Job

\* What a file holds, or a call.
LEMMA Held ==
  ASSUME NEW b \in Blob \cup {Empty}
  PROVE  b.rows \in Rows /\ b.day \in Day \cup {-1}
BY DEF Blob, Empty, Rows

LEMMA NoJobIs == NoJob \in Job /\ NoJob.data.rows = "none"
BY CacheAssumption DEF NoJob, Job, Day, Empty, NoFile

\* Whether an answer is complete is a plain yes or no.
LEMMA CompleteIsBoolean ==
  ASSUME NEW k, NEW today, NEW rows
  PROVE  /\ Complete(k, today, rows) \in BOOLEAN
         /\ k \in Sales /\ Complete(k, today, rows) => rows # "none"
<1>1. CASE k \in Sales
  BY <1>1 DEF Complete, SalesComplete
<1>2. CASE k \notin Sales
  BY <1>2 DEF Complete, PlayComplete
<1> QED BY <1>1, <1>2

\* A call answers.
LEMMA AnswerKeeps ==
  ASSUME Inv, NEW c \in Calls, NEW data \in Blob \cup {Empty}, Answer(c, data),
         kind \in Sales => Whole(data.rows),
         meta' \in Meta \cup {NoMeta}, UNCHANGED <<store, day, disk, blob, tmp>>
  PROVE  Inv'
<1> DEFINE told == [rows |-> data.rows, of |-> data.day, asked |-> job[c].began,
                    complete |-> Complete(kind, day, data.rows)]
<1>1. /\ answer' = told /\ pc' = [pc EXCEPT ![c] = "idle"]
      /\ job' = [job EXCEPT ![c] = NoJob]
  BY DEF Answer, Return, Goto
<1>2. told \in Told /\ told.rows = data.rows
      /\ (kind \in Sales /\ told.complete => told.rows # "none")
  <2>1. data.rows \in Rows /\ data.day \in Day \cup {-1} /\ job[c].began \in Day
    BY Held, JobFields DEF Inv, TypeOK
  <2> QED BY <2>1, CompleteIsBoolean DEF Told
<1> HIDE DEF told
<1>3. TypeOK'
  BY <1>1, <1>2, NoJobIs DEF Inv, TypeOK, Label, store
<1>4. SalesAreWhole'
  BY <1>1, <1>2, NoJobIs DEF Inv, TypeOK, SalesAreWhole, Whole, store
<1>5. ReadsAFile' /\ WritesAFile'
  BY <1>1 DEF Inv, TypeOK, ReadsAFile, WritesAFile
<1> QED BY <1>3, <1>4, <1>5 DEF Inv

LEMMA NothingIs ==
  Nothing \in Told /\ Nothing.rows = "none" /\ Nothing.complete = FALSE
BY CacheAssumption DEF Nothing, Told, Rows, Day

\* A call goes on as j, and perhaps has written a file.
LEMMA GoOnKeeps ==
  ASSUME Inv, NEW c \in Calls, NEW label \in Label \ {"idle"}, NEW j \in Job,
         pc' = [pc EXCEPT ![c] = label], job' = [job EXCEPT ![c] = j],
         kind \in Sales => Whole(j.data.rows),
         disk' \in [File -> Blob \cup {Empty}],
         kind \in Sales => \A f \in File : Whole(disk'[f].rows),
         blob' \in File \cup {NoFile}, tmp' \in File \cup {NoFile},
         label = "read" => blob # NoFile, blob # NoFile => blob' # NoFile,
         label = "fill" => j.handle \in File,
         meta' \in Meta \cup {NoMeta}, UNCHANGED <<store, day>>, Silent
  PROVE  Inv'
<1>1. TypeOK'
  BY NothingIs DEF Inv, TypeOK, store, Silent
<1>2. SalesAreWhole'
  BY NothingIs DEF Inv, TypeOK, SalesAreWhole, Whole, store, Silent
<1>3. ReadsAFile' /\ WritesAFile'
  BY DEF Inv, TypeOK, ReadsAFile, WritesAFile
<1> QED BY <1>1, <1>2, <1>3 DEF Inv

-----------------------------------------------------------------------------
(***************************************************************************)
(* The actions.                                                            *)
(***************************************************************************)
\* What a call holds, and what the files do.
LEMMA Here ==
  ASSUME Inv, NEW c \in Calls
  PROVE  /\ job[c] \in Job /\ pc[c] \in Label
         /\ kind \in Sales => Whole(job[c].data.rows)
         /\ job \in [Calls -> Job] /\ pc \in [Calls -> Label]
         /\ disk \in [File -> Blob \cup {Empty}]
         /\ kind \in Sales => \A f \in File : Whole(disk[f].rows)
         /\ blob \in File \cup {NoFile} /\ tmp \in File \cup {NoFile}
         /\ meta \in Meta \cup {NoMeta} /\ offer \in Rows /\ day \in Day /\ day \in Nat
         /\ kind \in Sales => Whole(offer)
         /\ pc[c] = "fill" => job[c].handle \in File
BY CacheAssumption DEF Inv, TypeOK, SalesAreWhole, WritesAFile, Day

\* A step that leaves the files alone.
LEMMA QuietKeeps ==
  ASSUME Inv, NEW c \in Calls, NEW label \in Label \ {"idle", "fill"}, NEW j \in Job,
         pc' = [pc EXCEPT ![c] = label], job' = [job EXCEPT ![c] = j],
         kind \in Sales => Whole(j.data.rows), label = "read" => blob # NoFile,
         UNCHANGED <<store, day, entry>>, Silent
  PROVE  Inv'
<1>1. UNCHANGED <<disk, blob, tmp, meta>>
  BY DEF entry
<1> QED BY <1>1, Here, GoOnKeeps

LEMMA BeginInv == ASSUME Inv, NEW c \in Calls, Begin(c) PROVE Inv'
<1> DEFINE calm == \A d \in Busy : job[d].began = day
           j == [NoJob EXCEPT !.began = day, !.forever = KeptForever(kind, day), !.calm = calm]
<1>1. KeptForever(kind, day) \in BOOLEAN /\ calm \in BOOLEAN
  <2>1. CASE kind = "daily"
    BY <2>1 DEF KeptForever
  <2>2. CASE kind # "daily"
    BY <2>2 DEF KeptForever, MonthIsPast
  <2> QED BY <2>1, <2>2
<1>3. /\ job' = [job EXCEPT ![c] = j] /\ pc' = [pc EXCEPT ![c] = "get"]
      /\ UNCHANGED <<store, day, entry>> /\ Silent
  BY DEF Begin, Goto
<1> HIDE DEF calm
<1>2. j \in Job /\ j.data = NoJob.data
  BY <1>1, NoJobIs, Here DEF Job, NoJob
<1> HIDE DEF j
<1> QED BY <1>2, <1>3, NoJobIs, Here, QuietKeeps DEF Label, Whole

LEMMA GetInv == ASSUME Inv, NEW c \in Calls, Get(c) PROVE Inv'
<1> DEFINE j == job[c]
<1>1. PICK label \in {"read", "fetch"} :
        pc' = [pc EXCEPT ![c] = label] /\ (label = "read" => blob # NoFile)
  BY DEF Get, Goto
<1>2. UNCHANGED <<store, day, entry, job>> /\ Silent
  BY DEF Get
<1>3. job' = [job EXCEPT ![c] = j] /\ j \in Job /\ (kind \in Sales => Whole(j.data.rows))
  BY <1>2, Here
<1> HIDE DEF j
<1> QED BY <1>1, <1>2, <1>3, Here, QuietKeeps DEF Label

\* A hit is read from the blob that the name leads to.
LEMMA HitInv ==
  ASSUME Inv, NEW c \in Calls, Hit(c) PROVE Inv'
<1>1. disk[blob] \in Blob \cup {Empty} /\ (kind \in Sales => Whole(disk[blob].rows))
  BY Here DEF Inv, ReadsAFile, Hit
<1>2. meta' \in Meta \cup {NoMeta} /\ UNCHANGED <<store, day, disk, blob, tmp>>
  BY Here DEF Hit, entry
<1> QED BY <1>1, <1>2, AnswerKeeps DEF Hit

LEMMA FetchInv ==
  ASSUME Inv, NEW c \in Calls, FetchSales(c) \/ FetchStats(c) \/ FetchEarnings(c) PROVE Inv'
<1> DEFINE j == [job[c] EXCEPT !.data = Offered, !.tried = 0]
<1>1. /\ job' = [job EXCEPT ![c] = j] /\ pc' = [pc EXCEPT ![c] = "touch"]
      /\ UNCHANGED <<store, day, entry>> /\ Silent
  BY Here DEF FetchSales, FetchStats, FetchEarnings, Fetched, Goto, Job
<1>2. Offered \in Blob /\ Offered.rows = offer
  BY Here DEF Offered, Blob
<1>3. j \in Job /\ j.data = Offered
  <2>1. 0 \in 0..Candidates
    BY CacheAssumption
  <2> QED BY <1>2, <2>1, Here, JobFields DEF Job
<1> HIDE DEF j
<1> QED BY <1>1, <1>2, <1>3, Here, QuietKeeps DEF Label

LEMMA RefuseVersionInv == ASSUME Inv, NEW c \in Calls, RefuseVersion(c) PROVE Inv'
<1> DEFINE j == [job[c] EXCEPT !.tried = @ + 1]
<1>1. /\ job' = [job EXCEPT ![c] = j] /\ pc' = [pc EXCEPT ![c] = "fetch"]
      /\ UNCHANGED <<store, day, entry>> /\ Silent /\ job[c].tried + 1 < Candidates
  BY Here DEF RefuseVersion, Job
<1>2. j \in Job /\ j.data = job[c].data
  BY <1>1, Here, JobFields, CacheAssumption DEF Job
<1> HIDE DEF j
<1> QED BY <1>1, <1>2, Here, QuietKeeps DEF Label

LEMMA FailFetchInv == ASSUME Inv, NEW c \in Calls, FailFetch(c) PROVE Inv'
<1>1. TypeOK'
  BY NoJobIs, NothingIs DEF Inv, TypeOK, FailFetch, Return, Goto, Label, store, entry, Silent
<1>2. SalesAreWhole'
  BY NoJobIs, NothingIs
     DEF Inv, TypeOK, SalesAreWhole, Whole, FailFetch, Return, store, entry, Silent
<1>3. ReadsAFile' /\ WritesAFile'
  BY DEF Inv, TypeOK, ReadsAFile, WritesAFile, FailFetch, Return, Goto, entry
<1> QED BY <1>1, <1>2, <1>3 DEF Inv

LEMMA NamedFile == ASSUME Inv PROVE Named \in File
BY FreshFile DEF Named, Inv, TypeOK

LEMMA TouchInv == ASSUME Inv, NEW c \in Calls, Touch(c) PROVE Inv'
<1> DEFINE j == job[c]
<1>1. /\ tmp' \in File /\ pc' = [pc EXCEPT ![c] = "open"] /\ blob' = blob
      /\ UNCHANGED <<store, day, blob, meta, job>> /\ Silent
  BY NamedFile DEF Touch, Goto
<1>2. /\ disk' \in [File -> Blob \cup {Empty}]
      /\ kind \in Sales => \A f \in File : Whole(disk'[f].rows)
  <2>1. CASE tmp = NoFile
    BY <2>1, FreshFile, Here DEF Touch, Whole, Empty
  <2>2. CASE tmp # NoFile
    BY <2>2, Here DEF Touch
  <2> QED BY <2>1, <2>2
<1>3. job' = [job EXCEPT ![c] = j] /\ j \in Job /\ (kind \in Sales => Whole(j.data.rows))
  BY <1>1, Here
<1> HIDE DEF j
<1> QED BY <1>1, <1>2, <1>3, Here, GoOnKeeps DEF Label

LEMMA OpenInv == ASSUME Inv, NEW c \in Calls, Open(c) PROVE Inv'
<1> DEFINE f == Named
           j == [job[c] EXCEPT !.handle = f]
<1>1. f \in File
  BY NamedFile
<1>2. /\ tmp' = f /\ disk' = [disk EXCEPT ![f] = Empty]
      /\ pc' = [pc EXCEPT ![c] = "fill"] /\ UNCHANGED <<store, day, blob, meta>> /\ Silent
  BY DEF Open, Goto
<1>3. job' = [job EXCEPT ![c] = j]
  BY Here DEF Open, Job
<1> HIDE DEF f
<1>4. j \in Job /\ j.data = job[c].data /\ j.handle = f
  BY <1>1, Here, JobFields DEF Job
<1> HIDE DEF j
<1>5. /\ disk' \in [File -> Blob \cup {Empty}]
      /\ kind \in Sales => \A g \in File : Whole(disk'[g].rows)
  BY <1>1, <1>2, Here DEF Whole, Empty
<1> QED BY <1>1, <1>2, <1>3, <1>4, <1>5, Here, GoOnKeeps DEF Label

\* What comes of writing new over old.
LEMMA OverIs ==
  ASSUME NEW old \in Blob \cup {Empty}, NEW new \in Blob \cup {Empty}, NEW data \in Over(old, new)
  PROVE  /\ data \in Blob \cup {Empty}
         /\ kind \in Sales => data = new \/ (data = old /\ old.rows # "none")
<1>1. CASE old.rows = "none"
  BY <1>1 DEF Over
<1>2. CASE old.rows # "none" /\ kind \in Sales
  BY <1>2 DEF Over
<1>3. CASE old.rows # "none" /\ kind \notin Sales
  <2>1. old \in Blob
    BY <1>3 DEF Empty
  <2>2. [old EXCEPT !.rows = "part"] \in Blob
    BY <2>1 DEF Blob, Rows
  <2> QED BY <1>3, <2>2 DEF Over
<1> QED BY <1>1, <1>2, <1>3

LEMMA FillInv == ASSUME Inv, NEW c \in Calls, Fill(c) PROVE Inv'
<1> DEFINE h == job[c].handle
           new == job[c].data
           j == [job[c] EXCEPT !.handle = NoFile]
<1>1. /\ pc[c] = "fill" /\ pc' = [pc EXCEPT ![c] = "replace"]
      /\ UNCHANGED <<store, day, blob, tmp, meta>> /\ Silent
  BY DEF Fill, Goto
<1>2. PICK data \in Over(disk[h], new) : Put(h, data)
  BY DEF Fill
<1>3. job' = [job EXCEPT ![c] = j]
  BY Here DEF Fill, Job
<1>4. j \in Job /\ j.data = job[c].data
  BY Here, JobFields DEF Job
<1>5. h \in File /\ disk[h] \in Blob \cup {Empty} /\ new \in Blob \cup {Empty}
  BY <1>1, Here, JobFields
<1> HIDE DEF j, h
<1>6. data \in Blob \cup {Empty} /\ (kind \in Sales => data = new \/ data = disk[h])
  <2> HIDE DEF new
  <2> QED BY <1>2, <1>5, OverIs
<1>7. kind \in Sales => Whole(data.rows)
  BY <1>5, <1>6, Here
<1>8. /\ disk' \in [File -> Blob \cup {Empty}]
      /\ kind \in Sales => \A g \in File : Whole(disk'[g].rows)
  <2> HIDE DEF new
  <2> QED BY <1>2, <1>5, <1>6, <1>7, Here DEF Put
<1> QED BY <1>1, <1>3, <1>4, <1>8, Here, GoOnKeeps DEF Label

LEMMA ReplaceInv == ASSUME Inv, NEW c \in Calls, Replace(c) PROVE Inv'
<1> DEFINE j == job[c]
<1>1. /\ tmp # NoFile /\ blob' = tmp /\ tmp' = NoFile /\ pc' = [pc EXCEPT ![c] = "erase"]
      /\ UNCHANGED <<store, day, meta, job>> /\ Silent
  BY DEF Replace, Goto
<1>2. job' = [job EXCEPT ![c] = j] /\ j \in Job /\ (kind \in Sales => Whole(j.data.rows))
  BY <1>1, Here
<1>3. /\ disk' \in [File -> Blob \cup {Empty}]
      /\ kind \in Sales => \A f \in File : Whole(disk'[f].rows)
  BY Here DEF Replace, Whole, Empty
<1> HIDE DEF j
<1> QED BY <1>1, <1>2, <1>3, Here, GoOnKeeps DEF Label

LEMMA EraseMetaInv == ASSUME Inv, NEW c \in Calls, EraseMeta(c) PROVE Inv'
<1> DEFINE j == [job[c] EXCEPT !.time = day]
<1>1. /\ meta' = NoMeta /\ pc' = [pc EXCEPT ![c] = "stamp"]
      /\ UNCHANGED <<store, day, disk, blob, tmp>> /\ Silent
  BY DEF EraseMeta, Goto
<1>2. job' = [job EXCEPT ![c] = j]
  BY Here DEF EraseMeta, Job
<1>3. j \in Job /\ j.data = job[c].data
  BY Here, JobFields DEF Job
<1> HIDE DEF j
<1> QED BY <1>1, <1>2, <1>3, Here, GoOnKeeps DEF Label

LEMMA SavedInv == ASSUME Inv, NEW c \in Calls, Stamp(c) \/ FailSet(c) PROVE Inv'
<1>1. /\ Answer(c, job[c].data) /\ UNCHANGED <<store, day, disk, blob, tmp>>
      /\ \/ meta' = meta \/ meta' = NoMeta
         \/ meta' = [stored |-> job[c].time, forever |-> job[c].forever]
  BY DEF Stamp, FailSet, entry
<1>2. meta' \in Meta \cup {NoMeta} /\ job[c].data \in Blob \cup {Empty}
  BY <1>1, Here, JobFields DEF Meta
<1> QED BY <1>1, <1>2, Here, AnswerKeeps

LEMMA OthersInv == Inv /\ (Tick \/ Accrue \/ Publish \/ StayEmpty) => Inv'
<1> SUFFICES ASSUME Inv, Tick \/ Accrue \/ Publish \/ StayEmpty PROVE Inv'
  OBVIOUS
<1>1. UNCHANGED <<kind, entry, pc, job>> /\ answer' = Nothing
  BY DEF Tick, Accrue, Publish, StayEmpty, store, Silent
<1>2. day' \in Day /\ offer' \in Rows /\ final' \in BOOLEAN
  <2>1. day' \in Day
    BY CacheAssumption DEF Tick, Accrue, Publish, StayEmpty, Inv, TypeOK, Day
  <2> QED BY <2>1 DEF Tick, Accrue, Publish, StayEmpty, Inv, TypeOK, Rows, store
<1>3. kind \in Sales => (offer' = "full" \/ offer' = offer) /\ (offer' = "full" => final')
  BY DEF Tick, Accrue, Publish, StayEmpty, Inv, SalesAreWhole, Sales, store
<1>4. TypeOK'
  BY <1>1, <1>2, NothingIs DEF Inv, TypeOK, entry
<1>5. SalesAreWhole'
  BY <1>1, <1>3, NothingIs DEF Inv, SalesAreWhole, Whole, entry
<1> QED BY <1>1, <1>4, <1>5 DEF Inv, ReadsAFile, WritesAFile, entry

LEMMA CrashInv == Inv /\ Crash => Inv'
<1> SUFFICES ASSUME Inv, Crash PROVE Inv'
  OBVIOUS
<1>1. TypeOK'
  BY NoJobIs, NothingIs DEF Crash, Inv, TypeOK, Label, store, entry, Silent
<1>2. SalesAreWhole' /\ ReadsAFile' /\ WritesAFile'
  BY NoJobIs, NothingIs
     DEF Crash, Inv, SalesAreWhole, Whole, ReadsAFile, WritesAFile, store, entry, Silent
<1> QED BY <1>1, <1>2 DEF Inv

LEMMA NextInv == Inv /\ [Next]_vars => Inv'
<1> SUFFICES ASSUME Inv, [Next]_vars PROVE Inv'
  OBVIOUS
<1>1. ASSUME NEW c \in Calls, Step(c) PROVE Inv'
  BY <1>1, BeginInv, GetInv, HitInv, FetchInv, RefuseVersionInv, FailFetchInv, TouchInv,
     OpenInv, FillInv, ReplaceInv, EraseMetaInv, SavedInv DEF Step
<1>2. CASE UNCHANGED vars
  BY <1>2 DEF Inv, TypeOK, SalesAreWhole, Whole, ReadsAFile, WritesAFile, vars
<1> QED BY <1>1, <1>2, OthersInv, CrashInv DEF Next

LEMMA Invariance == Spec => []Inv
BY InitInv, NextInv, PTL DEF Spec

-----------------------------------------------------------------------------
(***************************************************************************)
(* How old an entry of a day's sales may be: the invariant of the two      *)
(* theorems about it.  Calls that save at once share files and overwrite   *)
(* each other's meta file, and midnight may pass between any two steps; so *)
(* an entry is as old as the oldest call that was under way with the one   *)
(* that dated it.                                                          *)
(***************************************************************************)
\* The policy keeps for ever what is asked for after this day, and what was
\* fetched on it is there to stay.
Horizon == End + Claimed["daily"] + 1

\* What was fetched once the store's lag was over is what the store has.
Settled(data) == data.day <= day /\ (data.day >= End + Lag[kind] => data.rows = offer)

SettledOK ==
  /\ day >= End + Lag[kind] => final
  /\ \A f \in File : Settled(disk[f])
  /\ \A c \in Calls : Settled(job[c].data)
  /\ Settled([rows |-> answer.rows, day |-> answer.of])

\* File f has the figures, or had none to have on day d or later, or was torn.
Since(f, d) == disk[f].rows # "none" \/ disk[f].day >= d \/ disk[f] = Empty

\* The day since when every call was under way that meets this one.
Floor(c) == IF job[c].calm THEN job[c].began ELSE job[c].began - 1

CallOK(c) ==
  pc[c] # "idle" =>
    /\ job[c].began <= day /\ day <= job[c].began + 1
    /\ ~job[c].calm => job[c].began = day
    /\ job[c].forever => Horizon < job[c].began
    /\ pc[c] \in Saving => job[c].data.day >= job[c].began
    /\ pc[c] = "stamp" => job[c].time <= day
    /\ \A d \in Calls : pc[d] # "idle" => job[d].began >= Floor(c)

Writing == {"fill", "replace", "erase", "stamp"}
Dating == {"erase", "stamp"}

\* Neither what a save is about to move, nor what it is about to date, is
\* older than the calls it meets.
EntryOK ==
  /\ tmp # NoFile => tmp # blob
  /\ meta # NoMeta => meta.stored <= day /\ (blob # NoFile => Since(blob, meta.stored - 1))
  /\ meta.forever => Horizon < day /\ (blob # NoFile => Since(blob, Horizon))
  /\ \A c \in Calls : pc[c] \in Writing /\ tmp # NoFile => Since(tmp, Floor(c))
  /\ \A c \in Calls : pc[c] \in Dating /\ blob # NoFile => Since(blob, Floor(c))

ReadOK(c) ==
  pc[c] = "read" => Since(blob, job[c].began - 2) \/ Since(blob, Horizon)

AnswerOK ==
  \/ answer.rows # "none" \/ answer.of = -1
  \/ answer.of >= answer.asked - 2 \/ answer.of >= Horizon

Dated ==
  /\ SettledOK
  /\ \A c \in Calls : CallOK(c)
  /\ EntryOK
  /\ \A c \in Calls : ReadOK(c)
  /\ AnswerOK

\* The days and files of a state.
LEMMA Days ==
  ASSUME Inv, kind = "daily"
  PROVE  /\ day \in Nat /\ End + Lag[kind] \in Nat \ {0} /\ Horizon \in Nat
         /\ KeptForever(kind, day) <=> Horizon < day
         /\ \A f \in File : disk[f].day \in Int /\ disk[f].rows \in Rows
         /\ \A c \in Calls : /\ job[c].data.day \in Int /\ job[c].began \in Nat
                             /\ job[c].calm \in BOOLEAN /\ job[c].time \in Nat
                             /\ Floor(c) \in Int
         /\ meta # NoMeta => meta.stored \in Nat
         /\ answer.of \in Int /\ answer.asked \in Int
<1>1. day \in Nat /\ Day \subseteq Nat /\ kind \in Kinds
  BY CacheAssumption DEF Inv, TypeOK, Day
<1>2. End + Lag[kind] \in Nat \ {0} /\ Horizon \in Nat /\ (KeptForever(kind, day) <=> Horizon < day)
  BY <1>1, CacheAssumption DEF Horizon, KeptForever, Kind, Sales
<1>3. Day \cup {-1} \subseteq Int
  BY <1>1
<1> DEFINE some == Blob \cup {Empty}
<1>4. ASSUME NEW b \in some PROVE b.day \in Int /\ b.rows \in Rows
  <2>1. b.day \in Day \cup {-1} /\ b.rows \in Rows
    BY Held
  <2> QED BY <1>3, <2>1
<1>5. ASSUME NEW f \in File PROVE disk[f].day \in Int /\ disk[f].rows \in Rows
  <2>1. disk[f] \in some
    BY DEF Inv, TypeOK
  <2> QED BY <2>1, <1>4
<1>6. ASSUME NEW c \in Calls
      PROVE  /\ job[c].data.day \in Int /\ job[c].began \in Nat
             /\ job[c].calm \in BOOLEAN /\ job[c].time \in Nat
  <2>1. job[c].data \in some /\ job[c].began \in Day /\ job[c].calm \in BOOLEAN /\ job[c].time \in Day
    BY Here, JobFields
  <2> QED BY <1>1, <2>1, <1>4
<1>7. ASSUME NEW c \in Calls PROVE Floor(c) \in Int
  BY <1>6 DEF Floor
<1>8. (meta # NoMeta => meta.stored \in Nat) /\ answer.of \in Int /\ answer.asked \in Int
  <2>1. meta # NoMeta => meta.stored \in Day
    BY DEF Inv, TypeOK, Meta
  <2>2. answer.of \in Day \cup {-1} /\ answer.asked \in Day
    BY DEF Inv, TypeOK, Told
  <2> QED BY <1>1, <1>3, <2>1, <2>2
<1> QED BY <1>1, <1>2, <1>5, <1>6, <1>7, <1>8

\* An empty file, a call that is over, and no answer.
LEMMA NothingHeld ==
  ASSUME Inv, kind = "daily"
  PROVE  /\ Settled(Empty) /\ Settled(NoJob.data) /\ Empty.day = -1 /\ Empty.rows = "none"
         /\ Settled([rows |-> Nothing.rows, day |-> Nothing.of])
         /\ Nothing.of >= Nothing.asked - 2
<1>1. day \in Nat /\ End + Lag[kind] \in Nat \ {0}
  BY Days
<1>2. ~(-1 >= End + Lag[kind]) /\ -1 <= day /\ 0 <= day /\ ~(0 >= End + Lag[kind])
  BY <1>1
<1> QED BY <1>2 DEF Settled, Empty, NoJob, Nothing

\* What is known of a call.
LEMMA HereDated ==
  ASSUME Inv, Dated, kind = "daily", NEW c \in Calls, pc[c] # "idle"
  PROVE  /\ job[c].began <= day /\ day <= job[c].began + 1
         /\ ~job[c].calm => job[c].began = day
         /\ job[c].forever => Horizon < job[c].began
         /\ pc[c] \in Saving => job[c].data.day >= job[c].began
         /\ pc[c] = "stamp" => job[c].time <= day
         /\ Floor(c) >= day - 1 /\ Floor(c) <= job[c].began /\ Floor(c) >= job[c].began - 1
         /\ \A d \in Calls : pc[d] # "idle" => job[d].began >= Floor(c)
         /\ Settled(job[c].data)
<1>1. CallOK(c) /\ Settled(job[c].data)
  BY DEF Dated, SettledOK
<1>2. day \in Nat /\ job[c].began \in Nat /\ job[c].calm \in BOOLEAN
  BY Days
<1>3. /\ job[c].began <= day /\ day <= job[c].began + 1 /\ (~job[c].calm => job[c].began = day)
  BY <1>1 DEF CallOK
<1>4. Floor(c) >= day - 1 /\ Floor(c) <= job[c].began /\ Floor(c) >= job[c].began - 1
  BY <1>2, <1>3 DEF Floor
<1> QED BY <1>1, <1>3, <1>4 DEF CallOK

LEMMA SinceLess ==
  ASSUME Inv, kind = "daily", NEW f \in File, NEW d \in Int, NEW e \in Int, e <= d, Since(f, d)
  PROVE  Since(f, e)
BY Days DEF Since

LEMMA InitDated == Init /\ kind = "daily" => Dated
<1> SUFFICES ASSUME Init, kind = "daily" PROVE Dated
  OBVIOUS
<1>1. Inv
  BY InitInv
<1>2. SettledOK
  <2>1. ~(0 >= End + Lag[kind])
    BY <1>1, Days
  <2> QED BY <1>1, <2>1, NothingHeld DEF Init, SettledOK
<1>3. \A c \in Calls : CallOK(c) /\ ReadOK(c)
  BY DEF Init, CallOK, ReadOK
<1>4. EntryOK /\ AnswerOK
  BY <1>1, NothingHeld DEF Init, EntryOK, AnswerOK, NoMeta, Writing, Dating
<1> QED BY <1>2, <1>3, <1>4 DEF Dated

\* A call goes on as j under another label.
LEMMA Goes ==
  ASSUME Inv, NEW c \in Calls, NEW label, NEW j,
         pc' = [pc EXCEPT ![c] = label], job' = [job EXCEPT ![c] = j],
         label # "idle" => j.began = job[c].began /\ j.calm = job[c].calm
  PROVE  /\ pc'[c] = label /\ job'[c] = j
         /\ \A d \in Calls : d # c => pc'[d] = pc[d] /\ job'[d] = job[d]
         /\ \A d \in Calls : pc'[d] # "idle" => Floor(d)' = Floor(d) /\ job'[d].began = job[d].began
<1>1. /\ pc'[c] = label /\ job'[c] = j
      /\ \A d \in Calls : d # c => pc'[d] = pc[d] /\ job'[d] = job[d]
  BY Here
<1>2. ASSUME NEW d \in Calls, pc'[d] # "idle"
      PROVE  job'[d].began = job[d].began /\ job'[d].calm = job[d].calm
  BY <1>1, <1>2
<1> QED BY <1>1, <1>2 DEF Floor

\* A call that was under way, or one that ends.
LEMMA GoOnDated ==
  ASSUME Inv, Dated, kind = "daily", NEW c \in Calls, pc[c] # "idle", NEW label, NEW j,
         pc' = [pc EXCEPT ![c] = label], job' = [job EXCEPT ![c] = j],
         UNCHANGED <<store, day>>,
         label # "idle" => /\ j.began = job[c].began /\ j.calm = job[c].calm
                           /\ j.forever = job[c].forever,
         Settled(j.data), label \in Saving => j.data.day >= j.began,
         label = "stamp" => j.time <= day,
         \A f \in File : Settled(disk'[f]),
         EntryOK', \A d \in Calls : ReadOK(d)', AnswerOK',
         Settled([rows |-> answer'.rows, day |-> answer'.of])
  PROVE  Dated'
<1>1. /\ pc'[c] = label /\ job'[c] = j
      /\ \A d \in Calls : d # c => pc'[d] = pc[d] /\ job'[d] = job[d]
      /\ \A d \in Calls : pc'[d] # "idle" => Floor(d)' = Floor(d) /\ job'[d].began = job[d].began
  BY Goes
<1>2. kind' = kind /\ offer' = offer /\ final' = final /\ day' = day
  BY DEF store
<1>3. ASSUME NEW data, Settled(data) PROVE Settled(data)'
  BY <1>2, <1>3 DEF Settled
<1>4. SettledOK'
  <2>1. \A d \in Calls : Settled(job'[d].data)
    BY <1>1 DEF Dated, SettledOK
  <2> QED BY <1>2, <2>1 DEF Dated, SettledOK, Settled
<1>5. ASSUME NEW d \in Calls PROVE CallOK(d)'
  <2> SUFFICES ASSUME pc'[d] # "idle" PROVE CallOK(d)'
    BY DEF CallOK
  <2>1. pc[d] # "idle" /\ job'[d].began = job[d].began /\ Floor(d)' = Floor(d)
        /\ job'[d].calm = job[d].calm /\ job'[d].forever = job[d].forever
    BY <1>1
  <2>2. CallOK(d)
    BY DEF Dated
  <2>3. \A e \in Calls : pc'[e] # "idle" => job'[e].began >= Floor(d)'
    BY <1>1, <2>1, <2>2 DEF CallOK
  <2>4. /\ pc'[d] \in Saving => job'[d].data.day >= job'[d].began
        /\ pc'[d] = "stamp" => job'[d].time <= day
    BY <1>1, <2>1, <2>2 DEF CallOK
  <2> QED BY <1>2, <2>1, <2>2, <2>3, <2>4 DEF CallOK
<1> QED BY <1>4, <1>5 DEF Dated

\* A step that leaves the files alone.
LEMMA SameEntry ==
  ASSUME EntryOK, UNCHANGED <<day, entry>>,
         \A d \in Calls : pc'[d] \in Writing => pc[d] \in Writing /\ Floor(d)' = Floor(d),
         \A d \in Calls : pc'[d] \in Dating => pc[d] \in Dating /\ Floor(d)' = Floor(d)
  PROVE  EntryOK'
<1>1. disk' = disk /\ blob' = blob /\ tmp' = tmp /\ meta' = meta /\ day' = day
  BY DEF entry
<1>2. /\ \A d \in Calls : pc'[d] \in Writing /\ tmp # NoFile => Since(tmp, Floor(d)')
      /\ \A d \in Calls : pc'[d] \in Dating /\ blob # NoFile => Since(blob, Floor(d)')
  BY DEF EntryOK
<1> QED BY <1>1, <1>2 DEF EntryOK, Since, Horizon

LEMMA QuietDated ==
  ASSUME Inv, Dated, kind = "daily", NEW c \in Calls, pc[c] # "idle", NEW label, NEW j,
         pc' = [pc EXCEPT ![c] = label], job' = [job EXCEPT ![c] = j],
         UNCHANGED <<store, day, entry>>,
         label # "idle" => /\ j.began = job[c].began /\ j.calm = job[c].calm
                           /\ j.forever = job[c].forever,
         label \notin Writing, label \notin Dating,
         Settled(j.data), label \in Saving => j.data.day >= j.began,
         label = "read" => Since(blob, job[c].began - 2) \/ Since(blob, Horizon),
         AnswerOK', Settled([rows |-> answer'.rows, day |-> answer'.of])
  PROVE  Dated'
<1>1. /\ pc'[c] = label
      /\ \A d \in Calls : d # c => pc'[d] = pc[d] /\ job'[d] = job[d]
      /\ \A d \in Calls : pc'[d] # "idle" => Floor(d)' = Floor(d) /\ job'[d].began = job[d].began
  BY Goes
<1>2. disk' = disk /\ blob' = blob
  BY DEF entry
<1>3. EntryOK'
  <2>1. /\ \A d \in Calls : pc'[d] \in Writing => pc[d] \in Writing /\ Floor(d)' = Floor(d)
        /\ \A d \in Calls : pc'[d] \in Dating => pc[d] \in Dating /\ Floor(d)' = Floor(d)
    BY <1>1 DEF Writing, Dating
  <2> QED BY <2>1, SameEntry DEF Dated
<1>4. \A d \in Calls : ReadOK(d)'
  BY <1>1, <1>2 DEF Dated, ReadOK, Since, Horizon
<1>5. \A f \in File : Settled(disk'[f])
  BY <1>2 DEF Dated, SettledOK
<1>6. label # "stamp"
  BY DEF Writing
<1> QED BY <1>3, <1>4, <1>5, <1>6, GoOnDated

\* The answer is silence.
LEMMA SilentOK ==
  ASSUME Inv, kind = "daily", Silent
  PROVE  AnswerOK' /\ Settled([rows |-> answer'.rows, day |-> answer'.of])
BY NothingHeld DEF Silent, AnswerOK

\* A call begins: it meets whoever is under way.
LEMMA BeginDated ==
  ASSUME Inv, Dated, kind = "daily", NEW c \in Calls, Begin(c) PROVE Dated'
<1> DEFINE calm == \A d \in Busy : job[d].began = day
           j == [NoJob EXCEPT !.began = day, !.forever = KeptForever(kind, day), !.calm = calm]
<1>1. /\ pc[c] = "idle" /\ job' = [job EXCEPT ![c] = j] /\ pc' = [pc EXCEPT ![c] = "get"]
      /\ UNCHANGED <<store, day, entry>> /\ Silent
  BY DEF Begin, Goto
<1>2. /\ j.began = day /\ j.calm = calm /\ (j.forever => Horizon < day) /\ j.data = NoJob.data
  BY Days DEF NoJob
<1> HIDE DEF j
<1>3. /\ pc'[c] = "get" /\ job'[c] = j
      /\ \A d \in Calls : d # c => pc'[d] = pc[d] /\ job'[d] = job[d]
  BY <1>1, Here
<1>4. /\ kind' = kind /\ offer' = offer /\ final' = final /\ day' = day
      /\ disk' = disk /\ blob' = blob /\ tmp' = tmp /\ meta' = meta
  BY <1>1 DEF store, entry
<1>5. \A d \in Calls : d # c => Floor(d)' = Floor(d)
  BY <1>3 DEF Floor
<1>6. SettledOK'
  <2>1. \A d \in Calls : Settled(job'[d].data)
    BY <1>2, <1>3, NothingHeld DEF Dated, SettledOK
  <2> QED BY <1>1, <1>4, <2>1, SilentOK DEF Dated, SettledOK, Settled
<1>7. ASSUME NEW d \in Calls PROVE CallOK(d)'
  <2> SUFFICES ASSUME pc'[d] # "idle" PROVE CallOK(d)'
    BY DEF CallOK
  <2>1. CASE d # c
    <3>1. pc[d] # "idle" /\ pc'[d] = pc[d] /\ job'[d] = job[d] /\ Floor(d)' = Floor(d) /\ CallOK(d)
      BY <1>3, <1>5, <2>1 DEF Dated
    <3>2. day >= Floor(d) /\ job[d].began \in Nat
      BY <3>1, HereDated, Days
    <3>3. \A e \in Calls : pc'[e] # "idle" => job'[e].began >= Floor(d)'
      BY <1>2, <1>3, <3>1, <3>2 DEF CallOK
    <3> QED BY <1>4, <3>1, <3>3 DEF CallOK
  <2>2. CASE d = c
    <3>1. day \in Nat /\ Floor(c)' = (IF calm THEN day ELSE day - 1)
      BY <1>2, <1>3, Days DEF Floor
    <3>2. ASSUME NEW e \in Calls, pc'[e] # "idle" PROVE job'[e].began >= Floor(c)'
      <4>1. CASE e = c
        BY <4>1, <1>2, <1>3, <3>1
      <4>2. CASE e # c /\ calm
        <5>1. job'[e].began = day
          BY <1>3, <3>2, <4>2 DEF Busy
        <5> QED BY <3>1, <4>2, <5>1
      <4>3. CASE e # c /\ ~calm
        <5>1. pc[e] # "idle" /\ job'[e] = job[e]
          BY <1>3, <3>2, <4>3
        <5>2. job[e].began \in Nat /\ day <= job[e].began + 1
          BY <5>1, HereDated, Days
        <5> QED BY <3>1, <4>3, <5>1, <5>2
      <4> QED BY <4>1, <4>2, <4>3
    <3>3. /\ job'[c].began = day /\ (job'[c].forever => Horizon < day) /\ pc'[c] = "get"
      BY <1>2, <1>3
    <3> QED BY <1>4, <2>2, <3>1, <3>2, <3>3 DEF CallOK, Saving, Horizon
  <2> QED BY <2>1, <2>2
<1>8. EntryOK'
  <2>1. /\ \A d \in Calls : pc'[d] \in Writing => pc[d] \in Writing /\ Floor(d)' = Floor(d)
        /\ \A d \in Calls : pc'[d] \in Dating => pc[d] \in Dating /\ Floor(d)' = Floor(d)
    BY <1>3, <1>5 DEF Writing, Dating
  <2> QED BY <1>1, <2>1, SameEntry DEF Dated
<1>9. \A d \in Calls : ReadOK(d)'
  BY <1>3, <1>4 DEF Dated, ReadOK, Since, Horizon
<1> QED BY <1>1, <1>6, <1>7, <1>8, <1>9, SilentOK DEF Dated

\* An entry that is fresh was fetched on the day before yesterday at the oldest.
LEMMA FreshIsRecent ==
  ASSUME Inv, Dated, kind = "daily", NEW c \in Calls, pc[c] # "idle",
         blob # NoFile, MayBeFresh(meta, day)
  PROVE  Since(blob, job[c].began - 2) \/ Since(blob, Horizon)
<1>1. EntryOK /\ blob \in File
  BY DEF Dated, Inv, TypeOK
<1>2. CASE meta.forever
  BY <1>1, <1>2 DEF EntryOK
<1>3. CASE ~meta.forever
  <2>1. meta # NoMeta /\ day <= meta.stored + 1 /\ Since(blob, meta.stored - 1)
    BY <1>1, <1>3 DEF MayBeFresh, EntryOK
  <2>2. meta.stored \in Nat /\ day \in Nat /\ job[c].began \in Nat /\ job[c].began <= day
    BY <2>1, Days, HereDated
  <2>3. meta.stored - 1 \in Int /\ job[c].began - 2 \in Int /\ job[c].began - 2 <= meta.stored - 1
    BY <2>1, <2>2
  <2> QED BY <1>1, <2>1, <2>3, SinceLess
<1> QED BY <1>2, <1>3

LEMMA GetDated ==
  ASSUME Inv, Dated, kind = "daily", NEW c \in Calls, Get(c) PROVE Dated'
<1> DEFINE j == job[c]
<1>1. PICK label \in {"read", "fetch"} :
        /\ pc' = [pc EXCEPT ![c] = label]
        /\ label = "read" => blob # NoFile /\ MayBeFresh(meta, day)
  BY DEF Get, Goto
<1>2. pc[c] # "idle" /\ UNCHANGED <<store, day, entry, job>> /\ Silent
  BY DEF Get
<1>3. job' = [job EXCEPT ![c] = j]
  BY <1>2, Here
<1>4. label = "read" => Since(blob, job[c].began - 2) \/ Since(blob, Horizon)
  BY <1>1, <1>2, FreshIsRecent
<1>5. Settled(j.data) /\ label \notin Writing /\ label \notin Dating /\ label \notin Saving
  BY <1>1 DEF Dated, SettledOK, Writing, Dating, Saving
<1>6. AnswerOK' /\ Settled([rows |-> answer'.rows, day |-> answer'.of])
  BY <1>2, SilentOK
<1> QED BY <1>1, <1>2, <1>3, <1>4, <1>5, <1>6, QuietDated

LEMMA FetchDated ==
  ASSUME Inv, Dated, kind = "daily", NEW c \in Calls,
         FetchSales(c) \/ FetchStats(c) \/ FetchEarnings(c)
  PROVE  Dated'
<1> DEFINE j == [job[c] EXCEPT !.data = Offered, !.tried = 0]
           label == "touch"
<1>1. /\ job' = [job EXCEPT ![c] = j] /\ pc' = [pc EXCEPT ![c] = label] /\ pc[c] # "idle"
      /\ UNCHANGED <<store, day, entry>> /\ Silent
  BY Here DEF FetchSales, FetchStats, FetchEarnings, Fetched, Goto, Job
<1>2. /\ j.began = job[c].began /\ j.calm = job[c].calm /\ j.forever = job[c].forever
      /\ j.data = Offered
  BY Here DEF Job
<1>3. Settled(Offered) /\ Offered.day >= job[c].began
  <2>1. day \in Nat /\ job[c].began <= day
    BY <1>1, HereDated, Days
  <2> QED BY <2>1 DEF Settled, Offered
<1>4. label \notin Writing /\ label \notin Dating /\ label # "read"
  BY DEF Writing, Dating
<1> HIDE DEF j, label
<1>5. AnswerOK' /\ Settled([rows |-> answer'.rows, day |-> answer'.of])
  BY <1>1, SilentOK
<1> QED BY <1>1, <1>2, <1>3, <1>4, <1>5, QuietDated

LEMMA RefuseVersionDated ==
  ASSUME Inv, Dated, kind = "daily", NEW c \in Calls, RefuseVersion(c) PROVE Dated'
<1> DEFINE j == [job[c] EXCEPT !.tried = @ + 1]
           label == "fetch"
<1>1. /\ job' = [job EXCEPT ![c] = j] /\ pc' = [pc EXCEPT ![c] = label] /\ pc[c] # "idle"
      /\ UNCHANGED <<store, day, entry>> /\ Silent
  BY Here DEF RefuseVersion, Job
<1>2. /\ j.began = job[c].began /\ j.calm = job[c].calm /\ j.forever = job[c].forever
      /\ j.data = job[c].data
  BY Here DEF Job
<1> HIDE DEF j
<1>3. Settled(j.data)
  BY <1>2 DEF Dated, SettledOK
<1>4. label \notin Writing /\ label \notin Dating /\ label \notin Saving /\ label # "read"
  BY DEF Writing, Dating, Saving
<1> HIDE DEF label
<1>5. AnswerOK' /\ Settled([rows |-> answer'.rows, day |-> answer'.of])
  BY <1>1, SilentOK
<1> QED BY <1>1, <1>2, <1>3, <1>4, <1>5, QuietDated

\* A call ends, and leaves the files alone.
LEMMA EndDated ==
  ASSUME Inv, Dated, kind = "daily", NEW c \in Calls, pc[c] # "idle",
         pc' = [pc EXCEPT ![c] = "idle"], job' = [job EXCEPT ![c] = NoJob],
         UNCHANGED <<store, day, entry>>,
         AnswerOK', Settled([rows |-> answer'.rows, day |-> answer'.of])
  PROVE  Dated'
<1> DEFINE label == "idle"
           j == NoJob
<1>1. label \notin Writing /\ label \notin Dating /\ label \notin Saving /\ label # "read"
  BY DEF Writing, Dating, Saving
<1>2. label = "idle" /\ pc' = [pc EXCEPT ![c] = label] /\ job' = [job EXCEPT ![c] = j]
  OBVIOUS
<1>3. Settled(j.data)
  BY NothingHeld
<1> HIDE DEF label, j
<1> QED BY <1>1, <1>2, <1>3, QuietDated

LEMMA FailFetchDated ==
  ASSUME Inv, Dated, kind = "daily", NEW c \in Calls, FailFetch(c) PROVE Dated'
<1>1. /\ job' = [job EXCEPT ![c] = NoJob] /\ pc' = [pc EXCEPT ![c] = "idle"] /\ pc[c] # "idle"
      /\ UNCHANGED <<store, day, entry>> /\ Silent
  BY DEF FailFetch, Return, Goto
<1>2. AnswerOK' /\ Settled([rows |-> answer'.rows, day |-> answer'.of])
  BY <1>1, SilentOK
<1> QED BY <1>1, <1>2, EndDated

\* A call answers with what it has read or fetched.
LEMMA AnswerDated ==
  ASSUME Inv, Dated, kind = "daily", NEW c \in Calls, pc[c] # "idle",
         NEW data, Answer(c, data), Settled(data),
         \/ data.rows # "none" \/ data.day = -1
         \/ data.day >= job[c].began - 2 \/ data.day >= Horizon
  PROVE  /\ AnswerOK' /\ Settled([rows |-> answer'.rows, day |-> answer'.of])
         /\ job' = [job EXCEPT ![c] = NoJob] /\ pc' = [pc EXCEPT ![c] = "idle"]
<1>1. /\ answer'.rows = data.rows /\ answer'.of = data.day /\ answer'.asked = job[c].began
      /\ job' = [job EXCEPT ![c] = NoJob] /\ pc' = [pc EXCEPT ![c] = "idle"]
  BY DEF Answer, Return, Goto
<1> QED BY <1>1 DEF AnswerOK, Settled, Horizon

LEMMA HitDated ==
  ASSUME Inv, Dated, kind = "daily", NEW c \in Calls, Hit(c) PROVE Dated'
<1>1. /\ Answer(c, disk[blob]) /\ pc[c] = "read" /\ UNCHANGED <<store, day, entry>>
  BY DEF Hit
<1>2. blob \in File /\ Settled(disk[blob])
  BY <1>1 DEF Inv, TypeOK, ReadsAFile, Dated, SettledOK
<1>3. \/ disk[blob].rows # "none" \/ disk[blob].day = -1
      \/ disk[blob].day >= job[c].began - 2 \/ disk[blob].day >= Horizon
  BY <1>1, NothingHeld DEF Dated, ReadOK, Since
<1>4. /\ AnswerOK' /\ Settled([rows |-> answer'.rows, day |-> answer'.of])
      /\ job' = [job EXCEPT ![c] = NoJob] /\ pc' = [pc EXCEPT ![c] = "idle"]
  BY <1>1, <1>2, <1>3, AnswerDated
<1> QED BY <1>1, <1>4, EndDated

\* A save that is over, or failed: its data is of the day it began or later.
LEMMA SavedAnswer ==
  ASSUME Inv, Dated, kind = "daily", NEW c \in Calls, pc[c] \in Saving,
         Answer(c, job[c].data)
  PROVE  /\ AnswerOK' /\ Settled([rows |-> answer'.rows, day |-> answer'.of])
         /\ job' = [job EXCEPT ![c] = NoJob] /\ pc' = [pc EXCEPT ![c] = "idle"]
<1>1. pc[c] # "idle" /\ job[c].data.day \in Int /\ job[c].began \in Nat
      /\ job[c].data.day >= job[c].began /\ Settled(job[c].data)
  BY Days, HereDated DEF Saving
<1>2. job[c].data.day >= job[c].began - 2
  BY <1>1
<1> QED BY <1>1, <1>2, AnswerDated

LEMMA FailSetDated ==
  ASSUME Inv, Dated, kind = "daily", NEW c \in Calls, FailSet(c) PROVE Dated'
<1>1. /\ Answer(c, job[c].data) /\ pc[c] \in Saving /\ UNCHANGED <<store, day, entry>>
      /\ pc[c] # "idle"
  BY DEF FailSet, Saving
<1>2. /\ AnswerOK' /\ Settled([rows |-> answer'.rows, day |-> answer'.of])
      /\ job' = [job EXCEPT ![c] = NoJob] /\ pc' = [pc EXCEPT ![c] = "idle"]
  BY <1>1, SavedAnswer
<1> QED BY <1>1, <1>2, EndDated

LEMMA NamedIs == ASSUME Inv, Dated PROVE Named \in File /\ Named # blob
BY NamedFile, FreshFile DEF Named, Dated, EntryOK

\* What a call may not go below, and what comes after it.
LEMMA Above ==
  ASSUME Inv, Dated, kind = "daily", NEW c \in Calls, pc[c] # "idle"
  PROVE  /\ Floor(c) \in Int /\ job[c].began \in Int
         /\ meta # NoMeta => meta.stored - 1 \in Int /\ meta.stored - 1 <= Floor(c)
         /\ meta.forever => Horizon \in Int /\ Horizon <= Floor(c)
         /\ \A d \in Calls : pc[d] # "idle" =>
              /\ Floor(d) \in Int /\ Floor(d) <= job[c].began
              /\ job[d].began - 2 \in Int /\ job[d].began - 2 <= Floor(c)
<1>1. /\ Floor(c) \in Int /\ job[c].began \in Nat /\ day \in Nat /\ Horizon \in Nat
      /\ meta # NoMeta => meta.stored \in Nat
      /\ Floor(c) >= day - 1
  BY Days, HereDated
<1>2. /\ meta # NoMeta => meta.stored <= day
      /\ meta.forever => Horizon < day
  BY DEF Dated, EntryOK
<1>3. ASSUME NEW d \in Calls, pc[d] # "idle"
      PROVE  /\ Floor(d) \in Int /\ Floor(d) <= job[c].began
             /\ job[d].began - 2 \in Int /\ job[d].began - 2 <= Floor(c)
  <2>1. Floor(d) \in Int /\ job[d].began \in Nat /\ job[d].began <= day
    BY <1>3, Days, HereDated
  <2>2. job[c].began >= Floor(d)
    BY <1>3, HereDated
  <2> QED BY <1>1, <2>1, <2>2
<1>4. /\ meta # NoMeta => meta.stored - 1 \in Int /\ meta.stored - 1 <= Floor(c)
      /\ meta.forever => Horizon \in Int /\ Horizon <= Floor(c)
  BY <1>1, <1>2
<1> QED BY <1>1, <1>3, <1>4

\* A save takes the temporary name: its file is empty, or stays as it is.
LEMMA NewFileDated ==
  ASSUME Inv, Dated, kind = "daily", NEW c \in Calls, pc[c] \in {"touch", "open"},
         NEW label \in {"open", "fill"}, NEW j,
         pc' = [pc EXCEPT ![c] = label], job' = [job EXCEPT ![c] = j],
         j.began = job[c].began, j.calm = job[c].calm, j.forever = job[c].forever,
         j.data = job[c].data,
         tmp' = Named, disk' = [disk EXCEPT ![Named] = Empty] \/ (tmp # NoFile /\ disk' = disk),
         label = "fill" => disk' = [disk EXCEPT ![Named] = Empty],
         UNCHANGED <<store, day, blob, meta>>, Silent
  PROVE  Dated'
<1>1. /\ pc'[c] = label
      /\ \A d \in Calls : d # c => pc'[d] = pc[d] /\ job'[d] = job[d]
      /\ \A d \in Calls : pc'[d] # "idle" => Floor(d)' = Floor(d) /\ job'[d].began = job[d].began
  BY Goes
<1>2. /\ Named \in File /\ Named # blob /\ blob' = blob /\ meta' = meta /\ day' = day
      /\ Horizon' = Horizon
  BY NamedIs DEF Horizon
<1>3. /\ blob # NoFile => disk'[blob] = disk[blob]
      /\ disk'[Named] = Empty \/ (tmp # NoFile /\ disk'[Named] = disk[Named])
      /\ label = "fill" => disk'[Named] = Empty
  BY <1>2, Here
<1>4. EntryOK'
  <2>1. ASSUME NEW d \in Calls, pc'[d] \in Writing PROVE Since(tmp, Floor(d))'
    <3>1. CASE disk'[Named] = Empty
      BY <3>1 DEF Since
    <3>2. CASE disk'[Named] # Empty
      <4>1. tmp # NoFile /\ Named = tmp /\ label # "fill" /\ disk'[tmp] = disk[tmp]
        BY <1>3, <3>2 DEF Named
      <4>2. d # c /\ pc[d] \in Writing /\ Floor(d)' = Floor(d)
        BY <1>1, <2>1, <4>1 DEF Writing
      <4>3. Since(tmp, Floor(d))
        BY <4>1, <4>2 DEF Dated, EntryOK
      <4> QED BY <4>1, <4>2, <4>3 DEF Since
    <3> QED BY <3>1, <3>2
  <2>2. ASSUME NEW d \in Calls, pc'[d] \in Dating, blob # NoFile PROVE Since(blob, Floor(d))'
    <3>1. d # c /\ pc[d] \in Dating /\ Floor(d)' = Floor(d)
      BY <1>1, <2>2 DEF Dating
    <3>2. Since(blob, Floor(d))
      BY <2>2, <3>1 DEF Dated, EntryOK
    <3> QED BY <1>2, <1>3, <2>2, <3>1, <3>2 DEF Since
  <2>3. /\ meta' # NoMeta =>
             meta'.stored <= day' /\ (blob' # NoFile => Since(blob, meta.stored - 1)')
        /\ meta'.forever => Horizon' < day' /\ (blob' # NoFile => Since(blob, Horizon)')
    BY <1>2, <1>3 DEF Dated, EntryOK, Since
  <2> QED BY <1>2, <2>1, <2>2, <2>3 DEF EntryOK
<1>5. ASSUME NEW d \in Calls PROVE ReadOK(d)'
  <2> SUFFICES ASSUME pc'[d] = "read"
               PROVE  (Since(blob, job[d].began - 2) \/ Since(blob, Horizon))'
    BY DEF ReadOK
  <2>1. d # c /\ pc[d] = "read" /\ job'[d] = job[d] /\ blob # NoFile
    BY <1>1 DEF Inv, ReadsAFile
  <2>2. Since(blob, job[d].began - 2) \/ Since(blob, Horizon)
    BY <2>1 DEF Dated, ReadOK
  <2> QED BY <1>2, <1>3, <2>1, <2>2 DEF Since
<1>6. ASSUME NEW f \in File PROVE Settled(disk'[f])
  <2>1. disk'[f] = disk[f] \/ disk'[f] = Empty
    BY <1>2, <1>6, Here
  <2>2. Settled(disk[f]) /\ Settled(Empty)
    BY <1>6, NothingHeld DEF Dated, SettledOK
  <2> QED BY <2>1, <2>2
<1>7. AnswerOK' /\ Settled([rows |-> answer'.rows, day |-> answer'.of])
  BY SilentOK
<1>8. pc[c] # "idle" /\ label # "idle" /\ label # "stamp"
  OBVIOUS
<1>9. Settled(j.data) /\ j.data.day >= j.began
  BY HereDated DEF Saving
<1> QED BY <1>4, <1>5, <1>6, <1>7, <1>8, <1>9, GoOnDated

LEMMA TouchDated ==
  ASSUME Inv, Dated, kind = "daily", NEW c \in Calls, Touch(c) PROVE Dated'
<1> DEFINE j == job[c]
           label == "open"
<1>1. /\ pc[c] \in {"touch", "open"} /\ pc' = [pc EXCEPT ![c] = label]
      /\ tmp' = Named /\ UNCHANGED <<store, day, blob, meta, job>> /\ Silent
      /\ label \in {"open", "fill"} /\ label # "fill"
  BY DEF Touch, Goto
<1>2. job' = [job EXCEPT ![c] = j]
  BY <1>1, Here
<1>3. disk' = [disk EXCEPT ![Named] = Empty] \/ (tmp # NoFile /\ disk' = disk)
  BY DEF Touch, Named
<1> HIDE DEF label
<1> QED BY <1>1, <1>2, <1>3, NewFileDated

LEMMA OpenDated ==
  ASSUME Inv, Dated, kind = "daily", NEW c \in Calls, Open(c) PROVE Dated'
<1> DEFINE j == [job[c] EXCEPT !.handle = Named]
           label == "fill"
<1>1. /\ pc[c] \in {"touch", "open"} /\ pc' = [pc EXCEPT ![c] = label]
      /\ tmp' = Named /\ disk' = [disk EXCEPT ![Named] = Empty]
      /\ UNCHANGED <<store, day, blob, meta>> /\ Silent
      /\ label \in {"open", "fill"}
  BY DEF Open, Goto
<1>2. job' = [job EXCEPT ![c] = j]
  BY Here DEF Open, Job
<1>3. /\ j.began = job[c].began /\ j.calm = job[c].calm /\ j.forever = job[c].forever
      /\ j.data = job[c].data
  BY Here DEF Job
<1> HIDE DEF label, j
<1> QED BY <1>1, <1>2, <1>3, NewFileDated

\* What is written over a file is there, or was fetched since the call began.
LEMMA FillDated ==
  ASSUME Inv, Dated, kind = "daily", NEW c \in Calls, Fill(c) PROVE Dated'
<1> DEFINE h == job[c].handle
           new == job[c].data
           j == [job[c] EXCEPT !.handle = NoFile]
           label == "replace"
<1>1. /\ pc[c] = "fill" /\ pc[c] # "idle" /\ pc' = [pc EXCEPT ![c] = label]
      /\ UNCHANGED <<store, day, blob, tmp, meta>> /\ Silent
  BY DEF Fill, Goto
<1>2. PICK data \in Over(disk[h], new) : Put(h, data)
  BY DEF Fill
<1>3. job' = [job EXCEPT ![c] = j]
  BY Here DEF Fill, Job
<1>4. /\ j.began = job[c].began /\ j.calm = job[c].calm /\ j.forever = job[c].forever
      /\ j.data = new
  BY Here DEF Job
<1>5. h \in File /\ disk[h] \in Blob \cup {Empty} /\ new \in Blob \cup {Empty}
  BY <1>1, Here, JobFields
<1>6. Settled(new) /\ new.day >= job[c].began /\ new.day \in Int /\ job[c].began \in Int
  BY <1>1, HereDated, Days DEF Saving
<1>7. label \notin Dating /\ label # "idle" /\ label # "read" /\ label # "stamp"
  BY DEF Dating
<1> HIDE DEF j, h, label, new
<1>8. data = new \/ (data = disk[h] /\ data.rows # "none")
  BY <1>2, <1>5, OverIs DEF Sales
<1>9. /\ Settled(data)
      /\ \A e \in Int : e <= job[c].began => data.rows # "none" \/ data.day >= e
  BY <1>5, <1>6, <1>8 DEF Dated, SettledOK
<1>10. \A f \in File : disk'[f] = disk[f] \/ disk'[f] = data
  BY <1>2, <1>5, Here DEF Put
<1>11. ASSUME NEW f \in File, NEW e \in Int, e <= job[c].began, Since(f, e)
       PROVE  disk'[f].rows # "none" \/ disk'[f].day >= e \/ disk'[f] = Empty
  BY <1>9, <1>10, <1>11 DEF Since
<1>12. /\ pc'[c] = label
       /\ \A d \in Calls : d # c => pc'[d] = pc[d] /\ job'[d] = job[d]
       /\ \A d \in Calls : pc'[d] # "idle" => Floor(d)' = Floor(d) /\ job'[d].began = job[d].began
  <2>1. label # "idle" => j.began = job[c].began /\ j.calm = job[c].calm
    BY <1>4
  <2> QED BY <1>1, <1>3, <2>1, Goes
<1>13. /\ blob' = blob /\ tmp' = tmp /\ meta' = meta /\ day' = day /\ Horizon' = Horizon
       /\ blob # NoFile => blob \in File
       /\ tmp # NoFile => tmp \in File
  BY <1>1, Here DEF Horizon
<1>14. Floor(c) <= job[c].began
  BY <1>1, Above
<1>15. EntryOK'
  <2>1. ASSUME NEW d \in Calls, pc'[d] \in Writing, tmp # NoFile PROVE Since(tmp, Floor(d))'
    <3>1. pc[d] \in Writing /\ pc[d] # "idle" /\ Floor(d)' = Floor(d)
      BY <1>1, <1>12, <2>1 DEF Writing
    <3>2. Floor(d) \in Int /\ Floor(d) <= job[c].began /\ Since(tmp, Floor(d))
      BY <1>1, <2>1, <3>1, Above DEF Dated, EntryOK
    <3> QED BY <1>11, <1>13, <2>1, <3>1, <3>2 DEF Since
  <2>2. ASSUME NEW d \in Calls, pc'[d] \in Dating, blob # NoFile PROVE Since(blob, Floor(d))'
    <3>1. pc[d] \in Dating /\ pc[d] # "idle" /\ Floor(d)' = Floor(d)
      BY <1>7, <1>12, <2>2 DEF Dating
    <3>2. Floor(d) \in Int /\ Floor(d) <= job[c].began /\ Since(blob, Floor(d))
      BY <1>1, <2>2, <3>1, Above DEF Dated, EntryOK
    <3> QED BY <1>11, <1>13, <2>2, <3>1, <3>2 DEF Since
  <2>3. ASSUME meta # NoMeta, blob # NoFile PROVE Since(blob, meta.stored - 1)'
    <3>1. meta.stored - 1 \in Int /\ meta.stored - 1 <= job[c].began /\ Since(blob, meta.stored - 1)
      BY <1>1, <1>6, <1>14, <2>3, Above DEF Dated, EntryOK
    <3> QED BY <1>11, <1>13, <2>3, <3>1 DEF Since
  <2>4. ASSUME meta.forever, blob # NoFile PROVE Since(blob, Horizon)'
    <3>1. Horizon \in Int /\ Horizon <= job[c].began /\ Since(blob, Horizon)
      BY <1>1, <1>6, <1>14, <2>4, Above DEF Dated, EntryOK
    <3> QED BY <1>11, <1>13, <2>4, <3>1 DEF Since
  <2> QED BY <1>13, <2>1, <2>2, <2>3, <2>4 DEF Dated, EntryOK
<1>16. ASSUME NEW d \in Calls PROVE ReadOK(d)'
  <2> SUFFICES ASSUME pc'[d] = "read"
               PROVE  (Since(blob, job[d].began - 2) \/ Since(blob, Horizon))'
    BY DEF ReadOK
  <2>1. d # c /\ pc[d] = "read" /\ pc[d] # "idle" /\ job'[d] = job[d] /\ blob \in File
    BY <1>7, <1>12 DEF Inv, ReadsAFile, TypeOK
  <2>2. job[d].began - 2 \in Int /\ job[d].began - 2 <= job[c].began /\ Horizon \in Int
    BY <1>1, <1>6, <1>14, <2>1, Above, Days
  <2>3. CASE Since(blob, job[d].began - 2)
    BY <1>11, <1>13, <2>1, <2>2, <2>3 DEF Since
  <2>4. CASE Since(blob, Horizon)
    <3>1. CASE Horizon <= job[c].began
      BY <1>11, <1>13, <2>1, <2>2, <2>4, <3>1 DEF Since
    <3>2. CASE Horizon > job[c].began
      <4>1. Since(blob, job[d].began - 2)
        <5>1. job[d].began - 2 <= Horizon
          BY <1>6, <2>2, <3>2
        <5> QED BY <2>1, <2>2, <2>4, <5>1, SinceLess
      <4> QED BY <1>11, <1>13, <2>1, <2>2, <4>1 DEF Since
    <3> QED BY <1>6, <2>2, <3>1, <3>2
  <2> QED BY <2>1, <2>3, <2>4 DEF Dated, ReadOK
<1>17. \A f \in File : Settled(disk'[f])
  BY <1>9, <1>10 DEF Dated, SettledOK
<1>18. AnswerOK' /\ Settled([rows |-> answer'.rows, day |-> answer'.of])
  BY <1>1, SilentOK
<1>19. Settled(j.data) /\ j.data.day >= j.began
  BY <1>4, <1>6
<1> QED BY <1>1, <1>3, <1>4, <1>7, <1>15, <1>16, <1>17, <1>18, <1>19, GoOnDated

\* The move makes the entry of whatever file the temporary name leads to.
LEMMA ReplaceDated ==
  ASSUME Inv, Dated, kind = "daily", NEW c \in Calls, Replace(c) PROVE Dated'
<1> DEFINE j == job[c]
           label == "erase"
<1>1. /\ pc[c] = "replace" /\ pc[c] # "idle" /\ tmp # NoFile /\ blob' = tmp /\ tmp' = NoFile
      /\ disk' = [f \in File |-> IF f = blob THEN Empty ELSE disk[f]]
      /\ pc' = [pc EXCEPT ![c] = label] /\ UNCHANGED <<store, day, meta, job>> /\ Silent
  BY DEF Replace, Goto
<1>2. job' = [job EXCEPT ![c] = j]
  BY <1>1, Here
<1>3. label # "idle" /\ label # "read" /\ label # "stamp" /\ label \in Writing
  BY DEF Writing
<1> HIDE DEF label
<1>4. /\ pc'[c] = label
      /\ \A d \in Calls : d # c => pc'[d] = pc[d] /\ job'[d] = job[d]
      /\ \A d \in Calls : pc'[d] # "idle" => Floor(d)' = Floor(d) /\ job'[d].began = job[d].began
  <2>1. label # "idle" => j.began = job[c].began /\ j.calm = job[c].calm
    OBVIOUS
  <2>2. pc' = [pc EXCEPT ![c] = label]
    BY <1>1
  <2> HIDE DEF j
  <2> QED BY <1>2, <2>1, <2>2, Goes
<1>5. /\ tmp \in File /\ tmp # blob /\ disk'[tmp] = disk[tmp]
      /\ meta' = meta /\ day' = day /\ Horizon' = Horizon
  BY <1>1, Here DEF Horizon, Dated, EntryOK
<1>6. ASSUME NEW e \in Int, e <= Floor(c)
      PROVE  disk'[tmp].rows # "none" \/ disk'[tmp].day >= e \/ disk'[tmp] = Empty
  <2>1. Since(tmp, Floor(c)) /\ Floor(c) \in Int
    BY <1>1, Above DEF Dated, EntryOK, Writing
  <2>2. Since(tmp, e)
    BY <1>5, <1>6, <2>1, SinceLess
  <2> QED BY <1>5, <2>2 DEF Since
<1>7. EntryOK'
  <2>1. ASSUME meta # NoMeta PROVE Since(blob, meta.stored - 1)'
    BY <1>1, <1>5, <1>6, <2>1, Above DEF Since
  <2>2. ASSUME meta.forever PROVE Since(blob, Horizon)'
    BY <1>1, <1>5, <1>6, <2>2, Above DEF Since
  <2>3. ASSUME NEW d \in Calls, pc'[d] \in Dating PROVE Since(blob, Floor(d))'
    <3>1. Floor(d)' = Floor(d) /\ (d # c => pc[d] \in Writing)
      BY <1>4, <2>3 DEF Writing, Dating
    <3>2. pc[d] \in Writing
      BY <1>1, <3>1 DEF Writing
    <3>3. Since(tmp, Floor(d))
      BY <1>1, <3>2 DEF Dated, EntryOK
    <3> QED BY <1>1, <1>5, <3>1, <3>3 DEF Since
  <2> QED BY <1>1, <1>5, <2>1, <2>2, <2>3 DEF Dated, EntryOK
<1>8. ASSUME NEW d \in Calls PROVE ReadOK(d)'
  <2> SUFFICES ASSUME pc'[d] = "read" PROVE Since(blob, job[d].began - 2)'
    BY DEF ReadOK
  <2>1. d # c /\ pc[d] # "idle" /\ job'[d] = job[d]
    BY <1>3, <1>4
  <2>2. job[d].began - 2 \in Int /\ job[d].began - 2 <= Floor(c)
    BY <1>1, <2>1, Above
  <2> QED BY <1>1, <1>6, <2>1, <2>2 DEF Since
<1>9. ASSUME NEW f \in File PROVE Settled(disk'[f])
  <2>1. disk'[f] = disk[f] \/ disk'[f] = Empty
    BY <1>1, <1>9
  <2>2. Settled(disk[f]) /\ Settled(Empty)
    BY <1>9, NothingHeld DEF Dated, SettledOK
  <2> QED BY <2>1, <2>2
<1>10. AnswerOK' /\ Settled([rows |-> answer'.rows, day |-> answer'.of])
  BY <1>1, SilentOK
<1>11. Settled(j.data) /\ j.data.day >= j.began
  BY <1>1, HereDated DEF Saving
<1> QED BY <1>1, <1>2, <1>3, <1>7, <1>8, <1>9, <1>10, <1>11, GoOnDated

LEMMA EraseMetaDated ==
  ASSUME Inv, Dated, kind = "daily", NEW c \in Calls, EraseMeta(c) PROVE Dated'
<1> DEFINE j == [job[c] EXCEPT !.time = day]
           label == "stamp"
<1>1. /\ pc[c] = "erase" /\ pc[c] # "idle" /\ meta' = NoMeta /\ pc' = [pc EXCEPT ![c] = label]
      /\ UNCHANGED <<store, day, disk, blob, tmp>> /\ Silent
  BY DEF EraseMeta, Goto
<1>2. job' = [job EXCEPT ![c] = j]
  BY Here DEF EraseMeta, Job
<1>3. /\ j.began = job[c].began /\ j.calm = job[c].calm /\ j.forever = job[c].forever
      /\ j.data = job[c].data /\ j.time <= day
  BY Here DEF Job
<1>4. label # "idle" /\ label # "read"
  OBVIOUS
<1> HIDE DEF label, j
<1>5. /\ pc'[c] = label
      /\ \A d \in Calls : d # c => pc'[d] = pc[d] /\ job'[d] = job[d]
      /\ \A d \in Calls : pc'[d] # "idle" => Floor(d)' = Floor(d) /\ job'[d].began = job[d].began
  <2>1. label # "idle" => j.began = job[c].began /\ j.calm = job[c].calm
    BY <1>3
  <2> QED BY <1>1, <1>2, <2>1, Goes
<1>6. EntryOK'
  <2>1. ASSUME NEW d \in Calls
        PROVE  /\ pc'[d] \in Writing => pc[d] \in Writing /\ Floor(d)' = Floor(d)
               /\ pc'[d] \in Dating => pc[d] \in Dating /\ Floor(d)' = Floor(d)
    BY <1>1, <1>5 DEF Writing, Dating
  <2>2. /\ \A d \in Calls : pc'[d] \in Writing /\ tmp # NoFile => Since(tmp, Floor(d)')
        /\ \A d \in Calls : pc'[d] \in Dating /\ blob # NoFile => Since(blob, Floor(d)')
    BY <2>1 DEF Dated, EntryOK
  <2> QED BY <1>1, <2>2 DEF Dated, EntryOK, Since, NoMeta
<1>7. ASSUME NEW d \in Calls PROVE ReadOK(d)'
  BY <1>1, <1>4, <1>5 DEF Dated, ReadOK, Since, Horizon
<1>8. \A f \in File : Settled(disk'[f])
  BY <1>1 DEF Dated, SettledOK
<1>9. AnswerOK' /\ Settled([rows |-> answer'.rows, day |-> answer'.of])
  BY <1>1, SilentOK
<1>10. Settled(j.data) /\ j.data.day >= j.began
  BY <1>1, <1>3, HereDated DEF Saving
<1> QED BY <1>1, <1>2, <1>3, <1>4, <1>6, <1>7, <1>8, <1>9, <1>10, GoOnDated

\* The stamp is of the day of the answer or of the one before it, and so is
\* every call the save has met.
LEMMA StampDated ==
  ASSUME Inv, Dated, kind = "daily", NEW c \in Calls, Stamp(c) PROVE Dated'
<1> DEFINE j == NoJob
           label == "idle"
<1>1. /\ pc[c] = "stamp" /\ pc[c] # "idle" /\ pc[c] \in Saving /\ pc[c] \in Dating
      /\ Answer(c, job[c].data)
      /\ UNCHANGED <<store, day, disk, blob, tmp>>
      /\ meta' = [stored |-> job[c].time, forever |-> job[c].forever] \/ meta' = NoMeta
  BY DEF Stamp, Saving, Dating
<1>2. /\ AnswerOK' /\ Settled([rows |-> answer'.rows, day |-> answer'.of])
      /\ job' = [job EXCEPT ![c] = j] /\ pc' = [pc EXCEPT ![c] = label]
  BY <1>1, SavedAnswer
<1>3. /\ label = "idle" /\ label \notin Saving /\ label \notin Writing /\ label \notin Dating
      /\ label # "read" /\ label # "stamp" /\ Settled(j.data)
  BY NothingHeld DEF Saving, Writing, Dating
<1> HIDE DEF label, j
<1>4. /\ pc'[c] = label
      /\ \A d \in Calls : d # c => pc'[d] = pc[d] /\ job'[d] = job[d]
      /\ \A d \in Calls : pc'[d] # "idle" => Floor(d)' = Floor(d) /\ job'[d].began = job[d].began
  <2>1. label # "idle" => j.began = job[c].began /\ j.calm = job[c].calm
    BY <1>3
  <2> QED BY <1>2, <2>1, Goes
<1>5. /\ blob # NoFile => Since(blob, Floor(c)) /\ blob \in File
      /\ Floor(c) \in Int /\ Floor(c) >= day - 1 /\ Floor(c) >= job[c].began - 1
      /\ job[c].time \in Nat /\ day \in Nat /\ Horizon \in Nat /\ job[c].began \in Nat
      /\ job[c].time <= day /\ job[c].began <= day
      /\ job[c].forever => Horizon < job[c].began
  BY <1>1, HereDated, Days, Here DEF Dated, EntryOK
<1>6. EntryOK'
  <2>1. /\ \A d \in Calls : pc'[d] \in Writing /\ tmp # NoFile => Since(tmp, Floor(d)')
        /\ \A d \in Calls : pc'[d] \in Dating /\ blob # NoFile => Since(blob, Floor(d)')
    <3>1. ASSUME NEW d \in Calls
          PROVE  /\ pc'[d] \in Writing => pc[d] \in Writing /\ Floor(d)' = Floor(d)
                 /\ pc'[d] \in Dating => pc[d] \in Dating /\ Floor(d)' = Floor(d)
      BY <1>3, <1>4 DEF Writing, Dating
    <3> QED BY <3>1 DEF Dated, EntryOK
  <2>2. /\ meta' # NoMeta => meta'.stored <= day
        /\ meta' # NoMeta /\ blob # NoFile => Since(blob, meta'.stored - 1)
        /\ meta'.forever => Horizon < day
        /\ meta'.forever /\ blob # NoFile => Since(blob, Horizon)
    <3>1. CASE meta' = NoMeta
      BY <3>1 DEF NoMeta
    <3>2. CASE meta' # NoMeta
      <4>1. meta'.stored = job[c].time /\ meta'.forever = job[c].forever
        BY <1>1, <3>2
      <4>2. blob # NoFile => Since(blob, job[c].time - 1)
        <5>1. job[c].time - 1 \in Int /\ job[c].time - 1 <= Floor(c)
          BY <1>5
        <5> QED BY <1>5, <5>1, SinceLess
      <4>3. job[c].forever /\ blob # NoFile => Since(blob, Horizon)
        <5>1. job[c].forever => Horizon \in Int /\ Horizon <= Floor(c)
          BY <1>5
        <5> QED BY <1>5, <5>1, SinceLess
      <4>4. job[c].forever => Horizon < day
        BY <1>5
      <4> QED BY <1>5, <4>1, <4>2, <4>3, <4>4
    <3> QED BY <3>1, <3>2
  <2> QED BY <1>1, <2>1, <2>2 DEF Dated, EntryOK, Since, Horizon
<1>7. ASSUME NEW d \in Calls PROVE ReadOK(d)'
  BY <1>1, <1>3, <1>4 DEF Dated, ReadOK, Since, Horizon
<1>8. \A f \in File : Settled(disk'[f])
  BY <1>1 DEF Dated, SettledOK
<1> QED BY <1>1, <1>2, <1>3, <1>6, <1>7, <1>8, GoOnDated

\* Midnight finds only calls of the day before it.
LEMMA TickDated ==
  ASSUME Inv, Dated, kind = "daily", Tick PROVE Dated'
<1>1. /\ kind' = kind /\ offer' = offer /\ final' = final /\ day' = day + 1
      /\ disk' = disk /\ blob' = blob /\ tmp' = tmp /\ meta' = meta /\ pc' = pc /\ job' = job
      /\ Silent
  BY DEF Tick, store, entry
<1>2. day \in Nat /\ (day + 1 >= End + Lag[kind] => final)
  BY Days DEF Tick
<1>3. ASSUME NEW data, data.day \in Int, Settled(data) PROVE Settled(data)'
  BY <1>1, <1>2, <1>3 DEF Settled
<1>4. SettledOK'
  <2>1. \A f \in File : Settled(disk[f])'
    BY <1>3, Days DEF Dated, SettledOK, Settled, Tick, store, entry
  <2>2. ASSUME NEW c \in Calls PROVE Settled(job[c].data)'
    BY <1>1, <1>2, Days DEF Dated, SettledOK, Settled
  <2>3. Settled([rows |-> answer.rows, day |-> answer.of])'
    <3>1. Settled([rows |-> Nothing.rows, day |-> Nothing.of]) /\ answer' = Nothing
      BY <1>1, NothingHeld DEF Silent
    <3>2. Nothing.of \in Int
      BY DEF Nothing
    <3> QED BY <1>1, <1>2, <3>1, <3>2 DEF Settled
  <2> QED BY <1>1, <1>2, <2>1, <2>2, <2>3 DEF SettledOK
<1>5. ASSUME NEW c \in Calls PROVE CallOK(c)'
  <2> SUFFICES ASSUME pc[c] # "idle" PROVE CallOK(c)'
    BY <1>1 DEF CallOK
  <2>1. job[c].began = day /\ job[c].calm
    BY DEF Tick, Busy
  <2>2. CallOK(c) /\ job[c].time \in Nat /\ Floor(c)' = Floor(c)
    BY <1>1, Days DEF Dated, Floor
  <2> QED BY <1>1, <1>2, <2>1, <2>2 DEF CallOK, Horizon
<1>6. EntryOK'
  <2>1. \A c \in Calls : Floor(c)' = Floor(c)
    BY <1>1 DEF Floor
  <2> QED BY <1>1, <1>2, <2>1, Days DEF Dated, EntryOK, Since, Horizon
<1>7. \A c \in Calls : ReadOK(c)'
  BY <1>1 DEF Dated, ReadOK, Since, Horizon
<1> QED BY <1>1, <1>4, <1>5, <1>6, <1>7, SilentOK DEF Dated

\* The store has its figures while what has been fetched may still change.
LEMMA StoreDated ==
  ASSUME Inv, Dated, kind = "daily", Accrue \/ Publish \/ StayEmpty PROVE Dated'
<1>1. /\ kind' = kind /\ day' = day /\ final' /\ ~final
      /\ disk' = disk /\ blob' = blob /\ tmp' = tmp /\ meta' = meta /\ pc' = pc /\ job' = job
      /\ Silent
  BY DEF Accrue, Publish, StayEmpty, entry
<1>2. day \in Nat /\ End + Lag[kind] \in Nat /\ ~(day >= End + Lag[kind])
  BY <1>1, Days DEF Dated, SettledOK
<1>3. SettledOK'
  <2>1. ASSUME NEW f \in File PROVE Settled(disk[f])'
    BY <1>1, <1>2, Days DEF Dated, SettledOK, Settled
  <2>2. ASSUME NEW c \in Calls PROVE Settled(job[c].data)'
    BY <1>1, <1>2, Days DEF Dated, SettledOK, Settled
  <2>3. Settled([rows |-> answer.rows, day |-> answer.of])'
    <3>1. Settled([rows |-> Nothing.rows, day |-> Nothing.of]) /\ answer' = Nothing
      BY <1>1, NothingHeld DEF Silent
    <3>2. Nothing.of \in Int
      BY DEF Nothing
    <3> QED BY <1>1, <1>2, <3>1, <3>2 DEF Settled
  <2> QED BY <1>1, <1>2, <2>1, <2>2, <2>3 DEF SettledOK
<1>4. \A c \in Calls : Floor(c)' = Floor(c)
  BY <1>1 DEF Floor
<1>5. \A c \in Calls : CallOK(c)' /\ ReadOK(c)'
  BY <1>1, <1>4 DEF Dated, CallOK, ReadOK, Since, Horizon
<1>6. EntryOK'
  BY <1>1, <1>4 DEF Dated, EntryOK, Since, Horizon
<1> QED BY <1>1, <1>3, <1>5, <1>6, SilentOK DEF Dated

LEMMA CrashDated ==
  ASSUME Inv, Dated, kind = "daily", Crash PROVE Dated'
<1>1. /\ kind' = kind /\ offer' = offer /\ final' = final /\ day' = day
      /\ disk' = disk /\ blob' = blob /\ tmp' = tmp /\ meta' = meta /\ Silent
      /\ \A c \in Calls : pc'[c] = "idle" /\ job'[c] = NoJob
  BY DEF Crash, store, entry
<1>2. SettledOK'
  BY <1>1, NothingHeld, SilentOK DEF Dated, SettledOK, Settled
<1>3. \A c \in Calls : CallOK(c)' /\ ReadOK(c)'
  BY <1>1 DEF CallOK, ReadOK
<1>4. EntryOK'
  BY <1>1 DEF Dated, EntryOK, Since, Horizon, Writing, Dating
<1> QED BY <1>1, <1>2, <1>3, <1>4, SilentOK DEF Dated

LEMMA NextDated ==
  Inv /\ (kind = "daily" => Dated) /\ [Next]_vars => (kind = "daily" => Dated)'
<1> SUFFICES ASSUME Inv, kind = "daily" => Dated, [Next]_vars, kind' = "daily" PROVE Dated'
  OBVIOUS
<1>1. kind = "daily" /\ Dated
  <2>1. kind' = kind
    BY DEF Next, Step, vars, store, Begin, Get, Hit, FetchSales, FetchStats, FetchEarnings,
       Fetched, RefuseVersion, FailFetch, Touch, Open, Fill, Replace, EraseMeta, Stamp, FailSet,
       Tick, Accrue, Publish, StayEmpty, Crash
  <2> QED BY <2>1
<1>2. ASSUME NEW c \in Calls, Step(c) PROVE Dated'
  BY <1>1, <1>2, BeginDated, GetDated, HitDated, FetchDated, RefuseVersionDated,
     FailFetchDated, TouchDated, OpenDated, FillDated, ReplaceDated, EraseMetaDated,
     StampDated, FailSetDated DEF Step
<1>3. CASE UNCHANGED vars
  <2>1. /\ kind' = kind /\ offer' = offer /\ final' = final /\ day' = day /\ disk' = disk
        /\ blob' = blob /\ tmp' = tmp /\ meta' = meta /\ pc' = pc /\ job' = job
        /\ answer' = answer
    BY <1>3 DEF vars
  <2>2. \A c \in Calls : Floor(c)' = Floor(c)
    BY <2>1 DEF Floor
  <2>3. SettledOK' /\ AnswerOK'
    BY <1>1, <2>1 DEF Dated, SettledOK, Settled, AnswerOK, Horizon
  <2>4. EntryOK' /\ \A c \in Calls : CallOK(c)' /\ ReadOK(c)'
    BY <1>1, <2>1, <2>2 DEF Dated, EntryOK, CallOK, ReadOK, Since, Horizon
  <2> QED BY <2>3, <2>4 DEF Dated
<1> QED BY <1>1, <1>2, <1>3, TickDated, StoreDated, CrashDated DEF Next

LEMMA DatedAlways == Spec => [](Inv /\ (kind = "daily" => Dated))
BY InitInv, InitDated, NextInv, NextDated, PTL DEF Spec

-----------------------------------------------------------------------------
(***************************************************************************)
(* The theorems.                                                           *)
(***************************************************************************)

\* Every state of the cache is well typed: among others, a call that opens
\* the temporary file always finds one, however many calls save at once.
THEOREM TypeCorrect == Spec => []TypeOK
BY Invariance, PTL DEF Inv

\* sales_freshness never presents figures that Apple has not published as
\* complete ones: whatever is cached, by whom, and for however long.
THEOREM SalesAreTrue == Spec => []SalesCompleteIsTrue
<1>1. Inv => SalesCompleteIsTrue
  BY DEF Inv, SalesAreWhole, Whole, SalesCompleteIsTrue
<1> QED BY <1>1, Invariance, PTL

\* Figures of the last day that the policy would not keep, or of a later one,
\* are the ones Apple ended with.
LEMMA HorizonIsSettled ==
  ASSUME Inv, Dated, kind = "daily", Lag["daily"] <= Claimed["daily"] + 1,
         NEW data, data.day \in Int, Settled(data), data.day >= Horizon
  PROVE  final /\ data.rows = offer
<1>1. End \in Nat /\ Lag["daily"] \in Nat /\ Claimed["daily"] \in Nat /\ day \in Nat
  BY CacheAssumption, Days DEF Kind, Sales
<1>2. data.day >= End + Lag[kind]
  BY <1>1 DEF Horizon
<1>3. data.day <= day /\ data.rows = offer
  BY <1>2 DEF Settled
<1>4. day >= End + Lag[kind]
  BY <1>1, <1>2, <1>3
<1> QED BY <1>3, <1>4 DEF Dated, SettledOK

\* A day's sales that are there at all are there as a whole, and for good.
LEMMA RowsAreFinal ==
  ASSUME Inv, kind = "daily", NEW rows, Whole(rows), rows # "none"
  PROVE  final /\ rows = offer
BY DEF Inv, SalesAreWhole, Sales, Whole

\* What is kept for ever of a day's sales is what Apple has in the end.  Any
\* number of calls may save at once, each into the others' temporary file and
\* over their meta file, over one midnight, and each may fail or die at any
\* step: the entry they leave has the final figures or not a byte; as long as
\* these are there within the lag that the code counts on and one day.
THEOREM DailyEntriesAreFinal ==
  ASSUME Lag["daily"] <= Claimed["daily"] + 1
  PROVE  Spec => []DailyKeptIsFinal
<1>1. Inv /\ (kind = "daily" => Dated) => DailyKeptIsFinal
  <2> SUFFICES ASSUME Inv, Dated, kind = "daily", blob # NoFile, meta.forever,
                      disk[blob] # Empty
               PROVE  final /\ disk[blob].rows = offer
    BY DEF DailyKeptIsFinal, KeptForEver
  <2>1. blob \in File /\ Since(blob, Horizon)
    BY DEF Inv, TypeOK, Dated, EntryOK
  <2>2. Settled(disk[blob]) /\ disk[blob].day \in Int
    BY <2>1, Days DEF Dated, SettledOK
  <2>3. CASE disk[blob].rows # "none"
    BY <2>1, <2>3, RowsAreFinal DEF Inv, SalesAreWhole, Sales
  <2>4. CASE disk[blob].day >= Horizon
    <3> DEFINE data == disk[blob]
    <3>1. data.day \in Int /\ Settled(data) /\ data.day >= Horizon
      BY <2>2, <2>4
    <3> HIDE DEF data
    <3>2. final /\ data.rows = offer
      BY <3>1, HorizonIsSettled
    <3> QED BY <3>2 DEF data
  <2> QED BY <2>1, <2>3, <2>4 DEF Since
<1> QED BY <1>1, DatedAlways, PTL

\* A day's sales that still change are never answered with figures of more
\* than two days before the question: not by an entry whose blob and meta
\* file are of different calls, nor at midnight; under the same lag.
THEOREM AnswersAreRecent ==
  ASSUME Lag["daily"] <= Claimed["daily"] + 1
  PROVE  Spec => []AnswerIsRecent
<1>1. Inv /\ (kind = "daily" => Dated) => AnswerIsRecent
  <2> SUFFICES ASSUME Inv, Dated, kind = "daily", answer.of # -1, answer.rows # offer
               PROVE  answer.asked - answer.of <= 2
    BY DEF AnswerIsRecent
  <2>1. answer.of \in Int /\ answer.asked \in Int
    BY Days
  <2> DEFINE data == [rows |-> answer.rows, day |-> answer.of]
  <2>2. data.rows = answer.rows /\ data.day = answer.of /\ Settled(data)
    BY DEF Dated, SettledOK
  <2> HIDE DEF data
  <2>3. answer.rows = "none"
    BY RowsAreFinal DEF Inv, SalesAreWhole, Sales
  <2>4. ~(answer.of >= Horizon)
    BY <2>1, <2>2, HorizonIsSettled
  <2>5. answer.of >= answer.asked - 2
    BY <2>3, <2>4 DEF Dated, AnswerOK
  <2> QED BY <2>1, <2>5
<1> QED BY <1>1, DatedAlways, PTL

=============================================================================
