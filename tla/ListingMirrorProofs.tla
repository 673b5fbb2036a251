-------------------------- MODULE ListingMirrorProofs --------------------------
(***************************************************************************)
(* Theorems about the metadata mirror, for any number of sessions, fields, *)
(* locales, texts and requests, and any changes others make.               *)
(***************************************************************************)
EXTENDS ListingMirror, TLAPS

\* A copy with no text over its field's limit.
Short(copy) == \A s \in Carries(copy) : <<s[1], copy[s]>> \notin TooLong

\* Every text of the plan is still to be sent, was sent, or belongs to a
\* localization the listing did not have.
Accounted(j) ==
  \A s \in Carries(j.plan) :
    \/ HeldBy(s) \in j.todo
    \/ s \in j.sent
    \/ StoreOf(s) = "apple" /\ HeldBy(s) \notin j.homes

\* What a session j at a label knows, given the blanks that were meant.
Fits(j, label, meant) ==
  /\ Blanks(j.read) \subseteq meant
  /\ Blanks(j.plan) \subseteq meant
  /\ ~j.over => Short(j.plan)
  /\ j.token = j.shown
  /\ label = "send" => j.plan = j.shown /\ ~j.over /\ Accounted(j)

Knows(c) == job[c] # NoJob => Fits(job[c], pc[c], blanked)

\* The inductive invariant.
Inv ==
  /\ TypeOK
  /\ Blanks(file) \subseteq blanked
  /\ Blanks(remote) \subseteq blanked
  /\ \A c \in Calls : Knows(c)

\* The fields of a session.
LEMMA JobFields ==
  ASSUME NEW j \in Job
  PROVE  /\ j # NoJob /\ j.request \in Requests /\ j.confirmed \in BOOLEAN
         /\ j.todo \in SUBSET (Item \cup Part) /\ j.read \in Copy
         /\ j.homes \in SUBSET Held /\ j.over \in BOOLEAN /\ j.plan \in Copy
         /\ j.token \in Copy \cup {NoPlan} /\ j.shown \in Copy \cup {NoPlan}
         /\ j.sent \in SUBSET Slot
BY NoJobAssumption DEF Job

\* The fields of a request.
LEMMA RequestFields ==
  ASSUME NEW q \in Requests
  PROVE  /\ q.kind = "update" => q.texts \in Copy
         /\ q.kind # "update" => q.stores \subseteq {"play", "apple"}
<1>1. q \in Request
  BY MirrorAssumption
<1>2. CASE q \in [kind : {"pull", "push"}, stores : SUBSET {"play", "apple"}]
  BY <1>2
<1>3. CASE q \in [kind : {"update"}, texts : Copy]
  BY <1>3
<1> QED BY <1>1, <1>2, <1>3 DEF Request

\* An empty copy carries nothing.
LEMMA NothingIs == Nothing \in Copy /\ Carries(Nothing) = {} /\ Blanks(Nothing) = {}
<1>1. Blank # NoText
  BY MirrorAssumption DEF Text
<1> QED BY <1>1 DEF Nothing, Copy, Carries, Blanks, Maybe

\* A slot and what holds it.
LEMMA SlotFields ==
  ASSUME NEW s \in Slot
  PROVE  HeldBy(s) \in Part /\ (StoreOf(s) = "apple" <=> HeldBy(s)[1] # "listing")
BY MirrorAssumption DEF Slot, HeldBy, Part, StoreOf

LEMMA InitInv == Init => Inv
<1> SUFFICES ASSUME Init PROVE Inv
  OBVIOUS
<1>1. PICK l \in Listings : homes = l.homes /\ remote = l.texts
  BY DEF Init
<1>2. homes \subseteq Held /\ remote \in Copy /\ Blanks(remote) = {}
  BY <1>1, MirrorAssumption
<1>3. TypeOK
  BY <1>2, NothingIs, MirrorAssumption DEF Init, TypeOK, Label
<1> QED BY <1>2, <1>3, NothingIs DEF Init, Inv, Knows

-----------------------------------------------------------------------------
(***************************************************************************)
(* What a step can do to a session.                                        *)
(***************************************************************************)
\* The stores and the tree keep their types, and their blanks are meant.
Kept ==
  /\ remote' \in Copy /\ homes' \subseteq Held /\ editable' \in BOOLEAN /\ file' \in Copy
  /\ blanked \subseteq blanked' /\ blanked' \subseteq Slot /\ elsewhere' \in 0..MaxElsewhere
  /\ Blanks(file') \subseteq blanked' /\ Blanks(remote') \subseteq blanked'

LEMMA UnchangedKept == Inv /\ UNCHANGED <<stores, file, blanked, elsewhere>> => Kept
BY DEF Inv, TypeOK, stores, Kept

\* More blanks being meant breaks nothing.
LEMMA FitsGrows ==
  ASSUME NEW j, NEW label, NEW few, NEW many, few \subseteq many, Fits(j, label, few)
  PROVE  Fits(j, label, many)
BY DEF Fits

\* A call that goes on as j.
LEMMA GoOnKeeps ==
  ASSUME Inv, Kept, NEW c \in Calls, NEW label \in Label \ {"idle"}, NEW j \in Job,
         pc' = [pc EXCEPT ![c] = label], job' = [job EXCEPT ![c] = j],
         Fits(j, label, blanked')
  PROVE  Inv'
<1>1. TypeOK'
  BY JobFields DEF Inv, TypeOK, Kept
<1>2. \A d \in Calls : Knows(d)'
  BY FitsGrows DEF Inv, TypeOK, Knows, Kept
<1> QED BY <1>1, <1>2 DEF Inv, Kept

\* A call that returns.
LEMMA ReturnKeeps ==
  ASSUME Inv, Kept, NEW c \in Calls, Return(c)
  PROVE  Inv'
<1>1. TypeOK'
  BY DEF Inv, TypeOK, Kept, Return, Goto, Label
<1>2. \A d \in Calls : Knows(d)'
  BY FitsGrows DEF Inv, TypeOK, Knows, Kept, Return, Goto
<1> QED BY <1>1, <1>2 DEF Inv, Kept

\* A step of the environment.
LEMMA OthersKeep ==
  ASSUME Inv, Kept, UNCHANGED <<pc, job>>
  PROVE  Inv'
<1>1. \A d \in Calls : Knows(d)'
  BY FitsGrows DEF Inv, TypeOK, Knows, Kept
<1> QED BY <1>1 DEF Inv, TypeOK, Kept

\* A session that stands somewhere.
LEMMA Here ==
  ASSUME Inv, NEW c \in Calls, pc[c] # "idle"
  PROVE  job[c] \in Job /\ job[c] # NoJob /\ Fits(job[c], pc[c], blanked)
BY NoJobAssumption DEF Inv, TypeOK, Knows

\* A session that stays where it is.
LEMMA Stays == ASSUME Inv, NEW c \in Calls PROVE UNCHANGED pc <=> pc' = [pc EXCEPT ![c] = pc[c]]
BY DEF Inv, TypeOK

-----------------------------------------------------------------------------
(***************************************************************************)
(* The beginning, the pull, and the ends.                                  *)
(***************************************************************************)
\* A session as it starts.
LEMMA StartFits ==
  ASSUME NEW q \in Requests, NEW meant, NEW label, label # "send",
         q.kind = "update" => Blanks(q.texts) \subseteq meant
  PROVE  Start(q) \in Job /\ Fits(Start(q), label, meant)
<1> DEFINE update == q.kind = "update"
           over == update /\ \E s \in Carries(q.texts) : <<s[1], q.texts[s]>> \in TooLong
           plan == IF update THEN q.texts ELSE Nothing
           todo == IF update THEN {} ELSE Wanted(q)
           j == Start(q)
<1>1. plan \in Copy /\ todo \in SUBSET (Item \cup Part) /\ over \in BOOLEAN
  BY RequestFields, NothingIs DEF Wanted, Item
<1>2. Blanks(plan) \subseteq meant /\ (~over => Short(plan))
  BY NothingIs DEF Short
<1>3. j = [request |-> q, confirmed |-> FALSE, todo |-> todo, read |-> Nothing, homes |-> {},
           over |-> over, plan |-> plan, token |-> NoPlan, shown |-> NoPlan, sent |-> {}]
  BY DEF Start
<1> HIDE DEF j, plan, todo, over
<1>4. j \in Job
  BY <1>1, <1>3, NothingIs DEF Job
<1>5. Fits(j, label, meant)
  BY <1>2, <1>3, NothingIs DEF Fits
<1> QED BY <1>4, <1>5 DEF j

LEMMA BeginInv == ASSUME Inv, NEW c \in Calls, Begin(c) PROVE Inv'
<1>1. PICK q \in Requests :
        /\ job' = [job EXCEPT ![c] = Start(q)]
        /\ Goto(c, IF q.kind = "update" THEN "decide" ELSE "scan")
        /\ blanked' = IF q.kind = "update" THEN blanked \cup Blanks(q.texts) ELSE blanked
  BY DEF Begin
<1> DEFINE label == IF q.kind = "update" THEN "decide" ELSE "scan"
<1>2. label \in Label \ {"idle"} /\ label # "send"
  BY DEF Label
<1>3. Start(q) \in Job /\ Fits(Start(q), label, blanked')
  BY <1>1, <1>2, StartFits
<1>4. Kept
  <2>1. blanked \subseteq blanked' /\ blanked' \subseteq Slot
    BY <1>1 DEF Inv, TypeOK, Blanks
  <2> QED BY <2>1 DEF Begin, Inv, TypeOK, Kept, stores
<1> QED BY <1>1, <1>2, <1>3, <1>4, GoOnKeeps DEF Goto

LEMMA ReturnInv ==
  ASSUME Inv, NEW c \in Calls,
         EndPull(c) \/ Stop(c) \/ Abandon(c) \/ LoseWrite(c) \/ Finish(c)
  PROVE  Inv'
<1>1. Return(c) /\ UNCHANGED <<stores, file, blanked, elsewhere>>
  BY DEF EndPull, Stop, Abandon, LoseWrite, Finish
<1> QED BY <1>1, UnchangedKept, ReturnKeeps

\* What a store shows is a copy whose blanks are the store's.
LEMMA SeenCopies ==
  ASSUME Inv
  PROVE  /\ AppleCopy \in Copy /\ Blanks(AppleCopy) \subseteq blanked
         /\ \A i : PlayCopy(i) \in Copy /\ Blanks(PlayCopy(i)) \subseteq blanked
<1>1. Blank # NoText
  BY MirrorAssumption DEF Text
<1> QED BY <1>1 DEF Inv, TypeOK, Copy, Maybe, Blanks, AppleCopy, PlayCopy

\* A session that goes on with less to do, or after reading.
LEMMA ScanInv ==
  ASSUME Inv, NEW c \in Calls, pc[c] # "idle", NEW label \in Label \ {"idle", "send"},
         pc' = [pc EXCEPT ![c] = label],
         NEW todo \in SUBSET (Item \cup Part), NEW read \in Copy, NEW hs \in SUBSET Held,
         Blanks(read) \subseteq blanked,
         job' = [job EXCEPT ![c].read = read, ![c].homes = hs, ![c].todo = todo],
         UNCHANGED <<stores, file, blanked, elsewhere>>
  PROVE  Inv'
<1> DEFINE j == [job[c] EXCEPT !.read = read, !.homes = hs, !.todo = todo]
<1>1. job[c] \in Job /\ Fits(job[c], pc[c], blanked)
  BY Here
<1>2. job' = [job EXCEPT ![c] = j]
  BY <1>1 DEF Job
<1>3. /\ j \in Job /\ j.read = read /\ j.plan = job[c].plan /\ j.over = job[c].over
      /\ j.token = job[c].token /\ j.shown = job[c].shown
  BY <1>1, JobFields DEF Job
<1> HIDE DEF j
<1>4. Fits(j, label, blanked')
  BY <1>1, <1>3 DEF Fits
<1> QED BY <1>2, <1>3, <1>4, UnchangedKept, GoOnKeeps

\* The record of a session under way, field by field.
LEMMA Untouched ==
  ASSUME Inv, NEW c \in Calls, pc[c] # "idle", NEW todo, NEW read, NEW hs
  PROVE  /\ [job EXCEPT ![c].todo = todo] =
              [job EXCEPT ![c].read = job[c].read, ![c].homes = job[c].homes, ![c].todo = todo]
         /\ [job EXCEPT ![c].read = read] =
              [job EXCEPT ![c].read = read, ![c].homes = job[c].homes, ![c].todo = job[c].todo]
         /\ [job EXCEPT ![c].read = read, ![c].todo = todo] =
              [job EXCEPT ![c].read = read, ![c].homes = job[c].homes, ![c].todo = todo]
<1>1. job[c] \in Job /\ job \in [Calls -> Job \cup {NoJob}]
  BY Here DEF Inv, TypeOK
<1>2. /\ [job[c] EXCEPT !.todo = todo] =
           [job[c] EXCEPT !.read = job[c].read, !.homes = job[c].homes, !.todo = todo]
      /\ [job[c] EXCEPT !.read = read] =
           [job[c] EXCEPT !.read = read, !.homes = job[c].homes, !.todo = job[c].todo]
      /\ [job[c] EXCEPT !.read = read, !.todo = todo] =
           [job[c] EXCEPT !.read = read, !.homes = job[c].homes, !.todo = todo]
  BY <1>1 DEF Job
<1> QED BY <1>1, <1>2

LEMMA SkipStoreInv == ASSUME Inv, NEW c \in Calls, SkipStore(c) PROVE Inv'
<1>1. PICK i \in job[c].todo :
        job' = [job EXCEPT ![c].todo = IF i[1] = "apple" THEN {} ELSE @ \ {i}]
  BY DEF SkipStore
<1> DEFINE todo == IF i[1] = "apple" THEN {} ELSE job[c].todo \ {i}
<1>2. pc[c] = "scan" /\ UNCHANGED <<stores, file, blanked, elsewhere>> /\ UNCHANGED pc
  BY DEF SkipStore
<1>3. job[c] \in Job /\ Fits(job[c], pc[c], blanked)
  BY <1>2, Here
<1>4. todo \in SUBSET (Item \cup Part)
  BY <1>3, JobFields
<1>5. job' = [job EXCEPT ![c].todo = todo]
  BY <1>1
<1> HIDE DEF todo
<1>6. job' = [job EXCEPT ![c].read = job[c].read, ![c].homes = job[c].homes, ![c].todo = todo]
  <2>1. [job EXCEPT ![c].todo = todo] =
          [job EXCEPT ![c].read = job[c].read, ![c].homes = job[c].homes, ![c].todo = todo]
    BY <1>2, Untouched
  <2> QED BY <1>5, <2>1
<1>7. job[c].read \in Copy /\ job[c].homes \in SUBSET Held /\ Blanks(job[c].read) \subseteq blanked
  BY <1>3, JobFields DEF Fits
<1>8. pc' = [pc EXCEPT ![c] = "scan"]
  BY <1>2 DEF Inv, TypeOK
<1> QED BY <1>2, <1>4, <1>6, <1>7, <1>8, ScanInv DEF Label

LEMMA PullInv == ASSUME Inv, NEW c \in Calls, PullPlay(c) \/ PullApple(c) PROVE Inv'
<1>1. /\ pc[c] = "scan" /\ UNCHANGED <<stores, file, blanked, elsewhere>>
      /\ pc' = [pc EXCEPT ![c] = "write"]
  BY DEF PullPlay, PullApple, Pulls, Goto
<1>2. job[c] \in Job
  BY <1>1, Here
<1>3. PICK read \in Copy, todo \in SUBSET (Item \cup Part) :
        /\ Blanks(read) \subseteq blanked
        /\ job' = [job EXCEPT ![c].read = read, ![c].todo = todo]
  <2>1. CASE PullPlay(c)
    <3>1. PICK i \in PlayTodo(c) :
            job' = [job EXCEPT ![c].read = PlayCopy(i), ![c].todo = @ \ {i}]
      BY <2>1 DEF PullPlay
    <3>2. job[c].todo \ {i} \in SUBSET (Item \cup Part)
      BY <1>2, JobFields
    <3> QED BY <3>1, <3>2, SeenCopies
  <2>2. CASE PullApple(c)
    BY <2>2, SeenCopies DEF PullApple
  <2> QED BY <2>1, <2>2
<1>4. job' = [job EXCEPT ![c].read = read, ![c].homes = job[c].homes, ![c].todo = todo]
  <2>1. [job EXCEPT ![c].read = read, ![c].todo = todo] =
          [job EXCEPT ![c].read = read, ![c].homes = job[c].homes, ![c].todo = todo]
    BY <1>1, Untouched
  <2> QED BY <1>3, <2>1
<1> QED BY <1>1, <1>2, <1>3, <1>4, JobFields, ScanInv DEF Label

\* A text less to write, and a file more that says what the store said.
LEMMA WriteFileInv == ASSUME Inv, NEW c \in Calls, WriteFile(c) PROVE Inv'
<1>1. PICK s \in Carries(job[c].read) :
        /\ file' = [file EXCEPT ![s] = job[c].read[s]]
        /\ job' = [job EXCEPT ![c].read[s] = NoText]
  BY DEF WriteFile
<1> DEFINE read == [job[c].read EXCEPT ![s] = NoText]
           j == [job[c] EXCEPT !.read = read]
<1>2. pc[c] = "write" /\ UNCHANGED <<stores, pc, blanked, elsewhere>>
  BY DEF WriteFile
<1>3. /\ job[c] \in Job /\ job[c].read \in Copy /\ Fits(job[c], "write", blanked)
      /\ s \in Slot /\ Blank # NoText
  BY <1>1, <1>2, Here, JobFields, MirrorAssumption DEF Carries, Text
<1>4. read \in Copy /\ Blanks(read) \subseteq blanked
  BY <1>3 DEF Copy, Maybe, Blanks, Fits
<1>5. job' = [job EXCEPT ![c] = j]
  BY <1>1, <1>3 DEF Job
<1> HIDE DEF read
<1>6. /\ j \in Job /\ j.read = read /\ j.plan = job[c].plan /\ j.over = job[c].over
      /\ j.token = job[c].token /\ j.shown = job[c].shown
  BY <1>3, <1>4, JobFields DEF Job
<1> HIDE DEF j
<1>7. Fits(j, "write", blanked')
  BY <1>2, <1>3, <1>4, <1>6 DEF Fits
<1>8. file' \in Copy /\ Blanks(file') \subseteq blanked
  BY <1>1, <1>3 DEF Copy, Blanks, Fits, Inv, TypeOK
<1>9. Kept
  BY <1>2, <1>8 DEF Kept, Inv, TypeOK, stores
<1>10. pc' = [pc EXCEPT ![c] = "write"]
  BY <1>2 DEF Inv, TypeOK
<1> QED BY <1>5, <1>6, <1>7, <1>9, <1>10, GoOnKeeps DEF Label

LEMMA WroteAllInv == ASSUME Inv, NEW c \in Calls, WroteAll(c) PROVE Inv'
<1>1. /\ pc[c] = "write" /\ UNCHANGED <<stores, file, job, blanked, elsewhere>>
      /\ pc' = [pc EXCEPT ![c] = "scan"]
  BY DEF WroteAll, Goto
<1> DEFINE j == job[c]
<1>2. j \in Job /\ Fits(j, "scan", blanked')
  BY <1>1, Here DEF Fits
<1>3. job' = [job EXCEPT ![c] = j]
  BY <1>1 DEF Inv, TypeOK
<1> HIDE DEF j
<1> QED BY <1>1, <1>2, <1>3, UnchangedKept, GoOnKeeps DEF Label

-----------------------------------------------------------------------------
(***************************************************************************)
(* The plan and the gate.                                                  *)
(***************************************************************************)
\* A plan grows by texts of the tree; the session is over if one is too long.
LEMMA CompareKeeps ==
  ASSUME Inv, NEW c \in Calls, pc[c] \in {"scan", "listing"}, NEW i, NEW there,
         Compare(c, i, there), UNCHANGED <<stores, file, pc, blanked, elsewhere>>
  PROVE  Inv'
<1> DEFINE plan == [s \in Slot |->
                      IF s \in Slots(i) /\ WillPush(file[s], there[s])
                        THEN file[s] ELSE job[c].plan[s]]
           over == job[c].over \/ \E s \in Slots(i) : Over(s)
           todo == job[c].todo \ {i}
           j == [job[c] EXCEPT !.plan = plan, !.over = over, !.todo = todo]
<1>1. job[c] \in Job /\ Fits(job[c], pc[c], blanked)
  BY Here
<1>2. job' = [job EXCEPT ![c] = j]
  BY <1>1 DEF Compare, Job
<1>3. plan \in Copy
  BY <1>1, JobFields DEF Copy, Inv, TypeOK
<1>4. Blanks(plan) \subseteq blanked
  BY <1>1 DEF Fits, Blanks, Inv
<1>5. ~over => Short(plan)
  BY <1>1 DEF Fits, Short, Carries, Over
<1>6. over \in BOOLEAN
  BY <1>1, JobFields
<1> HIDE DEF plan, over
<1>7. /\ j \in Job /\ j.read = job[c].read /\ j.plan = plan /\ j.over = over
      /\ j.token = job[c].token /\ j.shown = job[c].shown
  BY <1>1, <1>3, <1>6, JobFields DEF Job
<1> HIDE DEF j
<1>8. Fits(j, pc[c], blanked')
  BY <1>1, <1>4, <1>5, <1>7 DEF Fits
<1>9. pc' = [pc EXCEPT ![c] = pc[c]]
  BY DEF Inv, TypeOK
<1> QED BY <1>2, <1>7, <1>8, <1>9, UnchangedKept, GoOnKeeps DEF Label

LEMMA PlanInv == ASSUME Inv, NEW c \in Calls, PlanPlay(c) \/ PlanApple(c) PROVE Inv'
<1>1. pc[c] \in {"scan", "listing"} /\ UNCHANGED <<stores, file, pc, blanked, elsewhere>>
  BY DEF PlanPlay, PlanApple, Pushes
<1>2. CASE \E i, there : Compare(c, i, there)
  BY <1>1, <1>2, CompareKeeps
<1>3. CASE \E i : job' = [job EXCEPT ![c].todo = @ \ {i}]
  <2>1. PICK i : job' = [job EXCEPT ![c].todo = @ \ {i}]
    BY <1>3
  <2> DEFINE todo == job[c].todo \ {i}
  <2>2. job[c] \in Job /\ Fits(job[c], pc[c], blanked) /\ pc[c] # "idle"
    BY <1>1, Here
  <2>3. todo \in SUBSET (Item \cup Part) /\ job' = [job EXCEPT ![c].todo = todo]
    BY <2>1, <2>2, JobFields
  <2> HIDE DEF todo
  <2>4. job' = [job EXCEPT ![c].read = job[c].read, ![c].homes = job[c].homes, ![c].todo = todo]
    <3>1. [job EXCEPT ![c].todo = todo] =
            [job EXCEPT ![c].read = job[c].read, ![c].homes = job[c].homes, ![c].todo = todo]
      BY <2>2, Untouched
    <3> QED BY <2>3, <3>1
  <2>5. pc' = [pc EXCEPT ![c] = pc[c]] /\ pc[c] \in Label \ {"idle", "send"}
    BY <1>1 DEF Inv, TypeOK
  <2> QED BY <1>1, <2>2, <2>3, <2>4, <2>5, JobFields, ScanInv DEF Fits
<1>4. CASE PlanPlay(c)
  BY <1>2, <1>4 DEF PlanPlay
<1>5. CASE PlanApple(c)
  BY <1>2, <1>3, <1>5 DEF PlanApple
<1> QED BY <1>4, <1>5

LEMMA ReadListingInv == ASSUME Inv, NEW c \in Calls, ReadListing(c) PROVE Inv'
<1> DEFINE read == IF editable THEN AppleCopy ELSE job[c].read
           hs == IF editable THEN Listed ELSE job[c].homes
           todo == IF editable THEN job[c].todo ELSE {}
<1>1. /\ pc[c] = "scan" /\ UNCHANGED <<stores, file, blanked, elsewhere>>
      /\ pc' = [pc EXCEPT ![c] = "listing"]
      /\ job' = [job EXCEPT ![c].read = read, ![c].homes = hs, ![c].todo = todo]
  BY DEF ReadListing, Pushes, Goto
<1>2. job[c] \in Job /\ Fits(job[c], "scan", blanked)
  BY <1>1, Here
<1>3. read \in Copy /\ Blanks(read) \subseteq blanked /\ todo \in SUBSET (Item \cup Part)
  BY <1>2, JobFields, SeenCopies DEF Fits
<1>4. hs \in SUBSET Held
  BY <1>2, JobFields DEF Listed, Inv, TypeOK
<1> HIDE DEF read, hs, todo
<1> QED BY <1>1, <1>3, <1>4, ScanInv DEF Label

LEMMA EndPlanInv == ASSUME Inv, NEW c \in Calls, EndPlan(c) PROVE Inv'
<1>1. /\ pc[c] \in {"scan", "listing"} /\ UNCHANGED <<stores, file, blanked, elsewhere>>
      /\ pc' = [pc EXCEPT ![c] = "decide"] /\ job' = [job EXCEPT ![c].read = Nothing]
  BY DEF EndPlan, Pushes, Goto
<1>2. job[c] \in Job
  BY <1>1, Here
<1>3. job' = [job EXCEPT ![c].read = Nothing, ![c].homes = job[c].homes,
                         ![c].todo = job[c].todo]
  BY <1>1, Untouched
<1> QED BY <1>1, <1>2, <1>3, NothingIs, JobFields, ScanInv DEF Label

\* The preview: what is shown is what is bound.
LEMMA PreviewInv == ASSUME Inv, NEW c \in Calls, Preview(c) \/ Rehearse(c) PROVE Inv'
<1>1. /\ pc[c] = "decide" /\ ~job[c].over /\ UNCHANGED <<stores, file, blanked, elsewhere>>
      /\ pc' = [pc EXCEPT ![c] = "waiting"]
  BY DEF Preview, Rehearse, Pushes, Sendable, Goto
<1>2. job[c] \in Job /\ Fits(job[c], "decide", blanked)
  BY <1>1, Here
<1>3. PICK plan \in {job[c].plan, Nothing}, hs \in SUBSET Held :
        job' = [job EXCEPT ![c] = [job[c] EXCEPT !.token = job[c].plan, !.shown = job[c].plan,
                                                 !.homes = hs, !.plan = plan]]
  <2>1. CASE Preview(c)
    BY <1>2, <2>1 DEF Preview, Operation, Job
  <2>2. CASE Rehearse(c)
    <3>1. job' = [job EXCEPT ![c] =
             [job[c] EXCEPT !.token = job[c].plan, !.shown = job[c].plan,
                            !.homes = job[c].homes, !.plan = job[c].plan]]
      BY <1>2, <2>2 DEF Rehearse, Operation, Job
    <3> QED BY <1>2, <3>1, JobFields
  <2> QED BY <2>1, <2>2
<1> DEFINE j == [job[c] EXCEPT !.token = job[c].plan, !.shown = job[c].plan, !.homes = hs,
                               !.plan = plan]
<1>4. plan \in Copy /\ Blanks(plan) \subseteq blanked /\ Short(plan)
  BY <1>1, <1>2, JobFields, NothingIs DEF Fits, Short
<1>5. /\ j \in Job /\ j.read = job[c].read /\ j.plan = plan /\ j.over = job[c].over
      /\ j.token = job[c].plan /\ j.shown = job[c].plan
  BY <1>2, <1>4, JobFields DEF Job
<1>6. job' = [job EXCEPT ![c] = j]
  BY <1>3
<1> HIDE DEF j
<1>7. Fits(j, "waiting", blanked')
  BY <1>1, <1>2, <1>4, <1>5 DEF Fits
<1> QED BY <1>1, <1>5, <1>6, <1>7, UnchangedKept, GoOnKeeps DEF Label

LEMMA ConfirmInv == ASSUME Inv, NEW c \in Calls, Confirm(c) PROVE Inv'
<1> DEFINE q == job[c].request
           todo == Start(q).todo
           label == IF q.kind = "update" THEN "decide" ELSE "scan"
           j == [job[c] EXCEPT !.confirmed = TRUE, !.todo = todo]
<1>1. /\ pc[c] = "waiting" /\ UNCHANGED <<stores, file, blanked, elsewhere>>
      /\ pc' = [pc EXCEPT ![c] = label]
  BY DEF Confirm, Goto
<1>2. job[c] \in Job /\ Fits(job[c], "waiting", blanked)
  BY <1>1, Here
<1>3. todo \in SUBSET (Item \cup Part)
  <2>1. Start(q).todo = IF q.kind = "update" THEN {} ELSE Wanted(q)
    BY DEF Start
  <2> QED BY <1>2, <2>1, JobFields, RequestFields DEF Wanted, Item
<1>4. job' = [job EXCEPT ![c] = j]
  BY <1>2 DEF Confirm, Job
<1> HIDE DEF todo
<1>5. /\ j \in Job /\ j.read = job[c].read /\ j.plan = job[c].plan /\ j.over = job[c].over
      /\ j.token = job[c].token /\ j.shown = job[c].shown
  BY <1>2, <1>3, JobFields DEF Job
<1> HIDE DEF j
<1>6. label \in Label \ {"idle"} /\ label # "send"
  BY DEF Label
<1>7. Fits(j, label, blanked')
  <2> HIDE DEF label
  <2> QED BY <1>1, <1>2, <1>5, <1>6 DEF Fits
<1> HIDE DEF label
<1> QED BY <1>1, <1>4, <1>5, <1>6, <1>7, UnchangedKept, GoOnKeeps

LEMMA ExecuteInv == ASSUME Inv, NEW c \in Calls, Execute(c) PROVE Inv'
<1> DEFINE todo == {HeldBy(s) : s \in Carries(job[c].plan)}
           j == [job[c] EXCEPT !.todo = todo]
<1>1. /\ pc[c] = "decide" /\ ~job[c].over /\ job[c].plan = job[c].token
      /\ UNCHANGED <<stores, file, blanked, elsewhere>> /\ pc' = [pc EXCEPT ![c] = "send"]
  BY DEF Execute, Sendable, Operation, Goto
<1>2. job[c] \in Job /\ Fits(job[c], "decide", blanked)
  BY <1>1, Here
<1>3. todo \in SUBSET (Item \cup Part)
  BY SlotFields DEF Carries
<1>4. job' = [job EXCEPT ![c] = j]
  BY <1>2 DEF Execute, Job
<1>5. \A s \in Carries(job[c].plan) : HeldBy(s) \in todo
  OBVIOUS
<1> HIDE DEF todo
<1>6. /\ j \in Job /\ j.read = job[c].read /\ j.plan = job[c].plan /\ j.over = job[c].over
      /\ j.token = job[c].token /\ j.shown = job[c].shown /\ j.todo = todo
  BY <1>2, <1>3, JobFields DEF Job
<1> HIDE DEF j
<1>7. Fits(j, "send", blanked')
  BY <1>1, <1>2, <1>5, <1>6 DEF Fits, Accounted
<1> QED BY <1>1, <1>4, <1>6, <1>7, UnchangedKept, GoOnKeeps DEF Label

-----------------------------------------------------------------------------
(***************************************************************************)
(* The writes.                                                             *)
(***************************************************************************)
\* A write puts planned texts into the store.
LEMMA LandKeeps ==
  ASSUME Inv, NEW c \in Calls, NEW u \in Turns(c), Land(c, u)
  PROVE  Inv'
<1>1. pc[c] = "send"
  BY DEF Turns
<1>2. job[c] \in Job /\ Fits(job[c], "send", blanked)
  BY <1>1, Here
<1>3. remote' \in Copy /\ Blanks(remote') \subseteq blanked
  BY <1>2, JobFields DEF Land, Sends, Carries, Copy, Blanks, Fits, Inv, TypeOK
<1>4. Kept
  BY <1>3 DEF Land, Kept, Inv, TypeOK
<1>5. CASE Return(c)
  BY <1>4, <1>5, ReturnKeeps
<1>6. CASE /\ job' = [job EXCEPT ![c].sent = @ \cup Sends(c, u), ![c].todo = @ \ {u}]
           /\ UNCHANGED pc
  <2> DEFINE sent == job[c].sent \cup Sends(c, u)
             todo == job[c].todo \ {u}
             j == [job[c] EXCEPT !.sent = sent, !.todo = todo]
  <2>1. job' = [job EXCEPT ![c] = j]
    BY <1>2, <1>6 DEF Job
  <2>2. sent \in SUBSET Slot /\ todo \in SUBSET (Item \cup Part)
    BY <1>2, JobFields DEF Sends, Carries
  <2>3. \A s \in Carries(job[c].plan) : HeldBy(s) = u => s \in sent
    BY DEF Sends
  <2>4. \A s \in Carries(job[c].plan) :
          \/ HeldBy(s) \in todo
          \/ s \in sent
          \/ StoreOf(s) = "apple" /\ HeldBy(s) \notin job[c].homes
    BY <1>2, <2>3 DEF Fits, Accounted
  <2> HIDE DEF sent, todo
  <2>5. /\ j \in Job /\ j.read = job[c].read /\ j.plan = job[c].plan /\ j.over = job[c].over
        /\ j.token = job[c].token /\ j.shown = job[c].shown /\ j.todo = todo /\ j.sent = sent
        /\ j.homes = job[c].homes
    BY <1>2, <2>2, JobFields DEF Job
  <2> HIDE DEF j
  <2>6. Accounted(j)
    BY <2>4, <2>5 DEF Accounted
  <2>7. Fits(j, "send", blanked')
    BY <1>2, <2>5, <2>6 DEF Fits, Land
  <2>8. pc' = [pc EXCEPT ![c] = "send"]
    BY <1>1, <1>6 DEF Inv, TypeOK
  <2> QED BY <1>4, <2>1, <2>5, <2>7, <2>8, GoOnKeeps DEF Label
<1> QED BY <1>5, <1>6 DEF Land

\* A localization the listing did not have has no text to be sent.
LEMMA SkipPartInv == ASSUME Inv, NEW c \in Calls, SkipPart(c) PROVE Inv'
<1>1. PICK u \in Turns(c) :
        /\ u[1] # "listing" /\ u \notin job[c].homes
        /\ job' = [job EXCEPT ![c].todo = @ \ {u}]
  BY DEF SkipPart
<1>2. pc[c] = "send" /\ UNCHANGED <<stores, file, pc, blanked, elsewhere>>
  BY <1>1 DEF SkipPart, Turns
<1>3. job[c] \in Job /\ Fits(job[c], "send", blanked)
  BY <1>2, Here
<1> DEFINE todo == job[c].todo \ {u}
           j == [job[c] EXCEPT !.todo = todo]
<1>4. job' = [job EXCEPT ![c] = j]
  BY <1>1, <1>3 DEF Job
<1>5. todo \in SUBSET (Item \cup Part)
  BY <1>3, JobFields
<1>6. \A s \in Carries(job[c].plan) :
        \/ HeldBy(s) \in todo
        \/ s \in job[c].sent
        \/ StoreOf(s) = "apple" /\ HeldBy(s) \notin job[c].homes
  <2> TAKE s \in Carries(job[c].plan)
  <2>1. s \in Slot
    BY DEF Carries
  <2>2. CASE HeldBy(s) = u
    BY <1>1, <2>1, <2>2, SlotFields
  <2>3. CASE HeldBy(s) # u
    BY <1>3, <2>3 DEF Fits, Accounted
  <2> QED BY <2>2, <2>3
<1> HIDE DEF todo
<1>7. /\ j \in Job /\ j.read = job[c].read /\ j.plan = job[c].plan /\ j.over = job[c].over
      /\ j.token = job[c].token /\ j.shown = job[c].shown /\ j.todo = todo
      /\ j.sent = job[c].sent /\ j.homes = job[c].homes
  BY <1>3, <1>5, JobFields DEF Job
<1> HIDE DEF j
<1>8. Accounted(j)
  BY <1>6, <1>7 DEF Accounted
<1>9. Fits(j, "send", blanked')
  BY <1>2, <1>3, <1>7, <1>8 DEF Fits
<1>10. pc' = [pc EXCEPT ![c] = "send"]
  BY <1>2 DEF Inv, TypeOK
<1> QED BY <1>2, <1>4, <1>7, <1>9, <1>10, UnchangedKept, GoOnKeeps DEF Label

-----------------------------------------------------------------------------
(***************************************************************************)
(* Around the sessions, and every step.                                    *)
(***************************************************************************)
LEMMA OthersInv == Inv /\ (EditFile \/ EditStore \/ Freeze) => Inv'
<1> SUFFICES ASSUME Inv, EditFile \/ EditStore \/ Freeze PROVE Kept /\ UNCHANGED <<pc, job>>
  BY OthersKeep
<1>1. elsewhere' \in 0..MaxElsewhere
  BY MirrorAssumption DEF EditFile, EditStore, Freeze, Elsewhere, Inv, TypeOK
<1>2. CASE EditFile
  <2>1. PICK s \in Slot, t \in Maybe :
          /\ file' = [file EXCEPT ![s] = t]
          /\ blanked' = IF t = Blank THEN blanked \cup {s} ELSE blanked
    BY <1>2 DEF EditFile
  <2>2. file' \in Copy
    BY <2>1 DEF Copy, Inv, TypeOK
  <2>3. Blanks(file') \subseteq blanked' /\ blanked \subseteq blanked' /\ blanked' \subseteq Slot
    BY <2>1 DEF Blanks, Copy, Inv, TypeOK
  <2> QED BY <1>1, <1>2, <2>2, <2>3 DEF EditFile, Kept, Inv, TypeOK, stores
<1>3. CASE EditStore
  <2>1. PICK s \in Slot, t \in Texts : remote' = [remote EXCEPT ![s] = t]
    BY <1>3 DEF EditStore
  <2>2. t \in Maybe /\ t # Blank
    BY MirrorAssumption DEF Maybe, Text
  <2>3. remote' \in Copy /\ Blanks(remote') \subseteq blanked
    BY <2>1, <2>2 DEF Copy, Blanks, Inv, TypeOK
  <2> QED BY <1>1, <1>3, <2>3 DEF EditStore, Kept, Inv, TypeOK
<1>4. CASE Freeze
  BY <1>1, <1>4 DEF Freeze, Kept, Inv, TypeOK
<1> QED BY <1>2, <1>3, <1>4

LEMMA CrashInv == Inv /\ Crash => Inv'
<1> SUFFICES ASSUME Inv, Crash PROVE Inv'
  OBVIOUS
<1>1. \A d \in Calls :
        \/ pc'[d] = "idle" /\ job'[d] = NoJob
        \/ pc'[d] = pc[d] /\ job'[d] = job[d]
  BY DEF Crash
<1>2. UNCHANGED <<stores, file, blanked, elsewhere>>
  BY DEF Crash
<1>3. pc' \in [Calls -> Label] /\ job' \in [Calls -> Job \cup {NoJob}]
  BY DEF Crash, Inv, TypeOK, Label
<1>4. TypeOK'
  BY <1>1, <1>2, <1>3 DEF Inv, TypeOK, stores
<1>5. \A d \in Calls : Knows(d)'
  BY <1>1, <1>2 DEF Inv, Knows
<1> QED BY <1>2, <1>4, <1>5 DEF Inv, stores

LEMMA NextInv == Inv /\ [Next]_vars => Inv'
<1> SUFFICES ASSUME Inv, [Next]_vars PROVE Inv'
  OBVIOUS
<1>1. ASSUME NEW c \in Calls, PatchListing(c) \/ PatchLocalization(c) PROVE Inv'
  BY <1>1, LandKeeps DEF PatchListing, PatchLocalization
<1>2. CASE UNCHANGED vars
  BY <1>2 DEF Inv, TypeOK, Knows, vars, stores
<1> QED
  BY <1>1, <1>2, BeginInv, ReturnInv, SkipStoreInv, PullInv, WriteFileInv, WroteAllInv, PlanInv,
     ReadListingInv, EndPlanInv, PreviewInv, ConfirmInv, ExecuteInv, SkipPartInv, OthersInv,
     CrashInv DEF Next

LEMMA Invariance == Spec => []Inv
BY InitInv, NextInv, PTL DEF Spec

-----------------------------------------------------------------------------
(***************************************************************************)
(* The theorems.                                                           *)
(***************************************************************************)

\* Every state of the mirror is well typed, a session has a record exactly
\* while it is not idle.
THEOREM TypeCorrect == Spec => []TypeOK
BY Invariance, PTL DEF Inv

\* Absent is not empty: no sequence of pulls, pushes, updates and edits makes
\* a store's field empty unless somebody meant that field to be.
THEOREM AbsentIsNotEmpty == Spec => []OnlyDeliberateBlanks
BY Invariance, PTL DEF Inv, OnlyDeliberateBlanks

\* A push that says "[done]" has sent its plan, but for localizations the
\* listing did not have.
THEOREM DoneIsSent == Spec => []DoneMeansSent
<1>1. Inv => DoneMeansSent
  <2> SUFFICES ASSUME Inv, NEW c \in Calls, Done(c),
                      NEW s \in Carries(job[c].plan) \ job[c].sent
               PROVE  StoreOf(s) = "apple" /\ HeldBy(s) \notin job[c].homes
    BY DEF DoneMeansSent
  <2> QED BY Here DEF Done, Fits, Accounted
<1> QED BY <1>1, Invariance, PTL

\* What a push or an update writes is what its preview showed, and short.
THEOREM SentAsShown == Spec => PushedAsShown
<1>1. ASSUME Inv, [Next]_vars, NEW c \in Calls, NEW s \in Changes(c)
      PROVE  /\ remote'[s] = job[c].shown[s]
             /\ <<s[1], remote'[s]>> \notin TooLong
  <2>1. pc[c] = "send" /\ job'[c] # job[c] /\ s \in Slot /\ remote'[s] # remote[s]
    BY <1>1 DEF Changes
  <2>2. PICK d \in Calls : PatchListing(d) \/ PatchLocalization(d)
    <3>1. Next
      BY <1>1, <2>1 DEF vars, stores
    <3> QED BY <2>1, <3>1 DEF Next, Begin, SkipStore, PullPlay, PullApple, WriteFile, WroteAll,
         EndPull, PlanPlay, ReadListing, PlanApple, EndPlan, Stop, Preview, Rehearse, Confirm,
         Abandon, Execute, SkipPart, LoseWrite, Finish, EditFile, EditStore, Freeze, Crash, stores
  <2>3. PICK u \in Turns(d) : Land(d, u)
    BY <2>2 DEF PatchListing, PatchLocalization
  <2>4. d = c
    <3>1. \A e \in Calls \ {d} : job'[e] = job[e]
      BY <1>1, <2>3 DEF Land, Return, Inv, TypeOK
    <3> QED BY <2>1, <3>1
  <2>5. s \in Carries(job[c].plan) /\ remote'[s] = job[c].plan[s]
    BY <2>1, <2>3, <2>4 DEF Land, Sends
  <2> QED BY <1>1, <2>1, <2>5, Here DEF Fits, Short
<1>2. Inv /\ [Next]_vars =>
        [\A c \in Calls : \A s \in Changes(c) :
           /\ remote'[s] = job[c].shown[s]
           /\ <<s[1], remote'[s]>> \notin TooLong]_vars
  BY <1>1
<1> QED BY <1>2, Invariance, PTL DEF Spec, PushedAsShown

=============================================================================
