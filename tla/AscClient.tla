------------------------------ MODULE AscClient ------------------------------
(***************************************************************************)
(* The App Store Connect client of app_store/client.py: requests with      *)
(* retries, the throttle they queue on, the token they carry               *)
(* (app_store/auth.py) and the walk over the pages of a collection.        *)
(*                                                                         *)
(* All threads of the server share one client.  Nothing but the order of   *)
(* times matters, so there is no clock: the throttle's timestamps are ages,*)
(* the token is the time it has left, and a sleeping thread has a nap to   *)
(* finish.  An age stops counting at Window and a nap at 0, where the code *)
(* only asks whether it has got there.  A thread may wake up late.         *)
(*                                                                         *)
(* Apple is external, and answers anything, or nothing before Timeout.     *)
(* The two delays for a low and a nearly spent hourly budget are one.      *)
(***************************************************************************)
EXTENDS Integers, Sequences

CONSTANTS
  Threads,
  Window,       \* the throttle's sliding window, one minute
  MinuteCap,    \* requests allowed in it
  Spacing,      \* delay between requests when the hourly budget is low
  Lifetime,     \* of a token, as minted
  Margin,       \* a token with no more than this left is minted anew
  Timeout,      \* after which a request is given up
  Backoffs,     \* how long a retry may wait
  MaxRetries,
  PageSize,     \* items Apple puts on a page at most
  MaxPages,     \* pages a walk asks for at most
  Work,         \* the calls threads make
  NoToken, NoThread, NoLimit, NoWork

Kind == {"walk", "download"}

\* A call of the client: a walk over size items that wants at most limit of
\* them, where Apple may or may not say how many there are, or a download of a
\* report segment.  Any other request is a walk of a single page.
Request ==
  [kind : Kind, size : Nat, counted : BOOLEAN, limit : (Nat \ {0}) \cup {NoLimit}]

ASSUME ClientAssumption ==
  /\ Window \in Nat \ {0} /\ MinuteCap \in Nat \ {0}
  /\ Spacing \in Nat
  /\ Backoffs \subseteq Nat /\ Backoffs # {}
  /\ Timeout \in Nat /\ Timeout < Margin /\ Margin \in Nat
  /\ Lifetime \in Nat /\ Margin < Lifetime
  /\ MaxRetries \in Nat
  /\ PageSize \in Nat \ {0} /\ MaxPages \in Nat \ {0}
  /\ Work \subseteq Request
  /\ NoLimit \notin Nat /\ NoToken \notin Nat
  /\ NoThread \notin Threads /\ NoWork \notin Work

VARIABLES
  recent,   \* Throttle._recent: ages of the requests let through, oldest first
  lock,     \* holder of Throttle._lock, which it keeps while it sleeps
  low,      \* Throttle._snapshot says that the hourly budget is low
  token,    \* TokenManager._token: the time it has left
  pc,       \* next step of a thread
  work,     \* the call a thread makes
  attempt,  \* of its present request, from 0
  nap,      \* how long it still sleeps, or waits for an answer
  carried,  \* time left to the token of the request in flight
  got,      \* items and pages of a walk so far, and whether it was cut short
  made,     \* history: ages of the requests let through in the last Window
  sent,     \* history: the token of a thread's last request is the one cached,
            \* has been refused, or is of no interest any more
  refusals  \* history: how often the request was refused with a 401; 0 once it
            \* has ended in another way

throttle == <<recent, lock, made>>
thread == <<work, attempt, got, refusals>>
vars == <<throttle, low, token, pc, nap, carried, sent, thread>>

Goto(c, label) == pc' = [pc EXCEPT ![c] = label]

Least(m, n) == IF m <= n THEN m ELSE n

Nothing == [items |-> 0, pages |-> 0, cut |-> FALSE]

-----------------------------------------------------------------------------
(***************************************************************************)
(* Throttle.acquire                                                        *)
(***************************************************************************)
\* What is left when the oldest are popped as long as they have that age.
Younger(ages, age) ==
  LET kept == {i \in DOMAIN ages : ages[i] < age}
  IN  IF kept = {} THEN <<>>
      ELSE SubSeq(ages, CHOOSE i \in kept : \A j \in kept : i <= j, Len(ages))

Mutant_Evicted(ages) == Younger(ages, Window - 1)

Evicted(ages) == Younger(ages, Window)

\* The request is recorded, and the lock given back.
Admit(c, ages) ==
  /\ recent' = Append(ages, 0)
  /\ made' = Append(made, 0)
  /\ lock' = NoThread
  /\ nap' = [nap EXCEPT ![c] = 0]
  /\ Goto(c, "send")

Mutant_Sleep(c, time, label, ages) ==
  /\ recent' = ages
  /\ lock' = NoThread
  /\ nap' = [nap EXCEPT ![c] = time]
  /\ Goto(c, label)
  /\ UNCHANGED made

\* Sleep with the lock.
Sleep(c, time, label, ages) ==
  /\ recent' = ages
  /\ lock' = c
  /\ nap' = [nap EXCEPT ![c] = time]
  /\ Goto(c, label)
  /\ UNCHANGED made

\* Past the minute's window; the hour's spacing is next.
Proceed(c, ages) == IF low THEN Sleep(c, Spacing, "space", ages) ELSE Admit(c, ages)

Acquire(c) ==
  /\ pc[c] = "acquire"
  /\ lock = NoThread
  /\ LET ages == Evicted(recent)
     IN  IF Len(ages) >= MinuteCap
           THEN Sleep(c, Window - Head(ages), "full", ages)
           ELSE Proceed(c, ages)
  /\ UNCHANGED <<low, token, carried, sent, thread>>

\* The oldest request has left the window.
WakeFull(c) ==
  /\ pc[c] = "full"
  /\ nap[c] = 0
  /\ Proceed(c, Evicted(recent))
  /\ UNCHANGED <<low, token, carried, sent, thread>>

WakeSpaced(c) ==
  /\ pc[c] = "space"
  /\ nap[c] = 0
  /\ Admit(c, recent)
  /\ UNCHANGED <<low, token, carried, sent, thread>>

-----------------------------------------------------------------------------
(***************************************************************************)
(* One request.  TokenManager.token mints under its own lock, and nothing  *)
(* waits between taking the token and sending.                             *)
(***************************************************************************)
Mutant_Usable(t) == t # NoToken /\ t > 0

Usable(t) == t # NoToken /\ t > Margin

\* A download goes to a signed URL, and carries no token.
Send(c) ==
  /\ pc[c] = "send"
  /\ IF work[c].kind = "download"
       THEN UNCHANGED <<token, carried, sent>>
       ELSE LET t == IF Usable(token) THEN token ELSE Lifetime
            IN  /\ token' = t
                /\ carried' = [carried EXCEPT ![c] = t]
                /\ sent' = [d \in Threads |->
                     IF d = c THEN "cached" ELSE IF Usable(token) THEN sent[d] ELSE "none"]
  /\ nap' = [nap EXCEPT ![c] = Timeout]
  /\ Goto(c, "flight")
  /\ UNCHANGED <<throttle, low, thread>>

\* The request in flight is over, one way or another.
Land(c) ==
  /\ carried' = [carried EXCEPT ![c] = NoToken]
  /\ UNCHANGED <<throttle, token, work>>

\* Throttle.observe: an answer may tell how much of the hour's budget is left.
Observe(c) == IF work[c].kind = "download" THEN UNCHANGED low ELSE low' \in BOOLEAN

\* Try again after a pause, or raise.
Mutant_Again(c) ==
  /\ \E t \in Backoffs : nap' = [nap EXCEPT ![c] = t]
  /\ Goto(c, "backoff")
  /\ UNCHANGED attempt

Again(c) ==
  /\ work[c].kind # "download"
  /\ attempt[c] < MaxRetries
  /\ attempt' = [attempt EXCEPT ![c] = @ + 1]
  /\ \E t \in Backoffs : nap' = [nap EXCEPT ![c] = t]
  /\ Goto(c, "backoff")

Raise(c) ==
  /\ nap' = [nap EXCEPT ![c] = 0]
  /\ Goto(c, "raised")
  /\ UNCHANGED attempt

\* The thread's dealings with a token have ended.
Settle(c) ==
  /\ sent' = [sent EXCEPT ![c] = "none"]
  /\ refusals' = [refusals EXCEPT ![c] = 0]

\* Past the last retry, and always for a download, it raises.
RetryOrRaise(c) ==
  /\ \/ /\ Again(c)
        /\ sent' = [sent EXCEPT ![c] = "none"]
        /\ UNCHANGED refusals
     \/ /\ work[c].kind = "download" \/ attempt[c] >= MaxRetries
        /\ Raise(c)
        /\ Settle(c)
  /\ UNCHANGED got

\* No answer in time.
TimedOut(c) ==
  /\ Land(c)
  /\ UNCHANGED low
  /\ RetryOrRaise(c)

\* A 5xx or a 429.
Busy(c) ==
  /\ Land(c)
  /\ Observe(c)
  /\ RetryOrRaise(c)

\* No connection, or an error status that is not tried again.
Rejected(c) ==
  /\ Land(c)
  /\ Observe(c)
  /\ Raise(c)
  /\ Settle(c)
  /\ UNCHANGED got

\* A 401.  On the first attempt the token is dropped and the request sent again.
Refused(c) ==
  /\ work[c].kind # "download"
  /\ Land(c)
  /\ Observe(c)
  /\ refusals' = [refusals EXCEPT ![c] = @ + 1]
  /\ IF attempt[c] = 0
       THEN /\ attempt' = [attempt EXCEPT ![c] = 1]
            /\ nap' = [nap EXCEPT ![c] = 0]
            /\ sent' = [sent EXCEPT ![c] = IF @ = "cached" THEN "refused" ELSE @]
            /\ Goto(c, "refused")
       ELSE /\ Raise(c)
            /\ sent' = [sent EXCEPT ![c] = "none"]
  /\ UNCHANGED got

Mutant_Invalidate(c) ==
  /\ pc[c] = "refused"
  /\ Goto(c, "acquire")
  /\ UNCHANGED <<throttle, low, token, nap, carried, sent, thread>>

\* TokenManager.invalidate
Invalidate(c) ==
  /\ pc[c] = "refused"
  /\ token' = NoToken
  /\ Goto(c, "acquire")
  /\ UNCHANGED <<throttle, low, nap, carried, sent, thread>>

Resume(c) ==
  /\ pc[c] = "backoff"
  /\ nap[c] = 0
  /\ Goto(c, "acquire")
  /\ UNCHANGED <<throttle, low, token, nap, carried, sent, thread>>

-----------------------------------------------------------------------------
(***************************************************************************)
(* get_all walks links.next until the collection or a cap is reached.      *)
(***************************************************************************)
Asked(w) == IF w.limit = NoLimit THEN PageSize ELSE Least(PageSize, w.limit)

Mutant_NextPage(w, g) ==
  LET items == g.items + Least(Asked(w), w.size - g.items)
      next == items < w.size
      pages == g.pages + 1
      met == w.limit # NoLimit /\ items >= w.limit
  IN  [items |-> IF met THEN w.limit ELSE items, pages |-> pages,
       over |-> met \/ ~ next \/ pages >= MaxPages, cut |-> met /\ next]

\* What a walk has after one more page, and whether that was its last: when
\* its limit is met, it says that more exist if Apple says so.
NextPage(w, g) ==
  LET items == g.items + Least(Asked(w), w.size - g.items)
      next == items < w.size
      pages == g.pages + 1
      met == w.limit # NoLimit /\ items >= w.limit
  IN  [items |-> IF met THEN w.limit ELSE items, pages |-> pages,
       over |-> met \/ ~ next \/ pages >= MaxPages,
       cut |-> IF met THEN next \/ (w.counted /\ w.size > w.limit) ELSE next]

Succeed(c) ==
  /\ Land(c)
  /\ Observe(c)
  /\ nap' = [nap EXCEPT ![c] = 0]
  /\ Settle(c)
  /\ IF work[c].kind = "walk"
       THEN LET page == NextPage(work[c], got[c])
            IN  /\ got' = [got EXCEPT ![c] =
                     [items |-> page.items, pages |-> page.pages,
                      cut |-> page.over /\ page.cut]]
                /\ Goto(c, IF page.over THEN "done" ELSE "next")
       ELSE Goto(c, "done") /\ UNCHANGED got
  /\ UNCHANGED attempt

\* The next page is a request of its own.
Continue(c) ==
  /\ pc[c] = "next"
  /\ attempt' = [attempt EXCEPT ![c] = 0]
  /\ Goto(c, "acquire")
  /\ UNCHANGED <<throttle, low, token, nap, carried, sent, work, got, refusals>>

-----------------------------------------------------------------------------
Begin(c, w) ==
  /\ pc[c] = "idle"
  /\ work' = [work EXCEPT ![c] = w]
  /\ Goto(c, "acquire")
  /\ UNCHANGED <<throttle, low, token, nap, carried, sent, attempt, got, refusals>>

Return(c) ==
  /\ pc[c] \in {"done", "raised"}
  /\ work' = [work EXCEPT ![c] = NoWork]
  /\ attempt' = [attempt EXCEPT ![c] = 0]
  /\ got' = [got EXCEPT ![c] = Nothing]
  /\ refusals' = [refusals EXCEPT ![c] = 0]
  /\ Goto(c, "idle")
  /\ UNCHANGED <<throttle, low, token, nap, carried, sent>>

\* Time passes, for those in flight at most to their timeout.
Tick ==
  /\ \A c \in Threads : pc[c] = "flight" => nap[c] > 0
  /\ recent' = [i \in DOMAIN recent |-> Least(recent[i] + 1, Window)]
  /\ made' = Younger([i \in DOMAIN made |-> made[i] + 1], Window)
  /\ token' = IF token \in {NoToken, 0} THEN token ELSE token - 1
  /\ carried' = [c \in Threads |-> IF carried[c] \in {NoToken, 0} THEN carried[c]
                                   ELSE carried[c] - 1]
  /\ nap' = [c \in Threads |-> IF nap[c] = 0 THEN 0 ELSE nap[c] - 1]
  /\ UNCHANGED <<lock, low, pc, sent, thread>>

Init ==
  /\ recent = <<>> /\ made = <<>>
  /\ lock = NoThread
  /\ low = FALSE
  /\ token = NoToken
  /\ pc = [c \in Threads |-> "idle"]
  /\ work = [c \in Threads |-> NoWork]
  /\ attempt = [c \in Threads |-> 0]
  /\ nap = [c \in Threads |-> 0]
  /\ carried = [c \in Threads |-> NoToken]
  /\ got = [c \in Threads |-> Nothing]
  /\ sent = [c \in Threads |-> "none"]
  /\ refusals = [c \in Threads |-> 0]

Answer(c) ==
  /\ pc[c] = "flight"
  /\ Succeed(c) \/ TimedOut(c) \/ Busy(c) \/ Rejected(c) \/ Refused(c)

Step(c) ==
  \/ WakeFull(c) \/ WakeSpaced(c) \/ Send(c) \/ Answer(c)
  \/ Invalidate(c) \/ Resume(c) \/ Continue(c) \/ Return(c)

Next ==
  \/ \E c \in Threads : Acquire(c) \/ Step(c) \/ \E w \in Work : Begin(c, w)
  \/ Tick

Spec == Init /\ [][Next]_vars

\* Time passes and threads run.  The lock is free for the whole round trip of
\* every request, and releasing it wakes a thread that waits for it.
FairSpec ==
  /\ Spec
  /\ WF_vars(Tick)
  /\ \A c \in Threads : WF_vars(Step(c)) /\ SF_vars(Acquire(c))

-----------------------------------------------------------------------------
(***************************************************************************)
(* Properties.                                                             *)
(***************************************************************************)
Label == {"idle", "acquire", "full", "space", "send", "flight", "refused",
          "backoff", "next", "done", "raised"}

\* The variables keep their types; a thread holds the throttle's lock exactly
\* while it sleeps in Throttle.acquire.
TypeOK ==
  /\ recent \in Seq(0..Window)
  /\ made \in Seq(0..Window - 1)
  /\ lock \in Threads \cup {NoThread}
  /\ low \in BOOLEAN
  /\ token \in 0..Lifetime \cup {NoToken}
  /\ pc \in [Threads -> Label]
  /\ work \in [Threads -> Work \cup {NoWork}]
  /\ attempt \in [Threads -> Nat]
  /\ nap \in [Threads -> Nat]
  /\ carried \in [Threads -> 0..Lifetime \cup {NoToken}]
  /\ sent \in [Threads -> {"none", "cached", "refused"}]
  /\ refusals \in [Threads -> 0..2]
  /\ \A c \in Threads : pc[c] \in {"full", "space"} <=> lock = c

\* However many threads queue on the throttle, no more than MinuteCap requests
\* are let through in any Window (the comment on MINUTE_SOFT_CAP).
MinuteCapHolds == Len(made) <= MinuteCap

\* A token does not expire on its way, however long its thread was held up by
\* the throttle before (the comment on REFRESH_MARGIN).
NoTokenExpiresInFlight == \A c \in Threads : carried[c] # 0

\* After a first 401 the request goes out with a token minted since it took
\* the refused one, whoever minted it (TokenManager.invalidate).
FreshTokenAfterRefusal ==
  \A c \in Threads :
    pc[c] = "send" /\ sent[c] = "refused" => ~ Usable(token)

\* get_all returns all there is, unless it says it was cut short or Apple does
\* not count (the comment on PagedResult.truncated).
CompleteUnlessCut ==
  \A c \in Threads :
    pc[c] = "done" /\ work[c].kind = "walk" /\ work[c].counted /\ ~ got[c].cut =>
      got[c].items = work[c].size

\* Every call comes back, whatever Apple answers and however many others call.
EveryCallEnds == \A c \in Threads : pc[c] # "idle" ~> pc[c] = "idle"

=============================================================================
