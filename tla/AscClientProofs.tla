--------------------------- MODULE AscClientProofs ---------------------------
(***************************************************************************)
(* What holds of any number of threads sharing one client: no request       *)
(* carries a token that expires before it is answered, a token Apple        *)
(* refused is not sent again, a list that stops short says so, and the      *)
(* requests of a window never exceed the cap.  Each has an inductive        *)
(* invariant of its own: FlightInv, RefusalInv, CallInv and ThrottleInv.    *)
(***************************************************************************)
EXTENDS AscClient, SequenceTheorems, WellFoundedInduction, TLAPS

\* What a request in flight may still wait for is less than what its token has
\* left.  Of nap only what is needed is said: sleepers take theirs from recent.
FlightInv ==
  /\ token \in 0..Lifetime \cup {NoToken}
  /\ pc = [c \in Threads |-> pc[c]]
  /\ nap = [c \in Threads |-> nap[c]]
  /\ carried \in [Threads -> 0..Lifetime \cup {NoToken}]
  /\ \A c \in Threads :
       /\ pc[c] = "flight" => nap[c] \in Nat
       /\ carried[c] # NoToken => pc[c] = "flight" /\ carried[c] > nap[c]

\* The invariant says what the property does.
LEMMA FlightInvImplies == ASSUME FlightInv PROVE NoTokenExpiresInFlight
<1>. SUFFICES ASSUME NEW c \in Threads, carried[c] = 0 PROVE FALSE
  BY DEF NoTokenExpiresInFlight
<1>1. nap[c] \in Nat /\ carried[c] > nap[c]
  BY ClientAssumption DEF FlightInv
<1>. QED BY <1>1

LEMMA FlightInit == ASSUME Init PROVE FlightInv
BY ClientAssumption DEF Init, FlightInv

\* A thread that is not in flight before or after a step, takes it without a
\* token and leaves the others alone.
LEMMA OnTheGround ==
  ASSUME FlightInv, NEW c \in Threads, NEW label, NEW time,
         pc[c] # "flight", label # "flight",
         pc' = [pc EXCEPT ![c] = label],
         nap' = [nap EXCEPT ![c] = time],
         token' \in {token, NoToken}, carried' = carried
  PROVE  FlightInv'
<1>1. carried[c] = NoToken
  BY DEF FlightInv
<1>. QED BY <1>1, ClientAssumption DEF FlightInv

\* A request that has landed carries nothing.
LEMMA Landed ==
  ASSUME FlightInv, NEW c \in Threads, NEW label, NEW time,
         label # "flight", Land(c),
         pc' = [pc EXCEPT ![c] = label],
         nap' = [nap EXCEPT ![c] = time]
  PROVE  FlightInv'
<1>1. carried'[c] = NoToken /\ \A d \in Threads \ {c} : carried'[d] = carried[d]
  BY DEF Land, FlightInv
<1>. QED BY <1>1, ClientAssumption DEF FlightInv, Land

\* Going to sleep, or past the throttle.
LEMMA Throttled ==
  ASSUME FlightInv, NEW c \in Threads, NEW ages, pc[c] # "flight",
         UNCHANGED <<token, carried>>,
         \/ \E time, label : label \in {"full", "space"} /\ Sleep(c, time, label, ages)
         \/ Admit(c, ages)
  PROVE  FlightInv'
<1>1. CASE Admit(c, ages)
  BY <1>1, OnTheGround DEF Admit, Goto
<1>2. ASSUME NEW time, NEW label, label \in {"full", "space"}, Sleep(c, time, label, ages)
      PROVE  FlightInv'
  BY <1>2, OnTheGround DEF Sleep, Goto
<1>. QED BY <1>1, <1>2

LEMMA FlightStep == ASSUME FlightInv, [Next]_vars PROVE FlightInv'
<1>1. ASSUME NEW c \in Threads, Acquire(c) PROVE FlightInv'
  <2>. DEFINE ages == Evicted(recent)
  <2>1. \/ \E time, label : label \in {"full", "space"} /\ Sleep(c, time, label, ages)
        \/ Admit(c, ages)
    BY <1>1 DEF Acquire, Proceed
  <2>. QED BY <1>1, <2>1, Throttled DEF Acquire
<1>2. ASSUME NEW c \in Threads, WakeFull(c) PROVE FlightInv'
  <2>. DEFINE ages == Evicted(recent)
  <2>1. \/ \E time, label : label \in {"full", "space"} /\ Sleep(c, time, label, ages)
        \/ Admit(c, ages)
    BY <1>2 DEF WakeFull, Proceed
  <2>. QED BY <1>2, <2>1, Throttled DEF WakeFull
<1>3. ASSUME NEW c \in Threads, WakeSpaced(c) PROVE FlightInv'
  BY <1>3, Throttled DEF WakeSpaced
<1>4. ASSUME NEW c \in Threads, Send(c) PROVE FlightInv'
  <2>1. CASE work[c].kind = "download"
    BY <1>4, <2>1, ClientAssumption DEF Send, Goto, FlightInv
  <2>2. CASE work[c].kind # "download"
    <3>. DEFINE t == IF Usable(token) THEN token ELSE Lifetime
    <3>1. t \in 0..Lifetime /\ t > Timeout
      BY ClientAssumption DEF Usable, FlightInv
    <3>2. token' = t /\ carried' = [carried EXCEPT ![c] = t]
      BY <1>4, <2>2 DEF Send
    <3>. HIDE DEF t
    <3>3. nap' = [nap EXCEPT ![c] = Timeout] /\ pc' = [pc EXCEPT ![c] = "flight"]
      BY <1>4 DEF Send, Goto
    <3>. QED BY <3>1, <3>2, <3>3, ClientAssumption DEF FlightInv
  <2>. QED BY <2>1, <2>2
<1>5. ASSUME NEW c \in Threads, Answer(c) PROVE FlightInv'
  <2>1. Land(c) /\ \E label, time : /\ label # "flight"
                                    /\ pc' = [pc EXCEPT ![c] = label]
                                    /\ nap' = [nap EXCEPT ![c] = time]
    <3>1. CASE Succeed(c)
      BY <3>1 DEF Succeed, Goto
    <3>2. CASE TimedOut(c)
      BY <3>2 DEF TimedOut, RetryOrRaise, Again, Raise, Goto
    <3>3. CASE Busy(c)
      BY <3>3 DEF Busy, RetryOrRaise, Again, Raise, Goto
    <3>4. CASE Rejected(c)
      BY <3>4 DEF Rejected, Raise, Goto
    <3>5. CASE Refused(c)
      BY <3>5 DEF Refused, Raise, Goto
    <3>. QED BY <1>5, <3>1, <3>2, <3>3, <3>4, <3>5 DEF Answer
  <2>. QED BY <2>1, Landed
<1>6. ASSUME NEW c \in Threads,
             \/ Invalidate(c) \/ Resume(c) \/ Continue(c) \/ Return(c)
             \/ \E w \in Work : Begin(c, w)
      PROVE  FlightInv'
  <2>1. /\ pc[c] # "flight" /\ nap' = nap /\ carried' = carried
        /\ token' \in {token, NoToken}
        /\ \E label : label # "flight" /\ pc' = [pc EXCEPT ![c] = label]
    BY <1>6 DEF Invalidate, Resume, Continue, Return, Begin, Goto
  <2>2. nap' = [nap EXCEPT ![c] = nap[c]]
    BY <2>1 DEF FlightInv
  <2>. QED BY <2>1, <2>2, OnTheGround
<1>7. ASSUME Tick PROVE FlightInv'
  <2>1. token' \in 0..Lifetime \cup {NoToken}
    BY <1>7, ClientAssumption DEF Tick, FlightInv
  <2>2. /\ carried' \in [Threads -> 0..Lifetime \cup {NoToken}]
        /\ nap' = [c \in Threads |-> nap'[c]]
        /\ pc' = pc
    BY <1>7, ClientAssumption DEF Tick, FlightInv
  <2>3. ASSUME NEW c \in Threads
        PROVE  /\ pc'[c] = "flight" => nap'[c] \in Nat
               /\ carried'[c] # NoToken => pc'[c] = "flight" /\ carried'[c] > nap'[c]
    <3>1. pc[c] = "flight" => nap[c] \in Nat /\ nap[c] > 0 /\ nap'[c] = nap[c] - 1
      BY <1>7 DEF Tick, FlightInv
    <3>2. carried'[c] = IF carried[c] \in {NoToken, 0} THEN carried[c] ELSE carried[c] - 1
      BY <1>7 DEF Tick
    <3>. QED BY <2>2, <3>1, <3>2, ClientAssumption DEF FlightInv
  <2>. QED BY <2>1, <2>2, <2>3 DEF FlightInv
<1>8. ASSUME UNCHANGED vars PROVE FlightInv'
  BY <1>8 DEF vars, FlightInv
<1>. QED
  <2>1. CASE UNCHANGED vars
    BY <2>1, <1>8
  <2>2. CASE Tick
    BY <2>2, <1>7
  <2>3. ASSUME NEW c \in Threads, Acquire(c) \/ Step(c) \/ \E w \in Work : Begin(c, w)
        PROVE  FlightInv'
    BY <2>3, <1>1, <1>2, <1>3, <1>4, <1>5, <1>6 DEF Step
  <2>. QED BY <2>1, <2>2, <2>3 DEF Next

\* A token outlives the request that carries it, for any number of threads and
\* however long the throttle holds them up: its age is looked at after the wait
\* (request, TokenManager.is_valid).
THEOREM TokensArriveAlive == Spec => []NoTokenExpiresInFlight
<1>1. Spec => []FlightInv
  BY FlightInit, FlightStep, PTL DEF Spec
<1>. QED BY <1>1, FlightInvImplies, PTL

-----------------------------------------------------------------------------
(***************************************************************************)
(* The token that was refused is not the one sent next.                    *)
(***************************************************************************)
\* A refused token is gone, or the thread is about to drop it.
RefusalInv ==
  /\ pc = [c \in Threads |-> pc[c]]
  /\ sent = [c \in Threads |-> sent[c]]
  /\ \A c \in Threads : sent[c] = "refused" => pc[c] = "refused" \/ ~Usable(token)

\* A token is only minted when the cached one is not usable, and then no other
\* thread waits to replace the one it was refused.
LEMMA RefusalStep == ASSUME FlightInv, RefusalInv, [Next]_vars PROVE RefusalInv'
<1>1. ASSUME NEW c \in Threads, Acquire(c) \/ WakeFull(c) \/ WakeSpaced(c)
      PROVE  RefusalInv'
  <2>1. /\ pc[c] # "refused" /\ token' = token /\ sent' = sent
        /\ \E label : label # "refused" /\ pc' = [pc EXCEPT ![c] = label]
    BY <1>1 DEF Acquire, WakeFull, WakeSpaced, Proceed, Sleep, Admit, Goto
  <2>. QED BY <2>1 DEF RefusalInv, Usable
<1>2. ASSUME NEW c \in Threads, Send(c) PROVE RefusalInv'
  <2>1. CASE work[c].kind = "download"
    BY <1>2, <2>1 DEF Send, Goto, RefusalInv, Usable
  <2>2. CASE work[c].kind # "download"
    BY <1>2, <2>2 DEF Send, Goto, RefusalInv, Usable
  <2>. QED BY <2>1, <2>2
<1>3. ASSUME NEW c \in Threads, Answer(c) PROVE RefusalInv'
  <2>1. pc[c] # "refused" /\ token' = token
    BY <1>3 DEF Answer, Succeed, TimedOut, Busy, Rejected, Refused, Land
  <2>2. CASE Refused(c)
    <3>1. \E label, s : /\ label = "refused" \/ s = "none"
                        /\ pc' = [pc EXCEPT ![c] = label]
                        /\ sent' = [sent EXCEPT ![c] = s]
      BY <2>2 DEF Refused, Raise, Goto
    <3>. QED BY <2>1, <3>1 DEF RefusalInv, Usable
  <2>3. CASE Succeed(c) \/ TimedOut(c) \/ Busy(c) \/ Rejected(c)
    <3>1. sent' = [sent EXCEPT ![c] = "none"] /\ \E label : pc' = [pc EXCEPT ![c] = label]
      BY <2>3 DEF Succeed, TimedOut, Busy, Rejected, RetryOrRaise, Again, Raise, Settle, Goto
    <3>. QED BY <2>1, <3>1 DEF RefusalInv, Usable
  <2>. QED BY <1>3, <2>2, <2>3 DEF Answer
<1>4. ASSUME NEW c \in Threads, Invalidate(c) PROVE RefusalInv'
  BY <1>4 DEF Invalidate, Goto, RefusalInv, Usable
<1>5. ASSUME NEW c \in Threads,
             Resume(c) \/ Continue(c) \/ Return(c) \/ \E w \in Work : Begin(c, w)
      PROVE  RefusalInv'
  <2>1. /\ pc[c] # "refused" /\ token' = token /\ sent' = sent
        /\ \E label : label # "refused" /\ pc' = [pc EXCEPT ![c] = label]
    BY <1>5 DEF Resume, Continue, Return, Begin, Goto
  <2>. QED BY <2>1 DEF RefusalInv, Usable
<1>6. ASSUME Tick PROVE RefusalInv'
  <2>1. Usable(token') => Usable(token)
    BY <1>6, ClientAssumption DEF Tick, Usable, FlightInv
  <2>. QED BY <1>6, <2>1 DEF Tick, RefusalInv
<1>7. ASSUME UNCHANGED vars PROVE RefusalInv'
  BY <1>7 DEF vars, RefusalInv, Usable
<1>. QED BY <1>1, <1>2, <1>3, <1>4, <1>5, <1>6, <1>7 DEF Next, Step

\* A thread whose token was refused sends a new one, whichever thread minted
\* it, for any number of threads (request, TokenManager.invalidate).
THEOREM RefusedTokensAreReplaced == Spec => []FreshTokenAfterRefusal
<1>1. Init => RefusalInv
  BY DEF Init, RefusalInv
<1>2. RefusalInv => FreshTokenAfterRefusal
  BY DEF RefusalInv, FreshTokenAfterRefusal
<1>. QED BY <1>1, <1>2, FlightInit, FlightStep, RefusalStep, PTL DEF Spec

-----------------------------------------------------------------------------
(***************************************************************************)
(* What a call is at, and what a walk has.                                 *)
(***************************************************************************)
Walked == [items : Nat, pages : Nat, cut : BOOLEAN]

\* A walk never has more than there is, and while it goes on there is more.
WalkFits(c) ==
  /\ pc[c] = "idle" => got[c] = Nothing /\ attempt[c] = 0 /\ refusals[c] = 0
  /\ pc[c] # "idle" => work[c] \in Work
  /\ (attempt[c] = 0 /\ pc[c] # "raised") \/ pc[c] = "next" => refusals[c] = 0
  /\ pc[c] # "raised" => refusals[c] <= 1
  /\ pc[c] # "idle" /\ work[c].kind = "walk" =>
       /\ got[c].items <= work[c].size
       /\ pc[c] = "done" /\ work[c].counted /\ ~got[c].cut => got[c].items = work[c].size

CallInv ==
  /\ low \in BOOLEAN
  /\ pc \in [Threads -> Label]
  /\ work \in [Threads -> Work \cup {NoWork}]
  /\ attempt \in [Threads -> Nat]
  /\ got \in [Threads -> Walked]
  /\ sent \in [Threads -> {"none", "cached", "refused"}]
  /\ refusals \in [Threads -> 0..2]
  /\ \A c \in Threads : WalkFits(c)

LEMMA CallInit == ASSUME Init PROVE CallInv
<1>. USE DEF Init
<1>1. /\ low \in BOOLEAN
      /\ pc \in [Threads -> Label]
      /\ work \in [Threads -> Work \cup {NoWork}]
      /\ sent \in [Threads -> {"none", "cached", "refused"}]
  BY Zenon DEF Label
<1>2. attempt \in [Threads -> Nat] /\ refusals \in [Threads -> 0..2]
  BY SMT
<1>3. got \in [Threads -> Walked]
  BY DEF Walked, Nothing
<1>4. ASSUME NEW c \in Threads PROVE WalkFits(c)
  <2>1. pc[c] = "idle" /\ got[c] = Nothing /\ attempt[c] = 0 /\ refusals[c] = 0
    BY Zenon
  <2>. QED BY <2>1 DEF WalkFits
<1>. QED BY <1>1, <1>2, <1>3, <1>4 DEF CallInv

\* One more page, and a walk that has not met its end yet.
LEMMA PageFits ==
  ASSUME NEW w \in Request, NEW g \in Walked, g.items <= w.size
  PROVE  LET page == NextPage(w, g) IN
         /\ page.items \in Nat /\ page.pages \in Nat /\ page.cut \in BOOLEAN
         /\ page.items <= w.size
         /\ page.over /\ w.counted /\ ~page.cut => page.items = w.size
<1>. DEFINE items == g.items + Least(Asked(w), w.size - g.items)
<1>1. w.size \in Nat /\ w.limit \in (Nat \ {0}) \cup {NoLimit} /\ w.counted \in BOOLEAN
  BY DEF Request
<1>2. g.items \in Nat /\ g.pages \in Nat
  BY DEF Walked
<1>3. Asked(w) \in Nat
  BY <1>1, ClientAssumption DEF Asked, Least
<1>4. items \in Nat /\ items <= w.size
  BY <1>1, <1>2, <1>3 DEF Least
<1>. HIDE DEF items
<1>. DEFINE next == items < w.size
            met == w.limit # NoLimit /\ items >= w.limit
            page == NextPage(w, g)
<1>5. /\ page.items = IF met THEN w.limit ELSE items
      /\ page.pages = g.pages + 1
      /\ page.over = (met \/ ~next \/ g.pages + 1 >= MaxPages)
      /\ page.cut = IF met THEN next \/ (w.counted /\ w.size > w.limit) ELSE next
  BY Zenon DEF NextPage, items
<1>. HIDE DEF page
<1>6. page.items \in Nat /\ page.items <= w.size /\ page.pages \in Nat
  BY <1>1, <1>2, <1>4, <1>5
<1>7. page.cut \in BOOLEAN
  <2>1. next \in BOOLEAN
    BY <1>1, <1>4, SMT
  <2>. HIDE DEF next, met
  <2>. QED BY <2>1, <1>5, Zenon
<1>8. page.over /\ w.counted /\ ~page.cut => page.items = w.size
  <2>1. CASE met
    BY <2>1, <1>1, <1>4, <1>5
  <2>2. CASE ~met
    <3>1. ~page.cut => ~next
      BY <2>2, <1>5, Zenon
    <3>. QED BY <2>2, <3>1, <1>1, <1>4, <1>5
  <2>. QED BY <2>1, <2>2
<1>. QED BY <1>6, <1>7, <1>8 DEF page

\* A call that goes on to another step of its own.
LEMMA CallGoesOn ==
  ASSUME CallInv, NEW c \in Threads,
         NEW label \in Label \ {"idle", "done"},
         pc[c] # "idle", pc' = [pc EXCEPT ![c] = label],
         label = "next" => refusals[c] = 0,
         pc[c] = "raised" => label = "raised",
         low' \in BOOLEAN, sent' \in [Threads -> {"none", "cached", "refused"}],
         UNCHANGED thread
  PROVE  CallInv'
<1>1. /\ pc' \in [Threads -> Label]
      /\ work' \in [Threads -> Work \cup {NoWork}]
      /\ attempt' \in [Threads -> Nat]
      /\ got' \in [Threads -> Walked]
      /\ refusals' \in [Threads -> 0..2]
  BY DEF CallInv, thread
<1>2. ASSUME NEW d \in Threads PROVE WalkFits(d)'
  BY DEF CallInv, WalkFits, thread
<1>. QED BY <1>1, <1>2 DEF CallInv

\* Another thread's call stays as it is.
LEMMA OtherCalls ==
  ASSUME CallInv, NEW c \in Threads, NEW label,
         pc' = [pc EXCEPT ![c] = label],
         \A d \in Threads \ {c} :
           /\ work'[d] = work[d] /\ attempt'[d] = attempt[d]
           /\ got'[d] = got[d] /\ refusals'[d] = refusals[d]
  PROVE  \A d \in Threads \ {c} : WalkFits(d)'
BY DEF CallInv, WalkFits

\* A request is over that is tried again, or never again.
LEMMA CallEndsOrRetries ==
  ASSUME CallInv, NEW c \in Threads, pc[c] = "flight",
         TimedOut(c) \/ Busy(c) \/ Rejected(c) \/ Refused(c)
  PROVE  CallInv'
<1>1. low' \in BOOLEAN
  BY DEF TimedOut, Busy, Rejected, Refused, Observe, CallInv
<1>2. work' = work /\ got' = got
  BY DEF TimedOut, Busy, Rejected, Refused, RetryOrRaise, Land
<1>. DEFINE Goes(label, n, r) ==
       /\ label \in {"backoff", "raised", "refused"} /\ n \in Nat /\ r \in 0..2
       /\ label # "raised" => n > 0 /\ r <= 1
       /\ pc' = [pc EXCEPT ![c] = label]
       /\ attempt' = [attempt EXCEPT ![c] = n]
       /\ refusals' = [refusals EXCEPT ![c] = r]
<1>3. attempt[c] \in Nat /\ refusals[c] \in 0..1
  BY DEF CallInv, WalkFits
<1>4. sent' \in [Threads -> {"none", "cached", "refused"}] /\ \E label, n, r : Goes(label, n, r)
  <2>1. CASE Again(c) /\ UNCHANGED refusals /\ sent' = [sent EXCEPT ![c] = "none"]
    <3>1. /\ refusals' = [refusals EXCEPT ![c] = refusals[c]]
          /\ attempt' = [attempt EXCEPT ![c] = attempt[c] + 1]
          /\ pc' = [pc EXCEPT ![c] = "backoff"]
      BY <2>1 DEF CallInv, Again, Goto
    <3>2. Goes("backoff", attempt[c] + 1, refusals[c])
      BY <1>3, <3>1
    <3>. QED BY <2>1, <3>2 DEF CallInv
  <2>2. CASE Raise(c) /\ Settle(c)
    <3>1. /\ attempt' = [attempt EXCEPT ![c] = attempt[c]]
          /\ refusals' = [refusals EXCEPT ![c] = 0]
          /\ pc' = [pc EXCEPT ![c] = "raised"]
      BY <2>2 DEF Raise, Settle, Goto, CallInv
    <3>2. Goes("raised", attempt[c], 0)
      BY <1>3, <3>1
    <3>. QED BY <2>2, <3>2 DEF CallInv, Settle
  <2>3. ASSUME Refused(c), attempt[c] = 0
        PROVE  sent' \in [Threads -> {"none", "cached", "refused"}] /\ \E label, n, r : Goes(label, n, r)
    <3>1. refusals[c] = 0
      BY <2>3 DEF CallInv, WalkFits
    <3>2. Goes("refused", 1, 1)
      BY <2>3, <3>1 DEF Refused, Goto
    <3>3. sent' \in [Threads -> {"none", "cached", "refused"}]
      BY <2>3 DEF Refused, CallInv
    <3>. QED BY <3>2, <3>3
  <2>4. ASSUME Refused(c), attempt[c] # 0
        PROVE  sent' \in [Threads -> {"none", "cached", "refused"}] /\ \E label, n, r : Goes(label, n, r)
    <3>1. attempt' = [attempt EXCEPT ![c] = attempt[c]]
      BY <2>4 DEF Refused, Raise, CallInv
    <3>2. Goes("raised", attempt[c], refusals[c] + 1)
      BY <1>3, <2>4, <3>1 DEF Refused, Raise, Goto
    <3>3. sent' \in [Threads -> {"none", "cached", "refused"}]
      BY <2>4 DEF Refused, CallInv
    <3>. QED BY <3>2, <3>3
  <2>. QED BY <2>1, <2>2, <2>3, <2>4 DEF TimedOut, Busy, Rejected, RetryOrRaise
<1>5. PICK label, n, r : Goes(label, n, r)
  BY <1>4
<1>6. \A d \in Threads \ {c} : WalkFits(d)'
  BY <1>2, <1>5, OtherCalls DEF CallInv
<1>7. WalkFits(c)'
  BY <1>2, <1>5 DEF CallInv, WalkFits
<1>8. /\ pc' \in [Threads -> Label]
      /\ attempt' \in [Threads -> Nat] /\ refusals' \in [Threads -> 0..2]
  BY <1>5 DEF CallInv, Label
<1>. QED BY <1>1, <1>2, <1>4, <1>6, <1>7, <1>8 DEF CallInv

\* A page arrives, or a segment.
LEMMA CallSucceeds ==
  ASSUME CallInv, NEW c \in Threads, pc[c] = "flight", Succeed(c)
  PROVE  CallInv'
<1>1. low' \in BOOLEAN
  BY DEF Succeed, Observe, CallInv
<1>2. /\ work' = work /\ attempt' = attempt
      /\ sent' = [sent EXCEPT ![c] = "none"]
      /\ refusals' = [refusals EXCEPT ![c] = 0]
  BY DEF Succeed, Land, Settle
<1>3. /\ work[c] \in Request /\ got[c] \in Walked
      /\ work[c].kind = "walk" => got[c].items <= work[c].size
  BY ClientAssumption DEF CallInv, WalkFits
<1>4. ASSUME work[c].kind = "walk" PROVE CallInv'
  <2>. DEFINE page == NextPage(work[c], got[c])
              over == page.over
              cut == over /\ page.cut
              g == [items |-> page.items, pages |-> page.pages, cut |-> cut]
  <2>1. /\ page.items \in Nat /\ page.pages \in Nat /\ page.cut \in BOOLEAN
        /\ page.items <= work[c].size
        /\ over /\ work[c].counted /\ ~page.cut => page.items = work[c].size
    BY <1>3, <1>4, PageFits
  <2>2. got' = [got EXCEPT ![c] = g]
    BY <1>4 DEF Succeed
  <2>3. \E label \in {"done", "next"} :
          pc' = [pc EXCEPT ![c] = label] /\ (label = "done" => over)
    BY <1>4 DEF Succeed, Goto
  <2>4. cut \in BOOLEAN /\ (over => cut = page.cut)
    <3>. HIDE DEF page
    <3>. QED BY <2>1, Zenon
  <2>. HIDE DEF page, over, cut
  <2>5. g \in Walked /\ g.items <= work[c].size
    BY <2>1, <2>4 DEF Walked
  <2>6. over /\ work[c].counted /\ ~g.cut => g.items = work[c].size
    BY <2>1, <2>4
  <2>. HIDE DEF g
  <2>7. \A d \in Threads \ {c} : WalkFits(d)'
    BY <1>2, <2>2, <2>3, OtherCalls DEF CallInv
  <2>8. WalkFits(c)'
    BY <1>2, <1>4, <2>2, <2>3, <2>5, <2>6 DEF CallInv, WalkFits
  <2>9. /\ pc' \in [Threads -> Label] /\ got' \in [Threads -> Walked]
        /\ sent' \in [Threads -> {"none", "cached", "refused"}]
        /\ refusals' \in [Threads -> 0..2]
    BY <1>2, <2>2, <2>3, <2>5 DEF CallInv, Label
  <2>. QED BY <1>1, <1>2, <2>7, <2>8, <2>9 DEF CallInv
<1>5. ASSUME work[c].kind # "walk" PROVE CallInv'
  <2>1. pc' = [pc EXCEPT ![c] = "done"] /\ got' = got
    BY <1>5 DEF Succeed, Goto
  <2>2. \A d \in Threads \ {c} : WalkFits(d)'
    BY <1>2, <2>1, OtherCalls DEF CallInv
  <2>3. WalkFits(c)'
    BY <1>2, <1>5, <2>1 DEF CallInv, WalkFits
  <2>4. /\ pc' \in [Threads -> Label]
        /\ sent' \in [Threads -> {"none", "cached", "refused"}]
        /\ refusals' \in [Threads -> 0..2]
    BY <1>2, <2>1 DEF CallInv, Label
  <2>. QED BY <1>1, <1>2, <2>1, <2>2, <2>3, <2>4 DEF CallInv
<1>. QED BY <1>4, <1>5

LEMMA CallStep == ASSUME CallInv, [Next]_vars PROVE CallInv'
<1>1. ASSUME NEW c \in Threads,
             \/ Acquire(c) \/ WakeFull(c) \/ WakeSpaced(c) \/ Send(c)
             \/ Invalidate(c) \/ Resume(c)
      PROVE  CallInv'
  <2>1. /\ pc[c] \notin {"idle", "raised"} /\ low' = low /\ UNCHANGED thread
        /\ \E label \in Label \ {"idle", "done", "next"} : pc' = [pc EXCEPT ![c] = label]
    BY <1>1 DEF Acquire, WakeFull, WakeSpaced, Proceed, Sleep, Admit, Send, Invalidate,
                Resume, Goto, Label
  <2>2. sent' \in [Threads -> {"none", "cached", "refused"}]
    <3>1. CASE sent' = sent
      BY <3>1 DEF CallInv
    <3>2. CASE Send(c) /\ work[c].kind # "download"
      BY <3>2 DEF Send, CallInv
    <3>. QED BY <1>1, <3>1, <3>2 DEF Acquire, WakeFull, WakeSpaced, Send, Invalidate, Resume
  <2>. QED BY <2>1, <2>2, CallGoesOn DEF CallInv
<1>2. ASSUME NEW c \in Threads, Answer(c) PROVE CallInv'
  BY <1>2, CallSucceeds, CallEndsOrRetries DEF Answer
<1>3. ASSUME NEW c \in Threads,
             \/ Continue(c) \/ Return(c) \/ \E w \in Work : Begin(c, w)
      PROVE  CallInv'
  <2>1. low' = low /\ sent' = sent
    BY <1>3 DEF Continue, Return, Begin
  <2>2. CASE Continue(c)
    <3>1. /\ pc[c] = "next" /\ pc' = [pc EXCEPT ![c] = "acquire"]
          /\ attempt' = [attempt EXCEPT ![c] = 0] /\ UNCHANGED <<work, got, refusals>>
      BY <2>2 DEF Continue, Goto
    <3>2. \A d \in Threads \ {c} : WalkFits(d)'
      BY <3>1, OtherCalls DEF CallInv
    <3>3. WalkFits(c)'
      BY <3>1 DEF CallInv, WalkFits
    <3>4. pc' \in [Threads -> Label] /\ attempt' \in [Threads -> Nat]
      BY <3>1 DEF CallInv, Label
    <3>. QED BY <2>1, <3>1, <3>2, <3>3, <3>4 DEF CallInv
  <2>3. CASE Return(c)
    <3>1. /\ pc' = [pc EXCEPT ![c] = "idle"]
          /\ attempt' = [attempt EXCEPT ![c] = 0] /\ work' = [work EXCEPT ![c] = NoWork]
          /\ got' = [got EXCEPT ![c] = Nothing] /\ refusals' = [refusals EXCEPT ![c] = 0]
      BY <2>3 DEF Return, Goto
    <3>2. \A d \in Threads \ {c} : WalkFits(d)'
      BY <3>1, OtherCalls DEF CallInv
    <3>3. WalkFits(c)'
      BY <3>1 DEF CallInv, WalkFits
    <3>4. Nothing \in Walked
      BY DEF Nothing, Walked
    <3>5. /\ pc' \in [Threads -> Label] /\ attempt' \in [Threads -> Nat]
          /\ work' \in [Threads -> Work \cup {NoWork}] /\ got' \in [Threads -> Walked]
          /\ refusals' \in [Threads -> 0..2]
      BY <3>1, <3>4 DEF CallInv, Label
    <3>. QED BY <2>1, <3>2, <3>3, <3>5 DEF CallInv
  <2>4. ASSUME NEW w \in Work, Begin(c, w) PROVE CallInv'
    <3>1. /\ pc[c] = "idle" /\ pc' = [pc EXCEPT ![c] = "acquire"]
          /\ work' = [work EXCEPT ![c] = w] /\ UNCHANGED <<attempt, got, refusals>>
      BY <2>4 DEF Begin, Goto
    <3>2. \A d \in Threads \ {c} : WalkFits(d)'
      BY <3>1, OtherCalls DEF CallInv
    <3>3. w.size \in Nat /\ got[c].items = 0
      BY <3>1, ClientAssumption DEF Request, CallInv, WalkFits, Nothing
    <3>4. WalkFits(c)'
      BY <3>1, <3>3 DEF CallInv, WalkFits
    <3>5. pc' \in [Threads -> Label] /\ work' \in [Threads -> Work \cup {NoWork}]
      BY <3>1 DEF CallInv, Label
    <3>. QED BY <2>1, <3>1, <3>2, <3>4, <3>5 DEF CallInv
  <2>. QED BY <1>3, <2>2, <2>3, <2>4
<1>4. ASSUME Tick \/ UNCHANGED vars PROVE CallInv'
  <2>1. UNCHANGED <<low, pc, sent, work, attempt, got, refusals>>
    BY <1>4 DEF Tick, vars, thread
  <2>. QED BY <2>1 DEF CallInv, WalkFits
<1>. QED BY <1>1, <1>2, <1>3, <1>4 DEF Next, Step

\* A walk that does not say it was cut short has all there is, for any sizes
\* of collection and page and any limits (get_all).
THEOREM ShortWalksSaySo == Spec => []CompleteUnlessCut
<1>1. CallInv => CompleteUnlessCut
  BY DEF CallInv, WalkFits, CompleteUnlessCut
<1>. QED BY <1>1, CallInit, CallStep, PTL DEF Spec

-----------------------------------------------------------------------------
(***************************************************************************)
(* The throttle.                                                           *)
(***************************************************************************)
\* The requests of the last Window are the newest of those in ages, and the
\* others of these have just left the window.
Remembers(ages) ==
  LET old == Len(ages) - Len(made) IN
  /\ Len(made) <= Len(ages)
  /\ \A i \in 1..Len(made) : made[i] = ages[old + i]
  /\ \A i \in 1..old : ages[i] = Window

OldestFirst(ages) == \A i \in 1..Len(ages), j \in 1..Len(ages) : i <= j => ages[j] <= ages[i]

Holds(ages) ==
  /\ ages \in Seq(0..Window)
  /\ Remembers(ages)
  /\ OldestFirst(ages)
  /\ Len(ages) <= MinuteCap

\* What the thread with the lock sleeps for.
Sleeps(c) ==
  /\ pc[c] \in {"full", "space"} <=> lock = c
  /\ pc[c] = "full" => recent # <<>> /\ nap[c] + recent[1] >= Window
  /\ pc[c] = "space" => Len(recent) < MinuteCap

ThrottleInv ==
  /\ made \in Seq(0..Window - 1)
  /\ lock \in Threads \cup {NoThread}
  /\ pc = [c \in Threads |-> pc[c]]
  /\ nap \in [Threads -> Nat]
  /\ Holds(recent)
  /\ \A c \in Threads : Sleeps(c)

\* Popping from the left leaves just those below the age.
LEMMA YoungerAreLast ==
  ASSUME NEW ages \in Seq(Nat), OldestFirst(ages), NEW age \in Nat
  PROVE  \E n \in 0..Len(ages) :
           /\ Younger(ages, age) = SubSeq(ages, n + 1, Len(ages))
           /\ \A i \in 1..n : ages[i] >= age
           /\ \A i \in n + 1..Len(ages) : ages[i] < age
<1>. DEFINE kept == {i \in DOMAIN ages : ages[i] < age}
<1>1. /\ Len(ages) \in Nat /\ DOMAIN ages = 1..Len(ages)
      /\ \A i \in 1..Len(ages) : ages[i] \in Nat
  OBVIOUS
<1>2. CASE kept = {}
  <2>1. Younger(ages, age) = <<>>
    BY <1>2 DEF Younger
  <2>2. SubSeq(ages, Len(ages) + 1, Len(ages)) = <<>>
    BY <1>1, SubSeqEmpty
  <2>3. \A i \in 1..Len(ages) : ages[i] >= age
    BY <1>1, <1>2
  <2>. QED BY <1>1, <2>1, <2>2, <2>3
<1>3. CASE kept # {}
  <2>. DEFINE k == CHOOSE i \in kept : \A j \in kept : i <= j
  <2>1. kept \subseteq Nat
    BY <1>1
  <2>2. \E i \in kept : \A j \in kept : <<j, i>> \notin OpToRel(<, Nat)
    <3>. HIDE DEF kept
    <3>. QED BY <1>3, <2>1, NatLessThanWellFounded, WFMin
  <2>3. \E i \in kept : \A j \in kept : i <= j
    <3>1. PICK i \in kept : \A j \in kept : <<j, i>> \notin OpToRel(<, Nat)
      BY <2>2
    <3>2. ASSUME NEW j \in kept PROVE i <= j
      <4>1. ~(j < i)
        BY <2>1, <3>1, Zenon DEF OpToRel
      <4>2. i \in Nat /\ j \in Nat
        BY <2>1
      <4>. QED BY <4>1, <4>2
    <3>. QED BY <3>2
  <2>4. k \in kept /\ \A j \in kept : k <= j
    <3>. HIDE DEF kept
    <3>. QED BY <2>3, Zenon
  <2>5. Younger(ages, age) = SubSeq(ages, k, Len(ages))
    BY <1>3, Zenon DEF Younger
  <2>. HIDE DEF k
  <2>6. k \in 1..Len(ages) /\ ages[k] < age
    BY <1>1, <2>4
  <2>7. ASSUME NEW i \in 1..k - 1 PROVE ages[i] >= age
    <3>1. i \in DOMAIN ages /\ i \notin kept
      BY <1>1, <2>4, <2>6
    <3>. QED BY <1>1, <3>1
  <2>8. \A i \in k..Len(ages) : ages[i] < age
    BY <1>1, <2>6 DEF OldestFirst
  <2>9. k - 1 \in 0..Len(ages) /\ k - 1 + 1 = k
    BY <1>1, <2>6
  <2>. QED BY <2>5, <2>7, <2>8, <2>9
<1>. QED BY <1>2, <1>3

\* What eviction leaves is what was let through in the last Window.
LEMMA EvictedIsMade == ASSUME ThrottleInv PROVE Evicted(recent) = made /\ Holds(made)
<1>. DEFINE R == Len(recent)
            M == Len(made)
<1>1. /\ recent \in Seq(Nat) /\ made \in Seq(0..Window)
      /\ R \in Nat /\ M \in Nat /\ Window \in Nat
  BY ClientAssumption, SeqMonotonic, 0..Window \subseteq Nat, 0..Window - 1 \subseteq 0..Window
     DEF ThrottleInv, Holds
<1>9. /\ M <= R
      /\ \A i \in 1..M : made[i] = recent[R - M + i]
      /\ \A i \in 1..R - M : recent[i] = Window
  BY Zenon DEF ThrottleInv, Holds, Remembers
<1>10. /\ \A i \in 1..R : recent[i] \in 0..Window
      /\ \A i \in 1..M : made[i] < Window
  <2>1. recent \in Seq(0..Window) /\ made \in Seq(0..Window - 1)
    BY DEF ThrottleInv, Holds
  <2>2. \A i \in 1..M : made[i] \in 0..Window - 1
    BY <2>1, ElementOfSeq
  <2>. QED BY <2>1, <2>2, <1>1, ElementOfSeq
<1>2. PICK n \in 0..R :
        /\ Evicted(recent) = SubSeq(recent, n + 1, R)
        /\ \A i \in 1..n : recent[i] >= Window
        /\ \A i \in n + 1..R : recent[i] < Window
  BY <1>1, YoungerAreLast DEF Evicted, ThrottleInv, Holds
<1>. HIDE DEF R, M
<1>3. n = R - M
  <2>1. n < R - M => FALSE
    <3>. SUFFICES ASSUME n < R - M PROVE FALSE
      OBVIOUS
    <3>1. n + 1 \in 1..R - M /\ n + 1 \in n + 1..R
      BY <1>1
    <3>2. recent[n + 1] = Window
      BY <3>1, <1>9
    <3>3. recent[n + 1] < Window
      BY <3>1, <1>2
    <3>. QED BY <1>1, <3>2, <3>3
  <2>2. R - M < n => FALSE
    <3>. SUFFICES ASSUME R - M < n PROVE FALSE
      OBVIOUS
    <3>1. 1 \in 1..M /\ R - M + 1 \in 1..n
      BY <1>1, <1>9, <1>2
    <3>. QED BY <1>1, <1>9, <1>10, <1>2, <3>1
  <2>. QED BY <1>1, <2>1, <2>2
<1>4. /\ Evicted(recent) \in Seq(0..Window) /\ Len(Evicted(recent)) = M
      /\ \A i \in 1..M : Evicted(recent)[i] = recent[R - M + i]
  <2>1. \A i \in n + 1..R : recent[i] \in 0..Window
    BY <1>1, <1>10
  <2>2. /\ SubSeq(recent, n + 1, R) \in Seq(0..Window)
        /\ Len(SubSeq(recent, n + 1, R)) = IF n + 1 <= R THEN R - (n + 1) + 1 ELSE 0
        /\ \A i \in 1..R - (n + 1) + 1 : SubSeq(recent, n + 1, R)[i] = recent[n + 1 + i - 1]
    BY <1>1, <2>1, SubSeqProperties
  <2>. QED BY <1>1, <1>9, <1>2, <1>3, <2>2
<1>5. Evicted(recent) = made
  <2>1. \A i \in 1..M : Evicted(recent)[i] = made[i]
    BY <1>4, <1>9
  <2>. QED BY <1>1, <1>4, <2>1, SeqEqual DEF M
<1>6. Remembers(made) /\ M <= MinuteCap
  <2>1. R <= MinuteCap
    BY DEF R, ThrottleInv, Holds
  <2>. QED BY <1>1, <1>9, <2>1, ClientAssumption DEF Remembers, M
<1>7. OldestFirst(made)
  <2>. SUFFICES ASSUME NEW i \in 1..M, NEW j \in 1..M, i <= j PROVE made[j] <= made[i]
    BY DEF OldestFirst, M
  <2>1. R - M + i \in 1..R /\ R - M + j \in 1..R /\ R - M + i <= R - M + j
    BY <1>1, <1>9
  <2>2. recent[R - M + j] <= recent[R - M + i]
    BY <2>1 DEF ThrottleInv, Holds, OldestFirst, R
  <2>. QED BY <1>9, <2>2
<1>. QED BY <1>1, <1>5, <1>6, <1>7 DEF Holds, M

LEMMA ThrottleInit == ASSUME Init PROVE ThrottleInv
<1>1. recent = <<>> /\ made = <<>> /\ lock = NoThread
  BY DEF Init
<1>2. pc = [c \in Threads |-> "idle"] /\ nap = [c \in Threads |-> 0]
  BY DEF Init
<1>3. Holds(recent)
  BY <1>1, ClientAssumption DEF Holds, Remembers, OldestFirst
<1>4. \A c \in Threads : Sleeps(c)
  BY <1>1, <1>2, ClientAssumption DEF Sleeps
<1>. QED BY <1>1, <1>2, <1>3, <1>4 DEF ThrottleInv

\* A request goes through that leaves at most the cap.
LEMMA AdmitHolds ==
  ASSUME ThrottleInv, NEW c \in Threads, NEW ages, Holds(ages), Len(ages) < MinuteCap,
         lock \in {NoThread, c}, Admit(c, ages)
  PROVE  ThrottleInv'
<1>1. /\ recent' = Append(ages, 0) /\ made' = Append(made, 0) /\ lock' = NoThread
      /\ nap' = [nap EXCEPT ![c] = 0] /\ pc' = [pc EXCEPT ![c] = "send"]
  BY DEF Admit, Goto
<1>2. ages \in Seq(0..Window) /\ made \in Seq(0..Window - 1) /\ 0 \in 0..Window - 1
      /\ 0 \in 0..Window
  BY ClientAssumption DEF Holds, ThrottleInv
<1>. DEFINE A == Len(ages)
            M == Len(made)
<1>3. /\ recent' \in Seq(0..Window) /\ Len(recent') = A + 1
      /\ recent'[A + 1] = 0 /\ \A i \in 1..A : recent'[i] = ages[i]
  BY <1>1, <1>2, AppendProperties
<1>4. /\ made' \in Seq(0..Window - 1) /\ Len(made') = M + 1
      /\ made'[M + 1] = 0 /\ \A i \in 1..M : made'[i] = made[i]
  BY <1>1, <1>2, AppendProperties
<1>5. /\ M <= A /\ A \in Nat /\ M \in Nat /\ A < MinuteCap
      /\ \A i \in 1..M : made[i] = ages[A - M + i]
      /\ \A i \in 1..A - M : ages[i] = Window
  BY <1>2, Zenon, LenProperties DEF Holds, Remembers
<1>6. \A i \in 1..A : ages[i] \in 0..Window
  BY <1>2, ElementOfSeq
<1>7. \A i \in 1..A, j \in 1..A : i <= j => ages[j] <= ages[i]
  BY DEF Holds, OldestFirst
<1>. HIDE DEF A, M
<1>8. Remembers(recent)'
  <2>1. \A i \in 1..M + 1 : made'[i] = recent'[A - M + i]
    <3>. SUFFICES ASSUME NEW i \in 1..M + 1 PROVE made'[i] = recent'[A - M + i]
      OBVIOUS
    <3>1. CASE i = M + 1
      BY <1>3, <1>4, <1>5, <3>1
    <3>2. CASE i \in 1..M
      <4>1. A - M + i \in 1..A
        BY <1>5, <3>2
      <4>. QED BY <1>3, <1>4, <1>5, <3>2, <4>1
    <3>. QED BY <1>5, <3>1, <3>2
  <2>2. \A i \in 1..A - M : recent'[i] = Window
    <3>. SUFFICES ASSUME NEW i \in 1..A - M PROVE recent'[i] = Window
      OBVIOUS
    <3>1. i \in 1..A
      BY <1>5
    <3>. QED BY <1>3, <1>5, <3>1
  <2>3. Len(recent') - Len(made') = A - M /\ Len(made') <= Len(recent')
    BY <1>3, <1>4, <1>5
  <2>4. \A i \in 1..Len(made') : made'[i] = recent'[A - M + i]
    BY <1>4, <2>1
  <2>. QED BY <2>2, <2>3, <2>4, Zenon DEF Remembers
<1>9. OldestFirst(recent)'
  <2>. SUFFICES ASSUME NEW i \in 1..A + 1, NEW j \in 1..A + 1, i <= j
                PROVE  recent'[j] <= recent'[i]
    BY <1>3 DEF OldestFirst
  <2>1. recent'[i] \in 0..Window
    BY <1>3, ElementOfSeq
  <2>2. CASE j = A + 1
    BY <1>3, <2>1, <2>2
  <2>3. CASE j \in 1..A
    <3>1. i \in 1..A
      BY <1>5, <2>3
    <3>. QED BY <1>3, <1>7, <2>3, <3>1
  <2>. QED BY <1>5, <2>2, <2>3
<1>10. Holds(recent)'
  BY <1>3, <1>5, <1>8, <1>9, ClientAssumption DEF Holds
<1>11. \A d \in Threads : Sleeps(d)'
  BY <1>1, ClientAssumption DEF ThrottleInv, Sleeps
<1>. QED BY <1>1, <1>4, <1>10, <1>11, ClientAssumption DEF ThrottleInv

\* A thread goes to sleep for a reason.
LEMMA SleepHolds ==
  ASSUME ThrottleInv, NEW c \in Threads, NEW ages, Holds(ages), lock \in {NoThread, c},
         NEW time \in Nat, NEW label \in {"full", "space"}, Sleep(c, time, label, ages),
         label = "full" => ages # <<>> /\ time + ages[1] >= Window,
         label = "space" => Len(ages) < MinuteCap
  PROVE  ThrottleInv'
<1>1. /\ recent' = ages /\ made' = made /\ lock' = c
      /\ nap' = [nap EXCEPT ![c] = time] /\ pc' = [pc EXCEPT ![c] = label]
  BY DEF Sleep, Goto
<1>2. Holds(recent)'
  BY <1>1 DEF Holds, Remembers
<1>3. \A d \in Threads : Sleeps(d)'
  BY <1>1, ClientAssumption DEF ThrottleInv, Sleeps
<1>. QED BY <1>1, <1>2, <1>3 DEF ThrottleInv

\* Elsewhere in the client, the throttle is left alone.
LEMMA OutsideHolds ==
  ASSUME ThrottleInv, NEW c \in Threads, NEW label, UNCHANGED throttle,
         pc[c] \notin {"full", "space"}, label \notin {"full", "space"},
         pc' = [pc EXCEPT ![c] = label],
         nap' \in [Threads -> Nat], \A d \in Threads \ {c} : nap'[d] = nap[d]
  PROVE  ThrottleInv'
<1>1. Holds(recent)'
  BY DEF Holds, Remembers, ThrottleInv, throttle, OldestFirst
<1>2. \A d \in Threads : Sleeps(d)'
  BY DEF ThrottleInv, Sleeps, throttle
<1>. QED BY <1>1, <1>2 DEF ThrottleInv, throttle

\* Time passes: what leaves the window is a part of what the throttle remembers
\* of it, and a sleeper's oldest request has as long to go as the sleeper.
LEMMA TickHolds == ASSUME ThrottleInv, Tick PROVE ThrottleInv'
<1>. DEFINE R == Len(recent)
            M == Len(made)
            older == [i \in DOMAIN made |-> made[i] + 1]
<1>1. /\ recent \in Seq(0..Window) /\ made \in Seq(0..Window - 1) /\ R \in Nat /\ M \in Nat
      /\ DOMAIN recent = 1..R /\ DOMAIN made = 1..M /\ Window \in Nat \ {0}
  BY ClientAssumption DEF ThrottleInv, Holds
<1>2. /\ M <= R
      /\ \A i \in 1..M : made[i] = recent[R - M + i]
      /\ \A i \in 1..R - M : recent[i] = Window
  BY Zenon DEF ThrottleInv, Holds, Remembers
<1>3. /\ \A i \in 1..R : recent[i] \in 0..Window
      /\ \A i \in 1..M : made[i] \in 0..Window - 1
  BY <1>1, ElementOfSeq
<1>4. /\ made' = Younger(older, Window) /\ lock' = lock /\ pc' = pc
      /\ recent' = [i \in 1..R |-> Least(recent[i] + 1, Window)]
      /\ nap' = [c \in Threads |-> IF nap[c] = 0 THEN 0 ELSE nap[c] - 1]
  BY <1>1 DEF Tick
<1>5. older \in Seq(Nat) /\ Len(older) = M /\ \A i \in 1..M : older[i] = made[i] + 1
  BY <1>1, <1>3
<1>6. OldestFirst(older)
  <2>1. \A i \in 1..M, j \in 1..M : i <= j => made[j] <= made[i]
    BY EvictedIsMade DEF Holds, OldestFirst
  <2>. HIDE DEF older, M
  <2>2. \A i \in 1..M, j \in 1..M : i <= j => older[j] <= older[i]
    BY <2>1, <1>3, <1>5
  <2>. QED BY <2>2, <1>5 DEF OldestFirst
<1>. HIDE DEF older, R, M
<1>7. PICK n \in 0..M :
        /\ made' = SubSeq(older, n + 1, M)
        /\ \A i \in 1..n : older[i] >= Window
        /\ \A i \in n + 1..M : older[i] < Window
  BY <1>1, <1>4, <1>5, <1>6, YoungerAreLast
<1>8. /\ made' \in Seq(0..Window - 1) /\ Len(made') = M - n
      /\ \A i \in 1..M - n : made'[i] = older[n + i]
  <2>1. \A i \in n + 1..M : older[i] \in 0..Window - 1
    <3>. SUFFICES ASSUME NEW i \in n + 1..M PROVE older[i] \in 0..Window - 1
      OBVIOUS
    <3>1. i \in 1..M
      BY <1>1
    <3>2. older[i] = made[i] + 1 /\ made[i] \in 0..Window - 1 /\ older[i] < Window
      BY <1>3, <1>5, <1>7, <3>1
    <3>. QED BY <1>1, <3>2
  <2>2. /\ SubSeq(older, n + 1, M) \in Seq(0..Window - 1)
        /\ Len(SubSeq(older, n + 1, M)) = IF n + 1 <= M THEN M - (n + 1) + 1 ELSE 0
        /\ \A i \in 1..M - (n + 1) + 1 : SubSeq(older, n + 1, M)[i] = older[n + 1 + i - 1]
    BY <1>1, <2>1, SubSeqProperties
  <2>. QED BY <1>1, <1>7, <2>2
<1>9. /\ recent' \in Seq(0..Window) /\ Len(recent') = R
      /\ \A i \in 1..R : recent'[i] = Least(recent[i] + 1, Window)
  <2>1. \A i \in 1..R : Least(recent[i] + 1, Window) \in 0..Window
    BY <1>1, <1>3 DEF Least
  <2>. QED BY <1>1, <1>4, <2>1
<1>10. Remembers(recent)'
  <2>1. \A i \in 1..M - n : made'[i] = recent'[R - (M - n) + i]
    <3>. SUFFICES ASSUME NEW i \in 1..M - n PROVE made'[i] = recent'[R - (M - n) + i]
      OBVIOUS
    <3>1. /\ n + i \in 1..M /\ n + i \in n + 1..M
          /\ R - M + (n + i) \in 1..R /\ R - M + (n + i) = R - (M - n) + i
      BY <1>1, <1>2
    <3>2. made'[i] = made[n + i] + 1 /\ made[n + i] + 1 < Window
      BY <1>5, <1>7, <1>8, <3>1
    <3>3. made[n + i] = recent[R - M + (n + i)]
      BY <1>2, <3>1
    <3>4. recent'[R - M + (n + i)] = Least(recent[R - M + (n + i)] + 1, Window)
      BY <1>9, <3>1
    <3>5. Least(made[n + i] + 1, Window) = made[n + i] + 1
      BY <1>1, <1>3, <3>1, <3>2 DEF Least
    <3>. QED BY <3>1, <3>2, <3>3, <3>4, <3>5
  <2>2. \A i \in 1..R - (M - n) : recent'[i] = Window
    <3>. SUFFICES ASSUME NEW i \in 1..R - (M - n) PROVE recent'[i] = Window
      OBVIOUS
    <3>1. i \in 1..R /\ recent'[i] = Least(recent[i] + 1, Window)
      BY <1>1, <1>2, <1>9
    <3>2. CASE i \in 1..R - M
      <4>1. recent[i] = Window
        BY <1>2, <3>2
      <4>. QED BY <1>1, <3>1, <4>1 DEF Least
    <3>3. CASE i \notin 1..R - M
      <4>1. i - (R - M) \in 1..n /\ i - (R - M) \in 1..M /\ R - M + (i - (R - M)) = i
        BY <1>1, <1>2, <3>1, <3>3
      <4>2. made[i - (R - M)] + 1 >= Window
        BY <1>5, <1>7, <4>1
      <4>3. recent[i] = made[i - (R - M)]
        BY <1>2, <4>1
      <4>. QED BY <1>1, <1>3, <3>1, <4>1, <4>2, <4>3 DEF Least
    <3>. QED BY <3>2, <3>3
  <2>3. Len(recent') - Len(made') = R - (M - n) /\ Len(made') <= Len(recent')
    BY <1>1, <1>2, <1>8, <1>9
  <2>4. \A i \in 1..Len(made') : made'[i] = recent'[R - (M - n) + i]
    BY <1>8, <2>1
  <2>. QED BY <2>2, <2>3, <2>4, Zenon DEF Remembers
<1>11. OldestFirst(recent)'
  <2>1. \A i \in 1..R, j \in 1..R : i <= j => recent[j] <= recent[i]
    BY DEF ThrottleInv, Holds, OldestFirst, R
  <2>2. ASSUME NEW i \in 1..R, NEW j \in 1..R, i <= j PROVE recent'[j] <= recent'[i]
    <3>1. recent[j] <= recent[i] /\ recent[i] \in 0..Window /\ recent[j] \in 0..Window
      BY <1>3, <2>1, <2>2
    <3>2. /\ recent'[i] = Least(recent[i] + 1, Window)
          /\ recent'[j] = Least(recent[j] + 1, Window)
      BY <1>9
    <3>. QED BY <1>1, <3>1, <3>2 DEF Least
  <2>. QED BY <1>9, <2>2 DEF OldestFirst
<1>12. Holds(recent)'
  BY <1>9, <1>10, <1>11 DEF Holds, ThrottleInv, R
<1>13. nap' \in [Threads -> Nat]
  BY <1>4 DEF ThrottleInv
<1>14. \A c \in Threads : Sleeps(c)'
  <2>. SUFFICES ASSUME NEW c \in Threads PROVE Sleeps(c)'
    OBVIOUS
  <2>1. Sleeps(c) /\ nap[c] \in Nat /\ nap'[c] = IF nap[c] = 0 THEN 0 ELSE nap[c] - 1
    BY <1>4 DEF ThrottleInv
  <2>2. pc[c] = "full" => recent' # <<>> /\ nap'[c] + recent'[1] >= Window
    <3>. SUFFICES ASSUME pc[c] = "full" PROVE recent' # <<>> /\ nap'[c] + recent'[1] >= Window
      OBVIOUS
    <3>1. 1 \in 1..R /\ nap[c] + recent[1] >= Window
      BY <1>1, <2>1 DEF Sleeps, R
    <3>2. recent[1] \in 0..Window /\ recent'[1] = Least(recent[1] + 1, Window)
      BY <1>3, <1>9, <3>1
    <3>3. recent' # <<>>
      BY <1>1, <1>9, <3>1
    <3>. QED BY <1>1, <2>1, <3>1, <3>2, <3>3 DEF Least
  <2>. QED BY <1>4, <1>9, <2>1, <2>2 DEF Sleeps, R
<1>. QED BY <1>4, <1>8, <1>12, <1>13, <1>14 DEF ThrottleInv

LEMMA ThrottleStep == ASSUME ThrottleInv, CallInv, [Next]_vars PROVE ThrottleInv'
<1>1. /\ Len(made) \in Nat /\ Len(recent) \in Nat /\ Len(recent) <= MinuteCap
      /\ Len(made) <= MinuteCap /\ Evicted(recent) = made /\ Holds(made) /\ Holds(recent)
  BY EvictedIsMade DEF ThrottleInv, Holds
<1>2. ASSUME NEW c \in Threads, lock \in {NoThread, c}, Len(made) < MinuteCap, Proceed(c, made)
      PROVE  ThrottleInv'
  <2>1. CASE low
    BY <1>1, <1>2, <2>1, SleepHolds, ClientAssumption DEF Proceed
  <2>2. CASE ~low
    BY <1>1, <1>2, <2>2, AdmitHolds DEF Proceed
  <2>. QED BY <2>1, <2>2
<1>3. ASSUME NEW c \in Threads, Acquire(c) PROVE ThrottleInv'
  <2>1. CASE Len(made) >= MinuteCap
    <3>1. /\ lock = NoThread /\ Sleep(c, Window - made[1], "full", made)
      BY <1>1, <1>3, <2>1 DEF Acquire
    <3>2. made # <<>> /\ made[1] \in 0..Window - 1
      <4>1. made \in Seq(0..Window - 1)
        BY DEF ThrottleInv
      <4>2. 1 \in 1..Len(made)
        BY <1>1, <2>1, ClientAssumption
      <4>3. made[1] \in 0..Window - 1
        BY <4>1, <4>2, ElementOfSeq
      <4>4. made # <<>>
        BY <4>2
      <4>. QED BY <4>3, <4>4
    <3>3. Window - made[1] \in Nat /\ Window - made[1] + made[1] >= Window
      BY <3>2, ClientAssumption
    <3>. QED BY <1>1, <3>1, <3>2, <3>3, SleepHolds
  <2>2. CASE Len(made) < MinuteCap
    BY <1>1, <1>2, <1>3, <2>2, ClientAssumption DEF Acquire
  <2>. QED BY <1>1, <2>1, <2>2, ClientAssumption
<1>4. ASSUME NEW c \in Threads, WakeFull(c) PROVE ThrottleInv'
  <2>1. pc[c] = "full" /\ nap[c] = 0 /\ Proceed(c, made)
    BY <1>1, <1>4 DEF WakeFull
  <2>2. lock = c /\ recent # <<>> /\ 0 + recent[1] >= Window
    BY <2>1 DEF ThrottleInv, Sleeps
  <2>3. Len(made) < MinuteCap
    <3>1. CASE Len(made) = Len(recent)
      <4>1. 1 \in 1..Len(made) /\ made[1] = recent[Len(recent) - Len(made) + 1]
        BY <1>1, <2>2, <3>1 DEF Holds, Remembers
      <4>2. made[1] \in 0..Window - 1
        <5>1. made \in Seq(0..Window - 1)
          BY DEF ThrottleInv
        <5>. QED BY <4>1, <5>1, ElementOfSeq
      <4>. QED BY <1>1, <2>2, <3>1, <4>1, <4>2, ClientAssumption
    <3>2. CASE Len(made) # Len(recent)
      BY <1>1, <3>2, ClientAssumption DEF Holds, Remembers
    <3>. QED BY <3>1, <3>2
  <2>. QED BY <1>2, <2>1, <2>2, <2>3
<1>5. ASSUME NEW c \in Threads, WakeSpaced(c) PROVE ThrottleInv'
  <2>1. lock = c /\ Len(recent) < MinuteCap
    BY <1>5 DEF WakeSpaced, ThrottleInv, Sleeps
  <2>. QED BY <1>1, <1>5, <2>1, AdmitHolds DEF WakeSpaced
<1>6. ASSUME NEW c \in Threads,
             \/ Send(c) \/ Answer(c) \/ Invalidate(c) \/ Resume(c) \/ Continue(c) \/ Return(c)
             \/ \E w \in Work : Begin(c, w)
      PROVE  ThrottleInv'
  <2>1. /\ UNCHANGED throttle /\ pc[c] \notin {"full", "space"}
        /\ \E label : label \notin {"full", "space"} /\ pc' = [pc EXCEPT ![c] = label]
    <3>1. CASE Answer(c)
      BY <3>1 DEF Answer, Succeed, TimedOut, Busy, Rejected, Refused, Land, RetryOrRaise,
                  Again, Raise, Goto
    <3>. QED BY <1>6, <3>1 DEF Send, Invalidate, Resume, Continue, Return, Begin, Goto
  <2>2. nap' = nap \/ \E time \in Nat : nap' = [nap EXCEPT ![c] = time]
    <3>1. CASE Answer(c)
      BY <3>1, ClientAssumption DEF Answer, Succeed, TimedOut, Busy, Rejected, Refused,
                  RetryOrRaise, Again, Raise
    <3>. QED BY <1>6, <3>1, ClientAssumption DEF Send, Invalidate, Resume, Continue, Return, Begin
  <2>3. nap' \in [Threads -> Nat] /\ \A d \in Threads \ {c} : nap'[d] = nap[d]
    BY <2>2 DEF ThrottleInv
  <2>. QED BY <2>1, <2>3, OutsideHolds
<1>7. ASSUME UNCHANGED vars PROVE ThrottleInv'
  <2>1. UNCHANGED <<recent, made, lock, pc, nap>>
    BY <1>7 DEF vars, throttle
  <2>. QED BY <2>1 DEF ThrottleInv, Holds, Remembers, OldestFirst, Sleeps
<1>. QED BY <1>3, <1>4, <1>5, <1>6, <1>7, TickHolds DEF Next, Step

LEMMA ThrottleAlways == Spec => [](CallInv /\ ThrottleInv)
BY CallInit, CallStep, ThrottleInit, ThrottleStep, PTL DEF Spec

\* No more than MinuteCap requests go out in any Window, for any number of
\* threads: what is evicted is what has left the window, and a thread that
\* finds it full sleeps, with the lock, until there is room (Throttle.acquire).
THEOREM CapHolds == Spec => []MinuteCapHolds
<1>1. ThrottleInv => MinuteCapHolds
  BY EvictedIsMade DEF MinuteCapHolds, Holds
<1>. QED BY <1>1, ThrottleAlways, PTL

\* Type correctness: only a thread that sleeps in the throttle has its lock,
\* and no request is refused more than twice.
THEOREM TypeCorrect == Spec => []TypeOK
<1>1. FlightInv /\ CallInv /\ ThrottleInv => TypeOK
  BY DEF FlightInv, CallInv, ThrottleInv, Holds, Sleeps, TypeOK
<1>2. Spec => []FlightInv
  BY FlightInit, FlightStep, PTL DEF Spec
<1>. QED BY <1>1, <1>2, ThrottleAlways, PTL

=============================================================================
