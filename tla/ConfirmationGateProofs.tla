---------------------- MODULE ConfirmationGateProofs ----------------------
(***************************************************************************)
(* Theorems about the confirmation gate, for every number of calls,        *)
(* processes, operations, keys and nonces.                                 *)
(***************************************************************************)
EXTENDS ConfirmationGate, TLAPS

\* c is at one of these labels, or will be once it has noted its warning.
At(c, labels) ==
  \/ pc[c] \in labels
  \/ pc[c] = "note" /\ resume[c] \in labels

\* From the moment the MAC was found to match.
Checked == {"now", "consume", "write", "admit", "mutate", "executed", "failed", "done"}

\* From the moment a token was handed in.
Presented == {"confirm", "check"} \cup Checked

\* What a call carries at each of its steps.
CallsWellFormed ==
  \A c \in Calls :
    /\ pc[c] # "idle" => op[c] \in Ops
    /\ pc[c] \in {"issue", "check"} => keyCache[ProcOf[c]] \in Keys
    /\ pc[c] = "storeKey" => resume[c] \in {"issue", "check"}
    /\ pc[c] = "storeKey" /\ resume[c] = "check" => tok[c] \in shown
    /\ pc[c] = "note" => resume[c] \in {"render", "raise", "admit", "mutate", "done"}
    /\ At(c, {"render"}) => tok[c] \in issued
    /\ At(c, Presented) => tok[c] \in shown
    /\ At(c, Checked) => tok[c].op = op[c]

PreviewsLogged ==
  "audit" \notin Faults => \A t \in issued : Line("preview", t.op, t) \in log

\* The inductive strengthening of TypeOK and MutationWasPreviewed.
BindingInv == TypeOK /\ CallsWellFormed /\ PreviewsLogged

\* A fresh installation has nothing bound.
LEMMA BindingInit == Init => BindingInv
BY GateAssumption, NoTokenAssumption
   DEF Init, BindingInv, TypeOK, CallsWellFormed, PreviewsLogged, At, Label, Checked, Presented

\* No step lets a call carry a token of another operation past the check.
LEMMA BindingNext == BindingInv /\ [Next]_vars => BindingInv'
<1> SUFFICES ASSUME BindingInv, [Next]_vars
             PROVE  BindingInv'
  OBVIOUS
<1> USE GateAssumption, NoTokenAssumption
    DEF BindingInv, TypeOK, Label, files, memory, locals, history, Goto
<1>1. ASSUME NEW c \in Calls, NEW o \in Ops, BeginPreview(c, o)
     PROVE  BindingInv'
  <2>1. TypeOK'
    BY <1>1 DEF BeginPreview, CallsWellFormed, At, Checked, Presented
  <2>2. CallsWellFormed'
    BY <1>1 DEF BeginPreview, CallsWellFormed, At, Checked, Presented
  <2>3. PreviewsLogged'
    BY <1>1 DEF BeginPreview, PreviewsLogged
  <2> QED BY <2>1, <2>2, <2>3
<1>2. ASSUME NEW c \in Calls, NEW o \in Ops, NEW t \in shown \cup {NoToken},
            BeginConfirm(c, o, t)
     PROVE  BindingInv'
  <2>1. TypeOK'
    BY <1>2 DEF BeginConfirm, CallsWellFormed, At, Checked, Presented
  <2>2. CallsWellFormed'
    BY <1>2 DEF BeginConfirm, CallsWellFormed, At, Checked, Presented
  <2>3. PreviewsLogged'
    BY <1>2 DEF BeginConfirm, PreviewsLogged
  <2> QED BY <2>1, <2>2, <2>3
<1>3. ASSUME NEW c \in Calls, UseCachedSecret(c)
     PROVE  BindingInv'
  <2>1. TypeOK'
    BY <1>3 DEF UseCachedSecret, NeedsSecret, Secret, AfterSecret, Free,
       CallsWellFormed, At, Checked, Presented
  <2>2. CallsWellFormed'
    BY <1>3 DEF UseCachedSecret, NeedsSecret, Secret, AfterSecret, Free,
       CallsWellFormed, At, Checked, Presented
  <2>3. PreviewsLogged'
    BY <1>3 DEF UseCachedSecret, NeedsSecret, Secret, AfterSecret, Free,
       PreviewsLogged
  <2> QED BY <2>1, <2>2, <2>3
<1>4. ASSUME NEW c \in Calls, LoadSecret(c)
     PROVE  BindingInv'
  <2>1. TypeOK'
    BY <1>4 DEF LoadSecret, NeedsSecret, Secret, AfterSecret, Free, CallsWellFormed,
       At, Checked, Presented
  <2>2. CallsWellFormed'
    BY <1>4 DEF LoadSecret, NeedsSecret, Secret, AfterSecret, Free, CallsWellFormed,
       At, Checked, Presented
  <2>3. PreviewsLogged'
    BY <1>4 DEF LoadSecret, NeedsSecret, Secret, AfterSecret, Free, PreviewsLogged
  <2> QED BY <2>1, <2>2, <2>3
<1>5. ASSUME NEW c \in Calls, CreateSecret(c)
     PROVE  BindingInv'
  <2>1. TypeOK'
    BY <1>5 DEF CreateSecret, NeedsSecret, Secret, AfterSecret, Free, Acquire,
       CallsWellFormed, At, Checked, Presented
  <2>2. CallsWellFormed'
    BY <1>5 DEF CreateSecret, NeedsSecret, Secret, AfterSecret, Free, Acquire,
       CallsWellFormed, At, Checked, Presented
  <2>3. PreviewsLogged'
    BY <1>5 DEF CreateSecret, NeedsSecret, Secret, AfterSecret, Free, Acquire,
       PreviewsLogged
  <2> QED BY <2>1, <2>2, <2>3
<1>6. ASSUME NEW c \in Calls, StoreSecret(c)
     PROVE  BindingInv'
  <2>1. TypeOK'
    BY <1>6 DEF StoreSecret, Secret, Release, CallsWellFormed, At, Checked,
       Presented
  <2>2. CallsWellFormed'
    BY <1>6 DEF StoreSecret, Secret, Release, CallsWellFormed, At, Checked,
       Presented
  <2>3. PreviewsLogged'
    BY <1>6 DEF StoreSecret, Secret, Release, PreviewsLogged
  <2> QED BY <2>1, <2>2, <2>3
<1>7. ASSUME NEW c \in Calls, IssueToken(c)
     PROVE  BindingInv'
  <2> DEFINE Minted(n) == [op |-> op[c], key |-> Secret(c),
                           expiry |-> ExpiryAt(now[c]), nonce |-> n]
  <2>1. PICK n \in Nonces :
          /\ issued' = issued \cup {Minted(n)}
          /\ tok' = [tok EXCEPT ![c] = Minted(n)]
          /\ Audit(c, {Line("preview", op[c], Minted(n))}, "render")
    BY <1>7 DEF IssueToken
  <2>2. Minted(n) \in Token
    BY <1>7 DEF IssueToken, CallsWellFormed, Secret, Token, Expiries, ExpiryAt
  <2>3. Line("preview", op[c], Minted(n)) \in LogLine
    BY <2>2, <1>7 DEF IssueToken, CallsWellFormed, Line, LogLine, Outcome
  <2>4. Minted(n).op = op[c]
    OBVIOUS
  <2> HIDE DEF Minted
  <2>5. TypeOK'
    BY <2>1, <2>2, <2>3, <1>7 DEF IssueToken, Audit
  <2>6. CallsWellFormed'
    BY <2>1, <1>7 DEF IssueToken, Audit, CallsWellFormed, At, Checked, Presented
  <2>7. PreviewsLogged'
    BY <2>1, <2>4, <1>7 DEF Audit, PreviewsLogged
  <2> QED BY <2>5, <2>6, <2>7
<1>8. ASSUME NEW c \in Calls, ReturnPreview(c)
     PROVE  BindingInv'
  <2>1. TypeOK'
    BY <1>8 DEF ReturnPreview, Return, Free, CallsWellFormed, At, Checked, Presented
  <2>2. CallsWellFormed'
    BY <1>8 DEF ReturnPreview, Return, Free, CallsWellFormed, At, Checked, Presented
  <2>3. PreviewsLogged'
    BY <1>8 DEF ReturnPreview, Return, Free, PreviewsLogged
  <2> QED BY <2>1, <2>2, <2>3
<1>9. ASSUME NEW c \in Calls, CheckToken(c)
     PROVE  BindingInv'
  <2>1. TypeOK'
    BY <1>9 DEF CheckToken, MacMatches, Secret, CallsWellFormed, At, Checked,
       Presented
  <2>2. CallsWellFormed'
    BY <1>9 DEF CheckToken, MacMatches, Secret, CallsWellFormed, At, Checked,
       Presented
  <2>3. PreviewsLogged'
    BY <1>9 DEF CheckToken, MacMatches, Secret, PreviewsLogged
  <2> QED BY <2>1, <2>2, <2>3
<1>10. ASSUME NEW c \in Calls, TakeNow(c)
     PROVE  BindingInv'
  <2>1. TypeOK'
    BY <1>10 DEF TakeNow, CallsWellFormed, At, Checked, Presented
  <2>2. CallsWellFormed'
    BY <1>10 DEF TakeNow, CallsWellFormed, At, Checked, Presented
  <2>3. PreviewsLogged'
    BY <1>10 DEF TakeNow, PreviewsLogged
  <2> QED BY <2>1, <2>2, <2>3
<1>11. ASSUME NEW c \in Calls, ReadLedger(c)
     PROVE  BindingInv'
  <2>1. TypeOK'
    BY <1>11 DEF ReadLedger, Acquire, Free, CallsWellFormed, At, Checked, Presented
  <2>2. CallsWellFormed'
    BY <1>11 DEF ReadLedger, Acquire, Free, CallsWellFormed, At, Checked, Presented
  <2>3. PreviewsLogged'
    BY <1>11 DEF ReadLedger, Acquire, Free, PreviewsLogged
  <2> QED BY <2>1, <2>2, <2>3
<1>12. ASSUME NEW c \in Calls, WriteLedger(c)
     PROVE  BindingInv'
  <2>1. TypeOK'
    BY <1>12 DEF WriteLedger, Release, NextLedger, Purged, Entry, LedgerEntry,
       Token, Expiries, CallsWellFormed, At, Checked, Presented
  <2>2. CallsWellFormed'
    BY <1>12 DEF WriteLedger, Release, NextLedger, Purged, Entry, LedgerEntry,
       Token, Expiries, CallsWellFormed, At, Checked, Presented
  <2>3. PreviewsLogged'
    BY <1>12 DEF WriteLedger, Release, NextLedger, Purged, Entry, LedgerEntry,
       Token, Expiries, PreviewsLogged
  <2> QED BY <2>1, <2>2, <2>3
<1>13. ASSUME NEW c \in Calls, FailLedger(c)
     PROVE  BindingInv'
  <2>1. TypeOK'
    BY <1>13 DEF FailLedger, Acquire, Free, CallsWellFormed, At, Checked, Presented
  <2>2. CallsWellFormed'
    BY <1>13 DEF FailLedger, Acquire, Free, CallsWellFormed, At, Checked, Presented
  <2>3. PreviewsLogged'
    BY <1>13 DEF FailLedger, Acquire, Free, PreviewsLogged
  <2> QED BY <2>1, <2>2, <2>3
<1>14. ASSUME NEW c \in Calls, Reject(c)
     PROVE  BindingInv'
  <2>1. TypeOK'
    BY <1>14 DEF Reject, Audit, CallsWellFormed, At, Checked, Presented
  <2>2. CallsWellFormed'
    BY <1>14 DEF Reject, Audit, CallsWellFormed, At, Checked, Presented
  <2>3. PreviewsLogged'
    BY <1>14 DEF Reject, Audit, PreviewsLogged
  <2> QED BY <2>1, <2>2, <2>3
<1>15. ASSUME NEW c \in Calls, Admit(c)
     PROVE  BindingInv'
  <2>1. TypeOK'
    BY <1>15 DEF Admit, Audit, Line, LogLine, Outcome, Token, CallsWellFormed, At,
       Checked, Presented
  <2>2. CallsWellFormed'
    BY <1>15 DEF Admit, Audit, Line, LogLine, Outcome, Token, CallsWellFormed, At,
       Checked, Presented
  <2>3. PreviewsLogged'
    BY <1>15 DEF Admit, Audit, Line, LogLine, Outcome, Token, PreviewsLogged
  <2> QED BY <2>1, <2>2, <2>3
<1>16. ASSUME NEW c \in Calls, Mutate(c)
     PROVE  BindingInv'
  <2>1. TypeOK'
    BY <1>16 DEF Mutate, CallsWellFormed, At, Checked, Presented
  <2>2. CallsWellFormed'
    BY <1>16 DEF Mutate, CallsWellFormed, At, Checked, Presented
  <2>3. PreviewsLogged'
    BY <1>16 DEF Mutate, PreviewsLogged
  <2> QED BY <2>1, <2>2, <2>3
<1>17. ASSUME NEW c \in Calls, RecordOutcome(c)
     PROVE  BindingInv'
  <2>0. Line(pc[c], op[c], tok[c]) \in LogLine
    BY <1>17 DEF RecordOutcome, CallsWellFormed, At, Checked, Presented, Line,
       LogLine, Outcome, Token
  <2>1. TypeOK'
    BY <2>0, <1>17 DEF RecordOutcome, Audit
  <2>2. CallsWellFormed'
    BY <1>17 DEF RecordOutcome, Audit, Line, LogLine, Outcome, Token,
       CallsWellFormed, At, Checked, Presented
  <2>3. PreviewsLogged'
    BY <1>17 DEF RecordOutcome, Audit, Line, LogLine, Outcome, Token, PreviewsLogged
  <2> QED BY <2>1, <2>2, <2>3
<1>18. ASSUME NEW c \in Calls, ReturnResult(c)
     PROVE  BindingInv'
  <2>1. TypeOK'
    BY <1>18 DEF ReturnResult, Return, Free, CallsWellFormed, At, Checked, Presented
  <2>2. CallsWellFormed'
    BY <1>18 DEF ReturnResult, Return, Free, CallsWellFormed, At, Checked, Presented
  <2>3. PreviewsLogged'
    BY <1>18 DEF ReturnResult, Return, Free, PreviewsLogged
  <2> QED BY <2>1, <2>2, <2>3
<1>19. ASSUME NEW c \in Calls, NoteWarning(c)
     PROVE  BindingInv'
  <2>1. TypeOK'
    BY <1>19 DEF NoteWarning, Free, CallsWellFormed, At, Checked, Presented
  <2>2. CallsWellFormed'
    BY <1>19 DEF NoteWarning, Free, CallsWellFormed, At, Checked, Presented
  <2>3. PreviewsLogged'
    BY <1>19 DEF NoteWarning, Free, PreviewsLogged
  <2> QED BY <2>1, <2>2, <2>3
<1>20. CASE Tick
  <2>1. TypeOK'
    BY <1>20 DEF Tick, CallsWellFormed, At, Checked, Presented
  <2>2. CallsWellFormed'
    BY <1>20 DEF Tick, CallsWellFormed, At, Checked, Presented
  <2>3. PreviewsLogged'
    BY <1>20 DEF Tick, PreviewsLogged
  <2> QED BY <2>1, <2>2, <2>3
<1>21. ASSUME NEW p \in Procs, Crash(p)
     PROVE  BindingInv'
  <2>1. TypeOK'
    BY <1>21 DEF Crash, Without, CallsWellFormed, At, Checked, Presented
  <2>2. CallsWellFormed'
    BY <1>21 DEF Crash, Without, CallsWellFormed, At, Checked, Presented
  <2>3. PreviewsLogged'
    BY <1>21 DEF Crash, Without, PreviewsLogged
  <2> QED BY <2>1, <2>2, <2>3
<1>22. CASE UNCHANGED vars
  <2>1. TypeOK'
    BY <1>22 DEF vars, CallsWellFormed, At, Checked, Presented
  <2>2. CallsWellFormed'
    BY <1>22 DEF vars, CallsWellFormed, At, Checked, Presented
  <2>3. PreviewsLogged'
    BY <1>22 DEF vars, PreviewsLogged
  <2> QED BY <2>1, <2>2, <2>3
<1> QED
  BY <1>1, <1>2, <1>3, <1>4, <1>5, <1>6, <1>7, <1>8, <1>9, <1>10, <1>11, <1>12,
     <1>13, <1>14, <1>15, <1>16, <1>17, <1>18, <1>19, <1>20, <1>21, <1>22 DEF Next,
     Begin, Step

\* The variables of every reachable state hold values of their types.
THEOREM TypeCorrect == Spec => []TypeOK
<1>1. BindingInv => TypeOK
  BY DEF BindingInv
<1> QED BY <1>1, BindingInit, BindingNext, PTL DEF Spec

\* G1-G3 of docs/SECURITY.md, for any number of processes sharing the state
\* directory and whatever fails or crashes: the write that runs is the one a
\* preview was returned for, under the token of that preview.
THEOREM WritesArePreviewed == Spec => []MutationWasPreviewed
<1>1. BindingInv => MutationWasPreviewed
  BY DEF BindingInv, CallsWellFormed, PreviewsLogged, MutationWasPreviewed,
         Mutating, Logged, At, Checked, Presented, TypeOK
<1> QED BY <1>1, BindingInit, BindingNext, PTL DEF Spec

-----------------------------------------------------------------------------
(***************************************************************************)
(* Replay protection, when one process owns the state directory.           *)
(***************************************************************************)
OneProcess == \A c, d \in Calls : ProcOf[c] = ProcOf[d]

NoncesUnique == \A t, u \in issued : t.nonce = u.nonce => t = u

AcceptedWereIssued ==
  \A n \in Nonces : accepted[n] > 0 => \E t \in issued : t.nonce = n

LockHeld ==
  \A c \in Calls : pc[c] \in {"write", "storeKey"} => lock[ProcOf[c]] = c

NowIsPast == \A c \in Calls : now[c] <= clock

\* What a call read under the lock is what it will replace.
SnapIsCurrent ==
  \A c \in Calls : pc[c] = "write" =>
    snap[c] = ledger /\ ~ SpentIn(ledger, tok[c])

\* The ledger's bookkeeping around one locked read-modify-write.
LedgerInv == NoncesUnique /\ AcceptedWereIssued /\ LockHeld /\ NowIsPast /\ SnapIsCurrent

\* The inductive strengthening of LiveTokenAcceptedOnce: a live token that was
\* accepted is in the ledger, so the next reader refuses it.
ReplayInv == BindingInv /\ LedgerInv /\ SpentStaysRecorded /\ LiveTokenAcceptedOnce

\* A fresh installation has spent nothing.
LEMMA ReplayInit == Init => ReplayInv
<1> SUFFICES ASSUME Init PROVE ReplayInv
  OBVIOUS
<1>1. LedgerInv
  BY DEF Init, LedgerInv, NoncesUnique, AcceptedWereIssued, LockHeld, NowIsPast,
     SnapIsCurrent
<1>2. SpentStaysRecorded /\ LiveTokenAcceptedOnce
  BY DEF Init, SpentStaysRecorded, LiveTokenAcceptedOnce
<1> QED BY <1>1, <1>2, BindingInit DEF ReplayInv

\* No step loses a live spent nonce or accepts one again.
LEMMA ReplayNext == ASSUME OneProcess PROVE ReplayInv /\ [Next]_vars => ReplayInv'
<1> SUFFICES ASSUME ReplayInv, [Next]_vars
             PROVE  LedgerInv' /\ SpentStaysRecorded' /\ LiveTokenAcceptedOnce'
  BY BindingNext DEF ReplayInv
<1> USE GateAssumption, NoTokenAssumption
    DEF ReplayInv, BindingInv, TypeOK, Label, files, memory, locals, history, Goto
<1> DEFINE Goal == LedgerInv' /\ SpentStaysRecorded' /\ LiveTokenAcceptedOnce'
<1>1. ASSUME NEW c \in Calls, NEW o \in Ops, BeginPreview(c, o)
     PROVE  Goal
  <2>1. LedgerInv'
    BY <1>1 DEF BeginPreview, LedgerInv, NoncesUnique, AcceptedWereIssued, LockHeld,
       NowIsPast, SnapIsCurrent, SpentIn
  <2>2. SpentStaysRecorded' /\ LiveTokenAcceptedOnce'
    BY <1>1 DEF BeginPreview, SpentStaysRecorded, LiveTokenAcceptedOnce
  <2> QED BY <2>1, <2>2
<1>2. ASSUME NEW c \in Calls, NEW o \in Ops, NEW t \in shown \cup {NoToken},
            BeginConfirm(c, o, t)
     PROVE  Goal
  <2>1. LedgerInv'
    BY <1>2 DEF BeginConfirm, LedgerInv, NoncesUnique, AcceptedWereIssued, LockHeld,
       NowIsPast, SnapIsCurrent, SpentIn
  <2>2. SpentStaysRecorded' /\ LiveTokenAcceptedOnce'
    BY <1>2 DEF BeginConfirm, SpentStaysRecorded, LiveTokenAcceptedOnce
  <2> QED BY <2>1, <2>2
<1>3. ASSUME NEW c \in Calls, UseCachedSecret(c)
     PROVE  Goal
  <2>1. LedgerInv'
    BY <1>3 DEF UseCachedSecret, NeedsSecret, Secret, AfterSecret, Free, LedgerInv,
       NoncesUnique, AcceptedWereIssued, LockHeld, NowIsPast, SnapIsCurrent, SpentIn
  <2>2. SpentStaysRecorded' /\ LiveTokenAcceptedOnce'
    BY <1>3 DEF UseCachedSecret, NeedsSecret, Secret, AfterSecret, Free,
       SpentStaysRecorded, LiveTokenAcceptedOnce
  <2> QED BY <2>1, <2>2
<1>4. ASSUME NEW c \in Calls, LoadSecret(c)
     PROVE  Goal
  <2>1. LedgerInv'
    BY <1>4 DEF LoadSecret, NeedsSecret, Secret, AfterSecret, Free, LedgerInv,
       NoncesUnique, AcceptedWereIssued, LockHeld, NowIsPast, SnapIsCurrent, SpentIn
  <2>2. SpentStaysRecorded' /\ LiveTokenAcceptedOnce'
    BY <1>4 DEF LoadSecret, NeedsSecret, Secret, AfterSecret, Free,
       SpentStaysRecorded, LiveTokenAcceptedOnce
  <2> QED BY <2>1, <2>2
<1>5. ASSUME NEW c \in Calls, CreateSecret(c)
     PROVE  Goal
  <2>1. LedgerInv'
    BY <1>5 DEF CreateSecret, NeedsSecret, Secret, AfterSecret, Free, Acquire,
       LedgerInv, NoncesUnique, AcceptedWereIssued, LockHeld, NowIsPast,
       SnapIsCurrent, SpentIn
  <2>2. SpentStaysRecorded' /\ LiveTokenAcceptedOnce'
    BY <1>5 DEF CreateSecret, NeedsSecret, Secret, AfterSecret, Free, Acquire,
       SpentStaysRecorded, LiveTokenAcceptedOnce
  <2> QED BY <2>1, <2>2
<1>6. ASSUME NEW c \in Calls, StoreSecret(c)
     PROVE  Goal
  <2>1. LedgerInv'
    BY <1>6 DEF StoreSecret, Secret, Release, CallsWellFormed, LedgerInv,
       NoncesUnique, AcceptedWereIssued, LockHeld, NowIsPast, SnapIsCurrent, SpentIn
  <2>2. SpentStaysRecorded' /\ LiveTokenAcceptedOnce'
    BY <1>6 DEF StoreSecret, Secret, Release, SpentStaysRecorded,
       LiveTokenAcceptedOnce
  <2> QED BY <2>1, <2>2
<1>7. ASSUME NEW c \in Calls, IssueToken(c)
     PROVE  Goal
  <2> DEFINE Minted(n) == [op |-> op[c], key |-> Secret(c),
                           expiry |-> ExpiryAt(now[c]), nonce |-> n]
  <2>1. PICK n \in Nonces \ {t.nonce : t \in issued} :
          /\ issued' = issued \cup {Minted(n)}
          /\ tok' = [tok EXCEPT ![c] = Minted(n)]
          /\ Audit(c, {Line("preview", op[c], Minted(n))}, "render")
    BY <1>7 DEF IssueToken
  <2>2. Minted(n).nonce = n
    OBVIOUS
  <2> HIDE DEF Minted
  <2>3. accepted[n] = 0
    BY <2>1 DEF LedgerInv, AcceptedWereIssued
  <2>4. LedgerInv'
    BY <2>1, <2>2, <1>7 DEF IssueToken, Audit, LedgerInv, NoncesUnique,
       AcceptedWereIssued, LockHeld, NowIsPast, SnapIsCurrent
  <2>5. SpentStaysRecorded' /\ LiveTokenAcceptedOnce'
    BY <2>1, <2>2, <2>3, <1>7 DEF IssueToken, SpentStaysRecorded,
       LiveTokenAcceptedOnce
  <2> QED BY <2>4, <2>5
<1>8. ASSUME NEW c \in Calls, ReturnPreview(c)
     PROVE  Goal
  <2>1. LedgerInv'
    BY <1>8 DEF ReturnPreview, Return, Free, LedgerInv, NoncesUnique,
       AcceptedWereIssued, LockHeld, NowIsPast, SnapIsCurrent, SpentIn
  <2>2. SpentStaysRecorded' /\ LiveTokenAcceptedOnce'
    BY <1>8 DEF ReturnPreview, Return, Free, SpentStaysRecorded,
       LiveTokenAcceptedOnce
  <2> QED BY <2>1, <2>2
<1>9. ASSUME NEW c \in Calls, CheckToken(c)
     PROVE  Goal
  <2>1. LedgerInv'
    BY <1>9 DEF CheckToken, MacMatches, Secret, LedgerInv, NoncesUnique,
       AcceptedWereIssued, LockHeld, NowIsPast, SnapIsCurrent, SpentIn
  <2>2. SpentStaysRecorded' /\ LiveTokenAcceptedOnce'
    BY <1>9 DEF CheckToken, MacMatches, Secret, SpentStaysRecorded,
       LiveTokenAcceptedOnce
  <2> QED BY <2>1, <2>2
<1>10. ASSUME NEW c \in Calls, TakeNow(c)
     PROVE  Goal
  <2>1. LedgerInv'
    BY <1>10 DEF TakeNow, LedgerInv, NoncesUnique, AcceptedWereIssued, LockHeld,
       NowIsPast, SnapIsCurrent, SpentIn
  <2>2. SpentStaysRecorded' /\ LiveTokenAcceptedOnce'
    BY <1>10 DEF TakeNow, SpentStaysRecorded, LiveTokenAcceptedOnce
  <2> QED BY <2>1, <2>2
<1>11. ASSUME NEW c \in Calls, ReadLedger(c)
     PROVE  Goal
  <2>1. LedgerInv'
    BY <1>11 DEF ReadLedger, Acquire, Free, LedgerInv, NoncesUnique,
       AcceptedWereIssued, LockHeld, NowIsPast, SnapIsCurrent, SpentIn
  <2>2. SpentStaysRecorded' /\ LiveTokenAcceptedOnce'
    BY <1>11 DEF ReadLedger, Acquire, Free, SpentStaysRecorded,
       LiveTokenAcceptedOnce
  <2> QED BY <2>1, <2>2
<1>12. ASSUME NEW c \in Calls, WriteLedger(c)
     PROVE  Goal
  <2>1. /\ tok[c] \in issued
        /\ tok[c] \in Token
        /\ tok[c].nonce \in Nonces
    BY <1>12 DEF WriteLedger, CallsWellFormed, At, Presented, Checked, Token
  <2>2. \A d \in Calls : d # c => pc[d] # "write" /\ pc'[d] # "write"
    BY <1>12 DEF WriteLedger, OneProcess, LedgerInv, LockHeld
  <2>3. /\ ~ SpentIn(ledger, tok[c])
        /\ ledger' = NextLedger(ledger, tok[c], now[c])
        /\ now[c] <= clock
    BY <1>12 DEF WriteLedger, LedgerInv, SnapIsCurrent, NowIsPast
  <2>4. NoncesUnique' /\ AcceptedWereIssued'
    BY <2>1, <1>12 DEF WriteLedger, LedgerInv, NoncesUnique, AcceptedWereIssued
  <2>5. LockHeld'
    BY <1>12 DEF WriteLedger, Release, LedgerInv, LockHeld
  <2>6. NowIsPast'
    BY <1>12 DEF WriteLedger, LedgerInv, NowIsPast
  <2>7. SnapIsCurrent'
    BY <2>2, <1>12 DEF WriteLedger, SnapIsCurrent
  <2>8. ASSUME NEW t \in issued, clock < t.expiry
        PROVE  /\ accepted'[t.nonce] > 0 => Entry(t) \in ledger'
               /\ accepted'[t.nonce] <= 1
    <3>1. CASE t = tok[c]
      <4>1. ~ accepted[t.nonce] > 0
        BY <2>3, <2>8, <3>1 DEF SpentStaysRecorded, SpentIn, Entry
      <4>2. accepted'[t.nonce] <= 1
        BY <2>1, <4>1, <3>1, <1>12 DEF WriteLedger
      <4>3. Entry(t) \in ledger'
        BY <2>3, <3>1 DEF NextLedger
      <4> QED BY <4>2, <4>3
    <3>2. CASE t # tok[c]
      <4>1. accepted'[t.nonce] = accepted[t.nonce]
        BY <2>1, <3>2, <1>12 DEF WriteLedger, LedgerInv, NoncesUnique, Token
      <4>2. accepted[t.nonce] <= 1
        BY <2>8 DEF LiveTokenAcceptedOnce
      <4>3. Entry(t) \in ledger => Entry(t) \in ledger'
        BY <2>3, <2>8 DEF NextLedger, Purged, Entry, Token, Expiries
      <4> QED BY <4>1, <4>2, <4>3, <2>8 DEF SpentStaysRecorded
    <3> QED BY <3>1, <3>2
  <2>9. SpentStaysRecorded' /\ LiveTokenAcceptedOnce'
    BY <2>8, <1>12 DEF WriteLedger, SpentStaysRecorded, LiveTokenAcceptedOnce, Entry
  <2> QED BY <2>4, <2>5, <2>6, <2>7, <2>9 DEF LedgerInv
<1>13. ASSUME NEW c \in Calls, FailLedger(c)
     PROVE  Goal
  <2>1. LedgerInv'
    BY <1>13 DEF FailLedger, Acquire, Free, LedgerInv, NoncesUnique,
       AcceptedWereIssued, LockHeld, NowIsPast, SnapIsCurrent, SpentIn
  <2>2. SpentStaysRecorded' /\ LiveTokenAcceptedOnce'
    BY <1>13 DEF FailLedger, Acquire, Free, SpentStaysRecorded,
       LiveTokenAcceptedOnce
  <2> QED BY <2>1, <2>2
<1>14. ASSUME NEW c \in Calls, Reject(c)
     PROVE  Goal
  <2>1. LedgerInv'
    BY <1>14 DEF Reject, Audit, LedgerInv, NoncesUnique, AcceptedWereIssued,
       LockHeld, NowIsPast, SnapIsCurrent, SpentIn
  <2>2. SpentStaysRecorded' /\ LiveTokenAcceptedOnce'
    BY <1>14 DEF Reject, Audit, SpentStaysRecorded, LiveTokenAcceptedOnce
  <2> QED BY <2>1, <2>2
<1>15. ASSUME NEW c \in Calls, Admit(c)
     PROVE  Goal
  <2>1. LedgerInv'
    BY <1>15 DEF Admit, Audit, Line, LogLine, Outcome, Token, LedgerInv,
       NoncesUnique, AcceptedWereIssued, LockHeld, NowIsPast, SnapIsCurrent, SpentIn
  <2>2. SpentStaysRecorded' /\ LiveTokenAcceptedOnce'
    BY <1>15 DEF Admit, Audit, Line, LogLine, Outcome, Token, SpentStaysRecorded,
       LiveTokenAcceptedOnce
  <2> QED BY <2>1, <2>2
<1>16. ASSUME NEW c \in Calls, Mutate(c)
     PROVE  Goal
  <2>1. LedgerInv'
    BY <1>16 DEF Mutate, LedgerInv, NoncesUnique, AcceptedWereIssued, LockHeld,
       NowIsPast, SnapIsCurrent, SpentIn
  <2>2. SpentStaysRecorded' /\ LiveTokenAcceptedOnce'
    BY <1>16 DEF Mutate, SpentStaysRecorded, LiveTokenAcceptedOnce
  <2> QED BY <2>1, <2>2
<1>17. ASSUME NEW c \in Calls, RecordOutcome(c)
     PROVE  Goal
  <2>1. LedgerInv'
    BY <1>17 DEF RecordOutcome, Audit, Line, LogLine, Outcome, Token, LedgerInv,
       NoncesUnique, AcceptedWereIssued, LockHeld, NowIsPast, SnapIsCurrent, SpentIn
  <2>2. SpentStaysRecorded' /\ LiveTokenAcceptedOnce'
    BY <1>17 DEF RecordOutcome, Audit, Line, LogLine, Outcome, Token,
       SpentStaysRecorded, LiveTokenAcceptedOnce
  <2> QED BY <2>1, <2>2
<1>18. ASSUME NEW c \in Calls, ReturnResult(c)
     PROVE  Goal
  <2>1. LedgerInv'
    BY <1>18 DEF ReturnResult, Return, Free, LedgerInv, NoncesUnique,
       AcceptedWereIssued, LockHeld, NowIsPast, SnapIsCurrent, SpentIn
  <2>2. SpentStaysRecorded' /\ LiveTokenAcceptedOnce'
    BY <1>18 DEF ReturnResult, Return, Free, SpentStaysRecorded,
       LiveTokenAcceptedOnce
  <2> QED BY <2>1, <2>2
<1>19. ASSUME NEW c \in Calls, NoteWarning(c)
     PROVE  Goal
  <2>1. LedgerInv'
    BY <1>19 DEF NoteWarning, Free, CallsWellFormed, LedgerInv, NoncesUnique,
       AcceptedWereIssued, LockHeld, NowIsPast, SnapIsCurrent, SpentIn
  <2>2. SpentStaysRecorded' /\ LiveTokenAcceptedOnce'
    BY <1>19 DEF NoteWarning, Free, SpentStaysRecorded, LiveTokenAcceptedOnce
  <2> QED BY <2>1, <2>2
<1>20. ASSUME Tick PROVE Goal
  <2>1. LedgerInv'
    BY <1>20 DEF Tick, LedgerInv, NoncesUnique, AcceptedWereIssued, LockHeld,
       NowIsPast, SnapIsCurrent, SpentIn
  <2>2. SpentStaysRecorded' /\ LiveTokenAcceptedOnce'
    BY <1>20 DEF Tick, Token, Expiries, SpentStaysRecorded, LiveTokenAcceptedOnce
  <2> QED BY <2>1, <2>2
<1>21. ASSUME NEW p \in Procs, Crash(p)
     PROVE  Goal
  <2>1. LedgerInv'
    BY <1>21 DEF Crash, Without, LedgerInv, NoncesUnique, AcceptedWereIssued,
       LockHeld, NowIsPast, SnapIsCurrent, SpentIn
  <2>2. SpentStaysRecorded' /\ LiveTokenAcceptedOnce'
    BY <1>21 DEF Crash, Without, SpentStaysRecorded, LiveTokenAcceptedOnce
  <2> QED BY <2>1, <2>2
<1>22. ASSUME UNCHANGED vars PROVE Goal
  <2>1. LedgerInv'
    BY <1>22 DEF vars, LedgerInv, NoncesUnique, AcceptedWereIssued, LockHeld,
       NowIsPast, SnapIsCurrent, SpentIn
  <2>2. SpentStaysRecorded' /\ LiveTokenAcceptedOnce'
    BY <1>22 DEF vars, SpentStaysRecorded, LiveTokenAcceptedOnce
  <2> QED BY <2>1, <2>2
<1> QED
  BY <1>1, <1>2, <1>3, <1>4, <1>5, <1>6, <1>7, <1>8, <1>9, <1>10, <1>11, <1>12,
     <1>13, <1>14, <1>15, <1>16, <1>17, <1>18, <1>19, <1>20, <1>21, <1>22 DEF Next,
     Begin, Step

\* G4 of docs/SECURITY.md, as far as it goes: with one process, and whatever
\* crashes or fails, no token is accepted twice before its expiry second.
THEOREM LiveTokensNotReplayed ==
  ASSUME OneProcess PROVE Spec => []LiveTokenAcceptedOnce
<1>1. ReplayInv => LiveTokenAcceptedOnce
  BY DEF ReplayInv
<1> QED BY <1>1, ReplayInit, ReplayNext, PTL DEF Spec

\* A spent approval is in the ledger file for as long as it could be
\* presented, across crashes: with one process no purge or rewrite loses it.
THEOREM SpentTokensRecorded ==
  ASSUME OneProcess PROVE Spec => []SpentStaysRecorded
<1>1. ReplayInv => SpentStaysRecorded
  BY DEF ReplayInv
<1> QED BY <1>1, ReplayInit, ReplayNext, PTL DEF Spec

-----------------------------------------------------------------------------
(***************************************************************************)
(* The audit log accounts for every write.                                 *)
(***************************************************************************)
\* Every step that reaches the write, or its end, has logged or warned.
LEMMA AccountedNext ==
  BindingInv /\ WritesAreAccounted /\ [Next]_vars => WritesAreAccounted'
<1> SUFFICES ASSUME BindingInv, WritesAreAccounted, [Next]_vars
             PROVE  WritesAreAccounted'
  OBVIOUS
<1> USE GateAssumption
    DEF BindingInv, TypeOK, Label, files, memory, locals, history, Goto,
        WritesAreAccounted, Mutating, Logged
<1>1. ASSUME NEW c \in Calls, NEW o \in Ops, BeginPreview(c, o)
     PROVE  WritesAreAccounted'
  BY <1>1 DEF BeginPreview
<1>2. ASSUME NEW c \in Calls, NEW o \in Ops, NEW t \in shown \cup {NoToken},
            BeginConfirm(c, o, t)
     PROVE  WritesAreAccounted'
  BY <1>2 DEF BeginConfirm
<1>3. ASSUME NEW c \in Calls, UseCachedSecret(c)
     PROVE  WritesAreAccounted'
  BY <1>3 DEF UseCachedSecret, NeedsSecret, AfterSecret
<1>4. ASSUME NEW c \in Calls, LoadSecret(c)
     PROVE  WritesAreAccounted'
  BY <1>4 DEF LoadSecret, NeedsSecret, AfterSecret
<1>5. ASSUME NEW c \in Calls, CreateSecret(c)
     PROVE  WritesAreAccounted'
  BY <1>5 DEF CreateSecret, NeedsSecret, Acquire, AfterSecret
<1>6. ASSUME NEW c \in Calls, StoreSecret(c)
     PROVE  WritesAreAccounted'
  BY <1>6 DEF StoreSecret, Release, CallsWellFormed
<1>7. ASSUME NEW c \in Calls, IssueToken(c)
     PROVE  WritesAreAccounted'
  BY <1>7 DEF IssueToken, Audit
<1>8. ASSUME NEW c \in Calls, ReturnPreview(c)
     PROVE  WritesAreAccounted'
  BY <1>8 DEF ReturnPreview, Return
<1>9. ASSUME NEW c \in Calls, CheckToken(c)
     PROVE  WritesAreAccounted'
  BY <1>9 DEF CheckToken
<1>10. ASSUME NEW c \in Calls, TakeNow(c)
     PROVE  WritesAreAccounted'
  BY <1>10 DEF TakeNow
<1>11. ASSUME NEW c \in Calls, ReadLedger(c)
     PROVE  WritesAreAccounted'
  BY <1>11 DEF ReadLedger, Acquire
<1>12. ASSUME NEW c \in Calls, WriteLedger(c)
     PROVE  WritesAreAccounted'
  BY <1>12 DEF WriteLedger, Release
<1>13. ASSUME NEW c \in Calls, FailLedger(c)
     PROVE  WritesAreAccounted'
  BY <1>13 DEF FailLedger, Acquire
<1>14. ASSUME NEW c \in Calls, Reject(c)
     PROVE  WritesAreAccounted'
  BY <1>14 DEF Reject, Audit
<1>15. ASSUME NEW c \in Calls, Admit(c)
     PROVE  WritesAreAccounted'
  BY <1>15 DEF Admit, Audit
<1>16. ASSUME NEW c \in Calls, Mutate(c)
     PROVE  WritesAreAccounted'
  BY <1>16 DEF Mutate
<1>17. ASSUME NEW c \in Calls, RecordOutcome(c)
     PROVE  WritesAreAccounted'
  BY <1>17 DEF RecordOutcome, Audit
<1>18. ASSUME NEW c \in Calls, ReturnResult(c)
     PROVE  WritesAreAccounted'
  BY <1>18 DEF ReturnResult, Return
<1>19. ASSUME NEW c \in Calls, NoteWarning(c)
     PROVE  WritesAreAccounted'
  BY <1>19 DEF NoteWarning, CallsWellFormed
<1>20. ASSUME NEW p \in Procs, Crash(p)
     PROVE  WritesAreAccounted'
  BY <1>20 DEF Crash, Without
<1>21. ASSUME Tick \/ UNCHANGED vars PROVE WritesAreAccounted'
  BY <1>21 DEF Tick, vars
<1> QED
  BY <1>1, <1>2, <1>3, <1>4, <1>5, <1>6, <1>7, <1>8, <1>9, <1>10, <1>11, <1>12,
     <1>13, <1>14, <1>15, <1>16, <1>17, <1>18, <1>19, <1>20, <1>21 DEF Next, Begin,
     Step

\* G8 of docs/SECURITY.md, for any number of processes and whatever fails or
\* crashes: no write starts unlogged, nor reports success unlogged, silently.
THEOREM WritesAccounted == Spec => []WritesAreAccounted
<1>1. Init => WritesAreAccounted
  BY DEF Init, WritesAreAccounted, Mutating
<1> QED BY <1>1, AccountedNext, BindingInit, BindingNext, PTL DEF Spec

-----------------------------------------------------------------------------
(***************************************************************************)
(* The key on disk.                                                        *)
(***************************************************************************)
\* A key is drawn only while none is stored, and then it is the only one.
KeyInv ==
  /\ \A c \in Calls : pc[c] = "storeKey" => keyFile = NoKey
  /\ \A p \in Procs : keyCache[p] # NoKey => keyFile = keyCache[p]
  /\ \A t \in issued : t.key = keyFile

\* No step replaces a stored key.
LEMMA KeyNext ==
  ASSUME OneProcess, "key" \notin Faults
  PROVE  ReplayInv /\ KeyInv /\ [Next]_vars => KeyInv'
<1> SUFFICES ASSUME ReplayInv, KeyInv, [Next]_vars
             PROVE  KeyInv'
  OBVIOUS
<1> USE GateAssumption
    DEF ReplayInv, BindingInv, TypeOK, Label, files, memory, locals, history, Goto,
        KeyInv
<1>1. ASSUME NEW c \in Calls, NEW o \in Ops, BeginPreview(c, o)
     PROVE  KeyInv'
  BY <1>1 DEF BeginPreview
<1>2. ASSUME NEW c \in Calls, NEW o \in Ops, NEW t \in shown \cup {NoToken},
            BeginConfirm(c, o, t)
     PROVE  KeyInv'
  BY <1>2 DEF BeginConfirm
<1>3. ASSUME NEW c \in Calls, UseCachedSecret(c)
     PROVE  KeyInv'
  BY <1>3 DEF UseCachedSecret, NeedsSecret, Secret, AfterSecret, Free, OneProcess,
     LedgerInv, LockHeld, Token
<1>4. ASSUME NEW c \in Calls, LoadSecret(c)
     PROVE  KeyInv'
  BY <1>4 DEF LoadSecret, NeedsSecret, Secret, AfterSecret, Free, OneProcess,
     LedgerInv, LockHeld, Token
<1>5. ASSUME NEW c \in Calls, CreateSecret(c)
     PROVE  KeyInv'
  BY <1>5 DEF CreateSecret, NeedsSecret, Secret, AfterSecret, Free, Acquire,
     OneProcess, LedgerInv, LockHeld, Token
<1>6. ASSUME NEW c \in Calls, StoreSecret(c)
     PROVE  KeyInv'
  BY <1>6 DEF StoreSecret, Secret, Release, CallsWellFormed, OneProcess, LedgerInv,
     LockHeld, Token
<1>7. ASSUME NEW c \in Calls, IssueToken(c)
     PROVE  KeyInv'
  BY <1>7 DEF IssueToken, Audit, Secret, CallsWellFormed
<1>8. ASSUME NEW c \in Calls, ReturnPreview(c)
     PROVE  KeyInv'
  BY <1>8 DEF ReturnPreview, Return, Free
<1>9. ASSUME NEW c \in Calls, CheckToken(c)
     PROVE  KeyInv'
  BY <1>9 DEF CheckToken, Secret
<1>10. ASSUME NEW c \in Calls, TakeNow(c)
     PROVE  KeyInv'
  BY <1>10 DEF TakeNow
<1>11. ASSUME NEW c \in Calls, ReadLedger(c)
     PROVE  KeyInv'
  BY <1>11 DEF ReadLedger, Acquire, Free
<1>12. ASSUME NEW c \in Calls, WriteLedger(c)
     PROVE  KeyInv'
  BY <1>12 DEF WriteLedger, Release
<1>13. ASSUME NEW c \in Calls, FailLedger(c)
     PROVE  KeyInv'
  BY <1>13 DEF FailLedger, Acquire, Free
<1>14. ASSUME NEW c \in Calls, Reject(c)
     PROVE  KeyInv'
  BY <1>14 DEF Reject, Audit
<1>15. ASSUME NEW c \in Calls, Admit(c)
     PROVE  KeyInv'
  BY <1>15 DEF Admit, Audit
<1>16. ASSUME NEW c \in Calls, Mutate(c)
     PROVE  KeyInv'
  BY <1>16 DEF Mutate
<1>17. ASSUME NEW c \in Calls, RecordOutcome(c)
     PROVE  KeyInv'
  BY <1>17 DEF RecordOutcome, Audit
<1>18. ASSUME NEW c \in Calls, ReturnResult(c)
     PROVE  KeyInv'
  BY <1>18 DEF ReturnResult, Return, Free
<1>19. ASSUME NEW c \in Calls, NoteWarning(c)
     PROVE  KeyInv'
  BY <1>19 DEF NoteWarning, Free, CallsWellFormed
<1>20. ASSUME NEW p \in Procs, Crash(p)
     PROVE  KeyInv'
  BY <1>20 DEF Crash, Without
<1>21. ASSUME Tick \/ UNCHANGED vars PROVE KeyInv'
  BY <1>21 DEF Tick, vars
<1> QED
  BY <1>1, <1>2, <1>3, <1>4, <1>5, <1>6, <1>7, <1>8, <1>9, <1>10, <1>11, <1>12,
     <1>13, <1>14, <1>15, <1>16, <1>17, <1>18, <1>19, <1>20, <1>21 DEF Next, Begin,
     Step

\* With one process and a key file that can be read and written, the key that
\* signed a shown preview is the stored one: a restart does not void it.
THEOREM ApprovalsSurvive ==
  ASSUME OneProcess, "key" \notin Faults
  PROVE  Spec => []ApprovalSurvivesRestart
<1>1. Init => KeyInv
  BY DEF Init, KeyInv
<1>2. ReplayInv /\ KeyInv => ApprovalSurvivesRestart
  BY DEF ReplayInv, BindingInv, TypeOK, KeyInv, ApprovalSurvivesRestart
<1> QED BY <1>1, <1>2, KeyNext, ReplayInit, ReplayNext, PTL DEF Spec

-----------------------------------------------------------------------------
(***************************************************************************)
(* The gate keeps the contract.                                            *)
(***************************************************************************)
\* Every step is one of the contract, or changes nothing it sees.
LEMMA ContractStep ==
  ASSUME OneProcess
  PROVE  ReplayInv /\ [Next]_vars => [Contract!Next]_(Contract!vars)
<1> SUFFICES ASSUME ReplayInv, [Next]_vars
             PROVE  Contract!Next \/ UNCHANGED Contract!vars
  BY DEF Contract!Next, Contract!vars
<1> USE GateAssumption
    DEF ReplayInv, BindingInv, TypeOK, files, memory, locals, history, Contract!vars
<1>1. ASSUME NEW c \in Calls, ReturnPreview(c)
      PROVE  Contract!Next \/ UNCHANGED Contract!vars
  <2>1. tok[c] \in Token /\ shown' = shown \cup {tok[c]}
    BY <1>1 DEF ReturnPreview, CallsWellFormed, At
  <2>2. UNCHANGED <<clock, accepted>>
    BY <1>1 DEF ReturnPreview
  <2> QED BY <2>1, <2>2 DEF Contract!Next, Contract!Offer
<1>2. ASSUME NEW c \in Calls, WriteLedger(c)
      PROVE  Contract!Next
  <2>1. tok[c] \in shown /\ tok[c] \in Token
    BY <1>2 DEF WriteLedger, CallsWellFormed, At, Presented, Checked
  <2>2. tok[c].nonce \in Nonces /\ accepted[tok[c].nonce] \in Nat /\ tok[c].expiry \in Int
    BY <2>1 DEF Token, Expiries
  <2>3. accepted[tok[c].nonce] = 0 \/ clock >= tok[c].expiry
    <3>1. Entry(tok[c]) \notin ledger
      BY <1>2 DEF WriteLedger, LedgerInv, SnapIsCurrent, SpentIn, Entry
    <3>2. tok[c] \in issued
      BY <2>1
    <3>3. accepted[tok[c].nonce] > 0 => ~ clock < tok[c].expiry
      BY <3>1, <3>2 DEF SpentStaysRecorded
    <3> QED BY <3>3, <2>2
  <2>4. /\ accepted' = [accepted EXCEPT ![tok[c].nonce] = @ + 1]
        /\ UNCHANGED <<clock, shown>>
    BY <1>2 DEF WriteLedger
  <2>5. Contract!Use(tok[c])
    BY <2>1, <2>3, <2>4 DEF Contract!Use, NonceOf, ExpiryOf
  <2> QED BY <2>1, <2>5 DEF Contract!Next
<1>3. ASSUME Tick PROVE Contract!Next
  BY <1>3 DEF Tick, Contract!Next, Contract!Tick
<1>4. ASSUME NEW c \in Calls, Begin(c) \/ Step(c), ~ ReturnPreview(c), ~ WriteLedger(c)
      PROVE  UNCHANGED Contract!vars
  BY <1>4 DEF Begin, Step, BeginPreview, BeginConfirm, UseCachedSecret, LoadSecret,
     CreateSecret, StoreSecret, IssueToken, CheckToken, TakeNow, ReadLedger, FailLedger,
     Reject, Admit, Mutate, RecordOutcome, ReturnResult, NoteWarning
<1>5. ASSUME NEW p \in Procs, Crash(p)
      PROVE  UNCHANGED Contract!vars
  BY <1>5 DEF Crash
<1>6. CASE UNCHANGED vars
  BY <1>6 DEF vars
<1> QED
  BY <1>1, <1>2, <1>3, <1>4, <1>5, <1>6 DEF Next

\* With one process, whatever crashes or fails, the gate implements the
\* approval contract: it is all a client of the gate may rely on.
THEOREM GateImplementsContract ==
  ASSUME OneProcess PROVE Spec => ImplementsContract
<1>1. Init => Contract!Init
  BY DEF Init, Contract!Init
<1> QED
  BY <1>1, ContractStep, ReplayInit, ReplayNext, PTL DEF Spec, ImplementsContract,
     Contract!Spec

=============================================================================
