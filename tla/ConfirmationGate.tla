-------------------------- MODULE ConfirmationGate --------------------------
(***************************************************************************)
(* The two-step confirmation gate of core/guards.py, through which every   *)
(* guarded store write passes.                                             *)
(*                                                                         *)
(* A preview call mints a token: an HMAC, under the installation's key, of *)
(* the operation's fingerprint, an expiry and a nonce.  A confirm call     *)
(* brings a token back, has it checked, burns its nonce in a ledger file   *)
(* and only then runs the mutation.  Calls run on threads of one or more   *)
(* server processes that share a state directory holding the key file, the *)
(* ledger and the audit log.  Each process has one non-reentrant lock.     *)
(*                                                                         *)
(* Abstractions.  A fingerprint is the operation itself (SHA-256 of its    *)
(* canonical form is taken to be injective).  A MAC is the triple it       *)
(* covers together with the key, so a token that was never issued does not *)
(* verify; malformed tokens are refused on the same path as NoToken.  Time *)
(* counts whole seconds, clock = s standing for the instants s <= t < s+1: *)
(* int(time.time()) is clock, and time.time() > expiry is clock >= expiry, *)
(* the one instant t = expiry being counted as expired.                    *)
(***************************************************************************)
EXTENDS Integers, FiniteSets

CONSTANTS
  Procs,       \* server processes sharing one state directory
  Calls,       \* in-flight tool calls (worker threads)
  ProcOf,      \* the process a call runs in
  Ops,         \* operations, identified by their fingerprint
  Keys,        \* values secrets.token_bytes may draw for the HMAC key
  Nonces,      \* values secrets.token_hex may draw; bounds the tokens issued
  TTL,         \* ttl_seconds
  MaxClock,    \* bound on the clock
  MaxCrashes,  \* bound on process crashes
  Faults,      \* which state files may fail: subset of {"ledger", "audit", "key"}
  NoCall,      \* the lock is free
  NoKey,       \* no key cached, or no usable key in the file
  NoOp,        \* the arguments of a call that is not running
  NoToken      \* confirm=True without a usable confirmation_token

ASSUME GateAssumption ==
  /\ ProcOf \in [Calls -> Procs]
  /\ TTL \in Nat
  /\ MaxClock \in Nat
  /\ MaxCrashes \in Nat
  /\ Faults \subseteq {"ledger", "audit", "key"}
  /\ NoCall \notin Calls
  /\ NoKey \notin Keys
  /\ NoOp \notin Ops

Expiries == 0..(MaxClock + TTL)

Token == [op : Ops, key : Keys, expiry : Expiries, nonce : Nonces]

ASSUME NoTokenAssumption == NoToken \notin Token

Entry(t) == [nonce |-> t.nonce, expiry |-> t.expiry]
LedgerEntry == [nonce : Nonces, expiry : Expiries]

Outcome == {"preview", "confirmed", "executed", "failed"}

\* Where a call stands; every label but "idle" names its next step.
Label == {"idle", "preview", "issue", "render", "confirm", "check", "now",
          "consume", "write", "reject", "admit", "mutate", "executed",
          "failed", "done", "raise", "storeKey", "note"}

VARIABLES
  clock,     \* wall-clock time, in seconds
  keyFile,   \* guard.key: a key, or NoKey while absent, truncated or too short
  ledger,    \* guard-nonces.json: the entries of spent nonces
  log,       \* audit.log: the lines appended, those of rejections left out
  keyCache,  \* _SECRET_CACHE of each process
  lock,      \* holder of each process's _lock
  warned,    \* whether _warnings of each process is non-empty
  pc,        \* next step of each call
  op,        \* the operation a call asks for
  tok,       \* the token a call carries
  now,       \* the clock as a call read it before it waits for the lock
  snap,      \* the ledger as a call read it under the lock
  resume,    \* where a call goes on after "note" or "storeKey"
  issued,    \* history: tokens minted
  shown,     \* tokens whose preview was returned to the client
  accepted,  \* history: how often each nonce was accepted by _consume_nonce
  crashes    \* crashes so far

files == <<keyFile, ledger, log>>
memory == <<keyCache, lock, warned>>
locals == <<op, tok, now, snap>>
history == <<issued, shown, accepted>>
vars == <<clock, files, memory, pc, resume, locals, history, crashes>>

LogLine == [outcome : Outcome, op : Ops, tok : Token]

Line(outcome, o, t) == [outcome |-> outcome, op |-> o, tok |-> t]

\* f as it is once the calls of process p are gone and hold d instead.
Without(f, p, d) == [c \in Calls |-> IF ProcOf[c] = p THEN d ELSE f[c]]

Goto(c, label) == pc' = [pc EXCEPT ![c] = label]

\* The call is over and its arguments with it.
Return(c) ==
  /\ Goto(c, "idle")
  /\ op' = [op EXCEPT ![c] = NoOp]
  /\ tok' = [tok EXCEPT ![c] = NoToken]

Free(c) == lock[ProcOf[c]] = NoCall

Acquire(c) == lock' = [lock EXCEPT ![ProcOf[c]] = c]

Mutant_KeepLock(c) == UNCHANGED lock

Release(c) == lock' = [lock EXCEPT ![ProcOf[c]] = NoCall]

(***************************************************************************)
(* audit() appends lines and never raises.  When the file cannot be        *)
(* written it notes a warning instead, for which it needs the lock.        *)
(***************************************************************************)
Audit(c, lines, next) ==
  \/ /\ log' = log \cup lines
     /\ Goto(c, next)
     /\ UNCHANGED resume
  \/ /\ "audit" \in Faults
     /\ Goto(c, "note")
     /\ resume' = [resume EXCEPT ![c] = next]
     /\ UNCHANGED log

(***************************************************************************)
(* _note_warning takes _lock.  A caller that already holds it waits for    *)
(* itself: threading.Lock is not reentrant.                                *)
(***************************************************************************)
NoteWarning(c) ==
  /\ pc[c] = "note"
  /\ Free(c)
  /\ warned' = [warned EXCEPT ![ProcOf[c]] = TRUE]
  /\ Goto(c, resume[c])
  /\ resume' = [resume EXCEPT ![c] = "idle"]
  /\ UNCHANGED <<clock, files, keyCache, lock, locals, history, crashes>>

-----------------------------------------------------------------------------
(***************************************************************************)
(* _guard_secret: both legs need the key before anything else.  Once       *)
(* cached it stays the process's key until the process ends.               *)
(***************************************************************************)
AfterSecret == [preview |-> "issue", confirm |-> "check"]

Secret(c) == keyCache[ProcOf[c]]

NeedsSecret(c) == pc[c] \in {"preview", "confirm"} /\ Free(c)

UseCachedSecret(c) ==
  /\ NeedsSecret(c)
  /\ Secret(c) # NoKey
  /\ Goto(c, AfterSecret[pc[c]])
  /\ UNCHANGED <<clock, files, memory, resume, locals, history, crashes>>

LoadSecret(c) ==
  /\ NeedsSecret(c)
  /\ Secret(c) = NoKey
  /\ keyFile # NoKey
  /\ keyCache' = [keyCache EXCEPT ![ProcOf[c]] = keyFile]
  /\ Goto(c, AfterSecret[pc[c]])
  /\ UNCHANGED <<clock, files, lock, warned, resume, locals, history, crashes>>

\* Without a usable key the file is created, or truncated, for writing.  A
\* read error counts as no key; failing to open the file is passed over.
CreateSecret(c) ==
  /\ NeedsSecret(c)
  /\ Secret(c) = NoKey
  /\ keyFile = NoKey \/ "key" \in Faults
  /\ Acquire(c)
  /\ \/ keyFile' = NoKey
     \/ "key" \in Faults /\ UNCHANGED keyFile
  /\ Goto(c, "storeKey")
  /\ resume' = [resume EXCEPT ![c] = AfterSecret[pc[c]]]
  /\ UNCHANGED <<clock, ledger, log, keyCache, warned, locals, history, crashes>>

Mutant_KeyInMemoryOnly(c) ==
  /\ pc[c] = "storeKey"
  /\ \E k \in Keys : keyCache' = [keyCache EXCEPT ![ProcOf[c]] = k]
  /\ Release(c)
  /\ Goto(c, resume[c])
  /\ resume' = [resume EXCEPT ![c] = "idle"]
  /\ UNCHANGED <<clock, files, warned, locals, history, crashes>>

\* The drawn key reaches the file, or stays this process's own.
StoreSecret(c) ==
  /\ pc[c] = "storeKey"
  /\ \E k \in Keys :
       /\ keyCache' = [keyCache EXCEPT ![ProcOf[c]] = k]
       /\ \/ keyFile' = k
          \/ "key" \in Faults /\ UNCHANGED keyFile
  /\ Release(c)
  /\ Goto(c, resume[c])
  /\ resume' = [resume EXCEPT ![c] = "idle"]
  /\ UNCHANGED <<clock, ledger, log, warned, locals, history, crashes>>

-----------------------------------------------------------------------------
(***************************************************************************)
(* The preview leg of require_confirmation.                                *)
(***************************************************************************)
Previewing == {c \in Calls : \/ pc[c] \in {"preview", "issue"}
                             \/ pc[c] = "storeKey" /\ resume[c] = "issue"}

\* The tool has built its preview and enters issue_token, which fixes the
\* expiry before it asks for the key.  Bounded by the supply of nonces.
BeginPreview(c, o) ==
  /\ pc[c] = "idle"
  /\ Cardinality(issued) + Cardinality(Previewing) < Cardinality(Nonces)
  /\ op' = [op EXCEPT ![c] = o]
  /\ tok' = [tok EXCEPT ![c] = NoToken]
  /\ now' = [now EXCEPT ![c] = clock]
  /\ Goto(c, "preview")
  /\ UNCHANGED <<clock, files, memory, resume, snap, history, crashes>>

Mutant_LateExpiry(second) == second + TTL + 1

ExpiryAt(second) == second + TTL

\* issue_token, then the audit line of the preview.
IssueToken(c) ==
  /\ pc[c] = "issue"
  /\ \E n \in Nonces \ {t.nonce : t \in issued} :
       LET t == [op |-> op[c], key |-> Secret(c),
                 expiry |-> ExpiryAt(now[c]), nonce |-> n]
       IN  /\ issued' = issued \cup {t}
           /\ tok' = [tok EXCEPT ![c] = t]
           /\ Audit(c, {Line("preview", op[c], t)}, "render")
  /\ now' = [now EXCEPT ![c] = 0]
  /\ UNCHANGED <<clock, keyFile, ledger, memory, op, snap, shown,
                 accepted, crashes>>

\* Preview.render asks audit_warning for the banner, then the call returns.
ReturnPreview(c) ==
  /\ pc[c] = "render"
  /\ Free(c)
  /\ shown' = shown \cup {tok[c]}
  /\ Return(c)
  /\ UNCHANGED <<clock, files, memory, resume, now, snap, issued, accepted, crashes>>

-----------------------------------------------------------------------------
(***************************************************************************)
(* The confirm leg: verify_token, _consume_nonce, the audit line and the   *)
(* mutation inside audit_execution.  The client may bring any token it was *)
(* shown, with any arguments.                                              *)
(***************************************************************************)
BeginConfirm(c, o, t) ==
  /\ pc[c] = "idle"
  /\ op' = [op EXCEPT ![c] = o]
  /\ tok' = [tok EXCEPT ![c] = t]
  /\ Goto(c, IF t = NoToken THEN "reject" ELSE "confirm")
  /\ UNCHANGED <<clock, files, memory, resume, now, snap, history, crashes>>

Mutant_KeyOnlyMac(c) == tok[c].key = Secret(c)

MacMatches(c) == tok[c].op = op[c] /\ tok[c].key = Secret(c)

CheckToken(c) ==
  /\ pc[c] = "check"
  /\ Goto(c, IF MacMatches(c) /\ clock < tok[c].expiry THEN "now" ELSE "reject")
  /\ UNCHANGED <<clock, files, memory, resume, locals, history, crashes>>

\* _consume_nonce reads the clock before it waits for the lock.
TakeNow(c) ==
  /\ pc[c] = "now"
  /\ now' = [now EXCEPT ![c] = clock]
  /\ Goto(c, "consume")
  /\ UNCHANGED <<clock, files, memory, resume, op, tok, snap, history, crashes>>

SpentIn(entries, t) == \E e \in entries : e.nonce = t.nonce

Mutant_PurgedEarly(entries, second) == {e \in entries : e.expiry > second + 1}

\* The purge keeps what has not expired.
Purged(entries, second) == {e \in entries : e.expiry > second}

Mutant_NewestOnly(entries, t, second) == {Entry(t)}

NextLedger(entries, t, second) == Purged(entries, second) \cup {Entry(t)}

ReadLedger(c) ==
  /\ pc[c] = "consume"
  /\ Free(c)
  /\ IF SpentIn(ledger, tok[c])
       THEN /\ now' = [now EXCEPT ![c] = 0]
            /\ Goto(c, "reject")
            /\ UNCHANGED <<lock, snap>>
       ELSE /\ Acquire(c)
            /\ snap' = [snap EXCEPT ![c] = ledger]
            /\ Goto(c, "write")
            /\ UNCHANGED now
  /\ UNCHANGED <<clock, files, keyCache, warned, resume, op, tok, history, crashes>>

WriteLedger(c) ==
  /\ pc[c] = "write"
  /\ ledger' = NextLedger(snap[c], tok[c], now[c])
  /\ accepted' = [accepted EXCEPT ![tok[c].nonce] = @ + 1]
  /\ snap' = [snap EXCEPT ![c] = {}]
  /\ now' = [now EXCEPT ![c] = 0]
  /\ Release(c)
  /\ Goto(c, "admit")
  /\ UNCHANGED <<clock, keyFile, log, keyCache, warned, resume, op, tok, issued, shown, crashes>>

\* The read or the write raised OSError or ValueError: the handler runs
\* before the with-block of _lock is left, and notes a warning.
FailLedger(c) ==
  /\ "ledger" \in Faults
  /\ \/ pc[c] = "consume" /\ Free(c)
     \/ pc[c] = "write"
  /\ Acquire(c)
  /\ Goto(c, "note")
  /\ resume' = [resume EXCEPT ![c] = "admit"]
  /\ UNCHANGED <<clock, files, keyCache, warned, locals, history, crashes>>

Reject(c) ==
  /\ pc[c] = "reject"
  /\ Audit(c, {}, "raise")
  /\ UNCHANGED <<clock, keyFile, ledger, memory, locals, history, crashes>>

Mutant_AdmitUnlogged(c) ==
  /\ pc[c] = "admit"
  /\ Goto(c, "mutate")
  /\ UNCHANGED <<clock, files, memory, resume, locals, history, crashes>>

Admit(c) ==
  /\ pc[c] = "admit"
  /\ Audit(c, {Line("confirmed", op[c], tok[c])}, "mutate")
  /\ UNCHANGED <<clock, keyFile, ledger, memory, locals, history, crashes>>

\* The store write itself; raising is how it reports failure.
Mutate(c) ==
  /\ pc[c] = "mutate"
  /\ \E outcome \in {"executed", "failed"} : Goto(c, outcome)
  /\ UNCHANGED <<clock, files, memory, resume, locals, history, crashes>>

\* audit_execution records how the mutation ended; a failure re-raises.
RecordOutcome(c) ==
  /\ pc[c] \in {"executed", "failed"}
  /\ Audit(c, {Line(pc[c], op[c], tok[c])},
              IF pc[c] = "executed" THEN "done" ELSE "raise")
  /\ UNCHANGED <<clock, keyFile, ledger, memory, locals, history, crashes>>

\* A result carries append_warning's banner, read under the lock; an error
\* is raised without it.
ReturnResult(c) ==
  /\ pc[c] = "raise" \/ (pc[c] = "done" /\ Free(c))
  /\ Return(c)
  /\ UNCHANGED <<clock, files, memory, resume, now, snap, history, crashes>>

-----------------------------------------------------------------------------
Tick ==
  /\ clock < MaxClock
  /\ clock' = clock + 1
  /\ UNCHANGED <<files, memory, pc, resume, locals, history, crashes>>

\* A process dies and is started again: its calls, its cached key, its lock
\* and its warnings are gone; the files stay as they are.
Crash(p) ==
  /\ crashes < MaxCrashes
  /\ crashes' = crashes + 1
  /\ keyCache' = [keyCache EXCEPT ![p] = NoKey]
  /\ lock' = [lock EXCEPT ![p] = NoCall]
  /\ warned' = [warned EXCEPT ![p] = FALSE]
  /\ pc' = Without(pc, p, "idle")
  /\ op' = Without(op, p, NoOp)
  /\ tok' = Without(tok, p, NoToken)
  /\ now' = Without(now, p, 0)
  /\ snap' = Without(snap, p, {})
  /\ resume' = Without(resume, p, "idle")
  /\ UNCHANGED <<clock, files, history>>

Init ==
  /\ clock = 0
  /\ keyFile = NoKey
  /\ ledger = {}
  /\ log = {}
  /\ keyCache = [p \in Procs |-> NoKey]
  /\ lock = [p \in Procs |-> NoCall]
  /\ warned = [p \in Procs |-> FALSE]
  /\ pc = [c \in Calls |-> "idle"]
  /\ op = [c \in Calls |-> NoOp]
  /\ tok = [c \in Calls |-> NoToken]
  /\ now = [c \in Calls |-> 0]
  /\ snap = [c \in Calls |-> {}]
  /\ resume = [c \in Calls |-> "idle"]
  /\ issued = {}
  /\ shown = {}
  /\ accepted = [n \in Nonces |-> 0]
  /\ crashes = 0

Begin(c) ==
  \E o \in Ops :
    \/ BeginPreview(c, o)
    \/ \E t \in shown \cup {NoToken} : BeginConfirm(c, o, t)

Step(c) ==
  \/ UseCachedSecret(c) \/ LoadSecret(c) \/ CreateSecret(c) \/ StoreSecret(c)
  \/ IssueToken(c) \/ ReturnPreview(c)
  \/ CheckToken(c) \/ TakeNow(c) \/ ReadLedger(c) \/ WriteLedger(c) \/ FailLedger(c)
  \/ Reject(c) \/ Admit(c) \/ Mutate(c) \/ RecordOutcome(c) \/ ReturnResult(c)
  \/ NoteWarning(c)

Next ==
  \/ \E c \in Calls : Begin(c) \/ Step(c)
  \/ Tick
  \/ \E p \in Procs : Crash(p)

Spec == Init /\ [][Next]_vars

\* A running thread is never abandoned by the scheduler.  Starting a call,
\* the passing of time and crashes are nobody's duty.
FairSpec == Spec /\ \A c \in Calls : WF_vars(Step(c))

-----------------------------------------------------------------------------
(***************************************************************************)
(* Properties.                                                             *)
(***************************************************************************)
\* Every variable holds a value of its type (the state of core/guards.py).
TypeOK ==
  /\ clock \in 0..MaxClock
  /\ keyFile \in Keys \cup {NoKey}
  /\ ledger \subseteq LedgerEntry
  /\ log \subseteq LogLine
  /\ keyCache \in [Procs -> Keys \cup {NoKey}]
  /\ lock \in [Procs -> Calls \cup {NoCall}]
  /\ warned \in [Procs -> BOOLEAN]
  /\ pc \in [Calls -> Label]
  /\ op \in [Calls -> Ops \cup {NoOp}]
  /\ tok \in [Calls -> Token \cup {NoToken}]
  /\ now \in [Calls -> 0..MaxClock]
  /\ snap \in [Calls -> SUBSET LedgerEntry]
  /\ resume \in [Calls -> Label]
  /\ issued \subseteq Token
  /\ shown \subseteq issued
  /\ accepted \in [Nonces -> Nat]
  /\ crashes \in Nat

\* The mutation of c is about to run, or has run and is being recorded.
Mutating(c) == pc[c] \in {"mutate", "executed", "failed"}

Logged(c, outcome) == Line(outcome, op[c], tok[c]) \in log

\* G1-G3 of docs/SECURITY.md: a write only ever runs with a token that some
\* preview call returned for that very operation, and (when the log can be
\* written) the log holds the line of that preview.  Holds for any number of
\* processes, restarts and failures.
MutationWasPreviewed ==
  \A c \in Calls : Mutating(c) =>
    /\ tok[c] \in shown
    /\ tok[c].op = op[c]
    /\ "audit" \notin Faults => Logged(c, "preview")

\* G8 of docs/SECURITY.md: no write runs before its "confirmed" line is in the
\* log, and none reports success before its "executed" line is, unless the
\* process carries the warning that bookkeeping is degraded.
WritesAreAccounted ==
  \A c \in Calls :
    /\ Mutating(c) => Logged(c, "confirmed") \/ warned[ProcOf[c]]
    /\ pc[c] = "done" => Logged(c, "executed") \/ warned[ProcOf[c]]

\* The replay protection _consume_nonce gives when one process owns the state
\* directory: until its expiry second begins, a token is accepted at most once,
\* whatever the interleaving of calls and crashes.
LiveTokenAcceptedOnce ==
  \A t \in issued : clock < t.expiry => accepted[t.nonce] <= 1

\* An approval that was spent stays in the ledger file while it could still be
\* presented: neither the purge nor a crash between two steps loses it.
SpentStaysRecorded ==
  \A t \in issued :
    accepted[t.nonce] > 0 /\ clock < t.expiry => Entry(t) \in ledger

\* The gate keeps the contract of ApprovalContract: an approval is offered when
\* its preview returns, and used when _consume_nonce accepts its nonce.
ExpiryOf(t) == t.expiry

NonceOf(t) == t.nonce

Contract == INSTANCE ApprovalContract WITH
  Approvals <- Token, Expiry <- ExpiryOf, Nonce <- NonceOf,
  offered <- shown, uses <- accepted

\* With one process, every step of the gate is a step of the contract.
ImplementsContract == Contract!Spec

\* A preview shown before a restart can be confirmed after it: the key that
\* signed it is the one the next process will load.
ApprovalSurvivesRestart == \A t \in shown : keyFile = t.key

\* Every call that a client makes comes back to it.
EveryCallReturns == \A c \in Calls : pc[c] # "idle" ~> pc[c] = "idle"

\* What _consume_nonce's docstring says of a ledger that cannot be persisted:
\* the operation is still allowed through.
AllowedThrough == \A c \in Calls : pc[c] = "write" ~> pc[c] = "admit"

=============================================================================
