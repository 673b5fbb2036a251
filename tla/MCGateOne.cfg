\* One process, two worker threads, one crash, a ledger that may fail.
CONSTANTS
  p1 = p1  p2 = p2  c1 = c1  c2 = c2  k1 = k1  k2 = k2
  NoCall = NoCall  NoKey = NoKey  NoOp = NoOp  NoToken = NoToken
  Procs = {p1}
  Calls = {c1, c2}
  ProcOf <- OneProcess
  Ops = {o1, o2}
  Keys = {k1}
  Nonces = {n1, n2}
  TTL = 2
  MaxClock = 3
  MaxCrashes = 1
  Faults = {"ledger"}
\* A call that fails on the ledger never moves again, and both may.
CHECK_DEADLOCK FALSE
SYMMETRY Symmetry
SPECIFICATION Spec
INVARIANTS TypeOK MutationWasPreviewed LiveTokenAcceptedOnce SpentStaysRecorded ApprovalSurvivesRestart
PROPERTIES ImplementsContract
