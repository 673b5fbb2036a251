\* Fair scheduling, no crash, a working ledger; the audit log and the key file may fail: calls come back.
CONSTANTS
  p1 = p1  p2 = p2  c1 = c1  c2 = c2  k1 = k1  k2 = k2
  NoCall = NoCall  NoKey = NoKey  NoOp = NoOp  NoToken = NoToken
  Procs = {p1}
  Calls = {c1, c2}
  ProcOf <- OneProcess
  Ops = {o1}
  Keys = {k1}
  Nonces = {n1}
  TTL = 1
  MaxClock = 1
  MaxCrashes = 0
  Faults = {"audit", "key"}
SPECIFICATION FairSpec
INVARIANTS WritesAreAccounted
PROPERTIES EveryCallReturns
