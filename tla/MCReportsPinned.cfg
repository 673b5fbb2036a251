SPECIFICATION Spec
SYMMETRY Alike
CONSTANTS
  c1 = c1
  c2 = c2
  Calls = {c1, c2}
  Kinds = {"earnings"}
  End = 0
  Lag <- Lags
  Claimed <- Claims
  MaxDay = 4
  Candidates = 2
INVARIANTS
  PlayCompleteIsTrue
