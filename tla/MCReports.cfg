SPECIFICATION Spec
SYMMETRY Alike
CONSTANTS
  c1 = c1
  c2 = c2
  Calls = {c1, c2}
  Kinds = {"daily", "monthly", "stats", "earnings"}
  End = 0
  Lag <- Lags
  Claimed <- Claims
  MaxDay = 3
  Candidates = 2
INVARIANTS
  DailyKeptIsFinal
  AnswerIsRecent
  SalesCompleteIsTrue
