CONSTANTS
  c1 = c1
  c2 = c2
  v1 = v1
  v2 = v2
  n1 = n1
  n2 = n2
  Calls = {c1, c2}
  Codes = {v1, v2}
  Texts = {n1, n2}
  Requests <- Asked
  MaxBuild = 2
  MaxElsewhere = 1
  NoCode = NoCode
  NoText = NoText
  NoToken = NoToken
  NoJob = NoJob
  NoEdit = NoEdit
  NoAnswer = NoAnswer
SPECIFICATION Spec
SYMMETRY Symmetry
INVARIANTS TypeOK AnswerIsTrue
PROPERTIES AppleFollowsPlay NotesReachTheBuildShown
