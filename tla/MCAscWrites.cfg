CONSTANTS
  c1 = c1
  c2 = c2
  t1 = t1
  t2 = t2
  Calls = {c1, c2}
  Texts = {t1, t2}
  Requests <- Asked
  MaxVersion = 2
  MaxElsewhere = 1
  Empty = Empty
  Unset = Unset
  NoReply = NoReply
  NoVersion = NoVersion
  NoToken = NoToken
  NoJob = NoJob
  NoAnswer = NoAnswer
SPECIFICATION Spec
SYMMETRY Symmetry
INVARIANT LogIsTrue
PROPERTIES WritesLandOnTheVersionShown SubmittedAsPrechecked SubmittedPhased ReplacementIsAnnounced
