CONSTANTS
  en = en  title = title  description = description  name = name  t1 = t1  t2 = t2
  Calls = {c1, c2}
  Locales = {en}
  Fields = {title, description, name}
  Owner <- Holders
  Texts = {t1, t2}
  Blank = Blank
  TooLong <- Limits
  Requests <- AllTools
  Listings <- Found
  MaxElsewhere = 1
  NoText = NoText
  NoPlan = NoPlan
  NoJob = NoJob
SYMMETRY Symmetry
SPECIFICATION Spec
INVARIANTS OnlyDeliberateBlanks DoneMeansSent
PROPERTIES PushedAsShown
