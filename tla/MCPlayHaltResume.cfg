CONSTANTS
  c1 = c1
  c2 = c2
  internal = internal
  production = production
  b1 = b1
  b2 = b2
  Tracks = {internal, production}
  Production = {production}
  Requested = NoFraction
  NoFraction = NoFraction
  NoStatus = NoStatus
  Calls = {c1}
  Builds = {b1, b2}
  Bundles = {b1}
  Published <- OnlyMidRollout
  Requests <- HaltOnly
  MaxElsewhere = 0
  Shares = {0, 5, 10, 20, 50}
  NoBuild = NoBuild
  NoRelease = NoRelease
  NoJob = NoJob
  NoEdit = NoEdit
SPECIFICATION Spec
PROPERTY HaltIsRecoverable
