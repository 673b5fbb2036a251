CONSTANTS
  c1 = c1
  c2 = c2
  internal = internal
  production = production
  b1 = b1
  b2 = b2
  Tracks = {internal, production}
  Production = {production}
  Requested = 90
  NoFraction = NoFraction
  NoStatus = NoStatus
  Calls = {c1, c2}
  Builds = {b1, b2}
  Bundles = {b1}
  Published <- AllTracks
  Requests <- Working
  MaxElsewhere = 1
  Shares = {0, 10, 60}
  NoBuild = NoBuild
  NoRelease = NoRelease
  NoJob = NoJob
  NoEdit = NoEdit
SPECIFICATION Spec
SYMMETRY Symmetry
INVARIANTS TypeOK OneReleasePerBuild
PROPERTIES ShipsWhatWasShown StagedProduction HaltReachesTheRollout ImplementsRolloutContract
