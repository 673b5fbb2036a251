CONSTANTS
  todo = todo  notes = notes  itodo = itodo  inotes = inotes
  Calls = {c1, c2}
  Writers = {c1}
  MaxKey = 17
  MaxName = 3
  Packages = {todo, notes}
  AppleIds = {itodo, inotes}
  NameOf <- SortsAs
  Pairings <- Calling
  Queries <- Asking
  KeysLike <- KeysBegin
  NamesLike <- NamesBegin
  IdsLike <- IdsBegin
  Apps <- OnTheStores
  Title <- Titles
  Slug <- Slugs
  Numbered <- KeyVariants
  IdsAlike <- Identifiers
  LooksAlike <- LookAlikes
  NamesAlike <- Names
  Minimum = 600
  NoId = NoId
  NoTarget = NoTarget
  NoJob = NoJob
SPECIFICATION Spec
INVARIANTS RegistryIsWhole PairedOnPurpose ActsOnThePairShown EveryAppOnce AcceptedAsProposed
