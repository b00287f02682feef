\* A handler beside the start-up goroutine, two lamps, a restart.
SPECIFICATION Spec
CONSTANTS
  h1 = h1
  h2 = h2
  l1 = l1
  l2 = l2
  Boot = Boot
  Account = Account
  None = None
  Missing = Missing
  Blank = Blank
  Torn = Torn
  Handler = {h1}
  Lamp = {l1, l2}
  MaxAnswers = 3
  MaxRestarts = 1
SYMMETRY Symmetry
INVARIANTS
  TypeOK
  CatalogsAreFetched
  SavedCatalogSurvives
  NothingOlderThanStart
  FileCatchesUp
CHECK_DEADLOCK FALSE
