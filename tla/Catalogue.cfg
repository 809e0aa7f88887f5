SPECIFICATION Spec
CONSTANTS
  Null = Null
  x = x
  y = y
  builtin = builtin
  custom = custom
  m1 = m1
  m2 = m2
  Parts = {"catalogue", "tables", "board", "dashboard"}
  Models = {x, y}
  Providers = {builtin, custom}
  Custom = {custom}
  Offers <- SmallOffers
  Calls = {c1, c2}
  Tabs = {t1}
  MaxRows = 5
  Scenarios <- SmallScenarios
  TableRows = {1, 2}
  Found = {1}
  TableMoves = 5
  Openings <- SmallOpenings
  BoardRows = 2
  BoardMoves = 4
  Boards <- SmallBoards
  Calendars <- SmallCalendars
  Day = 2
  MonthStarts = {1, 3}
  Windows = {2, 3}
  Latest = 1
  LogRows = 2
SYMMETRY Symmetry
INVARIANTS
  TablesTellTheTruth
  ConsistentWhenAlone
  DashboardAddsUp
PROPERTIES
  DeletionSticks
  SyncHarmsByRaceOnly
  DialogsAreClosedByTheirOwn
  BoardTellsTheTruth
CHECK_DEADLOCK FALSE
