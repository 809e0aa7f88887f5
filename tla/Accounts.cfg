SPECIFICATION Spec
CONSTANTS
  Null = Null
  u1 = u1
  u2 = u2
  e1 = e1
  e2 = e2
  p1 = p1
  p2 = p2
  s1 = s1
  s2 = s2
  google = google
  Parts = {"accounts", "profile", "integrations"}
  Users = {u1, u2}
  Emails = {e1, e2}
  Passwords = {p1, p2}
  Lost = Lost
  Tokens = {t1, t2, t3}
  Keys = {k1, k2, k3}
  Subjects = {s1, s2}
  EmailOf <- SmallEmailOf
  Browsers = {b1, b2}
  Scenarios <- SmallScenarios
  Flows = {f1, f2}
  Submits = {n1, n2, n3}
  MaxApiKeys = 2
  MaxIntegrations = 2
  MaxNotes = 4
  MaxClicks = 6
  Linkable = {google}
  Panels <- SmallPanels
  PanelMoves = 4
SYMMETRY Symmetry
INVARIANTS
  SessionHasSubscription
  CountsAreOvershotByRacesOnly
PROPERTIES
  LinkFollowsItsStarter
  LastOneIsKept
  SecretIsReplacedOnlyInHaste
  OwnerPagesTellTheTruth
CHECK_DEADLOCK FALSE
