SPECIFICATION Spec
CONSTANTS
  Null = Null
  t1 = t1
  t2 = t2
  t3 = t3
  Parts = {"desk", "offer", "wallet", "transaction"}
  Tickets = {t1, t2, t3}
  Errands = {e1, e2}
  MaxOpen = 2
  Chosen = {"resolved"}
  Days <- SmallDays
  Orders = {o1, o2}
  Reads = {e1, e2}
  MaxPolls = 3
  Payers = {a1, a2}
  Clicks = {e1, e2}
  Readings = {e1, e2}
  Verdicts = {e1, e2}
  MaxSent = 1
  MaxMoves = 2
  MinConfirmations = 2
  Required = 2
  MaxAge = 1
  MaxNow = 3
SYMMETRY Symmetry
INVARIANTS
  TicketsAreAccountedFor
  DraftsStayWithTheirThread
  ActivationIsAnnouncedOnce
  PanelGuardsTheWallet
  ShownDetailsAreCurrent
  JudgedOnce
CHECK_DEADLOCK FALSE
