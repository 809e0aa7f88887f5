SPECIFICATION AnsweringSpec
CONSTANTS
  Null = Null
  a1 = a1
  o1 = o1
  r1 = r1
  r2 = r2
  base = base
  paid = paid
  spare = spare
  request = request
  Builtins = {}
  Customs = {"resold"}
  Ciphers = {"x"}
  Calls = {c1, c2}
  MaxWrites = 2
  Loads = {1, 2, 3, 4}
INVARIANTS
  NoStampede
  PoolsMatchTheSnapshot
PROPERTIES
  PaidOrderIsApplied
  CallIsAnswered
  Converges
