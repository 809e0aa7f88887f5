SPECIFICATION MoneySpec
CONSTANTS
  Null = Null
  Parts = {"hash"}
  Accounts = {a1}
  Requests = {r1}
  Orders = {}
  Hashes = {h1}
  Patches <- RePlan
  MaxUsed = 0
  Price = 2
  Quotes = {TRUE}
  Effects = {"good", "reverted"}
INVARIANTS
  PaymentIsNotBurnt
