SPECIFICATION MoneySpec
CONSTANTS
  Null = Null
  Parts = {"fiat"}
  Accounts = {a1}
  Requests = {r1, r2}
  Orders = {o1}
  Hashes = {}
  Patches <- RePlan
  MaxUsed = 0
  Price = 2
  Quotes = {TRUE}
  Effects = {"good"}
SYMMETRY Symmetry
PROPERTIES
  SettledOrderNeverRewritten
