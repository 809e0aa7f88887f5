SPECIFICATION MoneySpec
CONSTANTS
  Null = Null
  Parts = {"fiat", "hash", "both"}
  Accounts = {a1, a2}
  Requests = {r1, r2}
  Orders = {o1}
  Hashes = {h1}
  Patches <- RePlan
  MaxUsed = 0
  Price = 2
  Quotes = {TRUE, FALSE}
  Effects = {"good", "reverted", "short", "other_asset"}
SYMMETRY Symmetry
INVARIANTS
  TypeOK
  UnlimitedIffApplied
  FiatGrantIsBacked
  CryptoGrantIsBacked
PROPERTIES
  GrantsOncePerPayment
  ClosedPaymentNeverGrants
  HashKeepsItsOwner
  ClaimClosesOnFinalTruth
