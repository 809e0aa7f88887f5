----------------------------- MODULE Entitlement ----------------------------
(***************************************************************************)
(* What the billing code promises, with none of its machinery: permanent   *)
(* unlimited access is granted by spending one piece of evidence of a      *)
(* payment.  A piece of evidence is spent once, for one account, and an    *)
(* entitled account stays entitled.                                        *)
(***************************************************************************)
CONSTANTS
  Accounts,
  Evidence,      \* payments: orders of the fiat rail, hashes of the chain
  Null

VARIABLES
  entitled,      \* accounts holding permanent unlimited access
  spent          \* spent[e]: the account evidence e was spent for, or Null

Init ==
  /\ entitled = {}
  /\ spent = [e \in Evidence |-> Null]

Grant(a, e) ==
  /\ spent[e] = Null
  /\ spent' = [spent EXCEPT ![e] = a]
  /\ entitled' = entitled \union {a}

Next == \E a \in Accounts, e \in Evidence : Grant(a, e)

Spec == Init /\ [][Next]_<<entitled, spent>>
=============================================================================
