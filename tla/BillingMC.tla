------------------------------ MODULE BillingMC -----------------------------
(***************************************************************************)
(* Small instances of Billing.  A behaviour stays within one of three      *)
(* bounds: the fiat rail alone, with quotes right and wrong; the on-chain  *)
(* rail alone, where two accounts claim one hash over a chain with every   *)
(* effect and at any age; or one account on both rails, with a charge and  *)
(* a final transaction in its favour and an operator at its row.           *)
(***************************************************************************)
EXTENDS Billing, FiniteSets, TLC

CONSTANT Parts

VARIABLE part       \* the bound this behaviour keeps; never changes

RePlan == {[plan |-> "pro", status |-> "keep", reset |-> FALSE]}

Symmetry == Permutations(Requests) \union Permutations(Accounts)
              \union Permutations(Orders) \union Permutations(Hashes)

Touched == {a \in Accounts : subs[a] # Null}
             \union {req[r].who : r \in {q \in Requests : req[q].who # Null}}

OneAccount == Cardinality(Touched) <= 1

NoEdits == \A r \in Requests : req[r].at # "edit"

WithinBounds ==
  \/ part = "fiat" /\ UNCHANGED cryptoVars /\ OneAccount' /\ NoEdits'
  \/ part = "hash" /\ UNCHANGED fiatVars /\ NoEdits'
  \/ /\ part = "both" /\ OneAccount'
     /\ \A o \in Orders : charges'[o].exact
     /\ \A h \in Hashes : /\ chain'[h].effect = "good" /\ ~chain'[h].old
                          /\ chain[h].stage # "final" =>
                               UNCHANGED <<subs, req, fiatVars, claims, proof>>

MoneyInit == part \in Parts /\ Init

MoneyNext == Next /\ WithinBounds /\ UNCHANGED part

MoneySpec == MoneyInit /\ [][MoneyNext]_<<part, vars>>
=============================================================================
