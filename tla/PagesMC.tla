------------------------------- MODULE PagesMC -------------------------------
(***************************************************************************)
(* What the browser shows, one part at a time: the support pages over the  *)
(* tickets, the two cards of the subscription page, and the verdict on a   *)
(* transaction as the chain reports it.  The parts share nothing; one that *)
(* is not open keeps Null in its variables.                                *)
(***************************************************************************)
EXTENDS DeskPages, OfferCard, WalletPanel, TransactionLife, TLC

CONSTANTS t1, t2, t3, Parts

VARIABLE part      \* the part this behaviour is about; never changes

vars == <<part, deskVars, deskPageVars, offerVars, walletVars, transactionVars>>

Row(status, last) == [status |-> status, last |-> last, excused |-> FALSE, moved |-> FALSE]
Day(rows, latest, ops) ==
  [tickets |-> [t \in Tickets |-> IF t \in DOMAIN rows THEN rows[t] ELSE Null],
   recent |-> latest, duty |-> ops]

Waiting == (t1 :> Row("open", "user")) @@ (t2 :> Row("pending", "admin"))

SmallDays ==
  {Day(Waiting, <<t1, t2>>, {"open", "reply", "status"}),
   Day(t1 :> Row("pending", "admin"), <<t1>>, {"open", "reply", "create", "elsewhere"}),
   Day((t1 :> Row("closed", "user")) @@ (t2 :> Row("open", "user")), <<t1, t2>>,
       {"open", "status"}),
   Day(Waiting, <<t1, t2>>, {"patch", "queue"}),
   Day(t1 :> Row("pending", "admin"), <<t1>>, {"open", "reply", "patch"}),
   Day(t1 :> Row("pending", "admin"), <<t1>>, {"open", "reply", "loss"}),
   Day(Waiting, <<t1, t2>>, {"patch", "loss"}),
   Day(t1 :> Row("open", "user"), <<t1>>, {"open", "status", "patch"}),
   Day((t1 :> Row("resolved", "admin")) @@ (t2 :> Row("resolved", "admin")), <<t1, t2>>,
       {"patch", "elsewhere"})}

(* Handlers, requests, polls and readings are numbered from one set.       *)
Symmetry == Permutations(Errands) \union Permutations(Payers)

DeskShut == tickets = Null /\ recent = Null /\ errand = Null /\ duty = Null
            /\ centre = Null /\ queue = Null
OfferShut == order = Null /\ late = Null /\ card = Null /\ read = Null /\ checkout = Null
WalletShut == wallet = Null /\ panel = Null /\ click = Null /\ reading = Null /\ verdict = Null
TransactionShut ==
  signed = Null /\ final = Null /\ observed = Null /\ now = Null /\ rulings = {}

Init ==
  /\ part \in Parts
  /\ IF part = "desk" THEN DeskPagesInit ELSE DeskShut
  /\ IF part = "offer" THEN OfferInit ELSE OfferShut
  /\ IF part = "wallet" THEN WalletInit ELSE WalletShut
  /\ IF part = "transaction" THEN TransactionInit ELSE TransactionShut

Next ==
  /\ UNCHANGED part
  /\ \/ /\ part = "desk" /\ DeskPagesNext
        /\ UNCHANGED <<offerVars, walletVars, transactionVars>>
     \/ /\ part = "offer" /\ OfferNext
        /\ UNCHANGED <<deskVars, deskPageVars, walletVars, transactionVars>>
     \/ /\ part = "wallet" /\ WalletNext
        /\ UNCHANGED <<deskVars, deskPageVars, offerVars, transactionVars>>
     \/ /\ part = "transaction" /\ TransactionNext
        /\ UNCHANGED <<deskVars, deskPageVars, offerVars, walletVars>>

Spec == Init /\ [][Next]_vars

-----------------------------------------------------------------------------
(* The support pages.                                                      *)

(* createTicket's limit on open tickets is passed only by creates that     *)
(* counted side by side, and by tickets opened again, which nothing counts.*)
OpenCapIsBounded ==
  part = "desk" => Cardinality({t \in OpenTickets : ~tickets[t].excused}) <= MaxOpen

(* "Pending" means waiting on the user and "open" waiting on the staff:    *)
(* the queue names who spoke last, unless a status was set by hand or a    *)
(* message came between the two statements of a staff reply.               *)
QueueKnowsWhoSpokeLast ==
  part = "desk" => \A t \in Filed :
    ~tickets[t].moved =>
      <<tickets[t].status, tickets[t].last>> \notin {<<"pending", "user">>, <<"open", "admin">>}

(* Tickets are counted and sorted as their requests left them.             *)
TicketsAreAccountedFor == OpenCapIsBounded /\ QueueKnowsWhoSpokeLast

(* What the user types under one ticket is on its way to another only if   *)
(* an answer was still due when it was begun, or a ticket created since    *)
(* took the thread's place; what the staff type, only if they picked the   *)
(* other one, a status filter was in force or changed, or an answer was    *)
(* still due when it was begun.                                            *)
DraftsStayWithTheirThread ==
  /\ part = "desk" /\ centre.thread # Null /\ centre.reply \notin {Null, centre.thread.ticket} =>
       centre.crossed
  /\ part = "desk" /\ Selected # Null /\ queue.reply \notin {Null, Selected.ticket} =>
       queue.strayed

-----------------------------------------------------------------------------
(* The cards of the subscription page.                                     *)

(* "The guard is what keeps a repeated poll from firing a second toast for *)
(* the same activation": only a checkout that was answered with an order   *)
(* already announced announces it again.                                   *)
ActivationIsAnnouncedOnce ==
  part = "offer" => \A o \in Orders : card.toasts[o] <= 1 \/ card.resumed

(* "A wrong chain sends nothing at all": the page never has the wallet     *)
(* broadcast on another network than the one required, unless the network  *)
(* was changed after the page had read it.                                 *)
WrongChainSendsNothing == part = "wallet" => ~wallet.strayed

(* While one payment waits for its prompt or its verdict no other begins,  *)
(* unless the wallet disconnected under a handler, or the verification of  *)
(* another hash ended beside the payment's own.                            *)
PayIsLockedWhileOneRuns ==
  part = "wallet" => Cardinality(Paying) <= 1 \/ panel.unlocked

(* What the wallet panel promises the payer's money: nothing is sent on    *)
(* the wrong network, and nothing twice.                                   *)
PanelGuardsTheWallet == WrongChainSendsNothing /\ PayIsLockedWhileOneRuns

(* "A payer who switches account or network in the wallet must not be      *)
(* shown stale details": once every announcement was heard and every       *)
(* reading has ended, the panel shows the wallet as it is, unless the last *)
(* readings overtook each other, failed, or were made by a handler for the *)
(* account it had begun with, or an announcement came before the listeners *)
(* of a new connection were attached.                                      *)
ShownDetailsAreCurrent ==
  /\ part = "wallet" /\ panel.account # Null /\ wallet.news = <<>>
  /\ \A r \in Readings : reading[r] = Null
  /\ \A k \in Clicks : click[k].at # "again"
  /\ ~panel.blurred /\ ~panel.unheard
  =>
    /\ panel.account = wallet.account
    /\ panel.chain = wallet.chain
    /\ panel.balance \in {panel.account, Null}

-----------------------------------------------------------------------------
(* The verdict on a transaction.                                           *)

(* Readings that the code lets settle a claim although nothing is final:   *)
(* a node of another chain, and a receipt that failed, which is judged     *)
(* before its confirmations are counted.                                   *)
Provisional(g) ==
  \/ g = [reason |-> "rpc_chain_mismatch", place |-> "elsewhere"]
  \/ g = [reason |-> "reverted", place |-> "branch"]

(* "reject is terminal.  The transaction can never become valid": but for  *)
(* the provisional ones, no two readings settle one transaction in two     *)
(* ways, whichever branches, lagging nodes and clocks they were made by.   *)
(* A payment may only grow too old, and is good again only for a reading   *)
(* that lacks the time of its block.                                       *)
VerdictStands ==
  \A g, h \in rulings :
    ~Provisional(g) /\ ~Provisional(h) =>
      \/ g.reason = h.reason
      \/ {g.reason, h.reason} = {"paid", "too_old"}

OnlyUndatedIsForgiven ==
  [reason |-> "too_old", place |-> "dated"] \in rulings /\ Decision.reason = "paid"
    => Place(observed) = "undated"

(* And a claim does not wait for ever: a reading with the confirmations    *)
(* settles it.                                                             *)
DeepReadingSettles == Place(observed) \in {"undated", "dated"} => Decision.action # "wait"

(* The service closes a row by isTerminalCryptoReason, a list of its own,  *)
(* which names exactly the reasons of the verdicts that reject; and a hash *)
(* submitted again is answered from the stored reason with the message of  *)
(* the first time (cryptoMessageForReason).                                *)
ReasonTablesAgree ==
  /\ Decision.action = "reject" <=> IsTerminalCryptoReason(Decision.reason)
  /\ Decision.action # "activate" =>
       CryptoMessageForReason(Decision.reason) = Decision.message

(* A claim is judged once, and in the end: verdicts do not change, and the *)
(* tables kept beside the rules agree with them.                           *)
JudgedOnce ==
  part = "transaction" =>
    ReasonTablesAgree /\ VerdictStands /\ OnlyUndatedIsForgiven /\ DeepReadingSettles
=============================================================================
