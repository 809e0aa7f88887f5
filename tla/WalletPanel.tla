----------------------------- MODULE WalletPanel -----------------------------
(***************************************************************************)
(* The on-chain card: wallet-pay.tsx, payWithWallet of wallet.ts, and      *)
(* verify of crypto-payment.tsx.  The wallet is an extension the payer     *)
(* works on its own: it changes account and network, announces both,       *)
(* answers prompts, and answers every request later, so that answers       *)
(* overtake each other.  There is one wallet (the picker is left out), and *)
(* what it cannot afford it refuses at the prompt.                         *)
(***************************************************************************)
EXTENDS Integers, FiniteSets, Sequences, Absent

CONSTANTS
  Payers,      \* the accounts of the wallet
  Clicks,      \* bound: click handlers under way at once
  Readings,    \* bound: refreshes under way at once
  Verdicts,    \* bound: verifications under way at once
  MaxSent,     \* bound: transfers ever broadcast
  MaxMoves     \* bound: changes of account or network in the wallet, hashes typed

VARIABLES
  wallet,      \* the extension, and its announcements on their way
  panel,       \* the state of the two components
  click,       \* click[k]: the locals of a handler, or Resting
  reading,     \* reading[r]: the locals of a refresh, or Null
  verdict      \* verdict[v]: the handler a verification answers to, or Null

walletVars == <<wallet, panel, click, reading, verdict>>

Chains == {"required", "other"}
Announcement == [news : {"accounts", "chain"}, account : Payers \union {Null}]

(* strayed is history: transfers broadcast on another network though it    *)
(* had not changed since the page asked.                                   *)
Wallet == [account : Payers \union {Null}, chain : Chains, moves : 0..MaxMoves,
           sent : 0..MaxSent, strayed : BOOLEAN,
           news : UNION {[1..k -> Announcement] : k \in 0..2 * MaxMoves + 1}]

(* History: blurred, the last readings were under way at once, or failed,  *)
(* or were for the account a handler had begun with;                       *)
(* unlocked, the wallet disconnected under a handler, or a verification    *)
(* ended beside another; unheard, an announcement came when no listener    *)
(* was attached, or beside the grant of an account not yet taken over.     *)
Panel == [stage     : {"idle", "connecting", "ready", "switching", "waiting", "submitted"},
          account   : Payers \union {Null},        \* connection
          chain     : Chains \union {Null},        \* chainId
          balance   : Payers \union {Null},        \* whose balance it is
          listens   : Payers \union {Null},        \* the connection the listeners are of
          verifying : BOOLEAN,                     \* busy of the card
          blurred   : BOOLEAN, unlocked : BOOLEAN, unheard : BOOLEAN]

(* seen: the network as answered; moved: it changed since.                 *)
Click == [op      : {"none", "connect", "switch", "pay"},
          at      : {"idle", "ask", "granted", "refresh", "chain", "prompt", "submit", "again"},
          account : Payers \union {Null},
          seen    : Chains \union {Null}, moved : BOOLEAN]
Resting == [op |-> "none", at |-> "idle", account |-> Null, seen |-> Null, moved |-> FALSE]

Reading == [account : Payers, seen : Chains \union {Null}, for : Clicks \union {Null},
            chained : BOOLEAN]

Pasted == "pasted"     \* a verification of a hash typed by hand

ASSUME WalletAssumption == /\ Null \notin Payers \union Chains \union Clicks
                           /\ Null \notin Reading
                           /\ Pasted \notin Clicks \union {Null}
                           /\ MaxSent \in Nat /\ MaxMoves \in Nat

-----------------------------------------------------------------------------
Free(slots, f, rest) == {s \in slots : f[s] = rest}
Busy == panel.stage \in {"connecting", "switching", "waiting"} \/ panel.verifying

(* refresh: asks for the network, then for the balance of the account.     *)
Refresh(account, for, p) ==
  /\ Free(Readings, reading, Null) # {}
  /\ LET r == CHOOSE s \in Free(Readings, reading, Null) : TRUE IN
       reading' = [reading EXCEPT ![r] = [account |-> account, seen |-> Null, for |-> for,
                                          chained |-> FALSE]]
  /\ panel' = [p EXCEPT !.blurred = \/ Free(Readings, reading, Null) # Readings
                                    \/ \E k \in Clicks : click[k].at = "again"
                                    \/ account # p.account]

(* The effects of the renders before a click run at the latest with it.    *)
BeginClick(op, at, stage) ==
  /\ Free(Clicks, click, Resting) # {}
  /\ LET k == CHOOSE s \in Free(Clicks, click, Resting) : TRUE IN
       click' = [click EXCEPT ![k] = [Resting EXCEPT !.op = op, !.at = at,
                                                     !.account = panel.account]]
  /\ panel' = [panel EXCEPT !.stage = stage, !.listens = panel.account]
  /\ UNCHANGED <<wallet, reading, verdict>>

-----------------------------------------------------------------------------
(* wallet-pay.tsx: connect, switchNetwork, refresh.                        *)

ClickConnect ==
  /\ panel.account = Null /\ panel.stage # "connecting"
  /\ BeginClick("connect", "ask", "connecting")

Granted == {k \in Clicks : click[k].at = "granted"}

(* The account the wallet grants; the page hears of it later.              *)
Grant(k) ==
  /\ click[k].op = "connect" /\ click[k].at = "ask" /\ wallet.account # Null
  /\ click' = [click EXCEPT ![k].at = "granted", ![k].account = wallet.account]
  /\ panel' = [panel EXCEPT !.unheard = @ /\ (panel.account # Null \/ Granted # {})]
  /\ UNCHANGED <<wallet, reading, verdict>>

Connected(k) ==
  /\ click[k].at = "granted" /\ click[k].account # Null
  /\ click' = [click EXCEPT ![k].at = "refresh"]
  /\ Refresh(click[k].account, k, [panel EXCEPT !.account = click[k].account])
  /\ UNCHANGED <<wallet, verdict>>

ClickSwitch ==
  /\ panel.account # Null /\ panel.chain # "required" /\ ~Busy
  /\ BeginClick("switch", "ask", "switching")

Switched(k) ==
  /\ click[k].op = "switch" /\ click[k].at = "ask" /\ click[k].account # Null
  /\ click' = [click EXCEPT ![k].at = "refresh"]
  /\ wallet' = IF wallet.chain = "required" THEN wallet
               ELSE [wallet EXCEPT !.chain = "required",
                       !.news = Append(@, [news |-> "chain", account |-> Null])]
  /\ Refresh(click[k].account, k, panel)
  /\ UNCHANGED verdict

(* The payer refuses, or the wallet fails.                                 *)
Refused(k) ==
  /\ click[k].at = "ask"
  /\ click' = [click EXCEPT ![k] = Resting]
  /\ panel' = [panel EXCEPT !.stage = IF click[k].op = "connect" THEN "idle" ELSE "ready"]
  /\ UNCHANGED <<wallet, reading, verdict>>

ChainAnswered(r) ==
  /\ reading[r] # Null /\ ~reading[r].chained /\ reading[r].seen = Null
  /\ reading' = [reading EXCEPT ![r].seen = wallet.chain]
  /\ UNCHANGED <<wallet, panel, click, verdict>>

ChainRead(r) ==
  /\ reading[r] # Null /\ ~reading[r].chained /\ reading[r].seen # Null
  /\ LET here == reading[r].seen = "required"
         for == reading[r].for IN
       /\ reading' = [reading EXCEPT ![r] = IF here THEN [@ EXCEPT !.chained = TRUE] ELSE Null]
       /\ panel' = [panel EXCEPT !.chain = reading[r].seen,
                                 !.balance = IF here THEN @ ELSE Null,
                                 !.stage = IF here \/ for = Null THEN @ ELSE "ready"]
       /\ click' = IF here \/ for = Null THEN click ELSE [click EXCEPT ![for] = Resting]
  /\ UNCHANGED <<wallet, verdict>>

(* The balance, or silence when the node would not tell.                   *)
BalanceRead(r) ==
  /\ reading[r] # Null /\ reading[r].chained
  /\ LET for == reading[r].for IN
     \E balance \in {reading[r].account, Null} :
       /\ panel' = [panel EXCEPT !.balance = balance,
                                 !.stage = IF for = Null THEN @ ELSE "ready"]
       /\ click' = IF for = Null THEN click ELSE [click EXCEPT ![for] = Resting]
  /\ reading' = [reading EXCEPT ![r] = Null]
  /\ UNCHANGED <<wallet, verdict>>

(* connect falls back to its picker, with the connection made.             *)
RefreshFails(r) ==
  /\ reading[r] # Null /\ ~reading[r].chained
  /\ LET for == reading[r].for IN
       /\ click' = IF for = Null THEN click ELSE [click EXCEPT ![for] = Resting]
       /\ panel' = [panel EXCEPT !.blurred = TRUE,
                      !.stage = IF for = Null THEN @
                                ELSE IF click[for].op = "connect" THEN "idle" ELSE "ready"]
  /\ reading' = [reading EXCEPT ![r] = Null]
  /\ UNCHANGED <<wallet, verdict>>

-----------------------------------------------------------------------------
(* The announcements.  The listeners are attached, and attached anew, by   *)
(* an effect that runs some time after the connection is rendered; until   *)
(* then they are those of the last connection.                             *)

Paying == {k \in Clicks : click[k].op = "pay" /\ click[k].at # "again"}

Attach ==
  /\ panel.listens # panel.account
  /\ panel' = [panel EXCEPT !.listens = panel.account]
  /\ UNCHANGED <<wallet, click, reading, verdict>>

Heard(news) == wallet' = [wallet EXCEPT !.news = Tail(@)]

(* Fault: another account keeps the details of the last.                   *)
HearAccountsOnly ==
  /\ wallet.news # <<>> /\ Head(wallet.news).news = "accounts" /\ panel.listens # Null
  /\ Head(wallet.news).account # Null
  /\ panel' = [panel EXCEPT !.account = Head(wallet.news).account, !.unheard = Granted # {}]
  /\ Heard(wallet.news)
  /\ UNCHANGED <<click, reading, verdict>>

HearAccounts ==
  /\ wallet.news # <<>> /\ Head(wallet.news).news = "accounts" /\ panel.listens # Null
  /\ Head(wallet.news).account # Null
  /\ Refresh(Head(wallet.news).account, Null,
             [panel EXCEPT !.account = Head(wallet.news).account, !.unheard = Granted # {}])
  /\ Heard(wallet.news)
  /\ UNCHANGED <<click, verdict>>

HearDisconnect ==
  /\ wallet.news # <<>> /\ Head(wallet.news).news = "accounts" /\ panel.listens # Null
  /\ Head(wallet.news).account = Null
  /\ panel' = [panel EXCEPT !.account = Null, !.chain = Null, !.balance = Null,
                            !.stage = "idle", !.unlocked = @ \/ Free(Clicks, click, Resting) # Clicks,
                            !.unheard = @ \/ Granted # {}]
  /\ Heard(wallet.news)
  /\ UNCHANGED <<click, reading, verdict>>

(* The account is the one the listener closed over.                        *)
HearChain ==
  /\ wallet.news # <<>> /\ Head(wallet.news).news = "chain" /\ panel.listens # Null
  /\ Refresh(panel.listens, Null, panel)
  /\ Heard(wallet.news)
  /\ UNCHANGED <<click, verdict>>

HearNothing ==
  /\ wallet.news # <<>> /\ panel.listens = Null
  /\ panel' = [panel EXCEPT !.unheard = @ \/ panel.account # Null
                  \/ (Head(wallet.news).news = "accounts" /\ Granted # {})]
  /\ Heard(wallet.news)
  /\ UNCHANGED <<click, reading, verdict>>

-----------------------------------------------------------------------------
(* pay, with payWithWallet inside it.                                      *)

(* Fault: a verification under way does not lock the button.               *)
ClickPayVerifying ==
  /\ panel.account # Null /\ panel.chain = "required"
  /\ panel.stage \notin {"connecting", "switching", "waiting"}
  /\ BeginClick("pay", "chain", "waiting")

ClickPay ==
  /\ panel.account # Null /\ panel.chain = "required" /\ ~Busy
  /\ BeginClick("pay", "chain", "waiting")

PayChainAnswered(k) ==
  /\ click[k].at \in {"chain", "again"} /\ click[k].seen = Null
  /\ click' = [click EXCEPT ![k].seen = wallet.chain]
  /\ UNCHANGED <<wallet, panel, reading, verdict>>

(* Fault: the network is not compared.                                     *)
CheckNothing(k) ==
  /\ click[k].at = "chain" /\ click[k].seen # Null
  /\ click' = [click EXCEPT ![k].at = "prompt"]
  /\ UNCHANGED <<wallet, panel, reading, verdict>>

(* The wrong network sends nothing, and is read once more for display; the *)
(* second reading may fail.                                                *)
CheckChain(k) ==
  /\ click[k].at = "chain" /\ click[k].seen # Null
  /\ IF click[k].seen = "required"
     THEN click' = [click EXCEPT ![k].at = "prompt"] /\ UNCHANGED panel
     ELSE /\ click' = [click EXCEPT ![k].at = "again", ![k].seen = Null]
          /\ panel' = [panel EXCEPT !.stage = "ready",
                         !.blurred = @ \/ Free(Readings, reading, Null) # Readings]
  /\ UNCHANGED <<wallet, reading, verdict>>

ShowChain(k) ==
  /\ click[k].at = "again" /\ click[k].seen # Null
  /\ panel' \in {[panel EXCEPT !.chain = click[k].seen], [panel EXCEPT !.blurred = TRUE]}
  /\ click' = [click EXCEPT ![k] = Resting]
  /\ UNCHANGED <<wallet, reading, verdict>>

Verify(for) ==
  /\ Free(Verdicts, verdict, Null) # {}
  /\ LET v == CHOOSE u \in Free(Verdicts, verdict, Null) : TRUE IN
       verdict' = [verdict EXCEPT ![v] = for]

Broadcast(k) ==
  [wallet EXCEPT !.sent = @ + 1,
                 !.strayed = @ \/ (wallet.chain = "other" /\ ~click[k].moved)]

(* The payer signs: the hash is posted to the verify endpoint.             *)
Sign(k) ==
  /\ click[k].at = "prompt" /\ wallet.account = click[k].account /\ wallet.sent < MaxSent
  /\ wallet' = Broadcast(k)
  /\ Verify(k)
  /\ click' = [click EXCEPT ![k].at = "submit"]
  /\ panel' = [panel EXCEPT !.stage = "submitted", !.verifying = TRUE]
  /\ UNCHANGED reading

(* The payer signs, and the wallet returns no usable hash.                 *)
SignSilently(k) ==
  /\ click[k].at = "prompt" /\ wallet.account = click[k].account /\ wallet.sent < MaxSent
  /\ wallet' = Broadcast(k)
  /\ click' = [click EXCEPT ![k] = Resting]
  /\ panel' = [panel EXCEPT !.stage = "ready"]
  /\ UNCHANGED <<reading, verdict>>

Decline(k) ==
  /\ click[k].at \in {"chain", "prompt"}
  /\ click' = [click EXCEPT ![k] = Resting]
  /\ panel' = [panel EXCEPT !.stage = "ready"]
  /\ UNCHANGED <<wallet, reading, verdict>>

(* crypto-payment.tsx: any hash typed by hand goes to the same verify.     *)
ClickVerify ==
  /\ ~panel.verifying /\ wallet.moves < MaxMoves
  /\ Verify(Pasted)
  /\ panel' = [panel EXCEPT !.verifying = TRUE]
  /\ wallet' = [wallet EXCEPT !.moves = @ + 1]
  /\ UNCHANGED <<click, reading>>

(* The verdict, or the failure to get one: busy ends with either.  The     *)
(* handler that submitted the hash refreshes once more.                    *)
VerdictArrives(v) ==
  LET k == verdict[v]
      p == [panel EXCEPT !.verifying = FALSE,
              !.unlocked = @ \/ \E u \in Verdicts \ {v} : verdict[u] # Null] IN
  /\ k # Null
  /\ verdict' = [verdict EXCEPT ![v] = Null]
  /\ IF k = Pasted THEN panel' = p /\ UNCHANGED <<click, reading>>
     ELSE click' = [click EXCEPT ![k] = Resting] /\ Refresh(click[k].account, Null, p)
  /\ UNCHANGED wallet

-----------------------------------------------------------------------------
(* The payer works the wallet itself.                                      *)

Move(w, news) ==
  /\ wallet.moves < MaxMoves
  /\ wallet' = [w EXCEPT !.moves = @ + 1, !.news = Append(@, news)]
  /\ UNCHANGED <<panel, reading, verdict>>

MoveAccount(account) ==
  /\ wallet.account # account
  /\ Move([wallet EXCEPT !.account = account], [news |-> "accounts", account |-> account])
  /\ UNCHANGED click

MoveChain(chain) ==
  /\ wallet.chain # chain
  /\ Move([wallet EXCEPT !.chain = chain], [news |-> "chain", account |-> Null])
  /\ click' = [k \in Clicks |-> IF click[k].op = "pay" /\ click[k].seen # Null
                                THEN [click[k] EXCEPT !.moved = TRUE] ELSE click[k]]

WalletInit ==
  /\ wallet \in [account : Payers, chain : Chains, moves : {0}, sent : {0},
                 strayed : {FALSE}, news : {<<>>}]
  /\ panel = [stage |-> "idle", account |-> Null, chain |-> Null, balance |-> Null,
              listens |-> Null,
              verifying |-> FALSE, blurred |-> FALSE, unlocked |-> FALSE, unheard |-> FALSE]
  /\ click = [k \in Clicks |-> Resting]
  /\ reading = [r \in Readings |-> Null]
  /\ verdict = [v \in Verdicts |-> Null]

WalletNext ==
  \/ ClickConnect \/ ClickSwitch \/ ClickPay \/ ClickVerify
  \/ \E k \in Clicks :
       \/ Grant(k) \/ Connected(k) \/ Switched(k) \/ Refused(k) \/ PayChainAnswered(k) \/ CheckChain(k)
       \/ ShowChain(k) \/ Sign(k) \/ SignSilently(k) \/ Decline(k)
  \/ \E r \in Readings : ChainAnswered(r) \/ ChainRead(r) \/ BalanceRead(r) \/ RefreshFails(r)
  \/ \E v \in Verdicts : VerdictArrives(v)
  \/ Attach \/ HearAccounts \/ HearDisconnect \/ HearChain \/ HearNothing
  \/ \E account \in Payers \union {Null} : MoveAccount(account)
  \/ \E chain \in Chains : MoveChain(chain)
=============================================================================
