------------------------------ MODULE Gateway -------------------------------
(***************************************************************************)
(* One POST to /v1/chat/completions or /v1/messages: the caller is         *)
(* authenticated and admitted (src/src/lib/gateway/pipeline.ts), the model *)
(* and its fallbacks are resolved, the chain is tried link by link         *)
(* (fallback.ts), the answer is returned or streamed, and the usage log is *)
(* written together with the token debit (recordUsage).                    *)
(*                                                                         *)
(* Calls of one account run concurrently with each other, with operators   *)
(* editing the catalogue, with a payment, a revocation of the key, and     *)
(* with their own clients hanging up, which a request notices only as a    *)
(* failure of what it awaits (FailsRetryably, FailsForGood, StreamBreaks). *)
(* The database answers: the one write of this path that can fail is the   *)
(* one its UNIQUE index refuses.                                           *)
(* The monthly rollover inside ensureSubscription is Subscriptions'        *)
(* subject and does not happen here.                                       *)
(***************************************************************************)
EXTENDS Integers, FiniteSets, SequencesExt

CONSTANTS
  Null,
  Calls,         \* request ids; newRequestId never repeats one
  Models,        \* catalogue ids
  Fallbacks,     \* Fallbacks[m]: the list stored with model m
  MinPlan,       \* MinPlan[m]: the lowest plan that may use m
  MaxFallbacks,  \* MAX_FALLBACKS
  Allocation,    \* the account's tokenAllocation, in calls
  Requested,     \* bound: the models callers ask for
  Edited,        \* bound: the models operators disable and enable
  Rekeyed        \* bound: the models whose adapters lose and regain a credential

VARIABLES
  account,       \* the caller's key, user and subscription rows
  enabled,       \* models whose row is enabled
  ready,         \* models whose provider is registered and has a credential
  logs,          \* logs[c]: the usage_logs row whose requestId is c, or Null
  call           \* call[c]: the locals of request c

vars == <<account, enabled, ready, logs, call>>

Plans == {"free", "unlimited"}

Account == [active     : BOOLEAN,   \* key not revoked, user not suspended
            subscribed : BOOLEAN,   \* subscription.status is "active"
            plan       : Plans,     \* effectivePlan; a payment sets "unlimited"
            used       : Nat]       \* tokensUsed, a billable call counting one

LogRow == [model : Models, status : {"success", "error"}]

Locations == {"new", "subscription", "admit", "primary", "provider", "rows", "links",
              "calling", "recording", "streaming", "billing", "failing", "done"}

Call == [at        : Locations,
         stream    : BOOLEAN,
         model     : Models \union {Null}, \* body.model, once it is read
         plan      : Plans,                \* identity, as authenticate read it
         exhausted : BOOLEAN,
         rows      : SUBSET Models,        \* rows, the enabled fallbacks found
         next      : Nat \ {0},            \* the place in the stored list
         asked     : 0..MaxFallbacks,      \* how much of `wanted' was looked at
         links     : Seq(Models),          \* [primary, ...usable fallbacks]
         index     : Nat,                  \* the link being tried
         served    : Models \union {Null},
         failed    : BOOLEAN,              \* the stream broke after it began
         heard     : SUBSET Models,        \* who produced the chunks sent
         answer    : {"none", "ok", "error"}]

ASSUME GatewayAssumption ==
  /\ Null \notin Models \union LogRow
  /\ Fallbacks \in [Models -> Seq(Models)]
  /\ MinPlan \in [Models -> Plans]
  /\ MaxFallbacks \in Nat /\ Allocation \in Nat /\ Requested \subseteq Models
  /\ Edited \subseteq Models /\ Rekeyed \subseteq Models /\ IsFiniteSet(Calls)

-----------------------------------------------------------------------------
(* Helpers.                                                                *)

PlanSatisfies(plan, minimum) == plan = "unlimited" \/ minimum = "free"

Exhausted == account.plan # "unlimited" /\ account.used >= Allocation

(* The locals that have no value, before the call and after it.            *)
Blank(at, answer, served, failed) ==
  [at |-> at, stream |-> FALSE, model |-> Null, plan |-> "free", exhausted |-> FALSE,
   rows |-> {}, next |-> 1, asked |-> 0, links |-> <<>>, index |-> 0,
   served |-> served, failed |-> failed, heard |-> {}, answer |-> answer]

NewCall == Blank("new", "none", Null, FALSE)

Goto(c, at) == call' = [call EXCEPT ![c].at = at]

(* The other locals go out of scope with the request.                      *)
Finish(c, answer) ==
  call' = [call EXCEPT ![c] = Blank("done", answer, call[c].served, call[c].failed)]

(* A request may have one row: requestId is UNIQUE.                        *)
Refused(c) == logs[c] # Null

(* recordUsage: the log row, the debit of a successful call and the key's  *)
(* counters are one transaction, refused as a whole by the UNIQUE index.   *)
RecordUsage(c, m, status) ==
  IF Refused(c) THEN UNCHANGED <<logs, account>>
  ELSE /\ logs' = [logs EXCEPT ![c] = [model |-> m, status |-> status]]
       /\ account' = IF status = "success"
                       THEN [account EXCEPT !.used = @ + 1] ELSE account

-----------------------------------------------------------------------------
(* authenticate: the key and its user, then the subscription.  A caller    *)
(* that is refused here leaves no usage row.                               *)

Begin(c, m, stream) ==
  /\ call[c].at = "new"
  /\ IF account.active
       THEN call' = [call EXCEPT ![c] = [@ EXCEPT
              !.at = "subscription", !.model = m, !.stream = stream]]
       ELSE Finish(c, "error")
  /\ UNCHANGED <<account, enabled, ready, logs>>

Identify(c) ==
  /\ call[c].at = "subscription"
  /\ IF account.subscribed
       THEN call' = [call EXCEPT ![c] = [@ EXCEPT
              !.at = "admit", !.plan = account.plan, !.exhausted = Exhausted]]
       ELSE Finish(c, "error")
  /\ UNCHANGED <<account, enabled, ready, logs>>

(* assertRateLimit and the two parsers may refuse; assertQuota judges the  *)
(* row authenticate read, whatever other calls have debited since.         *)
Admit(c) ==
  /\ call[c].at = "admit"
  /\ \/ Goto(c, IF call[c].exhausted THEN "failing" ELSE "primary")
     \/ Goto(c, "failing")
  /\ UNCHANGED <<account, enabled, ready, logs>>

-----------------------------------------------------------------------------
(* resolveModel and resolveChain: the row of the primary, its adapter, the *)
(* rows of its fallbacks in one query, and then one adapter after another. *)

ResolvePrimary(c) ==
  /\ call[c].at = "primary"
  /\ Goto(c, IF call[c].model \in enabled
                  /\ PlanSatisfies(call[c].plan, MinPlan[call[c].model])
               THEN "provider" ELSE "failing")
  /\ UNCHANGED <<account, enabled, ready, logs>>

ResolveAdapter(c) ==
  /\ call[c].at = "provider"
  /\ Goto(c, IF call[c].model \in ready THEN "rows" ELSE "failing")
  /\ UNCHANGED <<account, enabled, ready, logs>>

ReadFallbacks(c) ==
  /\ call[c].at = "rows"
  /\ call' = [call EXCEPT ![c] = [@ EXCEPT
       !.at = "links", !.rows = enabled, !.links = <<call[c].model>>]]
  /\ UNCHANGED <<account, enabled, ready, logs>>

Candidate(c) == Fallbacks[call[c].model][call[c].next]

Seen(c) == {call[c].model} \union {Fallbacks[call[c].model][i] : i \in 1 .. call[c].next - 1}

(* Fault: the plan is not checked again for a fallback.                    *)
AcceptsAnyPlan(c) ==
  Candidate(c) \notin Seen(c) /\ Candidate(c) \in call[c].rows \intersect ready

Accepts(c) ==
  /\ Candidate(c) \notin Seen(c)
  /\ Candidate(c) \in call[c].rows \intersect ready
  /\ PlanSatisfies(call[c].plan, MinPlan[Candidate(c)])

(* The list of candidates is the stored one without the primary, cut to    *)
(* MAX_FALLBACKS.                                                          *)
HasCandidate(c) ==
  call[c].next <= Len(Fallbacks[call[c].model]) /\ call[c].asked < MaxFallbacks

ResolveLink(c) ==
  /\ call[c].at = "links" /\ HasCandidate(c)
  /\ call' = [call EXCEPT ![c] = [@ EXCEPT
       !.next = call[c].next + 1,
       !.asked = IF Candidate(c) = call[c].model THEN call[c].asked ELSE call[c].asked + 1,
       !.links = IF Accepts(c) THEN Append(call[c].links, Candidate(c)) ELSE call[c].links]]
  /\ UNCHANGED <<account, enabled, ready, logs>>

StartChain(c) ==
  /\ call[c].at = "links" /\ ~HasCandidate(c)
  /\ call' = [call EXCEPT ![c] = [@ EXCEPT !.at = "calling", !.index = 1,
                                       !.rows = {}, !.next = 1, !.asked = 0]]
  /\ UNCHANGED <<account, enabled, ready, logs>>

-----------------------------------------------------------------------------
(* runWithFallback and openStreamWithFallback.  One attempt ends in an     *)
(* answer, or for a stream its first chunk; in a failure another upstream  *)
(* might not have; or in one that stops the chain.                         *)

Link(c) == call[c].links[call[c].index]

IsLast(c) == call[c].index = Len(call[c].links)

Answers(c) ==
  /\ call[c].at = "calling"
  /\ call' = [call EXCEPT ![c] = [@ EXCEPT
       !.at = IF call[c].stream THEN "streaming" ELSE "billing",
       !.served = Link(c)]]
  /\ UNCHANGED <<account, enabled, ready, logs>>

(* isFallbackWorthy: upstream trouble, or the client hung up before the    *)
(* response headers, which the adapter reports as upstream_timeout.        *)
FailsRetryably(c) ==
  /\ call[c].at = "calling"
  /\ Goto(c, IF IsLast(c) THEN "failing" ELSE "recording")
  /\ UNCHANGED <<account, enabled, ready, logs>>

(* A request every link would refuse, a rejected credential, or an error   *)
(* that is not the provider's, such as an abort while the body is read.    *)
FailsForGood(c) ==
  /\ call[c].at = "calling"
  /\ Goto(c, "failing")
  /\ UNCHANGED <<account, enabled, ready, logs>>

(* Fault: the same link is tried again.                                    *)
RecordAttemptAgain(c) ==
  /\ call[c].at = "recording"
  /\ RecordUsage(c, Link(c), "error")
  /\ Goto(c, "calling")
  /\ UNCHANGED <<enabled, ready>>

(* attemptRecorder swallows a refused write; then the next link is tried.  *)
RecordAttempt(c) ==
  /\ call[c].at = "recording"
  /\ RecordUsage(c, Link(c), "error")
  /\ call' = [call EXCEPT ![c] = [@ EXCEPT !.at = "calling", !.index = call[c].index + 1]]
  /\ UNCHANGED <<enabled, ready>>

-----------------------------------------------------------------------------
(* The body of a stream.                                                   *)

(* Fault: the chain also advances after the first byte.                    *)
StreamBreaksOver(c) ==
  /\ call[c].at = "streaming"
  /\ IF IsLast(c)
       THEN call' = [call EXCEPT ![c] = [@ EXCEPT !.at = "billing", !.failed = TRUE]]
       ELSE call' = [call EXCEPT ![c] = [@ EXCEPT !.at = "calling", !.index = call[c].index + 1]]
  /\ UNCHANGED <<account, enabled, ready, logs>>

Chunk(c) ==
  /\ call[c].at = "streaming"
  /\ call' = [call EXCEPT ![c] = [@ EXCEPT !.heard = call[c].heard \union {Link(c)}]]
  /\ UNCHANGED <<account, enabled, ready, logs>>

StreamEnds(c) ==
  /\ call[c].at = "streaming"
  /\ Goto(c, "billing")
  /\ UNCHANGED <<account, enabled, ready, logs>>

(* The upstream fails, or a chunk cannot be handed to a client that left.  *)
StreamBreaks(c) ==
  /\ call[c].at = "streaming"
  /\ call' = [call EXCEPT ![c] = [@ EXCEPT !.at = "billing", !.failed = TRUE]]
  /\ UNCHANGED <<account, enabled, ready, logs>>

-----------------------------------------------------------------------------
(* recordUsage for the link that served, then the end of the response.     *)

(* Fault: a stream that broke is billed like one that ended.               *)
BillBroken(c) ==
  /\ call[c].at = "billing"
  /\ RecordUsage(c, call[c].served, "success")
  /\ Finish(c, IF call[c].failed THEN "error" ELSE "ok")
  /\ UNCHANGED <<enabled, ready>>

(* A refused write is swallowed by a stream, whose client has its text; an *)
(* unstreamed answer is dropped for the failure response.                  *)
Bill(c) ==
  /\ call[c].at = "billing"
  /\ RecordUsage(c, call[c].served, IF call[c].failed THEN "error" ELSE "success")
  /\ IF Refused(c) /\ ~call[c].stream
       THEN Goto(c, "failing")
       ELSE Finish(c, IF call[c].failed THEN "error" ELSE "ok")
  /\ UNCHANGED <<enabled, ready>>

(* Fault: the failure is logged under the link that served, if any did.    *)
FailUnderServed(c) ==
  /\ call[c].at = "failing"
  /\ RecordUsage(c, call[c].served, "error")
  /\ Finish(c, "error")
  /\ UNCHANGED <<enabled, ready>>

(* handleFailure: logFailure swallows a refused write.                     *)
Fail(c) ==
  /\ call[c].at = "failing"
  /\ RecordUsage(c, call[c].model, "error")
  /\ Finish(c, "error")
  /\ UNCHANGED <<enabled, ready>>

-----------------------------------------------------------------------------
(* What else happens meanwhile.                                            *)

(* An operator disables or enables a model.                                *)
Toggle(m) ==
  /\ enabled' = IF m \in enabled THEN enabled \ {m} ELSE enabled \union {m}
  /\ UNCHANGED <<account, ready, logs, call>>

(* An operator takes the credential of its provider away, or sets one.     *)
Rekey(m) ==
  /\ ready' = IF m \in ready THEN ready \ {m} ELSE ready \union {m}
  /\ UNCHANGED <<account, enabled, logs, call>>

Revoke ==
  /\ account.active
  /\ account' = [account EXCEPT !.active = FALSE]
  /\ UNCHANGED <<enabled, ready, logs, call>>

(* updateUserSubscription: canceled or past due.                           *)
Cancel ==
  /\ account.subscribed
  /\ account' = [account EXCEPT !.subscribed = FALSE]
  /\ UNCHANGED <<enabled, ready, logs, call>>

Pay ==
  /\ account.plan # "unlimited"
  /\ account' = [account EXCEPT !.plan = "unlimited"]
  /\ UNCHANGED <<enabled, ready, logs, call>>

-----------------------------------------------------------------------------
Init ==
  /\ account = [active |-> TRUE, subscribed |-> TRUE, plan |-> "free", used |-> 0]
  /\ enabled = Models /\ ready = Models
  /\ logs    = [c \in Calls |-> Null]
  /\ call    = [c \in Calls |-> NewCall]

Step(c) ==
  \/ \E m \in Requested, stream \in BOOLEAN : Begin(c, m, stream)
  \/ Identify(c) \/ Admit(c) \/ ResolvePrimary(c) \/ ResolveAdapter(c)
  \/ ReadFallbacks(c) \/ ResolveLink(c) \/ StartChain(c)
  \/ Answers(c) \/ FailsRetryably(c) \/ FailsForGood(c) \/ RecordAttempt(c)
  \/ Chunk(c) \/ StreamEnds(c) \/ StreamBreaks(c)
  \/ Bill(c) \/ Fail(c)

Next ==
  \/ \E c \in Calls : Step(c)
  \/ (\E m \in Edited : Toggle(m)) \/ (\E m \in Rekeyed : Rekey(m))
  \/ Revoke \/ Cancel \/ Pay

(* Every await of a request has a timeout, a chain is finite, and nothing  *)
(* suspends a handler for ever.                                            *)
Spec == Init /\ [][Next]_vars /\ \A c \in Calls : WF_vars(Step(c))

-----------------------------------------------------------------------------
TypeOK ==
  /\ account \in Account
  /\ enabled \subseteq Models /\ ready \subseteq Models
  /\ logs \in [Calls -> LogRow \union {Null}]
  /\ call \in [Calls -> Call]

(* A chain never widens what the caller's plan allows: whatever operators  *)
(* put into fallback lists, no link above the plan is tried, no model is   *)
(* tried twice, and a request costs at most MAX_FALLBACKS + 1 upstream     *)
(* calls (the three limits of resolveChain).                               *)
ChainStaysInPlan ==
  \A c \in Calls :
    LET links == call[c].links IN
    /\ \A i \in 1 .. Len(links) : PlanSatisfies(call[c].plan, MinPlan[links[i]])
    /\ IsInjective(links)
    /\ Len(links) <= MaxFallbacks + 1

(* "Switching models mid-stream would splice two completions together"     *)
(* (fallback.ts): all a client hears comes from one model, the one the     *)
(* response headers named and the usage row bills.                         *)
OneVoicePerStream ==
  \A c \in Calls :
    /\ call[c].heard \subseteq {call[c].served}
    /\ logs[c] # Null /\ logs[c].status = "success" => logs[c].model = call[c].served

(* A failed call is free: an error answer never leaves a charge behind,    *)
(* and a charge is never followed by an error answer.  "A request can      *)
(* never be billed without being logged" (accounting.ts): however many     *)
(* attempts, refused writes and failures came before, the account has been *)
(* debited exactly once per success row.                                   *)
FailureIsFree ==
  /\ \A c \in Calls :
       logs[c] # Null /\ logs[c].status = "success" =>
         call[c].at = "done" /\ call[c].answer = "ok" /\ ~call[c].failed
  /\ account.used = Cardinality({c \in Calls : logs[c] # Null /\ logs[c].status = "success"})

(* Every call is answered, through any number of failing links.            *)
CallIsAnswered ==
  \A c \in Calls : (call[c].at # "new") ~> (call[c].at = "done")

-----------------------------------------------------------------------------
(* What the comments of the code say, refuted by a run.                    *)

(* "Failures share the successful call's requestId" (fallback.ts), and a   *)
(* request is never "logged without being billed" (accounting.ts): a call  *)
(* that an upstream served is answered with it and logged as a success.    *)
ServedCallIsLogged ==
  \A c \in Calls :
    call[c].at = "done" /\ call[c].served # Null /\ ~call[c].failed =>
      /\ call[c].answer = "ok"
      /\ logs[c] # Null /\ logs[c].status = "success"

=============================================================================
