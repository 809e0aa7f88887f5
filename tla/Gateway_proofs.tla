--------------------------- MODULE Gateway_proofs ---------------------------
(***************************************************************************)
(* Theorems about the gateway, for every number of concurrent calls, every *)
(* catalogue and every list of fallbacks an operator can store.            *)
(*                                                                         *)
(* A request's locals hold together by themselves (CallInv): what it knows *)
(* at each location, and the chain it is building.  The usage log and the  *)
(* debits hang on one fact more: a success row is written by the step that *)
(* ends the call (Charged), which is what keeps the count of success rows  *)
(* and the debits in step.                                                 *)
(***************************************************************************)
EXTENDS Gateway, FiniteSetTheorems, TLAPS

Early == {"new", "subscription", "admit", "primary", "provider", "rows"}

(* What a request knows where it stands.                                   *)
Located(r) ==
  /\ r.at \notin {"new", "done"} => r.model \in Models
  /\ r.at \in Early => r.links = <<>> /\ r.heard = {}
  /\ r.at \in {"provider", "rows"} => PlanSatisfies(r.plan, MinPlan[r.model])
  /\ r.at \in {"calling", "recording", "streaming"} => r.index \in 1 .. Len(r.links)
  /\ r.at = "recording" => r.index < Len(r.links)
  /\ r.at = "streaming" => r.served = r.links[r.index]
  /\ r.at = "billing" => r.served \in Models
  /\ r.at \in {"links", "calling", "recording"} => r.heard = {}

(* The candidates a growing chain has been chosen from.                    *)
Looked(r) == {r.model} \union {Fallbacks[r.model][i] : i \in 1 .. r.next - 1}

(* A growing chain is chosen from the candidates looked at, and no link is *)
(* there that did not take one of the places MAX_FALLBACKS allows.         *)
Growing(r) ==
  r.at = "links" =>
    /\ \A i \in 1 .. Len(r.links) : r.links[i] \in Looked(r)
    /\ 1 <= Len(r.links) /\ Len(r.links) <= r.asked + 1

Chained(r) ==
  /\ \A i \in 1 .. Len(r.links) : PlanSatisfies(r.plan, MinPlan[r.links[i]])
  /\ IsInjective(r.links)
  /\ Len(r.links) <= MaxFallbacks + 1

Heard(r) == r.heard \subseteq {r.served}

CallInv(r) == r \in Call /\ Located(r) /\ Growing(r) /\ Chained(r) /\ Heard(r)

Succeeded == {c \in Calls : logs[c] # Null /\ logs[c].status = "success"}

(* A call charged for is over, was answered, and billed what answered it.  *)
Charged(c) ==
  c \in Succeeded =>
    /\ call[c].at = "done" /\ call[c].answer = "ok" /\ ~call[c].failed
    /\ logs[c].model = call[c].served

GatewayInv ==
  /\ TypeOK
  /\ \A c \in Calls : CallInv(call[c]) /\ Charged(c)
  /\ account.used = Cardinality(Succeeded)

-----------------------------------------------------------------------------
(* What every action of one request does to the others' locals: nothing.   *)

LEMMA BlankInv ==
  ASSUME NEW at \in {"new", "done"}, NEW answer \in {"none", "ok", "error"},
         NEW served \in Models \union {Null}, NEW failed \in BOOLEAN
  PROVE  CallInv(Blank(at, answer, served, failed))
<1> DEFINE r == Blank(at, answer, served, failed)
<1>1. r \in Call
  BY GatewayAssumption DEF Blank, Call, Locations, Plans
<1>2. Located(r) /\ Growing(r) /\ Heard(r)
  BY DEF Located, Growing, Heard, Blank, Early
<1>3. Chained(r)
  BY GatewayAssumption DEF Chained, Blank, IsInjective
<1> QED BY <1>1, <1>2, <1>3 DEF CallInv

LEMMA FinishKeeps ==
  ASSUME GatewayInv, NEW c \in Calls, NEW answer \in {"none", "ok", "error"},
         Finish(c, answer)
  PROVE  /\ CallInv(call'[c])
         /\ call' = [call EXCEPT ![c] = call'[c]]
         /\ call'[c].at = "done" /\ call'[c].answer = answer
         /\ call'[c].served = call[c].served /\ call'[c].failed = call[c].failed
<1>1. call \in [Calls -> Call]
  BY DEF GatewayInv, TypeOK
<1>2. call[c].served \in Models \union {Null} /\ call[c].failed \in BOOLEAN
  BY <1>1 DEF Call
<1>3. call'[c] = Blank("done", answer, call[c].served, call[c].failed)
  BY <1>1 DEF Finish
<1>4. CallInv(call'[c])
  BY <1>2, <1>3, BlankInv
<1>5. call' = [call EXCEPT ![c] = call'[c]]
  BY <1>1, <1>3 DEF Finish
<1> QED BY <1>3, <1>4, <1>5 DEF Blank

LEMMA GotoKeeps ==
  ASSUME GatewayInv, NEW c \in Calls, NEW at \in Locations, Goto(c, at),
         Located([call[c] EXCEPT !.at = at]), at # "links"
  PROVE  CallInv(call'[c]) /\ call' = [call EXCEPT ![c] = call'[c]] /\ call'[c].at = at
<1>1. call \in [Calls -> Call] /\ CallInv(call[c])
  BY DEF GatewayInv, TypeOK
<1>2. call'[c] = [call[c] EXCEPT !.at = at]
  BY <1>1 DEF Goto
<1>3. call' = [call EXCEPT ![c] = call'[c]]
  BY <1>1, <1>2 DEF Goto
<1>4. call'[c] \in Call
  BY <1>1, <1>2 DEF Call
<1>5. Growing(call'[c]) /\ Chained(call'[c]) /\ Heard(call'[c])
  BY <1>1, <1>2 DEF CallInv, Growing, Chained, Heard, Call
<1> QED BY <1>1, <1>2, <1>3, <1>4, <1>5 DEF CallInv, Call

-----------------------------------------------------------------------------
(* Each step of a request keeps CallInv and touches no other request.      *)

LEMMA BeginKeeps ==
  ASSUME GatewayInv, NEW c \in Calls, NEW m \in Requested, NEW stream \in BOOLEAN,
         Begin(c, m, stream)
  PROVE  CallInv(call'[c]) /\ call' = [call EXCEPT ![c] = call'[c]]
<1>1. call \in [Calls -> Call] /\ CallInv(call[c]) /\ m \in Models
  BY GatewayAssumption DEF GatewayInv, TypeOK
<1>2. CASE ~account.active
  BY <1>2, FinishKeeps DEF Begin
<1>3. CASE account.active
  <2>1. call' = [call EXCEPT ![c] = [@ EXCEPT !.at = "subscription", !.model = m,
                                              !.stream = stream]]
    BY <1>3 DEF Begin
  <2>2. call'[c] = [call[c] EXCEPT !.at = "subscription", !.model = m, !.stream = stream]
    BY <1>1, <2>1
  <2>3. CallInv(call'[c])
    BY <1>1, <2>2 DEF Begin, CallInv, Call, Locations, Located, Growing, Chained, Heard, Early
  <2> QED BY <1>1, <2>1, <2>3
<1> QED BY <1>2, <1>3

LEMMA IdentifyKeeps ==
  ASSUME GatewayInv, NEW c \in Calls, Identify(c)
  PROVE  CallInv(call'[c]) /\ call' = [call EXCEPT ![c] = call'[c]]
<1>1. call \in [Calls -> Call] /\ CallInv(call[c]) /\ account.plan \in Plans
  BY DEF GatewayInv, TypeOK, Account
<1>2. CASE ~account.subscribed
  BY <1>2, FinishKeeps DEF Identify
<1>3. CASE account.subscribed
  <2>1. call' = [call EXCEPT ![c] = [@ EXCEPT !.at = "admit", !.plan = account.plan,
                                              !.exhausted = Exhausted]]
    BY <1>3 DEF Identify
  <2>2. PICK plan \in Plans, exhausted \in BOOLEAN :
          call'[c] = [call[c] EXCEPT !.at = "admit", !.plan = plan, !.exhausted = exhausted]
    BY <1>1, <2>1, Zenon DEF Exhausted
  <2> DEFINE r == [call[c] EXCEPT !.at = "admit", !.plan = plan, !.exhausted = exhausted]
  <2>3. call[c] \in Call /\ call[c].at = "subscription"
    BY <1>1 DEF Identify
  <2>4. r \in Call
    BY <2>3 DEF Call, Locations, Plans
  <2>5. /\ r.at = "admit" /\ r.model = call[c].model /\ r.links = call[c].links
        /\ r.heard = call[c].heard
    BY <2>3 DEF Call
  <2> HIDE DEF r
  <2>6. Located(r) /\ Growing(r) /\ Heard(r) /\ r.links = <<>>
    BY <1>1, <2>3, <2>4, <2>5 DEF CallInv, Call, Located, Growing, Heard, Early
  <2>7. Chained(r)
    BY <2>6, GatewayAssumption DEF Chained, IsInjective
  <2> QED BY <1>1, <2>1, <2>2, <2>4, <2>6, <2>7 DEF CallInv, r
<1> QED BY <1>2, <1>3

LEMMA AdmitKeeps ==
  ASSUME GatewayInv, NEW c \in Calls, Admit(c)
  PROVE  CallInv(call'[c]) /\ call' = [call EXCEPT ![c] = call'[c]]
<1>1. call[c] \in Call /\ Located(call[c]) /\ call[c].at = "admit"
  BY DEF Admit, GatewayInv, CallInv
<1>2. PICK at \in {"failing", "primary"} : Goto(c, at)
  BY DEF Admit
<1>3. Located([call[c] EXCEPT !.at = at])
  BY <1>1 DEF Located, Call, Early
<1> QED BY <1>2, <1>3, GotoKeeps DEF Locations

LEMMA ResolvePrimaryKeeps ==
  ASSUME GatewayInv, NEW c \in Calls, ResolvePrimary(c)
  PROVE  CallInv(call'[c]) /\ call' = [call EXCEPT ![c] = call'[c]]
<1>1. call[c] \in Call /\ Located(call[c]) /\ call[c].at = "primary"
  BY DEF ResolvePrimary, GatewayInv, CallInv
<1>2. CASE Goto(c, "failing")
  BY <1>1, <1>2, GotoKeeps DEF Located, Call, Early, Locations
<1>3. CASE Goto(c, "provider") /\ PlanSatisfies(call[c].plan, MinPlan[call[c].model])
  <2>1. Located([call[c] EXCEPT !.at = "provider"])
    BY <1>1, <1>3 DEF Located, Call, Early
  <2> QED BY <1>3, <2>1, GotoKeeps DEF Locations
<1> QED BY <1>2, <1>3 DEF ResolvePrimary

LEMMA ResolveAdapterKeeps ==
  ASSUME GatewayInv, NEW c \in Calls, ResolveAdapter(c)
  PROVE  CallInv(call'[c]) /\ call' = [call EXCEPT ![c] = call'[c]]
<1>1. call[c] \in Call /\ Located(call[c]) /\ call[c].at = "provider"
  BY DEF ResolveAdapter, GatewayInv, CallInv
<1>2. PICK at \in {"failing", "rows"} : Goto(c, at)
  BY DEF ResolveAdapter
<1>3. Located([call[c] EXCEPT !.at = at])
  BY <1>1 DEF Located, Call, Early
<1> QED BY <1>2, <1>3, GotoKeeps DEF Locations

LEMMA ReadFallbacksKeeps ==
  ASSUME GatewayInv, NEW c \in Calls, ReadFallbacks(c)
  PROVE  CallInv(call'[c]) /\ call' = [call EXCEPT ![c] = call'[c]]
<1>1. /\ call \in [Calls -> Call] /\ CallInv(call[c]) /\ call[c].at = "rows"
      /\ enabled \subseteq Models
  BY DEF ReadFallbacks, GatewayInv, TypeOK
<1>2. call' = [call EXCEPT ![c] = [@ EXCEPT !.at = "links", !.rows = enabled,
                                            !.links = <<call[c].model>>]]
  BY DEF ReadFallbacks
<1> DEFINE links == <<call[c].model>>
<1>3. PICK rows \in SUBSET Models :
        call'[c] = [call[c] EXCEPT !.at = "links", !.rows = rows, !.links = links]
  BY <1>1, <1>2, Zenon
<1>4. call[c].model \in Models /\ PlanSatisfies(call[c].plan, MinPlan[call[c].model])
  BY <1>1 DEF CallInv, Located
<1>5. /\ links \in Seq(Models) /\ Len(links) = 1 /\ links[1] = call[c].model
      /\ \A i \in 1 .. Len(links) : links[i] = call[c].model
      /\ IsInjective(links)
  BY <1>4 DEF IsInjective
<1> HIDE DEF links
<1> DEFINE r == [call[c] EXCEPT !.at = "links", !.rows = rows, !.links = links]
<1>6. r \in Call
  <2>1. call[c] \in Call
    BY <1>1
  <2> QED BY <1>5, <2>1 DEF Call, Locations
<1>7. /\ r.at = "links" /\ r.model = call[c].model /\ r.links = links /\ r.heard = call[c].heard
      /\ r.plan = call[c].plan
  <2>1. call[c] \in Call
    BY <1>1
  <2> QED BY <1>5, <2>1 DEF Call
<1> HIDE DEF r
<1>8. Located(r) /\ Heard(r)
  BY <1>1, <1>4, <1>7 DEF CallInv, Located, Heard, Early
<1>9. Growing(r)
  <2>1. r.asked \in Nat
    BY <1>6, GatewayAssumption DEF Call
  <2>2. \A i \in 1 .. Len(links) : links[i] \in Looked(r)
    BY <1>5, <1>7 DEF Looked
  <2>3. 1 <= Len(links) /\ Len(links) <= r.asked + 1
    BY <1>5, <2>1
  <2> QED BY <1>7, <2>2, <2>3 DEF Growing
<1>10. Chained(r)
  <2>1. Len(links) <= MaxFallbacks + 1
    BY <1>5, GatewayAssumption
  <2> QED BY <1>4, <1>5, <1>7, <2>1 DEF Chained
<1> QED BY <1>1, <1>2, <1>3, <1>6, <1>8, <1>9, <1>10 DEF CallInv, r

(* A candidate accepted was not looked at before, so it is new to the      *)
(* chain; and the place it takes is one of those MAX_FALLBACKS allows.     *)
LEMMA ResolveLinkKeeps ==
  ASSUME GatewayInv, NEW c \in Calls, ResolveLink(c)
  PROVE  CallInv(call'[c]) /\ call' = [call EXCEPT ![c] = call'[c]]
<1> DEFINE k == Candidate(c)
           asked == IF k = call[c].model THEN call[c].asked ELSE call[c].asked + 1
           links == IF Accepts(c) THEN Append(call[c].links, k) ELSE call[c].links
           r == [call[c] EXCEPT !.next = @ + 1, !.asked = asked, !.links = links]
<1>1. /\ call \in [Calls -> Call] /\ CallInv(call[c]) /\ call[c].at = "links"
      /\ call[c] \in Call /\ HasCandidate(c) /\ ready \subseteq Models
  BY DEF ResolveLink, GatewayInv, TypeOK
<1>2. call' = [call EXCEPT ![c] = r]
  BY Zenon DEF ResolveLink
<1>3. /\ call[c].model \in Models /\ call[c].heard = {}
      /\ call[c].next \in Nat \ {0} /\ call[c].asked \in 0 .. MaxFallbacks
      /\ call[c].links \in Seq(Models) /\ call[c].rows \subseteq Models
      /\ \A i \in 1 .. Len(call[c].links) : call[c].links[i] \in Looked(call[c])
      /\ 1 <= Len(call[c].links) /\ Len(call[c].links) <= call[c].asked + 1
  BY <1>1 DEF CallInv, Located, Growing, Call
<1>4. asked \in 0 .. MaxFallbacks /\ call[c].asked <= asked
  BY <1>1, <1>3, GatewayAssumption DEF HasCandidate
<1>5. /\ k = Fallbacks[call[c].model][call[c].next]
      /\ Looked(call[c]) \union {k} \subseteq
           {call[c].model} \union {Fallbacks[call[c].model][i] : i \in 1 .. call[c].next}
  <2>1. 1 .. call[c].next - 1 \subseteq 1 .. call[c].next /\ call[c].next \in 1 .. call[c].next
    BY <1>3
  <2> QED BY <2>1 DEF Candidate, Looked
<1>6. links \in Seq(Models)
  BY <1>1, <1>3 DEF Accepts
<1> HIDE DEF asked, links
<1>7. r \in Call
  <2>1. call[c] \in Call /\ call[c].next + 1 \in Nat \ {0}
    BY <1>1, <1>3
  <2> QED BY <1>4, <1>6, <2>1 DEF Call
<1>8. /\ r.at = "links" /\ r.model = call[c].model /\ r.heard = {} /\ r.plan = call[c].plan
      /\ r.asked = asked /\ r.links = links /\ r.next = call[c].next + 1
  BY <1>1, <1>3, <1>4, <1>6 DEF Call
<1> HIDE DEF r
<1>9. Located(r) /\ Heard(r)
  BY <1>1, <1>3, <1>8 DEF Located, Heard, Early
<1>10. Looked(call[c]) \union {k} \subseteq Looked(r)
  <2>1. r.next - 1 = call[c].next
    BY <1>3, <1>8
  <2> QED BY <1>5, <1>8, <2>1 DEF Looked
<1> HIDE DEF k
<1>11. CASE ~Accepts(c)
  <2>1. links = call[c].links
    BY <1>11 DEF links
  <2>2. Growing(r)
    <3>1. \A i \in 1 .. Len(links) : links[i] \in Looked(r)
      BY <1>3, <1>10, <2>1
    <3>2. 1 <= Len(links) /\ Len(links) <= asked + 1
      BY <1>3, <1>4, <2>1, GatewayAssumption
    <3> QED BY <1>8, <3>1, <3>2 DEF Growing
  <2>3. Chained(r)
    BY <1>1, <1>8, <2>1 DEF Chained, CallInv
  <2> QED BY <1>1, <1>2, <1>7, <1>9, <2>2, <2>3 DEF CallInv
<1>12. CASE Accepts(c)
  <2>1. links = Append(call[c].links, k)
    BY <1>12 DEF links, k
  <2>2. /\ k \notin Looked(call[c]) /\ k # call[c].model /\ k \in Models
        /\ PlanSatisfies(call[c].plan, MinPlan[k])
    BY <1>1, <1>12 DEF Accepts, Seen, Looked, k
  <2>3. asked = call[c].asked + 1
    BY <2>2 DEF asked
  <2>4. /\ Len(links) = Len(call[c].links) + 1 /\ links[Len(links)] = k
        /\ \A i \in 1 .. Len(call[c].links) : links[i] = call[c].links[i]
    BY <1>3, <2>1, <2>2
  <2>5. \A i \in 1 .. Len(links) : i = Len(links) \/ i \in 1 .. Len(call[c].links)
    BY <1>3, <2>4
  <2>6. 1 <= Len(links) /\ Len(links) <= asked + 1
    BY <1>3, <1>4, <2>3, <2>4, GatewayAssumption
  <2>7. Growing(r)
    <3>1. \A i \in 1 .. Len(links) : links[i] \in Looked(call[c]) \union {k}
      BY <1>3, <2>4, <2>5
    <3> QED BY <1>8, <1>10, <2>6, <3>1 DEF Growing
  <2>8. IsInjective(links)
    <3>1. IsInjective(call[c].links)
      BY <1>1 DEF CallInv, Chained
    <3>2. ASSUME NEW i \in 1 .. Len(links), NEW j \in 1 .. Len(links), links[i] = links[j]
          PROVE  i = j
      BY <1>3, <2>2, <2>4, <2>5, <3>1, <3>2 DEF IsInjective
    <3>3. DOMAIN links = 1 .. Len(links)
      BY <1>6
    <3> QED BY <3>2, <3>3 DEF IsInjective
  <2>9. Chained(r)
    <3>1. \A i \in 1 .. Len(links) : PlanSatisfies(call[c].plan, MinPlan[links[i]])
      <4>1. \A i \in 1 .. Len(call[c].links) :
              PlanSatisfies(call[c].plan, MinPlan[call[c].links[i]])
        BY <1>1 DEF CallInv, Chained
      <4> QED BY <2>2, <2>4, <2>5, <4>1
    <3>2. Len(links) <= MaxFallbacks + 1
      BY <1>3, <1>4, <2>4, <2>6, GatewayAssumption
    <3> QED BY <1>8, <2>8, <3>1, <3>2 DEF Chained
  <2> QED BY <1>1, <1>2, <1>7, <1>9, <2>7, <2>9 DEF CallInv
<1> QED BY <1>11, <1>12

LEMMA StartChainKeeps ==
  ASSUME GatewayInv, NEW c \in Calls, StartChain(c)
  PROVE  CallInv(call'[c]) /\ call' = [call EXCEPT ![c] = call'[c]]
<1> DEFINE r == [call[c] EXCEPT !.at = "calling", !.index = 1, !.rows = {}, !.next = 1,
                                !.asked = 0]
<1>1. /\ call \in [Calls -> Call] /\ CallInv(call[c]) /\ call[c].at = "links"
      /\ call[c] \in Call
  BY DEF StartChain, GatewayInv, TypeOK
<1>2. call' = [call EXCEPT ![c] = r]
  BY DEF StartChain
<1>3. r \in Call
  <2>1. call[c] \in Call /\ 1 \in Nat \ {0} /\ 0 \in 0 .. MaxFallbacks
    BY <1>1, GatewayAssumption
  <2> QED BY <2>1 DEF Call, Locations
<1>4. /\ r.at = "calling" /\ r.index = 1 /\ r.model = call[c].model
      /\ r.links = call[c].links /\ r.heard = call[c].heard /\ r.plan = call[c].plan
      /\ r.served = call[c].served
  BY <1>1 DEF Call
<1> HIDE DEF r
<1>5. Len(call[c].links) \in Nat /\ 1 <= Len(call[c].links) /\ call[c].model \in Models
  BY <1>1 DEF Call, CallInv, Growing, Located
<1>6. Located(r)
  <2>1. 1 \in 1 .. Len(r.links)
    BY <1>4, <1>5
  <2> QED BY <1>1, <1>4, <1>5, <2>1 DEF CallInv, Located, Early
<1>7. Growing(r) /\ Chained(r) /\ Heard(r)
  BY <1>1, <1>4 DEF CallInv, Growing, Chained, Heard
<1> QED BY <1>1, <1>2, <1>3, <1>6, <1>7 DEF CallInv

LEMMA AnswersKeeps ==
  ASSUME GatewayInv, NEW c \in Calls, Answers(c)
  PROVE  CallInv(call'[c]) /\ call' = [call EXCEPT ![c] = call'[c]]
<1> DEFINE at == IF call[c].stream THEN "streaming" ELSE "billing"
           served == Link(c)
           r == [call[c] EXCEPT !.at = at, !.served = served]
<1>1. /\ call \in [Calls -> Call] /\ CallInv(call[c]) /\ call[c].at = "calling"
      /\ call[c] \in Call
  BY DEF Answers, GatewayInv, TypeOK
<1>2. call' = [call EXCEPT ![c] = r]
  BY DEF Answers
<1>3. /\ at \in {"streaming", "billing"} /\ served = call[c].links[call[c].index]
      /\ call[c].index \in 1 .. Len(call[c].links) /\ call[c].heard = {}
      /\ call[c].model \in Models
  BY <1>1 DEF CallInv, Located, Link
<1>4. served \in Models
  BY <1>1, <1>3 DEF Call
<1> HIDE DEF at, served
<1>5. r \in Call
  <2>1. call[c] \in Call /\ at \in Locations
    BY <1>1, <1>3 DEF Locations
  <2> QED BY <1>4, <2>1 DEF Call
<1>6. /\ r.at = at /\ r.served = served /\ r.index = call[c].index
      /\ r.model = call[c].model /\ r.links = call[c].links /\ r.heard = call[c].heard
      /\ r.plan = call[c].plan
  BY <1>1 DEF Call
<1> HIDE DEF r
<1>7. Located(r)
  BY <1>3, <1>4, <1>6 DEF Located, Early
<1>8. Growing(r) /\ Chained(r) /\ Heard(r)
  BY <1>1, <1>3, <1>6 DEF CallInv, Growing, Chained, Heard
<1> QED BY <1>1, <1>2, <1>5, <1>7, <1>8 DEF CallInv

LEMMA FailsRetryablyKeeps ==
  ASSUME GatewayInv, NEW c \in Calls, FailsRetryably(c)
  PROVE  CallInv(call'[c]) /\ call' = [call EXCEPT ![c] = call'[c]]
<1>1. /\ call[c] \in Call /\ Located(call[c]) /\ call[c].at = "calling"
      /\ call[c].index \in Nat /\ call[c].index \in 1 .. Len(call[c].links)
      /\ Len(call[c].links) \in Nat
  BY DEF FailsRetryably, GatewayInv, CallInv, Located, Call
<1>2. CASE IsLast(c)
  <2>1. Located([call[c] EXCEPT !.at = "failing"])
    BY <1>1 DEF Located, Call, Early
  <2> QED BY <1>2, <2>1, GotoKeeps DEF FailsRetryably, Locations
<1>3. CASE ~IsLast(c)
  <2>1. call[c].index < Len(call[c].links)
    BY <1>1, <1>3 DEF IsLast
  <2>2. Located([call[c] EXCEPT !.at = "recording"])
    BY <1>1, <2>1 DEF Located, Call, Early
  <2> QED BY <1>3, <2>2, GotoKeeps DEF FailsRetryably, Locations
<1> QED BY <1>2, <1>3

LEMMA FailsForGoodKeeps ==
  ASSUME GatewayInv, NEW c \in Calls, FailsForGood(c)
  PROVE  CallInv(call'[c]) /\ call' = [call EXCEPT ![c] = call'[c]]
<1>1. call[c] \in Call /\ Located(call[c]) /\ call[c].at = "calling"
  BY DEF FailsForGood, GatewayInv, CallInv
<1>2. Located([call[c] EXCEPT !.at = "failing"])
  BY <1>1 DEF Located, Call, Early
<1> QED BY <1>2, GotoKeeps DEF FailsForGood, Locations

LEMMA RecordAttemptKeeps ==
  ASSUME GatewayInv, NEW c \in Calls, RecordAttempt(c)
  PROVE  CallInv(call'[c]) /\ call' = [call EXCEPT ![c] = call'[c]]
<1> DEFINE index == call[c].index + 1
           r == [call[c] EXCEPT !.at = "calling", !.index = index]
<1>1. /\ call \in [Calls -> Call] /\ CallInv(call[c]) /\ call[c].at = "recording"
      /\ call[c] \in Call
  BY DEF RecordAttempt, GatewayInv, TypeOK
<1>2. call' = [call EXCEPT ![c] = r]
  BY DEF RecordAttempt
<1>3. /\ call[c].index \in Nat /\ call[c].index < Len(call[c].links)
      /\ Len(call[c].links) \in Nat /\ call[c].model \in Models /\ call[c].heard = {}
  BY <1>1 DEF CallInv, Located, Call
<1>4. index \in Nat /\ index \in 1 .. Len(call[c].links)
  BY <1>3
<1> HIDE DEF index
<1>5. r \in Call
  BY <1>1, <1>4 DEF Call, Locations
<1>6. /\ r.at = "calling" /\ r.index = index
      /\ r.model = call[c].model /\ r.links = call[c].links /\ r.heard = call[c].heard
      /\ r.plan = call[c].plan
  BY <1>1 DEF Call
<1> HIDE DEF r
<1>7. Located(r)
  BY <1>3, <1>4, <1>6 DEF Located, Early
<1>8. Growing(r) /\ Chained(r) /\ Heard(r)
  BY <1>1, <1>3, <1>6 DEF CallInv, Growing, Chained, Heard
<1> QED BY <1>1, <1>2, <1>5, <1>7, <1>8 DEF CallInv

LEMMA ChunkKeeps ==
  ASSUME GatewayInv, NEW c \in Calls, Chunk(c)
  PROVE  CallInv(call'[c]) /\ call' = [call EXCEPT ![c] = call'[c]]
<1> DEFINE heard == call[c].heard \union {Link(c)}
           r == [call[c] EXCEPT !.heard = heard]
<1>1. /\ call \in [Calls -> Call] /\ CallInv(call[c]) /\ call[c].at = "streaming"
      /\ call[c] \in Call
  BY DEF Chunk, GatewayInv, TypeOK
<1>2. call' = [call EXCEPT ![c] = r]
  BY DEF Chunk
<1>3. /\ call[c].index \in 1 .. Len(call[c].links)
      /\ call[c].served = Link(c) /\ call[c].heard \subseteq {call[c].served}
  BY <1>1 DEF CallInv, Located, Heard, Link
<1>4. Link(c) \in Models
  BY <1>1, <1>3 DEF Call, Link
<1>5. heard \in SUBSET Models /\ heard \subseteq {call[c].served}
  BY <1>3, <1>4
<1> HIDE DEF heard
<1>6. r \in Call
  BY <1>1, <1>5 DEF Call
<1>7. /\ r.at = "streaming" /\ r.heard = heard /\ r.index = call[c].index
      /\ r.model = call[c].model /\ r.links = call[c].links
      /\ r.plan = call[c].plan /\ r.served = call[c].served
  BY <1>1 DEF Call
<1> HIDE DEF r
<1>8. Located(r) /\ Growing(r) /\ Chained(r) /\ Heard(r)
  BY <1>1, <1>5, <1>7 DEF CallInv, Located, Growing, Chained, Heard, Early
<1> QED BY <1>1, <1>2, <1>6, <1>8 DEF CallInv

LEMMA StreamEndsKeeps ==
  ASSUME GatewayInv, NEW c \in Calls, StreamEnds(c)
  PROVE  CallInv(call'[c]) /\ call' = [call EXCEPT ![c] = call'[c]]
<1>1. call[c] \in Call /\ CallInv(call[c]) /\ call[c].at = "streaming"
  BY DEF StreamEnds, GatewayInv, CallInv
<1>2. call[c].served \in Models /\ call[c].model \in Models
  BY <1>1 DEF CallInv, Located, Call
<1>3. Located([call[c] EXCEPT !.at = "billing"])
  BY <1>1, <1>2 DEF Located, Call, Early
<1> QED BY <1>3, GotoKeeps DEF StreamEnds, Locations

LEMMA StreamBreaksKeeps ==
  ASSUME GatewayInv, NEW c \in Calls, StreamBreaks(c)
  PROVE  CallInv(call'[c]) /\ call' = [call EXCEPT ![c] = call'[c]]
<1> DEFINE r == [call[c] EXCEPT !.at = "billing", !.failed = TRUE]
<1>1. /\ call \in [Calls -> Call] /\ CallInv(call[c]) /\ call[c].at = "streaming"
      /\ call[c] \in Call
  BY DEF StreamBreaks, GatewayInv, TypeOK
<1>2. call' = [call EXCEPT ![c] = r]
  BY DEF StreamBreaks
<1>3. call[c].served \in Models /\ call[c].model \in Models
  BY <1>1 DEF CallInv, Located, Call
<1>4. r \in Call
  BY <1>1 DEF Call, Locations
<1>5. /\ r.at = "billing" /\ r.heard = call[c].heard
      /\ r.model = call[c].model /\ r.links = call[c].links
      /\ r.plan = call[c].plan /\ r.served = call[c].served
  BY <1>1 DEF Call
<1> HIDE DEF r
<1>6. Located(r) /\ Growing(r) /\ Chained(r) /\ Heard(r)
  BY <1>1, <1>3, <1>5 DEF CallInv, Located, Growing, Chained, Heard, Early
<1> QED BY <1>1, <1>2, <1>4, <1>6 DEF CallInv

LEMMA BillKeeps ==
  ASSUME GatewayInv, NEW c \in Calls, Bill(c)
  PROVE  CallInv(call'[c]) /\ call' = [call EXCEPT ![c] = call'[c]]
<1>1. call[c] \in Call /\ CallInv(call[c]) /\ call[c].at = "billing"
  BY DEF Bill, GatewayInv, CallInv
<1>2. CASE Goto(c, "failing")
  <2>1. Located([call[c] EXCEPT !.at = "failing"])
    BY <1>1 DEF CallInv, Located, Call, Early
  <2> QED BY <1>2, <2>1, GotoKeeps DEF Locations
<1>3. ASSUME NEW answer \in {"ok", "error"}, Finish(c, answer)
      PROVE  CallInv(call'[c]) /\ call' = [call EXCEPT ![c] = call'[c]]
  BY <1>3, FinishKeeps
<1> QED BY <1>2, <1>3 DEF Bill

LEMMA FailKeeps ==
  ASSUME GatewayInv, NEW c \in Calls, Fail(c)
  PROVE  CallInv(call'[c]) /\ call' = [call EXCEPT ![c] = call'[c]]
BY FinishKeeps DEF Fail

-----------------------------------------------------------------------------
(* The log and the debits.                                                 *)

(* A request that is not over and writes no row leaves GatewayInv alone,   *)
(* whatever it does to its own locals.                                     *)
LEMMA Quiet ==
  ASSUME GatewayInv, NEW c \in Calls, call[c].at # "done", CallInv(call'[c]),
         call' = [call EXCEPT ![c] = call'[c]], UNCHANGED <<account, enabled, ready, logs>>
  PROVE  GatewayInv'
<1>1. call \in [Calls -> Call] /\ call'[c] \in Call
  BY DEF GatewayInv, TypeOK, CallInv
<1>2. \A d \in Calls : d # c => call'[d] = call[d]
  BY <1>1
<1>3. TypeOK'
  BY <1>1 DEF GatewayInv, TypeOK
<1>4. c \notin Succeeded /\ Succeeded' = Succeeded
  BY DEF GatewayInv, Charged, Succeeded
<1>5. \A d \in Calls : CallInv(call'[d]) /\ Charged(d)'
  BY <1>2, <1>4 DEF GatewayInv, Charged
<1> QED BY <1>3, <1>4, <1>5 DEF GatewayInv

(* The same for a request that writes an error row.                        *)
LEMMA Logs ==
  ASSUME GatewayInv, NEW c \in Calls, call[c].at # "done", CallInv(call'[c]),
         call' = [call EXCEPT ![c] = call'[c]], UNCHANGED <<enabled, ready>>,
         NEW m \in Models, RecordUsage(c, m, "error")
  PROVE  GatewayInv'
<1>1. call \in [Calls -> Call] /\ call'[c] \in Call /\ logs \in [Calls -> LogRow \union {Null}]
  BY DEF GatewayInv, TypeOK, CallInv
<1>2. \A d \in Calls : d # c => call'[d] = call[d] /\ logs'[d] = logs[d]
  BY <1>1 DEF RecordUsage
<1>3. account' = account /\ logs' \in [Calls -> LogRow \union {Null}]
  BY <1>1 DEF RecordUsage, LogRow
<1>4. TypeOK'
  BY <1>1, <1>3 DEF GatewayInv, TypeOK
<1>5. c \notin Succeeded
  BY DEF GatewayInv, Charged
<1>6. c \notin Succeeded'
  BY <1>1, <1>5 DEF Succeeded, RecordUsage
<1>7. Succeeded' = Succeeded
  BY <1>2, <1>5, <1>6 DEF Succeeded
<1>8. \A d \in Calls : CallInv(call'[d]) /\ Charged(d)'
  BY <1>2, <1>5, <1>7 DEF GatewayInv, Charged
<1> QED BY <1>3, <1>4, <1>7, <1>8 DEF GatewayInv

(* A refused write changes neither table.                                  *)
LEMMA RefusedWrite ==
  ASSUME NEW c, NEW m, NEW status, Refused(c), RecordUsage(c, m, status)
  PROVE  UNCHANGED <<account, logs>>
BY DEF RecordUsage

LEMMA BillAccounts ==
  ASSUME GatewayInv, NEW c \in Calls, Bill(c)
  PROVE  GatewayInv'
<1>1. /\ call[c].at = "billing" /\ call[c].served \in Models /\ call[c].failed \in BOOLEAN
      /\ UNCHANGED <<enabled, ready>>
      /\ RecordUsage(c, call[c].served, IF call[c].failed THEN "error" ELSE "success")
  BY DEF Bill, GatewayInv, CallInv, Located, Call
<1>2. CallInv(call'[c]) /\ call' = [call EXCEPT ![c] = call'[c]]
  BY BillKeeps
<1>3. CASE Refused(c)
  BY <1>1, <1>2, <1>3, RefusedWrite, Quiet
<1>4. CASE call[c].failed
  BY <1>1, <1>2, <1>4, Logs
<1>5. CASE ~Refused(c) /\ ~call[c].failed
  <2> DEFINE row == [model |-> call[c].served, status |-> "success"]
  <2>1. /\ logs' = [logs EXCEPT ![c] = row] /\ account' = [account EXCEPT !.used = @ + 1]
        /\ Finish(c, "ok")
    BY <1>1, <1>5 DEF Bill, RecordUsage
  <2>2. /\ call'[c].at = "done" /\ call'[c].answer = "ok"
        /\ call'[c].served = call[c].served /\ call'[c].failed = call[c].failed
    BY <2>1, FinishKeeps
  <2>3. /\ call \in [Calls -> Call] /\ call'[c] \in Call
        /\ logs \in [Calls -> LogRow \union {Null}] /\ account \in Account
    BY <1>2 DEF GatewayInv, TypeOK, CallInv
  <2>4. row \in LogRow /\ row # Null /\ row.status = "success" /\ row.model = call[c].served
    BY <1>1, GatewayAssumption DEF LogRow
  <2> HIDE DEF row
  <2>5. logs'[c] = row /\ \A d \in Calls : d # c => call'[d] = call[d] /\ logs'[d] = logs[d]
    BY <1>2, <2>1, <2>3
  <2>6. logs' \in [Calls -> LogRow \union {Null}]
    BY <2>1, <2>3, <2>4
  <2>7. account' \in Account /\ account'.used = account.used + 1 /\ account.used \in Nat
    BY <2>1, <2>3 DEF Account
  <2>8. TypeOK'
    BY <1>1, <1>2, <2>3, <2>6, <2>7 DEF GatewayInv, TypeOK
  <2>9. c \notin Succeeded
    BY <1>1 DEF GatewayInv, Charged
  <2>10. Succeeded' = Succeeded \union {c}
    BY <2>4, <2>5 DEF Succeeded
  <2>11. Cardinality(Succeeded') = Cardinality(Succeeded) + 1
    <3>1. IsFiniteSet(Succeeded)
      BY FS_Subset, GatewayAssumption DEF Succeeded
    <3> QED BY <2>9, <2>10, <3>1, FS_AddElement
  <2>12. \A d \in Calls : CallInv(call'[d]) /\ Charged(d)'
    <3>1. Charged(c)'
      BY <1>5, <2>2, <2>4, <2>5 DEF Charged
    <3>2. ASSUME NEW d \in Calls, d # c
          PROVE  CallInv(call'[d]) /\ Charged(d)'
      BY <2>5, <2>10, <3>2 DEF GatewayInv, Charged
    <3> QED BY <1>2, <3>1, <3>2
  <2>13. (account.used = Cardinality(Succeeded))'
    BY <2>7, <2>11 DEF GatewayInv
  <2> QED BY <2>8, <2>12, <2>13 DEF GatewayInv
<1> QED BY <1>1, <1>3, <1>4, <1>5

LEMMA StepKeeps ==
  ASSUME GatewayInv, NEW c \in Calls, Step(c)
  PROVE  GatewayInv'
<1>1. CASE \E m \in Requested, stream \in BOOLEAN : Begin(c, m, stream)
  <2>1. PICK m \in Requested, stream \in BOOLEAN : Begin(c, m, stream)
    BY <1>1
  <2>2. CallInv(call'[c]) /\ call' = [call EXCEPT ![c] = call'[c]]
    BY <2>1, BeginKeeps
  <2> QED BY <2>1, <2>2, Quiet DEF Begin
<1>2. CASE Identify(c)
  BY <1>2, IdentifyKeeps, Quiet DEF Identify
<1>3. CASE Admit(c)
  BY <1>3, AdmitKeeps, Quiet DEF Admit
<1>4. CASE ResolvePrimary(c)
  BY <1>4, ResolvePrimaryKeeps, Quiet DEF ResolvePrimary
<1>5. CASE ResolveAdapter(c)
  BY <1>5, ResolveAdapterKeeps, Quiet DEF ResolveAdapter
<1>6. CASE ReadFallbacks(c)
  BY <1>6, ReadFallbacksKeeps, Quiet DEF ReadFallbacks
<1>7. CASE ResolveLink(c)
  BY <1>7, ResolveLinkKeeps, Quiet DEF ResolveLink
<1>8. CASE StartChain(c)
  BY <1>8, StartChainKeeps, Quiet DEF StartChain
<1>9. CASE Answers(c)
  BY <1>9, AnswersKeeps, Quiet DEF Answers
<1>10. CASE FailsRetryably(c)
  BY <1>10, FailsRetryablyKeeps, Quiet DEF FailsRetryably
<1>11. CASE FailsForGood(c)
  BY <1>11, FailsForGoodKeeps, Quiet DEF FailsForGood
<1>12. CASE RecordAttempt(c)
  <2>1. call[c] \in Call /\ call[c].index \in 1 .. Len(call[c].links)
    BY <1>12 DEF RecordAttempt, GatewayInv, CallInv, Located
  <2>2. Link(c) \in Models
    BY <2>1 DEF Link, Call
  <2> QED BY <1>12, <2>2, RecordAttemptKeeps, Logs DEF RecordAttempt
<1>13. CASE Chunk(c)
  BY <1>13, ChunkKeeps, Quiet DEF Chunk
<1>14. CASE StreamEnds(c)
  BY <1>14, StreamEndsKeeps, Quiet DEF StreamEnds
<1>15. CASE StreamBreaks(c)
  BY <1>15, StreamBreaksKeeps, Quiet DEF StreamBreaks
<1>16. CASE Bill(c)
  BY <1>16, BillAccounts
<1>17. CASE Fail(c)
  <2>1. call[c].model \in Models
    BY <1>17 DEF Fail, GatewayInv, CallInv, Located
  <2> QED BY <1>17, <2>1, FailKeeps, Logs DEF Fail
<1> QED
  BY <1>1, <1>2, <1>3, <1>4, <1>5, <1>6, <1>7, <1>8, <1>9, <1>10, <1>11, <1>12, <1>13,
     <1>14, <1>15, <1>16, <1>17 DEF Step

(* What operators, payments and revocations do meanwhile.                  *)
LEMMA OthersKeep ==
  ASSUME GatewayInv,
         \/ \E m \in Edited : Toggle(m)
         \/ \E m \in Rekeyed : Rekey(m)
         \/ Revoke \/ Cancel \/ Pay
  PROVE  GatewayInv'
<1>1. UNCHANGED <<logs, call>>
  BY DEF Toggle, Rekey, Revoke, Cancel, Pay
<1>2. account \in Account /\ enabled \subseteq Models /\ ready \subseteq Models
  BY DEF GatewayInv, TypeOK
<1>3. account' \in Account /\ account'.used = account.used
  BY <1>2 DEF Toggle, Rekey, Revoke, Cancel, Pay, Account, Plans
<1>4. enabled' \subseteq Models /\ ready' \subseteq Models
  BY <1>2, GatewayAssumption DEF Toggle, Rekey, Revoke, Cancel, Pay
<1>5. TypeOK'
  BY <1>1, <1>3, <1>4 DEF GatewayInv, TypeOK
<1>6. Succeeded' = Succeeded /\ \A c \in Calls : CallInv(call[c])' /\ Charged(c)'
  BY <1>1 DEF GatewayInv, Succeeded, Charged
<1> QED BY <1>3, <1>5, <1>6 DEF GatewayInv

LEMMA InitHolds ==
  ASSUME Init
  PROVE  GatewayInv
<1>1. \A c \in Calls : CallInv(call[c])
  BY BlankInv DEF Init, NewCall
<1>2. Succeeded = {}
  BY DEF Init, Succeeded
<1>3. account \in Account /\ account.used = 0
  BY DEF Init, Account, Plans
<1>4. TypeOK
  BY <1>1, <1>3 DEF Init, TypeOK, CallInv
<1>5. Cardinality(Succeeded) = 0
  BY <1>2, FS_EmptySet
<1> QED BY <1>1, <1>2, <1>3, <1>4, <1>5 DEF GatewayInv, Charged

(* GatewayInv is inductive.                                                *)
THEOREM Invariance == Spec => []GatewayInv
<1>1. Init => GatewayInv
  BY InitHolds
<1>2. GatewayInv /\ [Next]_vars => GatewayInv'
  <2> SUFFICES ASSUME GatewayInv, [Next]_vars
               PROVE  GatewayInv'
    OBVIOUS
  <2>1. CASE \E c \in Calls : Step(c)
    BY <2>1, StepKeeps
  <2>2. CASE \/ \E m \in Edited : Toggle(m)
             \/ \E m \in Rekeyed : Rekey(m)
             \/ Revoke \/ Cancel \/ Pay
    BY <2>2, OthersKeep
  <2>3. CASE UNCHANGED vars
    BY <2>3 DEF vars, GatewayInv, TypeOK, Charged, Succeeded
  <2> QED BY <2>1, <2>2, <2>3 DEF Next
<1> QED BY <1>1, <1>2, PTL DEF Spec

-----------------------------------------------------------------------------
(* Every variable keeps its type, the chain of a request among them: it is *)
(* always a sequence of catalogue models.                                  *)
THEOREM TypeCorrect == Spec => []TypeOK
BY Invariance, PTL DEF GatewayInv

(* No chain leaves the caller's plan, tries a model twice or grows past    *)
(* MAX_FALLBACKS + 1 links, whatever lists operators store and whatever    *)
(* they change while the chain is being resolved.                          *)
THEOREM ChainsStayInPlan == Spec => []ChainStaysInPlan
<1>1. GatewayInv => ChainStaysInPlan
  BY DEF GatewayInv, CallInv, Chained, ChainStaysInPlan
<1> QED BY <1>1, Invariance, PTL

(* A stream speaks with one voice, and the row bills that voice.           *)
THEOREM StreamsHaveOneVoice == Spec => []OneVoicePerStream
<1>1. GatewayInv => OneVoicePerStream
  BY DEF GatewayInv, CallInv, Heard, Charged, Succeeded, OneVoicePerStream
<1> QED BY <1>1, Invariance, PTL

(* A charge goes with a success row and an answer, and the debits of the   *)
(* account are as many as its success rows, for any number of calls.       *)
THEOREM FailuresAreFree == Spec => []FailureIsFree
<1>1. GatewayInv => FailureIsFree
  BY DEF GatewayInv, Charged, Succeeded, FailureIsFree
<1> QED BY <1>1, Invariance, PTL

=============================================================================
