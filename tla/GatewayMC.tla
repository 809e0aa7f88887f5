----------------------------- MODULE GatewayMC ------------------------------
(***************************************************************************)
(* The way of a call, in four parts that meet only where a call succeeds   *)
(* or fails: the windows that limit it (RateLimit), the pipeline with its  *)
(* fallback chain (Gateway), the proxies it goes out through (ProxyPool),  *)
(* and the answer on the wire (Wire).  A behaviour is about one of them;   *)
(* the others stand still.                                                 *)
(*                                                                         *)
(* The catalogue is a free model whose fallback list names a paid model,   *)
(* itself and a free model twice.                                          *)
(***************************************************************************)
EXTENDS Gateway, TLC

CONSTANTS base, paid, spare, Parts,
          Scripts,                   \* what an upstream may send
          Proxies, Cooldown, Ticks,  \* the pool's size, COOLDOWN_MS and bound on time
          Keys, Window, Limits, Minutes   \* keys, windowMs, limits and bound on time

VARIABLES part, setup, coming, buffer, heard, queue, route, frames, row,
          cursor, cooldownUntil, now, closed, fetch, uses,
          buckets, minute, lastSweep, limit, passed, admitted

SmallModels == {base, paid, spare}

SmallFallbacks == (base :> <<paid, base, spare, spare>>) @@ (paid :> <<>>) @@ (spare :> <<>>)

SmallMinPlan == (base :> "free") @@ (paid :> "unlimited") @@ (spare :> "free")

SmallRequested == {base}

SmallEdited == {base}

SmallRekeyed == {spare}

(* Every stream of at most two events, and the usual ones of three or four. *)
SmallScripts ==
  ("openai" :> UNION {[1 .. n -> {"text", "stop", "zero", "total", "noise"}] : n \in 0 .. 2}
               \union {<<"text", "text", "stop", "full">>, <<"text", "tool_calls", "prompt">>,
                       <<"text", "length", "zero">>})
  @@ ("anthropic" :> UNION {[1 .. n -> {"start", "text", "length", "noise"}] : n \in 1 .. 2}
                     \union {<<"start", "text", "text", "stop">>, <<"start", "text", "zero">>})

Line == INSTANCE Wire

ASSUME LineAssumption == /\ \A a \in Line!Adapters : Scripts[a] \subseteq Seq(STRING)
                         /\ Null \notin Nat

Fetches == Calls    \* the requests of every part go by the same names

Pool == INSTANCE ProxyPool WITH Size <- Proxies, MaxNow <- Ticks

ASSUME PoolAssumption == /\ Proxies \in Nat \ {0} /\ Cooldown \in Nat \ {0}
                         /\ Null \notin Pool!Entries

Limiter == INSTANCE RateLimit WITH MaxNow <- Minutes, now <- minute

ASSUME LimitAssumption == /\ IsFiniteSet(Keys) /\ Limiter!Account \notin Keys
                          /\ Window \in Nat \ {0} /\ Limits \subseteq Nat \ {0}
                          /\ Minutes \in Nat /\ Null \notin Limiter!Bucket

lineVars == <<setup, coming, buffer, heard, queue, route, frames, row>>
poolVars == <<cursor, cooldownUntil, now, closed, fetch, uses>>
limitVars == <<buckets, minute, lastSweep, limit, passed, admitted>>

AnyCall == [adapter |-> "openai", dialect |-> "openai", streamed |-> FALSE,
            includeUsage |-> FALSE, cut |-> FALSE, script |-> <<>>]

PathInit ==
  /\ part \in Parts
  /\ Init /\ Line!WireInit /\ Pool!PoolInit /\ Limiter!LimitInit
  /\ part # "wire" => setup = AnyCall
  /\ part # "limit" => limit = CHOOSE n \in Limits : \A m \in Limits : n <= m

PathNext ==
  \/ part = "call" /\ Next /\ UNCHANGED <<part, lineVars, poolVars, limitVars>>
  \/ part = "wire" /\ Line!WireNext /\ UNCHANGED <<part, vars, poolVars, limitVars>>
  \/ part = "pool" /\ Pool!PoolNext /\ UNCHANGED <<part, vars, lineVars, limitVars>>
  \/ part = "limit" /\ Limiter!LimitNext /\ UNCHANGED <<part, vars, lineVars, poolVars>>

PathSpec == PathInit /\ [][PathNext]_<<part, vars, lineVars, poolVars, limitVars>>

Symmetry == Permutations(Calls)

(* What is told, billed and passed on is what the upstream sent, wherever  *)
(* its reads end (Wire).                                                   *)
MeteringIsHonest == Line!MeteringIsHonest

(* A client reads a prefix of a well-formed stream of its dialect (Wire).  *)
FramesFollowTheDialect == Line!FramesFollowTheDialect

(* Parked proxies are passed over, a retry moves on, and load is spread    *)
(* over the others (ProxyPool).                                            *)
RotationIsFair == Pool!RotationIsFair

(* Throughput is what the plan says, up to one boundary of two windows     *)
(* (RateLimit).                                                            *)
RateIsBounded == Limiter!RateIsBounded

(* A request that is over is not repeated through a second proxy           *)
(* (ProxyPool), as proxy.ts says; refuted.                                 *)
OverIsNotRepeated == Pool!OverIsNotRepeated
=============================================================================
