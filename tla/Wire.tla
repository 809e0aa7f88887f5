-------------------------------- MODULE Wire --------------------------------
(***************************************************************************)
(* One call on the wire: the two adapters (src/src/lib/providers/          *)
(* openai-compatible.ts, anthropic.ts) read an upstream's answer, and the  *)
(* two routes (src/src/app/v1/{chat/completions,messages}/route.ts) pass   *)
(* it on in the caller's dialect and write the usage row.                  *)
(*                                                                         *)
(* An upstream stream is a sequence of events, each cut into a head and a  *)
(* tail and followed by two newlines; the network may end a read after any *)
(* of these units.  A token count is a small number: what an upstream      *)
(* reports and what is estimated here never coincide.                      *)
(***************************************************************************)
EXTENDS Integers, FiniteSets, Sequences, SequencesExt, Absent

CONSTANT Scripts   \* Scripts[adapter]: the event sequences an upstream may send

VARIABLES
  setup,    \* the call: adapter, dialect, streamed or not, what will be sent
  coming,   \* the units not read yet
  buffer,   \* what is read and not split off
  heard,    \* the adapter's locals: text, reported usage
  queue,    \* chunks parsed and not consumed by the route
  route,    \* the handler: where it is and its locals
  frames,   \* what the client was sent
  row       \* the usage row, or Null

wireVars == <<setup, coming, buffer, heard, queue, route, frames, row>>

Adapters == {"openai", "anthropic"}
Newline == <<0, "newline">>
PromptEstimate == 5
Usage(input, output) == [input |-> input, output |-> output]
NoUsage == [prompt |-> Null, completion |-> Null, total |-> Null]

-----------------------------------------------------------------------------
(* Usage.                                                                  *)

(* UpstreamUsage blocks as gateways publish them: complete, with a zero    *)
(* completion count next to text, the total alone, the prompt alone.       *)
UpstreamUsage(kind) ==
  CASE kind = "full"   -> [prompt |-> 8, completion |-> 9, total |-> 17]
    [] kind = "zero"   -> [prompt |-> 8, completion |-> 0, total |-> 8]
    [] kind = "total"  -> [NoUsage EXCEPT !.total = 17]
    [] kind = "prompt" -> [NoUsage EXCEPT !.prompt = 8]
    [] OTHER           -> NoUsage

(* Fault: the block is trusted as it is published.                         *)
ReconcileUsageVerbatim(reported, text) ==
  Usage(IF reported.prompt # Null THEN reported.prompt ELSE PromptEstimate,
        IF reported.completion # Null THEN reported.completion ELSE text)

(* A text of n deltas is estimated at n tokens.                            *)
ReconcileUsage(reported, text) ==
  LET prompt  == IF reported.prompt # Null THEN reported.prompt ELSE 0
      claimed == IF reported.completion # Null THEN reported.completion
                 ELSE IF reported.total # Null THEN reported.total - prompt ELSE Null
  IN Usage(IF reported.prompt # Null THEN prompt ELSE PromptEstimate,
           IF claimed = Null \/ (claimed = 0 /\ text > 0) THEN text ELSE claimed)

(* Whether the answer is marked x-relayn-usage-estimated.                  *)
Estimated(reported, text) ==
  \/ reported.total = Null /\ reported.prompt = Null
  \/ reported.completion = Null /\ reported.total = Null
  \/ reported.completion = 0 /\ text > 0

(* The Anthropic adapter keeps its two counters instead of a block.        *)
MeterAnthropic(meter, text) ==
  IF meter.seen THEN Usage(meter.input, meter.output) ELSE Usage(PromptEstimate, text)

-----------------------------------------------------------------------------
(* What one parsed event does to the adapter's locals, and the chunk it    *)
(* yields: text, a finish reason, or nothing.                              *)

Fresh == [text |-> 0, reported |-> NoUsage, chunks |-> <<>>,
          meter |-> [seen |-> FALSE, input |-> 0, output |-> 0]]

Yield(h, chunk) == [h EXCEPT !.chunks = Append(@, chunk)]

(* Keep-alives, [DONE], tool calls, error objects and what is no JSON are  *)
(* "noise": passed over.                                                   *)
HearOpenAi(h, kind) ==
  CASE kind = "text" -> Yield([h EXCEPT !.text = @ + 1], "text")
    [] kind \in {"stop", "length", "tool_calls"} -> Yield(h, kind)
    [] kind \in {"full", "zero", "total", "prompt"} ->
         [h EXCEPT !.reported = UpstreamUsage(kind)]
    [] OTHER -> h

(* "start" is a message_start with usage; "stop", "length" and "zero" are  *)
(* a message_delta with a stop reason and the final output count.          *)
HearAnthropic(h, kind) ==
  CASE kind = "text" -> Yield([h EXCEPT !.text = @ + 1], "text")
    [] kind = "start" -> [h EXCEPT !.meter = [seen |-> TRUE, input |-> 8, output |-> 1]]
    [] kind \in {"stop", "length", "zero"} ->
         Yield([h EXCEPT !.meter = [seen |-> TRUE, input |-> h.meter.input,
                                  output |-> IF kind = "zero" THEN 0 ELSE 9]],
               IF kind = "length" THEN "length" ELSE "stop")
    [] OTHER -> h

Hear(h, kind) ==
  IF setup.adapter = "openai" THEN HearOpenAi(h, kind) ELSE HearAnthropic(h, kind)

MeteredUsage(h) ==
  IF setup.adapter = "openai" THEN ReconcileUsage(h.reported, h.text)
                              ELSE MeterAnthropic(h.meter, h.text)

-----------------------------------------------------------------------------
(* How a call that brings no answer is reported: the code the fallback     *)
(* chain looks at, and the status of a caller who gets it.                 *)

Statuses == {400, 401, 402, 403, 404, 422, 429, 500}

ProviderError(code, status) == [code |-> code, status |-> status]

(* raiseForStatus of the OpenAI adapter.                                   *)
RaiseForStatus(status) ==
  CASE status = 429           -> ProviderError("upstream_rate_limited", 429)
    [] status \in {401, 403}  -> ProviderError("upstream_unauthorized", 502)
    [] status = 402           -> ProviderError("upstream_out_of_credit", 502)
    [] status = 404           -> ProviderError("model_unavailable", 502)
    [] status \in {400, 422}  -> ProviderError("invalid_request", 400)
    [] OTHER                  -> ProviderError("upstream_error", 502)

(* The Anthropic adapter's table does not know 422.                        *)
RaiseInPost(status) ==
  IF status = 422 THEN ProviderError("upstream_error", 502) ELSE RaiseForStatus(status)

(* A transport failure, by the name of the error that reports it.          *)
Unreachable(name) == IF name = "AbortError" THEN ProviderError("upstream_timeout", 504)
                                            ELSE ProviderError("upstream_error", 502)

(* normaliseError, of anything that no adapter has classified.             *)
Unclassified == IF route.gone THEN ProviderError("client_closed_request", 499)
                              ELSE ProviderError("internal_error", 500)

(* isFallbackWorthy: whether another link may be tried.                    *)
IsFallbackWorthy(error) == error.code \notin {"invalid_request", "upstream_unauthorized"}

-----------------------------------------------------------------------------
(* The adapter reads.                                                      *)

(* The text of a script: the last event may have lost its terminator.      *)
Text(script, cut) ==
  LET Unit(k) == CASE k % 4 = 1 -> <<k \div 4 + 1, "head">>
                   [] k % 4 = 2 -> <<k \div 4 + 1, "tail">>
                   [] OTHER     -> Newline
  IN [k \in 1 .. 4 * Len(script) - (IF cut /\ script # <<>> THEN 2 ELSE 0) |-> Unit(k)]

Goto(at) == route' = [route EXCEPT !.at = at]

Opens ==
  /\ route.at = "calling" /\ setup.streamed
  /\ Goto("opening")
  /\ UNCHANGED <<setup, coming, buffer, heard, queue, frames, row>>

(* The call ends here; the chain goes on or not, by IsFallbackWorthy.      *)
Refused(error) ==
  /\ route.at = "calling"
  /\ route' = [route EXCEPT !.at = IF IsFallbackWorthy(error) THEN "advancing" ELSE "refused",
                            !.error = error]
  /\ UNCHANGED <<setup, coming, buffer, heard, queue, frames, row>>

(* buffer.split("\n\n"): the ends of the pieces.                           *)
Separators(text) ==
  {i \in 1 .. Len(text) - 1 : text[i] = Newline /\ text[i + 1] = Newline}

(* The pieces that are a whole event; any other piece does not parse.      *)
Events(text) ==
  {i \in Separators(text) :
     i >= 3 /\ text[i - 2][2] = "head" /\ text[i - 1] = <<text[i - 2][1], "tail">>}

(* The locals after each unit of a text: an event is heard at its end.     *)
Hearing(h, text) ==
  LET after[i \in 0 .. Len(text)] ==
        IF i = 0 THEN h
        ELSE IF i \in Events(text) THEN Hear(after[i - 1], setup.script[text[i - 1][1]])
        ELSE after[i - 1]
  IN after

(* events.pop(): what follows the last separator.                          *)
Unfinished(text) ==
  IF Separators(text) = {} THEN text
  ELSE SubSeq(text, 2 + CHOOSE i \in Separators(text) : \A j \in Separators(text) : j <= i, Len(text))

(* The generator runs until it has yielded all that is complete.           *)
Absorb(text, kept) ==
  LET after == Hearing(heard, text)[Len(text)]
  IN /\ buffer' = kept
     /\ queue' = after.chunks
     /\ heard' = [after EXCEPT !.chunks = <<>>]

Reading == route.at \in {"opening", "streaming"} /\ queue = <<>> /\ ~route.ended

(* Fault: what follows the last separator of a read is dropped.            *)
ReadDropping(n) ==
  /\ Reading
  /\ n \in 1 .. Len(coming)
  /\ Absorb(buffer \o SubSeq(coming, 1, n), <<>>)
  /\ coming' = SubSeq(coming, n + 1, Len(coming))
  /\ UNCHANGED <<setup, route, frames, row>>

(* reader.read(): n units arrive together.                                 *)
Read(n) ==
  /\ Reading
  /\ n \in 1 .. Len(coming)
  /\ LET text == buffer \o SubSeq(coming, 1, n) IN Absorb(text, Unfinished(text))
  /\ coming' = SubSeq(coming, n + 1, Len(coming))
  /\ UNCHANGED <<setup, route, frames, row>>

(* done: what is left in the buffer is dropped; the usage chunk is last.   *)
BodyEnds ==
  /\ Reading /\ coming = <<>>
  /\ queue' = <<"usage">>
  /\ route' = [route EXCEPT !.ended = TRUE]
  /\ UNCHANGED <<setup, coming, buffer, heard, frames, row>>

(* The connection breaks, the 120 s are over, or the client's leaving      *)
(* aborts the read: before the first chunk the caller gets a status, and   *)
(* as the error is not the provider's the chain does not go on.            *)
BodyBreaks ==
  /\ Reading
  /\ route' = IF route.at = "opening"
                THEN [route EXCEPT !.at = "refused", !.error = Unclassified]
                ELSE [route EXCEPT !.at = "broken"]
  /\ UNCHANGED <<setup, coming, buffer, heard, queue, frames, row>>

-----------------------------------------------------------------------------
(* The route passes it on.                                                 *)

Frame(kind) == [kind |-> kind, usage |-> Null]
UsageFrame(kind) == [kind |-> kind, usage |-> route.usage]

Opening == IF setup.dialect = "openai" THEN <<Frame("role")>>
                                       ELSE <<Frame("message_start"), Frame("content_block_start")>>

DeltaFrame == IF setup.dialect = "openai" THEN Frame("delta") ELSE Frame("content_block_delta")

(* stopReason: the reason a caller reads.                                  *)
StopReason(finish) ==
  IF setup.dialect = "openai" THEN finish
  ELSE CASE finish = "length" -> "max_tokens" [] finish = "tool_calls" -> "tool_use"
         [] OTHER -> "end_turn"

Ending ==
  IF setup.dialect = "openai"
    THEN IF setup.includeUsage
           THEN <<Frame(StopReason(route.finish)), UsageFrame("usage"), Frame("DONE")>>
           ELSE <<Frame(StopReason(route.finish)), Frame("DONE")>>
    ELSE <<Frame("content_block_stop"), UsageFrame(StopReason(route.finish)), Frame("message_stop")>>

Apology == IF setup.dialect = "openai" THEN <<Frame("error"), Frame("DONE")>> ELSE <<Frame("error")>>

(* enqueue throws once the client has gone; the handler's catch comes next.*)
Send(sent, at) ==
  IF route.gone
    THEN Goto("broken") /\ UNCHANGED frames
    ELSE frames' = frames \o sent /\ Goto(at)

(* openStreamWithFallback has its first chunk: the response begins.        *)
Begin ==
  /\ route.at = "opening" /\ queue # <<>>
  /\ Send(Opening, "streaming")
  /\ UNCHANGED <<setup, coming, buffer, heard, queue, row>>

(* for await: one chunk.                                                   *)
Consume ==
  /\ route.at = "streaming" /\ queue # <<>>
  /\ queue' = Tail(queue)
  /\ CASE Head(queue) = "text"  -> Send(<<DeltaFrame>>, "streaming")
       [] Head(queue) = "usage" -> /\ route' = [route EXCEPT !.usage = MeteredUsage(heard)]
                                   /\ UNCHANGED frames
       [] OTHER                 -> /\ route' = [route EXCEPT !.finish = Head(queue)]
                                   /\ UNCHANGED frames
  /\ UNCHANGED <<setup, coming, buffer, heard, row>>

EndStream ==
  /\ route.at = "streaming" /\ queue = <<>> /\ route.ended
  /\ Send(Ending, "ending")
  /\ UNCHANGED <<setup, coming, buffer, heard, queue, row>>

(* Fault: an error frame, and then the end every stream gets.              *)
ApologizeAndEnd ==
  /\ route.at = "broken"
  /\ frames' = IF route.gone THEN frames ELSE frames \o Apology \o Ending
  /\ route' = [route EXCEPT !.at = "ending", !.failed = TRUE]
  /\ UNCHANGED <<setup, coming, buffer, heard, queue, row>>

(* Fault: the usage row of a broken stream is written as of one that ended.*)
ApologizeBilling ==
  /\ route.at = "broken"
  /\ frames' = IF route.gone THEN frames ELSE frames \o Apology
  /\ Goto("ending")
  /\ UNCHANGED <<setup, coming, buffer, heard, queue, row>>

(* catch: the error is the last the client hears, if it still listens.     *)
Apologize ==
  /\ route.at = "broken"
  /\ frames' = IF route.gone THEN frames ELSE frames \o Apology
  /\ route' = [route EXCEPT !.at = "ending", !.failed = TRUE]
  /\ UNCHANGED <<setup, coming, buffer, heard, queue, row>>

(* finally: recordUsage, awaited before the stream is closed.              *)
Account ==
  /\ route.at = "ending"
  /\ row' = [status |-> IF route.failed THEN "error" ELSE "success",
             usage |-> route.usage, billed |-> ~route.failed]
  /\ Goto("closed")
  /\ UNCHANGED <<setup, coming, buffer, heard, queue, frames>>

(* The usage of an unstreamed answer, and whether it is estimated, which    *)
(* only the OpenAI dialect tells the caller.                               *)
WholeOpenAi(text, kind) ==
  <<ReconcileUsage(UpstreamUsage(kind), text), Estimated(UpstreamUsage(kind), text)>>

WholeAnthropic(text, kind) ==
  LET reported == UpstreamUsage(kind)
      seen == reported.prompt # Null
      output == IF reported.completion # Null THEN reported.completion ELSE 0
  IN <<MeterAnthropic([seen |-> seen, input |-> 8, output |-> output], text), ~seen>>

(* recordUsage, then the response.                                         *)
AnswerWhole(text, kind) ==
  LET whole == IF setup.adapter = "openai" THEN WholeOpenAi(text, kind) ELSE WholeAnthropic(text, kind)
  IN /\ route.at = "calling" /\ ~setup.streamed
     /\ heard' = [Fresh EXCEPT !.text = text, !.reported = UpstreamUsage(kind)]
     /\ row' = [status |-> "success", usage |-> whole[1], billed |-> TRUE]
     /\ frames' = <<[kind |-> IF whole[2] /\ setup.dialect = "openai" THEN "estimated" ELSE "answer",
                      usage |-> whole[1]]>>
     /\ Goto("closed")
     /\ UNCHANGED <<setup, coming, buffer, queue>>

ClientGoes ==
  /\ setup.streamed /\ route.at \in {"opening", "streaming"} /\ ~route.gone
  /\ route' = [route EXCEPT !.gone = TRUE]
  /\ UNCHANGED <<setup, coming, buffer, heard, queue, frames, row>>

-----------------------------------------------------------------------------
Setups ==
  [adapter : Adapters, dialect : Adapters, streamed : BOOLEAN, includeUsage : BOOLEAN,
   cut : BOOLEAN, script : UNION {Scripts[a] : a \in Adapters}]

WireInit ==
  /\ setup \in {s \in Setups : s.script \in Scripts[s.adapter]}
  /\ coming = Text(setup.script, setup.cut) /\ buffer = <<>>
  /\ heard = Fresh /\ queue = <<>>
  /\ route = [at |-> "calling", error |-> Null, usage |-> Usage(0, 0), finish |-> "stop",
              ended |-> FALSE, gone |-> FALSE, failed |-> FALSE]
  /\ frames = <<>> /\ row = Null

WireNext ==
  \/ Opens
  \/ \E status \in Statuses : Refused(IF setup.adapter = "openai" THEN RaiseForStatus(status)
                                                            ELSE RaiseInPost(status))
  \/ \E name \in {"AbortError", "TimeoutError", "TypeError"} : Refused(Unreachable(name))
  \/ \E n \in 1 .. Len(coming) : Read(n)
  \/ BodyEnds \/ BodyBreaks \/ Begin \/ Consume \/ EndStream \/ Apologize \/ Account
  \/ \E text \in 0 .. 1, kind \in {"full", "zero", "total", "prompt", "none"} : AnswerWhole(text, kind)
  \/ ClientGoes

-----------------------------------------------------------------------------
Deltas == Cardinality({i \in DOMAIN frames : frames[i] = DeltaFrame})
Ended == route.at = "closed" /\ setup.streamed /\ ~route.failed

(* What one reader who had the whole text at once would have heard.        *)
Reference == LET text == Text(setup.script, setup.cut) IN Hearing(Fresh, text)[Len(text)]

(* Wherever the network ends its reads, inside an event, between its two   *)
(* newlines, many events at once, a stream that ends well has brought the  *)
(* client every delta, and the usage row and the client every token, that  *)
(* one read of the whole body would have brought.                          *)
ReadsDoNotMatter ==
  Ended => Deltas = Reference.text /\ row.usage = MeteredUsage(Reference)

(* "Metering that as written understates ... the allocation the caller has *)
(* genuinely spent" (openai-compatible.ts): no answer with text is billed  *)
(* with zero output, whatever block the upstream published.                *)
TextIsMetered ==
  row # Null /\ row.billed /\ setup.adapter = "openai" /\ heard.text > 0 => row.usage.output > 0

(* The caller reads the counts that are billed, and is never billed for a  *)
(* stream that broke or whose end it did not get.                          *)
ToldIsBilled ==
  row # Null =>
    /\ \A i \in DOMAIN frames : frames[i].usage # Null /\ row.billed => frames[i].usage = row.usage
    /\ row.billed /\ setup.streamed => SubSeq(frames, Len(frames) - Len(Ending) + 1, Len(frames)) = Ending

MeteringIsHonest == ReadsDoNotMatter /\ TextIsMetered /\ ToldIsBilled

(* What a client has read is at every moment a prefix of a well-formed     *)
(* stream of its dialect, ended by one terminator and nothing after it:    *)
(* a stream that broke says so once, after whatever deltas it had brought. *)
FramesFollowTheDialect ==
  frames # <<>> /\ setup.streamed =>
    LET body == SubSeq(frames, Len(Opening) + 1, Len(frames))
        Deltaic(n) == [i \in 1 .. n |-> DeltaFrame]
    IN /\ IsPrefix(Opening, frames)
       /\ \/ body = Deltaic(Len(body))
          \/ \E tail \in {Ending, Apology} :
               body = Deltaic(Len(body) - Len(tail)) \o tail /\ route.at \in {"ending", "closed"}
       /\ route.at = "closed" /\ ~route.gone => body # Deltaic(Len(body))
=============================================================================
