------------------------------ MODULE VendorTurn ------------------------------
(***************************************************************************)
(* The road of one tool-calling conversation between the agent loop and a  *)
(* vendor: the three dialects of src/smart_llm/providers, the masking      *)
(* wrapper around them (pii/masking_provider.py) and the half of           *)
(* run_agent_loop(_stream) that turns what arrives back into tool calls    *)
(* and what was answered back into history.                                *)
(*                                                                         *)
(* The vendor speaks in small pieces (Text, the *Chunk actions, Finish);   *)
(* each piece runs the whole chain before the next is read, for provider,  *)
(* wrapper and loop are generators of one task.  `sent' remembers what the *)
(* vendor meant; everything else is what the code keeps.                   *)
(***************************************************************************)
EXTENDS Integers, Sequences, FiniteSets, SequencesExt

CONSTANTS
  Tools,        \* names of the tools on offer
  MaxCalls,     \* calls of one turn
  MaxText,      \* text deltas of one turn
  MaxTurns      \* max_iterations of the loop

ASSUME VendorTurnAssumption ==
  /\ MaxCalls \in Nat \ {0} /\ MaxText \in Nat /\ MaxTurns \in Nat \ {0}
  /\ IsFiniteSet(Tools)

VARIABLES
  config,       \* who is called, how, behind what
  phase,        \* "request", "wire", "dispatch", "done"
  turn,         \* the iteration under way
  sent,         \* ghost: the calls the vendor made in this turn
  said,         \* ghost: the text deltas it sent
  meta,         \* block_meta / index_to_id: index -> id of the call
  pipe,         \* wrapper and loop: restorers, held text, events, partial calls
  messages,     \* the loop's history, in the shape of the vendor's builders
  request,      \* the history of the last request as the vendor received it
  outcome       \* how the loop ended

turnVars == <<config, phase, turn, sent, said, meta, pipe, messages, request, outcome>>

(* What a call carries: no arguments, arguments, or arguments that hold a  *)
(* value the firewall has replaced in everything the vendor was shown.     *)
Kinds == {"none", "plain", "private"}
Parts == {"head", "tail", "whole", "real"}

(* An id is the vendor's, or made up by the provider from the index of the *)
(* call (OpenAI) or from tool and counter (Gemini); Gemini's plain call    *)
(* leaves it None.                                                         *)
Id(by, t, n, tool) == [by |-> by, turn |-> t, n |-> n, tool |-> tool]
VendorId(n) == Id("vendor", turn, n, "any")
NoId == Id("none", 0, 0, "any")
Ids == [by : {"vendor", "index", "counter", "none"}, turn : 0 .. MaxTurns,
        n : 0 .. MaxCalls, tool : Tools \cup {"any"}]

Message(role, of, refs) == [role |-> role, of |-> of, refs |-> refs]

Streams == config.stream
Masked == config.masked
Says(v) == phase = "wire" /\ Streams /\ config.vendor = v

(***************************************************************************)
(* The masking wrapper.  A StreamRestorer holds back a piece that ends in  *)
(* an opened placeholder until the rest of it has come; Restored swaps a   *)
(* complete one for the value.                                             *)
(***************************************************************************)
Piece(c, part) == [call |-> c, part |-> part]
Dangling(p) == p.part = "head" /\ sent[p.call].kind = "private"
Literal(s) == Len(s) = 2 /\ s[1].part = "head" /\ s[2] = Piece(s[1].call, "tail") /\ Dangling(s[1])
Restored(s) == IF Literal(s) THEN <<Piece(s[1].call, "real")>> ELSE s

Event(type, id, name, content) == [type |-> type, id |-> id, name |-> name, content |-> content]
Began(id, name) == Event("tool_use_start", id, name, <<>>)
Delta(id, s) == Event("tool_use_input_delta", id, "any", s)
Stop(id) == Event("tool_use_stop", id, "any", <<>>)
Words(s) == Event("text_delta", NoId, "any", s)
Complete(reason) == Event("turn_complete", NoId, reason, <<>>)
Failure == Event("error", NoId, "any", <<>>)

(* Text is told apart only as far as a placeholder can be cut in two.      *)
RestoredText(s) == IF s = <<"open", "close">> THEN <<"value">> ELSE s
NonEmpty(e) == IF e.content = <<>> THEN <<>> ELSE <<e>>

(* What MaskingProvider.stream_with_tools yields for one event.            *)
Unwrapped(st, e) == [st |-> st, out |-> <<e>>]

WrapText(st, e) ==
  LET buf == st.held \o e.content
  IN  IF Last(buf) = "open"
      THEN [st |-> [st EXCEPT !.held = <<"open">>], out |-> NonEmpty(Words(Front(buf)))]
      ELSE [st |-> [st EXCEPT !.held = <<>>], out |-> <<Words(RestoredText(buf))>>]

WrapStart(st, e) ==
  [st  |-> [st EXCEPT !.restorers = [i \in DOMAIN @ \cup {e.id} |->
                                       IF i = e.id THEN <<>> ELSE @[i]]],
   out |-> <<e>>]

WrapDelta(st, e) ==
  LET buf == st.restorers[e.id] \o e.content
  IN  IF Dangling(Last(buf))
      THEN [st  |-> [st EXCEPT !.restorers[e.id] = <<Last(buf)>>],
            out |-> NonEmpty(Delta(e.id, Front(buf)))]
      ELSE [st |-> [st EXCEPT !.restorers[e.id] = <<>>], out |-> <<Delta(e.id, Restored(buf))>>]

WrapStop(st, e) ==
  [st  |-> [st EXCEPT !.restorers = [i \in DOMAIN @ \ {e.id} |-> @[i]]],
   out |-> NonEmpty(Delta(e.id, Restored(st.restorers[e.id]))) \o <<e>>]

WrapEndForgets(st, e) == [st |-> st, out |-> <<e>>]
WrapEnd(st, e) ==
  [st |-> [st EXCEPT !.held = <<>>], out |-> NonEmpty(Words(RestoredText(st.held))) \o <<e>>]

Wrap(st, e) ==
  CASE ~Masked                                                  -> Unwrapped(st, e)
    [] Masked /\ e.type = "text_delta"                          -> WrapText(st, e)
    [] Masked /\ e.type = "tool_use_start"                      -> WrapStart(st, e)
    [] Masked /\ e.type = "tool_use_input_delta" /\ e.id \in DOMAIN st.restorers -> WrapDelta(st, e)
    [] Masked /\ e.type = "tool_use_stop" /\ e.id \in DOMAIN st.restorers        -> WrapStop(st, e)
    [] Masked /\ e.type = "turn_complete"                       -> WrapEnd(st, e)
    [] OTHER                                                    -> Unwrapped(st, e)

(***************************************************************************)
(* The loop's end: tool_partial is a dictionary, kept as a sequence in the *)
(* order of insertion; a second start of an id begins its entry anew, and  *)
(* a fragment for an id it does not hold is lost.                          *)
(***************************************************************************)
Entered(partial, id) == \E i \in DOMAIN partial : partial[i].id = id
Entry(e) == [id |-> e.id, name |-> e.name, buf |-> <<>>]

Entering(partial, e) ==
  IF Entered(partial, e.id)
  THEN [i \in DOMAIN partial |-> IF partial[i].id = e.id THEN Entry(e) ELSE partial[i]]
  ELSE Append(partial, Entry(e))

Growing(partial, e) ==
  [i \in DOMAIN partial |-> IF partial[i].id = e.id THEN [partial[i] EXCEPT !.buf = @ \o e.content]
                                                   ELSE partial[i]]

Consume(st, e) ==
  LET seen == [st EXCEPT !.events = Append(@, e)]
  IN  CASE e.type = "text_delta"           -> [seen EXCEPT !.shown = @ \o e.content]
        [] e.type = "tool_use_start"       -> [seen EXCEPT !.partial = Entering(@, e)]
        [] e.type = "tool_use_input_delta" -> [seen EXCEPT !.partial = Growing(@, e)]
        [] OTHER                           -> seen

Consumed(st, out) ==
  LET got[i \in 0 .. Len(out)] == IF i = 0 THEN st ELSE Consume(got[i - 1], out[i])
  IN  got[Len(out)]

Deliver(st, e) == Consumed(Wrap(st, e).st, Wrap(st, e).out)
Yields(es) ==
  LET got[i \in 0 .. Len(es)] == IF i = 0 THEN pipe ELSE Deliver(got[i - 1], es[i])
  IN  got[Len(es)]

(* json.loads of the collected fragments: the arguments of one call, with  *)
(* or without placeholders in them, or the {} of an empty or broken text.  *)
NoArgs == [call |-> 0, real |-> TRUE]
Parsed(buf) ==
  IF \E c \in DOMAIN sent : buf \in {<<Piece(c, "head"), Piece(c, "tail")>>, <<Piece(c, "whole")>>,
                                     <<Piece(c, "real")>>}
  THEN LET p == buf[1]
       IN  [call |-> p.call,
            real |-> p.part = "real" \/ ~Masked \/ sent[p.call].kind # "private"]
  ELSE NoArgs

EmptyPipe ==
  [restorers |-> [i \in {} |-> <<>>], held |-> <<>>, events |-> <<>>, partial |-> <<>>,
   shown |-> <<>>]

TurnTypeOK ==
  /\ config \in [vendor : {"anthropic", "openai", "gemini"}, stream : BOOLEAN, masked : BOOLEAN,
                 hint : BOOLEAN, late : BOOLEAN]
  /\ phase \in {"request", "wire", "dispatch", "done"}
  /\ turn \in 1 .. MaxTurns
  /\ sent \in Seq([tool : Tools, kind : Kinds, size : 0 .. 2, open : BOOLEAN])
  /\ Len(sent) <= MaxCalls /\ Len(meta) <= MaxCalls
  /\ said \in Seq({"plain", "open", "close"}) /\ Len(said) <= MaxText
  /\ meta \in Seq(Ids)
  /\ DOMAIN pipe.restorers \subseteq Ids
  /\ \A i \in DOMAIN pipe.partial :
       /\ pipe.partial[i].id \in Ids /\ pipe.partial[i].name \in Tools
       /\ pipe.partial[i].buf \in Seq([call : DOMAIN sent, part : Parts])
  /\ \A m \in Range(messages) : m.role \in {"user", "assistant", "model", "tool"}
  /\ outcome \in {"none", "text", "error", "raised", "cap"}

TurnInit ==
  /\ config \in [vendor : {"anthropic", "openai", "gemini"}, stream : BOOLEAN, masked : BOOLEAN,
                 hint : BOOLEAN, late : BOOLEAN]
  /\ config.late => config.vendor = "openai" /\ config.stream
  /\ config.hint => config.masked    \* without the wrapper it changes nothing
  /\ phase = "request" /\ turn = 1 /\ sent = <<>> /\ said = <<>> /\ meta = <<>>
  /\ pipe = EmptyPipe
  /\ messages = <<Message("user", "ask", <<>>)>>
  /\ request = <<>> /\ outcome = "none"

(***************************************************************************)
(* The request.  _cache_kwargs hands the cache hint to whatever accepts    *)
(* keywords, and the wrapper accepts any: behind it stands a method that   *)
(* knows cached_prefix only at Anthropic.                                  *)
(***************************************************************************)
Forwards == config.hint /\ (config.vendor = "anthropic" \/ Masked)
Accepts == config.vendor = "anthropic" \/ ~Forwards

(* _messages_to_gemini_contents knows two roles of its own.                *)
GeminiRole(m) == [m EXCEPT !.role = IF m.role = "assistant" THEN "model" ELSE "user"]
OnTheWire == IF config.vendor = "gemini" THEN [i \in DOMAIN messages |-> GeminiRole(messages[i])]
             ELSE messages

Ends(how) == phase' = "done" /\ outcome' = how

Ask ==
  /\ phase = "request" /\ Accepts
  /\ phase' = "wire" /\ request' = OnTheWire
  /\ sent' = <<>> /\ said' = <<>> /\ meta' = <<>> /\ pipe' = EmptyPipe
  /\ UNCHANGED <<config, turn, messages, outcome>>

AskIsATypeError ==
  /\ phase = "request" /\ ~Accepts
  /\ Ends("raised")
  /\ UNCHANGED <<config, turn, sent, said, meta, pipe, messages, request>>

(***************************************************************************)
(* What the vendor sends, and the provider's handler of it.                *)
(***************************************************************************)
Frame == UNCHANGED <<config, turn, messages, request>>
Whole(c) == c.size = IF c.kind = "none" THEN 0 ELSE 2
Call(t, k, size, open) == [tool |-> t, kind |-> k, size |-> size, open |-> open]
NextPart(c) == Piece(c, IF sent[c].size = 0 THEN "head" ELSE "tail")

(* A text delta.  An opened placeholder is closed by the next delta.       *)
Text ==
  /\ phase = "wire" /\ Streams /\ Len(said) < MaxText
  /\ \A i \in DOMAIN sent : ~sent[i].open
  /\ \E s \in {"plain", "open", "close"} :
       /\ (s = "close") <=> (said # <<>> /\ Last(said) = "open")
       /\ s = "open" => Masked /\ Len(said) + 1 < MaxText
       /\ said' = Append(said, s)
       /\ pipe' = Yields(<<Words(<<s>>)>>)
  /\ UNCHANGED <<phase, sent, meta, outcome>> /\ Frame

TextIsClosed == said # <<>> => Last(said) # "open"

(* Anthropic opens one content block after another.                        *)
AnthropicStart ==
  /\ Says("anthropic") /\ Len(sent) < MaxCalls /\ TextIsClosed
  /\ \A i \in DOMAIN sent : ~sent[i].open
  /\ \E t \in Tools, k \in Kinds :
       LET id == VendorId(Len(sent) + 1)
       IN  /\ sent' = Append(sent, Call(t, k, 0, TRUE))
           /\ meta' = Append(meta, id)
           /\ pipe' = Yields(<<Began(id, t)>>)
  /\ UNCHANGED <<phase, said, outcome>> /\ Frame

AnthropicDelta ==
  /\ Says("anthropic")
  /\ \E c \in DOMAIN sent :
       /\ sent[c].open /\ ~Whole(sent[c])
       /\ sent' = [sent EXCEPT ![c].size = @ + 1]
       /\ pipe' = Yields(<<Delta(meta[c], <<NextPart(c)>>)>>)
  /\ UNCHANGED <<phase, said, meta, outcome>> /\ Frame

(* The block that max_tokens cut short is stopped as well.                 *)
AnthropicStop ==
  /\ Says("anthropic")
  /\ \E c \in DOMAIN sent :
       /\ sent[c].open
       /\ sent' = [sent EXCEPT ![c].open = FALSE]
       /\ pipe' = Yields(<<Stop(meta[c])>>)
  /\ UNCHANGED <<phase, said, meta, outcome>> /\ Frame

(* OpenAI: the first chunk of an index starts the call, with an id or one  *)
(* made up from the index; any index may continue in the next chunk.       *)
OpenAIStart ==
  /\ Says("openai") /\ Len(sent) < MaxCalls /\ TextIsClosed
  /\ \E t \in Tools, k \in Kinds, named \in BOOLEAN :
       LET n == Len(sent) + 1
           id == IF named THEN VendorId(n) ELSE Id("index", 0, n, "any")
       IN  /\ named \/ config.late
           /\ sent' = Append(sent, Call(t, k, 0, FALSE))
           /\ meta' = Append(meta, id)
           /\ pipe' = Yields(<<Began(id, t)>>)
  /\ UNCHANGED <<phase, said, outcome>> /\ Frame

(* A later chunk that carries an id the index does not have re-maps it.    *)
Route(c) == IF config.late THEN [meta EXCEPT ![c] = VendorId(c)] ELSE meta

OpenAIDelta ==
  /\ Says("openai")
  /\ \E c \in DOMAIN sent :
       /\ ~Whole(sent[c])
       /\ sent' = [sent EXCEPT ![c].size = @ + 1]
       /\ meta' = Route(c)
       /\ pipe' = Yields(<<Delta(meta'[c], <<NextPart(c)>>)>>)
  /\ UNCHANGED <<phase, said, outcome>> /\ Frame

(* Gemini sends a call whole; the provider encodes the arguments with      *)
(* json.dumps, whose default escapes the brackets of a placeholder.        *)
CounterForgotten(t) == Id("counter", 0, 0, t)
Counter(t) == Id("counter", 0, Len(sent) + 1, t)

GeminiCall ==
  /\ Says("gemini") /\ Len(sent) < MaxCalls /\ TextIsClosed
  /\ \E t \in Tools, k \in Kinds, named \in BOOLEAN :
       LET c == Len(sent) + 1
           id == IF named THEN VendorId(c) ELSE Counter(t)
           args == IF k = "none" THEN <<>> ELSE <<Delta(id, <<Piece(c, "whole")>>)>>
       IN  /\ sent' = Append(sent, Call(t, k, IF k = "none" THEN 0 ELSE 2, FALSE))
           /\ pipe' = Yields(<<Began(id, t)>> \o args \o <<Stop(id)>>)
  /\ UNCHANGED <<phase, said, meta, outcome>> /\ Frame

(* The connection breaks, or was never made: an error event ends the loop. *)
Breaks ==
  /\ phase = "wire" /\ Streams
  /\ pipe' = Yields(<<Failure>>)
  /\ Ends("error")
  /\ UNCHANGED <<sent, said, meta>> /\ Frame

(* The reason the vendor gives, and the one the provider reports.          *)
AnthropicReason(reason) == reason
OpenAIReason(reason) == IF reason = "tool_use" THEN "tool_use" ELSE "end_turn"
GeminiReason(reason) == IF sent # <<>> THEN "tool_use" ELSE "end_turn"
Reported(reason) ==
  CASE config.vendor = "anthropic" -> AnthropicReason(reason)
    [] config.vendor = "openai"    -> OpenAIReason(reason)
    [] config.vendor = "gemini"    -> GeminiReason(reason)

Decide(reported) ==
  IF reported = "end_turn" \/ pipe'.partial = <<>>
  THEN Ends("text") ELSE phase' = "dispatch" /\ UNCHANGED outcome

Stops == IF config.vendor = "openai" THEN [c \in DOMAIN meta |-> Stop(meta[c])] ELSE <<>>

Finish ==
  /\ phase = "wire" /\ Streams
  /\ \A c \in DOMAIN sent : ~sent[c].open
  /\ \E reason \in {"tool_use", "end_turn", "length"} :
       /\ reason = "tool_use" => sent # <<>>
       /\ reason = "end_turn" => sent = <<>>
       /\ reason # "length" => TextIsClosed /\ \A c \in DOMAIN sent : Whole(sent[c])
       /\ pipe' = Yields(Stops \o <<Complete(Reported(reason))>>)
       /\ Decide(Reported(reason))
  /\ UNCHANGED <<sent, said, meta>> /\ Frame

(* call_with_tools: the whole turn at once, restored by _restore_turn.     *)
(* Only Anthropic's own reason can differ from what the calls say.         *)
RestoredArgs(c, k) == IF k = "none" THEN <<>>
                      ELSE <<Piece(c, IF Masked /\ k = "private" THEN "real" ELSE "whole")>>

AnswersWith(calls, ids, reported) ==
  /\ phase = "wire" /\ ~Streams
  /\ sent' = [c \in DOMAIN calls |->
                 Call(calls[c][1], calls[c][2], IF calls[c][2] = "none" THEN 0 ELSE 2, FALSE)]
  /\ pipe' = [pipe EXCEPT !.partial = [c \in DOMAIN calls |->
                 [id |-> ids[c], name |-> calls[c][1], buf |-> RestoredArgs(c, calls[c][2])]]]
  /\ Decide(reported)
  /\ UNCHANGED <<said, meta>> /\ Frame

CallsMade == BoundedSeq(Tools \X Kinds, MaxCalls)
VendorIds == [c \in 1 .. MaxCalls |-> VendorId(c)]
ByCalls(calls) == IF calls = <<>> THEN "end_turn" ELSE "tool_use"

AnthropicAnswers ==
  /\ config.vendor = "anthropic"
  /\ \E calls \in CallsMade : \E reason \in {ByCalls(calls), "length"} : AnswersWith(calls, VendorIds, reason)

OpenAIAnswers ==
  /\ config.vendor = "openai"
  /\ \E calls \in CallsMade : AnswersWith(calls, VendorIds, ByCalls(calls))

(* getattr(fc, "id", fc.name) finds the attribute, and None in it.         *)
GeminiAnswers ==
  /\ config.vendor = "gemini"
  /\ \E calls \in CallsMade : AnswersWith(calls, [c \in DOMAIN calls |-> NoId], ByCalls(calls))

(* The API refuses, or OpenAI's arguments are cut short: it raises.        *)
AnswerRaises ==
  /\ phase = "wire" /\ ~Streams
  /\ Ends("raised")
  /\ UNCHANGED <<sent, said, meta, pipe>> /\ Frame

(***************************************************************************)
(* The tools have run (AgentLoop has the inside of this step): the turn    *)
(* and the results, one for each call and in its order, join the history.  *)
(***************************************************************************)
CallIds == [c \in DOMAIN pipe.partial |-> pipe.partial[c].id]
CallNames == [c \in DOMAIN pipe.partial |-> Id("name", 0, 0, pipe.partial[c].name)]

AnthropicTurn == Message("assistant", "calls", CallIds)
OpenAITurn == Message("assistant", "calls", CallIds)
GeminiTurn == Message("model", "calls", CallNames)
AssistantTurn == CASE config.vendor = "anthropic" -> AnthropicTurn
                   [] config.vendor = "openai"    -> OpenAITurn
                   [] config.vendor = "gemini"    -> GeminiTurn

AnthropicResults == <<Message("user", "results", CallIds)>>
OpenAIResultsAsOne == <<Message("tool", "results", CallIds)>>
OpenAIResults == [c \in DOMAIN CallIds |-> Message("tool", "results", <<CallIds[c]>>)]
GeminiResults == <<Message("user", "results", CallNames)>>
ToolResults == CASE config.vendor = "anthropic" -> AnthropicResults
                 [] config.vendor = "openai"    -> OpenAIResults
                 [] config.vendor = "gemini"    -> GeminiResults

Dispatch ==
  /\ phase = "dispatch"
  /\ messages' = Append(messages, AssistantTurn) \o ToolResults
  /\ IF turn = MaxTurns
     THEN Ends("cap") /\ UNCHANGED turn
     ELSE turn' = turn + 1 /\ phase' = "request" /\ UNCHANGED outcome
  /\ sent' = <<>> /\ said' = <<>> /\ meta' = <<>> /\ pipe' = EmptyPipe
  /\ UNCHANGED <<config, request>>

Done == phase = "done" /\ UNCHANGED turnVars

TurnNext ==
  \/ Ask \/ AskIsATypeError \/ Text
  \/ AnthropicStart \/ AnthropicDelta \/ AnthropicStop
  \/ OpenAIStart \/ OpenAIDelta \/ GeminiCall
  \/ Breaks \/ Finish
  \/ AnthropicAnswers \/ OpenAIAnswers \/ GeminiAnswers \/ AnswerRaises \/ Dispatch \/ Done

TurnSpec == TurnInit /\ [][TurnNext]_turnVars

(***************************************************************************)
(* Properties.                                                             *)
(***************************************************************************)

(* The loop runs the calls the vendor made, each once, in their order and  *)
(* with the arguments sent for it, the placeholders in them turned back    *)
(* into values, however the fragments of parallel calls were interleaved   *)
(* and cut (agent_loop.py:755-766); a call cut short runs without any.     *)
(* Left out: ids that come late, and what Restores says of Gemini.         *)
Meant(c) == IF sent[c].kind = "none" \/ ~Whole(sent[c]) THEN NoArgs ELSE [call |-> c, real |-> TRUE]
Escapes == config.vendor = "gemini" /\ Streams /\ Masked
RunAsSent ==
  phase = "dispatch" /\ ~config.late =>
    /\ Len(pipe.partial) = Len(sent)
    /\ \A c \in DOMAIN sent :
         /\ pipe.partial[c].name = sent[c].tool
         /\ LET got == Parsed(pipe.partial[c].buf)
            IN  got = Meant(c) \/ (Escapes /\ got.call = Meant(c).call)

(* Every fragment and every stop the loop is given belongs to a call that  *)
(* was started and not yet stopped, each call is stopped before the turn   *)
(* is complete, and nothing follows its end: what the transports that show *)
(* the events rely on (agent_loop.py:132-160).                             *)
Of(es, type, id) == {i \in DOMAIN es : es[i].type = type /\ es[i].id = id}
BelongsToAnOpenCall(es, i) ==
  /\ \E start \in 1 .. i - 1 : Of(es, "tool_use_start", es[i].id) \cap 1 .. i - 1 = {start}
  /\ Of(es, "tool_use_stop", es[i].id) \cap 1 .. i - 1 = {}
AllStopped(es) ==
  \A start \in DOMAIN es : es[start].type = "tool_use_start" =>
    \E stop \in DOMAIN es : stop > start /\ es[stop] = Stop(es[start].id)
InOrder(es) ==
  \A i \in DOMAIN es :
    /\ es[i].type \in {"tool_use_input_delta", "tool_use_stop"} => BelongsToAnOpenCall(es, i)
    /\ es[i].type \in {"turn_complete", "error"} => i = Len(es)
    /\ es[i].type = "turn_complete" => AllStopped(es)
EventsInOrder == ~config.late => InOrder(pipe.events)

(* The user is shown the text the vendor sent, in order, with every        *)
(* placeholder turned back wherever it was cut, and nothing of it is still *)
(* held back when the turn ends (masking_provider.py:205-218).             *)
Readable(s) ==
  LET read[i \in 0 .. Len(s)] ==
        IF i = 0 THEN <<>>
        ELSE IF Masked /\ s[i] = "close" THEN Append(Front(read[i - 1]), "value")
        ELSE Append(read[i - 1], s[i])
  IN  read[Len(s)]
ShownAsSaid ==
  Streams /\ (phase = "dispatch" \/ outcome = "text") => pipe.shown = Readable(said)

(* What a transport shows of a turn is what the vendor said, in order and  *)
(* whole (stream_with_tools of the wrapper and the loop).                  *)
StreamIsFaithful == TurnTypeOK /\ EventsInOrder /\ ShownAsSaid

(* In every request a turn of calls is followed at once by the answers to  *)
(* exactly these calls, in the shape of the vendor: OpenAI a message for   *)
(* each, the others one message (agent_loop.py:775-801 and the builders).  *)
Answers(ms, i, refs) == i \in DOMAIN ms /\ ms[i].of = "results" /\ ms[i].refs = refs
AnswersFollow ==
  \A p \in DOMAIN request : request[p].of = "calls" =>
    IF config.vendor = "openai"
    THEN \A i \in DOMAIN request[p].refs :
           Answers(request, p + i, <<request[p].refs[i]>>)
    ELSE Answers(request, p + 1, request[p].refs)

(* "The consumer concatenates our restored fragments and parses the        *)
(* assembled (real-value) JSON" (masking_provider.py:155-157).             *)
Restores ==
  phase = "dispatch" => \A c \in DOMAIN pipe.partial : Parsed(pipe.partial[c].buf).real
===============================================================================
