------------------------------- MODULE ChatTurn -------------------------------
(***************************************************************************)
(* A Conversation (conversation.py) with its window manager (session.py,   *)
(* history.py) over one Agent (agent.py: analyze, analyze_stream and       *)
(* analyze_image), its safety guard (security/guard.py, moderation.py,     *)
(* scope.py) and its masking provider (pii/masking_provider.py).           *)
(*                                                                         *)
(* Calls of one event loop interleave wherever the code awaits: at the     *)
(* summarizer, at a moderation backend, at the vendor.  They share the     *)
(* conversation's messages and the provider's vault.  Budget and usage of  *)
(* the same methods are in AgentMetering.                                  *)
(***************************************************************************)
EXTENDS PiiFirewall

CONSTANTS
  Calls,        \* calls made on the agent, each of them once
  Texts,        \* what users write
  Configs,      \* the agents and conversations examined
  MaxReply      \* pieces of one reply of the vendor

ASSUME ChatTurnAssumption ==
  /\ IsFiniteSet(Calls) /\ MaxReply \in Nat \ {0}
  /\ \A t \in Texts : t \in Seq(STRING)
  /\ \A g \in Configs : g.keep \in Nat /\ g.manager \in {"none", "sliding", "summarizing"}
  /\ \A g \in Configs : g.manager = "sliding" => g.keep # 0

(* Users do not write the closing bracket (firewall.py:31-33).            *)
BracketsAreReserved == \A t \in Texts : \A k \in DOMAIN t : t[k] # Close

VARIABLES
  config,       \* policies, guard and manager, as built
  messages,     \* Conversation.messages
  vault,        \* MaskingProvider._vault
  call,         \* the calls' control states and locals
  wire,         \* what leaves the process in this step: for whom, and which texts
  turns         \* ghost: the turns taken since the conversation began

chatVars == <<config, messages, vault, call, wire, turns>>

Policy == ResolvePolicy(config.company, config.agent, config.env)
Guarded == config.guard # "none"
Shadow == config.guard = "shadow"

(***************************************************************************)
(* Messages.  A flat one has only text; a block one may carry tool calls   *)
(* or results by their ids.  `of' is ghost: the turns it stands for.       *)
(***************************************************************************)
Message(role, text, uses, results, flat, of) ==
  [role |-> role, text |-> text, uses |-> uses, results |-> results, flat |-> flat, of |-> of]
Flat(role, text, of) == Message(role, text, {}, {}, TRUE, of)
TextsOf(ms) == [i \in DOMAIN ms |-> ms[i].text]

Uses(ms) == UNION {m.uses : m \in Range(ms)}
Results(ms) == UNION {m.results : m \in Range(ms)}
Empty(m) == ~m.flat /\ m.text = <<>> /\ m.uses = {} /\ m.results = {}

NotEmpty(ms) ==
  LET kept[i \in 0 .. Len(ms)] ==
        IF i = 0 THEN <<>>
        ELSE IF Empty(ms[i]) THEN kept[i - 1] ELSE Append(kept[i - 1], ms[i])
  IN  kept[Len(ms)]

Unbalanced(ms) == ms
Pruned(m, ms) == Message(m.role, m.text, m.uses \cap Results(ms), m.results \cap Uses(ms), m.flat, m.of)
BalanceToolTurns(ms) == NotEmpty([i \in DOMAIN ms |-> Pruned(ms[i], ms)])

(* The stored shape drops the difference between a flat message and one    *)
(* with a single text block, and comes back as the flat one.               *)
ToStored(ms) == [i \in DOMAIN ms |-> [m |-> ms[i], tools |-> ms[i].uses \cup ms[i].results # {}]]
FromStored(stored) == [i \in DOMAIN stored |-> [stored[i].m EXCEPT !.flat = ~stored[i].tools]]

LastOnes(ms, n) == SubSeq(ms, Len(ms) - n + 1, Len(ms))
Slide(ms) ==
  IF Len(ms) <= config.keep THEN ms ELSE BalanceToolTurns(LastOnes(ms, config.keep))

Triggers(ms) == config.manager = "summarizing" /\ Len(ms) > config.keep + 1
HeadOf(ms) == SubSeq(ms, 1, Len(ms) - config.keep)
(* The summary keeps everything that was said: the worst case.             *)
Summary(ms) == Flat("user", FlattenSeq(TextsOf(ms)), UNION {m.of : m \in Range(ms)})

Summarized(ms) == BalanceToolTurns(<<Summary(HeadOf(ms))>> \o LastOnes(ms, config.keep))

Managed(ms) == IF config.manager = "sliding" THEN Slide(ms) ELSE ms

(***************************************************************************)
(* The state of a call.                                                    *)
(***************************************************************************)
Waiting == [pc |-> "idle", kind |-> "none", input |-> <<>>, sent |-> <<>>, judged |-> <<>>,
            reply |-> <<>>, at |-> 0, held |-> <<>>, shown |-> <<>>, backend |-> "openai"]
Over(how) == [Waiting EXCEPT !.pc = how]
Sending(to, texts, image) == [to |-> to, texts |-> texts, image |-> image]
Leaves(to, texts, image) == wire' = Sending(to, texts, image)
Silence == Sending("nobody", <<>>, FALSE)
Silent == wire' = Silence

(* A history a host may seed: a question, two parallel tool calls, their   *)
(* results and the answer, as the agent loop leaves them.                  *)
Seeds ==
  <<Message("user", <<"w">>, {}, {}, FALSE, {}), Message("assistant", <<>>, {1, 2}, {}, FALSE, {}),
    Message("user", <<>>, {}, {1, 2}, FALSE, {}), Message("assistant", <<"w">>, {}, {}, FALSE, {})>>

ChatInit ==
  /\ config \in Configs
  /\ messages = IF config.seeded THEN Seeds ELSE <<>>
  /\ vault = NewVault
  /\ call = [c \in Calls |-> Waiting]
  /\ wire = Silence
  /\ turns = {}

InFlight(c) == call[c].pc \notin {"idle", "done", "failed", "refused"}
Becomes(c, r) == call' = [call EXCEPT ![c] = r]
Fails(c) == Becomes(c, Over("failed"))
Alone(c) == config.overlap \/ \A d \in Calls \ {c} : ~InFlight(d)
Kept == UNCHANGED <<messages, turns>>

(***************************************************************************)
(* Calls.  Each copies what it is to send (list(messages) for a chat) and  *)
(* runs up to its first await.                                             *)
(***************************************************************************)
Analyze(r, ms) == [r EXCEPT !.pc = IF Guarded THEN "input" ELSE "ready", !.input = ms]
GivenByReference(c) == IF call[c].kind = "send" THEN messages ELSE call[c].input
Given(c) == call[c].input

Send(c, text) ==
  /\ call[c].pc = "idle" /\ Alone(c)
  /\ LET own == Flat("user", text, {<<c, "user">>})
         ms == Append(messages, own)
         r == [Waiting EXCEPT !.kind = "send"]
     IN  /\ turns' = turns \cup own.of
         /\ messages' = Managed(ms)
         /\ Becomes(c, IF Triggers(ms) THEN [r EXCEPT !.pc = "summary", !.input = ms]
                       ELSE Analyze(r, Managed(ms)))
  /\ Silent /\ UNCHANGED <<config, vault>>

(* The list that comes back replaces whatever messages is by then.         *)
SummaryArrives(c) ==
  /\ call[c].pc = "summary"
  /\ LET short == Summarized(call[c].input)
     IN  messages' = short /\ Becomes(c, Analyze(call[c], short))
  /\ Silent /\ UNCHANGED <<config, vault, turns>>

SummaryFails(c) ==
  /\ call[c].pc = "summary"
  /\ Fails(c)
  /\ Silent /\ UNCHANGED <<config, messages, vault, turns>>

(* analyze_stream and analyze_image of a text that is not in the chat.     *)
Apart(c, kind, text) ==
  /\ call[c].pc = "idle" /\ Alone(c)
  /\ Becomes(c, Analyze([Waiting EXCEPT !.kind = kind], <<Flat("user", text, {})>>))
  /\ Silent /\ UNCHANGED <<config, messages, vault, turns>>
AnalyzeStream(c, text) == Apart(c, "stream", text)
AnalyzeImage(c, text) == Apart(c, "image", text)

Quiet == \A c \in Calls : ~InFlight(c)
Reset ==
  /\ Quiet /\ messages # <<>>
  /\ messages' = <<>> /\ turns' = {}
  /\ Silent /\ UNCHANGED <<config, vault, call>>

(* The host stores the chat and goes on with a new Conversation.           *)
Resume ==
  /\ Quiet /\ messages # FromStored(ToStored(messages))
  /\ messages' = FromStored(ToStored(messages))
  /\ Silent /\ UNCHANGED <<config, vault, call, turns>>

(***************************************************************************)
(* Masking: a plugin detector may raise.  Under enforce and strict that    *)
(* ends the call before anything leaves; under detect-only it leaves raw.  *)
(***************************************************************************)
Masking(ok, v, texts) == [ok |-> ok, vault |-> v, texts |-> texts]
Maskings(texts) ==
  LET raw == Masking(TRUE, vault, texts)
      masked == MaskPayload(vault, texts)
  IN  IF ~IsActive(Policy) THEN {raw}
      ELSE {Masking(TRUE, masked.vault, masked.texts)} \cup
           (IF ~config.plugin THEN {}
            ELSE IF FailsClosed(Policy) THEN {Masking(FALSE, vault, <<>>)} ELSE {raw})

Restored(text) == IF IsActive(Policy) THEN RestoreText(vault, text) ELSE text

(***************************************************************************)
(* Screening.  The injection filter may refuse an input; then the chain of *)
(* moderation backends is asked, and the first that answers decides.       *)
(***************************************************************************)
Judged(c) == IF call[c].pc = "input" THEN TextsOf(Given(c)) ELSE <<call[c].shown>>
Awaits(c) == Guarded /\ call[c].pc \in {"input", "output"}

Returned(c) ==
  /\ Becomes(c, Over("done"))
  /\ IF call[c].kind = "send"
     THEN /\ messages' = Append(messages, Flat("assistant", call[c].shown, {<<c, "assistant">>}))
          /\ turns' = turns \cup {<<c, "assistant">>}
     ELSE Kept

(* A stream cannot be taken back: what its screens say is only logged.     *)
TurnedDown(c) ==
  IF call[c].pc # "input" /\ call[c].kind = "stream" THEN Returned(c)
  ELSE Becomes(c, Over("refused")) /\ Kept

AfterInput(c) == IF call[c].kind = "image" THEN "picture" ELSE "ready"
Passes(c) ==
  IF call[c].pc = "output" /\ ~config.scope THEN Returned(c)
  ELSE /\ Becomes(c, [call[c] EXCEPT !.judged = Judged(c), !.backend = "openai",
                                     !.pc = IF @ = "input" THEN AfterInput(c) ELSE "scope"])
       /\ Kept
Flagged(c) == IF Shadow THEN Passes(c) ELSE TurnedDown(c)

InjectionFound(c) ==
  /\ Awaits(c) /\ call[c].pc = "input" /\ call[c].backend = "openai" /\ ~Shadow
  /\ TurnedDown(c)
  /\ Silent /\ UNCHANGED <<config, vault>>

NextBackend(c) == Becomes(c, [call[c] EXCEPT !.backend = "llm"]) /\ Kept

OpenAIModerates(c) ==
  /\ Awaits(c) /\ call[c].backend = "openai"
  /\ IF config.key
     THEN /\ Leaves("moderation", Judged(c), FALSE)
          /\ Passes(c) \/ Flagged(c) \/ NextBackend(c)
     ELSE Silent /\ NextBackend(c)
  /\ UNCHANGED <<config, vault>>

(* Every backend failed: shadow mode makes no difference here.             *)
NoBackend(c) == IF config.guard = "open" THEN Passes(c) ELSE TurnedDown(c)

ClassifierModerates(c) ==
  /\ Awaits(c) /\ call[c].backend = "llm"
  /\ \E m \in Maskings(Judged(c)) :
       /\ vault' = m.vault
       /\ IF m.ok THEN Leaves("provider", m.texts, FALSE) ELSE Silent
       /\ NoBackend(c) \/ (m.ok /\ (Passes(c) \/ Flagged(c)))
  /\ UNCHANGED config

(* The scope guard is soft: it lets through what it cannot judge.          *)
ScopeChecks(c) ==
  /\ call[c].pc = "scope"
  /\ \E m \in Maskings(<<call[c].shown>>) :
       /\ vault' = m.vault
       /\ IF m.ok THEN Leaves("provider", m.texts, FALSE) ELSE Silent
       /\ Returned(c) \/ (m.ok /\ ~Shadow /\ TurnedDown(c))
  /\ UNCHANGED config

(* Pictures are moderated by OpenAI where there is a key; in the posture   *)
(* "auto" an outage, as the lack of a key, lets them pass.                 *)
ScreensImage(c) ==
  /\ call[c].pc = "picture"
  /\ IF config.key THEN Leaves("moderation", <<>>, TRUE) ELSE Silent
  /\ \/ Becomes(c, [call[c] EXCEPT !.pc = "ready"])
     \/ config.key /\ ~Shadow /\ Becomes(c, Over("refused"))
  /\ Kept /\ UNCHANGED <<config, vault>>

(***************************************************************************)
(* The vendor, behind the masking provider.                                *)
(***************************************************************************)
Blocked(c) == call[c].kind = "image" /\ ~AllowVision(Policy, config.hatch)

Ask(c) ==
  /\ call[c].pc = "ready" /\ ~Blocked(c)
  /\ \E m \in Maskings(TextsOf(Given(c))) :
       /\ vault' = m.vault
       /\ IF m.ok
          THEN /\ Leaves("provider", m.texts, call[c].kind = "image")
               /\ Becomes(c, [call[c] EXCEPT !.pc = "model", !.sent = m.texts, !.input = Given(c)])
          ELSE Silent /\ Fails(c)
  /\ Kept /\ UNCHANGED config

ImageBlocked(c) ==
  /\ call[c].pc = "ready" /\ Blocked(c)
  /\ Fails(c)
  /\ Kept /\ Silent /\ UNCHANGED <<config, vault>>

VendorFails(c) ==
  /\ call[c].pc \in {"model", "stream"}
  /\ Fails(c)
  /\ Kept /\ Silent /\ UNCHANGED <<config, vault>>

(* A reply uses the placeholders of its request, words, and now and then   *)
(* a bracket of its own.                                                   *)
Pieces(c) ==
  {<<"w">>, <<Open>>} \cup
  {t \in {Token(m) : m \in Range(vault)} : \E s \in Range(call[c].sent) : Occurs(s, t)}
Replies(c) == {FlattenSeq(ps) : ps \in UNION {[1 .. n -> Pieces(c)] : n \in 1 .. MaxReply}}

VendorReplies(c) ==
  /\ call[c].pc = "model" /\ call[c].kind # "stream"
  /\ \E text \in Replies(c) :
       Becomes(c, [call[c] EXCEPT !.pc = "output", !.shown = Restored(text)])
  /\ Kept /\ Silent /\ UNCHANGED <<config, vault>>

VendorStreams(c) ==
  /\ call[c].pc = "model" /\ call[c].kind = "stream"
  /\ \E text \in Replies(c) : Becomes(c, [call[c] EXCEPT !.pc = "stream", !.reply = text])
  /\ Kept /\ Silent /\ UNCHANGED <<config, vault>>

Pushed(held, delta) ==
  IF IsActive(Policy) THEN Push(vault, held, delta) ELSE [held |-> <<>>, out |-> delta]

ChunkArrives(c) ==
  /\ call[c].pc = "stream"
  /\ \E to \in call[c].at + 1 .. Len(call[c].reply) :
       LET p == Pushed(call[c].held, SubSeq(call[c].reply, call[c].at + 1, to))
       IN  Becomes(c, [call[c] EXCEPT !.at = to, !.held = p.held, !.shown = @ \o p.out])
  /\ Kept /\ Silent /\ UNCHANGED <<config, vault>>

StreamEnds(c) ==
  /\ call[c].pc = "stream" /\ call[c].at = Len(call[c].reply)
  /\ Becomes(c, [call[c] EXCEPT !.pc = "output", !.shown = @ \o Flush(vault, call[c].held)])
  /\ Kept /\ Silent /\ UNCHANGED <<config, vault>>

Unscreened(c) ==
  /\ ~Guarded /\ call[c].pc = "output"
  /\ Returned(c)
  /\ Silent /\ UNCHANGED <<config, vault>>

ChatNext ==
  \/ Reset \/ Resume
  \/ \E c \in Calls, text \in Texts : Send(c, text) \/ AnalyzeStream(c, text) \/ AnalyzeImage(c, text)
  \/ \E c \in Calls :
       \/ SummaryArrives(c) \/ SummaryFails(c)
       \/ InjectionFound(c) \/ OpenAIModerates(c) \/ ClassifierModerates(c)
       \/ ScopeChecks(c) \/ ScreensImage(c)
       \/ Ask(c) \/ ImageBlocked(c) \/ VendorFails(c) \/ VendorReplies(c)
       \/ VendorStreams(c) \/ ChunkArrives(c) \/ StreamEnds(c) \/ Unscreened(c)

ChatSpec == ChatInit /\ [][ChatNext]_chatVars

(***************************************************************************)
(* Properties.                                                             *)
(***************************************************************************)

(* Once company or agent ask for enforce or strict, no vendor is sent a    *)
(* declared value or one a rule matches, nor a picture without the         *)
(* agent's leave, whatever else fails: a looser setting on the other side, *)
(* a detector that raises, another call in between (masking_provider.py    *)
(* and policy.py:77).                                                      *)
NothingRaw ==
  wire.to = "provider" /\ (\E p \in {config.company, config.agent} : FailsClosed(p)) =>
    /\ \A i \in DOMAIN wire.texts : ~Raw(wire.texts[i])
    /\ wire.image => config.hatch /\ "strict" \notin {config.company, config.agent}

(* While a request is out, its masked texts read back as what was given,   *)
(* with a vault the other call has added to, and the same text has the     *)
(* same placeholders in every request (firewall.py:45-52).                 *)
EchoesBack ==
  IsActive(Policy) /\ ~config.plugin =>
    \A c, d \in Calls :
      \A i \in DOMAIN call[c].sent :
        /\ RestoreText(vault, call[c].sent[i]) = call[c].input[i].text
        /\ \A j \in DOMAIN call[d].sent :
             call[d].input[j].text = call[c].input[i].text => call[d].sent[j] = call[c].sent[i]

(* A stream shows, when it has ended, what the whole reply would have been *)
(* restored to, however it was cut into chunks (firewall.py:287-320).      *)
ShownAsWritten ==
  \A c \in Calls : call[c].kind = "stream" /\ call[c].pc \in {"output", "scope"} =>
    call[c].shown = Restored(call[c].reply)

(* The two directions of the firewall agree: what went out masked comes    *)
(* back as it was, at once or in pieces (TokenVault, StreamRestorer).      *)
RestoredFaithfully == EchoesBack /\ ShownAsWritten

(* What was judged harmless is what is sent, though other calls change the *)
(* conversation while the judges are asked (agent.py:358-374).             *)
ScreenedIsSent ==
  config.guard = "on" =>
    \A c \in Calls : call[c].pc \in {"model", "stream"} => call[c].judged = TextsOf(call[c].input)

(* As long as one send waits for the other, no turn leaves a conversation  *)
(* that does not slide: it is there or in the summary, also after refusals *)
(* and after being stored and resumed (conversation.py:59-74).             *)
NoTurnForgotten ==
  config.manager # "sliding" /\ ~config.overlap =>
    turns = UNION {m.of : m \in Range(messages)}

(* Every request of a chat pairs tool calls and results, next to each      *)
(* other, wherever the window cut; it keeps to the window; and it ends     *)
(* with the question that is asked (history.py:103, session.py:43-50).     *)
Paired(ms) ==
  \A i \in DOMAIN ms :
    /\ ms[i].uses # {} => i < Len(ms) /\ ms[i + 1].results = ms[i].uses
    /\ ms[i].results # {} => i > 1 /\ ms[i - 1].uses = ms[i].results
RequestIsWhole ==
  \A c \in Calls : call[c].kind = "send" /\ call[c].pc \in {"ready", "model"} =>
    LET ms == call[c].input
    IN  /\ Paired(ms)
        /\ config.manager # "none" => Len(ms) <= config.keep + 1
        /\ config.manager = "sliding" => Len(ms) <= config.keep
        /\ Last(ms).of = {<<c, "user">>}

(* Windows, summaries and refusals neither lose a turn nor tear one apart  *)
(* (Conversation.send with its managers).                                  *)
HistoryIsKept == NoTurnForgotten /\ RequestIsWhole
===============================================================================
