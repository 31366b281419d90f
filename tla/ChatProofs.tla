------------------------------ MODULE ChatProofs ------------------------------
(***************************************************************************)
(* The conversation, for every number of calls: what was judged is what is *)
(* sent, windows and summaries lose no turn and tear none apart, nothing   *)
(* that is to be masked leaves, and what was masked reads back.            *)
(***************************************************************************)
EXTENDS ChatTurn, ProofLemmas

-----------------------------------------------------------------------------
(* Conversations: a call is judged by what it sends. *)

CallFields ==
    {"pc", "kind", "input", "sent", "judged", "reply", "at", "held", "shown", "backend"}
IsCall(r) == DOMAIN r = CallFields /\ r = [f \in CallFields |-> r[f]]

PastScreen == {"picture", "ready", "model", "stream"}
Screened(r) == IsCall(r) /\ (r.pc \in PastScreen => r.judged = TextsOf(r.input))

\* Once past the screen, a call has been judged by what it is to send.
ScreenInv == config.guard = "on" => DOMAIN call = Calls /\ \A c \in Calls : Screened(call[c])

\* A call that begins, or that has ended.
LEMMA CallsAtRest ==
    /\ Screened(Waiting) /\ IsCall(Waiting)
    /\ Screened(Over("done")) /\ Screened(Over("failed")) /\ Screened(Over("refused"))
BY DEF Waiting, Over, Screened, IsCall, CallFields, PastScreen

LEMMA Becoming ==
    ASSUME ScreenInv, config' = config, NEW c \in Calls, NEW r,
           config.guard = "on" => Screened(r), Becomes(c, r)
    PROVE  ScreenInv'
BY DEF ScreenInv, Becomes

\* Under a guard a call is screened first.
LEMMA Analyzing ==
    ASSUME NEW r, IsCall(r), NEW ms
    PROVE  config.guard = "on" => Screened(Analyze(r, ms))
BY DEF Guarded, Analyze, Screened, IsCall, CallFields, PastScreen

LEMMA ReturnKeeps ==
    ASSUME ScreenInv, config' = config, NEW c \in Calls, Returned(c)
    PROVE  ScreenInv'
BY CallsAtRest, Becoming DEF Returned

LEMMA RefusalKeeps ==
    ASSUME ScreenInv, config' = config, NEW c \in Calls, TurnedDown(c)
    PROVE  ScreenInv'
BY CallsAtRest, ReturnKeeps, Becoming DEF TurnedDown

LEMMA PassKeeps ==
    ASSUME ScreenInv, config' = config, NEW c \in Calls, call[c].pc \in {"input", "output"}, Passes(c)
    PROVE  ScreenInv'
<1>1. CASE Returned(c)
  BY <1>1, ReturnKeeps
<1>2. CASE ~Returned(c)
  <2> DEFINE r == [call[c] EXCEPT !.judged = Judged(c), !.backend = "openai",
                                  !.pc = IF @ = "input" THEN AfterInput(c) ELSE "scope"]
  <2>1. Becomes(c, r)
    BY <1>2 DEF Passes
  <2>2. ASSUME IsCall(call[c]) PROVE Screened(r)
    <3>1. call[c].pc = "input" => Judged(c) = TextsOf(call[c].input)
      BY DEF Judged, Given
    <3>2. IsCall(r) /\ r.judged = Judged(c) /\ r.input = call[c].input
          /\ r.pc = IF call[c].pc = "input" THEN AfterInput(c) ELSE "scope"
      BY <2>2 DEF IsCall, CallFields
    <3> QED BY <3>1, <3>2 DEF Screened, PastScreen
  <2>3. config.guard = "on" => Screened(r)
    BY <2>2 DEF ScreenInv, Screened
  <2> HIDE DEF r
  <2> QED BY <2>1, <2>3, Becoming
<1> QED BY <1>1, <1>2

\* The moderation and scope steps.
LEMMA ScreensKeep ==
    ASSUME ScreenInv, NEW c \in Calls,
           \/ InjectionFound(c) \/ OpenAIModerates(c) \/ ClassifierModerates(c)
           \/ ScopeChecks(c) \/ ScreensImage(c)
    PROVE  ScreenInv'
<1>1. CASE InjectionFound(c)
  BY <1>1, RefusalKeeps DEF InjectionFound
<1>2. ASSUME config' = config, NextBackend(c) PROVE ScreenInv'
  <2> DEFINE r == [call[c] EXCEPT !.backend = "llm"]
  <2>1. Screened(call[c]) => Screened(r)
    BY DEF Screened, IsCall, CallFields
  <2>2. config.guard = "on" => Screened(r)
    BY <2>1 DEF ScreenInv
  <2>3. Becomes(c, r)
    BY <1>2 DEF NextBackend
  <2> HIDE DEF r
  <2> QED BY <1>2, <2>2, <2>3, Becoming
<1>3. ASSUME config' = config, Awaits(c), Passes(c) \/ Flagged(c) PROVE ScreenInv'
  BY <1>3, PassKeeps, RefusalKeeps DEF Flagged, Awaits
<1>4. CASE OpenAIModerates(c)
  BY <1>2, <1>3, <1>4 DEF OpenAIModerates
<1>5. CASE ClassifierModerates(c)
  <2>1. config' = config /\ Awaits(c)
    BY <1>5 DEF ClassifierModerates
  <2>2. NoBackend(c) \/ Passes(c) \/ Flagged(c)
    BY <1>5 DEF ClassifierModerates
  <2>3. NoBackend(c) => Passes(c) \/ TurnedDown(c)
    BY DEF NoBackend
  <2> QED BY <1>3, <2>1, <2>2, <2>3, RefusalKeeps
<1>6. CASE ScopeChecks(c)
  BY <1>6, ReturnKeeps, RefusalKeeps DEF ScopeChecks
<1>7. CASE ScreensImage(c)
  <2> DEFINE r == [call[c] EXCEPT !.pc = "ready"]
  <2>1. call[c].pc = "picture" /\ config' = config
    BY <1>7 DEF ScreensImage
  <2>2. Becomes(c, r) \/ Becomes(c, Over("refused"))
    BY <1>7 DEF ScreensImage
  <2>3. Screened(call[c]) => Screened(r)
    BY <2>1 DEF Screened, IsCall, CallFields, PastScreen
  <2>4. config.guard = "on" => Screened(r)
    BY <2>3 DEF ScreenInv
  <2> HIDE DEF r
  <2> QED BY <2>1, <2>2, <2>4, Becoming, CallsAtRest
<1> QED BY <1>1, <1>4, <1>5, <1>6, <1>7

LEMMA AskKeeps ==
    ASSUME ScreenInv, NEW c \in Calls, Ask(c)
    PROVE  ScreenInv'
<1>1. config' = config /\ call[c].pc = "ready"
  BY DEF Ask
<1>2. PICK m \in Maskings(TextsOf(Given(c))) :
         Becomes(c, [call[c] EXCEPT !.pc = "model", !.sent = m.texts, !.input = Given(c)]) \/ Fails(c)
  BY DEF Ask
<1> DEFINE r == [call[c] EXCEPT !.pc = "model", !.sent = m.texts, !.input = Given(c)]
<1>3. Screened(call[c]) => Screened(r)
  BY <1>1 DEF Screened, IsCall, CallFields, PastScreen, Given
<1>4. config.guard = "on" => Screened(r)
  BY <1>3 DEF ScreenInv
<1>5. Becomes(c, r) \/ Becomes(c, Over("failed"))
  BY <1>2 DEF Fails
<1> HIDE DEF r
<1> QED BY <1>1, <1>4, <1>5, Becoming, CallsAtRest

\* What the vendor answers, and how a stream goes on.
LEMMA RepliesKeep ==
    ASSUME ScreenInv, NEW c \in Calls,
           VendorReplies(c) \/ VendorStreams(c) \/ ChunkArrives(c) \/ StreamEnds(c)
    PROVE  ScreenInv'
<1>1. ASSUME NEW r, Becomes(c, r), config' = config, Screened(call[c]) => Screened(r)
      PROVE  ScreenInv'
  BY <1>1, Becoming DEF ScreenInv
<1>2. CASE VendorReplies(c)
  <2>1. config' = config
    BY <1>2 DEF VendorReplies
  <2>2. PICK text \in Replies(c) :
           Becomes(c, [call[c] EXCEPT !.pc = "output", !.shown = Restored(text)])
    BY <1>2 DEF VendorReplies
  <2>3. Screened(call[c]) => Screened([call[c] EXCEPT !.pc = "output", !.shown = Restored(text)])
    BY DEF Screened, IsCall, CallFields, PastScreen
  <2> QED BY <1>1, <2>1, <2>2, <2>3
<1>3. CASE VendorStreams(c)
  <2>1. config' = config /\ call[c].pc = "model"
    BY <1>3 DEF VendorStreams
  <2>2. PICK text \in Replies(c) : Becomes(c, [call[c] EXCEPT !.pc = "stream", !.reply = text])
    BY <1>3 DEF VendorStreams
  <2>3. Screened(call[c]) => Screened([call[c] EXCEPT !.pc = "stream", !.reply = text])
    BY <2>1 DEF Screened, IsCall, CallFields, PastScreen
  <2> QED BY <1>1, <2>1, <2>2, <2>3
<1>4. CASE ChunkArrives(c)
  <2>1. config' = config
    BY <1>4 DEF ChunkArrives
  <2>2. PICK to, held, out : Becomes(c, [call[c] EXCEPT !.at = to, !.held = held, !.shown = @ \o out])
    BY <1>4 DEF ChunkArrives
  <2>3. Screened(call[c]) =>
           Screened([call[c] EXCEPT !.at = to, !.held = held, !.shown = @ \o out])
    BY DEF Screened, IsCall, CallFields
  <2> QED BY <1>1, <2>1, <2>2, <2>3
<1>5. CASE StreamEnds(c)
  <2>1. /\ config' = config
        /\ Becomes(c, [call[c] EXCEPT !.pc = "output", !.shown = @ \o Flush(vault, call[c].held)])
    BY <1>5 DEF StreamEnds
  <2>2. Screened(call[c]) =>
           Screened([call[c] EXCEPT !.pc = "output", !.shown = @ \o Flush(vault, call[c].held)])
    BY DEF Screened, IsCall, CallFields, PastScreen
  <2> QED BY <1>1, <2>1, <2>2
<1> QED BY <1>2, <1>3, <1>4, <1>5

LEMMA ScreenInitInv == ChatInit => ScreenInv
BY CallsAtRest DEF ChatInit, ScreenInv

LEMMA ScreenNextInv == ScreenInv /\ [ChatNext]_chatVars => ScreenInv'
<1> SUFFICES ASSUME ScreenInv, [ChatNext]_chatVars PROVE ScreenInv'
  OBVIOUS
<1>1. CASE UNCHANGED chatVars
  BY <1>1 DEF chatVars, ScreenInv
<1>2. CASE Reset \/ Resume
  BY <1>2 DEF Reset, Resume, ScreenInv
<1>3. ASSUME NEW c \in Calls, NEW text, Send(c, text) PROVE ScreenInv'
  <2>0. config' = config
    BY <1>3 DEF Send
  <2> DEFINE r == [Waiting EXCEPT !.kind = "send"]
  <2>1. PICK ms, to : Becomes(c, [r EXCEPT !.pc = "summary", !.input = ms]) \/ Becomes(c, Analyze(r, to))
    BY <1>3 DEF Send
  <2>2. IsCall(r)
    BY CallsAtRest DEF IsCall, CallFields
  <2>3. Screened([r EXCEPT !.pc = "summary", !.input = ms])
    <3> HIDE DEF r
    <3> QED BY <2>2 DEF Screened, IsCall, CallFields, PastScreen
  <2>4. config.guard = "on" => Screened(Analyze(r, to))
    BY <2>2, Analyzing
  <2> HIDE DEF r
  <2> QED BY <2>0, <2>1, <2>3, <2>4, Becoming
<1>4. ASSUME NEW c \in Calls, NEW kind, NEW text, Apart(c, kind, text) PROVE ScreenInv'
  <2> DEFINE r == [Waiting EXCEPT !.kind = kind]
             ms == <<Flat("user", text, {})>>
  <2>1. config' = config /\ Becomes(c, Analyze(r, ms))
    BY <1>4 DEF Apart
  <2>2. IsCall(r)
    BY CallsAtRest DEF IsCall, CallFields
  <2>3. config.guard = "on" => Screened(Analyze(r, ms))
    BY <2>2, Analyzing
  <2> HIDE DEF r, ms
  <2> QED BY <2>1, <2>3, Becoming
<1>5. ASSUME NEW c \in Calls, SummaryArrives(c) PROVE ScreenInv'
  <2>1. /\ config' = config
        /\ Becomes(c, Analyze(call[c], Summarized(call[c].input)))
    BY <1>5 DEF SummaryArrives
  <2>2. config.guard = "on" => IsCall(call[c])
    BY DEF ScreenInv, Screened
  <2>3. config.guard = "on" => Screened(Analyze(call[c], Summarized(call[c].input)))
    BY <2>2, Analyzing
  <2> QED BY <2>1, <2>3, Becoming
<1>6. ASSUME NEW c \in Calls, SummaryFails(c) \/ ImageBlocked(c) \/ VendorFails(c) PROVE ScreenInv'
  <2>1. config' = config /\ Becomes(c, Over("failed"))
    BY <1>6 DEF SummaryFails, ImageBlocked, VendorFails, Fails
  <2> QED BY <2>1, Becoming, CallsAtRest
<1>7. ASSUME NEW c \in Calls, Unscreened(c) PROVE ScreenInv'
  BY <1>7, ReturnKeeps DEF Unscreened
<1> QED
  BY <1>1, <1>2, <1>3, <1>4, <1>5, <1>6, <1>7, ScreensKeep, AskKeeps, RepliesKeep
  DEF ChatNext, AnalyzeStream, AnalyzeImage

\* What was judged harmless is what is sent, though other calls change the
\* conversation while the judges are asked (agent.py:358-374).
THEOREM JudgedIsSent == ChatSpec => []ScreenedIsSent
<1>1. ScreenInv => ScreenedIsSent
  BY DEF ScreenInv, ScreenedIsSent, Screened, PastScreen
<1> QED BY <1>1, ScreenInitInv, ScreenNextInv, PTL DEF ChatSpec

-----------------------------------------------------------------------------
(* What is left of a list without the empty messages. *)

KeepsUpTo(ms, len, f) ==
    f = [i \in 0 .. len |-> IF i = 0 THEN <<>>
                            ELSE IF Empty(ms[i]) THEN f[i - 1] ELSE Append(f[i - 1], ms[i])]

LEMMA NotEmptyExists ==
    ASSUME NEW ms, NEW len \in Nat
    PROVE  \E f : KeepsUpTo(ms, len, f)
<1> DEFINE Bad == {n \in Nat : ~\E f : KeepsUpTo(ms, n, f)}
<1>1. Bad = {}
  <2> SUFFICES ASSUME Bad # {} PROVE FALSE
    OBVIOUS
  <2>1. PICK n \in Bad : \A m \in Bad : n <= m
    <3>1. Bad \in SUBSET Nat
      OBVIOUS
    <3> HIDE DEF Bad
    <3> QED BY <3>1, LeastNumber
  <2>2. CASE n = 0
    <3> DEFINE f == [i \in 0 .. 0 |-> <<>>]
    <3>1. KeepsUpTo(ms, 0, f)
      BY DEF KeepsUpTo
    <3> QED BY <2>1, <2>2, <3>1
  <2>3. CASE n # 0
    <3>1. n \in Nat /\ n - 1 \in Nat /\ n - 1 \notin Bad
      <4>1. n \in Nat
        OBVIOUS
      <4> HIDE DEF Bad
      <4> QED BY <2>1, <2>3, <4>1
    <3>2. PICK f : KeepsUpTo(ms, n - 1, f)
      BY <3>1
    <3> DEFINE Value(g, i) == IF i = 0 THEN <<>>
                              ELSE IF Empty(ms[i]) THEN g[i - 1] ELSE Append(g[i - 1], ms[i])
               more == [i \in 0 .. n |-> Value(f, i)]
    <3>3. f = [i \in 0 .. n - 1 |-> Value(f, i)]
      BY <3>2 DEF KeepsUpTo
    <3> HIDE DEF Value
    <3>4. \A i \in 0 .. n - 1 : more[i] = f[i]
      BY <3>1, <3>3
    <3>5. \A i \in 0 .. n : Value(f, i) = Value(more, i)
      <4> HIDE DEF more
      <4>1. \A i \in 0 .. n : i # 0 => i - 1 \in 0 .. n - 1
        BY <3>1
      <4> QED BY <3>4, <4>1 DEF Value
    <3>6. more = [i \in 0 .. n |-> Value(more, i)]
      BY <3>5
    <3>7. KeepsUpTo(ms, n, more)
      <4> HIDE DEF more
      <4> QED BY <3>6 DEF KeepsUpTo, Value
    <3> QED BY <2>1, <3>7
  <2> QED BY <2>2, <2>3
<1> QED BY <1>1

\* out holds, in their order, the messages of the first n of ms that are not
\* empty: at says where each was.
Keeps(ms, n, out, at) ==
    /\ IsList(out) /\ Len(out) <= n
    /\ \A k \in Indices(out) : /\ at[k] \in 1 .. n /\ out[k] = ms[at[k]] /\ ~Empty(ms[at[k]])
                              /\ \A j \in Indices(out) : j < k => at[j] < at[k]
    /\ \A i \in 1 .. n : ~Empty(ms[i]) => \E k \in Indices(out) : at[k] = i

LEMMA KeepsOne ==
    ASSUME NEW ms, NEW n \in Nat, NEW out, NEW at, Keeps(ms, n, out, at),
           NEW more, more = IF Empty(ms[n + 1]) THEN out ELSE Append(out, ms[n + 1])
    PROVE  \E at2 : Keeps(ms, n + 1, more, at2)
<1>1. CASE Empty(ms[n + 1])
  <2>1. \A k \in 1 .. n + 1 : k \in 1 .. n \/ k = n + 1
    OBVIOUS
  <2>2. Keeps(ms, n + 1, out, at)
    BY <1>1, <2>1 DEF Keeps, IsList
  <2> QED BY <1>1, <2>2
<1>2. CASE ~Empty(ms[n + 1])
  <2> DEFINE m == Len(out)
             at2 == [k \in 1 .. m + 1 |-> IF k = m + 1 THEN n + 1 ELSE at[k]]
  <2>1. m \in Nat /\ m <= n
    BY DEF Keeps, IsList
  <2>2. /\ IsList(more) /\ Len(more) = m + 1
        /\ \A k \in 1 .. m : more[k] = out[k]
        /\ more[m + 1] = ms[n + 1]
    BY <1>2, AppendList DEF Keeps, Indices
  <2>3. /\ \A k \in 1 .. m : at2[k] = at[k] /\ k \in 1 .. m + 1
        /\ at2[m + 1] = n + 1 /\ m + 1 \in 1 .. m + 1
        /\ \A k \in 1 .. m + 1 : k \in 1 .. m \/ k = m + 1
    BY <2>1
  <2> HIDE DEF at2
  <2>4. /\ \A k \in 1 .. m : /\ at[k] \in 1 .. n /\ out[k] = ms[at[k]] /\ ~Empty(ms[at[k]])
                             /\ \A j \in 1 .. m : j < k => at[j] < at[k]
        /\ \A i \in 1 .. n : ~Empty(ms[i]) => \E k \in 1 .. m : at[k] = i
    BY DEF Keeps, Indices
  <2> HIDE DEF m
  <2>5. ASSUME NEW k \in 1 .. m + 1
        PROVE  /\ at2[k] \in 1 .. n + 1 /\ more[k] = ms[at2[k]] /\ ~Empty(ms[at2[k]])
               /\ \A j \in 1 .. m + 1 : j < k => at2[j] < at2[k]
    <3>1. CASE k = m + 1
      <4>1. \A j \in 1 .. m + 1 : j < k => at2[j] < at2[k]
        BY <2>1, <2>3, <2>4, <3>1
      <4> QED BY <1>2, <2>2, <2>3, <3>1, <4>1
    <3>2. CASE k # m + 1
      <4>1. k \in 1 .. m
        BY <2>3, <3>2
      <4>2. \A j \in 1 .. m + 1 : j < k => j \in 1 .. m
        BY <2>1, <4>1
      <4>3. at2[k] = at[k] /\ more[k] = out[k] /\ \A j \in 1 .. m : at2[j] = at[j]
        BY <2>2, <2>3, <4>1
      <4>4. at2[k] \in 1 .. n /\ more[k] = ms[at2[k]] /\ ~Empty(ms[at2[k]])
        BY <2>4, <4>1, <4>3
      <4>5. \A j \in 1 .. m + 1 : j < k => at2[j] < at2[k]
        BY <2>4, <4>1, <4>2, <4>3
      <4>6. at2[k] \in 1 .. n + 1
        BY <4>4
      <4> QED BY <4>4, <4>5, <4>6
    <3> QED BY <3>1, <3>2
  <2>6. ASSUME NEW i \in 1 .. n + 1, ~Empty(ms[i]) PROVE \E k \in 1 .. m + 1 : at2[k] = i
    <3>1. CASE i = n + 1
      BY <2>3, <3>1
    <3>2. CASE i # n + 1
      <4>1. i \in 1 .. n
        BY <3>2
      <4> QED BY <2>3, <2>4, <2>6, <4>1
    <3> QED BY <3>1, <3>2
  <2>7. Len(more) <= n + 1
    BY <2>1, <2>2
  <2>8. Keeps(ms, n + 1, more, at2)
    BY <2>2, <2>5, <2>6, <2>7 DEF Keeps, Indices
  <2> QED BY <2>8
<1> QED BY <1>1, <1>2

LEMMA NotEmptyKeeps ==
    ASSUME NEW ms, IsList(ms)
    PROVE  \E at : Keeps(ms, Len(ms), NotEmpty(ms), at)
<1> DEFINE f == CHOOSE g : KeepsUpTo(ms, Len(ms), g)
           N == Len(ms)
<1>1. N \in Nat
  BY DEF IsList
<1>2. KeepsUpTo(ms, N, f)
  BY <1>1, NotEmptyExists
<1>3. NotEmpty(ms) = f[N]
  BY DEF NotEmpty, KeepsUpTo
<1> HIDE DEF f, N
<1>4. /\ f[0] = <<>>
      /\ \A i \in 1 .. N : f[i] = IF Empty(ms[i]) THEN f[i - 1] ELSE Append(f[i - 1], ms[i])
  <2> DEFINE Value(i) == IF i = 0 THEN <<>>
                         ELSE IF Empty(ms[i]) THEN f[i - 1] ELSE Append(f[i - 1], ms[i])
  <2>1. f = [i \in 0 .. N |-> Value(i)]
    BY <1>2 DEF KeepsUpTo
  <2> HIDE DEF Value
  <2>2. \A i \in 0 .. N : f[i] = Value(i)
    BY <2>1
  <2>3. 0 \in 0 .. N /\ \A i \in 1 .. N : i \in 0 .. N /\ i # 0
    BY <1>1
  <2> QED BY <2>2, <2>3 DEF Value
<1> DEFINE Bad == {n \in 0 .. N : ~\E at : Keeps(ms, n, f[n], at)}
<1>5. Bad = {}
  <2> SUFFICES ASSUME Bad # {} PROVE FALSE
    OBVIOUS
  <2>1. PICK n \in Bad : \A m \in Bad : n <= m
    <3>1. Bad \in SUBSET Nat
      BY <1>1
    <3> HIDE DEF Bad
    <3> QED BY <3>1, LeastNumber
  <2>2. n # 0
    <3>1. IsList(<<>>) /\ Len(<<>>) = 0 /\ Indices(<<>>) = {} /\ 1 .. 0 = {}
      BY DEF IsList, Indices
    <3>2. Keeps(ms, 0, <<>>, <<>>)
      BY <3>1 DEF Keeps
    <3> QED BY <1>4, <3>2
  <2>3. n \in 1 .. N /\ n - 1 \in 0 .. N /\ n - 1 \in Nat /\ n - 1 < n /\ n - 1 + 1 = n
    BY <1>1, <2>2
  <2>4. n - 1 \notin Bad
    <3> HIDE DEF Bad
    <3> QED BY <2>1, <2>3
  <2>5. PICK at : Keeps(ms, n - 1, f[n - 1], at)
    BY <2>3, <2>4
  <2>6. \E at2 : Keeps(ms, n - 1 + 1, f[n], at2)
    <3>1. f[n] = IF Empty(ms[n - 1 + 1]) THEN f[n - 1] ELSE Append(f[n - 1], ms[n - 1 + 1])
      BY <1>4, <2>3
    <3> HIDE DEF Bad
    <3> QED BY <2>3, <2>5, <3>1, KeepsOne
  <2> QED BY <2>3, <2>6
<1>6. N \in 0 .. N
  BY <1>1
<1>7. \E at : Keeps(ms, N, f[N], at)
  BY <1>5, <1>6
<1> QED BY <1>3, <1>7 DEF N

-----------------------------------------------------------------------------
(* Balancing. *)

IsMessage(m) ==
    /\ m = Message(m.role, m.text, m.uses, m.results, m.flat, m.of)
    /\ m.flat \in BOOLEAN

\* Only a flat message stands for turns, and it has no tools.
Sound(m) ==
    /\ IsMessage(m)
    /\ m.flat => m.uses = {} /\ m.results = {}
    /\ ~m.flat => m.of = {}

OwnCalls(ms) == \A i, j \in Indices(ms) : i # j => ms[i].uses \cap ms[j].uses = {}

\* What a conversation keeps.
Tidy(ms) ==
    /\ IsList(ms) /\ Paired(ms) /\ OwnCalls(ms)
    /\ \A i \in Indices(ms) : Sound(ms[i]) /\ ~Empty(ms[i])

\* What a cut may leave: results whose calls are gone.
Cut(ms) ==
    /\ IsList(ms) /\ OwnCalls(ms)
    /\ \A i \in Indices(ms) :
          /\ Sound(ms[i])
          /\ ms[i].uses # {} => i + 1 \in Indices(ms) /\ ms[i + 1].results = ms[i].uses
          /\ \/ i - 1 \in Indices(ms) /\ ms[i - 1].uses = ms[i].results
             \/ ms[i].results \cap Uses(ms) = {}

Spoken(ms) == UNION {m.of : m \in Range(ms)}

LEMMA ToolsOf ==
    ASSUME NEW ms, IsList(ms)
    PROVE  /\ \A i \in Indices(ms) : ms[i].uses \subseteq Uses(ms) /\ ms[i].results \subseteq Results(ms)
           /\ \A x : x \in Spoken(ms) <=> \E i \in Indices(ms) : x \in ms[i].of
           /\ \A x : x \in Uses(ms) <=> \E i \in Indices(ms) : x \in ms[i].uses
<1>1. DOMAIN ms = Indices(ms)
  BY ListIsSeq
<1> QED BY <1>1 DEF Uses, Results, Spoken, Range

\* Without the results whose calls are gone all is in pairs.
LEMMA PrunedPairs ==
    ASSUME NEW ms, Cut(ms), NEW ps, ps = [i \in DOMAIN ms |-> Pruned(ms[i], ms)]
    PROVE  /\ IsList(ps) /\ Len(ps) = Len(ms)
           /\ \A i \in Indices(ms) :
                /\ Sound(ps[i]) /\ ps[i].of = ms[i].of /\ ps[i].flat = ms[i].flat /\ ps[i].uses = ms[i].uses
                /\ ps[i].uses # {} => i + 1 \in Indices(ms) /\ ps[i + 1].results = ps[i].uses
                /\ ps[i].results # {} => i - 1 \in Indices(ms) /\ ps[i - 1].uses = ps[i].results
<1>1. IsList(ms) /\ DOMAIN ms = Indices(ms) /\ Len(ms) \in Nat
  BY ListIsSeq DEF Cut, IsList
<1>2. IsList(ps) /\ Len(ps) = Len(ms) /\ \A i \in Indices(ms) : ps[i] = Pruned(ms[i], ms)
  <2>1. ps = [i \in 1 .. Len(ms) |-> Pruned(ms[i], ms)]
    BY <1>1 DEF Indices
  <2>2. ps \in Seq({Pruned(ms[i], ms) : i \in 1 .. Len(ms)})
    <3>1. ps \in [1 .. Len(ms) -> {Pruned(ms[i], ms) : i \in 1 .. Len(ms)}]
      BY <2>1
    <3> QED BY <1>1, <3>1, SeqDef
  <2>3. Len(ps) \in Nat /\ DOMAIN ps = 1 .. Len(ps)
    BY <2>2, LenProperties
  <2>4. 1 .. Len(ps) = 1 .. Len(ms)
    BY <2>1, <2>3
  <2>5. Len(ps) = Len(ms)
    <3>1. Len(ps) <= Len(ms)
      BY <1>1, <2>3, <2>4
    <3>2. Len(ms) <= Len(ps)
      BY <1>1, <2>3, <2>4
    <3> QED BY <1>1, <2>3, <3>1, <3>2
  <2> QED BY <2>1, <2>2, <2>5, ListIsSeq DEF Indices
<1>3. ASSUME NEW i \in Indices(ms)
      PROVE  /\ IsMessage(ps[i]) /\ ps[i].of = ms[i].of /\ ps[i].flat = ms[i].flat
             /\ ps[i].uses = ms[i].uses \cap Results(ms)
             /\ ps[i].results = ms[i].results \cap Uses(ms)
  <2> DEFINE m == ms[i]
  <2>1. m = Message(m.role, m.text, m.uses, m.results, m.flat, m.of) /\ m.flat \in BOOLEAN
    BY DEF Cut, Sound, IsMessage
  <2>3. ps[i] = Message(m.role, m.text, m.uses \cap Results(ms), m.results \cap Uses(ms), m.flat, m.of)
    BY <1>2 DEF Pruned
  <2> HIDE DEF m
  <2>4. /\ ps[i].role = m.role /\ ps[i].text = m.text /\ ps[i].uses = m.uses \cap Results(ms)
        /\ ps[i].results = m.results \cap Uses(ms) /\ ps[i].flat = m.flat /\ ps[i].of = m.of
    BY <2>3 DEF Message
  <2>5. IsMessage(ps[i])
    BY <2>1, <2>3, <2>4 DEF IsMessage
  <2> QED BY <2>4, <2>5 DEF m
<1>4. ASSUME NEW i \in Indices(ms) PROVE ps[i].uses = ms[i].uses
  <2>1. CASE ms[i].uses = {}
    BY <1>3, <2>1
  <2>2. CASE ms[i].uses # {}
    <3>1. i + 1 \in Indices(ms) /\ ms[i + 1].results = ms[i].uses
      BY <2>2 DEF Cut
    <3>2. ms[i].uses \subseteq Results(ms)
      BY <1>1, <3>1, ToolsOf
    <3> QED BY <1>3, <3>2
  <2> QED BY <2>1, <2>2
<1>5. ASSUME NEW i \in Indices(ms)
      PROVE  \/ ps[i].results = {}
             \/ i - 1 \in Indices(ms) /\ ms[i - 1].uses = ms[i].results /\ ps[i].results = ms[i].results
  <2>1. CASE ms[i].results \cap Uses(ms) = {}
    BY <1>3, <2>1
  <2>2. CASE i - 1 \in Indices(ms) /\ ms[i - 1].uses = ms[i].results
    <3>1. ms[i].results \subseteq Uses(ms)
      BY <1>1, <2>2, ToolsOf
    <3>2. ps[i].results = ms[i].results \cap Uses(ms)
      BY <1>3
    <3>3. ps[i].results = ms[i].results
      BY <3>1, <3>2
    <3> QED BY <2>2, <3>3
  <2>3. \/ i - 1 \in Indices(ms) /\ ms[i - 1].uses = ms[i].results
        \/ ms[i].results \cap Uses(ms) = {}
    BY DEF Cut
  <2> QED BY <2>1, <2>2, <2>3
<1>6. ASSUME NEW i \in Indices(ms), ps[i].uses # {}
      PROVE  i + 1 \in Indices(ms) /\ ps[i + 1].results = ps[i].uses
  <2>1. ms[i].uses # {} /\ ps[i].uses = ms[i].uses
    BY <1>4, <1>6
  <2>2. i + 1 \in Indices(ms) /\ ms[i + 1].results = ms[i].uses
    BY <2>1 DEF Cut
  <2>3. ms[i].uses \subseteq Uses(ms)
    BY <1>1, ToolsOf
  <2>4. ps[i + 1].results = ms[i + 1].results \cap Uses(ms)
    BY <1>3, <2>2
  <2> QED BY <2>1, <2>2, <2>3, <2>4
<1>7. ASSUME NEW i \in Indices(ms), ps[i].results # {}
      PROVE  i - 1 \in Indices(ms) /\ ps[i - 1].uses = ps[i].results
  BY <1>4, <1>5, <1>7
<1>8. ASSUME NEW i \in Indices(ms) PROVE Sound(ps[i])
  <2>1. Sound(ms[i])
    BY DEF Cut
  <2> QED BY <1>3, <2>1 DEF Sound
<1> QED BY <1>2, <1>3, <1>4, <1>6, <1>7, <1>8

\* Balancing leaves pairs only, and no turn goes.
LEMMA BalanceTidies ==
    ASSUME NEW ms, Cut(ms), Len(ms) # 0, ms[Len(ms)].flat
    PROVE  LET bs == BalanceToolTurns(ms)
           IN  /\ Tidy(bs) /\ Len(bs) <= Len(ms) /\ Len(bs) # 0
               /\ bs[Len(bs)].of = ms[Len(ms)].of /\ Spoken(bs) = Spoken(ms)
<1> DEFINE ps == [i \in DOMAIN ms |-> Pruned(ms[i], ms)]
           bs == NotEmpty(ps)
           N == Len(ms)
<1>1. /\ IsList(ps) /\ Len(ps) = N
      /\ \A i \in Indices(ms) :
           /\ Sound(ps[i]) /\ ps[i].of = ms[i].of /\ ps[i].flat = ms[i].flat /\ ps[i].uses = ms[i].uses
           /\ ps[i].uses # {} => i + 1 \in Indices(ms) /\ ps[i + 1].results = ps[i].uses
           /\ ps[i].results # {} => i - 1 \in Indices(ms) /\ ps[i - 1].uses = ps[i].results
  <2> HIDE DEF ps
  <2> QED BY PrunedPairs DEF ps
<1>2. BalanceToolTurns(ms) = bs
  BY DEF BalanceToolTurns
<1> HIDE DEF ps
<1>3. PICK at : Keeps(ps, N, bs, at)
  BY <1>1, NotEmptyKeeps
<1> HIDE DEF bs
<1>4. IsList(ms) /\ N \in Nat \ {0} /\ Indices(ms) = 1 .. N /\ IsList(bs) /\ Len(bs) \in Nat /\ Len(bs) <= N
      /\ Indices(bs) = 1 .. Len(bs)
  BY <1>3 DEF Cut, IsList, Keeps, Indices
<1>5. ASSUME NEW k \in Indices(bs)
      PROVE  at[k] \in Indices(ms) /\ bs[k] = ps[at[k]] /\ ~Empty(bs[k])
             /\ \A j \in Indices(bs) : j < k => at[j] < at[k]
  BY <1>3, <1>4 DEF Keeps
<1>6. ASSUME NEW i \in Indices(ms), ~Empty(ps[i]) PROVE \E k \in Indices(bs) : at[k] = i
  BY <1>3, <1>4, <1>6 DEF Keeps
<1>7. ASSUME NEW i \in Indices(ms), ps[i].flat \/ ps[i].uses # {} \/ ps[i].results # {}
      PROVE  ~Empty(ps[i])
  BY <1>7 DEF Empty
<1>8. ASSUME NEW k \in Indices(bs), NEW l \in Indices(bs), at[l] = at[k] + 1 PROVE l = k + 1
  <2>1. k < l
    <3>1. CASE l < k
      BY <1>4, <1>5, <1>8, <3>1
    <3>2. CASE l = k
      BY <1>4, <1>5, <1>8, <3>2
    <3> QED BY <1>4, <3>1, <3>2
  <2>2. CASE k + 1 < l
    <3>1. k + 1 \in Indices(bs) /\ k < k + 1
      BY <1>4, <2>2
    <3>2. at[k] < at[k + 1] /\ at[k + 1] < at[l] /\ at[k] \in Nat /\ at[k + 1] \in Nat
      BY <1>4, <1>5, <2>2, <3>1
    <3> QED BY <1>8, <3>2
  <2> QED BY <1>4, <2>1, <2>2
<1>9. ASSUME NEW k \in Indices(bs), bs[k].uses # {}
      PROVE  k + 1 \in Indices(bs) /\ bs[k + 1].results = bs[k].uses
  <2>1. at[k] + 1 \in Indices(ms) /\ ps[at[k] + 1].results = bs[k].uses
    BY <1>1, <1>5, <1>9
  <2>2. PICK l \in Indices(bs) : at[l] = at[k] + 1
    BY <1>6, <1>7, <1>9, <2>1
  <2>3. l = k + 1
    BY <1>8, <2>2
  <2> QED BY <1>5, <2>1, <2>2, <2>3
<1>10. ASSUME NEW k \in Indices(bs), bs[k].results # {}
       PROVE  k - 1 \in Indices(bs) /\ bs[k - 1].uses = bs[k].results
  <2>1. at[k] - 1 \in Indices(ms) /\ ps[at[k] - 1].uses = bs[k].results
    BY <1>1, <1>5, <1>10
  <2>2. PICK l \in Indices(bs) : at[l] = at[k] - 1
    BY <1>6, <1>7, <1>10, <2>1
  <2>3. at[k] = at[l] + 1
    BY <1>4, <1>5, <2>2
  <2>4. k = l + 1
    BY <1>8, <2>3
  <2>5. l = k - 1
    BY <1>4, <2>4
  <2> QED BY <1>5, <2>1, <2>2, <2>5
<1>11. Paired(bs)
  <2>1. DOMAIN bs = Indices(bs)
    BY <1>4, ListIsSeq
  <2>2. ASSUME NEW k \in Indices(bs)
        PROVE  /\ bs[k].uses # {} => k < Len(bs) /\ bs[k + 1].results = bs[k].uses
               /\ bs[k].results # {} => k > 1 /\ bs[k - 1].uses = bs[k].results
    <3>1. bs[k].uses # {} => k < Len(bs) /\ bs[k + 1].results = bs[k].uses
      BY <1>4, <1>9
    <3>2. bs[k].results # {} => k > 1 /\ bs[k - 1].uses = bs[k].results
      BY <1>4, <1>10
    <3> QED BY <3>1, <3>2
  <2> QED BY <2>1, <2>2 DEF Paired
<1>12. OwnCalls(bs)
  <2>1. ASSUME NEW k \in Indices(bs), NEW l \in Indices(bs), k # l PROVE bs[k].uses \cap bs[l].uses = {}
    <3>1. at[k] # at[l]
      <4>1. k < l \/ l < k
        BY <1>4, <2>1
      <4>2. at[k] < at[l] \/ at[l] < at[k]
        BY <1>5, <4>1
      <4> QED BY <1>4, <1>5, <4>2
    <3>2. bs[k].uses = ms[at[k]].uses /\ bs[l].uses = ms[at[l]].uses
      BY <1>1, <1>5
    <3> QED BY <1>5, <3>1, <3>2 DEF Cut, OwnCalls
  <2> QED BY <2>1 DEF OwnCalls
<1>13. Tidy(bs)
  BY <1>1, <1>4, <1>5, <1>11, <1>12 DEF Tidy
<1>14. Len(bs) # 0 /\ bs[Len(bs)].of = ms[N].of
  <2>1. N \in Indices(ms) /\ ps[N].flat
    BY <1>1, <1>4
  <2>2. PICK k \in Indices(bs) : at[k] = N
    BY <1>6, <1>7, <2>1
  <2>3. k = Len(bs)
    <3>1. CASE k < Len(bs)
      <4>1. Len(bs) \in Indices(bs)
        BY <1>4, <3>1
      <4>2. N < at[Len(bs)] /\ at[Len(bs)] \in 1 .. N
        BY <1>4, <1>5, <2>2, <3>1, <4>1
      <4> QED BY <1>4, <4>2
    <3> QED BY <1>4, <3>1
  <2> QED BY <1>1, <1>4, <1>5, <2>1, <2>2, <2>3
<1>15. Spoken(bs) = Spoken(ms)
  <2>1. ASSUME NEW x \in Spoken(bs) PROVE x \in Spoken(ms)
    <3>1. PICK k \in Indices(bs) : x \in bs[k].of
      BY <1>4, <2>1, ToolsOf
    <3> QED BY <1>1, <1>4, <1>5, <3>1, ToolsOf
  <2>2. ASSUME NEW x \in Spoken(ms) PROVE x \in Spoken(bs)
    <3>1. PICK i \in Indices(ms) : x \in ms[i].of
      BY <1>4, <2>2, ToolsOf
    <3>2. ps[i].flat /\ x \in ps[i].of
      BY <1>1, <3>1 DEF Sound
    <3>3. PICK k \in Indices(bs) : at[k] = i
      BY <1>6, <1>7, <3>2
    <3> QED BY <1>4, <1>5, <3>2, <3>3, ToolsOf
  <2> QED BY <2>1, <2>2
<1> QED BY <1>2, <1>4, <1>13, <1>14, <1>15

-----------------------------------------------------------------------------
(* What the steps of a conversation do to its list. *)

\* new is ms with one more message m, which stands for the turns of.
Says(new, ms, m, of) ==
    /\ Tidy(new) /\ Len(new) = Len(ms) + 1 /\ Len(ms) \in Nat /\ new[Len(new)] = m
    /\ m.flat /\ m.of = of /\ Spoken(new) = Spoken(ms) \cup of

\* A message that only says something, at the end.
LEMMA SayingKeeps ==
    ASSUME NEW ms, Tidy(ms), NEW role, NEW text, NEW of,
           NEW m, m = Flat(role, text, of), NEW new, new = Append(ms, m)
    PROVE  Says(new, ms, m, of)
<1> DEFINE N == Len(ms)
<1>1. /\ Sound(m) /\ ~Empty(m) /\ m.flat /\ m.of = of /\ m.uses = {} /\ m.results = {}
  BY DEF Flat, Message, Sound, IsMessage, Empty
<1>2. IsList(ms) /\ N \in Nat /\ Indices(ms) = 1 .. N
  BY DEF Tidy, IsList, Indices
<1>3. IsList(new) /\ Len(new) = N + 1 /\ (\A i \in Indices(ms) : new[i] = ms[i]) /\ new[N + 1] = m
  BY <1>2, AppendList
<1>4. /\ Indices(new) = 1 .. N + 1 /\ DOMAIN new = Indices(new) /\ DOMAIN ms = Indices(ms)
      /\ \A i \in Indices(new) : i \in Indices(ms) \/ i = N + 1
  BY <1>2, <1>3, ListIsSeq DEF Indices
<1>5. ASSUME NEW i \in Indices(new) PROVE Sound(new[i]) /\ ~Empty(new[i])
  BY <1>1, <1>3, <1>4 DEF Tidy
<1>6. OwnCalls(new)
  <2>1. ASSUME NEW i \in Indices(new), NEW j \in Indices(new), i # j PROVE new[i].uses \cap new[j].uses = {}
    <3>1. CASE i = N + 1 \/ j = N + 1
      BY <1>1, <1>3, <3>1
    <3>2. CASE i \in Indices(ms) /\ j \in Indices(ms)
      BY <1>3, <2>1, <3>2 DEF Tidy, OwnCalls
    <3> QED BY <1>4, <3>1, <3>2
  <2> QED BY <2>1 DEF OwnCalls
<1>7. Paired(new)
  <2>1. ASSUME NEW i \in Indices(new)
        PROVE  /\ new[i].uses # {} => i < Len(new) /\ new[i + 1].results = new[i].uses
               /\ new[i].results # {} => i > 1 /\ new[i - 1].uses = new[i].results
    <3>1. CASE i = N + 1
      BY <1>1, <1>3, <3>1
    <3>2. CASE i \in Indices(ms)
      <4>1. new[i] = ms[i] /\ i < Len(new)
        BY <1>2, <1>3, <3>2
      <4>2. ASSUME ms[i].uses # {} PROVE new[i + 1].results = ms[i].uses
        <5>1. i < N /\ ms[i + 1].results = ms[i].uses
          BY <1>4, <3>2, <4>2 DEF Tidy, Paired
        <5>2. i + 1 \in Indices(ms)
          BY <1>2, <3>2, <5>1
        <5> QED BY <1>3, <5>1, <5>2
      <4>3. ASSUME ms[i].results # {} PROVE i > 1 /\ new[i - 1].uses = ms[i].results
        <5>1. i > 1 /\ ms[i - 1].uses = ms[i].results
          BY <1>4, <3>2, <4>3 DEF Tidy, Paired
        <5>2. i - 1 \in Indices(ms)
          BY <1>2, <3>2, <5>1
        <5> QED BY <1>3, <5>1, <5>2
      <4> QED BY <4>1, <4>2, <4>3
    <3> QED BY <1>4, <2>1, <3>1, <3>2
  <2> QED BY <1>4, <2>1 DEF Paired
<1>8. Tidy(new)
  BY <1>3, <1>5, <1>6, <1>7 DEF Tidy
<1>9. Spoken(new) = Spoken(ms) \cup of
  <2>1. N + 1 \in Indices(new) /\ \A i \in Indices(ms) : i \in Indices(new)
    BY <1>2, <1>4
  <2>2. ASSUME NEW x \in Spoken(new) PROVE x \in Spoken(ms) \cup of
    <3>1. PICK i \in Indices(new) : x \in new[i].of
      BY <1>3, <2>2, ToolsOf
    <3> QED BY <1>1, <1>2, <1>3, <1>4, <3>1, ToolsOf
  <2>3. ASSUME NEW x \in Spoken(ms) PROVE x \in Spoken(new)
    <3>1. PICK i \in Indices(ms) : x \in ms[i].of
      BY <1>2, <2>3, ToolsOf
    <3> QED BY <1>3, <2>1, <3>1, ToolsOf
  <2>4. ASSUME NEW x \in of PROVE x \in Spoken(new)
    BY <1>1, <1>3, <2>1, <2>4, ToolsOf
  <2> QED BY <2>2, <2>3, <2>4
<1> QED BY <1>1, <1>2, <1>3, <1>8, <1>9 DEF Says

LEMMA WindowCuts ==
    ASSUME NEW ms, Tidy(ms), NEW n \in Nat, n <= Len(ms)
    PROVE  LET w == LastOnes(ms, n)
           IN  /\ Cut(w) /\ Len(w) = n
               /\ \A i \in 1 .. n : w[i] = ms[Len(ms) - n + i]
<1> DEFINE w == LastOnes(ms, n)
           N == Len(ms)
           k == N - n
<1>1. IsList(ms) /\ N \in Nat /\ Indices(ms) = 1 .. N /\ DOMAIN ms = Indices(ms) /\ k \in Nat
  BY ListIsSeq DEF Tidy, IsList, Indices
<1>2. IsList(w) /\ Len(w) = n /\ \A i \in 1 .. n : w[i] = ms[k + i]
  <2>1. N - n + 1 \in Nat \ {0} /\ N - n + 1 <= N + 1 /\ N - (N - n + 1) + 1 = n
    BY <1>1
  <2>2. /\ IsList(SubSeq(ms, N - n + 1, N)) /\ Len(SubSeq(ms, N - n + 1, N)) = N - (N - n + 1) + 1
        /\ \A i \in 1 .. N - (N - n + 1) + 1 : SubSeq(ms, N - n + 1, N)[i] = ms[N - n + 1 + i - 1]
    BY <1>1, <2>1, SubList
  <2>3. \A i \in 1 .. n : N - n + 1 + i - 1 = k + i
    BY <1>1
  <2> QED BY <2>1, <2>2, <2>3 DEF LastOnes
<1> HIDE DEF w
<1>3. Indices(w) = 1 .. n /\ (\A i \in 1 .. n : k + i \in Indices(ms)) /\ k + n = N
  BY <1>1, <1>2 DEF Indices
<1> HIDE DEF N, k
<1>4. OwnCalls(w)
  <2>1. \A i, j \in 1 .. n : i # j => k + i # k + j
    BY <1>1
  <2> QED BY <1>2, <1>3, <2>1 DEF Tidy, OwnCalls
<1>5. ASSUME NEW i \in Indices(w)
      PROVE  /\ Sound(w[i])
             /\ w[i].uses # {} => i + 1 \in Indices(w) /\ w[i + 1].results = w[i].uses
             /\ \/ i - 1 \in Indices(w) /\ w[i - 1].uses = w[i].results
                \/ w[i].results \cap Uses(w) = {}
  <2>1. w[i] = ms[k + i] /\ k + i \in Indices(ms) /\ i \in 1 .. n
    BY <1>2, <1>3
  <2>2. Sound(w[i])
    BY <2>1 DEF Tidy
  <2>3. ASSUME w[i].uses # {} PROVE i + 1 \in Indices(w) /\ w[i + 1].results = w[i].uses
    <3>1. k + i < N /\ ms[k + i + 1].results = ms[k + i].uses
      BY <1>1, <2>1, <2>3 DEF Tidy, Paired, N
    <3>2. i + 1 \in 1 .. n /\ k + (i + 1) = k + i + 1
      BY <1>1, <1>3, <2>1, <3>1
    <3>3. w[i + 1] = ms[k + i + 1]
      BY <1>2, <3>2
    <3> QED BY <1>3, <2>1, <3>1, <3>2, <3>3
  <2>4. ASSUME w[i].results # {}, i # 1 PROVE i - 1 \in Indices(w) /\ w[i - 1].uses = w[i].results
    <3>1. ms[k + i - 1].uses = ms[k + i].results
      <4>1. k + i \in DOMAIN ms /\ ms[k + i].results # {}
        BY <1>1, <2>1, <2>4
      <4>2. ASSUME NEW j \in DOMAIN ms, ms[j].results # {} PROVE ms[j - 1].uses = ms[j].results
        BY <4>2 DEF Tidy, Paired
      <4> QED BY <1>1, <2>1, <4>1, <4>2
    <3>2. i - 1 \in 1 .. n /\ k + (i - 1) = k + i - 1
      BY <1>1, <2>1, <2>4
    <3>3. w[i - 1] = ms[k + i - 1]
      BY <1>2, <3>2
    <3> QED BY <1>3, <2>1, <3>1, <3>2, <3>3
  <2>5. ASSUME w[i].results # {}, i = 1 PROVE w[i].results \cap Uses(w) = {}
    <3>1. k + i > 1 /\ ms[k + i - 1].uses = w[i].results
      <4>1. k + i \in DOMAIN ms /\ ms[k + i].results # {}
        BY <1>1, <2>1, <2>5
      <4>2. ASSUME NEW j \in DOMAIN ms, ms[j].results # {} PROVE j > 1 /\ ms[j - 1].uses = ms[j].results
        BY <4>2 DEF Tidy, Paired
      <4> QED BY <1>1, <2>1, <4>1, <4>2
    <3>2. k + i - 1 \in Indices(ms)
      BY <1>1, <2>1, <2>5, <3>1
    <3>3. ASSUME NEW j \in Indices(w) PROVE w[i].results \cap w[j].uses = {}
      <4>1. w[j] = ms[k + j] /\ k + j \in Indices(ms) /\ k + j # k + i - 1
        BY <1>1, <1>2, <1>3, <2>5
      <4>2. ms[k + i - 1].uses \cap ms[k + j].uses = {}
        BY <3>2, <4>1 DEF Tidy, OwnCalls
      <4> QED BY <3>1, <4>1, <4>2
    <3> QED BY <1>2, <3>3, ToolsOf
  <2> QED BY <2>2, <2>3, <2>4, <2>5
<1>6. Cut(w)
  BY <1>2, <1>4, <1>5 DEF Cut
<1> QED BY <1>2, <1>6 DEF w, k, N

LEMMA HeadedCuts ==
    ASSUME NEW w, Cut(w), NEW m, Sound(m), m.flat
    PROVE  Cut(<<m>> \o w) /\ Spoken(<<m>> \o w) = m.of \cup Spoken(w)
<1> DEFINE q == <<m>> \o w
           n == Len(w)
<1>1. IsList(w) /\ n \in Nat /\ Indices(w) = 1 .. n
  BY DEF Cut, IsList, Indices
<1>2. IsList(q) /\ Len(q) = n + 1 /\ q[1] = m /\ \A i \in Indices(w) : q[i + 1] = w[i]
  BY <1>1, AfterOne
<1> HIDE DEF q, n
<1>3. Indices(q) = 1 .. n + 1 /\ 1 \in Indices(q)
  BY <1>1, <1>2 DEF Indices
<1>4. ASSUME NEW i \in Indices(q), i # 1 PROVE i - 1 \in Indices(w) /\ q[i] = w[i - 1]
  <2>1. i - 1 \in Indices(w) /\ i - 1 + 1 = i
    BY <1>1, <1>3, <1>4
  <2> QED BY <1>2, <2>1
<1>5. m.uses = {} /\ m.results = {}
  BY DEF Sound
<1>6. \A i \in Indices(w) : i + 1 \in Indices(q)
  BY <1>1, <1>3
<1>7. ASSUME NEW x \in Uses(q) PROVE x \in Uses(w)
  <2>1. PICK i \in Indices(q) : x \in q[i].uses
    BY <1>2, <1>7, ToolsOf
  <2> QED BY <1>1, <1>2, <1>4, <1>5, <2>1, ToolsOf
<1>8. OwnCalls(q)
  <2>1. ASSUME NEW i \in Indices(q), NEW j \in Indices(q), i # j PROVE q[i].uses \cap q[j].uses = {}
    <3>1. CASE i = 1 \/ j = 1
      BY <1>2, <1>5, <3>1
    <3>2. CASE i # 1 /\ j # 1
      <4>1. i - 1 # j - 1
        BY <1>1, <1>3, <2>1
      <4> QED BY <1>4, <3>2, <4>1 DEF Cut, OwnCalls
    <3> QED BY <3>1, <3>2
  <2> QED BY <2>1 DEF OwnCalls
<1>9. ASSUME NEW i \in Indices(q)
      PROVE  /\ Sound(q[i])
             /\ q[i].uses # {} => i + 1 \in Indices(q) /\ q[i + 1].results = q[i].uses
             /\ \/ i - 1 \in Indices(q) /\ q[i - 1].uses = q[i].results
                \/ q[i].results \cap Uses(q) = {}
  <2>1. CASE i = 1
    BY <1>2, <1>5, <2>1
  <2>2. CASE i # 1
    <3>1. i - 1 \in Indices(w) /\ q[i] = w[i - 1]
      BY <1>4, <2>2
    <3>2. /\ Sound(w[i - 1])
          /\ w[i - 1].uses # {} => i - 1 + 1 \in Indices(w) /\ w[i - 1 + 1].results = w[i - 1].uses
          /\ \/ i - 1 - 1 \in Indices(w) /\ w[i - 1 - 1].uses = w[i - 1].results
             \/ w[i - 1].results \cap Uses(w) = {}
      BY <3>1 DEF Cut
    <3>3. i - 1 + 1 = i /\ i - 1 - 1 + 1 = i - 1
      BY <1>1, <1>3
    <3>4. q[i].uses # {} => i + 1 \in Indices(q) /\ q[i + 1].results = q[i].uses
      BY <1>2, <1>6, <3>1, <3>2, <3>3
    <3>5. \/ i - 1 \in Indices(q) /\ q[i - 1].uses = q[i].results
          \/ q[i].results \cap Uses(q) = {}
      <4>1. CASE i - 1 - 1 \in Indices(w) /\ w[i - 1 - 1].uses = w[i - 1].results
        <5>1. i - 1 \in Indices(q) /\ q[i - 1] = w[i - 1 - 1]
          BY <1>2, <1>6, <3>3, <4>1
        <5> QED BY <3>1, <4>1, <5>1
      <4>2. CASE w[i - 1].results \cap Uses(w) = {}
        BY <1>7, <3>1, <4>2
      <4> QED BY <3>2, <4>1, <4>2
    <3> QED BY <3>1, <3>2, <3>4, <3>5
  <2> QED BY <2>1, <2>2
<1>10. Cut(q)
  BY <1>2, <1>8, <1>9 DEF Cut
<1>11. Spoken(q) = m.of \cup Spoken(w)
  <2>1. ASSUME NEW x \in Spoken(q) PROVE x \in m.of \cup Spoken(w)
    <3>1. PICK i \in Indices(q) : x \in q[i].of
      BY <1>2, <2>1, ToolsOf
    <3> QED BY <1>1, <1>2, <1>4, <3>1, ToolsOf
  <2>2. ASSUME NEW x \in m.of PROVE x \in Spoken(q)
    BY <1>2, <1>3, <2>2, ToolsOf
  <2>3. ASSUME NEW x \in Spoken(w) PROVE x \in Spoken(q)
    <3>1. PICK i \in Indices(w) : x \in w[i].of
      BY <1>1, <2>3, ToolsOf
    <3> QED BY <1>2, <1>6, <3>1, ToolsOf
  <2> QED BY <2>1, <2>2, <2>3
<1> QED BY <1>10, <1>11 DEF q

\* The end of a list is not cut away.
LEMMA SlidesToTheEnd ==
    ASSUME NEW ms, Tidy(ms), Len(ms) # 0, ms[Len(ms)].flat, config.keep \in Nat \ {0}
    PROVE  LET bs == Slide(ms)
           IN  Tidy(bs) /\ Len(bs) # 0 /\ Len(bs) <= config.keep /\ bs[Len(bs)].of = ms[Len(ms)].of
<1> DEFINE n == config.keep
           w == LastOnes(ms, n)
<1>1. Len(ms) \in Nat
  BY DEF Tidy, IsList
<1>2. CASE Len(ms) <= n
  BY <1>2 DEF Slide
<1>3. CASE ~(Len(ms) <= n)
  <2>1. Cut(w) /\ Len(w) = n /\ w[n] = ms[Len(ms) - n + n] /\ Len(ms) - n + n = Len(ms)
    BY <1>1, <1>3, WindowCuts
  <2>2. Slide(ms) = BalanceToolTurns(w)
    BY <1>3 DEF Slide
  <2> HIDE DEF w
  <2>3. /\ Tidy(BalanceToolTurns(w)) /\ Len(BalanceToolTurns(w)) <= n /\ Len(BalanceToolTurns(w)) # 0
        /\ BalanceToolTurns(w)[Len(BalanceToolTurns(w))].of = ms[Len(ms)].of
    BY <2>1, BalanceTidies
  <2> QED BY <2>2, <2>3
<1> QED BY <1>2, <1>3

LEMMA SummaryTellsAll ==
    ASSUME NEW ms, Tidy(ms), ms[Len(ms)].flat, config.keep \in Nat, Len(ms) > config.keep + 1
    PROVE  LET bs == Summarized(ms)
           IN  /\ Tidy(bs) /\ Len(bs) # 0 /\ Len(bs) <= config.keep + 1
               /\ config.keep # 0 => bs[Len(bs)].of = ms[Len(ms)].of
               /\ Spoken(bs) = Spoken(ms)
<1> DEFINE n == config.keep
           N == Len(ms)
           h == HeadOf(ms)
           m == Summary(h)
           w == LastOnes(ms, n)
           q == <<m>> \o w
<1>1. IsList(ms) /\ N \in Nat /\ n \in Nat /\ n + 1 < N /\ Indices(ms) = 1 .. N
  BY DEF Tidy, IsList, Indices
<1>2. IsList(h) /\ Indices(h) = 1 .. N - n /\ \A i \in 1 .. N - n : h[i] = ms[i]
  <2>1. N - n \in Nat /\ N - n <= N /\ 1 <= N - n + 1 /\ N - n - 1 + 1 = N - n
    BY <1>1
  <2>2. /\ IsList(SubSeq(ms, 1, N - n)) /\ Len(SubSeq(ms, 1, N - n)) = N - n - 1 + 1
        /\ \A i \in 1 .. N - n - 1 + 1 : SubSeq(ms, 1, N - n)[i] = ms[1 + i - 1]
    BY <1>1, <2>1, SubList
  <2>3. \A i \in 1 .. N - n : 1 + i - 1 = i
    BY <1>1
  <2> QED BY <2>1, <2>2, <2>3 DEF HeadOf, Indices
<1>3. m.of = Spoken(h) /\ Sound(m) /\ m.flat
  BY DEF Summary, Flat, Message, Sound, IsMessage, Spoken
<1>4. Cut(w) /\ Len(w) = n /\ IsList(w) /\ Indices(w) = 1 .. n /\ \A i \in 1 .. n : w[i] = ms[N - n + i]
  <2>1. Cut(w) /\ Len(w) = n /\ \A i \in 1 .. n : w[i] = ms[N - n + i]
    BY <1>1, WindowCuts
  <2> QED BY <2>1 DEF Cut, Indices
<1> HIDE DEF m, h, w
<1>5. Cut(q) /\ Spoken(q) = Spoken(h) \cup Spoken(w) /\ Len(q) = n + 1 /\ q[1] = m
      /\ \A i \in 1 .. n : q[i + 1] = w[i]
  <2>1. Cut(q) /\ Spoken(q) = Spoken(h) \cup Spoken(w)
    BY <1>3, <1>4, HeadedCuts
  <2>2. Len(q) = n + 1 /\ q[1] = m /\ \A i \in 1 .. n : q[i + 1] = w[i]
    BY <1>4, AfterOne
  <2> QED BY <2>1, <2>2
<1>6. Summarized(ms) = BalanceToolTurns(q)
  BY DEF Summarized, q, m, h, w
<1> HIDE DEF q
<1>7. q[Len(q)].flat /\ Len(q) # 0 /\ (n # 0 => q[Len(q)] = ms[N])
  <2>1. CASE n = 0
    BY <1>3, <1>5, <2>1
  <2>2. CASE n # 0
    <3>1. n \in 1 .. n /\ N - n + n = N
      BY <1>1, <2>2
    <3>2. q[n + 1] = ms[N]
      BY <1>4, <1>5, <3>1
    <3> QED BY <1>1, <1>5, <3>2
  <2> QED BY <2>1, <2>2
<1>8. Spoken(q) = Spoken(ms)
  <2>1. ASSUME NEW x \in Spoken(h) PROVE x \in Spoken(ms)
    <3>1. PICK i \in 1 .. N - n : x \in h[i].of
      BY <1>2, <2>1, ToolsOf
    <3>2. i \in 1 .. N
      BY <1>1
    <3> QED BY <1>1, <1>2, <3>1, <3>2, ToolsOf
  <2>2. ASSUME NEW x \in Spoken(w) PROVE x \in Spoken(ms)
    <3>1. PICK i \in 1 .. n : x \in w[i].of
      BY <1>4, <2>2, ToolsOf
    <3>2. N - n + i \in 1 .. N
      BY <1>1
    <3> QED BY <1>1, <1>4, <3>1, <3>2, ToolsOf
  <2>3. ASSUME NEW x \in Spoken(ms) PROVE x \in Spoken(h) \/ x \in Spoken(w)
    <3>1. PICK i \in 1 .. N : x \in ms[i].of
      BY <1>1, <2>3, ToolsOf
    <3>2. CASE i \in 1 .. N - n
      BY <1>2, <3>1, <3>2, ToolsOf
    <3>3. CASE i \notin 1 .. N - n
      <4>1. i - (N - n) \in 1 .. n /\ N - n + (i - (N - n)) = i
        BY <1>1, <3>3, SMTT(30)
      <4>2. w[i - (N - n)] = ms[i]
        BY <1>4, <4>1
      <4> QED BY <1>4, <3>1, <4>1, <4>2, ToolsOf
    <3> QED BY <3>2, <3>3
  <2> QED BY <1>5, <2>1, <2>2, <2>3
<1>9. /\ Tidy(BalanceToolTurns(q)) /\ Len(BalanceToolTurns(q)) <= n + 1 /\ Len(BalanceToolTurns(q)) # 0
      /\ BalanceToolTurns(q)[Len(BalanceToolTurns(q))].of = q[Len(q)].of
      /\ Spoken(BalanceToolTurns(q)) = Spoken(ms)
  BY <1>5, <1>7, <1>8, BalanceTidies
<1> QED BY <1>6, <1>7, <1>9

\* Stored and read back, a message with one text may have become flat.
LEMMA ResumingKeeps ==
    ASSUME NEW ms, Tidy(ms)
    PROVE  LET rs == FromStored(ToStored(ms))
           IN  Tidy(rs) /\ Spoken(rs) = Spoken(ms)
<1> DEFINE rs == FromStored(ToStored(ms))
           N == Len(ms)
           Tools(m) == m.uses \cup m.results # {}
           Back(m) == [m EXCEPT !.flat = ~Tools(m)]
<1>1. IsList(ms) /\ N \in Nat /\ Indices(ms) = 1 .. N /\ DOMAIN ms = 1 .. N
  BY ListIsSeq DEF Tidy, IsList, Indices
<1>2. rs = [i \in 1 .. N |-> Back(ms[i])]
  BY <1>1 DEF FromStored, ToStored
<1> HIDE DEF rs
<1>3. IsList(rs) /\ Len(rs) = N /\ Indices(rs) = 1 .. N /\ DOMAIN rs = 1 .. N
  <2>1. rs \in [1 .. N -> {Back(ms[i]) : i \in 1 .. N}]
    BY <1>2
  <2>2. rs \in Seq({Back(ms[i]) : i \in 1 .. N})
    BY <1>1, <2>1, SeqDef, ZenonT(60)
  <2>3. Len(rs) \in Nat /\ 1 .. Len(rs) = 1 .. N
    BY <1>2, <2>2, LenProperties
  <2>4. Len(rs) = N
    <3>1. Len(rs) <= N
      BY <1>1, <2>3
    <3>2. N <= Len(rs)
      BY <1>1, <2>3
    <3> QED BY <1>1, <2>3, <3>1, <3>2
  <2> QED BY <1>2, <2>2, <2>4, ListIsSeq DEF Indices
<1>4. ASSUME NEW i \in 1 .. N
      PROVE  /\ Sound(rs[i]) /\ ~Empty(rs[i])
             /\ rs[i].uses = ms[i].uses /\ rs[i].results = ms[i].results /\ rs[i].of = ms[i].of
  <2> DEFINE m == ms[i]
             r == rs[i]
  <2>1. Sound(m) /\ ~Empty(m)
    BY <1>1 DEF Tidy
  <2>2. r = [m EXCEPT !.flat = ~Tools(m)]
    BY <1>2
  <2>3. m = Message(m.role, m.text, m.uses, m.results, m.flat, m.of)
    BY <2>1 DEF Sound, IsMessage
  <2> HIDE DEF m, r
  <2>4. /\ r.role = m.role /\ r.text = m.text /\ r.uses = m.uses /\ r.results = m.results
        /\ r.of = m.of /\ r.flat = ~Tools(m)
        /\ r = Message(m.role, m.text, m.uses, m.results, ~Tools(m), m.of)
    BY <2>2, <2>3 DEF Message
  <2>5. IsMessage(r)
    BY <2>4 DEF IsMessage
  <2>6. Sound(r) /\ ~Empty(r)
    BY <2>1, <2>4, <2>5 DEF Sound, Empty
  <2> QED BY <2>4, <2>6 DEF m, r
<1>5. OwnCalls(rs)
  BY <1>1, <1>3, <1>4 DEF OwnCalls, Tidy
<1>6. Paired(rs)
  <2>1. ASSUME NEW i \in 1 .. N
        PROVE  /\ rs[i].uses # {} => i < N /\ rs[i + 1].results = rs[i].uses
               /\ rs[i].results # {} => i > 1 /\ rs[i - 1].uses = rs[i].results
    <3>1. /\ ms[i].uses # {} => i < N /\ ms[i + 1].results = ms[i].uses
          /\ ms[i].results # {} => i > 1 /\ ms[i - 1].uses = ms[i].results
      BY <1>1 DEF Tidy, Paired
    <3>2. /\ i < N => i + 1 \in 1 .. N
          /\ i > 1 => i - 1 \in 1 .. N
      BY <1>1
    <3> QED BY <1>4, <3>1, <3>2
  <2> QED BY <1>3, <2>1 DEF Paired
<1>7. Tidy(rs)
  BY <1>3, <1>4, <1>5, <1>6 DEF Tidy
<1>8. \A x : x \in Spoken(rs) <=> x \in Spoken(ms)
  <2>1. \A x : x \in Spoken(rs) <=> \E i \in 1 .. N : x \in rs[i].of
    BY <1>3, ToolsOf
  <2>2. \A x : x \in Spoken(ms) <=> \E i \in 1 .. N : x \in ms[i].of
    BY <1>1, ToolsOf
  <2> QED BY <1>4, <2>1, <2>2
<1> QED BY <1>7, <1>8 DEF rs

LEMMA SeedsAreTidy == Tidy(Seeds) /\ Spoken(Seeds) = {} /\ Tidy(<<>>) /\ Spoken(<<>>) = {}
<1>1. /\ IsList(Seeds) /\ Len(Seeds) = 4 /\ Indices(Seeds) = 1 .. 4 /\ DOMAIN Seeds = 1 .. 4
      /\ Seeds[1] = Message("user", <<"w">>, {}, {}, FALSE, {})
      /\ Seeds[2] = Message("assistant", <<>>, {1, 2}, {}, FALSE, {})
      /\ Seeds[3] = Message("user", <<>>, {}, {1, 2}, FALSE, {})
      /\ Seeds[4] = Message("assistant", <<"w">>, {}, {}, FALSE, {})
  <2>1. Seeds \in Seq({Seeds[1], Seeds[2], Seeds[3], Seeds[4]}) /\ Len(Seeds) = 4
    BY DEF Seeds
  <2>2. IsList(Seeds) /\ Indices(Seeds) = 1 .. 4 /\ DOMAIN Seeds = 1 .. 4
    BY <2>1, ListIsSeq DEF Indices
  <2> QED BY <2>1, <2>2 DEF Seeds
<1> HIDE DEF Seeds
<1>2. /\ Seeds[1].uses = {} /\ Seeds[1].results = {} /\ Seeds[1].of = {}
      /\ Seeds[2].uses = {1, 2} /\ Seeds[2].results = {} /\ Seeds[2].of = {}
      /\ Seeds[3].uses = {} /\ Seeds[3].results = {1, 2} /\ Seeds[3].of = {}
      /\ Seeds[4].uses = {} /\ Seeds[4].results = {} /\ Seeds[4].of = {}
  BY <1>1 DEF Message
<1>3. \A i \in 1 .. 4 : i = 1 \/ i = 2 \/ i = 3 \/ i = 4
  OBVIOUS
<1>4. ASSUME NEW i \in 1 .. 4 PROVE Sound(Seeds[i]) /\ ~Empty(Seeds[i])
  <2>1. Sound(Seeds[1]) /\ ~Empty(Seeds[1])
    BY <1>1 DEF Sound, Empty, IsMessage, Message
  <2>2. Sound(Seeds[2]) /\ ~Empty(Seeds[2])
    BY <1>1 DEF Sound, Empty, IsMessage, Message
  <2>3. Sound(Seeds[3]) /\ ~Empty(Seeds[3])
    BY <1>1 DEF Sound, Empty, IsMessage, Message
  <2>4. Sound(Seeds[4]) /\ ~Empty(Seeds[4])
    BY <1>1 DEF Sound, Empty, IsMessage, Message
  <2> QED BY <1>3, <2>1, <2>2, <2>3, <2>4
<1>5. Paired(Seeds)
  <2>1. ASSUME NEW i \in 1 .. 4
        PROVE  /\ Seeds[i].uses # {} => i < 4 /\ Seeds[i + 1].results = Seeds[i].uses
               /\ Seeds[i].results # {} => i > 1 /\ Seeds[i - 1].uses = Seeds[i].results
    <3>1. CASE i = 1
      BY <1>2, <3>1
    <3>2. CASE i = 2
      <4>1. i + 1 = 3 /\ i < 4
        BY <3>2
      <4> QED BY <1>2, <3>2, <4>1
    <3>3. CASE i = 3
      <4>1. i - 1 = 2 /\ i > 1
        BY <3>3
      <4> QED BY <1>2, <3>3, <4>1
    <3>4. CASE i = 4
      BY <1>2, <3>4
    <3> QED BY <1>3, <3>1, <3>2, <3>3, <3>4
  <2> QED BY <1>1, <2>1 DEF Paired
<1>6. OwnCalls(Seeds)
  BY <1>1, <1>2, <1>3 DEF OwnCalls
<1>7. Spoken(Seeds) = {}
  BY <1>1, <1>2, <1>3, ToolsOf
<1>8. IsList(<<>>) /\ Len(<<>>) = 0 /\ Indices(<<>>) = {} /\ DOMAIN <<>> = {}
  BY DEF IsList, Indices
<1>9. Tidy(<<>>) /\ Spoken(<<>>) = {}
  BY <1>8, ToolsOf DEF Tidy, Paired, OwnCalls
<1> QED BY <1>1, <1>4, <1>5, <1>6, <1>7, <1>9 DEF Tidy

-----------------------------------------------------------------------------
(* The history of a conversation. *)

Asking == {"input", "picture", "ready", "model"}

\* What a request of a chat may be: keep_recent = 0 summarizes its question too.
Whole(c, ms) ==
    /\ Paired(ms)
    /\ config.manager # "none" => Len(ms) <= config.keep + 1
    /\ config.manager = "sliding" => Len(ms) <= config.keep
    /\ \/ config.manager = "summarizing" /\ config.keep = 0
       \/ ms[Len(ms)].of = {<<c, "user">>}

\* What waits for its summary.
ToSummarize(c, ms) ==
    /\ Tidy(ms) /\ Len(ms) > config.keep + 1 /\ config.manager = "summarizing"
    /\ ms[Len(ms)].flat /\ ms[Len(ms)].of = {<<c, "user">>}

CallOK(c, r) ==
    /\ IsCall(r)
    /\ r.pc = "summary" => ToSummarize(c, r.input)
    /\ r.kind = "send" /\ r.pc \in Asking => Whole(c, r.input)

OneByOne ==
    /\ \A c, d \in Calls : InFlight(c) /\ InFlight(d) => c = d
    /\ \A c \in Calls : call[c].pc = "summary" => call[c].input = messages

HistoryInv ==
    /\ config \in Configs
    /\ Tidy(messages)
    /\ DOMAIN call = Calls /\ \A c \in Calls : CallOK(c, call[c])
    /\ ~config.overlap => OneByOne
    /\ ~config.overlap /\ config.manager # "sliding" => turns = Spoken(messages)

\* r is a later state of the call q, with the same request.
Carried(q, r) ==
    /\ IsCall(r) /\ r.pc # "summary"
    /\ r.pc \in Asking => q.pc \in Asking /\ r.kind = q.kind /\ r.input = q.input

Proceeds(c) ==
    /\ config' = config /\ InFlight(c)
    /\ \E r : Carried(call[c], r) /\ Becomes(c, r)
    /\ \/ Kept
       \/ \E said : /\ messages' = Append(messages, Flat("assistant", said, {<<c, "assistant">>}))
                    /\ turns' = turns \cup {<<c, "assistant">>}

LEMMA Proceeding ==
    ASSUME HistoryInv, NEW c \in Calls, Proceeds(c)
    PROVE  HistoryInv'
<1>1. PICK r : Carried(call[c], r) /\ Becomes(c, r)
  BY DEF Proceeds
<1>2. /\ config' = config /\ InFlight(c) /\ DOMAIN call = Calls
      /\ call' = [call EXCEPT ![c] = r]
  BY <1>1 DEF Proceeds, HistoryInv, Becomes
<1>3. call'[c] = r /\ (\A d \in Calls : d # c => call'[d] = call[d]) /\ DOMAIN call' = Calls
  BY <1>2
<1>4. Tidy(messages') /\ (turns = Spoken(messages) => turns' = Spoken(messages'))
  <2>1. CASE Kept
    BY <2>1 DEF Kept, HistoryInv
  <2>2. CASE ~Kept
    <3>1. PICK said : /\ messages' = Append(messages, Flat("assistant", said, {<<c, "assistant">>}))
                      /\ turns' = turns \cup {<<c, "assistant">>}
      BY <2>2 DEF Proceeds
    <3>2. Tidy(messages)
      BY DEF HistoryInv
    <3> DEFINE of == {<<c, "assistant">>}
               m == Flat("assistant", said, of)
    <3>3. m = Flat("assistant", said, of) /\ messages' = Append(messages, m) /\ turns' = turns \cup of
      BY <3>1
    <3> HIDE DEF of, m
    <3>4. Says(messages', messages, m, of)
      BY <3>2, <3>3, SayingKeeps
    <3> QED BY <3>3, <3>4 DEF Says
  <2> QED BY <2>1, <2>2
<1>5. CallOK(c, r)
  BY <1>1 DEF Carried, CallOK, HistoryInv
<1>6. \A d \in Calls : CallOK(d, call'[d])
  BY <1>3, <1>5 DEF HistoryInv
<1>7. ASSUME ~config.overlap PROVE OneByOne'
  <2>1. OneByOne
    BY <1>7 DEF HistoryInv
  <2>2. \A d \in Calls : d # c => ~InFlight(d)
    BY <1>2, <2>1 DEF OneByOne
  <2>3. \A d \in Calls : d # c => ~(InFlight(d)')
    BY <1>3, <2>2 DEF InFlight
  <2>4. \A d \in Calls : call'[d].pc # "summary"
    BY <1>1, <1>3, <2>2 DEF Carried, InFlight
  <2> QED BY <2>3, <2>4 DEF OneByOne
<1>9. (\A d \in Calls : CallOK(d, call[d]))'
  BY <1>2, <1>6 DEF CallOK, Whole, ToSummarize
<1> QED BY <1>2, <1>3, <1>4, <1>7, <1>9 DEF HistoryInv

LEMMA Ending ==
    ASSUME NEW q
    PROVE  Carried(q, Over("done")) /\ Carried(q, Over("failed")) /\ Carried(q, Over("refused"))
BY DEF Carried, Over, Waiting, IsCall, CallFields, Asking

LEMMA ReturnProceeds ==
    ASSUME NEW c \in Calls, InFlight(c), config' = config, Returned(c) \/ TurnedDown(c)
    PROVE  Proceeds(c)
<1>1. CASE Returned(c)
  BY <1>1, Ending DEF Returned, Proceeds
<1>2. CASE ~Returned(c)
  BY <1>2, Ending DEF TurnedDown, Proceeds
<1> QED BY <1>1, <1>2

LEMMA PassProceeds ==
    ASSUME NEW c \in Calls, IsCall(call[c]), config' = config, call[c].pc \in {"input", "output"}, Passes(c)
    PROVE  Proceeds(c)
<1>0. InFlight(c)
  BY DEF InFlight
<1>1. CASE Returned(c)
  BY <1>0, <1>1, ReturnProceeds
<1>2. CASE ~Returned(c)
  <2> DEFINE r == [call[c] EXCEPT !.judged = Judged(c), !.backend = "openai",
                                  !.pc = IF @ = "input" THEN AfterInput(c) ELSE "scope"]
  <2>1. Becomes(c, r) /\ Kept
    BY <1>2 DEF Passes
  <2>2. IsCall(r) /\ r.kind = call[c].kind /\ r.input = call[c].input
        /\ r.pc = IF call[c].pc = "input" THEN AfterInput(c) ELSE "scope"
    BY DEF IsCall, CallFields
  <2>3. Carried(call[c], r)
    <3> HIDE DEF r
    <3> QED BY <2>2 DEF Carried, Asking, AfterInput
  <2> HIDE DEF r
  <2> QED BY <1>0, <2>1, <2>3 DEF Proceeds
<1> QED BY <1>1, <1>2

LEMMA ScreensProceed ==
    ASSUME NEW c \in Calls, IsCall(call[c]),
           \/ InjectionFound(c) \/ OpenAIModerates(c) \/ ClassifierModerates(c)
           \/ ScopeChecks(c) \/ ScreensImage(c)
    PROVE  Proceeds(c)
<1>1. CASE InjectionFound(c)
  BY <1>1, ReturnProceeds DEF InjectionFound, Awaits, InFlight
<1>2. ASSUME config' = config, Awaits(c), NextBackend(c) PROVE Proceeds(c)
  <2> DEFINE r == [call[c] EXCEPT !.backend = "llm"]
  <2>1. Carried(call[c], r)
    BY <1>2 DEF Carried, IsCall, CallFields, Asking, Awaits
  <2>2. Becomes(c, r) /\ Kept
    BY <1>2 DEF NextBackend
  <2>3. InFlight(c)
    BY <1>2 DEF InFlight, Awaits
  <2> HIDE DEF r
  <2> QED BY <1>2, <2>1, <2>2, <2>3 DEF Proceeds
<1>3. ASSUME config' = config, Awaits(c), Passes(c) \/ Flagged(c) \/ NoBackend(c) PROVE Proceeds(c)
  <2>1. InFlight(c) /\ (Passes(c) \/ TurnedDown(c)) /\ call[c].pc \in {"input", "output"}
    BY <1>3 DEF Flagged, Awaits, InFlight, NoBackend
  <2> QED BY <1>3, <2>1, PassProceeds, ReturnProceeds
<1>4. CASE OpenAIModerates(c)
  BY <1>2, <1>3, <1>4 DEF OpenAIModerates
<1>5. CASE ClassifierModerates(c)
  <2>1. config' = config /\ Awaits(c)
    BY <1>5 DEF ClassifierModerates
  <2>2. NoBackend(c) \/ Passes(c) \/ Flagged(c)
    BY <1>5 DEF ClassifierModerates
  <2> QED BY <1>3, <2>1, <2>2
<1>6. CASE ScopeChecks(c)
  BY <1>6, ReturnProceeds DEF ScopeChecks, InFlight
<1>7. CASE ScreensImage(c)
  <2> DEFINE r == [call[c] EXCEPT !.pc = "ready"]
  <2>1. call[c].pc = "picture" /\ config' = config /\ Kept
    BY <1>7 DEF ScreensImage
  <2>2. Becomes(c, r) \/ Becomes(c, Over("refused"))
    BY <1>7 DEF ScreensImage
  <2>3. Carried(call[c], r)
    BY <2>1 DEF Carried, IsCall, CallFields, Asking
  <2>4. InFlight(c)
    BY <2>1 DEF InFlight
  <2> HIDE DEF r
  <2> QED BY <2>1, <2>2, <2>3, <2>4, Ending DEF Proceeds
<1> QED BY <1>1, <1>4, <1>5, <1>6, <1>7

LEMMA VendorStepsProceed ==
    ASSUME NEW c \in Calls, IsCall(call[c]),
           \/ Ask(c) \/ ImageBlocked(c) \/ VendorFails(c) \/ VendorReplies(c) \/ VendorStreams(c)
           \/ ChunkArrives(c) \/ StreamEnds(c) \/ Unscreened(c) \/ SummaryFails(c)
    PROVE  Proceeds(c)
<1>1. ASSUME NEW r, Becomes(c, r), Carried(call[c], r), config' = config, Kept, InFlight(c)
      PROVE  Proceeds(c)
  BY <1>1 DEF Proceeds
<1>2. CASE Ask(c)
  <2>1. call[c].pc = "ready" /\ config' = config /\ Kept
    BY <1>2 DEF Ask
  <2>2. PICK m : Becomes(c, [call[c] EXCEPT !.pc = "model", !.sent = m.texts, !.input = Given(c)]) \/ Fails(c)
    BY <1>2 DEF Ask
  <2> DEFINE r == [call[c] EXCEPT !.pc = "model", !.sent = m.texts, !.input = Given(c)]
  <2>3. Carried(call[c], r)
    BY <2>1 DEF Carried, IsCall, CallFields, Asking, Given
  <2>4. Becomes(c, r) \/ Becomes(c, Over("failed"))
    BY <2>2 DEF Fails
  <2>5. InFlight(c)
    BY <2>1 DEF InFlight
  <2> HIDE DEF r
  <2> QED BY <1>1, <2>1, <2>3, <2>4, <2>5, Ending
<1>3. CASE ImageBlocked(c) \/ VendorFails(c) \/ SummaryFails(c)
  <2>1. config' = config /\ Becomes(c, Over("failed")) /\ Kept /\ InFlight(c)
    BY <1>3 DEF SummaryFails, ImageBlocked, VendorFails, Fails, InFlight, Kept
  <2> QED BY <1>1, <2>1, Ending
<1>4. CASE VendorReplies(c)
  <2>1. config' = config /\ Kept /\ InFlight(c)
    BY <1>4 DEF VendorReplies, InFlight
  <2>2. PICK text \in Replies(c) :
           Becomes(c, [call[c] EXCEPT !.pc = "output", !.shown = Restored(text)])
    BY <1>4 DEF VendorReplies
  <2>3. Carried(call[c], [call[c] EXCEPT !.pc = "output", !.shown = Restored(text)])
    BY DEF Carried, IsCall, CallFields, Asking
  <2> QED BY <1>1, <2>1, <2>2, <2>3
<1>5. CASE VendorStreams(c)
  <2>1. config' = config /\ Kept /\ InFlight(c)
    BY <1>5 DEF VendorStreams, InFlight
  <2>2. PICK text \in Replies(c) : Becomes(c, [call[c] EXCEPT !.pc = "stream", !.reply = text])
    BY <1>5 DEF VendorStreams
  <2>3. Carried(call[c], [call[c] EXCEPT !.pc = "stream", !.reply = text])
    BY DEF Carried, IsCall, CallFields, Asking
  <2> QED BY <1>1, <2>1, <2>2, <2>3
<1>6. CASE ChunkArrives(c)
  <2>1. config' = config /\ Kept /\ InFlight(c) /\ call[c].pc = "stream"
    BY <1>6 DEF ChunkArrives, InFlight
  <2>2. PICK to, held, out : Becomes(c, [call[c] EXCEPT !.at = to, !.held = held, !.shown = @ \o out])
    BY <1>6 DEF ChunkArrives
  <2>3. Carried(call[c], [call[c] EXCEPT !.at = to, !.held = held, !.shown = @ \o out])
    BY <2>1 DEF Carried, IsCall, CallFields, Asking
  <2> QED BY <1>1, <2>1, <2>2, <2>3
<1>7. CASE StreamEnds(c)
  <2>1. config' = config /\ Kept /\ InFlight(c)
        /\ Becomes(c, [call[c] EXCEPT !.pc = "output", !.shown = @ \o Flush(vault, call[c].held)])
    BY <1>7 DEF StreamEnds, InFlight
  <2>2. Carried(call[c], [call[c] EXCEPT !.pc = "output", !.shown = @ \o Flush(vault, call[c].held)])
    BY DEF Carried, IsCall, CallFields, Asking
  <2> QED BY <1>1, <2>1, <2>2
<1>8. CASE Unscreened(c)
  BY <1>8, ReturnProceeds DEF Unscreened, InFlight
<1> QED BY <1>2, <1>3, <1>4, <1>5, <1>6, <1>7, <1>8

\* q begins with the list ms.
Begins(q, r, ms) ==
    IsCall(q) /\ q.pc \in {"input", "ready", "summary"} /\ q.kind = r.kind /\ q.input = ms

LEMMA Beginning ==
    ASSUME NEW r, IsCall(r), NEW ms
    PROVE  /\ Begins(Analyze(r, ms), r, ms) /\ Analyze(r, ms).pc # "summary"
           /\ Begins([r EXCEPT !.pc = "summary", !.input = ms], r, ms)
           /\ [r EXCEPT !.pc = "summary", !.input = ms].pc = "summary"
BY DEF Analyze, IsCall, CallFields, Begins

LEMMA CallsIdle ==
    /\ IsCall(Waiting) /\ Waiting.pc = "idle" /\ Waiting.kind = "none"
    /\ \A k : IsCall([Waiting EXCEPT !.kind = k]) /\ [Waiting EXCEPT !.kind = k].kind = k
BY DEF Waiting, IsCall, CallFields

\* While no two are in flight a call that begins is the only one.
LEMMA OnlyOne ==
    ASSUME HistoryInv, NEW c \in Calls, Alone(c), NEW r, Becomes(c, r), config' = config,
           r.pc = "summary" => r.input = messages', ~config.overlap
    PROVE  OneByOne'
<1>1. call'[c] = r /\ (\A d \in Calls : d # c => call'[d] = call[d])
  BY DEF Becomes, HistoryInv
<1>2. \A d \in Calls : d # c => ~InFlight(d)
  BY DEF Alone
<1>3. \A d \in Calls : d # c => ~(InFlight(d)') /\ call'[d].pc # "summary"
  BY <1>1, <1>2 DEF InFlight
<1> QED BY <1>1, <1>3 DEF OneByOne

LEMMA SendKeeps ==
    ASSUME HistoryInv, NEW c \in Calls, NEW text, Send(c, text)
    PROVE  HistoryInv'
<1> DEFINE of == {<<c, "user">>}
           own == Flat("user", text, of)
           ms == Append(messages, own)
           r == [Waiting EXCEPT !.kind = "send"]
           q == IF Triggers(ms) THEN [r EXCEPT !.pc = "summary", !.input = ms] ELSE Analyze(r, Managed(ms))
<1>1. /\ config' = config /\ Alone(c) /\ turns' = turns \cup own.of
      /\ messages' = Managed(ms) /\ Becomes(c, q)
  BY DEF Send
<1>2. Tidy(messages) /\ config \in Configs
  BY DEF HistoryInv
<1>3. /\ Tidy(ms) /\ Len(ms) \in Nat /\ Len(ms) # 0 /\ ms[Len(ms)] = own
      /\ own.flat /\ own.of = {<<c, "user">>} /\ Spoken(ms) = Spoken(messages) \cup own.of
  <2>1. own = Flat("user", text, of) /\ ms = Append(messages, own)
    OBVIOUS
  <2> HIDE DEF ms, own, of
  <2>2. Says(ms, messages, own, of)
    BY <1>2, <2>1, SayingKeeps
  <2>3. Len(ms) \in Nat /\ Len(ms) # 0
    BY <2>2 DEF Says
  <2>4. own.of = of /\ Spoken(ms) = Spoken(messages) \cup of
    BY <2>2 DEF Says
  <2> QED BY <2>2, <2>3, <2>4 DEF of, Says
<1>4. /\ config.keep \in Nat /\ config.manager \in {"none", "sliding", "summarizing"}
      /\ config.manager = "sliding" => config.keep # 0
  BY <1>2, ChatTurnAssumption
<1>5. IsCall(r) /\ r.kind = "send"
  BY CallsIdle
<1> HIDE DEF own, ms, r
<1>6. /\ Tidy(Managed(ms)) /\ Len(Managed(ms)) # 0
      /\ Managed(ms)[Len(Managed(ms))].of = {<<c, "user">>}
      /\ config.manager = "sliding" => Len(Managed(ms)) <= config.keep
      /\ config.manager # "sliding" => Managed(ms) = ms
  <2>1. CASE config.manager = "sliding"
    <3>1. /\ Tidy(Slide(ms)) /\ Len(Slide(ms)) # 0 /\ Len(Slide(ms)) <= config.keep
          /\ Slide(ms)[Len(Slide(ms))].of = ms[Len(ms)].of
      BY <1>3, <1>4, <2>1, SlidesToTheEnd
    <3> QED BY <1>3, <2>1, <3>1 DEF Managed
  <2>2. CASE config.manager # "sliding"
    BY <1>3, <2>2 DEF Managed
  <2> QED BY <2>1, <2>2
<1>7. CallOK(c, q) /\ (q.pc = "summary" => q.input = Managed(ms))
  <2>1. CASE Triggers(ms)
    <3>1. IsCall(q) /\ q.pc = "summary" /\ q.input = ms
      BY <1>5, <2>1, Beginning DEF Begins
    <3>2. ToSummarize(c, ms) /\ Managed(ms) = ms
      BY <1>3, <1>6, <2>1 DEF ToSummarize, Triggers
    <3> HIDE DEF q
    <3> QED BY <3>1, <3>2 DEF CallOK, Asking
  <2>2. CASE ~Triggers(ms)
    <3>1. Begins(q, r, Managed(ms)) /\ q.pc # "summary"
      BY <1>5, <2>2, Beginning
    <3>2. Whole(c, Managed(ms))
      <4>1. Len(Managed(ms)) \in Nat /\ Paired(Managed(ms))
        BY <1>6 DEF Tidy, IsList
      <4>2. config.manager # "none" => Len(Managed(ms)) <= config.keep + 1
        <5>1. CASE config.manager = "sliding"
          BY <1>4, <1>6, <4>1, <5>1
        <5>2. CASE config.manager = "summarizing"
          BY <1>3, <1>4, <1>6, <2>2, <5>2 DEF Triggers
        <5> QED BY <1>4, <5>1, <5>2
      <4> QED BY <1>6, <4>1, <4>2 DEF Whole
    <3> HIDE DEF q
    <3>3. IsCall(q) /\ q.pc \in {"input", "ready"} /\ q.kind = "send" /\ q.input = Managed(ms)
      BY <1>5, <3>1 DEF Begins
    <3> QED BY <3>2, <3>3 DEF CallOK
  <2> QED BY <2>1, <2>2
<1> HIDE DEF q
<1>8. call'[c] = q /\ (\A d \in Calls : d # c => call'[d] = call[d]) /\ DOMAIN call' = Calls
  BY <1>1 DEF Becomes, HistoryInv
<1>9. \A d \in Calls : CallOK(d, call'[d])
  BY <1>7, <1>8 DEF HistoryInv
<1>10. (\A d \in Calls : CallOK(d, call[d]))'
  BY <1>1, <1>9 DEF CallOK, Whole, ToSummarize
<1>11. ~config.overlap => OneByOne'
  BY <1>1, <1>7, OnlyOne
<1>12. ~config.overlap /\ config.manager # "sliding" => turns' = Spoken(messages')
  BY <1>1, <1>3, <1>6 DEF HistoryInv
<1> QED BY <1>1, <1>2, <1>6, <1>8, <1>10, <1>11, <1>12 DEF HistoryInv

LEMMA ApartKeeps ==
    ASSUME HistoryInv, NEW c \in Calls, NEW kind \in {"stream", "image"}, NEW text, Apart(c, kind, text)
    PROVE  HistoryInv'
<1> DEFINE r == [Waiting EXCEPT !.kind = kind]
           ms == <<Flat("user", text, {})>>
           q == Analyze(r, ms)
<1>1. config' = config /\ Alone(c) /\ Becomes(c, q) /\ messages' = messages /\ turns' = turns
  BY DEF Apart
<1>2. IsCall(q) /\ q.pc \in {"input", "ready"} /\ q.kind = kind
  <2>1. IsCall(r) /\ r.kind = kind
    BY CallsIdle
  <2> HIDE DEF r, ms
  <2>2. Begins(q, r, ms) /\ q.pc # "summary"
    BY <2>1, Beginning
  <2> HIDE DEF q
  <2> QED BY <2>1, <2>2 DEF Begins
<1> HIDE DEF q
<1>3. CallOK(c, q)
  BY <1>2 DEF CallOK
<1>4. call'[c] = q /\ (\A d \in Calls : d # c => call'[d] = call[d]) /\ DOMAIN call' = Calls
  BY <1>1 DEF Becomes, HistoryInv
<1>5. \A d \in Calls : CallOK(d, call'[d])
  BY <1>3, <1>4 DEF HistoryInv
<1>6. (\A d \in Calls : CallOK(d, call[d]))'
  BY <1>1, <1>5 DEF CallOK, Whole, ToSummarize
<1>7. ~config.overlap => OneByOne'
  BY <1>1, <1>2, OnlyOne
<1> QED BY <1>1, <1>4, <1>6, <1>7 DEF HistoryInv

LEMMA SummaryKeeps ==
    ASSUME HistoryInv, NEW c \in Calls, SummaryArrives(c)
    PROVE  HistoryInv'
<1> DEFINE ms == call[c].input
           short == Summarized(ms)
           q == Analyze(call[c], short)
<1>1. /\ config' = config /\ call[c].pc = "summary" /\ messages' = short /\ Becomes(c, q)
      /\ turns' = turns
  BY DEF SummaryArrives
<1>2. CallOK(c, call[c]) /\ config \in Configs /\ IsCall(call[c])
  BY DEF HistoryInv, CallOK
<1>3. ToSummarize(c, ms)
  BY <1>1, <1>2 DEF CallOK
<1>4. config.keep \in Nat
  BY <1>2, ChatTurnAssumption
<1>5. IsCall(q) /\ q.pc \in {"input", "ready"} /\ q.input = short
  <2> HIDE DEF short
  <2>1. Begins(q, call[c], short) /\ q.pc # "summary"
    BY <1>2, Beginning
  <2> QED BY <2>1 DEF Begins
<1> HIDE DEF ms
<1>6. /\ Tidy(short) /\ Len(short) # 0 /\ Len(short) <= config.keep + 1
      /\ config.keep # 0 => short[Len(short)].of = {<<c, "user">>}
      /\ Spoken(short) = Spoken(ms)
  BY <1>3, <1>4, SummaryTellsAll DEF ToSummarize
<1> HIDE DEF short
<1>7. Whole(c, short)
  BY <1>3, <1>6 DEF Whole, Tidy, ToSummarize
<1> HIDE DEF q
<1>8. CallOK(c, q)
  BY <1>5, <1>7 DEF CallOK
<1>9. call'[c] = q /\ (\A d \in Calls : d # c => call'[d] = call[d]) /\ DOMAIN call' = Calls
  BY <1>1 DEF Becomes, HistoryInv
<1>10. \A d \in Calls : CallOK(d, call'[d])
  BY <1>8, <1>9 DEF HistoryInv
<1>11. (\A d \in Calls : CallOK(d, call[d]))'
  BY <1>1, <1>10 DEF CallOK, Whole, ToSummarize
<1>12. ASSUME ~config.overlap PROVE OneByOne' /\ Spoken(short) = Spoken(messages)
  <2>1. OneByOne /\ InFlight(c)
    BY <1>1, <1>12 DEF HistoryInv, InFlight
  <2>2. ms = messages
    BY <1>1, <2>1 DEF OneByOne, ms
  <2>3. \A d \in Calls : d # c => ~InFlight(d)
    BY <2>1 DEF OneByOne
  <2>4. \A d \in Calls : d # c => ~(InFlight(d)') /\ call'[d].pc # "summary"
    BY <1>9, <2>3 DEF InFlight
  <2> QED BY <1>5, <1>6, <1>9, <2>2, <2>4 DEF OneByOne
<1> QED BY <1>1, <1>2, <1>6, <1>9, <1>11, <1>12 DEF HistoryInv

LEMMA HistoryInitInv == ChatInit => HistoryInv
<1> SUFFICES ASSUME ChatInit PROVE HistoryInv
  OBVIOUS
<1>1. config \in Configs /\ turns = {} /\ messages = (IF config.seeded THEN Seeds ELSE <<>>)
  BY DEF ChatInit
<1>2. Tidy(messages) /\ Spoken(messages) = {}
  BY <1>1, SeedsAreTidy
<1>3. DOMAIN call = Calls /\ \A c \in Calls : call[c] = Waiting
  BY DEF ChatInit
<1>4. \A c \in Calls : CallOK(c, call[c]) /\ ~InFlight(c) /\ call[c].pc # "summary"
  BY <1>3, CallsIdle DEF CallOK, InFlight, Asking
<1> QED BY <1>1, <1>2, <1>3, <1>4 DEF HistoryInv, OneByOne

LEMMA HistoryNextInv == HistoryInv /\ [ChatNext]_chatVars => HistoryInv'
<1> SUFFICES ASSUME HistoryInv, [ChatNext]_chatVars PROVE HistoryInv'
  OBVIOUS
<1>1. CASE UNCHANGED chatVars
  BY <1>1 DEF chatVars, HistoryInv, OneByOne, InFlight, CallOK, Whole, ToSummarize
<1>2. CASE Reset \/ Resume
  <2>1. config' = config /\ call' = call /\ Quiet
    BY <1>2 DEF Reset, Resume
  <2>2. Tidy(messages') /\ (turns = Spoken(messages) => turns' = Spoken(messages'))
    <3>1. CASE Reset
      BY <3>1, SeedsAreTidy DEF Reset
    <3>2. CASE Resume
      BY <3>2, ResumingKeeps DEF Resume, HistoryInv
    <3> QED BY <1>2, <3>1, <3>2
  <2>3. \A c \in Calls : ~(InFlight(c)') /\ call'[c].pc # "summary"
    BY <2>1 DEF Quiet, InFlight
  <2>4. (\A c \in Calls : CallOK(c, call[c]))'
    BY <2>1 DEF HistoryInv, CallOK, Whole, ToSummarize
  <2>5. OneByOne'
    BY <2>3 DEF OneByOne
  <2> QED BY <2>1, <2>2, <2>4, <2>5 DEF HistoryInv
<1>3. \A c \in Calls : IsCall(call[c])
  BY DEF HistoryInv, CallOK
<1>4. ASSUME NEW c \in Calls, NEW text, Send(c, text) \/ AnalyzeStream(c, text) \/ AnalyzeImage(c, text)
      PROVE  HistoryInv'
  BY <1>4, SendKeeps, ApartKeeps DEF AnalyzeStream, AnalyzeImage
<1>5. ASSUME NEW c \in Calls,
             \/ SummaryArrives(c) \/ SummaryFails(c)
             \/ InjectionFound(c) \/ OpenAIModerates(c) \/ ClassifierModerates(c)
             \/ ScopeChecks(c) \/ ScreensImage(c)
             \/ Ask(c) \/ ImageBlocked(c) \/ VendorFails(c) \/ VendorReplies(c)
             \/ VendorStreams(c) \/ ChunkArrives(c) \/ StreamEnds(c) \/ Unscreened(c)
      PROVE  HistoryInv'
  <2>1. CASE SummaryArrives(c)
    BY <2>1, SummaryKeeps
  <2>2. CASE ~SummaryArrives(c)
    <3>1. Proceeds(c)
      BY <1>3, <1>5, <2>2, ScreensProceed, VendorStepsProceed
    <3> QED BY <3>1, Proceeding
  <2> QED BY <2>1, <2>2
<1> QED BY <1>1, <1>2, <1>4, <1>5 DEF ChatNext

LEMMA HistoryAlways == ChatSpec => []HistoryInv
BY HistoryInitInv, HistoryNextInv, PTL DEF ChatSpec

\* As long as one send waits for the other, no turn leaves a conversation that
\* does not slide: it is there or in the summary (conversation.py:59-74).
THEOREM NoTurnIsLost == ChatSpec => []NoTurnForgotten
<1>1. HistoryInv => NoTurnForgotten
  BY DEF HistoryInv, NoTurnForgotten, Spoken
<1> QED BY <1>1, HistoryAlways, PTL

\* Every request of a chat is in pairs, keeps to the window, and ends with its
\* question, unless keep_recent = 0 leaves nothing but the summary.
THEOREM HistoryStays ==
    ASSUME \A g \in Configs : g.manager = "summarizing" => g.keep # 0
    PROVE  ChatSpec => []HistoryIsKept
<1>1. HistoryInv => HistoryIsKept
  <2> SUFFICES ASSUME HistoryInv PROVE HistoryIsKept
    OBVIOUS
  <2>1. NoTurnForgotten
    BY DEF HistoryInv, NoTurnForgotten, Spoken
  <2>2. RequestIsWhole
    BY DEF HistoryInv, CallOK, RequestIsWhole, Whole, Asking, Last
  <2> QED BY <2>1, <2>2 DEF HistoryIsKept
<1> QED BY <1>1, HistoryAlways, PTL

-----------------------------------------------------------------------------
(* Texts. *)

\* The words there are: those users and rules have, those of placeholders, and the
\* word of the model's vendor.
Words == STRING \cup {Open, Close, "w"} \cup {ToString(n) : n \in Nat}

\* A word no value has.
Mark(w) == \A s \in Secrets : \A k \in DOMAIN s.value : s.value[k] # w

\* A value has at least one word, and all of its words are words of a value.
LEMMA Values ==
    /\ Len(Hints) \in Nat /\ Len(Rules) \in Nat
    /\ Secrets = {Hints[k] : k \in 1 .. Len(Hints)} \cup {Rules[k] : k \in 1 .. Len(Rules)}
    /\ \A s \in Secrets : /\ s.value \in Seq(Words) /\ s.type \in Words /\ Len(s.value) \in Nat \ {0}
                          /\ DOMAIN s.value = 1 .. Len(s.value)
    /\ \A w \in Marks : Mark(w)
<1>1. /\ Hints \in Seq([value : Seq(STRING), type : STRING])
      /\ Rules \in Seq([value : Seq(STRING), type : STRING])
      /\ \A s \in Secrets : s.value # <<>> /\ \A k \in DOMAIN s.value : s.value[k] \notin Marks
  BY FirewallAssumption DEF FirewallAssumption
<1>2. /\ Len(Hints) \in Nat /\ Len(Rules) \in Nat
      /\ DOMAIN Hints = 1 .. Len(Hints) /\ DOMAIN Rules = 1 .. Len(Rules)
      /\ \A k \in 1 .. Len(Hints) : Hints[k] \in [value : Seq(STRING), type : STRING]
      /\ \A k \in 1 .. Len(Rules) : Rules[k] \in [value : Seq(STRING), type : STRING]
  <2> DEFINE T == [value : Seq(STRING), type : STRING]
  <2>1. Hints \in Seq(T) /\ Rules \in Seq(T)
    BY <1>1
  <2> HIDE DEF T
  <2>2. \A s \in Seq(T) : Len(s) \in Nat /\ DOMAIN s = 1 .. Len(s) /\ \A k \in 1 .. Len(s) : s[k] \in T
    BY LenProperties, ElementOfSeq
  <2> QED BY <2>1, <2>2 DEF T
<1>3. Secrets = {Hints[k] : k \in 1 .. Len(Hints)} \cup {Rules[k] : k \in 1 .. Len(Rules)}
  BY <1>2 DEF Secrets, Range
<1>4. ASSUME NEW s \in Secrets
      PROVE  /\ s.value \in Seq(Words) /\ s.type \in Words /\ Len(s.value) \in Nat \ {0}
             /\ DOMAIN s.value = 1 .. Len(s.value)
  <2>1. s \in [value : Seq(STRING), type : STRING]
    BY <1>2, <1>3
  <2>2. s.value \in Seq(STRING) /\ s.type \in STRING /\ s.value # <<>>
    BY <1>1, <2>1
  <2>3. s.type \in Words /\ \A w \in STRING : w \in Words
    BY <2>2 DEF Words
  <2>4. /\ Len(s.value) \in Nat /\ DOMAIN s.value = 1 .. Len(s.value)
        /\ \A k \in 1 .. Len(s.value) : s.value[k] \in STRING
        /\ Len(s.value) # 0
    BY <2>2
  <2>5. s.value \in Seq(Words)
    <3>1. s.value = [k \in 1 .. Len(s.value) |-> s.value[k]]
      BY <2>2
    <3>2. s.value \in [1 .. Len(s.value) -> Words]
      BY <2>3, <2>4, <3>1
    <3> QED BY <2>4, <3>2, SeqDef
  <2> QED BY <2>3, <2>4, <2>5
<1>5. \A w \in Marks : Mark(w)
  BY <1>1 DEF Mark
<1> QED BY <1>2, <1>3, <1>4, <1>5

-----------------------------------------------------------------------------
(* Texts put together. *)

\* A list of texts in one.
Joins(S, seqs, f) ==
    /\ f[0] = <<>>
    /\ \A i \in 1 .. Len(seqs) : f[i] = f[i - 1] \o seqs[i]
    /\ \A i \in 0 .. Len(seqs) : f[i] \in Seq(S)
    /\ FlattenSeq(seqs) = f[Len(seqs)]

\* What FlattenSeq puts together, one sequence at a time.
LEMMA Joining ==
    ASSUME NEW S, NEW seqs, IsList(seqs), \A i \in 1 .. Len(seqs) : seqs[i] \in Seq(S)
    PROVE  \E f : Joins(S, seqs, f)
<1> DEFINE n == Len(seqs)
<1>0. n \in Nat /\ DOMAIN seqs = 1 .. n
  BY DEF IsList
<1>1. CASE n = 0
  <2> DEFINE f == [i \in 0 .. 0 |-> <<>>]
  <2>1. DOMAIN seqs = {} /\ seqs = <<>>
    <3>1. seqs = [i \in 1 .. 0 |-> seqs[i]]
      BY <1>1 DEF IsList
    <3>2. 1 .. 0 = {}
      OBVIOUS
    <3>3. seqs = [i \in {} |-> seqs[i]]
      BY <3>1, <3>2
    <3>4. seqs \in Seq({})
      BY <1>0, <1>1, <3>1, SeqDef
    <3> QED BY <1>0, <1>1, <3>2, <3>4, EmptySeq
  <2>2. FlattenSeq(seqs) = <<>>
    BY <1>1, <2>1 DEF FlattenSeq
  <2>3. f[0] = <<>> /\ <<>> \in Seq(S)
    OBVIOUS
  <2> HIDE DEF f
  <2>4. (\A i \in 1 .. n : FALSE) /\ \A i \in 0 .. n : f[i] \in Seq(S)
    <3>1. 1 .. n = {} /\ 0 .. n = {0}
      BY <1>1
    <3> HIDE DEF n
    <3> QED BY <2>3, <3>1
  <2>5. Joins(S, seqs, f)
    BY <1>1, <2>2, <2>3, <2>4 DEF Joins
  <2> QED BY <2>5
<1>2. CASE n # 0
  <2> DEFINE T == Seq(S)
             Run(h) == h = [i \in 1 .. n |-> IF i = 1 THEN seqs[i] ELSE h[i - 1] \o seqs[i]]
             g == [p \in (1 + 1 .. n) \X T |-> p[2] \o seqs[p[1]]]
  <2>1. seqs[1] \in T /\ g \in [(1 + 1 .. n) \X T -> T]
    <3>1. seqs[1] \in T
      BY <1>0, <1>2
    <3>2. ASSUME NEW p \in (1 + 1 .. n) \X T PROVE p[2] \o seqs[p[1]] \in T
      <4>1. p[2] \in Seq(S) /\ p[1] \in 1 .. n
        BY <1>0
      <4> QED BY <4>1, ConcatProperties
    <3> QED BY <3>1, <3>2
  <2>2. PICK h0 \in [1 .. n -> T] : Iterates(1, n, seqs[1], g, h0)
    <3>1. 1 <= n /\ n \in Int /\ 1 \in Int
      BY <1>0, <1>2
    <3> HIDE DEF g, T, n
    <3> QED BY <2>1, <3>1, Iterating
  <2>3. Run(h0)
    <3>1. h0 = [i \in 1 .. n |-> IF i = 1 THEN seqs[1] ELSE g[<<i, h0[i - 1]>>]]
      BY <2>2 DEF Iterates
    <3>2. ASSUME NEW i \in 1 .. n, i # 1 PROVE g[<<i, h0[i - 1]>>] = h0[i - 1] \o seqs[i]
      <4>1. i \in 1 + 1 .. n /\ i - 1 \in 1 .. n
        BY <1>0, <3>2
      <4>2. h0[i - 1] \in T
        BY <2>2, <4>1
      <4> QED BY <4>1, <4>2
    <3> HIDE DEF g
    <3>3. \A i \in 1 .. n : (IF i = 1 THEN seqs[1] ELSE g[<<i, h0[i - 1]>>])
                          = (IF i = 1 THEN seqs[i] ELSE h0[i - 1] \o seqs[i])
      BY <3>2
    <3> DEFINE A(i) == IF i = 1 THEN seqs[1] ELSE g[<<i, h0[i - 1]>>]
               B(i) == IF i = 1 THEN seqs[i] ELSE h0[i - 1] \o seqs[i]
    <3>4. h0 = [i \in 1 .. n |-> A(i)] /\ \A i \in 1 .. n : A(i) = B(i)
      BY <3>1, <3>3
    <3>5. h0 = [i \in 1 .. n |-> B(i)]
      <4> HIDE DEF A, B
      <4> QED BY <3>4
    <3> QED BY <3>5
  <2> DEFINE h == CHOOSE k : Run(k)
  <2>4. Run(h)
    <3> HIDE DEF Run
    <3> QED BY <2>3
  <2>5. FlattenSeq(seqs) = h[n]
    BY <1>2 DEF FlattenSeq
  <2> HIDE DEF h
  <2>6. \A i \in 1 .. n : h[i] = IF i = 1 THEN seqs[i] ELSE h[i - 1] \o seqs[i]
    BY <2>4
  <2> DEFINE f == [i \in 0 .. n |-> IF i = 0 THEN <<>> ELSE h[i]]
  <2>7. f[0] = <<>> /\ \A i \in 1 .. n : f[i] = h[i]
    BY <1>0
  <2>8. ASSUME NEW i \in 1 .. n PROVE f[i] = f[i - 1] \o seqs[i]
    <3>1. CASE i = 1
      <4>1. seqs[1] \in Seq(S) /\ <<>> \o seqs[1] = seqs[1]
        BY <1>0, <1>2
      <4>2. f[1] = seqs[1] /\ f[1 - 1] = <<>>
        <5>1. 1 - 1 = 0
          OBVIOUS
        <5> HIDE DEF f
        <5> QED BY <2>6, <2>7, <3>1, <5>1
      <4> HIDE DEF f
      <4> QED BY <3>1, <4>1, <4>2
    <3>2. CASE i # 1
      <4>1. i - 1 \in 1 .. n
        BY <1>0, <3>2
      <4> HIDE DEF f
      <4> QED BY <2>6, <2>7, <3>2, <4>1
    <3> QED BY <3>1, <3>2
  <2> DEFINE P == {i \in Int : f[i] \in Seq(S)}
  <2>9. 0 .. n \subseteq P
    <3>1. 0 \in P
      <4>1. <<>> \in Seq(S) /\ 0 \in Int
        OBVIOUS
      <4>2. f[0] = <<>>
        BY <2>7
      <4> HIDE DEF f
      <4> QED BY <4>1, <4>2
    <3>2. ASSUME NEW i \in 0 + 1 .. n, i - 1 \in P PROVE i \in P
      <4>1. i \in 1 .. n /\ seqs[i] \in Seq(S) /\ f[i - 1] \in Seq(S) /\ i \in Int
        BY <1>0, <3>2
      <4>2. f[i] \in Seq(S)
        <5>1. f[i] = f[i - 1] \o seqs[i]
          BY <2>8, <4>1
        <5> HIDE DEF f
        <5> QED BY <4>1, <5>1, ConcatProperties
      <4> QED BY <4>1, <4>2
    <3>3. n \in Int /\ 0 \in Int
      BY <1>0
    <3> HIDE DEF P, n
    <3> QED BY <3>1, <3>2, <3>3, Climb
  <2>10. FlattenSeq(seqs) = f[n]
    <3>1. n \in 1 .. n
      BY <1>0, <1>2
    <3> HIDE DEF f
    <3> QED BY <2>5, <2>7, <3>1
  <2>11. \A i \in 0 .. n : f[i] \in Seq(S)
    BY <2>9
  <2> HIDE DEF f
  <2>12. Joins(S, seqs, f)
    BY <2>7, <2>8, <2>10, <2>11 DEF Joins
  <2> QED BY <2>12
<1> QED BY <1>1, <1>2

-----------------------------------------------------------------------------
(* Words cut out of a text, and others put in their place. *)

\* Cutting out spans.
Covered(cuts, i) == \E c \in cuts : c.start <= i /\ i < c.end

\* f[i] is what becomes of the first i words.
Builds(text, cuts, f) ==
    /\ f[0] = <<>>
    /\ \A i \in 1 .. Len(text) : f[i] = f[i - 1] \o InPlace(text, cuts, i)
    /\ \A i \in 0 .. Len(text) : f[i] \in Seq(Words)
    /\ Splice(text, cuts) = f[Len(text)]

\* A splice, one word of the text at a time.
LEMMA Building ==
    ASSUME NEW text \in Seq(Words), NEW cuts, \A c \in cuts : c.new \in Seq(Words)
    PROVE  /\ \E f : Builds(text, cuts, f)
           /\ \A i \in 1 .. Len(text) : InPlace(text, cuts, i) \in Seq(Words)
           /\ Splice(text, cuts) \in Seq(Words)
<1>1. Len(text) \in Nat /\ DOMAIN text = 1 .. Len(text) /\ \A i \in 1 .. Len(text) : text[i] \in Words
  OBVIOUS
<1> DEFINE seqs == [i \in DOMAIN text |-> InPlace(text, cuts, i)]
<1>2. ASSUME NEW i \in 1 .. Len(text) PROVE InPlace(text, cuts, i) \in Seq(Words)
  <2>1. CASE \E c \in cuts : c.start = i
    <3>1. Starting(cuts, i) \in cuts
      BY <2>1 DEF Starting
    <3>2. Starting(cuts, i).new \in Seq(Words)
      BY <3>1
    <3> QED BY <2>1, <3>2 DEF InPlace
  <2>2. CASE ~\E c \in cuts : c.start = i
    <3>1. <<text[i]>> \in Seq(Words) /\ <<>> \in Seq(Words)
      BY <1>1
    <3> QED BY <2>2, <3>1 DEF InPlace
  <2> QED BY <2>1, <2>2
<1>3. Len(seqs) = Len(text) /\ \A i \in 1 .. Len(text) : seqs[i] = InPlace(text, cuts, i)
  <2>1. seqs \in Seq(Seq(Words)) /\ DOMAIN seqs = 1 .. Len(text)
    <3>1. seqs \in [1 .. Len(text) -> Seq(Words)]
      BY <1>1, <1>2
    <3> HIDE DEF seqs
    <3> QED BY <1>1, <3>1, SeqDef
  <2>2. Len(seqs) = Len(text)
    <3> HIDE DEF seqs
    <3> QED BY <1>1, <2>1, LenProperties
  <2> QED BY <1>1, <2>2
<1>4. IsList(seqs)
  <2>1. seqs = [i \in 1 .. Len(text) |-> seqs[i]]
    BY <1>1
  <2> HIDE DEF seqs
  <2> QED BY <1>1, <1>3, <2>1 DEF IsList
<1>5. Splice(text, cuts) = FlattenSeq(seqs)
  BY DEF Splice
<1> HIDE DEF seqs
<1>6. PICK f : Joins(Words, seqs, f)
  BY <1>2, <1>3, <1>4, Joining
<1>7. Builds(text, cuts, f)
  BY <1>3, <1>5, <1>6 DEF Joins, Builds
<1>8. Splice(text, cuts) \in Seq(Words)
  BY <1>1, <1>7 DEF Builds
<1> QED BY <1>2, <1>7, <1>8

\* What is put in place of a span has only words that no value has.
Marked(new) == new \in Seq(Words) /\ Len(new) > 0 /\ \A k \in 1 .. Len(new) : Mark(new[k])
CutsOut(text, cuts) ==
    \A c \in cuts : /\ c.start \in 1 .. Len(text) /\ c.end \in Int /\ c.start < c.end
                    /\ Marked(c.new)

\* What becomes of a word.
LEMMA InPlaceIs ==
    ASSUME NEW text \in Seq(Words), NEW cuts, CutsOut(text, cuts), NEW i \in 1 .. Len(text)
    PROVE  \/ Marked(InPlace(text, cuts, i)) /\ Covered(cuts, i)
           \/ /\ InPlace(text, cuts, i) = <<>> /\ Covered(cuts, i)
              /\ i - 1 \in 1 .. Len(text) /\ Covered(cuts, i - 1)
           \/ InPlace(text, cuts, i) = <<text[i]>> /\ ~Covered(cuts, i)
<1>1. CASE \E c \in cuts : c.start = i
  <2>1. Starting(cuts, i) \in cuts /\ Starting(cuts, i).start = i
    BY <1>1 DEF Starting
  <2>2. Marked(Starting(cuts, i).new) /\ Covered(cuts, i)
    BY <2>1 DEF CutsOut, Covered
  <2> QED BY <1>1, <2>2 DEF InPlace
<1>2. CASE (~\E c \in cuts : c.start = i) /\ \E c \in cuts : c.start < i /\ i < c.end
  <2>1. PICK c \in cuts : c.start < i /\ i < c.end
    BY <1>2
  <2>2. c.start \in 1 .. Len(text) /\ c.end \in Int
    BY DEF CutsOut
  <2>3. /\ c.start <= i /\ c.start <= i - 1 /\ i - 1 < c.end
        /\ i - 1 \in 1 .. Len(text)
    BY <2>1, <2>2
  <2>4. Covered(cuts, i) /\ Covered(cuts, i - 1)
    BY <2>1, <2>3 DEF Covered
  <2> QED BY <1>2, <2>3, <2>4 DEF InPlace
<1>3. CASE (~\E c \in cuts : c.start = i) /\ ~\E c \in cuts : c.start < i /\ i < c.end
  <2>1. \A c \in cuts : c.start <= i => c.start = i \/ c.start < i
    BY DEF CutsOut
  <2>2. ~Covered(cuts, i)
    BY <1>3, <2>1 DEF Covered
  <2> QED BY <1>3, <2>2 DEF InPlace
<1> QED BY <1>1, <1>2, <1>3

\* The first words stay when others follow.
LEMMA Growth ==
    ASSUME NEW text \in Seq(Words), NEW cuts, CutsOut(text, cuts), NEW f, Builds(text, cuts, f)
    PROVE  /\ \A i \in 1 .. Len(text) :
                /\ Len(f[i]) = Len(f[i - 1]) + Len(InPlace(text, cuts, i))
                /\ \A k \in 1 .. Len(InPlace(text, cuts, i)) :
                     f[i][Len(f[i - 1]) + k] = InPlace(text, cuts, i)[k]
           /\ \A j \in 0 .. Len(text) : \A i \in j .. Len(text) :
                Len(f[j]) <= Len(f[i]) /\ \A k \in 1 .. Len(f[j]) : f[i][k] = f[j][k]
           /\ \A i \in 0 .. Len(text) : Len(f[i]) \in Nat
<1>0. \A c \in cuts : c.new \in Seq(Words)
  BY DEF CutsOut, Marked
<1>1. /\ Len(text) \in Nat
      /\ \A i \in 1 .. Len(text) : InPlace(text, cuts, i) \in Seq(Words)
  <2>1. Len(text) \in Nat
    BY LenProperties
  <2>2. \A i \in 1 .. Len(text) : InPlace(text, cuts, i) \in Seq(Words)
    BY <1>0, Building
  <2> QED BY <2>1, <2>2
<1>2. \A i \in 0 .. Len(text) : f[i] \in Seq(Words) /\ Len(f[i]) \in Nat
  <2>1. \A i \in 0 .. Len(text) : f[i] \in Seq(Words)
    BY DEF Builds
  <2>2. \A s \in Seq(Words) : Len(s) \in Nat
    BY LenProperties
  <2> QED BY <2>1, <2>2
<1>3. ASSUME NEW i \in 1 .. Len(text)
      PROVE  /\ Len(f[i]) = Len(f[i - 1]) + Len(InPlace(text, cuts, i))
             /\ \A k \in 1 .. Len(InPlace(text, cuts, i)) :
                     f[i][Len(f[i - 1]) + k] = InPlace(text, cuts, i)[k]
             /\ \A k \in 1 .. Len(f[i - 1]) : f[i][k] = f[i - 1][k]
             /\ Len(f[i - 1]) <= Len(f[i])
  <2> DEFINE s == f[i - 1]
             t == InPlace(text, cuts, i)
  <2>1. s \in Seq(Words) /\ t \in Seq(Words) /\ f[i] = s \o t
    <3>1. i - 1 \in 0 .. Len(text)
      BY <1>1
    <3> QED BY <1>1, <1>2, <3>1 DEF Builds
  <2> HIDE DEF s, t
  <2>2. /\ Len(f[i]) = Len(s) + Len(t) /\ Len(s) \in Nat /\ Len(t) \in Nat
        /\ \A k \in 1 .. Len(t) : f[i][Len(s) + k] = t[k]
        /\ \A k \in 1 .. Len(s) : f[i][k] = s[k]
    BY <2>1
  <2> QED BY <2>2 DEF s, t
<1>4. ASSUME NEW j \in 0 .. Len(text)
      PROVE  \A i \in j .. Len(text) : Len(f[j]) <= Len(f[i]) /\ \A k \in 1 .. Len(f[j]) : f[i][k] = f[j][k]
  <2> DEFINE P == {i \in Int : Len(f[j]) <= Len(f[i]) /\ \A k \in 1 .. Len(f[j]) : f[i][k] = f[j][k]}
  <2>1. j \in P
    BY <1>2
  <2>2. ASSUME NEW i \in j + 1 .. Len(text), i - 1 \in P PROVE i \in P
    <3>1. i \in 1 .. Len(text) /\ i - 1 \in 0 .. Len(text)
      BY <1>1
    <3>2. Len(f[i - 1]) <= Len(f[i]) /\ \A k \in 1 .. Len(f[i - 1]) : f[i][k] = f[i - 1][k]
      BY <1>3, <3>1
    <3>3. Len(f[i]) \in Nat /\ Len(f[i - 1]) \in Nat /\ Len(f[j]) \in Nat
      BY <1>2, <3>1
    <3>4. Len(f[j]) <= Len(f[i - 1]) /\ \A k \in 1 .. Len(f[j]) : f[i - 1][k] = f[j][k]
      BY <2>2
    <3>5. Len(f[j]) <= Len(f[i])
      BY <3>2, <3>3, <3>4
    <3>6. \A k \in 1 .. Len(f[j]) : k \in 1 .. Len(f[i - 1])
      BY <3>3, <3>4
    <3>7. \A k \in 1 .. Len(f[j]) : f[i][k] = f[j][k]
      BY <3>2, <3>4, <3>6
    <3>8. i \in Int
      OBVIOUS
    <3> QED BY <3>5, <3>7, <3>8
  <2>3. j \in Int /\ Len(text) \in Int
    BY <1>1
  <2> HIDE DEF P
  <2>4. j .. Len(text) \subseteq P
    BY <2>1, <2>2, <2>3, Climb
  <2> QED BY <2>4 DEF P
<1> QED BY <1>2, <1>3, <1>4

\* What was built stays at the head of what is built on it.
LEMMA BuiltStays ==
    ASSUME NEW text \in Seq(Words), NEW cuts, CutsOut(text, cuts), NEW f, Builds(text, cuts, f),
           NEW j \in 0 .. Len(text), NEW i \in j .. Len(text)
    PROVE  Len(f[j]) <= Len(f[i]) /\ \A k \in 1 .. Len(f[j]) : f[i][k] = f[j][k]
<1>1. \A i0 \in j .. Len(text) :
        Len(f[j]) <= Len(f[i0]) /\ \A k \in 1 .. Len(f[j]) : f[i0][k] = f[j][k]
  BY Growth
<1> QED BY <1>1

-----------------------------------------------------------------------------
\* A word of a value comes from a word that was not cut out, and stands where that is built.
From(text, cuts, f, k, j) ==
    /\ j \in 1 .. Len(text) /\ ~Covered(cuts, j)
    /\ Len(f[j]) = k /\ f[j][k] = text[j]

\* So it is with every word of a value in a splice.
LEMMA Origin ==
    ASSUME NEW text \in Seq(Words), NEW cuts, CutsOut(text, cuts), NEW f, Builds(text, cuts, f),
           NEW k \in 1 .. Len(f[Len(text)]), ~Mark(f[Len(text)][k])
    PROVE  \E j : From(text, cuts, f, k, j)
<1>g. /\ \A i \in 1 .. Len(text) :
            /\ Len(f[i]) = Len(f[i - 1]) + Len(InPlace(text, cuts, i))
            /\ \A m \in 1 .. Len(InPlace(text, cuts, i)) :
                 f[i][Len(f[i - 1]) + m] = InPlace(text, cuts, i)[m]
      /\ \A j \in 0 .. Len(text) : \A i \in j .. Len(text) :
            Len(f[j]) <= Len(f[i]) /\ \A m \in 1 .. Len(f[j]) : f[i][m] = f[j][m]
      /\ \A i \in 0 .. Len(text) : Len(f[i]) \in Nat
  BY Growth
<1> DEFINE n == Len(text)
           P == {i \in Int : \A m \in 1 .. Len(f[i]) : ~Mark(f[i][m]) => \E j : From(text, cuts, f, m, j)}
<1>0. n \in Nat
  BY LenProperties
<1>1. 0 \in P
  <2>1. f[0] = <<>>
    BY DEF Builds
  <2>2. 1 .. Len(f[0]) = {}
    <3>1. Len(<<>>) = 0
      OBVIOUS
    <3> QED BY <2>1, <3>1
  <2>3. 0 \in Int
    OBVIOUS
  <2> QED BY <2>2, <2>3
<1>2. ASSUME NEW i \in 0 + 1 .. n, i - 1 \in P PROVE i \in P
  <2>0. i \in 1 .. n /\ i \in Int /\ i - 1 \in 0 .. n /\ i \in 0 .. n
    BY <1>0
  <2>1. /\ Len(f[i]) = Len(f[i - 1]) + Len(InPlace(text, cuts, i))
        /\ \A k1 \in 1 .. Len(InPlace(text, cuts, i)) :
                     f[i][Len(f[i - 1]) + k1] = InPlace(text, cuts, i)[k1]
    BY <1>g, <2>0
  <2>2. \A m \in 1 .. Len(f[i - 1]) : f[i][m] = f[i - 1][m]
    <3>1. i \in (i - 1) .. n
      BY <2>0
    <3> QED BY <1>g, <2>0, <3>1
  <2>3. Len(f[i - 1]) \in Nat /\ Len(f[i]) \in Nat
    BY <1>g, <2>0
  <2>4. ASSUME NEW m \in 1 .. Len(f[i]), ~Mark(f[i][m]) PROVE \E j : From(text, cuts, f, m, j)
    <3>1. CASE m <= Len(f[i - 1])
      <4>1. m \in 1 .. Len(f[i - 1]) /\ f[i - 1][m] = f[i][m]
        BY <2>2, <3>1
      <4> QED BY <1>2, <2>4, <4>1
    <3>2. CASE ~(m <= Len(f[i - 1]))
      <4> DEFINE t == InPlace(text, cuts, i)
      <4>1. m - Len(f[i - 1]) \in 1 .. Len(t) /\ f[i][m] = t[m - Len(f[i - 1])]
        <5> HIDE DEF t
        <5>1. /\ Len(f[i]) = Len(f[i - 1]) + Len(t)
              /\ \A k1 \in 1 .. Len(t) : f[i][Len(f[i - 1]) + k1] = t[k1]
          BY <2>1 DEF t
        <5>2. Len(t) \in Int
          <6>1. t \in Seq(Words)
            <7>1. \A c \in cuts : c.new \in Seq(Words)
              BY DEF CutsOut, Marked
            <7> QED BY <2>0, <7>1, Building DEF t
          <6> QED BY <6>1
        <5>3. m - Len(f[i - 1]) \in 1 .. Len(t)
          BY <2>3, <3>2, <5>1, <5>2
        <5>4. Len(f[i - 1]) + (m - Len(f[i - 1])) = m
          BY <2>3
        <5> QED BY <5>1, <5>3, <5>4
      <4>2. ~Marked(t) /\ t # <<>>
        <5>1. ~Mark(t[m - Len(f[i - 1])])
          BY <2>4, <4>1
        <5>2. t # <<>>
          <6>1. 1 .. Len(<<>>) = {}
            OBVIOUS
          <6> HIDE DEF t
          <6> QED BY <4>1, <6>1
        <5> HIDE DEF t
        <5> QED BY <4>1, <5>1, <5>2 DEF Marked
      <4>3. t = <<text[i]>> /\ ~Covered(cuts, i)
        BY <2>0, <4>2, InPlaceIs
      <4>4. Len(f[i]) = m /\ f[i][m] = text[i]
        <5>1. Len(<<text[i]>>) = 1 /\ <<text[i]>>[1] = text[i]
          OBVIOUS
        <5> DEFINE x == <<text[i]>>
        <5>2. t = x /\ Len(x) = 1 /\ x[1] = text[i]
          BY <4>3, <5>1
        <5> HIDE DEF x, t
        <5>3. m - Len(f[i - 1]) = 1
          BY <2>3, <4>1, <5>2
        <5>4. Len(f[i]) = Len(f[i - 1]) + 1
          BY <2>1, <5>2 DEF t
        <5> QED BY <2>3, <4>1, <5>2, <5>3, <5>4
      <4> HIDE DEF t
      <4> QED BY <2>0, <4>3, <4>4 DEF From
    <3> QED BY <3>1, <3>2
  <2> QED BY <2>0, <2>4
<1>3. 0 .. n \subseteq P
  <2>1. n \in Int /\ 0 \in Int
    BY <1>0
  <2> HIDE DEF P, n
  <2> QED BY <1>1, <1>2, <2>1, Climb
<1>4. n \in P
  BY <1>0, <1>3
<1> QED BY <1>4

\* The word behind one of a value.
LEMMA OriginGoesOn ==
    ASSUME NEW text \in Seq(Words), NEW cuts, CutsOut(text, cuts), NEW f, Builds(text, cuts, f),
           NEW k \in Nat, NEW j, From(text, cuts, f, k, j),
           k + 1 <= Len(f[Len(text)]), ~Mark(f[Len(text)][k + 1])
    PROVE  From(text, cuts, f, k + 1, j + 1) /\ text[j + 1] = f[Len(text)][k + 1]
<1> DEFINE n == Len(text)
<1>0. n \in Nat /\ j \in 1 .. n /\ ~Covered(cuts, j) /\ Len(f[j]) = k /\ j \in 0 .. n /\ n \in 0 .. n
  BY LenProperties DEF From
<1>1. j + 1 \in 1 .. n /\ j + 1 \in 0 .. n /\ n \in (j + 1) .. n /\ j + 1 - 1 = j
  <2>1. j # n
    <3>1. Len(f[n]) \in Nat
      BY <1>0, Growth
    <3> QED BY <1>0, <3>1
  <2> QED BY <1>0, <2>1
<1> DEFINE t == InPlace(text, cuts, j + 1)
<1>2. /\ Len(f[j + 1]) = k + Len(t)
      /\ \A m \in 1 .. Len(t) : f[j + 1][k + m] = t[m]
  <2>0. j \in Int /\ j + 1 \in 1 .. n
    BY <1>0, <1>1
  <2>1. PICK i \in 1 .. n : i = j + 1 /\ i - 1 = j
    BY <2>0
  <2>2. /\ Len(f[i]) = Len(f[i - 1]) + Len(InPlace(text, cuts, i))
        /\ \A m \in 1 .. Len(InPlace(text, cuts, i)) :
                     f[i][Len(f[i - 1]) + m] = InPlace(text, cuts, i)[m]
    <3>1. i \in 1 .. Len(text)
      OBVIOUS
    <3> QED BY <3>1, Growth
  <2>3. Len(f[i - 1]) = k /\ t = InPlace(text, cuts, i) /\ f[i] = f[j + 1]
    BY <1>0, <2>1
  <2> HIDE DEF t
  <2> QED BY <2>2, <2>3
<1>3. \A m \in 1 .. Len(f[j + 1]) : f[n][m] = f[j + 1][m]
  <2>1. PICK a \in 0 .. Len(text) : a = j + 1 /\ n \in a .. Len(text)
    BY <1>1
  <2> QED BY <2>1, BuiltStays
<1>4. ASSUME Len(t) > 0, Len(t) \in Nat PROVE f[n][k + 1] = t[1]
  <2> HIDE DEF t, n
  <2>1. 1 \in 1 .. Len(t) /\ k + 1 \in 1 .. Len(f[j + 1])
    BY <1>2, <1>4
  <2> QED BY <1>2, <1>3, <2>1
<1>5. ~Marked(t)
  <2> SUFFICES ASSUME Marked(t) PROVE FALSE
    OBVIOUS
  <2>1. t \in Seq(Words) /\ Len(t) > 0 /\ Len(t) \in Nat /\ Mark(t[1])
    <3> HIDE DEF t
    <3>1. t \in Seq(Words) /\ Len(t) > 0 /\ \A m \in 1 .. Len(t) : Mark(t[m])
      BY DEF Marked
    <3>2. Len(t) \in Nat
      BY <3>1
    <3>3. 1 \in 1 .. Len(t)
      BY <3>1, <3>2
    <3> QED BY <3>1, <3>2, <3>3
  <2> HIDE DEF t
  <2> QED BY <1>4, <2>1
<1>6. t = <<text[j + 1]>> /\ ~Covered(cuts, j + 1)
  BY <1>0, <1>1, <1>5, InPlaceIs
<1>7. Len(t) = 1 /\ t[1] = text[j + 1]
  <2>1. Len(<<text[j + 1]>>) = 1 /\ <<text[j + 1]>>[1] = text[j + 1]
    OBVIOUS
  <2> DEFINE x == <<text[j + 1]>>
  <2>2. t = x /\ Len(x) = 1 /\ x[1] = text[j + 1]
    BY <1>6, <2>1
  <2> HIDE DEF x, t
  <2> QED BY <2>2
<1> HIDE DEF t
<1>8. Len(f[j + 1]) = k + 1 /\ f[j + 1][k + 1] = text[j + 1] /\ f[n][k + 1] = text[j + 1]
  <2>1. 1 \in 1 .. Len(t)
    BY <1>7
  <2> QED BY <1>2, <1>4, <1>7, <2>1
<1> QED BY <1>1, <1>6, <1>8 DEF From

\* So no value appears that was not there, and none stays that was cut into.
Bare(v) == v \in Seq(Words) /\ Len(v) > 0 /\ \A k \in 1 .. Len(v) : ~Mark(v[k])
Untouched(text, cuts, v, j) ==
    /\ j \in 1 .. Len(text) /\ At(text, j, v)
    /\ \A t \in 0 .. Len(v) - 1 : ~Covered(cuts, j + t)

\* A value found in a splice stood in the text, outside of all cuts.
LEMMA SpliceKeeps ==
    ASSUME NEW text \in Seq(Words), NEW cuts, CutsOut(text, cuts), NEW v, Bare(v),
           Occurs(Splice(text, cuts), v)
    PROVE  \E j : Untouched(text, cuts, v, j)
<1>0. v \in Seq(Words) /\ Len(v) \in Nat /\ Len(v) > 0 /\ DOMAIN v = 1 .. Len(v)
  BY DEF Bare
<1>1. PICK f : Builds(text, cuts, f)
  <2>1. \A c \in cuts : c.new \in Seq(Words)
    BY DEF CutsOut, Marked
  <2> QED BY <2>1, Building
<1> DEFINE n == Len(text)
           out == f[n]
<1>2. n \in Nat /\ out \in Seq(Words) /\ Splice(text, cuts) = out /\ Len(out) \in Nat
  <2>1. n \in Nat
    BY LenProperties
  <2>2. out \in Seq(Words) /\ Splice(text, cuts) = out
    BY <1>1, <2>1 DEF Builds
  <2> QED BY <2>1, <2>2, LenProperties
<1>3. PICK k \in 1 .. Len(out) : At(out, k, v)
  <2>1. DOMAIN out = 1 .. Len(out)
    <3> HIDE DEF out
    <3> QED BY <1>2
  <2> QED BY <1>2, <2>1 DEF Occurs
<1>4. /\ k + Len(v) - 1 <= Len(out)
      /\ \A m \in 1 .. Len(v) : out[k + m - 1] = v[m] /\ ~Mark(out[k + m - 1])
  BY <1>0, <1>3 DEF At, Bare
<1>5. PICK j : From(text, cuts, f, k, j) /\ text[j] = v[1]
  <2>1. k + 1 - 1 = k /\ 1 \in 1 .. Len(v)
    BY <1>0
  <2>2. out[k] = v[1] /\ ~Mark(out[k])
    BY <1>4, <2>1
  <2>3. PICK j : From(text, cuts, f, k, j)
    BY <1>1, <2>2, Origin
  <2>4. text[j] = out[k]
    <3>1. j \in 1 .. n /\ f[j][k] = text[j] /\ Len(f[j]) = k
      BY <2>3 DEF From
    <3>2. j \in 0 .. n /\ n \in j .. n /\ k \in 1 .. Len(f[j])
      BY <1>2, <3>1
    <3>3. f[n][k] = f[j][k]
      BY <1>1, <3>2, Growth
    <3> QED BY <3>1, <3>3
  <2> QED BY <2>2, <2>3, <2>4
<1> HIDE DEF out
<1> DEFINE P == {t \in Int : From(text, cuts, f, k + t, j + t) /\ text[j + t] = v[t + 1]}
<1>6. j \in 1 .. n /\ j \in Int /\ k \in Int
  BY <1>2, <1>5 DEF From
<1>7. 0 .. Len(v) - 1 \subseteq P
  <2>1. 0 \in P
    <3>1. k + 0 = k /\ j + 0 = j /\ 0 + 1 = 1 /\ 0 \in Int
      BY <1>6
    <3> QED BY <1>5, <3>1
  <2>2. ASSUME NEW t \in 0 + 1 .. Len(v) - 1, t - 1 \in P PROVE t \in P
    <3>1. From(text, cuts, f, k + (t - 1), j + (t - 1))
      BY <2>2
    <3>2. /\ k + (t - 1) \in Nat /\ (k + (t - 1)) + 1 = k + t /\ (j + (t - 1)) + 1 = j + t
          /\ t + 1 \in 1 .. Len(v) /\ k + (t + 1) - 1 = k + t /\ k + t <= Len(out) /\ t \in Int
      BY <1>0, <1>2, <1>4, <1>6
    <3>3. out[k + t] = v[t + 1] /\ ~Mark(out[k + t])
      BY <1>4, <3>2
    <3>4. out = f[Len(text)]
      BY DEF out
    <3>5. /\ From(text, cuts, f, (k + (t - 1)) + 1, (j + (t - 1)) + 1)
          /\ text[(j + (t - 1)) + 1] = f[Len(text)][(k + (t - 1)) + 1]
      <4>1. /\ (k + (t - 1)) + 1 <= Len(f[Len(text)])
            /\ ~Mark(f[Len(text)][(k + (t - 1)) + 1])
        BY <3>2, <3>3, <3>4
      <4> QED BY <1>1, <3>1, <3>2, <4>1, OriginGoesOn
    <3>6. From(text, cuts, f, k + t, j + t) /\ text[j + t] = v[t + 1]
      BY <3>2, <3>3, <3>4, <3>5
    <3> QED BY <3>2, <3>6
  <2>3. 0 \in Int /\ Len(v) - 1 \in Int
    BY <1>0
  <2> HIDE DEF P
  <2> QED BY <2>1, <2>2, <2>3, Climb, ZenonT(60)
<1>8. \A t \in 0 .. Len(v) - 1 : /\ j + t \in 1 .. Len(text) /\ ~Covered(cuts, j + t)
                                  /\ text[j + t] = v[t + 1]
  BY <1>7 DEF From
<1>9. At(text, j, v)
  <2>1. Len(v) - 1 \in 0 .. Len(v) - 1
    BY <1>0
  <2>2. j + Len(v) - 1 <= Len(text)
    <3>1. j + (Len(v) - 1) \in 1 .. Len(text)
      BY <1>8, <2>1
    <3> QED BY <1>0, <1>2, <1>6, <3>1
  <2>3. ASSUME NEW m \in 1 .. Len(v) PROVE text[j + m - 1] = v[m]
    <3>1. m - 1 \in 0 .. Len(v) - 1 /\ j + (m - 1) = j + m - 1 /\ (m - 1) + 1 = m
      BY <1>0, <1>6
    <3> QED BY <1>8, <3>1
  <2> QED BY <1>0, <2>2, <2>3 DEF At
<1> QED BY <1>6, <1>8, <1>9 DEF Untouched

-----------------------------------------------------------------------------
(* Replacing. *)

\* What a scan finds.
Scans(text, part, f) ==
    /\ f[0] = {}
    /\ \A i \in 1 .. Len(text) :
         f[i] = IF At(text, i, part) /\ \A s \in f[i - 1] : s + Len(part) <= i
                THEN f[i - 1] \cup {i} ELSE f[i - 1]
    /\ Scan(text, part) = f[Len(text)]

\* A scan, one place at a time.
LEMMA Scanning ==
    ASSUME NEW text \in Seq(Words), NEW part
    PROVE  \E f : Scans(text, part, f)
<1> DEFINE n == Len(text)
           S == SUBSET Int
           Onward(i, before) == IF At(text, i, part) /\ \A s \in before : s + Len(part) <= i
                              THEN before \cup {i} ELSE before
           Run(h) == h = [i \in 0 .. n |-> IF i = 0 THEN {} ELSE Onward(i, h[i - 1])]
           g == [p \in (0 + 1 .. n) \X S |-> Onward(p[1], p[2])]
<1>0. n \in Nat
  BY LenProperties
<1>1. {} \in S /\ g \in [(0 + 1 .. n) \X S -> S]
  <2>1. \A i \in 0 + 1 .. n, before \in S : Onward(i, before) \in S
    OBVIOUS
  <2> HIDE DEF Onward, S
  <2>2. \A p \in (0 + 1 .. n) \X S : Onward(p[1], p[2]) \in S
    BY <2>1
  <2>3. {} \in S
    BY DEF S
  <2> QED BY <2>2, <2>3
<1>2. PICK h0 \in [0 .. n -> S] : Iterates(0, n, {}, g, h0)
  <2>1. 0 <= n /\ n \in Int /\ 0 \in Int
    BY <1>0
  <2> HIDE DEF g, S, n
  <2> QED BY <1>1, <2>1, Iterating
<1>3. Run(h0)
  <2> DEFINE A(i) == IF i = 0 THEN {} ELSE g[<<i, h0[i - 1]>>]
             B(i) == IF i = 0 THEN {} ELSE Onward(i, h0[i - 1])
  <2>1. h0 = [i \in 0 .. n |-> A(i)]
    BY <1>2 DEF Iterates
  <2>2. ASSUME NEW i \in 0 .. n PROVE A(i) = B(i)
    <3>1. CASE i = 0
      BY <3>1
    <3>2. CASE i # 0
      <4>1. i \in 0 + 1 .. n /\ i - 1 \in 0 .. n
        BY <1>0, <3>2
      <4>2. h0[i - 1] \in S
        BY <1>2, <4>1
      <4> HIDE DEF Onward, S
      <4>3. <<i, h0[i - 1]>> \in (0 + 1 .. n) \X S
        BY <4>1, <4>2
      <4>4. g[<<i, h0[i - 1]>>] = Onward(i, h0[i - 1])
        BY <4>3
      <4> QED BY <3>2, <4>4
    <3> QED BY <3>1, <3>2
  <2>3. h0 = [i \in 0 .. n |-> B(i)]
    <3> HIDE DEF A, B
    <3> QED BY <2>1, <2>2
  <2> QED BY <2>3
<1> DEFINE h == CHOOSE k : Run(k)
<1>4. Run(h)
  <2> HIDE DEF Run
  <2> QED BY <1>3
<1>5. Scan(text, part) = h[n]
  BY DEF Scan
<1> HIDE DEF h
<1>6. h[0] = {} /\ \A i \in 1 .. n : h[i] = Onward(i, h[i - 1])
  <2> HIDE DEF Onward
  <2>1. h = [i \in 0 .. n |-> IF i = 0 THEN {} ELSE Onward(i, h[i - 1])]
    BY <1>4
  <2>2. 0 \in 0 .. n /\ \A i \in 1 .. n : i \in 0 .. n /\ i # 0
    BY <1>0
  <2> HIDE DEF n
  <2> QED BY <2>1, <2>2
<1>7. Scans(text, part, h)
  BY <1>5, <1>6 DEF Scans
<1> QED BY <1>7

\* Whatever matches is found, or begins within a match that was found before it.
LEMMA Found ==
    ASSUME NEW text \in Seq(Words), NEW part, Len(part) \in Nat, Len(part) > 0
    PROVE  /\ \A s \in Scan(text, part) : s \in 1 .. Len(text) /\ At(text, s, part)
           /\ \A i \in 1 .. Len(text) : At(text, i, part) =>
                \E s \in Scan(text, part) : s <= i /\ i < s + Len(part)
<1> DEFINE n == Len(text)
<1>0. n \in Nat
  BY LenProperties
<1>1. PICK f : Scans(text, part, f)
  BY Scanning
<1>2. ASSUME NEW i \in 1 .. n
      PROVE  f[i] = IF At(text, i, part) /\ \A s \in f[i - 1] : s + Len(part) <= i
                    THEN f[i - 1] \cup {i} ELSE f[i - 1]
  BY <1>1 DEF Scans
<1> DEFINE P == {i \in Int : \A s \in f[i] : s \in 1 .. i /\ At(text, s, part)}
<1>3. 0 .. n \subseteq P
  <2>1. 0 \in P
    BY <1>1 DEF Scans
  <2>2. ASSUME NEW i \in 0 + 1 .. n, i - 1 \in P PROVE i \in P
    <3>1. i \in 1 .. n /\ i \in Int /\ i \in 1 .. i /\ \A s \in 1 .. i - 1 : s \in 1 .. i
      BY <1>0
    <3>2. \A s \in f[i - 1] : s \in 1 .. i - 1 /\ At(text, s, part)
      BY <2>2
    <3>3. ASSUME NEW s \in f[i] PROVE s \in 1 .. i /\ At(text, s, part)
      <4>1. s \in f[i - 1] \/ (s = i /\ At(text, i, part))
        BY <1>2, <3>1
      <4> QED BY <3>1, <3>2, <4>1
    <3> QED BY <3>1, <3>3
  <2>3. 0 \in Int /\ n \in Int
    BY <1>0
  <2> HIDE DEF P, n
  <2> QED BY <2>1, <2>2, <2>3, Climb
<1>4. ASSUME NEW i \in 0 .. n PROVE f[i] \subseteq f[n]
  <2> DEFINE Q == {m \in Int : f[i] \subseteq f[m]}
  <2>1. i \in Q
    OBVIOUS
  <2>2. ASSUME NEW m \in i + 1 .. n, m - 1 \in Q PROVE m \in Q
    <3>1. m \in 1 .. n /\ m \in Int
      BY <1>0
    <3>2. f[m - 1] \subseteq f[m]
      BY <1>2, <3>1
    <3> QED BY <2>2, <3>1, <3>2
  <2>3. i \in Int /\ n \in Int /\ n \in i .. n
    BY <1>0
  <2> HIDE DEF Q, n
  <2>4. i .. n \subseteq Q
    BY <2>1, <2>2, <2>3, Climb
  <2>5. n \in Q
    BY <2>3, <2>4
  <2> QED BY <2>5 DEF Q
<1>5. Scan(text, part) = f[n]
  BY <1>1 DEF Scans
<1>6. \A s \in f[n] : s \in 1 .. n /\ At(text, s, part)
  <2>1. n \in P
    <3> HIDE DEF P
    <3> QED BY <1>0, <1>3
  <2> QED BY <2>1
<1>7. ASSUME NEW i \in 1 .. n, At(text, i, part)
      PROVE  \E s \in f[n] : s <= i /\ i < s + Len(part)
  <2>1. i \in 0 .. n /\ i - 1 \in 0 .. n /\ f[i] \subseteq f[n] /\ f[i - 1] \subseteq f[n]
    <3>1. i \in 0 .. n /\ i - 1 \in 0 .. n
      BY <1>0
    <3> QED BY <1>4, <3>1
  <2>2. CASE \A s \in f[i - 1] : s + Len(part) <= i
    <3>1. i \in f[i]
      BY <1>2, <1>7, <2>2
    <3>2. i <= i /\ i < i + Len(part)
      OBVIOUS
    <3> QED BY <2>1, <3>1, <3>2
  <2>3. CASE ~\A s \in f[i - 1] : s + Len(part) <= i
    <3>1. PICK s \in f[i - 1] : ~(s + Len(part) <= i)
      BY <2>3
    <3>2. s \in 1 .. i - 1
      <4>1. i - 1 \in P
        <5> HIDE DEF P
        <5> QED BY <1>3, <2>1
      <4> QED BY <3>1, <4>1
    <3>3. s <= i /\ i < s + Len(part)
      BY <3>1, <3>2
    <3> QED BY <2>1, <3>1, <3>3
  <2> QED BY <2>2, <2>3
<1> QED BY <1>5, <1>6, <1>7

\* Replacing a value by a placeholder leaves none of it, and makes no other appear.
LEMMA Replacing ==
    ASSUME NEW text \in Seq(Words), NEW old, NEW new \in Seq(Words)
    PROVE  Replace(text, old, new) \in Seq(Words)
<1> DEFINE cuts == {Span(i, old, new) : i \in Scan(text, old)}
<1>1. \A c \in cuts : c.new \in Seq(Words)
  BY DEF Span
<1>2. Replace(text, old, new) = Splice(text, cuts)
  BY DEF Replace
<1> HIDE DEF cuts
<1> QED BY <1>1, <1>2, Building

\* The value itself is gone, and no other one has come.
LEMMA ReplacedIsGone ==
    ASSUME NEW text \in Seq(Words), NEW old, Bare(old), NEW new, Marked(new)
    PROVE  /\ ~Occurs(Replace(text, old, new), old)
           /\ \A v : Bare(v) /\ Occurs(Replace(text, old, new), v) => Occurs(text, v)
<1> DEFINE cuts == {Span(i, old, new) : i \in Scan(text, old)}
<1>0. old \in Seq(Words) /\ Len(old) \in Nat /\ Len(old) > 0
  <2>1. old \in Seq(Words) /\ Len(old) > 0
    BY DEF Bare
  <2> QED BY <2>1, LenProperties
<1>1. CutsOut(text, cuts)
  <2>1. ASSUME NEW i \in Scan(text, old)
        PROVE  /\ Span(i, old, new).start \in 1 .. Len(text) /\ Span(i, old, new).end \in Int
               /\ Span(i, old, new).start < Span(i, old, new).end /\ Marked(Span(i, old, new).new)
    <3>1. i \in 1 .. Len(text)
      BY <1>0, Found
    <3>2. i + Len(old) \in Int /\ i < i + Len(old)
      BY <1>0, <3>1
    <3> QED BY <3>1, <3>2 DEF Span
  <2> QED BY <2>1 DEF CutsOut
<1>2. Replace(text, old, new) = Splice(text, cuts)
  BY DEF Replace
<1>3. ASSUME NEW i \in 1 .. Len(text), At(text, i, old) PROVE Covered(cuts, i)
  <2>1. PICK s \in Scan(text, old) : s <= i /\ i < s + Len(old)
    BY <1>0, <1>3, Found
  <2>2. Span(s, old, new) \in cuts /\ Span(s, old, new).start = s /\ Span(s, old, new).end = s + Len(old)
    BY DEF Span
  <2> HIDE DEF cuts
  <2> QED BY <2>1, <2>2 DEF Covered
<1> HIDE DEF cuts
<1>4. ~Occurs(Splice(text, cuts), old)
  <2> SUFFICES ASSUME Occurs(Splice(text, cuts), old) PROVE FALSE
    OBVIOUS
  <2>1. PICK j : Untouched(text, cuts, old, j)
    BY <1>1, SpliceKeeps
  <2>2. j \in 1 .. Len(text) /\ At(text, j, old) /\ ~Covered(cuts, j + 0) /\ j + 0 = j
    <3>1. j \in 1 .. Len(text) /\ At(text, j, old) /\ \A t \in 0 .. Len(old) - 1 : ~Covered(cuts, j + t)
      BY <2>1 DEF Untouched
    <3>2. 0 \in 0 .. Len(old) - 1 /\ j + 0 = j
      BY <1>0, <3>1
    <3> QED BY <3>1, <3>2
  <2> QED BY <1>3, <2>2
<1>5. ASSUME NEW v, Bare(v), Occurs(Splice(text, cuts), v) PROVE Occurs(text, v)
  <2>1. PICK j : Untouched(text, cuts, v, j)
    BY <1>1, <1>5, SpliceKeeps
  <2>2. DOMAIN text = 1 .. Len(text)
    OBVIOUS
  <2> QED BY <2>1, <2>2 DEF Untouched, Occurs
<1> QED BY <1>2, <1>4, <1>5

-----------------------------------------------------------------------------
(* Detecting. *)

\* What the detector claims.
Matches(text, k) == {Claim(Rules[k], i) : i \in Scan(text, Rules[k].value)}
Free(before, matches) == {c \in matches : \A d \in before : Disjoint(c, d)}
Detects(text, f) ==
    /\ f[0] = {}
    /\ \A k \in 1 .. Len(Rules) : f[k] = f[k - 1] \cup Free(f[k - 1], Matches(text, k))
    /\ Detect(text) = f[Len(Rules)]

\* A detection, one rule at a time.
LEMMA Detecting ==
    ASSUME NEW text
    PROVE  \E f : Detects(text, f)
<1> DEFINE n == Len(Rules)
           All == UNION {Matches(text, k) : k \in 1 .. n}
           S == SUBSET All
           Onward(k, before) == before \cup Free(before, Matches(text, k))
           Run(h) == h = [k \in 0 .. n |-> IF k = 0 THEN {} ELSE Onward(k, h[k - 1])]
           g == [p \in (0 + 1 .. n) \X S |-> Onward(p[1], p[2])]
<1>0. n \in Nat
  BY Values
<1>1. {} \in S /\ g \in [(0 + 1 .. n) \X S -> S]
  <2>1. ASSUME NEW k \in 0 + 1 .. n, NEW before \in S PROVE Onward(k, before) \in S
    <3>1. Matches(text, k) \subseteq All
      <4>1. k \in 1 .. n
        OBVIOUS
      <4> QED BY <4>1
    <3>2. Free(before, Matches(text, k)) \subseteq All
      <4> HIDE DEF All
      <4> QED BY <3>1 DEF Free
    <3> HIDE DEF All
    <3> QED BY <3>2
  <2> HIDE DEF Onward, S
  <2>2. \A p \in (0 + 1 .. n) \X S : Onward(p[1], p[2]) \in S
    BY <2>1
  <2>3. {} \in S
    BY DEF S
  <2> QED BY <2>2, <2>3
<1>2. PICK h0 \in [0 .. n -> S] : Iterates(0, n, {}, g, h0)
  <2>1. 0 <= n /\ n \in Int /\ 0 \in Int
    BY <1>0
  <2> HIDE DEF g, S, n
  <2> QED BY <1>1, <2>1, Iterating
<1>3. Run(h0)
  <2> DEFINE A(i) == IF i = 0 THEN {} ELSE g[<<i, h0[i - 1]>>]
             B(i) == IF i = 0 THEN {} ELSE Onward(i, h0[i - 1])
  <2>1. h0 = [i \in 0 .. n |-> A(i)]
    BY <1>2 DEF Iterates
  <2>2. ASSUME NEW i \in 0 .. n PROVE A(i) = B(i)
    <3>1. CASE i = 0
      BY <3>1
    <3>2. CASE i # 0
      <4>1. i \in 0 + 1 .. n /\ i - 1 \in 0 .. n
        BY <1>0, <3>2
      <4>2. h0[i - 1] \in S
        BY <1>2, <4>1
      <4> HIDE DEF Onward, S
      <4>3. <<i, h0[i - 1]>> \in (0 + 1 .. n) \X S
        BY <4>1, <4>2
      <4>4. g[<<i, h0[i - 1]>>] = Onward(i, h0[i - 1])
        BY <4>3
      <4> QED BY <3>2, <4>4
    <3> QED BY <3>1, <3>2
  <2>3. h0 = [i \in 0 .. n |-> B(i)]
    <3> HIDE DEF A, B
    <3> QED BY <2>1, <2>2
  <2> QED BY <2>3
<1> DEFINE h == CHOOSE k : Run(k)
<1>4. Run(h)
  <2> HIDE DEF Run
  <2> QED BY <1>3
<1>5. Detect(text) = h[n]
  BY DEF Detect, Matches, Free
<1> HIDE DEF h
<1>6. h[0] = {} /\ \A i \in 1 .. n : h[i] = Onward(i, h[i - 1])
  <2> HIDE DEF Onward
  <2>1. h = [i \in 0 .. n |-> IF i = 0 THEN {} ELSE Onward(i, h[i - 1])]
    BY <1>4
  <2>2. 0 \in 0 .. n /\ \A i \in 1 .. n : i \in 0 .. n /\ i # 0
    BY <1>0
  <2> HIDE DEF n
  <2> QED BY <2>1, <2>2
<1>7. Detects(text, h)
  BY <1>5, <1>6 DEF Detects
<1> QED BY <1>7

IsClaim(text, c) ==
    \E rule \in Secrets : /\ c = Claim(rule, c.start)
                          /\ c.start \in 1 .. Len(text) /\ At(text, c.start, rule.value)
\* No two claims start at one place.
StartApart(C) == \A c, d \in C : c.start = d.start => c = d

\* Claims are matches, and no match of a rule that cannot overlap itself is left without a claim.
LEMMA Claiming ==
    ASSUME NEW text \in Seq(Words)
    PROVE  /\ \A c \in Detect(text) : IsClaim(text, c)
           /\ StartApart(Detect(text))
           /\ NoRuleOverlapsItself =>
                \A k \in 1 .. Len(Rules), i \in 1 .. Len(text) : At(text, i, Rules[k].value) =>
                  \E t \in 0 .. Len(Rules[k].value) - 1 : Covered(Detect(text), i + t)
<1> DEFINE n == Len(Rules)
<1>0. n \in Nat /\ Len(text) \in Nat /\ DOMAIN Rules = 1 .. n
      /\ \A k \in 1 .. n : Rules[k] \in Secrets /\ Len(Rules[k].value) \in Nat /\ Len(Rules[k].value) > 0
                           /\ DOMAIN Rules[k].value = 1 .. Len(Rules[k].value)
  <2>1. n \in Nat /\ Len(text) \in Nat
    BY Values, LenProperties
  <2>2. DOMAIN Rules = 1 .. n
    <3> DEFINE T == [value : Seq(STRING), type : STRING]
    <3>1. Rules \in Seq(T)
      BY FirewallAssumption DEF FirewallAssumption
    <3> HIDE DEF T
    <3> QED BY <3>1, LenProperties
  <2>3. \A k \in 1 .. n : Rules[k] \in Secrets
    BY Values
  <2>4. \A s \in Secrets : Len(s.value) \in Nat /\ Len(s.value) > 0 /\ DOMAIN s.value = 1 .. Len(s.value)
    BY Values
  <2> QED BY <2>1, <2>2, <2>3, <2>4
<1>1. PICK f : Detects(text, f)
  BY Detecting
<1>2. \A k \in 1 .. n : f[k] = f[k - 1] \cup Free(f[k - 1], Matches(text, k))
  BY <1>1 DEF Detects
<1>3. ASSUME NEW k \in 1 .. n, NEW c \in Matches(text, k)
      PROVE  IsClaim(text, c) /\ c.end = c.start + Len(Rules[k].value) /\ c.rule = Rules[k]
  <2>1. PICK i \in Scan(text, Rules[k].value) : c = Claim(Rules[k], i)
    BY <1>3 DEF Matches
  <2>2. i \in 1 .. Len(text) /\ At(text, i, Rules[k].value)
    BY <1>0, Found
  <2>3. c.start = i /\ c.end = i + Len(Rules[k].value) /\ c.rule = Rules[k]
    BY <2>1 DEF Claim
  <2> QED BY <1>0, <2>1, <2>2, <2>3 DEF IsClaim
<1> DEFINE P == {k \in Int : (\A c \in f[k] : IsClaim(text, c)) /\ StartApart(f[k])}
<1>4. 0 .. n \subseteq P
  <2>1. 0 \in P
    <3>1. f[0] = {} /\ 0 \in Int
      BY <1>1 DEF Detects
    <3> QED BY <3>1 DEF StartApart
  <2>2. ASSUME NEW k \in 0 + 1 .. n, k - 1 \in P PROVE k \in P
    <3>1. k \in 1 .. n /\ k \in Int
      BY <1>0
    <3>2. f[k] = f[k - 1] \cup Free(f[k - 1], Matches(text, k))
      BY <1>2, <3>1
    <3>3. (\A c \in f[k - 1] : IsClaim(text, c)) /\ StartApart(f[k - 1])
      BY <2>2
    <3>4. \A c \in f[k] : IsClaim(text, c)
      BY <1>3, <3>1, <3>2, <3>3 DEF Free
    <3>5. ASSUME NEW c \in f[k], NEW d \in f[k], c.start = d.start PROVE c = d
      <4>1. CASE c \in f[k - 1] /\ d \in f[k - 1]
        BY <3>3, <3>5, <4>1 DEF StartApart
      <4>2. CASE c \in Matches(text, k) /\ d \in Matches(text, k)
        <5>1. PICK i \in Scan(text, Rules[k].value) : c = Claim(Rules[k], i)
          BY <4>2 DEF Matches
        <5>2. PICK j \in Scan(text, Rules[k].value) : d = Claim(Rules[k], j)
          BY <4>2 DEF Matches
        <5>3. c.start = i /\ d.start = j
          BY <5>1, <5>2 DEF Claim
        <5> QED BY <3>5, <5>1, <5>2, <5>3
      <4>3. ASSUME NEW a \in f[k], NEW b \in f[k], a.start = b.start,
                   a \in f[k - 1], b \in Free(f[k - 1], Matches(text, k))
            PROVE  FALSE
        <5>1. Disjoint(b, a)
          BY <4>3 DEF Free
        <5>2. PICK r \in Secrets : a = Claim(r, a.start) /\ a.start \in 1 .. Len(text)
          BY <3>4 DEF IsClaim
        <5>3. PICK q \in Secrets : b = Claim(q, b.start) /\ b.start \in 1 .. Len(text)
          BY <3>4 DEF IsClaim
        <5>4. a.end = a.start + Len(r.value) /\ b.end = b.start + Len(q.value)
          BY <5>2, <5>3 DEF Claim
        <5>5. Len(r.value) \in Nat /\ Len(r.value) > 0 /\ Len(q.value) \in Nat /\ Len(q.value) > 0
          BY Values
        <5>6. a.start < a.end /\ b.start < b.end /\ a.start \in Int /\ b.start \in Int
          BY <5>2, <5>3, <5>4, <5>5
        <5> QED BY <4>3, <5>1, <5>4, <5>5, <5>6 DEF Disjoint
      <4>4. c \in f[k - 1] \/ c \in Free(f[k - 1], Matches(text, k))
        BY <3>2
      <4>5. d \in f[k - 1] \/ d \in Free(f[k - 1], Matches(text, k))
        BY <3>2
      <4>6. \A x \in Free(f[k - 1], Matches(text, k)) : x \in Matches(text, k)
        BY DEF Free
      <4> QED BY <3>5, <4>1, <4>2, <4>3, <4>4, <4>5, <4>6
    <3> QED BY <3>1, <3>4, <3>5 DEF StartApart
  <2>3. 0 \in Int /\ n \in Int
    BY <1>0
  <2> HIDE DEF P, n
  <2> QED BY <2>1, <2>2, <2>3, Climb
<1>5. ASSUME NEW k \in 0 .. n PROVE f[k] \subseteq f[n]
  <2> DEFINE Q == {m \in Int : f[k] \subseteq f[m]}
  <2>1. k \in Q
    OBVIOUS
  <2>2. ASSUME NEW m \in k + 1 .. n, m - 1 \in Q PROVE m \in Q
    <3>1. m \in 1 .. n /\ m \in Int
      BY <1>0
    <3>2. f[m - 1] \subseteq f[m]
      BY <1>2, <3>1
    <3> QED BY <2>2, <3>1, <3>2
  <2>3. k \in Int /\ n \in Int /\ n \in k .. n
    BY <1>0
  <2> HIDE DEF Q, n
  <2>4. k .. n \subseteq Q
    BY <2>1, <2>2, <2>3, Climb
  <2>5. n \in Q
    BY <2>3, <2>4
  <2> QED BY <2>5 DEF Q
<1>6. Detect(text) = f[n]
  BY <1>1 DEF Detects
<1>7. (\A c \in f[n] : IsClaim(text, c)) /\ StartApart(f[n])
  <2>1. n \in P
    <3> HIDE DEF P
    <3> QED BY <1>0, <1>4
  <2> QED BY <2>1
<1>8. ASSUME NoRuleOverlapsItself, NEW k \in 1 .. n, NEW i \in 1 .. Len(text), At(text, i, Rules[k].value)
      PROVE  \E t \in 0 .. Len(Rules[k].value) - 1 : Covered(f[n], i + t)
  <2> DEFINE v == Rules[k].value
             c == Claim(Rules[k], i)
  <2>0. Len(v) \in Nat /\ Len(v) > 0 /\ DOMAIN v = 1 .. Len(v)
    BY <1>0
  <2>1. i \in Scan(text, v)
    <3>1. PICK s \in Scan(text, v) : s <= i /\ i < s + Len(v)
      BY <1>8, <2>0, Found
    <3>2. s \in 1 .. Len(text) /\ At(text, s, v)
      BY <2>0, Found
    <3>3. ASSUME s # i PROVE FALSE
      <4> DEFINE d == i - s
      <4>1. d \in 1 .. Len(v) - 1
        BY <2>0, <3>1, <3>2, <3>3
      <4>2. ASSUME NEW m \in 1 .. Len(v) - d PROVE v[m + d] = v[m]
        <5>1. m \in 1 .. Len(v) /\ m + d \in 1 .. Len(v) /\ s + (m + d) - 1 = i + m - 1
          <6> DEFINE l == Len(v)
          <6>1. l \in Nat /\ s \in Int /\ i \in Int /\ m \in 1 .. l - d /\ d \in 1 .. l - 1
            BY <2>0, <3>2, <4>1
          <6> HIDE DEF l
          <6>2. m \in 1 .. l /\ m + d \in 1 .. l
            <7> HIDE DEF d
            <7> QED BY <6>1
          <6>3. s + (m + d) - 1 = i + m - 1
            BY <6>1
          <6> QED BY <6>2, <6>3 DEF l
        <5>2. text[i + m - 1] = v[m]
          <6> HIDE DEF v
          <6> QED BY <1>8, <2>0, <5>1 DEF At, v
        <5>3. text[s + (m + d) - 1] = v[m + d]
          <6> HIDE DEF v, d
          <6> QED BY <2>0, <3>2, <5>1 DEF At
        <5> QED BY <5>1, <5>2, <5>3
      <4>3. OverlapsItself(v)
        <5> HIDE DEF d, v
        <5> QED BY <4>1, <4>2 DEF OverlapsItself
      <4> QED BY <1>0, <1>8, <4>3 DEF NoRuleOverlapsItself
    <3> QED BY <3>1, <3>3
  <2>2. c \in Matches(text, k) /\ c.start = i /\ c.end = i + Len(v)
    BY <2>1 DEF Matches, Claim
  <2> HIDE DEF c, v
  <2>3. k \in 0 .. n /\ k - 1 \in 0 .. n
    BY <1>0
  <2>4. CASE \A d \in f[k - 1] : Disjoint(c, d)
    <3>1. c \in f[n]
      BY <1>2, <1>5, <2>2, <2>3, <2>4 DEF Free
    <3>2. 0 \in 0 .. Len(v) - 1 /\ c.start <= i + 0 /\ i + 0 < c.end
      BY <2>0, <2>2
    <3> QED BY <3>1, <3>2 DEF Covered, v
  <2>5. CASE ~\A d \in f[k - 1] : Disjoint(c, d)
    <3>1. PICK d \in f[k - 1] : ~Disjoint(c, d)
      BY <2>5
    <3>2. d \in f[n]
      BY <1>5, <2>3
    <3>3. PICK r \in Secrets : d = Claim(r, d.start) /\ d.start \in 1 .. Len(text)
      BY <1>7, <3>2 DEF IsClaim
    <3>4. d.end = d.start + Len(r.value) /\ Len(r.value) \in Nat /\ Len(r.value) > 0
      BY <3>3, Values DEF Claim
    <3>5. d.start < c.end /\ c.start < d.end
      BY <2>0, <2>2, <3>1, <3>3, <3>4 DEF Disjoint
    <3>6. CASE d.start <= i
      <4>1. 0 \in 0 .. Len(v) - 1 /\ d.start <= i + 0 /\ i + 0 < d.end
        BY <2>0, <2>2, <3>3, <3>5, <3>6
      <4> QED BY <3>2, <4>1 DEF Covered, v
    <3>7. CASE d.start > i
      <4>1. /\ d.start - i \in 0 .. Len(v) - 1
            /\ d.start <= i + (d.start - i) /\ i + (d.start - i) < d.end
        BY <2>0, <2>2, <3>3, <3>4, <3>5, <3>7, SMTT(30)
      <4> QED BY <3>2, <4>1 DEF Covered, v
    <3> QED BY <3>3, <3>6, <3>7
  <2> QED BY <2>4, <2>5
<1> QED BY <1>6, <1>7, <1>8

-----------------------------------------------------------------------------
(* The vault. *)

Mappings == [value : {s.value : s \in Secrets}, type : {s.type : s \in Secrets},
             n : 1 .. Len(Hints) + Len(Rules)]
VaultOK(v) ==
    /\ v \in Seq(Mappings)
    /\ \A i, j \in 1 .. Len(v) : v[i].value = v[j].value => i = j

\* There are no more placeholders than values.
LEMMA VaultIsSmall ==
    ASSUME NEW v \in Seq(Mappings), \A i, j \in 1 .. Len(v) : v[i].value = v[j].value => i = j
    PROVE  Len(v) <= Len(Hints) + Len(Rules)
<1> DEFINE n == Len(v)
           k == Len(Hints) + Len(Rules)
           nth == [i \in 1 .. k |-> IF i <= Len(Hints) THEN Hints[i] ELSE Rules[i - Len(Hints)]]
           f == [i \in 1 .. n |-> CHOOSE j \in 1 .. k : nth[j].value = v[i].value]
<1>0. n \in Nat /\ Len(Hints) \in Nat /\ Len(Rules) \in Nat /\ k \in Nat
  BY Values
<1>1. ASSUME NEW s \in Secrets PROVE \E j \in 1 .. k : nth[j] = s
  <2>1. CASE \E i \in 1 .. Len(Hints) : s = Hints[i]
    <3>1. PICK i \in 1 .. Len(Hints) : s = Hints[i]
      BY <2>1
    <3>2. i \in 1 .. k /\ i <= Len(Hints)
      BY <1>0
    <3> QED BY <3>1, <3>2
  <2>2. CASE \E i \in 1 .. Len(Rules) : s = Rules[i]
    <3>1. PICK i \in 1 .. Len(Rules) : s = Rules[i]
      BY <2>2
    <3>2. i + Len(Hints) \in 1 .. k /\ ~(i + Len(Hints) <= Len(Hints)) /\ (i + Len(Hints)) - Len(Hints) = i
      BY <1>0
    <3> QED BY <3>1, <3>2
  <2> QED BY <2>1, <2>2, Values
<1>2. ASSUME NEW i \in 1 .. n PROVE f[i] \in 1 .. k /\ nth[f[i]].value = v[i].value
  <2>1. v[i].value \in {s.value : s \in Secrets}
    <3>1. v[i] \in Mappings
      BY ElementOfSeq
    <3> QED BY <3>1 DEF Mappings
  <2>2. \E j \in 1 .. k : nth[j].value = v[i].value
    <3> HIDE DEF nth, k
    <3> QED BY <1>1, <2>1
  <2> HIDE DEF nth, k
  <2> QED BY <2>2
<1>3. f \in Injection(1 .. n, 1 .. k)
  <2>1. f \in [1 .. n -> 1 .. k]
    <3>1. f = [i \in 1 .. n |-> f[i]]
      BY SMTT(30)
    <3> HIDE DEF f, k
    <3> QED BY <1>2, <3>1
  <2>2. ASSUME NEW i \in 1 .. n, NEW j \in 1 .. n, f[i] = f[j] PROVE i = j
    <3> HIDE DEF f, nth
    <3> QED BY <1>2, <2>2
  <2> HIDE DEF f, k
  <2> QED BY <2>1, <2>2 DEF Injection, IsInjective
<1>4. Cardinality(1 .. n) = n /\ Cardinality(1 .. k) = k /\ IsFiniteSet(1 .. n) /\ IsFiniteSet(1 .. k)
  <2>1. \A m \in Nat : IsFiniteSet(1 .. m) /\ Cardinality(1 .. m) = m
    BY FS_Interval
  <2> HIDE DEF n, k
  <2> QED BY <1>0, <2>1
<1>5. n <= k
  <2> DEFINE S == 1 .. n
             T == 1 .. k
  <2>1. Cardinality(S) = n /\ Cardinality(T) = k /\ IsFiniteSet(T) /\ f \in Injection(S, T)
    BY <1>3, <1>4
  <2> HIDE DEF S, T, f, n, k
  <2>2. Cardinality(S) <= Cardinality(T)
    BY <2>1, FS_Injection
  <2> QED BY <2>1, <2>2
<1> QED BY <1>5

\* A largest number.
LEMMA LargestIn ==
    ASSUME NEW n \in Nat, NEW S \in SUBSET (1 .. n), S # {}
    PROVE  Max(S) \in S /\ \A y \in S : Max(S) >= y
<1> DEFINE T == {n - x : x \in S}
<1>1. T \in SUBSET Nat /\ T # {}
  <2>1. \A x \in S : n - x \in Nat
    OBVIOUS
  <2>2. T \subseteq Nat
    BY <2>1
  <2>3. PICK x \in S : TRUE
    OBVIOUS
  <2>4. n - x \in T
    OBVIOUS
  <2> QED BY <2>2, <2>4
<1>2. PICK t \in T : \A u \in T : t <= u
  <2> HIDE DEF T
  <2> QED BY <1>1, LeastNumber
<1>3. PICK x \in S : t = n - x
  BY <1>2
<1>4. \A y \in S : x >= y
  <2>1. \A y \in S : n - y \in T
    OBVIOUS
  <2>2. \A y \in S : n - x <= n - y
    <3> HIDE DEF T
    <3> QED BY <1>2, <1>3, <2>1
  <2> QED BY <2>2
<1> QED BY <1>4 DEF Max

\* Placeholders have no word of a value.
LEMMA TokensAreMarks ==
    ASSUME NEW m \in Mappings
    PROVE  Marked(Token(m))
<1> DEFINE w1 == Open
           w2 == m.type
           w3 == ToString(m.n)
           w4 == Close
<1>1. {w1, w2, w3, w4} \subseteq Marks
  <2>1. m.type \in {s.type : s \in Secrets} /\ m.n \in 1 .. Len(Hints) + Len(Rules)
    BY DEF Mappings
  <2>2. w1 \in Marks /\ w4 \in Marks
    BY DEF Marks
  <2>3. w2 \in Marks
    BY <2>1 DEF Marks
  <2>4. w3 \in Marks
    <3>1. w3 \in {ToString(n) : n \in 1 .. Len(Hints) + Len(Rules)}
      BY <2>1
    <3> HIDE DEF w3
    <3> QED BY <3>1 DEF Marks
  <2> QED BY <2>2, <2>3, <2>4
<1>2. {w1, w2, w3, w4} \subseteq Words
  <2>1. m.type \in {s.type : s \in Secrets} /\ m.n \in Nat
    <3>1. m.type \in {s.type : s \in Secrets} /\ m.n \in 1 .. Len(Hints) + Len(Rules)
      BY DEF Mappings
    <3>2. Len(Hints) \in Nat /\ Len(Rules) \in Nat
      BY Values
    <3> QED BY <3>1, <3>2
  <2>2. w1 \in Words /\ w4 \in Words
    BY DEF Words
  <2>3. w2 \in Words
    BY <2>1, Values
  <2>4. w3 \in Words
    <3>1. w3 \in {ToString(n) : n \in Nat}
      BY <2>1
    <3> HIDE DEF w3
    <3> QED BY <3>1 DEF Words
  <2> QED BY <2>2, <2>3, <2>4
<1>3. Token(m) = <<w1, w2, w3, w4>>
  BY DEF Token
<1> HIDE DEF w1, w2, w3, w4
<1>4. /\ <<w1, w2, w3, w4>> \in Seq(Words) /\ Len(<<w1, w2, w3, w4>>) = 4
      /\ \A k \in 1 .. 4 : <<w1, w2, w3, w4>>[k] \in Marks
  <2>1. w1 \in Words /\ w2 \in Words /\ w3 \in Words /\ w4 \in Words
    BY <1>2
  <2>2. w1 \in Marks /\ w2 \in Marks /\ w3 \in Marks /\ w4 \in Marks
    BY <1>1
  <2>3. \A k \in 1 .. 4 : k = 1 \/ k = 2 \/ k = 3 \/ k = 4
    OBVIOUS
  <2>4. \A k \in 1 .. 4 : <<w1, w2, w3, w4>>[k] \in Marks
    BY <2>2, <2>3
  <2> QED BY <2>1, <2>4
<1> DEFINE t == <<w1, w2, w3, w4>>
<1>5. t \in Seq(Words) /\ Len(t) = 4 /\ \A k \in 1 .. 4 : Mark(t[k])
  <2> HIDE DEF t
  <2> QED BY <1>4, Values DEF t
<1>6. Token(m) = t
  BY <1>3
<1> HIDE DEF t
<1>7. Marked(t)
  BY <1>5 DEF Marked
<1> QED BY <1>6, <1>7

\* A minted value has its placeholder.
LEMMA TokenOfIs ==
    ASSUME NEW v, VaultOK(v), NEW value, Minted(v, value)
    PROVE  Marked(TokenOf(v, value))
<1> DEFINE S == {i \in DOMAIN v : v[i].value = value}
<1>1. v \in Seq(Mappings) /\ Len(v) \in Nat /\ DOMAIN v = 1 .. Len(v)
  BY DEF VaultOK
<1>2. S \in SUBSET (1 .. Len(v)) /\ S # {}
  BY <1>1 DEF Minted
<1>3. TokenOf(v, value) = Token(v[Max(S)])
  BY DEF TokenOf
<1> HIDE DEF S
<1>4. Max(S) \in 1 .. Len(v)
  BY <1>1, <1>2, LargestIn
<1>5. v[Max(S)] \in Mappings
  <2> DEFINE k == Max(S)
  <2>1. k \in 1 .. Len(v)
    BY <1>4
  <2> HIDE DEF k
  <2>2. v[k] \in Mappings
    BY <1>1, <2>1, ElementOfSeq
  <2> QED BY <2>2 DEF k
<1> QED BY <1>3, <1>5, TokensAreMarks

\* A vault only grows.
Grows(v, w) == \A value : Minted(v, value) => Minted(w, value)

\* Minting keeps a vault a vault.
LEMMA Tokenizing ==
    ASSUME NEW v, VaultOK(v), NEW s \in Secrets
    PROVE  /\ VaultOK(Tokenize(v, s.value, s.type))
           /\ Grows(v, Tokenize(v, s.value, s.type))
           /\ Minted(Tokenize(v, s.value, s.type), s.value)
<1> DEFINE w == Tokenize(v, s.value, s.type)
           m == NewMapping(v, s.value, s.type)
           n == Len(v)
           k == Len(Hints) + Len(Rules)
<1>1. /\ v \in Seq(Mappings) /\ n \in Nat /\ DOMAIN v = 1 .. n /\ k \in Nat
      /\ \A i, j \in 1 .. n : v[i].value = v[j].value => i = j
      /\ Len(Hints) \in Nat /\ Len(Rules) \in Nat
  <2>1. v \in Seq(Mappings) /\ \A i, j \in 1 .. n : v[i].value = v[j].value => i = j
    BY DEF VaultOK
  <2>2. n \in Nat /\ DOMAIN v = 1 .. n
    BY <2>1
  <2>3. Len(Hints) \in Nat /\ Len(Rules) \in Nat /\ k \in Nat
    BY Values
  <2> QED BY <2>1, <2>2, <2>3
<1>2. CASE Minted(v, s.value)
  <2>1. w = v
    BY <1>2 DEF Tokenize
  <2> HIDE DEF w
  <2>2. VaultOK(w) /\ Grows(v, w) /\ Minted(w, s.value)
    BY <1>2, <2>1 DEF Grows
  <2> QED BY <2>2 DEF w
<1>3. CASE ~Minted(v, s.value)
  <2>1. w = Append(v, m) /\ m.value = s.value /\ m.type = s.type
    BY <1>3 DEF Tokenize, NewMapping
  <2>2. n + 1 <= k
    <3> DEFINE z == [value |-> s.value, type |-> s.type, n |-> 1]
               u == Append(v, z)
    <3>0. s.value \in {q.value : q \in Secrets} /\ s.type \in {q.type : q \in Secrets}
      OBVIOUS
    <3>1. 1 \in 1 .. k
      <4>1. s \in {Hints[i] : i \in 1 .. Len(Hints)} \cup {Rules[i] : i \in 1 .. Len(Rules)}
        BY Values
      <4>2. Len(Hints) > 0 \/ Len(Rules) > 0
        BY <1>1, <4>1
      <4> QED BY <1>1, <4>2
    <3>2. z \in Mappings /\ z.value = s.value
      BY <3>0, <3>1 DEF Mappings
    <3> HIDE DEF z
    <3>3. u \in Seq(Mappings) /\ Len(u) = n + 1 /\ u[n + 1] = z /\ \A i \in 1 .. n : u[i] = v[i]
      BY <1>1, <3>2
    <3> HIDE DEF u
    <3>4. ASSUME NEW i \in 1 .. n + 1, NEW j \in 1 .. n + 1, u[i].value = u[j].value PROVE i = j
      <4>1. \A q \in 1 .. n : u[q].value # s.value
        BY <1>1, <1>3, <3>3 DEF Minted
      <4>2. u[n + 1].value = s.value
        BY <3>2, <3>3
      <4>3. (i \in 1 .. n \/ i = n + 1) /\ (j \in 1 .. n \/ j = n + 1)
        BY <1>1
      <4>4. \A q \in 1 .. n : u[q].value = v[q].value
        BY <3>3
      <4> QED BY <1>1, <3>4, <4>1, <4>2, <4>3, <4>4
    <3>5. \A i, j \in 1 .. Len(u) : u[i].value = u[j].value => i = j
      BY <3>3, <3>4
    <3>6. Len(u) <= Len(Hints) + Len(Rules)
      BY <3>3, <3>5, VaultIsSmall
    <3> QED BY <3>3, <3>6
  <2>3. m \in Mappings
    <3> DEFINE T == {i \in DOMAIN v : v[i].type = s.type}
    <3>1. IsFiniteSet(1 .. n) /\ Cardinality(1 .. n) = n
      <4>1. \A q \in Nat : IsFiniteSet(1 .. q) /\ Cardinality(1 .. q) = q
        BY FS_Interval
      <4> HIDE DEF n
      <4> QED BY <1>1, <4>1
    <3>2. T \subseteq 1 .. n
      BY <1>1
    <3>3. m.n = 1 + Cardinality(T) /\ m = [value |-> s.value, type |-> s.type, n |-> m.n]
      BY DEF NewMapping
    <3> HIDE DEF T, m, n, k
    <3>4. Cardinality(T) <= n /\ Cardinality(T) \in Nat
      <4> DEFINE I == 1 .. n
      <4>1. IsFiniteSet(I) /\ Cardinality(I) = n /\ T \subseteq I
        BY <3>1, <3>2
      <4> HIDE DEF I
      <4>2. IsFiniteSet(T) /\ Cardinality(T) <= Cardinality(I)
        BY <4>1, FS_Subset
      <4> QED BY <4>1, <4>2, FS_CardinalityType
    <3>5. m.n \in 1 .. k
      BY <1>1, <2>2, <3>3, <3>4
    <3> QED BY <3>3, <3>5 DEF Mappings, k
  <2> HIDE DEF m, k
  <2>4. w \in Seq(Mappings) /\ Len(w) = n + 1 /\ w[n + 1] = m /\ DOMAIN w = 1 .. n + 1 /\ \A i \in 1 .. n : w[i] = v[i]
    <3> HIDE DEF w
    <3> QED BY <1>1, <2>1, <2>3
  <2> HIDE DEF w
  <2>5. \A q \in 1 .. n : w[q].value = v[q].value /\ v[q].value # s.value
    BY <1>1, <1>3, <2>4 DEF Minted
  <2>6. ASSUME NEW i \in 1 .. n + 1, NEW j \in 1 .. n + 1, w[i].value = w[j].value PROVE i = j
    <3>1. (i \in 1 .. n \/ i = n + 1) /\ (j \in 1 .. n \/ j = n + 1)
      BY <1>1
    <3>2. w[n + 1].value = s.value
      BY <2>1, <2>4
    <3> QED BY <1>1, <2>5, <2>6, <3>1, <3>2
  <2>7. VaultOK(w)
    BY <2>4, <2>6 DEF VaultOK
  <2>8. Minted(w, s.value)
    <3>1. n + 1 \in DOMAIN w
      BY <1>1, <2>4
    <3> QED BY <2>1, <2>4, <3>1 DEF Minted
  <2>9. Grows(v, w)
    <3>1. \A q \in 1 .. n : q \in DOMAIN w
      BY <1>1, <2>4
    <3> QED BY <1>1, <2>4, <2>5, <3>1 DEF Grows, Minted
  <2> QED BY <2>7, <2>8, <2>9 DEF w
<1> QED BY <1>2, <1>3

-----------------------------------------------------------------------------
(* The order in which declared values are masked. *)

\* Every declared value has its place in the order.
LEMMA Placing ==
    /\ \A k \in 1 .. Len(Hints) : HintOrder[k] \in Secrets /\ \E j \in 1 .. Len(Hints) : HintOrder[k] = Hints[j]
    /\ \A j \in 1 .. Len(Hints) : \E k \in 1 .. Len(Hints) : HintOrder[k] = Hints[j]
<1> DEFINE n == Len(Hints)
           I == 1 .. n
           Ahead(j) == {i \in I : Before(i, j)}
<1>1. n \in Nat /\ DOMAIN Hints = I /\ \A i \in I : Len(Hints[i].value) \in Nat
  <2>1. n \in Nat
    BY Values
  <2>2. DOMAIN Hints = I
    <3> DEFINE T == [value : Seq(STRING), type : STRING]
    <3>1. Hints \in Seq(T)
      BY FirewallAssumption DEF FirewallAssumption
    <3> HIDE DEF T
    <3> QED BY <3>1, LenProperties
  <2>3. \A i \in I : Hints[i] \in Secrets
    BY Values
  <2>4. \A s \in Secrets : Len(s.value) \in Nat
    BY Values
  <2> QED BY <2>1, <2>2, <2>3, <2>4
<1>2. IsFiniteSet(I) /\ Cardinality(I) = n
  <2>1. \A q \in Nat : IsFiniteSet(1 .. q) /\ Cardinality(1 .. q) = q
    BY FS_Interval
  <2> HIDE DEF n
  <2> QED BY <1>1, <2>1
<1>3. \A j \in I : Place(j) = 1 + Cardinality(Ahead(j))
  BY <1>1 DEF Place
<1>4. ASSUME NEW j \in I PROVE Place(j) \in I
  <2> DEFINE A == Ahead(j)
             J == I \ {j}
  <2>1. A \subseteq J
    BY <1>1 DEF Before
  <2>2. IsFiniteSet(J) /\ Cardinality(J) = n - 1
    <3> HIDE DEF I, n
    <3> QED BY <1>2, FS_RemoveElement
  <2> HIDE DEF A, J
  <2>3. IsFiniteSet(A) /\ Cardinality(A) <= Cardinality(J)
    BY <2>1, <2>2, FS_Subset
  <2>4. Cardinality(A) \in Nat
    BY <2>3, FS_CardinalityType
  <2>5. Place(j) = 1 + Cardinality(A)
    BY <1>3 DEF A
  <2> QED BY <1>1, <2>2, <2>3, <2>4, <2>5
<1>5. ASSUME NEW i \in I, NEW j \in I, Before(i, j) PROVE Place(i) # Place(j)
  <2> DEFINE A == Ahead(i)
             B == Ahead(j)
  <2>1. ASSUME NEW m \in A PROVE m \in B
    <3>1. m \in I /\ Before(m, i)
      BY <2>1
    <3>2. m \in Int /\ i \in Int /\ j \in Int
      BY <1>1, <3>1
    <3>3. Len(Hints[m].value) \in Nat /\ Len(Hints[i].value) \in Nat /\ Len(Hints[j].value) \in Nat
      BY <1>1, <3>1
    <3>4. Before(m, j)
      BY <1>5, <3>1, <3>2, <3>3 DEF Before
    <3> QED BY <3>1, <3>4
  <2>2. i \in B /\ i \notin A
    <3>1. ~Before(i, i)
      BY <1>1 DEF Before
    <3> QED BY <1>5, <3>1
  <2>3. A \subseteq B /\ A # B /\ B \subseteq I
    <3>1. B \subseteq I
      OBVIOUS
    <3> HIDE DEF A, B
    <3> QED BY <2>1, <2>2, <3>1
  <2>4. Place(i) = 1 + Cardinality(A) /\ Place(j) = 1 + Cardinality(B)
    BY <1>3
  <2> HIDE DEF A, B
  <2>5. IsFiniteSet(B) /\ IsFiniteSet(A)
    <3> HIDE DEF I
    <3>1. IsFiniteSet(B)
      BY <1>2, <2>3, FS_Subset
    <3> QED BY <2>3, <3>1, FS_Subset
  <2>6. Cardinality(A) < Cardinality(B) /\ Cardinality(A) \in Nat /\ Cardinality(B) \in Nat
    <3>1. Cardinality(A) <= Cardinality(B) /\ (Cardinality(A) = Cardinality(B) => A = B)
      BY <2>3, <2>5, FS_Subset
    <3>2. Cardinality(A) \in Nat /\ Cardinality(B) \in Nat
      BY <2>5, FS_CardinalityType
    <3> QED BY <2>3, <3>1, <3>2
  <2> QED BY <2>4, <2>6
<1>6. ASSUME NEW i \in I, NEW j \in I, Place(i) = Place(j) PROVE i = j
  <2>1. i = j \/ Before(i, j) \/ Before(j, i)
    <3>1. Len(Hints[i].value) \in Nat /\ Len(Hints[j].value) \in Nat /\ i \in Int /\ j \in Int
      BY <1>1
    <3> QED BY <3>1 DEF Before
  <2> HIDE DEF I
  <2> QED BY <1>5, <1>6, <2>1
<1> DEFINE f == [j \in I |-> Place(j)]
<1>7. ASSUME NEW k \in I PROVE \E j \in I : Place(j) = k
  <2> SUFFICES ASSUME \A j \in I : Place(j) # k PROVE FALSE
    OBVIOUS
  <2> DEFINE J == I \ {k}
  <2> HIDE DEF I, n
  <2>1. f \in Injection(I, J)
    <3>1. \A j \in I : f[j] = Place(j) /\ Place(j) \in J
      BY <1>4
    <3>2. f \in [I -> J]
      <4> HIDE DEF J
      <4>1. \A j \in I : Place(j) \in J
        BY <3>1
      <4> QED BY <4>1
    <3>3. \A i, j \in I : f[i] = f[j] => i = j
      <4> HIDE DEF f
      <4> QED BY <1>6, <3>1
    <3> HIDE DEF f, J
    <3> QED BY <3>2, <3>3 DEF Injection, IsInjective
  <2>2. IsFiniteSet(J) /\ Cardinality(J) = n - 1
    BY <1>2, FS_RemoveElement
  <2> HIDE DEF J, f
  <2>3. Cardinality(I) <= Cardinality(J)
    BY <2>1, <2>2, FS_Injection
  <2> QED BY <1>1, <1>2, <2>2, <2>3
<1>8. \A k \in I : HintOrder[k] = Hints[CHOOSE j \in I : Place(j) = k]
  BY <1>1 DEF HintOrder
<1>9. ASSUME NEW k \in I PROVE \E j \in I : HintOrder[k] = Hints[j] /\ Place(j) = k
  <2> DEFINE j == CHOOSE q \in I : Place(q) = k
  <2>1. j \in I /\ Place(j) = k
    <3> HIDE DEF I
    <3> QED BY <1>7
  <2>2. HintOrder[k] = Hints[j]
    BY <1>8
  <2> HIDE DEF j
  <2> QED BY <2>1, <2>2
<1>10. ASSUME NEW j \in I PROVE HintOrder[Place(j)] = Hints[j]
  <2>1. PICK i \in I : HintOrder[Place(j)] = Hints[i] /\ Place(i) = Place(j)
    BY <1>4, <1>9
  <2> QED BY <1>6, <2>1
<1>11. \A j \in I : Hints[j] \in Secrets
  BY Values
<1> QED BY <1>4, <1>9, <1>10, <1>11

-----------------------------------------------------------------------------
\* The vault holds what users declared.
Vaults == {v \in Seq(Mappings) : VaultOK(v)}
Declares(f) ==
    /\ f[0] = <<>>
    /\ \A k \in 1 .. Len(Hints) : f[k] = Tokenize(f[k - 1], Hints[k].value, Hints[k].type)
    /\ \A k \in 0 .. Len(Hints) : f[k] \in Vaults
    /\ NewVault = f[Len(Hints)]

\* The same as a set, to range over.
LEMMA AreVaults ==
    ASSUME NEW v
    PROVE  v \in Vaults <=> VaultOK(v)
BY DEF Vaults, VaultOK

\* A new vault, one declared value at a time.
LEMMA Declaring ==
    ASSUME TRUE
    PROVE  \E f : Declares(f)
<1> DEFINE n == Len(Hints)
           S == Vaults
           Onward(k, before) == Tokenize(before, Hints[k].value, Hints[k].type)
           Run(h) == h = [k \in 0 .. n |-> IF k = 0 THEN <<>> ELSE Onward(k, h[k - 1])]
           g == [p \in (0 + 1 .. n) \X S |-> Onward(p[1], p[2])]
<1>0. n \in Nat
  BY Values
<1>1. ASSUME NEW i \in 1 .. n, NEW before \in S PROVE Onward(i, before) \in S
  <2>1. Hints[i] \in Secrets
    BY Values
  <2>2. VaultOK(before)
    BY AreVaults
  <2>3. VaultOK(Tokenize(before, Hints[i].value, Hints[i].type))
    BY <2>1, <2>2, Tokenizing
  <2> HIDE DEF S
  <2> QED BY <2>3, AreVaults DEF S
<1>2. <<>> \in S
  <2>1. <<>> \in Seq(Mappings) /\ 1 .. Len(<<>>) = {}
    OBVIOUS
  <2>2. VaultOK(<<>>)
    BY <2>1 DEF VaultOK
  <2> QED BY <2>2, AreVaults
<1>3. g \in [(0 + 1 .. n) \X S -> S]
  <2>1. \A i \in 0 + 1 .. n : i \in 1 .. n
    OBVIOUS
  <2> HIDE DEF Onward, S, n
  <2>2. \A p \in (0 + 1 .. n) \X S : Onward(p[1], p[2]) \in S
    BY <1>1, <2>1
  <2> QED BY <2>2
<1>4. PICK h0 \in [0 .. n -> S] : Iterates(0, n, <<>>, g, h0)
  <2>1. 0 <= n /\ n \in Int /\ 0 \in Int
    BY <1>0
  <2> HIDE DEF g, S, n
  <2> QED BY <1>2, <1>3, <2>1, Iterating
<1>5. Run(h0)
  <2> DEFINE A(i) == IF i = 0 THEN <<>> ELSE g[<<i, h0[i - 1]>>]
             B(i) == IF i = 0 THEN <<>> ELSE Onward(i, h0[i - 1])
  <2>1. h0 = [i \in 0 .. n |-> A(i)]
    BY <1>4 DEF Iterates
  <2>2. ASSUME NEW i \in 0 .. n PROVE A(i) = B(i)
    <3>1. CASE i = 0
      BY <3>1
    <3>2. CASE i # 0
      <4>1. i \in 0 + 1 .. n /\ i - 1 \in 0 .. n
        BY <1>0, <3>2
      <4> HIDE DEF Onward, S
      <4>2. h0[i - 1] \in S
        BY <1>4, <4>1
      <4>3. <<i, h0[i - 1]>> \in (0 + 1 .. n) \X S
        BY <4>1, <4>2
      <4>4. g[<<i, h0[i - 1]>>] = Onward(i, h0[i - 1])
        BY <4>3
      <4> QED BY <3>2, <4>4
    <3> QED BY <3>1, <3>2
  <2>3. h0 = [i \in 0 .. n |-> B(i)]
    <3> HIDE DEF A, B
    <3> QED BY <2>1, <2>2
  <2> QED BY <2>3, SMTT(30)
<1> DEFINE h == CHOOSE k : Run(k)
<1>6. Run(h)
  <2> HIDE DEF Run
  <2> QED BY <1>5
<1>7. NewVault = h[n]
  BY DEF NewVault
<1> HIDE DEF h
<1>8. h[0] = <<>> /\ \A i \in 1 .. n : h[i] = Onward(i, h[i - 1])
  <2> HIDE DEF Onward
  <2>1. h = [i \in 0 .. n |-> IF i = 0 THEN <<>> ELSE Onward(i, h[i - 1])]
    BY <1>6
  <2>2. 0 \in 0 .. n /\ \A i \in 1 .. n : i \in 0 .. n /\ i # 0
    BY <1>0
  <2> HIDE DEF n
  <2> QED BY <2>1, <2>2
<1>9. \A i \in 0 .. n : h[i] \in S
  <2> DEFINE P == {i \in Int : h[i] \in S}
  <2>1. 0 \in P
    <3> HIDE DEF S
    <3> QED BY <1>2, <1>8
  <2>2. ASSUME NEW i \in 0 + 1 .. n, i - 1 \in P PROVE i \in P
    <3>1. i \in 1 .. n /\ i \in Int
      OBVIOUS
    <3> HIDE DEF Onward, S
    <3> QED BY <1>1, <1>8, <2>2, <3>1
  <2>3. 0 \in Int /\ n \in Int
    BY <1>0
  <2> HIDE DEF P, n
  <2>4. 0 .. n \subseteq P
    BY <2>1, <2>2, <2>3, Climb
  <2> QED BY <2>4 DEF P
<1>10. Declares(h)
  BY <1>7, <1>8, <1>9 DEF Declares
<1> QED BY <1>10

AllMinted(v) == \A k \in 1 .. Len(Hints) : Minted(v, Hints[k].value)

\* A new vault has a placeholder for every declared value.
LEMMA NewVaultIs == VaultOK(NewVault) /\ AllMinted(NewVault)
<1> DEFINE n == Len(Hints)
<1>1. PICK f : Declares(f)
  BY Declaring
<1>2. /\ n \in Nat /\ \A k \in 1 .. n : Hints[k] \in Secrets
      /\ \A k \in 0 .. n : VaultOK(f[k])
      /\ \A k \in 1 .. n : f[k] = Tokenize(f[k - 1], Hints[k].value, Hints[k].type)
      /\ NewVault = f[n]
  <2>1. n \in Nat /\ \A k \in 1 .. n : Hints[k] \in Secrets
    BY Values
  <2> QED BY <1>1, <2>1, AreVaults DEF Declares
<1>3. ASSUME NEW k \in 1 .. n PROVE Grows(f[k - 1], f[k]) /\ Minted(f[k], Hints[k].value)
  <2>1. k - 1 \in 0 .. n
    BY <1>2
  <2> DEFINE v == f[k - 1]
             s == Hints[k]
  <2>2. VaultOK(v) /\ s \in Secrets /\ f[k] = Tokenize(v, s.value, s.type)
    BY <1>2, <2>1
  <2> HIDE DEF v, s
  <2>3. Grows(v, f[k]) /\ Minted(f[k], s.value)
    BY <2>2, Tokenizing
  <2> QED BY <2>3 DEF v, s
<1>4. ASSUME NEW k \in 1 .. n PROVE Minted(f[n], Hints[k].value)
  <2> DEFINE P == {i \in Int : Minted(f[i], Hints[k].value)}
  <2>1. k \in P
    BY <1>2, <1>3
  <2>2. ASSUME NEW i \in k + 1 .. n, i - 1 \in P PROVE i \in P
    <3>1. i \in 1 .. n /\ i \in Int
      BY <1>2
    <3> QED BY <1>3, <2>2, <3>1 DEF Grows
  <2>3. k \in Int /\ n \in Int /\ n \in k .. n
    BY <1>2
  <2> HIDE DEF P, n
  <2>4. k .. n \subseteq P
    BY <2>1, <2>2, <2>3, Climb
  <2>5. n \in P
    BY <2>3, <2>4
  <2> QED BY <2>5 DEF P
<1>5. VaultOK(f[n])
  <2>1. n \in 0 .. n
    BY <1>2
  <2> QED BY <1>2, <2>1
<1> QED BY <1>2, <1>4, <1>5 DEF AllMinted

-----------------------------------------------------------------------------
\* Declared values are masked first, each everywhere.
Applies(v, text, f) ==
    /\ f[0] = text
    /\ \A k \in 1 .. Len(Hints) : f[k] = Replace(f[k - 1], HintOrder[k].value, TokenOf(v, HintOrder[k].value))
    /\ \A k \in 0 .. Len(Hints) : f[k] \in Seq(Words)
    /\ ApplyHints(v, text) = f[Len(Hints)]

\* Masking the declared values, one of them at a time.
LEMMA Applying ==
    ASSUME NEW v, VaultOK(v), AllMinted(v), NEW text \in Seq(Words)
    PROVE  \E f : Applies(v, text, f)
<1> DEFINE n == Len(Hints)
           S == Seq(Words)
           Onward(k, before) == Replace(before, HintOrder[k].value, TokenOf(v, HintOrder[k].value))
           Run(h) == h = [k \in 0 .. n |-> IF k = 0 THEN text ELSE Onward(k, h[k - 1])]
           g == [p \in (0 + 1 .. n) \X S |-> Onward(p[1], p[2])]
<1>0. n \in Nat
  BY Values
<1>1. ASSUME NEW i \in 1 .. n, NEW before \in S PROVE Onward(i, before) \in S
  <2> DEFINE w == HintOrder[i].value
  <2>1. Minted(v, w)
    <3>1. PICK j \in 1 .. Len(Hints) : HintOrder[i] = Hints[j]
      BY Placing
    <3> QED BY <3>1 DEF AllMinted
  <2> HIDE DEF w
  <2>2. TokenOf(v, w) \in Seq(Words)
    BY <2>1, TokenOfIs DEF Marked
  <2>3. Replace(before, w, TokenOf(v, w)) \in Seq(Words)
    BY <2>2, Replacing
  <2> QED BY <2>3 DEF w
<1>2. text \in S
  OBVIOUS
<1>3. g \in [(0 + 1 .. n) \X S -> S]
  <2>1. \A i \in 0 + 1 .. n : i \in 1 .. n
    OBVIOUS
  <2> HIDE DEF Onward, S, n
  <2>2. \A p \in (0 + 1 .. n) \X S : Onward(p[1], p[2]) \in S
    BY <1>1, <2>1
  <2> QED BY <2>2
<1>4. PICK h0 \in [0 .. n -> S] : Iterates(0, n, text, g, h0)
  <2>1. 0 <= n /\ n \in Int /\ 0 \in Int
    BY <1>0
  <2> HIDE DEF g, S, n
  <2> QED BY <1>2, <1>3, <2>1, Iterating
<1>5. Run(h0)
  <2> DEFINE A(i) == IF i = 0 THEN text ELSE g[<<i, h0[i - 1]>>]
             B(i) == IF i = 0 THEN text ELSE Onward(i, h0[i - 1])
  <2>1. h0 = [i \in 0 .. n |-> A(i)]
    BY <1>4 DEF Iterates
  <2>2. ASSUME NEW i \in 0 .. n PROVE A(i) = B(i)
    <3>1. CASE i = 0
      BY <3>1
    <3>2. CASE i # 0
      <4>1. i \in 0 + 1 .. n /\ i - 1 \in 0 .. n
        BY <1>0, <3>2
      <4> HIDE DEF Onward, S
      <4>2. h0[i - 1] \in S
        BY <1>4, <4>1
      <4>3. <<i, h0[i - 1]>> \in (0 + 1 .. n) \X S
        BY <4>1, <4>2
      <4>4. g[<<i, h0[i - 1]>>] = Onward(i, h0[i - 1])
        BY <4>3
      <4> QED BY <3>2, <4>4
    <3> QED BY <3>1, <3>2
  <2>3. h0 = [i \in 0 .. n |-> B(i)]
    <3> HIDE DEF A, B
    <3> QED BY <2>1, <2>2
  <2> QED BY <2>3, SMTT(30)
<1> DEFINE h == CHOOSE k : Run(k)
<1>6. Run(h)
  <2> HIDE DEF Run
  <2> QED BY <1>5
<1>7. ApplyHints(v, text) = h[n]
  BY DEF ApplyHints
<1> HIDE DEF h
<1>8. h[0] = text /\ \A i \in 1 .. n : h[i] = Onward(i, h[i - 1])
  <2> HIDE DEF Onward
  <2>1. h = [i \in 0 .. n |-> IF i = 0 THEN text ELSE Onward(i, h[i - 1])]
    BY <1>6
  <2>2. 0 \in 0 .. n /\ \A i \in 1 .. n : i \in 0 .. n /\ i # 0
    BY <1>0
  <2> HIDE DEF n
  <2> QED BY <2>1, <2>2
<1>9. \A i \in 0 .. n : h[i] \in S
  <2> DEFINE P == {i \in Int : h[i] \in S}
  <2>1. 0 \in P
    <3> HIDE DEF S
    <3> QED BY <1>2, <1>8
  <2>2. ASSUME NEW i \in 0 + 1 .. n, i - 1 \in P PROVE i \in P
    <3>1. i \in 1 .. n /\ i \in Int
      OBVIOUS
    <3> HIDE DEF Onward, S
    <3> QED BY <1>1, <1>8, <2>2, <3>1
  <2>3. 0 \in Int /\ n \in Int
    BY <1>0
  <2> HIDE DEF P, n
  <2>4. 0 .. n \subseteq P
    BY <2>1, <2>2, <2>3, Climb
  <2> QED BY <2>4 DEF P
<1>10. Applies(v, text, h)
  BY <1>7, <1>8, <1>9 DEF Applies
<1> QED BY <1>10

\* No word of a value is one of a placeholder.
LEMMA ValuesAreBare == \A s \in Secrets : Bare(s.value)
<1> SUFFICES ASSUME NEW s \in Secrets PROVE Bare(s.value)
  OBVIOUS
<1>1. s.value \in Seq(Words) /\ Len(s.value) > 0 /\ DOMAIN s.value = 1 .. Len(s.value)
  BY Values
<1>2. \A k \in 1 .. Len(s.value) : ~Mark(s.value[k])
  BY <1>1 DEF Mark
<1> QED BY <1>1, <1>2 DEF Bare

\* Once the declared values are masked none is left, in whatever order they stand.
LEMMA HintsAreGone ==
    ASSUME NEW v, VaultOK(v), AllMinted(v), NEW text \in Seq(Words)
    PROVE  /\ ApplyHints(v, text) \in Seq(Words)
           /\ \A j \in 1 .. Len(Hints) : ~Occurs(ApplyHints(v, text), Hints[j].value)
<1> DEFINE n == Len(Hints)
<1>1. PICK f : Applies(v, text, f)
  BY Applying
<1>2. /\ n \in Nat
      /\ \A k \in 1 .. n : f[k] = Replace(f[k - 1], HintOrder[k].value, TokenOf(v, HintOrder[k].value))
      /\ \A k \in 0 .. n : f[k] \in Seq(Words)
      /\ ApplyHints(v, text) = f[n] /\ n \in 0 .. n
  <2>1. n \in Nat
    BY Values
  <2> QED BY <1>1, <2>1 DEF Applies
<1>3. ASSUME NEW k \in 1 .. n
      PROVE  /\ ~Occurs(f[k], HintOrder[k].value)
             /\ \A w : Bare(w) /\ Occurs(f[k], w) => Occurs(f[k - 1], w)
  <2> DEFINE a == f[k - 1]
             w == HintOrder[k].value
             t == TokenOf(v, w)
  <2>1. a \in Seq(Words) /\ f[k] = Replace(a, w, t)
    <3>1. k - 1 \in 0 .. n
      BY <1>2
    <3> QED BY <1>2, <3>1
  <2>2. Bare(w)
    <3>1. HintOrder[k] \in Secrets
      BY Placing
    <3> QED BY <3>1, ValuesAreBare
  <2>3. Marked(t)
    <3>1. PICK j \in 1 .. Len(Hints) : HintOrder[k] = Hints[j]
      BY Placing
    <3>2. Minted(v, w)
      BY <3>1 DEF AllMinted
    <3> HIDE DEF w
    <3> QED BY <3>2, TokenOfIs
  <2> HIDE DEF a, w, t
  <2>4. /\ ~Occurs(f[k], w)
        /\ \A u : Bare(u) /\ Occurs(f[k], u) => Occurs(a, u)
    BY <2>1, <2>2, <2>3, ReplacedIsGone
  <2> QED BY <2>4 DEF a, w
<1>4. ASSUME NEW j \in 1 .. n PROVE ~Occurs(f[n], Hints[j].value)
  <2> DEFINE w == Hints[j].value
  <2>1. PICK k \in 1 .. n : HintOrder[k] = Hints[j]
    BY Placing
  <2>2. Bare(w)
    <3>1. Hints[j] \in Secrets
      BY Values
    <3> QED BY <3>1, ValuesAreBare
  <2> DEFINE P == {i \in Int : ~Occurs(f[i], w)}
  <2>3. k \in P
    BY <1>3, <2>1
  <2>4. ASSUME NEW i \in k + 1 .. n, i - 1 \in P PROVE i \in P
    <3>1. i \in 1 .. n /\ i \in Int
      BY <1>2
    <3>2. ~Occurs(f[i - 1], w)
      BY <2>4
    <3> HIDE DEF w
    <3>3. ~Occurs(f[i], w)
      BY <1>3, <2>2, <3>1, <3>2
    <3> QED BY <3>1, <3>3
  <2>5. k \in Int /\ n \in Int /\ n \in k .. n
    BY <1>2
  <2> HIDE DEF P, n
  <2>6. k .. n \subseteq P
    BY <2>3, <2>4, <2>5, Climb
  <2>7. n \in P
    BY <2>5, <2>6
  <2> QED BY <2>7 DEF P
<1> QED BY <1>2, <1>4

-----------------------------------------------------------------------------
\* Then each claim gets its placeholder.
Mints(v, claims, len, f) ==
    /\ f[0] = v
    /\ \A i \in 1 .. len :
         f[i] = IF \E c \in claims : c.start = i
                THEN Tokenize(f[i - 1], Starting(claims, i).rule.value, Starting(claims, i).rule.type)
                ELSE f[i - 1]
    /\ \A i \in 0 .. len : f[i] \in Vaults
    /\ MintFor(v, claims, len) = f[len]

\* Minting for the claims, one place at a time.
LEMMA Minting ==
    ASSUME NEW v, VaultOK(v), NEW claims, \A c \in claims : c.rule \in Secrets, NEW len \in Nat
    PROVE  \E f : Mints(v, claims, len, f)
<1> DEFINE n == len
           S == Vaults
           Onward(i, before) == IF \E c \in claims : c.start = i
                              THEN Tokenize(before, Starting(claims, i).rule.value, Starting(claims, i).rule.type)
                              ELSE before
           Run(h) == h = [i \in 0 .. n |-> IF i = 0 THEN v ELSE Onward(i, h[i - 1])]
           g == [p \in (0 + 1 .. n) \X S |-> Onward(p[1], p[2])]
<1>0. n \in Nat
  OBVIOUS
<1>1. ASSUME NEW i \in 1 .. n, NEW before \in S PROVE Onward(i, before) \in S
  <2>1. CASE \E c \in claims : c.start = i
    <3> DEFINE s == Starting(claims, i).rule
    <3>1. s \in Secrets
      <4>1. Starting(claims, i) \in claims
        BY <2>1 DEF Starting
      <4> QED BY <4>1
    <3>2. Onward(i, before) = Tokenize(before, s.value, s.type)
      BY <2>1
    <3> HIDE DEF s, Onward
    <3>3. VaultOK(before)
      BY AreVaults
    <3>4. VaultOK(Tokenize(before, s.value, s.type))
      BY <3>1, <3>3, Tokenizing
    <3> QED BY <3>2, <3>4, AreVaults
  <2>2. CASE ~\E c \in claims : c.start = i
    <3>1. Onward(i, before) = before
      BY <2>2
    <3> QED BY <3>1
  <2> QED BY <2>1, <2>2
<1>2. v \in S
  BY AreVaults
<1>3. g \in [(0 + 1 .. n) \X S -> S]
  <2>1. \A i \in 0 + 1 .. n : i \in 1 .. n
    OBVIOUS
  <2> HIDE DEF Onward, S, n
  <2>2. \A p \in (0 + 1 .. n) \X S : Onward(p[1], p[2]) \in S
    BY <1>1, <2>1
  <2> QED BY <2>2
<1>4. PICK h0 \in [0 .. n -> S] : Iterates(0, n, v, g, h0)
  <2>1. 0 <= n /\ n \in Int /\ 0 \in Int
    BY <1>0
  <2> HIDE DEF g, S, n
  <2> QED BY <1>2, <1>3, <2>1, Iterating
<1>5. Run(h0)
  <2> DEFINE A(i) == IF i = 0 THEN v ELSE g[<<i, h0[i - 1]>>]
             B(i) == IF i = 0 THEN v ELSE Onward(i, h0[i - 1])
  <2>1. h0 = [i \in 0 .. n |-> A(i)]
    BY <1>4 DEF Iterates
  <2>2. ASSUME NEW i \in 0 .. n PROVE A(i) = B(i)
    <3>1. CASE i = 0
      BY <3>1
    <3>2. CASE i # 0
      <4>1. i \in 0 + 1 .. n /\ i - 1 \in 0 .. n
        BY <1>0, <3>2
      <4> HIDE DEF Onward, S
      <4>2. h0[i - 1] \in S
        BY <1>4, <4>1
      <4>3. <<i, h0[i - 1]>> \in (0 + 1 .. n) \X S
        BY <4>1, <4>2
      <4>4. g[<<i, h0[i - 1]>>] = Onward(i, h0[i - 1])
        BY <4>3
      <4> QED BY <3>2, <4>4
    <3> QED BY <3>1, <3>2
  <2>3. h0 = [i \in 0 .. n |-> B(i)]
    <3> HIDE DEF A, B
    <3> QED BY <2>1, <2>2
  <2> QED BY <2>3
<1> DEFINE h == CHOOSE k : Run(k)
<1>6. Run(h)
  <2> HIDE DEF Run
  <2> QED BY <1>5
<1>7. MintFor(v, claims, len) = h[n]
  BY DEF MintFor
<1> HIDE DEF h
<1>8. h[0] = v /\ \A i \in 1 .. n : h[i] = Onward(i, h[i - 1])
  <2> HIDE DEF Onward
  <2>1. h = [i \in 0 .. n |-> IF i = 0 THEN v ELSE Onward(i, h[i - 1])]
    BY <1>6
  <2>2. 0 \in 0 .. n /\ \A i \in 1 .. n : i \in 0 .. n /\ i # 0
    BY <1>0
  <2> HIDE DEF n
  <2> QED BY <2>1, <2>2
<1>9. \A i \in 0 .. n : h[i] \in S
  <2> DEFINE P == {i \in Int : h[i] \in S}
  <2>1. 0 \in P
    <3> HIDE DEF S
    <3> QED BY <1>2, <1>8
  <2>2. ASSUME NEW i \in 0 + 1 .. n, i - 1 \in P PROVE i \in P
    <3>1. i \in 1 .. n /\ i \in Int
      OBVIOUS
    <3> HIDE DEF Onward, S
    <3> QED BY <1>1, <1>8, <2>2, <3>1
  <2>3. 0 \in Int /\ n \in Int
    BY <1>0
  <2> HIDE DEF P, n
  <2>4. 0 .. n \subseteq P
    BY <2>1, <2>2, <2>3, Climb
  <2> QED BY <2>4 DEF P
<1>10. Mints(v, claims, len, h)
  BY <1>7, <1>8, <1>9 DEF Mints
<1> QED BY <1>10

\* What was claimed has been minted.
LEMMA MintForIs ==
    ASSUME NEW v, VaultOK(v), NEW claims, \A c \in claims : c.rule \in Secrets, StartApart(claims),
           NEW len \in Nat
    PROVE  /\ VaultOK(MintFor(v, claims, len)) /\ Grows(v, MintFor(v, claims, len))
           /\ \A c \in claims : c.start \in 1 .. len => Minted(MintFor(v, claims, len), c.rule.value)
<1>1. PICK f : Mints(v, claims, len, f)
  BY Minting
<1>2. \A i \in 0 .. len : VaultOK(f[i])
  BY <1>1, AreVaults DEF Mints
<1>3. /\ MintFor(v, claims, len) = f[len] /\ f[0] = v /\ len \in 0 .. len
      /\ \A i \in 1 .. len :
           f[i] = IF \E c \in claims : c.start = i
                  THEN Tokenize(f[i - 1], Starting(claims, i).rule.value, Starting(claims, i).rule.type)
                  ELSE f[i - 1]
  BY <1>1 DEF Mints
<1>4. ASSUME NEW i \in 1 .. len
      PROVE  /\ Grows(f[i - 1], f[i])
             /\ \A c \in claims : c.start = i => Minted(f[i], c.rule.value)
  <2>1. CASE \E c \in claims : c.start = i
    <3> DEFINE s == Starting(claims, i).rule
               u == f[i - 1]
    <3>1. Starting(claims, i) \in claims /\ Starting(claims, i).start = i
      BY <2>1 DEF Starting
    <3>2. s \in Secrets /\ \A c \in claims : c.start = i => c.rule = s
      BY <3>1 DEF StartApart
    <3>3. f[i] = Tokenize(u, s.value, s.type)
      BY <1>3, <2>1
    <3>4. VaultOK(u)
      <4>1. i - 1 \in 0 .. len
        OBVIOUS
      <4> QED BY <1>2, <4>1
    <3> HIDE DEF s, u
    <3>5. Grows(u, f[i]) /\ Minted(f[i], s.value)
      BY <3>2, <3>3, <3>4, Tokenizing
    <3> QED BY <3>2, <3>5 DEF u
  <2>2. CASE ~\E c \in claims : c.start = i
    <3>1. f[i] = f[i - 1]
      BY <1>3, <2>2
    <3> QED BY <2>2, <3>1 DEF Grows
  <2> QED BY <2>1, <2>2
<1>5. ASSUME NEW k \in 0 .. len PROVE Grows(f[k], f[len])
  <2> DEFINE P == {i \in Int : Grows(f[k], f[i])}
  <2>1. k \in P
    BY DEF Grows
  <2>2. ASSUME NEW i \in k + 1 .. len, i - 1 \in P PROVE i \in P
    <3>1. i \in 1 .. len /\ i \in Int
      OBVIOUS
    <3>2. Grows(f[k], f[i - 1]) /\ Grows(f[i - 1], f[i])
      BY <1>4, <2>2, <3>1
    <3> QED BY <3>1, <3>2 DEF Grows
  <2>3. k \in Int /\ len \in Int /\ len \in k .. len
    OBVIOUS
  <2> HIDE DEF P
  <2>4. k .. len \subseteq P
    BY <2>1, <2>2, <2>3, Climb
  <2> QED BY <2>3, <2>4 DEF P
<1>6. Grows(v, f[len]) /\ VaultOK(f[len])
  <2>1. 0 \in 0 .. len
    OBVIOUS
  <2> QED BY <1>2, <1>3, <1>5, <2>1
<1>7. ASSUME NEW c \in claims, c.start \in 1 .. len PROVE Minted(f[len], c.rule.value)
  <2>1. PICK i \in 1 .. len : c.start = i
    BY <1>7
  <2>2. i \in 0 .. len
    OBVIOUS
  <2> QED BY <1>4, <1>5, <2>1, <2>2 DEF Grows
<1> QED BY <1>3, <1>6, <1>7

-----------------------------------------------------------------------------
\* Nothing that is to be kept from the vendor is in a masked text.
MasksText(v, raw, m) ==
    /\ VaultOK(m.vault) /\ AllMinted(m.vault) /\ Grows(v, m.vault)
    /\ m.text \in Seq(Words) /\ (NoRuleOverlapsItself => ~Raw(m.text))

\* Masking a text leaves no declared and no detected value in it.
LEMMA MaskTextIs ==
    ASSUME NEW v, VaultOK(v), AllMinted(v), NEW raw \in Seq(Words)
    PROVE  MasksText(v, raw, MaskText(v, raw))
<1> DEFINE t == ApplyHints(v, raw)
           C == Detect(t)
           len == Len(t)
           m == MintFor(v, C, len)
           cuts == {Span(c.start, c.rule.value, TokenOf(m, c.rule.value)) : c \in C}
           out == Splice(t, cuts)
<1>1. MaskText(v, raw) = [vault |-> m, text |-> out]
  BY DEF MaskText
<1>2. t \in Seq(Words) /\ \A j \in 1 .. Len(Hints) : ~Occurs(t, Hints[j].value)
  BY HintsAreGone
<1> HIDE DEF t
<1>3. /\ \A c \in C : IsClaim(t, c)
      /\ StartApart(C)
      /\ NoRuleOverlapsItself =>
           \A k \in 1 .. Len(Rules), i \in 1 .. len : At(t, i, Rules[k].value) =>
             \E x \in 0 .. Len(Rules[k].value) - 1 : Covered(C, i + x)
      /\ len \in Nat /\ DOMAIN t = 1 .. len
  <2>1. len \in Nat /\ DOMAIN t = 1 .. len
    BY <1>2
  <2> QED BY <1>2, <2>1, Claiming
<1> HIDE DEF C, len
<1>4. ASSUME NEW c \in C
      PROVE  /\ c.rule \in Secrets /\ c.start \in 1 .. len
             /\ c.end = c.start + Len(c.rule.value)
  <2>1. PICK rule \in Secrets : c = Claim(rule, c.start) /\ c.start \in 1 .. Len(t)
    BY <1>3 DEF IsClaim
  <2>2. c.rule = rule /\ c.end = c.start + Len(rule.value)
    BY <2>1 DEF Claim
  <2> QED BY <2>1, <2>2 DEF len
<1>5. /\ VaultOK(m) /\ Grows(v, m)
      /\ \A c \in C : Minted(m, c.rule.value)
  <2>1. \A c \in C : c.rule \in Secrets
    BY <1>4
  <2>2. /\ VaultOK(m) /\ Grows(v, m)
        /\ \A c \in C : c.start \in 1 .. len => Minted(m, c.rule.value)
    BY <1>3, <2>1, MintForIs
  <2> HIDE DEF m
  <2> QED BY <1>4, <2>2
<1> HIDE DEF m
<1>6. ASSUME NEW c \in C
      PROVE  LET p == Span(c.start, c.rule.value, TokenOf(m, c.rule.value))
             IN  /\ p \in cuts /\ p.start = c.start /\ p.end = c.end /\ p.new = TokenOf(m, c.rule.value)
                 /\ p.start < p.end /\ p.end \in Int /\ p.start \in 1 .. len /\ Marked(p.new)
  <2> DEFINE p == Span(c.start, c.rule.value, TokenOf(m, c.rule.value))
  <2>1. p \in cuts
    OBVIOUS
  <2>2. p.start = c.start /\ p.end = c.start + Len(c.rule.value) /\ p.new = TokenOf(m, c.rule.value)
    BY DEF Span
  <2>3. Marked(TokenOf(m, c.rule.value))
    <3>1. Minted(m, c.rule.value)
      BY <1>5
    <3> QED BY <1>5, <3>1, TokenOfIs
  <2>4. Len(c.rule.value) \in Nat /\ Len(c.rule.value) > 0 /\ c.rule \in Secrets
    BY <1>4, Values
  <2> HIDE DEF p, cuts
  <2>5. p.start < p.end /\ p.end \in Int
    BY <1>3, <1>4, <2>2, <2>4
  <2>6. p.start \in 1 .. len /\ p.end = c.end /\ Marked(p.new)
    BY <1>4, <2>2, <2>3
  <2> QED BY <2>1, <2>2, <2>5, <2>6 DEF p
<1>7. CutsOut(t, cuts)
  <2>1. ASSUME NEW p \in cuts
        PROVE  p.start \in 1 .. Len(t) /\ p.end \in Int /\ p.start < p.end /\ Marked(p.new)
    <3>1. PICK c \in C : p = Span(c.start, c.rule.value, TokenOf(m, c.rule.value))
      OBVIOUS
    <3> HIDE DEF cuts
    <3> QED BY <1>6, <3>1 DEF len
  <2> HIDE DEF cuts
  <2> QED BY <2>1 DEF CutsOut
<1>8. ASSUME NEW x, Covered(C, x) PROVE Covered(cuts, x)
  <2>1. PICK c \in C : c.start <= x /\ x < c.end
    BY <1>8 DEF Covered
  <2> HIDE DEF cuts
  <2> QED BY <1>6, <2>1 DEF Covered
<1> HIDE DEF cuts
<1>9. out \in Seq(Words)
  <2>1. \A c \in cuts : c.new \in Seq(Words)
    BY <1>7 DEF CutsOut, Marked
  <2> QED BY <1>2, <2>1, Building
<1>10. ASSUME NoRuleOverlapsItself, Raw(out) PROVE FALSE
  <2>1. PICK s \in Secrets : Occurs(out, s.value)
    BY <1>10 DEF Raw
  <2> DEFINE w == s.value
  <2>2. Bare(w)
    BY ValuesAreBare
  <2>3. PICK j : Untouched(t, cuts, w, j)
    <3> HIDE DEF w
    <3>1. Occurs(Splice(t, cuts), w)
      BY <2>1 DEF w, out
    <3> QED BY <1>2, <1>7, <2>2, <3>1, SpliceKeeps
  <2>4. /\ j \in 1 .. len /\ At(t, j, w)
        /\ \A x \in 0 .. Len(w) - 1 : ~Covered(cuts, j + x)
    BY <2>3 DEF Untouched, len
  <2>5. CASE \E k \in 1 .. Len(Hints) : s = Hints[k]
    <3>1. Occurs(t, w)
      BY <1>3, <2>4 DEF Occurs
    <3> QED BY <1>2, <2>5, <3>1
  <2>6. CASE \E k \in 1 .. Len(Rules) : s = Rules[k]
    <3>1. PICK k \in 1 .. Len(Rules) : s = Rules[k]
      BY <2>6
    <3>2. PICK x \in 0 .. Len(w) - 1 : Covered(C, j + x)
      BY <1>3, <1>10, <2>4, <3>1
    <3> QED BY <1>8, <2>4, <3>2
  <2> QED BY <2>5, <2>6, Values
<1> HIDE DEF out
<1>11. AllMinted(m)
  BY <1>5 DEF AllMinted, Grows
<1> DEFINE r == [vault |-> m, text |-> out]
<1>12. r.vault = m /\ r.text = out /\ MaskText(v, raw) = r
  BY <1>1
<1> HIDE DEF r
<1>13. MasksText(v, raw, r)
  BY <1>5, <1>9, <1>10, <1>11, <1>12 DEF MasksText
<1> QED BY <1>12, <1>13

-----------------------------------------------------------------------------
\* So is a payload masked, one text after the other.
Safe == {t \in Seq(Words) : NoRuleOverlapsItself => ~Raw(t)}
Ready(v) == VaultOK(v) /\ AllMinted(v)
Loads == [vault : {v \in Vaults : AllMinted(v)}, texts : Seq(Safe)]
MasksTexts(v, texts, f) ==
    /\ f[0] = [vault |-> v, texts |-> <<>>]
    /\ \A i \in 1 .. Len(texts) :
         f[i] = [vault |-> MaskText(f[i - 1].vault, texts[i]).vault,
                 texts |-> Append(f[i - 1].texts, MaskText(f[i - 1].vault, texts[i]).text)]
    /\ \A i \in 0 .. Len(texts) : f[i] \in Loads
    /\ MaskPayload(v, texts) = f[Len(texts)]

\* Masking a payload, one text at a time.
LEMMA MaskingTexts ==
    ASSUME NEW v, Ready(v), NEW texts \in Seq(Seq(Words))
    PROVE  \E f : MasksTexts(v, texts, f)
<1> DEFINE n == Len(texts)
           S == Loads
           Onward(i, before) == [vault |-> MaskText(before.vault, texts[i]).vault,
                              texts |-> Append(before.texts, MaskText(before.vault, texts[i]).text)]
           Run(h) == h = [i \in 0 .. n |-> IF i = 0 THEN [vault |-> v, texts |-> <<>>] ELSE Onward(i, h[i - 1])]
           g == [p \in (0 + 1 .. n) \X S |-> Onward(p[1], p[2])]
<1>0. n \in Nat
  BY LenProperties
<1>1. ASSUME NEW i \in 1 .. n, NEW before \in S PROVE Onward(i, before) \in S
  <2> DEFINE u == before.vault
             m == MaskText(u, texts[i])
  <2>1. u \in Vaults /\ AllMinted(u) /\ before.texts \in Seq(Safe)
    BY DEF Loads
  <2>2. VaultOK(u)
    BY <2>1, AreVaults
  <2>3. texts[i] \in Seq(Words)
    BY ElementOfSeq
  <2>4. MasksText(u, texts[i], m)
    <3> HIDE DEF u
    <3> QED BY <2>1, <2>2, <2>3, MaskTextIs
  <2>5. Onward(i, before) = [vault |-> m.vault, texts |-> Append(before.texts, m.text)]
    OBVIOUS
  <2> HIDE DEF m, Onward, u
  <2>6. m.vault \in Vaults /\ AllMinted(m.vault) /\ m.text \in Safe
    BY <2>4, AreVaults DEF MasksText, Safe
  <2>7. Append(before.texts, m.text) \in Seq(Safe)
    <3> HIDE DEF S
    <3> QED BY <2>1, <2>6, AppendProperties
  <2> QED BY <2>5, <2>6, <2>7 DEF Loads
<1>2. [vault |-> v, texts |-> <<>>] \in S
  <2>1. v \in Vaults /\ AllMinted(v)
    BY AreVaults DEF Ready
  <2>2. <<>> \in Seq(Safe)
    OBVIOUS
  <2> QED BY <2>1, <2>2 DEF Loads
<1>3. g \in [(0 + 1 .. n) \X S -> S]
  <2>1. \A i \in 0 + 1 .. n : i \in 1 .. n
    OBVIOUS
  <2> HIDE DEF Onward, S, n
  <2>2. \A p \in (0 + 1 .. n) \X S : Onward(p[1], p[2]) \in S
    BY <1>1, <2>1
  <2> QED BY <2>2
<1>4. PICK h0 \in [0 .. n -> S] : Iterates(0, n, [vault |-> v, texts |-> <<>>], g, h0)
  <2> HIDE DEF g, S
  <2>1. 0 <= n /\ n \in Int /\ 0 \in Int
    BY <1>0
  <2> HIDE DEF n
  <2> QED BY <1>2, <1>3, <2>1, Iterating, ZenonT(60)
<1>5. Run(h0)
  <2> DEFINE A(i) == IF i = 0 THEN [vault |-> v, texts |-> <<>>] ELSE g[<<i, h0[i - 1]>>]
             B(i) == IF i = 0 THEN [vault |-> v, texts |-> <<>>] ELSE Onward(i, h0[i - 1])
  <2>1. h0 = [i \in 0 .. n |-> A(i)]
    BY <1>4 DEF Iterates
  <2>2. ASSUME NEW i \in 0 .. n PROVE A(i) = B(i)
    <3>1. CASE i = 0
      BY <3>1
    <3>2. CASE i # 0
      <4>1. i \in 0 + 1 .. n /\ i - 1 \in 0 .. n
        BY <1>0, <3>2
      <4> HIDE DEF Onward, S
      <4>2. h0[i - 1] \in S
        BY <1>4, <4>1
      <4>3. <<i, h0[i - 1]>> \in (0 + 1 .. n) \X S
        BY <4>1, <4>2
      <4>4. g[<<i, h0[i - 1]>>] = Onward(i, h0[i - 1])
        BY <4>3
      <4> QED BY <3>2, <4>4
    <3> QED BY <3>1, <3>2
  <2>3. h0 = [i \in 0 .. n |-> B(i)]
    <3> HIDE DEF A, B
    <3> QED BY <2>1, <2>2
  <2> QED BY <2>3, ZenonT(60)
<1> DEFINE h == CHOOSE k : Run(k)
<1>6. Run(h)
  <2> HIDE DEF Run
  <2> QED BY <1>5
<1>7. MaskPayload(v, texts) = h[n]
  BY DEF MaskPayload
<1> HIDE DEF h
<1>8. h[0] = [vault |-> v, texts |-> <<>>] /\ \A i \in 1 .. n : h[i] = Onward(i, h[i - 1])
  <2> HIDE DEF Onward
  <2>1. h = [i \in 0 .. n |-> IF i = 0 THEN [vault |-> v, texts |-> <<>>] ELSE Onward(i, h[i - 1])]
    BY <1>6
  <2>2. 0 \in 0 .. n /\ \A i \in 1 .. n : i \in 0 .. n /\ i # 0
    BY <1>0
  <2> HIDE DEF n
  <2> QED BY <2>1, <2>2
<1>9. \A i \in 0 .. n : h[i] \in S
  <2> DEFINE P == {i \in Int : h[i] \in S}
  <2>1. 0 \in P
    <3> HIDE DEF S
    <3> QED BY <1>2, <1>8
  <2>2. ASSUME NEW i \in 0 + 1 .. n, i - 1 \in P PROVE i \in P
    <3>1. i \in 1 .. n /\ i \in Int
      OBVIOUS
    <3> HIDE DEF Onward, S
    <3> QED BY <1>1, <1>8, <2>2, <3>1
  <2>3. 0 \in Int /\ n \in Int
    BY <1>0
  <2> HIDE DEF P, n
  <2>4. 0 .. n \subseteq P
    BY <2>1, <2>2, <2>3, Climb
  <2> QED BY <2>4 DEF P
<1>10. MasksTexts(v, texts, h)
  BY <1>7, <1>8, <1>9 DEF MasksTexts
<1> QED BY <1>10

\* So every text of a payload is safe, whatever the vault held before.
LEMMA MaskPayloadIs ==
    ASSUME NEW v, Ready(v), NEW texts \in Seq(Seq(Words))
    PROVE  Ready(MaskPayload(v, texts).vault) /\ MaskPayload(v, texts).texts \in Seq(Safe)
<1>1. PICK f : MasksTexts(v, texts, f)
  BY MaskingTexts
<1> DEFINE m == f[Len(texts)]
<1>2. MaskPayload(v, texts) = m /\ m \in Loads
  <2>1. Len(texts) \in 0 .. Len(texts)
    <3>1. Len(texts) \in Nat
      BY LenProperties
    <3> QED BY <3>1
  <2> QED BY <1>1, <2>1 DEF MasksTexts
<1> HIDE DEF m
<1>3. m.vault \in Vaults /\ AllMinted(m.vault) /\ m.texts \in Seq(Safe)
  BY <1>2 DEF Loads
<1> QED BY <1>2, <1>3, AreVaults DEF Ready

-----------------------------------------------------------------------------
\* What is read back.
ReadsBackAs(v, text, f) ==
    /\ f[0] = text
    /\ \A k \in 1 .. Len(v) : f[k] = Replace(f[k - 1], Token(v[k]), v[k].value)
    /\ \A k \in 0 .. Len(v) : f[k] \in Seq(Words)
    /\ RestoreText(v, text) = f[Len(v)]

\* Restoring, one placeholder at a time.
LEMMA ReadingBack ==
    ASSUME NEW v, VaultOK(v), NEW text \in Seq(Words)
    PROVE  \E f : ReadsBackAs(v, text, f)
<1> DEFINE n == Len(v)
           S == Seq(Words)
           Onward(k, before) == Replace(before, Token(v[k]), v[k].value)
           Run(h) == h = [k \in 0 .. n |-> IF k = 0 THEN text ELSE Onward(k, h[k - 1])]
           g == [p \in (0 + 1 .. n) \X S |-> Onward(p[1], p[2])]
<1>0. n \in Nat
  <2>1. v \in Seq(Mappings)
    BY DEF VaultOK
  <2> QED BY <2>1, LenProperties
<1>1. ASSUME NEW i \in 1 .. n, NEW before \in S PROVE Onward(i, before) \in S
  <2>1. v \in Seq(Mappings)
    BY DEF VaultOK
  <2>2. v[i] \in Mappings
    BY <2>1, ElementOfSeq
  <2> DEFINE t == Token(v[i])
             w == v[i].value
  <2>3. w \in Seq(Words)
    <3>1. w \in {s.value : s \in Secrets}
      BY <2>2 DEF Mappings
    <3> QED BY <3>1, Values
  <2> HIDE DEF t, w
  <2>4. Replace(before, t, w) \in Seq(Words)
    BY <2>3, Replacing
  <2> QED BY <2>4 DEF t, w
<1>2. text \in S
  OBVIOUS
<1>3. g \in [(0 + 1 .. n) \X S -> S]
  <2>1. \A i \in 0 + 1 .. n : i \in 1 .. n
    OBVIOUS
  <2> HIDE DEF Onward, S, n
  <2>2. \A p \in (0 + 1 .. n) \X S : Onward(p[1], p[2]) \in S
    BY <1>1, <2>1
  <2> QED BY <2>2
<1>4. PICK h0 \in [0 .. n -> S] : Iterates(0, n, text, g, h0)
  <2>1. 0 <= n /\ n \in Int /\ 0 \in Int
    BY <1>0
  <2> HIDE DEF g, S, n
  <2> QED BY <1>2, <1>3, <2>1, Iterating
<1>5. Run(h0)
  <2> DEFINE A(i) == IF i = 0 THEN text ELSE g[<<i, h0[i - 1]>>]
             B(i) == IF i = 0 THEN text ELSE Onward(i, h0[i - 1])
  <2>1. h0 = [i \in 0 .. n |-> A(i)]
    BY <1>4 DEF Iterates
  <2>2. ASSUME NEW i \in 0 .. n PROVE A(i) = B(i)
    <3>1. CASE i = 0
      BY <3>1
    <3>2. CASE i # 0
      <4>1. i \in 0 + 1 .. n /\ i - 1 \in 0 .. n
        BY <1>0, <3>2
      <4> HIDE DEF Onward, S
      <4>2. h0[i - 1] \in S
        BY <1>4, <4>1
      <4>3. <<i, h0[i - 1]>> \in (0 + 1 .. n) \X S
        BY <4>1, <4>2
      <4>4. g[<<i, h0[i - 1]>>] = Onward(i, h0[i - 1])
        BY <4>3
      <4> QED BY <3>2, <4>4
    <3> QED BY <3>1, <3>2
  <2>3. h0 = [i \in 0 .. n |-> B(i)]
    <3> HIDE DEF A, B
    <3> QED BY <2>1, <2>2
  <2> QED BY <2>3, SMTT(30)
<1> DEFINE h == CHOOSE k : Run(k)
<1>6. Run(h)
  <2> HIDE DEF Run
  <2> QED BY <1>5
<1>7. RestoreText(v, text) = h[n]
  BY DEF RestoreText
<1> HIDE DEF h
<1>8. h[0] = text /\ \A i \in 1 .. n : h[i] = Onward(i, h[i - 1])
  <2> HIDE DEF Onward
  <2>1. h = [i \in 0 .. n |-> IF i = 0 THEN text ELSE Onward(i, h[i - 1])]
    BY <1>6
  <2>2. 0 \in 0 .. n /\ \A i \in 1 .. n : i \in 0 .. n /\ i # 0
    BY <1>0
  <2> HIDE DEF n
  <2> QED BY <2>1, <2>2
<1>9. \A i \in 0 .. n : h[i] \in S
  <2> DEFINE P == {i \in Int : h[i] \in S}
  <2>1. 0 \in P
    <3> HIDE DEF S
    <3> QED BY <1>2, <1>8
  <2>2. ASSUME NEW i \in 0 + 1 .. n, i - 1 \in P PROVE i \in P
    <3>1. i \in 1 .. n /\ i \in Int
      OBVIOUS
    <3> HIDE DEF Onward, S
    <3> QED BY <1>1, <1>8, <2>2, <3>1
  <2>3. 0 \in Int /\ n \in Int
    BY <1>0
  <2> HIDE DEF P, n
  <2>4. 0 .. n \subseteq P
    BY <2>1, <2>2, <2>3, Climb
  <2> QED BY <2>4 DEF P
<1>10. ReadsBackAs(v, text, h)
  BY <1>7, <1>8, <1>9 DEF ReadsBackAs
<1> QED BY <1>10

\* Restored texts are words.
LEMMA RestoreTextIs ==
    ASSUME NEW v, VaultOK(v), NEW text \in Seq(Words)
    PROVE  RestoreText(v, text) \in Seq(Words)
<1>1. PICK f : ReadsBackAs(v, text, f)
  BY ReadingBack
<1>2. Len(v) \in 0 .. Len(v)
  <2>1. v \in Seq(Mappings)
    BY DEF VaultOK
  <2>2. Len(v) \in Nat
    BY <2>1, LenProperties
  <2> QED BY <2>2
<1> QED BY <1>1, <1>2 DEF ReadsBackAs

\* What the stream restorer holds and lets go are words.
LEMMA PushIs ==
    ASSUME NEW v, VaultOK(v), NEW held \in Seq(Words), NEW delta \in Seq(Words)
    PROVE  Push(v, held, delta).held \in Seq(Words) /\ Push(v, held, delta).out \in Seq(Words)
<1> DEFINE buf == held \o delta
           n == Len(buf)
           open == LastOpen(buf)
           cut == IF Dangles(buf) THEN open - 1 ELSE n
<1>1. buf \in Seq(Words) /\ n \in Nat
  <2>1. buf \in Seq(Words)
    BY ConcatProperties
  <2> HIDE DEF buf
  <2> QED BY <2>1, LenProperties
<1>2. Push(v, held, delta) = [held |-> SubSeq(buf, cut + 1, n), out |-> RestoreText(v, SubSeq(buf, 1, cut))]
  BY DEF Push
<1> HIDE DEF buf
<1>3. open \in 0 .. n
  <2> DEFINE I == {i \in 1 .. Len(buf) : buf[i] = Open}
  <2>1. open = IF I # {} THEN Max(I) ELSE 0
    BY DEF LastOpen, SelectLastInSeq
  <2>2. I \in SUBSET (1 .. Len(buf))
    OBVIOUS
  <2> HIDE DEF I, open
  <2>3. I # {} => Max(I) \in 1 .. Len(buf)
    BY <1>1, <2>2, LargestIn
  <2> QED BY <1>1, <2>1, <2>3
<1>4. cut \in 0 .. n
  <2>1. Dangles(buf) => open > 0
    BY DEF Dangles
  <2> HIDE DEF open, n
  <2> QED BY <1>1, <1>3, <2>1
<1> HIDE DEF cut
<1>5. ASSUME NEW a \in Int, NEW b \in Int, 1 <= a, b <= n PROVE SubSeq(buf, a, b) \in Seq(Words)
  <2>1. \A i \in a .. b : buf[i] \in Words
    <3>1. \A i \in a .. b : i \in 1 .. n
      BY <1>1, <1>5
    <3>2. \A i \in 1 .. n : buf[i] \in Words
      BY <1>1, ElementOfSeq
    <3> QED BY <3>1, <3>2
  <2> QED BY <2>1, SubSeqProperties
<1>6. SubSeq(buf, cut + 1, n) \in Seq(Words) /\ SubSeq(buf, 1, cut) \in Seq(Words)
  <2>1. cut + 1 \in Int /\ 1 <= cut + 1 /\ n \in Int /\ n <= n /\ 1 \in Int /\ 1 <= 1 /\ cut \in Int /\ cut <= n
    BY <1>1, <1>4
  <2> HIDE DEF n
  <2> QED BY <1>5, <2>1
<1> DEFINE o == SubSeq(buf, 1, cut)
           h == SubSeq(buf, cut + 1, n)
<1>7. h \in Seq(Words) /\ RestoreText(v, o) \in Seq(Words)
  <2>1. o \in Seq(Words) /\ h \in Seq(Words)
    BY <1>6
  <2> HIDE DEF o, h
  <2> QED BY <2>1, RestoreTextIs
<1>8. Push(v, held, delta).held = h /\ Push(v, held, delta).out = RestoreText(v, o)
  <2> DEFINE p == [held |-> h, out |-> RestoreText(v, o)]
  <2>1. p.held = h /\ p.out = RestoreText(v, o)
    OBVIOUS
  <2>2. Push(v, held, delta) = p
    BY <1>2
  <2> HIDE DEF p, o, h
  <2> QED BY <2>1, <2>2
<1> QED BY <1>7, <1>8

-----------------------------------------------------------------------------
(* The policy, and the words of a conversation. *)

\* The stricter of company and agent wins.
LEMMA Ranking ==
    /\ \A p : Known(p) <=> p \in {"off", "detect-only", "enforce", "strict"}
    /\ Rank("off") = 1 /\ Rank("detect-only") = 2 /\ Rank("enforce") = 3 /\ Rank("strict") = 4
<1>1. /\ DOMAIN Ladder = 1 .. 4 /\ Ladder[1] = "off" /\ Ladder[2] = "detect-only"
      /\ Ladder[3] = "enforce" /\ Ladder[4] = "strict"
  BY DEF Ladder
<1>2. \A i : i \in 1 .. 4 <=> i = 1 \/ i = 2 \/ i = 3 \/ i = 4
  OBVIOUS
<1>3. \A p : Known(p) <=> p \in {"off", "detect-only", "enforce", "strict"}
  BY <1>1, <1>2 DEF Known, Range
<1>4. \A p : Rank(p) = CHOOSE i \in 1 .. 4 : Ladder[i] = p
  BY <1>1 DEF Rank
<1>5. \A i \in 1 .. 4 : Rank(Ladder[i]) = i
  <2>1. \A i, j \in 1 .. 4 : Ladder[i] = Ladder[j] => i = j
    BY <1>1, <1>2
  <2> QED BY <1>4, <2>1
<1> QED BY <1>1, <1>2, <1>3, <1>5

\* If company or agent ask for enforce or strict, the policy in force fails closed.
LEMMA StrictestWins ==
    ASSUME \E p \in {config.company, config.agent} : FailsClosed(p)
    PROVE  /\ FailsClosed(Policy) /\ IsActive(Policy)
           /\ AllowVision(Policy, config.hatch) => config.hatch /\ "strict" \notin {config.company, config.agent}
<1> DEFINE a == config.company
           b == config.agent
           d == DefaultPolicy(config.env)
           base == IF Known(a) THEN a ELSE d
<1>1. Policy = IF Known(b) THEN Stricter(base, b) ELSE base
  BY DEF Policy, ResolvePolicy
<1>2. Known(d)
  BY Ranking DEF DefaultPolicy
<1> HIDE DEF d
<1>3. /\ FailsClosed(a) \/ FailsClosed(b)
      /\ FailsClosed(a) => Known(a)
      /\ FailsClosed(b) => Known(b)
      /\ "strict" \in {a, b} => a = "strict" \/ b = "strict"
      /\ Known("strict")
  BY Ranking DEF FailsClosed
<1>4. ASSUME NEW x, NEW y, Known(x), Known(y)
      PROVE  /\ FailsClosed(x) \/ FailsClosed(y) => FailsClosed(Stricter(x, y))
             /\ x = "strict" \/ y = "strict" => Stricter(x, y) = "strict"
  BY <1>4, Ranking DEF FailsClosed, Stricter
<1>5. Known(base) /\ (Known(a) => base = a)
  BY <1>2
<1> HIDE DEF base, a, b
<1>6. FailsClosed(Policy) /\ ("strict" \in {a, b} => Policy = "strict")
  BY <1>1, <1>3, <1>4, <1>5
<1> QED BY <1>6 DEF FailsClosed, IsActive, AllowVision, a, b

\* A request goes out masked, or not at all, unless the policy does not fail closed.
LEMMA MaskingsAre ==
    ASSUME Ready(vault), NEW texts \in Seq(Seq(Words)), NEW m \in Maskings(texts)
    PROVE  Ready(m.vault) /\ (FailsClosed(Policy) /\ m.ok => m.texts \in Seq(Safe))
<1> DEFINE masked == MaskPayload(vault, texts)
           w == masked.vault
           ts == masked.texts
<1>1. Ready(w) /\ ts \in Seq(Safe)
  BY MaskPayloadIs
<1>2. \/ m = Masking(TRUE, vault, texts) /\ ~FailsClosed(Policy)
      \/ m = Masking(TRUE, w, ts)
      \/ m = Masking(FALSE, vault, <<>>)
  BY DEF Maskings, FailsClosed, IsActive
<1> HIDE DEF w, ts
<1> QED BY <1>1, <1>2 DEF Masking

-----------------------------------------------------------------------------
\* What is said is words.
Chatty(W, ms) == IsList(ms) /\ \A i \in Indices(ms) : ms[i].text \in Seq(W)

\* A function on the first numbers is a list.
LEMMA ListFrom ==
    ASSUME NEW n \in Nat, NEW f, f = [i \in 1 .. n |-> f[i]]
    PROVE  IsList(f) /\ Len(f) = n /\ Indices(f) = 1 .. n
<1>1. f \in [1 .. n -> {f[i] : i \in 1 .. n}]
  OBVIOUS
<1>2. f \in Seq({f[i] : i \in 1 .. n})
  BY <1>1, SeqDef
<1>3. Len(f) \in Nat /\ DOMAIN f = 1 .. Len(f) /\ DOMAIN f = 1 .. n
  BY <1>2, LenProperties
<1>4. Len(f) = n
  <2>1. Len(f) <= n
    BY <1>3
  <2>2. n <= Len(f)
    BY <1>3
  <2> QED BY <1>3, <2>1, <2>2
<1> QED BY <1>4 DEF IsList, Indices

\* The texts of a chat.
LEMMA ChatTexts ==
    ASSUME NEW W, NEW ms, Chatty(W, ms)
    PROVE  TextsOf(ms) \in Seq(Seq(W))
<1>1. Len(ms) \in Nat /\ DOMAIN ms = 1 .. Len(ms) /\ \A i \in 1 .. Len(ms) : ms[i].text \in Seq(W)
  BY ListIsSeq DEF Chatty, Indices, IsList
<1>2. TextsOf(ms) \in [1 .. Len(ms) -> Seq(W)]
  BY <1>1 DEF TextsOf
<1> QED BY <1>1, <1>2, SeqDef

\* A message more.
LEMMA MoreIsSaid ==
    ASSUME NEW W, NEW ms, Chatty(W, ms), NEW m, m.text \in Seq(W)
    PROVE  Chatty(W, Append(ms, m))
<1> DEFINE q == Append(ms, m)
<1>1. /\ IsList(q) /\ Len(q) = Len(ms) + 1
      /\ \A i \in Indices(ms) : q[i] = ms[i]
      /\ q[Len(ms) + 1] = m
  BY AppendList DEF Chatty
<1> HIDE DEF q
<1>2. \A i \in Indices(q) : i \in Indices(ms) \/ i = Len(ms) + 1
  BY <1>1 DEF Indices, Chatty, IsList
<1>3. Chatty(W, q)
  BY <1>1, <1>2 DEF Chatty
<1> QED BY <1>3 DEF q

\* Balancing the tool turns only leaves messages out.
LEMMA BalanceIsChat ==
    ASSUME NEW W, NEW ms, Chatty(W, ms)
    PROVE  Chatty(W, BalanceToolTurns(ms))
<1> DEFINE n == Len(ms)
           ps == [i \in DOMAIN ms |-> Pruned(ms[i], ms)]
           bs == NotEmpty(ps)
<1>1. n \in Nat /\ DOMAIN ms = 1 .. n /\ \A i \in 1 .. n : ms[i].text \in Seq(W)
  BY ListIsSeq DEF Chatty, Indices, IsList
<1>2. \A i \in 1 .. n : ps[i].text = ms[i].text
  BY <1>1 DEF Pruned, Message
<1>3. ps = [i \in 1 .. n |-> ps[i]]
  BY <1>1
<1>4. BalanceToolTurns(ms) = bs
  BY DEF BalanceToolTurns
<1> HIDE DEF ps
<1>5. IsList(ps) /\ Len(ps) = n
  <2> HIDE DEF n
  <2> QED BY <1>1, <1>3, ListFrom
<1>6. PICK at : Keeps(ps, n, bs, at)
  BY <1>5, NotEmptyKeeps
<1> HIDE DEF bs
<1>7. Chatty(W, bs)
  BY <1>1, <1>2, <1>6 DEF Keeps, Chatty
<1> QED BY <1>4, <1>7

\* A part of a chat.
LEMMA PartIsChat ==
    ASSUME NEW W, NEW ms, Chatty(W, ms), NEW a \in Nat \ {0}, NEW b \in Nat, a <= b + 1, b <= Len(ms)
    PROVE  Chatty(W, SubSeq(ms, a, b))
<1> DEFINE q == SubSeq(ms, a, b)
<1>1. IsList(q) /\ Len(q) = b - a + 1 /\ \A i \in 1 .. b - a + 1 : q[i] = ms[a + i - 1]
  BY SubList DEF Chatty
<1> HIDE DEF q
<1>2. ASSUME NEW i \in Indices(q) PROVE q[i].text \in Seq(W)
  <2>1. i \in 1 .. b - a + 1
    BY <1>1 DEF Indices
  <2>2. a + i - 1 \in 1 .. Len(ms)
    BY <2>1 DEF Chatty, IsList
  <2> QED BY <1>1, <2>1, <2>2 DEF Chatty, Indices
<1>3. Chatty(W, q)
  BY <1>1, <1>2 DEF Chatty
<1> QED BY <1>3 DEF q

\* What a window keeps is a number.
LEMMA KeepIs == config \in Configs => config.keep \in Nat
BY ChatTurnAssumption DEF ChatTurnAssumption

\* The last messages.
LEMMA LastIsChat ==
    ASSUME NEW W, config \in Configs, NEW ms, Chatty(W, ms), ~(Len(ms) <= config.keep)
    PROVE  Chatty(W, LastOnes(ms, config.keep))
<1>1. config.keep \in Nat /\ Len(ms) \in Nat
  BY KeepIs DEF Chatty, IsList
<1>2. /\ Len(ms) - config.keep + 1 \in Nat \ {0} /\ Len(ms) - config.keep + 1 <= Len(ms) + 1
      /\ Len(ms) <= Len(ms)
  BY <1>1
<1> QED BY <1>1, <1>2, PartIsChat DEF LastOnes

\* What a window leaves.
LEMMA WindowIsChat ==
    ASSUME NEW W, config \in Configs, NEW ms, Chatty(W, ms)
    PROVE  Chatty(W, Managed(ms))
<1>1. Chatty(W, Slide(ms))
  BY LastIsChat, BalanceIsChat DEF Slide
<1> QED BY <1>1 DEF Managed

\* A list with a message put before it.
LEMMA HeadedIsChat ==
    ASSUME NEW W, NEW w, Chatty(W, w), NEW m, m.text \in Seq(W)
    PROVE  Chatty(W, <<m>> \o w)
<1> DEFINE all == <<m>> \o w
<1>1. IsList(w) /\ Len(w) \in Nat /\ \A i \in 1 .. Len(w) : w[i].text \in Seq(W)
  BY DEF Chatty, IsList, Indices
<1>2. IsList(all) /\ Len(all) = Len(w) + 1 /\ all[1] = m /\ \A i \in Indices(w) : all[i + 1] = w[i]
  <2>1. IsList(w)
    BY <1>1
  <2> DEFINE n == Len(w)
  <2>2. n \in Nat /\ Indices(w) = 1 .. n
    BY <1>1 DEF Indices
  <2>3. IsList(all) /\ Len(all) = n + 1 /\ all[1] = m /\ \A i \in Indices(w) : all[i + 1] = w[i]
    BY <2>1, <2>2, AfterOne
  <2> QED BY <2>3
<1> HIDE DEF all
<1>3. ASSUME NEW i \in Indices(all) PROVE all[i].text \in Seq(W)
  <2>1. CASE i = 1
    BY <1>2, <2>1
  <2>2. CASE i # 1
    <3>1. i \in 1 .. Len(w) + 1
      BY <1>2 DEF Indices
    <3>2. PICK j \in 1 .. Len(w) : i = j + 1
      <4>1. i - 1 \in 1 .. Len(w) /\ i = (i - 1) + 1
        BY <1>1, <2>2, <3>1
      <4> QED BY <4>1
    <3> QED BY <1>1, <1>2, <3>2 DEF Indices
  <2> QED BY <2>1, <2>2
<1>4. Chatty(W, all)
  BY <1>2, <1>3 DEF Chatty
<1> QED BY <1>4 DEF all

\* What a summary leaves.
LEMMA SummaryIsChat ==
    ASSUME NEW W, config \in Configs, NEW ms, Chatty(W, ms), Len(ms) > config.keep
    PROVE  Chatty(W, Summarized(ms))
<1> DEFINE n == Len(ms)
           head == HeadOf(ms)
           s == Summary(head)
           end == LastOnes(ms, config.keep)
           all == <<s>> \o end
<1>1. config.keep \in Nat /\ n \in Nat /\ ~(n <= config.keep)
  BY KeepIs DEF Chatty, IsList
<1>2. Chatty(W, end)
  BY <1>1, LastIsChat
<1>3. Chatty(W, head)
  <2>1. n - config.keep \in Nat /\ 1 <= n - config.keep + 1 /\ n - config.keep <= Len(ms) /\ 1 \in Nat \ {0}
    BY <1>1
  <2> HIDE DEF n
  <2>2. HeadOf(ms) = SubSeq(ms, 1, n - config.keep)
    BY DEF HeadOf, n
  <2> QED BY <2>1, <2>2, PartIsChat
<1>4. s.text \in Seq(W)
  <2> DEFINE ts == TextsOf(head)
  <2>1. ts \in Seq(Seq(W))
    <3> HIDE DEF head
    <3> QED BY <1>3, ChatTexts
  <2>2. s.text = FlattenSeq(ts)
    BY DEF Summary, Flat, Message
  <2> HIDE DEF ts, s, head
  <2>3. IsList(ts) /\ \A i \in 1 .. Len(ts) : ts[i] \in Seq(W)
    BY <2>1, ListIsSeq DEF Indices
  <2>4. PICK f : Joins(W, ts, f)
    BY <2>3, Joining
  <2>5. Len(ts) \in 0 .. Len(ts)
    <3>1. Len(ts) \in Nat
      BY <2>3 DEF IsList
    <3> QED BY <3>1
  <2> QED BY <2>2, <2>4, <2>5 DEF Joins
<1> HIDE DEF s, end
<1>5. Chatty(W, all)
  BY <1>2, <1>4, HeadedIsChat
<1>6. Summarized(ms) = BalanceToolTurns(all)
  BY DEF Summarized, s, end
<1> HIDE DEF all
<1> QED BY <1>5, <1>6, BalanceIsChat

\* What was stored and is resumed.
LEMMA ResumedIsChat ==
    ASSUME NEW W, NEW ms, Chatty(W, ms)
    PROVE  Chatty(W, FromStored(ToStored(ms)))
<1> DEFINE rs == FromStored(ToStored(ms))
           n == Len(ms)
<1>1. n \in Nat /\ DOMAIN ms = 1 .. n /\ \A i \in 1 .. n : ms[i].text \in Seq(W)
  BY ListIsSeq DEF Chatty, Indices, IsList
<1>2. rs = [i \in 1 .. n |-> rs[i]] /\ \A i \in 1 .. n : rs[i].text = ms[i].text
  <2> DEFINE tools(m) == m.uses \cup m.results # {}
             back(m) == [m EXCEPT !.flat = ~tools(m)]
  <2>1. rs = [i \in 1 .. n |-> back(ms[i])]
    BY <1>1 DEF FromStored, ToStored
  <2>2. \A m : back(m).text = m.text
    BY DEF tools
  <2> HIDE DEF rs, back
  <2> QED BY <2>1, <2>2
<1> HIDE DEF rs
<1>3. IsList(rs) /\ Indices(rs) = 1 .. n
  <2> HIDE DEF n
  <2> QED BY <1>1, <1>2, ListFrom
<1>4. Chatty(W, rs)
  BY <1>1, <1>2, <1>3 DEF Chatty
<1> QED BY <1>4 DEF rs

-----------------------------------------------------------------------------
\* A call holds words, and is sent to the summarizer with more than the window.
TypedCall(r) ==
    /\ IsCall(r) /\ Chatty(Words, r.input)
    /\ r.reply \in Seq(Words) /\ r.held \in Seq(Words) /\ r.shown \in Seq(Words) /\ r.at \in Nat
    /\ r.pc = "summary" => Len(r.input) > config.keep

Typed == Chatty(Words, messages) /\ DOMAIN call = Calls /\ \A c \in Calls : TypedCall(call[c])

\* Inputs and fixed texts are words.
LEMMA WordsOfTypes ==
    /\ \A t \in Seq(STRING) : t \in Seq(Words)
    /\ <<>> \in Seq(Words) /\ <<"w">> \in Seq(Words) /\ <<Open>> \in Seq(Words)
    /\ Chatty(Words, <<>>)
<1>1. \A w \in STRING : w \in Words
  BY DEF Words
<1>2. ASSUME NEW t \in Seq(STRING) PROVE t \in Seq(Words)
  <2>1. Len(t) \in Nat /\ t = [i \in 1 .. Len(t) |-> t[i]] /\ \A i \in 1 .. Len(t) : t[i] \in STRING
    OBVIOUS
  <2>2. t \in [1 .. Len(t) -> Words]
    BY <1>1, <2>1
  <2> QED BY <2>1, <2>2, SeqDef
<1>3. <<>> \in Seq(Words) /\ <<"w">> \in Seq(Words) /\ <<Open>> \in Seq(Words)
  <2>1. "w" \in Words /\ Open \in Words
    BY DEF Words
  <2> DEFINE w == "w"
             o == Open
  <2>2. w \in Words /\ o \in Words
    BY <2>1
  <2> HIDE DEF w, o
  <2>3. <<>> \in Seq(Words) /\ <<w>> \in Seq(Words) /\ <<o>> \in Seq(Words)
    BY <2>2
  <2> QED BY <2>3 DEF w, o
<1>4. Chatty(Words, <<>>)
  <2>1. IsList(<<>>) /\ Indices(<<>>) = {}
    BY DEF IsList, Indices
  <2> QED BY <2>1 DEF Chatty
<1> QED BY <1>2, <1>3, <1>4

\* A call that begins, or that has ended.
LEMMA RestTyped ==
    TypedCall(Waiting) /\ TypedCall(Over("done")) /\ TypedCall(Over("failed")) /\ TypedCall(Over("refused"))
<1>1. IsCall(Waiting) /\ \A how : IsCall(Over(how))
  BY DEF IsCall, CallFields, Waiting, Over
<1>2. \A r \in {Waiting, Over("done"), Over("failed"), Over("refused")} :
        r.input = <<>> /\ r.reply = <<>> /\ r.held = <<>> /\ r.shown = <<>> /\ r.at = 0 /\ r.pc # "summary"
  BY DEF Waiting, Over
<1>3. ASSUME NEW r, IsCall(r), r.input = <<>>, r.reply = <<>>, r.held = <<>>, r.shown = <<>>, r.at = 0,
             r.pc # "summary"
      PROVE  TypedCall(r)
  BY <1>3, WordsOfTypes DEF TypedCall
<1>4. \A r \in {Waiting, Over("done"), Over("failed"), Over("refused")} : TypedCall(r)
  BY <1>1, <1>2, <1>3
<1> QED BY <1>4

\* One call goes on, the others stay.
LEMMA BecomingTyped ==
    ASSUME Typed, config' = config, Chatty(Words, messages'), NEW c \in Calls, NEW r, TypedCall(r), Becomes(c, r)
    PROVE  Typed'
BY DEF Typed, Becomes, TypedCall

\* A call that returns its reply, and says it if it is a send.
LEMMA ReturnTyped ==
    ASSUME Typed, config' = config, NEW c \in Calls, Returned(c)
    PROVE  Typed'
<1>1. Becomes(c, Over("done"))
  BY DEF Returned
<1>2. Chatty(Words, messages')
  <2>1. Chatty(Words, messages) /\ call[c].shown \in Seq(Words)
    BY DEF Typed, TypedCall
  <2>2. CASE call[c].kind = "send"
    <3> DEFINE m == Flat("assistant", call[c].shown, {<<c, "assistant">>})
    <3>1. messages' = Append(messages, m)
      BY <2>2 DEF Returned
    <3>2. m.text \in Seq(Words)
      BY <2>1 DEF Flat, Message
    <3> HIDE DEF m
    <3> QED BY <2>1, <3>1, <3>2, MoreIsSaid
  <2>3. CASE call[c].kind # "send"
    BY <2>1, <2>3 DEF Returned, Kept
  <2> QED BY <2>2, <2>3
<1> QED BY <1>1, <1>2, RestTyped, BecomingTyped

\* A call that is refused.
LEMMA RefusalTyped ==
    ASSUME Typed, config' = config, NEW c \in Calls, TurnedDown(c)
    PROVE  Typed'
<1>1. CASE Returned(c)
  BY <1>1, ReturnTyped
<1>2. CASE ~Returned(c)
  <2>1. Becomes(c, Over("refused")) /\ messages' = messages
    BY <1>2 DEF TurnedDown, Kept
  <2>2. Chatty(Words, messages')
    BY <2>1 DEF Typed
  <2> QED BY <2>1, <2>2, RestTyped, BecomingTyped
<1> QED BY <1>1, <1>2

\* A call that goes on with what it has.
LEMMA GoesOnTyped ==
    ASSUME Typed, config' = config, messages' = messages, NEW c \in Calls, NEW r, Becomes(c, r),
           IsCall(call[c]) => IsCall(r) /\ \A f \in {"input", "reply", "held", "shown", "at"} : r[f] = call[c][f],
           r.pc = "summary" => call[c].pc = "summary"
    PROVE  Typed'
<1>1. TypedCall(call[c]) /\ Chatty(Words, messages')
  BY DEF Typed
<1>2. IsCall(r) /\ \A f \in {"input", "reply", "held", "shown", "at"} : r[f] = call[c][f]
  BY <1>1 DEF TypedCall
<1>3. /\ r.input = call[c].input /\ r.reply = call[c].reply /\ r.held = call[c].held
      /\ r.shown = call[c].shown /\ r.at = call[c].at
  BY <1>2
<1>4. TypedCall(r)
  BY <1>1, <1>2, <1>3 DEF TypedCall
<1> QED BY <1>1, <1>4, BecomingTyped

\* A screen that is passed.
LEMMA PassTyped ==
    ASSUME Typed, config' = config, NEW c \in Calls, Passes(c)
    PROVE  Typed'
<1>1. CASE Returned(c)
  BY <1>1, ReturnTyped
<1>2. CASE ~Returned(c)
  <2> DEFINE r == [call[c] EXCEPT !.judged = Judged(c), !.backend = "openai",
                                  !.pc = IF @ = "input" THEN AfterInput(c) ELSE "scope"]
  <2>1. Becomes(c, r) /\ messages' = messages
    BY <1>2 DEF Passes, Kept
  <2>2. ASSUME IsCall(call[c])
        PROVE  /\ IsCall(r) /\ \A f \in {"input", "reply", "held", "shown", "at"} : r[f] = call[c][f]
               /\ r.pc # "summary"
    BY <2>2 DEF IsCall, CallFields, AfterInput
  <2>3. IsCall(call[c])
    BY DEF Typed, TypedCall
  <2> HIDE DEF r
  <2> QED BY <2>1, <2>2, <2>3, GoesOnTyped
<1> QED BY <1>1, <1>2

\* A backend that could not tell.
LEMMA NextBackendTyped ==
    ASSUME Typed, config' = config, NEW c \in Calls, NextBackend(c)
    PROVE  Typed'
<1> DEFINE r == [call[c] EXCEPT !.backend = "llm"]
<1>1. Becomes(c, r) /\ messages' = messages
  BY DEF NextBackend, Kept
<1>2. ASSUME IsCall(call[c])
      PROVE  /\ IsCall(r) /\ \A f \in {"input", "reply", "held", "shown", "at"} : r[f] = call[c][f]
             /\ r.pc = call[c].pc
  BY <1>2 DEF IsCall, CallFields
<1>3. IsCall(call[c])
  BY DEF Typed, TypedCall
<1> HIDE DEF r
<1> QED BY <1>1, <1>2, <1>3, GoesOnTyped

\* A call that fails.
LEMMA FailureTyped ==
    ASSUME Typed, config' = config, messages' = messages, NEW c \in Calls, Fails(c)
    PROVE  Typed'
<1>1. Chatty(Words, messages')
  BY DEF Typed
<1> QED BY <1>1, RestTyped, BecomingTyped DEF Fails

-----------------------------------------------------------------------------
\* The invariant: the vault has a placeholder for what was declared, what is said
\* is words, and nothing raw leaves.
Hidden == NoRuleOverlapsItself => NothingRaw
PrivacyInv == config \in Configs /\ Ready(vault) /\ Typed /\ Hidden

\* Moderation backends and summaries are nobody's vendor call.
LEMMA ElsewhereIsFine ==
    ASSUME NEW to, to # "provider", NEW texts, NEW image, Leaves(to, texts, image)
    PROVE  Hidden'
<1>1. wire'.to = to
  BY DEF Leaves, Sending
<1> QED BY <1>1 DEF Hidden, NothingRaw

\* In a step that sends nothing, nothing leaks.
LEMMA SilenceIsFine == Silent => Hidden'
<1> SUFFICES ASSUME Silent PROVE Hidden'
  OBVIOUS
<1>1. wire'.to = "nobody"
  BY DEF Silent, Silence, Sending
<1> QED BY <1>1 DEF Hidden, NothingRaw

\* A request of the masking provider leaks nothing.
LEMMA MaskedIsFine ==
    ASSUME Ready(vault), config' = config,
           NEW texts \in Seq(Seq(Words)), NEW m \in Maskings(texts), m.ok,
           NEW image, Leaves("provider", m.texts, image), image => AllowVision(Policy, config.hatch)
    PROVE  Hidden'
<1> SUFFICES ASSUME NoRuleOverlapsItself, \E p \in {config.company, config.agent} : FailsClosed(p)
             PROVE  /\ \A i \in DOMAIN wire'.texts : ~Raw(wire'.texts[i])
                    /\ wire'.image => config.hatch /\ "strict" \notin {config.company, config.agent}
  BY DEF Hidden, NothingRaw
<1>1. FailsClosed(Policy)
  BY StrictestWins
<1>2. m.texts \in Seq(Safe)
  BY <1>1, MaskingsAre
<1> DEFINE ts == m.texts
<1>3. wire'.texts = ts /\ wire'.image = image
  BY DEF Leaves, Sending
<1>4. \A i \in DOMAIN ts : ~Raw(ts[i])
  <2>1. ts \in Seq(Safe)
    BY <1>2
  <2> HIDE DEF ts
  <2>2. \A i \in DOMAIN ts : ts[i] \in Safe
    BY <2>1
  <2> QED BY <2>2 DEF Safe
<1>5. wire'.image => config.hatch /\ "strict" \notin {config.company, config.agent}
  BY <1>3, StrictestWins
<1> QED BY <1>3, <1>4, <1>5

\* The parts of the invariant, put together again.
LEMMA Private ==
    ASSUME config \in Configs, config' = config, Ready(vault'), Typed', Hidden'
    PROVE  PrivacyInv'
BY DEF PrivacyInv, Ready, VaultOK, AllMinted, Minted

\* What is judged are words.
LEMMA JudgedIsWords ==
    ASSUME Typed, NEW c \in Calls
    PROVE  /\ Judged(c) \in Seq(Seq(Words)) /\ <<call[c].shown>> \in Seq(Seq(Words))
           /\ TextsOf(Given(c)) \in Seq(Seq(Words))
<1>1. Chatty(Words, call[c].input) /\ call[c].shown \in Seq(Words)
  BY DEF Typed, TypedCall
<1>2. TextsOf(Given(c)) \in Seq(Seq(Words))
  BY <1>1, ChatTexts DEF Given
<1> DEFINE s == call[c].shown
           T == Seq(Words)
<1>3. <<s>> \in Seq(T)
  <2>1. s \in T
    BY <1>1
  <2> HIDE DEF s, T
  <2> QED BY <2>1
<1> QED BY <1>2, <1>3 DEF Judged

-----------------------------------------------------------------------------
\* Resetting and resuming.
LEMMA ChatStaysPrivate ==
    ASSUME PrivacyInv, Reset \/ Resume
    PROVE  PrivacyInv'
<1>1. config \in Configs /\ config' = config /\ Ready(vault') /\ Hidden' /\ call' = call
  BY SilenceIsFine DEF Reset, Resume, PrivacyInv
<1>2. Chatty(Words, messages')
  <2>1. CASE Reset
    BY <2>1, WordsOfTypes DEF Reset
  <2>2. CASE Resume
    <3>1. Chatty(Words, messages) /\ messages' = FromStored(ToStored(messages))
      BY <2>2 DEF Resume, PrivacyInv, Typed
    <3> QED BY <3>1, ResumedIsChat
  <2> QED BY <2>1, <2>2
<1>3. Typed'
  BY <1>1, <1>2 DEF PrivacyInv, Typed, TypedCall
<1> QED BY <1>1, <1>3, Private

\* A call as it is accepted.
LEMMA AnalyzeTyped ==
    ASSUME NEW r, TypedCall(r), NEW ms, Chatty(Words, ms)
    PROVE  TypedCall(Analyze(r, ms))
<1> DEFINE a == Analyze(r, ms)
<1>1. IsCall(r)
  BY DEF TypedCall
<1>2. /\ IsCall(a) /\ a.input = ms /\ a.pc # "summary"
      /\ a.reply = r.reply /\ a.held = r.held /\ a.shown = r.shown /\ a.at = r.at
  BY <1>1 DEF Analyze, IsCall, CallFields
<1> HIDE DEF a
<1>3. TypedCall(a)
  BY <1>2 DEF TypedCall
<1> QED BY <1>3 DEF a

\* A send.
LEMMA SendStaysPrivate ==
    ASSUME PrivacyInv, NEW c \in Calls, NEW text \in Texts, Send(c, text)
    PROVE  PrivacyInv'
<1> DEFINE own == Flat("user", text, {<<c, "user">>})
           ms == Append(messages, own)
           r == [Waiting EXCEPT !.kind = "send"]
           s == [r EXCEPT !.pc = "summary", !.input = ms]
<1>1. config \in Configs /\ config' = config /\ Ready(vault') /\ Hidden' /\ Typed
  BY SilenceIsFine DEF Send, PrivacyInv
<1>2. messages' = Managed(ms) /\ Becomes(c, IF Triggers(ms) THEN s ELSE Analyze(r, Managed(ms)))
  BY DEF Send
<1>3. Chatty(Words, ms)
  <2>1. text \in Seq(Words)
    <3>1. text \in Seq(STRING)
      BY ChatTurnAssumption DEF ChatTurnAssumption
    <3> QED BY <3>1, WordsOfTypes
  <2>2. own.text \in Seq(Words)
    BY <2>1 DEF Flat, Message
  <2>3. Chatty(Words, messages)
    BY <1>1 DEF Typed
  <2> HIDE DEF own
  <2> QED BY <2>2, <2>3, MoreIsSaid
<1> HIDE DEF ms
<1>4. Chatty(Words, messages')
  BY <1>1, <1>2, <1>3, WindowIsChat
<1>5. TypedCall(r)
  <2>1. TypedCall(Waiting) /\ IsCall(Waiting) /\ IsCall(r)
    BY RestTyped DEF TypedCall, IsCall, CallFields, Waiting
  <2>2. /\ r.input = Waiting.input /\ r.reply = Waiting.reply /\ r.held = Waiting.held
        /\ r.shown = Waiting.shown /\ r.at = Waiting.at /\ r.pc = Waiting.pc
    BY DEF Waiting
  <2> HIDE DEF r
  <2> QED BY <2>1, <2>2 DEF TypedCall
<1>6. ASSUME Triggers(ms) PROVE TypedCall(s)
  <2>1. IsCall(r)
    BY <1>5 DEF TypedCall
  <2> HIDE DEF r
  <2>2. /\ IsCall(s) /\ s.input = ms
        /\ s.reply = r.reply /\ s.held = r.held /\ s.shown = r.shown /\ s.at = r.at
    BY <2>1 DEF IsCall, CallFields
  <2>3. Len(ms) > config.keep
    <3>1. config.keep \in Nat /\ Len(ms) \in Nat
      BY <1>1, <1>3, KeepIs DEF Chatty, IsList
    <3> QED BY <1>6, <3>1 DEF Triggers
  <2> HIDE DEF s
  <2> QED BY <1>3, <1>5, <2>2, <2>3 DEF TypedCall
<1>7. TypedCall(Analyze(r, Managed(ms)))
  <2>1. Chatty(Words, Managed(ms))
    BY <1>1, <1>3, WindowIsChat
  <2> HIDE DEF r
  <2> QED BY <1>5, <2>1, AnalyzeTyped
<1> HIDE DEF r, s
<1>8. Typed'
  <2>1. CASE Triggers(ms)
    <3>1. Becomes(c, s)
      BY <1>2, <2>1
    <3> QED BY <1>1, <1>4, <1>6, <2>1, <3>1, BecomingTyped
  <2>2. CASE ~Triggers(ms)
    <3> DEFINE a == Analyze(r, Managed(ms))
    <3>1. Becomes(c, a) /\ TypedCall(a)
      BY <1>2, <1>7, <2>2
    <3> HIDE DEF a
    <3> QED BY <1>1, <1>4, <3>1, BecomingTyped
  <2> QED BY <2>1, <2>2
<1> QED BY <1>1, <1>8, Private

\* A summary that arrives, or fails.
LEMMA SummaryStaysPrivate ==
    ASSUME PrivacyInv, NEW c \in Calls, SummaryArrives(c) \/ SummaryFails(c)
    PROVE  PrivacyInv'
<1>1. config \in Configs /\ config' = config /\ Ready(vault') /\ Hidden' /\ Typed
  BY SilenceIsFine DEF SummaryArrives, SummaryFails, PrivacyInv
<1>2. Typed'
  <2>1. CASE SummaryArrives(c)
    <3> DEFINE short == Summarized(call[c].input)
               q == call[c]
               a == Analyze(q, short)
    <3>1. messages' = short /\ Becomes(c, a) /\ q.pc = "summary"
      BY <2>1 DEF SummaryArrives
    <3>2. TypedCall(q)
      BY <1>1 DEF Typed
    <3>3. Chatty(Words, short)
      BY <1>1, <3>1, <3>2, SummaryIsChat DEF TypedCall
    <3> HIDE DEF short, q
    <3>4. TypedCall(a)
      BY <3>2, <3>3, AnalyzeTyped
    <3> HIDE DEF a
    <3> QED BY <1>1, <3>1, <3>3, <3>4, BecomingTyped
  <2>2. CASE SummaryFails(c)
    BY <1>1, <2>2, FailureTyped DEF SummaryFails
  <2> QED BY <2>1, <2>2
<1> QED BY <1>1, <1>2, Private

\* Streams and pictures, which are not part of a conversation.
LEMMA ApartStaysPrivate ==
    ASSUME PrivacyInv, NEW c \in Calls, NEW kind, NEW text \in Texts, Apart(c, kind, text)
    PROVE  PrivacyInv'
<1> DEFINE m == Flat("user", text, {})
           ms == <<m>>
           r == [Waiting EXCEPT !.kind = kind]
           a == Analyze(r, ms)
<1>1. config \in Configs /\ config' = config /\ Ready(vault') /\ Hidden' /\ Typed /\ messages' = messages
  BY SilenceIsFine DEF Apart, PrivacyInv
<1>2. Becomes(c, a) /\ Chatty(Words, messages')
  BY <1>1 DEF Apart, Typed
<1>3. Chatty(Words, ms)
  <2>1. text \in Seq(Words)
    <3>1. text \in Seq(STRING)
      BY ChatTurnAssumption DEF ChatTurnAssumption
    <3> QED BY <3>1, WordsOfTypes
  <2>2. m.text \in Seq(Words)
    BY <2>1 DEF Flat, Message
  <2> HIDE DEF m
  <2>3. ms \in Seq({m}) /\ Len(ms) = 1 /\ ms[1] = m
    OBVIOUS
  <2> HIDE DEF ms
  <2>4. IsList(ms) /\ Indices(ms) = {1}
    BY <2>3, ListIsSeq DEF Indices
  <2> QED BY <2>2, <2>3, <2>4 DEF Chatty
<1>4. TypedCall(r)
  <2>1. TypedCall(Waiting) /\ IsCall(Waiting) /\ IsCall(r)
    BY RestTyped DEF TypedCall, IsCall, CallFields, Waiting
  <2>2. /\ r.input = Waiting.input /\ r.reply = Waiting.reply /\ r.held = Waiting.held
        /\ r.shown = Waiting.shown /\ r.at = Waiting.at /\ r.pc = Waiting.pc
    BY DEF Waiting
  <2> HIDE DEF r
  <2> QED BY <2>1, <2>2 DEF TypedCall
<1> HIDE DEF ms, r
<1>5. TypedCall(a)
  BY <1>3, <1>4, AnalyzeTyped
<1> HIDE DEF a
<1>6. Typed'
  BY <1>1, <1>2, <1>5, BecomingTyped
<1> QED BY <1>1, <1>6, Private

-----------------------------------------------------------------------------
\* What a request of the masking provider leaves behind.
LEMMA AskedOf ==
    ASSUME PrivacyInv, config' = config, NEW texts \in Seq(Seq(Words)), NEW m \in Maskings(texts),
           vault' = m.vault, NEW image, image => AllowVision(Policy, config.hatch),
           IF m.ok THEN Leaves("provider", m.texts, image) ELSE Silent
    PROVE  Ready(vault') /\ Hidden'
<1>1. Ready(vault)
  BY DEF PrivacyInv
<1>2. Ready(m.vault)
  BY <1>1, MaskingsAre
<1>3. Hidden'
  <2>1. CASE m.ok
    BY <1>1, <2>1, MaskedIsFine
  <2>2. CASE ~m.ok
    BY <2>2, SilenceIsFine
  <2> QED BY <2>1, <2>2
<1>4. Ready(vault')
  BY <1>2
<1> QED BY <1>3, <1>4

\* The steps of the guard.
LEMMA ScreensStayPrivate ==
    ASSUME PrivacyInv, NEW c \in Calls,
           \/ InjectionFound(c) \/ OpenAIModerates(c) \/ ClassifierModerates(c)
           \/ ScopeChecks(c) \/ ScreensImage(c)
    PROVE  PrivacyInv'
<1>1. config \in Configs /\ Ready(vault) /\ Typed /\ Hidden
  BY DEF PrivacyInv
<1>2. ASSUME config' = config, Passes(c) \/ Flagged(c) \/ NextBackend(c) \/ TurnedDown(c) \/ NoBackend(c) \/ Returned(c)
      PROVE  Typed'
  <2>1. Passes(c) \/ TurnedDown(c) \/ NextBackend(c) \/ Returned(c)
    BY <1>2 DEF Flagged, NoBackend
  <2> QED BY <1>1, <1>2, <2>1, PassTyped, RefusalTyped, NextBackendTyped, ReturnTyped
<1>3. CASE InjectionFound(c)
  <2>1. config' = config /\ vault' = vault /\ TurnedDown(c) /\ Silent
    BY <1>3 DEF InjectionFound
  <2>2. Ready(vault')
    BY <1>1, <2>1
  <2> QED BY <1>1, <1>2, <2>1, <2>2, SilenceIsFine, Private
<1>4. CASE OpenAIModerates(c)
  <2>1. /\ config' = config /\ vault' = vault
        /\ Passes(c) \/ Flagged(c) \/ NextBackend(c)
        /\ Silent \/ Leaves("moderation", Judged(c), FALSE)
    BY <1>4 DEF OpenAIModerates
  <2>2. Hidden'
    BY <2>1, SilenceIsFine, ElsewhereIsFine
  <2>3. Ready(vault')
    BY <1>1, <2>1
  <2>4. Typed'
    BY <1>2, <2>1
  <2> QED BY <1>1, <2>1, <2>2, <2>3, <2>4, Private
<1>5. CASE ClassifierModerates(c)
  <2>1. config' = config
    BY <1>5 DEF ClassifierModerates
  <2>2. PICK m \in Maskings(Judged(c)) :
           /\ vault' = m.vault
           /\ IF m.ok THEN Leaves("provider", m.texts, FALSE) ELSE Silent
           /\ NoBackend(c) \/ (m.ok /\ (Passes(c) \/ Flagged(c)))
    BY <1>5 DEF ClassifierModerates
  <2>3. Ready(vault') /\ Hidden'
    BY <1>1, <2>1, <2>2, JudgedIsWords, AskedOf
  <2>4. Typed'
    BY <1>2, <2>1, <2>2
  <2> QED BY <1>1, <2>1, <2>3, <2>4, Private
<1>6. CASE ScopeChecks(c)
  <2>1. config' = config
    BY <1>6 DEF ScopeChecks
  <2>2. PICK m \in Maskings(<<call[c].shown>>) :
           /\ vault' = m.vault
           /\ IF m.ok THEN Leaves("provider", m.texts, FALSE) ELSE Silent
           /\ Returned(c) \/ (m.ok /\ ~Shadow /\ TurnedDown(c))
    BY <1>6 DEF ScopeChecks
  <2>3. Ready(vault') /\ Hidden'
    BY <1>1, <2>1, <2>2, JudgedIsWords, AskedOf
  <2>4. Typed'
    BY <1>2, <2>1, <2>2
  <2> QED BY <1>1, <2>1, <2>3, <2>4, Private
<1>7. CASE ScreensImage(c)
  <2> DEFINE r == [call[c] EXCEPT !.pc = "ready"]
  <2>1. /\ config' = config /\ vault' = vault /\ messages' = messages
        /\ Silent \/ Leaves("moderation", <<>>, TRUE)
        /\ Becomes(c, r) \/ Becomes(c, Over("refused"))
    BY <1>7 DEF ScreensImage, Kept
  <2>2. Hidden'
    BY <2>1, SilenceIsFine, ElsewhereIsFine
  <2>3. Ready(vault') /\ Chatty(Words, messages')
    BY <1>1, <2>1 DEF Typed
  <2>4. ASSUME IsCall(call[c])
        PROVE  /\ IsCall(r) /\ \A f \in {"input", "reply", "held", "shown", "at"} : r[f] = call[c][f]
               /\ r.pc # "summary"
    BY <2>4 DEF IsCall, CallFields
  <2>5. IsCall(call[c])
    BY <1>1 DEF Typed, TypedCall
  <2> HIDE DEF r
  <2>6. Typed'
    <3>1. CASE Becomes(c, r)
      BY <1>1, <2>1, <2>4, <2>5, <3>1, GoesOnTyped
    <3>2. CASE Becomes(c, Over("refused"))
      BY <1>1, <2>1, <2>3, <3>2, RestTyped, BecomingTyped
    <3> QED BY <2>1, <3>1, <3>2
  <2> QED BY <1>1, <2>1, <2>2, <2>3, <2>6, Private
<1> QED BY <1>3, <1>4, <1>5, <1>6, <1>7

\* Asking the vendor.
LEMMA AskStaysPrivate ==
    ASSUME PrivacyInv, NEW c \in Calls, Ask(c)
    PROVE  PrivacyInv'
<1>1. /\ config \in Configs /\ Ready(vault) /\ Typed /\ config' = config /\ messages' = messages
      /\ ~Blocked(c) /\ call[c].pc = "ready"
  BY DEF PrivacyInv, Ask, Kept
<1>2. PICK m \in Maskings(TextsOf(Given(c))) :
         /\ vault' = m.vault
         /\ IF m.ok
            THEN /\ Leaves("provider", m.texts, call[c].kind = "image")
                 /\ Becomes(c, [call[c] EXCEPT !.pc = "model", !.sent = m.texts, !.input = Given(c)])
            ELSE Silent /\ Fails(c)
  BY DEF Ask
<1> DEFINE image == call[c].kind = "image"
           r == [call[c] EXCEPT !.pc = "model", !.sent = m.texts, !.input = Given(c)]
<1>3. Ready(vault') /\ Hidden'
  <2>1. image => AllowVision(Policy, config.hatch)
    BY <1>1 DEF Blocked
  <2>2. IF m.ok THEN Leaves("provider", m.texts, image) ELSE Silent
    BY <1>2
  <2>3. TextsOf(Given(c)) \in Seq(Seq(Words))
    BY <1>1, JudgedIsWords
  <2> HIDE DEF image
  <2> QED BY <1>1, <1>2, <2>1, <2>2, <2>3, AskedOf
<1>4. Typed'
  <2>1. CASE m.ok
    <3>1. Becomes(c, r)
      BY <1>2, <2>1
    <3>2. ASSUME IsCall(call[c])
          PROVE  /\ IsCall(r) /\ \A f \in {"input", "reply", "held", "shown", "at"} : r[f] = call[c][f]
                 /\ r.pc # "summary"
      BY <3>2 DEF IsCall, CallFields, Given
    <3>3. IsCall(call[c])
      BY <1>1 DEF Typed, TypedCall
    <3> HIDE DEF r
    <3> QED BY <1>1, <3>1, <3>2, <3>3, GoesOnTyped
  <2>2. CASE ~m.ok
    BY <1>1, <1>2, <2>2, FailureTyped
  <2> QED BY <2>1, <2>2
<1> QED BY <1>1, <1>3, <1>4, Private

\* Replies are made of words.
LEMMA RepliesAreWords ==
    ASSUME VaultOK(vault), NEW c \in Calls, NEW text \in Replies(c)
    PROVE  text \in Seq(Words)
<1>1. \A p \in Pieces(c) : p \in Seq(Words)
  <2>1. ASSUME NEW m \in Range(vault) PROVE Token(m) \in Seq(Words)
    <3>1. vault \in Seq(Mappings)
      BY DEF VaultOK
    <3>2. m \in Mappings
      BY <3>1 DEF Range
    <3> QED BY <3>2, TokensAreMarks DEF Marked
  <2> QED BY <2>1, WordsOfTypes DEF Pieces
<1>2. PICK n \in 1 .. MaxReply : \E ps \in [1 .. n -> Pieces(c)] : text = FlattenSeq(ps)
  BY DEF Replies
<1>3. PICK ps \in [1 .. n -> Pieces(c)] : text = FlattenSeq(ps)
  BY <1>2
<1>4. n \in Nat
  BY ChatTurnAssumption DEF ChatTurnAssumption
<1>5. IsList(ps) /\ Len(ps) = n
  <2>1. ps = [i \in 1 .. n |-> ps[i]]
    OBVIOUS
  <2> QED BY <1>4, <2>1, ListFrom
<1>6. \A i \in 1 .. Len(ps) : ps[i] \in Seq(Words)
  BY <1>1, <1>5
<1>7. PICK f : Joins(Words, ps, f)
  BY <1>5, <1>6, Joining
<1>8. n \in 0 .. n
  BY <1>4
<1> QED BY <1>3, <1>5, <1>7, <1>8 DEF Joins

\* What the masking provider returns of them.
LEMMA RestoredIsWords ==
    ASSUME VaultOK(vault), NEW text \in Seq(Words)
    PROVE  Restored(text) \in Seq(Words)
BY RestoreTextIs DEF Restored

\* The vendor's answers, whole or in pieces.
LEMMA VendorStaysPrivate ==
    ASSUME PrivacyInv, NEW c \in Calls,
           \/ ImageBlocked(c) \/ VendorFails(c) \/ VendorReplies(c)
           \/ VendorStreams(c) \/ ChunkArrives(c) \/ StreamEnds(c) \/ Unscreened(c)
    PROVE  PrivacyInv'
<1>1. config \in Configs /\ config' = config /\ VaultOK(vault) /\ Ready(vault') /\ Hidden' /\ Typed
  <2>1. config' = config /\ vault' = vault /\ Silent
    BY DEF ImageBlocked, VendorFails, VendorReplies, VendorStreams, ChunkArrives, StreamEnds, Unscreened
  <2>2. config \in Configs /\ Ready(vault) /\ VaultOK(vault) /\ Typed
    BY DEF PrivacyInv, Ready
  <2> QED BY <2>1, <2>2, SilenceIsFine
<1> DEFINE q == call[c]
<1>2. TypedCall(q) /\ IsCall(q)
  BY <1>1 DEF Typed, TypedCall
<1>3. ASSUME messages' = messages, NEW r, TypedCall(r), Becomes(c, r) PROVE Typed'
  BY <1>1, <1>3, BecomingTyped DEF Typed
<1>4. CASE ImageBlocked(c) \/ VendorFails(c)
  <2>1. messages' = messages /\ Fails(c)
    BY <1>4 DEF ImageBlocked, VendorFails, Kept
  <2> QED BY <1>1, <2>1, FailureTyped, Private
<1>5. CASE VendorReplies(c)
  <2>1. PICK text \in Replies(c) : Becomes(c, [q EXCEPT !.pc = "output", !.shown = Restored(text)])
    BY <1>5 DEF VendorReplies
  <2> DEFINE s == Restored(text)
             r == [q EXCEPT !.pc = "output", !.shown = s]
  <2>2. messages' = messages /\ Becomes(c, r)
    BY <1>5, <2>1 DEF VendorReplies, Kept
  <2>3. s \in Seq(Words)
    BY <1>1, RepliesAreWords, RestoredIsWords
  <2> HIDE DEF s, q
  <2>4. /\ IsCall(r) /\ r.input = q.input /\ r.reply = q.reply /\ r.held = q.held
        /\ r.shown = s /\ r.at = q.at /\ r.pc # "summary"
    BY <1>2 DEF IsCall, CallFields
  <2> HIDE DEF r
  <2>5. TypedCall(r)
    BY <1>2, <2>3, <2>4 DEF TypedCall
  <2> QED BY <1>1, <1>3, <2>2, <2>5, Private
<1>6. CASE VendorStreams(c)
  <2>1. PICK text \in Replies(c) : Becomes(c, [q EXCEPT !.pc = "stream", !.reply = text])
    BY <1>6 DEF VendorStreams
  <2> DEFINE r == [q EXCEPT !.pc = "stream", !.reply = text]
  <2>2. messages' = messages /\ Becomes(c, r)
    BY <1>6, <2>1 DEF VendorStreams, Kept
  <2>3. text \in Seq(Words)
    BY <1>1, RepliesAreWords
  <2> HIDE DEF q
  <2>4. /\ IsCall(r) /\ r.input = q.input /\ r.reply = text /\ r.held = q.held
        /\ r.shown = q.shown /\ r.at = q.at /\ r.pc # "summary"
    BY <1>2 DEF IsCall, CallFields
  <2> HIDE DEF r
  <2>5. TypedCall(r)
    BY <1>2, <2>3, <2>4 DEF TypedCall
  <2> QED BY <1>1, <1>3, <2>2, <2>5, Private
<1>7. CASE ChunkArrives(c)
  <2>1. PICK to \in q.at + 1 .. Len(q.reply) :
           LET p == Pushed(q.held, SubSeq(q.reply, q.at + 1, to))
           IN  Becomes(c, [q EXCEPT !.at = to, !.held = p.held, !.shown = @ \o p.out])
    BY <1>7 DEF ChunkArrives
  <2> DEFINE delta == SubSeq(q.reply, q.at + 1, to)
             p == Pushed(q.held, delta)
             s == q.shown \o p.out
             r == [q EXCEPT !.at = to, !.held = p.held, !.shown = s]
  <2>2. messages' = messages /\ Becomes(c, r) /\ q.pc = "stream"
    BY <1>7, <2>1 DEF ChunkArrives, Kept
  <2>3. q.at \in Nat /\ q.reply \in Seq(Words) /\ q.held \in Seq(Words) /\ q.shown \in Seq(Words)
    BY <1>2 DEF TypedCall
  <2>4. delta \in Seq(Words) /\ to \in Nat
    <3>1. Len(q.reply) \in Nat
      BY <2>3, LenProperties
    <3>2. to \in Nat /\ \A i \in q.at + 1 .. to : i \in 1 .. Len(q.reply)
      BY <2>3, <3>1
    <3>3. \A i \in 1 .. Len(q.reply) : q.reply[i] \in Words
      BY <2>3, ElementOfSeq
    <3>4. \A i \in q.at + 1 .. to : q.reply[i] \in Words
      BY <3>2, <3>3
    <3>5. q.at + 1 \in Int /\ to \in Int
      BY <2>3, <3>2
    <3> HIDE DEF q
    <3> QED BY <3>2, <3>4, <3>5, SubSeqProperties
  <2> HIDE DEF delta, q
  <2>5. p.held \in Seq(Words) /\ p.out \in Seq(Words)
    <3>1. CASE IsActive(Policy)
      <4>1. p = Push(vault, q.held, delta)
        BY <3>1 DEF Pushed
      <4> HIDE DEF p
      <4> QED BY <1>1, <2>3, <2>4, <4>1, PushIs
    <3>2. CASE ~IsActive(Policy)
      <4>1. p = [held |-> <<>>, out |-> delta]
        BY <3>2 DEF Pushed
      <4>2. p.held = <<>> /\ p.out = delta
        BY <4>1
      <4> HIDE DEF p
      <4> QED BY <2>4, <4>2, WordsOfTypes
    <3> QED BY <3>1, <3>2
  <2> HIDE DEF p
  <2>6. s \in Seq(Words)
    BY <2>3, <2>5, ConcatProperties
  <2> HIDE DEF s
  <2>7. /\ IsCall(r) /\ r.input = q.input /\ r.reply = q.reply /\ r.held = p.held
        /\ r.shown = s /\ r.at = to /\ r.pc = q.pc
    BY <1>2 DEF IsCall, CallFields
  <2> HIDE DEF r
  <2>8. TypedCall(r)
    BY <1>2, <2>2, <2>4, <2>5, <2>6, <2>7 DEF TypedCall
  <2> QED BY <1>1, <1>3, <2>2, <2>8, Private
<1>8. CASE StreamEnds(c)
  <2> DEFINE o == Flush(vault, q.held)
             s == q.shown \o o
             r == [q EXCEPT !.pc = "output", !.shown = s]
  <2>1. messages' = messages /\ Becomes(c, r)
    BY <1>8 DEF StreamEnds, Kept
  <2>2. q.held \in Seq(Words) /\ q.shown \in Seq(Words)
    BY <1>2 DEF TypedCall
  <2>3. o \in Seq(Words)
    <3> HIDE DEF q
    <3> QED BY <1>1, <2>2, RestoreTextIs DEF Flush
  <2> HIDE DEF o, q
  <2>4. s \in Seq(Words)
    BY <2>2, <2>3, ConcatProperties
  <2> HIDE DEF s
  <2>5. /\ IsCall(r) /\ r.input = q.input /\ r.reply = q.reply /\ r.held = q.held
        /\ r.shown = s /\ r.at = q.at /\ r.pc # "summary"
    BY <1>2 DEF IsCall, CallFields
  <2> HIDE DEF r
  <2>6. TypedCall(r)
    BY <1>2, <2>4, <2>5 DEF TypedCall
  <2> QED BY <1>1, <1>3, <2>1, <2>6, Private
<1>9. CASE Unscreened(c)
  <2>1. Returned(c)
    BY <1>9 DEF Unscreened
  <2> QED BY <1>1, <2>1, ReturnTyped, Private
<1> QED BY <1>4, <1>5, <1>6, <1>7, <1>8, <1>9

-----------------------------------------------------------------------------
\* The invariant at the start.
LEMMA PrivacyInitInv == ChatInit => PrivacyInv
<1> SUFFICES ASSUME ChatInit PROVE PrivacyInv
  OBVIOUS
<1>1. config \in Configs /\ vault = NewVault /\ call = [c \in Calls |-> Waiting] /\ wire = Silence
  BY DEF ChatInit
<1>2. Ready(vault)
  BY <1>1, NewVaultIs DEF Ready
<1>3. Chatty(Words, messages)
  <2>1. messages = Seeds \/ messages = <<>>
    BY DEF ChatInit
  <2>2. Chatty(Words, Seeds)
    <3>1. IsList(Seeds)
      BY SeedsAreTidy DEF Tidy
    <3>2. \A i \in Indices(Seeds) : Seeds[i].text = <<"w">> \/ Seeds[i].text = <<>>
      <4>1. Len(Seeds) = 4
        BY DEF Seeds
      <4>2. \A i \in 1 .. 4 : i = 1 \/ i = 2 \/ i = 3 \/ i = 4
        OBVIOUS
      <4>3. /\ Seeds[1].text = <<"w">> /\ Seeds[2].text = <<>>
            /\ Seeds[3].text = <<>> /\ Seeds[4].text = <<"w">>
        BY DEF Seeds, Message
      <4> QED BY <4>1, <4>2, <4>3 DEF Indices
    <3> QED BY <3>1, <3>2, WordsOfTypes DEF Chatty
  <2> QED BY <2>1, <2>2, WordsOfTypes
<1>4. Typed
  BY <1>1, <1>3, RestTyped DEF Typed
<1>5. Hidden
  <2>1. wire.to = "nobody"
    BY <1>1 DEF Silence, Sending
  <2> QED BY <2>1 DEF Hidden, NothingRaw
<1> QED BY <1>1, <1>2, <1>4, <1>5 DEF PrivacyInv

\* No step breaks it.
LEMMA PrivacyNextInv ==
    ASSUME PrivacyInv, [ChatNext]_chatVars
    PROVE  PrivacyInv'
<1>1. CASE UNCHANGED chatVars
  <2>1. UNCHANGED <<config, messages, vault, call, wire>>
    BY <1>1 DEF chatVars
  <2>2. Typed'
    BY <2>1 DEF PrivacyInv, Typed, TypedCall
  <2>3. Hidden'
    BY <2>1 DEF PrivacyInv, Hidden, NothingRaw
  <2>4. Ready(vault')
    BY <2>1 DEF PrivacyInv
  <2> QED BY <2>1, <2>2, <2>3, <2>4, Private DEF PrivacyInv
<1>2. CASE Reset \/ Resume
  BY <1>2, ChatStaysPrivate
<1>3. CASE \E c \in Calls, text \in Texts : Send(c, text) \/ AnalyzeStream(c, text) \/ AnalyzeImage(c, text)
  BY <1>3, SendStaysPrivate, ApartStaysPrivate DEF AnalyzeStream, AnalyzeImage
<1>4. ASSUME NEW c \in Calls,
             \/ SummaryArrives(c) \/ SummaryFails(c)
             \/ InjectionFound(c) \/ OpenAIModerates(c) \/ ClassifierModerates(c)
             \/ ScopeChecks(c) \/ ScreensImage(c)
             \/ Ask(c) \/ ImageBlocked(c) \/ VendorFails(c) \/ VendorReplies(c)
             \/ VendorStreams(c) \/ ChunkArrives(c) \/ StreamEnds(c) \/ Unscreened(c)
      PROVE  PrivacyInv'
  BY <1>4, SummaryStaysPrivate, ScreensStayPrivate, AskStaysPrivate, VendorStaysPrivate
<1> QED BY <1>1, <1>2, <1>3, <1>4 DEF ChatNext

(* Nothing raw leaves: in every state that is reached, if the company or   *)
(* the agent asks for enforce or strict, no text on its way to the vendor  *)
(* holds a declared value or one a rule matches, and no picture goes       *)
(* without leave, for every list of hints and of rules, every text and     *)
(* every number of calls that share the vault (firewall.py mask_text and   *)
(* mask_payload, detectors.py:167-187, masking_provider.py, policy.py:66). *)
(* The rules' values must not overlap themselves, as a word repeated would *)
(* with itself: a match that overlaps an earlier claim is dropped, and the *)
(* scan goes on behind it (detectors.py:175-184).                          *)
THEOREM NothingLeaks ==
    ASSUME NoRuleOverlapsItself
    PROVE  ChatSpec => []NothingRaw
<1>1. PrivacyInv /\ [ChatNext]_chatVars => PrivacyInv'
  BY PrivacyNextInv
<1>2. PrivacyInv => NothingRaw
  BY DEF PrivacyInv, Hidden
<1> QED BY <1>1, <1>2, PrivacyInitInv, PTL DEF ChatSpec

-----------------------------------------------------------------------------
(***************************************************************************)
(* Restoring.  A masked text is read from the left as words and            *)
(* placeholders, each standing for a word or for its value: Means(v, t, r) *)
(* says that t, so read, is r.  A text is read in one way only where       *)
(* nothing but placeholders has a closing bracket, and restore_text, which *)
(* replaces one placeholder after the other, yields that reading.  Masking *)
(* keeps it, a stream's cuts keep clear of placeholders, and a vault that  *)
(* only grows at its end changes nothing that was read before.             *)
(***************************************************************************)

(* Placeholders, and texts around them. *)

\* A text without a closing bracket, and one that is a placeholder.
Unclosed(t) == t \in Seq(Words) /\ \A k \in 1 .. Len(t) : t[k] # Close
IsToken(t) ==
    /\ t \in Seq(Words) /\ Len(t) = 4 /\ t[1] = Open /\ t[4] = Close
    /\ \A k \in 2 .. 4 : t[k] # Open
    /\ \A k \in 1 .. 3 : t[k] # Close
Piece(t) == Unclosed(t) \/ IsToken(t)

\* The placeholders of a vault are some, and differ by type and number.
LEMMA TokensAreTokens ==
    ASSUME PlaceholdersReadApart
    PROVE  /\ \A m \in Mappings : IsToken(Token(m))
           /\ \A m, o \in Mappings : Token(m) = Token(o) => m.type = o.type /\ m.n = o.n
<1>1. ASSUME NEW m \in Mappings
      PROVE  /\ m.type \notin {Open, Close} /\ ToString(m.n) \notin {Open, Close}
             /\ m.n \in 1 .. Len(Hints) + Len(Rules)
  BY DEF Mappings, PlaceholdersReadApart
<1>2. Open # Close
  BY DEF Open, Close
<1>3. ASSUME NEW m \in Mappings
      PROVE  IsToken(Token(m)) /\ Token(m)[2] = m.type /\ Token(m)[3] = ToString(m.n)
  <2> DEFINE t == Token(m)
             w2 == m.type
             w3 == ToString(m.n)
  <2>1. t \in Seq(Words)
    BY TokensAreMarks DEF Marked
  <2>2. t = <<Open, w2, w3, Close>>
    BY DEF Token
  <2>3. w2 \notin {Open, Close} /\ w3 \notin {Open, Close}
    BY <1>1
  <2> HIDE DEF w2, w3, t
  <2>4. Len(t) = 4 /\ t[1] = Open /\ t[2] = w2 /\ t[3] = w3 /\ t[4] = Close
    BY <2>2
  <2>5. IsToken(t)
    BY <1>2, <2>1, <2>3, <2>4 DEF IsToken
  <2> QED BY <2>4, <2>5 DEF t, w2, w3
<1>4. ASSUME NEW m \in Mappings, NEW o \in Mappings, Token(m) = Token(o)
      PROVE  m.type = o.type /\ m.n = o.n
  <2>1. m.type = o.type /\ ToString(m.n) = ToString(o.n)
    BY <1>3, <1>4
  <2> QED BY <1>1, <2>1 DEF PlaceholdersReadApart
<1> QED BY <1>3, <1>4

\* Two of them do not overlap.
LEMMA TokensStandApart ==
    ASSUME NEW x \in Seq(Words), NEW a, IsToken(a), NEW b, IsToken(b),
           NEW i \in 1 .. Len(x), At(x, i, a), NEW j \in 1 .. Len(x), At(x, j, b), i < j
    PROVE  i + 4 <= j
<1>1. /\ DOMAIN a = 1 .. 4 /\ DOMAIN b = 1 .. 4 /\ Len(x) \in Nat
      /\ i \in Int /\ j \in Int
  BY DEF IsToken
<1>2. x[j] = Open
  BY <1>1 DEF At, IsToken
<1>3. \A k \in 1 .. 4 : x[i + k - 1] = a[k]
  BY <1>1 DEF At
<1>4. ASSUME j < i + 4 PROVE FALSE
  <2>1. j - i + 1 \in 2 .. 4 /\ i + (j - i + 1) - 1 = j
    BY <1>1, <1>4
  <2>2. x[j] = a[j - i + 1]
    BY <1>3, <2>1
  <2> QED BY <1>2, <2>1, <2>2 DEF IsToken
<1> QED BY <1>1, <1>4

\* So a scan finds all of them.
LEMMA ScanFindsAll ==
    ASSUME NEW x \in Seq(Words), NEW tok, IsToken(tok)
    PROVE  Scan(x, tok) = {i \in 1 .. Len(x) : At(x, i, tok)}
<1>1. Len(tok) \in Nat /\ Len(tok) > 0 /\ Len(tok) = 4 /\ Len(x) \in Nat
  BY DEF IsToken
<1>2. /\ \A s \in Scan(x, tok) : s \in 1 .. Len(x) /\ At(x, s, tok)
      /\ \A i \in 1 .. Len(x) : At(x, i, tok) => \E s \in Scan(x, tok) : s <= i /\ i < s + Len(tok)
  BY <1>1, Found
<1>3. ASSUME NEW i \in 1 .. Len(x), At(x, i, tok) PROVE i \in Scan(x, tok)
  <2>1. PICK s \in Scan(x, tok) : s <= i /\ i < s + 4
    BY <1>1, <1>2, <1>3
  <2>2. s \in 1 .. Len(x) /\ At(x, s, tok)
    BY <1>2
  <2>3. s < i => s + 4 <= i
    BY <1>3, <2>2, TokensStandApart
  <2>4. s = i
    BY <1>1, <2>1, <2>2, <2>3
  <2> QED BY <2>4
<1> QED BY <1>2, <1>3

\* What becomes of a word when a placeholder is replaced.
LEMMA ReplacedAt ==
    ASSUME NEW x \in Seq(Words), NEW tok, IsToken(tok), NEW new \in Seq(Words)
    PROVE  \E cuts :
             /\ Replace(x, tok, new) = Splice(x, cuts)
             /\ \A c \in cuts : c.new \in Seq(Words)
             /\ \A i \in 1 .. Len(x) :
                  InPlace(x, cuts, i) =
                    IF At(x, i, tok) THEN new
                    ELSE IF \E s \in 1 .. Len(x) : At(x, s, tok) /\ s < i /\ i < s + 4 THEN <<>>
                    ELSE <<x[i]>>
<1> DEFINE cuts == {Span(s, tok, new) : s \in Scan(x, tok)}
<1>1. Replace(x, tok, new) = Splice(x, cuts)
  BY DEF Replace
<1>2. /\ \A c \in cuts : c.new = new /\ c.end = c.start + 4 /\ c.start \in 1 .. Len(x) /\ At(x, c.start, tok)
      /\ \A i \in 1 .. Len(x) : At(x, i, tok) => \E c \in cuts : c.start = i
  <2>1. Len(tok) = 4
    BY DEF IsToken
  <2>2. \A s : /\ Span(s, tok, new).new = new /\ Span(s, tok, new).end = s + 4
               /\ Span(s, tok, new).start = s
    BY <2>1 DEF Span
  <2>3. \A s \in Scan(x, tok) : s \in 1 .. Len(x) /\ At(x, s, tok)
    BY ScanFindsAll
  <2>4. ASSUME NEW i \in 1 .. Len(x), At(x, i, tok) PROVE \E c \in cuts : c.start = i
    <3>1. Span(i, tok, new) \in cuts
      BY <2>4, ScanFindsAll
    <3> HIDE DEF cuts
    <3> QED BY <2>2, <3>1
  <2> QED BY <2>2, <2>3, <2>4
<1> HIDE DEF cuts
<1>3. ASSUME NEW i \in 1 .. Len(x)
      PROVE  InPlace(x, cuts, i) =
                    IF At(x, i, tok) THEN new
                    ELSE IF \E s \in 1 .. Len(x) : At(x, s, tok) /\ s < i /\ i < s + 4 THEN <<>>
                    ELSE <<x[i]>>
  <2>1. CASE At(x, i, tok)
    <3>1. \E c \in cuts : c.start = i
      BY <1>2, <2>1
    <3>2. Starting(cuts, i) \in cuts
      BY <3>1 DEF Starting
    <3>3. Starting(cuts, i).new = new
      BY <1>2, <3>2
    <3> QED BY <2>1, <3>1, <3>3 DEF InPlace
  <2>2. CASE ~At(x, i, tok)
    <3>1. ~\E c \in cuts : c.start = i
      BY <1>2, <2>2
    <3>2. (\E c \in cuts : c.start < i /\ i < c.end)
            <=> \E s \in 1 .. Len(x) : At(x, s, tok) /\ s < i /\ i < s + 4
      BY <1>2
    <3> QED BY <2>2, <3>1, <3>2 DEF InPlace
  <2> QED BY <2>1, <2>2
<1>4. \A c \in cuts : c.new \in Seq(Words)
  BY <1>2
<1> QED BY <1>1, <1>3, <1>4

-----------------------------------------------------------------------------
\* Two texts, one after the other.
LEMMA JoinedAt ==
    ASSUME NEW x \in Seq(Words), NEW y \in Seq(Words)
    PROVE  /\ x \o y \in Seq(Words) /\ Len(x \o y) = Len(x) + Len(y)
           /\ Len(x) \in Nat /\ Len(y) \in Nat
           /\ \A i \in 1 .. Len(x) : (x \o y)[i] = x[i]
           /\ \A i \in 1 .. Len(y) : (x \o y)[Len(x) + i] = y[i]
<1>1. /\ x \o y \in Seq(Words)
      /\ Len(x \o y) = Len(x) + Len(y)
      /\ \A i \in 1 .. Len(x) + Len(y) : (x \o y)[i] = IF i <= Len(x) THEN x[i] ELSE y[i - Len(x)]
  BY ConcatProperties
<1>2. Len(x) \in Nat /\ Len(y) \in Nat
  BY LenProperties
<1> DEFINE z == x \o y
<1>3. ASSUME NEW i \in 1 .. Len(x) PROVE z[i] = x[i]
  <2>1. i \in 1 .. Len(x) + Len(y) /\ i <= Len(x)
    BY <1>2
  <2> HIDE DEF z
  <2> QED BY <1>1, <2>1 DEF z
<1>4. ASSUME NEW i \in 1 .. Len(y) PROVE z[Len(x) + i] = y[i]
  <2>1. Len(x) + i \in 1 .. Len(x) + Len(y) /\ ~(Len(x) + i <= Len(x)) /\ Len(x) + i - Len(x) = i
    BY <1>2
  <2> HIDE DEF z
  <2> QED BY <1>1, <2>1 DEF z
<1> QED BY <1>1, <1>2, <1>3, <1>4

\* Splices of two texts that fit together.
FitTogether(x, y, cx, cy, cz) ==
    /\ \A c \in cx \cup cy \cup cz : c.new \in Seq(Words)
    /\ \A i \in 1 .. Len(x) : InPlace(x \o y, cz, i) = InPlace(x, cx, i)
    /\ \A i \in 1 .. Len(y) : InPlace(x \o y, cz, Len(x) + i) = InPlace(y, cy, i)

\* A splice of two texts is the splices of both.
LEMMA SpliceJoin ==
    ASSUME NEW x \in Seq(Words), NEW y \in Seq(Words), NEW cx, NEW cy, NEW cz, FitTogether(x, y, cx, cy, cz)
    PROVE  Splice(x \o y, cz) = Splice(x, cx) \o Splice(y, cy)
<1> DEFINE z == x \o y
           m == Len(x)
           n == Len(y)
<1>0. /\ \A c \in cx : c.new \in Seq(Words)
      /\ \A c \in cy : c.new \in Seq(Words)
      /\ \A c \in cz : c.new \in Seq(Words)
  BY DEF FitTogether
<1>1. z \in Seq(Words) /\ Len(z) = m + n /\ m \in Nat /\ n \in Nat
  BY JoinedAt
<1> HIDE DEF z
<1>2. PICK f : Builds(x, cx, f)
  BY <1>0, Building
<1>3. PICK g : Builds(y, cy, g)
  BY <1>0, Building
<1>4. PICK h : Builds(z, cz, h)
  BY <1>0, <1>1, Building
<1>5. /\ f[0] = <<>> /\ Splice(x, cx) = f[m]
      /\ \A i \in 1 .. m : f[i] = f[i - 1] \o InPlace(x, cx, i)
      /\ \A i \in 0 .. m : f[i] \in Seq(Words)
  BY <1>2 DEF Builds
<1>6. /\ g[0] = <<>> /\ Splice(y, cy) = g[n]
      /\ \A i \in 1 .. n : g[i] = g[i - 1] \o InPlace(y, cy, i)
      /\ \A i \in 0 .. n : g[i] \in Seq(Words)
  BY <1>3 DEF Builds
<1>7. /\ h[0] = <<>> /\ Splice(z, cz) = h[m + n]
      /\ \A i \in 1 .. m + n : h[i] = h[i - 1] \o InPlace(z, cz, i)
  BY <1>1, <1>4 DEF Builds
<1>8. /\ \A i \in 1 .. m : InPlace(z, cz, i) = InPlace(x, cx, i)
      /\ \A i \in 1 .. n : InPlace(z, cz, m + i) = InPlace(y, cy, i) /\ InPlace(y, cy, i) \in Seq(Words)
  BY <1>0, Building DEF z, FitTogether
<1> HIDE DEF m, n
<1>9. h[m] = f[m]
  <2> DEFINE P == {i \in Int : h[i] = f[i]}
  <2>1. 0 \in P
    BY <1>5, <1>7
  <2>2. ASSUME NEW i \in 0 + 1 .. m, i - 1 \in P PROVE i \in P
    <3>1. i \in 1 .. m /\ i \in 1 .. m + n /\ i \in Int
      BY <1>1
    <3>2. h[i] = h[i - 1] \o InPlace(x, cx, i) /\ f[i] = f[i - 1] \o InPlace(x, cx, i)
      BY <1>5, <1>7, <1>8, <3>1
    <3> QED BY <2>2, <3>1, <3>2
  <2>3. m \in Int /\ 0 \in Int /\ m \in 0 .. m
    BY <1>1
  <2> HIDE DEF P
  <2>4. 0 .. m \subseteq P
    BY <2>1, <2>2, <2>3, Climb
  <2> QED BY <2>3, <2>4 DEF P
<1>10. ASSUME NEW b, b = f[m] PROVE h[m + n] = b \o g[n]
  <2> DEFINE P == {i \in Int : h[m + i] = b \o g[i]}
  <2>0. b \in Seq(Words)
    BY <1>1, <1>5, <1>10
  <2>1. 0 \in P
    <3>1. b \o <<>> = b
      BY <2>0, ConcatEmptySeq
    <3>2. m + 0 = m
      BY <1>1
    <3>3. h[m + 0] = h[m] /\ g[0] = <<>>
      BY <1>6, <3>2
    <3>4. h[m + 0] = b \o g[0]
      BY <1>9, <1>10, <3>1, <3>3, Zenon
    <3> QED BY <3>4
  <2>2. ASSUME NEW i \in 0 + 1 .. n, i - 1 \in P PROVE i \in P
    <3>1. i \in 1 .. n /\ m + i \in 1 .. m + n /\ i \in Int /\ i - 1 \in 0 .. n /\ (m + i) - 1 = m + (i - 1)
      BY <1>1
    <3> DEFINE p == InPlace(y, cy, i)
               a == g[i - 1]
    <3>2. p \in Seq(Words) /\ a \in Seq(Words)
      BY <1>6, <1>8, <3>1
    <3>3. h[m + i] = h[m + (i - 1)] \o p /\ g[i] = a \o p
      BY <1>6, <1>7, <1>8, <3>1
    <3>4. h[m + (i - 1)] = b \o a
      BY <2>2
    <3> HIDE DEF p, a
    <3>5. (b \o a) \o p = b \o (a \o p)
      BY <2>0, <3>2, ConcatAssociative, SMTT(30)
    <3>6. h[m + i] = b \o g[i]
      BY <3>3, <3>4, <3>5, Zenon
    <3> QED BY <3>1, <3>6
  <2>3. n \in Int /\ 0 \in Int /\ n \in 0 .. n
    BY <1>1
  <2> HIDE DEF P
  <2>4. 0 .. n \subseteq P
    BY <2>1, <2>2, <2>3, Climb
  <2> QED BY <2>3, <2>4 DEF P
<1> QED BY <1>5, <1>6, <1>7, <1>10 DEF z

\* Where nothing is cut out, the text stays.
LEMMA SpliceNothing ==
    ASSUME NEW x \in Seq(Words), NEW cuts, \A c \in cuts : c.new \in Seq(Words),
           \A i \in 1 .. Len(x) : InPlace(x, cuts, i) = <<x[i]>>
    PROVE  Splice(x, cuts) = x
<1>1. PICK f : Builds(x, cuts, f)
  BY Building
<1> DEFINE n == Len(x)
           P == {i \in Int : f[i] = SubSeq(x, 1, i)}
<1>2. n \in Nat /\ 0 \in Int /\ n \in Int /\ n \in 0 .. n
  BY LenProperties
<1>3. 0 \in P
  <2>1. SubSeq(x, 1, 0) = <<>>
    BY SubSeqEmpty
  <2> QED BY <1>1, <1>2, <2>1 DEF Builds
<1>4. ASSUME NEW i \in 0 + 1 .. n, i - 1 \in P PROVE i \in P
  <2>1. i \in 1 .. Len(x) /\ i \in Int /\ 1 \in 1 .. Len(x) /\ i \in 1 .. Len(x)
    BY <1>2
  <2>2. f[i] = f[i - 1] \o <<x[i]>>
    BY <1>1, <2>1 DEF Builds
  <2>3. SubSeq(x, 1, i) = SubSeq(x, 1, i - 1) \o <<x[i]>>
    BY <2>1, SubSeqRecursiveSecond
  <2> QED BY <1>4, <2>1, <2>2, <2>3
<1>5. f[n] = SubSeq(x, 1, n)
  <2> HIDE DEF P, n
  <2>1. 0 .. n \subseteq P
    BY <1>2, <1>3, <1>4, Climb
  <2> QED BY <1>2, <2>1 DEF P
<1>6. SubSeq(x, 1, Len(x)) = x
  BY SubSeqFull
<1> QED BY <1>1, <1>5, <1>6 DEF Builds

-----------------------------------------------------------------------------
\* A placeholder stands somewhere.
LEMMA TokenAt ==
    ASSUME NEW tok, IsToken(tok), NEW t \in Seq(Words), NEW i \in Int
    PROVE  At(t, i, tok) <=> i + 3 <= Len(t) /\ \A k \in 1 .. 4 : t[i + k - 1] = tok[k]
<1>1. DOMAIN tok = 1 .. 4 /\ Len(tok) = 4 /\ Len(t) \in Nat
  BY DEF IsToken
<1>2. i + Len(tok) - 1 = i + 3
  BY <1>1
<1> QED BY <1>1, <1>2 DEF At

\* A text that is put behind another one makes no placeholder.
LEMMA TokenInJoin ==
    ASSUME NEW tok, IsToken(tok), NEW x \in Seq(Words), NEW y, Piece(y)
    PROVE  /\ \A i \in 1 .. Len(x) : At(x \o y, i, tok) <=> At(x, i, tok)
           /\ \A i \in 1 .. Len(y) : At(x \o y, Len(x) + i, tok) <=> At(y, i, tok)
<1> DEFINE z == x \o y
           m == Len(x)
           n == Len(y)
<1>0. y \in Seq(Words)
  BY DEF Piece, Unclosed, IsToken
<1>1. /\ z \in Seq(Words) /\ Len(z) = m + n /\ m \in Nat /\ n \in Nat
      /\ \A i \in 1 .. m : z[i] = x[i]
      /\ \A i \in 1 .. n : z[m + i] = y[i]
  BY <1>0, JoinedAt
<1> HIDE DEF z
<1>2. ASSUME NEW i \in 1 .. m PROVE At(z, i, tok) <=> At(x, i, tok)
  <2>1. i \in Int /\ i \in Nat
    BY <1>1
  <2>2. /\ At(z, i, tok) <=> i + 3 <= m + n /\ \A k \in 1 .. 4 : z[i + k - 1] = tok[k]
        /\ At(x, i, tok) <=> i + 3 <= m /\ \A k \in 1 .. 4 : x[i + k - 1] = tok[k]
    BY <1>1, <2>1, TokenAt
  <2>3. CASE i + 3 <= m
    <3>1. \A k \in 1 .. 4 : i + k - 1 \in 1 .. m
      BY <1>1, <2>1, <2>3
    <3>2. \A k \in 1 .. 4 : z[i + k - 1] = x[i + k - 1]
      BY <1>1, <3>1
    <3> QED BY <1>1, <2>1, <2>2, <2>3, <3>2
  <2>4. CASE ~(i + 3 <= m)
    <3>1. ASSUME At(z, i, tok) PROVE FALSE
      <4> DEFINE q == i + 3 - m
      <4>1. i + 3 <= m + n /\ z[i + 4 - 1] = tok[4]
        BY <2>2, <3>1
      <4>2. q \in 1 .. 3 /\ q \in 1 .. n /\ m + q = i + 4 - 1
        BY <1>1, <2>1, <2>4, <4>1
      <4> HIDE DEF q
      <4>3. y[q] = Close
        BY <1>1, <4>1, <4>2 DEF IsToken
      <4> QED BY <4>2, <4>3 DEF Piece, Unclosed, IsToken
    <3> QED BY <2>2, <2>4, <3>1
  <2> QED BY <2>3, <2>4
<1>3. ASSUME NEW i \in 1 .. n PROVE At(z, m + i, tok) <=> At(y, i, tok)
  <2>1. i \in Int /\ m + i \in Int /\ i \in Nat
    BY <1>1
  <2>2. /\ At(z, m + i, tok) <=> m + i + 3 <= m + n /\ \A k \in 1 .. 4 : z[m + i + k - 1] = tok[k]
        /\ At(y, i, tok) <=> i + 3 <= n /\ \A k \in 1 .. 4 : y[i + k - 1] = tok[k]
    BY <1>0, <1>1, <2>1, TokenAt
  <2>3. m + i + 3 <= m + n <=> i + 3 <= n
    BY <1>1, <2>1
  <2>4. i + 3 <= n => \A k \in 1 .. 4 : z[m + i + k - 1] = y[i + k - 1]
    <3> SUFFICES ASSUME i + 3 <= n, NEW k \in 1 .. 4 PROVE z[m + i + k - 1] = y[i + k - 1]
      OBVIOUS
    <3>1. i + k - 1 \in 1 .. n /\ m + (i + k - 1) = m + i + k - 1
      BY <1>1, <2>1
    <3> QED BY <1>1, <3>1
  <2> QED BY <2>2, <2>3, <2>4
<1> QED BY <1>2, <1>3 DEF z

\* Hence one text after the other can be replaced in.
LEMMA ReplaceJoin ==
    ASSUME NEW tok, IsToken(tok), NEW new \in Seq(Words), NEW x \in Seq(Words), NEW y, Piece(y)
    PROVE  Replace(x \o y, tok, new) = Replace(x, tok, new) \o Replace(y, tok, new)
<1> DEFINE z == x \o y
           m == Len(x)
           n == Len(y)
<1>0. y \in Seq(Words)
  BY DEF Piece, Unclosed, IsToken
<1>1. /\ z \in Seq(Words) /\ Len(z) = m + n /\ m \in Nat /\ n \in Nat
      /\ \A i \in 1 .. m : z[i] = x[i]
      /\ \A i \in 1 .. n : z[m + i] = y[i]
  BY <1>0, JoinedAt
<1>2. /\ \A i \in 1 .. m : At(z, i, tok) <=> At(x, i, tok)
      /\ \A i \in 1 .. n : At(z, m + i, tok) <=> At(y, i, tok)
  BY TokenInJoin
<1> HIDE DEF z
<1>3. PICK cx :
        /\ Replace(x, tok, new) = Splice(x, cx)
        /\ \A c \in cx : c.new \in Seq(Words)
        /\ \A i \in 1 .. m :
             InPlace(x, cx, i) =
               IF At(x, i, tok) THEN new
               ELSE IF \E s \in 1 .. m : At(x, s, tok) /\ s < i /\ i < s + 4 THEN <<>>
               ELSE <<x[i]>>
  BY ReplacedAt
<1>4. PICK cy :
        /\ Replace(y, tok, new) = Splice(y, cy)
        /\ \A c \in cy : c.new \in Seq(Words)
        /\ \A i \in 1 .. n :
             InPlace(y, cy, i) =
               IF At(y, i, tok) THEN new
               ELSE IF \E s \in 1 .. n : At(y, s, tok) /\ s < i /\ i < s + 4 THEN <<>>
               ELSE <<y[i]>>
  BY <1>0, ReplacedAt
<1>5. PICK cz :
        /\ Replace(z, tok, new) = Splice(z, cz)
        /\ \A c \in cz : c.new \in Seq(Words)
        /\ \A i \in 1 .. Len(z) :
             InPlace(z, cz, i) =
               IF At(z, i, tok) THEN new
               ELSE IF \E s \in 1 .. Len(z) : At(z, s, tok) /\ s < i /\ i < s + 4 THEN <<>>
               ELSE <<z[i]>>
  BY <1>1, ReplacedAt, ZenonT(60)
<1>6. ASSUME NEW i \in 1 .. m PROVE InPlace(z, cz, i) = InPlace(x, cx, i)
  <2>1. i \in 1 .. Len(z) /\ z[i] = x[i]
    BY <1>1
  <2>2. (\E s \in 1 .. Len(z) : At(z, s, tok) /\ s < i /\ i < s + 4)
          <=> \E s \in 1 .. m : At(x, s, tok) /\ s < i /\ i < s + 4
    <3>1. ASSUME NEW s \in 1 .. Len(z), At(z, s, tok), s < i PROVE s \in 1 .. m /\ At(x, s, tok)
      <4>1. s \in 1 .. m
        BY <1>1, <3>1
      <4> QED BY <1>2, <3>1, <4>1
    <3>2. ASSUME NEW s \in 1 .. m, At(x, s, tok) PROVE s \in 1 .. Len(z) /\ At(z, s, tok)
      <4>1. s \in 1 .. Len(z)
        BY <1>1
      <4> QED BY <1>2, <3>2, <4>1
    <3> QED BY <3>1, <3>2
  <2>3. At(z, i, tok) <=> At(x, i, tok)
    BY <1>2
  <2> QED BY <1>3, <1>5, <2>1, <2>2, <2>3
<1>7. ASSUME NEW i \in 1 .. n PROVE InPlace(z, cz, m + i) = InPlace(y, cy, i)
  <2>1. m + i \in 1 .. Len(z) /\ z[m + i] = y[i]
    BY <1>1
  <2>2. (\E s \in 1 .. Len(z) : At(z, s, tok) /\ s < m + i /\ m + i < s + 4)
          <=> \E s \in 1 .. n : At(y, s, tok) /\ s < i /\ i < s + 4
    <3>1. ASSUME NEW s \in 1 .. Len(z), At(z, s, tok), s < m + i, m + i < s + 4
          PROVE  \E r \in 1 .. n : At(y, r, tok) /\ r < i /\ i < r + 4
      <4>1. CASE s <= m
        <5>1. s \in 1 .. m /\ s \in Int
          BY <1>1, <4>1
        <5>2. At(x, s, tok)
          BY <1>2, <3>1, <5>1
        <5>3. s + 3 <= m
          BY <5>1, <5>2, TokenAt
        <5> QED BY <1>1, <3>1, <5>3
      <4>2. CASE ~(s <= m)
        <5>1. s - m \in 1 .. n /\ m + (s - m) = s /\ s - m < i /\ i < s - m + 4
          BY <1>1, <3>1, <4>2
        <5>2. At(y, s - m, tok)
          BY <1>2, <3>1, <5>1
        <5> QED BY <5>1, <5>2
      <4> QED BY <4>1, <4>2
    <3>2. ASSUME NEW s \in 1 .. n, At(y, s, tok), s < i, i < s + 4
          PROVE  \E r \in 1 .. Len(z) : At(z, r, tok) /\ r < m + i /\ m + i < r + 4
      <4>1. m + s \in 1 .. Len(z) /\ m + s < m + i /\ m + i < m + s + 4
        BY <1>1, <3>2
      <4>2. At(z, m + s, tok)
        BY <1>2, <3>2
      <4> QED BY <4>1, <4>2
    <3> QED BY <3>1, <3>2
  <2>3. At(z, m + i, tok) <=> At(y, i, tok)
    BY <1>2
  <2> QED BY <1>4, <1>5, <2>1, <2>2, <2>3
<1>8. Splice(z, cz) = Splice(x, cx) \o Splice(y, cy)
  <2>1. /\ \A c \in cx : c.new \in Seq(Words)
        /\ \A c \in cy : c.new \in Seq(Words)
        /\ \A c \in cz : c.new \in Seq(Words)
    BY <1>3, <1>4, <1>5
  <2>2. /\ \A i \in 1 .. Len(x) : InPlace(x \o y, cz, i) = InPlace(x, cx, i)
        /\ \A i \in 1 .. Len(y) : InPlace(x \o y, cz, Len(x) + i) = InPlace(y, cy, i)
    BY <1>6, <1>7 DEF z
  <2>3. FitTogether(x, y, cx, cy, cz)
    BY <2>1, <2>2 DEF FitTogether
  <2>4. Splice(x \o y, cz) = Splice(x, cx) \o Splice(y, cy)
    BY <1>0, <2>3, SpliceJoin
  <2> QED BY <2>4 DEF z
<1> QED BY <1>3, <1>4, <1>5, <1>8 DEF z

\* Nothing changes where no such placeholder is.
LEMMA ReplaceNothing ==
    ASSUME NEW tok, IsToken(tok), NEW new \in Seq(Words), NEW x \in Seq(Words),
           \A i \in 1 .. Len(x) : ~At(x, i, tok)
    PROVE  Replace(x, tok, new) = x
<1>1. PICK cuts :
        /\ Replace(x, tok, new) = Splice(x, cuts)
        /\ \A c \in cuts : c.new \in Seq(Words)
        /\ \A i \in 1 .. Len(x) :
             InPlace(x, cuts, i) =
               IF At(x, i, tok) THEN new
               ELSE IF \E s \in 1 .. Len(x) : At(x, s, tok) /\ s < i /\ i < s + 4 THEN <<>>
               ELSE <<x[i]>>
  BY ReplacedAt
<1>2. \A i \in 1 .. Len(x) : InPlace(x, cuts, i) = <<x[i]>>
  BY <1>1
<1> QED BY <1>1, <1>2, SpliceNothing

\* A text without a closing bracket stays; a placeholder stays or is replaced.
LEMMA ReplaceUnclosed ==
    ASSUME NEW tok, IsToken(tok), NEW new \in Seq(Words), NEW x, Unclosed(x)
    PROVE  Replace(x, tok, new) = x
<1>1. x \in Seq(Words)
  BY DEF Unclosed
<1>2. ASSUME NEW i \in 1 .. Len(x), At(x, i, tok) PROVE FALSE
  <2>1. i + 3 <= Len(x) /\ x[i + 4 - 1] = tok[4] /\ i \in Nat /\ Len(x) \in Nat
    BY <1>1, <1>2, TokenAt
  <2>2. i + 4 - 1 \in 1 .. Len(x)
    BY <2>1
  <2> QED BY <2>1, <2>2 DEF Unclosed, IsToken
<1> QED BY <1>1, <1>2, ReplaceNothing

\* In a placeholder, only that placeholder is replaced.
LEMMA ReplaceToken ==
    ASSUME NEW tok, IsToken(tok), NEW new \in Seq(Words), NEW x, IsToken(x)
    PROVE  Replace(x, tok, new) = IF x = tok THEN new ELSE x
<1>1. x \in Seq(Words) /\ Len(x) = 4 /\ tok \in Seq(Words) /\ Len(tok) = 4
  BY DEF IsToken
<1>2. \A i \in 1 .. 4 : At(x, i, tok) => i = 1
  <2> SUFFICES ASSUME NEW i \in 1 .. 4, At(x, i, tok) PROVE i = 1
    OBVIOUS
  <2>1. i \in Int
    OBVIOUS
  <2>2. At(x, i, tok) <=> i + 3 <= Len(x) /\ \A k \in 1 .. 4 : x[i + k - 1] = tok[k]
    BY <1>1, <2>1, TokenAt
  <2> QED BY <1>1, <2>2
<1>3. At(x, 1, tok) <=> x = tok
  <2>1. At(x, 1, tok) <=> \A k \in 1 .. 4 : x[k] = tok[k]
    BY <1>1, TokenAt
  <2>2. (\A k \in 1 .. 4 : x[k] = tok[k]) => x = tok
    BY <1>1, SeqEqual
  <2> QED BY <2>1, <2>2
<1>4. CASE x # tok
  <2>1. \A i \in 1 .. Len(x) : ~At(x, i, tok)
    BY <1>1, <1>2, <1>3, <1>4
  <2> QED BY <1>1, <1>4, <2>1, ReplaceNothing
<1>5. CASE x = tok
  <2>1. PICK cuts :
        /\ Replace(x, tok, new) = Splice(x, cuts)
        /\ \A c \in cuts : c.new \in Seq(Words)
        /\ \A i \in 1 .. Len(x) :
             InPlace(x, cuts, i) =
               IF At(x, i, tok) THEN new
               ELSE IF \E s \in 1 .. Len(x) : At(x, s, tok) /\ s < i /\ i < s + 4 THEN <<>>
               ELSE <<x[i]>>
    BY <1>1, ReplacedAt
  <2>2. /\ InPlace(x, cuts, 1) = new
        /\ \A i \in 2 .. 4 : InPlace(x, cuts, i) = <<>>
    <3>1. At(x, 1, tok) /\ 1 \in 1 .. Len(x)
      BY <1>1, <1>3, <1>5
    <3>2. ASSUME NEW i \in 2 .. 4 PROVE InPlace(x, cuts, i) = <<>>
      <4>1. i \in 1 .. Len(x) /\ ~At(x, i, tok) /\ 1 < i /\ i < 1 + 4
        BY <1>1, <1>2
      <4> QED BY <2>1, <3>1, <4>1
    <3> QED BY <2>1, <3>1, <3>2
  <2>3. PICK f : Builds(x, cuts, f)
    BY <1>1, <2>1, Building
  <2>4. /\ f[0] = <<>> /\ Splice(x, cuts) = f[4]
        /\ \A i \in 1 .. 4 : f[i] = f[i - 1] \o InPlace(x, cuts, i)
    BY <1>1, <2>3 DEF Builds
  <2>5. f[1] = f[0] \o new /\ f[2] = f[1] \o <<>> /\ f[3] = f[2] \o <<>> /\ f[4] = f[3] \o <<>>
    <3>1. 1 \in 1 .. 4 /\ 2 \in 1 .. 4 /\ 3 \in 1 .. 4 /\ 4 \in 1 .. 4
          /\ 2 \in 2 .. 4 /\ 3 \in 2 .. 4 /\ 4 \in 2 .. 4 /\ 1 - 1 = 0 /\ 2 - 1 = 1 /\ 3 - 1 = 2 /\ 4 - 1 = 3
      OBVIOUS
    <3> QED BY <2>2, <2>4, <3>1
  <2>6. new \o <<>> = new /\ <<>> \o new = new
    BY ConcatEmptySeq
  <2>7. f[4] = new
    BY <2>4, <2>5, <2>6
  <2> QED BY <1>5, <2>1, <2>4, <2>7
<1> QED BY <1>4, <1>5

-----------------------------------------------------------------------------
(* What restore_text does to words and to placeholders. *)

\* No two placeholders of a vault are the same.
Lucid(v) == VaultOK(v) /\ \A i, j \in 1 .. Len(v) : Token(v[i]) = Token(v[j]) => i = j

\* A mapping is a placeholder for a value that has no bracket.
LEMMA MappingIs ==
    ASSUME PlaceholdersReadApart, NEW m \in Mappings
    PROVE  /\ IsToken(Token(m)) /\ Unclosed(m.value) /\ Bare(m.value) /\ m.value \in Seq(Words)
           /\ Token(m) \in Seq(Words)
<1>1. PICK s \in Secrets : m.value = s.value
  BY DEF Mappings
<1>2. Bare(m.value)
  BY <1>1, ValuesAreBare
<1>3. Mark(Close)
  <2>1. Close \in Marks
    BY DEF Marks
  <2> QED BY <2>1, Values
<1>4. Unclosed(m.value)
  BY <1>2, <1>3 DEF Bare, Unclosed
<1>5. IsToken(Token(m))
  BY TokensAreTokens
<1> QED BY <1>2, <1>4, <1>5 DEF Bare, IsToken

\* So is an entry of a vault.
LEMMA EntryIs ==
    ASSUME PlaceholdersReadApart, NEW v, VaultOK(v), NEW k \in 1 .. Len(v)
    PROVE  /\ IsToken(Token(v[k])) /\ Unclosed(v[k].value) /\ Bare(v[k].value) /\ v[k].value \in Seq(Words)
           /\ Token(v[k]) \in Seq(Words)
<1>1. v[k] \in Mappings
  BY ElementOfSeq DEF VaultOK
<1> QED BY <1>1, MappingIs

\* A placeholder, or a text without a closing bracket, stays one or the other.
LEMMA PieceStaysPiece ==
    ASSUME PlaceholdersReadApart, NEW v, VaultOK(v), NEW k \in 1 .. Len(v), NEW y, Piece(y)
    PROVE  Piece(Replace(y, Token(v[k]), v[k].value))
<1> DEFINE tok == Token(v[k])
           new == v[k].value
<1>1. IsToken(tok) /\ Unclosed(new) /\ new \in Seq(Words)
  BY EntryIs
<1> HIDE DEF tok, new
<1>2. CASE Unclosed(y)
  BY <1>1, <1>2, ReplaceUnclosed DEF Piece, tok, new
<1>3. CASE IsToken(y)
  <2>1. Replace(y, tok, new) = IF y = tok THEN new ELSE y
    BY <1>1, <1>3, ReplaceToken
  <2> QED BY <1>1, <1>3, <2>1 DEF Piece, tok, new
<1> QED BY <1>2, <1>3 DEF Piece

\* One after the other is restored, if the second is one or the other.
LEMMA RestoreJoin ==
    ASSUME PlaceholdersReadApart, NEW v, VaultOK(v), NEW x \in Seq(Words), NEW y, Piece(y)
    PROVE  RestoreText(v, x \o y) = RestoreText(v, x) \o RestoreText(v, y)
<1> DEFINE n == Len(v)
<1>0. y \in Seq(Words)
  BY DEF Piece, Unclosed, IsToken
<1>1. n \in Nat /\ 0 \in Int /\ n \in Int /\ n \in 0 .. n
  BY LenProperties DEF VaultOK
<1>2. PICK f : ReadsBackAs(v, x \o y, f)
  <2>1. x \o y \in Seq(Words)
    BY <1>0, JoinedAt
  <2> QED BY <2>1, ReadingBack
<1>3. PICK g : ReadsBackAs(v, x, g)
  BY ReadingBack
<1>4. PICK h : ReadsBackAs(v, y, h)
  BY <1>0, ReadingBack
<1> DEFINE P == {k \in Int : f[k] = g[k] \o h[k] /\ Piece(h[k])}
<1>5. 0 \in P
  <2>1. f[0] = x \o y /\ g[0] = x /\ h[0] = y
    BY <1>2, <1>3, <1>4 DEF ReadsBackAs
  <2>2. f[0] = g[0] \o h[0] /\ Piece(h[0])
    BY <2>1, Zenon
  <2> QED BY <1>1, <2>2
<1>6. ASSUME NEW k \in 0 + 1 .. n, k - 1 \in P PROVE k \in P
  <2>1. k \in 1 .. Len(v) /\ k \in Int /\ k - 1 \in 0 .. Len(v)
    BY <1>1
  <2> DEFINE tok == Token(v[k])
             new == v[k].value
             a == g[k - 1]
             b == h[k - 1]
  <2>2. IsToken(tok) /\ new \in Seq(Words)
    BY <2>1, EntryIs
  <2>3. a \in Seq(Words) /\ Piece(b) /\ f[k - 1] = a \o b
    BY <1>3, <1>6, <2>1 DEF ReadsBackAs
  <2>4. f[k] = Replace(f[k - 1], tok, new) /\ g[k] = Replace(a, tok, new) /\ h[k] = Replace(b, tok, new)
    BY <1>2, <1>3, <1>4, <2>1 DEF ReadsBackAs
  <2>5. Piece(Replace(b, tok, new))
    <3> HIDE DEF b
    <3> QED BY <2>1, <2>3, PieceStaysPiece
  <2> HIDE DEF tok, new, a, b
  <2>6. Replace(a \o b, tok, new) = Replace(a, tok, new) \o Replace(b, tok, new)
    BY <2>2, <2>3, ReplaceJoin, ZenonT(60)
  <2>7. f[k] = g[k] \o h[k] /\ Piece(h[k])
    BY <2>3, <2>4, <2>5, <2>6, Zenon
  <2> QED BY <2>1, <2>7
<1>7. n \in P
  <2> HIDE DEF P, n
  <2>1. 0 .. n \subseteq P
    BY <1>1, <1>5, <1>6, Climb
  <2> QED BY <1>1, <2>1
<1>8. f[n] = g[n] \o h[n]
  BY <1>7
<1> QED BY <1>2, <1>3, <1>4, <1>8 DEF ReadsBackAs

\* A text without a closing bracket stays.
LEMMA RestoreUnclosed ==
    ASSUME PlaceholdersReadApart, NEW v, VaultOK(v), NEW x, Unclosed(x)
    PROVE  RestoreText(v, x) = x
<1> DEFINE n == Len(v)
<1>0. x \in Seq(Words)
  BY DEF Unclosed
<1>1. n \in Nat /\ 0 \in Int /\ n \in Int /\ n \in 0 .. n
  BY LenProperties DEF VaultOK
<1>2. PICK f : ReadsBackAs(v, x, f)
  BY <1>0, ReadingBack
<1> DEFINE P == {k \in Int : f[k] = x}
<1>3. 0 \in P
  BY <1>2 DEF ReadsBackAs
<1>4. ASSUME NEW k \in 0 + 1 .. n, k - 1 \in P PROVE k \in P
  <2>1. k \in 1 .. Len(v) /\ k \in Int
    BY <1>1
  <2> DEFINE tok == Token(v[k])
             new == v[k].value
  <2>2. IsToken(tok) /\ new \in Seq(Words)
    BY <2>1, EntryIs
  <2>3. f[k] = Replace(x, tok, new)
    BY <1>2, <1>4, <2>1 DEF ReadsBackAs
  <2> HIDE DEF tok, new
  <2>4. Replace(x, tok, new) = x
    BY <2>2, ReplaceUnclosed
  <2> QED BY <2>1, <2>3, <2>4
<1>5. n \in P
  <2> HIDE DEF P, n
  <2>1. 0 .. n \subseteq P
    BY <1>1, <1>3, <1>4, Climb
  <2> QED BY <1>1, <2>1
<1> QED BY <1>2, <1>5 DEF ReadsBackAs

\* A placeholder becomes its value.
LEMMA RestoreToken ==
    ASSUME PlaceholdersReadApart, NEW v, Lucid(v), NEW k \in 1 .. Len(v)
    PROVE  RestoreText(v, Token(v[k])) = v[k].value
<1> DEFINE n == Len(v)
           x == Token(v[k])
           y == v[k].value
<1>0. VaultOK(v)
  BY DEF Lucid
<1>1. n \in Nat /\ 0 \in Int /\ n \in Int /\ n \in 0 .. n
  BY <1>0, LenProperties DEF VaultOK
<1>2. IsToken(x) /\ Unclosed(y) /\ x \in Seq(Words)
  BY <1>0, EntryIs
<1>3. PICK f : ReadsBackAs(v, x, f)
  <2> HIDE DEF x
  <2> QED BY <1>0, <1>2, ReadingBack
<1> DEFINE P == {i \in Int : f[i] = IF i < k THEN x ELSE y}
<1>4. 0 \in P
  <2>1. 0 < k
    BY <1>1
  <2> QED BY <1>3, <2>1 DEF ReadsBackAs
<1>5. ASSUME NEW i \in 0 + 1 .. n, i - 1 \in P PROVE i \in P
  <2>1. i \in 1 .. Len(v) /\ i \in Int /\ k \in Int
    BY <1>1
  <2> DEFINE tok == Token(v[i])
             new == v[i].value
  <2>2. IsToken(tok) /\ new \in Seq(Words)
    BY <1>0, <2>1, EntryIs
  <2>3. f[i] = Replace(f[i - 1], tok, new) /\ f[i - 1] = IF i - 1 < k THEN x ELSE y
    BY <1>3, <1>5, <2>1 DEF ReadsBackAs
  <2>4. tok = x => i = k
    BY <2>1 DEF Lucid
  <2>5. i = k => tok = x /\ new = y
    OBVIOUS
  <2> HIDE DEF tok, new, x, y
  <2>6. CASE i < k
    <3>1. f[i] = Replace(x, tok, new) /\ tok # x
      BY <2>1, <2>3, <2>4, <2>6
    <3>2. Replace(x, tok, new) = x
      BY <1>2, <2>2, <3>1, ReplaceToken
    <3> QED BY <2>1, <2>6, <3>1, <3>2
  <2>7. CASE i = k
    <3>1. f[i] = Replace(x, tok, new) /\ tok = x /\ new = y
      BY <2>1, <2>3, <2>5, <2>7
    <3>2. Replace(x, tok, new) = new
      BY <1>2, <2>2, <3>1, ReplaceToken
    <3> QED BY <2>1, <2>7, <3>1, <3>2
  <2>8. CASE i > k
    <3>1. f[i] = Replace(y, tok, new)
      BY <2>1, <2>3, <2>8
    <3>2. Replace(y, tok, new) = y
      BY <1>2, <2>2, ReplaceUnclosed
    <3> QED BY <2>1, <2>8, <3>1, <3>2
  <2> QED BY <2>1, <2>6, <2>7, <2>8
<1>6. n \in P
  <2> HIDE DEF P, n
  <2>1. 0 .. n \subseteq P
    BY <1>1, <1>4, <1>5, Climb
  <2> QED BY <1>1, <2>1
<1>7. f[n] = y
  <2>1. ~(n < k)
    BY <1>1
  <2> QED BY <1>6, <2>1
<1> QED BY <1>3, <1>7 DEF ReadsBackAs

-----------------------------------------------------------------------------
(* What a masked text reads as: word by word, and placeholder by placeholder. *)

\* A part of a masked text and what it stands for.
Part(v, a, b) ==
    \/ b = a /\ \E w \in Words \ {Close} : a = <<w>>
    \/ \E k \in 1 .. Len(v) : a = Token(v[k]) /\ b = v[k].value

\* S[t] holds what t may stand for, once it holds that of a text with one part less.
ReadSets == [Seq(Words) -> SUBSET Seq(Words)]
ReadsOn(v, S) ==
    /\ <<>> \in S[<<>>]
    /\ \A t, r, a, b \in Seq(Words) : r \in S[t] /\ Part(v, a, b) => r \o b \in S[t \o a]

\* The text t, with v's values for v's placeholders, is r.
Means(v, t, r) ==
    /\ t \in Seq(Words) /\ r \in Seq(Words)
    /\ \A S \in ReadSets : ReadsOn(v, S) => r \in S[t]

\* A part, and what it stands for.
LEMMA PartIs ==
    ASSUME PlaceholdersReadApart, NEW v, VaultOK(v), NEW a, NEW b, Part(v, a, b)
    PROVE  /\ a \in Seq(Words) /\ b \in Seq(Words) /\ Piece(a) /\ Unclosed(b) /\ Len(a) > 0
           /\ Lucid(v) => RestoreText(v, a) = b
<1>1. CASE b = a /\ \E w \in Words \ {Close} : a = <<w>>
  <2>1. PICK w \in Words \ {Close} : a = <<w>>
    BY <1>1
  <2>2. a \in Seq(Words) /\ Len(a) = 1 /\ a[1] = w
    BY <2>1
  <2>3. Unclosed(a)
    BY <2>2 DEF Unclosed
  <2>4. RestoreText(v, a) = a
    BY <2>3, RestoreUnclosed
  <2> QED BY <1>1, <2>2, <2>3, <2>4 DEF Piece
<1>2. CASE \E k \in 1 .. Len(v) : a = Token(v[k]) /\ b = v[k].value
  <2>1. PICK k \in 1 .. Len(v) : a = Token(v[k]) /\ b = v[k].value
    BY <1>2
  <2>2. IsToken(a) /\ Unclosed(b) /\ a \in Seq(Words) /\ b \in Seq(Words)
    BY <2>1, EntryIs
  <2>3. Lucid(v) => RestoreText(v, a) = b
    BY <2>1, RestoreToken
  <2>4. Len(a) > 0
    BY <2>2 DEF IsToken
  <2> QED BY <2>2, <2>3, <2>4 DEF Piece
<1> QED BY <1>1, <1>2 DEF Part

\* A part more.
LEMMA ReadsOne ==
    ASSUME NEW v, NEW t, NEW r, Means(v, t, r), NEW a \in Seq(Words), NEW b \in Seq(Words), Part(v, a, b)
    PROVE  Means(v, t \o a, r \o b)
<1>1. t \in Seq(Words) /\ r \in Seq(Words)
  BY DEF Means
<1>2. t \o a \in Seq(Words) /\ r \o b \in Seq(Words)
  BY <1>1, JoinedAt
<1>3. ASSUME NEW S \in ReadSets, ReadsOn(v, S) PROVE r \o b \in S[t \o a]
  <2>1. r \in S[t]
    BY <1>3 DEF Means
  <2> QED BY <1>1, <1>3, <2>1 DEF ReadsOn
<1> QED BY <1>2, <1>3 DEF Means

\* Nothing reads as nothing.
LEMMA ReadsNone ==
    ASSUME NEW v
    PROVE  Means(v, <<>>, <<>>)
<1>1. <<>> \in Seq(Words)
  BY WordsOfTypes
<1> QED BY <1>1 DEF Means, ReadsOn

\* What a text reads as can be told from its parts: S holds whatever is read.
LEMMA ReadsWithin ==
    ASSUME NEW v, NEW S, S \in ReadSets, ReadsOn(v, S), NEW t, NEW r, Means(v, t, r)
    PROVE  r \in S[t]
BY DEF Means

\* The text that is read is what is restored, and has no closing bracket.
LEMMA ReadsIs ==
    ASSUME PlaceholdersReadApart, NEW v, Lucid(v), NEW t, NEW r, Means(v, t, r)
    PROVE  /\ t \in Seq(Words) /\ Unclosed(r) /\ r \in Seq(Words)
           /\ RestoreText(v, t) = r
<1> DEFINE S == [x \in Seq(Words) |-> {y \in Seq(Words) : Unclosed(y) /\ RestoreText(v, x) = y}]
<1>0. VaultOK(v) /\ t \in Seq(Words) /\ r \in Seq(Words) /\ <<>> \in Seq(Words)
  BY WordsOfTypes DEF Lucid, Means
<1>1. S \in ReadSets
  BY DEF ReadSets
<1>2. <<>> \in S[<<>>]
  <2>1. Unclosed(<<>>)
    BY <1>0 DEF Unclosed
  <2>2. RestoreText(v, <<>>) = <<>>
    BY <1>0, <2>1, RestoreUnclosed
  <2> QED BY <1>0, <2>1, <2>2
<1>3. ASSUME NEW x \in Seq(Words), NEW y \in Seq(Words), NEW a \in Seq(Words), NEW b \in Seq(Words),
             y \in S[x], Part(v, a, b)
      PROVE  y \o b \in S[x \o a]
  <2>1. Unclosed(y) /\ RestoreText(v, x) = y
    BY <1>3
  <2>2. Piece(a) /\ Unclosed(b) /\ RestoreText(v, a) = b
    BY <1>0, <1>3, PartIs
  <2>3. /\ x \o a \in Seq(Words) /\ y \o b \in Seq(Words) /\ Len(y \o b) = Len(y) + Len(b)
        /\ Len(y) \in Nat /\ Len(b) \in Nat
        /\ \A i \in 1 .. Len(y) : (y \o b)[i] = y[i]
        /\ \A i \in 1 .. Len(b) : (y \o b)[Len(y) + i] = b[i]
    BY JoinedAt
  <2>4. RestoreText(v, x \o a) = RestoreText(v, x) \o RestoreText(v, a)
    BY <1>0, <2>2, RestoreJoin
  <2>5. RestoreText(v, x \o a) = y \o b
    BY <2>1, <2>2, <2>4, Zenon
  <2>6. Unclosed(y \o b)
    <3>1. ASSUME NEW z, z = y \o b PROVE Unclosed(z)
      <4>1. ASSUME NEW k \in 1 .. Len(z) PROVE z[k] # Close
        <5>1. k \in 1 .. Len(y) \/ (k - Len(y) \in 1 .. Len(b) /\ Len(y) + (k - Len(y)) = k)
          BY <2>3, <3>1, <4>1
        <5> QED BY <2>1, <2>2, <2>3, <3>1, <5>1 DEF Unclosed
      <4> QED BY <2>3, <3>1, <4>1 DEF Unclosed
    <3> QED BY <3>1
  <2>7. S[x \o a] = {z \in Seq(Words) : Unclosed(z) /\ RestoreText(v, x \o a) = z}
    BY <2>3
  <2> QED BY <2>3, <2>5, <2>6, <2>7
<1> HIDE DEF S
<1>4. ReadsOn(v, S)
  BY <1>2, <1>3 DEF ReadsOn
<1>5. r \in S[t]
  BY <1>1, <1>4, ReadsWithin
<1> QED BY <1>0, <1>5 DEF S

\* Three texts, one behind the other.
LEMMA Associating ==
    \A x, y, z \in Seq(Words) : (x \o y) \o z = x \o (y \o z)
BY ConcatAssociative

\* One text behind the other.
LEMMA ReadsJoin ==
    ASSUME NEW v, NEW t, NEW r, Means(v, t, r), NEW u, NEW q, Means(v, u, q)
    PROVE  Means(v, t \o u, r \o q)
<1> DEFINE S == [z \in Seq(Words) |-> {s \in Seq(Words) : Means(v, t \o z, r \o s)}]
<1>0. t \in Seq(Words) /\ r \in Seq(Words) /\ u \in Seq(Words) /\ q \in Seq(Words)
  BY DEF Means
<1>a. <<>> \in Seq(Words)
  BY WordsOfTypes
<1>1. S \in ReadSets
  BY DEF ReadSets
<1>2. <<>> \in S[<<>>]
  <2>1. t \o <<>> = t /\ r \o <<>> = r
    BY <1>0, ConcatEmptySeq
  <2> QED BY <1>a, <2>1
<1>3. ASSUME NEW x \in Seq(Words), NEW y \in Seq(Words), NEW a \in Seq(Words), NEW b \in Seq(Words),
             y \in S[x], Part(v, a, b)
      PROVE  y \o b \in S[x \o a]
  <2>1. Means(v, t \o x, r \o y)
    BY <1>3
  <2>2. Means(v, (t \o x) \o a, (r \o y) \o b)
    BY <1>3, <2>1, ReadsOne
  <2>3. (t \o x) \o a = t \o (x \o a) /\ (r \o y) \o b = r \o (y \o b)
    <3>1. t \in Seq(Words)
      BY <1>0
    <3>2. (t \o x) \o a = t \o (x \o a)
      BY <3>1, Associating
    <3>3. r \in Seq(Words)
      BY <1>0
    <3>4. (r \o y) \o b = r \o (y \o b)
      BY <3>3, Associating
    <3> QED BY <3>2, <3>4
  <2>4. x \o a \in Seq(Words) /\ y \o b \in Seq(Words)
    BY JoinedAt
  <2>5. Means(v, t \o (x \o a), r \o (y \o b))
    BY <2>2, <2>3, Zenon
  <2> QED BY <2>4, <2>5
<1> HIDE DEF S
<1>4. ReadsOn(v, S)
  BY <1>2, <1>3 DEF ReadsOn
<1>5. q \in S[u]
  BY <1>1, <1>4, ReadsWithin
<1> QED BY <1>0, <1>5 DEF S

\* A vault that is added to says of its placeholders what it did.
Extends(v, w) == Len(v) <= Len(w) /\ Len(v) \in Nat /\ Len(w) \in Nat /\ \A k \in 1 .. Len(v) : w[k] = v[k]

\* What a text reads as stays, whatever is added to the vault.
LEMMA ReadsOnward ==
    ASSUME PlaceholdersReadApart, NEW v, NEW w, VaultOK(v), Extends(v, w), NEW t, NEW r, Means(v, t, r)
    PROVE  Means(w, t, r)
<1> DEFINE S == [x \in Seq(Words) |-> {y \in Seq(Words) : Means(w, x, y)}]
<1>0. t \in Seq(Words) /\ r \in Seq(Words) /\ <<>> \in Seq(Words)
  BY WordsOfTypes DEF Means
<1>1. S \in ReadSets
  BY DEF ReadSets
<1>2. <<>> \in S[<<>>]
  BY <1>0, ReadsNone
<1>3. ASSUME NEW x \in Seq(Words), NEW y \in Seq(Words), NEW a \in Seq(Words), NEW b \in Seq(Words),
             y \in S[x], Part(v, a, b)
      PROVE  y \o b \in S[x \o a]
  <2>1. Means(w, x, y)
    BY <1>3
  <2>2. Part(w, a, b)
    <3>1. \A k \in 1 .. Len(v) : k \in 1 .. Len(w) /\ w[k] = v[k]
      BY DEF Extends
    <3> QED BY <1>3, <3>1 DEF Part
  <2>3. Means(w, x \o a, y \o b)
    BY <2>1, <2>2, ReadsOne
  <2>4. x \o a \in Seq(Words) /\ y \o b \in Seq(Words)
    BY JoinedAt
  <2> QED BY <2>3, <2>4
<1> HIDE DEF S
<1>4. ReadsOn(v, S)
  BY <1>2, <1>3 DEF ReadsOn
<1>5. r \in S[t]
  BY <1>1, <1>4, ReadsWithin
<1> QED BY <1>0, <1>5 DEF S

\* A text without a closing bracket reads as it is.
LEMMA ReadsPlain ==
    ASSUME NEW v, NEW x, Unclosed(x)
    PROVE  Means(v, x, x)
<1> DEFINE n == Len(x)
           f == [j \in 0 .. n |-> SubSeq(x, 1, j)]
           P == {j \in Int : Means(v, f[j], f[j])}
<1>0. x \in Seq(Words) /\ n \in Nat /\ 0 \in Int /\ n \in Int /\ n \in 0 .. n /\ 0 \in 0 .. n
  BY LenProperties DEF Unclosed
<1>1. 0 \in P
  <2>1. SubSeq(x, 1, 0) = <<>>
    BY SubSeqEmpty
  <2>2. f[0] = <<>>
    BY <1>0, <2>1
  <2> HIDE DEF f
  <2> QED BY <1>0, <2>2, ReadsNone
<1>2. ASSUME NEW j \in 0 + 1 .. n, j - 1 \in P PROVE j \in P
  <2>1. j \in 1 .. Len(x) /\ j \in 1 .. j /\ j - 1 \in 0 .. n /\ j \in 0 .. n /\ 1 \in 1 .. Len(x) /\ j \in Int
    BY <1>0
  <2>1a. j \in 1 .. Len(x) /\ j \in 1 .. Len(x) /\ 1 \in 1 .. Len(x) /\ j \in 1 .. Len(x)
    BY <2>1
  <2>2. SubSeq(x, 1, j) = SubSeq(x, 1, j - 1) \o <<x[j]>>
    BY <1>0, <2>1, SubSeqRecursiveSecond
  <2>3. f[j] = f[j - 1] \o <<x[j]>>
    BY <2>1, <2>2
  <2>4. x[j] \in Words \ {Close}
    BY <1>0, <2>1 DEF Unclosed
  <2> HIDE DEF f
  <2> DEFINE a == <<x[j]>>
  <2>5. a \in Seq(Words) /\ Part(v, a, a)
    BY <2>4 DEF Part
  <2> HIDE DEF a
  <2>6. Means(v, f[j - 1] \o a, f[j - 1] \o a)
    <3>1. Means(v, f[j - 1], f[j - 1])
      BY <1>2
    <3> QED BY <2>5, <3>1, ReadsOne
  <2>7. f[j] = f[j - 1] \o a
    BY <2>3 DEF a
  <2>8. Means(v, f[j], f[j])
    BY <2>6, <2>7, Zenon
  <2> QED BY <2>1, <2>8
<1>3. n \in P
  <2> HIDE DEF P, n
  <2>1. 0 .. n \subseteq P
    BY <1>0, <1>1, <1>2, Climb
  <2> QED BY <1>0, <2>1
<1>4. f[n] = x
  BY <1>0, SubSeqFull
<1> HIDE DEF f
<1> QED BY <1>3, <1>4

\* A text that is read is nothing, or has a last part.
LastRead(v, t, r) ==
    \/ t = <<>> /\ r = <<>>
    \/ \E u, q, a, b \in Seq(Words) : /\ Means(v, u, q) /\ Part(v, a, b)
                                      /\ t = u \o a /\ r = q \o b
\* A text that reads as something is empty or ends in a part.
LEMMA ReadsLast ==
    ASSUME NEW v, NEW t, NEW r, Means(v, t, r)
    PROVE  LastRead(v, t, r)
<1> DEFINE S == [x \in Seq(Words) |-> {y \in Seq(Words) : Means(v, x, y) /\ LastRead(v, x, y)}]
<1>0. t \in Seq(Words) /\ r \in Seq(Words) /\ <<>> \in Seq(Words)
  BY WordsOfTypes DEF Means
<1>1. S \in ReadSets
  BY DEF ReadSets
<1>2. <<>> \in S[<<>>]
  BY <1>0, ReadsNone DEF LastRead
<1>3. ASSUME NEW x \in Seq(Words), NEW y \in Seq(Words), NEW a \in Seq(Words), NEW b \in Seq(Words),
             y \in S[x], Part(v, a, b)
      PROVE  y \o b \in S[x \o a]
  <2>1. Means(v, x, y)
    BY <1>3
  <2>2. Means(v, x \o a, y \o b)
    BY <1>3, <2>1, ReadsOne
  <2>3. LastRead(v, x \o a, y \o b)
    BY <1>3, <2>1 DEF LastRead
  <2>4. x \o a \in Seq(Words) /\ y \o b \in Seq(Words)
    BY JoinedAt
  <2> QED BY <2>2, <2>3, <2>4
<1> HIDE DEF S
<1>4. ReadsOn(v, S)
  BY <1>2, <1>3 DEF ReadsOn
<1>5. r \in S[t]
  BY <1>1, <1>4, ReadsWithin
<1> QED BY <1>0, <1>5 DEF S

-----------------------------------------------------------------------------
(* Cutting a masked text in two. *)

\* The parts of two texts put together.
CutJoined(x, y, c, z) ==
    /\ SubSeq(z, 1, c) = SubSeq(x, 1, c)
    /\ SubSeq(z, c + 1, Len(z)) = SubSeq(x, c + 1, Len(x)) \o y
    /\ SubSeq(x, 1, c) \in Seq(Words) /\ SubSeq(x, c + 1, Len(x)) \in Seq(Words)
    /\ Len(SubSeq(x, 1, c)) = c /\ Len(SubSeq(x, c + 1, Len(x))) = Len(x) - c
    /\ x = SubSeq(x, 1, c) \o SubSeq(x, c + 1, Len(x))
\* A cut in the first of two texts.
LEMMA SubJoin ==
    ASSUME NEW x \in Seq(Words), NEW y \in Seq(Words), NEW c \in 0 .. Len(x), NEW z, z = x \o y
    PROVE  CutJoined(x, y, c, z)
<1>1. /\ z \in Seq(Words) /\ Len(z) = Len(x) + Len(y) /\ Len(x) \in Nat /\ Len(y) \in Nat /\ c \in Int
      /\ \A i \in 1 .. Len(x) : z[i] = x[i]
      /\ \A i \in 1 .. Len(y) : z[Len(x) + i] = y[i]
  BY JoinedAt
<1> DEFINE a == SubSeq(x, 1, c)
           b == SubSeq(x, c + 1, Len(x))
           d == SubSeq(z, 1, c)
           e == SubSeq(z, c + 1, Len(z))
<1>2. \A i \in 1 .. Len(x) : x[i] \in Words
  BY ElementOfSeq
<1>3. \A i \in 1 .. Len(z) : z[i] \in Words
  BY <1>1, ElementOfSeq
<1>4. a \in Seq(Words) /\ Len(a) = c /\ \A i \in 1 .. c : a[i] = x[i]
  <2>1. 1 \in Int /\ c \in Int /\ \A i \in 1 .. c : x[i] \in Words
    BY <1>1, <1>2
  <2>2. /\ SubSeq(x, 1, c) \in Seq(Words)
        /\ Len(SubSeq(x, 1, c)) = IF 1 <= c THEN c - 1 + 1 ELSE 0
        /\ \A i \in 1 .. c - 1 + 1 : SubSeq(x, 1, c)[i] = x[1 + i - 1]
    BY <2>1, SubSeqProperties
  <2> HIDE DEF a
  <2> QED BY <1>1, <2>2 DEF a
<1>5. d \in Seq(Words) /\ Len(d) = c /\ \A i \in 1 .. c : d[i] = x[i]
  <2>1. 1 \in Int /\ c \in Int /\ \A i \in 1 .. c : z[i] \in Words
    BY <1>1, <1>3
  <2>2. /\ SubSeq(z, 1, c) \in Seq(Words)
        /\ Len(SubSeq(z, 1, c)) = IF 1 <= c THEN c - 1 + 1 ELSE 0
        /\ \A i \in 1 .. c - 1 + 1 : SubSeq(z, 1, c)[i] = z[1 + i - 1]
    BY <2>1, SubSeqProperties
  <2> HIDE DEF d
  <2> QED BY <1>1, <2>2 DEF d
<1>6. b \in Seq(Words) /\ Len(b) = Len(x) - c /\ \A i \in 1 .. Len(x) - c : b[i] = x[c + i]
  <2>1. c + 1 \in Int /\ Len(x) \in Int /\ \A i \in c + 1 .. Len(x) : x[i] \in Words
    BY <1>1, <1>2
  <2>2. /\ SubSeq(x, c + 1, Len(x)) \in Seq(Words)
        /\ Len(SubSeq(x, c + 1, Len(x))) = IF c + 1 <= Len(x) THEN Len(x) - (c + 1) + 1 ELSE 0
        /\ \A i \in 1 .. Len(x) - (c + 1) + 1 : SubSeq(x, c + 1, Len(x))[i] = x[c + 1 + i - 1]
    BY <2>1, SubSeqProperties
  <2> HIDE DEF b
  <2> QED BY <1>1, <2>2 DEF b
<1>7. e \in Seq(Words) /\ Len(e) = Len(z) - c /\ \A i \in 1 .. Len(z) - c : e[i] = z[c + i]
  <2>1. c + 1 \in Int /\ Len(z) \in Int /\ \A i \in c + 1 .. Len(z) : z[i] \in Words
    BY <1>1, <1>3
  <2>2. /\ SubSeq(z, c + 1, Len(z)) \in Seq(Words)
        /\ Len(SubSeq(z, c + 1, Len(z))) = IF c + 1 <= Len(z) THEN Len(z) - (c + 1) + 1 ELSE 0
        /\ \A i \in 1 .. Len(z) - (c + 1) + 1 : SubSeq(z, c + 1, Len(z))[i] = z[c + 1 + i - 1]
    BY <2>1, SubSeqProperties
  <2> HIDE DEF e
  <2> QED BY <1>1, <2>2 DEF e
<1> HIDE DEF a, b, d, e
<1>8. d = a
  BY <1>4, <1>5, SeqEqual
<1>9. e = b \o y
  <2>1. /\ b \o y \in Seq(Words) /\ Len(b \o y) = Len(b) + Len(y)
        /\ \A i \in 1 .. Len(b) : (b \o y)[i] = b[i]
        /\ \A i \in 1 .. Len(y) : (b \o y)[Len(b) + i] = y[i]
    BY <1>6, JoinedAt
  <2>2. ASSUME NEW s, s = b \o y PROVE e = s
    <3>1. Len(e) = Len(s)
      BY <1>1, <1>6, <1>7, <2>1, <2>2
    <3>2. ASSUME NEW i \in 1 .. Len(e) PROVE e[i] = s[i]
      <4>1. CASE i <= Len(x) - c
        <5>1. i \in 1 .. Len(x) - c /\ c + i \in 1 .. Len(x) /\ i \in 1 .. Len(b) /\ i \in 1 .. Len(z) - c
          BY <1>1, <1>6, <1>7, <4>1
        <5> QED BY <1>1, <1>6, <1>7, <2>1, <2>2, <5>1
      <4>2. CASE i > Len(x) - c
        <5>1. ASSUME NEW j, j = i - (Len(x) - c) PROVE e[i] = s[i]
          <6>0. i \in 1 .. Len(z) - c /\ i \in Int /\ Len(z) = Len(x) + Len(y) /\ Len(b) = Len(x) - c
            BY <1>1, <1>6, <1>7
          <6>1. j \in 1 .. Len(y) /\ c + i = Len(x) + j /\ i = Len(b) + j
            BY <1>1, <4>2, <5>1, <6>0
          <6>2. e[i] = z[c + i] /\ z[c + i] = y[j]
            BY <1>1, <1>7, <6>1
          <6>3. s[i] = y[j]
            BY <2>1, <2>2, <6>1
          <6> QED BY <6>2, <6>3
        <5> QED BY <5>1
      <4> QED BY <1>1, <4>1, <4>2
    <3> QED BY <1>7, <2>1, <2>2, <3>1, <3>2, SeqEqual
  <2> QED BY <2>2
<1>10. x = a \o b
  <2>1. /\ a \o b \in Seq(Words) /\ Len(a \o b) = Len(a) + Len(b)
        /\ \A i \in 1 .. Len(a) : (a \o b)[i] = a[i]
        /\ \A i \in 1 .. Len(b) : (a \o b)[Len(a) + i] = b[i]
    BY <1>4, <1>6, JoinedAt
  <2>2. ASSUME NEW s, s = a \o b PROVE x = s
    <3>1. Len(x) = Len(s)
      <4>1. Len(s) = Len(a) + Len(b)
        BY <2>1, <2>2
      <4>2. Len(a) = c /\ Len(b) = Len(x) - c /\ c \in Int /\ Len(x) \in Int
        BY <1>1, <1>4, <1>6
      <4> QED BY <4>1, <4>2
    <3>2. ASSUME NEW i \in 1 .. Len(x) PROVE x[i] = s[i]
      <4>1. CASE i <= c
        <5>1. i \in 1 .. c /\ i \in 1 .. Len(a)
          BY <1>1, <1>4, <4>1
        <5> QED BY <1>4, <2>1, <2>2, <5>1
      <4>2. CASE i > c
        <5>1. ASSUME NEW j, j = i - c PROVE x[i] = s[i]
          <6>1. j \in 1 .. Len(x) - c /\ i = c + j /\ i = Len(a) + j /\ j \in 1 .. Len(b)
            BY <1>1, <1>4, <1>6, <4>2, <5>1
          <6> QED BY <1>6, <2>1, <2>2, <6>1
        <5> QED BY <5>1
      <4> QED BY <1>1, <4>1, <4>2
    <3> QED BY <2>1, <2>2, <3>1, <3>2, SeqEqual
  <2> QED BY <2>2
<1> QED BY <1>4, <1>6, <1>8, <1>9, <1>10 DEF a, b, d, e, CutJoined

\* A text is cut between two of its parts, or within a placeholder.
CutApart(v, t, r, c) ==
    \E p, q \in Seq(Words) : /\ r = p \o q
                             /\ Means(v, SubSeq(t, 1, c), p) /\ Means(v, SubSeq(t, c + 1, Len(t)), q)
CutWithin(v, t, c) ==
    \E k \in 1 .. Len(v), i \in 1 .. Len(t) : i <= c /\ c < i + 3 /\ At(t, i, Token(v[k]))

\* A text that is cut reads as two, unless the cut is within a placeholder.
LEMMA ReadsCut ==
    ASSUME PlaceholdersReadApart, NEW v, VaultOK(v), NEW t, NEW r, Means(v, t, r)
    PROVE  \A c \in 0 .. Len(t) : CutApart(v, t, r, c) \/ CutWithin(v, t, c)
<1> DEFINE Good(x, y) == /\ Means(v, x, y)
                          /\ \A c \in 0 .. Len(x) : CutApart(v, x, y, c) \/ CutWithin(v, x, c)
           S == [x \in Seq(Words) |-> {y \in Seq(Words) : Good(x, y)}]
<1>0. t \in Seq(Words) /\ r \in Seq(Words)
  BY DEF Means
<1>a. <<>> \in Seq(Words)
  BY WordsOfTypes
<1>1. S \in ReadSets
  BY DEF ReadSets
<1>2. <<>> \in S[<<>>]
  <2>1. Means(v, <<>>, <<>>)
    BY ReadsNone
  <2>2. ASSUME NEW x, x = <<>>, NEW c \in 0 .. Len(x) PROVE CutApart(v, x, x, c)
    <3>1. Len(x) = 0 /\ c = 0 /\ x \in Seq(Words)
      BY <1>a, <2>2
    <3>2. SubSeq(x, 1, 0) = <<>> /\ SubSeq(x, 0 + 1, 0) = <<>>
      BY SubSeqEmpty
    <3>3. SubSeq(x, 1, c) = x /\ SubSeq(x, c + 1, Len(x)) = x
      BY <2>2, <3>1, <3>2
    <3>4. x \o x = x
      BY <2>2, <3>1, ConcatEmptySeq
    <3> QED BY <2>1, <2>2, <3>1, <3>3, <3>4 DEF CutApart
  <2>3. Good(<<>>, <<>>)
    BY <2>1, <2>2
  <2> HIDE DEF Good
  <2> QED BY <1>a, <2>3
<1>3. ASSUME NEW x, NEW y, NEW a, NEW b,
             x \in Seq(Words) /\ y \in Seq(Words) /\ a \in Seq(Words) /\ b \in Seq(Words),
             y \in S[x], Part(v, a, b)
      PROVE  y \o b \in S[x \o a]
  <2>a. x \in Seq(Words) /\ a \in Seq(Words)
    BY <1>3
  <2>b. y \in Seq(Words) /\ b \in Seq(Words)
    BY <1>3
  <2>1. Means(v, x, y) /\ \A c \in 0 .. Len(x) : CutApart(v, x, y, c) \/ CutWithin(v, x, c)
    BY <1>3
  <2>2. Means(v, x \o a, y \o b)
    BY <1>3, <2>1, ReadsOne
  <2>3. x \o a \in Seq(Words) /\ y \o b \in Seq(Words)
    BY <2>a, <2>b, JoinedAt
  <2>4. ASSUME NEW z, z = x \o a, NEW s, s = y \o b, NEW c \in 0 .. Len(z)
        PROVE  CutApart(v, z, s, c) \/ CutWithin(v, z, c)
    <3>0. /\ Len(x) \in Nat /\ Len(a) \in Nat /\ Len(z) = Len(x) + Len(a) /\ c \in Int
          /\ 0 <= c /\ c <= Len(z)
      BY <2>a, <2>4, JoinedAt
    <3>a. z \in Seq(Words) /\ s \in Seq(Words)
      BY <2>3, <2>4
    <3>1. CASE c \in 0 .. Len(x) /\ CutApart(v, x, y, c)
      <4>1. PICK p \in Seq(Words), q \in Seq(Words) :
              /\ y = p \o q
              /\ Means(v, SubSeq(x, 1, c), p) /\ Means(v, SubSeq(x, c + 1, Len(x)), q)
        BY <3>1 DEF CutApart
      <4>2. SubSeq(z, 1, c) = SubSeq(x, 1, c) /\ SubSeq(z, c + 1, Len(z)) = SubSeq(x, c + 1, Len(x)) \o a
        <5>1. c \in 0 .. Len(x)
          BY <3>1
        <5>2. z = x \o a
          BY <2>4
        <5>3. CutJoined(x, a, c, z)
          BY <2>a, <5>1, <5>2, SubJoin
        <5> QED BY <5>3 DEF CutJoined
      <4>3. Means(v, SubSeq(x, c + 1, Len(x)) \o a, q \o b)
        BY <1>3, <2>a, <2>b, <4>1, ReadsOne
      <4>4. Means(v, SubSeq(z, 1, c), p)
        BY <4>1, <4>2, Zenon
      <4>5. Means(v, SubSeq(z, c + 1, Len(z)), q \o b)
        BY <4>2, <4>3, Zenon
      <4>6. (p \o q) \o b = p \o (q \o b)
        BY <2>b, Associating
      <4>7. s = p \o (q \o b) /\ q \o b \in Seq(Words)
        <5>1. s = (p \o q) \o b
          BY <2>4, <4>1, Zenon
        <5>2. q \o b \in Seq(Words)
          BY <2>b, JoinedAt
        <5> QED BY <4>6, <5>1, <5>2, Zenon
      <4> QED BY <4>4, <4>5, <4>7 DEF CutApart
    <3>2. CASE c \in 0 .. Len(x) /\ CutWithin(v, x, c)
      <4>1. PICK k \in 1 .. Len(v), i \in 1 .. Len(x) : i <= c /\ c < i + 3 /\ At(x, i, Token(v[k]))
        BY <3>2 DEF CutWithin
      <4>2. IsToken(Token(v[k])) /\ Piece(a)
        BY <1>3, EntryIs, PartIs
      <4>3. ASSUME NEW tok, tok = Token(v[k]) PROVE At(z, i, tok)
        <5>1. At(x \o a, i, tok) <=> At(x, i, tok)
          BY <2>a, <4>2, <4>3, TokenInJoin
        <5> QED BY <2>4, <4>1, <4>3, <5>1, Zenon
      <4>4. i \in 1 .. Len(z)
        BY <3>0
      <4> QED BY <4>1, <4>3, <4>4 DEF CutWithin
    <3>3. CASE c = Len(z)
      <4>1. SubSeq(z, 1, Len(z)) = z
        BY <3>a, SubSeqFull
      <4>2. SubSeq(z, Len(z) + 1, Len(z)) = <<>>
        <5>1. Len(z) + 1 \in Int /\ Len(z) \in Int /\ Len(z) < Len(z) + 1
          BY <3>0
        <5> QED BY <5>1, SubSeqEmpty
      <4>3. s \o <<>> = s
        BY <3>a, ConcatEmptySeq
      <4>4. Means(v, z, s)
        BY <2>2, <2>4, Zenon
      <4>5. Means(v, <<>>, <<>>)
        BY ReadsNone
      <4>6. Means(v, SubSeq(z, 1, c), s) /\ Means(v, SubSeq(z, c + 1, Len(z)), <<>>)
        BY <3>3, <4>1, <4>2, <4>4, <4>5, Zenon
      <4> HIDE DEF Good, S
      <4>7. ASSUME NEW e, e = <<>>, e \in Seq(Words) PROVE CutApart(v, z, s, c)
        <5>1. s = s \o e /\ Means(v, SubSeq(z, 1, c), s) /\ Means(v, SubSeq(z, c + 1, Len(z)), e)
          BY <4>3, <4>6, <4>7, Zenon
        <5>2. s \in Seq(Words) /\ e \in Seq(Words)
          BY <3>a, <4>7
        <5>3. \E p, q \in Seq(Words) :
                /\ s = p \o q
                /\ Means(v, SubSeq(z, 1, c), p) /\ Means(v, SubSeq(z, c + 1, Len(z)), q)
          <6> USE <5>2
          <6> WITNESS s \in Seq(Words), e \in Seq(Words)
          <6> QED BY <5>1
        <5> QED BY <5>3, Zenon DEF CutApart
      <4> QED BY <1>a, <4>7
    <3>4. CASE Len(x) < c /\ c < Len(z)
      <4>1. Len(a) # 1
        <5>1. Len(a) > 1 /\ Len(a) \in Nat
          BY <3>0, <3>4
        <5>2. \A n \in Nat : n > 1 => n # 1
          OBVIOUS
        <5> QED BY <5>1, <5>2, Zenon
      <4>2. PICK k \in 1 .. Len(v) : a = Token(v[k])
        BY <1>3, <4>1 DEF Part
      <4>3. IsToken(a) /\ Piece(a) /\ Len(a) = 4
        BY <4>2, EntryIs DEF IsToken, Piece
      <4>4. At(a, 1, a)
        <5>1. a \in Seq(Words) /\ 1 \in Int /\ 1 + 3 <= Len(a) /\ \A j \in 1 .. 4 : a[1 + j - 1] = a[j]
          BY <2>a, <4>3
        <5> QED BY <4>3, <5>1, TokenAt
      <4>5. At(x \o a, Len(x) + 1, a)
        <5>1. 1 \in 1 .. Len(a)
          BY <4>3
        <5> QED BY <2>a, <4>3, <4>4, <5>1, TokenInJoin
      <4>6. ASSUME NEW i, i = Len(x) + 1 PROVE CutWithin(v, z, c)
        <5>1. i \in 1 .. Len(z) /\ i <= c /\ c < i + 3
          BY <3>0, <3>4, <4>3, <4>6
        <5>2. At(z, i, Token(v[k]))
          BY <2>4, <4>2, <4>5, <4>6, Zenon
        <5> QED BY <5>1, <5>2 DEF CutWithin
      <4> QED BY <4>6
    <3>5. c \in 0 .. Len(x) \/ c = Len(z) \/ (Len(x) < c /\ c < Len(z))
      BY <3>0
    <3> QED BY <2>1, <3>1, <3>2, <3>3, <3>4, <3>5
  <2>5. Good(x \o a, y \o b)
    BY <2>2, <2>4
  <2> HIDE DEF Good
  <2> QED BY <2>3, <2>5
<1>4. ReadsOn(v, S)
  <2> HIDE DEF S
  <2> QED BY <1>2, <1>3 DEF ReadsOn
<1>5. r \in S[t]
  <2> HIDE DEF S
  <2> QED BY <1>1, <1>4, ReadsWithin
<1>6. Good(t, r)
  <2> HIDE DEF Good
  <2> QED BY <1>0, <1>5
<1> QED BY <1>6

-----------------------------------------------------------------------------
\* A text without its last word.
LEMMA LastWord ==
    ASSUME NEW x \in Seq(Words), Len(x) > 0
    PROVE  \E y \in Seq(Words), w \in Words :
             /\ x = y \o <<w>> /\ Len(y) = Len(x) - 1 /\ w = x[Len(x)]
             /\ \A i \in 1 .. Len(y) : y[i] = x[i]
<1> DEFINE n == Len(x)
           y == SubSeq(x, 1, n - 1)
<1>1. n \in Nat /\ n \in 1 .. n /\ 1 \in 1 .. n /\ n - 1 \in Int /\ 1 \in Int
  BY LenProperties
<1>2. \A i \in 1 .. n : x[i] \in Words
  BY ElementOfSeq
<1>3. y \in Seq(Words) /\ Len(y) = n - 1 /\ \A i \in 1 .. n - 1 : y[i] = x[i]
  <2>1. \A i \in 1 .. n - 1 : x[i] \in Words
    BY <1>1, <1>2
  <2>2. /\ SubSeq(x, 1, n - 1) \in Seq(Words)
        /\ Len(SubSeq(x, 1, n - 1)) = IF 1 <= n - 1 THEN (n - 1) - 1 + 1 ELSE 0
        /\ \A i \in 1 .. (n - 1) - 1 + 1 : SubSeq(x, 1, n - 1)[i] = x[1 + i - 1]
    <3> HIDE DEF n
    <3> QED BY <1>1, <2>1, SubSeqProperties, SMTT(30)
  <2> HIDE DEF y, n
  <2> QED BY <1>1, <2>2 DEF y
<1>4. x = y \o <<x[n]>>
  <2>1. SubSeq(x, 1, n) = SubSeq(x, 1, n - 1) \o <<x[n]>>
    BY <1>1, SubSeqRecursiveSecond
  <2>2. SubSeq(x, 1, n) = x
    BY SubSeqFull
  <2> QED BY <2>1, <2>2
<1> HIDE DEF y
<1> QED BY <1>1, <1>2, <1>3, <1>4

\* Two texts that end with the same word are the same before it.
LEMMA SameBefore ==
    ASSUME NEW x \in Seq(Words), NEW y \in Seq(Words), NEW w \in Words, x \o <<w>> = y \o <<w>>
    PROVE  x = y
<1> DEFINE e == <<w>>
<1>1. e \in Seq(Words) /\ Len(e) = 1
  OBVIOUS
<1>2. x \o e = y \o e
  OBVIOUS
<1> HIDE DEF e
<1>3. /\ Len(x \o e) = Len(x) + Len(e) /\ \A i \in 1 .. Len(x) : (x \o e)[i] = x[i]
      /\ Len(x) \in Nat
  BY <1>1, JoinedAt
<1>4. /\ Len(y \o e) = Len(y) + Len(e) /\ \A i \in 1 .. Len(y) : (y \o e)[i] = y[i]
      /\ Len(y) \in Nat
  BY <1>1, JoinedAt
<1>5. Len(x) = Len(y)
  BY <1>1, <1>2, <1>3, <1>4
<1>6. \A i \in 1 .. Len(x) : x[i] = y[i]
  BY <1>2, <1>3, <1>4, <1>5
<1> QED BY <1>5, <1>6, SeqEqual

\* The words of values are none of a placeholder.
Unmarked(x) == \A k \in 1 .. Len(x) : ~Mark(x[k])

ReadsBefore(v, u, x, r) == \E q \in Seq(Words) : r = q \o x /\ Means(v, u, q)

\* A word of a value stands for itself.
LEMMA UnreadOne ==
    ASSUME PlaceholdersReadApart, NEW v, VaultOK(v), NEW t \in Seq(Words), NEW w \in Words, ~Mark(w),
           NEW r, Means(v, t \o <<w>>, r)
    PROVE  ReadsBefore(v, t, <<w>>, r)
<1> DEFINE e == <<w>>
           z == t \o e
<1>1. e \in Seq(Words) /\ Len(e) = 1 /\ e[1] = w
  OBVIOUS
<1> HIDE DEF e
<1>2. /\ Len(z) = Len(t) + 1 /\ Len(t) \in Nat /\ z[Len(t) + 1] = w
  BY <1>1, JoinedAt
<1>3. Means(v, z, r)
  BY DEF e
<1> HIDE DEF z
<1>4. LastRead(v, z, r)
  BY <1>3, ReadsLast
<1>5. z # <<>>
  BY <1>2
<1>6. PICK u, q, a, b : /\ u \in Seq(Words) /\ q \in Seq(Words) /\ a \in Seq(Words) /\ b \in Seq(Words)
                        /\ Means(v, u, q) /\ Part(v, a, b) /\ z = u \o a /\ r = q \o b
  BY <1>4, <1>5 DEF LastRead
<1>7. u \in Seq(Words) /\ a \in Seq(Words) /\ q \in Seq(Words)
  BY <1>6
<1>8. /\ Len(z) = Len(u) + Len(a) /\ Len(u) \in Nat /\ Len(a) \in Nat
      /\ \A i \in 1 .. Len(a) : z[Len(u) + i] = a[i]
  BY <1>6, <1>7, JoinedAt
<1>9. Len(a) > 0 => a[Len(a)] = w
  <2>1. ASSUME Len(a) > 0 PROVE Len(a) \in 1 .. Len(a) /\ Len(u) + Len(a) = Len(t) + 1
    BY <1>2, <1>8, <2>1
  <2> QED BY <1>2, <1>8, <2>1
<1>10. ~\E k \in 1 .. Len(v) : a = Token(v[k])
  <2>1. ASSUME NEW k \in 1 .. Len(v), a = Token(v[k]) PROVE FALSE
    <3>1. IsToken(a)
      BY <2>1, EntryIs
    <3>2. Len(a) = 4 /\ a[4] = Close
      BY <3>1 DEF IsToken
    <3>3. Mark(Close)
      BY Values DEF Marks
    <3>4. w = Close
      BY <1>9, <3>2
    <3> QED BY <3>3, <3>4
  <2> QED BY <2>1
<1>11. PICK w2 : w2 \in Words /\ a = <<w2>> /\ b = a
  BY <1>6, <1>10 DEF Part
<1>12. a = e
  <2>1. Len(a) = 1 /\ a[1] = w2
    BY <1>11
  <2>2. w2 = w
    BY <1>9, <2>1
  <2> QED BY <1>11, <2>2 DEF e
<1>13. t = u
  <2>1. t \o <<w>> = u \o <<w>>
    BY <1>6, <1>12 DEF z, e
  <2> QED BY <1>7, <2>1, SameBefore
<1>14. r = q \o e /\ Means(v, t, q)
  BY <1>6, <1>11, <1>12, <1>13, Zenon
<1> QED BY <1>7, <1>14 DEF ReadsBefore, e

\* So do several of them.
LEMMA Unread ==
    ASSUME PlaceholdersReadApart, NEW v, VaultOK(v), NEW u, u \in Seq(Words), NEW x, x \in Seq(Words),
           Unmarked(x), NEW r, Means(v, u \o x, r)
    PROVE  ReadsBefore(v, u, x, r)
<1> DEFINE n == Len(x)
           P == {j \in Int : \A y, s : y \in Seq(Words) /\ Len(y) = j /\ Unmarked(y) /\ Means(v, u \o y, s)
                                          => ReadsBefore(v, u, y, s)}
<1>1. n \in Nat /\ 0 \in Int /\ n \in Int /\ n \in 0 .. n
  BY LenProperties
<1>2. 0 \in P
  <2>1. ASSUME NEW y, NEW s, y \in Seq(Words), Len(y) = 0, Means(v, u \o y, s)
        PROVE  ReadsBefore(v, u, y, s)
    <3>1. y = <<>>
      BY <2>1, EmptySeq
    <3>2. s \in Seq(Words)
      BY <2>1 DEF Means
    <3>3. u \o <<>> = u
      BY ConcatEmptySeq
    <3>4. s \o <<>> = s
      BY <3>2, ConcatEmptySeq
    <3>5. Means(v, u, s) /\ s = s \o y
      BY <2>1, <3>1, <3>3, <3>4, Zenon
    <3> QED BY <3>2, <3>5 DEF ReadsBefore
  <2> QED BY <2>1
<1>3. ASSUME NEW j \in 0 + 1 .. n, j - 1 \in P PROVE j \in P
  <2>1. ASSUME NEW y, NEW s, y \in Seq(Words), Len(y) = j, Unmarked(y), Means(v, u \o y, s)
        PROVE  ReadsBefore(v, u, y, s)
    <3>1. j \in Int /\ j > 0
      BY <1>1
    <3>2. PICK y0 \in Seq(Words), w \in Words :
            /\ y = y0 \o <<w>> /\ Len(y0) = Len(y) - 1 /\ w = y[Len(y)]
            /\ \A i \in 1 .. Len(y0) : y0[i] = y[i]
      BY <2>1, <3>1, LastWord
    <3>3. Len(y0) = j - 1 /\ ~Mark(w) /\ Unmarked(y0)
      <4>1. Len(y0) = j - 1 /\ \A i \in 1 .. Len(y0) : i \in 1 .. Len(y)
        BY <2>1, <3>1, <3>2
      <4>2. Len(y) \in 1 .. Len(y)
        BY <2>1, <3>1
      <4> QED BY <2>1, <3>2, <4>1, <4>2 DEF Unmarked
    <3> DEFINE e == <<w>>
    <3>4. e \in Seq(Words) /\ y = y0 \o e
      BY <3>2
    <3> HIDE DEF e
    <3>5. (u \o y0) \o e = u \o (y0 \o e)
      BY <3>4, Associating
    <3>6. ASSUME NEW uy, uy = u \o y0 PROVE ReadsBefore(v, uy, e, s)
      <4>1. uy \in Seq(Words)
        BY <3>6, JoinedAt
      <4>2. Means(v, uy \o e, s)
        BY <2>1, <3>4, <3>5, <3>6, Zenon
      <4> QED BY <3>3, <4>1, <4>2, UnreadOne DEF e
    <3>7. PICK s0 \in Seq(Words) : s = s0 \o e /\ Means(v, u \o y0, s0)
      BY <3>6 DEF ReadsBefore
    <3>8. ReadsBefore(v, u, y0, s0)
      BY <1>3, <3>3, <3>7
    <3>9. PICK q \in Seq(Words) : s0 = q \o y0 /\ Means(v, u, q)
      BY <3>8 DEF ReadsBefore
    <3>10. (q \o y0) \o e = q \o (y0 \o e)
      BY <3>4, Associating, ZenonT(60)
    <3>11. s = q \o y
      BY <3>4, <3>7, <3>9, <3>10, Zenon
    <3> QED BY <3>9, <3>11 DEF ReadsBefore
  <2>2. j \in Int
    OBVIOUS
  <2> QED BY <2>1, <2>2
<1>4. n \in P
  <2> HIDE DEF P, n
  <2>1. 0 .. n \subseteq P
    BY <1>1, <1>2, <1>3, Climb
  <2> QED BY <1>1, <2>1
<1> QED BY <1>4

-----------------------------------------------------------------------------
(* Placeholders put in place of values. *)

\* Spans of the text that hold values, and get their placeholders.
Veil(v, t, c) ==
    /\ c.start \in 1 .. Len(t)
    /\ \E k \in 1 .. Len(v) : c = Span(c.start, v[k].value, Token(v[k])) /\ At(t, c.start, v[k].value)
Veils(v, t, cuts) ==
    /\ \A c \in cuts : Veil(v, t, c)
    /\ \A c, d \in cuts : c = d \/ Disjoint(c, d)

\* What a veil covers has no bracket.
LEMMA VeilIs ==
    ASSUME PlaceholdersReadApart, NEW v, VaultOK(v), NEW t \in Seq(Words), NEW c, Veil(v, t, c)
    PROVE  /\ c.start \in 1 .. Len(t) /\ c.end \in Int /\ c.start < c.end /\ c.end <= Len(t) + 1
           /\ c.new \in Seq(Words) /\ Len(t) \in Nat
           /\ \A i \in 1 .. Len(t) : c.start <= i /\ i < c.end => ~Mark(t[i])
<1>1. PICK k \in 1 .. Len(v) : c = Span(c.start, v[k].value, Token(v[k])) /\ At(t, c.start, v[k].value)
  BY DEF Veil
<1> DEFINE y == v[k].value
           tok == Token(v[k])
<1>2. Bare(y) /\ y \in Seq(Words) /\ tok \in Seq(Words)
  BY <1>1, EntryIs
<1>3. c.start \in 1 .. Len(t) /\ Len(t) \in Nat
  BY LenProperties DEF Veil
<1>4. c.end = c.start + Len(y) /\ c.new = tok /\ At(t, c.start, y)
  BY <1>1 DEF Span
<1> HIDE DEF y, tok
<1>5. Len(y) \in Nat /\ Len(y) > 0 /\ DOMAIN y = 1 .. Len(y)
  BY <1>2, LenProperties DEF Bare
<1>6. c.start + Len(y) - 1 <= Len(t)
  BY <1>4 DEF At
<1>7. ASSUME NEW i \in 1 .. Len(t), c.start <= i, i < c.end PROVE ~Mark(t[i])
  <2>1. ASSUME NEW j, j = i - c.start + 1 PROVE ~Mark(t[i])
    <3>1. j \in 1 .. Len(y) /\ c.start + j - 1 = i
      BY <1>3, <1>4, <1>5, <1>7, <2>1
    <3>2. t[i] = y[j]
      BY <1>4, <1>5, <3>1 DEF At
    <3> QED BY <1>2, <3>1, <3>2 DEF Bare
  <2> QED BY <2>1
<1> QED BY <1>2, <1>3, <1>4, <1>5, <1>6, <1>7

\* What becomes of a word.
VeilPlaces(t, cuts) ==
    /\ \A c \in cuts : c.new \in Seq(Words)
    /\ \A i \in 1 .. Len(t) :
         /\ \A c \in cuts : c.start = i => InPlace(t, cuts, i) = c.new
         /\ \A c \in cuts : c.start < i /\ i < c.end => InPlace(t, cuts, i) = <<>>
         /\ ~Covered(cuts, i) => InPlace(t, cuts, i) = <<t[i]>>

\* What veils put in the place of each word.
LEMMA VeilInPlace ==
    ASSUME PlaceholdersReadApart, NEW v, VaultOK(v), NEW t \in Seq(Words), NEW cuts, Veils(v, t, cuts)
    PROVE  VeilPlaces(t, cuts)
<1>1. \A c \in cuts : /\ c.start \in 1 .. Len(t) /\ c.end \in Int /\ c.start < c.end
                      /\ c.new \in Seq(Words)
  BY VeilIs DEF Veils
<1>2. \A c, d \in cuts : c = d \/ c.end <= d.start \/ d.end <= c.start
  BY DEF Veils, Disjoint
<1>3. ASSUME NEW i \in 1 .. Len(t), NEW c \in cuts, c.start = i PROVE InPlace(t, cuts, i) = c.new
  <2>1. Starting(cuts, i) \in cuts /\ Starting(cuts, i).start = i
    BY <1>3 DEF Starting
  <2>2. Starting(cuts, i) = c
    BY <1>1, <1>2, <1>3, <2>1
  <2> QED BY <1>3, <2>2 DEF InPlace
<1>4. ASSUME NEW i \in 1 .. Len(t), NEW c \in cuts, c.start < i, i < c.end PROVE InPlace(t, cuts, i) = <<>>
  <2>1. ~\E d \in cuts : d.start = i
    BY <1>1, <1>2, <1>4
  <2> QED BY <1>4, <2>1 DEF InPlace
<1>5. ASSUME NEW i \in 1 .. Len(t), ~Covered(cuts, i) PROVE InPlace(t, cuts, i) = <<t[i]>>
  <2>1. /\ ~\E d \in cuts : d.start = i
        /\ ~\E d \in cuts : d.start < i /\ i < d.end
    BY <1>1, <1>5 DEF Covered
  <2> QED BY <2>1 DEF InPlace
<1> QED BY <1>1, <1>3, <1>4, <1>5 DEF VeilPlaces

\* A whole value becomes its placeholder.
VeilsAll(v, y, cy, tok) == Veils(v, y, cy) /\ Splice(y, cy) = tok

\* A value that is veiled whole.
LEMMA VeilAll ==
    ASSUME PlaceholdersReadApart, NEW v, VaultOK(v), NEW k \in 1 .. Len(v),
           NEW y, y = v[k].value, NEW tok, tok = Token(v[k]), NEW cy, cy = {Span(1, y, tok)}
    PROVE  VeilsAll(v, y, cy, tok)
<1>1. Bare(y) /\ y \in Seq(Words) /\ tok \in Seq(Words)
  BY EntryIs
<1>2. Len(y) \in Nat /\ Len(y) > 0 /\ DOMAIN y = 1 .. Len(y) /\ 1 \in 1 .. Len(y)
  BY <1>1, LenProperties DEF Bare
<1>3. At(y, 1, y)
  BY <1>2 DEF At
<1> DEFINE c == Span(1, y, tok)
<1>4. c.start = 1 /\ c.end = 1 + Len(y) /\ c.new = tok
  BY DEF Span
<1>5. Veil(v, y, c)
  <2>1. c = Span(c.start, y, tok)
    BY <1>4
  <2>2. At(y, c.start, y) /\ c.start \in 1 .. Len(y)
    BY <1>2, <1>3, <1>4
  <2> HIDE DEF c
  <2> QED BY <2>1, <2>2 DEF Veil
<1>6. Veils(v, y, cy)
  <2>1. cy = {c}
    OBVIOUS
  <2> HIDE DEF c
  <2> QED BY <1>5, <2>1 DEF Veils
<1>7. /\ \A d \in cy : d.new \in Seq(Words)
      /\ InPlace(y, cy, 1) = tok /\ \A i \in 2 .. Len(y) : InPlace(y, cy, i) = <<>>
  <2>1. cy = {c}
    OBVIOUS
  <2> HIDE DEF c
  <2>2. /\ \A d \in cy : d.new \in Seq(Words)
        /\ \A i \in 1 .. Len(y) : /\ \A d \in cy : d.start = i => InPlace(y, cy, i) = d.new
                                  /\ \A d \in cy : d.start < i /\ i < d.end => InPlace(y, cy, i) = <<>>
    BY <1>1, <1>6, VeilInPlace, SMTT(30) DEF VeilPlaces
  <2>3. ASSUME NEW i \in 2 .. Len(y) PROVE InPlace(y, cy, i) = <<>>
    <3>1. i \in 1 .. Len(y) /\ 1 < i /\ i < 1 + Len(y)
      BY <1>2
    <3> QED BY <1>4, <2>1, <2>2, <3>1
  <2> QED BY <1>2, <1>4, <2>1, <2>2, <2>3
<1>8. PICK f : Builds(y, cy, f)
  BY <1>1, <1>7, Building
<1> DEFINE n == Len(y)
           P == {i \in Int : f[i] = tok}
<1>9. 1 \in P
  <2>1. f[0] = <<>> /\ f[1] = f[0] \o InPlace(y, cy, 1)
    <3>1. 1 - 1 = 0
      OBVIOUS
    <3> QED BY <1>2, <1>8, <3>1 DEF Builds
  <2>2. <<>> \o tok = tok
    BY <1>1, ConcatEmptySeq
  <2>3. f[1] = tok
    BY <1>7, <2>1, <2>2, Zenon
  <2> QED BY <2>3
<1>10. ASSUME NEW i \in 1 + 1 .. n, i - 1 \in P PROVE i \in P
  <2>1. i \in 1 .. Len(y) /\ i \in 2 .. Len(y) /\ i \in Int
    BY <1>2
  <2>2. f[i] = f[i - 1] \o InPlace(y, cy, i) /\ InPlace(y, cy, i) = <<>> /\ f[i - 1] = tok
    BY <1>7, <1>8, <1>10, <2>1 DEF Builds
  <2>3. tok \o <<>> = tok
    BY <1>1, ConcatEmptySeq
  <2>4. f[i] = tok
    BY <2>2, <2>3, Zenon
  <2> QED BY <2>1, <2>4
<1>11. n \in P
  <2>1. n \in Int /\ 1 \in Int /\ n \in 1 .. n
    BY <1>2
  <2> HIDE DEF P, n
  <2>2. 1 .. n \subseteq P
    BY <1>9, <1>10, <2>1, Climb
  <2> QED BY <2>1, <2>2
<1>12. Splice(y, cy) = tok
  BY <1>8, <1>11 DEF Builds
<1> QED BY <1>6, <1>12 DEF VeilsAll

-----------------------------------------------------------------------------
\* The spans in the first part of a text.
LEMMA VeilPart ==
    ASSUME PlaceholdersReadApart, NEW v, VaultOK(v), NEW u \in Seq(Words), NEW y \in Seq(Words),
           NEW t, t = u \o y, NEW cuts, Veils(v, t, cuts), NEW rest, rest \subseteq cuts,
           \A c \in rest : c.end <= Len(u) + 1
    PROVE  Veils(v, u, rest)
<1>1. /\ t \in Seq(Words) /\ Len(t) = Len(u) + Len(y) /\ Len(u) \in Nat /\ Len(y) \in Nat
      /\ \A i \in 1 .. Len(u) : t[i] = u[i]
  BY JoinedAt
<1>2. ASSUME NEW c \in rest PROVE Veil(v, u, c)
  <2>1. Veil(v, t, c)
    BY <1>2 DEF Veils
  <2>2. c.start \in 1 .. Len(t) /\ c.end \in Int /\ c.start < c.end
    BY <1>1, <2>1, VeilIs
  <2>3. c.end <= Len(u) + 1
    BY <1>2
  <2>4. PICK k \in 1 .. Len(v) : c = Span(c.start, v[k].value, Token(v[k])) /\ At(t, c.start, v[k].value)
    BY <2>1 DEF Veil
  <2> DEFINE x == v[k].value
             s == c.start
  <2>5. Bare(x) /\ x \in Seq(Words)
    BY EntryIs
  <2>6. c.end = s + Len(x) /\ At(t, s, x)
    BY <2>4 DEF Span
  <2> HIDE DEF x
  <2>7. Len(x) \in Nat /\ Len(x) > 0 /\ DOMAIN x = 1 .. Len(x)
    BY <2>5, LenProperties DEF Bare
  <2>8. s \in 1 .. Len(u) /\ s + Len(x) - 1 <= Len(u)
    BY <1>1, <2>2, <2>3, <2>6, <2>7
  <2>9. ASSUME NEW j \in 1 .. Len(x) PROVE u[s + j - 1] = x[j]
    <3>1. t[s + j - 1] = x[j]
      BY <2>6, <2>7 DEF At
    <3>2. s + j - 1 \in 1 .. Len(u)
      BY <1>1, <2>7, <2>8
    <3> QED BY <1>1, <3>1, <3>2
  <2>10. At(u, s, x)
    BY <2>7, <2>8, <2>9 DEF At
  <2> QED BY <2>4, <2>8, <2>10 DEF Veil, x
<1>3. \A c, d \in rest : c = d \/ Disjoint(c, d)
  BY DEF Veils
<1> QED BY <1>2, <1>3 DEF Veils

\* The text ends with a part no span touches.
VeiledBefore(v, t, cuts, u, a) == Veils(v, u, cuts) /\ Splice(t, cuts) = Splice(u, cuts) \o a

\* A last part that no veil ends with stays.
LEMMA VeilBefore ==
    ASSUME PlaceholdersReadApart, NEW v, VaultOK(v), NEW u \in Seq(Words), NEW a \in Seq(Words),
           NEW b, Part(v, a, b), NEW t, t = u \o a, NEW cuts, Veils(v, t, cuts),
           \A c \in cuts : c.end # Len(t) + 1
    PROVE  VeiledBefore(v, t, cuts, u, a)
<1>1. /\ t \in Seq(Words) /\ Len(t) = Len(u) + Len(a) /\ Len(u) \in Nat /\ Len(a) \in Nat
      /\ \A i \in 1 .. Len(a) : t[Len(u) + i] = a[i]
      /\ \A i \in 1 .. Len(u) : t[i] = u[i]
  BY JoinedAt
<1>2. ASSUME NEW c \in cuts PROVE c.end <= Len(u) + 1 /\ c.start \in Int /\ c.end \in Int
  <2>0. Veil(v, t, c)
    BY <1>2 DEF Veils
  <2>1. /\ c.start \in 1 .. Len(t) /\ c.end \in Int /\ c.start < c.end /\ c.end <= Len(t) + 1
        /\ \A i \in 1 .. Len(t) : c.start <= i /\ i < c.end => ~Mark(t[i])
    BY <1>1, <2>0, VeilIs
  <2>2. c.end <= Len(t)
    <3>1. c.end # Len(t) + 1
      BY <1>2
    <3>2. ASSUME NEW e, e = c.end, NEW n, n = Len(t) PROVE e <= n
      <4>1. e \in Int /\ e <= n + 1 /\ n \in Int /\ e # n + 1
        BY <1>1, <2>1, <3>1, <3>2
      <4> QED BY <4>1
    <3> QED BY <3>2
  <2>3. CASE Len(a) = 1
    BY <1>1, <2>1, <2>2, <2>3
  <2>4. CASE Len(a) # 1
    <3>1. PICK k \in 1 .. Len(v) : a = Token(v[k])
      BY <2>4 DEF Part
    <3>2. v[k] \in Mappings
      BY <3>1, ElementOfSeq DEF VaultOK
    <3>3. \A i \in 1 .. Len(a) : Mark(a[i])
      BY <3>1, <3>2, TokensAreMarks DEF Marked
    <3>4. ASSUME c.end > Len(u) + 1, NEW j, j = c.end - 1 - Len(u) PROVE FALSE
      <4>1. j \in 1 .. Len(a) /\ Len(u) + j = c.end - 1 /\ c.end - 1 \in 1 .. Len(t)
        BY <1>1, <2>1, <2>2, <3>4, SMTT(30)
      <4>2. t[c.end - 1] = a[j]
        BY <1>1, <4>1
      <4>3. ~Mark(t[c.end - 1])
        <5>1. c.start <= c.end - 1 /\ c.end - 1 < c.end
          BY <2>1
        <5>2. \A i \in 1 .. Len(t) : c.start <= i /\ i < c.end => ~Mark(t[i])
          BY <2>1
        <5> QED BY <4>1, <5>1, <5>2
      <4> QED BY <3>3, <4>1, <4>2, <4>3
    <3> QED BY <1>1, <2>1, <3>4
  <2> QED BY <2>1, <2>3, <2>4
<1>3. Veils(v, u, cuts)
  BY <1>2, VeilPart
<1>4. FitTogether(u, a, cuts, {}, cuts)
  <2>1. /\ \A c \in cuts : c.new \in Seq(Words)
        /\ \A i \in 1 .. Len(t) :
                /\ \A c \in cuts : c.start = i => InPlace(t, cuts, i) = c.new
                /\ \A c \in cuts : c.start < i /\ i < c.end => InPlace(t, cuts, i) = <<>>
                /\ ~Covered(cuts, i) => InPlace(t, cuts, i) = <<t[i]>>
    <3>1. VeilPlaces(t, cuts)
      BY <1>1, VeilInPlace
    <3> QED BY <3>1 DEF VeilPlaces
  <2>2. \A i \in 1 .. Len(u) :
                /\ \A c \in cuts : c.start = i => InPlace(u, cuts, i) = c.new
                /\ \A c \in cuts : c.start < i /\ i < c.end => InPlace(u, cuts, i) = <<>>
                /\ ~Covered(cuts, i) => InPlace(u, cuts, i) = <<u[i]>>
    <3>1. VeilPlaces(u, cuts)
      BY <1>3, VeilInPlace
    <3> QED BY <3>1 DEF VeilPlaces
  <2>3. ASSUME NEW i \in 1 .. Len(u) PROVE InPlace(t, cuts, i) = InPlace(u, cuts, i)
    <3>1. i \in 1 .. Len(t)
      BY <1>1
    <3>2. CASE \E c \in cuts : c.start = i
      BY <2>1, <2>2, <3>1, <3>2
    <3>3. CASE \E c \in cuts : c.start < i /\ i < c.end
      BY <2>1, <2>2, <3>1, <3>3
    <3>4. CASE ~Covered(cuts, i)
      BY <1>1, <2>1, <2>2, <3>1, <3>4
    <3>5. Covered(cuts, i) => (\E c \in cuts : c.start = i) \/ \E c \in cuts : c.start < i /\ i < c.end
      BY <1>2 DEF Covered
    <3> QED BY <3>2, <3>3, <3>4, <3>5
  <2>4. ASSUME NEW i \in 1 .. Len(a) PROVE InPlace(t, cuts, Len(u) + i) = InPlace(a, {}, i)
    <3>1. Len(u) + i \in 1 .. Len(t) /\ ~Covered(cuts, Len(u) + i)
      BY <1>1, <1>2 DEF Covered
    <3>2. InPlace(a, {}, i) = <<a[i]>>
      BY DEF InPlace
    <3> QED BY <1>1, <2>1, <3>1, <3>2
  <2>5. \A c \in cuts \cup {} \cup cuts : c.new \in Seq(Words)
    BY <2>1
  <2> QED BY <2>3, <2>4, <2>5 DEF FitTogether
<1>5. Splice(t, cuts) = Splice(u, cuts) \o Splice(a, {})
  BY <1>4, SpliceJoin
<1>6. Splice(a, {}) = a
  <2>1. \A i \in 1 .. Len(a) : InPlace(a, {}, i) = <<a[i]>>
    BY DEF InPlace
  <2>2. \A c \in {} : c.new \in Seq(Words)
    OBVIOUS
  <2> QED BY <2>1, <2>2, SpliceNothing
<1>7. Splice(t, cuts) = Splice(u, cuts) \o a
  BY <1>5, <1>6, Zenon
<1> QED BY <1>3, <1>7 DEF VeiledBefore

\* The text ends with a value that gets its placeholder.
VeiledLast(v, t, cuts, u, rest, k) ==
    /\ u \in Seq(Words) /\ Len(u) < Len(t) /\ t = u \o v[k].value
    /\ Veils(v, u, rest) /\ Splice(t, cuts) = Splice(u, rest) \o Token(v[k])

\* A veil that ends with the text covers a value.
LEMMA VeilLast ==
    ASSUME PlaceholdersReadApart, NEW v, VaultOK(v), NEW t \in Seq(Words), NEW cuts, Veils(v, t, cuts),
           NEW c \in cuts, c.end = Len(t) + 1
    PROVE  \E u, rest : \E k \in 1 .. Len(v) : VeiledLast(v, t, cuts, u, rest, k)
<1>0. Veil(v, t, c)
  BY DEF Veils
<1>1. PICK k \in 1 .. Len(v) : c = Span(c.start, v[k].value, Token(v[k])) /\ At(t, c.start, v[k].value)
  BY <1>0 DEF Veil
<1> DEFINE y == v[k].value
           tok == Token(v[k])
           s == c.start
           u == SubSeq(t, 1, s - 1)
           b == SubSeq(t, s - 1 + 1, Len(t))
           rest == cuts \ {c}
           cy == {Span(1, y, tok)}
<1>2. Bare(y) /\ y \in Seq(Words) /\ tok \in Seq(Words)
  BY <1>1, EntryIs
<1>3. s \in 1 .. Len(t) /\ Len(t) \in Nat /\ s - 1 \in 0 .. Len(t)
  BY <1>0, LenProperties DEF Veil
<1>4. c.end = s + Len(y) /\ c.new = tok /\ At(t, s, y)
  BY <1>1 DEF Span
<1>5. Len(y) \in Nat /\ Len(y) > 0 /\ DOMAIN y = 1 .. Len(y)
  BY <1>2, LenProperties DEF Bare
<1>6. u \in Seq(Words) /\ b \in Seq(Words) /\ Len(u) = s - 1 /\ Len(b) = Len(t) - (s - 1) /\ t = u \o b
  <2>1. t \o <<>> = t /\ <<>> \in Seq(Words)
    BY ConcatEmptySeq, WordsOfTypes
  <2>2. CutJoined(t, <<>>, s - 1, t)
    BY <1>3, <2>1, SubJoin
  <2> QED BY <2>2 DEF CutJoined
<1> HIDE DEF y, tok, u, b
<1>7. b = y
  <2>1. Len(b) = Len(y)
    BY <1>3, <1>4, <1>5, <1>6
  <2>2. \A i \in 1 .. Len(b) : t[Len(u) + i] = b[i]
    BY <1>6, JoinedAt, SMTT(30)
  <2>3. ASSUME NEW i \in 1 .. Len(b) PROVE b[i] = y[i]
    <3>1. i \in 1 .. Len(y) /\ Len(u) + i = s + i - 1
      BY <1>3, <1>5, <1>6, <2>1
    <3>2. t[s + i - 1] = y[i]
      BY <1>4, <1>5, <3>1 DEF At
    <3> QED BY <2>2, <3>1, <3>2
  <2> QED BY <1>2, <1>6, <2>1, <2>3, SeqEqual
<1>8. t = u \o y
  BY <1>6, <1>7, Zenon
<1>9. \A d \in rest : d.end <= Len(u) + 1 /\ d.start \in Int /\ d.end \in Int /\ d \in cuts
  <2> SUFFICES ASSUME NEW d \in rest PROVE d.end <= Len(u) + 1 /\ d.start \in Int /\ d.end \in Int /\ d \in cuts
    OBVIOUS
  <2>1. d \in cuts /\ d # c
    OBVIOUS
  <2>2. Disjoint(c, d) /\ Veil(v, t, d)
    BY <2>1 DEF Veils
  <2>3. d.start \in 1 .. Len(t) /\ d.end \in Int
    BY <2>2, VeilIs
  <2> QED BY <1>3, <1>6, <2>1, <2>2, <2>3 DEF Disjoint
<1>10. Veils(v, u, rest)
  <2>1. rest \subseteq cuts /\ \A d \in rest : d.end <= Len(u) + 1
    BY <1>9
  <2> HIDE DEF rest
  <2> QED BY <1>2, <1>6, <1>8, <2>1, VeilPart
<1>11. Veils(v, y, cy) /\ Splice(y, cy) = tok
  <2>1. y = v[k].value /\ tok = Token(v[k]) /\ cy = {Span(1, y, tok)}
    BY DEF y, tok
  <2> HIDE DEF cy
  <2>2. k \in 1 .. Len(v)
    BY <1>1
  <2> HIDE DEF s
  <2>3. VeilsAll(v, y, cy, tok)
    BY <2>1, <2>2, VeilAll
  <2> QED BY <2>3 DEF VeilsAll
<1>12. FitTogether(u, y, rest, cy, cuts)
  <2>0. /\ Len(t) = Len(u) + Len(y) /\ Len(u) \in Nat /\ c.start = Len(u) + 1 /\ c.end = Len(u) + 1 + Len(y)
        /\ \A i \in 1 .. Len(u) : t[i] = u[i]
    <3>1. /\ Len(u \o y) = Len(u) + Len(y) /\ Len(u) \in Nat
          /\ \A i \in 1 .. Len(u) : (u \o y)[i] = u[i]
      BY <1>2, <1>6, JoinedAt
    <3>2. c.start = Len(u) + 1
      BY <1>3, <1>6
    <3> QED BY <1>3, <1>4, <1>8, <3>1, <3>2
  <2>1. /\ \A d \in cuts : d.new \in Seq(Words)
        /\ \A i \in 1 .. Len(t) :
                /\ \A d \in cuts : d.start = i => InPlace(t, cuts, i) = d.new
                /\ \A d \in cuts : d.start < i /\ i < d.end => InPlace(t, cuts, i) = <<>>
                /\ ~Covered(cuts, i) => InPlace(t, cuts, i) = <<t[i]>>
    <3>1. VeilPlaces(t, cuts)
      BY VeilInPlace
    <3> QED BY <3>1 DEF VeilPlaces
  <2>2. \A i \in 1 .. Len(u) :
                /\ \A d \in rest : d.start = i => InPlace(u, rest, i) = d.new
                /\ \A d \in rest : d.start < i /\ i < d.end => InPlace(u, rest, i) = <<>>
                /\ ~Covered(rest, i) => InPlace(u, rest, i) = <<u[i]>>
    <3>1. VeilPlaces(u, rest)
      <4>1. u \in Seq(Words)
        BY <1>6
      <4> HIDE DEF rest
      <4> QED BY <1>10, <4>1, VeilInPlace
    <3> HIDE DEF rest
    <3> QED BY <3>1 DEF VeilPlaces
  <2>2a. /\ \A d \in cy : d.new \in Seq(Words)
         /\ \A i \in 1 .. Len(y) :
                /\ \A d \in cy : d.start = i => InPlace(y, cy, i) = d.new
                /\ \A d \in cy : d.start < i /\ i < d.end => InPlace(y, cy, i) = <<>>
    <3> HIDE DEF cy
    <3>1. VeilPlaces(y, cy)
      BY <1>2, <1>11, VeilInPlace
    <3> QED BY <3>1 DEF VeilPlaces
  <2>3. ASSUME NEW i \in 1 .. Len(u) PROVE InPlace(t, cuts, i) = InPlace(u, rest, i)
    <3>1. i \in 1 .. Len(t)
      BY <1>5, <2>0
    <3>2. CASE \E d \in rest : d.start = i
      BY <1>9, <2>1, <2>2, <3>1, <3>2
    <3>3. CASE \E d \in rest : d.start < i /\ i < d.end
      BY <1>9, <2>1, <2>2, <3>1, <3>3
    <3>4. CASE ~Covered(rest, i)
      <4>1. ~Covered(cuts, i)
        <5>1. ~(c.start <= i)
          BY <2>0
        <5>2. \A d \in cuts : d = c \/ d \in rest
          OBVIOUS
        <5> QED BY <3>4, <5>1, <5>2 DEF Covered
      <4> QED BY <2>0, <2>1, <2>2, <3>1, <3>4, <4>1
    <3>5. Covered(rest, i) => (\E d \in rest : d.start = i) \/ \E d \in rest : d.start < i /\ i < d.end
      BY <1>9 DEF Covered
    <3> QED BY <3>2, <3>3, <3>4, <3>5
  <2>4. ASSUME NEW i \in 1 .. Len(y) PROVE InPlace(t, cuts, Len(u) + i) = InPlace(y, cy, i)
    <3>1. Len(u) + i \in 1 .. Len(t) /\ i \in Int
      BY <1>5, <2>0
    <3> DEFINE e == Span(1, y, tok)
    <3>2. e \in cy /\ e.start = 1 /\ e.end = 1 + Len(y) /\ e.new = tok
      BY DEF Span
    <3> HIDE DEF e, cy
    <3>3. CASE i = 1
      <4>1. InPlace(t, cuts, Len(u) + i) = tok
        BY <1>4, <2>0, <2>1, <3>1, <3>3
      <4>2. InPlace(y, cy, i) = tok
        BY <2>2a, <3>2, <3>3
      <4> QED BY <4>1, <4>2
    <3>4. CASE i # 1
      <4>1. c.start < Len(u) + i /\ Len(u) + i < c.end /\ 1 < i /\ i < 1 + Len(y)
        BY <1>5, <2>0, <3>1, <3>4
      <4>2. InPlace(t, cuts, Len(u) + i) = <<>>
        BY <2>1, <3>1, <4>1
      <4>3. InPlace(y, cy, i) = <<>>
        BY <2>2a, <3>2, <4>1
      <4> QED BY <4>2, <4>3
    <3> QED BY <3>3, <3>4
  <2>5. \A d \in rest \cup cy \cup cuts : d.new \in Seq(Words)
    <3> HIDE DEF cy
    <3> QED BY <2>1, <2>2a
  <2>6. \A i \in 1 .. Len(u) : InPlace(u \o y, cuts, i) = InPlace(u, rest, i)
    BY <1>8, <2>3
  <2>7. \A i \in 1 .. Len(y) : InPlace(u \o y, cuts, Len(u) + i) = InPlace(y, cy, i)
    BY <1>8, <2>4
  <2> HIDE DEF cy, rest
  <2> QED BY <2>5, <2>6, <2>7 DEF FitTogether
<1> HIDE DEF rest, cy
<1>13. Splice(t, cuts) = Splice(u, rest) \o tok
  <2>1. Splice(u \o y, cuts) = Splice(u, rest) \o Splice(y, cy)
    BY <1>2, <1>6, <1>12, SpliceJoin
  <2> QED BY <1>8, <1>11, <2>1, Zenon
<1>14. Len(u) < Len(t)
  BY <1>3, <1>6
<1>15. VeiledLast(v, t, cuts, u, rest, k)
  BY <1>6, <1>8, <1>10, <1>13, <1>14 DEF VeiledLast, y, tok
<1> QED BY <1>15

\* Where placeholders are put for values, the text reads as before.
LEMMA VeiledReads ==
    ASSUME PlaceholdersReadApart, NEW v, VaultOK(v), NEW t, NEW r, Means(v, t, r), NEW cuts, Veils(v, t, cuts)
    PROVE  Means(v, Splice(t, cuts), r)
<1> DEFINE P == {n \in Int : \A x, s, C : x \in Seq(Words) /\ Len(x) <= n /\ Means(v, x, s) /\ Veils(v, x, C)
                                            => Means(v, Splice(x, C), s)}
           m == Len(t)
<1>1. t \in Seq(Words) /\ m \in Nat /\ 0 \in Int /\ m \in Int /\ m \in 0 .. m
  BY LenProperties DEF Means
<1>2. 0 \in P
  <2>1. ASSUME NEW x, NEW s, NEW C, x \in Seq(Words), Len(x) <= 0, Means(v, x, s), Veils(v, x, C)
        PROVE  Means(v, Splice(x, C), s)
    <3>1. Len(x) = 0
      <4>1. Len(x) \in Nat
        BY <2>1, LenProperties
      <4> QED BY <2>1, <4>1
    <3>2. \A c \in C : c.new \in Seq(Words)
      BY <2>1, VeilInPlace DEF VeilPlaces
    <3>3. \A i \in 1 .. Len(x) : InPlace(x, C, i) = <<x[i]>>
      BY <3>1
    <3>4. Splice(x, C) = x
      BY <2>1, <3>2, <3>3, SpliceNothing
    <3> QED BY <2>1, <3>4, Zenon
  <2> QED BY <2>1
<1>3. ASSUME NEW n \in 0 + 1 .. m, n - 1 \in P PROVE n \in P
  <2>0. n \in Int
    OBVIOUS
  <2>1. ASSUME NEW x, NEW s, NEW C, x \in Seq(Words), Len(x) <= n, Means(v, x, s), Veils(v, x, C)
        PROVE  Means(v, Splice(x, C), s)
    <3>0. Len(x) \in Nat
      BY <2>1, LenProperties
    <3>a. \A y, q, D : y \in Seq(Words) /\ Len(y) < Len(x) /\ Means(v, y, q) /\ Veils(v, y, D)
                         => Means(v, Splice(y, D), q)
      <4>1. ASSUME NEW y, NEW q, NEW D, y \in Seq(Words), Len(y) < Len(x), Means(v, y, q), Veils(v, y, D)
            PROVE  Means(v, Splice(y, D), q)
        <5>1. Len(y) \in Nat
          BY <4>1, LenProperties
        <5>2. Len(y) <= n - 1
          BY <2>0, <2>1, <3>0, <4>1, <5>1
        <5> QED BY <1>3, <4>1, <5>2
      <4> QED BY <4>1
    <3>1. CASE \E c \in C : c.end = Len(x) + 1
      <4>1. PICK c \in C : c.end = Len(x) + 1
        BY <3>1
      <4>2. PICK u, rest : \E k \in 1 .. Len(v) : VeiledLast(v, x, C, u, rest, k)
        BY <2>1, <4>1, VeilLast
      <4>3. PICK k \in 1 .. Len(v) : VeiledLast(v, x, C, u, rest, k)
        BY <4>2
      <4> DEFINE y == v[k].value
                 tok == Token(v[k])
      <4>4. /\ u \in Seq(Words) /\ Len(u) < Len(x) /\ x = u \o y
            /\ Veils(v, u, rest) /\ Splice(x, C) = Splice(u, rest) \o tok
        BY <4>3 DEF VeiledLast
      <4>5. Bare(y) /\ y \in Seq(Words) /\ tok \in Seq(Words) /\ Part(v, tok, y)
        BY EntryIs DEF Part
      <4> HIDE DEF y, tok
      <4>6. Unmarked(y)
        BY <4>5 DEF Bare, Unmarked
      <4>7. Means(v, u \o y, s)
        BY <2>1, <4>4, Zenon
      <4>8. ReadsBefore(v, u, y, s)
        BY <4>4, <4>5, <4>6, <4>7, Unread
      <4>9. PICK q \in Seq(Words) : s = q \o y /\ Means(v, u, q)
        BY <4>8 DEF ReadsBefore
      <4>10. Means(v, Splice(u, rest), q)
        BY <3>a, <4>4, <4>9
      <4>11. Means(v, Splice(u, rest) \o tok, q \o y)
        BY <4>5, <4>10, ReadsOne
      <4> QED BY <4>4, <4>9, <4>11, Zenon
    <3>2. CASE \A c \in C : c.end # Len(x) + 1
      <4>1. LastRead(v, x, s)
        BY <2>1, ReadsLast
      <4>2. CASE x = <<>>
        <5>1. \A c \in C : c.new \in Seq(Words)
          BY <2>1, VeilInPlace DEF VeilPlaces
        <5>2. \A i \in 1 .. Len(x) : InPlace(x, C, i) = <<x[i]>>
          BY <4>2
        <5>3. Splice(x, C) = x
          BY <2>1, <5>1, <5>2, SpliceNothing
        <5> QED BY <2>1, <5>3, Zenon
      <4>3. CASE x # <<>>
        <5>1. PICK u, q, a, b : /\ u \in Seq(Words) /\ q \in Seq(Words) /\ a \in Seq(Words) /\ b \in Seq(Words)
                                /\ Means(v, u, q) /\ Part(v, a, b) /\ x = u \o a /\ s = q \o b
          BY <4>1, <4>3 DEF LastRead
        <5>2. VeiledBefore(v, x, C, u, a)
          BY <2>1, <3>2, <5>1, VeilBefore
        <5>3. Len(u) < Len(x)
          <6>1. Len(a) > 0
            BY <5>1, PartIs
          <6>2. Len(u \o a) = Len(u) + Len(a) /\ Len(u) \in Nat /\ Len(a) \in Nat
            BY <5>1, JoinedAt
          <6> QED BY <5>1, <6>1, <6>2
        <5>4. Means(v, Splice(u, C), q)
          BY <3>a, <5>1, <5>2, <5>3 DEF VeiledBefore
        <5>5. Means(v, Splice(u, C) \o a, q \o b)
          BY <5>1, <5>4, ReadsOne
        <5>6. Splice(x, C) = Splice(u, C) \o a
          BY <5>2 DEF VeiledBefore
        <5> QED BY <5>1, <5>5, <5>6, Zenon
      <4> QED BY <4>2, <4>3
    <3> QED BY <3>1, <3>2
  <2> QED BY <2>0, <2>1
<1>4. m \in P
  <2> HIDE DEF P, m
  <2>1. 0 .. m \subseteq P
    BY <1>1, <1>2, <1>3, Climb
  <2> QED BY <1>1, <2>1
<1>5. Len(t) <= m
  BY <1>1
<1> QED BY <1>1, <1>4, <1>5

-----------------------------------------------------------------------------
(* What is found lies apart. *)

\* Two matches of a scan do not overlap.
LEMMA ScanApart ==
    ASSUME NEW text \in Seq(Words), NEW part, Len(part) \in Nat, Len(part) > 0
    PROVE  \A s, q \in Scan(text, part) : s = q \/ s + Len(part) <= q \/ q + Len(part) <= s
<1> DEFINE n == Len(text)
<1>0. n \in Nat
  BY LenProperties
<1>1. PICK f : Scans(text, part, f)
  BY Scanning
<1>2. ASSUME NEW i \in 1 .. n
      PROVE  f[i] = IF At(text, i, part) /\ \A s \in f[i - 1] : s + Len(part) <= i
                    THEN f[i - 1] \cup {i} ELSE f[i - 1]
  BY <1>1 DEF Scans
<1> DEFINE P == {i \in Int : \A s, q \in f[i] : s = q \/ s + Len(part) <= q \/ q + Len(part) <= s}
<1>3. 0 .. n \subseteq P
  <2>1. 0 \in P
    BY <1>1 DEF Scans
  <2>2. ASSUME NEW i \in 0 + 1 .. n, i - 1 \in P PROVE i \in P
    <3>1. i \in 1 .. n /\ i \in Int
      BY <1>0
    <3>2. \A s, q \in f[i - 1] : s = q \/ s + Len(part) <= q \/ q + Len(part) <= s
      BY <2>2
    <3>3. ASSUME NEW s \in f[i], NEW q \in f[i]
          PROVE  s = q \/ s + Len(part) <= q \/ q + Len(part) <= s
      <4>1. s \in f[i - 1] \/ (s = i /\ \A z \in f[i - 1] : z + Len(part) <= i)
        BY <1>2, <3>1
      <4>2. q \in f[i - 1] \/ (q = i /\ \A z \in f[i - 1] : z + Len(part) <= i)
        BY <1>2, <3>1
      <4> QED BY <3>2, <4>1, <4>2
    <3> QED BY <3>1, <3>3
  <2>3. 0 \in Int /\ n \in Int
    BY <1>0
  <2> HIDE DEF P, n
  <2> QED BY <2>1, <2>2, <2>3, Climb
<1>4. n \in P
  <2> HIDE DEF P
  <2> QED BY <1>0, <1>3
<1> QED BY <1>1, <1>4 DEF Scans

\* Nor do two claims.
LEMMA ClaimsApart ==
    ASSUME NEW text \in Seq(Words)
    PROVE  \A c, d \in Detect(text) : c = d \/ Disjoint(c, d)
<1> DEFINE n == Len(Rules)
<1>0. n \in Nat /\ \A k \in 1 .. n : Len(Rules[k].value) \in Nat /\ Len(Rules[k].value) > 0
  <2>1. n \in Nat /\ \A k \in 1 .. n : Rules[k] \in Secrets
    BY Values
  <2>2. \A s \in Secrets : Len(s.value) \in Nat /\ Len(s.value) > 0
    BY Values
  <2> QED BY <2>1, <2>2
<1>1. PICK f : Detects(text, f)
  BY Detecting
<1>2. \A k \in 1 .. n : f[k] = f[k - 1] \cup Free(f[k - 1], Matches(text, k))
  BY <1>1 DEF Detects
<1>3. ASSUME NEW k \in 1 .. n, NEW c \in Matches(text, k), NEW d \in Matches(text, k)
      PROVE  c = d \/ Disjoint(c, d)
  <2>1. PICK i \in Scan(text, Rules[k].value) : c = Claim(Rules[k], i)
    BY <1>3 DEF Matches
  <2>2. PICK j \in Scan(text, Rules[k].value) : d = Claim(Rules[k], j)
    BY <1>3 DEF Matches
  <2>3. i = j \/ i + Len(Rules[k].value) <= j \/ j + Len(Rules[k].value) <= i
    BY <1>0, <2>1, <2>2, ScanApart
  <2>4. c.start = i /\ c.end = i + Len(Rules[k].value) /\ d.start = j /\ d.end = j + Len(Rules[k].value)
    BY <2>1, <2>2 DEF Claim
  <2> QED BY <2>1, <2>2, <2>3, <2>4 DEF Disjoint
<1> DEFINE P == {k \in Int : \A c, d \in f[k] : c = d \/ Disjoint(c, d)}
<1>4. 0 .. n \subseteq P
  <2>1. 0 \in P
    BY <1>1 DEF Detects
  <2>2. ASSUME NEW k \in 0 + 1 .. n, k - 1 \in P PROVE k \in P
    <3>1. k \in 1 .. n /\ k \in Int
      BY <1>0
    <3>2. f[k] = f[k - 1] \cup Free(f[k - 1], Matches(text, k))
      BY <1>2, <3>1
    <3>3. \A c, d \in f[k - 1] : c = d \/ Disjoint(c, d)
      BY <2>2
    <3>4. \A c \in Free(f[k - 1], Matches(text, k)) :
            c \in Matches(text, k) /\ \A d \in f[k - 1] : Disjoint(c, d) /\ Disjoint(d, c)
      BY DEF Free, Disjoint
    <3>5. \A c, d \in f[k] : c = d \/ Disjoint(c, d)
      BY <1>3, <3>1, <3>2, <3>3, <3>4
    <3> QED BY <3>1, <3>5
  <2>3. 0 \in Int /\ n \in Int
    BY <1>0
  <2> HIDE DEF P, n
  <2> QED BY <2>1, <2>2, <2>3, Climb
<1>5. n \in P
  <2> HIDE DEF P
  <2> QED BY <1>0, <1>4
<1> QED BY <1>1, <1>5 DEF Detects

-----------------------------------------------------------------------------
(* Placeholders are numbered. *)

\* The entries of one type have different numbers, none above their count.
OfType(v, type) == {i \in 1 .. Len(v) : v[i].type = type}
Numbered(v) ==
    /\ VaultOK(v)
    /\ \A i, j \in 1 .. Len(v) : v[i].type = v[j].type /\ v[i].n = v[j].n => i = j
    /\ \A i \in 1 .. Len(v) : v[i].n <= Cardinality(OfType(v, v[i].type))

\* So no two have the same placeholder.
LEMMA NumberedIsLucid ==
    ASSUME PlaceholdersReadApart, NEW v, Numbered(v)
    PROVE  Lucid(v)
<1>1. VaultOK(v) /\ v \in Seq(Mappings)
  BY DEF Numbered, VaultOK
<1>2. ASSUME NEW i \in 1 .. Len(v), NEW j \in 1 .. Len(v), Token(v[i]) = Token(v[j]) PROVE i = j
  <2>1. v[i] \in Mappings /\ v[j] \in Mappings
    BY <1>1, ElementOfSeq
  <2>2. v[i].type = v[j].type /\ v[i].n = v[j].n
    BY <1>2, <2>1, TokensAreTokens
  <2> QED BY <2>2 DEF Numbered
<1> QED BY <1>1, <1>2 DEF Lucid

\* A vault that others have added to.
GrowsInto(v, w) == Numbered(v) => Numbered(w) /\ Extends(v, w)

\* How many there are of a type, in a vault with one entry more.
Counts(v, w, m, type) ==
    /\ IsFiniteSet(OfType(v, type)) /\ Cardinality(OfType(v, type)) \in Nat
    /\ m.type = type => Cardinality(OfType(w, type)) = Cardinality(OfType(v, type)) + 1
    /\ m.type # type => OfType(w, type) = OfType(v, type)

\* One entry more, and how many of its type there are.
LEMMA CountOfType ==
    ASSUME NEW v \in Seq(Mappings), NEW m \in Mappings, NEW w, w = Append(v, m), NEW type
    PROVE  Counts(v, w, m, type)
<1> DEFINE n == Len(v)
           S == OfType(v, type)
<1>1. n \in Nat /\ Len(w) = n + 1 /\ w[n + 1] = m /\ \A i \in 1 .. n : w[i] = v[i]
  OBVIOUS
<1>2. IsFiniteSet(S) /\ Cardinality(S) \in Nat
  <2> DEFINE I == 1 .. n
  <2>1. IsFiniteSet(I)
    <3>1. \A a, b \in Int : IsFiniteSet(a .. b)
      BY FS_Interval
    <3> HIDE DEF n
    <3> QED BY <1>1, <3>1
  <2>2. S \subseteq I
    BY DEF OfType
  <2> HIDE DEF I, S
  <2> QED BY <2>1, <2>2, FS_Subset, FS_CardinalityType
<1>3. ASSUME m.type = type PROVE Cardinality(OfType(w, type)) = Cardinality(S) + 1
  <2>1. \A i \in 1 .. n + 1 : i \in OfType(w, type) <=> i = n + 1 \/ (i \in 1 .. n /\ v[i].type = type)
    BY <1>1, <1>3 DEF OfType
  <2>2. OfType(w, type) \subseteq 1 .. n + 1 /\ S \subseteq 1 .. n + 1 /\ n + 1 \notin S /\ n + 1 \in 1 .. n + 1
    BY <1>1 DEF OfType
  <2>3. \A i : i \in S <=> i \in 1 .. n /\ v[i].type = type
    BY DEF OfType
  <2>4. OfType(w, type) = S \cup {n + 1}
    <3> HIDE DEF S, n
    <3> QED BY <2>1, <2>2, <2>3
  <2> HIDE DEF S, n
  <2> QED BY <1>2, <2>2, <2>4, FS_AddElement
<1>4. ASSUME m.type # type PROVE OfType(w, type) = S
  <2>1. \A i \in 1 .. n + 1 : i \in 1 .. n \/ i = n + 1
    BY <1>1
  <2>2. \A i \in 1 .. n : i \in 1 .. n + 1
    BY <1>1
  <2> QED BY <1>1, <1>4, <2>1, <2>2 DEF OfType
<1> QED BY <1>2, <1>3, <1>4 DEF Counts

\* Minting adds one.
LEMMA TokenizeGoes ==
    ASSUME NEW v, VaultOK(v), NEW s \in Secrets
    PROVE  GrowsInto(v, Tokenize(v, s.value, s.type))
<1> DEFINE w == Tokenize(v, s.value, s.type)
           m == NewMapping(v, s.value, s.type)
           n == Len(v)
<1>1. v \in Seq(Mappings) /\ n \in Nat /\ VaultOK(w)
  <2>1. VaultOK(w)
    BY Tokenizing
  <2>2. v \in Seq(Mappings)
    BY DEF VaultOK
  <2>3. n \in Nat
    BY <2>2
  <2> QED BY <2>1, <2>2, <2>3
<1> SUFFICES ASSUME Numbered(v) PROVE Numbered(w) /\ Extends(v, w)
  BY DEF GrowsInto
<1>2. CASE Minted(v, s.value)
  <2>1. w = v
    BY <1>2 DEF Tokenize
  <2>2. Extends(v, v)
    BY <1>1 DEF Extends
  <2> HIDE DEF w
  <2> QED BY <2>1, <2>2
<1>3. CASE ~Minted(v, s.value)
  <2>1. w = Append(v, m)
    BY <1>3 DEF Tokenize
  <2>2. m.type = s.type /\ m.n = 1 + Cardinality(OfType(v, s.type))
    <3>1. DOMAIN v = 1 .. n
      BY <1>1, LenProperties
    <3> QED BY <3>1 DEF NewMapping, OfType
  <2>a. Len(w) = n + 1 /\ w[n + 1] = m /\ \A i \in 1 .. n : w[i] = v[i]
    BY <1>1, <2>1
  <2>b. n + 1 \in 1 .. Len(w)
    BY <1>1, <2>a
  <2>3. m \in Mappings
    <3>1. w \in Seq(Mappings)
      BY <1>1 DEF VaultOK
    <3>2. \A x \in Seq(Mappings) : \A i \in 1 .. Len(x) : x[i] \in Mappings
      BY ElementOfSeq
    <3> HIDE DEF w, m, n
    <3> QED BY <2>a, <2>b, <3>1, <3>2
  <2> HIDE DEF w, m, n
  <2>4. Extends(v, w)
    BY <1>1, <2>a DEF Extends, n
  <2>5. \A i \in 1 .. n + 1 : i \in 1 .. n \/ i = n + 1
    BY <1>1
  <2>6. \A i \in 1 .. n : v[i].n <= Cardinality(OfType(v, v[i].type)) /\ v[i].n \in Nat
    <3>1. ASSUME NEW i \in 1 .. n PROVE v[i].n \in Nat
      <4>1. v[i] \in Mappings
        BY <1>1, ElementOfSeq DEF n
      <4>2. Len(Hints) + Len(Rules) \in Nat
        BY Values
      <4> QED BY <4>1, <4>2 DEF Mappings
    <3> QED BY <3>1 DEF Numbered, n
  <2>7. ASSUME NEW i \in 1 .. n, v[i].type = s.type PROVE v[i].n < m.n
    <3>1. Cardinality(OfType(v, s.type)) \in Nat
      BY <1>1, <2>1, <2>3, CountOfType DEF Counts
    <3> QED BY <2>2, <2>6, <2>7, <3>1
  <2>8. ASSUME NEW i \in 1 .. Len(w), NEW j \in 1 .. Len(w), w[i].type = w[j].type, w[i].n = w[j].n
        PROVE  i = j
    <3>1. \A k \in 1 .. n : v[k].type = s.type => v[k].n # m.n
      <4>1. Cardinality(OfType(v, s.type)) \in Nat
        BY <1>1, <2>1, <2>3, CountOfType DEF Counts
      <4> QED BY <2>2, <2>6, <2>7, <4>1
    <3>2. \A k, l \in 1 .. n : v[k].type = v[l].type /\ v[k].n = v[l].n => k = l
      BY DEF Numbered, n
    <3> QED BY <2>2, <2>5, <2>8, <2>a, <3>1, <3>2
  <2>9. ASSUME NEW i \in 1 .. Len(w) PROVE w[i].n <= Cardinality(OfType(w, w[i].type))
    <3>1. \A t : /\ Cardinality(OfType(v, t)) \in Nat
                 /\ Cardinality(OfType(w, t)) = Cardinality(OfType(v, t)) + 1 \/ t # m.type
                 /\ OfType(w, t) = OfType(v, t) \/ t = m.type
      <4> SUFFICES ASSUME NEW t
                   PROVE  /\ Cardinality(OfType(v, t)) \in Nat
                          /\ Cardinality(OfType(w, t)) = Cardinality(OfType(v, t)) + 1 \/ t # m.type
                          /\ OfType(w, t) = OfType(v, t) \/ t = m.type
        OBVIOUS
      <4>1. /\ Cardinality(OfType(v, t)) \in Nat
            /\ m.type = t => Cardinality(OfType(w, t)) = Cardinality(OfType(v, t)) + 1
            /\ m.type # t => OfType(w, t) = OfType(v, t)
        <5>1. Counts(v, w, m, t)
          BY <1>1, <2>1, <2>3, CountOfType
        <5> QED BY <5>1 DEF Counts
      <4> QED BY <4>1, Zenon
    <3>2. CASE i = n + 1
      BY <2>2, <2>a, <3>1, <3>2
    <3>3. CASE i \in 1 .. n
      <4>1. w[i] = v[i]
        BY <2>a, <3>3
      <4> DEFINE t == v[i].type
      <4>2. Cardinality(OfType(w, t)) = Cardinality(OfType(v, t)) + 1 \/ Cardinality(OfType(w, t)) = Cardinality(OfType(v, t))
        BY <3>1
      <4>3. v[i].n <= Cardinality(OfType(v, t)) /\ v[i].n \in Nat /\ Cardinality(OfType(v, t)) \in Nat
        BY <2>6, <3>1, <3>3
      <4>4. v[i].n <= Cardinality(OfType(w, t))
        <5> HIDE DEF t
        <5> QED BY <4>2, <4>3
      <4> QED BY <4>1, <4>4
    <3> QED BY <2>5, <2>a, <3>2, <3>3
  <2> QED BY <1>1, <2>4, <2>8, <2>9 DEF Numbered, w
<1> QED BY <1>2, <1>3

\* One addition after another.
LEMMA GrowsOn ==
    ASSUME NEW u, NEW v, NEW w, GrowsInto(u, v), GrowsInto(v, w)
    PROVE  GrowsInto(u, w)
<1> SUFFICES ASSUME Numbered(u) PROVE Numbered(w) /\ Extends(u, w)
  BY DEF GrowsInto
<1>1. Numbered(v) /\ Extends(u, v)
  BY DEF GrowsInto
<1>2. Numbered(w) /\ Extends(v, w)
  BY <1>1 DEF GrowsInto
<1>3. Extends(u, w)
  BY <1>1, <1>2 DEF Extends
<1> QED BY <1>2, <1>3

\* And none.
LEMMA GrowsNowhere ==
    ASSUME NEW v, VaultOK(v)
    PROVE  GrowsInto(v, v)
<1>1. Len(v) \in Nat
  BY LenProperties DEF VaultOK
<1> QED BY <1>1 DEF GrowsInto, Extends

-----------------------------------------------------------------------------
(* Vaults are numbered, and only grow at their end. *)

\* So is a vault in which all claims have been minted.
LEMMA MintForGoes ==
    ASSUME NEW v, VaultOK(v), NEW claims, \A c \in claims : c.rule \in Secrets, NEW len \in Nat
    PROVE  GrowsInto(v, MintFor(v, claims, len))
<1>1. PICK f : Mints(v, claims, len, f)
  BY Minting
<1>2. \A i \in 0 .. len : VaultOK(f[i])
  BY <1>1, AreVaults DEF Mints
<1>3. /\ MintFor(v, claims, len) = f[len] /\ f[0] = v /\ len \in 0 .. len
      /\ \A i \in 1 .. len :
           f[i] = IF \E c \in claims : c.start = i
                  THEN Tokenize(f[i - 1], Starting(claims, i).rule.value, Starting(claims, i).rule.type)
                  ELSE f[i - 1]
  BY <1>1 DEF Mints
<1> DEFINE P == {i \in Int : GrowsInto(v, f[i])}
<1>4. 0 \in P
  BY <1>3, GrowsNowhere
<1>5. ASSUME NEW i \in 0 + 1 .. len, i - 1 \in P PROVE i \in P
  <2>1. i \in 1 .. len /\ i \in Int /\ i - 1 \in 0 .. len
    OBVIOUS
  <2>2. GrowsInto(f[i - 1], f[i])
    <3>1. CASE \E c \in claims : c.start = i
      <4> DEFINE s == Starting(claims, i).rule
                 u == f[i - 1]
      <4>1. s \in Secrets
        BY <3>1 DEF Starting
      <4>2. f[i] = Tokenize(u, s.value, s.type)
        BY <1>3, <2>1, <3>1
      <4>3. VaultOK(u)
        BY <1>2, <2>1
      <4> HIDE DEF s, u
      <4>4. GrowsInto(u, f[i])
        BY <4>1, <4>2, <4>3, TokenizeGoes
      <4> QED BY <4>4 DEF u
    <3>2. CASE ~\E c \in claims : c.start = i
      <4>1. f[i] = f[i - 1] /\ VaultOK(f[i - 1])
        BY <1>2, <1>3, <2>1, <3>2
      <4> QED BY <4>1, GrowsNowhere
    <3> QED BY <3>1, <3>2
  <2>3. GrowsInto(v, f[i - 1])
    BY <1>5
  <2>4. GrowsInto(v, f[i])
    BY <2>2, <2>3, GrowsOn
  <2> QED BY <2>1, <2>4
<1>6. 0 \in Int /\ len \in Int
  OBVIOUS
<1> HIDE DEF P
<1>7. len \in P
  BY <1>3, <1>4, <1>5, <1>6, Climb
<1> QED BY <1>3, <1>7 DEF P

\* The entries of a new vault are numbered.
LEMMA NewVaultNumbered == Numbered(NewVault)
<1> DEFINE n == Len(Hints)
<1>1. PICK f : Declares(f)
  BY Declaring
<1>2. \A i \in 0 .. n : VaultOK(f[i])
  BY <1>1, AreVaults DEF Declares
<1>3. /\ NewVault = f[n] /\ f[0] = <<>> /\ n \in Nat
      /\ \A i \in 1 .. n : f[i] = Tokenize(f[i - 1], Hints[i].value, Hints[i].type)
  BY <1>1, Values DEF Declares
<1> DEFINE P == {i \in Int : Numbered(f[i])}
<1>4. 0 \in P
  <2>1. VaultOK(f[0]) /\ 1 .. Len(f[0]) = {}
    <3>1. 0 \in 0 .. n
      BY <1>3
    <3> QED BY <1>2, <1>3, <3>1
  <2> QED BY <2>1 DEF Numbered
<1>5. ASSUME NEW i \in 0 + 1 .. n, i - 1 \in P PROVE i \in P
  <2>1. i \in 1 .. n /\ i \in Int /\ i - 1 \in 0 .. n
    BY <1>3
  <2>2. Hints[i] \in Secrets
    BY <2>1, Values
  <2> DEFINE s == Hints[i]
             u == f[i - 1]
  <2>3. VaultOK(u) /\ Numbered(u) /\ f[i] = Tokenize(u, s.value, s.type) /\ s \in Secrets
    BY <1>2, <1>3, <1>5, <2>1, <2>2
  <2> HIDE DEF s, u
  <2>4. GrowsInto(u, f[i])
    BY <2>3, TokenizeGoes
  <2>5. Numbered(f[i])
    BY <2>3, <2>4 DEF GrowsInto
  <2> QED BY <2>1, <2>5
<1>6. 0 \in Int /\ n \in Int /\ n \in 0 .. n
  BY <1>3
<1> HIDE DEF P, n
<1>7. n \in P
  BY <1>4, <1>5, <1>6, Climb
<1> QED BY <1>3, <1>7 DEF P, n

\* A value has the placeholder of its entry.
LEMMA TokenOfEntry ==
    ASSUME NEW v, VaultOK(v), NEW k \in 1 .. Len(v), NEW value, v[k].value = value
    PROVE  TokenOf(v, value) = Token(v[k])
<1> DEFINE S == {i \in DOMAIN v : v[i].value = value}
<1>1. Len(v) \in Nat /\ DOMAIN v = 1 .. Len(v)
  BY LenProperties DEF VaultOK
<1>2. S = {k}
  BY <1>1 DEF VaultOK
<1>3. TokenOf(v, value) = Token(v[Max(S)])
  BY DEF TokenOf
<1>4. S \in SUBSET (1 .. Len(v)) /\ S # {}
  BY <1>2
<1> HIDE DEF S
<1>5. Max(S) \in S
  BY <1>1, <1>4, LargestIn
<1>6. Max(S) = k
  BY <1>2, <1>5
<1> QED BY <1>3, <1>6

\* Which stays, when others are added.
LEMMA TokenOfStays ==
    ASSUME NEW v, VaultOK(v), NEW w, VaultOK(w), Extends(v, w), NEW value, Minted(v, value)
    PROVE  Minted(w, value) /\ TokenOf(w, value) = TokenOf(v, value)
<1>1. DOMAIN v = 1 .. Len(v) /\ DOMAIN w = 1 .. Len(w)
  BY LenProperties DEF VaultOK
<1>2. PICK k \in 1 .. Len(v) : v[k].value = value
  BY <1>1 DEF Minted
<1>3. k \in 1 .. Len(w) /\ w[k] = v[k]
  BY DEF Extends
<1>4. TokenOf(v, value) = Token(v[k]) /\ TokenOf(w, value) = Token(w[k])
  BY <1>2, <1>3, TokenOfEntry
<1> QED BY <1>1, <1>2, <1>3, <1>4 DEF Minted

\* So the declared values are masked in the same way ever after.
LEMMA HintsStay ==
    ASSUME NEW v, VaultOK(v), AllMinted(v), NEW w, VaultOK(w), Extends(v, w), NEW raw \in Seq(Words)
    PROVE  AllMinted(w) /\ ApplyHints(w, raw) = ApplyHints(v, raw)
<1>1. AllMinted(w)
  BY TokenOfStays DEF AllMinted
<1>2. PICK f : Applies(v, raw, f)
  BY Applying
<1>3. PICK g : Applies(w, raw, g)
  BY <1>1, Applying
<1> DEFINE n == Len(Hints)
           P == {k \in Int : f[k] = g[k]}
<1>4. n \in Int /\ 0 \in Int /\ n \in 0 .. n
  BY Values
<1>5. 0 \in P
  BY <1>2, <1>3 DEF Applies
<1>6. ASSUME NEW k \in 0 + 1 .. n, k - 1 \in P PROVE k \in P
  <2>1. k \in 1 .. n /\ k \in Int
    BY <1>4
  <2>2. PICK j \in 1 .. Len(Hints) : HintOrder[k] = Hints[j]
    BY <2>1, Placing
  <2>3. Minted(v, HintOrder[k].value)
    BY <2>2 DEF AllMinted
  <2>4. TokenOf(w, HintOrder[k].value) = TokenOf(v, HintOrder[k].value)
    BY <2>3, TokenOfStays
  <2>5. f[k] = Replace(f[k - 1], HintOrder[k].value, TokenOf(v, HintOrder[k].value))
    BY <1>2, <2>1 DEF Applies
  <2>6. g[k] = Replace(g[k - 1], HintOrder[k].value, TokenOf(w, HintOrder[k].value))
    BY <1>3, <2>1 DEF Applies
  <2> QED BY <1>6, <2>1, <2>4, <2>5, <2>6
<1> HIDE DEF P, n
<1>7. n \in P
  BY <1>4, <1>5, <1>6, Climb
<1>8. f[n] = g[n]
  BY <1>7 DEF P
<1> QED BY <1>1, <1>2, <1>3, <1>8 DEF Applies, n
-----------------------------------------------------------------------------
(* Masked texts. *)

\* m is what the text raw is masked to, with a vault that has all it takes.
Veiling(w, t) == {Span(c.start, c.rule.value, TokenOf(w, c.rule.value)) : c \in Detect(t)}
HasClaims(w, t) == \A c \in Detect(t) : Minted(w, c.rule.value)
Encoded(w, raw, m) ==
    /\ HasClaims(w, ApplyHints(w, raw))
    /\ m = Splice(ApplyHints(w, raw), Veiling(w, ApplyHints(w, raw)))

\* Masking a text only adds to the vault, and encodes the text.
Encodes(v, raw, m) == GrowsInto(v, m.vault) /\ Encoded(m.vault, raw, m.text)

\* A text that is masked.
LEMMA MaskTextEncodes ==
    ASSUME NEW v, Ready(v), Numbered(v), NEW raw \in Seq(Words)
    PROVE  Encodes(v, raw, MaskText(v, raw))
<1> DEFINE t == ApplyHints(v, raw)
           C == Detect(t)
           len == Len(t)
           m == MintFor(v, C, len)
           out == Splice(t, Veiling(m, t))
<1>0. VaultOK(v) /\ AllMinted(v)
  BY DEF Ready
<1>1. MaskText(v, raw) = [vault |-> m, text |-> out]
  BY DEF MaskText, Veiling
<1>2. t \in Seq(Words)
  BY <1>0, HintsAreGone
<1> HIDE DEF t
<1>3. (\A c \in C : IsClaim(t, c)) /\ StartApart(C) /\ len \in Nat
  BY <1>2, Claiming, LenProperties
<1> HIDE DEF C, len
<1>4. \A c \in C : c.rule \in Secrets /\ c.start \in 1 .. len
  <2>1. ASSUME NEW c \in C PROVE c.rule \in Secrets /\ c.start \in 1 .. len
    <3>1. PICK rule \in Secrets : c = Claim(rule, c.start) /\ c.start \in 1 .. Len(t)
      BY <1>3 DEF IsClaim
    <3>2. c.rule = rule
      BY <3>1 DEF Claim
    <3> QED BY <3>1, <3>2 DEF len
  <2> QED BY <2>1
<1>5. GrowsInto(v, m)
  BY <1>0, <1>3, <1>4, MintForGoes
<1>6. VaultOK(m) /\ \A c \in C : Minted(m, c.rule.value)
  BY <1>0, <1>3, <1>4, MintForIs
<1> HIDE DEF m
<1>7. ApplyHints(m, raw) = t
  <2>1. Extends(v, m)
    BY <1>5 DEF GrowsInto
  <2> QED BY <1>0, <1>6, <2>1, HintsStay DEF t
<1>8. Encoded(m, raw, out)
  BY <1>6, <1>7 DEF Encoded, HasClaims, C
<1> HIDE DEF out
<1> QED BY <1>1, <1>5, <1>8 DEF Encodes

\* What is encoded stays so, whatever is added to the vault.
LEMMA EncodedOnward ==
    ASSUME NEW v, Ready(v), NEW w, VaultOK(w), Extends(v, w), NEW raw \in Seq(Words), NEW m, Encoded(v, raw, m)
    PROVE  Encoded(w, raw, m)
<1> DEFINE t == ApplyHints(v, raw)
<1>0. VaultOK(v) /\ AllMinted(v)
  BY DEF Ready
<1>1. ApplyHints(w, raw) = t
  BY <1>0, HintsStay
<1>2. HasClaims(v, t) /\ m = Splice(t, Veiling(v, t))
  BY DEF Encoded
<1> HIDE DEF t
<1>3. \A c \in Detect(t) : Minted(w, c.rule.value) /\ TokenOf(w, c.rule.value) = TokenOf(v, c.rule.value)
  BY <1>0, <1>2, TokenOfStays DEF HasClaims
<1>4. Veiling(w, t) = Veiling(v, t)
  BY <1>3 DEF Veiling
<1> QED BY <1>1, <1>2, <1>3, <1>4 DEF Encoded, HasClaims

\* Spans of values that were minted, apart from each other.
LEMMA VeilsAre ==
    ASSUME NEW v, VaultOK(v), NEW t, NEW cuts,
           \A c \in cuts : /\ c.start \in 1 .. Len(t)
                           /\ \E value : /\ Minted(v, value) /\ At(t, c.start, value)
                                         /\ c = Span(c.start, value, TokenOf(v, value)),
           \A c, d \in cuts : c = d \/ Disjoint(c, d)
    PROVE  Veils(v, t, cuts)
<1>1. ASSUME NEW c \in cuts PROVE Veil(v, t, c)
  <2>1. PICK value : /\ Minted(v, value) /\ At(t, c.start, value)
                     /\ c = Span(c.start, value, TokenOf(v, value))
    OBVIOUS
  <2>2. PICK k \in DOMAIN v : v[k].value = value
    BY <2>1 DEF Minted
  <2>3. k \in 1 .. Len(v)
    BY <2>2, LenProperties DEF VaultOK
  <2>4. TokenOf(v, value) = Token(v[k])
    BY <2>2, <2>3, TokenOfEntry
  <2> QED BY <2>1, <2>2, <2>3, <2>4 DEF Veil
<1> QED BY <1>1 DEF Veils

\* A text whose values are replaced by placeholders still reads as it did.
LEMMA ReplaceReads ==
    ASSUME PlaceholdersReadApart, NEW v, VaultOK(v), NEW t, NEW r, Means(v, t, r),
           NEW s \in Secrets, Minted(v, s.value)
    PROVE  Means(v, Replace(t, s.value, TokenOf(v, s.value)), r)
<1> DEFINE old == s.value
           new == TokenOf(v, old)
           cuts == {Span(i, old, new) : i \in Scan(t, old)}
<1>1. t \in Seq(Words) /\ Len(old) \in Nat /\ Len(old) > 0
  BY Values DEF Means
<1>2. \A i \in Scan(t, old) : i \in 1 .. Len(t) /\ At(t, i, old)
  BY <1>1, Found
<1>3. \A i, j \in Scan(t, old) : i = j \/ i + Len(old) <= j \/ j + Len(old) <= i
  BY <1>1, ScanApart
<1>a. Minted(v, old)
  OBVIOUS
<1> HIDE DEF old, new
<1>4. ASSUME NEW c \in cuts
      PROVE  /\ c.start \in 1 .. Len(t)
             /\ \E value : /\ Minted(v, value) /\ At(t, c.start, value)
                           /\ c = Span(c.start, value, TokenOf(v, value))
  <2>1. PICK i \in Scan(t, old) : c = Span(i, old, new)
    OBVIOUS
  <2>2. c.start = i
    BY <2>1 DEF Span
  <2>3. i \in 1 .. Len(t) /\ At(t, i, old)
    BY <1>2
  <2>4. c = Span(c.start, old, TokenOf(v, old))
    BY <2>1, <2>2 DEF new
  <2> QED BY <1>a, <2>2, <2>3, <2>4
<1>5. ASSUME NEW c \in cuts, NEW d \in cuts PROVE c = d \/ Disjoint(c, d)
  <2>1. PICK i \in Scan(t, old) : c = Span(i, old, new)
    OBVIOUS
  <2>2. PICK j \in Scan(t, old) : d = Span(j, old, new)
    OBVIOUS
  <2>3. i = j \/ i + Len(old) <= j \/ j + Len(old) <= i
    BY <1>3
  <2>4. c.start = i /\ c.end = i + Len(old) /\ d.start = j /\ d.end = j + Len(old)
    BY <2>1, <2>2 DEF Span
  <2> QED BY <2>1, <2>2, <2>3, <2>4 DEF Disjoint
<1> HIDE DEF cuts
<1>6. Veils(v, t, cuts)
  BY <1>4, <1>5, VeilsAre
<1>7. Means(v, Splice(t, cuts), r)
  BY <1>6, VeiledReads
<1> QED BY <1>7 DEF Replace, cuts, old, new

\* And so do the declared values.
LEMMA HintsRead ==
    ASSUME PlaceholdersReadApart, NEW v, VaultOK(v), AllMinted(v), NEW raw \in Seq(Words), Unclosed(raw)
    PROVE  Means(v, ApplyHints(v, raw), raw)
<1>1. PICK f : Applies(v, raw, f)
  BY Applying
<1> DEFINE n == Len(Hints)
           P == {k \in Int : Means(v, f[k], raw)}
<1>2. n \in Int /\ 0 \in Int /\ n \in 0 .. n
  BY Values
<1>3. 0 \in P
  <2>1. Means(v, raw, raw)
    BY ReadsPlain
  <2> QED BY <1>1, <2>1 DEF Applies
<1>4. ASSUME NEW k \in 0 + 1 .. n, k - 1 \in P PROVE k \in P
  <2>1. k \in 1 .. n /\ k \in Int
    BY <1>2
  <2>2. PICK j \in 1 .. Len(Hints) : HintOrder[k] = Hints[j]
    BY <2>1, Placing
  <2> DEFINE s == HintOrder[k]
  <2>3. Minted(v, s.value) /\ s \in Secrets
    BY <2>1, <2>2, Placing DEF AllMinted
  <2>4. f[k] = Replace(f[k - 1], s.value, TokenOf(v, s.value))
    BY <1>1, <2>1 DEF Applies
  <2>5. Means(v, f[k - 1], raw)
    BY <1>4
  <2> HIDE DEF s
  <2>6. Means(v, f[k], raw)
    BY <2>3, <2>4, <2>5, ReplaceReads
  <2> QED BY <2>1, <2>6
<1> HIDE DEF P, n
<1>5. n \in P
  BY <1>2, <1>3, <1>4, Climb
<1>6. Means(v, f[n], raw)
  BY <1>5 DEF P
<1> QED BY <1>1, <1>6 DEF Applies, n

\* So an encoded text reads as the text it was made of.
LEMMA EncodedReads ==
    ASSUME PlaceholdersReadApart, NEW v, Ready(v), NEW raw \in Seq(Words), Unclosed(raw), NEW m, Encoded(v, raw, m)
    PROVE  Means(v, m, raw)
<1> DEFINE t == ApplyHints(v, raw)
           cuts == Veiling(v, t)
<1>0. VaultOK(v) /\ AllMinted(v)
  BY DEF Ready
<1>1. Means(v, t, raw)
  BY <1>0, HintsRead
<1>2. HasClaims(v, t) /\ m = Splice(t, cuts)
  BY DEF Encoded
<1> HIDE DEF t
<1>3. t \in Seq(Words)
  BY <1>1 DEF Means
<1>4. ASSUME NEW c \in Detect(t)
      PROVE  /\ c.start \in 1 .. Len(t) /\ At(t, c.start, c.rule.value) /\ Minted(v, c.rule.value)
             /\ c.end = c.start + Len(c.rule.value)
  <2>1. IsClaim(t, c)
    BY <1>3, Claiming
  <2>2. PICK rule \in Secrets : /\ c = Claim(rule, c.start)
                                /\ c.start \in 1 .. Len(t) /\ At(t, c.start, rule.value)
    BY <2>1 DEF IsClaim
  <2>3. c.rule = rule /\ c.end = c.start + Len(rule.value)
    BY <2>2 DEF Claim
  <2> QED BY <1>2, <2>2, <2>3 DEF HasClaims
<1>5. ASSUME NEW c \in cuts
      PROVE  /\ c.start \in 1 .. Len(t)
             /\ \E value : /\ Minted(v, value) /\ At(t, c.start, value)
                           /\ c = Span(c.start, value, TokenOf(v, value))
  <2>1. PICK d \in Detect(t) : c = Span(d.start, d.rule.value, TokenOf(v, d.rule.value))
    BY DEF Veiling
  <2>2. c.start = d.start
    BY <2>1 DEF Span
  <2> HIDE DEF cuts
  <2> QED BY <1>4, <2>1, <2>2
<1>6. ASSUME NEW c \in cuts, NEW d \in cuts PROVE c = d \/ Disjoint(c, d)
  <2>1. PICK a \in Detect(t) : c = Span(a.start, a.rule.value, TokenOf(v, a.rule.value))
    BY DEF Veiling
  <2>2. PICK b \in Detect(t) : d = Span(b.start, b.rule.value, TokenOf(v, b.rule.value))
    BY DEF Veiling
  <2>3. a = b \/ Disjoint(a, b)
    BY <1>3, ClaimsApart
  <2>4. c.start = a.start /\ c.end = a.start + Len(a.rule.value) /\ d.start = b.start /\ d.end = b.start + Len(b.rule.value)
    BY <2>1, <2>2 DEF Span
  <2>5. a.end = a.start + Len(a.rule.value) /\ b.end = b.start + Len(b.rule.value)
    BY <1>4
  <2>6. c.end = a.end /\ d.end = b.end
    BY <2>4, <2>5, Zenon
  <2>7. CASE a = b
    BY <2>1, <2>2, <2>7
  <2>8. CASE Disjoint(a, b)
    BY <2>4, <2>6, <2>8 DEF Disjoint
  <2> QED BY <2>3, <2>7, <2>8
<1> HIDE DEF cuts
<1>7. Veils(v, t, cuts)
  BY <1>0, <1>5, <1>6, VeilsAre
<1>8. Means(v, Splice(t, cuts), raw)
  BY <1>0, <1>1, <1>7, VeiledReads
<1> QED BY <1>2, <1>8

-----------------------------------------------------------------------------
(* Payloads. *)

\* Every text of a payload is encoded, with the vault that is there in the end.
AllEncoded(v, texts, out, n) ==
    /\ Len(out) = n
    /\ \A i \in 1 .. n : Encoded(v, texts[i], out[i])
EncodesAll(v, texts, p) ==
    /\ GrowsInto(v, p.vault) /\ Ready(p.vault)
    /\ AllEncoded(p.vault, texts, p.texts, Len(texts))

\* One text more.
LEMMA OneMoreEncoded ==
    ASSUME NEW v, Ready(v), Numbered(v), NEW texts \in Seq(Seq(Words)), NEW n \in Nat, n + 1 <= Len(texts),
           NEW out \in Seq(Safe), AllEncoded(v, texts, out, n),
           NEW m, Encodes(v, texts[n + 1], m), m.text \in Safe, VaultOK(m.vault)
    PROVE  AllEncoded(m.vault, texts, Append(out, m.text), n + 1)
<1> DEFINE more == Append(out, m.text)
<1>1. Extends(v, m.vault) /\ Encoded(m.vault, texts[n + 1], m.text)
  BY DEF Encodes, GrowsInto
<1>2. Len(out) = n /\ \A i \in 1 .. n : Encoded(v, texts[i], out[i])
  BY DEF AllEncoded
<1>3. Len(more) = n + 1 /\ more[n + 1] = m.text /\ \A i \in 1 .. n : more[i] = out[i]
  BY <1>2, AppendProperties
<1>4. ASSUME NEW i \in 1 .. n PROVE Encoded(m.vault, texts[i], out[i])
  <2>1. i \in 1 .. Len(texts)
    BY LenProperties
  <2>2. texts[i] \in Seq(Words)
    BY <2>1, ElementOfSeq
  <2> DEFINE raw == texts[i]
             o == out[i]
  <2>3. raw \in Seq(Words) /\ Encoded(v, raw, o)
    BY <1>2, <2>2
  <2> HIDE DEF raw, o
  <2>4. Encoded(m.vault, raw, o)
    BY <1>1, <2>3, EncodedOnward
  <2> QED BY <2>4 DEF raw, o
<1> HIDE DEF more
<1>5. ASSUME NEW i \in 1 .. n + 1 PROVE Encoded(m.vault, texts[i], more[i])
  <2>1. CASE i = n + 1
    BY <1>1, <1>3, <2>1
  <2>2. CASE i # n + 1
    <3>1. i \in 1 .. n
      BY <2>2
    <3> QED BY <1>3, <1>4, <3>1
  <2> QED BY <2>1, <2>2
<1> QED BY <1>3, <1>5 DEF AllEncoded, more

\* Masking a payload encodes each of its texts.
LEMMA MaskPayloadEncodes ==
    ASSUME NEW v, Ready(v), Numbered(v), NEW texts \in Seq(Seq(Words))
    PROVE  EncodesAll(v, texts, MaskPayload(v, texts))
<1> DEFINE n == Len(texts)
<1>1. PICK f : MasksTexts(v, texts, f)
  BY MaskingTexts
<1>2. n \in Nat /\ n \in Int /\ 0 \in Int /\ n \in 0 .. n
  BY LenProperties
<1> DEFINE Good(i) == GrowsInto(v, f[i].vault) /\ AllEncoded(f[i].vault, texts, f[i].texts, i)
           P == {i \in Int : Good(i)}
<1>3. ASSUME NEW i \in 0 .. n PROVE Ready(f[i].vault) /\ f[i].texts \in Seq(Safe)
  <2> DEFINE m == f[i]
  <2>1. m \in Loads
    BY <1>1, <1>3 DEF MasksTexts
  <2> HIDE DEF m
  <2>2. m.vault \in Vaults /\ AllMinted(m.vault) /\ m.texts \in Seq(Safe)
    BY <2>1 DEF Loads
  <2>3. Ready(m.vault) /\ m.texts \in Seq(Safe)
    BY <2>2, AreVaults DEF Ready
  <2> QED BY <2>3 DEF m
<1>4. 0 \in P
  <2>1. f[0] = [vault |-> v, texts |-> <<>>]
    BY <1>1 DEF MasksTexts
  <2>2. f[0].vault = v /\ f[0].texts = <<>>
    BY <2>1
  <2>3. GrowsInto(v, v)
    BY GrowsNowhere DEF Ready
  <2>4. AllEncoded(v, texts, <<>>, 0)
    BY DEF AllEncoded
  <2> QED BY <2>2, <2>3, <2>4
<1>5. ASSUME NEW i \in 0 + 1 .. n, i - 1 \in P PROVE i \in P
  <2>1. PICK j \in Nat : i = j + 1 /\ j = i - 1 /\ j + 1 <= n /\ j \in 0 .. n /\ i \in 0 .. n /\ i \in 1 .. n
    <3>1. i - 1 \in Nat /\ i = (i - 1) + 1 /\ (i - 1) + 1 <= n /\ i - 1 \in 0 .. n /\ i \in 0 .. n /\ i \in 1 .. n
      BY <1>2
    <3> QED BY <3>1
  <2>2. Good(j)
    BY <1>5, <2>1
  <2> DEFINE u == f[j].vault
             out == f[j].texts
             raw == texts[i]
             m == MaskText(u, raw)
  <2>3. Ready(u) /\ out \in Seq(Safe)
    BY <1>3, <2>1
  <2>4. Numbered(u) /\ GrowsInto(v, u) /\ AllEncoded(u, texts, out, j)
    BY <2>2 DEF GrowsInto
  <2>5. raw \in Seq(Words)
    BY <2>1, ElementOfSeq
  <2>6. f[i] = [vault |-> m.vault, texts |-> Append(out, m.text)]
    <3>1. f[i] = [vault |-> MaskText(f[i - 1].vault, texts[i]).vault,
                  texts |-> Append(f[i - 1].texts, MaskText(f[i - 1].vault, texts[i]).text)]
      BY <1>1, <2>1 DEF MasksTexts
    <3> QED BY <2>1, <3>1
  <2> HIDE DEF u, out
  <2>7. Encodes(u, raw, m)
    BY <2>3, <2>4, <2>5, MaskTextEncodes
  <2>8. MasksText(u, raw, m)
    <3>1. VaultOK(u) /\ AllMinted(u)
      BY <2>3 DEF Ready
    <3> QED BY <2>5, <3>1, MaskTextIs
  <2>9. VaultOK(m.vault) /\ m.text \in Safe
    BY <2>8 DEF MasksText, Safe
  <2>10. raw = texts[j + 1]
    BY <2>1
  <2> HIDE DEF m, raw
  <2>11. AllEncoded(m.vault, texts, Append(out, m.text), j + 1)
    <3>1. Encodes(u, texts[j + 1], m)
      BY <2>7, <2>10
    <3>2. j + 1 <= Len(texts)
      BY <2>1
    <3> QED BY <2>1, <2>3, <2>4, <2>9, <3>1, <3>2, OneMoreEncoded
  <2>12. GrowsInto(v, m.vault)
    <3>1. GrowsInto(u, m.vault)
      BY <2>7 DEF Encodes
    <3> QED BY <2>4, <3>1, GrowsOn
  <2>13. f[i].vault = m.vault /\ f[i].texts = Append(out, m.text)
    BY <2>6
  <2>14. Good(i)
    BY <2>1, <2>11, <2>12, <2>13
  <2> QED BY <2>1, <2>14
<1> HIDE DEF P, n
<1>6. n \in P
  BY <1>2, <1>4, <1>5, Climb
<1>7. Good(n) /\ Ready(f[n].vault) /\ f[n].texts \in Seq(Safe)
  BY <1>2, <1>3, <1>6 DEF P
<1>8. MaskPayload(v, texts) = f[n]
  BY <1>1 DEF MasksTexts, n
<1> QED BY <1>7, <1>8 DEF EncodesAll, n

-----------------------------------------------------------------------------
(* Streams. *)

\* Where a text may be cut: behind it, or before the bracket it leaves open.
LEMMA LastOpenIs ==
    ASSUME NEW buf \in Seq(Words)
    PROVE  /\ LastOpen(buf) \in 0 .. Len(buf)
           /\ LastOpen(buf) > 0 => buf[LastOpen(buf)] = Open
           /\ \A i \in 1 .. Len(buf) : buf[i] = Open => i <= LastOpen(buf)
<1> DEFINE I == {i \in 1 .. Len(buf) : buf[i] = Open}
           open == LastOpen(buf)
<1>1. open = IF I # {} THEN Max(I) ELSE 0
  BY DEF LastOpen, SelectLastInSeq
<1>2. I \in SUBSET (1 .. Len(buf)) /\ Len(buf) \in Nat
  BY LenProperties
<1>3. \A i : i \in I <=> i \in 1 .. Len(buf) /\ buf[i] = Open
  OBVIOUS
<1> HIDE DEF I, open
<1>4. I # {} => Max(I) \in I /\ \A i \in I : Max(I) >= i
  BY <1>2, LargestIn
<1>5. CASE I = {}
  BY <1>1, <1>2, <1>3, <1>5 DEF open
<1>6. CASE I # {}
  <2>1. open \in I /\ \A i \in I : open >= i
    BY <1>1, <1>4, <1>6
  <2> QED BY <1>2, <1>3, <2>1 DEF open
<1> QED BY <1>5, <1>6

\* What a restorer lets go, and from where on it holds.
CutOf(buf) == IF Dangles(buf) THEN LastOpen(buf) - 1 ELSE Len(buf)

\* No placeholder is cut through there.
LEMMA CutClear ==
    ASSUME PlaceholdersReadApart, NEW v, VaultOK(v), NEW buf \in Seq(Words), NEW rest \in Seq(Words),
           NEW x, x = buf \o rest
    PROVE  CutOf(buf) \in 0 .. Len(buf) /\ ~CutWithin(v, x, CutOf(buf))
<1> DEFINE n == Len(buf)
           cut == CutOf(buf)
           open == LastOpen(buf)
<1>1. n \in Nat /\ x \in Seq(Words) /\ \A i \in 1 .. n : x[i] = buf[i]
  BY JoinedAt
<1>2. /\ open \in 0 .. n /\ (open > 0 => buf[open] = Open)
      /\ \A i \in 1 .. n : buf[i] = Open => i <= open
  BY LastOpenIs
<1>3. Dangles(buf) => open > 0 /\ cut = open - 1
  BY DEF Dangles, CutOf
<1>4. ~Dangles(buf) => cut = n /\ (open > 0 => \E i \in open .. n : buf[i] = Close)
  BY DEF Dangles, CutOf
<1> HIDE DEF n, cut, open
<1>5. cut \in 0 .. n
  BY <1>1, <1>2, <1>3, <1>4
<1>6. ASSUME NEW k \in 1 .. Len(v), NEW i \in 1 .. Len(x), i <= cut, cut < i + 3, At(x, i, Token(v[k]))
      PROVE  FALSE
  <2> DEFINE tok == Token(v[k])
  <2>1. IsToken(tok)
    BY EntryIs
  <2>2. \A j \in 1 .. 4 : x[i + j - 1] = tok[j]
    <3>1. At(x, i, tok) /\ i \in Int
      BY <1>6
    <3> HIDE DEF tok
    <3> QED BY <1>1, <2>1, <3>1, TokenAt
  <2>3. x[i] = Open /\ (\A j \in 2 .. 4 : tok[j] # Open) /\ (\A j \in 1 .. 3 : tok[j] # Close)
    <3>1. x[i + 1 - 1] = tok[1] /\ i + 1 - 1 = i
      BY <2>2
    <3> QED BY <2>1, <3>1 DEF IsToken
  <2> HIDE DEF tok
  <2>4. ASSUME NEW j \in i + 1 .. i + 3 PROVE x[j] # Open
    <3>1. j - i + 1 \in 2 .. 4 /\ j - i + 1 \in 1 .. 4 /\ i + (j - i + 1) - 1 = j
      OBVIOUS
    <3> QED BY <2>2, <2>3, <3>1
  <2>5. ASSUME NEW j \in i .. i + 2 PROVE x[j] # Close
    <3>1. j - i + 1 \in 1 .. 3 /\ j - i + 1 \in 1 .. 4 /\ i + (j - i + 1) - 1 = j
      OBVIOUS
    <3> QED BY <2>2, <2>3, <3>1
  <2>6. i \in 1 .. n /\ buf[i] = Open /\ i <= open
    <3>1. i \in 1 .. n
      BY <1>1, <1>5, <1>6
    <3> QED BY <1>1, <1>2, <2>3, <3>1
  <2>7. open \in 1 .. n /\ x[open] = Open
    <3>1. open \in 1 .. n
      BY <1>1, <1>2, <2>6
    <3>2. buf[open] = Open
      BY <1>1, <1>2, <3>1
    <3> QED BY <1>1, <3>1, <3>2
  <2>8. CASE Dangles(buf)
    <3>1. open \in i + 1 .. i + 3
      BY <1>1, <1>3, <1>5, <1>6, <2>7, <2>8
    <3> QED BY <2>4, <2>7, <3>1
  <2>9. CASE ~Dangles(buf)
    <3>1. open = i
      <4>1. open \in i + 1 .. i + 3 \/ open = i
        BY <1>1, <1>4, <1>6, <2>6, <2>7, <2>9
      <4> QED BY <2>4, <2>7, <4>1
    <3>2. PICK j \in open .. n : buf[j] = Close
      BY <1>4, <2>7, <2>9
    <3>3. j \in i .. i + 2 /\ j \in 1 .. n
      BY <1>1, <1>4, <1>6, <2>6, <2>9, <3>1
    <3>4. x[j] = Close
      BY <1>1, <3>2, <3>3
    <3> QED BY <2>5, <3>3, <3>4
  <2> QED BY <2>8, <2>9
<1>7. ~CutWithin(v, x, cut)
  BY <1>6 DEF CutWithin
<1> QED BY <1>5, <1>7 DEF n, cut

\* What is held, and what is to come, reads as what is not yet shown.
Rest(reply, at) == SubSeq(reply, at + 1, Len(reply))
Streams(v, reply, at, held, shown) ==
    /\ at \in 0 .. Len(reply) /\ shown \in Seq(Words)
    /\ \E r : Means(v, held \o Rest(reply, at), r) /\ Means(v, reply, shown \o r)

\* At first nothing is held, and nothing shown.
LEMMA StreamBegins ==
    ASSUME NEW v, NEW reply, NEW r, Means(v, reply, r)
    PROVE  Streams(v, reply, 0, <<>>, <<>>)
<1>1. reply \in Seq(Words) /\ r \in Seq(Words) /\ <<>> \in Seq(Words)
  BY WordsOfTypes DEF Means
<1>2. Len(reply) \in Nat /\ 0 \in 0 .. Len(reply)
  BY <1>1, LenProperties
<1>3. SubSeq(reply, 1, Len(reply)) = reply
  BY <1>1, SubSeqFull
<1>4. Rest(reply, 0) = reply
  BY <1>3 DEF Rest
<1>5. <<>> \o reply = reply /\ <<>> \o r = r
  BY <1>1, ConcatEmptySeq
<1>6. Means(v, <<>> \o Rest(reply, 0), r) /\ Means(v, reply, <<>> \o r)
  BY <1>4, <1>5, Zenon
<1> QED BY <1>1, <1>2, <1>6 DEF Streams

\* A part of what is to come is cut off.
LEMMA RestSplits ==
    ASSUME NEW reply, reply \in Seq(Words), NEW at \in 0 .. Len(reply), NEW to \in at + 1 .. Len(reply)
    PROVE  /\ SubSeq(reply, at + 1, to) \in Seq(Words) /\ Rest(reply, to) \in Seq(Words)
           /\ Rest(reply, at) = SubSeq(reply, at + 1, to) \o Rest(reply, to)
<1> DEFINE n == Len(reply)
<1>1. n \in Nat /\ \A i \in 1 .. n : reply[i] \in Words
  BY LenProperties, ElementOfSeq
<1>2. at + 1 \in 1 .. n + 1 /\ to \in (at + 1) - 1 .. n /\ n \in to .. n
  BY <1>1
<1>3. SubSeq(reply, at + 1, to) \o SubSeq(reply, to + 1, n) = SubSeq(reply, at + 1, n)
  <2> DEFINE a == at + 1
  <2>1. a \in 1 .. n + 1 /\ to \in a - 1 .. n /\ n \in to .. n
    BY <1>2
  <2> HIDE DEF a
  <2>2. SubSeq(reply, a, to) \o SubSeq(reply, to + 1, n) = SubSeq(reply, a, n)
    BY <2>1, ConcatAdjacentSubSeq
  <2> QED BY <2>2 DEF a
<1>4. ASSUME NEW a \in Int, NEW b \in Int, 1 <= a, b <= n PROVE SubSeq(reply, a, b) \in Seq(Words)
  <2>1. \A i \in a .. b : i \in 1 .. n
    BY <1>1, <1>4
  <2>2. \A i \in a .. b : reply[i] \in Words
    BY <1>1, <2>1
  <2> QED BY <2>2, SubSeqProperties
<1>5. SubSeq(reply, at + 1, to) \in Seq(Words) /\ SubSeq(reply, to + 1, n) \in Seq(Words)
  <2>1. at + 1 \in Int /\ 1 <= at + 1 /\ to \in Int /\ to <= n /\ to + 1 \in Int /\ 1 <= to + 1 /\ n \in Int /\ n <= n
    BY <1>1, <1>2
  <2> HIDE DEF n
  <2> QED BY <1>4, <2>1
<1> QED BY <1>3, <1>5 DEF Rest

\* However the reply is cut into chunks.
LEMMA StreamGoesOn ==
    ASSUME PlaceholdersReadApart, NEW v, Lucid(v), NEW reply, reply \in Seq(Words), NEW at, NEW held, held \in Seq(Words),
           NEW shown, Streams(v, reply, at, held, shown), NEW to \in at + 1 .. Len(reply),
           NEW p, p = Push(v, held, SubSeq(reply, at + 1, to))
    PROVE  Streams(v, reply, to, p.held, shown \o p.out)
<1>0. at \in 0 .. Len(reply) /\ shown \in Seq(Words) /\ VaultOK(v)
  BY DEF Streams, Lucid
<1> DEFINE delta == SubSeq(reply, at + 1, to)
           rest == Rest(reply, to)
           buf == held \o delta
           x == buf \o rest
           cut == CutOf(buf)
           n == Len(buf)
<1>1. delta \in Seq(Words) /\ rest \in Seq(Words) /\ Rest(reply, at) = delta \o rest
  BY <1>0, RestSplits
<1>2. PICK r : Means(v, held \o Rest(reply, at), r) /\ Means(v, reply, shown \o r)
  BY DEF Streams
<1>3. p = [held |-> SubSeq(buf, cut + 1, n), out |-> RestoreText(v, SubSeq(buf, 1, cut))]
  BY DEF Push, CutOf
<1>4. Len(reply) \in Nat
  BY LenProperties
<1>4a. to \in 0 .. Len(reply)
  BY <1>0, <1>4
<1> HIDE DEF delta, rest
<1>5. buf \in Seq(Words) /\ n \in Nat
  BY <1>1, JoinedAt
<1>6. held \o Rest(reply, at) = x
  <2>1. held \o (delta \o rest) = (held \o delta) \o rest
    BY <1>1, Associating
  <2> QED BY <1>1, <2>1
<1> HIDE DEF buf
<1>7. cut \in 0 .. n /\ ~CutWithin(v, x, cut)
  BY <1>0, <1>1, <1>5, CutClear
<1>8. x \in Seq(Words) /\ Len(x) \in Nat /\ n <= Len(x)
  BY <1>1, <1>5, JoinedAt
<1> HIDE DEF n, cut
<1>9. CutJoined(buf, rest, cut, x)
  BY <1>1, <1>5, <1>7, SubJoin DEF n
<1> HIDE DEF x
<1>10. CutApart(v, x, r, cut)
  <2>1. cut \in 0 .. Len(x)
    BY <1>5, <1>7, <1>8
  <2>2. Means(v, x, r)
    BY <1>2, <1>6, Zenon
  <2> QED BY <1>0, <1>7, <2>1, <2>2, ReadsCut
<1>11. PICK a, b \in Seq(Words) : /\ r = a \o b
                                  /\ Means(v, SubSeq(x, 1, cut), a) /\ Means(v, SubSeq(x, cut + 1, Len(x)), b)
  BY <1>10 DEF CutApart
<1> DEFINE h == SubSeq(buf, cut + 1, n)
           o == SubSeq(buf, 1, cut)
<1>12. SubSeq(x, 1, cut) = o /\ SubSeq(x, cut + 1, Len(x)) = h \o rest
  BY <1>9 DEF CutJoined, n
<1>13. Means(v, o, a) /\ Means(v, h \o rest, b)
  BY <1>11, <1>12, Zenon
<1>14. p.held = h /\ p.out = RestoreText(v, o)
  BY <1>3
<1> HIDE DEF h, o
<1>15. p.out = a
  BY <1>13, <1>14, ReadsIs
<1>16. shown \o r = (shown \o a) \o b
  <2>1. shown \o (a \o b) = (shown \o a) \o b
    BY <1>0, <1>11, Associating, ZenonT(60)
  <2> QED BY <1>11, <2>1, Zenon
<1>17. Means(v, p.held \o Rest(reply, to), b) /\ Means(v, reply, (shown \o p.out) \o b)
  <2>1. Means(v, h \o rest, b) /\ Means(v, reply, (shown \o a) \o b)
    BY <1>2, <1>13, <1>16, Zenon
  <2> QED BY <1>14, <1>15, <2>1 DEF rest
<1>18. shown \o p.out \in Seq(Words)
  <2>1. shown \o a \in Seq(Words)
    BY <1>0, <1>11, ConcatProperties
  <2> QED BY <1>15, <2>1
<1> QED BY <1>4a, <1>17, <1>18 DEF Streams

\* In the end all that was shown is what the reply reads as.
LEMMA StreamIsRead ==
    ASSUME PlaceholdersReadApart, NEW v, Lucid(v), NEW reply, reply \in Seq(Words), NEW held, held \in Seq(Words),
           NEW shown, Streams(v, reply, Len(reply), held, shown)
    PROVE  Means(v, reply, shown \o Flush(v, held))
<1>1. PICK r : Means(v, held \o Rest(reply, Len(reply)), r) /\ Means(v, reply, shown \o r)
  BY DEF Streams
<1>2. Rest(reply, Len(reply)) = <<>>
  <2>1. Len(reply) \in Nat
    BY LenProperties
  <2>2. Len(reply) + 1 \in Int /\ Len(reply) \in Int /\ Len(reply) < Len(reply) + 1
    BY <2>1
  <2> QED BY <2>2, SubSeqEmpty DEF Rest
<1>3. held \o <<>> = held
  BY ConcatEmptySeq
<1>4. Means(v, held, r)
  BY <1>1, <1>2, <1>3, Zenon
<1>5. Flush(v, held) = r
  BY <1>4, ReadsIs DEF Flush
<1> QED BY <1>1, <1>5

\* So does a stream that other calls add to the vault of.
LEMMA StreamOnward ==
    ASSUME PlaceholdersReadApart, NEW v, NEW w, VaultOK(v), Extends(v, w), NEW reply, NEW at, NEW held, NEW shown,
           Streams(v, reply, at, held, shown)
    PROVE  Streams(w, reply, at, held, shown)
<1>1. PICK r : Means(v, held \o Rest(reply, at), r) /\ Means(v, reply, shown \o r)
  BY DEF Streams
<1>2. Means(w, held \o Rest(reply, at), r)
  BY <1>1, ReadsOnward
<1>3. Means(w, reply, shown \o r)
  BY <1>1, ReadsOnward
<1> QED BY <1>2, <1>3 DEF Streams

-----------------------------------------------------------------------------
(* What calls hold reads back. *)

\* The words users write, and those that are shown to them.
Unbracketed == Words \ {Close}

\* A text without a closing bracket is a sequence of the other words.
LEMMA UnclosedIs ==
    /\ \A t : Unclosed(t) <=> t \in Seq(Unbracketed)
    /\ Unclosed(<<>>) /\ Unclosed(<<"w">>) /\ Unclosed(<<Open>>)
<1>1. ASSUME NEW t, Unclosed(t) PROVE t \in Seq(Unbracketed)
  <2>1. t \in Seq(Words) /\ \A k \in 1 .. Len(t) : t[k] # Close
    BY <1>1 DEF Unclosed
  <2>2. Len(t) \in Nat /\ DOMAIN t = 1 .. Len(t) /\ t = [k \in 1 .. Len(t) |-> t[k]]
    BY <2>1, LenProperties
  <2>3. \A k \in 1 .. Len(t) : t[k] \in Unbracketed
    BY <2>1, ElementOfSeq DEF Unbracketed
  <2>4. t \in [1 .. Len(t) -> Unbracketed]
    BY <2>2, <2>3
  <2> QED BY <2>2, <2>4, SeqDef
<1>2. ASSUME NEW t, t \in Seq(Unbracketed) PROVE Unclosed(t)
  <2>1. Len(t) \in Nat /\ DOMAIN t = 1 .. Len(t) /\ t = [k \in 1 .. Len(t) |-> t[k]]
    BY <1>2, LenProperties
  <2>2. \A k \in 1 .. Len(t) : t[k] \in Unbracketed
    BY <1>2, ElementOfSeq
  <2>3. \A k \in 1 .. Len(t) : t[k] \in Words /\ t[k] # Close
    BY <2>2 DEF Unbracketed
  <2>4. t \in [1 .. Len(t) -> Words]
    BY <2>1, <2>3
  <2>5. t \in Seq(Words)
    BY <2>1, <2>4, SeqDef
  <2> QED BY <2>3, <2>5 DEF Unclosed
<1>3. Unclosed(<<>>) /\ Unclosed(<<"w">>) /\ Unclosed(<<Open>>)
  <2>1. "w" # Close /\ Open # Close
    BY DEF Open, Close
  <2> DEFINE w == "w"
             o == Open
  <2>2. w # Close /\ o # Close /\ <<w>> \in Seq(Words) /\ <<o>> \in Seq(Words) /\ <<>> \in Seq(Words)
    BY <2>1, WordsOfTypes
  <2> HIDE DEF w, o
  <2>3. Unclosed(<<>>) /\ Unclosed(<<w>>) /\ Unclosed(<<o>>)
    BY <2>2 DEF Unclosed
  <2> QED BY <2>3 DEF w, o
<1> QED BY <1>1, <1>2, <1>3

\* What was sent is what was given, masked.
SentAs(v, r) == IsList(r.sent) /\ (r.sent = <<>> \/ AllEncoded(v, TextsOf(r.input), r.sent, Len(r.input)))

\* So it is with a call r, and a stream shows its reply as it reads.
Showing == {"output", "scope"}
Readable(plugin, v, r) ==
    /\ Chatty(Unbracketed, r.input) /\ Unclosed(r.shown)
    /\ ~plugin => SentAs(v, r)
    /\ r.pc = "stream" => Streams(v, r.reply, r.at, r.held, r.shown)
    /\ r.pc \in Showing /\ r.kind = "stream" => Means(v, r.reply, r.shown)
Passed(r) ==
    /\ r.pc = "stream" => /\ r.held = <<>> /\ r.at \in 0 .. Len(r.reply)
                          /\ r.shown = SubSeq(r.reply, 1, r.at)
    /\ r.pc \in Showing /\ r.kind = "stream" => r.shown = r.reply
CallEchoes(active, plugin, v, r) ==
    /\ r.pc \notin Showing \cup {"stream"} => r.held = <<>> /\ r.at = 0 /\ r.shown = <<>>
    /\ r.pc = "summary" => r.sent = <<>>
    /\ IF active THEN Readable(plugin, v, r) ELSE Passed(r)

Active == IsActive(Policy)
EchoInv ==
    /\ PrivacyInv /\ Numbered(vault)
    /\ Active => Chatty(Unbracketed, messages)
    /\ \A c \in Calls : CallEchoes(Active, config.plugin, vault, call[c])

\* Others may add to the vault.
LEMMA EchoesOnward ==
    ASSUME PlaceholdersReadApart, NEW v, Ready(v), Numbered(v), NEW w, GrowsInto(v, w), NEW active, NEW plugin,
           NEW r, TypedCall(r), CallEchoes(active, plugin, v, r)
    PROVE  CallEchoes(active, plugin, w, r)
<1>1. Numbered(w) /\ Extends(v, w) /\ VaultOK(v) /\ VaultOK(w)
  BY DEF GrowsInto, Numbered
<1>2. ASSUME SentAs(v, r) PROVE SentAs(w, r)
  <2> DEFINE ts == TextsOf(r.input)
  <2>1. Chatty(Words, r.input)
    BY DEF TypedCall
  <2>2. ts \in Seq(Seq(Words)) /\ Len(r.input) \in Nat /\ \A i \in 1 .. Len(r.input) : ts[i] \in Seq(Words)
    <3>1. ts \in Seq(Seq(Words))
      BY <2>1, ChatTexts
    <3>2. Len(r.input) \in Nat /\ DOMAIN r.input = 1 .. Len(r.input)
          /\ \A i \in 1 .. Len(r.input) : r.input[i].text \in Seq(Words)
      BY <2>1, ListIsSeq DEF Chatty, IsList, Indices
    <3>3. \A i \in 1 .. Len(r.input) : ts[i] = r.input[i].text
      BY <3>2 DEF TextsOf
    <3> QED BY <3>1, <3>2, <3>3
  <2> HIDE DEF ts
  <2>3. ASSUME AllEncoded(v, ts, r.sent, Len(r.input)) PROVE AllEncoded(w, ts, r.sent, Len(r.input))
    <3>1. ASSUME NEW i \in 1 .. Len(r.input) PROVE Encoded(w, ts[i], r.sent[i])
      <4> DEFINE raw == ts[i]
                 m == r.sent[i]
      <4>1. raw \in Seq(Words) /\ Encoded(v, raw, m)
        BY <2>2, <2>3 DEF AllEncoded
      <4> HIDE DEF raw, m
      <4>2. Encoded(w, raw, m)
        BY <1>1, <4>1, EncodedOnward
      <4> QED BY <4>2 DEF raw, m
    <3> QED BY <2>3, <3>1 DEF AllEncoded
  <2> QED BY <1>2, <2>3 DEF SentAs, ts
<1>3. ASSUME Readable(plugin, v, r) PROVE Readable(plugin, w, r)
  <2>1. r.pc = "stream" => Streams(w, r.reply, r.at, r.held, r.shown)
    BY <1>1, <1>3, StreamOnward DEF Readable
  <2>2. r.pc \in Showing /\ r.kind = "stream" => Means(w, r.reply, r.shown)
    BY <1>1, <1>3, ReadsOnward DEF Readable
  <2> QED BY <1>2, <1>3, <2>1, <2>2 DEF Readable
<1> QED BY <1>3 DEF CallEchoes

\* A call that begins, or that has ended.
LEMMA RestEchoes ==
    ASSUME NEW active, NEW plugin, NEW v
    PROVE  /\ CallEchoes(active, plugin, v, Waiting) /\ CallEchoes(active, plugin, v, Over("done"))
           /\ CallEchoes(active, plugin, v, Over("failed")) /\ CallEchoes(active, plugin, v, Over("refused"))
<1>1. \A r \in {Waiting, Over("done"), Over("failed"), Over("refused")} :
        /\ r.input = <<>> /\ r.sent = <<>> /\ r.held = <<>> /\ r.shown = <<>> /\ r.at = 0
        /\ r.pc \notin Showing \cup {"stream"}
  BY DEF Waiting, Over, Showing
<1>2. Chatty(Unbracketed, <<>>) /\ IsList(<<>>) /\ Unclosed(<<>>)
  <2>1. IsList(<<>>) /\ Indices(<<>>) = {}
    BY DEF IsList, Indices
  <2> QED BY <2>1, UnclosedIs DEF Chatty
<1>3. ASSUME NEW r, r.input = <<>>, r.sent = <<>>, r.held = <<>>, r.shown = <<>>, r.at = 0,
             r.pc \notin Showing \cup {"stream"}
      PROVE  CallEchoes(active, plugin, v, r)
  <2>1. Readable(plugin, v, r)
    BY <1>2, <1>3 DEF Readable, SentAs
  <2>2. Passed(r)
    BY <1>3 DEF Passed
  <2> QED BY <1>3, <2>1, <2>2 DEF CallEchoes
<1> QED BY <1>1, <1>3

\* One call goes on, the others stay.
LEMMA BecomingEchoes ==
    ASSUME PlaceholdersReadApart, EchoInv, PrivacyInv', config' = config, GrowsInto(vault, vault'),
           Active => Chatty(Unbracketed, messages'), NEW c \in Calls, NEW r, Becomes(c, r),
           CallEchoes(Active, config.plugin, vault', r)
    PROVE  EchoInv'
<1>1. Active' = Active
  BY DEF Active, Policy
<1>2. Ready(vault) /\ Numbered(vault) /\ Typed /\ DOMAIN call = Calls
  BY DEF EchoInv, PrivacyInv, Typed
<1>3. Numbered(vault')
  BY <1>2 DEF GrowsInto
<1>4. ASSUME NEW d \in Calls PROVE CallEchoes(Active, config.plugin, vault', call'[d])
  <2>1. CASE d = c
    BY <1>2, <2>1 DEF Becomes
  <2>2. CASE d # c
    <3> DEFINE q == call[d]
    <3>1. call'[d] = q
      BY <1>2, <2>2 DEF Becomes
    <3>2. TypedCall(q) /\ CallEchoes(Active, config.plugin, vault, q)
      BY <1>2 DEF Typed, EchoInv
    <3> HIDE DEF q
    <3>3. CallEchoes(Active, config.plugin, vault', q)
      BY <1>2, <3>2, EchoesOnward
    <3> QED BY <3>1, <3>3
  <2> QED BY <2>1, <2>2
<1> HIDE DEF Active
<1>5. \A d \in Calls : CallEchoes(Active', config'.plugin, vault', call'[d])
  BY <1>1, <1>4
<1>6. Numbered(vault)'
  BY <1>3
<1>7. Active' => Chatty(Unbracketed, messages')
  BY <1>1
<1> QED BY <1>5, <1>6, <1>7 DEF EchoInv

\* A call that has what it had, in another place.
Carries(q, r) ==
    /\ r.kind = q.kind /\ r.input = q.input /\ r.sent = q.sent /\ r.reply = q.reply
    /\ r.at = q.at /\ r.held = q.held /\ r.shown = q.shown
    /\ r.pc = "stream" <=> q.pc = "stream"
    /\ r.pc \in Showing <=> q.pc \in Showing
    /\ r.pc # "summary"

\* It reads as it did.
LEMMA CarriedEchoes ==
    ASSUME NEW active, NEW plugin, NEW v, NEW q, CallEchoes(active, plugin, v, q), NEW r, Carries(q, r)
    PROVE  CallEchoes(active, plugin, v, r)
<1>1. Readable(plugin, v, q) => Readable(plugin, v, r)
  BY DEF Readable, Carries, SentAs
<1>2. Passed(q) => Passed(r)
  BY DEF Passed, Carries
<1> QED BY <1>1, <1>2 DEF CallEchoes, Carries

\* What a request of the masking provider leaves behind.
LEMMA MaskingGoes ==
    ASSUME EchoInv, NEW texts \in Seq(Seq(Words)), NEW m \in Maskings(texts)
    PROVE  /\ GrowsInto(vault, m.vault)
           /\ Active /\ ~config.plugin => IsList(m.texts) /\ AllEncoded(m.vault, texts, m.texts, Len(texts))
<1> DEFINE p == MaskPayload(vault, texts)
<1>1. Ready(vault) /\ Numbered(vault) /\ VaultOK(vault)
  BY DEF EchoInv, PrivacyInv, Ready
<1>2. EncodesAll(vault, texts, p) /\ p.texts \in Seq(Safe)
  BY <1>1, MaskPayloadEncodes, MaskPayloadIs
<1>3. \/ m.vault = vault /\ ~(Active /\ ~config.plugin)
      \/ m.vault = p.vault /\ m.texts = p.texts
  BY DEF Maskings, Masking, Active
<1> HIDE DEF p
<1>4. GrowsInto(vault, vault)
  BY <1>1, GrowsNowhere
<1>5. IsList(p.texts)
  BY <1>2, ListIsSeq
<1> QED BY <1>2, <1>3, <1>4, <1>5 DEF EncodesAll

-----------------------------------------------------------------------------
(* The steps of a call. *)

\* A reply that is returned, and said if the call is a send.
LEMMA ReturnEchoes ==
    ASSUME PlaceholdersReadApart, EchoInv, PrivacyInv', config' = config, GrowsInto(vault, vault'),
           NEW c \in Calls, Returned(c)
    PROVE  EchoInv'
<1>1. Becomes(c, Over("done")) /\ CallEchoes(Active, config.plugin, vault', Over("done"))
  BY RestEchoes DEF Returned
<1>2. ASSUME Active PROVE Chatty(Unbracketed, messages')
  <2>1. Chatty(Unbracketed, messages) /\ call[c].shown \in Seq(Unbracketed)
    BY <1>2, UnclosedIs DEF EchoInv, CallEchoes, Readable
  <2>2. CASE call[c].kind = "send"
    <3> DEFINE m == Flat("assistant", call[c].shown, {<<c, "assistant">>})
    <3>1. messages' = Append(messages, m)
      BY <2>2 DEF Returned
    <3>2. m.text \in Seq(Unbracketed)
      BY <2>1 DEF Flat, Message
    <3> HIDE DEF m
    <3> QED BY <2>1, <3>1, <3>2, MoreIsSaid
  <2>3. CASE call[c].kind # "send"
    BY <2>1, <2>3 DEF Returned, Kept
  <2> QED BY <2>2, <2>3
<1> QED BY <1>1, <1>2, BecomingEchoes

\* A call that keeps what it has, or is over; the messages stay.
LEMMA KeptEchoes ==
    ASSUME PlaceholdersReadApart, EchoInv, PrivacyInv', config' = config, GrowsInto(vault, vault'), messages' = messages,
           NEW c \in Calls, NEW r, Becomes(c, r),
           Carries(call[c], r) \/ r \in {Over("done"), Over("failed"), Over("refused")}
    PROVE  EchoInv'
<1>1. Active => Chatty(Unbracketed, messages')
  BY DEF EchoInv
<1> DEFINE q == call[c]
<1>2. CallEchoes(Active, config.plugin, vault', q)
  <2>1. /\ Ready(vault) /\ Numbered(vault) /\ TypedCall(q)
        /\ CallEchoes(Active, config.plugin, vault, q)
    BY DEF EchoInv, PrivacyInv, Typed
  <2> HIDE DEF q
  <2> QED BY <2>1, EchoesOnward
<1> HIDE DEF q
<1>3. CallEchoes(Active, config.plugin, vault', r)
  <2>1. CASE Carries(q, r)
    BY <1>2, <2>1, CarriedEchoes
  <2>2. CASE r \in {Over("done"), Over("failed"), Over("refused")}
    BY <2>2, RestEchoes
  <2> QED BY <2>1, <2>2 DEF q
<1> QED BY <1>1, <1>3, BecomingEchoes

\* A call that has what it had, in a place that is known.
Moved(q, r, to) ==
    /\ r.kind = q.kind /\ r.input = q.input /\ r.sent = q.sent /\ r.reply = q.reply
    /\ r.at = q.at /\ r.held = q.held /\ r.shown = q.shown /\ r.pc = to

\* A screen that is passed, a backend that could not tell, and a refusal.
LEMMA ScreenEchoes ==
    ASSUME PlaceholdersReadApart, EchoInv, PrivacyInv', config' = config, GrowsInto(vault, vault'),
           NEW c \in Calls, call[c].pc \in {"input", "output", "scope"},
           \/ call[c].pc # "scope" /\ Passes(c)
           \/ NextBackend(c) \/ TurnedDown(c) \/ Returned(c)
    PROVE  EchoInv'
<1> DEFINE q == call[c]
<1>1. IsCall(q)
  BY DEF EchoInv, PrivacyInv, Typed, TypedCall
<1>2. CASE Returned(c)
  BY <1>2, ReturnEchoes
<1>3. CASE Becomes(c, Over("refused")) /\ Kept
  <2>1. messages' = messages
    BY <1>3 DEF Kept
  <2> QED BY <1>3, <2>1, KeptEchoes
<1>4. CASE NextBackend(c)
  <2> DEFINE r == [q EXCEPT !.backend = "llm"]
  <2>1. Becomes(c, r) /\ messages' = messages
    BY <1>4 DEF NextBackend, Kept
  <2>2. /\ r.kind = q.kind /\ r.input = q.input /\ r.sent = q.sent /\ r.reply = q.reply
        /\ r.at = q.at /\ r.held = q.held /\ r.shown = q.shown /\ r.pc = q.pc
    BY <1>1 DEF IsCall, CallFields
  <2>3. Carries(q, r)
    <3>1. q.pc # "summary"
      OBVIOUS
    <3> HIDE DEF r, q
    <3> QED BY <2>2, <3>1 DEF Carries
  <2> HIDE DEF r
  <2> QED BY <2>1, <2>3, KeptEchoes
<1>5. ASSUME NEW to, NEW r, Moved(q, r, to), Becomes(c, r), messages' = messages,
             (q.pc = "input" /\ to \in {"picture", "ready"}) \/ (q.pc = "output" /\ to = "scope")
      PROVE  EchoInv'
  <2>1. Carries(q, r)
    <3>1. /\ (q.pc = "input" /\ to \in {"picture", "ready"}) \/ (q.pc = "output" /\ to = "scope")
          /\ Moved(q, r, to)
      BY <1>5
    <3> HIDE DEF q
    <3> QED BY <3>1 DEF Carries, Showing, Moved
  <2> QED BY <1>5, <2>1, KeptEchoes
<1>6. CASE q.pc # "scope" /\ Passes(c)
  <2> DEFINE to == IF q.pc = "input" THEN AfterInput(c) ELSE "scope"
             r == [q EXCEPT !.judged = Judged(c), !.backend = "openai", !.pc = to]
  <2>1. Moved(q, r, to)
    <3> HIDE DEF to, q
    <3> QED BY <1>1 DEF IsCall, CallFields, Moved
  <2>2. CASE ~Returned(c)
    <3>1. Becomes(c, r) /\ messages' = messages
      BY <1>1, <1>6, <2>2 DEF Passes, Kept, IsCall, CallFields
    <3>2. (q.pc = "input" /\ to \in {"picture", "ready"}) \/ (q.pc = "output" /\ to = "scope")
      <4>1. AfterInput(c) \in {"picture", "ready"}
        BY DEF AfterInput
      <4>2. q.pc = "input" \/ q.pc = "output"
        BY <1>6
      <4> HIDE DEF q
      <4> QED BY <4>1, <4>2
    <3> HIDE DEF to, r, q
    <3> QED BY <1>5, <2>1, <3>1, <3>2
  <2> QED BY <1>2, <1>6, <2>2
<1>7. CASE TurnedDown(c)
  <2>1. Returned(c) \/ (Becomes(c, Over("refused")) /\ Kept)
    BY <1>7 DEF TurnedDown
  <2> QED BY <1>2, <1>3, <2>1
<1> QED BY <1>2, <1>4, <1>6, <1>7

\* The steps of the guard.
LEMMA ScreensEcho ==
    ASSUME PlaceholdersReadApart, EchoInv, PrivacyInv', NEW c \in Calls,
           \/ InjectionFound(c) \/ OpenAIModerates(c) \/ ClassifierModerates(c)
           \/ ScopeChecks(c) \/ ScreensImage(c)
    PROVE  EchoInv'
<1>1. Typed /\ Ready(vault) /\ VaultOK(vault) /\ IsCall(call[c])
  BY DEF EchoInv, PrivacyInv, Typed, TypedCall, Ready
<1>2. vault' = vault => GrowsInto(vault, vault')
  BY <1>1, GrowsNowhere
<1>3. ASSUME config' = config, GrowsInto(vault, vault'), call[c].pc \in {"input", "output"},
             Passes(c) \/ Flagged(c) \/ NextBackend(c) \/ TurnedDown(c) \/ NoBackend(c)
      PROVE  EchoInv'
  <2>1. Passes(c) \/ TurnedDown(c) \/ NextBackend(c)
    BY <1>3 DEF Flagged, NoBackend
  <2>2. call[c].pc \in {"input", "output", "scope"} /\ call[c].pc # "scope"
    BY <1>3
  <2> QED BY <1>3, <2>1, <2>2, ScreenEchoes
<1>4. CASE InjectionFound(c)
  <2>1. config' = config /\ vault' = vault /\ TurnedDown(c) /\ call[c].pc \in {"input", "output"}
    BY <1>4 DEF InjectionFound
  <2> QED BY <1>2, <1>3, <2>1
<1>5. CASE OpenAIModerates(c)
  <2>1. config' = config /\ vault' = vault /\ (Passes(c) \/ Flagged(c) \/ NextBackend(c)) /\ call[c].pc \in {"input", "output"}
    BY <1>5 DEF OpenAIModerates, Awaits
  <2> QED BY <1>2, <1>3, <2>1
<1>6. CASE ClassifierModerates(c)
  <2>1. config' = config /\ call[c].pc \in {"input", "output"}
    BY <1>6 DEF ClassifierModerates, Awaits
  <2>2. PICK m \in Maskings(Judged(c)) :
           vault' = m.vault /\ (NoBackend(c) \/ Passes(c) \/ Flagged(c))
    BY <1>6 DEF ClassifierModerates
  <2>3. GrowsInto(vault, m.vault)
    BY <1>1, <2>2, JudgedIsWords, MaskingGoes
  <2> QED BY <1>3, <2>1, <2>2, <2>3
<1>7. CASE ScopeChecks(c)
  <2>1. config' = config /\ call[c].pc \in {"input", "output", "scope"}
    BY <1>7 DEF ScopeChecks
  <2>2. PICK m \in Maskings(<<call[c].shown>>) :
           vault' = m.vault /\ (Returned(c) \/ TurnedDown(c))
    BY <1>7 DEF ScopeChecks
  <2>3. GrowsInto(vault, m.vault)
    BY <1>1, <2>2, JudgedIsWords, MaskingGoes
  <2> QED BY <2>1, <2>2, <2>3, ScreenEchoes
<1>8. CASE ScreensImage(c)
  <2> DEFINE q == call[c]
             r == [q EXCEPT !.pc = "ready"]
  <2>1. /\ config' = config /\ vault' = vault /\ messages' = messages /\ q.pc = "picture"
        /\ Becomes(c, r) \/ Becomes(c, Over("refused"))
    BY <1>8 DEF ScreensImage, Kept
  <2>2. /\ r.kind = q.kind /\ r.input = q.input /\ r.sent = q.sent /\ r.reply = q.reply
        /\ r.at = q.at /\ r.held = q.held /\ r.shown = q.shown /\ r.pc = "ready"
    BY <1>1 DEF IsCall, CallFields
  <2> HIDE DEF r
  <2>3. Carries(q, r)
    <3>1. q.pc = "picture"
      BY <2>1
    <3> HIDE DEF q
    <3> QED BY <2>2, <3>1 DEF Carries, Showing
  <2>4. GrowsInto(vault, vault')
    BY <1>2, <2>1
  <2> QED BY <2>1, <2>3, <2>4, KeptEchoes
<1> QED BY <1>4, <1>5, <1>6, <1>7, <1>8

\* Asking the vendor.
LEMMA AskEchoes ==
    ASSUME PlaceholdersReadApart, EchoInv, PrivacyInv', NEW c \in Calls, Ask(c)
    PROVE  EchoInv'
<1> DEFINE q == call[c]
<1>1. /\ Typed /\ TypedCall(q) /\ IsCall(q) /\ config' = config /\ messages' = messages /\ q.pc = "ready"
      /\ CallEchoes(Active, config.plugin, vault, q) /\ Ready(vault) /\ Numbered(vault)
  BY DEF EchoInv, PrivacyInv, Typed, TypedCall, Ask, Kept
<1>2. PICK m \in Maskings(TextsOf(q.input)) :
         /\ vault' = m.vault
         /\ IF m.ok
            THEN Becomes(c, [q EXCEPT !.pc = "model", !.sent = m.texts, !.input = q.input])
            ELSE Fails(c)
  BY DEF Ask, Given
<1>3. TextsOf(q.input) \in Seq(Seq(Words))
  BY <1>1, JudgedIsWords DEF Given
<1>4. /\ GrowsInto(vault, vault')
      /\ Active /\ ~config.plugin => IsList(m.texts) /\ AllEncoded(vault', TextsOf(q.input), m.texts, Len(TextsOf(q.input)))
  BY <1>2, <1>3, MaskingGoes
<1>5. Len(TextsOf(q.input)) = Len(q.input)
  <2>1. Chatty(Words, q.input)
    BY <1>1 DEF TypedCall
  <2>2. Len(q.input) \in Nat /\ DOMAIN q.input = 1 .. Len(q.input)
    BY <2>1, ListIsSeq DEF Chatty, IsList, Indices
  <2> DEFINE n == Len(q.input)
             ts == TextsOf(q.input)
  <2>3. ts = [i \in 1 .. n |-> ts[i]] /\ n \in Nat
    BY <2>2 DEF TextsOf
  <2> HIDE DEF ts, n
  <2>4. Len(ts) = n
    BY <2>3, ListFrom
  <2> QED BY <2>4 DEF ts, n
<1>6. CASE ~m.ok
  <2>1. Becomes(c, Over("failed"))
    BY <1>2, <1>6 DEF Fails
  <2> QED BY <1>1, <1>4, <2>1, KeptEchoes
<1>7. CASE m.ok
  <2> DEFINE r == [q EXCEPT !.pc = "model", !.sent = m.texts, !.input = q.input]
  <2>1. Becomes(c, r)
    BY <1>2, <1>7
  <2>2. /\ r.input = q.input /\ r.sent = m.texts
        /\ r.at = q.at /\ r.held = q.held /\ r.shown = q.shown /\ r.pc = "model"
    BY <1>1 DEF IsCall, CallFields
  <2> HIDE DEF r, q
  <2>3. Active /\ ~config.plugin => SentAs(vault', r)
    BY <1>4, <1>5, <2>2 DEF SentAs
  <2>4. /\ q.held = <<>> /\ q.at = 0 /\ q.shown = <<>>
        /\ Active => Chatty(Unbracketed, q.input) /\ Unclosed(q.shown)
    <3>1. q.pc \notin Showing \cup {"stream"}
      BY <1>1 DEF Showing
    <3> QED BY <1>1, <3>1 DEF CallEchoes, Readable
  <2>5. r.pc \notin Showing \cup {"stream"} /\ r.pc # "summary" /\ r.pc # "stream" /\ r.pc \notin Showing
    BY <2>2 DEF Showing
  <2>6. Active => Readable(config.plugin, vault', r)
    BY <2>2, <2>3, <2>4, <2>5 DEF Readable
  <2>7. Passed(r)
    BY <2>5 DEF Passed
  <2>8. CallEchoes(Active, config.plugin, vault', r)
    BY <2>2, <2>4, <2>5, <2>6, <2>7 DEF CallEchoes
  <2>9. Active => Chatty(Unbracketed, messages')
    BY <1>1 DEF EchoInv
  <2> QED BY <1>1, <1>4, <2>1, <2>8, <2>9, BecomingEchoes
<1> QED BY <1>6, <1>7

-----------------------------------------------------------------------------
(* The vendor's replies read as something. *)

\* A piece of a reply.
LEMMA PieceReads ==
    ASSUME VaultOK(vault), NEW c \in Calls, NEW p \in Pieces(c)
    PROVE  \E r : Means(vault, p, r)
<1>1. CASE p = <<"w">> \/ p = <<Open>>
  BY <1>1, UnclosedIs, ReadsPlain
<1>2. CASE p \in {Token(m) : m \in Range(vault)}
  <2>1. PICK m \in Range(vault) : p = Token(m)
    BY <1>2
  <2>2. vault \in Seq(Mappings) /\ DOMAIN vault = 1 .. Len(vault)
    BY LenProperties DEF VaultOK
  <2>3. PICK k \in 1 .. Len(vault) : m = vault[k]
    BY <2>2 DEF Range
  <2>4. vault[k] \in Mappings
    BY <2>2, <2>3
  <2> DEFINE b == vault[k].value
  <2>5. p \in Seq(Words) /\ b \in Seq(Words)
    <3>1. Token(vault[k]) \in Seq(Words)
      BY <2>4, TokensAreMarks DEF Marked
    <3>2. vault[k].value \in Seq(Words)
      <4>1. PICK s \in Secrets : vault[k].value = s.value
        BY <2>4 DEF Mappings
      <4> QED BY <4>1, Values
    <3> QED BY <2>1, <2>3, <3>1, <3>2
  <2>6. Part(vault, p, b)
    BY <2>1, <2>3 DEF Part
  <2> HIDE DEF b
  <2>7. Means(vault, <<>> \o p, <<>> \o b)
    BY <2>5, <2>6, ReadsNone, ReadsOne
  <2>8. <<>> \o p = p /\ <<>> \o b = b
    BY <2>5, ConcatEmptySeq
  <2> QED BY <2>7, <2>8
<1> QED BY <1>1, <1>2 DEF Pieces

\* A reply.
LEMMA RepliesRead ==
    ASSUME VaultOK(vault), NEW c \in Calls, NEW text \in Replies(c)
    PROVE  \E r : Means(vault, text, r)
<1>1. \A p \in Pieces(c) : \E r : Means(vault, p, r)
  BY PieceReads
<1>2. PICK n \in 1 .. MaxReply : \E ps \in [1 .. n -> Pieces(c)] : text = FlattenSeq(ps)
  BY DEF Replies
<1>3. PICK ps \in [1 .. n -> Pieces(c)] : text = FlattenSeq(ps)
  BY <1>2
<1>4. n \in Nat
  BY ChatTurnAssumption DEF ChatTurnAssumption
<1>5. IsList(ps) /\ Len(ps) = n
  <2>1. ps = [i \in 1 .. n |-> ps[i]]
    OBVIOUS
  <2> QED BY <1>4, <2>1, ListFrom
<1>6. \A i \in 1 .. n : \E r : Means(vault, ps[i], r)
  BY <1>1
<1>7. \A i \in 1 .. Len(ps) : ps[i] \in Seq(Words)
  BY <1>5, <1>6 DEF Means
<1>8. PICK f : Joins(Words, ps, f)
  BY <1>5, <1>7, Joining
<1> DEFINE P == {i \in 0 .. n : \E r : Means(vault, f[i], r)}
<1>9. 0 \in P
  <2>1. f[0] = <<>> /\ 0 \in 0 .. n
    BY <1>4, <1>8 DEF Joins
  <2> QED BY <2>1, ReadsNone
<1>10. ASSUME NEW j \in 0 + 1 .. n, j - 1 \in P PROVE j \in P
  <2> DEFINE i == j - 1
  <2>1. j \in 1 .. n /\ i \in 0 .. n /\ j \in 0 .. n
    BY <1>4
  <2>2. f[j] = f[i] \o ps[j]
    BY <1>5, <1>8, <2>1 DEF Joins
  <2>3. PICK r : Means(vault, f[i], r)
    BY <1>10
  <2>4. PICK q : Means(vault, ps[j], q)
    BY <1>6, <2>1
  <2>5. Means(vault, f[i] \o ps[j], r \o q)
    <3> DEFINE a == f[i]
               b == ps[j]
    <3>1. Means(vault, a, r) /\ Means(vault, b, q)
      BY <2>3, <2>4
    <3> HIDE DEF a, b
    <3>2. Means(vault, a \o b, r \o q)
      BY <3>1, ReadsJoin
    <3> QED BY <3>2 DEF a, b
  <2>6. j \in P
    BY <2>1, <2>2, <2>5
  <2> QED BY <2>6
<1>11. n \in Int /\ 0 \in Int /\ n \in 0 .. n
  BY <1>4
<1> HIDE DEF P
<1>12. n \in P
  BY <1>9, <1>10, <1>11, Climb
<1> QED BY <1>3, <1>5, <1>8, <1>12 DEF P, Joins

-----------------------------------------------------------------------------
(* The vendor's answers, whole or in pieces. *)

\* What a stream has shown holds no closing bracket.
LEMMA ShownIsUnclosed ==
    ASSUME PlaceholdersReadApart, NEW v, Lucid(v), NEW reply, NEW at, NEW held, NEW shown,
           Streams(v, reply, at, held, shown)
    PROVE  Unclosed(shown)
<1>1. shown \in Seq(Words)
  BY DEF Streams
<1>2. PICK r : Means(v, held \o Rest(reply, at), r) /\ Means(v, reply, shown \o r)
  BY DEF Streams
<1>3. r \in Seq(Words)
  BY <1>2 DEF Means
<1>4. ASSUME NEW z, z = shown \o r, Unclosed(z) PROVE Unclosed(shown)
  <2>1. Len(z) = Len(shown) + Len(r) /\ Len(shown) \in Nat /\ Len(r) \in Nat
        /\ \A i \in 1 .. Len(shown) : z[i] = shown[i]
    BY <1>1, <1>3, <1>4, JoinedAt
  <2>2. \A i \in 1 .. Len(shown) : i \in 1 .. Len(z)
    BY <2>1
  <2> QED BY <1>1, <1>4, <2>1, <2>2 DEF Unclosed
<1>5. Unclosed(shown \o r)
  BY <1>2, ReadsIs
<1> QED BY <1>4, <1>5

\* A step of a call that leaves the vault and the conversation alone.
LEMMA VendorStep ==
    ASSUME PlaceholdersReadApart, EchoInv, PrivacyInv', config' = config, vault' = vault, messages' = messages,
           NEW c \in Calls, NEW r, Becomes(c, r), CallEchoes(Active, config.plugin, vault, r)
    PROVE  EchoInv'
<1>1. GrowsInto(vault, vault')
  BY GrowsNowhere DEF EchoInv, PrivacyInv, Ready
<1>2. Active => Chatty(Unbracketed, messages')
  BY DEF EchoInv
<1> QED BY <1>1, <1>2, BecomingEchoes

\* A whole answer.
LEMMA RepliesEcho ==
    ASSUME PlaceholdersReadApart, EchoInv, PrivacyInv', NEW c \in Calls, VendorReplies(c)
    PROVE  EchoInv'
<1> DEFINE q == call[c]
<1>1. /\ VaultOK(vault) /\ Lucid(vault) /\ IsCall(q) /\ CallEchoes(Active, config.plugin, vault, q)
      /\ config' = config /\ vault' = vault /\ messages' = messages /\ q.pc = "model" /\ q.kind # "stream"
  BY NumberedIsLucid DEF EchoInv, PrivacyInv, Ready, Typed, TypedCall, VendorReplies, Kept
<1>2. PICK text \in Replies(c) : Becomes(c, [q EXCEPT !.pc = "output", !.shown = Restored(text)])
  BY DEF VendorReplies
<1> DEFINE s == Restored(text)
           r == [q EXCEPT !.pc = "output", !.shown = s]
<1>3. Active => Unclosed(s)
  <2>1. Active => s = RestoreText(vault, text)
    BY DEF Restored, Active
  <2>2. PICK b : Means(vault, text, b)
    BY <1>1, RepliesRead
  <2> HIDE DEF s
  <2> QED BY <1>1, <2>1, <2>2, ReadsIs
<1>4. Becomes(c, r)
  BY <1>2
<1> HIDE DEF s, q
<1>5. /\ r.kind = q.kind /\ r.input = q.input /\ r.sent = q.sent /\ r.reply = q.reply
      /\ r.at = q.at /\ r.held = q.held /\ r.shown = s /\ r.pc = "output"
  BY <1>1 DEF IsCall, CallFields
<1> HIDE DEF r
<1>6. r.pc \in Showing \cup {"stream"} /\ r.pc # "summary" /\ r.pc # "stream" /\ r.kind # "stream"
  BY <1>1, <1>5 DEF Showing
<1>7. Active => Readable(config.plugin, vault, r)
  <2>1. Active => Readable(config.plugin, vault, q)
    BY <1>1 DEF CallEchoes
  <2> QED BY <1>3, <1>5, <1>6, <2>1 DEF Readable, SentAs
<1>8. Passed(r)
  BY <1>6 DEF Passed
<1>9. CallEchoes(Active, config.plugin, vault, r)
  BY <1>6, <1>7, <1>8 DEF CallEchoes
<1> QED BY <1>1, <1>4, <1>9, VendorStep

\* A stream begins.
LEMMA StreamsEcho ==
    ASSUME PlaceholdersReadApart, EchoInv, PrivacyInv', NEW c \in Calls, VendorStreams(c)
    PROVE  EchoInv'
<1> DEFINE q == call[c]
<1>1. /\ VaultOK(vault) /\ IsCall(q) /\ CallEchoes(Active, config.plugin, vault, q)
      /\ config' = config /\ vault' = vault /\ messages' = messages /\ q.pc = "model"
  BY DEF EchoInv, PrivacyInv, Ready, Typed, TypedCall, VendorStreams, Kept
<1>2. PICK text \in Replies(c) : Becomes(c, [q EXCEPT !.pc = "stream", !.reply = text])
  BY DEF VendorStreams
<1>3. PICK b : Means(vault, text, b)
  BY <1>1, RepliesRead
<1> DEFINE r == [q EXCEPT !.pc = "stream", !.reply = text]
<1>4. Becomes(c, r)
  BY <1>2
<1>5. q.held = <<>> /\ q.at = 0 /\ q.shown = <<>>
  BY <1>1 DEF CallEchoes, Showing
<1> HIDE DEF q
<1>6. /\ r.kind = q.kind /\ r.input = q.input /\ r.sent = q.sent /\ r.reply = text
      /\ r.at = q.at /\ r.held = q.held /\ r.shown = q.shown /\ r.pc = "stream"
  BY <1>1 DEF IsCall, CallFields
<1> HIDE DEF r
<1>7. r.pc \in Showing \cup {"stream"} /\ r.pc # "summary" /\ r.pc \notin Showing
  BY <1>6 DEF Showing
<1>8. Active => Readable(config.plugin, vault, r)
  <2>1. Active => Readable(config.plugin, vault, q)
    BY <1>1 DEF CallEchoes
  <2>2. Streams(vault, text, 0, <<>>, <<>>)
    BY <1>3, StreamBegins
  <2>3. Streams(vault, r.reply, r.at, r.held, r.shown)
    BY <1>5, <1>6, <2>2
  <2> QED BY <1>6, <1>7, <2>1, <2>3 DEF Readable, SentAs
<1>9. Passed(r)
  <2>1. text \in Seq(Words)
    BY <1>3 DEF Means
  <2>2. SubSeq(text, 1, 0) = <<>> /\ 0 \in 0 .. Len(text)
    BY <2>1, LenProperties, SubSeqEmpty
  <2>3. SubSeq(r.reply, 1, r.at) = <<>> /\ r.at \in 0 .. Len(r.reply)
    BY <1>5, <1>6, <2>2
  <2> QED BY <1>5, <1>6, <1>7, <2>3 DEF Passed
<1>10. CallEchoes(Active, config.plugin, vault, r)
  BY <1>7, <1>8, <1>9 DEF CallEchoes
<1> QED BY <1>1, <1>4, <1>10, VendorStep

-----------------------------------------------------------------------------
\* A chunk of a stream.
LEMMA ChunksEcho ==
    ASSUME PlaceholdersReadApart, EchoInv, PrivacyInv', NEW c \in Calls, ChunkArrives(c)
    PROVE  EchoInv'
<1> DEFINE q == call[c]
<1>1. /\ VaultOK(vault) /\ Lucid(vault) /\ IsCall(q) /\ CallEchoes(Active, config.plugin, vault, q)
      /\ config' = config /\ vault' = vault /\ messages' = messages /\ q.pc = "stream"
      /\ q.reply \in Seq(Words) /\ q.held \in Seq(Words)
  BY NumberedIsLucid DEF EchoInv, PrivacyInv, Ready, Typed, TypedCall, ChunkArrives, Kept
<1>2. PICK to \in q.at + 1 .. Len(q.reply) :
         LET p == Pushed(q.held, SubSeq(q.reply, q.at + 1, to))
         IN  Becomes(c, [q EXCEPT !.at = to, !.held = p.held, !.shown = @ \o p.out])
  BY DEF ChunkArrives
<1> DEFINE delta == SubSeq(q.reply, q.at + 1, to)
           p == Pushed(q.held, delta)
           h == p.held
           s == q.shown \o p.out
           r == [q EXCEPT !.at = to, !.held = h, !.shown = s]
<1>3. Becomes(c, r)
  BY <1>2
<1>4. CASE Active
  <2>1. p = Push(vault, q.held, delta)
    BY <1>4 DEF Pushed, Active
  <2>2. Streams(vault, q.reply, q.at, q.held, q.shown)
    BY <1>1, <1>4 DEF CallEchoes, Readable
  <2> HIDE DEF p, q
  <2>3. Streams(vault, q.reply, to, h, s)
    BY <1>1, <1>2, <2>1, <2>2, StreamGoesOn
  <2>4. Unclosed(s)
    BY <1>1, <2>3, ShownIsUnclosed
  <2> HIDE DEF h, s
  <2>5. /\ r.kind = q.kind /\ r.input = q.input /\ r.sent = q.sent /\ r.reply = q.reply
        /\ r.at = to /\ r.held = h /\ r.shown = s /\ r.pc = "stream"
    BY <1>1 DEF IsCall, CallFields
  <2> HIDE DEF r
  <2>6. r.pc \in Showing \cup {"stream"} /\ r.pc # "summary" /\ r.pc \notin Showing
    BY <2>5 DEF Showing
  <2>7. Readable(config.plugin, vault, q)
    BY <1>1, <1>4 DEF CallEchoes
  <2>8. Readable(config.plugin, vault, r)
    BY <2>3, <2>4, <2>5, <2>6, <2>7 DEF Readable, SentAs
  <2>9. CallEchoes(Active, config.plugin, vault, r)
    BY <1>4, <2>6, <2>8 DEF CallEchoes
  <2> QED BY <1>1, <1>3, <2>9, VendorStep
<1>5. CASE ~Active
  <2>1. h = <<>> /\ p.out = delta
    BY <1>5 DEF Pushed, Active
  <2>2. q.at \in 0 .. Len(q.reply) /\ q.shown = SubSeq(q.reply, 1, q.at)
    BY <1>1, <1>5 DEF CallEchoes, Passed
  <2>3. s = SubSeq(q.reply, 1, to)
    <3>1. s = q.shown \o delta
      BY <2>1
    <3> DEFINE t == q.reply
               at == q.at
    <3>2. t \in Seq(Words) /\ at \in 0 .. Len(t) /\ to \in at + 1 .. Len(t) /\ Len(t) \in Nat
      BY <1>1, <1>2, <2>2, LenProperties
    <3> HIDE DEF t, at
    <3>3. 1 \in 1 .. Len(t) + 1 /\ at \in 1 - 1 .. Len(t) /\ to \in at .. Len(t)
      BY <3>2
    <3>4. SubSeq(t, 1, at) \o SubSeq(t, at + 1, to) = SubSeq(t, 1, to)
      BY <3>2, <3>3, ConcatAdjacentSubSeq
    <3> QED BY <2>2, <3>1, <3>4 DEF t, at
  <2>4. to \in 0 .. Len(q.reply)
    <3>1. Len(q.reply) \in Nat
      BY <1>1, LenProperties
    <3> QED BY <1>2, <2>2, <3>1
  <2> HIDE DEF p, q, h, s
  <2>5. /\ r.kind = q.kind /\ r.input = q.input /\ r.sent = q.sent /\ r.reply = q.reply
        /\ r.at = to /\ r.held = h /\ r.shown = s /\ r.pc = "stream"
    BY <1>1 DEF IsCall, CallFields
  <2> HIDE DEF r
  <2>6. r.pc \in Showing \cup {"stream"} /\ r.pc # "summary" /\ r.pc \notin Showing
    BY <2>5 DEF Showing
  <2>7. Passed(r)
    BY <2>1, <2>3, <2>4, <2>5, <2>6 DEF Passed
  <2>8. CallEchoes(Active, config.plugin, vault, r)
    BY <1>5, <2>6, <2>7 DEF CallEchoes
  <2> QED BY <1>1, <1>3, <2>8, VendorStep
<1> QED BY <1>4, <1>5

\* A stream's end.
LEMMA EndingsEcho ==
    ASSUME PlaceholdersReadApart, EchoInv, PrivacyInv', NEW c \in Calls, StreamEnds(c)
    PROVE  EchoInv'
<1> DEFINE q == call[c]
           s == q.shown \o Flush(vault, q.held)
           r == [q EXCEPT !.pc = "output", !.shown = s]
<1>1. /\ VaultOK(vault) /\ Lucid(vault) /\ IsCall(q) /\ CallEchoes(Active, config.plugin, vault, q)
      /\ config' = config /\ vault' = vault /\ messages' = messages /\ q.pc = "stream"
      /\ q.reply \in Seq(Words) /\ q.held \in Seq(Words) /\ q.at = Len(q.reply)
  BY NumberedIsLucid DEF EchoInv, PrivacyInv, Ready, Typed, TypedCall, StreamEnds, Kept
<1>2. Becomes(c, r)
  BY DEF StreamEnds
<1>3. Active => Means(vault, q.reply, s)
  <2>1. Active => Streams(vault, q.reply, Len(q.reply), q.held, q.shown)
    BY <1>1 DEF CallEchoes, Readable
  <2> HIDE DEF q
  <2> QED BY <1>1, <2>1, StreamIsRead
<1>4. ~Active => s = q.reply
  <2> SUFFICES ASSUME ~Active PROVE s = q.reply
    OBVIOUS
  <2>1. q.held = <<>> /\ q.shown = SubSeq(q.reply, 1, Len(q.reply))
    BY <1>1 DEF CallEchoes, Passed
  <2>2. Flush(vault, <<>>) = <<>>
    <3>1. RestoreText(vault, <<>>) = <<>>
      BY <1>1, ReadsNone, ReadsIs
    <3> QED BY <3>1 DEF Flush
  <2>3. SubSeq(q.reply, 1, Len(q.reply)) = q.reply /\ q.reply \o <<>> = q.reply
    <3> HIDE DEF q
    <3> QED BY <1>1, SubSeqFull, ConcatEmptySeq
  <2> QED BY <2>1, <2>2, <2>3, Zenon
<1> HIDE DEF s, q
<1>5. /\ r.kind = q.kind /\ r.input = q.input /\ r.sent = q.sent /\ r.reply = q.reply
      /\ r.at = q.at /\ r.held = q.held /\ r.shown = s /\ r.pc = "output"
  BY <1>1 DEF IsCall, CallFields
<1> HIDE DEF r
<1>6. r.pc \in Showing \cup {"stream"} /\ r.pc # "summary" /\ r.pc # "stream"
  BY <1>5 DEF Showing
<1>7. Active => Readable(config.plugin, vault, r)
  <2>1. Active => Readable(config.plugin, vault, q)
    BY <1>1 DEF CallEchoes
  <2>2. Active => Unclosed(s)
    BY <1>1, <1>3, ReadsIs
  <2> QED BY <1>3, <1>5, <1>6, <2>1, <2>2 DEF Readable, SentAs
<1>8. ~Active => Passed(r)
  BY <1>4, <1>5, <1>6 DEF Passed
<1>9. CallEchoes(Active, config.plugin, vault, r)
  BY <1>6, <1>7, <1>8 DEF CallEchoes
<1> QED BY <1>1, <1>2, <1>9, VendorStep

\* Every step of the vendor.
LEMMA VendorEchoes ==
    ASSUME PlaceholdersReadApart, EchoInv, PrivacyInv', NEW c \in Calls,
           \/ ImageBlocked(c) \/ VendorFails(c) \/ VendorReplies(c)
           \/ VendorStreams(c) \/ ChunkArrives(c) \/ StreamEnds(c) \/ Unscreened(c)
    PROVE  EchoInv'
<1>1. CASE ImageBlocked(c) \/ VendorFails(c) \/ Unscreened(c)
  <2>1. vault' = vault /\ config' = config
    BY <1>1 DEF ImageBlocked, VendorFails, Unscreened
  <2>2. GrowsInto(vault, vault')
    BY <2>1, GrowsNowhere DEF EchoInv, PrivacyInv, Ready
  <2>3. CASE Unscreened(c)
    BY <2>1, <2>2, <2>3, ReturnEchoes DEF Unscreened
  <2>4. CASE ImageBlocked(c) \/ VendorFails(c)
    <3>1. Becomes(c, Over("failed")) /\ messages' = messages
      BY <2>4 DEF ImageBlocked, VendorFails, Fails, Kept
    <3> QED BY <2>1, <2>2, <3>1, KeptEchoes
  <2> QED BY <1>1, <2>3, <2>4
<1> QED BY <1>1, RepliesEcho, StreamsEcho, ChunksEcho, EndingsEcho

-----------------------------------------------------------------------------
(* Calls are accepted, and the conversation goes on. *)

\* A call that has sent and shown nothing.
Unanswered(r) == IsCall(r) /\ r.sent = <<>> /\ r.at = 0 /\ r.held = <<>> /\ r.shown = <<>>

\* A call that is to be judged or asked.
LEMMA AnalyzeEchoes ==
    ASSUME NEW r, Unanswered(r), NEW active, NEW plugin, NEW v, NEW ms, active => Chatty(Unbracketed, ms)
    PROVE  CallEchoes(active, plugin, v, Analyze(r, ms))
<1> DEFINE a == Analyze(r, ms)
<1>1. /\ a.input = ms /\ a.sent = r.sent /\ a.at = r.at /\ a.held = r.held /\ a.shown = r.shown
      /\ a.pc \in {"input", "ready"}
  BY DEF Analyze, Unanswered, IsCall, CallFields
<1> HIDE DEF a
<1>2. a.pc \notin Showing \cup {"stream"} /\ a.pc # "stream" /\ a.pc \notin Showing /\ a.pc # "summary"
  BY <1>1 DEF Showing
<1>3. IsList(<<>>) /\ Unclosed(<<>>)
  BY UnclosedIs DEF IsList
<1>4. active => Readable(plugin, v, a)
  BY <1>1, <1>2, <1>3 DEF Readable, SentAs, Unanswered
<1>5. Passed(a)
  BY <1>2 DEF Passed
<1>6. CallEchoes(active, plugin, v, a)
  BY <1>1, <1>2, <1>4, <1>5 DEF CallEchoes, Unanswered
<1> QED BY <1>6 DEF a

\* A call that has only a kind.
LEMMA KindOnly ==
    ASSUME NEW kind
    PROVE  /\ Unanswered([Waiting EXCEPT !.kind = kind])
           /\ Unanswered(Waiting)
BY DEF Unanswered, IsCall, CallFields, Waiting

\* What users write has no closing bracket.
LEMMA WrittenIs ==
    ASSUME BracketsAreReserved, NEW text \in Texts
    PROVE  text \in Seq(Unbracketed)
<1>1. text \in Seq(STRING)
  BY ChatTurnAssumption DEF ChatTurnAssumption
<1>2. text \in Seq(Words) /\ DOMAIN text = 1 .. Len(text)
  BY <1>1, WordsOfTypes, LenProperties
<1>3. \A k \in 1 .. Len(text) : text[k] # Close
  BY <1>2 DEF BracketsAreReserved
<1> QED BY <1>2, <1>3, UnclosedIs DEF Unclosed

\* A send.
LEMMA SendEchoes ==
    ASSUME PlaceholdersReadApart, BracketsAreReserved, EchoInv, PrivacyInv',
           NEW c \in Calls, NEW text \in Texts, Send(c, text)
    PROVE  EchoInv'
<1> DEFINE own == Flat("user", text, {<<c, "user">>})
           ms == Append(messages, own)
           r == [Waiting EXCEPT !.kind = "send"]
           s == [r EXCEPT !.pc = "summary", !.input = ms]
<1>1. config \in Configs /\ config' = config /\ vault' = vault
  BY DEF Send, EchoInv, PrivacyInv
<1>2. GrowsInto(vault, vault')
  BY <1>1, GrowsNowhere DEF EchoInv, PrivacyInv, Ready
<1>3. messages' = Managed(ms) /\ Becomes(c, IF Triggers(ms) THEN s ELSE Analyze(r, Managed(ms)))
  BY DEF Send
<1>4. Active => Chatty(Unbracketed, ms)
  <2>1. text \in Seq(Unbracketed)
    BY WrittenIs
  <2>2. own.text \in Seq(Unbracketed)
    BY <2>1 DEF Flat, Message
  <2>3. Active => Chatty(Unbracketed, messages)
    BY DEF EchoInv
  <2> HIDE DEF own
  <2> QED BY <2>2, <2>3, MoreIsSaid
<1> HIDE DEF ms
<1> DEFINE new == Managed(ms)
<1>5. Active => Chatty(Unbracketed, new)
  BY <1>1, <1>4, WindowIsChat
<1>6. Active => Chatty(Unbracketed, messages')
  BY <1>3, <1>5
<1> HIDE DEF new
<1>7. Unanswered(r)
  BY KindOnly
<1> HIDE DEF r
<1>8. CASE Triggers(ms)
  <2>1. Becomes(c, s)
    BY <1>3, <1>8
  <2>2. /\ s.input = ms /\ s.sent = <<>> /\ s.at = 0 /\ s.held = <<>> /\ s.shown = <<>> /\ s.pc = "summary"
    BY <1>7 DEF Unanswered, IsCall, CallFields
  <2> HIDE DEF s
  <2>3. s.pc # "stream" /\ s.pc \notin Showing
    BY <2>2 DEF Showing
  <2>4. IsList(<<>>) /\ Unclosed(<<>>)
    BY UnclosedIs DEF IsList
  <2>5. Active => Readable(config.plugin, vault', s)
    BY <1>4, <2>2, <2>3, <2>4 DEF Readable, SentAs
  <2>6. Passed(s)
    BY <2>3 DEF Passed
  <2>7. CallEchoes(Active, config.plugin, vault', s)
    BY <2>2, <2>5, <2>6 DEF CallEchoes
  <2> QED BY <1>1, <1>2, <1>6, <2>1, <2>7, BecomingEchoes
<1>9. CASE ~Triggers(ms)
  <2> DEFINE a == Analyze(r, new)
  <2>1. Becomes(c, a)
    BY <1>3, <1>9 DEF new
  <2>2. CallEchoes(Active, config.plugin, vault', a)
    BY <1>5, <1>7, AnalyzeEchoes
  <2> HIDE DEF a
  <2> QED BY <1>1, <1>2, <1>6, <2>1, <2>2, BecomingEchoes
<1> QED BY <1>8, <1>9

\* A summary that arrives, or fails.
LEMMA SummaryEchoes ==
    ASSUME PlaceholdersReadApart, EchoInv, PrivacyInv', NEW c \in Calls, SummaryArrives(c) \/ SummaryFails(c)
    PROVE  EchoInv'
<1> DEFINE q == call[c]
<1>1. /\ config \in Configs /\ config' = config /\ vault' = vault /\ q.pc = "summary"
      /\ TypedCall(q) /\ CallEchoes(Active, config.plugin, vault, q)
  BY DEF SummaryArrives, SummaryFails, EchoInv, PrivacyInv, Typed
<1>2. GrowsInto(vault, vault')
  BY <1>1, GrowsNowhere DEF EchoInv, PrivacyInv, Ready
<1>3. CASE SummaryFails(c)
  <2>1. Becomes(c, Over("failed")) /\ messages' = messages
    BY <1>3 DEF SummaryFails, Fails
  <2> QED BY <1>1, <1>2, <2>1, KeptEchoes
<1>4. CASE SummaryArrives(c)
  <2> DEFINE short == Summarized(q.input)
             a == Analyze(q, short)
  <2>1. messages' = short /\ Becomes(c, a)
    BY <1>4 DEF SummaryArrives
  <2>2. Len(q.input) > config.keep
    BY <1>1 DEF TypedCall
  <2>3. Active => Chatty(Unbracketed, q.input)
    BY <1>1 DEF CallEchoes, Readable
  <2>4. Unanswered(q)
    BY <1>1 DEF CallEchoes, Showing, Unanswered, TypedCall
  <2> HIDE DEF q
  <2>5. Active => Chatty(Unbracketed, short)
    BY <1>1, <2>2, <2>3, SummaryIsChat
  <2> HIDE DEF short
  <2>6. CallEchoes(Active, config.plugin, vault', a)
    BY <2>4, <2>5, AnalyzeEchoes
  <2> HIDE DEF a
  <2>7. Active => Chatty(Unbracketed, messages')
    BY <2>1, <2>5
  <2> QED BY <1>1, <1>2, <2>1, <2>6, <2>7, BecomingEchoes
<1> QED BY <1>3, <1>4

\* Streams and pictures.
LEMMA ApartEchoes ==
    ASSUME PlaceholdersReadApart, BracketsAreReserved, EchoInv, PrivacyInv',
           NEW c \in Calls, NEW kind, NEW text \in Texts, Apart(c, kind, text)
    PROVE  EchoInv'
<1> DEFINE m == Flat("user", text, {})
           ms == <<m>>
           r == [Waiting EXCEPT !.kind = kind]
           a == Analyze(r, ms)
<1>1. config' = config /\ vault' = vault /\ messages' = messages /\ Becomes(c, a)
  BY DEF Apart
<1>2. GrowsInto(vault, vault') /\ (Active => Chatty(Unbracketed, messages'))
  BY <1>1, GrowsNowhere DEF EchoInv, PrivacyInv, Ready
<1>3. Chatty(Unbracketed, ms)
  <2>1. text \in Seq(Unbracketed)
    BY WrittenIs
  <2>2. m.text \in Seq(Unbracketed)
    BY <2>1 DEF Flat, Message
  <2> HIDE DEF m
  <2>3. ms \in Seq({m}) /\ Len(ms) = 1 /\ ms[1] = m
    OBVIOUS
  <2> HIDE DEF ms
  <2>4. IsList(ms) /\ Indices(ms) = {1}
    BY <2>3, ListIsSeq DEF Indices
  <2> QED BY <2>2, <2>3, <2>4 DEF Chatty
<1>4. Unanswered(r)
  BY KindOnly
<1> HIDE DEF ms, r
<1>5. CallEchoes(Active, config.plugin, vault', a)
  BY <1>3, <1>4, AnalyzeEchoes
<1> HIDE DEF a
<1> QED BY <1>1, <1>2, <1>5, BecomingEchoes

\* Steps that leave the calls alone.
LEMMA ChatEchoes ==
    ASSUME EchoInv, PrivacyInv', \/ Reset \/ Resume
                                 \/ UNCHANGED chatVars
    PROVE  EchoInv'
<1>1. config' = config /\ vault' = vault /\ call' = call
  BY DEF Reset, Resume, chatVars
<1>2. /\ Active => Chatty(Unbracketed, messages)
      /\ \A c \in Calls : CallEchoes(Active, config.plugin, vault, call[c])
      /\ Numbered(vault)
  BY DEF EchoInv
<1>3. Active => Chatty(Unbracketed, messages')
  <2>1. CASE Reset
    <3>1. IsList(<<>>) /\ Indices(<<>>) = {} /\ messages' = <<>>
      BY <2>1 DEF IsList, Indices, Reset
    <3> QED BY <3>1 DEF Chatty
  <2>2. CASE Resume
    BY <1>2, <2>2, ResumedIsChat DEF Resume
  <2>3. CASE UNCHANGED chatVars
    BY <1>2, <2>3 DEF chatVars
  <2> QED BY <2>1, <2>2, <2>3
<1>4. Active' = Active
  BY <1>1 DEF Active, Policy
<1>5. Numbered(vault)'
  BY <1>1, <1>2
<1> HIDE DEF Active
<1>6. \A c \in Calls : CallEchoes(Active', config'.plugin, vault', call'[c])
  BY <1>1, <1>2, <1>4
<1>7. Active' => Chatty(Unbracketed, messages')
  BY <1>3, <1>4
<1> QED BY <1>5, <1>6, <1>7 DEF EchoInv

-----------------------------------------------------------------------------
\* The invariant at the start.
LEMMA EchoInitInv == ChatInit => EchoInv
<1> SUFFICES ASSUME ChatInit PROVE EchoInv
  OBVIOUS
<1>1. PrivacyInv
  BY PrivacyInitInv
<1>2. Numbered(vault) /\ \A c \in Calls : call[c] = Waiting
  BY NewVaultNumbered DEF ChatInit
<1>3. Chatty(Unbracketed, messages)
  <2>1. messages = Seeds \/ messages = <<>>
    BY DEF ChatInit
  <2>2. Chatty(Unbracketed, Seeds)
    <3>1. IsList(Seeds)
      BY SeedsAreTidy DEF Tidy
    <3>2. \A i \in Indices(Seeds) : Seeds[i].text = <<"w">> \/ Seeds[i].text = <<>>
      <4>1. Len(Seeds) = 4
        BY DEF Seeds
      <4>2. \A i \in 1 .. 4 : i = 1 \/ i = 2 \/ i = 3 \/ i = 4
        OBVIOUS
      <4>3. /\ Seeds[1].text = <<"w">> /\ Seeds[2].text = <<>>
            /\ Seeds[3].text = <<>> /\ Seeds[4].text = <<"w">>
        BY DEF Seeds, Message
      <4> QED BY <4>1, <4>2, <4>3 DEF Indices
    <3> QED BY <3>1, <3>2, UnclosedIs DEF Chatty
  <2>3. Chatty(Unbracketed, <<>>)
    <3>1. IsList(<<>>) /\ Indices(<<>>) = {}
      BY DEF IsList, Indices
    <3> QED BY <3>1 DEF Chatty
  <2> QED BY <2>1, <2>2, <2>3
<1>4. \A c \in Calls : CallEchoes(Active, config.plugin, vault, call[c])
  BY <1>2, RestEchoes
<1> QED BY <1>1, <1>2, <1>3, <1>4 DEF EchoInv

\* No step breaks it.
LEMMA EchoNextInv ==
    ASSUME PlaceholdersReadApart, BracketsAreReserved, EchoInv, [ChatNext]_chatVars
    PROVE  EchoInv'
<1>1. PrivacyInv'
  <2>1. PrivacyInv
    BY DEF EchoInv
  <2> QED BY <2>1, PrivacyNextInv
<1>2. CASE UNCHANGED chatVars
  BY <1>1, <1>2, ChatEchoes
<1>3. CASE Reset \/ Resume
  BY <1>1, <1>3, ChatEchoes
<1>4. CASE \E c \in Calls, text \in Texts : Send(c, text) \/ AnalyzeStream(c, text) \/ AnalyzeImage(c, text)
  BY <1>1, <1>4, SendEchoes, ApartEchoes DEF AnalyzeStream, AnalyzeImage
<1>5. ASSUME NEW c \in Calls,
             \/ SummaryArrives(c) \/ SummaryFails(c)
             \/ InjectionFound(c) \/ OpenAIModerates(c) \/ ClassifierModerates(c)
             \/ ScopeChecks(c) \/ ScreensImage(c)
             \/ Ask(c) \/ ImageBlocked(c) \/ VendorFails(c) \/ VendorReplies(c)
             \/ VendorStreams(c) \/ ChunkArrives(c) \/ StreamEnds(c) \/ Unscreened(c)
      PROVE  EchoInv'
  BY <1>1, <1>5, SummaryEchoes, ScreensEcho, AskEchoes, VendorEchoes
<1> QED BY <1>2, <1>3, <1>4, <1>5 DEF ChatNext

-----------------------------------------------------------------------------
\* What a call has sent of a text is that text, masked.
LEMMA SentIsEncoded ==
    ASSUME EchoInv, Active, ~config.plugin, NEW c \in Calls, NEW i \in DOMAIN call[c].sent
    PROVE  /\ Encoded(vault, call[c].input[i].text, call[c].sent[i])
           /\ Unclosed(call[c].input[i].text)
<1> DEFINE q == call[c]
<1>1. Chatty(Unbracketed, q.input) /\ SentAs(vault, q)
  BY DEF EchoInv, CallEchoes, Readable
<1> HIDE DEF q
<1>2. CASE q.sent = <<>>
  <2>1. DOMAIN q.sent = {}
    BY <1>2
  <2> QED BY <2>1 DEF q
<1>3. CASE q.sent # <<>>
  <2>1. Len(q.sent) = Len(q.input) /\ \A k \in 1 .. Len(q.input) : Encoded(vault, TextsOf(q.input)[k], q.sent[k])
    BY <1>1, <1>3 DEF SentAs, AllEncoded
  <2>2. DOMAIN q.sent = 1 .. Len(q.sent)
    BY <1>1 DEF SentAs, IsList
  <2>3. i \in 1 .. Len(q.input)
    BY <2>1, <2>2 DEF q
  <2>4. DOMAIN q.input = 1 .. Len(q.input) /\ q.input[i].text \in Seq(Unbracketed)
    BY <1>1, <2>3, ListIsSeq DEF Chatty, IsList, Indices
  <2>5. TextsOf(q.input)[i] = q.input[i].text
    BY <2>3, <2>4 DEF TextsOf
  <2>6. Encoded(vault, q.input[i].text, q.sent[i]) /\ Unclosed(q.input[i].text)
    BY <2>1, <2>3, <2>4, <2>5, UnclosedIs
  <2> QED BY <2>6 DEF q
<1> QED BY <1>2, <1>3

\* It reads back.
LEMMA AllEchoesBack ==
    ASSUME PlaceholdersReadApart, EchoInv
    PROVE  EchoesBack
<1> SUFFICES ASSUME IsActive(Policy), ~config.plugin, NEW c \in Calls, NEW d \in Calls, NEW i \in DOMAIN call[c].sent
             PROVE  /\ RestoreText(vault, call[c].sent[i]) = call[c].input[i].text
                    /\ \A j \in DOMAIN call[d].sent :
                         call[d].input[j].text = call[c].input[i].text => call[d].sent[j] = call[c].sent[i]
  BY DEF EchoesBack
<1>1. Active /\ Ready(vault) /\ Lucid(vault)
  BY NumberedIsLucid DEF Active, EchoInv, PrivacyInv
<1> HIDE DEF Active
<1>2. Encoded(vault, call[c].input[i].text, call[c].sent[i]) /\ Unclosed(call[c].input[i].text)
  BY <1>1, SentIsEncoded
<1>3. RestoreText(vault, call[c].sent[i]) = call[c].input[i].text
  <2> DEFINE raw == call[c].input[i].text
             m == call[c].sent[i]
  <2>1. Unclosed(raw) /\ raw \in Seq(Words) /\ Encoded(vault, raw, m)
    BY <1>2 DEF Unclosed
  <2> HIDE DEF raw, m
  <2>2. Means(vault, m, raw)
    BY <1>1, <2>1, EncodedReads
  <2>3. RestoreText(vault, m) = raw
    BY <1>1, <2>2, ReadsIs
  <2> QED BY <2>3 DEF raw, m
<1>4. ASSUME NEW j \in DOMAIN call[d].sent, call[d].input[j].text = call[c].input[i].text
      PROVE  call[d].sent[j] = call[c].sent[i]
  <2>1. Encoded(vault, call[d].input[j].text, call[d].sent[j])
    BY <1>1, SentIsEncoded
  <2> QED BY <1>2, <1>4, <2>1 DEF Encoded
<1> QED BY <1>3, <1>4

\* Streams have shown what their replies say.
LEMMA AllShownAsWritten ==
    ASSUME PlaceholdersReadApart, EchoInv
    PROVE  ShownAsWritten
<1> SUFFICES ASSUME NEW c \in Calls, call[c].kind = "stream", call[c].pc \in {"output", "scope"}
             PROVE  call[c].shown = Restored(call[c].reply)
  BY DEF ShownAsWritten
<1>1. Lucid(vault) /\ CallEchoes(Active, config.plugin, vault, call[c])
  BY NumberedIsLucid DEF EchoInv
<1>2. CASE Active
  <2>1. Means(vault, call[c].reply, call[c].shown)
    BY <1>1, <1>2 DEF CallEchoes, Readable, Showing
  <2>2. RestoreText(vault, call[c].reply) = call[c].shown
    BY <1>1, <2>1, ReadsIs
  <2> QED BY <1>2, <2>2 DEF Restored, Active
<1>3. CASE ~Active
  <2>1. call[c].shown = call[c].reply
    BY <1>1, <1>3 DEF CallEchoes, Passed, Showing
  <2> QED BY <1>3, <2>1 DEF Restored, Active
<1> QED BY <1>2, <1>3

(* Restoring undoes masking: in every state that is reached, each masked   *)
(* text a call has sent reads back, with the vault as it is by then, as    *)
(* the text it was made of, equal texts were masked alike, and a stream    *)
(* that has ended has shown what its whole reply restores to, however it   *)
(* was cut, for every list of hints and of rules and every number of calls *)
(* that share the vault (firewall.py: mask_text, restore_text, TokenVault  *)
(* and StreamRestorer; detectors.py:167-187).  Users do not write the      *)
(* closing bracket (firewall.py:31-33), types are not brackets, and        *)
(* numbers are written without brackets and differently.                   *)
THEOREM RestoringUndoesMasking ==
    ASSUME PlaceholdersReadApart, BracketsAreReserved
    PROVE  ChatSpec => []RestoredFaithfully
<1>1. EchoInv /\ [ChatNext]_chatVars => EchoInv'
  BY EchoNextInv
<1>2. EchoInv => RestoredFaithfully
  BY AllEchoesBack, AllShownAsWritten DEF RestoredFaithfully
<1> QED BY <1>1, <1>2, EchoInitInv, PTL DEF ChatSpec
===============================================================================
