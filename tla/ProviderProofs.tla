--------------------------- MODULE ProviderProofs ---------------------------
(***************************************************************************)
(* Proofs about the way to a vendor and back: VendorTurn, for any tools    *)
(* and any number of calls, text deltas and turns; and ProviderFailover,   *)
(* for every set of requests, agents and providers, whatever the breakers' *)
(* limits and the number of keys.                                          *)
(***************************************************************************)
EXTENDS ProviderFailover, VendorTurn, ProofLemmas

USE VendorTurnAssumption

-----------------------------------------------------------------------------
(***************************************************************************)
(* VendorTurn.  The argument: the state of wrapper and loop is, at every   *)
(* moment of a stream, a function of what the vendor has sent.  Followed   *)
(* says which: each call has an entry of its own, at its place, that holds *)
(* what has come of its arguments but for what a restorer must hold back   *)
(* (Collected, Held); the events are Tidy, the open calls being those that *)
(* were started and not stopped; and Shown says it of the text.  Each      *)
(* handler keeps this, one event at a time.                                *)
(***************************************************************************)

(* What the recursive functions do, event by event.                        *)

\* f is the loop's state after each of the events of out, from st on; the recursive
\* function of Consumed is such a one.
Consuming(st, out, len, f) ==
    f = [i \in 0 .. len |-> IF i = 0 THEN st ELSE Consume(f[i - 1], out[i])]

LEMMA ConsumingExists ==
    ASSUME NEW st, NEW out, NEW len \in Nat
    PROVE  \E f : Consuming(st, out, len, f)
<1> DEFINE Bad == {n \in Nat : ~\E f : Consuming(st, out, n, f)}
<1>1. Bad = {}
  <2> SUFFICES ASSUME Bad # {} PROVE FALSE
    OBVIOUS
  <2>1. PICK n \in Bad : \A m \in Bad : n <= m
    <3>1. Bad \in SUBSET Nat
      OBVIOUS
    <3> HIDE DEF Bad
    <3> QED BY <3>1, LeastNumber
  <2>2. CASE n = 0
    <3> DEFINE f == [i \in 0 .. 0 |-> st]
    <3>1. Consuming(st, out, 0, f)
      BY DEF Consuming
    <3> QED BY <2>1, <2>2, <3>1
  <2>3. CASE n # 0
    <3>1. n \in Nat /\ n - 1 \in Nat /\ n - 1 \notin Bad
      <4>1. n \in Nat
        OBVIOUS
      <4> HIDE DEF Bad
      <4> QED BY <2>1, <2>3, <4>1
    <3>2. PICK f : Consuming(st, out, n - 1, f)
      BY <3>1
    <3> DEFINE Value(g, i) == IF i = 0 THEN st ELSE Consume(g[i - 1], out[i])
               more == [i \in 0 .. n |-> Value(f, i)]
    <3>3. f = [i \in 0 .. n - 1 |-> Value(f, i)]
      BY <3>2 DEF Consuming
    <3> HIDE DEF Value
    <3>4. \A i \in 0 .. n - 1 : more[i] = f[i]
      BY <3>1, <3>3
    <3>5. \A i \in 0 .. n : Value(f, i) = Value(more, i)
      <4> HIDE DEF more
      <4>1. \A i \in 0 .. n : i # 0 => i - 1 \in 0 .. n - 1
        BY <3>1
      <4> QED BY <3>4, <4>1 DEF Value
    <3>6. more = [i \in 0 .. n |-> Value(more, i)]
      BY <3>5
    <3>7. Consuming(st, out, n, more)
      <4> HIDE DEF more
      <4> QED BY <3>6 DEF Consuming, Value
    <3> QED BY <2>1, <3>7
  <2> QED BY <2>2, <2>3
<1> QED BY <1>1

LEMMA ConsumedBy ==
    ASSUME NEW st, NEW out, Len(out) \in Nat
    PROVE  \E f : Consuming(st, out, Len(out), f) /\ Consumed(st, out) = f[Len(out)]
<1> DEFINE f == CHOOSE g : Consuming(st, out, Len(out), g)
<1>1. Consuming(st, out, Len(out), f)
  BY ConsumingExists
<1>2. Consumed(st, out) = f[Len(out)]
  BY DEF Consumed, Consuming
<1> QED BY <1>1, <1>2

\* What the loop makes of no event, of one and of two.
LEMMA ConsumedNone == ASSUME NEW st PROVE Consumed(st, <<>>) = st
<1>1. Len(<<>>) = 0
  OBVIOUS
<1> QED BY <1>1, ConsumedBy DEF Consuming

LEMMA ConsumedOne == ASSUME NEW st, NEW a PROVE Consumed(st, <<a>>) = Consume(st, a)
<1>1. Len(<<a>>) = 1 /\ <<a>>[1] = a
  OBVIOUS
<1>2. PICK f : Consuming(st, <<a>>, 1, f) /\ Consumed(st, <<a>>) = f[1]
  BY <1>1, ConsumedBy
<1>3. f[0] = st /\ f[1] = Consume(f[0], a)
  BY <1>1, <1>2 DEF Consuming
<1> QED BY <1>2, <1>3

LEMMA ConsumedTwo ==
    ASSUME NEW st, NEW a, NEW b
    PROVE  Consumed(st, <<a, b>>) = Consume(Consume(st, a), b)
<1>1. Len(<<a, b>>) = 2 /\ <<a, b>>[1] = a /\ <<a, b>>[2] = b
  OBVIOUS
<1>2. PICK f : Consuming(st, <<a, b>>, 2, f) /\ Consumed(st, <<a, b>>) = f[2]
  BY <1>1, ConsumedBy
<1>3. f[0] = st /\ f[1] = Consume(f[0], a) /\ f[2] = Consume(f[1], b)
  BY <1>1, <1>2 DEF Consuming
<1> QED BY <1>2, <1>3

\* The same of the pipe, wrapper and loop together.
Delivering(st, es, len, f) ==
    f = [i \in 0 .. len |-> IF i = 0 THEN st ELSE Deliver(f[i - 1], es[i])]

LEMMA DeliveringExists ==
    ASSUME NEW st, NEW es, NEW len \in Nat
    PROVE  \E f : Delivering(st, es, len, f)
<1> DEFINE Bad == {n \in Nat : ~\E f : Delivering(st, es, n, f)}
<1>1. Bad = {}
  <2> SUFFICES ASSUME Bad # {} PROVE FALSE
    OBVIOUS
  <2>1. PICK n \in Bad : \A m \in Bad : n <= m
    <3>1. Bad \in SUBSET Nat
      OBVIOUS
    <3> HIDE DEF Bad
    <3> QED BY <3>1, LeastNumber
  <2>2. CASE n = 0
    <3> DEFINE f == [i \in 0 .. 0 |-> st]
    <3>1. Delivering(st, es, 0, f)
      BY DEF Delivering
    <3> QED BY <2>1, <2>2, <3>1
  <2>3. CASE n # 0
    <3>1. n \in Nat /\ n - 1 \in Nat /\ n - 1 \notin Bad
      <4>1. n \in Nat
        OBVIOUS
      <4> HIDE DEF Bad
      <4> QED BY <2>1, <2>3, <4>1
    <3>2. PICK f : Delivering(st, es, n - 1, f)
      BY <3>1
    <3> DEFINE Value(g, i) == IF i = 0 THEN st ELSE Deliver(g[i - 1], es[i])
               more == [i \in 0 .. n |-> Value(f, i)]
    <3>3. f = [i \in 0 .. n - 1 |-> Value(f, i)]
      BY <3>2 DEF Delivering
    <3> HIDE DEF Value
    <3>4. \A i \in 0 .. n - 1 : more[i] = f[i]
      BY <3>1, <3>3
    <3>5. \A i \in 0 .. n : Value(f, i) = Value(more, i)
      <4> HIDE DEF more
      <4>1. \A i \in 0 .. n : i # 0 => i - 1 \in 0 .. n - 1
        BY <3>1
      <4> QED BY <3>4, <4>1 DEF Value
    <3>6. more = [i \in 0 .. n |-> Value(more, i)]
      BY <3>5
    <3>7. Delivering(st, es, n, more)
      <4> HIDE DEF more
      <4> QED BY <3>6 DEF Delivering, Value
    <3> QED BY <2>1, <3>7
  <2> QED BY <2>2, <2>3
<1> QED BY <1>1

\* f goes from the pipe through the events, one after the other.
Runs(es, f) ==
    /\ f[0] = pipe
    /\ \A i \in 1 .. Len(es) : f[i] = Deliver(f[i - 1], es[i])
    /\ Yields(es) = f[Len(es)]

\* Yields takes the pipe through all of the events.
LEMMA YieldsRuns ==
    ASSUME NEW es, Len(es) \in Nat
    PROVE  \E f : Runs(es, f)
<1> DEFINE f == CHOOSE g : Delivering(pipe, es, Len(es), g)
<1>1. Delivering(pipe, es, Len(es), f)
  BY DeliveringExists
<1>2. Yields(es) = f[Len(es)]
  BY DEF Yields, Delivering
<1>3. f[0] = pipe /\ \A i \in 1 .. Len(es) : f[i] = Deliver(f[i - 1], es[i])
  <2> HIDE DEF f
  <2>1. \A i \in 0 .. Len(es) : f[i] = IF i = 0 THEN pipe ELSE Deliver(f[i - 1], es[i])
    BY <1>1 DEF Delivering
  <2>2. \A i \in 1 .. Len(es) : i \in 0 .. Len(es) /\ i # 0
    OBVIOUS
  <2> QED BY <2>1, <2>2
<1> HIDE DEF f
<1> QED BY <1>2, <1>3 DEF Runs

\* What it makes of one event, of two and of three.
LEMMA YieldsOne == ASSUME NEW a PROVE Yields(<<a>>) = Deliver(pipe, a)
<1>1. Len(<<a>>) = 1 /\ <<a>>[1] = a
  OBVIOUS
<1>2. PICK f : Runs(<<a>>, f)
  BY <1>1, YieldsRuns
<1> QED BY <1>1, <1>2 DEF Runs

LEMMA YieldsTwo ==
    ASSUME NEW a, NEW b
    PROVE  Yields(<<a, b>>) = Deliver(Deliver(pipe, a), b)
<1>1. Len(<<a, b>>) = 2 /\ <<a, b>>[1] = a /\ <<a, b>>[2] = b
  OBVIOUS
<1>2. PICK f : Runs(<<a, b>>, f)
  BY <1>1, YieldsRuns
<1>3. f[1] = Deliver(f[0], a) /\ f[2] = Deliver(f[1], b)
  BY <1>1, <1>2 DEF Runs
<1> QED BY <1>1, <1>2, <1>3 DEF Runs

LEMMA YieldsThree ==
    ASSUME NEW a, NEW b, NEW c
    PROVE  Yields(<<a, b, c>>) = Deliver(Deliver(Deliver(pipe, a), b), c)
<1>1. /\ Len(<<a, b, c>>) = 3 /\ <<a, b, c>>[1] = a /\ <<a, b, c>>[2] = b
      /\ <<a, b, c>>[3] = c
  OBVIOUS
<1>2. PICK f : Runs(<<a, b, c>>, f)
  BY <1>1, YieldsRuns
<1>3. f[1] = Deliver(f[0], a) /\ f[2] = Deliver(f[1], b) /\ f[3] = Deliver(f[2], c)
  BY <1>1, <1>2 DEF Runs
<1> QED BY <1>1, <1>2, <1>3 DEF Runs

-----------------------------------------------------------------------------
(* The wrapper, one kind of event at a time. *)

IsPipe(st) ==
    st = [restorers |-> st.restorers, held |-> st.held, events |-> st.events,
          partial |-> st.partial, shown |-> st.shown]

\* What the loop takes in of e when it is nothing.
Taken(st, e) == IF e.content = <<>> THEN st ELSE Consume(st, e)

\* The pipe with other text held back, with a restorer more and with one less.
WithHeld(st, s) == [st EXCEPT !.held = s]
Widened(r, id, s) == [i \in DOMAIN r \cup {id} |-> IF i = id THEN s ELSE r[i]]
Narrowed(r, id) == [i \in DOMAIN r \ {id} |-> r[i]]
WithRestorer(st, id, s) == [st EXCEPT !.restorers = Widened(@, id, s)]
WithoutRestorer(st, id) == [st EXCEPT !.restorers = Narrowed(@, id)]

\* The loop takes in what NonEmpty lets pass, and the event that comes with it.
LEMMA TakenIs ==
    ASSUME NEW st, NEW e, NEW last
    PROVE  /\ Consumed(st, NonEmpty(e)) = Taken(st, e)
           /\ Consumed(st, NonEmpty(e) \o <<last>>) = Consume(Taken(st, e), last)
<1>1. CASE e.content = <<>>
  <2>1. <<>> \o <<last>> = <<last>>
    OBVIOUS
  <2> QED BY <1>1, <2>1, ConsumedNone, ConsumedOne DEF NonEmpty, Taken
<1>2. CASE e.content # <<>>
  <2>1. <<e>> \o <<last>> = <<e, last>>
    BY OneAndOne
  <2>2. NonEmpty(e) = <<e>> /\ Taken(st, e) = Consume(st, e)
    BY <1>2 DEF NonEmpty, Taken
  <2>3. Consumed(st, NonEmpty(e)) = Taken(st, e)
    BY <2>2, ConsumedOne
  <2>4. Consumed(st, NonEmpty(e) \o <<last>>) = Consume(Taken(st, e), last)
    <3>1. NonEmpty(e) \o <<last>> = <<e, last>>
      BY <2>1, <2>2, Zenon
    <3>2. Consumed(st, <<e, last>>) = Consume(Consume(st, e), last)
      BY ConsumedTwo
    <3> QED BY <2>2, <3>1, <3>2, Zenon
  <2> QED BY <2>3, <2>4
<1> QED BY <1>1, <1>2

\* The events there are.
LEMMA EventsAre ==
    ASSUME NEW id, NEW name, NEW s, NEW reason
    PROVE  /\ Began(id, name) = [type |-> "tool_use_start", id |-> id, name |-> name, content |-> <<>>]
           /\ Delta(id, s) = [type |-> "tool_use_input_delta", id |-> id, name |-> "any", content |-> s]
           /\ Stop(id) = [type |-> "tool_use_stop", id |-> id, name |-> "any", content |-> <<>>]
           /\ Words(s) = [type |-> "text_delta", id |-> NoId, name |-> "any", content |-> s]
           /\ Complete(reason) = [type |-> "turn_complete", id |-> NoId, name |-> reason, content |-> <<>>]
           /\ Failure = [type |-> "error", id |-> NoId, name |-> "any", content |-> <<>>]
BY DEF Began, Delta, Stop, Words, Complete, Failure, Event

\* Behind no wrapper, or past one that does not look at it.
Unlooked(st, e) ==
    \/ ~Masked
    \/ e.type = "error"
    \/ e.type \in {"tool_use_input_delta", "tool_use_stop"} /\ e.id \notin DOMAIN st.restorers

\* What becomes of each kind of event.
LEMMA DeliverAsIs ==
    ASSUME NEW st, NEW e, Unlooked(st, e)
    PROVE  Deliver(st, e) = Consume(st, e)
<1>1. Wrap(st, e) = Unwrapped(st, e)
  BY DEF Wrap, Unlooked
<1> QED BY <1>1, ConsumedOne DEF Deliver, Unwrapped

LEMMA DeliverText ==
    ASSUME Masked, NEW st, NEW s, NEW buf, buf = st.held \o s
    PROVE  Deliver(st, Words(s)) =
             IF Last(buf) = "open" THEN Taken(WithHeld(st, <<"open">>), Words(Front(buf)))
             ELSE Consume(WithHeld(st, <<>>), Words(RestoredText(buf)))
<1> DEFINE e == Words(s)
<1>1. e.type = "text_delta" /\ e.content = s
  BY EventsAre
<1>2. Wrap(st, e) = WrapText(st, e)
  BY <1>1 DEF Wrap
<1>3. Deliver(st, e) = Consumed(WrapText(st, e).st, WrapText(st, e).out)
  BY <1>2 DEF Deliver
<1> HIDE DEF e
<1>4. CASE Last(buf) = "open"
  <2>1. /\ WrapText(st, e).st = WithHeld(st, <<"open">>)
        /\ WrapText(st, e).out = NonEmpty(Words(Front(buf)))
    BY <1>1, <1>4 DEF WrapText, WithHeld
  <2> QED BY <1>3, <1>4, <2>1, TakenIs DEF e
<1>5. CASE Last(buf) # "open"
  <2>1. /\ WrapText(st, e).st = WithHeld(st, <<>>)
        /\ WrapText(st, e).out = <<Words(RestoredText(buf))>>
    BY <1>1, <1>5 DEF WrapText, WithHeld
  <2> QED BY <1>3, <1>5, <2>1, ConsumedOne DEF e
<1> QED BY <1>4, <1>5

LEMMA DeliverStart ==
    ASSUME Masked, NEW st, NEW id, NEW t
    PROVE  Deliver(st, Began(id, t)) = Consume(WithRestorer(st, id, <<>>), Began(id, t))
<1> DEFINE e == Began(id, t)
<1>1. e.type = "tool_use_start" /\ e.id = id
  BY EventsAre
<1>2. Wrap(st, e) = WrapStart(st, e)
  BY <1>1 DEF Wrap
<1> HIDE DEF e
<1> QED BY <1>1, <1>2, ConsumedOne DEF Deliver, WrapStart, WithRestorer, Widened, e

LEMMA DeliverDelta ==
    ASSUME Masked, NEW st, IsPipe(st), NEW id \in DOMAIN st.restorers, NEW s,
           NEW buf, buf = st.restorers[id] \o s
    PROVE  Deliver(st, Delta(id, s)) =
             IF Dangling(Last(buf))
             THEN Taken(WithRestorer(st, id, <<Last(buf)>>), Delta(id, Front(buf)))
             ELSE Consume(WithRestorer(st, id, <<>>), Delta(id, Restored(buf)))
<1> DEFINE e == Delta(id, s)
<1>1. e.type = "tool_use_input_delta" /\ e.id = id /\ e.content = s
  BY EventsAre
<1>2. Wrap(st, e) = WrapDelta(st, e)
  BY <1>1 DEF Wrap
<1>3. ASSUME NEW r PROVE [st EXCEPT !.restorers[id] = r] = WithRestorer(st, id, r)
  <2>1. DOMAIN st.restorers \cup {id} = DOMAIN st.restorers
    OBVIOUS
  <2> QED BY <2>1 DEF WithRestorer, Widened, IsPipe
<1> HIDE DEF e
<1>4. CASE Dangling(Last(buf))
  <2>1. Wrap(st, e) = [st  |-> WithRestorer(st, id, <<Last(buf)>>),
                       out |-> NonEmpty(Delta(id, Front(buf)))]
    BY <1>1, <1>2, <1>3, <1>4 DEF WrapDelta
  <2> DEFINE after == WithRestorer(st, id, <<Last(buf)>>)
             next == Delta(id, Front(buf))
  <2> HIDE DEF after, next
  <2>2. Wrap(st, e) = [st |-> after, out |-> NonEmpty(next)]
    BY <2>1 DEF after, next
  <2>3. Deliver(st, e) = Consumed(after, NonEmpty(next))
    BY <2>2 DEF Deliver
  <2>4. Consumed(after, NonEmpty(next)) = Taken(after, next)
    BY TakenIs
  <2>5. Deliver(st, Delta(id, s)) = Taken(WithRestorer(st, id, <<Last(buf)>>), Delta(id, Front(buf)))
    BY <2>3, <2>4, Zenon DEF after, next, e
  <2> QED BY <1>4, <2>5
<1>5. CASE ~Dangling(Last(buf))
  <2>1. Wrap(st, e) = [st |-> WithRestorer(st, id, <<>>), out |-> <<Delta(id, Restored(buf))>>]
    BY <1>1, <1>2, <1>3, <1>5 DEF WrapDelta
  <2> QED BY <1>5, <2>1, ConsumedOne DEF Deliver, e
<1> QED BY <1>4, <1>5

LEMMA DeliverStop ==
    ASSUME Masked, NEW st, NEW id \in DOMAIN st.restorers
    PROVE  Deliver(st, Stop(id)) =
             Consume(Taken(WithoutRestorer(st, id), Delta(id, Restored(st.restorers[id]))), Stop(id))
<1> DEFINE e == Stop(id)
<1>1. e.type = "tool_use_stop" /\ e.id = id
  BY EventsAre
<1>2. Wrap(st, e) = WrapStop(st, e)
  BY <1>1 DEF Wrap
<1> HIDE DEF e
<1> QED BY <1>1, <1>2, TakenIs DEF Deliver, WrapStop, WithoutRestorer, Narrowed, e

LEMMA DeliverEnd ==
    ASSUME Masked, NEW st, NEW reason
    PROVE  Deliver(st, Complete(reason)) =
             Consume(Taken(WithHeld(st, <<>>), Words(RestoredText(st.held))), Complete(reason))
<1> DEFINE e == Complete(reason)
<1>1. e.type = "turn_complete"
  BY EventsAre
<1>2. Wrap(st, e) = WrapEnd(st, e)
  BY <1>1 DEF Wrap
<1> HIDE DEF e
<1> QED BY <1>1, <1>2, TakenIs DEF Deliver, WrapEnd, WithHeld, e

-----------------------------------------------------------------------------
(* What wrapper and loop keep is of its types. *)

Texts == {"plain", "open", "close", "value"}
Pieces(n) == [call : 1 .. n, part : Parts]
Entries(n) == [id : Ids, name : Tools, buf : Seq(Pieces(n))]

\* The pipe is of its types while the calls 1 .. n are made.
Typed(st, n) ==
    /\ IsPipe(st)
    /\ DOMAIN st.restorers \subseteq Ids
    /\ st.restorers \in [DOMAIN st.restorers -> Seq(Pieces(n))]
    /\ st.held \in Seq(Texts) /\ st.shown \in Seq(Texts)
    /\ IsList(st.events)
    /\ st.partial \in Seq(Entries(n))

IsEvent(e, n) ==
    /\ e.type = "text_delta" => e.content \in Seq(Texts)
    /\ e.type = "tool_use_start" => e.id \in Ids /\ e.name \in Tools
    /\ e.type = "tool_use_input_delta" => e.content \in Seq(Pieces(n))

\* What the loop has after an event.
PartialAfter(st, e) ==
    IF e.type = "tool_use_start" THEN Entering(st.partial, e)
    ELSE IF e.type = "tool_use_input_delta" THEN Growing(st.partial, e) ELSE st.partial
ShownAfter(st, e) == IF e.type = "text_delta" THEN st.shown \o e.content ELSE st.shown

LEMMA ConsumeIs ==
    ASSUME NEW st, IsPipe(st), NEW e
    PROVE  Consume(st, e) =
             [restorers |-> st.restorers, held |-> st.held, events |-> Append(st.events, e),
              partial |-> PartialAfter(st, e), shown |-> ShownAfter(st, e)]
<1>1. CASE e.type = "text_delta"
  BY <1>1 DEF Consume, IsPipe, PartialAfter, ShownAfter
<1>2. CASE e.type = "tool_use_start"
  BY <1>2 DEF Consume, IsPipe, PartialAfter, ShownAfter
<1>3. CASE e.type = "tool_use_input_delta"
  BY <1>3 DEF Consume, IsPipe, PartialAfter, ShownAfter
<1>4. CASE e.type \notin {"text_delta", "tool_use_start", "tool_use_input_delta"}
  BY <1>4 DEF Consume, IsPipe, PartialAfter, ShownAfter
<1> QED BY <1>1, <1>2, <1>3, <1>4

\* A pipe of which each part is of its type is of its types, and a part can change.
LEMMA TypedParts ==
    ASSUME NEW n \in Nat, NEW r, NEW h \in Seq(Texts), NEW es, IsList(es),
           NEW p \in Seq(Entries(n)), NEW s \in Seq(Texts),
           DOMAIN r \subseteq Ids, r \in [DOMAIN r -> Seq(Pieces(n))]
    PROVE  Typed([restorers |-> r, held |-> h, events |-> es, partial |-> p, shown |-> s], n)
<1> DEFINE st == [restorers |-> r, held |-> h, events |-> es, partial |-> p, shown |-> s]
<1>1. /\ st.restorers = r /\ st.held = h /\ st.events = es /\ st.partial = p /\ st.shown = s
      /\ IsPipe(st)
  BY DEF IsPipe
<1> HIDE DEF st
<1>2. Typed(st, n)
  BY <1>1 DEF Typed
<1> QED BY <1>2 DEF st

LEMMA WithHeldIs ==
    ASSUME NEW st, IsPipe(st), NEW s
    PROVE  WithHeld(st, s) = [restorers |-> st.restorers, held |-> s, events |-> st.events,
                              partial |-> st.partial, shown |-> st.shown]
BY DEF WithHeld, IsPipe

LEMMA WithRestorerIs ==
    ASSUME NEW st, IsPipe(st), NEW s, NEW id
    PROVE  WithRestorer(st, id, s) =
             [restorers |-> Widened(st.restorers, id, s), held |-> st.held, events |-> st.events,
              partial |-> st.partial, shown |-> st.shown]
BY DEF WithRestorer, IsPipe

LEMMA WithoutRestorerIs ==
    ASSUME NEW st, IsPipe(st), NEW id
    PROVE  WithoutRestorer(st, id) =
             [restorers |-> Narrowed(st.restorers, id), held |-> st.held, events |-> st.events,
              partial |-> st.partial, shown |-> st.shown]
BY DEF WithoutRestorer, IsPipe

\* The entries keep their types as calls are started and as fragments come.
LEMMA EnteringTyped ==
    ASSUME NEW n \in Nat, NEW partial \in Seq(Entries(n)), NEW e, e.id \in Ids, e.name \in Tools
    PROVE  Entering(partial, e) \in Seq(Entries(n))
<1>1. Entry(e) \in Entries(n)
  BY DEF Entry, Entries
<1>2. CASE Entered(partial, e.id)
  <2>1. [i \in 1 .. Len(partial) |-> IF partial[i].id = e.id THEN Entry(e) ELSE partial[i]]
          \in Seq(Entries(n))
    BY <1>1, IsASeq, LenProperties
  <2> QED BY <1>2, <2>1, LenProperties DEF Entering
<1>3. CASE ~Entered(partial, e.id)
  BY <1>1, <1>3, AppendProperties DEF Entering
<1> QED BY <1>2, <1>3

LEMMA GrowingTyped ==
    ASSUME NEW n \in Nat, NEW partial \in Seq(Entries(n)), NEW e, e.content \in Seq(Pieces(n))
    PROVE  Growing(partial, e) \in Seq(Entries(n))
<1>1. ASSUME NEW i \in 1 .. Len(partial)
      PROVE  [partial[i] EXCEPT !.buf = @ \o e.content] \in Entries(n)
  <2>1. partial[i] \in Entries(n)
    BY LenProperties
  <2>2. partial[i].buf \o e.content \in Seq(Pieces(n))
    BY <2>1, ConcatProperties DEF Entries
  <2> QED BY <2>1, <2>2 DEF Entries
<1>2. \A i \in 1 .. Len(partial) : partial[i] \in Entries(n)
  BY LenProperties
<1> DEFINE Grown(i) == IF partial[i].id = e.id THEN [partial[i] EXCEPT !.buf = @ \o e.content]
                       ELSE partial[i]
<1>3. \A i \in 1 .. Len(partial) : Grown(i) \in Entries(n)
  BY <1>1, <1>2
<1>4. Growing(partial, e) = [i \in 1 .. Len(partial) |-> Grown(i)]
  BY LenProperties DEF Growing
<1> HIDE DEF Grown
<1>5. [i \in 1 .. Len(partial) |-> Grown(i)] \in Seq(Entries(n))
  BY <1>3, IsASeq, LenProperties
<1> QED BY <1>4, <1>5

LEMMA ConsumeTyped ==
    ASSUME NEW n \in Nat, NEW st, Typed(st, n), NEW e, IsEvent(e, n)
    PROVE  Typed(Consume(st, e), n)
<1>1. PartialAfter(st, e) \in Seq(Entries(n))
  BY EnteringTyped, GrowingTyped DEF PartialAfter, Typed, IsEvent
<1>2. ShownAfter(st, e) \in Seq(Texts)
  BY ConcatProperties DEF ShownAfter, Typed, IsEvent
<1>3. IsList(Append(st.events, e))
  BY AppendList DEF Typed
<1>4. IsPipe(st) /\ st.held \in Seq(Texts) /\ DOMAIN st.restorers \subseteq Ids
      /\ st.restorers \in [DOMAIN st.restorers -> Seq(Pieces(n))]
  BY DEF Typed
<1>5. Typed([restorers |-> st.restorers, held |-> st.held, events |-> Append(st.events, e),
             partial |-> PartialAfter(st, e), shown |-> ShownAfter(st, e)], n)
  BY <1>1, <1>2, <1>3, <1>4, TypedParts
<1> QED BY <1>4, <1>5, ConsumeIs

LEMMA TakenTyped ==
    ASSUME NEW n \in Nat, NEW st, Typed(st, n), NEW e, IsEvent(e, n)
    PROVE  Typed(Taken(st, e), n)
BY ConsumeTyped DEF Taken

\* The pipe with other held text or restorers.
LEMMA WithTyped ==
    ASSUME NEW n \in Nat, NEW st, Typed(st, n)
    PROVE  /\ \A s \in Seq(Texts) : Typed(WithHeld(st, s), n)
           /\ \A id \in Ids, s \in Seq(Pieces(n)) : Typed(WithRestorer(st, id, s), n)
           /\ \A id : Typed(WithoutRestorer(st, id), n)
<1>0. /\ IsPipe(st) /\ st.held \in Seq(Texts) /\ st.shown \in Seq(Texts) /\ IsList(st.events)
      /\ st.partial \in Seq(Entries(n)) /\ DOMAIN st.restorers \subseteq Ids
      /\ st.restorers \in [DOMAIN st.restorers -> Seq(Pieces(n))]
  BY DEF Typed
<1>1. ASSUME NEW s \in Seq(Texts) PROVE Typed(WithHeld(st, s), n)
  BY <1>0, WithHeldIs, TypedParts
<1>2. ASSUME NEW id \in Ids, NEW s \in Seq(Pieces(n)) PROVE Typed(WithRestorer(st, id, s), n)
  <2> DEFINE r == Widened(st.restorers, id, s)
  <2>1. r \in [DOMAIN r -> Seq(Pieces(n))] /\ DOMAIN r \subseteq Ids
    BY <1>0 DEF Widened
  <2>2. WithRestorer(st, id, s) =
          [restorers |-> r, held |-> st.held, events |-> st.events, partial |-> st.partial,
           shown |-> st.shown]
    BY <1>0, WithRestorerIs
  <2> HIDE DEF r
  <2>3. Typed([restorers |-> r, held |-> st.held, events |-> st.events, partial |-> st.partial,
               shown |-> st.shown], n)
    BY <1>0, <2>1, TypedParts
  <2> QED BY <2>2, <2>3, Zenon
<1>3. ASSUME NEW id PROVE Typed(WithoutRestorer(st, id), n)
  <2> DEFINE r == Narrowed(st.restorers, id)
  <2>1. r \in [DOMAIN r -> Seq(Pieces(n))] /\ DOMAIN r \subseteq Ids
    BY <1>0 DEF Narrowed
  <2>2. WithoutRestorer(st, id) =
          [restorers |-> r, held |-> st.held, events |-> st.events, partial |-> st.partial,
           shown |-> st.shown]
    BY <1>0, WithoutRestorerIs
  <2> HIDE DEF r
  <2>3. Typed([restorers |-> r, held |-> st.held, events |-> st.events, partial |-> st.partial,
               shown |-> st.shown], n)
    BY <1>0, <2>1, TypedParts
  <2> QED BY <2>2, <2>3, Zenon
<1> QED BY <1>1, <1>2, <1>3

\* The last element of a list and those before it.
LEMMA LastAndFront ==
    ASSUME NEW S, NEW s \in Seq(S), s # <<>>
    PROVE  Last(s) \in S /\ Front(s) \in Seq(S) /\ <<Last(s)>> \in Seq(S)
<1>1. Len(s) \in Nat /\ Len(s) # 0 /\ \A i \in 1 .. Len(s) : s[i] \in S
  BY EmptySeq, LenProperties
<1>2. Last(s) \in S
  BY <1>1 DEF Last
<1>3. \A i \in 1 .. Len(s) - 1 : s[i] \in S
  BY <1>1
<1>4. Front(s) \in Seq(S)
  BY <1>1, <1>3, SubSeqProperties DEF Front
<1> QED BY <1>2, <1>4

\* What is restored is of the type of what it is restored from.
LEMMA RestoredTyped ==
    ASSUME NEW n \in Nat, NEW s \in Seq(Pieces(n))
    PROVE  Restored(s) \in Seq(Pieces(n))
<1>1. CASE Literal(s)
  <2>1. s[1] \in Pieces(n)
    <3>1. Len(s) = 2
      BY <1>1 DEF Literal
    <3> QED BY <3>1, ElementOfSeq
  <2>2. Piece(s[1].call, "real") \in Pieces(n)
    BY <2>1 DEF Pieces, Piece, Parts
  <2> QED BY <1>1, <2>2 DEF Restored
<1>2. CASE ~Literal(s)
  BY <1>2 DEF Restored
<1> QED BY <1>1, <1>2

LEMMA RestoredTextTyped ==
    ASSUME NEW s \in Seq(Texts)
    PROVE  RestoredText(s) \in Seq(Texts)
<1>1. <<"value">> \in Seq(Texts)
  BY DEF Texts
<1> QED BY <1>1 DEF RestoredText

\* Every event a vendor's dialect makes leaves the pipe of its types.
LEMMA DeliverTyped ==
    ASSUME NEW n \in Nat, NEW st, Typed(st, n)
    PROVE  /\ \A s \in Seq(Texts) : s # <<>> => Typed(Deliver(st, Words(s)), n)
           /\ \A id \in Ids, t \in Tools : Typed(Deliver(st, Began(id, t)), n)
           /\ \A id : \A s \in Seq(Pieces(n)) : s # <<>> => Typed(Deliver(st, Delta(id, s)), n)
           /\ \A id : Typed(Deliver(st, Stop(id)), n)
           /\ \A reason : Typed(Deliver(st, Complete(reason)), n)
           /\ Typed(Deliver(st, Failure), n)
<1>1. ASSUME NEW s \in Seq(Texts), s # <<>> PROVE Typed(Deliver(st, Words(s)), n)
  <2>1. \A w \in Seq(Texts) : IsEvent(Words(w), n)
    BY EventsAre DEF IsEvent
  <2>2. CASE Masked
    <3> DEFINE buf == st.held \o s
    <3>1. buf \in Seq(Texts) /\ buf # <<>>
      <4>1. st.held \in Seq(Texts)
        BY DEF Typed
      <4> QED BY <1>1, <4>1, ConcatProperties, EmptySeq
    <3> HIDE DEF buf
    <3>2. Front(buf) \in Seq(Texts) /\ RestoredText(buf) \in Seq(Texts)
      BY <3>1, LastAndFront, RestoredTextTyped
    <3>3. Typed(WithHeld(st, <<"open">>), n) /\ Typed(WithHeld(st, <<>>), n)
      <4>1. <<"open">> \in Seq(Texts) /\ <<>> \in Seq(Texts)
        BY DEF Texts
      <4> QED BY <4>1, WithTyped
    <3>4. /\ Typed(Taken(WithHeld(st, <<"open">>), Words(Front(buf))), n)
          /\ Typed(Consume(WithHeld(st, <<>>), Words(RestoredText(buf))), n)
      BY <2>1, <3>2, <3>3, TakenTyped, ConsumeTyped
    <3> QED BY <2>2, <3>4, DeliverText DEF buf
  <2>3. CASE ~Masked
    BY <2>1, <2>3, ConsumeTyped, DeliverAsIs DEF Unlooked
  <2> QED BY <2>2, <2>3
<1>2. ASSUME NEW id \in Ids, NEW t \in Tools PROVE Typed(Deliver(st, Began(id, t)), n)
  <2>1. IsEvent(Began(id, t), n)
    BY EventsAre DEF IsEvent
  <2>2. Typed(WithRestorer(st, id, <<>>), n)
    <3>1. <<>> \in Seq(Pieces(n))
      OBVIOUS
    <3> QED BY <3>1, WithTyped
  <2>3. CASE Masked
    BY <2>1, <2>2, <2>3, ConsumeTyped, DeliverStart
  <2>4. CASE ~Masked
    BY <2>1, <2>4, ConsumeTyped, DeliverAsIs DEF Unlooked
  <2> QED BY <2>3, <2>4
<1>3. ASSUME NEW id, NEW s \in Seq(Pieces(n)), s # <<>> PROVE Typed(Deliver(st, Delta(id, s)), n)
  <2>1. \A w \in Seq(Pieces(n)) : IsEvent(Delta(id, w), n)
    BY EventsAre DEF IsEvent
  <2>2. CASE Masked /\ id \in DOMAIN st.restorers
    <3> DEFINE buf == st.restorers[id] \o s
    <3>1. buf \in Seq(Pieces(n)) /\ buf # <<>>
      <4>1. st.restorers[id] \in Seq(Pieces(n))
        BY <2>2 DEF Typed
      <4> QED BY <1>3, <4>1, ConcatProperties, EmptySeq
    <3> HIDE DEF buf
    <3>2. Front(buf) \in Seq(Pieces(n)) /\ <<Last(buf)>> \in Seq(Pieces(n)) /\ Restored(buf) \in Seq(Pieces(n))
      BY <3>1, LastAndFront, RestoredTyped
    <3>3. Typed(WithRestorer(st, id, <<Last(buf)>>), n) /\ Typed(WithRestorer(st, id, <<>>), n)
      <4>1. id \in Ids /\ <<>> \in Seq(Pieces(n))
        BY <2>2 DEF Typed
      <4> QED BY <3>2, <4>1, WithTyped
    <3>4. /\ Typed(Taken(WithRestorer(st, id, <<Last(buf)>>), Delta(id, Front(buf))), n)
          /\ Typed(Consume(WithRestorer(st, id, <<>>), Delta(id, Restored(buf))), n)
      BY <2>1, <3>2, <3>3, TakenTyped, ConsumeTyped
    <3>5. IsPipe(st)
      BY DEF Typed
    <3> QED BY <2>2, <3>4, <3>5, DeliverDelta DEF buf
  <2>3. CASE ~(Masked /\ id \in DOMAIN st.restorers)
    <3>1. Unlooked(st, Delta(id, s))
      BY <2>3, EventsAre DEF Unlooked
    <3> QED BY <2>1, <3>1, ConsumeTyped, DeliverAsIs
  <2> QED BY <2>2, <2>3
<1>4. ASSUME NEW id PROVE Typed(Deliver(st, Stop(id)), n)
  <2>1. IsEvent(Stop(id), n) /\ \A w \in Seq(Pieces(n)) : IsEvent(Delta(id, w), n)
    BY EventsAre DEF IsEvent
  <2>2. CASE Masked /\ id \in DOMAIN st.restorers
    <3>1. Restored(st.restorers[id]) \in Seq(Pieces(n))
      BY <2>2, RestoredTyped DEF Typed
    <3>2. Typed(WithoutRestorer(st, id), n)
      BY WithTyped
    <3>3. Typed(Taken(WithoutRestorer(st, id), Delta(id, Restored(st.restorers[id]))), n)
      BY <2>1, <3>1, <3>2, TakenTyped
    <3> QED BY <2>1, <2>2, <3>3, ConsumeTyped, DeliverStop
  <2>3. CASE ~(Masked /\ id \in DOMAIN st.restorers)
    <3>1. Unlooked(st, Stop(id))
      BY <2>3, EventsAre DEF Unlooked
    <3> QED BY <2>1, <3>1, ConsumeTyped, DeliverAsIs
  <2> QED BY <2>2, <2>3
<1>5. ASSUME NEW reason PROVE Typed(Deliver(st, Complete(reason)), n)
  <2>1. IsEvent(Complete(reason), n) /\ \A w \in Seq(Texts) : IsEvent(Words(w), n)
    BY EventsAre DEF IsEvent
  <2>2. CASE Masked
    <3>1. RestoredText(st.held) \in Seq(Texts)
      BY RestoredTextTyped DEF Typed
    <3>2. Typed(WithHeld(st, <<>>), n)
      <4>1. <<>> \in Seq(Texts)
        OBVIOUS
      <4> QED BY <4>1, WithTyped
    <3>3. Typed(Taken(WithHeld(st, <<>>), Words(RestoredText(st.held))), n)
      BY <2>1, <3>1, <3>2, TakenTyped
    <3> QED BY <2>1, <2>2, <3>3, ConsumeTyped, DeliverEnd
  <2>3. CASE ~Masked
    BY <2>1, <2>3, ConsumeTyped, DeliverAsIs DEF Unlooked
  <2> QED BY <2>2, <2>3
<1>6. Typed(Deliver(st, Failure), n)
  <2>1. IsEvent(Failure, n) /\ Unlooked(st, Failure)
    BY EventsAre DEF IsEvent, Unlooked
  <2> QED BY <2>1, ConsumeTyped, DeliverAsIs
<1> QED BY <1>1, <1>2, <1>3, <1>4, <1>5, <1>6

-----------------------------------------------------------------------------
(* The events of a turn: open are the ids of calls that were started and   *)
(* not stopped, over those that were started and stopped.                  *)

Tidy(es, open, over) ==
    /\ IsList(es)
    /\ \A i \in DOMAIN es :
          /\ es[i].type \notin {"turn_complete", "error"}
          /\ es[i].type = "tool_use_start" => es[i].id \in open \cup over
          /\ es[i].type \in {"tool_use_input_delta", "tool_use_stop"} => BelongsToAnOpenCall(es, i)
    /\ \A id \in open \cup over : \E start : Of(es, "tool_use_start", id) = {start}
    /\ \A id \in open : Of(es, "tool_use_stop", id) = {}
    /\ \A id \in over : \E stop \in DOMAIN es : es[stop] = Stop(id)

\* more holds e, at place n, besides the events of es.
Counted(es, more, e, n) ==
    \A type, id :
      /\ e.type = type /\ e.id = id => Of(more, type, id) = Of(es, type, id) \cup {n}
      /\ ~(e.type = type /\ e.id = id) => Of(more, type, id) = Of(es, type, id)

\* The events of one type and id, after one more event.
LEMMA AppendEvent ==
    ASSUME NEW es, IsList(es), NEW e, NEW more, more = Append(es, e), NEW n, n = Len(es)
    PROVE  /\ IsList(more) /\ n \in Nat /\ Len(more) = n + 1
           /\ DOMAIN es = 1 .. n /\ DOMAIN more = 1 .. n + 1
           /\ more[n + 1] = e /\ \A i \in 1 .. n : more[i] = es[i]
           /\ Counted(es, more, e, n + 1)
           /\ \A i \in 1 .. n : BelongsToAnOpenCall(more, i) <=> BelongsToAnOpenCall(es, i)
<1>1. /\ IsList(more) /\ n \in Nat /\ Len(more) = n + 1
      /\ more[n + 1] = e /\ \A i \in 1 .. n : more[i] = es[i]
  BY AppendList DEF IsList, Indices
<1>2. DOMAIN es = 1 .. n /\ DOMAIN more = 1 .. n + 1
  BY <1>1, ListIsSeq DEF Indices
<1>3. Counted(es, more, e, n + 1)
  <2>1. \A i \in 1 .. n + 1 : i \in 1 .. n \/ i = n + 1
    BY <1>1
  <2>2. \A i \in 1 .. n : i \in 1 .. n + 1
    BY <1>1
  <2>3. n + 1 \in 1 .. n + 1
    BY <1>1
  <2> QED BY <1>1, <1>2, <2>1, <2>2, <2>3 DEF Of, Counted
<1>4. ASSUME NEW i \in 1 .. n
      PROVE  BelongsToAnOpenCall(more, i) <=> BelongsToAnOpenCall(es, i)
  <2>1. ASSUME NEW type, NEW id
        PROVE  Of(more, type, id) \cap 1 .. i - 1 = Of(es, type, id) \cap 1 .. i - 1
    <3>1. n + 1 \notin 1 .. i - 1
      BY <1>1
    <3>2. Of(more, type, id) = Of(es, type, id) \cup {n + 1} \/ Of(more, type, id) = Of(es, type, id)
      BY <1>3 DEF Counted
    <3> HIDE DEF Of
    <3> QED BY <3>1, <3>2
  <2>2. more[i].id = es[i].id
    BY <1>1
  <2> QED BY <2>1, <2>2 DEF BelongsToAnOpenCall
<1> QED BY <1>1, <1>2, <1>3, <1>4

\* An event that is neither a start nor the end leaves all in order, when it is
\* of no call or of one that is open.
LEMMA TidyDelta ==
    ASSUME NEW es, NEW open, NEW over, Tidy(es, open, over), NEW e,
           \/ e.type = "text_delta"
           \/ e.type = "tool_use_input_delta" /\ e.id \in open
    PROVE  Tidy(Append(es, e), open, over)
<1> DEFINE more == Append(es, e)
           n == Len(es)
<1>1. IsList(es)
  BY DEF Tidy
<1>2. /\ IsList(more) /\ n \in Nat /\ Len(more) = n + 1
      /\ DOMAIN es = 1 .. n /\ DOMAIN more = 1 .. n + 1
      /\ more[n + 1] = e /\ \A i \in 1 .. n : more[i] = es[i]
      /\ Counted(es, more, e, n + 1)
      /\ \A i \in 1 .. n : BelongsToAnOpenCall(more, i) <=> BelongsToAnOpenCall(es, i)
  BY <1>1, AppendEvent
<1> HIDE DEF more, n
<1>3. \A i \in 1 .. n + 1 : i \in 1 .. n \/ i = n + 1
  BY <1>2
<1>4. \A id : /\ Of(more, "tool_use_start", id) = Of(es, "tool_use_start", id)
              /\ Of(more, "tool_use_stop", id) = Of(es, "tool_use_stop", id)
  BY <1>2 DEF Counted
<1>5. e.type = "tool_use_input_delta" => BelongsToAnOpenCall(more, n + 1)
  <2> SUFFICES ASSUME e.type = "tool_use_input_delta" PROVE BelongsToAnOpenCall(more, n + 1)
    OBVIOUS
  <2>1. PICK start : Of(es, "tool_use_start", e.id) = {start}
    BY DEF Tidy
  <2>2. Of(es, "tool_use_stop", e.id) = {}
    BY DEF Tidy
  <2>3. start \in 1 .. n
    BY <1>2, <2>1 DEF Of
  <2>4. n + 1 - 1 = n
    BY <1>2
  <2>5. start \in 1 .. n + 1 - 1
    BY <2>3, <2>4
  <2>6. Of(more, "tool_use_start", e.id) \cap 1 .. n + 1 - 1 = {start}
    BY <1>4, <2>1, <2>5
  <2>7. Of(more, "tool_use_stop", e.id) \cap 1 .. n + 1 - 1 = {}
    BY <1>4, <2>2
  <2> QED BY <1>2, <2>5, <2>6, <2>7 DEF BelongsToAnOpenCall
<1>6. ASSUME NEW i \in DOMAIN more
      PROVE  /\ more[i].type \notin {"turn_complete", "error"}
             /\ more[i].type = "tool_use_start" => more[i].id \in open \cup over
             /\ more[i].type \in {"tool_use_input_delta", "tool_use_stop"} => BelongsToAnOpenCall(more, i)
  <2>1. CASE i = n + 1
    BY <1>2, <1>5, <2>1
  <2>2. CASE i \in 1 .. n
    BY <1>2, <2>2 DEF Tidy
  <2> QED BY <1>2, <1>3, <2>1, <2>2
<1>7. ASSUME NEW id \in over PROVE \E stop \in DOMAIN more : more[stop] = Stop(id)
  <2>1. PICK stop \in DOMAIN es : es[stop] = Stop(id)
    BY DEF Tidy
  <2>2. stop \in 1 .. n /\ stop \in 1 .. n + 1
    BY <1>2, <2>1
  <2> QED BY <1>2, <2>1, <2>2
<1>8. Tidy(more, open, over)
  <2>1. /\ \A id \in open \cup over : \E start : Of(more, "tool_use_start", id) = {start}
        /\ \A id \in open : Of(more, "tool_use_stop", id) = {}
    BY <1>4 DEF Tidy
  <2> QED BY <1>2, <1>6, <1>7, <2>1 DEF Tidy
<1> QED BY <1>8 DEF more

\* A call is started whose id is not in use.
LEMMA TidyStart ==
    ASSUME NEW es, NEW open, NEW over, Tidy(es, open, over), NEW id, NEW name,
           id \notin open \cup over
    PROVE  Tidy(Append(es, Began(id, name)), open \cup {id}, over)
<1> DEFINE e == Began(id, name)
           more == Append(es, e)
           n == Len(es)
<1>0. e.type = "tool_use_start" /\ e.id = id
  BY EventsAre
<1>1. IsList(es)
  BY DEF Tidy
<1> HIDE DEF e
<1>2. /\ IsList(more) /\ n \in Nat /\ Len(more) = n + 1
      /\ DOMAIN es = 1 .. n /\ DOMAIN more = 1 .. n + 1
      /\ more[n + 1] = e /\ \A i \in 1 .. n : more[i] = es[i]
      /\ Counted(es, more, e, n + 1)
      /\ \A i \in 1 .. n : BelongsToAnOpenCall(more, i) <=> BelongsToAnOpenCall(es, i)
  BY <1>1, AppendEvent
<1> HIDE DEF more, n
<1>3. \A i \in 1 .. n + 1 : i \in 1 .. n \/ i = n + 1
  BY <1>2
<1>4. \A d : /\ d # id => Of(more, "tool_use_start", d) = Of(es, "tool_use_start", d)
             /\ Of(more, "tool_use_stop", d) = Of(es, "tool_use_stop", d)
  BY <1>0, <1>2 DEF Counted
<1>5. Of(es, "tool_use_start", id) = {} /\ Of(es, "tool_use_stop", id) = {}
  <2>1. Of(es, "tool_use_start", id) = {}
    BY DEF Tidy, Of
  <2>2. ASSUME NEW i \in Of(es, "tool_use_stop", id) PROVE FALSE
    <3>1. i \in DOMAIN es /\ es[i].type = "tool_use_stop" /\ es[i].id = id
      BY <2>2 DEF Of
    <3>2. BelongsToAnOpenCall(es, i)
      BY <3>1 DEF Tidy
    <3> QED BY <2>1, <3>1, <3>2 DEF BelongsToAnOpenCall
  <2> QED BY <2>1, <2>2
<1>6. Of(more, "tool_use_start", id) = {n + 1}
  BY <1>0, <1>2, <1>5 DEF Counted
<1>7. ASSUME NEW i \in DOMAIN more
      PROVE  /\ more[i].type \notin {"turn_complete", "error"}
             /\ more[i].type = "tool_use_start" => more[i].id \in open \cup {id} \cup over
             /\ more[i].type \in {"tool_use_input_delta", "tool_use_stop"} => BelongsToAnOpenCall(more, i)
  <2>1. CASE i = n + 1
    BY <1>0, <1>2, <2>1
  <2>2. CASE i \in 1 .. n
    BY <1>2, <2>2 DEF Tidy
  <2> QED BY <1>2, <1>3, <2>1, <2>2
<1>8. ASSUME NEW d \in over PROVE \E stop \in DOMAIN more : more[stop] = Stop(d)
  <2>1. PICK stop \in DOMAIN es : es[stop] = Stop(d)
    BY DEF Tidy
  <2>2. stop \in 1 .. n /\ stop \in 1 .. n + 1
    BY <1>2, <2>1
  <2> QED BY <1>2, <2>1, <2>2
<1>9. Tidy(more, open \cup {id}, over)
  <2>1. \A d \in open \cup {id} \cup over : \E start : Of(more, "tool_use_start", d) = {start}
    BY <1>4, <1>6 DEF Tidy
  <2>2. \A d \in open \cup {id} : Of(more, "tool_use_stop", d) = {}
    BY <1>4, <1>5 DEF Tidy
  <2> QED BY <1>2, <1>7, <1>8, <2>1, <2>2 DEF Tidy
<1> QED BY <1>9 DEF more, e

\* A call that is open is stopped.
LEMMA TidyStop ==
    ASSUME NEW es, NEW open, NEW over, Tidy(es, open, over), NEW id \in open
    PROVE  Tidy(Append(es, Stop(id)), open \ {id}, over \cup {id})
<1> DEFINE e == Stop(id)
           more == Append(es, e)
           n == Len(es)
<1>0. e.type = "tool_use_stop" /\ e.id = id
  BY EventsAre
<1>1. IsList(es)
  BY DEF Tidy
<1> HIDE DEF e
<1>2. /\ IsList(more) /\ n \in Nat /\ Len(more) = n + 1
      /\ DOMAIN es = 1 .. n /\ DOMAIN more = 1 .. n + 1
      /\ more[n + 1] = e /\ \A i \in 1 .. n : more[i] = es[i]
      /\ Counted(es, more, e, n + 1)
      /\ \A i \in 1 .. n : BelongsToAnOpenCall(more, i) <=> BelongsToAnOpenCall(es, i)
  BY <1>1, AppendEvent
<1> HIDE DEF more, n
<1>3. \A i \in 1 .. n + 1 : i \in 1 .. n \/ i = n + 1
  BY <1>2
<1>4. \A d : /\ Of(more, "tool_use_start", d) = Of(es, "tool_use_start", d)
             /\ d # id => Of(more, "tool_use_stop", d) = Of(es, "tool_use_stop", d)
  BY <1>0, <1>2 DEF Counted
<1>5. BelongsToAnOpenCall(more, n + 1)
  <2>1. PICK start : Of(es, "tool_use_start", id) = {start}
    BY DEF Tidy
  <2>2. Of(es, "tool_use_stop", id) = {}
    BY DEF Tidy
  <2>3. start \in 1 .. n
    BY <1>2, <2>1 DEF Of
  <2>4. n + 1 - 1 = n
    BY <1>2
  <2>5. start \in 1 .. n + 1 - 1
    BY <2>3, <2>4
  <2>6. Of(more, "tool_use_start", id) \cap 1 .. n + 1 - 1 = {start}
    BY <1>4, <2>1, <2>5
  <2>7. Of(more, "tool_use_stop", id) \cap 1 .. n + 1 - 1 = {}
    <3>1. n + 1 \notin 1 .. n
      BY <1>2
    <3> QED BY <1>0, <1>2, <2>2, <2>4, <3>1 DEF Counted
  <2> QED BY <1>0, <1>2, <2>5, <2>6, <2>7 DEF BelongsToAnOpenCall
<1>6. ASSUME NEW i \in DOMAIN more
      PROVE  /\ more[i].type \notin {"turn_complete", "error"}
             /\ more[i].type = "tool_use_start" => more[i].id \in (open \ {id}) \cup (over \cup {id})
             /\ more[i].type \in {"tool_use_input_delta", "tool_use_stop"} => BelongsToAnOpenCall(more, i)
  <2>1. CASE i = n + 1
    BY <1>0, <1>2, <1>5, <2>1
  <2>2. CASE i \in 1 .. n
    BY <1>2, <2>2 DEF Tidy
  <2> QED BY <1>2, <1>3, <2>1, <2>2
<1>7. ASSUME NEW d \in over \cup {id} PROVE \E stop \in DOMAIN more : more[stop] = Stop(d)
  <2>1. CASE d = id
    <3>1. n + 1 \in DOMAIN more
      BY <1>2
    <3> QED BY <1>2, <2>1, <3>1 DEF e
  <2>2. CASE d \in over
    <3>1. PICK stop \in DOMAIN es : es[stop] = Stop(d)
      BY <2>2 DEF Tidy
    <3>2. stop \in 1 .. n /\ stop \in 1 .. n + 1
      BY <1>2, <3>1
    <3> QED BY <1>2, <3>1, <3>2
  <2> QED BY <2>1, <2>2
<1>8. Tidy(more, open \ {id}, over \cup {id})
  <2>1. \A d \in (open \ {id}) \cup (over \cup {id}) : \E start : Of(more, "tool_use_start", d) = {start}
    BY <1>4 DEF Tidy
  <2>2. \A d \in open \ {id} : Of(more, "tool_use_stop", d) = {}
    BY <1>4 DEF Tidy
  <2> QED BY <1>2, <1>6, <1>7, <2>1, <2>2 DEF Tidy
<1> QED BY <1>8 DEF more, e

\* The end of a turn, when no call is open, or of the stream.
LEMMA TidyEnd ==
    ASSUME NEW es, NEW open, NEW over, Tidy(es, open, over), NEW e,
           e.type = "error" \/ (e.type = "turn_complete" /\ open = {})
    PROVE  InOrder(Append(es, e))
<1> DEFINE more == Append(es, e)
           n == Len(es)
<1>1. IsList(es)
  BY DEF Tidy
<1>2. /\ IsList(more) /\ n \in Nat /\ Len(more) = n + 1
      /\ DOMAIN es = 1 .. n /\ DOMAIN more = 1 .. n + 1
      /\ more[n + 1] = e /\ \A i \in 1 .. n : more[i] = es[i]
      /\ Counted(es, more, e, n + 1)
      /\ \A i \in 1 .. n : BelongsToAnOpenCall(more, i) <=> BelongsToAnOpenCall(es, i)
  BY <1>1, AppendEvent
<1> HIDE DEF more, n
<1>3. \A i \in 1 .. n + 1 : i \in 1 .. n \/ i = n + 1
  BY <1>2
<1>4. e.type = "turn_complete" => AllStopped(more)
  <2> SUFFICES ASSUME e.type = "turn_complete",
                      NEW start \in DOMAIN more, more[start].type = "tool_use_start"
               PROVE  \E stop \in DOMAIN more : stop > start /\ more[stop] = Stop(more[start].id)
    BY DEF AllStopped
  <2>1. start \in 1 .. n /\ more[start] = es[start] /\ start \in DOMAIN es
    BY <1>2, <1>3
  <2> DEFINE id == es[start].id
  <2>2. id \in over
    BY <2>1 DEF Tidy
  <2>3. PICK stop \in DOMAIN es : es[stop] = Stop(id)
    BY <2>2 DEF Tidy
  <2>4. es[stop].type = "tool_use_stop" /\ es[stop].id = id
    BY <2>3, EventsAre
  <2>5. BelongsToAnOpenCall(es, stop)
    BY <2>4 DEF Tidy
  <2>6. PICK first \in 1 .. stop - 1 : Of(es, "tool_use_start", id) \cap 1 .. stop - 1 = {first}
    BY <2>4, <2>5 DEF BelongsToAnOpenCall
  <2>7. PICK only : Of(es, "tool_use_start", id) = {only}
    BY <2>2 DEF Tidy
  <2>8. first = only /\ start = only
    <3>1. start \in Of(es, "tool_use_start", id)
      BY <2>1 DEF Of
    <3> QED BY <2>6, <2>7, <3>1
  <2>9. stop \in 1 .. n /\ stop > start
    BY <1>2, <2>3, <2>6, <2>8
  <2>10. more[stop] = Stop(more[start].id) /\ stop \in DOMAIN more
    BY <1>2, <2>1, <2>3, <2>9
  <2> QED BY <2>9, <2>10
<1>5. ASSUME NEW i \in DOMAIN more
      PROVE  /\ more[i].type \in {"tool_use_input_delta", "tool_use_stop"} => BelongsToAnOpenCall(more, i)
             /\ more[i].type \in {"turn_complete", "error"} => i = Len(more)
             /\ more[i].type = "turn_complete" => AllStopped(more)
  <2>1. CASE i = n + 1
    BY <1>2, <1>4, <2>1
  <2>2. CASE i \in 1 .. n
    BY <1>2, <2>2 DEF Tidy
  <2> QED BY <1>2, <1>3, <2>1, <2>2
<1>6. InOrder(more)
  BY <1>5 DEF InOrder
<1> QED BY <1>6 DEF more

\* Tidy events are in order, and so are none.
LEMMA TidyInOrder ==
    ASSUME NEW es, NEW open, NEW over, Tidy(es, open, over)
    PROVE  InOrder(es)
BY DEF Tidy, InOrder

LEMMA NothingIsTidy == Tidy(<<>>, {}, {})
BY DEF Tidy, IsList

-----------------------------------------------------------------------------
(* What is to be read of a text, delta by delta.                           *)

\* Readable, as a step for each delta.
Reads(before, word) ==
    IF Masked /\ word = "close" THEN Append(Front(before), "value") ELSE Append(before, word)

Reading(s, len, f) ==
    f = [i \in 0 .. len |-> IF i = 0 THEN <<>> ELSE Reads(f[i - 1], s[i])]

LEMMA ReadingExists ==
    ASSUME NEW s, NEW len \in Nat
    PROVE  \E f : Reading(s, len, f)
<1> DEFINE Bad == {n \in Nat : ~\E f : Reading(s, n, f)}
<1>1. Bad = {}
  <2> SUFFICES ASSUME Bad # {} PROVE FALSE
    OBVIOUS
  <2>1. PICK n \in Bad : \A m \in Bad : n <= m
    <3>1. Bad \in SUBSET Nat
      OBVIOUS
    <3> HIDE DEF Bad
    <3> QED BY <3>1, LeastNumber
  <2>2. CASE n = 0
    <3> DEFINE f == [i \in 0 .. 0 |-> <<>>]
    <3>1. Reading(s, 0, f)
      BY DEF Reading
    <3> QED BY <2>1, <2>2, <3>1
  <2>3. CASE n # 0
    <3>1. n \in Nat /\ n - 1 \in Nat /\ n - 1 \notin Bad
      <4>1. n \in Nat
        OBVIOUS
      <4> HIDE DEF Bad
      <4> QED BY <2>1, <2>3, <4>1
    <3>2. PICK f : Reading(s, n - 1, f)
      BY <3>1
    <3> DEFINE Value(g, i) == IF i = 0 THEN <<>> ELSE Reads(g[i - 1], s[i])
               more == [i \in 0 .. n |-> Value(f, i)]
    <3>3. f = [i \in 0 .. n - 1 |-> Value(f, i)]
      BY <3>2 DEF Reading
    <3> HIDE DEF Value
    <3>4. \A i \in 0 .. n - 1 : more[i] = f[i]
      BY <3>1, <3>3
    <3>5. \A i \in 0 .. n : Value(f, i) = Value(more, i)
      <4> HIDE DEF more
      <4>1. \A i \in 0 .. n : i # 0 => i - 1 \in 0 .. n - 1
        BY <3>1
      <4> QED BY <3>4, <4>1 DEF Value
    <3>6. more = [i \in 0 .. n |-> Value(more, i)]
      BY <3>5
    <3>7. Reading(s, n, more)
      <4> HIDE DEF more
      <4> QED BY <3>6 DEF Reading, Value
    <3> QED BY <2>1, <3>7
  <2> QED BY <2>2, <2>3
<1> QED BY <1>1

\* Readable is such a reading; of nothing it is nothing, and one delta more adds
\* to it or closes the placeholder that was opened last.
LEMMA ReadableIs ==
    ASSUME NEW s, Len(s) \in Nat
    PROVE  \E f : Reading(s, Len(s), f) /\ Readable(s) = f[Len(s)]
<1> DEFINE f == CHOOSE g : Reading(s, Len(s), g)
<1>1. Reading(s, Len(s), f)
  BY ReadingExists
<1>2. Readable(s) = f[Len(s)]
  BY DEF Readable, Reading, Reads
<1> QED BY <1>1, <1>2

LEMMA ReadableNothing == Readable(<<>>) = <<>>
<1>1. Len(<<>>) = 0
  OBVIOUS
<1> QED BY <1>1, ReadableIs DEF Reading

LEMMA ReadableMore ==
    ASSUME NEW S, NEW s \in Seq(S), NEW word \in S
    PROVE  Readable(Append(s, word)) = Reads(Readable(s), word)
<1> DEFINE more == Append(s, word)
           n == Len(s)
<1>1. /\ n \in Nat /\ Len(more) = n + 1
      /\ more[n + 1] = word /\ \A i \in 1 .. n : more[i] = s[i]
  BY AppendProperties, LenProperties
<1>2. PICK f : Reading(s, n, f) /\ Readable(s) = f[n]
  BY <1>1, ReadableIs
<1>3. PICK g : Reading(more, n + 1, g) /\ Readable(more) = g[n + 1]
  <2>1. Len(more) \in Nat
    BY <1>1
  <2> HIDE DEF more
  <2> QED BY <1>1, <2>1, ReadableIs
<1> HIDE DEF more, n
<1>4. /\ f[0] = <<>> /\ \A i \in 1 .. n : f[i] = Reads(f[i - 1], s[i])
      /\ g[0] = <<>> /\ \A i \in 1 .. n + 1 : g[i] = Reads(g[i - 1], more[i])
  <2>1. 0 \in 0 .. n /\ 0 \in 0 .. n + 1
    BY <1>1
  <2>2. \A i \in 1 .. n : i \in 0 .. n /\ i # 0
    BY <1>1
  <2>3. \A i \in 1 .. n + 1 : i \in 0 .. n + 1 /\ i # 0
    BY <1>1
  <2> QED BY <1>2, <1>3, <2>1, <2>2, <2>3 DEF Reading
<1>5. \A i \in 0 .. n : f[i] = g[i]
  <2> DEFINE Bad == {i \in Nat : i <= n /\ f[i] # g[i]}
  <2> SUFFICES ASSUME Bad # {} PROVE FALSE
    BY <1>1
  <2>1. PICK i \in Bad : \A j \in Bad : i <= j
    <3>1. Bad \in SUBSET Nat
      OBVIOUS
    <3> HIDE DEF Bad
    <3> QED BY <3>1, LeastNumber
  <2>2. i # 0
    BY <1>4, <2>1
  <2>3. i \in 1 .. n /\ i \in 1 .. n + 1 /\ i - 1 \in Nat /\ i - 1 <= n /\ ~(i <= i - 1)
    BY <1>1, <2>1, <2>2
  <2>4. f[i - 1] = g[i - 1]
    BY <2>1, <2>3
  <2>5. f[i] = Reads(f[i - 1], s[i]) /\ g[i] = Reads(g[i - 1], s[i])
    BY <1>1, <1>4, <2>3
  <2>6. f[i] = g[i]
    BY <2>4, <2>5
  <2> QED BY <2>1, <2>6
<1>6. g[n + 1] = Reads(g[n], word)
  <2>1. n + 1 \in 1 .. n + 1 /\ n + 1 - 1 = n
    BY <1>1
  <2> QED BY <1>1, <1>4, <2>1
<1>7. f[n] = g[n]
  BY <1>1, <1>5
<1>8. Readable(more) = Reads(Readable(s), word)
  BY <1>2, <1>3, <1>6, <1>7
<1> QED BY <1>8 DEF more

-----------------------------------------------------------------------------
(* What the user is shown.                                                 *)

\* Which parts of the pipe an event changes.
LEMMA ConsumeParts ==
    ASSUME NEW st, IsPipe(st), NEW e
    PROVE  /\ IsPipe(Consume(st, e))
           /\ Consume(st, e).restorers = st.restorers /\ Consume(st, e).held = st.held
           /\ Consume(st, e).events = Append(st.events, e)
           /\ Consume(st, e).partial = PartialAfter(st, e)
           /\ Consume(st, e).shown = ShownAfter(st, e)
BY ConsumeIs DEF IsPipe

LEMMA WithHeldParts ==
    ASSUME NEW st, IsPipe(st), NEW s
    PROVE  /\ IsPipe(WithHeld(st, s)) /\ WithHeld(st, s).held = s
           /\ WithHeld(st, s).restorers = st.restorers /\ WithHeld(st, s).events = st.events
           /\ WithHeld(st, s).partial = st.partial /\ WithHeld(st, s).shown = st.shown
BY WithHeldIs DEF IsPipe

LEMMA WithRestorerParts ==
    ASSUME NEW st, IsPipe(st), NEW id, NEW s, NEW d, d = WithRestorer(st, id, s)
    PROVE  /\ IsPipe(d) /\ d.restorers = Widened(st.restorers, id, s) /\ d.held = st.held
           /\ d.events = st.events /\ d.partial = st.partial /\ d.shown = st.shown
BY WithRestorerIs DEF IsPipe

LEMMA WithoutRestorerParts ==
    ASSUME NEW st, IsPipe(st), NEW id, NEW d, d = WithoutRestorer(st, id)
    PROVE  /\ IsPipe(d) /\ d.restorers = Narrowed(st.restorers, id) /\ d.held = st.held
           /\ d.events = st.events /\ d.partial = st.partial /\ d.shown = st.shown
BY WithoutRestorerIs DEF IsPipe

\* Two pipes that hold and show the same text.
SameText(st, d) == d.held = st.held /\ d.shown = st.shown

\* The events of calls leave the text alone.
LEMMA ToolsKeepText ==
    ASSUME NEW st, IsPipe(st)
    PROVE  /\ \A id, t : SameText(st, Deliver(st, Began(id, t)))
           /\ \A id, s : SameText(st, Deliver(st, Delta(id, s)))
           /\ \A id : SameText(st, Deliver(st, Stop(id)))
<1>1. ASSUME NEW d, IsPipe(d), NEW e, e.type # "text_delta"
      PROVE  IsPipe(Consume(d, e)) /\ SameText(d, Consume(d, e)) /\ SameText(d, Taken(d, e))
             /\ IsPipe(Taken(d, e))
  BY <1>1, ConsumeParts DEF SameText, ShownAfter, Taken
<1>2. ASSUME NEW id, NEW t PROVE SameText(st, Deliver(st, Began(id, t)))
  <2>1. Began(id, t).type # "text_delta"
    BY EventsAre
  <2>2. CASE Masked
    <3>1. IsPipe(WithRestorer(st, id, <<>>)) /\ SameText(st, WithRestorer(st, id, <<>>))
      BY WithRestorerParts DEF SameText
    <3>2. SameText(WithRestorer(st, id, <<>>), Consume(WithRestorer(st, id, <<>>), Began(id, t)))
      BY <1>1, <2>1, <3>1
    <3> QED BY <2>2, <3>1, <3>2, DeliverStart DEF SameText
  <2>3. CASE ~Masked
    BY <1>1, <2>1, <2>3, DeliverAsIs DEF Unlooked
  <2> QED BY <2>2, <2>3
<1>3. ASSUME NEW id, NEW s PROVE SameText(st, Deliver(st, Delta(id, s)))
  <2>1. \A w : Delta(id, w).type # "text_delta"
    BY EventsAre
  <2>2. CASE Masked /\ id \in DOMAIN st.restorers
    <3> DEFINE buf == st.restorers[id] \o s
    <3>1. \A w : IsPipe(WithRestorer(st, id, w)) /\ SameText(st, WithRestorer(st, id, w))
      BY WithRestorerParts DEF SameText
    <3>2. \A w, v : SameText(WithRestorer(st, id, w), Consume(WithRestorer(st, id, w), Delta(id, v)))
                    /\ SameText(WithRestorer(st, id, w), Taken(WithRestorer(st, id, w), Delta(id, v)))
      BY <1>1, <2>1, <3>1
    <3>3. \/ Deliver(st, Delta(id, s)) = Taken(WithRestorer(st, id, <<Last(buf)>>), Delta(id, Front(buf)))
          \/ Deliver(st, Delta(id, s)) = Consume(WithRestorer(st, id, <<>>), Delta(id, Restored(buf)))
      BY <2>2, DeliverDelta
    <3> HIDE DEF buf
    <3> QED BY <3>1, <3>2, <3>3 DEF SameText
  <2>3. CASE ~(Masked /\ id \in DOMAIN st.restorers)
    <3>1. Unlooked(st, Delta(id, s))
      BY <2>3, EventsAre DEF Unlooked
    <3> QED BY <1>1, <2>1, <3>1, DeliverAsIs
  <2> QED BY <2>2, <2>3
<1>4. ASSUME NEW id PROVE SameText(st, Deliver(st, Stop(id)))
  <2>1. Stop(id).type # "text_delta" /\ \A w : Delta(id, w).type # "text_delta"
    BY EventsAre
  <2>2. CASE Masked /\ id \in DOMAIN st.restorers
    <3> DEFINE a == WithoutRestorer(st, id)
               b == Taken(a, Delta(id, Restored(st.restorers[id])))
    <3>1. IsPipe(a) /\ SameText(st, a)
      BY WithoutRestorerParts DEF SameText
    <3> HIDE DEF a
    <3>2. IsPipe(b) /\ SameText(a, b)
      BY <1>1, <2>1, <3>1
    <3>3. Deliver(st, Stop(id)) = Consume(b, Stop(id))
      BY <2>2, DeliverStop DEF a
    <3> HIDE DEF b
    <3>4. SameText(b, Consume(b, Stop(id)))
      BY <1>1, <2>1, <3>2
    <3> QED BY <3>1, <3>2, <3>3, <3>4 DEF SameText
  <2>3. CASE ~(Masked /\ id \in DOMAIN st.restorers)
    <3>1. Unlooked(st, Stop(id))
      BY <2>3, EventsAre DEF Unlooked
    <3> QED BY <1>1, <2>1, <3>1, DeliverAsIs
  <2> QED BY <2>2, <2>3
<1> QED BY <1>2, <1>3, <1>4

\* The text that is shown and the text held back are what is to be read of the
\* deltas s; held back is a placeholder that was opened.
Deltas == {"plain", "open", "close"}
Opened(s) == s # <<>> /\ Last(s) = "open"
Told(st, s) ==
    /\ st.held = IF Masked /\ Opened(s) THEN <<"open">> ELSE <<>>
    /\ st.shown \o st.held = Readable(s)

\* Calls and events of calls are left alone.
SameCalls(st, d) ==
    /\ d.restorers = st.restorers /\ d.partial = st.partial
    /\ \A open, over : Tidy(st.events, open, over) => Tidy(d.events, open, over)

\* A sequence of at most one element and one more.
LEMMA OneMore ==
    ASSUME NEW S, NEW s \in Seq(S), NEW a \in S
    PROVE  /\ s \o <<a>> = Append(s, a) /\ Append(s, a) \in Seq(S) /\ Append(s, a) # <<>>
           /\ Last(Append(s, a)) = a /\ Front(Append(s, a)) = s
           /\ s \o <<>> = s /\ <<>> \o s = s
<1> DEFINE more == Append(s, a)
           n == Len(s)
<1>1. /\ more \in Seq(S) /\ n \in Nat /\ Len(more) = n + 1
      /\ more[n + 1] = a /\ \A i \in 1 .. n : more[i] = s[i]
  BY AppendProperties, LenProperties
<1>2. s \o <<a>> = more
  BY AppendIsConcat
<1>3. Last(more) = a /\ more # <<>>
  <2>1. Len(<<>>) = 0
    OBVIOUS
  <2> HIDE DEF more
  <2> QED BY <1>1, <2>1 DEF Last
<1>4. Front(more) = s
  <2> HIDE DEF more, n
  <2>1. Front(more) = SubSeq(more, 1, n)
    BY <1>1 DEF Front
  <2>2. \A i \in 1 .. n : more[i] \in S
    BY <1>1, LenProperties DEF n
  <2>3. SubSeq(more, 1, n) \in Seq(S) /\ Len(SubSeq(more, 1, n)) = n
        /\ \A i \in 1 .. n : SubSeq(more, 1, n)[i] = more[i]
    <3>1. /\ SubSeq(more, 1, n) \in Seq(S)
          /\ Len(SubSeq(more, 1, n)) = IF 1 <= n THEN n - 1 + 1 ELSE 0
          /\ \A i \in 1 .. n - 1 + 1 : SubSeq(more, 1, n)[i] = more[1 + i - 1]
      BY <1>1, <2>2, SubSeqProperties
    <3>2. (IF 1 <= n THEN n - 1 + 1 ELSE 0) = n /\ n - 1 + 1 = n
          /\ \A i \in 1 .. n : 1 + i - 1 = i
      BY <1>1
    <3> QED BY <3>1, <3>2
  <2>4. \A i \in 1 .. n : SubSeq(more, 1, n)[i] = s[i]
    BY <1>1, <2>3
  <2> QED BY <2>1, <2>3, <2>4, SeqEqual DEF n
<1>5. s \o <<>> = s /\ <<>> \o s = s
  BY ConcatEmptySeq
<1> HIDE DEF more
<1> QED BY <1>1, <1>2, <1>3, <1>4, <1>5 DEF more

\* After a text delta all but an opened placeholder has been shown.
LEMMA TextIsTold ==
    ASSUME NEW n \in Nat, NEW st, Typed(st, n), NEW s \in Seq(Deltas), Told(st, s),
           NEW w \in Deltas, (w = "close") <=> Opened(s), w = "open" => Masked
    PROVE  /\ Told(Deliver(st, Words(<<w>>)), Append(s, w))
           /\ SameCalls(st, Deliver(st, Words(<<w>>)))
<1> DEFINE d == Deliver(st, Words(<<w>>))
<1>0. IsPipe(st) /\ st.shown \in Seq(Texts) /\ st.held \in Seq(Texts)
  BY DEF Typed
<1>1. /\ Readable(Append(s, w)) = Reads(Readable(s), w)
      /\ (Opened(Append(s, w)) <=> w = "open")
  BY ReadableMore, OneMore DEF Opened
<1>2. \A x : Words(x).type = "text_delta" /\ Words(x).content = x
  BY EventsAre
<1>3. ASSUME NEW a, IsPipe(a), SameCalls(st, a), NEW x
      PROVE  /\ SameCalls(st, Consume(a, Words(x))) /\ Consume(a, Words(x)).held = a.held
             /\ Consume(a, Words(x)).shown = a.shown \o x
  <2>1. Consume(a, Words(x)).events = Append(a.events, Words(x))
        /\ Consume(a, Words(x)).restorers = a.restorers /\ Consume(a, Words(x)).held = a.held
        /\ Consume(a, Words(x)).partial = PartialAfter(a, Words(x))
        /\ Consume(a, Words(x)).shown = ShownAfter(a, Words(x))
    BY <1>3, ConsumeParts
  <2>2. PartialAfter(a, Words(x)) = a.partial /\ ShownAfter(a, Words(x)) = a.shown \o x
    BY <1>2 DEF PartialAfter, ShownAfter
  <2>3. \A open, over : Tidy(a.events, open, over) => Tidy(Append(a.events, Words(x)), open, over)
    BY <1>2, TidyDelta
  <2> QED BY <1>3, <2>1, <2>2, <2>3 DEF SameCalls
<1>4. SameCalls(st, st) /\ \A x : IsPipe(WithHeld(st, x)) /\ SameCalls(st, WithHeld(st, x))
                                  /\ WithHeld(st, x).held = x /\ WithHeld(st, x).shown = st.shown
  BY <1>0, WithHeldParts DEF SameCalls
<1>5. "open" \in Texts /\ "close" \in Texts /\ "plain" \in Texts /\ "value" \in Texts /\ w \in Texts
  BY DEF Texts, Deltas
<1>6. \A x \in Texts : st.shown \o <<x>> = Append(st.shown, x) /\ Front(Append(st.shown, x)) = st.shown
                       /\ Append(st.shown, x) \in Seq(Texts)
  BY <1>0, OneMore
<1>7. st.shown \o <<>> = st.shown /\ \A x \in Texts : Append(st.shown, x) \o <<>> = Append(st.shown, x)
  BY <1>0, <1>6, ConcatEmptySeq
<1>8. CASE ~Masked
  <2>1. d = Consume(st, Words(<<w>>))
    BY <1>8, DeliverAsIs DEF Unlooked
  <2>2. SameCalls(st, d) /\ d.held = st.held /\ d.shown = Append(st.shown, w)
    <3>1. /\ SameCalls(st, Consume(st, Words(<<w>>))) /\ Consume(st, Words(<<w>>)).held = st.held
          /\ Consume(st, Words(<<w>>)).shown = st.shown \o <<w>>
      BY <1>0, <1>3, <1>4
    <3>2. st.shown \o <<w>> = Append(st.shown, w)
      BY <1>5, <1>6
    <3> QED BY <2>1, <3>1, <3>2
  <2>3. st.held = <<>> /\ Readable(s) = st.shown
    BY <1>7, <1>8 DEF Told
  <2>4. Readable(Append(s, w)) = Append(st.shown, w)
    BY <1>1, <1>8, <2>3 DEF Reads
  <2>5. d.shown \o d.held = Readable(Append(s, w))
    BY <1>5, <1>7, <2>2, <2>3, <2>4
  <2> HIDE DEF d
  <2>6. Told(d, Append(s, w))
    BY <1>8, <2>2, <2>3, <2>5 DEF Told
  <2> QED BY <2>2, <2>6 DEF d
<1>9. CASE Masked /\ w = "open"
  <2>1. st.held = <<>> /\ Readable(s) = st.shown
    BY <1>7, <1>9 DEF Told
  <2>2. st.held \o <<w>> = <<"open">>
    BY <1>9, <2>1
  <2>3. Last(<<"open">>) = "open" /\ Front(<<"open">>) = <<>>
    <3>1. Append(<<>>, "open") = <<"open">> /\ <<>> \in Seq(Texts)
      BY OneAndOne
    <3>2. Last(Append(<<>>, "open")) = "open" /\ Front(Append(<<>>, "open")) = <<>>
      BY <1>5, <3>1, OneMore
    <3> QED BY <3>1, <3>2
  <2>4. d = WithHeld(st, <<"open">>)
    BY <1>2, <1>9, <2>2, <2>3, DeliverText DEF Taken
  <2>5. SameCalls(st, d) /\ d.held = <<"open">> /\ d.shown = st.shown
    BY <1>4, <2>4
  <2>6. Readable(Append(s, w)) = st.shown \o <<"open">>
    BY <1>1, <1>5, <1>6, <1>9, <2>1 DEF Reads
  <2> HIDE DEF d
  <2>7. Told(d, Append(s, w))
    BY <1>1, <1>9, <2>5, <2>6 DEF Told
  <2> QED BY <2>5, <2>7 DEF d
<1>10. CASE Masked /\ w = "plain"
  <2>1. st.held = <<>> /\ Readable(s) = st.shown
    BY <1>7, <1>10 DEF Told
  <2>2. st.held \o <<w>> = <<"plain">>
    BY <1>10, <2>1
  <2>3. Last(<<"plain">>) = "plain"
    BY DEF Last
  <2>4. RestoredText(<<"plain">>) = <<"plain">>
    BY DEF RestoredText
  <2>5. d = Consume(WithHeld(st, <<>>), Words(<<"plain">>))
    BY <1>10, <2>2, <2>3, <2>4, DeliverText
  <2>6. SameCalls(st, d) /\ d.held = <<>> /\ d.shown = Append(st.shown, w)
    <3> DEFINE a == WithHeld(st, <<>>)
    <3>1. IsPipe(a) /\ SameCalls(st, a) /\ a.held = <<>> /\ a.shown = st.shown
      BY <1>4
    <3> HIDE DEF a
    <3>2. /\ SameCalls(st, Consume(a, Words(<<"plain">>)))
          /\ Consume(a, Words(<<"plain">>)).held = a.held
          /\ Consume(a, Words(<<"plain">>)).shown = a.shown \o <<"plain">>
      BY <1>3, <3>1
    <3>3. st.shown \o <<"plain">> = Append(st.shown, w)
      BY <1>5, <1>6, <1>10
    <3> QED BY <2>5, <3>1, <3>2, <3>3 DEF a
  <2>7. d.shown \o d.held = Readable(Append(s, w))
    BY <1>1, <1>5, <1>7, <1>10, <2>1, <2>6 DEF Reads
  <2> HIDE DEF d
  <2>8. Told(d, Append(s, w))
    BY <1>1, <1>10, <2>6, <2>7 DEF Told
  <2> QED BY <2>6, <2>8 DEF d
<1>11. CASE Masked /\ w = "close"
  <2>1. st.held = <<"open">> /\ Readable(s) = Append(st.shown, "open")
    BY <1>5, <1>6, <1>11 DEF Told
  <2>2. st.held \o <<w>> = <<"open", "close">>
    BY <1>11, <2>1, OneAndOne
  <2>3. Last(<<"open", "close">>) = "close"
    BY DEF Last
  <2>4. RestoredText(<<"open", "close">>) = <<"value">>
    BY DEF RestoredText
  <2>5. d = Consume(WithHeld(st, <<>>), Words(<<"value">>))
    BY <1>11, <2>2, <2>3, <2>4, DeliverText
  <2>6. SameCalls(st, d) /\ d.held = <<>> /\ d.shown = Append(st.shown, "value")
    <3> DEFINE a == WithHeld(st, <<>>)
    <3>1. IsPipe(a) /\ SameCalls(st, a) /\ a.held = <<>> /\ a.shown = st.shown
      BY <1>4
    <3> HIDE DEF a
    <3>2. /\ SameCalls(st, Consume(a, Words(<<"value">>)))
          /\ Consume(a, Words(<<"value">>)).held = a.held
          /\ Consume(a, Words(<<"value">>)).shown = a.shown \o <<"value">>
      BY <1>3, <3>1
    <3>3. st.shown \o <<"value">> = Append(st.shown, "value")
      BY <1>5, <1>6
    <3> QED BY <2>5, <3>1, <3>2, <3>3 DEF a
  <2>7. Readable(Append(s, w)) = Append(st.shown, "value")
    BY <1>1, <1>5, <1>6, <1>11, <2>1 DEF Reads
  <2>8. d.shown \o d.held = Readable(Append(s, w))
    BY <1>5, <1>7, <2>6, <2>7
  <2> HIDE DEF d
  <2>9. Told(d, Append(s, w))
    BY <1>1, <1>11, <2>6, <2>8 DEF Told
  <2> QED BY <2>6, <2>9 DEF d
<1> QED BY <1>8, <1>9, <1>10, <1>11 DEF Deltas

\* When the turn is complete all of it has been shown; no event of a call is left
\* to come.
LEMMA EndIsTold ==
    ASSUME NEW n \in Nat, NEW st, Typed(st, n), NEW s, Told(st, s), NEW reason
    PROVE  /\ Deliver(st, Complete(reason)).shown = Readable(s)
           /\ Deliver(st, Complete(reason)).partial = st.partial
           /\ \A over : Tidy(st.events, {}, over) => InOrder(Deliver(st, Complete(reason)).events)
<1> DEFINE d == Deliver(st, Complete(reason))
<1>0. IsPipe(st) /\ st.shown \in Seq(Texts)
  BY DEF Typed
<1>1. ASSUME NEW a, IsPipe(a)
      PROVE  /\ Consume(a, Complete(reason)).shown = a.shown /\ Consume(a, Complete(reason)).partial = a.partial
             /\ \A over : Tidy(a.events, {}, over) => InOrder(Consume(a, Complete(reason)).events)
  <2>1. Complete(reason).type = "turn_complete"
    BY EventsAre
  <2>2. PartialAfter(a, Complete(reason)) = a.partial /\ ShownAfter(a, Complete(reason)) = a.shown
    BY <2>1 DEF PartialAfter, ShownAfter
  <2>3. \A over : Tidy(a.events, {}, over) => InOrder(Append(a.events, Complete(reason)))
    BY <2>1, TidyEnd
  <2> QED BY <1>1, <2>2, <2>3, ConsumeParts
<1>2. CASE ~Masked
  <2>1. d = Consume(st, Complete(reason))
    BY <1>2, DeliverAsIs DEF Unlooked
  <2>2. Readable(s) = st.shown
    BY <1>0, <1>2, ConcatEmptySeq DEF Told
  <2> QED BY <1>0, <1>1, <2>1, <2>2
<1>3. CASE Masked
  <2> DEFINE a == WithHeld(st, <<>>)
             x == RestoredText(st.held)
             b == Taken(a, Words(x))
  <2>1. IsPipe(a) /\ a.shown = st.shown /\ a.partial = st.partial /\ a.events = st.events
    BY <1>0, WithHeldParts
  <2>2. x = st.held /\ (x = <<>> \/ x = <<"open">>)
    <3>1. <<>> # <<"open", "close">> /\ <<"open">> # <<"open", "close">>
      <4>1. Len(<<>>) = 0 /\ Len(<<"open">>) = 1 /\ Len(<<"open", "close">>) = 2
        OBVIOUS
      <4> QED BY <4>1
    <3> QED BY <3>1 DEF Told, RestoredText
  <2>3. d = Consume(b, Complete(reason))
    BY <1>3, DeliverEnd
  <2> HIDE DEF a, x
  <2>4. Words(x).type = "text_delta" /\ Words(x).content = x
    BY EventsAre
  <2>5. /\ IsPipe(b) /\ b.shown = st.shown \o x /\ b.partial = st.partial
        /\ \A over : Tidy(st.events, {}, over) => Tidy(b.events, {}, over)
    <3>1. CASE x = <<>>
      BY <1>0, <2>1, <2>4, <3>1, ConcatEmptySeq DEF Taken
    <3>2. CASE x # <<>>
      <4>1. b = Consume(a, Words(x))
        BY <2>4, <3>2 DEF Taken
      <4>2. PartialAfter(a, Words(x)) = a.partial /\ ShownAfter(a, Words(x)) = a.shown \o x
        BY <2>4 DEF PartialAfter, ShownAfter
      <4>3. \A over : Tidy(a.events, {}, over) => Tidy(Append(a.events, Words(x)), {}, over)
        BY <2>4, TidyDelta
      <4> HIDE DEF b
      <4> QED BY <2>1, <4>1, <4>2, <4>3, ConsumeParts
    <3> QED BY <3>1, <3>2
  <2> HIDE DEF b
  <2>6. st.shown \o x = Readable(s)
    BY <2>2 DEF Told
  <2>7. /\ Consume(b, Complete(reason)).shown = b.shown
        /\ Consume(b, Complete(reason)).partial = b.partial
        /\ \A over : Tidy(b.events, {}, over) => InOrder(Consume(b, Complete(reason)).events)
    BY <1>1, <2>5
  <2> QED BY <2>3, <2>5, <2>6, <2>7
<1> QED BY <1>2, <1>3

-----------------------------------------------------------------------------
(* What becomes of the entry of one call.                                  *)

\* Each entry has an id of its own: that of the call at its place.
OnePerCall(p) == \A i \in 1 .. Len(p) : p[i].id.n = i

\* q is p with g added to what entry c has collected.
Grown(p, q, c, g) ==
    /\ Len(q) = Len(p)
    /\ \A i \in 1 .. Len(p) :
          /\ q[i].id = p[i].id /\ q[i].name = p[i].name
          /\ q[i].buf = IF i = c THEN p[i].buf \o g ELSE p[i].buf

\* Growing adds to the entry with the id of the event, and to no other.
LEMMA GrowingOne ==
    ASSUME NEW n \in Nat, NEW p \in Seq(Entries(n)), OnePerCall(p), NEW c \in 1 .. Len(p),
           NEW e, e.id = p[c].id, e.content \in Seq(Pieces(n))
    PROVE  Grown(p, Growing(p, e), c, e.content)
<1> DEFINE q == Growing(p, e)
<1>1. q \in Seq(Entries(n))
  BY GrowingTyped
<1>2. DOMAIN p = 1 .. Len(p) /\ DOMAIN q = DOMAIN p /\ Len(p) \in Nat
      /\ \A i \in 1 .. Len(p) : p[i] \in Entries(n)
  BY LenProperties DEF Growing
<1>3. Len(q) = Len(p)
  <2> HIDE DEF q
  <2>1. DOMAIN q = 1 .. Len(q) /\ Len(q) \in Nat
    BY <1>1, LenProperties
  <2> QED BY <1>2, <2>1
<1>4. ASSUME NEW i \in 1 .. Len(p)
      PROVE  /\ q[i].id = p[i].id /\ q[i].name = p[i].name
             /\ q[i].buf = IF i = c THEN p[i].buf \o e.content ELSE p[i].buf
  <2>1. p[i].id = e.id <=> i = c
    BY DEF OnePerCall
  <2>2. q[i] = IF i = c THEN [p[i] EXCEPT !.buf = @ \o e.content] ELSE p[i]
    BY <1>2, <2>1 DEF Growing
  <2>3. p[i] \in Entries(n)
    BY <1>2
  <2> HIDE DEF q
  <2> QED BY <2>2, <2>3 DEF Entries
<1> HIDE DEF q
<1>5. Grown(p, q, c, e.content)
  BY <1>3, <1>4 DEF Grown
<1> QED BY <1>5 DEF q

LEMMA GrownByNothing ==
    ASSUME NEW n \in Nat, NEW p \in Seq(Entries(n)), NEW c
    PROVE  Grown(p, p, c, <<>>)
<1>1. ASSUME NEW i \in 1 .. Len(p) PROVE p[i].buf \o <<>> = p[i].buf
  <2>1. p[i].buf \in Seq(Pieces(n))
    <3>1. p[i] \in Entries(n)
      BY ElementOfSeq
    <3> QED BY <3>1 DEF Entries
  <2> QED BY <2>1, ConcatEmptySeq
<1> QED BY <1>1 DEF Grown

\* The calls of d are those of st, but that c has collected g more.
Advanced(st, d, c, g) ==
    /\ Grown(st.partial, d.partial, c, g)
    /\ \A open, over : st.partial[c].id \in open /\ Tidy(st.events, open, over)
                         => Tidy(d.events, open, over)

\* An event of the loop adds g to what call c has collected, or is left out
\* because there is nothing to add.
LEMMA TakenGrows ==
    ASSUME NEW n \in Nat, NEW a, Typed(a, n), OnePerCall(a.partial), NEW c \in 1 .. Len(a.partial),
           NEW id, id = a.partial[c].id, NEW g \in Seq(Pieces(n)), NEW b,
           b = Consume(a, Delta(id, g)) \/ b = Taken(a, Delta(id, g))
    PROVE  Typed(b, n) /\ Advanced(a, b, c, g) /\ b.restorers = a.restorers
<1> DEFINE e == Delta(id, g)
<1>1. e.type = "tool_use_input_delta" /\ e.id = id /\ e.content = g
  BY EventsAre
<1>2. IsPipe(a) /\ a.partial \in Seq(Entries(n))
  BY DEF Typed
<1>3. IsEvent(e, n)
  BY <1>1 DEF IsEvent
<1>4. CASE b = Consume(a, e)
  <2> HIDE DEF e
  <2>1. b.partial = Growing(a.partial, e)
    BY <1>1, <1>2, <1>4, ConsumeParts DEF PartialAfter
  <2>2. Grown(a.partial, b.partial, c, g)
    BY <1>1, <1>2, <2>1, GrowingOne
  <2>3. b.restorers = a.restorers /\ b.events = Append(a.events, e)
    BY <1>2, <1>4, ConsumeParts
  <2>4. \A open, over : id \in open /\ Tidy(a.events, open, over) => Tidy(b.events, open, over)
    BY <1>1, <2>3, TidyDelta
  <2>5. Typed(b, n)
    BY <1>3, <1>4, ConsumeTyped
  <2>6. Advanced(a, b, c, g)
    BY <2>2, <2>4 DEF Advanced
  <2> QED BY <2>3, <2>5, <2>6
<1>5. CASE b = a /\ g = <<>>
  <2>1. Grown(a.partial, a.partial, c, <<>>)
    BY <1>2, GrownByNothing
  <2> QED BY <1>5, <2>1 DEF Advanced
<1>6. b = Consume(a, e) \/ (b = a /\ g = <<>>)
  BY <1>1 DEF Taken
<1> QED BY <1>4, <1>5, <1>6

\* Of a fragment s of call c, g goes on to the loop, and r is held back.
Passed(st, c, s, g, r) ==
    LET buf == st.restorers[st.partial[c].id] \o s
    IN  IF ~Masked THEN g = s
        ELSE IF Dangling(Last(buf)) THEN g = Front(buf) /\ r = <<Last(buf)>>
        ELSE g = Restored(buf) /\ r = <<>>

RestorersAfter(st, id, r) == IF Masked THEN Widened(st.restorers, id, r) ELSE st.restorers

\* A fragment of an open call: what may be the beginning of a placeholder is held
\* back by the restorer of this call, the rest goes on.
LEMMA DeltaPasses ==
    ASSUME NEW n \in Nat, NEW st, Typed(st, n), OnePerCall(st.partial),
           NEW c \in 1 .. Len(st.partial), NEW id, id = st.partial[c].id,
           Masked => id \in DOMAIN st.restorers,
           NEW s \in Seq(Pieces(n)), s # <<>>,
           NEW g, NEW r, Passed(st, c, s, g, r)
    PROVE  /\ Advanced(st, Deliver(st, Delta(id, s)), c, g)
           /\ Deliver(st, Delta(id, s)).restorers = RestorersAfter(st, id, r)
<1> DEFINE d == Deliver(st, Delta(id, s))
<1>1. IsPipe(st) /\ id \in Ids
  <2>1. st.partial \in Seq(Entries(n)) /\ IsPipe(st)
    BY DEF Typed
  <2>2. st.partial[c] \in Entries(n)
    BY <2>1, ElementOfSeq
  <2> QED BY <2>1, <2>2 DEF Entries
<1>2. CASE ~Masked
  <2>1. g = s /\ g \in Seq(Pieces(n)) /\ d = Consume(st, Delta(id, g))
    BY <1>2, DeliverAsIs DEF Passed, Unlooked
  <2> HIDE DEF d
  <2>2. Advanced(st, d, c, g) /\ d.restorers = st.restorers
    <3>1. d = Consume(st, Delta(id, g)) \/ d = Taken(st, Delta(id, g))
      BY <2>1
    <3>2. g \in Seq(Pieces(n))
      BY <2>1
    <3> HIDE <2>1
    <3> QED BY <3>1, <3>2, TakenGrows
  <2>3. Advanced(st, d, c, g) /\ d.restorers = RestorersAfter(st, id, r)
    BY <1>2, <2>2 DEF RestorersAfter
  <2> QED BY <2>3 DEF d
<1>3. CASE Masked
  <2> DEFINE buf == st.restorers[id] \o s
             a == WithRestorer(st, id, r)
  <2>1. buf \in Seq(Pieces(n)) /\ buf # <<>>
    <3>1. st.restorers[id] \in Seq(Pieces(n))
      BY <1>3 DEF Typed
    <3> QED BY <3>1, ConcatProperties, EmptySeq
  <2>2. /\ Front(buf) \in Seq(Pieces(n)) /\ <<Last(buf)>> \in Seq(Pieces(n))
        /\ Restored(buf) \in Seq(Pieces(n)) /\ <<>> \in Seq(Pieces(n))
    <3> DEFINE S == Pieces(n)
    <3> HIDE DEF buf, S
    <3>1. Front(buf) \in Seq(S) /\ <<Last(buf)>> \in Seq(S)
      BY <2>1, LastAndFront DEF S
    <3>2. Restored(buf) \in Seq(S)
      BY <2>1, RestoredTyped DEF S
    <3>3. <<>> \in Seq(S)
      OBVIOUS
    <3> QED BY <3>1, <3>2, <3>3 DEF S
  <2>3. g \in Seq(Pieces(n)) /\ r \in Seq(Pieces(n))
    BY <1>3, <2>2 DEF Passed
  <2>4. d = Consume(a, Delta(id, g)) \/ d = Taken(a, Delta(id, g))
    BY <1>1, <1>3, DeliverDelta DEF Passed
  <2>5. Typed(a, n)
    BY <1>1, <2>3, WithTyped
  <2>6. a.restorers = Widened(st.restorers, id, r) /\ a.events = st.events /\ a.partial = st.partial
    BY <1>1, WithRestorerParts
  <2> HIDE DEF a, d, buf
  <2>7. Advanced(a, d, c, g) /\ d.restorers = a.restorers
    <3>1. OnePerCall(a.partial) /\ c \in 1 .. Len(a.partial) /\ id = a.partial[c].id
          /\ g \in Seq(Pieces(n))
      BY <2>3, <2>6
    <3> QED BY <2>4, <2>5, <3>1, TakenGrows
  <2>8. Advanced(st, d, c, g) /\ d.restorers = RestorersAfter(st, id, r)
    BY <1>3, <2>6, <2>7 DEF Advanced, RestorersAfter
  <2> QED BY <2>8 DEF d
<1> QED BY <1>2, <1>3

\* When call c is stopped, what was held back of it goes on.
Released(st, c, g) ==
    g = IF Masked THEN Restored(st.restorers[st.partial[c].id]) ELSE <<>>

Closed(st, d, c, g) ==
    /\ Grown(st.partial, d.partial, c, g)
    /\ \A open, over : st.partial[c].id \in open /\ Tidy(st.events, open, over)
         => Tidy(d.events, open \ {st.partial[c].id}, over \cup {st.partial[c].id})

\* Nothing of a call is held back once it is stopped.
LEMMA StopReleases ==
    ASSUME NEW n \in Nat, NEW st, Typed(st, n), OnePerCall(st.partial),
           NEW c \in 1 .. Len(st.partial), NEW id, id = st.partial[c].id,
           Masked => id \in DOMAIN st.restorers, NEW g, Released(st, c, g)
    PROVE  /\ Closed(st, Deliver(st, Stop(id)), c, g)
           /\ Deliver(st, Stop(id)).restorers =
                IF Masked THEN Narrowed(st.restorers, id) ELSE st.restorers
<1> DEFINE d == Deliver(st, Stop(id))
<1>1. IsPipe(st) /\ st.partial \in Seq(Entries(n))
  BY DEF Typed
<1>2. ASSUME NEW b, IsPipe(b)
      PROVE  /\ Consume(b, Stop(id)).partial = b.partial
             /\ Consume(b, Stop(id)).restorers = b.restorers
             /\ \A open, over : id \in open /\ Tidy(b.events, open, over)
                  => Tidy(Consume(b, Stop(id)).events, open \ {id}, over \cup {id})
  <2>1. Stop(id).type = "tool_use_stop"
    BY EventsAre
  <2>2. PartialAfter(b, Stop(id)) = b.partial
    BY <2>1 DEF PartialAfter
  <2>3. \A open, over : id \in open /\ Tidy(b.events, open, over)
          => Tidy(Append(b.events, Stop(id)), open \ {id}, over \cup {id})
    BY TidyStop
  <2> QED BY <1>2, <2>2, <2>3, ConsumeParts
<1>3. CASE ~Masked
  <2>1. g = <<>> /\ d = Consume(st, Stop(id))
    BY <1>3, DeliverAsIs DEF Released, Unlooked
  <2>2. Grown(st.partial, st.partial, c, <<>>)
    BY <1>1, GrownByNothing
  <2> HIDE DEF d
  <2>3. d.partial = st.partial /\ d.restorers = st.restorers
        /\ \A open, over : id \in open /\ Tidy(st.events, open, over)
             => Tidy(d.events, open \ {id}, over \cup {id})
    BY <1>1, <1>2, <2>1
  <2>4. Closed(st, d, c, g)
    BY <2>1, <2>2, <2>3 DEF Closed
  <2> QED BY <1>3, <2>3, <2>4 DEF d
<1>4. CASE Masked
  <2> DEFINE a == WithoutRestorer(st, id)
             b == Taken(a, Delta(id, g))
  <2>1. g \in Seq(Pieces(n)) /\ g = Restored(st.restorers[id])
    <3>1. st.restorers[id] \in Seq(Pieces(n))
      BY <1>4 DEF Typed
    <3> QED BY <1>4, <3>1, RestoredTyped DEF Released
  <2>2. d = Consume(b, Stop(id))
    BY <1>4, <2>1, DeliverStop
  <2>3. Typed(a, n)
    BY WithTyped
  <2>4. a.restorers = Narrowed(st.restorers, id) /\ a.events = st.events /\ a.partial = st.partial
    BY <1>1, WithoutRestorerParts
  <2> HIDE DEF a, d
  <2>5. Typed(b, n) /\ Advanced(a, b, c, g) /\ b.restorers = a.restorers
    <3>1. OnePerCall(a.partial) /\ c \in 1 .. Len(a.partial) /\ id = a.partial[c].id
          /\ g \in Seq(Pieces(n))
      BY <2>1, <2>4
    <3> QED BY <2>3, <3>1, TakenGrows
  <2> HIDE DEF b
  <2>6. IsPipe(b)
    BY <2>5 DEF Typed
  <2>7. d.partial = b.partial /\ d.restorers = b.restorers
        /\ \A open, over : id \in open /\ Tidy(b.events, open, over)
             => Tidy(d.events, open \ {id}, over \cup {id})
    BY <1>2, <2>2, <2>6
  <2>8. Closed(st, d, c, g)
    BY <2>4, <2>5, <2>7 DEF Closed, Advanced
  <2> QED BY <1>4, <2>4, <2>5, <2>7, <2>8 DEF d
<1> QED BY <1>3, <1>4

\* A call that starts has an entry of its own.
Opens(st, d, id, t) ==
    /\ d.partial = Append(st.partial, [id |-> id, name |-> t, buf |-> <<>>])
    /\ \A open, over : id \notin open \cup over /\ Tidy(st.events, open, over)
         => Tidy(d.events, open \cup {id}, over)

\* The start of a call whose id no entry has.
LEMMA StartOpens ==
    ASSUME NEW n \in Nat, NEW st, Typed(st, n), OnePerCall(st.partial),
           NEW id, id.n = Len(st.partial) + 1, NEW t
    PROVE  /\ Opens(st, Deliver(st, Began(id, t)), id, t)
           /\ Deliver(st, Began(id, t)).restorers = RestorersAfter(st, id, <<>>)
<1> DEFINE e == Began(id, t)
           d == Deliver(st, e)
<1>1. e.type = "tool_use_start" /\ e.id = id /\ e.name = t
  BY EventsAre
<1>2. IsPipe(st) /\ Len(st.partial) \in Nat /\ DOMAIN st.partial = 1 .. Len(st.partial)
  <2>1. st.partial \in Seq(Entries(n))
    BY DEF Typed
  <2> QED BY <2>1, LenProperties DEF Typed
<1>3. ~Entered(st.partial, id)
  BY <1>2 DEF Entered, OnePerCall
<1> HIDE DEF e
<1>4. ASSUME NEW a, IsPipe(a), a.partial = st.partial, a.events = st.events
      PROVE  Opens(st, Consume(a, e), id, t) /\ Consume(a, e).restorers = a.restorers
  <2>1. PartialAfter(a, e) = Append(st.partial, [id |-> id, name |-> t, buf |-> <<>>])
    BY <1>1, <1>3, <1>4 DEF PartialAfter, Entering, Entry
  <2>2. Consume(a, e).partial = PartialAfter(a, e) /\ Consume(a, e).restorers = a.restorers
        /\ Consume(a, e).events = Append(st.events, e)
    BY <1>4, ConsumeParts
  <2>3. \A open, over : id \notin open \cup over /\ Tidy(st.events, open, over)
         => Tidy(Append(st.events, e), open \cup {id}, over)
    BY TidyStart DEF e
  <2> QED BY <2>1, <2>2, <2>3 DEF Opens
<1>5. CASE ~Masked
  <2>1. d = Consume(st, e)
    BY <1>5, DeliverAsIs DEF Unlooked
  <2> HIDE DEF d
  <2>2. Opens(st, d, id, t) /\ d.restorers = st.restorers
    BY <1>2, <1>4, <2>1
  <2> QED BY <1>5, <2>2 DEF RestorersAfter, d, e
<1>6. CASE Masked
  <2> DEFINE a == WithRestorer(st, id, <<>>)
  <2>1. d = Consume(a, e)
    BY <1>6, DeliverStart DEF e
  <2>2. IsPipe(a) /\ a.restorers = Widened(st.restorers, id, <<>>)
        /\ a.events = st.events /\ a.partial = st.partial
    BY <1>2, WithRestorerParts
  <2> HIDE DEF a, d
  <2>3. Opens(st, d, id, t) /\ d.restorers = a.restorers
    BY <1>4, <2>1, <2>2
  <2> QED BY <1>6, <2>2, <2>3 DEF RestorersAfter, d, e
<1> QED BY <1>5, <1>6

-----------------------------------------------------------------------------
(* The calls cs of a turn, as far as they have come, and what wrapper and  *)
(* loop have made of them; over are those that were stopped.               *)

Holds(cfg, k) == cfg.masked /\ cfg.vendor # "gemini" /\ k = "private"
Fragments(cfg, c, n) ==
    IF n = 0 THEN <<>>
    ELSE IF cfg.vendor = "gemini" THEN <<Piece(c, "whole")>>
    ELSE IF n = 1 THEN <<Piece(c, "head")>>
    ELSE <<Piece(c, "head"), Piece(c, "tail")>>
Collected(cfg, c, k, n, over) ==
    IF Holds(cfg, k) /\ n = 1 /\ c \notin over THEN <<>>
    ELSE IF Holds(cfg, k) /\ n = 2 THEN <<Piece(c, "real")>>
    ELSE Fragments(cfg, c, n)
Held(cfg, c, k, n) == IF Holds(cfg, k) /\ n = 1 THEN <<Piece(c, "head")>> ELSE <<>>

IdsOf(p, C) == {p[c].id : c \in C}
Open(cs, over) == (1 .. Len(cs)) \ over

Collects(cfg, p, cs, over) ==
    /\ Len(p) = Len(cs)
    /\ \A c \in 1 .. Len(cs) :
          /\ p[c].id.n = c /\ p[c].name = cs[c].tool
          /\ p[c].buf = Collected(cfg, c, cs[c].kind, cs[c].size, over)
KeepsBack(cfg, st, cs, over) ==
    cfg.masked =>
      /\ DOMAIN st.restorers = IdsOf(st.partial, Open(cs, over))
      /\ \A c \in Open(cs, over) :
            st.restorers[st.partial[c].id] = Held(cfg, c, cs[c].kind, cs[c].size)
Followed(cfg, st, cs, over) ==
    /\ Collects(cfg, st.partial, cs, over)
    /\ Tidy(st.events, IdsOf(st.partial, Open(cs, over)), IdsOf(st.partial, over))
    /\ KeepsBack(cfg, st, cs, over)

\* The same calls, but that c is at size n.
Resized(cs, more, c, n) ==
    /\ Len(more) = Len(cs)
    /\ \A i \in 1 .. Len(cs) :
          /\ more[i].tool = cs[i].tool /\ more[i].kind = cs[i].kind
          /\ more[i].size = IF i = c THEN n ELSE cs[i].size

\* The entries of q are for the same calls as those of p.
SameIds(p, q) == \A i \in 1 .. Len(p) : q[i].id = p[i].id

\* From st to d the calls have come to be cs, of which over were stopped.
FollowedOn(st, d, cs, over) ==
    Followed(config, d, cs, over) /\ SameIds(st.partial, d.partial)

\* The places and ids of the calls that are followed.
LEMMA FollowedIs ==
    ASSUME NEW n \in Nat, NEW st, Typed(st, n), NEW cs, NEW over, Followed(config, st, cs, over)
    PROVE  OnePerCall(st.partial) /\ Len(cs) = Len(st.partial) /\ Len(cs) \in Nat
<1>1. st.partial \in Seq(Entries(n))
  BY DEF Typed
<1>2. Len(st.partial) \in Nat
  BY <1>1, LenProperties
<1> QED BY <1>2 DEF Followed, Collects, OnePerCall

\* As one call collects more, the others stay as they are.
LEMMA GrownIds ==
    ASSUME NEW p, NEW q, NEW c, NEW g, Grown(p, q, c, g), NEW C \in SUBSET (1 .. Len(p))
    PROVE  IdsOf(q, C) = IdsOf(p, C)
<1>1. \A i \in C : q[i].id = p[i].id
  BY DEF Grown
<1> QED BY <1>1 DEF IdsOf

LEMMA GrownCollects ==
    ASSUME NEW cfg, NEW p, NEW q, NEW c, NEW g, Grown(p, q, c, g), NEW cs, NEW more,
           NEW n, Resized(cs, more, c, n), NEW over, NEW past,
           \A i : i # c => (i \in past <=> i \in over),
           Collects(cfg, p, cs, over), c \in 1 .. Len(cs),
           Collected(cfg, c, cs[c].kind, cs[c].size, over) \o g =
             Collected(cfg, c, cs[c].kind, n, past)
    PROVE  Collects(cfg, q, more, past)
<1>1. Len(q) = Len(more) /\ Len(more) = Len(cs) /\ Len(p) = Len(cs)
  BY DEF Grown, Resized, Collects
<1>2. ASSUME NEW i \in 1 .. Len(more)
      PROVE  /\ q[i].id.n = i /\ q[i].name = more[i].tool
             /\ q[i].buf = Collected(cfg, i, more[i].kind, more[i].size, past)
  <2>1. /\ q[i].id = p[i].id /\ q[i].name = p[i].name
        /\ q[i].buf = IF i = c THEN p[i].buf \o g ELSE p[i].buf
    BY <1>1 DEF Grown
  <2>2. /\ p[i].id.n = i /\ p[i].name = cs[i].tool
        /\ p[i].buf = Collected(cfg, i, cs[i].kind, cs[i].size, over)
    BY <1>1 DEF Collects
  <2>3. /\ more[i].tool = cs[i].tool /\ more[i].kind = cs[i].kind
        /\ more[i].size = IF i = c THEN n ELSE cs[i].size
    BY <1>1 DEF Resized
  <2>4. CASE i = c
    BY <2>1, <2>2, <2>3, <2>4
  <2>5. CASE i # c
    <3>1. Collected(cfg, i, cs[i].kind, cs[i].size, over) = Collected(cfg, i, cs[i].kind, cs[i].size, past)
      BY <2>5 DEF Collected
    <3> QED BY <2>1, <2>2, <2>3, <2>5, <3>1
  <2> QED BY <2>4, <2>5
<1> QED BY <1>1, <1>2 DEF Collects

\* One call has come further, and wrapper and loop with it.
LEMMA FollowDelta ==
    ASSUME NEW n \in Nat, NEW st, Typed(st, n), NEW cs, NEW over, Followed(config, st, cs, over),
           NEW c \in Open(cs, over), NEW more, NEW size, Resized(cs, more, c, size),
           NEW s \in Seq(Pieces(n)), s # <<>>, NEW g, NEW r, Passed(st, c, s, g, r),
           Collected(config, c, cs[c].kind, cs[c].size, over) \o g =
             Collected(config, c, cs[c].kind, size, over),
           Masked => r = Held(config, c, cs[c].kind, size),
           over \subseteq 1 .. Len(cs)
    PROVE  FollowedOn(st, Deliver(st, Delta(st.partial[c].id, s)), more, over)
<1> DEFINE p == st.partial
           id == p[c].id
           d == Deliver(st, Delta(id, s))
<1>1. OnePerCall(p) /\ Len(cs) = Len(p) /\ Len(cs) \in Nat
  BY FollowedIs
<1>2. c \in 1 .. Len(p) /\ c \in 1 .. Len(cs)
  BY <1>1 DEF Open
<1>3. id \in IdsOf(p, Open(cs, over))
  BY DEF IdsOf
<1>4. Masked => DOMAIN st.restorers = IdsOf(p, Open(cs, over))
  BY DEF Followed, KeepsBack, Masked
<1>5. Advanced(st, d, c, g) /\ d.restorers = RestorersAfter(st, id, r)
  BY <1>1, <1>2, <1>3, <1>4, DeltaPasses
<1> HIDE DEF d
<1>6. Grown(p, d.partial, c, g)
  BY <1>5 DEF Advanced
<1>7. Collects(config, d.partial, more, over)
  BY <1>2, <1>6, GrownCollects DEF Followed
<1>8. Open(more, over) = Open(cs, over) /\ Open(cs, over) \subseteq 1 .. Len(p)
  BY <1>1 DEF Open, Resized
<1>9. IdsOf(d.partial, Open(more, over)) = IdsOf(p, Open(cs, over))
      /\ IdsOf(d.partial, over) = IdsOf(p, over)
  BY <1>1, <1>6, <1>8, GrownIds
<1>10. Tidy(d.events, IdsOf(d.partial, Open(more, over)), IdsOf(d.partial, over))
  BY <1>3, <1>5, <1>9 DEF Advanced, Followed
<1>11. KeepsBack(config, d, more, over)
  <2> SUFFICES ASSUME Masked PROVE KeepsBack(config, d, more, over)
    BY DEF KeepsBack, Masked
  <2>1. d.restorers = Widened(st.restorers, id, r)
    BY <1>5 DEF RestorersAfter
  <2>2. DOMAIN d.restorers = IdsOf(d.partial, Open(more, over))
    BY <1>3, <1>4, <1>9, <2>1 DEF Widened
  <2>3. ASSUME NEW i \in Open(more, over)
        PROVE  d.restorers[d.partial[i].id] = Held(config, i, more[i].kind, more[i].size)
    <3>1. i \in Open(cs, over) /\ i \in 1 .. Len(p) /\ i \in 1 .. Len(cs)
      BY <1>1, <1>8
    <3>2. d.partial[i].id = p[i].id
      BY <1>6, <3>1 DEF Grown
    <3>3. p[i].id \in DOMAIN st.restorers
      BY <1>4, <3>1 DEF IdsOf
    <3>4. d.restorers[p[i].id] = IF p[i].id = id THEN r ELSE st.restorers[p[i].id]
      BY <2>1, <3>3 DEF Widened
    <3>5. p[i].id = id <=> i = c
      BY <1>1, <1>2, <3>1 DEF OnePerCall
    <3>6. more[i].kind = cs[i].kind /\ more[i].size = IF i = c THEN size ELSE cs[i].size
      BY <3>1 DEF Resized
    <3>7. st.restorers[p[i].id] = Held(config, i, cs[i].kind, cs[i].size)
      BY <3>1 DEF Followed, KeepsBack, Masked
    <3> QED BY <3>2, <3>4, <3>5, <3>6, <3>7
  <2> QED BY <2>2, <2>3 DEF KeepsBack
<1>12. FollowedOn(st, d, more, over)
  BY <1>6, <1>7, <1>10, <1>11 DEF Followed, FollowedOn, Grown, SameIds
<1> QED BY <1>12 DEF d

\* One call more was stopped.
LEMMA FollowStop ==
    ASSUME NEW n \in Nat, NEW st, Typed(st, n), NEW cs, NEW over, Followed(config, st, cs, over),
           NEW c \in Open(cs, over), NEW more, Resized(cs, more, c, cs[c].size),
           NEW g, Released(st, c, g), NEW past, past = over \cup {c},
           Collected(config, c, cs[c].kind, cs[c].size, over) \o g =
             Collected(config, c, cs[c].kind, cs[c].size, past),
           over \subseteq 1 .. Len(cs)
    PROVE  FollowedOn(st, Deliver(st, Stop(st.partial[c].id)), more, past)
<1> DEFINE p == st.partial
           id == p[c].id
           d == Deliver(st, Stop(id))
<1>1. OnePerCall(p) /\ Len(cs) = Len(p) /\ Len(cs) \in Nat
  BY FollowedIs
<1>2. c \in 1 .. Len(p) /\ c \in 1 .. Len(cs)
  BY <1>1 DEF Open
<1>3. id \in IdsOf(p, Open(cs, over))
  BY DEF IdsOf
<1>4. Masked => DOMAIN st.restorers = IdsOf(p, Open(cs, over))
  BY DEF Followed, KeepsBack, Masked
<1>5. Closed(st, d, c, g) /\ d.restorers = IF Masked THEN Narrowed(st.restorers, id) ELSE st.restorers
  BY <1>1, <1>2, <1>3, <1>4, StopReleases
<1> HIDE DEF d
<1>6. Grown(p, d.partial, c, g)
  BY <1>5 DEF Closed
<1>7. Collects(config, d.partial, more, past)
  <2>1. \A i : i # c => (i \in past <=> i \in over)
    OBVIOUS
  <2>2. Collects(config, p, cs, over)
    BY DEF Followed
  <2> DEFINE size == cs[c].size
  <2>3. /\ Resized(cs, more, c, size)
        /\ Collected(config, c, cs[c].kind, cs[c].size, over) \o g =
             Collected(config, c, cs[c].kind, size, past)
    OBVIOUS
  <2> HIDE DEF size
  <2> QED BY <1>2, <1>6, <2>1, <2>2, <2>3, GrownCollects
<1>8. /\ Open(more, past) = Open(cs, over) \ {c} /\ Open(more, past) \subseteq 1 .. Len(p)
      /\ past \subseteq 1 .. Len(p)
  BY <1>1, <1>2 DEF Open, Resized
<1>9. IdsOf(d.partial, Open(more, past)) = IdsOf(p, Open(more, past))
      /\ IdsOf(d.partial, past) = IdsOf(p, past)
  <2>1. \A C \in SUBSET (1 .. Len(p)) : IdsOf(d.partial, C) = IdsOf(p, C)
    BY <1>6, GrownIds
  <2> QED BY <1>8, <2>1
<1>10. IdsOf(p, Open(more, past)) = IdsOf(p, Open(cs, over)) \ {id}
       /\ IdsOf(p, past) = IdsOf(p, over) \cup {id}
  <2>1. \A i \in Open(cs, over) : p[i].id = id <=> i = c
    BY <1>1, <1>2 DEF OnePerCall, Open
  <2>2. IdsOf(p, Open(more, past)) = IdsOf(p, Open(cs, over)) \ {id}
    BY <1>8, <2>1 DEF IdsOf
  <2>3. IdsOf(p, past) = IdsOf(p, over) \cup {id}
    BY DEF IdsOf
  <2> QED BY <2>2, <2>3
<1>11. Tidy(d.events, IdsOf(d.partial, Open(more, past)), IdsOf(d.partial, past))
  <2>1. Tidy(st.events, IdsOf(p, Open(cs, over)), IdsOf(p, over))
    BY DEF Followed
  <2>2. Tidy(d.events, IdsOf(p, Open(cs, over)) \ {id}, IdsOf(p, over) \cup {id})
    BY <1>3, <1>5, <2>1 DEF Closed
  <2> QED BY <1>9, <1>10, <2>2
<1>12. KeepsBack(config, d, more, past)
  <2> SUFFICES ASSUME Masked PROVE KeepsBack(config, d, more, past)
    BY DEF KeepsBack, Masked
  <2>1. d.restorers = Narrowed(st.restorers, id)
    BY <1>5
  <2>2. DOMAIN d.restorers = IdsOf(d.partial, Open(more, past))
    BY <1>4, <1>9, <1>10, <2>1 DEF Narrowed
  <2>3. ASSUME NEW i \in Open(more, past)
        PROVE  d.restorers[d.partial[i].id] = Held(config, i, more[i].kind, more[i].size)
    <3>1. i \in Open(cs, over) /\ i \in 1 .. Len(p) /\ i \in 1 .. Len(cs) /\ i # c
      BY <1>1, <1>8
    <3>2. d.partial[i].id = p[i].id
      BY <1>6, <3>1 DEF Grown
    <3>3. p[i].id \in DOMAIN st.restorers
      BY <1>4, <3>1 DEF IdsOf
    <3>4. p[i].id # id
      BY <1>1, <1>2, <3>1 DEF OnePerCall
    <3>5. d.restorers[p[i].id] = st.restorers[p[i].id]
      BY <2>1, <3>3, <3>4 DEF Narrowed
    <3>6. more[i].kind = cs[i].kind /\ more[i].size = cs[i].size
      BY <3>1 DEF Resized
    <3>7. st.restorers[p[i].id] = Held(config, i, cs[i].kind, cs[i].size)
      BY <3>1 DEF Followed, KeepsBack, Masked
    <3> QED BY <3>2, <3>5, <3>6, <3>7
  <2> QED BY <2>2, <2>3 DEF KeepsBack
<1>13. FollowedOn(st, d, more, past)
  BY <1>6, <1>7, <1>11, <1>12 DEF Followed, FollowedOn, Grown, SameIds
<1> QED BY <1>13 DEF d

-----------------------------------------------------------------------------
\* The last of the calls is that with id.
StartedAs(st, d, cs, over, id) ==
    FollowedOn(st, d, cs, over) /\ d.partial[Len(cs)].id = id

\* One call more was started.
LEMMA FollowStart ==
    ASSUME NEW n \in Nat, NEW st, Typed(st, n), NEW cs, IsList(cs), NEW over,
           over \subseteq 1 .. Len(cs), Followed(config, st, cs, over),
           NEW call, call.size = 0, NEW more, more = Append(cs, call),
           NEW id, id.n = Len(cs) + 1
    PROVE  StartedAs(st, Deliver(st, Began(id, call.tool)), more, over, id)
<1> DEFINE p == st.partial
           k == Len(cs)
           e == [id |-> id, name |-> call.tool, buf |-> <<>>]
           d == Deliver(st, Began(id, call.tool))
           q == d.partial
<1>1. OnePerCall(p) /\ Len(p) = k /\ k \in Nat
  BY FollowedIs
<1>2. Opens(st, d, id, call.tool) /\ d.restorers = RestorersAfter(st, id, <<>>)
  BY <1>1, StartOpens
<1> HIDE DEF d
<1>3. /\ q = Append(p, e)
      /\ \A open, past : id \notin open \cup past /\ Tidy(st.events, open, past)
           => Tidy(d.events, open \cup {id}, past)
  BY <1>2 DEF Opens
<1>4. IsList(p)
  <2>1. p \in Seq(Entries(n))
    BY DEF Typed
  <2> QED BY <2>1, ListIsSeq
<1>5. Len(q) = k + 1 /\ q[k + 1] = e /\ \A i \in 1 .. k : q[i] = p[i]
  BY <1>1, <1>3, <1>4, AppendList DEF Indices
<1>6. Len(more) = k + 1 /\ more[k + 1] = call /\ \A i \in 1 .. k : more[i] = cs[i]
  BY AppendList DEF Indices
<1> HIDE DEF q
<1>7. \A i \in 1 .. k + 1 : i \in 1 .. k \/ i = k + 1
  BY <1>1
<1>8. \A i : Fragments(config, i, 0) = <<>> /\ Held(config, i, call.kind, 0) = <<>>
             /\ Collected(config, i, call.kind, 0, over) = <<>>
  BY DEF Fragments, Held, Collected
<1>9. Collects(config, q, more, over)
  <2>1. ASSUME NEW i \in 1 .. k + 1
        PROVE  /\ q[i].id.n = i /\ q[i].name = more[i].tool
               /\ q[i].buf = Collected(config, i, more[i].kind, more[i].size, over)
    <3>1. CASE i = k + 1
      BY <1>5, <1>6, <1>8, <3>1
    <3>2. CASE i \in 1 .. k
      BY <1>5, <1>6, <3>2 DEF Followed, Collects
    <3> QED BY <1>7, <3>1, <3>2
  <2> QED BY <1>5, <1>6, <2>1 DEF Collects
<1>10. Open(more, over) = Open(cs, over) \cup {k + 1} /\ k + 1 \notin over /\ k + 1 \notin Open(cs, over)
  <2>1. 1 .. k + 1 = 1 .. k \cup {k + 1} /\ k + 1 \notin 1 .. k
    BY <1>1
  <2>2. Open(more, over) = (1 .. k + 1) \ over /\ Open(cs, over) = (1 .. k) \ over
    BY <1>6 DEF Open
  <2> HIDE DEF k
  <2>3. over \subseteq 1 .. k
    BY DEF k
  <2> QED BY <2>1, <2>2, <2>3
<1>11. IdsOf(q, Open(more, over)) = IdsOf(p, Open(cs, over)) \cup {id} /\ IdsOf(q, over) = IdsOf(p, over)
  <2>1. \A i \in Open(cs, over) \cup over : q[i].id = p[i].id
    BY <1>5 DEF Open
  <2>2. q[k + 1].id = id
    BY <1>5
  <2> QED BY <1>10, <2>1, <2>2 DEF IdsOf
<1>12. \A i \in 1 .. k : p[i].id # id
  BY <1>1 DEF OnePerCall
<1>13. id \notin IdsOf(p, Open(cs, over)) \cup IdsOf(p, over)
  BY <1>12 DEF IdsOf, Open
<1>14. Tidy(d.events, IdsOf(q, Open(more, over)), IdsOf(q, over))
  BY <1>3, <1>11, <1>13 DEF Followed
<1>15. KeepsBack(config, d, more, over)
  <2> SUFFICES ASSUME Masked PROVE KeepsBack(config, d, more, over)
    BY DEF KeepsBack, Masked
  <2>1. d.restorers = Widened(st.restorers, id, <<>>)
    BY <1>2 DEF RestorersAfter
  <2>2. DOMAIN st.restorers = IdsOf(p, Open(cs, over))
    BY DEF Followed, KeepsBack, Masked
  <2>3. DOMAIN d.restorers = IdsOf(q, Open(more, over))
    BY <1>11, <2>1, <2>2 DEF Widened
  <2>4. ASSUME NEW i \in Open(more, over)
        PROVE  d.restorers[q[i].id] = Held(config, i, more[i].kind, more[i].size)
    <3>1. CASE i = k + 1
      BY <1>5, <1>6, <1>8, <2>1, <3>1 DEF Widened
    <3>2. CASE i \in Open(cs, over)
      <4>1. i \in 1 .. k
        BY <3>2 DEF Open
      <4>2. q[i].id = p[i].id /\ p[i].id # id /\ p[i].id \in DOMAIN st.restorers
        BY <1>5, <1>12, <2>2, <3>2, <4>1 DEF IdsOf
      <4>3. d.restorers[p[i].id] = st.restorers[p[i].id]
        BY <2>1, <4>2 DEF Widened
      <4>4. st.restorers[p[i].id] = Held(config, i, cs[i].kind, cs[i].size)
        BY <3>2 DEF Followed, KeepsBack, Masked
      <4> QED BY <1>6, <4>1, <4>2, <4>3, <4>4
    <3> QED BY <1>10, <3>1, <3>2
  <2> QED BY <2>3, <2>4 DEF KeepsBack, q
<1>16. Followed(config, d, more, over)
  BY <1>9, <1>14, <1>15 DEF Followed, q
<1>17. StartedAs(st, d, more, over, id)
  BY <1>1, <1>5, <1>6, <1>16 DEF StartedAs, FollowedOn, SameIds, q
<1> QED BY <1>17 DEF d

\* A text delta leaves all calls as they are.
LEMMA FollowText ==
    ASSUME NEW cfg, NEW st, NEW d, SameCalls(st, d), NEW cs, NEW over, Followed(cfg, st, cs, over)
    PROVE  Followed(cfg, d, cs, over)
BY DEF SameCalls, Followed, KeepsBack

\* How a call grows: what comes next of one that is at size n, and its size then.
NextSize(cfg, n) == IF cfg.vendor = "gemini" THEN 2 ELSE n + 1
NextOf(cfg, c, n) ==
    Piece(c, IF cfg.vendor = "gemini" THEN "whole" ELSE IF n = 0 THEN "head" ELSE "tail")
\* c is known to the vendor as one of kind k.
Known(c, k) == config.vendor # "gemini" => sent[c].kind = k

\* The next of a call of kind k at size n goes on, or is held back, as it has to.
PassesOn(st, c, k, n, over) ==
    \E g, r :
      /\ Passed(st, c, <<NextOf(config, c, n)>>, g, r)
      /\ Collected(config, c, k, n, over) \o g =
           Collected(config, c, k, NextSize(config, n), over)
      /\ Masked => r = Held(config, c, k, NextSize(config, n))

\* Piece by piece, a restorer lets pass or holds back what Collected and Held say.
LEMMA Passing ==
    ASSUME NEW st, NEW c, NEW k, Known(c, k), NEW n \in {0, 1},
           config.vendor = "gemini" => n = 0, NEW over, c \notin over,
           Masked => st.restorers[st.partial[c].id] = Held(config, c, k, n)
    PROVE  PassesOn(st, c, k, n, over)
<1> DEFINE x == NextOf(config, c, n)
           s == <<x>>
           after == Collected(config, c, k, NextSize(config, n), over)
           before == Collected(config, c, k, n, over)
<1>0. s \in Seq({x}) /\ Len(s) = 1 /\ s[1] = x /\ <<>> \o s = s
  <2>1. s \in Seq({x})
    OBVIOUS
  <2> QED BY <2>1, ConcatEmptySeq
<1>1. Last(s) = x /\ Front(s) = <<>>
  <2> HIDE DEF x
  <2>1. Append(<<>>, x) = <<x>> /\ <<>> \in Seq({x}) /\ x \in {x}
    BY OneAndOne
  <2>2. Last(Append(<<>>, x)) = x /\ Front(Append(<<>>, x)) = <<>>
    BY <2>1, OneMore
  <2> QED BY <2>1, <2>2
<1>2. Restored(s) = s
  BY <1>0 DEF Restored, Literal
<1>3. CASE ~Holds(config, k)
  <2>1. before \o s = after
    <3>1. CASE config.vendor = "gemini"
      <4>1. n = 0 /\ before = <<>> /\ NextSize(config, n) = 2 /\ after = s
        BY <1>3, <3>1 DEF Collected, Fragments, NextSize, NextOf
      <4> QED BY <1>0, <4>1
    <3>2. CASE config.vendor # "gemini" /\ n = 0
      <4>1. before = <<>> /\ NextSize(config, n) = 1 /\ after = s
        BY <1>3, <3>2 DEF Collected, Fragments, NextSize, NextOf
      <4> QED BY <1>0, <4>1
    <3>3. CASE config.vendor # "gemini" /\ n = 1
      <4>1. before = <<Piece(c, "head")>> /\ NextSize(config, n) = 2 /\ s = <<Piece(c, "tail")>>
            /\ after = <<Piece(c, "head"), Piece(c, "tail")>>
        BY <1>3, <3>3 DEF Collected, Fragments, NextSize, NextOf
      <4> QED BY <4>1, OneAndOne
    <3> QED BY <3>1, <3>2, <3>3
  <2>2. Held(config, c, k, NextSize(config, n)) = <<>>
    BY <1>3 DEF Held
  <2>3. Masked => st.restorers[st.partial[c].id] \o s = s
    <3> SUFFICES ASSUME Masked PROVE st.restorers[st.partial[c].id] \o s = s
      OBVIOUS
    <3>1. st.restorers[st.partial[c].id] = <<>>
      BY <1>3 DEF Held
    <3> HIDE DEF s
    <3> QED BY <1>0, <3>1
  <2>4. Masked => ~Dangling(Last(s))
    <3> HIDE DEF s
    <3> QED BY <1>1, <1>3 DEF Dangling, NextOf, Piece, Holds, Known, Masked
  <2>5. Passed(st, c, s, s, <<>>)
    <3> HIDE DEF s
    <3> QED BY <1>2, <2>3, <2>4 DEF Passed
  <2> HIDE DEF s
  <2>6. Passed(st, c, s, s, <<>>) /\ before \o s = after
        /\ (Masked => <<>> = Held(config, c, k, NextSize(config, n)))
    BY <2>1, <2>2, <2>5
  <2> HIDE DEF after, before
  <2> QED BY <2>6 DEF PassesOn, s, after, before
<1>4. CASE Holds(config, k) /\ n = 0
  <2>1. Masked /\ k = "private" /\ config.vendor # "gemini" /\ sent[c].kind = "private"
    BY <1>4 DEF Holds, Masked, Known
  <2>2. x = Piece(c, "head") /\ NextSize(config, n) = 1 /\ before = <<>> /\ after = <<>>
        /\ Held(config, c, k, NextSize(config, n)) = s
    BY <1>4, <2>1 DEF NextOf, NextSize, Collected, Fragments, Held
  <2>3. st.restorers[st.partial[c].id] \o s = s
    <3>1. st.restorers[st.partial[c].id] = <<>>
      BY <1>4, <2>1 DEF Held
    <3> HIDE DEF s
    <3> QED BY <1>0, <3>1
  <2>4. Dangling(Last(s))
    <3> HIDE DEF s
    <3> QED BY <1>1, <2>1, <2>2 DEF Dangling, Piece
  <2>5. Passed(st, c, s, <<>>, s)
    <3>1. s = <<Last(s)>>
      BY <1>1
    <3> HIDE DEF s
    <3> QED BY <1>1, <2>1, <2>3, <2>4, <3>1 DEF Passed
  <2>6. before \o <<>> = after
    <3>1. <<>> \o <<>> = <<>>
      OBVIOUS
    <3> QED BY <2>2, <3>1
  <2>7. Passed(st, c, s, <<>>, s) /\ before \o <<>> = after
        /\ (Masked => s = Held(config, c, k, NextSize(config, n)))
    BY <2>2, <2>5, <2>6
  <2> HIDE DEF after, before, s
  <2> QED BY <2>7 DEF PassesOn, s, after, before
<1>5. CASE Holds(config, k) /\ n = 1
  <2> DEFINE buf == <<Piece(c, "head"), Piece(c, "tail")>>
             real == <<Piece(c, "real")>>
  <2>1. Masked /\ k = "private" /\ config.vendor # "gemini" /\ sent[c].kind = "private"
    BY <1>5 DEF Holds, Masked, Known
  <2>2. x = Piece(c, "tail") /\ NextSize(config, n) = 2 /\ before = <<>> /\ after = real
        /\ Held(config, c, k, NextSize(config, n)) = <<>>
    BY <1>5, <2>1 DEF NextOf, NextSize, Collected, Fragments, Held
  <2>3. st.restorers[st.partial[c].id] \o s = buf
    <3>1. st.restorers[st.partial[c].id] = <<Piece(c, "head")>>
      BY <1>5, <2>1 DEF Held
    <3> QED BY <2>2, <3>1, OneAndOne
  <2>4. Len(buf) = 2 /\ buf[1] = Piece(c, "head") /\ buf[2] = Piece(c, "tail")
        /\ Last(buf) = Piece(c, "tail")
    BY DEF Last
  <2>5. ~Dangling(Last(buf))
    <3> HIDE DEF buf
    <3> QED BY <2>4 DEF Dangling, Piece
  <2>6. Restored(buf) = real
    <3> HIDE DEF buf
    <3>1. buf[1].part = "head" /\ buf[1].call = c
      BY <2>4 DEF Piece
    <3> QED BY <2>1, <2>4, <3>1 DEF Restored, Literal, Dangling
  <2>7. Passed(st, c, s, real, <<>>)
    <3> HIDE DEF s, buf, real
    <3> QED BY <2>1, <2>3, <2>5, <2>6 DEF Passed
  <2>8. before \o real = after
    <3>1. <<>> \o real = real
      OBVIOUS
    <3> HIDE DEF real
    <3> QED BY <2>2, <3>1
  <2>9. Passed(st, c, s, real, <<>>) /\ before \o real = after
        /\ (Masked => <<>> = Held(config, c, k, NextSize(config, n)))
    BY <2>2, <2>7, <2>8
  <2> HIDE DEF after, before, s, real
  <2> QED BY <2>9 DEF PassesOn, s, after, before
<1> QED BY <1>3, <1>4, <1>5

\* A fragment of any call that was started and not stopped.
LEMMA FollowFragment ==
    ASSUME NEW n \in Nat, NEW st, Typed(st, n), NEW cs, NEW over, Followed(config, st, cs, over),
           NEW c \in Open(cs, over), c \in 1 .. n, over \subseteq 1 .. Len(cs),
           cs[c].size \in {0, 1}, config.vendor = "gemini" => cs[c].size = 0,
           Known(c, cs[c].kind),
           NEW more, Resized(cs, more, c, NextSize(config, cs[c].size)),
           NEW s, s = <<NextOf(config, c, cs[c].size)>>
    PROVE  FollowedOn(st, Deliver(st, Delta(st.partial[c].id, s)), more, over)
<1> DEFINE k == cs[c].kind
           size == cs[c].size
           next == NextSize(config, size)
<1>1. Masked => st.restorers[st.partial[c].id] = Held(config, c, k, size)
  BY DEF Followed, KeepsBack, Masked
<1>2. c \notin over
  BY DEF Open
<1>3. PICK g, r :
        /\ Passed(st, c, s, g, r)
        /\ Collected(config, c, k, size, over) \o g = Collected(config, c, k, next, over)
        /\ Masked => r = Held(config, c, k, next)
  <2> HIDE DEF k, size
  <2>1. size \in {0, 1} /\ (config.vendor = "gemini" => size = 0) /\ Known(c, k)
        /\ s = <<NextOf(config, c, size)>>
    BY DEF size, k
  <2>2. PassesOn(st, c, k, size, over)
    BY <1>1, <1>2, <2>1, Passing
  <2> QED BY <2>1, <2>2 DEF PassesOn
<1>4. s \in Seq(Pieces(n)) /\ s # <<>>
  <2>1. NextOf(config, c, cs[c].size) \in Pieces(n)
    BY DEF NextOf, Pieces, Piece, Parts
  <2> HIDE DEF k, size
  <2>2. <<NextOf(config, c, cs[c].size)>> \in Seq(Pieces(n))
        /\ <<NextOf(config, c, cs[c].size)>> # <<>>
    BY <2>1
  <2> QED BY <2>2
<1>5. Resized(cs, more, c, next)
  OBVIOUS
<1> HIDE DEF next
<1> QED BY <1>3, <1>4, <1>5, FollowDelta DEF k, size

\* A call is stopped after any part of it.
LEMMA FollowEnd ==
    ASSUME NEW n \in Nat, NEW st, Typed(st, n), NEW cs, NEW over, Followed(config, st, cs, over),
           NEW c \in Open(cs, over), over \subseteq 1 .. Len(cs),
           NEW more, Resized(cs, more, c, cs[c].size), NEW past, past = over \cup {c}
    PROVE  FollowedOn(st, Deliver(st, Stop(st.partial[c].id)), more, past)
<1> DEFINE k == cs[c].kind
           size == cs[c].size
           g == IF Masked THEN Held(config, c, k, size) ELSE <<>>
<1>1. Masked => st.restorers[st.partial[c].id] = Held(config, c, k, size)
  BY DEF Followed, KeepsBack, Masked
<1>2. c \notin over /\ c \in past
  BY DEF Open
<1>3. Restored(Held(config, c, k, size)) = Held(config, c, k, size)
  <2>1. Len(Held(config, c, k, size)) # 2
    <3>1. Len(<<>>) = 0 /\ Len(<<Piece(c, "head")>>) = 1
      OBVIOUS
    <3> QED BY <3>1 DEF Held
  <2> QED BY <2>1 DEF Restored, Literal
<1>4. Released(st, c, g)
  BY <1>1, <1>3 DEF Released
<1>5. Collected(config, c, k, size, over) \o g = Collected(config, c, k, size, past)
  <2> HIDE DEF k, size
  <2>1. \A y : <<>> \o <<y>> = <<y>>
    BY ConcatEmptySeq
  <2>2. CASE Holds(config, k) /\ size = 1
    <3>1. Collected(config, c, k, size, over) = <<>> /\ g = <<Piece(c, "head")>>
          /\ Collected(config, c, k, size, past) = <<Piece(c, "head")>>
      BY <1>2, <2>2 DEF Collected, Fragments, Held, Holds, Masked
    <3> HIDE DEF g
    <3> QED BY <2>1, <3>1
  <2>3. CASE ~(Holds(config, k) /\ size = 1)
    <3>1. g = <<>> /\ Collected(config, c, k, size, over) = Collected(config, c, k, size, past)
      BY <2>3 DEF Collected, Held
    <3> DEFINE h == Piece(c, "head")
               t == Piece(c, "tail")
               w == Piece(c, "whole")
               v == Piece(c, "real")
               S == {h, t, w, v}
    <3>2. Collected(config, c, k, size, past) \in Seq(S)
      <4>1. Collected(config, c, k, size, past) \in {<<>>, <<v>>, <<w>>, <<h>>, <<h, t>>}
        BY DEF Collected, Fragments
      <4> HIDE DEF h, t, w, v
      <4>2. <<>> \in Seq(S) /\ <<v>> \in Seq(S) /\ <<w>> \in Seq(S) /\ <<h>> \in Seq(S)
            /\ <<h, t>> \in Seq(S)
        OBVIOUS
      <4> QED BY <4>1, <4>2
    <3> HIDE DEF S
    <3> HIDE DEF g
    <3> QED BY <3>1, <3>2, ConcatEmptySeq
  <2> QED BY <2>2, <2>3
<1> HIDE DEF g
<1> QED BY <1>4, <1>5, FollowStop DEF k, size

-----------------------------------------------------------------------------
(* The state of a turn.  What depends on config alone takes it as a        *)
(* parameter, for the next state to be spoken of by the same words.        *)

\* What the state is made of.
Configs == [vendor : {"anthropic", "openai", "gemini"}, stream : BOOLEAN, masked : BOOLEAN,
            hint : BOOLEAN, late : BOOLEAN]
Calls == [tool : Tools, kind : Kinds, size : 0 .. 2, open : BOOLEAN]
Refs == [by : {"vendor", "index", "counter", "none", "name"}, turn : 0 .. MaxTurns,
         n : 0 .. MaxCalls, tool : Tools \cup {"any"}]
Sayings == [role : {"user", "assistant", "model", "tool"}, of : {"ask", "calls", "results"},
            refs : Seq(Refs)]

\* Readable, Parsed, Meant and RunAsSent, of a configuration and the calls cs.
ReadAs(cfg, s) ==
    LET read[i \in 0 .. Len(s)] ==
          IF i = 0 THEN <<>>
          ELSE IF cfg.masked /\ s[i] = "close" THEN Append(Front(read[i - 1]), "value")
          ELSE Append(read[i - 1], s[i])
    IN  read[Len(s)]
ArgsOf(cfg, cs, buf) ==
    IF \E c \in DOMAIN cs : buf \in {<<Piece(c, "head"), Piece(c, "tail")>>, <<Piece(c, "whole")>>,
                                     <<Piece(c, "real")>>}
    THEN LET p == buf[1]
         IN  [call |-> p.call,
              real |-> p.part = "real" \/ ~cfg.masked \/ cs[p.call].kind # "private"]
    ELSE NoArgs
MeantBy(cs, c) ==
    IF cs[c].kind = "none" \/ ~Whole(cs[c]) THEN NoArgs ELSE [call |-> c, real |-> TRUE]
RanAs(cfg, cs, p) ==
    /\ Len(p) = Len(cs)
    /\ \A c \in DOMAIN cs :
         /\ p[c].name = cs[c].tool
         /\ LET got == ArgsOf(cfg, cs, p[c].buf)
            IN  \/ got = MeantBy(cs, c)
                \/ (cfg.vendor = "gemini" /\ cfg.stream /\ cfg.masked) /\ got.call = MeantBy(cs, c).call
Paired(cfg, ms) ==
    \A p \in DOMAIN ms : ms[p].of = "calls" =>
      IF cfg.vendor = "openai"
      THEN \A i \in DOMAIN ms[p].refs : Answers(ms, p + i, <<ms[p].refs[i]>>)
      ELSE Answers(ms, p + 1, ms[p].refs)

\* What of the text s is shown and held back, which calls are stopped, and which id
\* each of them has.
Shown(cfg, st, s) ==
    /\ st.held = IF cfg.masked /\ Opened(s) THEN <<"open">> ELSE <<>>
    /\ st.shown \o st.held = ReadAs(cfg, s)
Stopped(cfg, cs) ==
    IF cfg.vendor = "anthropic" THEN {c \in 1 .. Len(cs) : ~cs[c].open}
    ELSE IF cfg.vendor = "openai" THEN {} ELSE 1 .. Len(cs)
IdsKept(cfg, m, st, cs) ==
    cfg.vendor # "gemini" => \A c \in 1 .. Len(cs) : m[c] = st.partial[c].id

\* While the vendor speaks.
WireOK(cfg, st, cs, s, m) ==
    /\ Shown(cfg, st, s)
    /\ IF cfg.vendor = "gemini" THEN m = <<>> ELSE Len(m) = Len(cs)
    /\ ~cfg.late => Followed(cfg, st, cs, Stopped(cfg, cs)) /\ IdsKept(cfg, m, st, cs)

\* A call without arguments has no part, and Gemini's have no first one.
CallsOK(cfg, cs) ==
    /\ cs \in Seq(Calls) /\ Len(cs) <= MaxCalls
    /\ \A c \in 1 .. Len(cs) : /\ cs[c].kind = "none" => cs[c].size = 0
                               /\ cfg.vendor = "gemini" => cs[c].size # 1
\* The inductive invariant: the types; what wrapper and loop hold while the vendor
\* speaks; what is left of the turn at its end; and the history.
Types ==
    /\ config \in Configs /\ (config.late => config.vendor = "openai" /\ config.stream)
    /\ phase \in {"request", "wire", "dispatch", "done"}
    /\ turn \in 1 .. MaxTurns
    /\ CallsOK(config, sent)
    /\ said \in Seq(Deltas) /\ Len(said) <= MaxText
    /\ meta \in Seq(Ids) /\ Len(meta) <= MaxCalls
    /\ Typed(pipe, Len(sent))
    /\ messages \in Seq(Sayings) /\ request \in Seq(Sayings)
    /\ outcome \in {"none", "text", "error", "raised", "cap"}
Wired ==
    /\ phase = "wire" /\ config.stream => WireOK(config, pipe, sent, said, meta)
    /\ phase = "wire" /\ ~config.stream => pipe = EmptyPipe
    /\ phase = "request" => pipe = EmptyPipe
    /\ phase # "done" => outcome = "none"
Ended ==
    phase \in {"dispatch", "done"} =>
      /\ ~config.late => InOrder(pipe.events)
      /\ config.stream /\ (phase = "dispatch" \/ outcome = "text") => pipe.shown = ReadAs(config, said)
      /\ phase = "dispatch" /\ ~config.late => RanAs(config, sent, pipe.partial)
Histories == Paired(config, messages) /\ Paired(config, request)
TurnInv == Types /\ Wired /\ Ended /\ Histories

-----------------------------------------------------------------------------
\* More calls are made: the pipe keeps its types.
LEMMA TypedMore ==
    ASSUME NEW n \in Nat, NEW m \in Nat, n <= m, NEW st, Typed(st, n)
    PROVE  Typed(st, m)
<1>1. Pieces(n) \subseteq Pieces(m)
  <2>1. 1 .. n \subseteq 1 .. m
    OBVIOUS
  <2> QED BY <2>1 DEF Pieces
<1>2. \A s \in Seq(Pieces(n)) : s \in Seq(Pieces(m))
  BY <1>1, SeqMonotonic
<1>3. Entries(n) \subseteq Entries(m)
  BY <1>2 DEF Entries
<1>4. st.partial \in Seq(Entries(m))
  <2>1. st.partial \in Seq(Entries(n))
    BY DEF Typed
  <2> QED BY <1>3, <2>1, SeqMonotonic
<1>5. st.restorers \in [DOMAIN st.restorers -> Seq(Pieces(m))]
  BY <1>2 DEF Typed
<1> QED BY <1>4, <1>5 DEF Typed

\* The empty pipe.
LEMMA EmptyIs ==
    /\ IsPipe(EmptyPipe) /\ EmptyPipe.restorers = [i \in {} |-> <<>>] /\ EmptyPipe.held = <<>>
    /\ EmptyPipe.events = <<>> /\ EmptyPipe.partial = <<>> /\ EmptyPipe.shown = <<>>
    /\ DOMAIN EmptyPipe.restorers = {}
BY DEF IsPipe, EmptyPipe

LEMMA EmptyTyped == ASSUME NEW n \in Nat PROVE Typed(EmptyPipe, n)
<1>1. IsList(<<>>)
  BY DEF IsList
<1> QED BY <1>1, EmptyIs DEF Typed

LEMMA NothingInOrder == InOrder(<<>>)
BY NothingIsTidy, TidyInOrder

\* The words of the invariant are those of the module.
LEMMA ReadAsIs == \A s : Readable(s) = ReadAs(config, s)
BY DEF Readable, ReadAs, Masked

LEMMA ShownIs ==
    ASSUME NEW st, NEW s
    PROVE  Shown(config, st, s) <=> Told(st, s)
BY ReadAsIs DEF Shown, Told, Masked

\* Nothing is to be read of nothing.
LEMMA NothingRead == \A cfg : ReadAs(cfg, <<>>) = <<>>
<1>1. ASSUME NEW cfg PROVE ReadAs(cfg, <<>>) = <<>>
  <2> DEFINE f == [i \in 0 .. 0 |-> <<>>]
  <2>1. Len(<<>>) = 0
    OBVIOUS
  <2> DEFINE F(g) == g = [i \in 0 .. Len(<<>>) |->
                            IF i = 0 THEN <<>>
                            ELSE IF cfg.masked /\ <<>>[i] = "close" THEN Append(Front(g[i - 1]), "value")
                            ELSE Append(g[i - 1], <<>>[i])]
             r == CHOOSE g : F(g)
  <2>2. F(f)
    BY <2>1
  <2>3. F(r)
    BY <2>2
  <2>4. ReadAs(cfg, <<>>) = r[Len(<<>>)]
    BY DEF ReadAs
  <2>5. r[0] = <<>>
    <3> HIDE DEF r
    <3> QED BY <2>1, <2>3
  <2> QED BY <2>1, <2>4, <2>5
<1> QED BY <1>1

\* The turn begins.
LEMMA NothingYet ==
    ASSUME NEW cfg
    PROVE  WireOK(cfg, EmptyPipe, <<>>, <<>>, <<>>)
<1>1. Len(<<>>) = 0 /\ 1 .. 0 = {} /\ <<>> \o <<>> = <<>>
  OBVIOUS
<1>2. Shown(cfg, EmptyPipe, <<>>)
  BY <1>1, EmptyIs, NothingRead DEF Shown, Opened
<1>3. \A over : Open(<<>>, over) = {} /\ Stopped(cfg, <<>>) = {}
  BY <1>1 DEF Open, Stopped
<1>4. \A p : IdsOf(p, {}) = {}
  BY DEF IdsOf
<1>5. Followed(cfg, EmptyPipe, <<>>, Stopped(cfg, <<>>))
  <2>1. Collects(cfg, EmptyPipe.partial, <<>>, {})
    BY <1>1, EmptyIs DEF Collects
  <2>2. KeepsBack(cfg, EmptyPipe, <<>>, {})
    BY <1>1, <1>3, <1>4, EmptyIs DEF KeepsBack
  <2> QED BY <1>3, <1>4, <2>1, <2>2, EmptyIs, NothingIsTidy DEF Followed
<1>6. IdsKept(cfg, <<>>, EmptyPipe, <<>>)
  BY <1>1 DEF IdsKept
<1> QED BY <1>1, <1>2, <1>5, <1>6 DEF WireOK

-----------------------------------------------------------------------------
\* A sequence with one element changed.
LEMMA ChangedSeq ==
    ASSUME NEW S, NEW s \in Seq(S), NEW c \in 1 .. Len(s), NEW x \in S,
           NEW t, t = [s EXCEPT ![c] = x]
    PROVE  /\ t \in Seq(S) /\ Len(t) = Len(s)
           /\ \A i \in 1 .. Len(s) : t[i] = IF i = c THEN x ELSE s[i]
BY ExceptSeq, LenProperties

\* Whatever a vendor's dialect does, the turn goes on in order, if the calls, the
\* ids and the pipe it leaves are.
LEMMA WireStep ==
    ASSUME TurnInv, phase = "wire", config.stream, Frame, phase' = phase, outcome' = outcome,
           CallsOK(config, sent'), said' \in Seq(Deltas), Len(said') <= MaxText,
           meta' \in Seq(Ids), Len(meta') <= MaxCalls, Typed(pipe', Len(sent')),
           WireOK(config, pipe', sent', said', meta')
    PROVE  TurnInv'
<1>1. /\ config' = config /\ turn' = turn /\ messages' = messages /\ request' = request
  BY DEF Frame
<1>2. Types'
  BY <1>1 DEF TurnInv, Types
<1>3. Wired'
  BY <1>1 DEF TurnInv, Wired
<1>4. Ended'
  BY DEF Ended
<1>5. Histories'
  BY <1>1 DEF TurnInv, Histories
<1> QED BY <1>2, <1>3, <1>4, <1>5 DEF TurnInv

\* What the invariant says while the vendor speaks.
LEMMA OnTheWireIs ==
    ASSUME TurnInv, phase = "wire", config.stream
    PROVE  /\ config \in Configs /\ Len(sent) \in Nat /\ DOMAIN sent = 1 .. Len(sent)
           /\ CallsOK(config, sent) /\ Typed(pipe, Len(sent)) /\ IsPipe(pipe)
           /\ said \in Seq(Deltas) /\ Len(said) <= MaxText /\ Len(said) \in Nat
           /\ meta \in Seq(Ids) /\ Len(meta) <= MaxCalls
           /\ DOMAIN meta = 1 .. Len(meta) /\ Len(meta) \in Nat
           /\ WireOK(config, pipe, sent, said, meta)
           /\ outcome = "none" /\ turn \in 1 .. MaxTurns
<1>1. sent \in Seq(Calls) /\ said \in Seq(Deltas) /\ meta \in Seq(Ids)
  BY DEF TurnInv, Types, CallsOK
<1>2. /\ Len(sent) \in Nat /\ Len(said) \in Nat /\ Len(meta) \in Nat
      /\ DOMAIN sent = 1 .. Len(sent) /\ DOMAIN meta = 1 .. Len(meta)
  BY <1>1, LenProperties
<1>3. IsPipe(pipe)
  BY DEF TurnInv, Types, Typed
<1>4. /\ config \in Configs /\ CallsOK(config, sent) /\ Typed(pipe, Len(sent))
      /\ Len(said) <= MaxText /\ Len(meta) <= MaxCalls /\ turn \in 1 .. MaxTurns
  BY DEF TurnInv, Types
<1>5. WireOK(config, pipe, sent, said, meta) /\ outcome = "none"
  BY DEF TurnInv, Wired
<1> QED BY <1>1, <1>2, <1>3, <1>4, <1>5

\* What is shown depends on the text alone.
LEMMA TextKept ==
    ASSUME NEW cfg, NEW st, NEW d, SameText(st, d), NEW s, Shown(cfg, st, s)
    PROVE  Shown(cfg, d, s)
BY DEF SameText, Shown

\* The steps of the stream: text; the start of a call, and a fragment of one, for
\* the two vendors that send them in pieces.
LEMMA TextStep ==
    ASSUME TurnInv, Text
    PROVE  TurnInv'
<1>0. phase = "wire" /\ config.stream
  BY DEF Text, Streams
<1>1. PICK w \in {"plain", "open", "close"} :
        /\ (w = "close") <=> (said # <<>> /\ Last(said) = "open")
        /\ w = "open" => Masked /\ Len(said) + 1 < MaxText
        /\ said' = Append(said, w)
        /\ pipe' = Yields(<<Words(<<w>>)>>)
  BY DEF Text
<1>2. sent' = sent /\ meta' = meta /\ phase' = phase /\ outcome' = outcome /\ Frame /\ Len(said) < MaxText
  BY DEF Text
<1>3. pipe' = Deliver(pipe, Words(<<w>>))
  BY <1>1, YieldsOne
<1>4. /\ Typed(pipe, Len(sent)) /\ said \in Seq(Deltas) /\ Len(sent) \in Nat
      /\ WireOK(config, pipe, sent, said, meta) /\ CallsOK(config, sent)
      /\ meta \in Seq(Ids) /\ Len(meta) <= MaxCalls /\ Len(said) \in Nat
  BY <1>0, OnTheWireIs
<1>5. w \in Deltas /\ <<w>> \in Seq(Texts) /\ <<w>> # <<>> /\ ((w = "close") <=> Opened(said))
      /\ (w = "open" => Masked)
  BY <1>1 DEF Deltas, Texts, Opened
<1>6. Told(pipe, said)
  BY <1>4, ShownIs DEF WireOK
<1>7. /\ Told(pipe', Append(said, w)) /\ SameCalls(pipe, pipe')
  BY <1>3, <1>4, <1>5, <1>6, TextIsTold
<1>8. Shown(config, pipe', said')
  BY <1>1, <1>7, ShownIs
<1>9. Typed(pipe', Len(sent'))
  BY <1>2, <1>3, <1>4, <1>5, DeliverTyped
<1>10. said' \in Seq(Deltas) /\ Len(said') <= MaxText
  <2>1. said' \in Seq(Deltas) /\ Len(said') = Len(said) + 1
    BY <1>1, <1>4, <1>5, AppendProperties
  <2> QED BY <1>2, <1>4, <2>1, VendorTurnAssumption
<1>11. WireOK(config, pipe', sent', said', meta')
  <2>1. ~config.late => Followed(config, pipe', sent, Stopped(config, sent))
    BY <1>4, <1>7, FollowText DEF WireOK
  <2>2. ~config.late => IdsKept(config, meta, pipe', sent)
    BY <1>4, <1>7 DEF WireOK, IdsKept, SameCalls
  <2> QED BY <1>2, <1>4, <1>8, <2>1, <2>2 DEF WireOK
<1> QED BY <1>0, <1>2, <1>4, <1>9, <1>10, <1>11, WireStep

LEMMA StartStep ==
    ASSUME TurnInv, phase = "wire", config.stream, config.vendor # "gemini", Frame,
           phase' = phase, outcome' = outcome, said' = said, Len(sent) < MaxCalls,
           NEW call \in Calls, call.size = 0, config.vendor = "anthropic" => call.open,
           NEW id \in Ids, id.n = Len(sent) + 1, sent' = Append(sent, call),
           meta' = Append(meta, id), pipe' = Yields(<<Began(id, call.tool)>>)
    PROVE  TurnInv'
<1> DEFINE k == Len(sent)
<1>1. /\ Typed(pipe, k) /\ said \in Seq(Deltas) /\ Len(said) <= MaxText
      /\ WireOK(config, pipe, sent, said, meta) /\ CallsOK(config, sent)
      /\ meta \in Seq(Ids) /\ k \in Nat /\ IsPipe(pipe)
  BY OnTheWireIs
<1>2. pipe' = Deliver(pipe, Began(id, call.tool))
  BY YieldsOne
<1>3. call.tool \in Tools
  BY DEF Calls
<1>4. /\ sent \in Seq(Calls) /\ sent' \in Seq(Calls) /\ Len(sent') = k + 1
      /\ sent'[k + 1] = call /\ \A i \in 1 .. k : sent'[i] = sent[i]
  BY <1>1, AppendProperties DEF CallsOK
<1>5. /\ Len(meta) = k /\ meta' \in Seq(Ids) /\ Len(meta') = k + 1
      /\ meta'[k + 1] = id /\ \A i \in 1 .. k : meta'[i] = meta[i]
  <2>1. Len(meta) = k
    BY <1>1 DEF WireOK
  <2> QED BY <1>1, <2>1, AppendProperties
<1>6. Typed(pipe', Len(sent'))
  <2>1. Typed(pipe', k)
    BY <1>1, <1>2, <1>3, DeliverTyped
  <2>2. k + 1 \in Nat /\ k <= k + 1
    BY <1>1
  <2> QED BY <1>1, <1>4, <2>1, <2>2, TypedMore
<1>7. \A i \in 1 .. k + 1 : i \in 1 .. k \/ i = k + 1
  BY <1>1
<1>8. k + 1 <= MaxCalls
  BY <1>1, VendorTurnAssumption
<1>9. CallsOK(config, sent')
  <2>1. \A i \in 1 .. k + 1 : /\ sent'[i].kind = "none" => sent'[i].size = 0
                              /\ config.vendor = "gemini" => sent'[i].size # 1
    BY <1>1, <1>4, <1>7 DEF CallsOK
  <2> QED BY <1>4, <1>8, <2>1 DEF CallsOK
<1>10. Shown(config, pipe', said')
  <2>1. SameText(pipe, pipe')
    BY <1>1, <1>2, ToolsKeepText
  <2> QED BY <1>1, <2>1, TextKept DEF WireOK
<1>11. Stopped(config, sent') = Stopped(config, sent)
  <2>1. CASE config.vendor = "anthropic"
    <3>1. Stopped(config, sent') = {c \in 1 .. k + 1 : ~sent'[c].open}
          /\ Stopped(config, sent) = {c \in 1 .. k : ~sent[c].open}
      BY <1>4, <2>1 DEF Stopped
    <3>2. \A c : c \in 1 .. k + 1 /\ ~sent'[c].open <=> c \in 1 .. k /\ ~sent[c].open
      BY <1>1, <1>4, <1>7, <2>1
    <3> QED BY <3>1, <3>2
  <2>2. CASE config.vendor # "anthropic"
    BY <1>1, <2>2, OnTheWireIs DEF Stopped, Configs
  <2> QED BY <2>1, <2>2
<1>12. ASSUME ~config.late
       PROVE  Followed(config, pipe', sent', Stopped(config, sent')) /\ IdsKept(config, meta', pipe', sent')
  <2> DEFINE over == Stopped(config, sent)
  <2>1. over \subseteq 1 .. Len(sent)
    BY DEF Stopped
  <2>2. IsList(sent)
    BY <1>4, ListIsSeq
  <2>3. Followed(config, pipe, sent, over) /\ IdsKept(config, meta, pipe, sent)
    BY <1>1, <1>12 DEF WireOK
  <2> HIDE DEF over
  <2>4. StartedAs(pipe, pipe', sent', over, id)
    <3>1. Typed(pipe, k) /\ k \in Nat /\ id.n = k + 1
      BY <1>1
    <3> QED BY <1>2, <2>1, <2>2, <2>3, <3>1, FollowStart
  <2>5. /\ Followed(config, pipe', sent', over)
        /\ \A i \in 1 .. Len(pipe.partial) : pipe'.partial[i].id = pipe.partial[i].id
        /\ pipe'.partial[k + 1].id = id
    BY <1>4, <2>4 DEF StartedAs, FollowedOn, SameIds
  <2>6. Len(pipe.partial) = k
    BY <2>3 DEF Followed, Collects
  <2>7. IdsKept(config, meta', pipe', sent')
    <3> SUFFICES ASSUME NEW i \in 1 .. Len(sent') PROVE meta'[i] = pipe'.partial[i].id
      BY DEF IdsKept
    <3>1. CASE i = k + 1
      BY <1>5, <2>5, <3>1
    <3>2. CASE i \in 1 .. k
      BY <1>5, <2>3, <2>5, <2>6, <3>2 DEF IdsKept
    <3> QED BY <1>4, <1>7, <3>1, <3>2
  <2> QED BY <1>11, <2>5, <2>7 DEF over
<1>13. WireOK(config, pipe', sent', said', meta')
  BY <1>4, <1>5, <1>10, <1>12 DEF WireOK
<1>14. Len(meta') <= MaxCalls
  BY <1>5, <1>8
<1> QED BY <1>1, <1>5, <1>6, <1>9, <1>13, <1>14, WireStep

LEMMA DeltaStep ==
    ASSUME TurnInv, phase = "wire", config.stream, config.vendor # "gemini", Frame,
           phase' = phase, outcome' = outcome, said' = said,
           NEW c \in DOMAIN sent, ~Whole(sent[c]), c \notin Stopped(config, sent),
           sent' = [sent EXCEPT ![c].size = @ + 1],
           meta' \in Seq(Ids), Len(meta') = Len(meta), config.late \/ meta' = meta,
           pipe' = Yields(<<Delta(meta'[c], <<NextPart(c)>>)>>)
    PROVE  TurnInv'
<1> DEFINE k == Len(sent)
           size == sent[c].size
           x == [sent[c] EXCEPT !.size = @ + 1]
<1>1. /\ Typed(pipe, k) /\ said \in Seq(Deltas) /\ Len(said) <= MaxText
      /\ WireOK(config, pipe, sent, said, meta) /\ CallsOK(config, sent)
      /\ k \in Nat /\ IsPipe(pipe) /\ DOMAIN sent = 1 .. k /\ Len(meta) <= MaxCalls
  BY OnTheWireIs
<1>2. pipe' = Deliver(pipe, Delta(meta'[c], <<NextPart(c)>>))
  BY YieldsOne
<1>3. sent \in Seq(Calls) /\ c \in 1 .. k /\ sent[c] \in Calls
  <2>1. sent \in Seq(Calls) /\ c \in 1 .. k
    BY <1>1 DEF CallsOK
  <2> QED BY <2>1, ElementOfSeq
<1>4. size \in {0, 1} /\ sent[c].kind # "none"
  <2>1. size \in 0 .. 2 /\ (sent[c].kind = "none" => size = 0)
    BY <1>1, <1>3 DEF Calls, CallsOK
  <2> QED BY <2>1 DEF Whole
<1>5. /\ x \in Calls /\ x.tool = sent[c].tool /\ x.kind = sent[c].kind /\ x.size = size + 1
      /\ x.open = sent[c].open
  <2>1. sent[c] = [tool |-> sent[c].tool, kind |-> sent[c].kind, size |-> size, open |-> sent[c].open]
        /\ sent[c].tool \in Tools /\ sent[c].kind \in Kinds /\ sent[c].open \in BOOLEAN
    BY <1>3 DEF Calls
  <2>2. x = [tool |-> sent[c].tool, kind |-> sent[c].kind, size |-> size + 1, open |-> sent[c].open]
    BY <2>1
  <2>3. size + 1 \in 0 .. 2
    BY <1>4
  <2> QED BY <2>1, <2>2, <2>3 DEF Calls
<1>6. sent' = [sent EXCEPT ![c] = x]
  BY <1>1
<1> HIDE DEF x
<1>7. sent' \in Seq(Calls) /\ Len(sent') = k
      /\ \A i \in 1 .. k : sent'[i] = IF i = c THEN x ELSE sent[i]
  <2> DEFINE t == sent'
  <2>1. t = [sent EXCEPT ![c] = x]
    BY <1>6
  <2> HIDE DEF t
  <2>2. t \in Seq(Calls) /\ Len(t) = Len(sent)
        /\ \A i \in 1 .. Len(sent) : t[i] = IF i = c THEN x ELSE sent[i]
    BY <1>3, <1>5, <2>1, ChangedSeq
  <2> QED BY <2>2 DEF t
<1>8. CallsOK(config, sent')
  <2>1. \A i \in 1 .. k : sent'[i].kind = "none" => sent'[i].size = 0
    BY <1>1, <1>4, <1>5, <1>7 DEF CallsOK
  <2> QED BY <1>1, <1>7, <2>1 DEF CallsOK
<1>9. NextPart(c) = NextOf(config, c, size) /\ <<NextPart(c)>> \in Seq(Pieces(k)) /\ <<NextPart(c)>> # <<>>
  <2>1. NextPart(c) \in Pieces(k)
    BY <1>3 DEF NextPart, Pieces, Piece, Parts
  <2> QED BY <2>1 DEF NextPart, NextOf
<1>10. Typed(pipe', Len(sent'))
  <2>1. \A id : Typed(Deliver(pipe, Delta(id, <<NextPart(c)>>)), k)
    BY <1>1, <1>9, DeliverTyped
  <2> QED BY <1>2, <1>7, <2>1
<1>11. Shown(config, pipe', said')
  <2>1. SameText(pipe, pipe')
    BY <1>1, <1>2, ToolsKeepText
  <2> QED BY <1>1, <2>1, TextKept DEF WireOK
<1>12. Stopped(config, sent') = Stopped(config, sent)
  <2>1. \A i \in 1 .. k : sent'[i].open = sent[i].open
    BY <1>5, <1>7
  <2> QED BY <1>7, <2>1 DEF Stopped
<1>13. ASSUME ~config.late
       PROVE  Followed(config, pipe', sent', Stopped(config, sent')) /\ IdsKept(config, meta', pipe', sent')
  <2> DEFINE over == Stopped(config, sent)
  <2>1. over \subseteq 1 .. Len(sent) /\ c \in Open(sent, over)
    BY <1>3 DEF Stopped, Open
  <2>2. Followed(config, pipe, sent, over) /\ IdsKept(config, meta, pipe, sent)
    BY <1>1, <1>13 DEF WireOK
  <2> HIDE DEF over
  <2>3. meta'[c] = pipe.partial[c].id
    BY <1>3, <1>13, <2>2 DEF IdsKept
  <2>4. Resized(sent, sent', c, NextSize(config, sent[c].size))
    BY <1>5, <1>7 DEF Resized, NextSize
  <2>5. Known(c, sent[c].kind)
    BY DEF Known
  <2>6. FollowedOn(pipe, pipe', sent', over)
    <3>1. k \in Nat /\ c \in 1 .. k /\ sent[c].size \in {0, 1} /\ pipe' = Deliver(pipe, Delta(pipe.partial[c].id, <<NextPart(c)>>))
          /\ <<NextPart(c)>> = <<NextOf(config, c, sent[c].size)>>
      BY <1>1, <1>2, <1>3, <1>4, <1>9, <2>3
    <3> DEFINE s == <<NextPart(c)>>
               more == sent'
    <3>2. Resized(sent, more, c, NextSize(config, sent[c].size)) /\ s = <<NextOf(config, c, sent[c].size)>>
      BY <2>4, <3>1
    <3>3. FollowedOn(pipe, Deliver(pipe, Delta(pipe.partial[c].id, s)), more, over)
      <4> HIDE DEF s, more
      <4> QED BY <1>1, <2>1, <2>2, <2>5, <3>1, <3>2, FollowFragment
    <3> QED BY <3>1, <3>3
  <2>7. /\ Followed(config, pipe', sent', over)
        /\ \A i \in 1 .. Len(pipe.partial) : pipe'.partial[i].id = pipe.partial[i].id
    BY <2>6 DEF FollowedOn, SameIds
  <2>8. Len(pipe.partial) = k
    BY <2>2 DEF Followed, Collects
  <2>9. IdsKept(config, meta', pipe', sent')
    BY <1>7, <1>13, <2>2, <2>7, <2>8 DEF IdsKept
  <2> QED BY <1>12, <2>7, <2>9 DEF over
<1>14. WireOK(config, pipe', sent', said', meta')
  BY <1>1, <1>7, <1>11, <1>13 DEF WireOK
<1> QED BY <1>1, <1>8, <1>10, <1>14, WireStep

-----------------------------------------------------------------------------
\* The ids the vendor gives, or the provider makes up.
LEMMA IdsAre ==
    ASSUME turn \in 1 .. MaxTurns, NEW c \in 1 .. MaxCalls
    PROVE  /\ VendorId(c) \in Ids /\ VendorId(c).n = c
           /\ Id("index", 0, c, "any") \in Ids /\ Id("index", 0, c, "any").n = c
           /\ \A t \in Tools : Id("counter", 0, c, t) \in Ids /\ Id("counter", 0, c, t).n = c
<1>1. turn \in 0 .. MaxTurns /\ 0 \in 0 .. MaxTurns /\ c \in 0 .. MaxCalls
  BY VendorTurnAssumption
<1> QED BY <1>1 DEF VendorId, Id, Ids

\* Each dialect's handlers, one by one.
LEMMA AnthropicStartStep ==
    ASSUME TurnInv, AnthropicStart
    PROVE  TurnInv'
<1>0. phase = "wire" /\ config.stream /\ config.vendor = "anthropic" /\ Len(sent) < MaxCalls /\ Frame
      /\ phase' = phase /\ outcome' = outcome /\ said' = said
  BY DEF AnthropicStart, Says, Streams
<1> DEFINE id == VendorId(Len(sent) + 1)
<1>1. PICK t \in Tools, k \in Kinds :
        /\ sent' = Append(sent, Call(t, k, 0, TRUE))
        /\ meta' = Append(meta, id)
        /\ pipe' = Yields(<<Began(id, t)>>)
  BY DEF AnthropicStart
<1>2. id \in Ids /\ id.n = Len(sent) + 1
  <2>1. turn \in 1 .. MaxTurns /\ Len(sent) \in Nat
    BY <1>0, OnTheWireIs
  <2>2. Len(sent) + 1 \in 1 .. MaxCalls
    BY <1>0, <2>1, VendorTurnAssumption
  <2> QED BY <2>1, <2>2, IdsAre
<1> DEFINE call == Call(t, k, 0, TRUE)
<1>3. call \in Calls /\ call.tool = t /\ call.size = 0 /\ call.open
  BY DEF Call, Calls
<1> HIDE DEF id, call
<1> QED BY <1>0, <1>1, <1>2, <1>3, StartStep DEF call

LEMMA OpenAIStartStep ==
    ASSUME TurnInv, OpenAIStart
    PROVE  TurnInv'
<1>0. phase = "wire" /\ config.stream /\ config.vendor = "openai" /\ Len(sent) < MaxCalls /\ Frame
      /\ phase' = phase /\ outcome' = outcome /\ said' = said
  BY DEF OpenAIStart, Says, Streams
<1> DEFINE n == Len(sent) + 1
           id(named) == IF named THEN VendorId(n) ELSE Id("index", 0, n, "any")
<1>1. PICK t \in Tools, k \in Kinds, named \in BOOLEAN :
        /\ sent' = Append(sent, Call(t, k, 0, FALSE))
        /\ meta' = Append(meta, id(named))
        /\ pipe' = Yields(<<Began(id(named), t)>>)
  BY DEF OpenAIStart
<1>2. id(named) \in Ids /\ id(named).n = Len(sent) + 1
  <2>1. turn \in 1 .. MaxTurns /\ Len(sent) \in Nat
    BY <1>0, OnTheWireIs
  <2>2. Len(sent) + 1 \in 1 .. MaxCalls
    BY <1>0, <2>1, VendorTurnAssumption
  <2> QED BY <2>1, <2>2, IdsAre
<1> DEFINE call == Call(t, k, 0, FALSE)
           i == id(named)
<1>3. call \in Calls /\ call.tool = t /\ call.size = 0
  BY DEF Call, Calls
<1>4. i \in Ids /\ i.n = Len(sent) + 1 /\ sent' = Append(sent, call) /\ meta' = Append(meta, i)
      /\ pipe' = Yields(<<Began(i, call.tool)>>)
  BY <1>1, <1>2, <1>3
<1> HIDE DEF i, id, call
<1> QED BY <1>0, <1>3, <1>4, StartStep

LEMMA AnthropicDeltaStep ==
    ASSUME TurnInv, AnthropicDelta
    PROVE  TurnInv'
<1>0. phase = "wire" /\ config.stream /\ config.vendor = "anthropic" /\ Frame
      /\ phase' = phase /\ outcome' = outcome /\ said' = said /\ meta' = meta
  BY DEF AnthropicDelta, Says, Streams
<1>1. PICK c \in DOMAIN sent :
        /\ sent[c].open /\ ~Whole(sent[c])
        /\ sent' = [sent EXCEPT ![c].size = @ + 1]
        /\ pipe' = Yields(<<Delta(meta[c], <<NextPart(c)>>)>>)
  BY DEF AnthropicDelta
<1>2. c \notin Stopped(config, sent)
  BY <1>0, <1>1 DEF Stopped
<1>3. meta' \in Seq(Ids) /\ Len(meta') = Len(meta)
  BY <1>0, OnTheWireIs
<1> QED BY <1>0, <1>1, <1>2, <1>3, DeltaStep

LEMMA OpenAIDeltaStep ==
    ASSUME TurnInv, OpenAIDelta
    PROVE  TurnInv'
<1>0. phase = "wire" /\ config.stream /\ config.vendor = "openai" /\ Frame
      /\ phase' = phase /\ outcome' = outcome /\ said' = said
  BY DEF OpenAIDelta, Says, Streams
<1>1. PICK c \in DOMAIN sent :
        /\ ~Whole(sent[c])
        /\ sent' = [sent EXCEPT ![c].size = @ + 1]
        /\ meta' = Route(c)
        /\ pipe' = Yields(<<Delta(meta'[c], <<NextPart(c)>>)>>)
  BY DEF OpenAIDelta
<1>2. c \notin Stopped(config, sent)
  BY <1>0 DEF Stopped
<1>3. meta' \in Seq(Ids) /\ Len(meta') = Len(meta) /\ (config.late \/ meta' = meta)
  <2>1. /\ meta \in Seq(Ids) /\ turn \in 1 .. MaxTurns /\ DOMAIN sent = 1 .. Len(sent)
        /\ Len(meta) <= MaxCalls /\ Len(meta) \in Nat /\ WireOK(config, pipe, sent, said, meta)
    BY <1>0, OnTheWireIs
  <2>2. Len(meta) = Len(sent)
    BY <1>0, <2>1 DEF WireOK
  <2>3. c \in 1 .. Len(meta) /\ c \in 1 .. MaxCalls
    BY <2>1, <2>2, VendorTurnAssumption
  <2>4. VendorId(c) \in Ids
    BY <2>1, <2>3, IdsAre
  <2>5. CASE config.late
    <3> DEFINE more == [meta EXCEPT ![c] = VendorId(c)]
    <3>1. more \in Seq(Ids) /\ Len(more) = Len(meta)
      BY <2>1, <2>3, <2>4, ChangedSeq
    <3> QED BY <1>1, <2>5, <3>1 DEF Route
  <2>6. CASE ~config.late
    BY <1>1, <2>1, <2>6 DEF Route
  <2> QED BY <2>5, <2>6
<1> QED BY <1>0, <1>1, <1>2, <1>3, DeltaStep

LEMMA AnthropicStopStep ==
    ASSUME TurnInv, AnthropicStop
    PROVE  TurnInv'
<1>0. phase = "wire" /\ config.stream /\ config.vendor = "anthropic" /\ Frame
      /\ phase' = phase /\ outcome' = outcome /\ said' = said /\ meta' = meta
  BY DEF AnthropicStop, Says, Streams
<1>a. PICK c \in DOMAIN sent :
        /\ sent[c].open
        /\ sent' = [sent EXCEPT ![c].open = FALSE]
        /\ pipe' = Yields(<<Stop(meta[c])>>)
  BY DEF AnthropicStop
<1> DEFINE k == Len(sent)
           x == [sent[c] EXCEPT !.open = FALSE]
<1>1. /\ Typed(pipe, k) /\ said \in Seq(Deltas) /\ Len(said) <= MaxText
      /\ WireOK(config, pipe, sent, said, meta) /\ CallsOK(config, sent)
      /\ k \in Nat /\ IsPipe(pipe) /\ DOMAIN sent = 1 .. k /\ meta \in Seq(Ids) /\ Len(meta) <= MaxCalls
  BY <1>0, OnTheWireIs
<1>2. pipe' = Deliver(pipe, Stop(meta[c]))
  BY <1>a, YieldsOne
<1>3. sent \in Seq(Calls) /\ c \in 1 .. k /\ sent[c] \in Calls
  <2>1. sent \in Seq(Calls) /\ c \in 1 .. k
    BY <1>1 DEF CallsOK
  <2> QED BY <2>1, ElementOfSeq
<1>4. /\ x \in Calls /\ x.tool = sent[c].tool /\ x.kind = sent[c].kind /\ x.size = sent[c].size
      /\ x.open = FALSE
  BY <1>3 DEF Calls
<1>5. sent' = [sent EXCEPT ![c] = x]
  BY <1>a
<1> HIDE DEF x
<1>6. sent' \in Seq(Calls) /\ Len(sent') = k
      /\ \A i \in 1 .. k : sent'[i] = IF i = c THEN x ELSE sent[i]
  BY <1>3, <1>4, <1>5, ChangedSeq
<1>7. CallsOK(config, sent')
  <2>1. \A i \in 1 .. k : /\ sent'[i].kind = "none" => sent'[i].size = 0
                          /\ config.vendor = "gemini" => sent'[i].size # 1
    BY <1>1, <1>4, <1>6 DEF CallsOK
  <2> QED BY <1>1, <1>6, <2>1 DEF CallsOK
<1>8. Typed(pipe', Len(sent'))
  <2>1. \A id : Typed(Deliver(pipe, Stop(id)), k)
    BY <1>1, DeliverTyped
  <2> QED BY <1>2, <1>6, <2>1
<1>9. Shown(config, pipe', said')
  <2>1. SameText(pipe, pipe')
    BY <1>1, <1>2, ToolsKeepText
  <2> QED BY <1>0, <1>1, <2>1, TextKept DEF WireOK
<1>10. ~config.late
  BY <1>0 DEF TurnInv, Types
<1>11. Followed(config, pipe', sent', Stopped(config, sent')) /\ IdsKept(config, meta', pipe', sent')
  <2> DEFINE over == Stopped(config, sent)
             past == Stopped(config, sent')
  <2>1. over \subseteq 1 .. Len(sent) /\ c \in Open(sent, over) /\ past = over \cup {c}
    <3>1. over = {i \in 1 .. k : ~sent[i].open} /\ past = {i \in 1 .. k : ~sent'[i].open}
      BY <1>0, <1>6 DEF Stopped
    <3>2. \A i \in 1 .. k : ~sent'[i].open <=> i = c \/ ~sent[i].open
      BY <1>4, <1>6
    <3> HIDE DEF past, over
    <3>3. past = over \cup {c} /\ over \subseteq 1 .. k /\ c \notin over
      BY <1>3, <1>a, <3>1, <3>2
    <3> QED BY <1>3, <3>3 DEF Open
  <2>2. Followed(config, pipe, sent, over) /\ IdsKept(config, meta, pipe, sent)
    BY <1>1, <1>10 DEF WireOK
  <2> HIDE DEF over, past
  <2>3. meta[c] = pipe.partial[c].id
    BY <1>0, <1>3, <2>2 DEF IdsKept
  <2>4. Resized(sent, sent', c, sent[c].size)
    BY <1>4, <1>6 DEF Resized
  <2>5. FollowedOn(pipe, pipe', sent', past)
    <3> DEFINE more == sent'
    <3>1. Resized(sent, more, c, sent[c].size) /\ k \in Nat
      BY <1>1, <2>4
    <3>2. FollowedOn(pipe, Deliver(pipe, Stop(pipe.partial[c].id)), more, past)
      <4> HIDE DEF more
      <4> QED BY <1>1, <2>1, <2>2, <3>1, FollowEnd
    <3> QED BY <1>2, <2>3, <3>2
  <2>6. /\ Followed(config, pipe', sent', past)
        /\ \A i \in 1 .. Len(pipe.partial) : pipe'.partial[i].id = pipe.partial[i].id
    BY <2>5 DEF FollowedOn, SameIds
  <2>7. Len(pipe.partial) = k
    BY <2>2 DEF Followed, Collects
  <2>8. IdsKept(config, meta', pipe', sent')
    BY <1>0, <1>6, <2>2, <2>6, <2>7 DEF IdsKept
  <2> QED BY <2>6, <2>8 DEF past
<1>12. WireOK(config, pipe', sent', said', meta')
  BY <1>0, <1>1, <1>6, <1>9, <1>11 DEF WireOK
<1> QED BY <1>0, <1>1, <1>7, <1>8, <1>12, WireStep

\* The connection breaks: the events the loop was given are in order, and the
\* error ends them.
LEMMA FailureInOrder ==
    ASSUME NEW st, IsPipe(st), NEW open, NEW over, Tidy(st.events, open, over)
    PROVE  InOrder(Deliver(st, Failure).events)
<1>1. Failure.type = "error" /\ Unlooked(st, Failure)
  BY EventsAre DEF Unlooked
<1>2. Deliver(st, Failure).events = Append(st.events, Failure)
  BY <1>1, DeliverAsIs, ConsumeParts
<1> QED BY <1>1, <1>2, TidyEnd

LEMMA BreaksStep ==
    ASSUME TurnInv, Breaks
    PROVE  TurnInv'
<1>0. /\ phase = "wire" /\ config.stream /\ phase' = "done" /\ outcome' = "error"
      /\ sent' = sent /\ said' = said /\ meta' = meta
      /\ config' = config /\ turn' = turn /\ messages' = messages /\ request' = request
      /\ pipe' = Yields(<<Failure>>)
  BY DEF Breaks, Ends, Frame, Streams
<1>1. /\ Typed(pipe, Len(sent)) /\ IsPipe(pipe) /\ Len(sent) \in Nat
      /\ WireOK(config, pipe, sent, said, meta)
  BY <1>0, OnTheWireIs
<1>2. pipe' = Deliver(pipe, Failure)
  BY <1>0, YieldsOne
<1>3. Typed(pipe', Len(sent'))
  BY <1>0, <1>1, <1>2, DeliverTyped
<1>4. Types'
  BY <1>0, <1>3 DEF TurnInv, Types
<1>5. Wired'
  BY <1>0 DEF Wired
<1>6. ~config.late => InOrder(pipe'.events)
  <2> SUFFICES ASSUME ~config.late PROVE InOrder(pipe'.events)
    OBVIOUS
  <2> DEFINE open == IdsOf(pipe.partial, Open(sent, Stopped(config, sent)))
             over == IdsOf(pipe.partial, Stopped(config, sent))
  <2>1. Tidy(pipe.events, open, over)
    BY <1>1 DEF WireOK, Followed
  <2> HIDE DEF open, over
  <2> QED BY <1>1, <1>2, <2>1, FailureInOrder
<1>7. Ended'
  BY <1>0, <1>6 DEF Ended
<1>8. Histories'
  BY <1>0 DEF TurnInv, Histories
<1> QED BY <1>4, <1>5, <1>7, <1>8 DEF TurnInv

-----------------------------------------------------------------------------
\* All the events of one call, with and without arguments.
LEMMA InARow ==
    ASSUME NEW a, NEW b, NEW c
    PROVE  <<a>> \o <<b>> \o <<c>> = <<a, b, c>> /\ <<a>> \o <<>> \o <<c>> = <<a, c>>
<1> DEFINE S == {a, b, c}
<1>1. <<a>> \in Seq(S) /\ <<b>> \in Seq(S) /\ <<c>> \in Seq(S) /\ <<a, b>> \in Seq(S)
      /\ <<a, b, c>> \in Seq(S)
  OBVIOUS
<1>2. <<a>> \o <<b>> = <<a, b>> /\ <<a>> \o <<>> = <<a>> /\ <<a>> \o <<c>> = <<a, c>>
  BY <1>1, OneAndOne, ConcatEmptySeq
<1>3. <<a, b>> \o <<c>> = Append(<<a, b>>, c)
  <2>1. c \in S
    OBVIOUS
  <2> HIDE DEF S
  <2> QED BY <1>1, <2>1, AppendIsConcat
<1>4. Append(<<a, b>>, c) = <<a, b, c>>
  <2>1. /\ Len(<<a, b>>) = 2 /\ <<a, b>>[1] = a /\ <<a, b>>[2] = b
        /\ Len(<<a, b, c>>) = 3 /\ <<a, b, c>>[1] = a /\ <<a, b, c>>[2] = b /\ <<a, b, c>>[3] = c
    OBVIOUS
  <2>2. /\ Append(<<a, b>>, c) \in Seq(S) /\ Len(Append(<<a, b>>, c)) = 3
        /\ Append(<<a, b>>, c)[1] = a /\ Append(<<a, b>>, c)[2] = b /\ Append(<<a, b>>, c)[3] = c
    <3>1. c \in S
      OBVIOUS
    <3> HIDE DEF S
    <3> QED BY <1>1, <2>1, <3>1, AppendProperties
  <2>3. \A i \in 1 .. 3 : Append(<<a, b>>, c)[i] = <<a, b, c>>[i]
    <3>1. \A i \in 1 .. 3 : i = 1 \/ i = 2 \/ i = 3
      OBVIOUS
    <3> QED BY <2>1, <2>2, <3>1
  <2> HIDE DEF S
  <2> QED BY <1>1, <2>1, <2>2, <2>3, SeqEqual
<1> QED BY <1>2, <1>3, <1>4, Zenon

\* Text that two steps leave alone.
LEMMA Transitive ==
    ASSUME NEW a, NEW b, NEW c, SameText(a, b), SameText(b, c)
    PROVE  SameText(a, c)
BY DEF SameText

\* A call that comes whole, is started, given what it carries and stopped.
Given(st, id, t, kind, n) ==
    IF kind = "none" THEN Deliver(st, Began(id, t))
    ELSE Deliver(Deliver(st, Began(id, t)), Delta(id, <<Piece(n, "whole")>>))
CameWhole(st, d, cs, n) ==
    Typed(d, n) /\ SameText(st, d) /\ Followed(config, d, cs, 1 .. n)

\* Gemini's call, from its start to its stop.
LEMMA WholeCall ==
    ASSUME NEW k \in Nat, NEW st, Typed(st, k), NEW cs \in Seq(Calls), Len(cs) = k,
           config.vendor = "gemini", Followed(config, st, cs, 1 .. k),
           NEW t \in Tools, NEW kind \in Kinds, NEW id \in Ids, id.n = k + 1,
           NEW more, more = Append(cs, Call(t, kind, IF kind = "none" THEN 0 ELSE 2, FALSE))
    PROVE  CameWhole(st, Deliver(Given(st, id, t, kind, k + 1), Stop(id)), more, k + 1)
<1> DEFINE a == Deliver(st, Began(id, t))
           b == Given(st, id, t, kind, k + 1)
           d == Deliver(b, Stop(id))
           n == k + 1
           size == IF kind = "none" THEN 0 ELSE 2
           call == Call(t, kind, 0, FALSE)
           full == Call(t, kind, size, FALSE)
           first == Append(cs, call)
           s == <<Piece(n, "whole")>>
<1>1. n \in Nat /\ k <= n /\ n \in 1 .. n /\ 1 .. n = 1 .. k \cup {n} /\ n \notin 1 .. k
  OBVIOUS
<1>2. /\ call.tool = t /\ call.kind = kind /\ call.size = 0 /\ call \in Calls
      /\ full.tool = t /\ full.kind = kind /\ full.size = size /\ full \in Calls
  BY DEF Call, Calls
<1>3. /\ Len(first) = n /\ first[n] = call /\ \A i \in 1 .. k : first[i] = cs[i]
      /\ Len(more) = n /\ more[n] = full /\ \A i \in 1 .. k : more[i] = cs[i]
  <2>1. more = Append(cs, full) /\ first = Append(cs, call)
    OBVIOUS
  <2> HIDE DEF first, call, full
  <2>2. Len(first) = n /\ first[n] = call /\ \A i \in 1 .. k : first[i] = cs[i]
    BY <1>2, <2>1, AppendProperties
  <2>3. Len(more) = n /\ more[n] = full /\ \A i \in 1 .. k : more[i] = cs[i]
    <3>1. /\ Len(Append(cs, full)) = n /\ Append(cs, full)[n] = full
          /\ \A i \in 1 .. k : Append(cs, full)[i] = cs[i]
      BY <1>2, AppendProperties
    <3> QED BY <2>1, <3>1, Zenon
  <2> QED BY <2>2, <2>3
<1>4. s \in Seq(Pieces(n)) /\ s # <<>>
  <2>1. Piece(n, "whole") \in Pieces(n)
    BY <1>1 DEF Pieces, Piece, Parts
  <2> QED BY <2>1
<1>5. Typed(a, n) /\ SameText(st, a) /\ IsPipe(a)
  <2>1. Typed(a, k) /\ SameText(st, a)
    <3>1. IsPipe(st)
      BY DEF Typed
    <3> QED BY <3>1, DeliverTyped, ToolsKeepText
  <2> QED BY <1>1, <2>1, TypedMore DEF Typed
<1>6. StartedAs(st, a, first, 1 .. k, id)
  <2>1. IsList(cs) /\ 1 .. k \subseteq 1 .. Len(cs)
    BY ListIsSeq
  <2> HIDE DEF call
  <2> QED BY <1>2, <2>1, FollowStart
<1>7. Followed(config, a, first, 1 .. k) /\ a.partial[n].id = id
  BY <1>3, <1>6 DEF StartedAs, FollowedOn
<1>8. Len(a.partial) = n
  BY <1>3, <1>7 DEF Followed, Collects
<1> HIDE DEF first, call, full
<1>9. Resized(first, more, n, size)
  <2> HIDE DEF size, n
  <2>1. ASSUME NEW i \in 1 .. n
        PROVE  /\ more[i].tool = first[i].tool /\ more[i].kind = first[i].kind
               /\ more[i].size = IF i = n THEN size ELSE first[i].size
    <3>1. CASE i = n
      BY <1>2, <1>3, <3>1
    <3>2. CASE i \in 1 .. k
      BY <1>1, <1>3, <3>2
    <3> QED BY <1>1, <3>1, <3>2
  <2> QED BY <1>3, <2>1 DEF Resized
<1>10. n \in Open(first, 1 .. k) /\ n \in Open(more, 1 .. k)
  BY <1>1, <1>3 DEF Open
<1>11. Typed(b, n) /\ IsPipe(b) /\ SameText(st, b) /\ b.partial[n].id = id /\ Followed(config, b, more, 1 .. k)
  <2>1. CASE kind = "none"
    <3>1. more = first /\ b = a
      BY <2>1 DEF first, call, Given
    <3> QED BY <1>5, <1>7, <2>1, <3>1
  <2>2. CASE kind # "none"
    <3>1. b = Deliver(a, Delta(id, s))
      BY <2>2 DEF Given
    <3>2. Typed(b, n) /\ SameText(a, b)
      <4> HIDE DEF a, b, n, s
      <4>1. Typed(Deliver(a, Delta(id, s)), n)
        BY <1>1, <1>4, <1>5, DeliverTyped
      <4>2. SameText(a, Deliver(a, Delta(id, s)))
        BY <1>5, ToolsKeepText
      <4> QED BY <3>1, <4>1, <4>2
    <3>3. first[n].size = 0 /\ first[n].kind = kind /\ size = 2 /\ NextSize(config, 0) = 2
          /\ Known(n, kind) /\ s = <<NextOf(config, n, 0)>>
      BY <1>2, <1>3, <2>2 DEF NextSize, Known, NextOf
    <3>4. 1 .. k \subseteq 1 .. Len(first)
      BY <1>1, <1>3
    <3> HIDE DEF n, s, size
    <3>5. FollowedOn(a, Deliver(a, Delta(a.partial[n].id, s)), more, 1 .. k)
      <4>1. /\ first[n].size \in {0, 1} /\ Known(n, first[n].kind)
            /\ Resized(first, more, n, NextSize(config, first[n].size))
            /\ s = <<NextOf(config, n, first[n].size)>>
        BY <1>9, <3>3
      <4> DEFINE over == 1 .. k
      <4> HIDE DEF over
      <4>2. Followed(config, a, first, over) /\ n \in Open(first, over) /\ over \subseteq 1 .. Len(first)
        BY <1>7, <1>10, <3>4 DEF over
      <4>3. FollowedOn(a, Deliver(a, Delta(a.partial[n].id, s)), more, over)
        BY <1>1, <1>5, <3>3, <4>1, <4>2, FollowFragment
      <4> QED BY <4>3 DEF over
    <3>6. FollowedOn(a, b, more, 1 .. k)
      BY <1>7, <3>1, <3>5
    <3>7. b.partial[n].id = a.partial[n].id
      BY <1>1, <1>8, <3>6 DEF FollowedOn, SameIds
    <3> QED BY <1>5, <1>7, <3>2, <3>6, <3>7, Transitive DEF FollowedOn, Typed
  <2> QED BY <2>1, <2>2
<1>12. Typed(d, n) /\ SameText(st, d)
  BY <1>1, <1>11, DeliverTyped, ToolsKeepText, Transitive
<1>13. Followed(config, d, more, 1 .. n)
  <2> DEFINE over == 1 .. k
             past == 1 .. n
  <2>1. past = over \cup {n} /\ over \subseteq 1 .. Len(more)
    BY <1>1, <1>3
  <2>2. Resized(more, more, n, more[n].size)
    BY DEF Resized
  <2>3. Followed(config, b, more, over) /\ n \in Open(more, over)
    BY <1>10, <1>11
  <2> HIDE DEF over, past, n
  <2>4. FollowedOn(b, Deliver(b, Stop(b.partial[n].id)), more, past)
    BY <1>1, <1>11, <2>1, <2>2, <2>3, FollowEnd
  <2> QED BY <1>11, <2>4 DEF FollowedOn, past
<1> QED BY <1>12, <1>13 DEF CameWhole

LEMMA GeminiCallStep ==
    ASSUME TurnInv, GeminiCall
    PROVE  TurnInv'
<1>0. /\ phase = "wire" /\ config.stream /\ config.vendor = "gemini" /\ Len(sent) < MaxCalls /\ Frame
      /\ phase' = phase /\ outcome' = outcome /\ said' = said /\ meta' = meta
  BY DEF GeminiCall, Says, Streams
<1> DEFINE k == Len(sent)
           c == k + 1
           id(named, t) == IF named THEN VendorId(c) ELSE Id("counter", 0, c, t)
           args(i, kind) == IF kind = "none" THEN <<>> ELSE <<Delta(i, <<Piece(c, "whole")>>)>>
<1>1. PICK t \in Tools, kind \in Kinds, named \in BOOLEAN :
        /\ sent' = Append(sent, Call(t, kind, IF kind = "none" THEN 0 ELSE 2, FALSE))
        /\ pipe' = Yields(<<Began(id(named, t), t)>> \o args(id(named, t), kind) \o <<Stop(id(named, t))>>)
  BY DEF GeminiCall, Counter
<1>2. /\ Typed(pipe, k) /\ said \in Seq(Deltas) /\ Len(said) <= MaxText
      /\ WireOK(config, pipe, sent, said, meta) /\ CallsOK(config, sent)
      /\ k \in Nat /\ IsPipe(pipe) /\ meta \in Seq(Ids) /\ Len(meta) <= MaxCalls
      /\ turn \in 1 .. MaxTurns
  BY <1>0, OnTheWireIs
<1> DEFINE i == id(named, t)
           call == Call(t, kind, IF kind = "none" THEN 0 ELSE 2, FALSE)
<1>3. i \in Ids /\ i.n = k + 1
  <2>1. c \in 1 .. MaxCalls
    BY <1>0, <1>2, VendorTurnAssumption
  <2> HIDE DEF c
  <2>2. VendorId(c) \in Ids /\ VendorId(c).n = c /\ Id("counter", 0, c, t) \in Ids
        /\ Id("counter", 0, c, t).n = c
    BY <1>2, <2>1, IdsAre
  <2> QED BY <2>2 DEF c
<1> HIDE DEF id
<1>4. pipe' = Deliver(Given(pipe, i, t, kind, c), Stop(i))
  <2>1. CASE kind = "none"
    <3>1. pipe' = Yields(<<Began(i, t), Stop(i)>>)
      BY <1>1, <2>1, InARow
    <3> QED BY <2>1, <3>1, YieldsTwo DEF Given
  <2>2. CASE kind # "none"
    <3> DEFINE e == Delta(i, <<Piece(c, "whole")>>)
    <3>1. pipe' = Yields(<<Began(i, t), e, Stop(i)>>)
      BY <1>1, <2>2, InARow
    <3>2. pipe' = Deliver(Deliver(Deliver(pipe, Began(i, t)), e), Stop(i))
      BY <3>1, YieldsThree
    <3> QED BY <2>2, <3>2 DEF Given
  <2> QED BY <2>1, <2>2
<1> HIDE DEF i
<1>5. sent \in Seq(Calls) /\ call \in Calls /\ (kind = "none" => call.size = 0) /\ call.size # 1
      /\ call.kind = kind
  BY <1>2 DEF CallsOK, Calls, Call
<1>6. sent' = Append(sent, call)
  BY <1>1
<1>7. ~config.late
  BY <1>0 DEF TurnInv, Types
<1>8. Stopped(config, sent) = 1 .. k
  BY <1>0 DEF Stopped
<1>9. Typed(pipe', k + 1) /\ SameText(pipe, pipe') /\ Followed(config, pipe', sent', 1 .. k + 1)
  <2>1. Followed(config, pipe, sent, 1 .. k)
    BY <1>2, <1>7, <1>8 DEF WireOK
  <2> DEFINE more == sent'
  <2>2. more = Append(sent, Call(t, kind, IF kind = "none" THEN 0 ELSE 2, FALSE)) /\ k = Len(sent)
    BY <1>1
  <2> HIDE DEF more, k, call
  <2>3. CameWhole(pipe, Deliver(Given(pipe, i, t, kind, k + 1), Stop(i)), more, k + 1)
    BY <1>0, <1>2, <1>3, <1>5, <2>1, <2>2, WholeCall
  <2> QED BY <1>4, <2>3 DEF CameWhole, more, k
<1> HIDE DEF call
<1>10. sent' \in Seq(Calls) /\ Len(sent') = k + 1 /\ sent'[k + 1] = call
       /\ \A j \in 1 .. k : sent'[j] = sent[j]
  BY <1>5, <1>6, AppendProperties
<1>11. CallsOK(config, sent')
  <2>1. k + 1 <= MaxCalls
    BY <1>0, <1>2, VendorTurnAssumption
  <2>2. \A j \in 1 .. k + 1 : j \in 1 .. k \/ j = k + 1
    BY <1>2
  <2>3. \A j \in 1 .. k + 1 : /\ sent'[j].kind = "none" => sent'[j].size = 0
                              /\ config.vendor = "gemini" => sent'[j].size # 1
    BY <1>2, <1>5, <1>10, <2>2 DEF CallsOK
  <2> QED BY <1>10, <2>1, <2>3 DEF CallsOK
<1>12. Shown(config, pipe', said')
  BY <1>0, <1>2, <1>9, TextKept DEF WireOK
<1>13. WireOK(config, pipe', sent', said', meta')
  <2>1. meta' = <<>>
    BY <1>0, <1>2 DEF WireOK
  <2>2. Stopped(config, sent') = 1 .. k + 1
    BY <1>0, <1>10 DEF Stopped
  <2>3. IdsKept(config, meta', pipe', sent')
    BY <1>0 DEF IdsKept
  <2> QED BY <1>0, <1>9, <1>12, <2>1, <2>2, <2>3 DEF WireOK
<1>14. Typed(pipe', Len(sent'))
  BY <1>9, <1>10
<1> QED BY <1>0, <1>2, <1>11, <1>13, <1>14, WireStep

-----------------------------------------------------------------------------
(* What is run in the end.                                                 *)

\* What json.loads makes of the fragments of a call that came whole.
LEMMA ArgsAre ==
    ASSUME NEW cfg, NEW cs, NEW c \in DOMAIN cs
    PROVE  /\ ArgsOf(cfg, cs, <<Piece(c, "real")>>) = [call |-> c, real |-> TRUE]
           /\ ArgsOf(cfg, cs, <<Piece(c, "whole")>>).call = c
           /\ ~cfg.masked \/ cs[c].kind # "private" =>
                /\ ArgsOf(cfg, cs, <<Piece(c, "whole")>>) = [call |-> c, real |-> TRUE]
                /\ ArgsOf(cfg, cs, <<Piece(c, "head"), Piece(c, "tail")>>) = [call |-> c, real |-> TRUE]
<1>1. /\ <<Piece(c, "real")>>[1] = Piece(c, "real") /\ <<Piece(c, "whole")>>[1] = Piece(c, "whole")
      /\ <<Piece(c, "head"), Piece(c, "tail")>>[1] = Piece(c, "head")
  OBVIOUS
<1>2. \A part : Piece(c, part).call = c /\ Piece(c, part).part = part
  BY DEF Piece
<1>3. ArgsOf(cfg, cs, <<Piece(c, "real")>>) = [call |-> c, real |-> TRUE]
  BY <1>1, <1>2 DEF ArgsOf
<1>4. ArgsOf(cfg, cs, <<Piece(c, "whole")>>).call = c
  BY <1>1, <1>2 DEF ArgsOf
<1>5. ASSUME ~cfg.masked \/ cs[c].kind # "private"
      PROVE  /\ ArgsOf(cfg, cs, <<Piece(c, "whole")>>) = [call |-> c, real |-> TRUE]
             /\ ArgsOf(cfg, cs, <<Piece(c, "head"), Piece(c, "tail")>>) = [call |-> c, real |-> TRUE]
  <2> DEFINE R(part) == part = "real" \/ ~cfg.masked \/ cs[c].kind # "private"
  <2>1. \A part : R(part) = TRUE
    BY <1>5
  <2> HIDE DEF R
  <2>2. ArgsOf(cfg, cs, <<Piece(c, "whole")>>) = [call |-> c, real |-> R("whole")]
    BY <1>1, <1>2 DEF ArgsOf, R
  <2>3. ArgsOf(cfg, cs, <<Piece(c, "head"), Piece(c, "tail")>>) = [call |-> c, real |-> R("head")]
    BY <1>1, <1>2 DEF ArgsOf, R
  <2> QED BY <2>1, <2>2, <2>3
<1> QED BY <1>3, <1>4, <1>5

\* Of a call cut short nothing can be parsed.
LEMMA NothingParsed ==
    ASSUME NEW cfg, NEW cs, NEW c
    PROVE  ArgsOf(cfg, cs, <<Piece(c, "head")>>) = NoArgs
<1>1. /\ \A x : Len(<<x>>) = 1 /\ <<x>>[1] = x
      /\ \A x, y : Len(<<x, y>>) = 2
  OBVIOUS
<1>2. ASSUME NEW d
      PROVE  <<Piece(c, "head")>> \notin {<<Piece(d, "head"), Piece(d, "tail")>>, <<Piece(d, "whole")>>,
                                           <<Piece(d, "real")>>}
  <2>1. Piece(c, "head") # Piece(d, "whole") /\ Piece(c, "head") # Piece(d, "real")
    BY DEF Piece
  <2> QED BY <1>1, <2>1
<1> QED BY <1>2 DEF ArgsOf

\* Nor of no fragment at all.
LEMMA NothingParsedOfNothing == \A cfg, cs : ArgsOf(cfg, cs, <<>>) = NoArgs
<1>1. Len(<<>>) = 0 /\ (\A x : Len(<<x>>) = 1) /\ \A x, y : Len(<<x, y>>) = 2
  OBVIOUS
<1>2. \A d : <<>> \notin {<<Piece(d, "head"), Piece(d, "tail")>>, <<Piece(d, "whole")>>, <<Piece(d, "real")>>}
  BY <1>1
<1> QED BY <1>2 DEF ArgsOf

\* The calls that were collected are those that were sent.
LEMMA RunsThem ==
    ASSUME NEW cfg, cfg.stream, NEW cs, CallsOK(cfg, cs), NEW p, NEW over,
           1 .. Len(cs) \subseteq over, Collects(cfg, p, cs, over)
    PROVE  RanAs(cfg, cs, p)
<1>1. DOMAIN cs = 1 .. Len(cs) /\ cs \in Seq(Calls)
  BY LenProperties DEF CallsOK
<1>2. ASSUME NEW c \in DOMAIN cs
      PROVE  /\ p[c].name = cs[c].tool
             /\ LET got == ArgsOf(cfg, cs, p[c].buf)
                IN  \/ got = MeantBy(cs, c)
                    \/ (cfg.vendor = "gemini" /\ cfg.stream /\ cfg.masked) /\ got.call = MeantBy(cs, c).call
  <2> DEFINE k == cs[c].kind
             n == cs[c].size
  <2>1. p[c].name = cs[c].tool /\ p[c].buf = Collected(cfg, c, k, n, over) /\ c \in over
    BY <1>1 DEF Collects
  <2>2. n \in 0 .. 2 /\ (k = "none" => n = 0) /\ (cfg.vendor = "gemini" => n # 1)
    <3>1. cs[c] \in Calls
      BY <1>1, ElementOfSeq
    <3> QED BY <1>1, <3>1 DEF CallsOK, Calls
  <2>3. MeantBy(cs, c) = IF n = 2 THEN [call |-> c, real |-> TRUE] ELSE NoArgs
    BY <2>2 DEF MeantBy, Whole
  <2> DEFINE got == ArgsOf(cfg, cs, p[c].buf)
             meant == MeantBy(cs, c)
  <2>4. CASE n = 0
    <3>1. p[c].buf = <<>> /\ meant = NoArgs
      BY <2>1, <2>3, <2>4 DEF Collected, Fragments
    <3>2. got = meant
      BY <3>1, NothingParsedOfNothing
    <3> QED BY <2>1, <3>2
  <2>5. CASE n = 1
    <3>1. p[c].buf = <<Piece(c, "head")>> /\ meant = NoArgs
      BY <2>1, <2>2, <2>3, <2>5 DEF Collected, Fragments
    <3>2. got = meant
      BY <3>1, NothingParsed
    <3> QED BY <2>1, <3>2
  <2>6. CASE n = 2 /\ Holds(cfg, k)
    <3>1. p[c].buf = <<Piece(c, "real")>> /\ meant = [call |-> c, real |-> TRUE]
      BY <2>1, <2>3, <2>6 DEF Collected
    <3>2. ArgsOf(cfg, cs, <<Piece(c, "real")>>) = [call |-> c, real |-> TRUE]
      BY ArgsAre
    <3>3. got = meant
      BY <3>1, <3>2, Zenon
    <3> QED BY <2>1, <3>3
  <2>7. CASE n = 2 /\ ~Holds(cfg, k) /\ cfg.vendor # "gemini"
    <3>1. p[c].buf = <<Piece(c, "head"), Piece(c, "tail")>> /\ meant = [call |-> c, real |-> TRUE]
      BY <2>1, <2>3, <2>7 DEF Collected, Fragments
    <3>2. ~cfg.masked \/ cs[c].kind # "private"
      BY <2>7 DEF Holds
    <3>3. ArgsOf(cfg, cs, <<Piece(c, "head"), Piece(c, "tail")>>) = [call |-> c, real |-> TRUE]
      BY <3>2, ArgsAre
    <3>4. got = meant
      BY <3>1, <3>3, Zenon
    <3> QED BY <2>1, <3>4
  <2>8. CASE n = 2 /\ cfg.vendor = "gemini"
    <3>1. p[c].buf = <<Piece(c, "whole")>> /\ meant = [call |-> c, real |-> TRUE]
      BY <2>1, <2>3, <2>8 DEF Collected, Fragments, Holds
    <3>2. CASE cfg.masked
      <4>1. ArgsOf(cfg, cs, <<Piece(c, "whole")>>).call = c
        BY ArgsAre
      <4>2. got.call = c
        BY <3>1, <4>1, Zenon
      <4>3. meant.call = c
        BY <3>1
      <4> QED BY <2>1, <2>8, <3>2, <4>2, <4>3
    <3>3. CASE ~cfg.masked
      <4>1. ArgsOf(cfg, cs, <<Piece(c, "whole")>>) = [call |-> c, real |-> TRUE]
        BY <3>3, ArgsAre
      <4>2. got = meant
        BY <3>1, <4>1, Zenon
      <4> QED BY <2>1, <4>2
    <3> QED BY <3>2, <3>3
  <2> QED BY <2>2, <2>4, <2>5, <2>6, <2>7, <2>8
<1>3. Len(p) = Len(cs)
  BY DEF Collects
<1> QED BY <1>2, <1>3 DEF RanAs

-----------------------------------------------------------------------------
(* The turn's end.                                                         *)

\* All calls are stopped in st, and what is held back is the text's.
AtTheEnd(st) ==
    /\ Typed(st, Len(sent)) /\ Shown(config, st, said)
    /\ ~config.late => Followed(config, st, sent, 1 .. Len(sent))

\* OpenAI's calls are stopped one after the other, when the turn is over.
StoppedTo(st, i) ==
    /\ Typed(st, Len(sent)) /\ Shown(config, st, said)
    /\ ~config.late => Followed(config, st, sent, 1 .. i) /\ IdsKept(config, meta, st, sent)

\* One of these stops.
LEMMA OneStopMore ==
    ASSUME Len(sent) \in Nat, config.vendor = "openai", Len(meta) = Len(sent),
           NEW i \in 1 .. Len(sent), NEW st, StoppedTo(st, i - 1)
    PROVE  StoppedTo(Deliver(st, Stop(meta[i])), i)
<1> DEFINE d == Deliver(st, Stop(meta[i]))
           k == Len(sent)
           over == 1 .. i - 1
           past == 1 .. i
<1>1. Typed(st, k) /\ Shown(config, st, said) /\ IsPipe(st)
  BY DEF StoppedTo, Typed
<1>2. Typed(d, k)
  <2>1. \A id : Typed(Deliver(st, Stop(id)), k)
    BY <1>1, DeliverTyped
  <2> QED BY <2>1
<1>3. Shown(config, d, said)
  <2>1. SameText(st, d)
    BY <1>1, ToolsKeepText
  <2> QED BY <1>1, <2>1, TextKept
<1>4. ASSUME ~config.late
      PROVE  Followed(config, d, sent, past) /\ IdsKept(config, meta, d, sent)
  <2>1. Followed(config, st, sent, over) /\ IdsKept(config, meta, st, sent)
    BY <1>4 DEF StoppedTo
  <2>2. past = over \cup {i} /\ over \subseteq 1 .. Len(sent) /\ i \in Open(sent, over)
    BY DEF Open
  <2>3. meta[i] = st.partial[i].id
    BY <2>1 DEF IdsKept
  <2>4. Resized(sent, sent, i, sent[i].size)
    BY DEF Resized
  <2> HIDE DEF over, past
  <2>5. FollowedOn(st, Deliver(st, Stop(st.partial[i].id)), sent, past)
    BY <1>1, <2>1, <2>2, <2>4, FollowEnd
  <2>6. FollowedOn(st, d, sent, past)
    BY <2>3, <2>5
  <2> HIDE DEF d
  <2>7. Len(st.partial) = k
    BY <2>1 DEF Followed, Collects
  <2>8. IdsKept(config, meta, d, sent)
    BY <2>1, <2>6, <2>7 DEF IdsKept, FollowedOn, SameIds
  <2> QED BY <2>6, <2>8 DEF FollowedOn
<1> HIDE DEF d
<1>5. StoppedTo(d, i)
  BY <1>2, <1>3, <1>4 DEF StoppedTo
<1> QED BY <1>5 DEF d

\* After the stops, if there are any, comes the event that completes the turn.
LEMMA FinishEnds ==
    ASSUME TurnInv, phase = "wire", config.stream, \A c \in DOMAIN sent : ~sent[c].open,
           NEW reason, pipe' = Yields(Stops \o <<Complete(reason)>>)
    PROVE  \E st : AtTheEnd(st) /\ pipe' = Deliver(st, Complete(reason))
<1> DEFINE k == Len(sent)
           last == Complete(reason)
<1>1. /\ Typed(pipe, k) /\ WireOK(config, pipe, sent, said, meta) /\ k \in Nat
      /\ DOMAIN sent = 1 .. k /\ meta \in Seq(Ids) /\ DOMAIN meta = 1 .. Len(meta) /\ config \in Configs
  BY OnTheWireIs
<1>2. CASE config.vendor # "openai"
  <2>1. Stops \o <<last>> = <<last>>
    <3>1. Stops = <<>> /\ <<last>> \in Seq({last})
      BY <1>2 DEF Stops
    <3> HIDE DEF last
    <3> QED BY <3>1, ConcatEmptySeq
  <2>2. pipe' = Deliver(pipe, last)
    BY <2>1, YieldsOne
  <2>3. Stopped(config, sent) = 1 .. k
    BY <1>1, <1>2 DEF Stopped, Configs
  <2>4. AtTheEnd(pipe)
    BY <1>1, <2>3 DEF AtTheEnd, WireOK
  <2> QED BY <2>2, <2>4
<1>3. CASE config.vendor = "openai"
  <2> DEFINE es == Stops \o <<last>>
             E == {Stop(meta[c]) : c \in DOMAIN meta} \cup {last}
  <2>1. Len(meta) = k
    BY <1>1, <1>3 DEF WireOK
  <2>2. Stops \in Seq(E) /\ Len(Stops) = k /\ \A i \in 1 .. k : Stops[i] = Stop(meta[i])
    <3> DEFINE f == [c \in 1 .. k |-> Stop(meta[c])]
    <3>1. Stops = f
      BY <1>1, <1>3, <2>1 DEF Stops
    <3>2. f \in [1 .. k -> E]
      BY <1>1, <2>1
    <3>3. f \in Seq(E) /\ Len(f) = k
      <4> HIDE DEF E, f
      <4>1. f \in Seq(E)
        BY <1>1, <3>2, SeqDef
      <4> QED BY <1>1, <3>2, <4>1, LenProperties
    <3> QED BY <3>1, <3>3
  <2>3. /\ Len(es) = k + 1 /\ es[k + 1] = last /\ \A i \in 1 .. k : es[i] = Stop(meta[i])
    <3>1. last \in E /\ es = Append(Stops, last)
      <4>1. last \in E
        OBVIOUS
      <4> HIDE DEF E, last
      <4> QED BY <2>2, <4>1, AppendIsConcat
    <3> HIDE DEF E, last, es
    <3> QED BY <2>2, <3>1, AppendProperties
  <2> HIDE DEF es, last
  <2>4. PICK f : Runs(es, f)
    <3>1. Len(es) \in Nat
      BY <1>1, <2>3
    <3> QED BY <3>1, YieldsRuns
  <2>5. /\ f[0] = pipe /\ \A i \in 1 .. k : f[i] = Deliver(f[i - 1], Stop(meta[i]))
        /\ Yields(es) = Deliver(f[k], last)
    <3>1. k + 1 - 1 = k /\ k + 1 \in 1 .. k + 1 /\ \A i \in 1 .. k : i \in 1 .. k + 1
      BY <1>1
    <3> QED BY <2>3, <2>4, <3>1 DEF Runs
  <2>6. StoppedTo(f[0], 0)
    <3>1. 1 .. 0 = {} /\ Stopped(config, sent) = {}
      BY <1>3 DEF Stopped
    <3> QED BY <1>1, <2>5, <3>1 DEF StoppedTo, WireOK
  <2>7. StoppedTo(f[k], k)
    <3> DEFINE Bad == {i \in Nat : i <= k /\ ~StoppedTo(f[i], i)}
    <3> SUFFICES ASSUME Bad # {} PROVE FALSE
      BY <1>1
    <3>1. PICK i \in Bad : \A j \in Bad : i <= j
      <4>1. Bad \in SUBSET Nat
        OBVIOUS
      <4> HIDE DEF Bad
      <4> QED BY <4>1, LeastNumber
    <3>2. i # 0
      BY <2>6, <3>1
    <3>3. i \in 1 .. k /\ i - 1 \in Nat /\ i - 1 <= k /\ ~(i <= i - 1)
      BY <1>1, <3>1, <3>2
    <3>4. StoppedTo(f[i - 1], i - 1)
      BY <3>1, <3>3
    <3>5. StoppedTo(f[i], i)
      BY <1>1, <1>3, <2>1, <2>5, <3>3, <3>4, OneStopMore
    <3> QED BY <3>1, <3>5
  <2>8. AtTheEnd(f[k])
    BY <2>7 DEF StoppedTo, AtTheEnd
  <2>9. pipe' = Deliver(f[k], last)
    BY <2>5 DEF es, last
  <2> QED BY <2>8, <2>9 DEF last
<1> QED BY <1>2, <1>3

\* The end of a stream.
LEMMA FinishStep ==
    ASSUME TurnInv, Finish
    PROVE  TurnInv'
<1>0. /\ phase = "wire" /\ config.stream /\ (\A c \in DOMAIN sent : ~sent[c].open)
      /\ sent' = sent /\ said' = said /\ meta' = meta
      /\ config' = config /\ turn' = turn /\ messages' = messages /\ request' = request
  BY DEF Finish, Frame, Streams
<1>1. PICK reason :
        pipe' = Yields(Stops \o <<Complete(Reported(reason))>>) /\ Decide(Reported(reason))
  BY DEF Finish
<1> DEFINE r == Reported(reason)
<1> HIDE DEF r
<1>2. PICK st : AtTheEnd(st) /\ pipe' = Deliver(st, Complete(r))
  BY <1>0, <1>1, FinishEnds DEF r
<1>3. /\ Typed(st, Len(sent)) /\ Len(sent) \in Nat /\ Told(st, said) /\ CallsOK(config, sent)
      /\ outcome = "none"
  BY <1>0, <1>2, OnTheWireIs, ShownIs DEF AtTheEnd
<1>4. /\ pipe'.shown = Readable(said) /\ pipe'.partial = st.partial
      /\ \A over : Tidy(st.events, {}, over) => InOrder(pipe'.events)
  BY <1>2, <1>3, EndIsTold
<1>5. Typed(pipe', Len(sent'))
  <2>1. Typed(Deliver(st, Complete(r)), Len(sent))
    BY <1>3, DeliverTyped
  <2> QED BY <1>0, <1>2, <2>1
<1>6. \/ phase' = "done" /\ outcome' = "text"
      \/ phase' = "dispatch" /\ outcome' = outcome
  BY <1>1 DEF Decide, Ends
<1>7. Types'
  BY <1>0, <1>3, <1>5, <1>6 DEF TurnInv, Types
<1>8. Wired'
  BY <1>3, <1>6 DEF Wired
<1>9. pipe'.shown = ReadAs(config, said)
  BY <1>4, ReadAsIs
<1>10. ASSUME ~config.late
       PROVE  InOrder(pipe'.events) /\ RanAs(config, sent, pipe'.partial)
  <2> DEFINE over == 1 .. Len(sent)
  <2>1. Followed(config, st, sent, over)
    BY <1>2, <1>10 DEF AtTheEnd
  <2>2. Open(sent, over) = {} /\ IdsOf(st.partial, {}) = {}
    BY DEF Open, IdsOf
  <2> HIDE DEF over
  <2>3. InOrder(pipe'.events)
    BY <1>4, <2>1, <2>2 DEF Followed
  <2>4. RanAs(config, sent, st.partial)
    <3>1. 1 .. Len(sent) \subseteq over
      BY DEF over
    <3> QED BY <1>0, <1>3, <2>1, <3>1, RunsThem DEF Followed
  <2> QED BY <1>4, <2>3, <2>4
<1>11. Ended'
  BY <1>0, <1>9, <1>10 DEF Ended
<1>12. Histories'
  BY <1>0 DEF TurnInv, Histories
<1> QED BY <1>7, <1>8, <1>11, <1>12 DEF TurnInv

-----------------------------------------------------------------------------
(* The request, the whole answer, and the history.                         *)

\* The roles change on the way to Gemini, the pairs do not.
LEMMA OnTheWireSays ==
    ASSUME config \in Configs, messages \in Seq(Sayings), Paired(config, messages)
    PROVE  OnTheWire \in Seq(Sayings) /\ Paired(config, OnTheWire)
<1>1. CASE config.vendor # "gemini"
  BY <1>1 DEF OnTheWire
<1>2. CASE config.vendor = "gemini"
  <2> DEFINE n == Len(messages)
             R(i) == GeminiRole(messages[i])
             out == [i \in 1 .. n |-> R(i)]
  <2>1. n \in Nat /\ DOMAIN messages = 1 .. n /\ \A i \in 1 .. n : messages[i] \in Sayings
    BY LenProperties, ElementOfSeq
  <2>2. OnTheWire = out
    BY <1>2, <2>1 DEF OnTheWire
  <2>3. \A i \in 1 .. n : R(i) \in Sayings /\ R(i).of = messages[i].of /\ R(i).refs = messages[i].refs
    <3>1. \A m \in Sayings : /\ GeminiRole(m) \in Sayings /\ GeminiRole(m).of = m.of
                             /\ GeminiRole(m).refs = m.refs
      BY DEF GeminiRole, Sayings
    <3> QED BY <2>1, <3>1
  <2> HIDE DEF R
  <2>4. out \in Seq(Sayings)
    <3> HIDE DEF n
    <3> QED BY <2>1, <2>3, IsASeq
  <2>5. DOMAIN out = 1 .. n /\ \A i \in 1 .. n : out[i].of = messages[i].of /\ out[i].refs = messages[i].refs
    BY <2>3
  <2> HIDE DEF out, n
  <2>6. \A p, refs : Answers(messages, p, refs) => Answers(out, p, refs)
    BY <2>1, <2>5 DEF Answers
  <2>7. Paired(config, out)
    <3> SUFFICES ASSUME NEW p \in DOMAIN out, out[p].of = "calls"
                 PROVE  Answers(out, p + 1, out[p].refs)
      BY <1>2 DEF Paired
    <3>1. p \in DOMAIN messages /\ messages[p].of = "calls" /\ out[p].refs = messages[p].refs
      BY <2>1, <2>5
    <3> QED BY <1>2, <2>6, <3>1 DEF Paired
  <2> QED BY <2>2, <2>4, <2>7
<1> QED BY <1>1, <1>2

\* A turn begins with nothing on the wire, and with the history so far.
LEMMA AskStep ==
    ASSUME TurnInv, Ask
    PROVE  TurnInv'
<1>1. /\ phase' = "wire" /\ request' = OnTheWire /\ sent' = <<>> /\ said' = <<>> /\ meta' = <<>>
      /\ pipe' = EmptyPipe /\ config' = config /\ turn' = turn /\ messages' = messages
      /\ outcome' = outcome /\ phase = "request"
  BY DEF Ask
<1>2. /\ config \in Configs /\ messages \in Seq(Sayings) /\ Paired(config, messages)
      /\ outcome = "none"
  BY <1>1 DEF TurnInv, Types, Histories, Wired
<1>3. OnTheWire \in Seq(Sayings) /\ Paired(config, OnTheWire)
  BY <1>2, OnTheWireSays
<1>4. Len(<<>>) = 0 /\ 1 .. 0 = {} /\ (\A S : <<>> \in Seq(S)) /\ 0 \in Nat
  OBVIOUS
<1>5. Typed(EmptyPipe, 0)
  BY EmptyTyped
<1>6. CallsOK(config, <<>>)
  BY <1>4, VendorTurnAssumption DEF CallsOK
<1>7. Types'
  BY <1>1, <1>3, <1>4, <1>5, <1>6, VendorTurnAssumption DEF TurnInv, Types
<1>8. Wired'
  BY <1>1, <1>2, NothingYet DEF Wired
<1>9. Ended'
  BY <1>1 DEF Ended
<1>10. Histories'
  BY <1>1, <1>3 DEF TurnInv, Histories
<1> QED BY <1>7, <1>8, <1>9, <1>10 DEF TurnInv

\* A turn that raises shows nothing more.
LEMMA RaisesStep ==
    ASSUME TurnInv, AskIsATypeError \/ AnswerRaises
    PROVE  TurnInv'
<1>1. /\ phase' = "done" /\ outcome' = "raised" /\ sent' = sent /\ said' = said /\ meta' = meta
      /\ pipe' = pipe /\ config' = config /\ turn' = turn /\ messages' = messages
      /\ request' = request /\ (phase = "request" \/ (phase = "wire" /\ ~config.stream))
  BY DEF AskIsATypeError, AnswerRaises, Ends, Frame, Streams
<1>2. pipe = EmptyPipe
  BY <1>1 DEF TurnInv, Wired
<1>3. Types'
  BY <1>1 DEF TurnInv, Types
<1>4. Wired'
  BY <1>1 DEF Wired
<1>5. Ended'
  BY <1>1, <1>2, EmptyIs, NothingInOrder DEF Ended
<1>6. Histories'
  BY <1>1 DEF TurnInv, Histories
<1> QED BY <1>3, <1>4, <1>5, <1>6 DEF TurnInv

\* Nothing happens any more.
LEMMA DoneStep ==
    ASSUME TurnInv, UNCHANGED turnVars
    PROVE  TurnInv'
BY DEF TurnInv, Types, Wired, Ended, Histories, turnVars

\* The calls of a whole answer are what was meant.
LEMMA WholeAnswer ==
    ASSUME NEW calls \in CallsMade, NEW ids, \A c \in DOMAIN calls : ids[c] \in Ids,
           config \in Configs, ~config.stream, pipe = EmptyPipe,
           NEW cs, cs = [c \in DOMAIN calls |->
                 Call(calls[c][1], calls[c][2], IF calls[c][2] = "none" THEN 0 ELSE 2, FALSE)],
           NEW st, st = [pipe EXCEPT !.partial = [c \in DOMAIN calls |->
                 [id |-> ids[c], name |-> calls[c][1], buf |-> RestoredArgs(c, calls[c][2])]]]
    PROVE  CallsOK(config, cs) /\ Typed(st, Len(cs)) /\ RanAs(config, cs, st.partial) /\ st.events = <<>>
<1>1. PICK n \in 0 .. MaxCalls : calls \in [1 .. n -> Tools \X Kinds]
  BY DEF CallsMade, BoundedSeq, SeqOf
<1>2. n \in Nat /\ DOMAIN calls = 1 .. n /\ \A c \in 1 .. n : calls[c][1] \in Tools /\ calls[c][2] \in Kinds
  BY <1>1, VendorTurnAssumption
<1> DEFINE Made(c) == Call(calls[c][1], calls[c][2], IF calls[c][2] = "none" THEN 0 ELSE 2, FALSE)
           Kept(c) == [id |-> ids[c], name |-> calls[c][1], buf |-> RestoredArgs(c, calls[c][2])]
           part == [c \in 1 .. n |-> Kept(c)]
<1>3. cs = [c \in 1 .. n |-> Made(c)] /\ st = [pipe EXCEPT !.partial = part]
  BY <1>2
<1>4. \A c \in 1 .. n : /\ Made(c) \in Calls /\ Made(c).tool = calls[c][1] /\ Made(c).kind = calls[c][2]
                        /\ Made(c).size = (IF calls[c][2] = "none" THEN 0 ELSE 2)
  BY <1>2 DEF Call, Calls
<1>5. \A c \in 1 .. n : RestoredArgs(c, calls[c][2]) \in Seq(Pieces(n))
  <2> TAKE c \in 1 .. n
  <2>1. \A p \in Parts : Piece(c, p) \in Pieces(n)
    BY DEF Piece, Pieces
  <2>2. \A x \in Pieces(n) : <<x>> \in Seq(Pieces(n))
    OBVIOUS
  <2>3. <<>> \in Seq(Pieces(n)) /\ "real" \in Parts /\ "whole" \in Parts
    BY DEF Parts
  <2> QED BY <2>1, <2>2, <2>3 DEF RestoredArgs
<1>6. \A c \in 1 .. n : Kept(c) \in Entries(n) /\ Kept(c).name = calls[c][1] /\ Kept(c).buf = RestoredArgs(c, calls[c][2])
  BY <1>2, <1>5 DEF Entries
<1> HIDE DEF Made, Kept
<1>7. cs \in Seq(Calls) /\ Len(cs) = n /\ DOMAIN cs = 1 .. n /\ \A c \in 1 .. n : cs[c] = Made(c)
  <2>1. [c \in 1 .. n |-> Made(c)] \in Seq(Calls)
    BY <1>2, <1>4, IsASeq
  <2>2. DOMAIN cs = 1 .. n /\ \A c \in 1 .. n : cs[c] = Made(c)
    BY <1>3
  <2>3. cs \in Seq(Calls)
    BY <1>3, <2>1
  <2>4. Len(cs) = n
    BY <1>2, <2>2, <2>3, LenProperties
  <2> QED BY <2>2, <2>3, <2>4
<1>8. part \in Seq(Entries(n)) /\ Len(part) = n /\ \A c \in 1 .. n : part[c] = Kept(c)
  <2>1. part \in Seq(Entries(n))
    BY <1>2, <1>6, IsASeq
  <2>2. DOMAIN part = 1 .. n /\ \A c \in 1 .. n : part[c] = Kept(c)
    OBVIOUS
  <2> HIDE DEF part
  <2>3. Len(part) = n
    BY <1>2, <2>1, <2>2, LenProperties
  <2> QED BY <2>1, <2>2, <2>3
<1> HIDE DEF part
<1>9. /\ IsPipe(st) /\ st.restorers = EmptyPipe.restorers /\ st.held = EmptyPipe.held /\ st.events = EmptyPipe.events
      /\ st.shown = EmptyPipe.shown /\ st.partial = part
  BY <1>3 DEF IsPipe, EmptyPipe
<1>10. Typed(st, n)
  <2>1. Typed(EmptyPipe, n)
    BY <1>2, EmptyTyped
  <2> QED BY <1>8, <1>9, <2>1 DEF Typed
<1>11. CallsOK(config, cs)
  <2>1. ASSUME NEW c \in 1 .. n
        PROVE  (cs[c].kind = "none" => cs[c].size = 0) /\ cs[c].size # 1
    <3> DEFINE k == calls[c][2]
               size == cs[c].size
    <3>1. cs[c].kind = k /\ size = (IF k = "none" THEN 0 ELSE 2)
      BY <1>4, <1>7
    <3> HIDE DEF k, size
    <3>2. CASE k = "none"
      <4>1. size = 0 /\ 0 # 1
        BY <3>1, <3>2
      <4> QED BY <4>1, Zenon DEF size
    <3>3. CASE k # "none"
      <4>1. size = 2 /\ 2 # 1
        BY <3>1, <3>3
      <4>2. cs[c].kind # "none"
        BY <3>1, <3>3, Zenon
      <4> QED BY <4>1, <4>2, Zenon DEF size
    <3> QED BY <3>2, <3>3
  <2>2. n <= MaxCalls
    BY VendorTurnAssumption
  <2> QED BY <1>7, <2>1, <2>2 DEF CallsOK
<1>12. ASSUME NEW c \in 1 .. n
       PROVE  /\ part[c].name = cs[c].tool
              /\ LET got == ArgsOf(config, cs, part[c].buf)
                 IN  got = MeantBy(cs, c)
  <2> DEFINE k == calls[c][2]
  <2>1. cs[c].kind = k /\ cs[c].size = (IF k = "none" THEN 0 ELSE 2) /\ part[c].buf = RestoredArgs(c, k)
    BY <1>4, <1>6, <1>7, <1>8
  <2>2. part[c].name = cs[c].tool
    BY <1>4, <1>6, <1>7, <1>8
  <2>3. MeantBy(cs, c) = IF k = "none" THEN NoArgs ELSE [call |-> c, real |-> TRUE]
    BY <2>1 DEF MeantBy, Whole
  <2>4. c \in DOMAIN cs
    BY <1>7
  <2> HIDE DEF k
  <2>5. CASE k = "none"
    <3>1. part[c].buf = <<>>
      BY <2>1, <2>5 DEF RestoredArgs
    <3>2. ArgsOf(config, cs, <<>>) = NoArgs
      BY NothingParsedOfNothing
    <3> QED BY <2>2, <2>3, <2>5, <3>1, <3>2
  <2>6. CASE k # "none" /\ Masked /\ k = "private"
    <3>1. part[c].buf = <<Piece(c, "real")>>
      BY <2>1, <2>6 DEF RestoredArgs
    <3>2. ArgsOf(config, cs, <<Piece(c, "real")>>) = [call |-> c, real |-> TRUE]
      BY <2>4, ArgsAre
    <3>3. ArgsOf(config, cs, part[c].buf) = [call |-> c, real |-> TRUE]
      BY <3>1, <3>2, Zenon
    <3> QED BY <2>2, <2>3, <2>6, <3>3
  <2>7. CASE k # "none" /\ (~Masked \/ k # "private")
    <3>1. part[c].buf = <<Piece(c, "whole")>>
      BY <2>1, <2>7 DEF RestoredArgs
    <3>2. ~config.masked \/ cs[c].kind # "private"
      BY <2>1, <2>7 DEF Masked
    <3>3. ArgsOf(config, cs, <<Piece(c, "whole")>>) = [call |-> c, real |-> TRUE]
      BY <2>4, <3>2, ArgsAre
    <3>4. ArgsOf(config, cs, part[c].buf) = [call |-> c, real |-> TRUE]
      BY <3>1, <3>3, Zenon
    <3> QED BY <2>2, <2>3, <2>7, <3>4
  <2> QED BY <2>5, <2>6, <2>7
<1>13. RanAs(config, cs, st.partial)
  BY <1>7, <1>8, <1>9, <1>12 DEF RanAs
<1> QED BY <1>7, <1>9, <1>10, <1>11, <1>13, EmptyIs

\* A whole answer, whoever gives it.
LEMMA AnswersStep ==
    ASSUME TurnInv, NEW calls \in CallsMade, NEW ids, \A c \in DOMAIN calls : ids[c] \in Ids,
           NEW reported, AnswersWith(calls, ids, reported)
    PROVE  TurnInv'
<1>1. /\ phase = "wire" /\ ~config.stream /\ said' = said /\ meta' = meta
      /\ config' = config /\ turn' = turn /\ messages' = messages /\ request' = request
      /\ Decide(reported)
  BY DEF AnswersWith, Frame, Streams
<1>2. config \in Configs /\ pipe = EmptyPipe /\ (config.late => config.stream) /\ outcome = "none"
  BY <1>1 DEF TurnInv, Types, Wired
<1>3. CallsOK(config, sent') /\ Typed(pipe', Len(sent')) /\ RanAs(config, sent', pipe'.partial) /\ pipe'.events = <<>>
  <2>1. /\ sent' = [c \in DOMAIN calls |->
                 Call(calls[c][1], calls[c][2], IF calls[c][2] = "none" THEN 0 ELSE 2, FALSE)]
        /\ pipe' = [pipe EXCEPT !.partial = [c \in DOMAIN calls |->
                 [id |-> ids[c], name |-> calls[c][1], buf |-> RestoredArgs(c, calls[c][2])]]]
    BY DEF AnswersWith
  <2> QED BY <1>1, <1>2, <2>1, WholeAnswer
<1>4. \/ phase' = "done" /\ outcome' = "text"
      \/ phase' = "dispatch" /\ outcome' = outcome
  BY <1>1 DEF Decide, Ends
<1>5. Types'
  BY <1>1, <1>3, <1>4 DEF TurnInv, Types
<1>6. Wired'
  BY <1>2, <1>4 DEF Wired
<1>7. Ended'
  BY <1>1, <1>3, <1>4, NothingInOrder DEF Ended
<1>8. Histories'
  BY <1>1 DEF TurnInv, Histories
<1> QED BY <1>5, <1>6, <1>7, <1>8 DEF TurnInv

LEMMA VendorsAnswer ==
    ASSUME TurnInv, AnthropicAnswers \/ OpenAIAnswers \/ GeminiAnswers
    PROVE  TurnInv'
<1>1. turn \in 0 .. MaxTurns
  BY VendorTurnAssumption DEF TurnInv, Types
<1>2. \A calls \in CallsMade : \A c \in DOMAIN calls : c \in 1 .. MaxCalls
  <2> TAKE calls \in CallsMade
  <2>1. PICK n \in 0 .. MaxCalls : calls \in [1 .. n -> Tools \X Kinds]
    BY DEF CallsMade, BoundedSeq, SeqOf
  <2> QED BY <2>1, VendorTurnAssumption
<1>3. \A c \in 1 .. MaxCalls : VendorIds[c] \in Ids
  <2> TAKE c \in 1 .. MaxCalls
  <2>1. VendorIds[c] = Id("vendor", turn, c, "any")
    BY DEF VendorIds, VendorId
  <2>2. c \in 0 .. MaxCalls
    BY VendorTurnAssumption
  <2> QED BY <1>1, <2>1, <2>2 DEF Id, Ids
<1>4. NoId \in Ids
  BY VendorTurnAssumption DEF NoId, Id, Ids
<1>5. CASE AnthropicAnswers
  <2>1. PICK calls \in CallsMade : \E reason : AnswersWith(calls, VendorIds, reason)
    BY <1>5 DEF AnthropicAnswers
  <2>2. \A c \in DOMAIN calls : VendorIds[c] \in Ids
    BY <1>2, <1>3
  <2> QED BY <2>1, <2>2, AnswersStep
<1>6. CASE OpenAIAnswers
  <2>1. PICK calls \in CallsMade : AnswersWith(calls, VendorIds, ByCalls(calls))
    BY <1>6 DEF OpenAIAnswers
  <2>2. \A c \in DOMAIN calls : VendorIds[c] \in Ids
    BY <1>2, <1>3
  <2> QED BY <2>1, <2>2, AnswersStep
<1>7. CASE GeminiAnswers
  <2>1. PICK calls \in CallsMade : AnswersWith(calls, [c \in DOMAIN calls |-> NoId], ByCalls(calls))
    BY <1>7 DEF GeminiAnswers
  <2>2. \A c \in DOMAIN calls : [d \in DOMAIN calls |-> NoId][c] \in Ids
    BY <1>4
  <2> QED BY <2>1, <2>2, AnswersStep
<1> QED BY <1>5, <1>6, <1>7

-----------------------------------------------------------------------------
\* A turn of calls and the results of it extend a history in which calls and
\* results are paired.
AnswerTo(cfg, rs, refs) ==
    /\ \A i \in 1 .. Len(rs) : rs[i].of = "results"
    /\ IF cfg.vendor = "openai" THEN Len(rs) = Len(refs) /\ \A i \in 1 .. Len(refs) : rs[i].refs = <<refs[i]>>
       ELSE Len(rs) = 1 /\ rs[1].refs = refs

\* The results come right after the calls they are of.
LEMMA PairedMore ==
    ASSUME NEW cfg, NEW ms \in Seq(Sayings), Paired(cfg, ms), NEW m \in Sayings, m.of = "calls",
           NEW rs \in Seq(Sayings), AnswerTo(cfg, rs, m.refs),
           NEW more, more = Append(ms, m) \o rs
    PROVE  more \in Seq(Sayings) /\ Paired(cfg, more)
<1> DEFINE k == Len(ms)
           n == Len(rs)
<1>1. k \in Nat /\ n \in Nat /\ DOMAIN ms = 1 .. k /\ m.refs \in Seq(Refs)
  BY LenProperties DEF Sayings
<1>2. /\ Append(ms, m) \in Seq(Sayings) /\ Len(Append(ms, m)) = k + 1
      /\ Append(ms, m)[k + 1] = m /\ \A i \in 1 .. k : Append(ms, m)[i] = ms[i]
  BY AppendProperties
<1>3. /\ more \in Seq(Sayings) /\ Len(more) = k + 1 + n
      /\ \A i \in 1 .. k + 1 + n : more[i] = IF i <= k + 1 THEN Append(ms, m)[i] ELSE rs[i - (k + 1)]
  BY <1>2, ConcatProperties
<1>4. DOMAIN more = 1 .. k + 1 + n
  BY <1>3, LenProperties
<1> HIDE DEF k, n
<1>5. /\ \A i \in 1 .. k : more[i] = ms[i] /\ i \in DOMAIN more
      /\ more[k + 1] = m
      /\ \A i \in 1 .. n : more[k + 1 + i] = rs[i] /\ k + 1 + i \in DOMAIN more
  BY <1>1, <1>2, <1>3, <1>4
<1>6. \A p, refs : Answers(ms, p, refs) => Answers(more, p, refs)
  BY <1>1, <1>5 DEF Answers
<1>7. \A i \in 1 .. n : Answers(more, k + 1 + i, rs[i].refs)
  BY <1>5 DEF Answers, AnswerTo, n
<1>8. Paired(cfg, more)
  <2> DEFINE Pair(s, p) == IF cfg.vendor = "openai"
                           THEN \A i \in DOMAIN s[p].refs : Answers(more, p + i, <<s[p].refs[i]>>)
                           ELSE Answers(more, p + 1, s[p].refs)
  <2>1. ASSUME NEW p \in DOMAIN more, more[p].of = "calls" PROVE Pair(more, p)
    <3>1. CASE p \in 1 .. k
      <4>1. ms[p].of = "calls" /\ more[p] = ms[p] /\ p \in DOMAIN ms
        BY <1>1, <1>5, <2>1, <3>1
      <4>2. Pair(ms, p)
        BY <1>6, <4>1 DEF Paired
      <4> QED BY <4>1, <4>2
    <3>2. CASE p = k + 1
      <4>1. more[p] = m
        BY <1>5, <3>2
      <4>2. CASE cfg.vendor = "openai"
        <5>1. n = Len(m.refs) /\ DOMAIN m.refs = 1 .. n /\ \A i \in 1 .. n : rs[i].refs = <<m.refs[i]>>
          BY <1>1, <4>2, LenProperties DEF AnswerTo, n
        <5>2. \A i \in 1 .. n : Answers(more, p + i, <<m.refs[i]>>)
          BY <1>7, <3>2, <5>1
        <5> QED BY <4>1, <4>2, <5>1, <5>2
      <4>3. CASE cfg.vendor # "openai"
        <5>1. n = 1 /\ rs[1].refs = m.refs
          BY <4>3 DEF AnswerTo, n
        <5>2. 1 \in 1 .. n /\ p + 1 = k + 1 + 1
          BY <3>2, <5>1
        <5>3. Answers(more, k + 1 + 1, rs[1].refs)
          BY <1>7, <5>2, Zenon
        <5>4. Answers(more, p + 1, m.refs)
          BY <5>1, <5>2, <5>3
        <5> QED BY <4>1, <4>3, <5>4
      <4> QED BY <4>2, <4>3
    <3>3. CASE p \in k + 2 .. k + 1 + n
      <4>1. p - (k + 1) \in 1 .. n /\ p = k + 1 + (p - (k + 1))
        BY <1>1, <3>3
      <4>2. more[p].of = "results"
        BY <1>5, <4>1 DEF AnswerTo, n
      <4> QED BY <2>1, <4>2
    <3> QED BY <1>1, <1>4, <3>1, <3>2, <3>3
  <2> QED BY <2>1 DEF Paired
<1> QED BY <1>3, <1>8

\* The turn and its results join the history.
LEMMA DispatchStep ==
    ASSUME TurnInv, Dispatch
    PROVE  TurnInv'
<1>1. /\ phase = "dispatch" /\ messages' = Append(messages, AssistantTurn) \o ToolResults
      /\ sent' = <<>> /\ said' = <<>> /\ meta' = <<>> /\ pipe' = EmptyPipe
      /\ config' = config /\ request' = request
  BY DEF Dispatch
<1>2. \/ phase' = "done" /\ outcome' = "cap" /\ turn' = turn
      \/ turn' = turn + 1 /\ phase' = "request" /\ outcome' = outcome /\ turn # MaxTurns
  BY DEF Dispatch, Ends
<1>3. /\ config \in Configs /\ messages \in Seq(Sayings) /\ Paired(config, messages)
      /\ outcome = "none" /\ Typed(pipe, Len(sent)) /\ turn \in 1 .. MaxTurns
  BY <1>1 DEF TurnInv, Types, Histories, Wired
<1>4. turn' \in 1 .. MaxTurns
  BY <1>2, <1>3, VendorTurnAssumption
<1> DEFINE p == pipe.partial
           n == Len(p)
<1>5. /\ n \in Nat /\ DOMAIN p = 1 .. n
      /\ \A c \in 1 .. n : p[c].id \in Ids /\ p[c].name \in Tools
  <2>1. p \in Seq(Entries(Len(sent)))
    BY <1>3 DEF Typed
  <2> HIDE DEF p
  <2>2. n \in Nat /\ DOMAIN p = 1 .. n /\ \A c \in 1 .. n : p[c] \in Entries(Len(sent))
    BY <2>1, LenProperties, ElementOfSeq
  <2> QED BY <2>2 DEF Entries
<1>6. CallIds \in Seq(Refs) /\ Len(CallIds) = n /\ DOMAIN CallIds = 1 .. n
  <2> DEFINE f == [c \in 1 .. n |-> p[c].id]
  <2>1. CallIds = f
    BY <1>5 DEF CallIds
  <2>2. Ids \subseteq Refs
    BY DEF Ids, Refs
  <2>3. f \in [1 .. n -> Refs]
    BY <1>5, <2>2
  <2> HIDE DEF f, n
  <2> QED BY <1>5, <2>1, <2>3, SeqDef, LenProperties
<1>7. CallNames \in Seq(Refs)
  <2> DEFINE f == [c \in 1 .. n |-> Id("name", 0, 0, p[c].name)]
  <2>1. CallNames = f
    BY <1>5 DEF CallNames
  <2>2. \A t \in Tools : Id("name", 0, 0, t) \in Refs
    BY VendorTurnAssumption DEF Id, Refs
  <2>3. f \in [1 .. n -> Refs]
    BY <1>5, <2>2
  <2> HIDE DEF f, n
  <2> QED BY <1>5, <2>1, <2>3, SeqDef
<1> HIDE DEF p, n
<1>8. \A role \in {"user", "assistant", "model", "tool"}, of \in {"ask", "calls", "results"}, refs \in Seq(Refs) :
         /\ Message(role, of, refs) \in Sayings
         /\ Message(role, of, refs).of = of /\ Message(role, of, refs).refs = refs
  BY DEF Message, Sayings
<1> DEFINE refs == IF config.vendor = "gemini" THEN CallNames ELSE CallIds
<1>9. AssistantTurn \in Sayings /\ AssistantTurn.of = "calls" /\ AssistantTurn.refs = refs
  <2>1. config.vendor \in {"anthropic", "openai", "gemini"}
    BY <1>3 DEF Configs
  <2> QED BY <1>6, <1>7, <1>8, <2>1 DEF AssistantTurn, AnthropicTurn, OpenAITurn, GeminiTurn
<1>10. ToolResults \in Seq(Sayings) /\ AnswerTo(config, ToolResults, refs)
  <2>1. \A m \in Sayings : <<m>> \in Seq(Sayings) /\ Len(<<m>>) = 1 /\ <<m>>[1] = m
    OBVIOUS
  <2>2. CASE config.vendor = "anthropic"
    <3> DEFINE m == Message("user", "results", CallIds)
    <3>1. ToolResults = <<m>>
      BY <2>2 DEF ToolResults, AnthropicResults
    <3>2. m \in Sayings /\ m.of = "results" /\ m.refs = CallIds
      BY <1>6, <1>8
    <3> HIDE DEF m
    <3> QED BY <2>1, <2>2, <3>1, <3>2 DEF AnswerTo
  <2>3. CASE config.vendor = "gemini"
    <3> DEFINE m == Message("user", "results", CallNames)
    <3>1. ToolResults = <<m>>
      BY <2>3 DEF ToolResults, GeminiResults
    <3>2. m \in Sayings /\ m.of = "results" /\ m.refs = CallNames
      BY <1>7, <1>8
    <3> HIDE DEF m
    <3> QED BY <2>1, <2>3, <3>1, <3>2 DEF AnswerTo
  <2>4. CASE config.vendor = "openai"
    <3> DEFINE R(c) == Message("tool", "results", <<CallIds[c]>>)
               f == [c \in 1 .. n |-> R(c)]
    <3>1. ToolResults = f
      BY <1>6, <2>4 DEF ToolResults, OpenAIResults
    <3>2. \A c \in 1 .. n : R(c) \in Sayings /\ R(c).of = "results" /\ R(c).refs = <<CallIds[c]>>
      <4>1. \A c \in 1 .. n : CallIds[c] \in Refs
        BY <1>6, ElementOfSeq
      <4>2. \A x \in Refs : <<x>> \in Seq(Refs)
        OBVIOUS
      <4> QED BY <1>8, <4>1, <4>2
    <3> HIDE DEF R
    <3>3. f \in [1 .. n -> Sayings] /\ \A c \in 1 .. n : f[c] = R(c)
      BY <3>2
    <3> HIDE DEF f
    <3>4. f \in Seq(Sayings) /\ Len(f) = n
      BY <1>5, <3>3, SeqDef, LenProperties
    <3> QED BY <1>6, <2>4, <3>1, <3>2, <3>3, <3>4 DEF AnswerTo
  <2> QED BY <1>3, <2>2, <2>3, <2>4 DEF Configs
<1> HIDE DEF refs
<1>11. messages' \in Seq(Sayings) /\ Paired(config, messages')
  BY <1>1, <1>3, <1>9, <1>10, PairedMore
<1>12. Len(<<>>) = 0 /\ 1 .. 0 = {} /\ (\A S : <<>> \in Seq(S)) /\ 0 \in Nat
  OBVIOUS
<1>13. Typed(EmptyPipe, 0)
  BY EmptyTyped
<1>14. CallsOK(config, <<>>)
  BY <1>12, VendorTurnAssumption DEF CallsOK
<1>15. Types'
  BY <1>1, <1>2, <1>4, <1>11, <1>12, <1>13, <1>14, VendorTurnAssumption DEF TurnInv, Types
<1>16. Wired'
  BY <1>1, <1>2, <1>3 DEF Wired
<1>17. Ended'
  BY <1>1, <1>2, EmptyIs, NothingInOrder DEF Ended
<1>18. Histories'
  BY <1>1, <1>11 DEF TurnInv, Histories
<1> QED BY <1>15, <1>16, <1>17, <1>18 DEF TurnInv
-----------------------------------------------------------------------------
(* The invariant, and what the runs check of it.                           *)

\* It holds at first, and every step keeps it.
LEMMA TurnBegins == TurnInit => TurnInv
<1> SUFFICES ASSUME TurnInit PROVE TurnInv
  OBVIOUS
<1>1. /\ config \in Configs /\ (config.late => config.vendor = "openai" /\ config.stream)
      /\ phase = "request" /\ turn = 1 /\ sent = <<>> /\ said = <<>> /\ meta = <<>>
      /\ pipe = EmptyPipe /\ messages = <<Message("user", "ask", <<>>)>>
      /\ request = <<>> /\ outcome = "none"
  BY DEF TurnInit, Configs
<1>2. Len(<<>>) = 0 /\ 1 .. 0 = {} /\ (\A S : <<>> \in Seq(S)) /\ 0 \in Nat /\ DOMAIN <<>> = {}
  OBVIOUS
<1>3. Typed(EmptyPipe, 0)
  BY EmptyTyped
<1>4. CallsOK(config, <<>>)
  BY <1>2, VendorTurnAssumption DEF CallsOK
<1> DEFINE m == Message("user", "ask", <<>>)
<1>5. m \in Sayings /\ m.of # "calls"
  BY <1>2 DEF Message, Sayings
<1>6. messages = <<m>> /\ messages \in Seq(Sayings) /\ DOMAIN messages = {1} /\ messages[1] = m
  <2>1. messages = <<m>>
    BY <1>1
  <2> HIDE DEF m
  <2> QED BY <1>5, <2>1
<1> HIDE DEF m
<1>7. Types
  BY <1>1, <1>2, <1>3, <1>4, <1>6, VendorTurnAssumption DEF Types
<1>8. Wired
  BY <1>1 DEF Wired
<1>9. Ended
  BY <1>1 DEF Ended
<1>10. Histories
  BY <1>1, <1>2, <1>5, <1>6 DEF Histories, Paired
<1> QED BY <1>7, <1>8, <1>9, <1>10 DEF TurnInv

LEMMA TurnGoesOn == TurnInv /\ [TurnNext]_turnVars => TurnInv'
<1> SUFFICES ASSUME TurnInv, [TurnNext]_turnVars PROVE TurnInv'
  OBVIOUS
<1>1. CASE Ask \/ AskIsATypeError \/ AnswerRaises
  BY <1>1, AskStep, RaisesStep
<1>2. CASE Text \/ Breaks \/ Finish
  BY <1>2, TextStep, BreaksStep, FinishStep
<1>3. CASE AnthropicStart \/ AnthropicDelta \/ AnthropicStop
  BY <1>3, AnthropicStartStep, AnthropicDeltaStep, AnthropicStopStep
<1>4. CASE OpenAIStart \/ OpenAIDelta \/ GeminiCall
  BY <1>4, OpenAIStartStep, OpenAIDeltaStep, GeminiCallStep
<1>5. CASE AnthropicAnswers \/ OpenAIAnswers \/ GeminiAnswers
  BY <1>5, VendorsAnswer
<1>6. CASE Dispatch
  BY <1>6, DispatchStep
<1>7. CASE Done \/ UNCHANGED turnVars
  BY <1>7, DoneStep DEF Done
<1> QED BY <1>1, <1>2, <1>3, <1>4, <1>5, <1>6, <1>7 DEF TurnNext

\* Wherever a turn of the agent loop stands, its calls, its events, its text and its
\* history are as the invariant says (providers/*.py, pii/masking_provider.py and
\* agent_loop.py).
THEOREM TurnInvariant == TurnSpec => []TurnInv
BY TurnBegins, TurnGoesOn, PTL DEF TurnSpec

\* What it says of each of the properties.
LEMMA RunsAsSent == TurnInv => RunAsSent
<1>1. \A c : Meant(c) = MeantBy(sent, c)
  BY DEF Meant, MeantBy
<1>2. \A buf : Parsed(buf) = ArgsOf(config, sent, buf)
  BY DEF Parsed, ArgsOf, Masked
<1>3. Escapes <=> config.vendor = "gemini" /\ config.stream /\ config.masked
  BY DEF Escapes, Streams, Masked
<1> QED BY <1>1, <1>2, <1>3 DEF TurnInv, Ended, RanAs, RunAsSent

LEMMA TypesAreRight == TurnInv => TurnTypeOK
<1> SUFFICES ASSUME TurnInv PROVE TurnTypeOK
  OBVIOUS
<1>1. Types /\ Typed(pipe, Len(sent)) /\ sent \in Seq(Calls)
  BY DEF TurnInv, Types, CallsOK
<1>2. DOMAIN sent = 1 .. Len(sent)
  BY <1>1, LenProperties
<1>3. \A i \in DOMAIN pipe.partial :
       /\ pipe.partial[i].id \in Ids /\ pipe.partial[i].name \in Tools
       /\ pipe.partial[i].buf \in Seq([call : DOMAIN sent, part : Parts])
  <2> TAKE i \in DOMAIN pipe.partial
  <2>1. pipe.partial \in Seq(Entries(Len(sent)))
    BY <1>1 DEF Typed
  <2> DEFINE p == pipe.partial
  <2> HIDE DEF p
  <2>2. p[i] \in Entries(Len(sent))
    BY <2>1, LenProperties, ElementOfSeq DEF p
  <2> QED BY <1>2, <2>2 DEF Entries, Pieces, p
<1>4. \A m \in Range(messages) : m.role \in {"user", "assistant", "model", "tool"}
  <2>1. messages \in Seq(Sayings)
    BY <1>1 DEF Types
  <2>2. \A i \in DOMAIN messages : messages[i] \in Sayings
    BY <2>1, LenProperties, ElementOfSeq
  <2> QED BY <2>2 DEF Range, Sayings
<1>5. Len(sent) <= MaxCalls
  BY <1>1 DEF Types, CallsOK
<1>6. DOMAIN pipe.restorers \subseteq Ids
  BY <1>1 DEF Typed
<1> QED BY <1>1, <1>3, <1>4, <1>5, <1>6 DEF TurnTypeOK, Types, Configs, Calls, Deltas

LEMMA AllInOrder == TurnInv => EventsInOrder
<1> SUFFICES ASSUME TurnInv, ~config.late PROVE InOrder(pipe.events)
  BY DEF EventsInOrder
<1>1. CASE phase = "wire" /\ config.stream
  <2> DEFINE open == IdsOf(pipe.partial, Open(sent, Stopped(config, sent)))
             over == IdsOf(pipe.partial, Stopped(config, sent))
  <2>1. Tidy(pipe.events, open, over)
    BY <1>1 DEF TurnInv, Wired, WireOK, Followed
  <2> HIDE DEF open, over
  <2> QED BY <2>1, TidyInOrder
<1>2. CASE phase = "request" \/ (phase = "wire" /\ ~config.stream)
  BY <1>2, EmptyIs, NothingInOrder DEF TurnInv, Wired
<1>3. CASE phase \in {"dispatch", "done"}
  BY <1>3 DEF TurnInv, Ended
<1> QED BY <1>1, <1>2, <1>3 DEF TurnInv, Types

LEMMA ShowsAsSaid == TurnInv => ShownAsSaid
<1>1. TurnInv /\ outcome = "text" => phase = "done"
  BY DEF TurnInv, Types, Wired
<1> QED BY <1>1, ReadAsIs DEF TurnInv, Ended, ShownAsSaid, Streams

LEMMA AnswersDoFollow == TurnInv => AnswersFollow
BY DEF TurnInv, Histories, Paired, AnswersFollow

\* The loop runs exactly the calls the vendor made, in their order and with the
\* arguments sent for them and the values in place of placeholders, however the
\* fragments of any number of calls were interleaved and cut (agent_loop.py:755-766).
THEOREM RunsWhatWasSent == TurnSpec => []RunAsSent
BY TurnInvariant, RunsAsSent, PTL

\* At every moment the events that were passed on are in order, and at a turn's end
\* the text that was shown is the text that was said, placeholders turned back
\* (stream_with_tools of the providers and of pii/masking_provider.py).
THEOREM StreamStaysFaithful == TurnSpec => []StreamIsFaithful
<1>1. TurnInv => StreamIsFaithful
  BY TypesAreRight, AllInOrder, ShowsAsSaid DEF StreamIsFaithful
<1> QED BY <1>1, TurnInvariant, PTL

\* In every request a turn of calls is followed at once by the answers to exactly
\* these calls, in the shape of the vendor (agent_loop.py:775-801).
THEOREM AnswersAlwaysFollow == TurnSpec => []AnswersFollow
BY TurnInvariant, AnswersDoFollow, PTL

-----------------------------------------------------------------------------
(***************************************************************************)
(* ProviderFailover.                                                       *)
(***************************************************************************)

USE BreakerAssumption, FailoverAssumption

\* The operators of Breaker stay inside Breaker.
LEMMA BreakerTyped ==
    /\ Fresh \in Breaker
    /\ \A b \in Breaker : /\ RecordSuccess(b) \in Breaker
                          /\ RecordFailure(b) \in Breaker
                          /\ Elapse(b) \in Breaker
BY DEF Fresh, Breaker, RecordSuccess, RecordFailure, Elapse, IsOpen, IsClosed, IsHalfOpen

\* The next key of a vendor is one it has.
LEMMA NextKey ==
    ASSUME NEW i \in Nat, NEW n \in Nat \ {0}
    PROVE  (i + 1) % n \in 0 .. n - 1
OBVIOUS

-----------------------------------------------------------------------------
\* The inductive invariant.  A request that has not ended has no result yet, and
\* one that is at an agent or was answered by it is at a position that exists:
\* what is appended to the sequence comes after it.
Settled ==
    /\ pos \in [Request -> Nat] /\ index \in [Provider -> Nat]
    /\ \A r \in Request :
          /\ pc[r] # "done" => result[r] = "none"
          /\ result[r] = "ok" => pos[r] \in DOMAIN sequence

IInv == WalkSound /\ Settled

LEMMA InitIInv == Init => IInv
BY BreakerTyped
   DEF Init, IInv, WalkSound, TypeOK, NobodyPassedOver, ErrorTellsWhy, Settled, Results

\* The agents at any positions of the sequence are agents.
LEMMA SeatedAgents ==
    ASSUME sequence \in Seq(Agent)
    PROVE  /\ \A k \in DOMAIN sequence : AgentAt(k) \in Agent
           /\ \A i, j : Between(i, j) \in SUBSET Agent
<1>1. \A k \in DOMAIN sequence : AgentAt(k) \in Agent
  BY DEF AgentAt
<1> HIDE DEF AgentAt
<1> QED BY <1>1 DEF Between

\* What a walk from position i does to its request: it stops at an agent at or
\* after i, or ends, and whoever is in between it has passed.
LEMMA VisitStep ==
    ASSUME IInv, sequence' = sequence, NEW r \in Request, NEW i \in Nat \ {0},
           NEW bs, NEW skips \in SUBSET Agent, NEW fails \in SUBSET Agent,
           pc[r] # "done", Visit(r, i, bs, skips, fails)
    PROVE  /\ skipped' \in [Request -> SUBSET Agent] /\ failed' \in [Request -> SUBSET Agent]
           /\ pc' \in [Request -> {"idle", "calling", "done"}]
           /\ pos' \in [Request -> Nat] /\ result' \in [Request -> Results]
           /\ \A s \in Request \ {r} : /\ pc'[s] = pc[s] /\ pos'[s] = pos[s] /\ result'[s] = result[s]
                                       /\ skipped'[s] = skipped[s] /\ failed'[s] = failed[s]
           /\ failed'[r] = fails /\ skips \subseteq skipped'[r]
           /\ \/ /\ pc'[r] = "calling" /\ result'[r] = "none" /\ pos'[r] \in DOMAIN sequence
                 /\ i <= pos'[r] /\ Between(i, pos'[r] - 1) \subseteq skipped'[r]
              \/ /\ pc'[r] = "done"
                 /\ result'[r] = IF fails # {} THEN "error"
                                 ELSE IF skipped'[r] # {} THEN "all_open" ELSE "no_agents"
<1> DEFINE ready == {j \in i .. Len(sequence) : ~IsOpen(Breakered(j, bs))}
           next == CHOOSE j \in ready : \A k \in ready : j <= k
           passed == skips \cup Between(i, IF ready = {} THEN Len(sequence) ELSE next - 1)
<1>1. /\ skipped' = [skipped EXCEPT ![r] = passed]
      /\ failed' = [failed EXCEPT ![r] = fails]
      /\ ready # {} => /\ pc' = [pc EXCEPT ![r] = "calling"]
                       /\ pos' = [pos EXCEPT ![r] = next]
                       /\ result' = result
      /\ ready = {} => /\ pc' = [pc EXCEPT ![r] = "done"]
                       /\ result' = [result EXCEPT ![r] =
                              IF fails # {} THEN "error"
                              ELSE IF passed # {} THEN "all_open" ELSE "no_agents"]
                       /\ pos' = pos
  BY DEF Visit, End
<1> USE DEF IInv, WalkSound, TypeOK, Settled
<1>2. sequence \in Seq(Agent) /\ Len(sequence) \in Nat
  OBVIOUS
<1>3. passed \in SUBSET Agent
  BY SeatedAgents DEF TypeOK
<1>4. ready \subseteq Nat
  BY <1>2
<1>5. ready # {} => next \in ready /\ next \in i .. Len(sequence)
  <2> SUFFICES ASSUME ready # {} PROVE next \in ready
    OBVIOUS
  <2>1. PICK n \in ready : \A k \in ready : n <= k
    <3> HIDE DEF ready
    <3> QED BY <1>4, LeastNumber
  <2> HIDE DEF ready
  <2> QED BY <2>1
<1> HIDE DEF ready, next, passed
<1>6. ready # {} => next \in DOMAIN sequence /\ next \in Nat /\ i <= next
  BY <1>2, <1>5
<1>7. ready # {} => Between(i, next - 1) \subseteq passed
  BY DEF passed
<1>8. skips \subseteq passed
  BY DEF passed
<1> QED BY <1>1, <1>3, <1>6, <1>7, <1>8 DEF Results

\* Breakers and keys stay what they are, typed.
PartsTyped ==
    /\ breakers \in [Provider -> Breaker]
    /\ index \in [Provider -> Nat]
    /\ \A p \in Provider : NumKeys[p] > 0 => index[p] < NumKeys[p]
    /\ usage \in [Provider -> 0 .. RotationInterval]

\* A walk that resumes after j, having passed everyone up to j, keeps the
\* invariant.
LEMMA VisitKeepsIInv ==
    ASSUME IInv, sequence' = sequence, PartsTyped', NEW r \in Request, NEW j \in Nat, NEW i \in Nat, i = j + 1,
           NEW bs, NEW skips \in SUBSET Agent, NEW fails \in SUBSET Agent,
           pc[r] # "done", Between(1, j) \subseteq skips \cup fails,
           Visit(r, i, bs, skips, fails)
    PROVE  IInv'
<1>1. /\ skipped' \in [Request -> SUBSET Agent] /\ failed' \in [Request -> SUBSET Agent]
      /\ pc' \in [Request -> {"idle", "calling", "done"}]
      /\ pos' \in [Request -> Nat] /\ result' \in [Request -> Results]
      /\ \A s \in Request \ {r} : /\ pc'[s] = pc[s] /\ pos'[s] = pos[s] /\ result'[s] = result[s]
                                  /\ skipped'[s] = skipped[s] /\ failed'[s] = failed[s]
      /\ failed'[r] = fails /\ skips \subseteq skipped'[r]
      /\ \/ /\ pc'[r] = "calling" /\ result'[r] = "none" /\ pos'[r] \in DOMAIN sequence
            /\ i <= pos'[r] /\ Between(i, pos'[r] - 1) \subseteq skipped'[r]
         \/ /\ pc'[r] = "done"
            /\ result'[r] = IF fails # {} THEN "error"
                            ELSE IF skipped'[r] # {} THEN "all_open" ELSE "no_agents"
  <2>1. i \in Nat \ {0}
    OBVIOUS
  <2> QED BY <2>1, VisitStep
<1>2. \A m, n : Between(m, n)' = Between(m, n)
  BY DEF Between, AgentAt
<1>3. TypeOK' /\ Settled'
  <2>1. sequence' \in Seq(Agent)
    BY DEF IInv, WalkSound, TypeOK
  <2> QED BY <1>1, <2>1 DEF IInv, WalkSound, TypeOK, Settled, PartsTyped
<1>4. ErrorTellsWhy'
  BY <1>1 DEF IInv, WalkSound, ErrorTellsWhy
<1>5. ASSUME NEW s \in Request, pc'[s] = "calling" \/ result'[s] = "ok"
      PROVE  Between(1, pos'[s] - 1) \subseteq skipped'[s] \cup failed'[s]
  <2>1. CASE s = r
    <3>1. pos'[r] \in Nat /\ i <= pos'[r]
          /\ Between(i, pos'[r] - 1) \subseteq skipped'[r]
      BY <1>1, <1>5, <2>1
    <3>2. Between(1, pos'[r] - 1) \subseteq Between(1, j) \cup Between(i, pos'[r] - 1)
      BY <3>1 DEF Between
    <3> QED BY <1>1, <2>1, <3>1, <3>2
  <2>2. CASE s # r
    BY <1>1, <1>5, <2>2 DEF IInv, WalkSound, NobodyPassedOver
  <2> QED BY <2>1, <2>2
<1>6. NobodyPassedOver'
  BY <1>2, <1>5 DEF NobodyPassedOver
<1> QED BY <1>3, <1>4, <1>6 DEF IInv, WalkSound

\* A miss, a rotation and a key handed out keep the parts typed.
LEMMA MissTyped ==
    ASSUME IInv, NEW r \in Request, pc[r] = "calling"
    PROVE  /\ pos[r] \in Nat \ {0} /\ pos[r] \in DOMAIN sequence
           /\ AgentAt(pos[r]) \in Agent /\ ProviderAt(r) \in Provider
           /\ Missed(r) \in [Provider -> Breaker]
           /\ [breakers EXCEPT ![ProviderAt(r)] = RecordSuccess(@)] \in [Provider -> Breaker]
<1>1. pos[r] \in DOMAIN sequence /\ sequence \in Seq(Agent)
  BY DEF IInv, WalkSound, TypeOK
<1>2. pos[r] \in Nat \ {0}
  BY <1>1
<1>3. AgentAt(pos[r]) \in Agent
  BY <1>1, SeatedAgents
<1>4. ProviderAt(r) \in Provider
  BY <1>3 DEF ProviderAt
<1>5. breakers \in [Provider -> Breaker]
  BY DEF IInv, WalkSound, TypeOK
<1> QED BY <1>1, <1>2, <1>3, <1>4, <1>5, BreakerTyped DEF Missed

\* Whoever the request passed, and the agent it is at, are all before the next
\* position.
LEMMA PassedSoFar ==
    ASSUME IInv, NEW r \in Request, pc[r] = "calling"
    PROVE  Between(1, pos[r]) \subseteq skipped[r] \cup failed[r] \cup {AgentAt(pos[r])}
<1>1. pos[r] \in Nat \ {0}
  BY MissTyped
<1>2. Between(1, pos[r]) \subseteq Between(1, pos[r] - 1) \cup {AgentAt(pos[r])}
  BY <1>1 DEF Between
<1> QED BY <1>2 DEF IInv, WalkSound, NobodyPassedOver

LEMMA RotationTyped ==
    ASSUME IInv, NEW p \in Provider, RotateOnFailure(p)
    PROVE  /\ index' \in [Provider -> Nat]
           /\ \A q \in Provider : NumKeys[q] > 0 => index'[q] < NumKeys[q]
           /\ usage' \in [Provider -> 0 .. RotationInterval]
<1>1. /\ index \in [Provider -> Nat] /\ usage \in [Provider -> 0 .. RotationInterval]
      /\ \A q \in Provider : NumKeys[q] > 0 => index[q] < NumKeys[q]
  BY DEF IInv, WalkSound, TypeOK, Settled
<1>2. CASE NumKeys[p] = 0
  BY <1>1, <1>2 DEF RotateOnFailure, keyVars
<1>3. CASE NumKeys[p] # 0
  <2>1. (index[p] + 1) % NumKeys[p] \in 0 .. NumKeys[p] - 1
    BY <1>1, <1>3, NextKey
  <2> QED BY <1>1, <1>3, <2>1 DEF RotateOnFailure
<1> QED BY <1>2, <1>3

LEMMA GetKeyTyped ==
    ASSUME IInv, NEW p \in Provider, GetKey(p)
    PROVE  PartsTyped'
<1>1. PartsTyped
  BY DEF IInv, WalkSound, TypeOK, Settled, PartsTyped
<1>2. NumKeys[p] \in Nat \ {0} /\ index[p] \in Nat /\ usage[p] \in 0 .. RotationInterval
  BY <1>1 DEF PartsTyped, GetKey
<1>3. (index[p] + 1) % NumKeys[p] \in 0 .. NumKeys[p] - 1
  BY <1>2, NextKey
<1> QED BY <1>1, <1>2, <1>3 DEF PartsTyped, GetKey

-----------------------------------------------------------------------------
\* Every step keeps the invariant.
LEMMA NextIInv == IInv /\ [Next]_vars => IInv'
<1> SUFFICES ASSUME IInv, [Next]_vars PROVE IInv'
  OBVIOUS
<1>0. PartsTyped /\ Between(1, 0) = {}
  BY DEF IInv, WalkSound, TypeOK, Settled, PartsTyped, Between
<1>1. ASSUME NEW r \in Request, Start(r) PROVE IInv'
  <2>1. PartsTyped' /\ sequence' = sequence
    BY <1>0, <1>1 DEF Start, PartsTyped
  <2>2. pc[r] # "done" /\ Visit(r, 1, breakers, {}, {})
    BY <1>1 DEF Start
  <2> QED BY <1>0, <2>1, <2>2, VisitKeepsIInv
<1>2. ASSUME NEW r \in Request, AgentRaises(r) PROVE IInv'
  <2>1. pc[r] = "calling" /\ sequence' = sequence /\ RotateOnFailure(ProviderAt(r))
        /\ breakers' = Missed(r)
        /\ Visit(r, pos[r] + 1, Missed(r), skipped[r], failed[r] \cup {AgentAt(pos[r])})
    BY <1>2 DEF AgentRaises
  <2>2. pos[r] \in Nat /\ pos[r] + 1 \in Nat /\ AgentAt(pos[r]) \in Agent /\ ProviderAt(r) \in Provider
        /\ breakers' \in [Provider -> Breaker]
    BY <2>1, MissTyped
  <2>3. PartsTyped'
    BY <2>1, <2>2, RotationTyped DEF PartsTyped
  <2>4. skipped[r] \in SUBSET Agent /\ failed[r] \cup {AgentAt(pos[r])} \in SUBSET Agent
    BY <2>2 DEF IInv, WalkSound, TypeOK
  <2>5. Between(1, pos[r]) \subseteq skipped[r] \cup (failed[r] \cup {AgentAt(pos[r])})
    BY <2>1, PassedSoFar
  <2>6. pc[r] # "done"
    BY <2>1
  <2> QED BY <2>1, <2>2, <2>3, <2>4, <2>5, <2>6, VisitKeepsIInv
<1>3. ASSUME NEW r \in Request, NestedCircuitOpen(r) PROVE IInv'
  <2>1. pc[r] = "calling" /\ sequence' = sequence /\ UNCHANGED <<index, usage>>
        /\ breakers' = Missed(r)
        /\ Visit(r, pos[r] + 1, Missed(r), skipped[r] \cup {AgentAt(pos[r])}, failed[r])
    BY <1>3 DEF NestedCircuitOpen
  <2>2. pos[r] \in Nat /\ pos[r] + 1 \in Nat /\ AgentAt(pos[r]) \in Agent
        /\ breakers' \in [Provider -> Breaker]
    BY <2>1, MissTyped
  <2>3. PartsTyped'
    BY <1>0, <2>1, <2>2 DEF PartsTyped
  <2>4. failed[r] \in SUBSET Agent /\ skipped[r] \cup {AgentAt(pos[r])} \in SUBSET Agent
    BY <2>2 DEF IInv, WalkSound, TypeOK
  <2>5. Between(1, pos[r]) \subseteq (skipped[r] \cup {AgentAt(pos[r])}) \cup failed[r]
    BY <2>1, PassedSoFar
  <2>6. pc[r] # "done"
    BY <2>1
  <2> QED BY <2>1, <2>2, <2>3, <2>4, <2>5, <2>6, VisitKeepsIInv
<1>4. ASSUME NEW r \in Request, NEW how \in {"ok", "cancelled"}, End(r, how),
             pc[r] = "calling", PartsTyped', UNCHANGED <<sequence, pos, skipped, failed>>
      PROVE  IInv'
  <2>1. \A j, k : Between(j, k)' = Between(j, k)
    BY <1>4 DEF Between, AgentAt
  <2>2. sequence' \in Seq(Agent)
    BY <1>4 DEF IInv, WalkSound, TypeOK
  <2>3. TypeOK' /\ Settled' /\ ErrorTellsWhy'
    BY <1>4, <2>2 DEF End, IInv, WalkSound, TypeOK, Settled, ErrorTellsWhy, PartsTyped, Results
  <2>4. NobodyPassedOver'
    BY <1>4, <2>1 DEF End, IInv, WalkSound, TypeOK, NobodyPassedOver
  <2> QED BY <2>3, <2>4 DEF IInv, WalkSound
<1>5. ASSUME NEW r \in Request, Answer(r) \/ Cancel(r) PROVE IInv'
  <2>1. pc[r] = "calling" /\ UNCHANGED <<index, usage, sequence, pos, skipped, failed>>
        /\ (End(r, "ok") \/ End(r, "cancelled"))
    BY <1>5 DEF Answer, Cancel
  <2>2. breakers' \in [Provider -> Breaker]
    BY <1>5, <2>1, MissTyped DEF Answer, Cancel
  <2>3. PartsTyped'
    BY <1>0, <2>1, <2>2 DEF PartsTyped
  <2> QED BY <1>4, <2>1, <2>3
<1>6. ASSUME PartsTyped', UNCHANGED <<sequence, pc, pos, skipped, failed, result>>
      PROVE  IInv'
  <2>1. \A j, k : Between(j, k)' = Between(j, k)
    BY <1>6 DEF Between, AgentAt
  <2>2. sequence' \in Seq(Agent)
    BY <1>6 DEF IInv, WalkSound, TypeOK
  <2> QED BY <1>6, <2>1, <2>2
          DEF IInv, WalkSound, TypeOK, Settled, NobodyPassedOver, ErrorTellsWhy, PartsTyped
<1>7. CASE Tick
  <2>1. breakers' \in [Provider -> Breaker]
    BY <1>0, <1>7, BreakerTyped DEF Tick, PartsTyped
  <2> QED BY <1>0, <1>6, <1>7, <2>1 DEF Tick, PartsTyped
<1>8. ASSUME NEW p \in Provider, GetKey(p) PROVE IInv'
  <2>1. PartsTyped'
    BY <1>8, GetKeyTyped
  <2> QED BY <1>6, <1>8, <2>1 DEF GetKey
<1>9. ASSUME NEW a \in Agent, RegisterAgent(a) PROVE IInv'
  <2>1. sequence' = Append(sequence, a) /\ sequence \in Seq(Agent)
        /\ UNCHANGED <<breakers, index, usage, pc, pos, skipped, failed, result>>
    BY <1>9 DEF RegisterAgent, IInv, WalkSound, TypeOK
  <2>2. /\ sequence' \in Seq(Agent) /\ Len(sequence) \in Nat
        /\ DOMAIN sequence = 1 .. Len(sequence)
        /\ DOMAIN sequence' = 1 .. Len(sequence) + 1
        /\ \A k \in DOMAIN sequence : sequence'[k] = sequence[k]
    BY <2>1
  <2>3. ASSUME NEW k \in DOMAIN sequence PROVE Between(1, k - 1)' = Between(1, k - 1)
    <3>1. /\ (1 .. k - 1) \cap DOMAIN sequence' = 1 .. k - 1
          /\ (1 .. k - 1) \cap DOMAIN sequence = 1 .. k - 1
      BY <2>2
    <3>2. \A n \in 1 .. k - 1 : sequence'[n] = sequence[n]
      BY <2>2, <3>1
    <3> QED BY <3>1, <3>2 DEF Between, AgentAt
  <2>4. PartsTyped'
    BY <1>0, <2>1 DEF PartsTyped
  <2>5. TypeOK' /\ Settled' /\ ErrorTellsWhy'
    BY <2>1, <2>2, <2>4 DEF IInv, WalkSound, TypeOK, Settled, ErrorTellsWhy, PartsTyped
  <2>6. NobodyPassedOver'
    BY <2>1, <2>3 DEF IInv, WalkSound, TypeOK, Settled, NobodyPassedOver
  <2> QED BY <2>5, <2>6 DEF IInv, WalkSound
<1>10. CASE UNCHANGED vars
  BY <1>0, <1>6, <1>10 DEF vars, PartsTyped
<1> QED BY <1>1, <1>2, <1>3, <1>5, <1>7, <1>8, <1>9, <1>10 DEF Next, CallEnds

-----------------------------------------------------------------------------
\* The agents whose breaker is open among bs.
OpenWith(bs) == {a \in Agent : IsOpen(bs[ProviderOf[a]])}

\* Whom a walk from position i passes: each of them has an open breaker, and when
\* it gives up they are everyone from i on.
Passes(r, i, bs, skips, fails) ==
    /\ skipped'[r] \subseteq skips \cup OpenWith(bs)
    /\ result'[r] # "none" => Between(i, Len(sequence)) \subseteq skipped'[r]
    /\ failed'[r] = fails /\ skips \subseteq skipped'[r]
    /\ \A s \in Request \ {r} : /\ result'[s] = result[s]
                                /\ skipped'[s] = skipped[s] /\ failed'[s] = failed[s]

LEMMA VisitPasses ==
    ASSUME IInv, NEW r \in Request, NEW i \in Nat \ {0},
           NEW bs, NEW skips \in SUBSET Agent, NEW fails \in SUBSET Agent,
           result[r] = "none", Visit(r, i, bs, skips, fails)
    PROVE  Passes(r, i, bs, skips, fails)
<1> DEFINE ready == {j \in i .. Len(sequence) : ~IsOpen(Breakered(j, bs))}
           next == CHOOSE j \in ready : \A k \in ready : j <= k
           last == IF ready = {} THEN Len(sequence) ELSE next - 1
<1>1. /\ skipped' = [skipped EXCEPT ![r] = skips \cup Between(i, last)]
      /\ failed' = [failed EXCEPT ![r] = fails]
      /\ ready # {} => result' = result
      /\ \E how : result' = result \/ result' = [result EXCEPT ![r] = how]
  BY DEF Visit, End
<1>2. /\ sequence \in Seq(Agent) /\ Len(sequence) \in Nat /\ DOMAIN sequence = 1 .. Len(sequence)
      /\ skipped \in [Request -> SUBSET Agent] /\ failed \in [Request -> SUBSET Agent]
      /\ result \in [Request -> Results]
  BY DEF IInv, WalkSound, TypeOK
<1>3. ready \subseteq Nat
  BY <1>2
<1>4. ready # {} => next \in ready /\ \A k \in ready : next <= k
  <2> SUFFICES ASSUME ready # {} PROVE next \in ready /\ \A k \in ready : next <= k
    OBVIOUS
  <2>1. PICK n \in ready : \A k \in ready : n <= k
    <3> HIDE DEF ready
    <3> QED BY <1>3, LeastNumber
  <2> HIDE DEF ready
  <2> QED BY <2>1
<1>5. ASSUME NEW k \in (i .. last) \cap DOMAIN sequence PROVE IsOpen(bs[ProviderOf[AgentAt(k)]])
  <2>1. k \in i .. Len(sequence)
    BY <1>2
  <2>2. k \notin ready
    <3> HIDE DEF ready, next
    <3>1. k \in Nat
      BY <2>1
    <3>2. CASE ready = {}
      BY <3>2
    <3>3. CASE ready # {}
      <4>1. last = next - 1 /\ next \in Nat
        BY <1>3, <1>4, <3>3
      <4>2. k <= last
        <5> HIDE DEF last
        <5>1. k \in i .. last
          BY <1>5
        <5> QED BY <5>1
      <4> HIDE DEF last
      <4> QED BY <1>4, <3>1, <3>3, <4>1, <4>2
    <3> QED BY <3>2, <3>3
  <2> QED BY <2>1, <2>2 DEF Breakered
<1>6. \A k \in DOMAIN sequence : AgentAt(k) \in Agent
  BY <1>2, SeatedAgents
<1> HIDE DEF ready, next, last
<1>7. Between(i, last) \subseteq OpenWith(bs)
  BY <1>5, <1>6 DEF Between, OpenWith
<1>8. result'[r] # "none" => last = Len(sequence)
  BY <1>1 DEF last
<1>9. \A s \in Request \ {r} : result'[s] = result[s]
  BY <1>1, <1>2
<1> QED BY <1>1, <1>2, <1>7, <1>8, <1>9 DEF Passes

\* A request gives up at the end of the sequence only, and skips for cause.
LEMMA WalkStep == IInv /\ [Next]_vars => GivesUpAtTheEnd /\ SkippedForCause
<1> SUFFICES ASSUME IInv, [Next]_vars PROVE GivesUpAtTheEnd /\ SkippedForCause
  OBVIOUS
<1>1. ASSUME NEW r \in Request, NEW j \in Nat, NEW i \in Nat, i = j + 1,
             NEW skips \in SUBSET Agent, NEW fails \in SUBSET Agent,
             pc[r] # "done", Between(1, j) \subseteq skips \cup fails, sequence' = sequence,
             NEW bs, bs = breakers', Visit(r, i, bs, skips, fails),
             skips \subseteq skipped[r] \cup Called(r), fails \subseteq failed[r] \cup Called(r)
      PROVE  GivesUpAtTheEnd /\ SkippedForCause
  <2>1. i \in Nat \ {0} /\ result[r] = "none"
    BY <1>1 DEF IInv, Settled
  <2>3. /\ failed'[r] = fails /\ skips \subseteq skipped'[r]
        /\ \A s \in Request \ {r} : /\ result'[s] = result[s]
                                    /\ skipped'[s] = skipped[s] /\ failed'[s] = failed[s]
        /\ skipped'[r] \subseteq skips \cup OpenWith(bs)
        /\ result'[r] # "none" => Between(i, Len(sequence)) \subseteq skipped'[r]
    <3>1. Visit(r, i, bs, skips, fails)
      BY <1>1
    <3>2. r \in Request /\ i \in Nat \ {0} /\ skips \in SUBSET Agent /\ fails \in SUBSET Agent
      BY <2>1
    <3>3. Passes(r, i, bs, skips, fails)
      BY <2>1, <3>1, <3>2, VisitPasses
    <3> QED BY <3>3 DEF Passes
  <2>4. Between(1, Len(sequence)) \subseteq Between(1, j) \cup Between(i, Len(sequence))
    BY <1>1 DEF Between
  <2>5. GivesUpAtTheEnd
    <3>1. result'[r] # "none" => Between(1, Len(sequence)) \subseteq skipped'[r] \cup failed'[r]
      BY <1>1, <2>3, <2>4
    <3> QED BY <2>3, <3>1 DEF GivesUpAtTheEnd
  <2>6. SkippedForCause
    BY <1>1, <2>3 DEF SkippedForCause, OpenWith
  <2> QED BY <2>5, <2>6
<1>2. ASSUME NEW r \in Request, Start(r) PROVE GivesUpAtTheEnd /\ SkippedForCause
  <2>1. /\ pc[r] # "done" /\ Visit(r, 1, breakers', {}, {}) /\ sequence' = sequence
        /\ Between(1, 0) = {}
    BY <1>2 DEF Start, Between
  <2> QED BY <1>1, <2>1
<1>3. ASSUME NEW r \in Request, AgentRaises(r) \/ NestedCircuitOpen(r)
      PROVE  GivesUpAtTheEnd /\ SkippedForCause
  <2>1. pc[r] = "calling" /\ pc[r] # "done" /\ sequence' = sequence
    BY <1>3 DEF AgentRaises, NestedCircuitOpen
  <2>2. /\ pos[r] \in Nat /\ pos[r] + 1 \in Nat /\ AgentAt(pos[r]) \in Agent
        /\ skipped[r] \in SUBSET Agent /\ failed[r] \in SUBSET Agent
    BY <2>1, MissTyped DEF IInv, WalkSound, TypeOK
  <2>3. Between(1, pos[r]) \subseteq skipped[r] \cup failed[r] \cup {AgentAt(pos[r])}
    BY <2>1, PassedSoFar
  <2>4. Called(r) = {AgentAt(pos[r])}
    BY <2>1 DEF Called
  <2>5. \/ Visit(r, pos[r] + 1, breakers', skipped[r], failed[r] \cup {AgentAt(pos[r])})
        \/ Visit(r, pos[r] + 1, breakers', skipped[r] \cup {AgentAt(pos[r])}, failed[r])
    BY <1>3 DEF AgentRaises, NestedCircuitOpen
  <2>6. CASE Visit(r, pos[r] + 1, breakers', skipped[r], failed[r] \cup {AgentAt(pos[r])})
    <3> DEFINE fails == failed[r] \cup {AgentAt(pos[r])}
    <3>1. fails \in SUBSET Agent /\ Between(1, pos[r]) \subseteq skipped[r] \cup fails
          /\ fails \subseteq failed[r] \cup Called(r)
      BY <2>2, <2>3, <2>4
    <3> HIDE DEF fails
    <3> QED BY <1>1, <2>1, <2>2, <2>6, <3>1 DEF fails
  <2>7. CASE Visit(r, pos[r] + 1, breakers', skipped[r] \cup {AgentAt(pos[r])}, failed[r])
    <3> DEFINE skips == skipped[r] \cup {AgentAt(pos[r])}
    <3>1. skips \in SUBSET Agent /\ Between(1, pos[r]) \subseteq skips \cup failed[r]
          /\ skips \subseteq skipped[r] \cup Called(r)
      BY <2>2, <2>3, <2>4
    <3> HIDE DEF skips
    <3> QED BY <1>1, <2>1, <2>2, <2>7, <3>1 DEF skips
  <2> QED BY <2>5, <2>6, <2>7
<1>4. ASSUME NEW r \in Request, Answer(r) \/ Cancel(r) PROVE GivesUpAtTheEnd /\ SkippedForCause
  <2>1. /\ skipped' = skipped /\ failed' = failed /\ r \in Request
        /\ result' = [result EXCEPT ![r] = "ok"] \/ result' = [result EXCEPT ![r] = "cancelled"]
    BY <1>4 DEF Answer, Cancel, End
  <2>2. result \in [Request -> Results]
    BY DEF IInv, WalkSound, TypeOK
  <2> QED BY <2>1, <2>2 DEF GivesUpAtTheEnd, SkippedForCause
<1>5. CASE UNCHANGED <<skipped, failed, result>>
  BY <1>5 DEF GivesUpAtTheEnd, SkippedForCause
<1> QED BY <1>2, <1>3, <1>4, <1>5
        DEF Next, CallEnds, Tick, GetKey, RegisterAgent, vars

\* Failover tries everyone: whoever the walk of a request of AgentManager.analyze
\* comes by is called or has an open circuit at that moment, a request that gives
\* up has come by everyone in the sequence, and its error says what happened -
\* however breakers, keys and the sequence move while it waits.
THEOREM WalkIsToldAlways == Spec => WalkIsTold
<1>1. Spec => []IInv
  BY InitIInv, NextIInv, PTL DEF Spec
<1>2. IInv => WalkSound
  BY DEF IInv
<1> QED BY <1>1, <1>2, WalkStep, PTL DEF Spec, WalkIsTold
=============================================================================
