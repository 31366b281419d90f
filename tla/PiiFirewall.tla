----------------------------- MODULE PiiFirewall -----------------------------
(***************************************************************************)
(* The PII firewall as functions over texts: src/smart_llm/pii/firewall.py *)
(* (vault, masking, restoring, the stream restorer), policy.py, and the    *)
(* overlap rule of detectors.py.  A text is a sequence of words, with the  *)
(* two brackets of a placeholder, its type and its number as words too.    *)
(*                                                                         *)
(* What the patterns of a detector match is given by Rules.  Declared      *)
(* values and matched ones hold no bracket, type or number of a            *)
(* placeholder.                                                            *)
(***************************************************************************)
EXTENDS Integers, Sequences, FiniteSets, SequencesExt, TLC

CONSTANTS
  Hints,   \* declared values, in the order given: <<[value, type], ...>>
  Rules    \* the detector's rules, in their order: <<[value, type], ...>>

Open == "["
Close == "]"

(* Who is to be kept from the vendor, and the words placeholders are of: a *)
(* value has one, so the number of a placeholder is not above theirs.      *)
Secrets == Range(Hints) \cup Range(Rules)
Marks == {Open, Close} \cup {s.type : s \in Secrets}
         \cup {ToString(n) : n \in 1 .. Len(Hints) + Len(Rules)}

ASSUME FirewallAssumption ==
  /\ Hints \in Seq([value : Seq(STRING), type : STRING])
  /\ Rules \in Seq([value : Seq(STRING), type : STRING])
  /\ \A s \in Secrets : s.value # <<>> /\ \A k \in DOMAIN s.value : s.value[k] \notin Marks

At(text, i, part) ==
  /\ i + Len(part) - 1 <= Len(text)
  /\ \A k \in DOMAIN part : text[i + k - 1] = part[k]
Occurs(text, part) == \E i \in DOMAIN text : At(text, i, part)

(* finditer and replace go from the left, and on behind what they found.   *)
Scan(text, part) ==
  LET found[i \in 0 .. Len(text)] ==
        IF i = 0 THEN {}
        ELSE LET before == found[i - 1]
             IN  IF At(text, i, part) /\ \A s \in before : s + Len(part) <= i
                 THEN before \cup {i} ELSE before
  IN  found[Len(text)]

(* The text with new words in place of the spans that are cut out.         *)
Span(i, part, new) == [start |-> i, end |-> i + Len(part), new |-> new]
Starting(spans, i) == CHOOSE c \in spans : c.start = i
InPlace(text, cuts, i) ==
  IF \E c \in cuts : c.start = i THEN Starting(cuts, i).new
  ELSE IF \E c \in cuts : c.start < i /\ i < c.end THEN <<>>
  ELSE <<text[i]>>
Splice(text, cuts) == FlattenSeq([i \in DOMAIN text |-> InPlace(text, cuts, i)])

Replace(text, old, new) == Splice(text, {Span(i, old, new) : i \in Scan(text, old)})

(***************************************************************************)
(* The vault: what was minted, in that order.                              *)
(***************************************************************************)
Token(m) == <<Open, m.type, ToString(m.n), Close>>
Minted(vault, value) == \E i \in DOMAIN vault : vault[i].value = value
NewMapping(vault, value, type) ==
  [value |-> value, type |-> type, n |-> 1 + Cardinality({i \in DOMAIN vault : vault[i].type = type})]

(* The brackets are nothing else's, and numbers are written differently.   *)
PlaceholdersReadApart ==
  /\ \A s \in Secrets : s.type \notin {Open, Close}
  /\ \A n \in 1 .. Len(Hints) + Len(Rules) :
       /\ ToString(n) \notin {Open, Close}
       /\ \A m \in 1 .. Len(Hints) + Len(Rules) : ToString(m) = ToString(n) => m = n

TokenizeAnew(vault, value, type) == Append(vault, NewMapping(vault, value, type))
Tokenize(vault, value, type) ==
  IF Minted(vault, value) THEN vault ELSE Append(vault, NewMapping(vault, value, type))
TokenOf(vault, value) == Token(vault[Max({i \in DOMAIN vault : vault[i].value = value})])

NewVault ==
  LET minted[k \in 0 .. Len(Hints)] ==
        IF k = 0 THEN <<>> ELSE Tokenize(minted[k - 1], Hints[k].value, Hints[k].type)
  IN  minted[Len(Hints)]

(* Longest declared value first, so that no part of one is taken before it.*)
Before(i, j) ==
  \/ Len(Hints[i].value) > Len(Hints[j].value)
  \/ Len(Hints[i].value) = Len(Hints[j].value) /\ i < j
Place(j) == 1 + Cardinality({i \in DOMAIN Hints : Before(i, j)})
HintOrder == [k \in DOMAIN Hints |-> Hints[CHOOSE j \in DOMAIN Hints : Place(j) = k]]

ApplyHints(vault, text) ==
  LET masked[k \in 0 .. Len(Hints)] ==
        IF k = 0 THEN text
        ELSE Replace(masked[k - 1], HintOrder[k].value, TokenOf(vault, HintOrder[k].value))
  IN  masked[Len(Hints)]

RestoreText(vault, text) ==
  LET read[k \in 0 .. Len(vault)] ==
        IF k = 0 THEN text ELSE Replace(read[k - 1], Token(vault[k]), vault[k].value)
  IN  read[Len(vault)]

(***************************************************************************)
(* Detection and masking.  The first rule to claim a span keeps it.        *)
(***************************************************************************)
Claim(rule, i) == [start |-> i, end |-> i + Len(rule.value), rule |-> rule]
Disjoint(a, b) == a.end <= b.start \/ b.end <= a.start
Detect(text) ==
  LET claimed[k \in 0 .. Len(Rules)] ==
        IF k = 0 THEN {}
        ELSE LET before == claimed[k - 1]
                 matches == {Claim(Rules[k], i) : i \in Scan(text, Rules[k].value)}
             IN  before \cup {c \in matches : \A d \in before : Disjoint(c, d)}
  IN  claimed[Len(Rules)]

(* A match that overlaps an earlier claim is dropped, and the scan goes on *)
(* behind it: a value that overlaps itself can be passed over that way.    *)
OverlapsItself(v) == \E d \in 1 .. Len(v) - 1 : \A k \in 1 .. Len(v) - d : v[k + d] = v[k]
NoRuleOverlapsItself == \A k \in DOMAIN Rules : ~OverlapsItself(Rules[k].value)

(* From left to right each claim gets its placeholder.                     *)
MintFor(vault, claims, len) ==
  LET minted[i \in 0 .. len] ==
        IF i = 0 THEN vault
        ELSE IF \E c \in claims : c.start = i
             THEN Tokenize(minted[i - 1], Starting(claims, i).rule.value, Starting(claims, i).rule.type)
             ELSE minted[i - 1]
  IN  minted[len]

MaskText(vault, raw) ==
  LET text == ApplyHints(vault, raw)
      claims == Detect(text)
      minted == MintFor(vault, claims, Len(text))
  IN  [vault |-> minted,
       text  |-> Splice(text, {Span(c.start, c.rule.value, TokenOf(minted, c.rule.value)) : c \in claims})]

(* mask_payload: the texts of a payload one after the other, one vault.    *)
MaskPayload(vault, texts) ==
  LET masked[i \in 0 .. Len(texts)] ==
        IF i = 0 THEN [vault |-> vault, texts |-> <<>>]
        ELSE LET before == masked[i - 1]
                 m == MaskText(before.vault, texts[i])
             IN  [vault |-> m.vault, texts |-> Append(before.texts, m.text)]
  IN  masked[Len(texts)]

(* What the firewall is to keep from the vendor.                           *)
Raw(text) == \E s \in Secrets : Occurs(text, s.value)

(***************************************************************************)
(* StreamRestorer: hold from the last opening bracket that is not closed.  *)
(***************************************************************************)
LastOpen(buf) == SelectLastInSeq(buf, LAMBDA w : w = Open)
Dangles(buf) == LastOpen(buf) > 0 /\ \A i \in LastOpen(buf) .. Len(buf) : buf[i] # Close
Push(vault, held, delta) ==
  LET buf == held \o delta
      cut == IF Dangles(buf) THEN LastOpen(buf) - 1 ELSE Len(buf)
  IN  [held |-> SubSeq(buf, cut + 1, Len(buf)), out |-> RestoreText(vault, SubSeq(buf, 1, cut))]
Flush(vault, held) == RestoreText(vault, held)

(***************************************************************************)
(* Policy: the stricter of company and agent; what is not set or not known *)
(* counts as the environment's default, and that as "enforce".             *)
(***************************************************************************)
Ladder == <<"off", "detect-only", "enforce", "strict">>
Known(policy) == policy \in Range(Ladder)
Rank(policy) == CHOOSE i \in DOMAIN Ladder : Ladder[i] = policy
DefaultPolicy(env) == IF Known(env) THEN env ELSE "enforce"
AgentOverrides(company, agent) == agent
Stricter(company, agent) == IF Rank(company) >= Rank(agent) THEN company ELSE agent
ResolvePolicy(company, agent, env) ==
  LET base == IF Known(company) THEN company ELSE DefaultPolicy(env)
  IN  IF Known(agent) THEN Stricter(base, agent) ELSE base

IsActive(policy) == policy # "off"
FailsClosed(policy) == policy \in {"enforce", "strict"}
AllowVision(policy, hatch) == policy \in {"off", "detect-only"} \/ (policy = "enforce" /\ hatch)
===============================================================================
