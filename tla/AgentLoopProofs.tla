---------------------------- MODULE AgentLoopProofs ----------------------------
(***************************************************************************)
(* The agent loop, for every repertoire of calls, policy, cap, budget and  *)
(* number of iterations: every call is answered, only allowed calls run,   *)
(* no poisoned result is handed on or cached, the limits hold together and *)
(* the trail is sound.                                                     *)
(*                                                                         *)
(* First, what the gate and what stands behind it keep at every call: the  *)
(* shared token bucket, the audit chain.  Then the loop that dispatches    *)
(* the calls; its inductive invariant relates it to the gate: a call may   *)
(* be under way only if the trail has an approval for it that no earlier   *)
(* run has used up.                                                        *)
(***************************************************************************)
EXTENDS AgentLoop, ProofLemmas


-----------------------------------------------------------------------------
(* The token bucket. *)

RateTypeOK ==
    /\ clock \in 0 .. MaxTime
    /\ bucket \in [Name -> [tokens : 0 .. Capacity, at : Nat]]
    /\ grants \in [Name -> Seq(Nat)]

\* What a bucket has granted since any of its grants, and what it has left, is
\* within what it may hold and what the time since then has refilled.
Covered ==
    \A n \in Name :
        /\ bucket[n].at <= clock
        /\ \A i \in DOMAIN grants[n] :
              /\ grants[n][i] <= bucket[n].at
              /\ (Len(grants[n]) - i + 1) * Cost + bucket[n].tokens
                    <= Capacity + (bucket[n].at - grants[n][i]) * Refill

RateInv == RateTypeOK /\ Covered /\ RateBound

LEMMA Elapsed ==
    ASSUME NEW now \in Nat, NEW at \in Nat, NEW then \in Nat, NEW r \in Nat
    PROVE  (now - at) * r + (at - then) * r = (now - then) * r
OBVIOUS

LEMMA Products ==
    ASSUME NEW a \in Int, NEW r \in Nat
    PROVE  a * r \in Int /\ (a \in Nat => a * r \in Nat)
OBVIOUS

\* The arithmetic of a step: a is what was granted, b and d what was refilled
\* till then and till now, e what was refilled in between.
LEMMA Balance ==
    ASSUME NEW a \in Int, NEW b \in Int, NEW d \in Int, NEW e \in Nat, NEW l \in Nat, NEW t \in Nat,
           NEW full \in Nat, a + t <= full + b, e + b = d, l <= t + e
    PROVE  a + l <= full + d
OBVIOUS

LEMMA OneMore ==
    ASSUME NEW k \in Nat, NEW i \in Int, NEW c \in Nat
    PROVE  /\ ((k + 1) - i + 1) * c = (k - i + 1) * c + c
           /\ ((k + 1) - (k + 1) + 1) * c = c
OBVIOUS

LEMMA RateInitInv == GateInit => RateInv
BY GateAssumption DEF GateInit, RateInv, RateTypeOK, Covered, RateBound

LEMMA CheckKeepsRates ==
    ASSUME RateInv, clock' = clock, NEW n \in Name, NEW within \in BOOLEAN, Check(n, within)
    PROVE  RateInv'
<1> DEFINE g == grants[n]
           k == Len(g)
           old == bucket[n]
           new == bucket'[n]
<1>0. Capacity \in Nat /\ Cost \in Nat /\ Refill \in Nat /\ MaxTime \in Nat
  BY GateAssumption
<1>1. /\ clock \in Nat /\ g \in Seq(Nat) /\ k \in Nat
      /\ old.tokens \in 0 .. Capacity /\ old.at \in Nat /\ old.at <= clock
      /\ DOMAIN g = 1 .. k /\ \A i \in 1 .. k : g[i] \in Nat
  <2>1. old \in [tokens : 0 .. Capacity, at : Nat] /\ g \in Seq(Nat)
    BY DEF RateInv, RateTypeOK
  <2>2. clock \in Nat /\ old.at <= clock
    BY <1>0 DEF RateInv, RateTypeOK, Covered
  <2>3. k \in Nat /\ DOMAIN g = 1 .. k /\ \A i \in 1 .. k : g[i] \in Nat
    BY <2>1, ElementOfSeq, LenProperties
  <2> QED BY <2>1, <2>2, <2>3
<1>2. /\ (clock - old.at) * Refill \in Nat
      /\ Level(n) \in 0 .. Capacity /\ Level(n) <= old.tokens + (clock - old.at) * Refill
  <2>1. (clock - old.at) \in Nat
    BY <1>1
  <2>2. (clock - old.at) * Refill \in Nat
    BY <1>0, <2>1, Products
  <2>3. ASSUME NEW e \in Nat, e = (clock - old.at) * Refill
        PROVE  Level(n) \in 0 .. Capacity /\ Level(n) <= old.tokens + e
    <3>1. Level(n) = IF old.tokens + e > Capacity THEN Capacity ELSE old.tokens + e
      BY <2>3 DEF Level
    <3>2. old.tokens \in 0 .. Capacity
      BY <1>1
    <3> HIDE DEF g, k, old, new
    <3> QED BY <1>0, <3>1, <3>2
  <2> QED BY <2>2, <2>3
<1>3. /\ within = (Level(n) >= Cost)
      /\ new.tokens = (IF within THEN Level(n) - Cost ELSE Level(n)) /\ new.at = clock
      /\ bucket' \in [Name -> [tokens : 0 .. Capacity, at : Nat]]
      /\ \A m \in Name \ {n} : bucket'[m] = bucket[m]
  <2>1. within => Level(n) >= Cost
    BY DEF Check
  <2>2. (IF within THEN Level(n) - Cost ELSE Level(n)) \in 0 .. Capacity
    <3> HIDE DEF g, k, old, new
    <3> QED BY <1>0, <1>2, <2>1
  <2> QED BY <1>1, <2>2 DEF Check, RateInv, RateTypeOK
<1>4. /\ grants' \in [Name -> Seq(Nat)]
      /\ grants'[n] = (IF within THEN Append(g, clock) ELSE g)
      /\ \A m \in Name \ {n} : grants'[m] = grants[m]
  BY <1>1 DEF Check, RateInv, RateTypeOK
<1>5. RateTypeOK'
  BY <1>3, <1>4 DEF RateInv, RateTypeOK
<1> HIDE DEF g, k, old, new
<1>6. ASSUME NEW i \in 1 .. k
      PROVE  /\ g[i] <= clock /\ g[i] \in Nat
             /\ (k - i + 1) * Cost + Level(n) <= Capacity + (clock - g[i]) * Refill
  <2>1. g[i] <= old.at /\ (k - i + 1) * Cost + old.tokens <= Capacity + (old.at - g[i]) * Refill
    BY <1>1 DEF RateInv, Covered, g, k, old
  <2>2. (clock - old.at) * Refill + (old.at - g[i]) * Refill = (clock - g[i]) * Refill
    BY <1>0, <1>1, Elapsed
  <2>3. (k - i + 1) * Cost \in Int /\ (old.at - g[i]) * Refill \in Int /\ (clock - g[i]) * Refill \in Int
    <3>1. k - i + 1 \in Int /\ old.at - g[i] \in Int /\ clock - g[i] \in Int
      BY <1>1
    <3> QED BY <1>0, <3>1, Products
  <2>4. old.tokens \in Nat /\ Level(n) \in Nat
    BY <1>0, <1>1, <1>2
  <2>5. (k - i + 1) * Cost + Level(n) <= Capacity + (clock - g[i]) * Refill
    BY <1>0, <1>2, <2>1, <2>2, <2>3, <2>4, Balance
  <2> QED BY <1>1, <2>1, <2>5
<1>7. ASSUME bucket'[n].at <= clock,
             \A i \in DOMAIN grants'[n] :
                /\ grants'[n][i] <= bucket'[n].at
                /\ (Len(grants'[n]) - i + 1) * Cost + bucket'[n].tokens
                      <= Capacity + (bucket'[n].at - grants'[n][i]) * Refill
      PROVE  Covered'
  <2> SUFFICES ASSUME NEW m \in Name
               PROVE  /\ bucket'[m].at <= clock'
                      /\ \A i \in DOMAIN grants'[m] :
                            /\ grants'[m][i] <= bucket'[m].at
                            /\ (Len(grants'[m]) - i + 1) * Cost + bucket'[m].tokens
                                  <= Capacity + (bucket'[m].at - grants'[m][i]) * Refill
    BY DEF Covered
  <2>1. CASE m = n
    BY <1>7, <2>1
  <2>2. CASE m # n
    <3>1. grants'[m] = grants[m] /\ bucket'[m] = bucket[m]
      BY <1>3, <1>4, <2>2
    <3> QED BY <3>1 DEF RateInv, Covered
  <2> QED BY <2>1, <2>2
<1>8. Covered' /\ RateBound'
  <2>1. CASE ~within
    <3>1. grants'[n] = g /\ new.tokens = Level(n)
      BY <1>3, <1>4, <2>1
    <3>2. Covered'
      <4>1. \A i \in DOMAIN grants'[n] :
                /\ grants'[n][i] <= new.at
                /\ (Len(grants'[n]) - i + 1) * Cost + new.tokens <= Capacity + (new.at - grants'[n][i]) * Refill
        BY <1>1, <1>3, <1>6, <3>1 DEF k
      <4> QED BY <1>3, <1>7, <4>1 DEF new
    <3>3. RateBound'
      BY <1>4, <3>1 DEF RateBound, RateInv, g
    <3> QED BY <3>2, <3>3
  <2>2. CASE within
    <3>1. /\ grants'[n] = Append(g, clock) /\ new.tokens = Level(n) - Cost /\ Level(n) >= Cost
          /\ Len(grants'[n]) = k + 1 /\ DOMAIN grants'[n] = 1 .. k + 1
          /\ \A i \in 1 .. k : grants'[n][i] = g[i]
          /\ grants'[n][k + 1] = clock
      <4>1. grants'[n] = Append(g, clock) /\ new.tokens = Level(n) - Cost /\ Level(n) >= Cost
        BY <1>3, <1>4, <2>2
      <4> QED BY <4>1, <1>1, AppendProperties DEF k
    <3>2. ASSUME NEW i \in 1 .. k + 1
          PROVE  /\ grants'[n][i] <= clock
                 /\ ((k + 1) - i + 1) * Cost + new.tokens <= Capacity + (clock - grants'[n][i]) * Refill
                 /\ ((k + 1) - i + 1) * Cost <= Capacity + (clock - grants'[n][i]) * Refill
      <4>1. CASE i \in 1 .. k
        <5>1. ((k + 1) - i + 1) * Cost = (k - i + 1) * Cost + Cost
          BY <1>0, <1>1, OneMore
        <5>2. (k - i + 1) * Cost \in Int /\ (clock - g[i]) * Refill \in Int
          <6>1. k - i + 1 \in Int /\ clock - g[i] \in Int
            BY <1>1, <4>1
          <6> QED BY <1>0, <6>1, Products
        <5>3. ASSUME NEW a \in Int, NEW b \in Int, NEW l \in Nat, NEW c \in Nat, l >= c, a + l <= Capacity + b
              PROVE  (a + c) + (l - c) <= Capacity + b /\ a + c <= Capacity + b
          BY <1>0, <5>3
        <5>4. Level(n) \in Nat
          BY <1>0, <1>2
        <5> QED BY <1>0, <1>6, <3>1, <4>1, <5>1, <5>2, <5>3, <5>4
      <4>2. CASE i = k + 1
        <5>1. ((k + 1) - i + 1) * Cost = Cost
          BY <1>0, <1>1, <4>2, OneMore
        <5>2. grants'[n][i] = clock /\ (clock - grants'[n][i]) * Refill = 0
          <6>1. (clock - clock) * Refill = 0
            BY <1>0, <1>1
          <6> QED BY <3>1, <4>2, <6>1
        <5>3. Cost + new.tokens = Level(n) /\ Level(n) <= Capacity /\ Cost <= Capacity
          BY <1>0, <1>2, <3>1
        <5>4. clock <= clock /\ Cost + new.tokens <= Capacity + 0 /\ Cost <= Capacity + 0
          BY <1>0, <1>1, <1>2, <5>3
        <5> QED BY <5>1, <5>2, <5>4
      <4> QED BY <1>1, <4>1, <4>2
    <3>3. Covered'
      <4>1. \A i \in DOMAIN grants'[n] :
                /\ grants'[n][i] <= new.at
                /\ (Len(grants'[n]) - i + 1) * Cost + new.tokens <= Capacity + (new.at - grants'[n][i]) * Refill
        BY <1>1, <1>3, <3>1, <3>2
      <4> QED BY <1>3, <1>7, <4>1 DEF new
    <3>4. RateBound'
      <4>1. ASSUME NEW i \in 1 .. k + 1, NEW j \in 1 .. k + 1, i <= j
            PROVE  (j - i + 1) * Cost <= Capacity + (grants'[n][j] - grants'[n][i]) * Refill
        <5>1. CASE j \in 1 .. k
          <6>1. i \in 1 .. k /\ j \in 1 .. k
            BY <1>1, <4>1, <5>1
          <6> QED BY <1>1, <3>1, <4>1, <6>1 DEF RateBound, RateInv, g
        <5>2. CASE j = k + 1
          BY <1>1, <3>1, <3>2, <5>2
        <5> QED BY <1>1, <5>1, <5>2
      <4> QED BY <1>4, <3>1, <4>1 DEF RateBound, RateInv
    <3> QED BY <3>3, <3>4
  <2> QED BY <2>1, <2>2
<1> QED BY <1>5, <1>8 DEF RateInv

\* Time refills, it takes nothing away.
LEMMA TimeKeepsRates ==
    ASSUME RateInv, clock' \in clock .. MaxTime, UNCHANGED <<bucket, grants>>
    PROVE  RateInv'
<1>1. RateTypeOK' /\ RateBound'
  BY GateAssumption DEF RateInv, RateTypeOK, RateBound
<1>2. Covered'
  <2>1. \A n \in Name : bucket[n].at \in Nat
    BY DEF RateInv, RateTypeOK
  <2> QED BY <2>1, GateAssumption DEF RateInv, RateTypeOK, Covered
<1> QED BY <1>1, <1>2 DEF RateInv

-----------------------------------------------------------------------------
(* The audit chain. *)

Entries == [name : Name, decision : Decisions]
Records == [content : Entries, prev_hash : Seq(Entries), record_hash : Seq(Entries)]

TrailTypeOK ==
    /\ head \in Seq(Entries)
    /\ log \in Seq(Records)
    /\ lost \in {"none", "tail", "inner"}

\* As many records are below a hash as its place in the trail says.
Numbered == \A i \in DOMAIN log : Len(log[i].prev_hash) = i - 1 /\ Len(log[i].record_hash) = i

\* As long as nothing but the latest records is missing, the trail is linked and
\* numbered and ends at the head of the chain, or short of it.
Linked ==
    /\ verify_chain(log, GENESIS) <=> lost # "inner"
    /\ lost # "inner" => Numbered
    /\ lost = "none" => /\ Len(head) = Len(log)
                        /\ head = IF Len(log) = 0 THEN GENESIS ELSE log[Len(log)].record_hash
    /\ lost = "tail" => Len(head) > Len(log)

TrailInv == TrailTypeOK /\ Linked

LEMMA TrailInitInv == GateInit => TrailInv
<1> SUFFICES ASSUME GateInit PROVE TrailInv
  OBVIOUS
<1>1. head = <<>> /\ log = <<>> /\ lost = "none" /\ DOMAIN log = {} /\ Len(log) = 0 /\ Len(head) = 0
  BY DEF GateInit, GENESIS
<1>2. <<>> \in Seq(Entries) /\ <<>> \in Seq(Records)
  OBVIOUS
<1> QED BY <1>1, <1>2 DEF TrailInv, TrailTypeOK, Linked, verify_chain, Numbered, GENESIS

\* The record of one call, written or lost.
LEMMA AuditKeepsTrail ==
    ASSUME TrailInv, NEW content \in Entries, NEW lossy, Audit(content, lossy)
    PROVE  TrailInv'
<1> DEFINE k == Len(log)
           r == Stamp(head, content)
<1>1. /\ head \in Seq(Entries) /\ log \in Seq(Records) /\ k \in Nat /\ DOMAIN log = 1 .. k
      /\ Len(head) \in Nat /\ lost \in {"none", "tail", "inner"}
      /\ \A i \in 1 .. k : log[i] \in Records
  BY ElementOfSeq, LenProperties DEF TrailInv, TrailTypeOK
<1>2. head' \in Seq(Entries) /\ head' = Append(head, content) /\ Len(head') = Len(head) + 1
  BY <1>1, AppendProperties DEF Audit, compute_hash
<1>3. /\ r.content = content /\ r.prev_hash = head /\ r.record_hash = head' /\ r \in Records
  BY <1>1, <1>2 DEF Stamp, Records, compute_hash
<1>4. ASSUME log' = log, lost' = IF lost = "none" THEN "tail" ELSE lost PROVE TrailInv'
  <2>1. TrailTypeOK'
    BY <1>1, <1>2, <1>4 DEF TrailTypeOK
  <2>2. Numbered' <=> Numbered
    BY <1>4 DEF Numbered
  <2>3. verify_chain(log', GENESIS) <=> verify_chain(log, GENESIS)
    BY <1>4
  <2>4. lost' = "tail" => Len(head') > Len(log')
    BY <1>1, <1>2, <1>4 DEF TrailInv, Linked
  <2> QED BY <1>4, <2>1, <2>2, <2>3, <2>4 DEF TrailInv, Linked
<1>5. ASSUME log' = Append(log, r), lost' = IF lost = "tail" THEN "inner" ELSE lost PROVE TrailInv'
  <2>1. /\ log' \in Seq(Records) /\ Len(log') = k + 1 /\ DOMAIN log' = 1 .. k + 1
        /\ \A i \in 1 .. k : log'[i] = log[i]
        /\ log'[k + 1] = r
    <3> HIDE DEF r
    <3> QED BY <1>1, <1>3, <1>5, AppendProperties DEF k
  <2>2. TrailTypeOK'
    BY <1>1, <1>2, <1>5, <2>1 DEF TrailTypeOK
  <2> HIDE DEF k, r
  \* The trail so far, and the link of the new record.
  <2>3. verify_chain(log', GENESIS) <=>
            /\ verify_chain(log, GENESIS)
            /\ head = IF k = 0 THEN GENESIS ELSE log[k].record_hash
    <3>1. verify_chain(log, GENESIS) <=>
              \A i \in 1 .. k : LET prev == IF i = 1 THEN GENESIS ELSE log[i - 1].record_hash
                                IN  /\ log[i].prev_hash = prev
                                    /\ log[i].record_hash = compute_hash(prev, log[i].content)
      BY <1>1 DEF verify_chain
    <3>2. verify_chain(log', GENESIS) <=>
              \A i \in 1 .. k + 1 : LET prev == IF i = 1 THEN GENESIS ELSE log'[i - 1].record_hash
                                    IN  /\ log'[i].prev_hash = prev
                                        /\ log'[i].record_hash = compute_hash(prev, log'[i].content)
      BY <2>1 DEF verify_chain
    <3>3. ASSUME NEW i \in 1 .. k
          PROVE  log'[i] = log[i] /\ (i # 1 => log'[i - 1] = log[i - 1]) /\ i \in 1 .. k + 1
      <4>1. i # 1 => i - 1 \in 1 .. k
        BY <1>1
      <4> QED BY <1>1, <2>1, <4>1
    <3>4. (IF k + 1 = 1 THEN GENESIS ELSE log'[(k + 1) - 1].record_hash)
              = (IF k = 0 THEN GENESIS ELSE log[k].record_hash)
      <4>1. (k + 1) - 1 = k /\ (k + 1 = 1 <=> k = 0) /\ (k # 0 => k \in 1 .. k)
        BY <1>1
      <4> QED BY <2>1, <4>1
    <3>5. \A i \in 1 .. k + 1 : i \in 1 .. k \/ i = k + 1
      BY <1>1
    <3>6. head' = compute_hash(head, content)
      BY <1>2 DEF compute_hash
    <3>7. ASSUME verify_chain(log', GENESIS)
          PROVE  verify_chain(log, GENESIS) /\ head = IF k = 0 THEN GENESIS ELSE log[k].record_hash
      <4>1. k + 1 \in 1 .. k + 1
        BY <1>1
      <4>2. verify_chain(log, GENESIS)
        BY <3>1, <3>2, <3>3, <3>7
      <4> QED BY <1>3, <2>1, <3>2, <3>4, <3>7, <4>1, <4>2
    <3>8. ASSUME verify_chain(log, GENESIS), head = IF k = 0 THEN GENESIS ELSE log[k].record_hash
          PROVE  verify_chain(log', GENESIS)
      <4> SUFFICES ASSUME NEW i \in 1 .. k + 1
                   PROVE  LET prev == IF i = 1 THEN GENESIS ELSE log'[i - 1].record_hash
                          IN  /\ log'[i].prev_hash = prev
                              /\ log'[i].record_hash = compute_hash(prev, log'[i].content)
        BY <3>2
      <4>1. CASE i \in 1 .. k
        BY <3>1, <3>3, <3>8, <4>1
      <4>2. CASE i = k + 1
        BY <1>3, <2>1, <3>4, <3>6, <3>8, <4>2
      <4> QED BY <3>5, <4>1, <4>2
    <3> QED BY <3>7, <3>8
  <2>4. CASE lost = "none"
    <3>1. /\ Numbered /\ Len(head) = k /\ lost' = "none" /\ verify_chain(log, GENESIS)
          /\ head = IF k = 0 THEN GENESIS ELSE log[k].record_hash
      BY <1>5, <2>4 DEF TrailInv, Linked, k
    <3>2. Numbered'
      <4>1. ASSUME NEW i \in 1 .. k + 1
            PROVE  Len(log'[i].prev_hash) = i - 1 /\ Len(log'[i].record_hash) = i
        <5>1. CASE i \in 1 .. k
          BY <1>1, <2>1, <3>1, <5>1 DEF Numbered
        <5>2. CASE i = k + 1
          BY <1>1, <1>2, <1>3, <2>1, <3>1, <5>2
        <5> QED BY <1>1, <5>1, <5>2
      <4> QED BY <2>1, <4>1 DEF Numbered
    <3>3. Len(log') # 0 /\ log'[Len(log')].record_hash = head' /\ Len(head') = Len(log')
      BY <1>1, <1>2, <1>3, <2>1, <3>1
    <3> QED BY <2>2, <2>3, <3>1, <3>2, <3>3 DEF TrailInv, Linked
  <2>5. CASE lost = "tail"
    <3>1. Len(head) > k /\ Numbered /\ lost' = "inner"
      BY <1>5, <2>5 DEF TrailInv, Linked, k
    <3>2. ~(head = IF k = 0 THEN GENESIS ELSE log[k].record_hash)
      <4>1. Len(GENESIS) = 0
        BY DEF GENESIS
      <4>2. k # 0 => k \in DOMAIN log
        BY <1>1
      <4> QED BY <1>1, <3>1, <4>1, <4>2 DEF Numbered
    <3> QED BY <2>2, <2>3, <3>1, <3>2 DEF TrailInv, Linked
  <2>6. CASE lost = "inner"
    <3>1. lost' = "inner" /\ ~verify_chain(log, GENESIS)
      BY <1>5, <2>6 DEF TrailInv, Linked
    <3> QED BY <2>2, <2>3, <3>1 DEF TrailInv, Linked
  <2> QED BY <1>1, <2>4, <2>5, <2>6
<1> QED BY <1>4, <1>5 DEF Audit

LEMMA TrailFrame ==
    ASSUME TrailInv, UNCHANGED <<head, log, lost>>
    PROVE  TrailInv'
BY DEF TrailInv, TrailTypeOK, Linked, Numbered, verify_chain

\* In a numbered trail nothing stands for anything else: the record after a
\* deleted one, one of two swapped ones and a changed one do not fit their place.
LEMMA DeletionShows ==
    ASSUME TrailInv, lost # "inner", NEW i \in 1 .. Len(log) - 1
    PROVE  ~verify_chain(Without(log, i), GENESIS)
<1> DEFINE k == Len(log)
           before == SubSeq(log, 1, i - 1)
           after == SubSeq(log, i + 1, k)
           w == before \o after
<1>1. /\ log \in Seq(Records) /\ k \in Nat /\ DOMAIN log = 1 .. k /\ i \in 1 .. k /\ i + 1 \in 1 .. k
      /\ \A j \in 1 .. k : log[j] \in Records
  BY ElementOfSeq, LenProperties DEF TrailInv, TrailTypeOK
<1>2. Numbered
  BY DEF TrailInv, Linked
<1>3. /\ before \in Seq(Records) /\ Len(before) = i - 1 /\ \A j \in 1 .. i - 1 : before[j] = log[j]
  <2>1. \A j \in 1 .. i - 1 : log[j] \in Records
    BY <1>1
  <2>2. 1 \in Nat /\ i - 1 \in Nat /\ (1 <= i - 1 => 1 \in 1 .. k /\ i - 1 \in 1 .. k) /\ i - 1 <= k
    BY <1>1
  <2>3. CASE i = 1
    <3>1. before = <<>>
      BY <1>1, <2>3, SubSeqProperties
    <3> QED BY <2>3, <3>1
  <2>4. CASE i # 1
    BY <1>1, <2>1, <2>2, <2>4, SubSeqProperties
  <2> QED BY <2>3, <2>4
<1>4. after \in Seq(Records) /\ Len(after) = k - i /\ after[1] = log[i + 1]
  <2>1. \A j \in i + 1 .. k : log[j] \in Records
    BY <1>1
  <2>2. i + 1 \in 1 .. k /\ k \in 1 .. k /\ i + 1 <= k
    BY <1>1
  <2> QED BY <1>1, <2>1, <2>2, SubSeqProperties
<1> HIDE DEF before, after
<1>5. /\ w \in Seq(Records) /\ Len(w) = (i - 1) + (k - i) /\ w[i] = log[i + 1]
      /\ \A j \in 1 .. i - 1 : w[j] = log[j]
  <2>1. /\ w \in Seq(Records) /\ Len(w) = Len(before) + Len(after)
        /\ \A j \in 1 .. Len(before) + Len(after) :
              w[j] = IF j <= Len(before) THEN before[j] ELSE after[j - Len(before)]
    BY <1>3, <1>4, ConcatProperties
  <2>2. /\ i \in 1 .. Len(before) + Len(after) /\ ~(i <= Len(before)) /\ i - Len(before) = 1
        /\ \A j \in 1 .. i - 1 : j \in 1 .. Len(before) + Len(after) /\ j <= Len(before)
    BY <1>1, <1>3, <1>4
  <2> QED BY <1>3, <1>4, <2>1, <2>2
<1> HIDE DEF w
<1>6. ASSUME verify_chain(w, GENESIS) PROVE FALSE
  <2>1. i \in DOMAIN w
    BY <1>1, <1>5
  <2>2. w[i].prev_hash = IF i = 1 THEN GENESIS ELSE w[i - 1].record_hash
    BY <1>6, <2>1 DEF verify_chain
  <2>3. Len(w[i].prev_hash) = i
    BY <1>1, <1>2, <1>5 DEF Numbered
  <2>4. CASE i = 1
    BY <2>2, <2>3, <2>4 DEF GENESIS
  <2>5. CASE i # 1
    <3>1. i - 1 \in 1 .. i - 1 /\ i - 1 \in DOMAIN log
      BY <1>1, <2>5
    <3>2. w[i].prev_hash = log[i - 1].record_hash /\ Len(log[i - 1].record_hash) = i - 1
      BY <1>2, <1>5, <2>2, <2>5, <3>1 DEF Numbered
    <3> QED BY <1>1, <2>3, <3>2
  <2> QED BY <2>4, <2>5
<1> QED BY <1>6 DEF Without, w, before, after, k

LEMMA SwapShows ==
    ASSUME TrailInv, lost # "inner", NEW i \in DOMAIN log, NEW j \in DOMAIN log, i < j
    PROVE  /\ ~verify_chain([log EXCEPT ![i] = log[j], ![j] = log[i]], GENESIS)
           /\ ~verify_chain([log EXCEPT ![j] = log[i], ![i] = log[j]], GENESIS)
<1>1. DOMAIN log = 1 .. Len(log) /\ Len(log) \in Nat /\ Numbered
  BY LenProperties DEF TrailInv, TrailTypeOK, Linked
<1>2. ASSUME NEW w, DOMAIN w = DOMAIN log, w[i] = log[j], \A m \in DOMAIN log \ {i, j} : w[m] = log[m],
             verify_chain(w, GENESIS)
      PROVE  FALSE
  <2>1. w[i].prev_hash = IF i = 1 THEN GENESIS ELSE w[i - 1].record_hash
    BY <1>2 DEF verify_chain
  <2>2. Len(w[i].prev_hash) = j - 1
    BY <1>1, <1>2 DEF Numbered
  <2>3. CASE i = 1
    BY <1>1, <2>1, <2>2, <2>3 DEF GENESIS
  <2>4. CASE i # 1
    <3>1. i - 1 \in DOMAIN log \ {i, j}
      BY <1>1, <2>4
    <3>2. Len(w[i - 1].record_hash) = i - 1
      BY <1>1, <1>2, <3>1 DEF Numbered
    <3> QED BY <1>1, <2>1, <2>2, <2>4, <3>2
  <2> QED BY <2>3, <2>4
<1>3. i # j
  BY <1>1
<1> DEFINE a == [log EXCEPT ![i] = log[j], ![j] = log[i]]
           b == [log EXCEPT ![j] = log[i], ![i] = log[j]]
<1>4. DOMAIN a = DOMAIN log /\ a[i] = log[j] /\ \A m \in DOMAIN log \ {i, j} : a[m] = log[m]
  BY <1>3
<1>5. DOMAIN b = DOMAIN log /\ b[i] = log[j] /\ \A m \in DOMAIN log \ {i, j} : b[m] = log[m]
  BY <1>3
<1> HIDE DEF a, b
<1>6. ~verify_chain(a, GENESIS) /\ ~verify_chain(b, GENESIS)
  BY <1>2, <1>4, <1>5
<1> QED BY <1>6 DEF a, b

LEMMA ChangeShows ==
    ASSUME TrailInv, lost # "inner", NEW i \in DOMAIN log,
           NEW d \in Decisions \ {log[i].content.decision}
    PROVE  ~verify_chain([log EXCEPT ![i].content.decision = d], GENESIS)
<1> DEFINE w == [log EXCEPT ![i].content.decision = d]
           hash == log[i].record_hash
<1>1. /\ DOMAIN log = 1 .. Len(log) /\ Len(log) \in Nat /\ Numbered /\ verify_chain(log, GENESIS)
      /\ log[i] \in Records
  BY LenProperties, ElementOfSeq DEF TrailInv, TrailTypeOK, Linked
<1>2. /\ DOMAIN w = DOMAIN log /\ w[i].record_hash = hash /\ w[i].prev_hash = log[i].prev_hash
      /\ w[i].content.decision = d /\ w[i].content \in Entries
  BY <1>1 DEF Records, Entries
<1>3. log[i].prev_hash \in Seq(Entries) /\ log[i].content \in Entries
  BY <1>1 DEF Records
<1>4. hash = Append(log[i].prev_hash, log[i].content)
  BY <1>1 DEF verify_chain, compute_hash
<1> HIDE DEF w
<1>5. ASSUME verify_chain(w, GENESIS) PROVE FALSE
  <2>1. w[i].record_hash = Append(w[i].prev_hash, w[i].content)
    BY <1>2, <1>5 DEF verify_chain, compute_hash
  <2>2. Append(log[i].prev_hash, w[i].content) = Append(log[i].prev_hash, log[i].content)
    BY <1>2, <1>4, <2>1
  <2>3. w[i].content = log[i].content
    BY <1>2, <1>3, <2>2, AppendInjective
  <2> QED BY <1>2, <2>3
<1> QED BY <1>5 DEF w

LEMMA TrailIsSound == TrailInv => AuditTrailSound
<1> SUFFICES ASSUME TrailInv PROVE AuditTrailSound
  OBVIOUS
<1>1. verify_chain(log, GENESIS) <=> lost # "inner"
  BY DEF TrailInv, Linked
<1>2. ASSUME lost # "inner", NEW i \in DOMAIN log, NEW j \in DOMAIN log, i # j
      PROVE  ~verify_chain([log EXCEPT ![i] = log[j], ![j] = log[i]], GENESIS)
  <2>1. i < j \/ j < i
    BY <1>2, LenProperties DEF TrailInv, TrailTypeOK
  <2> QED BY <1>2, <2>1, SwapShows
<1> QED BY <1>1, <1>2, DeletionShows, ChangeShows DEF AuditTrailSound

-----------------------------------------------------------------------------
GateInv == RateInv /\ TrailInv

LEMMA EvaluateKeepsGate ==
    ASSUME GateInv, NEW call, call.name \in Name, NEW limited, NEW lossy,
           NEW decision \in Decisions, Evaluate(call, limited, lossy, decision)
    PROVE  GateInv'
<1>1. RateInv'
  <2>1. CASE UNCHANGED <<bucket, grants>>
    <3>1. clock' \in clock .. MaxTime
      BY GateAssumption DEF Evaluate, GateInv, RateInv, RateTypeOK
    <3> QED BY <2>1, <3>1, TimeKeepsRates DEF GateInv
  <2>2. ASSUME NEW within \in BOOLEAN, Check(call.name, within) PROVE RateInv'
    BY <2>2, CheckKeepsRates DEF Evaluate, GateInv
  <2> QED BY <2>1, <2>2 DEF Evaluate, Throttle
<1>2. TrailInv'
  <2>1. [name |-> call.name, decision |-> decision] \in Entries
    BY DEF Entries
  <2> QED BY <2>1, AuditKeepsTrail DEF Evaluate, GateInv
<1> QED BY <1>1, <1>2 DEF GateInv

LEMMA SurroundingsKeepGate ==
    ASSUME GateInv, GateTick \/ \E n \in Name : OtherRun(n)
    PROVE  GateInv'
<1>1. ASSUME GateTick PROVE GateInv'
  <2>1. clock' \in clock .. MaxTime
    BY <1>1, GateAssumption DEF GateTick, GateInv, RateInv, RateTypeOK
  <2> QED BY <1>1, <2>1, TimeKeepsRates, TrailFrame DEF GateTick, GateInv
<1>2. ASSUME NEW n \in Name, OtherRun(n) PROVE GateInv'
  BY <1>2, CheckKeepsRates, TrailFrame DEF OtherRun, GateInv
<1> QED BY <1>1, <1>2

LEMMA GateFrame ==
    ASSUME GateInv, UNCHANGED gateVars
    PROVE  GateInv'
<1>1. clock' \in clock .. MaxTime
  BY GateAssumption DEF gateVars, GateInv, RateInv, RateTypeOK
<1> QED BY <1>1, TimeKeepsRates, TrailFrame DEF gateVars, GateInv

-----------------------------------------------------------------------------
(* The loop. *)


Results == [name : Name, content : Contents]
Busy == pc \in {"judge", "run"}

\* The turn is answered from the front; while there is something to answer the
\* loop is not out of iterations.
Answering ==
    /\ config \in Config
    /\ pc \in {"model", "judge", "run", "done"}
    /\ iteration \in 0 .. MaxIterations
    /\ turn \in Seq(Call) /\ Len(turn) <= MaxCalls
    /\ results \in Seq(Results) /\ Len(results) <= Len(turn)
    /\ \A i \in DOMAIN results : results[i].name = turn[i].name
    /\ pc = "model" => Len(results) = Len(turn)
    /\ Busy => Len(results) < Len(turn) /\ iteration < MaxIterations
    /\ outcome \in {"none", "text", "raised", "error_event"}
    /\ outcome = "none" <=> pc # "done"

\* Calls answered so far, at most.
Dispatched == iteration * MaxCalls + IF pc = "model" THEN 0 ELSE Len(results)

\* The cap is kept, and a call that counts was answered and is remembered.
Counted ==
    /\ counts \in [Name -> 0 .. NoCap]
    /\ ran \in [Name -> Nat]
    /\ last \in [Name -> Contents \cup {"nothing"}]
    /\ CapHolds
    /\ pc = "run" => counts[Current.name] < config.cap
    /\ pc # "done" => \A n \in Name : counts[n] <= Dispatched

\* A turn that is being answered is paid for already.
Paid ==
    /\ spent \in 0 .. MaxIterations * MaxTokens
    /\ pc = "model" => spent <= iteration * MaxTokens
    /\ Busy => spent <= (iteration + 1) * MaxTokens
    /\ CostCapHolds

MayRun(call) ==
    IF config.gate
    THEN Policy(call.name) = "allow" /\ (call.target = "other" => call.delegated)
    ELSE config.ungated \/ Risk[call.name] = "read"

\* The call under way may run, and behind a gate has an approval of its own.
Permitted ==
    /\ pc = "run" => MayRun(Current)
    /\ config.gate =>
          /\ \A n \in Name : ran[n] <= Approvals(n)
          /\ pc = "run" => ran[Current.name] < Approvals(Current.name)

\* Neither in the conversation nor in the cache.
Clean ==
    config.guard =>
        /\ \A i \in DOMAIN results : results[i].content # "poison"
        /\ \A n \in Name : last[n] # "poison"

LoopInv == GateInv /\ Answering /\ Counted /\ Paid /\ Permitted /\ Clean

-----------------------------------------------------------------------------
LEMMA Rounds ==
    ASSUME NEW a \in Nat, NEW b \in Nat, NEW c \in Nat, a < b
    PROVE  a * c \in Nat /\ b * c \in Nat /\ (a + 1) * c = a * c + c /\ a * c + c <= b * c
<1>1. b - (a + 1) \in Nat
  OBVIOUS
<1>2. a * c \in Nat /\ b * c \in Nat /\ (b - (a + 1)) * c \in Nat
  BY <1>1, Products
<1>3. (a + 1) * c = a * c + c
  OBVIOUS
<1>4. (b - (a + 1)) * c + (a + 1) * c = b * c
  OBVIOUS
<1> QED BY <1>2, <1>3, <1>4

\* What a call adds to the approvals on record.
LEMMA ApprovalsGrow ==
    ASSUME head \in Seq(Entries), NEW e \in Entries, head' = Append(head, e), NEW n
    PROVE  /\ Approvals(n) \in Nat
           /\ Approvals(n)' = IF e = Allowed(n) THEN Approvals(n) + 1 ELSE Approvals(n)
<1> DEFINE k == Len(head)
           S == {i \in DOMAIN head : head[i] = Allowed(n)}
           T == {i \in DOMAIN head' : head'[i] = Allowed(n)}
<1>1. /\ k \in Nat /\ DOMAIN head = 1 .. k /\ DOMAIN head' = 1 .. k + 1
      /\ \A i \in 1 .. k : head'[i] = head[i]
      /\ head'[k + 1] = e
  BY AppendProperties, LenProperties
<1>2. T = IF e = Allowed(n) THEN S \cup {k + 1} ELSE S
  BY <1>1
<1>3. IsFiniteSet(S) /\ k + 1 \notin S
  <2>1. S \subseteq 1 .. k /\ k + 1 \notin 1 .. k
    BY <1>1
  <2>2. IsFiniteSet(1 .. k)
    BY <1>1, FS_Interval
  <2> QED BY <2>1, <2>2, FS_Subset
<1>4. Cardinality(S) \in Nat /\ Cardinality(S \cup {k + 1}) = Cardinality(S) + 1
  BY <1>3, FS_CardinalityType, FS_AddElement
<1>5. Approvals(n) = Cardinality(S) /\ Approvals(n)' = Cardinality(T)
  BY DEF Approvals, Allowed
<1> HIDE DEF S, T
<1> QED BY <1>2, <1>4, <1>5

LEMMA ApprovalsAreNat ==
    ASSUME head \in Seq(Entries), NEW n
    PROVE  Approvals(n) \in Nat
<1>1. DOMAIN head = 1 .. Len(head) /\ Len(head) \in Nat
  BY LenProperties
<1>2. {i \in DOMAIN head : head[i] = Allowed(n)} \subseteq 1 .. Len(head) /\ IsFiniteSet(1 .. Len(head))
  BY <1>1, FS_Interval
<1>3. IsFiniteSet({i \in DOMAIN head : head[i] = Allowed(n)})
  BY <1>2, FS_Subset
<1> QED BY <1>3, FS_CardinalityType DEF Approvals

LEMMA ConfigTyped ==
    ASSUME config \in Config
    PROVE  /\ config.cap \in Nat /\ config.budget \in Nat /\ config.repertoire \subseteq Call
           /\ Tokens \subseteq 0 .. MaxTokens
           /\ MaxIterations \in Nat /\ MaxCalls \in Nat /\ MaxTokens \in Nat
<1>1. MaxIterations \in Nat /\ MaxCalls \in Nat /\ MaxTokens \in Nat /\ ConfigOK(config)
  BY LoopAssumption
<1>2. config.cap \in Nat /\ config.budget \in Nat /\ config.repertoire \subseteq Call
  BY <1>1 DEF ConfigOK
<1> QED BY <1>1, <1>2 DEF Tokens

LEMMA LoopInitInv == Init => LoopInv
<1> SUFFICES ASSUME Init PROVE LoopInv
  OBVIOUS
<1>1. GateInv
  BY RateInitInv, TrailInitInv DEF Init, GateInv
<1>2. /\ config \in Config /\ pc = "model" /\ iteration = 0 /\ turn = <<>> /\ results = <<>>
      /\ counts = [n \in Name |-> 0] /\ last = [n \in Name |-> "nothing"] /\ spent = 0
      /\ ran = [n \in Name |-> 0] /\ outcome = "none"
  BY DEF Init
<1>3. MaxIterations \in Nat /\ MaxCalls \in Nat /\ MaxTokens \in Nat /\ config.cap \in Nat
  BY <1>2, ConfigTyped
<1>4. Answering
  <2>1. <<>> \in Seq(Call) /\ <<>> \in Seq(Results) /\ DOMAIN results = {} /\ Len(turn) = 0 /\ Len(results) = 0
    BY <1>2
  <2> QED BY <1>2, <1>3, <2>1 DEF Answering, Busy
<1>5. 0 * MaxCalls = 0 /\ 0 * MaxTokens = 0 /\ NoCap \in Nat /\ MaxIterations * MaxTokens \in Nat
  BY <1>3, Products DEF NoCap
<1>6. Counted
  <2>1. Dispatched = 0
    BY <1>2, <1>5 DEF Dispatched
  <2> QED BY <1>2, <1>3, <1>5, <2>1 DEF Counted, CapHolds
<1>7. Paid
  <2>1. ~OverBudget(spent)
    BY <1>2, ConfigTyped DEF OverBudget
  <2> QED BY <1>2, <1>5, <2>1 DEF Paid, Busy, CostCapHolds
<1>8. Permitted
  <2>1. \A n \in Name : Approvals(n) \in Nat
    BY <1>1, ApprovalsAreNat DEF GateInv, TrailInv, TrailTypeOK
  <2> QED BY <1>2, <2>1 DEF Permitted
<1>9. Clean
  BY <1>2 DEF Clean
<1> QED BY <1>1, <1>4, <1>6, <1>7, <1>8, <1>9 DEF LoopInv

-----------------------------------------------------------------------------
(* Steps of the loop that leave the counts alone: it asks the model, or ends. *)

LEMMA EndKeepsInv ==
    ASSUME LoopInv, NEW how \in {"text", "raised", "error_event"}, End(how), GateInv',
           head' = head, spent' \in 0 .. MaxIterations * MaxTokens,
           UNCHANGED <<config, iteration, turn, results, counts, last, ran>>
    PROVE  LoopInv'
<1>1. pc' = "done" /\ outcome' = how
  BY DEF End
<1>2. Answering'
  BY <1>1 DEF LoopInv, Answering, Busy
<1>3. Counted'
  BY <1>1 DEF LoopInv, Counted, CapHolds
<1>4. Paid'
  BY <1>1 DEF Paid, Busy, CostCapHolds
<1>5. Permitted'
  <2>1. \A n : Approvals(n)' = Approvals(n)
    BY DEF Approvals, Allowed
  <2> QED BY <1>1, <2>1 DEF LoopInv, Permitted
<1>6. Clean'
  BY DEF LoopInv, Clean
<1> QED BY <1>2, <1>3, <1>4, <1>5, <1>6 DEF LoopInv

\* What a turn may cost.
LEMMA TurnIsPaid ==
    ASSUME LoopInv, TurnBegins, \E tokens \in Tokens : Account(tokens)
    PROVE  /\ spent' \in 0 .. MaxIterations * MaxTokens
           /\ spent' <= (iteration + 1) * MaxTokens
<1>1. PICK tokens \in Tokens : Account(tokens)
  OBVIOUS
<1>2. /\ iteration \in Nat /\ MaxIterations \in Nat /\ MaxTokens \in Nat /\ iteration < MaxIterations
      /\ tokens \in 0 .. MaxTokens
  BY <1>1, ConfigTyped DEF LoopInv, Answering, TurnBegins
<1>3. /\ iteration * MaxTokens \in Nat /\ MaxIterations * MaxTokens \in Nat
      /\ (iteration + 1) * MaxTokens = iteration * MaxTokens + MaxTokens
      /\ iteration * MaxTokens + MaxTokens <= MaxIterations * MaxTokens
  BY <1>2, Rounds
<1>4. spent \in 0 .. MaxIterations * MaxTokens /\ spent <= iteration * MaxTokens
  BY DEF LoopInv, Paid, TurnBegins
<1>5. spent' = spent \/ spent' = spent + tokens
  BY <1>1 DEF Account
<1> DEFINE a == iteration * MaxTokens
           b == MaxIterations * MaxTokens
<1> HIDE DEF a, b
<1>6. a \in Nat /\ b \in Nat /\ (iteration + 1) * MaxTokens = a + MaxTokens /\ a + MaxTokens <= b
      /\ spent \in 0 .. b /\ spent <= a
  BY <1>3, <1>4 DEF a, b
<1>7. spent' \in 0 .. b /\ spent' <= a + MaxTokens
  BY <1>2, <1>5, <1>6
<1> QED BY <1>6, <1>7 DEF a, b

LEMMA ModelStepsKeepInv ==
    ASSUME LoopInv, ModelEnds \/ ModelCalls \/ ModelFails
    PROVE  LoopInv'
<1>1. GateInv' /\ head' = head /\ UNCHANGED <<config, iteration, counts, last, ran>>
  <2>1. TurnFrame
    BY DEF ModelEnds, ModelCalls, ModelFails
  <2> QED BY <2>1, GateFrame DEF TurnFrame, LoopInv, gateVars
<1>2. CASE ModelEnds
  BY <1>1, <1>2, TurnIsPaid, EndKeepsInv DEF ModelEnds
<1>3. CASE ModelFails
  <2>1. (IF config.stream THEN "error_event" ELSE "raised") \in {"text", "raised", "error_event"}
    OBVIOUS
  <2>2. spent' \in 0 .. MaxIterations * MaxTokens
    BY <1>3 DEF ModelFails, LoopInv, Paid
  <2> QED BY <1>1, <1>3, <2>1, <2>2, EndKeepsInv DEF ModelFails
<1>4. CASE ModelCalls
  <2>1. /\ TurnBegins /\ pc' = "judge" /\ outcome' = outcome /\ results' = <<>>
        /\ pc = "model" /\ iteration < MaxIterations
        /\ \E tokens \in Tokens : Account(tokens) /\ ~OverBudget(spent')
    BY <1>4 DEF ModelCalls, TurnBegins
  <2>2. PICK n \in 1 .. MaxCalls : turn' \in [1 .. n -> config.repertoire]
    BY <1>4 DEF ModelCalls
  <2>3. turn' \in Seq(Call) /\ Len(turn') = n /\ n \in Nat /\ n <= MaxCalls /\ 0 < n
    <3>1. turn' \in [1 .. n -> Call] /\ n \in Nat
      BY <2>2, ConfigTyped DEF LoopInv, Answering
    <3> QED BY <2>2, <3>1, ConfigTyped DEF LoopInv, Answering
  <2>4. Answering'
    <3>1. <<>> \in Seq(Results) /\ Len(results') = 0 /\ DOMAIN results' = {}
      BY <2>1
    <3> QED BY <1>1, <2>1, <2>3, <3>1 DEF LoopInv, Answering, Busy
  <2>5. Counted'
    <3>1. Dispatched' = Dispatched
      <4>1. Len(results') = 0
        BY <2>1
      <4> QED BY <1>1, <2>1, <4>1 DEF Dispatched
    <3> QED BY <1>1, <2>1, <3>1 DEF LoopInv, Counted, CapHolds
  <2>6. Paid'
    <3>1. spent' \in 0 .. MaxIterations * MaxTokens /\ spent' <= (iteration + 1) * MaxTokens
      BY <2>1, TurnIsPaid
    <3>2. ~OverBudget(spent)'
      BY <1>1, <2>1 DEF OverBudget
    <3> QED BY <1>1, <2>1, <3>1, <3>2 DEF Paid, Busy, CostCapHolds
  <2>7. Permitted'
    <3>1. \A m : Approvals(m)' = Approvals(m)
      BY <1>1 DEF Approvals, Allowed
    <3> QED BY <1>1, <2>1, <3>1 DEF LoopInv, Permitted
  <2>8. Clean'
    BY <1>1, <2>1 DEF LoopInv, Clean
  <2> QED BY <1>1, <2>4, <2>5, <2>6, <2>7, <2>8 DEF LoopInv
<1> QED BY <1>2, <1>3, <1>4

LEMMA OtherEndsKeepInv ==
    ASSUME LoopInv, Exhausted \/ JudgeRaises \/ Abandon
    PROVE  LoopInv'
<1>1. /\ GateInv' /\ head' = head /\ UNCHANGED <<config, iteration, turn, results, counts, last, ran>>
      /\ spent' = spent
  <2>1. UNCHANGED gateVars /\ UNCHANGED <<config, iteration, turn, results, counts, last, ran>>
        /\ spent' = spent
    BY DEF Exhausted, TurnFrame, JudgeRaises, Abandon
  <2> QED BY <2>1, GateFrame DEF LoopInv, gateVars
<1>2. spent' \in 0 .. MaxIterations * MaxTokens
  BY <1>1 DEF LoopInv, Paid
<1>3. \E how \in {"text", "raised", "error_event"} : End(how)
  <2>1. CASE Exhausted
    BY <2>1 DEF Exhausted
  <2>2. CASE JudgeRaises \/ Abandon
    BY <2>2 DEF JudgeRaises, Abandon
  <2> QED BY <2>1, <2>2
<1> QED BY <1>1, <1>2, <1>3, EndKeepsInv

-----------------------------------------------------------------------------
(* The answer to a call. *)

LEMMA AnswerKeeps ==
    ASSUME LoopInv, Busy, NEW content \in Contents, Answer(content), DispatchFrame
    PROVE  /\ Answering' /\ Paid' /\ pc' \in {"model", "judge"}
           /\ Dispatched \in Nat /\ Dispatched + 1 <= Dispatched' /\ Dispatched' \in 0 .. NoCap
           /\ \A i \in DOMAIN results' : \/ i \in DOMAIN results /\ results'[i] = results[i]
                                         \/ results'[i].content = content
<1> DEFINE k == Len(results)
           r == [name |-> Current.name, content |-> content]
<1>1. /\ MaxIterations \in Nat /\ MaxCalls \in Nat /\ MaxTokens \in Nat
      /\ iteration \in Nat /\ iteration < MaxIterations
      /\ turn \in Seq(Call) /\ Len(turn) \in Nat /\ Len(turn) <= MaxCalls /\ k < Len(turn)
      /\ results \in Seq(Results) /\ k \in Nat /\ DOMAIN results = 1 .. k
      /\ config \in Config /\ outcome = "none"
      /\ \A i \in 1 .. k : results[i].name = turn[i].name
  BY ConfigTyped, LenProperties DEF LoopInv, Answering, Busy
<1>2. UNCHANGED <<config, turn, spent, outcome>>
  BY DEF DispatchFrame
<1>3. /\ results' = Append(results, r)
      /\ IF k + 1 = Len(turn) THEN pc' = "model" /\ iteration' = iteration + 1
         ELSE pc' = "judge" /\ iteration' = iteration
  BY DEF Answer
<1>4. r \in Results /\ r.name = turn[k + 1].name /\ r.content = content
  <2>1. k + 1 \in 1 .. Len(turn)
    BY <1>1
  <2>2. Current \in Call /\ Current = turn[k + 1]
    BY <1>1, <2>1, ElementOfSeq DEF Current
  <2> QED BY <2>2, LoopAssumption DEF Results
<1> HIDE DEF r
<1>5. /\ results' \in Seq(Results) /\ Len(results') = k + 1 /\ DOMAIN results' = 1 .. k + 1
      /\ \A i \in 1 .. k : results'[i] = results[i]
      /\ results'[k + 1] = r
  BY <1>1, <1>3, <1>4, AppendProperties
<1>6. pc' \in {"model", "judge"}
  BY <1>3
<1>7. Answering'
  <2>1. \A i \in 1 .. k + 1 : i \in 1 .. k \/ i = k + 1
    BY <1>1
  <2>2. \A i \in DOMAIN results' : results'[i].name = turn[i].name
    BY <1>1, <1>4, <1>5, <2>1
  <2>3. /\ iteration' \in 0 .. MaxIterations
        /\ pc' = "model" => Len(results') = Len(turn)
        /\ pc' = "judge" => Len(results') < Len(turn) /\ iteration' < MaxIterations
        /\ Len(results') <= Len(turn)
    BY <1>1, <1>3, <1>5
  <2> QED BY <1>1, <1>2, <1>5, <1>6, <2>2, <2>3 DEF Answering, Busy
<1>8. Dispatched \in Nat /\ Dispatched + 1 <= Dispatched' /\ Dispatched' \in 0 .. NoCap
  <2> DEFINE a == iteration * MaxCalls
  <2>1. /\ a \in Nat /\ NoCap \in Nat /\ (iteration + 1) * MaxCalls = a + MaxCalls
        /\ a + MaxCalls <= NoCap
    BY <1>1, Rounds DEF NoCap
  <2>2. Dispatched = a + k
    BY DEF Dispatched, Busy
  <2>3. Dispatched' = IF k + 1 = Len(turn) THEN a + MaxCalls ELSE a + (k + 1)
    <3>1. Dispatched' = iteration' * MaxCalls + IF pc' = "model" THEN 0 ELSE k + 1
      BY <1>5 DEF Dispatched
    <3>2. CASE k + 1 = Len(turn)
      BY <1>1, <1>3, <2>1, <3>1, <3>2
    <3>3. CASE k + 1 # Len(turn)
      BY <1>3, <3>1, <3>3
    <3> QED BY <3>2, <3>3
  <2> HIDE DEF a
  <2> QED BY <1>1, <2>1, <2>2, <2>3
<1>9. Paid'
  <2>1. spent \in 0 .. MaxIterations * MaxTokens /\ spent <= (iteration + 1) * MaxTokens /\ ~OverBudget(spent)
    BY DEF LoopInv, Paid, Busy, CostCapHolds
  <2>2. ~OverBudget(spent)'
    BY <1>2, <2>1 DEF OverBudget
  <2>3. /\ pc' = "model" => spent' <= iteration' * MaxTokens
        /\ pc' = "judge" => spent' <= (iteration' + 1) * MaxTokens
    BY <1>2, <1>3, <2>1
  <2> QED BY <1>2, <1>6, <2>1, <2>2, <2>3 DEF Paid, Busy, CostCapHolds
<1>10. \A i \in DOMAIN results' : \/ i \in DOMAIN results /\ results'[i] = results[i]
                                  \/ results'[i].content = content
  BY <1>1, <1>4, <1>5
<1> QED BY <1>6, <1>7, <1>8, <1>9, <1>10

\* An answer that no tool gave.
LEMMA ShortAnswerKeepsInv ==
    ASSUME LoopInv, Busy, NEW content \in Contents, config.guard => content # "poison", Answer(content),
           DispatchFrame, UNCHANGED <<counts, last, ran>>, GateInv',
           \A n \in Name : Approvals(n)' >= Approvals(n)
    PROVE  LoopInv'
<1>1. /\ Answering' /\ Paid' /\ pc' \in {"model", "judge"} /\ pc # "done"
      /\ Dispatched \in Nat /\ Dispatched + 1 <= Dispatched' /\ Dispatched' \in 0 .. NoCap
      /\ \A i \in DOMAIN results' : \/ i \in DOMAIN results /\ results'[i] = results[i]
                                    \/ results'[i].content = content
      /\ config' = config
  BY AnswerKeeps DEF Busy, DispatchFrame
<1>2. Counted'
  <2>1. \A n \in Name : counts[n] \in 0 .. NoCap /\ counts[n] <= Dispatched
    BY <1>1 DEF LoopInv, Counted
  <2>2. \A n \in Name : counts'[n] <= Dispatched'
    BY <1>1, <2>1
  <2> QED BY <1>1, <2>2 DEF LoopInv, Counted, CapHolds
<1>3. Permitted'
  <2>1. \A n \in Name : ran[n] \in Nat /\ Approvals(n) \in Nat /\ Approvals(n)' \in Nat
    <3>1. head \in Seq(Entries) /\ head' \in Seq(Entries)
      BY DEF LoopInv, GateInv, TrailInv, TrailTypeOK
    <3>2. \A n : Approvals(n) \in Nat
      BY <3>1, ApprovalsAreNat
    <3>3. \A n : Approvals(n)' \in Nat
      <4> SUFFICES ASSUME NEW n PROVE Approvals(n)' \in Nat
        OBVIOUS
      <4> DEFINE T == {i \in DOMAIN head' : head'[i] = Allowed(n)}
      <4>1. DOMAIN head' = 1 .. Len(head') /\ Len(head') \in Nat
        BY <3>1, LenProperties
      <4>2. T \subseteq 1 .. Len(head') /\ IsFiniteSet(1 .. Len(head'))
        BY <4>1, FS_Interval
      <4>3. Cardinality(T) \in Nat
        <5> HIDE DEF T
        <5> QED BY <4>2, FS_Subset, FS_CardinalityType
      <4> QED BY <4>3 DEF Approvals, Allowed
    <3> QED BY <3>2, <3>3 DEF LoopInv, Counted
  <2>2. config.gate => \A n \in Name : ran[n] <= Approvals(n)
    BY DEF LoopInv, Permitted
  <2>3. config.gate => \A n \in Name : ran'[n] <= Approvals(n)'
    BY <2>1, <2>2
  <2> QED BY <1>1, <2>3 DEF Permitted
<1>4. Clean'
  BY <1>1 DEF LoopInv, Clean
<1> QED BY <1>1, <1>2, <1>3, <1>4 DEF LoopInv

\* A call that goes ahead to the tool.
LEMMA CallKeepsInv ==
    ASSUME LoopInv, pc = "judge", pc' = "run", UNCHANGED <<results, iteration>>,
           DispatchFrame, UNCHANGED <<counts, last, ran>>, GateInv',
           MayRun(Current), counts[Current.name] < config.cap,
           config.gate => \A n \in Name : /\ Approvals(n) \in Nat /\ Approvals(n)' \in Nat
                                          /\ Approvals(n)' >= Approvals(n)
                                          /\ n = Current.name => Approvals(n)' > Approvals(n)
    PROVE  LoopInv'
<1>1. UNCHANGED <<config, turn, spent, outcome>> /\ Current' = Current
  BY DEF DispatchFrame, Current
<1>2. Answering'
  BY <1>1 DEF LoopInv, Answering, Busy
<1>3. Counted'
  <2>1. Dispatched' = Dispatched
    BY DEF Dispatched
  <2> QED BY <1>1, <2>1 DEF LoopInv, Counted, CapHolds
<1>4. Paid'
  BY <1>1 DEF LoopInv, Paid, Busy, CostCapHolds, OverBudget
<1>5. Current.name \in Name
  <2>1. Len(results) + 1 \in 1 .. Len(turn) /\ turn \in Seq(Call)
    BY LenProperties DEF LoopInv, Answering, Busy
  <2> QED BY <2>1, ElementOfSeq, LoopAssumption DEF Current
<1>6. Permitted'
  <2>1. MayRun(Current)'
    BY <1>1 DEF MayRun, Policy
  <2>2. config.gate => \A n \in Name : ran[n] \in Nat /\ ran[n] <= Approvals(n)
    BY DEF LoopInv, Permitted, Counted
  <2>3. ASSUME config.gate, NEW n \in Name
        PROVE  ran[n] <= Approvals(n)' /\ (n = Current.name => ran[n] < Approvals(n)')
    BY <2>2, <2>3
  <2> QED BY <1>1, <1>5, <2>1, <2>3 DEF Permitted
<1>7. Clean'
  BY <1>1 DEF LoopInv, Clean
<1> QED BY <1>2, <1>3, <1>4, <1>6, <1>7 DEF LoopInv

\* The cap, then the tool.
LEMMA ProceedKeepsInv ==
    ASSUME LoopInv, WellFormed, Proceed, DispatchFrame, UNCHANGED <<counts, last, ran>>, GateInv',
           MayRun(Current),
           \A n \in Name : Approvals(n)' >= Approvals(n),
           config.gate => \A n \in Name : /\ Approvals(n) \in Nat /\ Approvals(n)' \in Nat
                                          /\ n = Current.name => Approvals(n)' > Approvals(n)
    PROVE  LoopInv'
<1>1. pc = "judge" /\ Busy /\ Current.name \in Name
  BY LoopAssumption DEF WellFormed, Busy
<1>2. CASE counts[Current.name] >= config.cap
  <2> DEFINE content == IF last[Current.name] = "nothing" THEN "refused" ELSE last[Current.name]
  <2>1. content \in Contents /\ (config.guard => content # "poison") /\ Answer(content)
    BY <1>1, <1>2 DEF Proceed, LoopInv, Counted, Clean, Contents
  <2> HIDE DEF content
  <2> QED BY <1>1, <2>1, ShortAnswerKeepsInv
<1>3. CASE ~(counts[Current.name] >= config.cap)
  <2>1. pc' = "run" /\ UNCHANGED <<results, iteration>>
    BY <1>3 DEF Proceed
  <2>2. counts[Current.name] < config.cap
    <3>1. counts[Current.name] \in 0 .. NoCap /\ config.cap \in Nat
      BY <1>1, ConfigTyped DEF LoopInv, Counted, Answering
    <3> QED BY <1>3, <3>1
  <2> QED BY <1>1, <2>1, <2>2, CallKeepsInv
<1> QED BY <1>2, <1>3

LEMMA SameApprovals ==
    ASSUME LoopInv, head' = head
    PROVE  \A n : /\ Approvals(n) \in Nat /\ Approvals(n)' = Approvals(n)
                  /\ Approvals(n)' >= Approvals(n)
<1>1. \A n : Approvals(n) \in Nat
  BY ApprovalsAreNat DEF LoopInv, GateInv, TrailInv, TrailTypeOK
<1>2. \A n : Approvals(n)' = Approvals(n)
  BY DEF Approvals, Allowed
<1> QED BY <1>1, <1>2

LEMMA JudgingKeepsInv ==
    ASSUME LoopInv, Malformed \/ Judge \/ Ungated
    PROVE  LoopInv'
<1>0. "refused" \in Contents /\ "refused" # "poison"
  BY DEF Contents
<1>1. CASE Malformed
  <2>1. Busy /\ Answer("refused") /\ DispatchFrame /\ UNCHANGED <<counts, last, ran>>
        /\ UNCHANGED gateVars /\ head' = head
    BY <1>1 DEF Malformed, Busy, gateVars
  <2>2. GateInv'
    BY <2>1, GateFrame DEF LoopInv
  <2> QED BY <1>0, <2>1, <2>2, SameApprovals, ShortAnswerKeepsInv
<1>2. CASE Ungated
  <2>1. WellFormed /\ Busy /\ DispatchFrame /\ UNCHANGED <<counts, last, ran>>
        /\ UNCHANGED gateVars /\ head' = head /\ ~config.gate
    BY <1>2 DEF Ungated, WellFormed, Busy, gateVars
  <2>2. GateInv'
    BY <2>1, GateFrame DEF LoopInv
  <2>3. CASE config.ungated \/ Risk[Current.name] = "read"
    <3>1. Proceed /\ MayRun(Current)
      BY <1>2, <2>1, <2>3 DEF Ungated, MayRun
    <3> QED BY <2>1, <2>2, <3>1, SameApprovals, ProceedKeepsInv
  <2>4. CASE ~(config.ungated \/ Risk[Current.name] = "read")
    <3>1. Answer("refused")
      BY <1>2, <2>4 DEF Ungated
    <3> QED BY <1>0, <2>1, <2>2, <3>1, SameApprovals, ShortAnswerKeepsInv
  <2> QED BY <2>3, <2>4
<1>3. CASE Judge
  <2>1. /\ WellFormed /\ Busy /\ DispatchFrame /\ UNCHANGED <<counts, last, ran>> /\ config.gate
        /\ Current.name \in Name
    BY <1>3, LoopAssumption DEF Judge, WellFormed, Busy
  <2>2. PICK decision \in Decisions :
            /\ Evaluate(Current, config.limited, config.lossy, decision)
            /\ IF decision = "allow" THEN Proceed ELSE Answer("refused")
    BY <1>3 DEF Judge
  <2>3. GateInv'
    BY <2>1, <2>2, EvaluateKeepsGate DEF LoopInv
  <2> DEFINE e == [name |-> Current.name, decision |-> decision]
  <2>4. head \in Seq(Entries) /\ e \in Entries /\ head' = Append(head, e)
    BY <2>1, <2>2 DEF LoopInv, GateInv, TrailInv, TrailTypeOK, Evaluate, Audit, compute_hash, Entries
  <2>5. \A n : /\ Approvals(n) \in Nat
               /\ Approvals(n)' = IF e = Allowed(n) THEN Approvals(n) + 1 ELSE Approvals(n)
    <3> HIDE DEF e
    <3> QED BY <2>4, ApprovalsGrow
  <2>6. \A n : Approvals(n)' \in Nat /\ Approvals(n)' >= Approvals(n)
    BY <2>5
  <2>7. CASE decision = "allow"
    <3>1. e = Allowed(Current.name)
      BY <2>7 DEF Allowed
    <3>2. ASSUME NEW n, n = Current.name PROVE Approvals(n)' > Approvals(n)
      <4>1. e = Allowed(n)
        BY <3>1, <3>2
      <4> HIDE DEF e
      <4> QED BY <2>5, <4>1
    <3>3. MayRun(Current)
      <4>1. Base(Current) = "allow"
        BY <2>2, <2>7 DEF Evaluate, Throttle
      <4> QED BY <2>1, <4>1 DEF MayRun, Base
    <3> HIDE DEF e
    <3> QED BY <2>1, <2>2, <2>3, <2>5, <2>6, <2>7, <3>2, <3>3, ProceedKeepsInv
  <2>8. CASE decision # "allow"
    BY <1>0, <2>1, <2>2, <2>3, <2>6, <2>8, ShortAnswerKeepsInv
  <2> QED BY <2>7, <2>8
<1> QED BY <1>1, <1>2, <1>3

\* The tool ran, and returned or raised.
LEMMA RunKeepsInv ==
    ASSUME LoopInv, NEW returned \in BOOLEAN, NEW content \in {"clean", "poison"}, Run(returned, content)
    PROVE  LoopInv'
<1> DEFINE n == Current.name
           said == Screened(content)
<1>1. /\ pc = "run" /\ Busy /\ DispatchFrame /\ Answer(said) /\ head' = head /\ UNCHANGED gateVars
      /\ ran' = [ran EXCEPT ![n] = @ + 1]
      /\ counts' = IF returned THEN [counts EXCEPT ![n] = @ + 1] ELSE counts
      /\ last' = [last EXCEPT ![n] = said]
  BY DEF Run, Busy, gateVars
<1>2. said \in Contents /\ said # "nothing" /\ (config.guard => said # "poison")
  BY DEF Screened, Contents
<1>3. n \in Name
  <2>1. Len(results) + 1 \in 1 .. Len(turn) /\ turn \in Seq(Call)
    BY <1>1, LenProperties DEF LoopInv, Answering, Busy
  <2> QED BY <2>1, ElementOfSeq, LoopAssumption DEF Current
<1> HIDE DEF n, said
<1>4. /\ Answering' /\ Paid' /\ pc' \in {"model", "judge"}
      /\ Dispatched \in Nat /\ Dispatched + 1 <= Dispatched' /\ Dispatched' \in 0 .. NoCap
      /\ \A i \in DOMAIN results' : \/ i \in DOMAIN results /\ results'[i] = results[i]
                                    \/ results'[i].content = said
      /\ config' = config
  BY <1>1, <1>2, AnswerKeeps DEF DispatchFrame
<1>5. GateInv'
  BY <1>1, GateFrame DEF LoopInv
<1>6. /\ ran \in [Name -> Nat] /\ ran' \in [Name -> Nat] /\ ran'[n] = ran[n] + 1
      /\ \A m \in Name \ {n} : ran'[m] = ran[m]
  BY <1>1, <1>3 DEF LoopInv, Counted
<1>7. Counted'
  <2>1. /\ counts \in [Name -> 0 .. NoCap] /\ NoCap \in Nat /\ config.cap \in Nat /\ counts[n] < config.cap
        /\ counts[n] <= Dispatched /\ counts[n] <= ran[n] /\ counts[n] \in Nat
    <3>1. counts \in [Name -> 0 .. NoCap] /\ counts[n] \in 0 .. NoCap
      BY <1>3 DEF LoopInv, Counted
    <3>2. NoCap \in Nat /\ config.cap \in Nat
      BY ConfigTyped, Products DEF NoCap, LoopInv, Answering
    <3>3. counts[n] < config.cap /\ counts[n] <= Dispatched /\ counts[n] <= ran[n]
      BY <1>1, <1>3 DEF LoopInv, Counted, CapHolds, n
    <3> QED BY <3>1, <3>2, <3>3
  <2>2. /\ counts'[n] \in 0 .. NoCap /\ counts'[n] <= config.cap /\ counts'[n] <= Dispatched'
        /\ counts'[n] <= ran'[n] /\ counts'[n] \in {counts[n], counts[n] + 1}
    <3>1. counts'[n] \in {counts[n], counts[n] + 1}
      BY <1>1, <1>3, <2>1
    <3> QED BY <1>3, <1>4, <1>6, <2>1, <3>1
  <2>3. ASSUME NEW m \in Name, m # n
        PROVE  /\ counts'[m] = counts[m] /\ ran'[m] = ran[m] /\ last'[m] = last[m]
               /\ counts'[m] \in 0 .. NoCap /\ counts'[m] <= Dispatched'
               /\ counts'[m] <= config.cap /\ counts'[m] <= ran'[m]
               /\ counts'[m] > 0 => last'[m] # "nothing"
    <3>1. counts'[m] = counts[m] /\ ran'[m] = ran[m] /\ last'[m] = last[m]
      BY <1>1, <1>3, <1>6, <2>1, <2>3 DEF LoopInv, Counted
    <3>2. counts[m] \in 0 .. NoCap /\ counts[m] <= Dispatched
      BY <1>1 DEF LoopInv, Counted
    <3>3. counts[m] <= config.cap /\ counts[m] <= ran[m] /\ (counts[m] > 0 => last[m] # "nothing")
      BY DEF LoopInv, Counted, CapHolds
    <3>4. counts[m] <= Dispatched'
      BY <1>4, <2>1, <3>2
    <3> QED BY <3>1, <3>2, <3>3, <3>4
  <2>4. last' \in [Name -> Contents \cup {"nothing"}] /\ last'[n] = said
    BY <1>1, <1>2, <1>3 DEF LoopInv, Counted
  <2>5. DOMAIN counts' = Name /\ counts' = [m \in Name |-> counts'[m]]
    BY <1>1, <2>1
  <2>6. counts' \in [Name -> 0 .. NoCap]
    BY <2>2, <2>3, <2>5
  <2>7. CapHolds'
    BY <1>2, <1>4, <2>2, <2>3, <2>4 DEF CapHolds
  <2>8. \A m \in Name : counts'[m] <= Dispatched'
    BY <2>2, <2>3
  <2> QED BY <1>4, <1>6, <2>4, <2>6, <2>7, <2>8 DEF Counted
<1>8. Permitted'
  <2>1. config.gate => ran[n] < Approvals(n)
    BY <1>1 DEF LoopInv, Permitted, n
  <2>2. config.gate => \A m \in Name : ran[m] <= Approvals(m)
    BY DEF LoopInv, Permitted
  <2>3. \A m : Approvals(m)' = Approvals(m) /\ Approvals(m) \in Nat
    BY <1>1, SameApprovals
  <2>4. config.gate => \A m \in Name : ran'[m] <= Approvals(m)
    BY <1>3, <1>6, <2>1, <2>2, <2>3
  <2> QED BY <1>4, <2>3, <2>4 DEF Permitted
<1>9. Clean'
  <2>1. config.guard => \A m \in Name : last'[m] # "poison"
    BY <1>1, <1>2 DEF LoopInv, Counted, Clean
  <2> QED BY <1>2, <1>4, <2>1 DEF LoopInv, Clean
<1> QED BY <1>4, <1>5, <1>7, <1>8, <1>9 DEF LoopInv

\* Time and the other runs of the company.
LEMMA SurroundingsKeepInv ==
    ASSUME LoopInv, Surroundings
    PROVE  LoopInv'
<1>1. GateInv' /\ head' = head /\ UNCHANGED loopVars
  BY SurroundingsKeepGate DEF Surroundings, LoopInv, GateTick, OtherRun
<1>2. Answering'
  BY <1>1 DEF loopVars, LoopInv, Answering, Busy
<1>3. Counted' /\ Paid' /\ Clean'
  BY <1>1 DEF loopVars, LoopInv, Counted, CapHolds, Dispatched, Current, Paid, Busy, CostCapHolds,
              OverBudget, Clean
<1>4. Permitted'
  <2>1. \A n : Approvals(n)' = Approvals(n)
    BY <1>1, SameApprovals
  <2> QED BY <1>1, <2>1 DEF loopVars, LoopInv, Permitted, MayRun, Policy, Current
<1> QED BY <1>1, <1>2, <1>3, <1>4 DEF LoopInv

LEMMA LoopNextInv == LoopInv /\ [Next]_vars => LoopInv'
<1> SUFFICES ASSUME LoopInv, [Next]_vars PROVE LoopInv'
  OBVIOUS
<1>1. CASE Loop
  BY <1>1, ModelStepsKeepInv, OtherEndsKeepInv, JudgingKeepsInv, RunKeepsInv DEF Loop
<1>2. CASE Abandon
  BY <1>2, OtherEndsKeepInv
<1>3. CASE Surroundings
  BY <1>3, SurroundingsKeepInv
<1>4. CASE UNCHANGED vars
  <2>1. GateInv' /\ head' = head /\ UNCHANGED loopVars
    BY <1>4, GateFrame DEF vars, gateVars, LoopInv
  <2>2. Answering'
    BY <2>1 DEF loopVars, LoopInv, Answering, Busy
  <2>3. Counted' /\ Paid' /\ Clean'
    BY <2>1 DEF loopVars, LoopInv, Counted, CapHolds, Dispatched, Current, Paid, Busy, CostCapHolds,
                OverBudget, Clean
  <2>4. Permitted'
    <3>1. \A n : Approvals(n)' = Approvals(n)
      BY <2>1, SameApprovals
    <3> QED BY <2>1, <3>1 DEF loopVars, LoopInv, Permitted, MayRun, Policy, Current
  <2> QED BY <2>1, <2>2, <2>3, <2>4 DEF LoopInv
<1> QED BY <1>1, <1>2, <1>3, <1>4 DEF Next

LEMMA LoopAlwaysInv == Spec => []LoopInv
BY LoopInitInv, LoopNextInv, PTL DEF Spec

-----------------------------------------------------------------------------
\* Whenever the model is asked again, each call of its last turn has one result,
\* in order: unknown, refused, capped and withheld ones too (_dispatch_all).
THEOREM CallsAreAnswered == Spec => []EveryCallAnswered
<1>1. LoopInv => EveryCallAnswered
  <2> SUFFICES ASSUME LoopInv, pc = "model"
               PROVE  Len(results) = Len(turn) /\ \A i \in DOMAIN turn : results[i].name = turn[i].name
    BY DEF EveryCallAnswered
  <2> QED BY LenProperties DEF LoopInv, Answering
<1> QED BY <1>1, LoopAlwaysInv, PTL

\* No poisoned result, new or from the cache, is handed to the model of a loop
\* with a guard (_screen_tool_output).
THEOREM PoisonStaysOut == Spec => []PoisonNeverReachesModel
<1>1. LoopInv => PoisonNeverReachesModel
  BY DEF LoopInv, Clean, PoisonNeverReachesModel
<1> QED BY <1>1, LoopAlwaysInv, PTL

\* Types, the cap per tool, the cost cap and the shared rate limit hold
\* together at every moment (LoopGuards, TokenBucketRateLimiter).
THEOREM LimitsAlwaysHold == Spec => []LimitsHold
<1>1. LoopInv => GateTypeOK
  <2> SUFFICES ASSUME LoopInv PROVE GateTypeOK
    OBVIOUS
  <2>1. clock \in 0 .. MaxTime /\ lost \in {"none", "tail", "inner"}
    BY DEF LoopInv, GateInv, RateInv, RateTypeOK, TrailInv, TrailTypeOK
  <2>2. ASSUME NEW n \in Name PROVE bucket[n].tokens \in 0 .. Capacity /\ bucket[n].at \in 0 .. clock
    <3>1. bucket[n] \in [tokens : 0 .. Capacity, at : Nat] /\ bucket[n].at <= clock
      BY DEF LoopInv, GateInv, RateInv, RateTypeOK, Covered
    <3> QED BY <2>1, <3>1, GateAssumption
  <2> QED BY <2>1, <2>2 DEF GateTypeOK
<1>2. LoopInv => TypeOK
  <2> SUFFICES ASSUME LoopInv PROVE TypeOK
    OBVIOUS
  <2>1. GateTypeOK
    BY <1>1
  <2>2. \A i \in DOMAIN turn : turn[i] \in Call
    BY ElementOfSeq, LenProperties DEF LoopInv, Answering
  <2>3. \A i \in DOMAIN results : results[i].content \in Contents
    <3>1. \A i \in DOMAIN results : results[i] \in Results
      BY ElementOfSeq, LenProperties DEF LoopInv, Answering
    <3> QED BY <3>1 DEF Results
  <2> QED BY <2>1, <2>2, <2>3 DEF TypeOK, LoopInv, Answering, Counted, Paid, Busy
<1>3. LoopInv => CostCapHolds /\ CapHolds /\ RateBound
  BY DEF LoopInv, Paid, Counted, GateInv, RateInv
<1>4. LoopInv => LimitsHold
  BY <1>2, <1>3 DEF LimitsHold
<1> QED BY <1>4, LoopAlwaysInv, PTL

\* The persisted trail verifies exactly as long as no inner record is missing,
\* and shows any later tampering (AuditChain, verify_chain).
THEOREM TrailAlwaysSound == Spec => []AuditTrailSound
<1>1. LoopInv => AuditTrailSound
  BY TrailIsSound DEF LoopInv, GateInv
<1> QED BY <1>1, LoopAlwaysInv, PTL

\* A tool runs only if policy and delegation allow the call and the trail has
\* an approval for each run; without a gate, only if it reads or the host opted
\* out (ToolPolicyGate.evaluate, _dispatch_all).
THEOREM RunsAreAllowed == Spec => OnlyAllowedRuns
<1> DEFINE Step == ran' # ran =>
                    LET n == Current.name
                    IN  IF config.gate
                        THEN /\ Policy(n) = "allow"
                             /\ Current.target = "other" => Current.delegated
                             /\ ran'[n] <= Approvals(n)
                        ELSE config.ungated \/ Risk[n] = "read"
<1>1. ASSUME LoopInv, [Next]_vars, ran' # ran PROVE Step
  <2>1. PICK returned \in BOOLEAN, content \in {"clean", "poison"} : Run(returned, content)
    BY <1>1 DEF Next, Loop, Abandon, Surroundings, loopVars, vars, ModelEnds, ModelCalls, ModelFails,
                Exhausted, TurnFrame, Malformed, Judge, JudgeRaises, Ungated
  <2>2. pc = "run" /\ ran' = [ran EXCEPT ![Current.name] = @ + 1]
    BY <2>1 DEF Run
  <2>3. Current.name \in Name
    <3>1. Len(results) + 1 \in 1 .. Len(turn) /\ turn \in Seq(Call)
      BY <1>1, <2>2, LenProperties DEF LoopInv, Answering, Busy
    <3> QED BY <3>1, ElementOfSeq, LoopAssumption DEF Current
  <2>4. MayRun(Current)
    BY <1>1, <2>2 DEF LoopInv, Permitted
  <2>5. config.gate => ran'[Current.name] <= Approvals(Current.name)
    <3>1. config.gate => ran[Current.name] < Approvals(Current.name)
      BY <1>1, <2>2 DEF LoopInv, Permitted
    <3>2. ran \in [Name -> Nat] /\ Approvals(Current.name) \in Nat
      BY <1>1, ApprovalsAreNat DEF LoopInv, Counted, GateInv, TrailInv, TrailTypeOK
    <3> QED BY <2>2, <2>3, <3>1, <3>2
  <2> QED BY <2>4, <2>5 DEF MayRun
<1>2. LoopInv /\ [Next]_vars => [Step]_vars
  BY <1>1
<1>3. Spec => [][Step]_vars
  <2> HIDE DEF Step
  <2> QED BY <1>2, LoopAlwaysInv, PTL DEF Spec
<1> QED BY <1>3 DEF OnlyAllowedRuns
==============================================================================
