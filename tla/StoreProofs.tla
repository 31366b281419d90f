----------------------------- MODULE StoreProofs -----------------------------
(***************************************************************************)
(* Proofs about the tables of the database that several processes and      *)
(* callers write, for every value of their constants: the ledger of model  *)
(* calls and its alerts, the keys and their wrapping.                      *)
(***************************************************************************)
EXTENDS AgentMetering, KeyStore, ProofLemmas

-----------------------------------------------------------------------------
(* The ledger. *)

\* A caller that is through the budget check and has no row yet.
Owing == {"provider", "post", "record"}
Unbilled == {"idle", "gate", "alarm", "notify", "screen", "budget", "provider"}

\* What a call knows of its cost, by how far it is.
Booked(r) ==
    /\ r.at \notin {"output", "ending"} => r.row = NoCost
    /\ r.at \in Unbilled => r.cost = NoCost
    /\ r.at = "post" => r.kind = "stream"
    /\ r.at = "record" /\ r.kind = "analyze" => r.usage = r.cost
    /\ r.kind = "analyze" /\ r.at \in {"output", "ending"} => r.lost \/ r.row = r.cost
    /\ r.lost => r.row = NoCost

\* What month m may still be charged by a call: its row, or the most it may cost.
Due(m) == [c \in Caller |-> IF m = month /\ call[c].at \in Owing THEN MaxCost
                            ELSE IF call[c].in = m THEN call[c].row ELSE 0]

MostSpent == Cap - 1 + Cardinality(Caller) * MaxCost

\* While a month is below its cap any bill fits; once it is not, no call begins
\* to owe, and what was owed was within the bound.
WithinBound == \A m \in Month : ledger[m] + SumFunctionOnSet(Due(m), Caller) <= MostSpent

\* Months to come are not charged.
Ahead ==
    /\ \A m \in Month : m > month => ledger[m] = 0
    /\ \A c \in Caller : call[c].in <= month

\* The callers about to tell of month m, one for each time its key was set or
\* Redis raised.
Telling(m) == [c \in Caller |-> IF At(c, "notify") /\ call[c].in = m THEN 1 ELSE 0]
TellsOnce ==
    \A m \in Month :
        alerts[m] + SumFunctionOnSet(Telling(m), Caller)
          <= blind[m] + IF m \in throttle THEN 1 ELSE 0

MeterInv ==
    /\ TypeOK
    /\ \A c \in Caller : Booked(call[c])
    /\ WithinBound /\ Ahead /\ TellsOnce

-----------------------------------------------------------------------------
(* What a step does to a call. *)

\* c goes from its call to r, and the others stay.
Turns(c, r) ==
    /\ r \in Calling /\ call' \in [Caller -> Calling] /\ call'[c] = r
    /\ \A d \in Caller \ {c} : call'[d] = call[d]

LEMMA TurnsTo ==
    ASSUME TypeOK, NEW c \in Caller, NEW r \in Calling, call' = [call EXCEPT ![c] = r]
    PROVE  Turns(c, r)
BY DEF TypeOK, Turns

\* The record of a call, field by field.
LEMMA CallFields ==
    ASSUME TypeOK, NEW c \in Caller
    PROVE  /\ call[c] \in Calling
           /\ call[c].at \in Places /\ call[c].kind \in Kinds /\ call[c].made \in 0 .. Calls
           /\ call[c].cost \in 0 .. MaxCost /\ call[c].usage \in 0 .. MaxCost
           /\ call[c].row \in 0 .. MaxCost /\ call[c].in \in Month
           /\ call[c].lost \in BOOLEAN /\ call[c].raised \in BOOLEAN
           /\ AgentOf[c] \in Agent
           /\ \A u \in Screened(c) : u \in 0 .. MaxCost
<1>1. call[c] \in Calling
  BY DEF TypeOK
<1>2. AgentOf[c] \in Agent /\ lastUsage[AgentOf[c]] \in 0 .. MaxCost
  BY MeteringAssumption DEF TypeOK
<1>3. \A u \in Screened(c) : u \in 0 .. MaxCost
  BY <1>2, MeteringAssumption DEF Screened, Cost
<1> QED BY <1>1, <1>2, <1>3 DEF Calling

\* A step of c that writes no ledger: it owes nothing new unless the month is below
\* its cap, and what it writes in its row it owed.
Modest(c, r) ==
    /\ r.at \in Owing => call[c].at \in Owing \/ ledger[month] < Cap
    /\ \/ r.row = call[c].row /\ r.in = call[c].in
       \/ r.row = NoCost
       \/ call[c].at = "record" /\ r.in = month
    /\ r.in \in {call[c].in, month}
    /\ Booked(r)

\* It is no notifier, before or after.
Discreet(c, r) == call[c].at # "notify" /\ r.at # "notify"

LEMMA NumbersOfMetering ==
    /\ Cap \in Nat /\ Cap > 0 /\ MaxCost \in Nat /\ MaxCost > 0 /\ Months \in Nat /\ IsFiniteSet(Caller)
    /\ Cardinality(Caller) \in Nat /\ Cardinality(Caller) * MaxCost \in Nat
    /\ MostSpent \in Nat /\ Cap - 1 + Cardinality(Caller) * MaxCost = MostSpent
<1>1. Cap \in Nat /\ Cap > 0 /\ MaxCost \in Nat /\ MaxCost > 0 /\ Months \in Nat /\ IsFiniteSet(Caller)
  BY MeteringAssumption
<1>2. Cardinality(Caller) \in Nat
  BY <1>1, FS_CardinalityType
<1>3. Cardinality(Caller) * MaxCost \in Nat
  <2> DEFINE n == Cardinality(Caller)
  <2>1. n \in Nat
    BY <1>2
  <2> HIDE DEF n
  <2>2. n * MaxCost \in Nat
    BY <1>1, <2>1
  <2> QED BY <2>2 DEF n
<1>4. Cap - 1 + Cardinality(Caller) * MaxCost \in Nat
  <2> DEFINE k == Cardinality(Caller) * MaxCost
  <2>1. k \in Nat
    BY <1>3
  <2> HIDE DEF k
  <2>2. Cap - 1 + k \in Nat
    BY <1>1, <2>1
  <2> QED BY <2>2 DEF k
<1> QED BY <1>1, <1>2, <1>3, <1>4 DEF MostSpent

LEMMA DueIsNat ==
    ASSUME TypeOK, NEW m \in Month
    PROVE  /\ Due(m) \in [Caller -> 0 .. MaxCost] /\ Due(m) \in [Caller -> Nat]
           /\ SumFunctionOnSet(Due(m), Caller) \in Nat
           /\ ledger[m] \in Nat
           /\ ledger[m] < Cap => ledger[m] + SumFunctionOnSet(Due(m), Caller) <= MostSpent
<1>1. Due(m) \in [Caller -> 0 .. MaxCost]
  <2>1. ASSUME NEW c \in Caller PROVE call[c].row \in 0 .. MaxCost
    BY CallFields
  <2> QED BY <2>1, NumbersOfMetering DEF Due
<1>2. Due(m) \in [Caller -> Nat]
  BY <1>1, NumbersOfMetering
<1> DEFINE s == SumFunctionOnSet(Due(m), Caller)
           k == Cardinality(Caller) * MaxCost
<1>3. s \in Nat /\ s <= k
  BY <1>1, SumBound, NumbersOfMetering
<1>4. ledger[m] \in Nat
  BY DEF TypeOK
<1>5. k \in Nat /\ Cap - 1 + k = MostSpent /\ MostSpent \in Nat /\ Cap \in Nat
  BY NumbersOfMetering
<1>6. ledger[m] < Cap => ledger[m] + s <= MostSpent
  <2> HIDE DEF s, k
  <2> QED BY <1>3, <1>4, <1>5
<1> QED BY <1>1, <1>2, <1>3, <1>4, <1>6

\* A month that is charged nothing new keeps its bound when nobody owes it more.
LEMMA BoundKept ==
    ASSUME TypeOK, TypeOK', NEW m \in Month,
           ledger[m] + SumFunctionOnSet(Due(m), Caller) <= MostSpent,
           ledger'[m] = ledger[m],
           (\A c \in Caller : Due(m)'[c] <= Due(m)[c]) \/ ledger[m] < Cap
    PROVE  (ledger[m] + SumFunctionOnSet(Due(m), Caller) <= MostSpent)'
<1> DEFINE D == Due(m)
           E == Due(m)'
<1>0. /\ D \in [Caller -> Nat] /\ SumFunctionOnSet(D, Caller) \in Nat
      /\ ledger[m] \in Nat
  BY DueIsNat
<1>1. /\ E \in [Caller -> Nat] /\ SumFunctionOnSet(E, Caller) \in Nat
      /\ ledger'[m] < Cap => ledger'[m] + SumFunctionOnSet(E, Caller) <= MostSpent
  <2>1. (/\ Due(m) \in [Caller -> Nat] /\ SumFunctionOnSet(Due(m), Caller) \in Nat
         /\ ledger[m] < Cap => ledger[m] + SumFunctionOnSet(Due(m), Caller) <= MostSpent)'
    BY DueIsNat, PTL
  <2> QED BY <2>1
<1> SUFFICES ledger'[m] + SumFunctionOnSet(E, Caller) <= MostSpent
  OBVIOUS
<1>2. CASE ledger[m] < Cap
  BY <1>1, <1>2
<1>3. CASE \A c \in Caller : E[c] <= D[c]
  <2> HIDE DEF D, E
  <2>1. SumFunctionOnSet(E, Caller) <= SumFunctionOnSet(D, Caller)
    BY <1>0, <1>1, <1>3, SumMonotone, NumbersOfMetering
  <2>2. ledger[m] + SumFunctionOnSet(D, Caller) <= MostSpent
    BY DEF D
  <2>3. MostSpent \in Nat
    BY NumbersOfMetering
  <2> QED BY <1>0, <1>1, <2>1, <2>2, <2>3
<1> QED BY <1>2, <1>3

-----------------------------------------------------------------------------
(* Every step of a call but the last is modest. *)

\* All but the call, last_usage and the alert tables stays.
Unsettled == month' = month /\ ledger' = ledger /\ lastUsage' \in [Agent -> 0 .. MaxCost]

LEMMA LastUsageTyped ==
    ASSUME TypeOK, NEW c \in Caller, NEW u \in 0 .. MaxCost, Reports(c, u)
    PROVE  lastUsage' \in [Agent -> 0 .. MaxCost]
BY CallFields DEF TypeOK, Reports

\* From one place to another with nothing else written.
LEMMA GoesOn ==
    ASSUME TypeOK, NEW c \in Caller, Booked(call[c]), NEW place \in Places,
           Go(c, place) \/ (place = "ending" /\ Raise(c)),
           call[c].at \in Unbilled \/ (call[c].at = "output" /\ place = "ending"),
           place \in Unbilled \/ place = "ending",
           place = "provider" => ledger[month] < Cap \/ call[c].at = "provider"
    PROVE  \E r \in Calling : /\ Turns(c, r) /\ Modest(c, r) /\ r.at = place
                              /\ r.in = call[c].in /\ r.row = call[c].row
<1> USE CallFields
<1>1. CASE Go(c, place)
  <2> DEFINE r == [call[c] EXCEPT !.at = place]
  <2>1. /\ r \in Calling /\ r.at = place /\ r.in = call[c].in /\ r.row = call[c].row
        /\ r.cost = call[c].cost /\ r.kind = call[c].kind /\ r.usage = call[c].usage /\ r.lost = call[c].lost
    BY DEF Calling
  <2>2. call' = [call EXCEPT ![c] = r]
    BY <1>1 DEF Go
  <2> HIDE DEF r
  <2>3. Turns(c, r)
    BY <2>1, <2>2, TurnsTo
  <2>4. Booked(r)
    BY <2>1 DEF Booked, Unbilled, NoCost
  <2>5. Modest(c, r)
    BY <2>1, <2>4 DEF Modest, Owing, Unbilled
  <2> QED BY <2>1, <2>3, <2>5
<1>2. CASE place = "ending" /\ Raise(c)
  <2> DEFINE r == [call[c] EXCEPT !.at = "ending", !.raised = TRUE]
  <2>1. /\ r \in Calling /\ r.at = place /\ r.in = call[c].in /\ r.row = call[c].row
        /\ r.cost = call[c].cost /\ r.kind = call[c].kind /\ r.usage = call[c].usage /\ r.lost = call[c].lost
    BY <1>2 DEF Calling, Places
  <2>2. call' = [call EXCEPT ![c] = r]
    BY <1>2 DEF Raise
  <2> HIDE DEF r
  <2>3. Turns(c, r)
    BY <2>1, <2>2, TurnsTo
  <2>4. Booked(r)
    BY <2>1 DEF Booked, Unbilled, NoCost
  <2>5. Modest(c, r)
    BY <2>1, <2>4 DEF Modest, Owing, Unbilled
  <2> QED BY <2>1, <2>3, <2>5
<1> QED BY <1>1, <1>2

LEMMA StepTurns ==
    ASSUME TypeOK, NEW c \in Caller, Booked(call[c]),
           \/ Start(c) \/ Gate(c) \/ ScreenInput(c) \/ CheckBudget(c)
           \/ Complete(c) \/ Drained(c) \/ NoResponse(c) \/ ScreenSent(c)
           \/ Record(c) \/ ScreenOutput(c)
    PROVE  /\ Unsettled /\ UNCHANGED alertVars
           /\ \E r \in Calling : Turns(c, r) /\ Modest(c, r) /\ Discreet(c, r)
<1> USE CallFields
<1>0. /\ month \in Month /\ ledger \in [Month -> Nat] /\ lastUsage \in [Agent -> 0 .. MaxCost]
      /\ Cap \in Nat /\ ledger[month] \in Nat /\ (~OverCap <=> ledger[month] < Cap)
  BY NumbersOfMetering DEF TypeOK, OverCap
<1>1. CASE Start(c)
  <2>1. PICK k \in Kinds, place \in {"gate", "screen"} :
          call' = [call EXCEPT ![c].at = place, ![c].kind = k, ![c].made = @ + 1]
    BY <1>1 DEF Start
  <2> DEFINE r == [call[c] EXCEPT !.at = place, !.kind = k, !.made = @ + 1]
  <2>2. call[c].at = "idle" /\ call[c].made + 1 \in 0 .. Calls
    <3>1. call[c].at = "idle" /\ call[c].made < Calls
      BY <1>1 DEF Start, At
    <3>2. call[c].made \in 0 .. Calls /\ Calls \in Nat
      BY MeteringAssumption
    <3> QED BY <3>1, <3>2
  <2>3. /\ r \in Calling /\ r.at = place /\ r.in = call[c].in /\ r.row = call[c].row
        /\ r.cost = call[c].cost
    BY <2>1, <2>2 DEF Calling, Places
  <2>4. call' = [call EXCEPT ![c] = r]
    BY <2>1
  <2> HIDE DEF r
  <2>5. Turns(c, r)
    BY <2>3, <2>4, TurnsTo
  <2>6. Booked(r)
    BY <2>1, <2>2, <2>3 DEF Booked, Unbilled
  <2>7. Modest(c, r) /\ Discreet(c, r)
    BY <2>1, <2>2, <2>3, <2>6 DEF Modest, Discreet, Owing
  <2> QED BY <1>0, <1>1, <2>3, <2>5, <2>7 DEF Start, Unsettled
<1>2. CASE Gate(c)
  <2>1. PICK place \in {"alarm", "screen"} : Go(c, place)
    BY <1>2 DEF Gate
  <2>2. call[c].at = "gate" /\ place \in Places
    BY <1>2, <2>1 DEF Gate, At, Places
  <2>3. PICK r \in Calling : Turns(c, r) /\ Modest(c, r) /\ r.at = place
    BY <2>1, <2>2, GoesOn DEF Unbilled
  <2> QED BY <1>0, <1>2, <2>1, <2>2, <2>3 DEF Gate, Unsettled, Discreet
<1>3. CASE ScreenInput(c)
  <2>1. PICK place \in {"budget", "ending"} : Go(c, place) \/ (place = "ending" /\ Raise(c))
    BY <1>3 DEF ScreenInput
  <2>2. call[c].at = "screen" /\ place \in Places
    BY <1>3, <2>1 DEF ScreenInput, At, Places
  <2>3. PICK r \in Calling : Turns(c, r) /\ Modest(c, r) /\ r.at = place
    BY <2>1, <2>2, GoesOn DEF Unbilled
  <2>4. lastUsage' \in [Agent -> 0 .. MaxCost]
    BY <1>3, LastUsageTyped DEF ScreenInput
  <2> QED BY <1>0, <1>3, <2>1, <2>2, <2>3, <2>4 DEF ScreenInput, Unsettled, Discreet
<1>4. CASE CheckBudget(c)
  <2>1. PICK place \in {"provider", "ending"} :
          /\ Go(c, place) \/ (place = "ending" /\ Raise(c))
          /\ place = "provider" => ledger[month] < Cap
    BY <1>0, <1>4 DEF CheckBudget
  <2>2. call[c].at = "budget" /\ place \in Places
    BY <1>4, <2>1 DEF CheckBudget, At, Places
  <2>3. PICK r \in Calling : Turns(c, r) /\ Modest(c, r) /\ r.at = place
    BY <2>1, <2>2, GoesOn DEF Unbilled
  <2> QED BY <1>0, <1>4, <2>1, <2>2, <2>3 DEF CheckBudget, Unsettled, Discreet
<1>5. CASE NoResponse(c)
  <2>2. call[c].at = "provider" /\ "ending" \in Places /\ Raise(c)
    BY <1>5 DEF NoResponse, At, Places
  <2>3. PICK r \in Calling : Turns(c, r) /\ Modest(c, r) /\ r.at = "ending"
    BY <2>2, GoesOn DEF Unbilled
  <2> QED BY <1>0, <1>5, <2>2, <2>3 DEF NoResponse, Unsettled, Discreet
<1>6. CASE ScreenOutput(c)
  <2>2. call[c].at = "output" /\ "ending" \in Places /\ (Go(c, "ending") \/ Raise(c))
    BY <1>6 DEF ScreenOutput, At, Places
  <2>3. PICK r \in Calling : Turns(c, r) /\ Modest(c, r) /\ r.at = "ending"
    BY <2>2, GoesOn DEF Unbilled
  <2>4. lastUsage' \in [Agent -> 0 .. MaxCost]
    BY <1>6, LastUsageTyped DEF ScreenOutput
  <2> QED BY <1>0, <1>6, <2>2, <2>3, <2>4 DEF ScreenOutput, Unsettled, Discreet
<1>7. CASE Complete(c)
  <2>1. PICK k \in Cost :
          /\ Reports(c, k)
          /\ call' = [call EXCEPT ![c].at = "record", ![c].cost = k, ![c].usage = k]
    BY <1>7 DEF Complete
  <2>2. k \in 0 .. MaxCost /\ call[c].at = "provider" /\ call[c].kind = "analyze"
    <3>1. call[c].at = "provider" /\ call[c].kind = "analyze"
      BY <1>7 DEF Complete, At
    <3>2. k \in 0 .. MaxCost
      BY <2>1, NumbersOfMetering DEF Cost
    <3> QED BY <3>1, <3>2
  <2> DEFINE r == [call[c] EXCEPT !.at = "record", !.cost = k, !.usage = k]
  <2>3. /\ r \in Calling /\ r.at = "record" /\ r.in = call[c].in /\ r.row = call[c].row
        /\ r.cost = k /\ r.usage = k
    BY <2>2 DEF Calling, Places
  <2>4. call' = [call EXCEPT ![c] = r]
    BY <2>1
  <2> HIDE DEF r
  <2>5. Turns(c, r)
    BY <2>3, <2>4, TurnsTo
  <2>6. Booked(r)
    BY <2>2, <2>3 DEF Booked, Unbilled
  <2>7. Modest(c, r) /\ Discreet(c, r)
    BY <2>2, <2>3, <2>6 DEF Modest, Discreet, Owing
  <2>8. lastUsage' \in [Agent -> 0 .. MaxCost]
    BY <2>1, <2>2, LastUsageTyped
  <2> QED BY <1>0, <1>7, <2>3, <2>5, <2>7, <2>8 DEF Complete, Unsettled
<1>8. CASE Drained(c)
  <2>1. PICK k \in Cost :
          /\ Reports(c, k)
          /\ call' = [call EXCEPT ![c].at = "post", ![c].cost = k]
    BY <1>8 DEF Drained
  <2>2. k \in 0 .. MaxCost /\ call[c].at = "provider" /\ call[c].kind = "stream"
    <3>1. call[c].at = "provider" /\ call[c].kind = "stream"
      BY <1>8 DEF Drained, At
    <3>2. k \in 0 .. MaxCost
      BY <2>1, NumbersOfMetering DEF Cost
    <3> QED BY <3>1, <3>2
  <2> DEFINE r == [call[c] EXCEPT !.at = "post", !.cost = k]
  <2>3. /\ r \in Calling /\ r.at = "post" /\ r.in = call[c].in /\ r.row = call[c].row
        /\ r.kind = call[c].kind
    BY <2>2 DEF Calling, Places
  <2>4. call' = [call EXCEPT ![c] = r]
    BY <2>1
  <2> HIDE DEF r
  <2>5. Turns(c, r)
    BY <2>3, <2>4, TurnsTo
  <2>6. Booked(r)
    BY <2>2, <2>3 DEF Booked, Unbilled
  <2>7. Modest(c, r) /\ Discreet(c, r)
    BY <2>2, <2>3, <2>6 DEF Modest, Discreet, Owing
  <2>8. lastUsage' \in [Agent -> 0 .. MaxCost]
    BY <2>1, <2>2, LastUsageTyped
  <2> QED BY <1>0, <1>8, <2>3, <2>5, <2>7, <2>8 DEF Drained, Unsettled
<1>9. CASE ScreenSent(c)
  <2>1. PICK u \in Screened(c) :
          /\ Reports(c, u)
          /\ call' = [call EXCEPT ![c].at = "record", ![c].usage = u]
    BY <1>9 DEF ScreenSent
  <2>2. u \in 0 .. MaxCost /\ call[c].at = "post"
    BY <1>9 DEF ScreenSent, At
  <2> DEFINE r == [call[c] EXCEPT !.at = "record", !.usage = u]
  <2>3. /\ r \in Calling /\ r.at = "record" /\ r.in = call[c].in /\ r.row = call[c].row
        /\ r.kind = call[c].kind
    BY <2>2 DEF Calling, Places
  <2>4. call' = [call EXCEPT ![c] = r]
    BY <2>1
  <2> HIDE DEF r
  <2>5. Turns(c, r)
    BY <2>3, <2>4, TurnsTo
  <2>6. Booked(r)
    BY <2>2, <2>3 DEF Booked, Unbilled
  <2>7. Modest(c, r) /\ Discreet(c, r)
    BY <2>2, <2>3, <2>6 DEF Modest, Discreet, Owing
  <2>8. lastUsage' \in [Agent -> 0 .. MaxCost]
    BY <2>1, <2>2, LastUsageTyped
  <2> QED BY <1>0, <1>9, <2>3, <2>5, <2>7, <2>8 DEF ScreenSent, Unsettled
<1>10. CASE Record(c)
  <2> DEFINE place == IF call[c].kind = "stream" THEN "ending" ELSE "output"
             billed(ok) == IF ok THEN call[c].usage ELSE NoCost
  <2>1. PICK ok \in BOOLEAN :
          call' = [call EXCEPT ![c].at = place, ![c].row = billed(ok), ![c].in = month, ![c].lost = ~ok]
    BY <1>10 DEF Record
  <2>2. call[c].at = "record" /\ place \in Places /\ place \in {"ending", "output"}
        /\ billed(ok) \in 0 .. MaxCost /\ (~ok) \in BOOLEAN
    <3>1. call[c].at = "record"
      BY <1>10 DEF Record, At
    <3>2. place \in Places /\ place \in {"ending", "output"}
      BY DEF Places
    <3>3. billed(ok) \in 0 .. MaxCost
      BY NumbersOfMetering DEF NoCost
    <3> QED BY <3>1, <3>2, <3>3
  <2> DEFINE r == [call[c] EXCEPT !.at = place, !.row = billed(ok), !.in = month, !.lost = ~ok]
  <2>4. call' = [call EXCEPT ![c] = r]
    BY <2>1
  <2>3. /\ r \in Calling /\ r.at = place /\ r.in = month /\ r.row = billed(ok) /\ r.lost = ~ok
        /\ r.kind = call[c].kind /\ r.cost = call[c].cost
    <3> HIDE DEF place, billed
    <3> QED BY <1>0, <2>2 DEF Calling
  <2> HIDE DEF r
  <2>5. Turns(c, r)
    BY <2>3, <2>4, TurnsTo
  <2>6. Booked(r)
    BY <2>2, <2>3 DEF Booked, Unbilled
  <2>7. Modest(c, r) /\ Discreet(c, r)
    BY <2>2, <2>3, <2>6 DEF Modest, Discreet, Owing
  <2> QED BY <1>0, <1>10, <2>3, <2>5, <2>7 DEF Record, Unsettled
<1> QED BY <1>1, <1>2, <1>3, <1>4, <1>5, <1>6, <1>7, <1>8, <1>9, <1>10

-----------------------------------------------------------------------------
(* The invariant, step by step. *)

\* A modest step keeps what the ledger owes.
LEMMA ModestKeeps ==
    ASSUME MeterInv, NEW c \in Caller, NEW r \in Calling, Turns(c, r), Modest(c, r),
           Unsettled, throttle' \subseteq Month, alerts' \in [Month -> Nat], blind' \in [Month -> Nat]
    PROVE  TypeOK' /\ (\A d \in Caller : Booked(call[d]))' /\ WithinBound' /\ Ahead'
<1>0. /\ TypeOK /\ month \in Month /\ month' = month /\ ledger' = ledger
      /\ \A d \in Caller \ {c} : call'[d] = call[d]
      /\ call'[c] = r
  BY DEF MeterInv, TypeOK, Unsettled, Turns
<1>1. TypeOK'
  BY <1>0 DEF TypeOK, Turns, Unsettled
<1>2. (\A d \in Caller : Booked(call[d]))'
  BY <1>0 DEF MeterInv, Modest
<1>3. Ahead'
  <2>1. \A d \in Caller : call[d].in <= month /\ call[d].in \in Nat /\ month \in Nat
    BY <1>0, CallFields DEF MeterInv, Ahead, Month
  <2>2. \A d \in Caller : call'[d].in <= month
    BY <1>0, <2>1 DEF Modest
  <2> QED BY <1>0, <2>2 DEF MeterInv, Ahead
<1>4. WithinBound'
  <2> SUFFICES ASSUME NEW m \in Month
               PROVE  (ledger[m] + SumFunctionOnSet(Due(m), Caller) <= MostSpent)'
    BY DEF WithinBound
  <2>1. ledger[m] + SumFunctionOnSet(Due(m), Caller) <= MostSpent
    BY DEF MeterInv, WithinBound
  <2>2. ASSUME ~(ledger[m] < Cap), NEW d \in Caller PROVE Due(m)'[d] <= Due(m)[d]
    <3>1. CASE d # c
      <4>1. Due(m)'[d] = Due(m)[d] /\ Due(m)[d] \in Nat
        BY <1>0, <3>1, DueIsNat DEF Due
      <4> QED BY <4>1
    <3>2. CASE d = c
      <4>0. /\ r.row \in 0 .. MaxCost /\ call[c].row \in 0 .. MaxCost /\ MaxCost \in Nat
        BY <1>0, CallFields, NumbersOfMetering DEF Calling
      <4> DEFINE now == Due(m)[c]
                 after == Due(m)'[c]
      <4>1. after = IF m = month /\ r.at \in Owing THEN MaxCost
                    ELSE IF r.in = m THEN r.row ELSE 0
        BY <1>0 DEF Due
      <4>2. now = IF m = month /\ call[c].at \in Owing THEN MaxCost
                  ELSE IF call[c].in = m THEN call[c].row ELSE 0
        BY DEF Due
      <4>3. m = month /\ r.at \in Owing => call[c].at \in Owing
        BY <2>2 DEF Modest
      <4> HIDE DEF now, after
      <4>4. r.row = call[c].row /\ r.in = call[c].in => after <= now
        BY <4>0, <4>1, <4>2, <4>3
      <4>5. r.row = NoCost => after <= now
        BY <4>0, <4>1, <4>2, <4>3 DEF NoCost
      <4>6. call[c].at = "record" /\ r.in = month => after <= now
        BY <4>0, <4>1, <4>2, <4>3 DEF Owing
      <4>7. after <= now
        BY <4>4, <4>5, <4>6 DEF Modest
      <4> QED BY <3>2, <4>7 DEF now, after
    <3> QED BY <3>1, <3>2
  <2> QED BY <1>0, <1>1, <2>1, <2>2, BoundKept
<1> QED BY <1>1, <1>2, <1>3, <1>4

LEMMA TellingIsNat ==
    ASSUME TypeOK, NEW m \in Month
    PROVE  /\ Telling(m) \in [Caller -> Nat] /\ SumFunctionOnSet(Telling(m), Caller) \in Nat
           /\ alerts[m] \in Nat /\ blind[m] \in Nat
<1>1. Telling(m) \in [Caller -> Nat]
  BY DEF Telling
<1>2. SumFunctionOnSet(Telling(m), Caller) \in Nat
  BY <1>1, SumMonotone, NumbersOfMetering
<1> QED BY <1>1, <1>2 DEF TypeOK

\* One caller begins to tell, or has told, or nothing of the kind.
LEMMA TellingMoves ==
    ASSUME TypeOK, TypeOK', NEW m \in Month, NEW c \in Caller, NEW r \in Calling, Turns(c, r)
    PROVE  /\ SumFunctionOnSet(Telling(m), Caller) \in Nat
           /\ SumFunctionOnSet(Telling(m)', Caller) \in Nat
           /\ Telling(m)[c] = (IF call[c].at = "notify" /\ call[c].in = m THEN 1 ELSE 0)
           /\ Telling(m)'[c] = (IF r.at = "notify" /\ r.in = m THEN 1 ELSE 0)
           /\ SumFunctionOnSet(Telling(m)', Caller) + Telling(m)[c]
                = SumFunctionOnSet(Telling(m), Caller) + Telling(m)'[c]
<1> DEFINE T == Telling(m)
           U == Telling(m)'
<1>1. T \in [Caller -> Nat] /\ U \in [Caller -> Nat]
  BY DEF Telling
<1>2. \A d \in Caller \ {c} : U[d] = T[d]
  BY DEF Telling, Turns, At
<1>3. /\ T[c] = (IF call[c].at = "notify" /\ call[c].in = m THEN 1 ELSE 0)
      /\ U[c] = (IF r.at = "notify" /\ r.in = m THEN 1 ELSE 0)
  BY DEF Telling, Turns, At
<1> HIDE DEF T, U
<1>4. /\ SumFunctionOnSet(T, Caller) \in Nat /\ SumFunctionOnSet(U, Caller) \in Nat
      /\ SumFunctionOnSet(U, Caller) + T[c] = SumFunctionOnSet(T, Caller) + U[c]
  BY <1>1, <1>2, SumMoves, NumbersOfMetering
<1> QED BY <1>3, <1>4 DEF T, U

LEMMA DiscreetKeeps ==
    ASSUME MeterInv, TypeOK', NEW c \in Caller, NEW r \in Calling, Turns(c, r), Discreet(c, r),
           UNCHANGED alertVars
    PROVE  TellsOnce'
<1> SUFFICES ASSUME NEW m \in Month
             PROVE  (alerts[m] + SumFunctionOnSet(Telling(m), Caller)
                       <= blind[m] + IF m \in throttle THEN 1 ELSE 0)'
  BY DEF TellsOnce
<1>1. TypeOK /\ alerts' = alerts /\ blind' = blind /\ throttle' = throttle
  BY DEF MeterInv, alertVars
<1> DEFINE s == SumFunctionOnSet(Telling(m), Caller)
           t == SumFunctionOnSet(Telling(m)', Caller)
<1>2. t = s
  <2>1. /\ s \in Nat /\ t \in Nat /\ Telling(m)[c] = 0 /\ Telling(m)'[c] = 0
        /\ t + Telling(m)[c] = s + Telling(m)'[c]
    BY <1>1, TellingMoves DEF Discreet
  <2> HIDE DEF s, t
  <2> QED BY <2>1
<1> QED BY <1>1, <1>2 DEF MeterInv, TellsOnce

LEMMA AlarmKeeps ==
    ASSUME MeterInv, NEW c \in Caller, Alarm(c)
    PROVE  MeterInv'
<1>0. /\ TypeOK /\ Booked(call[c]) /\ month \in Month /\ throttle \subseteq Month
      /\ alerts \in [Month -> Nat] /\ blind \in [Month -> Nat]
      /\ call[c].at = "alarm" /\ call[c] \in Calling /\ call[c].row = NoCost
      /\ month' = month /\ ledger' = ledger /\ lastUsage' = lastUsage /\ alerts' = alerts
  BY CallFields DEF MeterInv, TypeOK, Alarm, At, Booked
<1>1. Unsettled
  BY <1>0 DEF Unsettled, TypeOK
<1>2. CASE Raise(c) /\ UNCHANGED <<throttle, blind>>
  <2>1. PICK r \in Calling : Turns(c, r) /\ Modest(c, r) /\ r.at = "ending"
    BY <1>0, <1>2, GoesOn DEF Places, Unbilled
  <2>2. TypeOK' /\ (\A d \in Caller : Booked(call[d]))' /\ WithinBound' /\ Ahead'
    BY <1>0, <1>1, <1>2, <2>1, ModestKeeps
  <2>3. TellsOnce'
    BY <1>0, <1>2, <2>1, <2>2, DiscreetKeeps DEF Discreet, alertVars
  <2> QED BY <2>2, <2>3 DEF MeterInv
<1>3. CASE /\ call' = [call EXCEPT ![c].at = "notify", ![c].in = month]
           /\ \/ month \notin throttle /\ throttle' = throttle \cup {month} /\ blind' = blind
              \/ /\ throttle' \in {throttle, throttle \cup {month}}
                 /\ blind' = [blind EXCEPT ![month] = @ + 1]
  <2> DEFINE r == [call[c] EXCEPT !.at = "notify", !.in = month]
  <2>1. /\ r \in Calling /\ r.at = "notify" /\ r.in = month /\ r.row = call[c].row /\ r.cost = call[c].cost
    BY <1>0 DEF Calling, Places
  <2>2. call' = [call EXCEPT ![c] = r]
    BY <1>3
  <2> HIDE DEF r
  <2>3. Turns(c, r)
    BY <1>0, <2>1, <2>2, TurnsTo
  <2>4. Booked(r)
    BY <1>0, <2>1 DEF Booked, Unbilled
  <2>5. Modest(c, r)
    BY <1>0, <2>1, <2>4 DEF Modest, Owing
  <2>6. throttle' \subseteq Month /\ alerts' \in [Month -> Nat] /\ blind' \in [Month -> Nat]
    BY <1>0, <1>3
  <2>7. TypeOK' /\ (\A d \in Caller : Booked(call[d]))' /\ WithinBound' /\ Ahead'
    BY <1>1, <2>1, <2>3, <2>5, <2>6, ModestKeeps
  <2>8. TellsOnce'
    <3> SUFFICES ASSUME NEW m \in Month
                 PROVE  (alerts[m] + SumFunctionOnSet(Telling(m), Caller)
                           <= blind[m] + IF m \in throttle THEN 1 ELSE 0)'
      BY DEF TellsOnce
    <3> DEFINE s == SumFunctionOnSet(Telling(m), Caller)
               t == SumFunctionOnSet(Telling(m)', Caller)
    <3>1. alerts[m] + s <= blind[m] + IF m \in throttle THEN 1 ELSE 0
      BY DEF MeterInv, TellsOnce
    <3>2. /\ s \in Nat /\ t \in Nat /\ Telling(m)[c] = 0 /\ Telling(m)'[c] = (IF month = m THEN 1 ELSE 0)
          /\ t + Telling(m)[c] = s + Telling(m)'[c]
      BY <1>0, <2>1, <2>3, <2>7, TellingMoves
    <3>3. t = s + IF month = m THEN 1 ELSE 0
      <4> HIDE DEF s, t
      <4> QED BY <3>2
    <3>4. alerts[m] \in Nat /\ blind[m] \in Nat /\ s \in Nat
      BY <1>0, <3>2
    <3> SUFFICES alerts[m] + t <= blind'[m] + IF m \in throttle' THEN 1 ELSE 0
      BY <1>0
    <3> HIDE DEF s, t
    <3>5. CASE month # m
      <4>1. blind'[m] = blind[m] /\ (m \in throttle' <=> m \in throttle)
        BY <1>0, <1>3, <3>5
      <4> QED BY <3>1, <3>3, <3>4, <3>5, <4>1
    <3>6. CASE month = m
      <4>1. CASE month \notin throttle /\ throttle' = throttle \cup {month} /\ blind' = blind
        BY <3>1, <3>3, <3>4, <3>6, <4>1
      <4>2. CASE /\ throttle' \in {throttle, throttle \cup {month}}
                 /\ blind' = [blind EXCEPT ![month] = @ + 1]
        <5>1. blind'[m] = blind[m] + 1 /\ (m \in throttle => m \in throttle')
          BY <1>0, <3>6, <4>2
        <5> QED BY <3>1, <3>3, <3>4, <3>6, <5>1
      <4> QED BY <1>3, <4>1, <4>2
    <3> QED BY <3>5, <3>6
  <2> QED BY <2>7, <2>8 DEF MeterInv
<1> QED BY <1>2, <1>3 DEF Alarm

LEMMA NotifyKeeps ==
    ASSUME MeterInv, NEW c \in Caller, Notify(c)
    PROVE  MeterInv'
<1>0. /\ TypeOK /\ Booked(call[c]) /\ throttle \subseteq Month
      /\ alerts \in [Month -> Nat] /\ blind \in [Month -> Nat]
      /\ call[c].at = "notify" /\ call[c].in \in Month
      /\ month' = month /\ ledger' = ledger /\ lastUsage' = lastUsage
      /\ blind' = blind /\ throttle' = throttle /\ Raise(c)
  BY CallFields DEF MeterInv, TypeOK, Notify, At
<1>1. Unsettled
  BY <1>0 DEF Unsettled, TypeOK
<1>2. PICK n \in {0, 1} : alerts' = [alerts EXCEPT ![call[c].in] = @ + n]
  BY DEF Notify
<1>3. PICK r \in Calling : Turns(c, r) /\ Modest(c, r) /\ r.at = "ending" /\ r.in = call[c].in
  BY <1>0, GoesOn DEF Places, Unbilled
<1>4. alerts' \in [Month -> Nat]
  BY <1>0, <1>2
<1>5. TypeOK' /\ (\A d \in Caller : Booked(call[d]))' /\ WithinBound' /\ Ahead'
  BY <1>0, <1>1, <1>3, <1>4, ModestKeeps
<1>6. TellsOnce'
  <2> SUFFICES ASSUME NEW m \in Month
               PROVE  (alerts[m] + SumFunctionOnSet(Telling(m), Caller)
                         <= blind[m] + IF m \in throttle THEN 1 ELSE 0)'
    BY DEF TellsOnce
  <2> DEFINE s == SumFunctionOnSet(Telling(m), Caller)
             t == SumFunctionOnSet(Telling(m)', Caller)
             b == blind[m] + IF m \in throttle THEN 1 ELSE 0
  <2>1. alerts[m] + s <= b
    BY DEF MeterInv, TellsOnce
  <2>2. /\ s \in Nat /\ t \in Nat /\ Telling(m)[c] = (IF call[c].in = m THEN 1 ELSE 0) /\ Telling(m)'[c] = 0
        /\ t + Telling(m)[c] = s + Telling(m)'[c]
    BY <1>0, <1>3, <1>5, TellingMoves
  <2>3. t + (IF call[c].in = m THEN 1 ELSE 0) = s
    <3> HIDE DEF s, t
    <3> QED BY <2>2
  <2>4. alerts[m] \in Nat /\ b \in Nat /\ s \in Nat /\ t \in Nat
    BY <1>0, <2>2
  <2>5. alerts'[m] = alerts[m] + IF call[c].in = m THEN n ELSE 0
    BY <1>0, <1>2
  <2> SUFFICES alerts'[m] + t <= b
    BY <1>0
  <2> HIDE DEF s, t, b
  <2> QED BY <2>1, <2>3, <2>4, <2>5
<1> QED BY <1>5, <1>6 DEF MeterInv

\* The row of a call goes into the ledger, or is rolled back: what was due is
\* charged.
LEMMA SettleKeeps ==
    ASSUME MeterInv, NEW c \in Caller, Settle(c)
    PROVE  MeterInv'
<1>0. /\ TypeOK /\ month \in Month /\ ledger \in [Month -> Nat]
      /\ call[c].at = "ending" /\ call[c] \in Calling /\ call[c].in \in Month /\ call[c].row \in 0 .. MaxCost
      /\ month' = month /\ lastUsage' = lastUsage /\ alerts' = alerts /\ blind' = blind
      /\ throttle' = throttle /\ MaxCost \in Nat
  BY CallFields, NumbersOfMetering DEF MeterInv, TypeOK, Settle, At, alertVars
<1> DEFINE r == [call[c] EXCEPT !.at = "idle", !.cost = NoCost, !.usage = NoCost, !.row = NoCost,
                                !.in = month, !.lost = FALSE, !.raised = FALSE]
<1>1. call' = [call EXCEPT ![c] = r]
  BY DEF Settle
<1>2. /\ r \in Calling /\ r.at = "idle" /\ r.cost = NoCost /\ r.row = NoCost /\ r.in = month
  <2>1. /\ "idle" \in Places /\ NoCost \in 0 .. MaxCost
    BY <1>0 DEF Places, NoCost
  <2>2. r \in Calling
    BY <1>0, <2>1 DEF Calling
  <2>3. r.at = "idle" /\ r.cost = NoCost /\ r.row = NoCost /\ r.in = month
    BY <1>0 DEF Calling
  <2> QED BY <2>2, <2>3
<1> HIDE DEF r
<1>3. Turns(c, r) /\ Booked(r)
  BY <1>0, <1>1, <1>2, TurnsTo DEF Booked
<1>4. PICK w \in {0, call[c].row} : ledger' = [ledger EXCEPT ![call[c].in] = @ + w]
  <2>1. CASE ledger' = [ledger EXCEPT ![call[c].in] = @ + call[c].row]
    BY <2>1
  <2>2. CASE ledger' = ledger
    <3>1. ledger = [ledger EXCEPT ![call[c].in] = @ + 0]
      BY <1>0
    <3> QED BY <2>2, <3>1
  <2> QED BY <2>1, <2>2 DEF Settle
<1>5. ledger' \in [Month -> Nat] /\ w \in Nat
  BY <1>0, <1>4
<1>6. TypeOK'
  BY <1>0, <1>3, <1>5 DEF TypeOK, Turns
<1>7. (\A d \in Caller : Booked(call[d]))'
  BY <1>3 DEF MeterInv, Turns
<1>8. Ahead'
  <2>1. \A m \in Month : m > month => m # call[c].in /\ ledger[m] = 0
    BY <1>0 DEF MeterInv, Ahead, Month
  <2>2. \A m \in Month : m > month => ledger'[m] = 0
    BY <1>0, <1>4, <2>1
  <2>3. \A d \in Caller : call'[d].in <= month
    BY <1>0, <1>2, <1>3 DEF MeterInv, Ahead, Turns, Month
  <2> QED BY <1>0, <2>2, <2>3 DEF Ahead
<1>9. WithinBound'
  <2> SUFFICES ASSUME NEW m \in Month
               PROVE  (ledger[m] + SumFunctionOnSet(Due(m), Caller) <= MostSpent)'
    BY DEF WithinBound
  <2> DEFINE D == Due(m)
             E == Due(m)'
  <2>1. D \in [Caller -> Nat] /\ ledger[m] \in Nat
    BY <1>0, DueIsNat
  <2>2. D[c] = (IF call[c].in = m THEN call[c].row ELSE 0) /\ E[c] = 0
    BY <1>0, <1>2, <1>3 DEF Due, Turns, Owing, NoCost
  <2>3. \A d \in Caller \ {c} : E[d] = D[d]
    BY <1>0, <1>3 DEF Due, Turns
  <2>4. E \in [Caller -> Nat]
    <3>1. DOMAIN E = Caller /\ E = [d \in Caller |-> E[d]]
      BY DEF Due
    <3> HIDE DEF D, E
    <3> QED BY <2>1, <2>2, <2>3, <3>1
  <2>5. ledger[m] + SumFunctionOnSet(D, Caller) <= MostSpent /\ MostSpent \in Nat
    BY NumbersOfMetering DEF MeterInv, WithinBound
  <2>6. ledger'[m] = ledger[m] + IF call[c].in = m THEN w ELSE 0
    BY <1>0, <1>4
  <2> SUFFICES ledger'[m] + SumFunctionOnSet(E, Caller) <= MostSpent
    OBVIOUS
  <2> HIDE DEF D, E
  <2>7. /\ SumFunctionOnSet(D, Caller) \in Nat /\ SumFunctionOnSet(E, Caller) \in Nat
        /\ SumFunctionOnSet(E, Caller) + D[c] = SumFunctionOnSet(D, Caller) + E[c]
    BY <2>1, <2>3, <2>4, SumMoves, NumbersOfMetering
  <2>8. w \in Nat /\ w <= call[c].row /\ call[c].row \in Nat
    BY <1>0, <1>4
  <2>9. SumFunctionOnSet(E, Caller) + (IF call[c].in = m THEN call[c].row ELSE 0)
          = SumFunctionOnSet(D, Caller)
    BY <2>2, <2>7
  <2> QED BY <2>1, <2>5, <2>6, <2>7, <2>8, <2>9
<1>10. TellsOnce'
  BY <1>0, <1>2, <1>3, <1>6, DiscreetKeeps DEF Discreet, alertVars
<1> QED BY <1>6, <1>7, <1>8, <1>9, <1>10 DEF MeterInv

LEMMA MonthKeeps == MeterInv /\ MonthEnds => MeterInv'
<1> SUFFICES ASSUME MeterInv, MonthEnds PROVE MeterInv'
  OBVIOUS
<1>0. /\ TypeOK /\ month \in Month /\ ledger' = ledger /\ call' = call /\ throttle' = throttle
      /\ alerts' = alerts /\ blind' = blind /\ lastUsage' = lastUsage
      /\ month' = month + 1 /\ month < Months
  BY DEF MeterInv, TypeOK, MonthEnds, alertVars
<1>1. month' \in Month /\ month \in Nat
  BY <1>0, NumbersOfMetering DEF Month
<1>2. TypeOK'
  BY <1>0, <1>1 DEF TypeOK
<1>3. Ahead'
  <2>1. \A m \in Month : m > month + 1 => ledger[m] = 0
    BY <1>0, <1>1 DEF MeterInv, Ahead, Month
  <2>2. \A d \in Caller : call[d].in <= month + 1
    BY <1>0, <1>1, CallFields DEF MeterInv, Ahead, Month
  <2> QED BY <1>0, <2>1, <2>2 DEF Ahead
<1>4. WithinBound'
  <2> SUFFICES ASSUME NEW m \in Month
               PROVE  (ledger[m] + SumFunctionOnSet(Due(m), Caller) <= MostSpent)'
    BY DEF WithinBound
  <2>1. CASE m = month + 1
    <3>1. ledger[m] < Cap
      BY <1>1, <2>1, NumbersOfMetering DEF MeterInv, Ahead
    <3> QED BY <1>0, <1>2, <3>1, BoundKept DEF MeterInv, WithinBound
  <2>2. CASE m # month + 1
    <3>1. ASSUME NEW d \in Caller PROVE Due(m)'[d] <= Due(m)[d]
      <4>1. Due(m)'[d] = IF call[d].in = m THEN call[d].row ELSE 0
        BY <1>0, <2>2 DEF Due
      <4>2. Due(m)[d] \in {MaxCost, IF call[d].in = m THEN call[d].row ELSE 0}
        BY DEF Due
      <4>3. call[d].row \in 0 .. MaxCost /\ MaxCost \in Nat
        BY <1>0, CallFields, NumbersOfMetering
      <4> QED BY <4>1, <4>2, <4>3
    <3> QED BY <1>0, <1>2, <3>1, BoundKept DEF MeterInv, WithinBound
  <2> QED BY <2>1, <2>2
<1>5. TellsOnce' /\ (\A d \in Caller : Booked(call[d]))'
  BY <1>0 DEF MeterInv, TellsOnce, Telling, At
<1> QED BY <1>2, <1>3, <1>4, <1>5 DEF MeterInv

LEMMA MeterStarts == Init => MeterInv
<1> SUFFICES ASSUME Init PROVE MeterInv
  OBVIOUS
<1>1. PICK k \in Kinds : call = [c \in Caller |->
          [at |-> "idle", kind |-> k, made |-> 0, cost |-> NoCost, usage |-> NoCost,
           row |-> NoCost, in |-> 1, lost |-> FALSE, raised |-> FALSE]]
  BY DEF Init
<1>2. /\ 1 \in Month /\ NoCost \in 0 .. MaxCost /\ 0 \in 0 .. Calls
  BY NumbersOfMetering, MeteringAssumption DEF Month, NoCost
<1>3. TypeOK
  <2>1. \A c \in Caller : call[c] \in Calling
    BY <1>1, <1>2 DEF Calling, Places
  <2>2. call \in [Caller -> Calling]
    BY <1>1, <2>1
  <2> QED BY <1>2, <2>2 DEF Init, TypeOK
<1>4. \A c \in Caller : Booked(call[c])
  BY <1>1 DEF Booked
<1>5. Ahead
  BY <1>1, <1>2 DEF Init, Ahead
<1>6. WithinBound
  <2>1. \A m \in Month : ledger[m] < Cap
    BY NumbersOfMetering DEF Init
  <2> QED BY <1>3, <2>1, DueIsNat DEF WithinBound
<1>7. TellsOnce
  <2> SUFFICES ASSUME NEW m \in Month
               PROVE  alerts[m] + SumFunctionOnSet(Telling(m), Caller)
                        <= blind[m] + IF m \in throttle THEN 1 ELSE 0
    BY DEF TellsOnce
  <2>1. Telling(m) \in [Caller -> 0 .. 0]
    BY <1>1 DEF Telling, At
  <2>2. SumFunctionOnSet(Telling(m), Caller) = 0
    <3> DEFINE s == SumFunctionOnSet(Telling(m), Caller)
               n == Cardinality(Caller)
    <3>1. s \in Nat /\ s <= n * 0 /\ n \in Nat
      BY <2>1, SumBound, NumbersOfMetering
    <3> HIDE DEF s, n
    <3>2. s = 0
      BY <3>1
    <3> QED BY <3>2 DEF s
  <2> QED BY <2>2 DEF Init
<1> QED BY <1>3, <1>4, <1>5, <1>6, <1>7 DEF MeterInv

\* The invariant is of the callers' interleavings as a whole; what it means for
\* one month: the rows under way are part of what is due.
LEMMA MeterMeans == MeterInv => TypeOK /\ SpendBounded /\ AnalyzeBillsOwnCost /\ AlertOnce
<1> SUFFICES ASSUME MeterInv PROVE TypeOK /\ SpendBounded /\ AnalyzeBillsOwnCost /\ AlertOnce
  OBVIOUS
<1>1. TypeOK
  BY DEF MeterInv
<1>2. SpendBounded
  <2> SUFFICES ASSUME NEW m \in Month
               PROVE  ledger[m] + SumFunctionOnSet(Rows(m), Caller) <= Cap - 1 + Cardinality(Caller) * MaxCost
    BY DEF SpendBounded
  <2> DEFINE R == Rows(m)
             D == Due(m)
  <2>1. \A c \in Caller : call[c].row \in 0 .. MaxCost /\ MaxCost \in Nat
    BY <1>1, CallFields, NumbersOfMetering
  <2>2. R \in [Caller -> Nat] /\ D \in [Caller -> Nat]
    BY <1>1, <2>1, DueIsNat DEF Rows
  <2>3. \A c \in Caller : R[c] <= D[c]
    BY <2>1 DEF Rows, Due
  <2>4. /\ ledger[m] + SumFunctionOnSet(D, Caller) <= MostSpent /\ ledger[m] \in Nat
        /\ Cap - 1 + Cardinality(Caller) * MaxCost = MostSpent /\ MostSpent \in Nat
    BY <1>1, NumbersOfMetering DEF MeterInv, WithinBound, TypeOK
  <2> HIDE DEF R, D
  <2>5. /\ SumFunctionOnSet(R, Caller) \in Nat /\ SumFunctionOnSet(D, Caller) \in Nat
        /\ SumFunctionOnSet(R, Caller) <= SumFunctionOnSet(D, Caller)
    BY <2>2, <2>3, SumMonotone, NumbersOfMetering
  <2>6. ledger[m] + SumFunctionOnSet(R, Caller) <= MostSpent
    BY <2>4, <2>5
  <2> QED BY <2>4, <2>6 DEF R
<1>3. AnalyzeBillsOwnCost
  BY DEF MeterInv, Booked, AnalyzeBillsOwnCost
<1>4. AlertOnce
  <2> SUFFICES ASSUME NEW m \in Month PROVE alerts[m] <= 1 + blind[m]
    BY DEF AlertOnce
  <2> DEFINE s == SumFunctionOnSet(Telling(m), Caller)
  <2>1. s \in Nat /\ alerts[m] \in Nat /\ blind[m] \in Nat
    BY <1>1, TellingIsNat
  <2>2. alerts[m] + s <= blind[m] + IF m \in throttle THEN 1 ELSE 0
    BY DEF MeterInv, TellsOnce
  <2> HIDE DEF s
  <2> QED BY <2>1, <2>2
<1> QED BY <1>1, <1>2, <1>3, <1>4

\* Only Settle ends a call, and the row it commits is the cost of the analysis.
LEMMA LedgerStep ==
    ASSUME MeterInv, [Next]_vars
    PROVE  [LedgerTakesOwnCosts]_vars
<1> SUFFICES ASSUME NEW c \in Caller, call[c].kind = "analyze", At(c, "ending"), At(c, "idle")'
             PROVE  \/ ledger' = [ledger EXCEPT ![call[c].in] = @ + call[c].cost]
                    \/ ledger' = ledger /\ (call[c].lost \/ call[c].raised)
  BY DEF LedgerTakesOwnCosts
<1>1. /\ call \in [Caller -> Calling] /\ ledger \in [Month -> Nat] /\ call[c].in \in Month
      /\ Booked(call[c])
  BY CallFields DEF MeterInv, TypeOK
<1>2. call[c].at = "ending" /\ call'[c].at = "idle" /\ call'[c] # call[c]
  BY DEF At
<1>3. CASE Settle(c)
  <2>1. CASE call[c].lost
    <3>1. call[c].row = 0
      BY <1>1, <2>1 DEF Booked, NoCost
    <3>2. [ledger EXCEPT ![call[c].in] = @ + 0] = ledger
      BY <1>1
    <3> QED BY <1>3, <2>1, <3>1, <3>2 DEF Settle
  <2>2. CASE ~call[c].lost
    <3>1. call[c].row = call[c].cost
      BY <1>1, <1>2, <2>2 DEF Booked
    <3> QED BY <1>3, <3>1 DEF Settle
  <2> QED BY <2>1, <2>2
<1>4. ASSUME NEW d \in Caller,
             \/ Start(d) \/ Gate(d) \/ Alarm(d) \/ Notify(d)
             \/ ScreenInput(d) \/ CheckBudget(d)
             \/ Complete(d) \/ Drained(d) \/ NoResponse(d) \/ ScreenSent(d)
             \/ Record(d) \/ ScreenOutput(d) \/ Settle(d)
      PROVE  d = c /\ Settle(c)
  <2>1. d = c
    BY <1>1, <1>2, <1>4 DEF Start, Gate, Alarm, Notify, ScreenInput, CheckBudget, Complete, Drained,
                            NoResponse, ScreenSent, Record, ScreenOutput, Settle, Go, Raise
  <2> QED BY <1>2, <1>4, <2>1 DEF Start, Gate, Alarm, Notify, ScreenInput, CheckBudget, Complete,
                                  Drained, NoResponse, ScreenSent, Record, ScreenOutput, At
<1>5. ~MonthEnds /\ ~UNCHANGED vars
  BY <1>2 DEF MonthEnds, vars
<1> QED BY <1>3, <1>4, <1>5 DEF Next

\* However many callers share agents and however their calls, refusals and
\* screenings interleave: no month is spent beyond its budget by more than one
\* call of each caller, what the ledger takes of an analysis is its own cost, or
\* nothing when its row was not written or its raise was rolled back, and the admins
\* are told once (_check_budget, _record_usage, _emit_budget_exhausted_alert).
THEOREM MeteringIsSound == Spec => MeteringSound
<1>1. ASSUME MeterInv, [Next]_vars PROVE MeterInv'
  <2>1. ASSUME NEW c \in Caller,
               \/ Start(c) \/ Gate(c) \/ ScreenInput(c) \/ CheckBudget(c)
               \/ Complete(c) \/ Drained(c) \/ NoResponse(c) \/ ScreenSent(c)
               \/ Record(c) \/ ScreenOutput(c)
        PROVE  MeterInv'
    <3>1. TypeOK /\ Booked(call[c])
      BY <1>1 DEF MeterInv
    <3>2. PICK r \in Calling : Turns(c, r) /\ Modest(c, r) /\ Discreet(c, r) /\ Unsettled /\ UNCHANGED alertVars
      BY <2>1, <3>1, StepTurns
    <3>3. throttle' \subseteq Month /\ alerts' \in [Month -> Nat] /\ blind' \in [Month -> Nat]
      BY <3>1, <3>2 DEF TypeOK, alertVars
    <3>4. TypeOK' /\ (\A d \in Caller : Booked(call[d]))' /\ WithinBound' /\ Ahead'
      BY <1>1, <3>2, <3>3, ModestKeeps
    <3>5. TellsOnce'
      BY <1>1, <3>2, <3>4, DiscreetKeeps
    <3> QED BY <3>4, <3>5 DEF MeterInv
  <2>2. ASSUME NEW c \in Caller, Alarm(c) \/ Notify(c) \/ Settle(c) PROVE MeterInv'
    BY <1>1, <2>2, AlarmKeeps, NotifyKeeps, SettleKeeps
  <2>3. CASE MonthEnds
    BY <1>1, <2>3, MonthKeeps
  <2>4. CASE UNCHANGED vars
    <3>1. /\ month' = month /\ ledger' = ledger /\ throttle' = throttle /\ alerts' = alerts
          /\ blind' = blind /\ lastUsage' = lastUsage /\ call' = call
      BY <2>4 DEF vars
    <3> QED BY <1>1, <3>1 DEF MeterInv, TypeOK, WithinBound, Due, Ahead, TellsOnce, Telling, At, MostSpent
  <2> QED BY <1>1, <2>1, <2>2, <2>3, <2>4 DEF Next
<1>2. Spec => []MeterInv
  BY <1>1, MeterStarts, PTL DEF Spec
<1>3. Spec => [](TypeOK /\ SpendBounded /\ AnalyzeBillsOwnCost /\ AlertOnce)
  BY <1>2, MeterMeans, PTL
<1>4. Spec => [][LedgerTakesOwnCosts]_vars
  BY <1>2, LedgerStep, PTL DEF Spec
<1> QED BY <1>3, <1>4 DEF MeteringSound

-----------------------------------------------------------------------------
(* The table of keys. *)

\* A KEK a row was wrapped with is not ahead of the processes.
WrappedByUse ==
    \A s \in Process, r \in AllRows :
        /\ (\A t \in Process : kms[t] = "none") => row[r].cipher.kek = "none"
        /\ (\A t \in Process : kms[t] \in {"none", "old"}) => row[r].cipher.kek # "new"

AllNew == \A t \in Process : kms[t] = "new"

\* A rewrap begun when every process had the new KEK rewrites all that does not
\* open under it, and nothing else comes into the table.
SweepIsComplete ==
    \A s \in Process :
        (txn[s].op = "rewrap" /\ txn[s].last) =>
            /\ AllNew
            /\ \A r \in AllRows \ txn[s].seen : row[r].cipher.kek \in {"none", "new"}

SweptIsNew == swept => AllNew /\ \A r \in AllRows : row[r].cipher.kek \in {"none", "new"}

\* Two rows of a scope are never active together.
OneRow == \A scope \in Scope \ {Null} : \A r, q \in Live(scope) : r = q

KeyInv == KeyTypeOK /\ OneRow /\ WrappedByUse /\ SweepIsComplete /\ SweptIsNew

LEMMA AtMostOne ==
    ASSUME NEW S, IsFiniteSet(S)
    PROVE  Cardinality(S) <= 1 <=> \A a, b \in S : a = b
<1>1. ASSUME Cardinality(S) <= 1, NEW a \in S, NEW b \in S, a # b PROVE FALSE
  <2>1. {a, b} \subseteq S /\ Cardinality({a, b}) = 2 /\ IsFiniteSet({a, b})
    <3>1. IsFiniteSet({a}) /\ Cardinality({a}) = 1
      BY FS_Singleton
    <3>2. {a, b} = {a} \cup {b} /\ b \notin {a}
      BY <1>1
    <3> QED BY <3>1, <3>2, FS_AddElement
  <2>2. Cardinality({a, b}) <= Cardinality(S)
    BY <2>1, FS_Subset
  <2>3. Cardinality(S) \in Nat
    BY FS_CardinalityType
  <2> QED BY <1>1, <2>1, <2>2, <2>3
<1>2. ASSUME \A a, b \in S : a = b PROVE Cardinality(S) <= 1
  <2>1. CASE S = {}
    BY <2>1, FS_EmptySet
  <2>2. CASE S # {}
    <3>1. PICK a \in S : S = {a}
      BY <1>2, <2>2
    <3> QED BY <3>1, FS_Singleton
  <2> QED BY <2>1, <2>2
<1> QED BY <1>1, <1>2

LEMMA LiveIsFinite == \A scope : IsFiniteSet(Live(scope))
<1>1. IsFiniteSet(Id)
  BY KeyStoreAssumption, FS_Interval DEF Id
<1>2. \A scope : Live(scope) \subseteq Id
  BY DEF Live
<1> QED BY <1>1, <1>2, FS_Subset

LEMMA KeyInitInv == KeyInit => KeyInv
<1> SUFFICES ASSUME KeyInit PROVE KeyInv
  OBVIOUS
<1>1. PICK k \in {"none", "old"} :
          /\ kms = [s \in Process |-> k]
          /\ made \in 0 .. MaxRows - 2
          /\ row \in [Id -> [live : BOOLEAN, scope : Scope, active : BOOLEAN,
                             cipher : {Fernet} \cup [kek : {k} \ {"none"}, marked : BOOLEAN]]
                            \cup {NoRow}]
  BY DEF KeyInit
<1>2. Fernet \in Cipher /\ Fernet.kek = "none"
  BY DEF Fernet, Cipher, KEK
<1>3. NoRow \in Row
  BY <1>2, KeyStoreAssumption DEF NoRow, Row
<1>4. \A c \in {Fernet} \cup [kek : {k} \ {"none"}, marked : BOOLEAN] :
          c \in Cipher /\ c.kek \in {"none", k}
  <2>1. \A c \in [kek : {k} \ {"none"}, marked : BOOLEAN] : c \in Cipher /\ c.kek = k
    BY DEF Cipher, KEK
  <2> QED BY <1>2, <2>1
<1>5. \A r \in Id : row[r] \in Row /\ row[r].cipher.kek \in {"none", k}
  <2> SUFFICES ASSUME NEW r \in Id PROVE row[r] \in Row /\ row[r].cipher.kek \in {"none", k}
    OBVIOUS
  <2>1. CASE row[r] = NoRow
    BY <1>2, <1>3, <2>1 DEF NoRow
  <2>2. CASE row[r] \in [live : BOOLEAN, scope : Scope, active : BOOLEAN,
                         cipher : {Fernet} \cup [kek : {k} \ {"none"}, marked : BOOLEAN]]
    <3>1. /\ row[r].live \in BOOLEAN /\ row[r].scope \in Scope /\ row[r].active \in BOOLEAN
          /\ row[r].cipher \in {Fernet} \cup [kek : {k} \ {"none"}, marked : BOOLEAN]
          /\ row[r] = [live |-> row[r].live, scope |-> row[r].scope, active |-> row[r].active,
                       cipher |-> row[r].cipher]
      BY <2>2
    <3>2. row[r].cipher \in Cipher /\ row[r].cipher.kek \in {"none", k}
      BY <1>4, <3>1
    <3> QED BY <3>1, <3>2 DEF Row
  <2> QED BY <1>1, <2>1, <2>2
<1>6. NoTxn \in Txn /\ NoTxn.op = "idle" /\ NoTxn.held = {}
  BY KeyStoreAssumption DEF NoTxn, Txn
<1>7. KeyTypeOK
  <2>1. made \in 0 .. MaxRows /\ kms \in [Process -> KEK] /\ swept \in BOOLEAN
    <3>1. MaxRows \in Nat /\ k \in KEK
      BY KeyStoreAssumption DEF KEK
    <3>2. swept = FALSE
      BY DEF KeyInit
    <3>3. made \in 0 .. MaxRows
      BY <1>1, <3>1
    <3> QED BY <1>1, <3>1, <3>2, <3>3
  <2>2. row \in [Id -> Row] /\ \A r \in Id : row[r].live => r <= made
    BY <1>1, <1>5 DEF KeyInit
  <2>3. txn \in [Process -> Txn] /\ \A s \in Process : txn[s].held = {} /\ txn[s].op = "idle"
    BY <1>6 DEF KeyInit
  <2> QED BY <2>1, <2>2, <2>3 DEF KeyTypeOK
<1>8. OneRow
  BY LiveIsFinite, AtMostOne DEF KeyInit, OneRow
<1>9. WrappedByUse
  BY <1>1, <1>5 DEF WrappedByUse, AllRows
<1>10. SweepIsComplete /\ SweptIsNew
  BY <1>6 DEF KeyInit, SweepIsComplete, SweptIsNew
<1> QED BY <1>7, <1>8, <1>9, <1>10 DEF KeyInv

\* A step of the transaction of s alone.
LEMMA TxnKeepsInv ==
    ASSUME KeyInv, NEW s \in Process, txn' \in [Process -> Txn],
           \A t \in Process \ {s} : txn'[t] = txn[t],
           txn'[s].held \cap HeldByOthers(s) = {},
           (txn'[s].op = "rewrap" /\ txn'[s].last) =>
               AllNew /\ \A r \in AllRows \ txn'[s].seen : row[r].cipher.kek \in {"none", "new"},
           UNCHANGED <<kms, row, made, swept>>
    PROVE  KeyInv'
<1>1. KeyTypeOK'
  <2>1. ASSUME NEW a \in Process, NEW b \in Process, a # b
        PROVE  txn'[a].held \cap txn'[b].held = {}
    <3>1. \A t \in Process \ {s} : txn'[s].held \cap txn[t].held = {}
      BY DEF HeldByOthers
    <3>2. CASE a = s
      BY <2>1, <3>1, <3>2
    <3>3. CASE b = s
      BY <2>1, <3>1, <3>3
    <3>4. CASE a # s /\ b # s
      BY <2>1, <3>4 DEF KeyInv, KeyTypeOK
    <3> QED BY <3>2, <3>3, <3>4
  <2> QED BY <2>1 DEF KeyInv, KeyTypeOK
<1>2. OneRow' /\ WrappedByUse' /\ SweptIsNew'
  BY DEF KeyInv, OneRow, Live, WrappedByUse, SweptIsNew, AllRows, AllNew
<1>3. SweepIsComplete'
  <2>1. AllRows' = AllRows /\ (AllNew' <=> AllNew)
    BY DEF AllRows, AllNew
  <2> QED BY <2>1 DEF KeyInv, SweepIsComplete
<1> QED BY <1>1, <1>2, <1>3 DEF KeyInv

\* A transaction that ends holds and claims nothing.
LEMMA EndedTxn ==
    ASSUME KeyInv, NEW s \in Process, End(s)
    PROVE  /\ txn' \in [Process -> Txn] /\ txn'[s].held = {} /\ txn'[s].op = "idle"
           /\ \A t \in Process \ {s} : txn'[t] = txn[t]
           /\ \A a, b \in Process : a # b => txn'[a].held \cap txn'[b].held = {}
<1>1. NoTxn \in Txn /\ NoTxn.op = "idle" /\ NoTxn.held = {}
  BY KeyStoreAssumption DEF NoTxn, Txn
<1>2. txn \in [Process -> Txn] /\ \A a, b \in Process : a # b => txn[a].held \cap txn[b].held = {}
  BY DEF KeyInv, KeyTypeOK
<1>3. /\ txn' \in [Process -> Txn] /\ txn'[s] = NoTxn
      /\ \A t \in Process \ {s} : txn'[t] = txn[t]
  BY <1>1, <1>2 DEF End
<1>4. ASSUME NEW a \in Process, NEW b \in Process, a # b
      PROVE  txn'[a].held \cap txn'[b].held = {}
  <2>1. CASE a = s \/ b = s
    BY <1>1, <1>3, <2>1
  <2>2. CASE a # s /\ b # s
    BY <1>2, <1>3, <1>4, <2>2
  <2> QED BY <2>1, <2>2
<1> QED BY <1>1, <1>3, <1>4

LEMMA EndKeepsKeyInv ==
    ASSUME KeyInv, NEW s \in Process, End(s), UNCHANGED <<kms, row, made, swept>>
    PROVE  KeyInv'
BY EndedTxn, TxnKeepsInv

\* What a store writes names the KEK it is set to.
LEMMA Encrypted ==
    ASSUME KeyInv, NEW s \in Process
    PROVE  Encrypt(s) \in Cipher /\ Encrypt(s).kek = kms[s] /\ kms[s] \in KEK
<1>1. kms[s] \in KEK
  BY DEF KeyInv, KeyTypeOK
<1>2. CASE kms[s] = "none"
  BY <1>1, <1>2 DEF Encrypt, Fernet, Cipher
<1>3. CASE kms[s] # "none"
  BY <1>1, <1>3 DEF Encrypt, Cipher
<1> QED BY <1>1, <1>2, <1>3

LEMMA SaveStepsKeepInv ==
    ASSUME KeyInv, NEW s \in Process, SaveBegins(s) \/ SaveUpdates(s) \/ SaveFails(s)
    PROVE  KeyInv'
<1>1. ASSUME SaveBegins(s) PROVE KeyInv'
  <2>1. PICK scope \in Scope :
            txn' = [txn EXCEPT ![s] = [NoTxn EXCEPT !.op = "update", !.scope = scope, !.seen = Live(scope)]]
    BY <1>1 DEF SaveBegins
  <2> DEFINE t == [NoTxn EXCEPT !.op = "update", !.scope = scope, !.seen = Live(scope)]
  <2>2. t \in Txn /\ t.op = "update" /\ t.held = {}
    <3>1. Live(scope) \subseteq Id
      BY DEF Live
    <3> QED BY <3>1, KeyStoreAssumption DEF NoTxn, Txn
  <2>3. txn' = [txn EXCEPT ![s] = t]
    BY <2>1
  <2> HIDE DEF t
  <2>4. /\ txn' \in [Process -> Txn] /\ txn'[s] = t
        /\ \A p \in Process \ {s} : txn'[p] = txn[p]
    BY <2>2, <2>3 DEF KeyInv, KeyTypeOK
  <2> QED BY <1>1, <2>2, <2>4, TxnKeepsInv DEF SaveBegins
<1>2. ASSUME SaveUpdates(s) PROVE KeyInv'
  <2> DEFINE h == {r \in txn[s].seen : row[r].live /\ row[r].active}
  <2>1. /\ txn' = [txn EXCEPT ![s].op = "insert", ![s].held = h]
        /\ txn \in [Process -> Txn] /\ txn[s] \in Txn
        /\ txn[s].seen \cap HeldByOthers(s) = {}
    BY <1>2 DEF SaveUpdates, KeyInv, KeyTypeOK
  <2>2. h \subseteq txn[s].seen /\ h \in SUBSET Id
    BY <2>1 DEF Txn
  <2> HIDE DEF h
  <2>3. /\ txn' \in [Process -> Txn] /\ txn'[s].op = "insert" /\ txn'[s].held = h
        /\ \A p \in Process \ {s} : txn'[p] = txn[p]
    BY <2>1, <2>2 DEF Txn
  <2> QED BY <1>2, <2>1, <2>2, <2>3, TxnKeepsInv DEF SaveUpdates
<1>3. ASSUME SaveFails(s) PROVE KeyInv'
  BY <1>3, EndKeepsKeyInv DEF SaveFails
<1> QED BY <1>1, <1>2, <1>3

LEMMA SweepBeginsKeepsInv ==
    ASSUME KeyInv, NEW s \in Process, NEW op \in {"reencrypt", "rewrap"}, NEW rows \in SUBSET Id,
           op = "rewrap" => kms[s] = "new" /\ rows = OnOldKEK(s), SweepBegins(s, op, rows)
    PROVE  KeyInv'
<1> DEFINE t == [NoTxn EXCEPT !.op = op, !.seen = rows, !.last = \A q \in Process : kms[q] = "new"]
<1>1. /\ t \in Txn /\ t.op = op /\ t.held = {} /\ t.seen = rows
      /\ t.last = (\A q \in Process : kms[q] = "new")
  BY KeyStoreAssumption DEF NoTxn, Txn
<1>2. txn' = [txn EXCEPT ![s] = t] /\ UNCHANGED <<kms, row, made, swept>>
  BY DEF SweepBegins
<1> HIDE DEF t
<1>3. /\ txn' \in [Process -> Txn] /\ txn'[s] = t
      /\ \A p \in Process \ {s} : txn'[p] = txn[p]
  BY <1>1, <1>2 DEF KeyInv, KeyTypeOK
<1>4. ASSUME t.op = "rewrap", t.last
      PROVE  AllNew /\ \A r \in AllRows \ t.seen : row[r].cipher.kek \in {"none", "new"}
  <2>1. AllNew
    BY <1>1, <1>4 DEF AllNew
  <2>2. ASSUME NEW r \in AllRows \ t.seen PROVE row[r].cipher.kek \in {"none", "new"}
    <3>1. Legacy(r) \/ Opens(s, row[r].cipher)
      BY <1>1, <1>4, <2>2 DEF OnOldKEK
    <3> QED BY <1>1, <1>4, <3>1 DEF Legacy, Opens, Fernet
  <2> QED BY <2>1, <2>2
<1> QED BY <1>1, <1>2, <1>3, <1>4, TxnKeepsInv

LEMMA ReconfigureKeepsInv ==
    ASSUME KeyInv, NEW s \in Process, Reconfigure(s)
    PROVE  KeyInv'
<1>1. /\ txn' \in [Process -> Txn] /\ txn'[s].held = {} /\ txn'[s].op = "idle"
      /\ \A t \in Process \ {s} : txn'[t] = txn[t]
      /\ \A a, b \in Process : a # b => txn'[a].held \cap txn'[b].held = {}
      /\ UNCHANGED <<row, made, swept>>
  BY EndedTxn DEF Reconfigure
<1>2. /\ kms \in [Process -> KEK] /\ kms' \in [Process -> KEK]
      /\ kms'[s] = (IF kms[s] = "none" THEN "old" ELSE "new")
      /\ \A t \in Process \ {s} : kms'[t] = kms[t]
  BY DEF Reconfigure, KeyInv, KeyTypeOK, KEK
<1>3. KeyTypeOK'
  BY <1>1, <1>2 DEF KeyInv, KeyTypeOK
<1>4. OneRow'
  BY <1>1 DEF KeyInv, OneRow, Live
<1>5. AllRows' = AllRows /\ (AllNew => AllNew')
  BY <1>1, <1>2 DEF AllRows, AllNew
<1>6. WrappedByUse'
  <2>1. ~(\A t \in Process : kms'[t] = "none")
    BY <1>2
  <2>2. (\A t \in Process : kms'[t] \in {"none", "old"}) => \A t \in Process : kms[t] \in {"none", "old"}
    BY <1>2
  <2> QED BY <1>1, <1>5, <2>1, <2>2 DEF KeyInv, WrappedByUse
<1>7. SweepIsComplete'
  BY <1>1, <1>5 DEF KeyInv, SweepIsComplete
<1>8. SweptIsNew'
  BY <1>1, <1>5 DEF KeyInv, SweptIsNew
<1> QED BY <1>3, <1>4, <1>6, <1>7, <1>8 DEF KeyInv

\* The transaction of s ends, and what it wrote names the KEK of s.
LEMMA WritesKeepKEKs ==
    ASSUME KeyInv, NEW s \in Process, End(s), kms' = kms,
           \A r \in AllRows' : \/ row'[r].cipher.kek = kms[s]
                               \/ r \in AllRows /\ row'[r].cipher = row[r].cipher
    PROVE  WrappedByUse' /\ SweepIsComplete'
<1>1. (AllNew' <=> AllNew) /\ (AllNew => kms[s] = "new")
  BY DEF AllNew
<1>2. WrappedByUse'
  BY DEF KeyInv, WrappedByUse
<1>3. SweepIsComplete'
  <2> SUFFICES ASSUME NEW t \in Process, txn'[t].op = "rewrap", txn'[t].last
               PROVE  AllNew' /\ \A r \in AllRows' \ txn'[t].seen : row'[r].cipher.kek \in {"none", "new"}
    BY DEF SweepIsComplete
  <2>1. t # s /\ txn'[t] = txn[t]
    BY EndedTxn
  <2>2. AllNew /\ \A r \in AllRows \ txn[t].seen : row[r].cipher.kek \in {"none", "new"}
    BY <2>1 DEF KeyInv, SweepIsComplete
  <2> QED BY <1>1, <2>1, <2>2
<1> QED BY <1>2, <1>3

LEMMA SaveCommitsKeepsInv ==
    ASSUME KeyInv, NEW s \in Process, SaveCommits(s)
    PROVE  KeyInv'
<1> DEFINE r == made + 1
           new == [live |-> TRUE, scope |-> txn[s].scope, active |-> TRUE, cipher |-> Encrypt(s)]
<1>1. /\ txn' \in [Process -> Txn]
      /\ \A a, b \in Process : a # b => txn'[a].held \cap txn'[b].held = {}
      /\ UNCHANGED <<kms, swept>> /\ made' = r /\ End(s)
  BY EndedTxn DEF SaveCommits
<1>2. /\ made \in 0 .. MaxRows /\ MaxRows \in Nat /\ made < MaxRows /\ row \in [Id -> Row]
      /\ txn[s] \in Txn /\ \A i \in Id : row[i].live => i <= made
  BY KeyStoreAssumption DEF SaveCommits, KeyInv, KeyTypeOK
<1>3. r \in Id /\ made' \in 0 .. MaxRows /\ ~row[r].live
  BY <1>1, <1>2 DEF Id
<1>4. new \in Row /\ new.live = TRUE /\ new.active = TRUE /\ new.scope = txn[s].scope /\ new.cipher.kek = kms[s]
  <2>1. txn[s].scope \in Scope /\ Encrypt(s) \in Cipher /\ Encrypt(s).kek = kms[s]
    BY <1>2, Encrypted DEF Txn
  <2> QED BY <2>1 DEF Row
<1>5. row' = [i \in Id |-> IF i = r THEN new
                           ELSE IF i \in txn[s].held THEN [row[i] EXCEPT !.active = FALSE]
                           ELSE row[i]]
  BY <1>1 DEF SaveCommits, Insert
<1> HIDE DEF new
<1>6. row'[r] = new
  BY <1>3, <1>5
<1>7. ASSUME NEW i \in Id, i # r
      PROVE  /\ row'[i] \in Row /\ row'[i].live = row[i].live /\ row'[i].scope = row[i].scope
             /\ row'[i].cipher = row[i].cipher
             /\ row'[i].active = (IF i \in txn[s].held THEN FALSE ELSE row[i].active)
  <2>1. row[i] \in Row
    BY <1>2
  <2>2. row'[i] = IF i \in txn[s].held THEN [row[i] EXCEPT !.active = FALSE] ELSE row[i]
    BY <1>5, <1>7
  <2>3. CASE i \in txn[s].held
    BY <2>1, <2>2, <2>3 DEF Row
  <2>4. CASE i \notin txn[s].held
    BY <2>1, <2>2, <2>4
  <2> QED BY <2>3, <2>4
<1> HIDE DEF r
<1>8. KeyTypeOK'
  <2>1. row' \in [Id -> Row]
    <3>1. \A i \in Id : row'[i] \in Row
      BY <1>4, <1>6, <1>7
    <3>2. row' = [i \in Id |-> row'[i]]
      BY <1>5
    <3> HIDE DEF Row
    <3> QED BY <3>1, <3>2
  <2>2. \A i \in Id : row'[i].live => i <= made'
    <3>1. made' = made + 1
      BY <1>1 DEF r
    <3>2. ASSUME NEW i \in Id, row'[i].live PROVE i <= made'
      <4>1. i \in Nat /\ r \in Nat /\ made \in Nat
        BY <1>2, <1>3 DEF Id
      <4>2. CASE i = r
        BY <1>1, <4>1, <4>2
      <4>3. CASE i # r
        <5>1. i <= made
          BY <1>2, <1>7, <3>2, <4>3
        <5> QED BY <3>1, <4>1, <5>1
      <4> QED BY <4>2, <4>3
    <3> QED BY <3>2
  <2>3. kms' \in [Process -> KEK] /\ swept' \in BOOLEAN
    BY <1>1 DEF KeyInv, KeyTypeOK
  <2> QED BY <1>1, <1>3, <2>1, <2>2, <2>3 DEF KeyTypeOK
<1>9. \A i \in AllRows' : \/ row'[i].cipher.kek = kms[s]
                          \/ i \in AllRows /\ row'[i].cipher = row[i].cipher
  BY <1>4, <1>6, <1>7 DEF AllRows
<1>10. WrappedByUse' /\ SweepIsComplete'
  BY <1>1, <1>9, WritesKeepKEKs
<1>11. SweptIsNew'
  BY <1>1, <1>9 DEF KeyInv, SweptIsNew, AllNew
<1>12. OneRow'
  <2> SUFFICES ASSUME NEW scope \in Scope \ {Null}, NEW a \in Live(scope)', NEW b \in Live(scope)'
               PROVE  a = b
    BY DEF OneRow
  <2>1. \A i \in Live(scope)' : i # r => i \in Live(scope) /\ i \notin txn[s].held
    BY <1>7 DEF Live
  <2>2. r \in Live(scope)' => Live(scope) \subseteq txn[s].held
    <3>1. r \in Live(scope)' => txn[s].scope = scope
      BY <1>4, <1>6 DEF Live
    <3>2. IndexAllows(s)
      BY DEF SaveCommits
    <3> QED BY <3>1, <3>2 DEF IndexAllows
  <2> QED BY <2>1, <2>2 DEF KeyInv, OneRow
<1> QED BY <1>8, <1>10, <1>11, <1>12 DEF KeyInv

LEMMA SweepCommitsKeepsInv ==
    ASSUME KeyInv, NEW s \in Process, SweepCommits(s)
    PROVE  KeyInv'
<1>1. /\ txn' \in [Process -> Txn] /\ UNCHANGED <<kms, made>> /\ End(s)
      /\ \A a, b \in Process : a # b => txn'[a].held \cap txn'[b].held = {}
      /\ swept' = (swept \/ (In(s, "rewrap") /\ txn[s].last))
      /\ row' = [r \in Id |-> IF r \in txn[s].seen THEN [row[r] EXCEPT !.cipher = Encrypt(s)] ELSE row[r]]
  BY EndedTxn DEF SweepCommits
<1>2. row \in [Id -> Row] /\ txn[s] \in Txn
  BY DEF KeyInv, KeyTypeOK
<1>3. ASSUME NEW r \in Id
      PROVE  /\ row'[r] \in Row /\ row'[r].live = row[r].live /\ row'[r].scope = row[r].scope
             /\ row'[r].active = row[r].active
             /\ row'[r].cipher = (IF r \in txn[s].seen THEN Encrypt(s) ELSE row[r].cipher)
  <2>1. row[r] \in Row /\ Encrypt(s) \in Cipher
    BY <1>2, Encrypted
  <2>2. row'[r] = IF r \in txn[s].seen THEN [row[r] EXCEPT !.cipher = Encrypt(s)] ELSE row[r]
    BY <1>1
  <2>3. CASE r \in txn[s].seen
    BY <2>1, <2>2, <2>3 DEF Row
  <2>4. CASE r \notin txn[s].seen
    BY <2>1, <2>2, <2>4
  <2> QED BY <2>3, <2>4
<1>4. KeyTypeOK'
  <2>1. row' \in [Id -> Row]
    <3>1. row' = [r \in Id |-> row'[r]]
      BY <1>1
    <3> QED BY <1>3, <3>1
  <2>2. swept' \in BOOLEAN
    BY <1>1
  <2> QED BY <1>1, <1>3, <2>1, <2>2 DEF KeyInv, KeyTypeOK
<1>5. \A scope : Live(scope)' = Live(scope)
  BY <1>3 DEF Live
<1>6. OneRow'
  BY <1>5 DEF KeyInv, OneRow
<1>7. AllRows' = AllRows
  BY <1>3 DEF AllRows
<1>8. \A r \in AllRows' : \/ row'[r].cipher.kek = kms[s]
                          \/ r \in AllRows /\ row'[r].cipher = row[r].cipher
  BY <1>3, <1>7, Encrypted DEF AllRows
<1>9. WrappedByUse' /\ SweepIsComplete'
  BY <1>1, <1>8, WritesKeepKEKs
<1>10. SweptIsNew'
  <2>1. CASE swept
    BY <1>1, <1>7, <1>8, <2>1 DEF KeyInv, SweptIsNew, AllNew
  <2>2. CASE In(s, "rewrap") /\ txn[s].last
    <3>1. AllNew /\ \A r \in AllRows \ txn[s].seen : row[r].cipher.kek \in {"none", "new"}
      BY <2>2 DEF KeyInv, SweepIsComplete, In
    <3>2. kms[s] = "new"
      BY <3>1 DEF AllNew
    <3>3. \A r \in AllRows : row'[r].cipher.kek \in {"none", "new"}
      BY <1>3, <3>1, <3>2, Encrypted DEF AllRows
    <3> QED BY <1>1, <1>7, <3>1, <3>3 DEF SweptIsNew, AllNew
  <2> QED BY <1>1, <2>1, <2>2 DEF SweptIsNew
<1> QED BY <1>4, <1>6, <1>9, <1>10 DEF KeyInv

LEMMA DeleteKeepsInv ==
    ASSUME KeyInv, NEW r \in Id, DeleteKey(r)
    PROVE  KeyInv'
<1>1. NoRow \in Row /\ ~NoRow.live
  BY KeyStoreAssumption DEF NoRow, Row, Fernet, Cipher, KEK
<1>2. /\ row' \in [Id -> Row] /\ ~row'[r].live /\ \A q \in Id \ {r} : row'[q] = row[q]
      /\ UNCHANGED <<kms, made, txn, swept>>
  BY <1>1 DEF DeleteKey, KeyInv, KeyTypeOK
<1>3. AllRows' \subseteq AllRows /\ \A q \in AllRows' : row'[q] = row[q]
  BY <1>2 DEF AllRows
<1>4. \A scope : Live(scope)' \subseteq Live(scope)
  BY <1>2 DEF Live
<1>5. KeyTypeOK'
  BY <1>2 DEF KeyInv, KeyTypeOK
<1>6. OneRow'
  BY <1>4 DEF KeyInv, OneRow
<1>7. WrappedByUse' /\ SweepIsComplete' /\ SweptIsNew'
  BY <1>2, <1>3 DEF KeyInv, WrappedByUse, SweepIsComplete, SweptIsNew, AllNew
<1> QED BY <1>5, <1>6, <1>7 DEF KeyInv

LEMMA KeyNextInv == KeyInv /\ [KeyNext]_keyVars => KeyInv'
<1> SUFFICES ASSUME KeyInv, [KeyNext]_keyVars PROVE KeyInv'
  OBVIOUS
<1>1. ASSUME NEW s \in Process, ReencryptBegins(s) \/ RewrapBegins(s) PROVE KeyInv'
  <2>1. {r \in AllRows : Legacy(r)} \in SUBSET Id /\ OnOldKEK(s) \in SUBSET Id
    BY DEF AllRows, OnOldKEK
  <2> QED BY <1>1, <2>1, SweepBeginsKeepsInv DEF ReencryptBegins, RewrapBegins
<1>2. ASSUME NEW s \in Process, SweepFails(s) PROVE KeyInv'
  BY <1>2, EndKeepsKeyInv DEF SweepFails
<1>3. CASE UNCHANGED keyVars
  <2>1. AllRows' = AllRows /\ (AllNew' <=> AllNew) /\ \A scope : Live(scope)' = Live(scope)
    BY <1>3 DEF keyVars, AllRows, AllNew, Live
  <2> QED BY <1>3, <2>1 DEF keyVars, KeyInv, KeyTypeOK, OneRow, WrappedByUse, SweepIsComplete, SweptIsNew
<1> QED BY <1>1, <1>2, <1>3, SaveStepsKeepInv, SaveCommitsKeepsInv, SweepCommitsKeepsInv,
           ReconfigureKeepsInv, DeleteKeepsInv DEF KeyNext

\* Whatever saves, sweeps, deletes and reconfigurations overlap in however many
\* processes, a scope has one active key at most and every row opens: before the
\* KEK is rotated, and for ever after the sweep that followed the last
\* reconfiguration (save_key, rewrap_all).
THEOREM KeysAreSound == KeySpec => []KeyTableSound
<1>1. KeySpec => []KeyInv
  BY KeyInitInv, KeyNextInv, PTL DEF KeySpec
<1>2. KeyInv => KeyTableSound
  <2> SUFFICES ASSUME KeyInv PROVE KeyTableSound
    OBVIOUS
  <2>1. OneActivePerScope
    BY LiveIsFinite, AtMostOne DEF KeyInv, OneRow, OneActivePerScope
  <2>2. \A r \in AllRows : row[r].cipher.kek \in KEK
    <3>1. \A r \in AllRows : row[r] \in Row
      BY DEF KeyInv, KeyTypeOK, AllRows
    <3> QED BY <3>1 DEF Row, Cipher
  <2>3. KeysStayReadable
    BY <2>2 DEF KeyInv, WrappedByUse, SweptIsNew, AllNew, KeysStayReadable, Opens, KEK
  <2> QED BY <2>1, <2>3 DEF KeyTableSound, KeyInv
<1> QED BY <1>1, <1>2, PTL
==============================================================================
