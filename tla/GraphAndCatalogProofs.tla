------------------------ MODULE GraphAndCatalogProofs ------------------------
(***************************************************************************)
(* Proofs about agents, in graphs and in their catalogue.                  *)
(*                                                                         *)
(* A graph's run returns only when all of it is done, and validate accepts *)
(* exactly the graphs whose walks all end, for any nodes, graphs, depth    *)
(* and fan.  The first goes without the depth check: what gather owes its  *)
(* caller holds of whatever tree of runs has grown.                        *)
(*                                                                         *)
(* The catalogue, for any requests that overlap: the tables keep their     *)
(* constraints, rows that an app provisions are written by that app, the   *)
(* index shows what was committed, and only a party to a run pays for it.  *)
(* A request reads in one step and writes in a later one; the inductive    *)
(* invariant says what it holds in between, and that this still is what    *)
(* the tables hold as long as nobody else wrote.                           *)
(***************************************************************************)
EXTENDS AgentGraph, AgentCatalog, ProofLemmas

-----------------------------------------------------------------------------
(* The inductive invariant. *)

GraphTypeOK ==
    /\ TypeOK /\ spec \in Spec0
    /\ \A w \in Way : /\ At(w, "absent") => run[w].node = Unknown
                      /\ run[w].at \in {"absent", "agent"} => run[w].hop = 1

\* Nothing ran before the graph was accepted, and it returns with its first run.
Rooted ==
    /\ outcome \in {"unparsed", "rejected"} => \A w \in Way : At(w, "absent")
    /\ outcome = "returned" => At(<<>>, "done")

\* A run is there because the one before it collected its hop.
Nested == \A w \in Way \ {<<>>} : ~At(w, "absent") => Last(w) \in run[Front(w)].kids

\* A run is done after the ones it gathered.
Joined == \A w \in Way : At(w, "done") => \A v \in Kids(w) \cap Way : At(v, "done")

\* What is collected are hops to nodes, among those the run has come by.
Collected ==
    \A w \in Way : ~At(w, "absent") =>
        \A i \in run[w].kids : i \in 1 .. Len(Hops(w)) /\ Hops(w)[i] \in Node /\ i < run[w].hop

\* Some run refused a hop to n.
RefusedTo(n) == \E w \in Way : \E i \in RefusedHops(w) : Hops(w)[i] = n

\* A run past its agent has a result, and so has who was refused; an answer is one
\* of a run, a denial is that of a refused hop.
Heard ==
    /\ \A w \in Way : run[w].at \in {"hops", "gather", "done"} => results[run[w].node] # Missing
    /\ \A w \in Way : \A i \in RefusedHops(w) : results[Hops(w)[i]] # Missing
    /\ \A n \in Node : results[n] \in Answers =>
          \E w \in Way : /\ run[w].node = n /\ run[w].answer = results[n]
                         /\ run[w].at \notin {"absent", "agent"}
    /\ \A n \in Node : results[n] = Denied => RefusedTo(n)

GraphInv == GraphTypeOK /\ Rooted /\ Nested /\ Joined /\ Collected /\ Heard

-----------------------------------------------------------------------------
(* Ways. *)

\* A way is a sequence of positions, shorter than the depth.
LEMMA WayIsSeq ==
    \A w : w \in Way <=> w \in Seq(1 .. Fan) /\ Len(w) <= MaxDepth - 1
<1>1. ASSUME NEW w \in Way PROVE w \in Seq(1 .. Fan) /\ Len(w) <= MaxDepth - 1
  <2>1. PICK d \in 0 .. MaxDepth - 1 : w \in [1 .. d -> 1 .. Fan]
    BY DEF Way
  <2>2. d \in Nat /\ d <= MaxDepth - 1
    BY <2>1, GraphAssumption
  <2>3. w \in Seq(1 .. Fan)
    BY <2>1, <2>2, SeqDef
  <2>4. Len(w) \in Nat /\ 1 .. Len(w) = 1 .. d
    BY <2>1, <2>3, LenProperties
  <2>5. Len(w) = d
    <3>1. Len(w) <= d
      BY <2>2, <2>4
    <3>2. d <= Len(w)
      BY <2>2, <2>4
    <3> QED BY <2>2, <2>4, <3>1, <3>2
  <2> QED BY <2>2, <2>3, <2>5
<1>2. ASSUME NEW w \in Seq(1 .. Fan), Len(w) <= MaxDepth - 1 PROVE w \in Way
  <2>1. Len(w) \in 0 .. MaxDepth - 1 /\ w \in [1 .. Len(w) -> 1 .. Fan]
    BY <1>2, GraphAssumption, LenProperties
  <2> QED BY <2>1 DEF Way
<1> QED BY <1>1, <1>2

\* The first run's way is the empty one.
LEMMA RootIsWay == <<>> \in Way
<1>1. <<>> \in Seq(1 .. Fan) /\ Len(<<>>) = 0
  BY EmptySeq
<1>2. 0 <= MaxDepth - 1
  BY GraphAssumption
<1> QED BY <1>1, <1>2, WayIsSeq

\* Front and Last take apart what Append puts together.
LEMMA FrontAndLast ==
    ASSUME NEW w \in Way, w # <<>>
    PROVE  /\ Front(w) \in Way /\ Len(w) \in Nat /\ Len(Front(w)) = Len(w) - 1
           /\ Last(w) \in 1 .. Fan /\ Append(Front(w), Last(w)) = w
<1> DEFINE n == Len(w)
<1>1. /\ w \in Seq(1 .. Fan) /\ n <= MaxDepth - 1 /\ n \in Nat /\ n > 0
      /\ \A i \in 1 .. n : w[i] \in 1 .. Fan
  <2>1. w \in Seq(1 .. Fan) /\ n <= MaxDepth - 1
    BY WayIsSeq
  <2>2. n \in Nat /\ n # 0
    BY <2>1, EmptySeq
  <2>3. \A i \in 1 .. n : w[i] \in 1 .. Fan
    BY <2>1, LenProperties
  <2> QED BY <2>1, <2>2, <2>3
<1>2. Front(w) \in Seq(1 .. Fan) /\ Len(Front(w)) = n - 1 /\ \A i \in 1 .. n - 1 : Front(w)[i] = w[i]
  <2>1. \A i \in 1 .. n - 1 : w[i] \in 1 .. Fan
    BY <1>1
  <2>2. /\ SubSeq(w, 1, n - 1) \in Seq(1 .. Fan)
        /\ Len(SubSeq(w, 1, n - 1)) = IF 1 <= n - 1 THEN n - 1 - 1 + 1 ELSE 0
        /\ \A i \in 1 .. n - 1 - 1 + 1 : SubSeq(w, 1, n - 1)[i] = w[1 + i - 1]
    <3> HIDE DEF n
    <3> QED BY <1>1, <2>1, SubSeqProperties
  <2>3. Front(w) = SubSeq(w, 1, n - 1)
    BY DEF Front
  <2> HIDE DEF n
  <2>4. (IF 1 <= n - 1 THEN n - 1 - 1 + 1 ELSE 0) = n - 1 /\ n - 1 - 1 + 1 = n - 1
    BY <1>1
  <2>5. \A i \in 1 .. n - 1 : 1 + i - 1 = i
    BY <1>1
  <2> QED BY <2>2, <2>3, <2>4, <2>5
<1>3. Last(w) \in 1 .. Fan
  BY <1>1 DEF Last
<1>4. Append(Front(w), Last(w)) = w
  <2>1. /\ Append(Front(w), Last(w)) \in Seq(1 .. Fan) /\ Len(Append(Front(w), Last(w))) = n
        /\ \A i \in 1 .. n - 1 : Append(Front(w), Last(w))[i] = Front(w)[i]
        /\ Append(Front(w), Last(w))[n] = Last(w)
    BY <1>1, <1>2, <1>3, AppendProperties
  <2>2. \A i \in 1 .. n : Append(Front(w), Last(w))[i] = w[i]
    BY <1>1, <1>2, <2>1 DEF Last
  <2> QED BY <1>1, <2>1, <2>2, SeqEqual
<1>5. Front(w) \in Way
  BY <1>1, <1>2, WayIsSeq, GraphAssumption
<1> QED BY <1>1, <1>2, <1>3, <1>4, <1>5

\* The hop to a run is the last position of its way.
LEMMA KidsComeFrom ==
    ASSUME NEW w \in Way, NEW i \in 1 .. Fan
    PROVE  Append(w, i) # <<>> /\ Front(Append(w, i)) = w /\ Last(Append(w, i)) = i /\ Append(w, i) # w
<1>1. w \in Seq(1 .. Fan) /\ Len(w) \in Nat
  BY WayIsSeq
<1> DEFINE v == Append(w, i)
<1>2. /\ v \in Seq(1 .. Fan) /\ Len(v) = Len(w) + 1
      /\ \A j \in 1 .. Len(w) : v[j] = w[j]
      /\ v[Len(w) + 1] = i
  BY <1>1, AppendProperties
<1> HIDE DEF v
<1>3. v # <<>> /\ v # w
  BY <1>1, <1>2
<1>4. Last(v) = i
  BY <1>1, <1>2 DEF Last
<1>5. Front(v) \in Seq(1 .. Fan) /\ Len(Front(v)) = Len(w) /\ \A j \in 1 .. Len(w) : Front(v)[j] = v[j]
  <2> DEFINE m == Len(w)
  <2>1. m \in Nat /\ Len(v) - 1 = m /\ \A j \in 1 .. m : v[j] \in 1 .. Fan
    <3>1. m \in Nat /\ Len(v) = m + 1
      BY <1>1, <1>2
    <3>2. \A j \in 1 .. m : w[j] \in 1 .. Fan
      BY <1>1, LenProperties
    <3>3. \A j \in 1 .. m : v[j] = w[j]
      BY <1>2
    <3> HIDE DEF m
    <3> QED BY <3>1, <3>2, <3>3
  <2> HIDE DEF m
  <2>2. /\ SubSeq(v, 1, m) \in Seq(1 .. Fan)
        /\ Len(SubSeq(v, 1, m)) = IF 1 <= m THEN m - 1 + 1 ELSE 0
        /\ \A j \in 1 .. m - 1 + 1 : SubSeq(v, 1, m)[j] = v[1 + j - 1]
    BY <2>1, SubSeqProperties
  <2>3. /\ SubSeq(v, 1, m) \in Seq(1 .. Fan) /\ Len(SubSeq(v, 1, m)) = m
        /\ \A j \in 1 .. m : SubSeq(v, 1, m)[j] = v[j]
    BY <2>1, <2>2
  <2>4. Front(v) = SubSeq(v, 1, m)
    BY <2>1 DEF Front
  <2> QED BY <2>3, <2>4 DEF m
<1>6. Front(v) = w
  BY <1>1, <1>2, <1>5, SeqEqual
<1> QED BY <1>3, <1>4, <1>6 DEF v

-----------------------------------------------------------------------------
(* What a step does to one run. *)

\* Run w goes on, and the others stay: its node stays, hops are only collected
\* at "hops", and it is done after its gathered runs.
Moves(w) ==
    /\ run' \in [Way -> Run] /\ spec' = spec
    /\ \A v \in Way \ {w} : run'[v] = run[v]
    /\ run[w].at \in Alive /\ run'[w].at \in {"hops", "gather", "done", "raised"}
    /\ run'[w].node = run[w].node
    /\ run[w].kids \subseteq run'[w].kids
    /\ run[w].at = "gather" => run'[w].at \in {"done", "raised"} /\ run'[w].kids = run[w].kids
    /\ \A i \in run'[w].kids \ run[w].kids :
          i \in 1 .. Len(Hops(w)) /\ Hops(w)[i] \in Node /\ i < run'[w].hop
    /\ run[w].hop <= run'[w].hop
    /\ run[w].at # "agent" => run'[w].answer = run[w].answer
    /\ run'[w].at = "done" =>
          /\ run[w].at = "gather"
          /\ \A v \in Kids(w) : At(v, "done")
    /\ run[w].at = "agent" => run'[w].at \in {"hops", "raised"}
    /\ \/ outcome' = outcome
       \/ w = <<>> /\ outcome' = "raised"
       \/ w = <<>> /\ outcome' = "returned" /\ run'[w].at = "done"

\* Results are only added to: the answer of the run that goes on, or the denial of
\* a hop it refuses.
Results(w) ==
    /\ \A n \in Node :
          \/ results'[n] = results[n]
          \/ /\ results'[n] \in Answers /\ n = run[w].node
             /\ run'[w].at = "hops" /\ run'[w].answer = results'[n]
          \/ results'[n] = Denied /\ \E i \in RefusedHops(w)' : Hops(w)[i] = n
    /\ run[w].at = "agent" /\ run'[w].at = "hops" => results'[run[w].node] \in Answers
    /\ RefusedHops(w) \subseteq RefusedHops(w)'
    /\ \A i \in RefusedHops(w)' \ RefusedHops(w) : results'[Hops(w)[i]] = Denied

\* The record of a live run, field by field.
LEMMA RunFields ==
    ASSUME GraphTypeOK, NEW w \in Way
    PROVE  /\ run[w] \in Run
           /\ run[w].node \in Node \cup {Unknown} /\ run[w].answer \in Answers \cup {Always}
           /\ run[w].hop \in 1 .. Fan + 1 /\ run[w].kids \subseteq 1 .. Fan
           /\ run[w].at \in Alive \cup {"absent", "done", "raised"}
           /\ ~At(w, "absent") =>
                /\ run[w].node \in Node
                /\ Hops(w) \in Seq(Node \cup {Unknown}) /\ Len(Hops(w)) <= Fan /\ Len(Hops(w)) \in Nat
<1>1. run[w] \in Run
  BY DEF GraphTypeOK, TypeOK
<1>2. ~At(w, "absent") => run[w].node \in Node
  BY DEF GraphTypeOK, TypeOK, At
<1>3. ~At(w, "absent") =>
        Hops(w) \in Seq(Node \cup {Unknown}) /\ Len(Hops(w)) <= Fan /\ Len(Hops(w)) \in Nat
  <2> HAVE ~At(w, "absent")
  <2>1. spec \in Spec0 /\ run[w].node \in Node
    BY <1>2 DEF GraphTypeOK
  <2>2. Hops(w) \in Seq(Node \cup {Unknown}) /\ Len(Hops(w)) <= Fan
    BY <2>1, GraphAssumption DEF Hops
  <2> QED BY <2>2, LenProperties
<1> QED BY <1>1, <1>2, <1>3 DEF Run

\* A run that stays at its hop with what it has collected has refused what it had.
LEMMA RefusedStays ==
    ASSUME NEW w \in Way, spec' = spec, run'[w].node = run[w].node, run'[w].hop = run[w].hop,
           run'[w].answer = run[w].answer, run'[w].kids = run[w].kids
    PROVE  RefusedHops(w)' = RefusedHops(w)
BY DEF RefusedHops, Hops

\* A run that has come by no hop has refused none.
LEMMA RefusedNone ==
    ASSUME NEW w \in Way, run[w].hop = 1
    PROVE  RefusedHops(w) = {}
BY DEF RefusedHops

\* What a run refuses is a hop to a node.
LEMMA RefusedNodes ==
    ASSUME NEW w \in Way, NEW i \in RefusedHops(w)
    PROVE  Hops(w)[i] \in Node /\ i \notin run[w].kids
BY DEF RefusedHops

\* Every action of one run but Gather is such a move.
LEMMA StepMoves ==
    ASSUME GraphTypeOK, Collected, NEW w \in Way,
           \/ AgentAnswers(w) \/ AgentRaises(w)
           \/ SkipHop(w) \/ DenyHop(w) \/ TakeHop(w) \/ HopFlagged(w)
           \/ Join(w) \/ JoinRaises(w)
    PROVE  Moves(w) /\ Results(w) /\ results' \in [Node -> Answers \cup {Denied, Missing}]
<1> USE RunFields
<1>0. run \in [Way -> Run] /\ run[w] \in Run /\ results \in [Node -> Answers \cup {Denied, Missing}]
  BY DEF GraphTypeOK, TypeOK
<1>t. AtHop(w) => /\ run[w].hop \in 1 .. Len(Hops(w)) /\ run[w].hop \in 1 .. Fan
                  /\ run[w].hop + 1 \in 1 .. Fan + 1 /\ ~At(w, "absent")
  <2> HAVE AtHop(w)
  <2>1. ~At(w, "absent") /\ run[w].hop <= Len(Hops(w))
    BY DEF AtHop, At, NextHop
  <2>2. run[w].hop \in 1 .. Fan + 1 /\ Len(Hops(w)) <= Fan /\ Len(Hops(w)) \in Nat /\ Fan \in Nat
    BY <2>1, GraphAssumption
  <2> QED BY <2>1, <2>2
<1>1. CASE AgentAnswers(w)
  <2>1. PICK a \in Answers :
          /\ run' = [run EXCEPT ![w].at = "hops", ![w].answer = a]
          /\ results' = [results EXCEPT ![run[w].node] = a]
    BY <1>1 DEF AgentAnswers
  <2>2. run[w].at = "agent" /\ spec' = spec /\ outcome' = outcome /\ run[w].node \in Node
    BY <1>1 DEF AgentAnswers, At
  <2>3. /\ run'[w] = [run[w] EXCEPT !.at = "hops", !.answer = a]
        /\ \A v \in Way \ {w} : run'[v] = run[v]
    BY <1>0, <2>1
  <2>4. /\ run'[w] \in Run /\ run'[w].at = "hops" /\ run'[w].node = run[w].node
        /\ run'[w].kids = run[w].kids /\ run'[w].hop = run[w].hop /\ run'[w].answer = a
        /\ run[w].hop = 1
    BY <2>2, <2>3 DEF Run, Alive, GraphTypeOK
  <2>5. run' \in [Way -> Run]
    BY <1>0, <2>1, <2>4
  <2>6. Moves(w)
    BY <2>2, <2>3, <2>4, <2>5 DEF Moves, Alive
  <2>n. RefusedHops(w) = {} /\ RefusedHops(w)' = {}
    <3>1. (run[w].hop = 1)' => RefusedHops(w)' = {}
      BY DEF RefusedHops
    <3> QED BY <2>4, <3>1, RefusedNone
  <2>7. Results(w) /\ results' \in [Node -> Answers \cup {Denied, Missing}]
    BY <1>0, <2>1, <2>2, <2>4, <2>n DEF Results
  <2> QED BY <2>6, <2>7
<1>2. ASSUME At(w, "agent") \/ At(w, "hops") \/ At(w, "gather"), Raise(w), UNCHANGED <<spec, results>>
      PROVE  Moves(w) /\ Results(w) /\ results' \in [Node -> Answers \cup {Denied, Missing}]
  <2>1. /\ run'[w] = [run[w] EXCEPT !.at = "raised"]
        /\ \A v \in Way \ {w} : run'[v] = run[v]
    BY <1>0, <1>2 DEF Raise, Go
  <2>2. /\ run'[w] \in Run /\ run'[w].at = "raised" /\ run'[w].node = run[w].node
        /\ run'[w].kids = run[w].kids /\ run'[w].hop = run[w].hop
        /\ run'[w].answer = run[w].answer
    BY <2>1 DEF Run
  <2>n. RefusedHops(w)' = RefusedHops(w)
    BY <1>2, <2>2, RefusedStays
  <2>3. run' \in [Way -> Run]
    BY <1>0, <1>2, <2>1, <2>2 DEF Raise, Go
  <2>4. outcome' = outcome \/ (w = <<>> /\ outcome' = "raised")
    BY <1>2 DEF Raise
  <2>5. Moves(w)
    BY <1>2, <2>1, <2>2, <2>3, <2>4 DEF Moves, Alive, At
  <2> QED BY <1>0, <1>2, <2>2, <2>n, <2>5 DEF Results
<1>3. CASE AgentRaises(w)
  BY <1>2, <1>3 DEF AgentRaises
<1>4. CASE HopFlagged(w)
  BY <1>2, <1>4 DEF HopFlagged, AtHop
<1>5. CASE JoinRaises(w)
  BY <1>2, <1>5 DEF JoinRaises
<1>6. ASSUME AtHop(w), run' = [run EXCEPT ![w].hop = @ + 1], UNCHANGED <<spec, outcome>>
      PROVE  /\ Moves(w) /\ run'[w].at = "hops" /\ run'[w].kids = run[w].kids
             /\ RefusedHops(w)' = RefusedHops(w) \cup (IF BranchMatches(w) THEN {run[w].hop} ELSE {})
  <2>1. /\ run'[w] = [run[w] EXCEPT !.hop = @ + 1]
        /\ \A v \in Way \ {w} : run'[v] = run[v]
    BY <1>0, <1>6
  <2>2. /\ run'[w] \in Run /\ run'[w].at = "hops" /\ run[w].at = "hops" /\ run'[w].node = run[w].node
        /\ run'[w].kids = run[w].kids /\ run'[w].answer = run[w].answer
        /\ run'[w].hop = run[w].hop + 1
    BY <1>6, <1>t, <2>1 DEF Run, AtHop, At
  <2>3. run' \in [Way -> Run]
    BY <1>0, <1>6, <2>1, <2>2
  <2>4. Moves(w)
    BY <1>6, <1>t, <2>1, <2>2, <2>3 DEF Moves, Alive
  <2>5. run[w].hop \in 1 .. Fan /\ run[w].hop \notin run[w].kids
    BY <1>6, <1>t, GraphAssumption DEF Collected
  <2>6. 1 .. run[w].hop + 1 - 1 = (1 .. run[w].hop - 1) \cup {run[w].hop}
    BY <2>5, GraphAssumption
  <2>7. RefusedHops(w)' = {i \in 1 .. run[w].hop + 1 - 1 :
                          /\ Hops(w)[i] \in Node /\ spec.branch[Hops(w)[i]] \in {Always, run[w].answer}
                          /\ i \notin run[w].kids}
    BY <1>6, <2>2 DEF RefusedHops, Hops
  <2>8. BranchMatches(w) <=> /\ Hops(w)[run[w].hop] \in Node
                             /\ spec.branch[Hops(w)[run[w].hop]] \in {Always, run[w].answer}
    BY DEF BranchMatches, Target, NextHop
  <2>9. RefusedHops(w)' = RefusedHops(w) \cup (IF BranchMatches(w) THEN {run[w].hop} ELSE {})
    BY <2>5, <2>6, <2>7, <2>8 DEF RefusedHops
  <2> QED BY <2>2, <2>4, <2>9
<1>7. CASE SkipHop(w)
  <2>1. Moves(w) /\ run[w].at = "hops" /\ results' = results /\ RefusedHops(w)' = RefusedHops(w)
    BY <1>6, <1>7 DEF SkipHop, AtHop, At
  <2> QED BY <1>0, <2>1 DEF Results
<1>8. CASE DenyHop(w)
  <2>1. /\ Moves(w) /\ run[w].at = "hops" /\ results' = [results EXCEPT ![Target(w)] = Denied]
        /\ RefusedHops(w)' = RefusedHops(w) \cup {run[w].hop}
        /\ Target(w) = Hops(w)[run[w].hop] /\ Target(w) \in Node
    BY <1>6, <1>8 DEF DenyHop, AtHop, At, BranchMatches, Target, NextHop
  <2> QED BY <1>0, <2>1 DEF Results
<1>9. CASE TakeHop(w)
  <2> DEFINE k == run[w].kids \cup {run[w].hop}
  <2>1. /\ run' = [run EXCEPT ![w].hop = @ + 1, ![w].kids = @ \cup {run[w].hop}]
        /\ run[w].at = "hops" /\ UNCHANGED <<spec, outcome, results>>
    BY <1>9 DEF TakeHop, AtHop, At, NextHop
  <2>2. run[w].hop \in 1 .. Len(Hops(w)) /\ Hops(w)[run[w].hop] \in Node /\ k \subseteq 1 .. Fan
    BY <1>9, <1>t DEF TakeHop, BranchMatches, Target, NextHop
  <2>3. /\ run'[w] = [run[w] EXCEPT !.hop = @ + 1, !.kids = k]
        /\ \A v \in Way \ {w} : run'[v] = run[v]
    BY <1>0, <2>1
  <2>4. /\ run'[w] \in Run /\ run'[w].at = "hops" /\ run'[w].node = run[w].node
        /\ run'[w].kids = k /\ run'[w].answer = run[w].answer /\ run'[w].hop = run[w].hop + 1
    <3> HIDE DEF k
    <3>1. run[w].hop + 1 \in 1 .. Fan + 1
      BY <1>9, <1>t DEF TakeHop
    <3>2. k \in SUBSET (1 .. Fan)
      BY <2>2
    <3> DEFINE h == run[w].hop + 1
    <3>0. run'[w] = [run[w] EXCEPT !.hop = h, !.kids = k]
      BY <2>3
    <3> HIDE DEF h
    <3>3. /\ run'[w].at = "hops" /\ run'[w].node = run[w].node /\ run'[w].kids = k
          /\ run'[w].answer = run[w].answer /\ run'[w].hop = h
      BY <1>0, <2>1, <3>0 DEF Run
    <3>4. run'[w] \in Run
      BY <3>0, <3>1, <3>2 DEF Run, h
    <3> QED BY <3>3, <3>4 DEF h
  <2>5. run' \in [Way -> Run]
    BY <1>0, <2>1, <2>4
  <2>6. Moves(w)
    BY <2>1, <2>2, <2>3, <2>4, <2>5, GraphAssumption DEF Moves, Alive
  <2>7. RefusedHops(w)' = RefusedHops(w)
    <3>1. run[w].hop \in 1 .. Fan
      BY <2>2, <1>9, <1>t DEF TakeHop
    <3>2. RefusedHops(w)' = {i \in 1 .. run[w].hop + 1 - 1 :
                            /\ Hops(w)[i] \in Node /\ spec.branch[Hops(w)[i]] \in {Always, run[w].answer}
                            /\ i \notin run[w].kids \cup {run[w].hop}}
      <4>1. /\ spec' = spec /\ run'[w].node = run[w].node /\ run'[w].answer = run[w].answer
            /\ run'[w].kids = k /\ run'[w].hop = run[w].hop + 1
        BY <2>1, <2>4
      <4> HIDE DEF k
      <4>2. RefusedHops(w)' = {i \in 1 .. run[w].hop + 1 - 1 :
                              /\ Hops(w)[i] \in Node /\ spec.branch[Hops(w)[i]] \in {Always, run[w].answer}
                              /\ i \notin k}
        BY <4>1 DEF RefusedHops, Hops
      <4> QED BY <4>2 DEF k
    <3>3. 1 .. run[w].hop + 1 - 1 = (1 .. run[w].hop - 1) \cup {run[w].hop}
          /\ run[w].hop \notin 1 .. run[w].hop - 1
      BY <3>1, GraphAssumption
    <3> QED BY <3>2, <3>3 DEF RefusedHops
  <2> QED BY <1>0, <2>1, <2>6, <2>7 DEF Results
<1>10. CASE Join(w)
  <2>1. /\ run[w].at = "gather" /\ (\A v \in Kids(w) : At(v, "done"))
        /\ run' = [run EXCEPT ![w].at = "done"]
        /\ outcome' = (IF w = <<>> THEN "returned" ELSE outcome) /\ UNCHANGED <<spec, results>>
    BY <1>10 DEF Join, Go, At
  <2>2. /\ run'[w] = [run[w] EXCEPT !.at = "done"]
        /\ \A v \in Way \ {w} : run'[v] = run[v]
    BY <1>0, <2>1
  <2>3. /\ run'[w] \in Run /\ run'[w].at = "done" /\ run'[w].node = run[w].node
        /\ run'[w].kids = run[w].kids /\ run'[w].hop = run[w].hop
        /\ run'[w].answer = run[w].answer
    BY <2>2 DEF Run
  <2>n. RefusedHops(w)' = RefusedHops(w)
    BY <2>1, <2>3, RefusedStays
  <2>4. run' \in [Way -> Run]
    BY <1>0, <2>1, <2>3
  <2>5. Moves(w)
    BY <2>1, <2>2, <2>3, <2>4 DEF Moves, Alive
  <2> QED BY <1>0, <2>1, <2>n, <2>5 DEF Results
<1> QED BY <1>1, <1>3, <1>4, <1>5, <1>7, <1>8, <1>9, <1>10

-----------------------------------------------------------------------------
(* A move keeps the invariant. *)

LEMMA MovesKeep ==
    ASSUME GraphInv, NEW w \in Way, Moves(w), Results(w),
           results' \in [Node -> Answers \cup {Denied, Missing}]
    PROVE  GraphInv'
<1>1. /\ ~At(w, "absent") /\ run[w].node \in Node /\ ~At(w, "absent")'
      /\ spec' = spec /\ run' \in [Way -> Run]
      /\ \A v \in Way \ {w} : run'[v] = run[v]
      /\ run'[w].node = run[w].node /\ run[w].kids \subseteq run'[w].kids
      /\ run'[w] \in Run /\ run[w].hop <= run'[w].hop /\ run[w].hop \in Nat /\ run'[w].hop \in Nat
  <2>1. Fan \in Nat
    BY GraphAssumption
  <2> QED BY <2>1, RunFields DEF Moves, Alive, At, GraphInv, Run
<1>2. outcome \notin {"unparsed", "rejected"}
  BY <1>1 DEF GraphInv, Rooted
<1>k. \A v \in Way \ {<<>>} : Front(v) \in Way /\ Last(v) \in 1 .. Fan
  BY FrontAndLast
\* Who was there is there, a hop taken stays taken, and a run with children has
\* gone past its hops.
<1>3. \A v \in Way : /\ At(v, "absent")' <=> At(v, "absent")
                     /\ run'[v].node = run[v].node /\ run[v].kids \subseteq run'[v].kids
                     /\ run[v].at \in {"gather", "done", "raised"}
                            => run'[v].at \in {"gather", "done", "raised"} /\ run'[v].kids = run[v].kids
  BY <1>1 DEF Moves, At, Alive
<1>4. TypeOK'
  <2>1. outcome' \in {"unparsed", "rejected", "running", "returned", "raised"}
    BY DEF GraphInv, GraphTypeOK, TypeOK, Moves
  <2>2. \A v \in Way : run'[v].at # "absent" => run'[v].node \in Node
    BY <1>3 DEF GraphInv, GraphTypeOK, TypeOK, At
  <2>3. \A v \in Way \ {<<>>} :
            run'[v].at # "absent" => run'[Front(v)].at \in {"gather", "done", "raised"}
    BY <1>3, <1>k DEF GraphInv, GraphTypeOK, TypeOK, At
  <2> QED BY <1>1, <2>1, <2>2, <2>3 DEF TypeOK
<1>5. /\ (spec \in Spec0)' /\ (\A v \in Way : At(v, "absent") => run[v].node = Unknown)'
      /\ (\A v \in Way : run[v].at \in {"absent", "agent"} => run[v].hop = 1)'
  <2>1. run'[w].at \notin {"absent", "agent"}
    BY <1>1 DEF Moves, Alive, At
  <2> QED BY <1>1, <1>3, <2>1 DEF GraphInv, GraphTypeOK
<1>6. Rooted'
  <2>1. CASE outcome' = outcome
    <3>1. outcome = "returned" => w # <<>>
      BY DEF Moves, Alive, GraphInv, Rooted, At
    <3> QED BY <1>1, <1>2, <2>1, <3>1, RootIsWay DEF Rooted, GraphInv, At
  <2>2. CASE w = <<>> /\ outcome' = "raised"
    BY <2>2 DEF Rooted
  <2>3. CASE w = <<>> /\ outcome' = "returned" /\ run'[w].at = "done"
    BY <2>3 DEF Rooted, At
  <2> QED BY <2>1, <2>2, <2>3 DEF Moves
<1>7. Nested'
  BY <1>3, <1>k DEF GraphInv, Nested
<1>8. Joined'
  <2> SUFFICES ASSUME NEW u \in Way, At(u, "done")', NEW v \in Kids(u)' \cap Way
               PROVE  At(v, "done")'
    BY DEF Joined
  <2>1. run[u].kids = run'[u].kids /\ Kids(u)' = Kids(u)
    BY <1>1, <1>3 DEF Moves, Kids, At
  <2>2. At(v, "done")
    BY <1>1, <2>1 DEF Moves, Joined, GraphInv, At
  <2>3. v # w
    BY <2>2 DEF Moves, Alive, At
  <2> QED BY <1>1, <2>2, <2>3 DEF At
<1>9. Collected'
  <2> SUFFICES ASSUME NEW u \in Way, ~At(u, "absent")', NEW i \in run'[u].kids
               PROVE  (i \in 1 .. Len(Hops(u)) /\ Hops(u)[i] \in Node /\ i < run[u].hop)'
    BY DEF Collected
  <2>1. Hops(u)' = Hops(u) /\ ~At(u, "absent")
    BY <1>1, <1>3 DEF Hops
  <2>2. CASE i \in run[u].kids
    <3>1. /\ i \in 1 .. Len(Hops(u)) /\ Hops(u)[i] \in Node /\ i < run[u].hop
          /\ i \in 1 .. Fan
      BY <2>1, <2>2, RunFields DEF GraphInv, Collected
    <3>2. run'[u].hop = run[u].hop \/ u = w
      BY <1>1
    <3>3. i < run'[u].hop
      BY <1>1, <3>1, <3>2, GraphAssumption
    <3> QED BY <2>1, <3>1, <3>3
  <2>3. CASE i \notin run[u].kids
    BY <1>1, <2>1, <2>3 DEF Moves
  <2> QED BY <2>2, <2>3
<1>a. Missing \notin Answers /\ Denied \notin Answers /\ Denied # Missing
  BY GraphAssumption DEF Denied, Missing
<1>10. Heard'
  <2>1. \A n \in Node : results[n] # Missing => results'[n] # Missing
    BY <1>a DEF Results
  <2>2. ASSUME NEW u \in Way, run'[u].at \in {"hops", "gather", "done"}
        PROVE  results'[run'[u].node] # Missing
    <3>1. CASE run[u].at \in {"hops", "gather", "done"}
      <4>1. results[run[u].node] # Missing /\ run[u].node \in Node
        BY <3>1, RunFields DEF GraphInv, Heard, At
      <4> QED BY <1>3, <2>1, <4>1
    <3>2. CASE run[u].at \notin {"hops", "gather", "done"}
      <4>1. u = w /\ run[w].at = "agent" /\ run'[w].at = "hops"
        BY <1>1, <2>2, <3>2 DEF Moves, Alive
      <4>2. results'[run[w].node] \in Answers
        BY <4>1 DEF Results
      <4> QED BY <1>1, <1>a, <4>1, <4>2
    <3> QED BY <3>1, <3>2
  <2>3. ASSUME NEW n \in Node, results'[n] \in Answers
        PROVE  \E u \in Way : /\ run'[u].node = n /\ run'[u].answer = results'[n]
                              /\ run'[u].at \notin {"absent", "agent"}
    <3>1. CASE results'[n] = results[n]
      <4>1. PICK u \in Way : /\ run[u].node = n /\ run[u].answer = results[n]
                             /\ run[u].at \notin {"absent", "agent"}
        BY <2>3, <3>1 DEF GraphInv, Heard
      <4>2. CASE u = w
        BY <3>1, <4>1, <4>2 DEF Moves
      <4>3. CASE u # w
        BY <1>1, <3>1, <4>1, <4>3
      <4> QED BY <4>2, <4>3
    <3>2. CASE results'[n] # results[n]
      <4>1. results'[n] # Denied
        BY <1>a, <2>3
      <4>2. n = run[w].node /\ run'[w].at = "hops" /\ run'[w].answer = results'[n]
        BY <3>2, <4>1 DEF Results
      <4> QED BY <1>1, <4>2
    <3> QED BY <3>1, <3>2
  \* The other runs refuse what they refused, w perhaps one hop more.
  <2>4. \A u \in Way \ {w} : RefusedHops(u)' = RefusedHops(u) /\ Hops(u)' = Hops(u)
    <3> SUFFICES ASSUME NEW u \in Way \ {w} PROVE RefusedHops(u)' = RefusedHops(u) /\ Hops(u)' = Hops(u)
      OBVIOUS
    <3>1. spec' = spec /\ run'[u] = run[u]
      BY <1>1
    <3> QED BY <3>1, RefusedStays DEF Hops
  <2>5. Hops(w)' = Hops(w)
    BY <1>1 DEF Hops
  <2>6. ASSUME NEW u \in Way, NEW i \in RefusedHops(u)'
        PROVE  results'[Hops(u)'[i]] # Missing
    <3>1. CASE i \in RefusedHops(u)
      <4>1. results[Hops(u)[i]] # Missing /\ Hops(u)[i] \in Node
        BY <3>1, RefusedNodes DEF GraphInv, Heard
      <4> QED BY <2>1, <2>4, <2>5, <4>1
    <3>2. CASE i \notin RefusedHops(u)
      <4>1. u = w
        BY <2>4, <2>6, <3>2
      <4> QED BY <1>a, <2>5, <2>6, <3>2, <4>1 DEF Results
    <3> QED BY <3>1, <3>2
  <2>7. ASSUME NEW n \in Node, results'[n] = Denied
        PROVE  \E u \in Way : \E i \in RefusedHops(u)' : Hops(u)'[i] = n
    <3>1. CASE results[n] = Denied
      <4>1. PICK u \in Way : \E i \in RefusedHops(u) : Hops(u)[i] = n
        BY <3>1 DEF GraphInv, Heard, RefusedTo
      <4>2. PICK i \in RefusedHops(u) : Hops(u)[i] = n
        BY <4>1
      <4>3. i \in RefusedHops(u)' /\ Hops(u)'[i] = n
        BY <2>4, <2>5, <4>2 DEF Results
      <4> QED BY <4>3
    <3>2. CASE results[n] # Denied
      <4>1. \E i \in RefusedHops(w)' : Hops(w)[i] = n
        BY <1>a, <2>7, <3>2 DEF Results
      <4> QED BY <1>1, <2>5, <4>1
    <3> QED BY <3>1, <3>2
  <2> QED BY <2>2, <2>3, <2>6, <2>7 DEF Heard, RefusedTo
<1> QED BY <1>4, <1>5, <1>6, <1>7, <1>8, <1>9, <1>10 DEF GraphInv, GraphTypeOK

-----------------------------------------------------------------------------
(* The runs a node gathers start. *)

LEMMA GatherKeeps ==
    ASSUME GraphInv, NEW w \in Way, Gather(w)
    PROVE  GraphInv'
<1>0. /\ run \in [Way -> Run] /\ run[w] \in Run /\ run[w].at = "hops" /\ ~At(w, "absent")
      /\ spec' = spec /\ outcome' = outcome /\ results' = results
  BY RunFields DEF GraphInv, GraphTypeOK, TypeOK, Gather, At
<1>1. /\ \A v \in Way \ {w} : v \in Kids(w) => run'[v] = NewRun(Hops(w)[Last(v)])
      /\ \A v \in Way \ {w} : v \notin Kids(w) => run'[v] = run[v]
      /\ run'[w] = [run[w] EXCEPT !.at = "gather"]
      /\ DOMAIN run' = Way
  BY DEF Gather
<1>2. /\ run'[w] \in Run /\ run'[w].at = "gather" /\ run'[w].node = run[w].node
      /\ run'[w].kids = run[w].kids /\ run'[w].hop = run[w].hop /\ run'[w].answer = run[w].answer
  BY <1>0, <1>1 DEF Run, Alive
<1>k. \A v \in Way \ {<<>>} : Front(v) \in Way /\ Last(v) \in 1 .. Fan
  BY FrontAndLast
\* The children are new: w itself has only come to its gather.
<1>3. ASSUME NEW v \in Way, v \in Kids(w)
      PROVE  /\ v # w /\ v # <<>> /\ Front(v) = w /\ Last(v) \in run[w].kids
             /\ At(v, "absent")
             /\ run'[v] \in Run /\ run'[v].at = "agent" /\ run'[v].kids = {}
             /\ run'[v].node \in Node /\ run'[v].hop = 1
  <2>1. PICK i \in run[w].kids : v = Append(w, i)
    BY <1>3 DEF Kids
  <2>2. i \in 1 .. Fan
    BY <2>1, RunFields DEF GraphInv
  <2>3. v # w /\ v # <<>> /\ Front(v) = w /\ Last(v) = i
    BY <2>1, <2>2, KidsComeFrom
  <2>4. At(v, "absent")
    BY <1>0, <2>3 DEF GraphInv, GraphTypeOK, TypeOK, At
  <2>5. Hops(w)[i] \in Node
    BY <1>0, <2>1 DEF GraphInv, Collected
  <2>6. run'[v] = NewRun(Hops(w)[i])
    BY <1>1, <1>3, <2>3
  <2>7. 1 \in 1 .. Fan + 1
    BY GraphAssumption
  <2>8. /\ run'[v] \in Run /\ run'[v].at = "agent" /\ run'[v].kids = {} /\ run'[v].node = Hops(w)[i]
        /\ run'[v].hop = 1
    BY <2>5, <2>6, <2>7 DEF NewRun, Absent, Run, Alive
  <2> QED BY <2>1, <2>3, <2>4, <2>5, <2>8
\* Every other run is as it was.
<1>4. ASSUME NEW v \in Way, ~At(v, "absent")
      PROVE  /\ run'[v].node = run[v].node /\ run'[v].kids = run[v].kids /\ ~At(v, "absent")'
             /\ run'[v].hop = run[v].hop /\ run'[v].answer = run[v].answer
             /\ v # w => run'[v] = run[v]
  BY <1>0, <1>1, <1>2, <1>3, <1>4 DEF At
<1>5. run' \in [Way -> Run]
  <2>1. \A v \in Way : run'[v] \in Run
    BY <1>0, <1>1, <1>2, <1>3
  <2>2. run' = [v \in Way |-> run'[v]]
    BY DEF Gather
  <2> QED BY <2>1, <2>2
<1>6. ASSUME NEW v \in Way, ~At(v, "absent")'
      PROVE  ~At(v, "absent") \/ (v \in Kids(w) /\ run'[v].at = "agent")
  BY <1>0, <1>1, <1>3, <1>6 DEF At
<1>7. TypeOK'
  <2>1. \A v \in Way : run'[v].at # "absent" => run'[v].node \in Node
    BY <1>3, <1>4, <1>6 DEF GraphInv, GraphTypeOK, TypeOK, At
  <2>2. ASSUME NEW v \in Way \ {<<>>}, run'[v].at # "absent"
        PROVE  run'[Front(v)].at \in {"gather", "done", "raised"}
    <3>1. CASE v \in Kids(w)
      BY <1>2, <1>3, <3>1
    <3>2. CASE v \notin Kids(w)
      <4>1. run[Front(v)].at \in {"gather", "done", "raised"} /\ Front(v) \in Way
        BY <1>6, <1>k, <2>2, <3>2 DEF GraphInv, GraphTypeOK, TypeOK, At
      <4> QED BY <1>2, <1>4, <4>1 DEF At
    <3> QED BY <3>1, <3>2
  <2> QED BY <1>0, <1>5, <2>1, <2>2 DEF TypeOK, GraphInv, GraphTypeOK
<1>8. /\ (spec \in Spec0)' /\ (\A v \in Way : At(v, "absent") => run[v].node = Unknown)'
      /\ (\A v \in Way : run[v].at \in {"absent", "agent"} => run[v].hop = 1)'
  <2>0. ASSUME NEW v \in Way, run'[v].at \in {"absent", "agent"}, v \notin Kids(w)
        PROVE  run'[v] = run[v]
    <3>1. v # w
      BY <1>2, <2>0
    <3> QED BY <1>1, <2>0, <3>1
  <2>1. ASSUME NEW v \in Way, At(v, "absent")' PROVE run'[v].node = Unknown
    <3>1. v \notin Kids(w) /\ run'[v].at = "absent"
      BY <1>3, <2>1 DEF At
    <3>2. run'[v] = run[v]
      BY <2>0, <3>1
    <3> QED BY <3>1, <3>2 DEF GraphInv, GraphTypeOK, At
  <2>2. ASSUME NEW v \in Way, run'[v].at \in {"absent", "agent"} PROVE run'[v].hop = 1
    <3>1. CASE v \in Kids(w)
      BY <1>3, <3>1
    <3>2. CASE v \notin Kids(w)
      <4>2. run'[v] = run[v]
        BY <2>0, <2>2, <3>2
      <4>3. run[v].at \in {"absent", "agent"} => run[v].hop = 1
        BY DEF GraphInv, GraphTypeOK
      <4> QED BY <2>2, <4>2, <4>3
    <3> QED BY <3>1, <3>2
  <2> QED BY <1>0, <2>1, <2>2 DEF GraphInv, GraphTypeOK
<1>9. Rooted'
  BY <1>0, <1>4, RootIsWay DEF GraphInv, Rooted, At
<1>10. Nested'
  <2> SUFFICES ASSUME NEW v \in Way \ {<<>>}, ~At(v, "absent")' PROVE Last(v) \in run'[Front(v)].kids
    BY DEF Nested
  <2>1. CASE v \in Kids(w)
    BY <1>2, <1>3, <2>1
  <2>2. CASE v \notin Kids(w)
    <3>1. ~At(v, "absent") /\ Front(v) \in Way
      BY <1>6, <1>k, <2>2
    <3>2. Last(v) \in run[Front(v)].kids /\ ~At(Front(v), "absent")
      BY <3>1 DEF GraphInv, Nested, GraphTypeOK, TypeOK, At
    <3> QED BY <1>4, <3>1, <3>2
  <2> QED BY <2>1, <2>2
<1>11. Joined'
  <2> SUFFICES ASSUME NEW u \in Way, At(u, "done")', NEW v \in Kids(u)' \cap Way
               PROVE  At(v, "done")'
    BY DEF Joined
  <2>1. ~At(u, "absent") /\ u # w
    BY <1>2, <1>6 DEF At
  <2>2. run'[u] = run[u]
    BY <1>4, <2>1
  <2>3. At(v, "done")
    BY <2>2 DEF GraphInv, Joined, Kids, At
  <2>4. v # w /\ ~At(v, "absent")
    BY <1>0, <2>3 DEF At
  <2> QED BY <1>4, <2>3, <2>4 DEF At
<1>12. Collected'
  <2> SUFFICES ASSUME NEW u \in Way, ~At(u, "absent")', NEW i \in run'[u].kids
               PROVE  (i \in 1 .. Len(Hops(u)) /\ Hops(u)[i] \in Node /\ i < run[u].hop)'
    BY DEF Collected
  <2>1. ~At(u, "absent")
    BY <1>3, <1>6
  <2>2. run'[u].kids = run[u].kids /\ run'[u].hop = run[u].hop /\ Hops(u)' = Hops(u)
    BY <1>0, <1>4, <2>1 DEF Hops
  <2> QED BY <2>1, <2>2 DEF GraphInv, Collected
<1>13. Heard'
  <2>1. ASSUME NEW u \in Way, run'[u].at \in {"hops", "gather", "done"}
        PROVE  results'[run'[u].node] # Missing
    <3>1. ~At(u, "absent")
      BY <1>6, <2>1 DEF At
    <3>2. run[u].at \in {"hops", "gather", "done"} /\ run'[u].node = run[u].node
      BY <1>0, <1>4, <2>1, <3>1
    <3> QED BY <1>0, <3>2 DEF GraphInv, Heard
  <2>2. ASSUME NEW n \in Node, results'[n] \in Answers
        PROVE  \E u \in Way : /\ run'[u].node = n /\ run'[u].answer = results'[n]
                              /\ run'[u].at \notin {"absent", "agent"}
    <3>1. PICK u \in Way : /\ run[u].node = n /\ run[u].answer = results[n]
                           /\ run[u].at \notin {"absent", "agent"}
      BY <1>0, <2>2 DEF GraphInv, Heard
    <3>2. ~At(u, "absent") /\ run'[u].at \notin {"absent", "agent"}
      BY <1>2, <1>4, <3>1 DEF At
    <3> QED BY <1>0, <1>4, <3>1, <3>2
  \* What was refused stays refused; the new runs have refused nothing.
  <2>3. \A u \in Way : ~At(u, "absent") => RefusedHops(u)' = RefusedHops(u) /\ Hops(u)' = Hops(u)
    <3> SUFFICES ASSUME NEW u \in Way, ~At(u, "absent")
                 PROVE  RefusedHops(u)' = RefusedHops(u) /\ Hops(u)' = Hops(u)
      OBVIOUS
    <3>1. /\ spec' = spec /\ run'[u].node = run[u].node /\ run'[u].hop = run[u].hop
          /\ run'[u].answer = run[u].answer /\ run'[u].kids = run[u].kids
      BY <1>0, <1>4
    <3> QED BY <3>1, RefusedStays DEF Hops
  <2>4. \A u \in Way : At(u, "absent") => RefusedHops(u) = {} /\ RefusedHops(u)' = {}
    <3> SUFFICES ASSUME NEW u \in Way, At(u, "absent")
                 PROVE  RefusedHops(u) = {} /\ RefusedHops(u)' = {}
      OBVIOUS
    <3>1. run[u].hop = 1 /\ run'[u].hop = 1
      BY <1>3, <1>6, <1>8 DEF GraphInv, GraphTypeOK, At
    <3>2. (run[u].hop = 1)' => RefusedHops(u)' = {}
      BY DEF RefusedHops
    <3> QED BY <3>1, <3>2, RefusedNone
  <2>5. ASSUME NEW u \in Way, NEW i \in RefusedHops(u)'
        PROVE  results'[Hops(u)'[i]] # Missing
    <3>1. i \in RefusedHops(u) /\ Hops(u)' = Hops(u)
      BY <2>3, <2>4, <2>5
    <3> QED BY <1>0, <3>1 DEF GraphInv, Heard
  <2>6. ASSUME NEW n \in Node, results'[n] = Denied
        PROVE  \E u \in Way : \E i \in RefusedHops(u)' : Hops(u)'[i] = n
    <3>1. PICK u \in Way : \E i \in RefusedHops(u) : Hops(u)[i] = n
      BY <1>0, <2>6 DEF GraphInv, Heard, RefusedTo
    <3>2. ~At(u, "absent")
      BY <2>4, <3>1
    <3> QED BY <2>3, <3>1, <3>2
  <2> QED BY <2>1, <2>2, <2>5, <2>6 DEF Heard, RefusedTo
<1> QED BY <1>7, <1>8, <1>9, <1>10, <1>11, <1>12, <1>13 DEF GraphInv, GraphTypeOK

-----------------------------------------------------------------------------
(* The first run, and what the invariant means for the caller. *)

LEMMA GraphStarts == Init => GraphInv
<1> SUFFICES ASSUME Init PROVE GraphInv
  OBVIOUS
<1>1. Absent \in Run /\ Absent.at = "absent" /\ Absent.node = Unknown /\ Absent.hop = 1
  BY GraphAssumption DEF Absent, Run, Alive
<1>2. \A w \in Way : run[w] = Absent
  BY DEF Init
<1>3. GraphTypeOK
  BY <1>1, <1>2 DEF Init, GraphTypeOK, TypeOK, At
<1>4. Rooted /\ Nested /\ Joined /\ Collected
  BY <1>1, <1>2 DEF Init, Rooted, Nested, Joined, Collected, At
<1>5. Heard
  <2>1. \A n \in Node : results[n] = Missing
    BY DEF Init
  <2>2. \A w \in Way : RefusedHops(w) = {}
    BY <1>1, <1>2, RefusedNone
  <2> QED BY <1>1, <1>2, <2>1, <2>2, GraphAssumption DEF Heard, Denied, Missing
<1> QED BY <1>3, <1>4, <1>5 DEF GraphInv

LEMMA ParseKeeps == GraphInv /\ Parse => GraphInv'
<1> SUFFICES ASSUME GraphInv, Parse PROVE GraphInv'
  OBVIOUS
<1>0. /\ run \in [Way -> Run] /\ \A w \in Way : At(w, "absent")
      /\ spec' = spec /\ results' = results /\ <<>> \in Way
      /\ \A w \in Way : run[w].hop = 1
  <2>1. /\ run \in [Way -> Run] /\ \A w \in Way : At(w, "absent")
        /\ spec' = spec /\ results' = results /\ <<>> \in Way
    BY RootIsWay DEF GraphInv, GraphTypeOK, TypeOK, Rooted, Parse
  <2>2. \A w \in Way : run[w].hop = 1
    BY <2>1 DEF GraphInv, GraphTypeOK, At
  <2> QED BY <2>1, <2>2
<1>1. CASE outcome' = "rejected" /\ run' = run
  <2>1. RefusedTo(Entry)' = RefusedTo(Entry) /\ \A n \in Node : RefusedTo(n)' = RefusedTo(n)
    BY <1>0, <1>1 DEF RefusedTo, RefusedHops, Hops
  <2>2. \A w \in Way : RefusedHops(w)' = RefusedHops(w) /\ Hops(w)' = Hops(w)
    BY <1>0, <1>1 DEF RefusedHops, Hops
  <2> QED BY <1>0, <1>1, <2>1, <2>2 DEF GraphInv, GraphTypeOK, TypeOK, Rooted, Nested, Joined, Collected,
                                        Heard, At, Kids
<1>2. CASE outcome' = "running" /\ run' = [run EXCEPT ![<<>>] = NewRun(Entry)]
  <2>1. /\ run'[<<>>] = NewRun(Entry) /\ \A w \in Way \ {<<>>} : run'[w] = run[w]
    BY <1>0, <1>2
  <2>2. 1 \in 1 .. Fan + 1 /\ Entry \in Node
    BY GraphAssumption
  <2>3. /\ run'[<<>>] \in Run /\ run'[<<>>].at = "agent" /\ run'[<<>>].kids = {}
        /\ run'[<<>>].node = Entry /\ run'[<<>>].hop = 1
    BY <2>1, <2>2 DEF NewRun, Absent, Run, Alive
  <2>4. run' \in [Way -> Run]
    BY <1>0, <1>2, <2>1, <2>3
  <2>5. \A w \in Way : ~At(w, "absent")' => w = <<>>
    BY <1>0, <2>1 DEF At
  <2>6. GraphTypeOK'
    BY <1>0, <1>2, <2>1, <2>2, <2>3, <2>4, <2>5 DEF GraphInv, GraphTypeOK, TypeOK, At
  <2>7. (Rooted /\ Nested /\ Joined /\ Collected)'
    BY <1>2, <2>3, <2>5 DEF Rooted, Nested, Joined, Collected, At
  <2>8. Heard'
    <3>1. \A w \in Way : RefusedHops(w) = {} /\ RefusedHops(w)' = {}
      <4> SUFFICES ASSUME NEW w \in Way PROVE RefusedHops(w) = {} /\ RefusedHops(w)' = {}
        OBVIOUS
      <4>1. run[w].hop = 1 /\ run'[w].hop = 1
        BY <1>0, <2>1, <2>3
      <4>2. (run[w].hop = 1)' => RefusedHops(w)' = {}
        BY DEF RefusedHops
      <4> QED BY <4>1, <4>2, RefusedNone
    <3>2. \A n \in Node : results[n] \notin Answers /\ results[n] # Denied
      BY <1>0, <3>1 DEF GraphInv, Heard, RefusedTo, At
    <3> QED BY <1>0, <2>1, <2>3, <3>1, <3>2 DEF Heard, RefusedTo, At
  <2> QED BY <2>6, <2>7, <2>8 DEF GraphInv
<1> QED BY <1>1, <1>2 DEF Parse

\* Of the runs that are not done one would be nearest to the first run; but the
\* one before it is done, and joined it.
LEMMA AllDone ==
    ASSUME GraphInv, outcome = "returned", NEW w \in Way
    PROVE  At(w, "absent") \/ At(w, "done")
<1> DEFINE Left == {v \in Way : ~At(v, "absent") /\ ~At(v, "done")}
<1> DEFINE Lengths == {Len(v) : v \in Left}
<1> SUFFICES ASSUME w \in Left PROVE FALSE
  OBVIOUS
<1>1. \A v \in Way : Len(v) \in Nat
  BY WayIsSeq, LenProperties
<1>2. Lengths \in SUBSET Nat /\ Lengths # {}
  BY <1>1
<1>3. PICK n \in Lengths : \A m \in Lengths : n <= m
  <2> HIDE DEF Lengths
  <2> QED BY <1>2, LeastNumber
<1>4. PICK v \in Left : Len(v) = n
  BY <1>3
<1>5. v \in Way /\ v # <<>> /\ ~At(v, "absent") /\ ~At(v, "done")
  BY <1>4 DEF GraphInv, Rooted
<1>6. /\ Front(v) \in Way /\ Len(v) \in Nat /\ Len(Front(v)) = Len(v) - 1
      /\ Append(Front(v), Last(v)) = v
  BY <1>5, FrontAndLast
<1>7. ~At(Front(v), "absent") /\ Last(v) \in run[Front(v)].kids
  BY <1>5 DEF GraphInv, GraphTypeOK, TypeOK, Nested, At
<1>8. CASE At(Front(v), "done")
  <2>1. v \in Kids(Front(v))
    BY <1>6, <1>7 DEF Kids
  <2> QED BY <1>5, <1>6, <1>8, <2>1 DEF GraphInv, Joined
<1>9. CASE ~At(Front(v), "done")
  <2>1. Len(v) - 1 \in Lengths
    BY <1>6, <1>7, <1>9
  <2>2. n <= Len(v) - 1
    BY <1>3, <2>1
  <2> QED BY <1>4, <1>6, <2>2
<1> QED BY <1>8, <1>9

\* Every step keeps the invariant.
LEMMA GraphSteps ==
    ASSUME GraphInv, [Next]_vars PROVE GraphInv'
<1>1. CASE Parse
  BY <1>1, ParseKeeps
<1>2. ASSUME NEW w \in Way, Gather(w) PROVE GraphInv'
  BY <1>2, GatherKeeps
<1>3. ASSUME NEW w \in Way,
             \/ AgentAnswers(w) \/ AgentRaises(w)
             \/ SkipHop(w) \/ DenyHop(w) \/ TakeHop(w) \/ HopFlagged(w)
             \/ Join(w) \/ JoinRaises(w)
      PROVE  GraphInv'
  <2>1. GraphTypeOK /\ Collected
    BY DEF GraphInv
  <2>2. Moves(w) /\ Results(w) /\ results' \in [Node -> Answers \cup {Denied, Missing}]
    BY <1>3, <2>1, StepMoves
  <2> QED BY <2>2, MovesKeep
<1>4. CASE UNCHANGED vars
  <2>1. \A w \in Way : RefusedHops(w)' = RefusedHops(w) /\ Hops(w)' = Hops(w)
    BY <1>4 DEF vars, RefusedHops, Hops
  <2>2. \A n \in Node : RefusedTo(n)' = RefusedTo(n)
    BY <2>1 DEF RefusedTo
  <2> QED BY <1>4, <2>1, <2>2 DEF vars, GraphInv, GraphTypeOK, TypeOK, Rooted, Nested, Joined, Collected,
                                  Heard, At, Kids
<1> QED BY <1>1, <1>2, <1>3, <1>4 DEF Next

\* run_agent_graph returns with all it started done and nothing run that was
\* refused, and its results tell an answer where a run of the node gave one and
\* "denied" where a hop to it was refused, for every node that ran or was refused.
THEOREM ReturnsWhole == Spec => []ReturnIsComplete
<1>2. GraphInv => ReturnIsComplete
  <2> SUFFICES ASSUME GraphInv PROVE ReturnIsComplete
    OBVIOUS
  <2>1. outcome = "returned" => \A w \in Way : run[w].at \in {"absent", "done"}
    BY AllDone DEF At
  \* A child is there because its hop was collected, and what was refused was not.
  <2>2. ASSUME NEW w \in Way, NEW i \in RefusedHops(w), Append(w, i) \in Way
        PROVE  At(Append(w, i), "absent")
    <3>1. i \in 1 .. Fan
      BY RunFields, GraphAssumption DEF RefusedHops, GraphInv
    <3>2. Append(w, i) # <<>> /\ Front(Append(w, i)) = w /\ Last(Append(w, i)) = i
      BY <3>1, KidsComeFrom
    <3>3. i \notin run[w].kids
      BY RefusedNodes
    <3> QED BY <2>2, <3>2, <3>3 DEF GraphInv, Nested
  <2>3. ASSUME NEW n \in Node, outcome = "returned"
        PROVE  LET answers == {run[w].answer : w \in {v \in Way : At(v, "done") /\ run[v].node = n}}
                   refused == \E w \in Way : \E i \in RefusedHops(w) : Hops(w)[i] = n
               IN  /\ results[n] = Missing <=> answers = {} /\ ~refused
                   /\ results[n] \in Answers => results[n] \in answers
                   /\ results[n] = Denied => refused
    <3> DEFINE done == {v \in Way : At(v, "done") /\ run[v].node = n}
               answers == {run[w].answer : w \in done}
    <3>1. results[n] = Denied => RefusedTo(n)
      BY DEF GraphInv, Heard
    <3>2. results[n] \in Answers => results[n] \in answers
      <4> SUFFICES ASSUME results[n] \in Answers PROVE results[n] \in answers
        OBVIOUS
      <4>1. PICK u \in Way : /\ run[u].node = n /\ run[u].answer = results[n]
                             /\ run[u].at \notin {"absent", "agent"}
        BY DEF GraphInv, Heard
      <4>2. u \in done
        BY <2>1, <2>3, <4>1 DEF At
      <4> QED BY <4>1, <4>2
    <3>3. answers # {} \/ RefusedTo(n) => results[n] # Missing
      BY DEF GraphInv, Heard, RefusedTo, At
    <3>4. results[n] \in Answers \cup {Denied, Missing}
      BY DEF GraphInv, GraphTypeOK, TypeOK
    <3>5. results[n] = Missing => answers = {} /\ ~RefusedTo(n)
      BY <3>3
    <3>6. answers = {} /\ ~RefusedTo(n) => results[n] = Missing
      BY <3>1, <3>2, <3>4
    <3> HIDE DEF done
    <3> QED BY <3>1, <3>2, <3>5, <3>6 DEF RefusedTo, done
  <2>4. outcome = "returned" => \A w \in Way : At(w, "absent") \/ At(w, "done")
    BY AllDone
  <2> QED BY <2>2, <2>3, <2>4 DEF ReturnIsComplete, GraphInv, GraphTypeOK
<1> QED BY <1>2, GraphSteps, GraphStarts, PTL DEF Spec

-----------------------------------------------------------------------------
(* The walk of validate. *)

NodeIds == Node \cup {Unknown}
Paths == BoundedSeq(NodeIds, MaxDepth + 1) \ {<<>>}

\* What validate asks of the last node of a path.
Good(path) ==
    /\ Len(path) <= MaxDepth
    /\ Last(path) \notin Range(Front(path))
    /\ Last(path) \in Node

\* q goes on from where p ends, hop by hop.
GoesOn(s, p, q) ==
    /\ Len(p) <= Len(q)
    /\ \A k \in 1 .. Len(p) : q[k] = p[k]
    /\ \A k \in Len(p) .. Len(q) - 1 : q[k] \in Node /\ q[k + 1] \in Range(s.next[q[k]])

LEMMA PathIsSeq ==
    \A p : p \in Paths <=> p \in Seq(NodeIds) /\ Len(p) \in 1 .. MaxDepth + 1
<1>1. ASSUME NEW p \in Paths PROVE p \in Seq(NodeIds) /\ Len(p) \in 1 .. MaxDepth + 1
  <2>1. PICK d \in 0 .. MaxDepth + 1 : p \in [1 .. d -> NodeIds]
    BY DEF Paths, BoundedSeq, SeqOf
  <2>2. d \in Nat /\ d <= MaxDepth + 1
    BY <2>1, GraphAssumption
  <2>3. p \in Seq(NodeIds)
    BY <2>1, <2>2, SeqDef
  <2>4. Len(p) \in Nat /\ 1 .. Len(p) = 1 .. d
    BY <2>1, <2>3, LenProperties
  <2>5. Len(p) = d
    <3>1. Len(p) <= d
      BY <2>2, <2>4
    <3>2. d <= Len(p)
      BY <2>2, <2>4
    <3> QED BY <2>2, <2>4, <3>1, <3>2
  <2>6. p # <<>>
    BY DEF Paths
  <2>7. Len(p) # 0
    BY <2>3, <2>6, EmptySeq
  <2> QED BY <2>2, <2>3, <2>5, <2>7
<1>2. ASSUME NEW p \in Seq(NodeIds), Len(p) \in 1 .. MaxDepth + 1 PROVE p \in Paths
  <2>1. Len(p) \in 0 .. MaxDepth + 1 /\ p \in [1 .. Len(p) -> NodeIds]
    BY <1>2, GraphAssumption, LenProperties
  <2>2. p # <<>>
    BY <1>2, EmptySeq
  <2> QED BY <2>1, <2>2 DEF Paths, BoundedSeq, SeqOf
<1> QED BY <1>1, <1>2

\* A path that validate does not stop at, and one hop more.
LEMMA PathGrows ==
    ASSUME NEW s \in Spec0, NEW p \in Paths, Good(p), NEW i \in DOMAIN s.next[Last(p)]
    PROVE  LET x == s.next[Last(p)][i]
               q == Append(p, x)
           IN  /\ q \in Paths /\ Len(q) = Len(p) + 1 /\ x \in Range(s.next[Last(p)])
               /\ \A k \in 1 .. Len(p) : q[k] = p[k]
               /\ q[Len(p) + 1] = x
<1> DEFINE x == s.next[Last(p)][i]
           q == Append(p, x)
<1>1. /\ p \in Seq(NodeIds) /\ Len(p) \in Nat /\ Len(p) <= MaxDepth /\ MaxDepth \in Nat /\ Last(p) \in Node
  BY PathIsSeq, GraphAssumption DEF Good
<1>2. s.next[Last(p)] \in Seq(NodeIds)
  BY <1>1, GraphAssumption DEF NodeIds
<1>3. x \in NodeIds /\ x \in Range(s.next[Last(p)])
  BY <1>2 DEF Range
<1> HIDE DEF x
<1>4. /\ q \in Seq(NodeIds) /\ Len(q) = Len(p) + 1
      /\ \A k \in 1 .. Len(p) : q[k] = p[k]
      /\ q[Len(p) + 1] = x
  BY <1>1, <1>3, AppendProperties
<1>5. q \in Paths
  <2> HIDE DEF q
  <2>1. Len(q) \in 1 .. MaxDepth + 1
    BY <1>1, <1>4
  <2> QED BY <1>4, <2>1, PathIsSeq
<1> QED BY <1>3, <1>4, <1>5 DEF x

\* All that goes on from p is good.
AllGood(s, p) == \A q \in Paths : GoesOn(s, p, q) => Good(q)

\* The recursion of _walk, for the explicit formula.
LEMMA AllGoodUnfolds ==
    ASSUME NEW s \in Spec0, NEW p \in Paths
    PROVE  AllGood(s, p) <=> /\ Good(p)
                             /\ \A i \in DOMAIN s.next[Last(p)] : AllGood(s, Append(p, s.next[Last(p)][i]))
<1>1. /\ p \in Seq(NodeIds) /\ Len(p) \in Nat \ {0} /\ Last(p) = p[Len(p)]
  BY PathIsSeq, GraphAssumption DEF Last
<1>2. GoesOn(s, p, p)
  BY <1>1 DEF GoesOn
<1>3. ASSUME AllGood(s, p), NEW i \in DOMAIN s.next[Last(p)]
      PROVE  AllGood(s, Append(p, s.next[Last(p)][i]))
  <2> DEFINE x == s.next[Last(p)][i]
             a == Append(p, x)
  <2>1. Good(p)
    BY <1>2, <1>3 DEF AllGood
  <2>2. /\ a \in Paths /\ Len(a) = Len(p) + 1 /\ x \in Range(s.next[Last(p)])
        /\ \A k \in 1 .. Len(p) : a[k] = p[k]
        /\ a[Len(p) + 1] = x
    BY <2>1, PathGrows
  <2> HIDE DEF x, a
  <2>3. ASSUME NEW q \in Paths, GoesOn(s, a, q) PROVE GoesOn(s, p, q)
    <3>1. Len(q) \in Nat /\ Len(p) + 1 <= Len(q)
      BY <2>2, <2>3, PathIsSeq, GraphAssumption DEF GoesOn
    <3>2. q[Len(p)] = Last(p) /\ q[Len(p) + 1] = x /\ \A k \in 1 .. Len(p) : q[k] = p[k]
      BY <1>1, <2>2, <2>3 DEF GoesOn
    <3>3. ASSUME NEW k \in Len(p) .. Len(q) - 1 PROVE q[k] \in Node /\ q[k + 1] \in Range(s.next[q[k]])
      <4>1. CASE k = Len(p)
        BY <2>1, <2>2, <3>2, <4>1 DEF Good
      <4>2. CASE k # Len(p)
        <5>1. k \in Len(a) .. Len(q) - 1
          BY <1>1, <2>2, <3>1, <3>3, <4>2
        <5> QED BY <2>3, <5>1 DEF GoesOn
      <4> QED BY <4>1, <4>2
    <3> QED BY <1>1, <3>1, <3>2, <3>3 DEF GoesOn
  <2>4. AllGood(s, a)
    BY <1>3, <2>3 DEF AllGood
  <2> QED BY <2>4 DEF x, a
<1>4. ASSUME Good(p), \A i \in DOMAIN s.next[Last(p)] : AllGood(s, Append(p, s.next[Last(p)][i])),
             NEW q \in Paths, GoesOn(s, p, q)
      PROVE  Good(q)
  <2>1. q \in Seq(NodeIds) /\ Len(q) \in Nat /\ Len(p) <= Len(q) /\ \A k \in 1 .. Len(p) : q[k] = p[k]
    BY <1>4, PathIsSeq, GraphAssumption DEF GoesOn
  <2>2. CASE Len(q) = Len(p)
    <3>1. q = p
      BY <1>1, <2>1, <2>2, SeqEqual
    <3> QED BY <1>4, <3>1
  <2>3. CASE Len(q) # Len(p)
    <3>1. Len(p) \in Len(p) .. Len(q) - 1 /\ Len(p) + 1 <= Len(q) /\ q[Len(p)] = Last(p)
      BY <1>1, <2>1, <2>3
    <3>2. q[Len(p) + 1] \in Range(s.next[Last(p)])
      BY <1>4, <3>1 DEF GoesOn
    <3>3. PICK i \in DOMAIN s.next[Last(p)] : q[Len(p) + 1] = s.next[Last(p)][i]
      BY <3>2 DEF Range
    <3> DEFINE a == Append(p, s.next[Last(p)][i])
    <3>4. /\ a \in Paths /\ Len(a) = Len(p) + 1
          /\ \A k \in 1 .. Len(p) : a[k] = p[k]
          /\ a[Len(p) + 1] = q[Len(p) + 1]
      BY <1>4, <3>3, PathGrows
    <3>5. AllGood(s, a)
      BY <1>4, <3>3
    <3> HIDE DEF a
    <3>6. GoesOn(s, a, q)
      <4>1. \A k \in 1 .. Len(a) : q[k] = a[k]
        BY <1>1, <2>1, <3>4
      <4>2. \A k \in Len(a) .. Len(q) - 1 : k \in Len(p) .. Len(q) - 1
        BY <1>1, <2>1, <3>4
      <4> QED BY <1>4, <3>1, <3>4, <4>1, <4>2 DEF GoesOn
    <3> QED BY <3>5, <3>6 DEF AllGood
  <2> QED BY <2>2, <2>3
<1> QED BY <1>2, <1>3, <1>4 DEF AllGood

\* A function that obeys the recursion of _walk.
Recurs(s, f) ==
    f = [path \in Paths |->
           LET node == Last(path)
           IN  /\ Len(path) <= MaxDepth
               /\ node \notin Range(Front(path))
               /\ node \in Node
               /\ \A i \in DOMAIN s.next[node] : f[Append(path, s.next[node][i])]]

LEMMA WalkExists ==
    ASSUME NEW s \in Spec0
    PROVE  \E f : Recurs(s, f)
<1> DEFINE f == [p \in Paths |-> AllGood(s, p)]
           Onward(p) == \A i \in DOMAIN s.next[Last(p)] : f[Append(p, s.next[Last(p)][i])]
<1>1. ASSUME NEW p \in Paths PROVE AllGood(s, p) <=> Good(p) /\ Onward(p)
  <2>1. CASE Good(p)
    <3>1. \A i \in DOMAIN s.next[Last(p)] : Append(p, s.next[Last(p)][i]) \in Paths
      BY <2>1, PathGrows
    <3>2. \A i \in DOMAIN s.next[Last(p)] :
            f[Append(p, s.next[Last(p)][i])] <=> AllGood(s, Append(p, s.next[Last(p)][i]))
      BY <3>1
    <3> QED BY <2>1, <3>2, AllGoodUnfolds
  <2>2. CASE ~Good(p)
    BY <2>2, AllGoodUnfolds
  <2> QED BY <2>1, <2>2
<1>2. f = [p \in Paths |-> Good(p) /\ Onward(p)]
  <2>1. \A p \in Paths : AllGood(s, p) = (Good(p) /\ Onward(p))
    <3> HIDE DEF Onward
    <3> QED BY <1>1 DEF AllGood
  <2> HIDE DEF Onward
  <2> QED BY <2>1
<1>3. Recurs(s, f)
  <2> HIDE DEF f
  <2> QED BY <1>2 DEF Recurs, Good
<1> QED BY <1>3

LEMMA WalkIsOne ==
    ASSUME NEW s \in Spec0, NEW f, Recurs(s, f)
    PROVE  \A p \in Paths : f[p] <=> AllGood(s, p)
<1> DEFINE Left(p) == MaxDepth + 1 - Len(p)
           Bad == {n \in Nat : \E p \in Paths : Left(p) = n /\ ~(f[p] <=> AllGood(s, p))}
<1>1. ASSUME NEW p \in Paths
      PROVE  f[p] <=> Good(p) /\ \A i \in DOMAIN s.next[Last(p)] : f[Append(p, s.next[Last(p)][i])]
  BY DEF Recurs, Good
<1>2. Bad = {}
  <2> SUFFICES ASSUME Bad # {} PROVE FALSE
    OBVIOUS
  <2>1. PICK n \in Bad : \A m \in Bad : n <= m
    <3>1. Bad \in SUBSET Nat
      OBVIOUS
    <3> HIDE DEF Bad
    <3> QED BY <3>1, LeastNumber
  <2>2. PICK p \in Paths : Left(p) = n /\ ~(f[p] <=> AllGood(s, p))
    OBVIOUS
  <2>3. CASE Good(p)
    <3>1. ASSUME NEW i \in DOMAIN s.next[Last(p)]
          PROVE  f[Append(p, s.next[Last(p)][i])] <=> AllGood(s, Append(p, s.next[Last(p)][i]))
      <4> DEFINE a == Append(p, s.next[Last(p)][i])
      <4>1. a \in Paths /\ Len(a) = Len(p) + 1
        BY <2>3, PathGrows
      <4> HIDE DEF a
      <4>2. Left(a) \in Nat /\ Left(a) < n
        BY <2>2, <4>1, PathIsSeq, GraphAssumption
      <4>3. Left(a) \notin Bad
        <5> HIDE DEF Bad
        <5> QED BY <2>1, <4>2, <2>2, PathIsSeq, GraphAssumption
      <4>4. f[a] <=> AllGood(s, a)
        BY <4>1, <4>2, <4>3
      <4> QED BY <4>4 DEF a
    <3> QED BY <1>1, <2>2, <3>1, AllGoodUnfolds
  <2>4. CASE ~Good(p)
    BY <1>1, <2>2, <2>4, AllGoodUnfolds
  <2> QED BY <2>3, <2>4
<1>3. ASSUME NEW p \in Paths PROVE f[p] <=> AllGood(s, p)
  <2>1. Left(p) \in Nat /\ Left(p) \notin Bad
    BY <1>2, PathIsSeq, GraphAssumption
  <2> QED BY <2>1
<1> QED BY <1>3

\* Walking accepts a graph exactly when every path from the entry is good.
LEMMA WalksIs ==
    ASSUME NEW s \in Spec0
    PROVE  Walks(s) <=> AllGood(s, <<Entry>>)
<1> DEFINE f == CHOOSE g : Recurs(s, g)
<1>1. Recurs(s, f)
  BY WalkExists
<1>2. Walks(s) <=> f[<<Entry>>]
  BY DEF Walks, Recurs, Paths, NodeIds
<1> HIDE DEF f
<1>3. <<Entry>> \in Paths
  <2>1. <<Entry>> \in Seq(NodeIds) /\ Len(<<Entry>>) = 1
    BY GraphAssumption DEF NodeIds
  <2>2. 1 \in 1 .. MaxDepth + 1
    BY GraphAssumption
  <2> QED BY <2>1, <2>2, PathIsSeq
<1> QED BY <1>1, <1>2, <1>3, WalkIsOne

-----------------------------------------------------------------------------
(* The levels of the reference definition. *)

\* The walks of n nodes from the entry, and where those of k hops end.
Trails(n) == {q \in Seq(NodeIds) : Len(q) = n /\ GoesOn(spec, <<Entry>>, q)}
Ends(k) == {q[k + 1] : q \in Trails(k + 1)}

\* A walk from the entry.
LEMMA TrailIs ==
    ASSUME NEW q
    PROVE  GoesOn(spec, <<Entry>>, q) <=>
             /\ 1 <= Len(q) /\ q[1] = Entry
             /\ \A k \in 1 .. Len(q) - 1 : q[k] \in Node /\ q[k + 1] \in Range(spec.next[q[k]])
<1>1. Len(<<Entry>>) = 1 /\ <<Entry>>[1] = Entry /\ 1 .. 1 = {1}
  OBVIOUS
<1> QED BY <1>1 DEF GoesOn

LEMMA EndsUnfold ==
    ASSUME spec \in Spec0
    PROVE  /\ Ends(0) = {Entry}
           /\ \A k \in Nat : Ends(k + 1) = UNION {Range(spec.next[n]) : n \in Ends(k) \cap Node}
<1>1. Ends(0) = {Entry}
  <2>1. ASSUME NEW x \in Ends(0) PROVE x = Entry
    BY TrailIs DEF Ends, Trails
  <2>2. <<Entry>> \in Trails(1)
    <3>1. <<Entry>> \in Seq(NodeIds) /\ Len(<<Entry>>) = 1 /\ <<Entry>>[1] = Entry
      BY GraphAssumption DEF NodeIds
    <3>2. GoesOn(spec, <<Entry>>, <<Entry>>)
      BY <3>1, TrailIs
    <3> QED BY <3>1, <3>2 DEF Trails
  <2>3. <<Entry>>[1] \in Ends(0)
    BY <2>2 DEF Ends
  <2> QED BY <2>1, <2>3
<1>2. ASSUME NEW k \in Nat, NEW x \in Ends(k + 1)
      PROVE  \E n \in Ends(k) \cap Node : x \in Range(spec.next[n])
  <2>1. PICK q \in Trails(k + 1 + 1) : x = q[k + 1 + 1]
    BY <1>2 DEF Ends
  <2>2. /\ q \in Seq(NodeIds) /\ Len(q) = k + 2 /\ q[1] = Entry
        /\ \A j \in 1 .. k + 1 : q[j] \in Node /\ q[j + 1] \in Range(spec.next[q[j]])
    BY <2>1, TrailIs DEF Trails
  <2> DEFINE p == SubSeq(q, 1, k + 1)
  <2>3. /\ p \in Seq(NodeIds) /\ Len(p) = k + 1
        /\ \A j \in 1 .. k + 1 : p[j] = q[j]
    <3>1. \A j \in 1 .. k + 1 : q[j] \in NodeIds
      BY <2>2 DEF NodeIds
    <3>2. /\ p \in Seq(NodeIds)
          /\ Len(p) = IF 1 <= k + 1 THEN k + 1 - 1 + 1 ELSE 0
          /\ \A j \in 1 .. k + 1 - 1 + 1 : p[j] = q[1 + j - 1]
      BY <2>2, <3>1, SubSeqProperties
    <3> HIDE DEF p
    <3>3. (IF 1 <= k + 1 THEN k + 1 - 1 + 1 ELSE 0) = k + 1 /\ k + 1 - 1 + 1 = k + 1
          /\ \A j \in 1 .. k + 1 : 1 + j - 1 = j
      OBVIOUS
    <3> QED BY <3>2, <3>3
  <2> HIDE DEF p
  <2>4. GoesOn(spec, <<Entry>>, p)
    <3>1. 1 <= Len(p) /\ p[1] = Entry
      BY <2>2, <2>3
    <3>2. \A j \in 1 .. Len(p) - 1 : j \in 1 .. k + 1 /\ j + 1 \in 1 .. k + 1
      BY <2>3
    <3> QED BY <2>2, <2>3, <3>1, <3>2, TrailIs
  <2>5. p[k + 1] \in Ends(k)
    BY <2>3, <2>4 DEF Ends, Trails
  <2>6. k + 1 \in 1 .. k + 1 /\ k + 1 + 1 = k + 2
    OBVIOUS
  <2> QED BY <2>1, <2>2, <2>3, <2>5, <2>6
<1>3. ASSUME NEW k \in Nat, NEW n \in Ends(k) \cap Node, NEW x \in Range(spec.next[n])
      PROVE  x \in Ends(k + 1)
  <2>1. PICK p \in Trails(k + 1) : n = p[k + 1]
    BY <1>3 DEF Ends
  <2>2. /\ p \in Seq(NodeIds) /\ Len(p) = k + 1 /\ p[1] = Entry
        /\ \A j \in 1 .. k : p[j] \in Node /\ p[j + 1] \in Range(spec.next[p[j]])
    BY <2>1, TrailIs DEF Trails
  <2>3. x \in NodeIds
    BY <1>3, GraphAssumption DEF NodeIds, Range
  <2> DEFINE q == Append(p, x)
  <2>4. /\ q \in Seq(NodeIds) /\ Len(q) = k + 2
        /\ \A j \in 1 .. k + 1 : q[j] = p[j]
        /\ q[k + 2] = x
    BY <2>2, <2>3, AppendProperties
  <2> HIDE DEF q
  <2>5. GoesOn(spec, <<Entry>>, q)
    <3>1. 1 <= Len(q) /\ q[1] = Entry
      BY <2>2, <2>4
    <3>2. ASSUME NEW j \in 1 .. Len(q) - 1 PROVE q[j] \in Node /\ q[j + 1] \in Range(spec.next[q[j]])
      <4>1. CASE j = k + 1
        BY <1>3, <2>1, <2>4, <4>1
      <4>2. CASE j # k + 1
        <5>1. j \in 1 .. k /\ j \in 1 .. k + 1 /\ j + 1 \in 1 .. k + 1
          BY <2>4, <3>2, <4>2
        <5> QED BY <2>2, <2>4, <5>1
      <4> QED BY <4>1, <4>2
    <3> QED BY <3>1, <3>2, TrailIs
  <2>6. k + 1 + 1 = k + 2
    OBVIOUS
  <2> QED BY <2>4, <2>5, <2>6 DEF Ends, Trails
<1>4. ASSUME NEW k \in Nat
      PROVE  Ends(k + 1) = UNION {Range(spec.next[n]) : n \in Ends(k) \cap Node}
  BY <1>2, <1>3
<1> QED BY <1>1, <1>4

Levelled(f) ==
    f = [k \in Nat |-> IF k = 0 THEN {Entry}
                       ELSE UNION {Range(spec.next[n]) : n \in f[k - 1] \cap Node}]

LEMMA LevelIs ==
    ASSUME spec \in Spec0, NEW k \in Nat
    PROVE  Level[k] = Ends(k)
<1>1. \E f : Levelled(f)
  <2> DEFINE f == [i \in Nat |-> Ends(i)]
             Value(i) == IF i = 0 THEN {Entry}
                         ELSE UNION {Range(spec.next[n]) : n \in f[i - 1] \cap Node}
  <2>1. ASSUME NEW i \in Nat PROVE Ends(i) = Value(i)
    <3>1. CASE i = 0
      BY <3>1, EndsUnfold
    <3>2. CASE i # 0
      <4>1. i - 1 \in Nat /\ i - 1 + 1 = i
        BY <3>2
      <4>2. Ends(i - 1 + 1) = UNION {Range(spec.next[n]) : n \in Ends(i - 1) \cap Node}
        BY <4>1, EndsUnfold
      <4> QED BY <3>2, <4>1, <4>2
    <3> QED BY <3>1, <3>2
  <2>2. f = [i \in Nat |-> Value(i)]
    <3> HIDE DEF Value
    <3> QED BY <2>1
  <2>3. Levelled(f)
    <3> HIDE DEF f
    <3> QED BY <2>2 DEF Levelled
  <2> QED BY <2>3
<1>2. Levelled(Level)
  BY <1>1 DEF Level, Levelled
<1> DEFINE Bad == {i \in Nat : Level[i] # Ends(i)}
<1>3. /\ Level[0] = {Entry}
      /\ \A i \in Nat \ {0} : Level[i] = UNION {Range(spec.next[n]) : n \in Level[i - 1] \cap Node}
  BY <1>2 DEF Levelled
<1>4. Bad = {}
  <2> SUFFICES ASSUME Bad # {} PROVE FALSE
    OBVIOUS
  <2>1. PICK i \in Bad : \A m \in Bad : i <= m
    <3>1. Bad \in SUBSET Nat
      OBVIOUS
    <3> HIDE DEF Bad
    <3> QED BY <3>1, LeastNumber
  <2>2. i # 0
    BY <1>3, EndsUnfold
  <2>3. i \in Nat \ {0} /\ i - 1 \in Nat /\ i - 1 + 1 = i /\ i - 1 < i
    BY <2>2
  <2>4. i - 1 \notin Bad
    <3> HIDE DEF Bad
    <3> QED BY <2>1, <2>3
  <2>5. Level[i - 1] = Ends(i - 1)
    BY <2>3, <2>4
  <2>6. Level[i] = Ends(i - 1 + 1)
    BY <1>3, <2>3, <2>5, EndsUnfold
  <2> QED BY <2>3, <2>6
<1> QED BY <1>4

\* The nodes of a walk are on the levels they should be.
LEMMA OnLevels ==
    ASSUME spec \in Spec0, NEW q \in Paths, GoesOn(spec, <<Entry>>, q)
    PROVE  \A j \in 1 .. Len(q) : q[j] \in Ends(j - 1)
<1> DEFINE Bad == {j \in 1 .. Len(q) : q[j] \notin Ends(j - 1)}
<1>1. /\ q[1] = Entry /\ Len(q) \in Nat
      /\ \A k \in 1 .. Len(q) - 1 : q[k] \in Node /\ q[k + 1] \in Range(spec.next[q[k]])
  BY TrailIs, PathIsSeq, GraphAssumption
<1>2. Bad = {}
  <2> SUFFICES ASSUME Bad # {} PROVE FALSE
    OBVIOUS
  <2>1. PICK j \in Bad : \A m \in Bad : j <= m
    <3>1. Bad \in SUBSET Nat
      BY <1>1
    <3> HIDE DEF Bad
    <3> QED BY <3>1, LeastNumber
  <2>2. j # 1
    BY <1>1, EndsUnfold
  <2>3. j - 1 \in 1 .. Len(q) - 1 /\ j - 1 \in 1 .. Len(q) /\ j - 1 < j /\ j - 1 \in Nat
        /\ j - 1 + 1 = j /\ j - 1 - 1 \in Nat /\ j - 1 - 1 + 1 = j - 1
    BY <1>1, <2>2
  <2>4. j - 1 \notin Bad
    <3> HIDE DEF Bad
    <3> QED BY <2>1, <2>3
  <2>5. q[j - 1] \in Ends(j - 1 - 1) \cap Node /\ q[j] \in Range(spec.next[q[j - 1]])
    BY <1>1, <2>3, <2>4
  <2>6. q[j] \in Ends(j - 1 - 1 + 1)
    BY <2>3, <2>5, EndsUnfold
  <2> QED BY <2>3, <2>6
<1> QED BY <1>2

\* A walk that comes back to a node goes on forever.
LEMMA CyclesGoOn ==
    ASSUME spec \in Spec0, NEW q \in Paths, GoesOn(spec, <<Entry>>, q),
           NEW i \in 1 .. Len(q) - 1, q[i] = q[Len(q)]
    PROVE  \A k \in Nat : k >= i - 1 => \E j \in i .. Len(q) - 1 : q[j] \in Ends(k)
<1> DEFINE Round(k) == \E j \in i .. Len(q) - 1 : q[j] \in Ends(k)
           Bad == {k \in Nat : k >= i - 1 /\ ~Round(k)}
<1>1. /\ Len(q) \in Nat
      /\ \A k \in 1 .. Len(q) - 1 : q[k] \in Node /\ q[k + 1] \in Range(spec.next[q[k]])
  <2>1. Len(q) \in Nat
    BY PathIsSeq, GraphAssumption
  <2>2. \A k \in 1 .. Len(q) - 1 : q[k] \in Node /\ q[k + 1] \in Range(spec.next[q[k]])
    BY TrailIs
  <2> QED BY <2>1, <2>2
<1>2. Bad = {}
  <2> SUFFICES ASSUME Bad # {} PROVE FALSE
    OBVIOUS
  <2>1. PICK k \in Bad : \A m \in Bad : k <= m
    <3>1. Bad \in SUBSET Nat
      OBVIOUS
    <3> HIDE DEF Bad
    <3> QED BY <3>1, LeastNumber
  <2>2. k \in Nat /\ k >= i - 1 /\ ~Round(k)
    OBVIOUS
  <2>3. k # i - 1
    <3>1. i \in i .. Len(q) - 1 /\ i \in 1 .. Len(q)
      BY <1>1
    <3>2. q[i] \in Ends(i - 1)
      BY <3>1, OnLevels
    <3> QED BY <2>2, <3>1, <3>2
  <2>4. k - 1 \in Nat /\ k - 1 >= i - 1 /\ k - 1 < k /\ k - 1 + 1 = k
    BY <2>2, <2>3
  <2>5. k - 1 \notin Bad
    <3> HIDE DEF Bad
    <3> QED BY <2>1, <2>4
  <2>6. PICK j \in i .. Len(q) - 1 : q[j] \in Ends(k - 1)
    BY <2>4, <2>5
  <2>7. j \in 1 .. Len(q) - 1
    BY <1>1, <2>6
  <2>8. q[j + 1] \in Ends(k)
    BY <1>1, <2>4, <2>6, <2>7, EndsUnfold
  <2>9. CASE j + 1 = Len(q)
    <3>1. i \in i .. Len(q) - 1
      BY <1>1
    <3>2. q[i] \in Ends(k)
      BY <2>8, <2>9
    <3> QED BY <2>2, <3>1, <3>2
  <2>10. CASE j + 1 # Len(q)
    <3>1. j + 1 \in i .. Len(q) - 1
      BY <1>1, <2>7, <2>10
    <3> QED BY <2>2, <2>8, <3>1
  <2> QED BY <2>9, <2>10
<1> QED BY <1>2

\* What validate accepts: no walk of more than MaxDepth nodes, and nodes only.
LEMMA AcceptedIs ==
    ASSUME spec \in Spec0
    PROVE  Walks(spec) <=> /\ Level[MaxDepth] = {}
                           /\ \A k \in 0 .. MaxDepth - 1 : Level[k] \subseteq Node
<1>1. MaxDepth \in Nat \ {0} /\ \A k \in 0 .. MaxDepth - 1 : k \in Nat
  BY GraphAssumption
<1>2. ASSUME AllGood(spec, <<Entry>>), NEW k \in 0 .. MaxDepth, NEW x \in Ends(k)
      PROVE  k # MaxDepth /\ x \in Node
  <2>1. PICK q \in Trails(k + 1) : x = q[k + 1]
    BY <1>2 DEF Ends
  <2>2. q \in Seq(NodeIds) /\ Len(q) = k + 1 /\ GoesOn(spec, <<Entry>>, q)
    BY <2>1 DEF Trails
  <2>3. q \in Paths
    <3>1. Len(q) \in 1 .. MaxDepth + 1
      BY <1>1, <2>2
    <3> QED BY <2>2, <3>1, PathIsSeq
  <2>4. Good(q)
    BY <1>2, <2>2, <2>3 DEF AllGood
  <2> QED BY <1>1, <2>1, <2>2, <2>4 DEF Good, Last
<1>3. ASSUME Ends(MaxDepth) = {}, \A k \in 0 .. MaxDepth - 1 : Ends(k) \subseteq Node,
             NEW q \in Paths, GoesOn(spec, <<Entry>>, q)
      PROVE  Good(q)
  <2>1. q \in Seq(NodeIds) /\ Len(q) \in 1 .. MaxDepth + 1 /\ Len(q) \in 1 .. Len(q)
    BY PathIsSeq, <1>1
  <2>2. q[Len(q)] \in Ends(Len(q) - 1)
    BY <1>3, <2>1, OnLevels
  <2>3. Len(q) - 1 # MaxDepth
    BY <1>3, <2>2
  <2>4. Len(q) - 1 \in 0 .. MaxDepth - 1 /\ Len(q) <= MaxDepth
    BY <1>1, <2>1, <2>3
  <2>5. Last(q) \in Node
    BY <1>3, <2>2, <2>4 DEF Last
  <2>6. ASSUME Last(q) \in Range(Front(q)) PROVE FALSE
    <3> DEFINE n == Len(q) - 1
    <3>1. n \in Nat /\ \A j \in 1 .. n : q[j] \in NodeIds
      BY <2>1, <1>1
    <3> HIDE DEF n
    <3>2. /\ SubSeq(q, 1, n) \in Seq(NodeIds)
          /\ Len(SubSeq(q, 1, n)) = IF 1 <= n THEN n - 1 + 1 ELSE 0
          /\ \A j \in 1 .. n - 1 + 1 : SubSeq(q, 1, n)[j] = q[1 + j - 1]
      BY <3>1, SubSeqProperties
    <3>3. (IF 1 <= n THEN n - 1 + 1 ELSE 0) = n /\ n - 1 + 1 = n /\ \A j \in 1 .. n : 1 + j - 1 = j
      BY <3>1
    <3>4. Front(q) = SubSeq(q, 1, n)
      BY DEF Front, n
    <3>5. DOMAIN Front(q) = 1 .. n /\ \A j \in 1 .. n : Front(q)[j] = q[j]
      BY <3>2, <3>3, <3>4, LenProperties
    <3>6. PICK i \in 1 .. n : q[i] = q[Len(q)]
      BY <2>6, <3>5 DEF Range, Last
    <3>7. i \in 1 .. Len(q) - 1 /\ MaxDepth >= i - 1
      BY <1>1, <2>4, <3>6 DEF n
    <3>8. \E j \in i .. Len(q) - 1 : q[j] \in Ends(MaxDepth)
      BY <1>1, <1>3, <3>6, <3>7, CyclesGoOn
    <3> QED BY <1>3, <3>8
  <2> QED BY <2>4, <2>5, <2>6 DEF Good
<1>4. AllGood(spec, <<Entry>>) <=> /\ Ends(MaxDepth) = {}
                                   /\ \A k \in 0 .. MaxDepth - 1 : Ends(k) \subseteq Node
  <2>1. ASSUME AllGood(spec, <<Entry>>)
        PROVE  Ends(MaxDepth) = {} /\ \A k \in 0 .. MaxDepth - 1 : Ends(k) \subseteq Node
    <3>1. MaxDepth \in 0 .. MaxDepth /\ \A k \in 0 .. MaxDepth - 1 : k \in 0 .. MaxDepth
      BY <1>1
    <3> QED BY <1>2, <2>1, <3>1
  <2>2. ASSUME Ends(MaxDepth) = {}, \A k \in 0 .. MaxDepth - 1 : Ends(k) \subseteq Node
        PROVE  AllGood(spec, <<Entry>>)
    BY <1>3, <2>2 DEF AllGood
  <2> QED BY <2>1, <2>2
<1>5. Level[MaxDepth] = Ends(MaxDepth) /\ \A k \in 0 .. MaxDepth - 1 : Level[k] = Ends(k)
  BY <1>1, LevelIs
<1> QED BY <1>4, <1>5, WalksIs

\* The verdict on a graph stays, and is that of the walk.
Decided == outcome # "unparsed" => (outcome # "rejected" <=> Walks(spec))

LEMMA DecidedStays ==
    ASSUME GraphInv, Decided, [Next]_vars
    PROVE  Decided'
<1>1. CASE Parse
  BY <1>1 DEF Parse, Decided
<1>2. ASSUME NEW w \in Way, Gather(w) PROVE Decided'
  BY <1>2 DEF Gather, Decided
<1>3. ASSUME NEW w \in Way, Moves(w) PROVE Decided'
  <2>1. outcome \notin {"unparsed", "rejected"}
    BY <1>3 DEF Moves, GraphInv, Rooted, At, Alive
  <2>2. spec' = spec /\ outcome' \notin {"unparsed", "rejected"}
    BY <1>3, <2>1 DEF Moves
  <2> QED BY <2>1, <2>2 DEF Decided
<1>4. ASSUME NEW w \in Way,
             \/ AgentAnswers(w) \/ AgentRaises(w)
             \/ SkipHop(w) \/ DenyHop(w) \/ TakeHop(w) \/ HopFlagged(w)
             \/ Join(w) \/ JoinRaises(w)
      PROVE  Decided'
  <2>1. GraphTypeOK /\ Collected
    BY DEF GraphInv
  <2>2. Moves(w)
    BY <1>4, <2>1, StepMoves
  <2> QED BY <1>3, <2>2
<1>5. CASE UNCHANGED vars
  BY <1>5 DEF vars, Decided
<1> QED BY <1>1, <1>2, <1>4, <1>5 DEF Next

\* A graph is accepted exactly when no walk from the entry has more than MaxDepth
\* nodes, cyclic walks included, and all it meets are nodes: the walk of validate
\* (path by path) and the levels of the graph agree (AgentGraphSpec.validate).
THEOREM AcceptsFiniteGraphs == Spec => []AcceptsExactly
<1>1. Init => Decided
  BY DEF Init, Decided
<1>2. GraphInv /\ Decided => AcceptsExactly
  BY AcceptedIs DEF GraphInv, GraphTypeOK, Decided, AcceptsExactly
<1> QED BY <1>1, <1>2, DecidedStays, GraphSteps, GraphStarts, PTL DEF Spec

-----------------------------------------------------------------------------
(* The catalogue. *)

\* What is put onto a row or a request, and what stays.
LEMMA OntoIs ==
    ASSUME NEW f, NEW g
    PROVE  /\ DOMAIN Onto(f, g) = DOMAIN f \cup DOMAIN g
           /\ \A x \in DOMAIN f : Onto(f, g)[x] = f[x]
           /\ \A x \in DOMAIN g \ DOMAIN f : Onto(f, g)[x] = g[x]
BY DEF Onto

ColumnsOK(set) ==
    /\ DOMAIN set \subseteq {"name", "val", "app", "scope"}
    /\ "name" \in DOMAIN set => set.name \in STRING
    /\ "val" \in DOMAIN set => set.val \in Vals
    /\ "app" \in DOMAIN set => set.app \in Apps
    /\ "scope" \in DOMAIN set => set.scope \in Scopes

LEMMA ChangedRow ==
    ASSUME NEW x \in Rows, NEW set, ColumnsOK(set)
    PROVE  Onto(set, x) \in Rows
<1>1. DOMAIN x = {"name", "val", "app", "scope", "owner"}
  BY DEF Rows
<1>2. DOMAIN Onto(set, x) = DOMAIN x
  BY <1>1, OntoIs DEF ColumnsOK
<1> DEFINE y == Onto(set, x)
<1>a. y = [f \in DOMAIN set \cup DOMAIN x |-> IF f \in DOMAIN set THEN set[f] ELSE x[f]]
  BY DEF Onto
<1> HIDE DEF y
<1>3. /\ y.name \in STRING /\ y.val \in Vals /\ y.app \in Apps
      /\ y.scope \in Scopes /\ y.owner \in {Owner, NoOne}
  <2>1. y.name \in STRING
    BY <1>1, <1>a DEF ColumnsOK, Rows
  <2>2. y.val \in Vals
    BY <1>1, <1>a DEF ColumnsOK, Rows
  <2>3. y.app \in Apps
    BY <1>1, <1>a DEF ColumnsOK, Rows
  <2>4. y.scope \in Scopes
    BY <1>1, <1>a DEF ColumnsOK, Rows
  <2>5. y.owner \in {Owner, NoOne}
    BY <1>1, <1>a DEF ColumnsOK, Rows
  <2> QED BY <2>1, <2>2, <2>3, <2>4, <2>5
<1>4. y = [f \in {"name", "val", "app", "scope", "owner"} |-> y[f]]
  BY <1>1, <1>2, <1>a DEF y
<1>5. y \in Rows
  BY <1>3, <1>4 DEF Rows
<1> QED BY <1>5 DEF y

\* A row that is written is a row.
LEMMA NewRow ==
    ASSUME NEW n \in STRING, NEW v \in Vals, NEW app \in Apps, NEW scope \in Scopes
    PROVE  Row(n, v, app, scope) \in Rows /\ CheckConstraint(Row(n, v, app, scope))
BY CatalogAssumption DEF Row, Rows, CheckConstraint, Scopes

-----------------------------------------------------------------------------
(* The tables. *)
Tables ==
    /\ DOMAIN row = Ids /\ DOMAIN doc = Ids /\ DOMAIN grant = AgentIds
    /\ \A i \in Ids : Live(i) => row[i] \in Rows /\ CheckConstraint(row[i])
    /\ \A l \in Links : link[l] # NoLink => link[l] \in Modes /\ Live(l[1]) /\ Live(l[2])
    /\ \A a \in AgentIds : grant[a] # "none" => Live(a)

\* What a request has read, and what it holds for the steps it still has to do.
Edits == {"patch", "delete"}
Syncs == {"sync", "resolved"}
Has(q, fields) == fields \subseteq DOMAIN q
EditOK(q) == Has(q, {"id", "was"}) /\ q.id \in Ids /\ q.was \in Rows /\ q.was.app = NoApp
BodyOK(q) ==
    /\ Has(q, {"patch", "links"}) /\ q.patch \in Patches
    /\ q.links # NoLink => \A s \in DOMAIN q.links : s \in SkillIds /\ q.links[s] \in Modes
SyncOK(q) ==
    /\ Has(q, {"batch", "found", "was", "had"}) /\ q.batch \in Batches
    /\ DOMAIN q.found \subseteq DOMAIN q.batch.items
    /\ \A i \in Range(q.found) :
          /\ i \in Ids /\ q.was[i] \in Rows /\ q.was[i].name \in DOMAIN q.batch.items
          /\ q.was[i].app \in {NoApp, q.batch.app}
RunOK(q) ==
    /\ Has(q, {"id", "by", "agent"}) /\ q.id \in AgentIds /\ q.by \in {Owner, Guest}
    /\ q.agent \in Rows /\ CheckConstraint(q.agent)
RequestOK(q) ==
    /\ Has(q, {"pc"})
    /\ q.pc \notin Ended => Has(q, {"alone"})
    /\ q.pc \in Edits => EditOK(q)
    /\ q.pc = "patch" => BodyOK(q)
    /\ q.pc \in Syncs => SyncOK(q)
    /\ q.pc = "resolved" => Has(q, {"skill"}) /\ q.batch.kind = "agent"
    /\ q.pc \in {"written", "sending"} => Has(q, {"id"}) /\ q.id \in Ids
    /\ q.pc = "sending" => Has(q, {"doc"})
    /\ q.pc = "run" => RunOK(q)

\* As long as nobody else wrote, what a request has read is what the tables hold.
There(x) == x \notin {Fresh, Deleted}
Current(q, rows) ==
    /\ q.pc \in Edits /\ q.alone => There(rows[q.id]) /\ rows[q.id] = q.was
    /\ q.pc \in Syncs /\ q.alone => \A i \in Range(q.found) : rows[i] = q.was[i]
    /\ q.pc = "sending" /\ q.alone =>
          q.doc = IF There(rows[q.id]) THEN Doc(rows[q.id]) ELSE Deleted

Reads ==
    /\ DOMAIN req = Requests
    /\ \A q \in Requests : RequestOK(req[q]) /\ Current(req[q], row)

CatalogInv == Tables /\ Reads

LEMMA GoesKeeps ==
    ASSUME Reads, NEW r \in Requests, NEW next, Goes(r, next), row' = row,
           RequestOK(After(r, next)), Current(After(r, next), row)
    PROVE  Reads'
BY DEF Reads, Goes

\* Only the flag of another request changes.
LEMMA Overtaken ==
    ASSUME NEW q, RequestOK(q), q.pc \notin Ended, NEW rows
    PROVE  LET e == [q EXCEPT !.alone = FALSE] IN RequestOK(e) /\ Current(e, rows)
<1> DEFINE e == [q EXCEPT !.alone = FALSE]
<1>1. DOMAIN e = DOMAIN q /\ {"pc", "alone"} \subseteq DOMAIN q
  BY DEF RequestOK, Has
<1>2. e.alone = FALSE /\ \A f \in DOMAIN q : f # "alone" => e[f] = q[f]
  BY <1>1
<1> HIDE DEF e
<1>3. e.pc = q.pc
  BY <1>1, <1>2
<1>4. EditOK(q) => EditOK(e)
  BY <1>1, <1>2 DEF EditOK, Has
<1>5. BodyOK(q) => BodyOK(e)
  BY <1>1, <1>2 DEF BodyOK, Has
<1>6. SyncOK(q) => SyncOK(e)
  BY <1>1, <1>2 DEF SyncOK, Has
<1>7. RunOK(q) => RunOK(e)
  BY <1>1, <1>2 DEF RunOK, Has
<1>8. (Has(q, {"id"}) => e.id = q.id) /\ (SyncOK(q) => e.batch = q.batch)
  BY <1>1, <1>2 DEF Has, SyncOK
<1>9. RequestOK(e)
  BY <1>1, <1>3, <1>4, <1>5, <1>6, <1>7, <1>8 DEF RequestOK, Syncs, Has
<1>10. Current(e, rows)
  BY <1>2 DEF Current
<1> QED BY <1>9, <1>10 DEF e

LEMMA WritesKeeps ==
    ASSUME Reads, NEW r \in Requests, NEW next, Writes(r, next),
           RequestOK(After(r, next)), Current(After(r, next), row')
    PROVE  Reads'
<1>1. ASSUME NEW q \in Requests PROVE RequestOK(req'[q]) /\ Current(req'[q], row')
  <2>1. CASE q = r
    BY <2>1 DEF Writes
  <2>2. CASE q # r /\ Busy(q)
    <3>1. req'[q] = [req[q] EXCEPT !.alone = FALSE]
      BY <2>2 DEF Writes
    <3>2. RequestOK(req[q]) /\ req[q].pc \notin Ended
      BY <2>2 DEF Reads, Busy
    <3> QED BY <3>1, <3>2, Overtaken
  <2>3. CASE q # r /\ ~Busy(q)
    <3>1. req'[q] = req[q]
      BY <2>3 DEF Writes
    <3>2. RequestOK(req[q]) /\ req[q].pc \in {"idle"} \cup Ended
      BY <2>3 DEF Reads, Busy
    <3>3. Current(req[q], row')
      BY <3>2 DEF Current, Ended, Edits, Syncs
    <3> QED BY <3>1, <3>2, <3>3
  <2> QED BY <2>1, <2>2, <2>3
<1>2. DOMAIN req' = Requests
  BY DEF Writes
<1> QED BY <1>1, <1>2 DEF Reads

\* Where the steps of a request take it.
LEMMA AfterEnd ==
    ASSUME NEW r, NEW next, next.pc \in Ended, Has(next, {"pc"})
    PROVE  After(r, next) = next /\ RequestOK(next) /\ \A rows : Current(next, rows)
BY DEF After, RequestOK, Current, Ended, Edits, Syncs

LEMMA AfterWrite ==
    ASSUME NEW r, RequestOK(req[r]), req[r].pc \notin Ended
    PROVE  /\ \A i \in Ids : \A rows : LET q == After(r, [pc |-> "written", id |-> i])
                                           IN  RequestOK(q) /\ Current(q, rows)
           /\ Has(req[r], {"id"}) /\ req[r].id \in Ids =>
                \A rows, d :
                   /\ LET q == After(r, [pc |-> "written"]) IN RequestOK(q) /\ Current(q, rows)
                   /\ LET q == After(r, [pc |-> "sending", doc |-> d])
                      IN  RequestOK(q) /\ q.id = req[r].id /\ q.doc = d /\ q.pc = "sending"
BY DEF After, Onto, RequestOK, Current, Ended, Edits, Syncs, Has

-----------------------------------------------------------------------------
(* Steps that only read. *)
LEMMA ReadingKeeps ==
    ASSUME CatalogInv, UNCHANGED <<row, link, grant, doc>>, NEW r \in Requests, NEW next, Goes(r, next),
           RequestOK(After(r, next)), Current(After(r, next), row)
    PROVE  CatalogInv'
<1>1. Reads'
  BY GoesKeeps DEF CatalogInv
<1>2. Tables'
  BY DEF CatalogInv, Tables, Live
<1> QED BY <1>1, <1>2 DEF CatalogInv

LEMMA FailingKeeps ==
    ASSUME CatalogInv, UNCHANGED <<row, link, grant, doc>>, NEW r \in Requests,
           Goes(r, [pc |-> "failed"]) \/ Goes(r, [pc |-> "done"])
    PROVE  CatalogInv'
<1>1. /\ [pc |-> "failed"].pc \in Ended /\ [pc |-> "done"].pc \in Ended
      /\ Has([pc |-> "failed"], {"pc"}) /\ Has([pc |-> "done"], {"pc"})
  BY DEF Ended, Has
<1> QED BY <1>1, ReadingKeeps, AfterEnd

LEMMA EditFindsKeeps ==
    ASSUME CatalogInv, NEW r \in Requests, NEW i \in Ids, NEW next,
           Has(next, {"pc"}), next.pc \in Edits, DOMAIN next \cap {"id", "was", "alone"} = {},
           next.pc = "patch" => BodyOK(next),
           FindsRow(r, i, next)
    PROVE  CatalogInv'
<1>1. UNCHANGED <<row, link, grant, doc>> /\ req[r].pc = "idle" /\ row[i] # Fresh
  BY DEF FindsRow
<1>2. CASE Refused(i)
  BY <1>1, <1>2, FailingKeeps DEF FindsRow
<1>3. CASE ~Refused(i)
  <2> DEFINE found == Onto([id |-> i, was |-> row[i]], next)
             q == After(r, found)
  <2>1. Goes(r, found)
    BY <1>3 DEF FindsRow
  <2>2. Has(req[r], {"alone"})
    BY <1>1 DEF CatalogInv, Reads, RequestOK, Ended
  <2>3. /\ Has(found, {"pc", "id", "was"}) /\ found.pc = next.pc /\ found.id = i /\ found.was = row[i]
        /\ \A f \in DOMAIN next : f \in DOMAIN found /\ found[f] = next[f]
    BY DEF Onto, Has
  <2> HIDE DEF found
  <2>4. found.pc \notin Ended
    BY <2>3 DEF Edits, Ended
  <2>5. q = Onto(found, req[r])
    BY <2>4 DEF After
  <2> HIDE DEF q
  <2>6. /\ Has(q, {"pc", "id", "was", "alone"}) /\ q.pc = next.pc /\ q.id = i /\ q.was = row[i]
        /\ \A f \in DOMAIN next : f \in DOMAIN q /\ q[f] = next[f]
    BY <2>2, <2>3, <2>5 DEF Onto, Has
  <2>7. next.pc = "patch" => BodyOK(q)
    <3> SUFFICES ASSUME next.pc = "patch" PROVE BodyOK(q)
      OBVIOUS
    <3>1. {"patch", "links"} \subseteq DOMAIN next
      BY DEF BodyOK, Has
    <3>2. q.patch = next.patch /\ q.links = next.links /\ Has(q, {"patch", "links"})
      BY <2>6, <3>1 DEF Has
    <3> QED BY <3>2 DEF BodyOK
  <2>8. Live(i) /\ row[i] \in Rows /\ row[i].app = NoApp
    BY <1>3 DEF Refused, CatalogInv, Tables
  <2>9. RequestOK(q)
    BY <2>6, <2>7, <2>8 DEF RequestOK, EditOK, Edits, Syncs, Ended, Has
  <2>10. Current(q, row)
    BY <2>6, <2>8 DEF Current, Edits, Syncs, Live, There
  <2> QED BY <1>1, <2>1, <2>9, <2>10, ReadingKeeps DEF q
<1> QED BY <1>2, <1>3

LEMMA FindsKeep ==
    ASSUME CatalogInv, NEW r \in Requests,
           PatchSkillFinds(r) \/ PatchAgentFinds(r) \/ DeleteSkillFinds(r) \/ DeleteAgentFinds(r)
    PROVE  CatalogInv'
<1>1. ASSUME NEW p \in Patches, NEW ls, NEW i \in Ids,
             ls # NoLink => \A s \in DOMAIN ls : s \in SkillIds /\ ls[s] \in Modes,
             FindsRow(r, i, [pc |-> "patch", patch |-> p, links |-> ls])
      PROVE  CatalogInv'
  <2> DEFINE next == [pc |-> "patch", patch |-> p, links |-> ls]
  <2>1. Has(next, {"pc"}) /\ next.pc \in Edits /\ DOMAIN next \cap {"id", "was", "alone"} = {}
    BY DEF Has, Edits
  <2>2. BodyOK(next)
    BY <1>1 DEF BodyOK, Has
  <2> HIDE DEF next
  <2> QED BY <1>1, <2>1, <2>2, EditFindsKeeps DEF next
<1>2. ASSUME NEW i \in Ids, FindsRow(r, i, [pc |-> "delete"])
      PROVE  CatalogInv'
  <2> DEFINE next == [pc |-> "delete"]
  <2>1. /\ Has(next, {"pc"}) /\ next.pc \in Edits /\ DOMAIN next \cap {"id", "was", "alone"} = {}
        /\ next.pc # "patch"
    BY DEF Has, Edits
  <2> HIDE DEF next
  <2> QED BY <1>2, <2>1, EditFindsKeeps DEF next
<1>3. CASE PatchSkillFinds(r)
  BY <1>1, <1>3 DEF PatchSkillFinds, Ids
<1>4. CASE PatchAgentFinds(r)
  <2>1. PICK a \in AgentIds, p \in Patches,
             ls \in {NoLink} \cup UNION {[ss -> Modes] : ss \in SUBSET SkillIds} :
               FindsRow(r, a, [pc |-> "patch", patch |-> p, links |-> ls])
    BY <1>4 DEF PatchAgentFinds
  <2>2. ls # NoLink => \A s \in DOMAIN ls : s \in SkillIds /\ ls[s] \in Modes
    OBVIOUS
  <2> QED BY <1>1, <2>1, <2>2 DEF Ids
<1> QED BY <1>2, <1>3, <1>4 DEF DeleteSkillFinds, DeleteAgentFinds, Ids

LEMMA SyncFindsKeeps ==
    ASSUME CatalogInv, NEW r \in Requests, NEW kind, SyncFinds(r, kind)
    PROVE  CatalogInv'
<1>1. UNCHANGED <<row, link, grant, doc>> /\ req[r].pc = "idle"
  BY DEF SyncFinds
<1>2. PICK b \in Batches :
         IF Conflict(b) THEN Goes(r, [pc |-> "failed"])
         ELSE \E f \in ByName(b.kind, NamesOf(b)) :
                Goes(r, [pc |-> "sync", batch |-> b, found |-> f,
                         was |-> [i \in Range(f) |-> row[i]],
                         had |-> [l \in {k \in Links : k[1] \in Range(f)} |-> link[l]]])
  BY DEF SyncFinds
<1>3. CASE Conflict(b)
  BY <1>1, <1>2, <1>3, FailingKeeps
<1>4. CASE ~Conflict(b)
  <2>0. PICK f \in ByName(b.kind, NamesOf(b)) :
           Goes(r, [pc |-> "sync", batch |-> b, found |-> f,
                    was |-> [i \in Range(f) |-> row[i]],
                    had |-> [l \in {k \in Links : k[1] \in Range(f)} |-> link[l]]])
    BY <1>2, <1>4
  <2> DEFINE was == [i \in Range(f) |-> row[i]]
             had == [l \in {k \in Links : k[1] \in Range(f)} |-> link[l]]
  <2>1. /\ Goes(r, [pc |-> "sync", batch |-> b, found |-> f, was |-> was, had |-> had])
        /\ \A i \in Range(f) : was[i] = row[i]
    BY <2>0
  <2> HIDE DEF was, had
  <2> DEFINE q == Onto([pc |-> "sync", batch |-> b, found |-> f, was |-> was, had |-> had], req[r])
  <2>2. Has(req[r], {"alone"})
    BY <1>1 DEF CatalogInv, Reads, RequestOK, Ended
  <2>3. /\ q.pc = "sync" /\ q.batch = b /\ q.found = f /\ q.was = was
        /\ Has(q, {"pc", "alone", "batch", "found", "was", "had"})
    BY <2>2 DEF Onto, Has
  <2>4. After(r, [pc |-> "sync", batch |-> b, found |-> f, was |-> was, had |-> had]) = q
    BY DEF After, Ended
  <2> HIDE DEF q
  <2>5. /\ DOMAIN f = NamesOf(b)
        /\ \A n \in DOMAIN f : /\ f[n] \in IdsOf(b.kind) /\ Live(f[n])
                               /\ row[f[n]].name = n /\ row[f[n]].owner = Owner
    BY DEF ByName
  <2>6. NamesOf(b) \subseteq DOMAIN b.items
    BY DEF NamesOf, Hits
  <2>7. ASSUME NEW i \in Range(f)
        PROVE  /\ i \in Ids /\ was[i] = row[i] /\ row[i] \in Rows /\ row[i].name \in DOMAIN b.items
               /\ row[i].app \in {NoApp, b.app}
    <3>1. PICK n \in DOMAIN f : i = f[n]
      BY DEF Range
    <3>2. i \in IdsOf(b.kind) /\ i \in Ids
      BY <2>5, <3>1 DEF IdsOf, Ids
    <3>3. i \in Hits(b)
      BY <2>5, <2>6, <3>1, <3>2 DEF Hits
    <3>4. row[i].app \in {NoApp, b.app}
      BY <1>4, <3>3 DEF Conflict
    <3> QED BY <2>1, <2>5, <2>6, <3>1, <3>2, <3>4 DEF CatalogInv, Tables
  <2>8. SyncOK(q)
    BY <2>3, <2>5, <2>6, <2>7 DEF SyncOK, Has
  <2>9. RequestOK(q)
    BY <2>3, <2>8 DEF RequestOK, Edits, Syncs, Ended, Has
  <2>10. Current(q, row)
    BY <2>3, <2>7 DEF Current, Edits, Syncs
  <2> QED BY <1>1, <2>1, <2>4, <2>9, <2>10, ReadingKeeps
<1> QED BY <1>3, <1>4

LEMMA ResolvesKeeps ==
    ASSUME CatalogInv, NEW r \in Requests, SyncAgentsResolves(r)
    PROVE  CatalogInv'
<1>1. /\ UNCHANGED <<row, link, grant, doc>>
      /\ req[r].pc = "sync" /\ req[r].batch.kind = "agent"
  BY DEF SyncAgentsResolves
<1>2. PICK f : Goes(r, [pc |-> "resolved", skill |-> f])
  BY DEF SyncAgentsResolves
<1> DEFINE q == Onto([pc |-> "resolved", skill |-> f], req[r])
<1>3. After(r, [pc |-> "resolved", skill |-> f]) = q
  BY DEF After, Ended
<1>4. RequestOK(req[r]) /\ Current(req[r], row) /\ SyncOK(req[r]) /\ Has(req[r], {"alone"})
  BY <1>1 DEF CatalogInv, Reads, RequestOK, Syncs, Ended
<1>5. /\ q.pc = "resolved" /\ Has(q, {"pc", "skill", "alone", "batch", "found", "was", "had"})
      /\ q.batch = req[r].batch /\ q.found = req[r].found /\ q.was = req[r].was
      /\ q.alone = req[r].alone
  BY <1>4 DEF Onto, Has, SyncOK
<1> HIDE DEF q
<1>6. SyncOK(q)
  BY <1>4, <1>5 DEF SyncOK, Has
<1>7. RequestOK(q)
  BY <1>1, <1>5, <1>6 DEF RequestOK, Edits, Syncs, Ended, Has
<1>8. Current(q, row)
  BY <1>1, <1>4, <1>5 DEF Current, Edits, Syncs
<1> QED BY <1>1, <1>2, <1>3, <1>7, <1>8, ReadingKeeps

LEMMA ReadsBackKeeps ==
    ASSUME CatalogInv, NEW r \in Requests, ReadsBack(r)
    PROVE  CatalogInv'
<1>1. /\ UNCHANGED <<row, link, grant, doc>> /\ req[r].pc = "written"
      /\ RequestOK(req[r]) /\ Has(req[r], {"id"}) /\ req[r].id \in Ids
  BY DEF ReadsBack, CatalogInv, Reads, RequestOK
<1>2. CASE Live(req[r].id)
  <2> DEFINE d == Doc(row[req[r].id])
             q == After(r, [pc |-> "sending", doc |-> d])
  <2>1. Goes(r, [pc |-> "sending", doc |-> d])
    BY <1>2 DEF ReadsBack
  <2> HIDE DEF d
  <2>2. RequestOK(q) /\ q.id = req[r].id /\ q.doc = d /\ q.pc = "sending"
    BY <1>1, AfterWrite DEF Ended
  <2> HIDE DEF q
  <2>3. Current(q, row)
    BY <1>2, <2>2 DEF Current, Edits, Syncs, d, Live, There
  <2> QED BY <1>1, <2>1, <2>2, <2>3, ReadingKeeps DEF q
<1>3. CASE ~Live(req[r].id)
  BY <1>1, <1>3, FailingKeeps DEF ReadsBack
<1> QED BY <1>2, <1>3

LEMMA RunKeeps ==
    ASSUME CatalogInv, NEW r \in Requests, RunFinds(r) \/ RunBills(r)
    PROVE  CatalogInv'
<1>1. UNCHANGED <<row, link, grant, doc>>
  BY DEF RunFinds, RunBills
<1>2. CASE RunFinds(r)
  <2>1. req[r].pc = "idle" /\ Has(req[r], {"alone"})
    BY <1>2 DEF RunFinds, CatalogInv, Reads, RequestOK, Ended
  <2>2. PICK a \in AgentIds, c \in {Owner, Guest} :
           Visible(a, c) /\ Goes(r, [pc |-> "run", id |-> a, by |-> c, agent |-> row[a]])
    BY <1>2 DEF RunFinds
  <2> DEFINE q == Onto([pc |-> "run", id |-> a, by |-> c, agent |-> row[a]], req[r])
  <2>3. /\ q.pc = "run" /\ q.id = a /\ q.by = c /\ q.agent = row[a]
        /\ Has(q, {"pc", "alone", "id", "by", "agent"})
    BY <2>1 DEF Onto, Has
  <2>4. After(r, [pc |-> "run", id |-> a, by |-> c, agent |-> row[a]]) = q
    BY DEF After, Ended
  <2> HIDE DEF q
  <2>5. a \in Ids /\ Live(a) /\ row[a] \in Rows /\ CheckConstraint(row[a])
    BY <2>2 DEF Visible, Ids, CatalogInv, Tables
  <2>6. RequestOK(q)
    BY <2>3, <2>5 DEF RequestOK, RunOK, Edits, Syncs, Ended, Has
  <2>7. Current(q, row)
    BY <2>3 DEF Current, Edits, Syncs
  <2> QED BY <1>1, <2>2, <2>4, <2>6, <2>7, ReadingKeeps
<1>3. CASE RunBills(r)
  <2>1. PICK p : Goes(r, [pc |-> "done", payer |-> p])
    BY <1>3 DEF RunBills
  <2>2. [pc |-> "done", payer |-> p].pc \in Ended /\ Has([pc |-> "done", payer |-> p], {"pc"})
    BY DEF Ended, Has
  <2> QED BY <1>1, <2>1, <2>2, ReadingKeeps, AfterEnd
<1> QED BY <1>2, <1>3

-----------------------------------------------------------------------------
(* Steps that write. *)
LEMMA RowsKept ==
    ASSUME Tables, DOMAIN row' = Ids,
           \A i \in Ids : row'[i] = row[i] \/ (row'[i] \in Rows /\ CheckConstraint(row'[i]))
    PROVE  /\ \A i \in Ids : Live(i)' => row'[i] \in Rows /\ CheckConstraint(row'[i])
           /\ \A i \in Ids : Live(i) \/ row'[i] \in Rows => Live(i)'
<1>1. \A x \in Rows : x \notin {Fresh, Deleted}
  BY CatalogAssumption
<1> QED BY <1>1 DEF Tables, Live

LEMMA PostKeeps ==
    ASSUME CatalogInv, NEW r \in Requests, PostSkill(r) \/ PostAgent(r)
    PROVE  CatalogInv'
<1>1. req[r].pc = "idle" /\ Tables /\ Reads /\ RequestOK(req[r]) /\ req[r].pc \notin Ended
      /\ UNCHANGED <<grant, doc>>
  BY DEF PostSkill, PostAgent, CatalogInv, Reads, Ended
<1>2. ASSUME NEW i \in Ids, Writes(r, [pc |-> "written", id |-> i]) PROVE Reads'
  BY <1>1, <1>2, AfterWrite, WritesKeeps
<1>a. ASSUME NEW x \in Posts PROVE x.name \in STRING /\ x.val \in Vals /\ x.scope \in Scopes
  <2>1. x \in [name : STRING, val : Vals, scope : Scopes]
    BY CatalogAssumption
  <2> QED BY <2>1
<1>b. NoApp \in Apps /\ "company" \in Scopes
  BY DEF Apps, Scopes
<1>3. CASE PostSkill(r)
  <2>1. PICK s \in SkillIds, p \in Posts :
           /\ row' = [row EXCEPT ![s] = SkillRow(p.name, p.val, NoApp)]
           /\ Writes(r, [pc |-> "written", id |-> s])
    BY <1>3 DEF PostSkill
  <2>2. SkillRow(p.name, p.val, NoApp) \in Rows /\ CheckConstraint(SkillRow(p.name, p.val, NoApp))
    BY <1>a, <1>b, NewRow DEF SkillRow
  <2>3. /\ DOMAIN row' = Ids
        /\ \A i \in Ids : row'[i] = row[i] \/ (row'[i] \in Rows /\ CheckConstraint(row'[i]))
    BY <1>1, <2>1, <2>2 DEF Tables
  <2>4. link' = link
    BY <1>3 DEF PostSkill
  <2>5. Tables'
    BY <1>1, <2>3, <2>4, RowsKept DEF Tables, Links, Ids
  <2> QED BY <1>2, <2>1, <2>5 DEF CatalogInv, Ids
<1>4. CASE PostAgent(r)
  <2>1. PICK a \in AgentIds, p \in Posts, ss \in SUBSET SkillIds, m \in Modes :
           /\ \A s \in ss : Live(s)
           /\ row' = [row EXCEPT ![a] = Row(p.name, p.val, NoApp, p.scope)]
           /\ link' = [l \in Links |-> IF l[1] = a /\ l[2] \in ss THEN m ELSE link[l]]
           /\ Writes(r, [pc |-> "written", id |-> a])
    BY <1>4 DEF PostAgent
  <2>2. /\ Row(p.name, p.val, NoApp, p.scope) \in Rows
        /\ CheckConstraint(Row(p.name, p.val, NoApp, p.scope))
    BY <1>a, <1>b, NewRow
  <2>3. /\ DOMAIN row' = Ids /\ row'[a] \in Rows /\ a \in Ids
        /\ \A i \in Ids : row'[i] = row[i] \/ (row'[i] \in Rows /\ CheckConstraint(row'[i]))
    BY <1>1, <2>1, <2>2 DEF Tables, Ids
  <2>4. \A i \in Ids : Live(i) \/ i = a => Live(i)'
    BY <1>1, <2>3, RowsKept
  <2>5. \A l \in Links : link'[l] # NoLink => link'[l] \in Modes /\ Live(l[1])' /\ Live(l[2])'
    BY <1>1, <2>1, <2>4 DEF Tables, Links, Ids
  <2>6. Tables'
    BY <1>1, <2>3, <2>4, <2>5, RowsKept DEF Tables, Ids
  <2> QED BY <1>2, <2>1, <2>6 DEF CatalogInv, Ids
<1> QED BY <1>3, <1>4

LEMMA PatchKeeps ==
    ASSUME CatalogInv, NEW r \in Requests, NEW ids, PatchCommits(r, ids)
    PROVE  CatalogInv'
<1> DEFINE i == req[r].id
           ls == req[r].links
           set == Net(req[r].was, req[r].patch)
<1>1. /\ req[r].pc = "patch"
      /\ DOMAIN set # {} => Live(i) /\ CheckConstraint(Onto(set, row[i]))
      /\ ls # NoLink => Live(i) /\ \A s \in DOMAIN ls : Live(s)
      /\ row' = IF DOMAIN set = {} THEN row ELSE [row EXCEPT ![i] = Onto(set, @)]
      /\ link' = [l \in Links |-> IF ls = NoLink \/ l[1] # i THEN link[l]
                                  ELSE IF l[2] \in DOMAIN ls THEN ls[l[2]] ELSE NoLink]
      /\ Writes(r, [pc |-> "written"])
      /\ UNCHANGED <<grant, doc>>
  BY DEF PatchCommits
<1>2. Tables /\ Reads /\ RequestOK(req[r]) /\ EditOK(req[r]) /\ BodyOK(req[r])
  BY <1>1 DEF CatalogInv, Reads, RequestOK, Edits
<1>3. i \in Ids /\ Has(req[r], {"id"}) /\ req[r].patch \in Patches
      /\ (ls # NoLink => \A s \in DOMAIN ls : s \in SkillIds /\ ls[s] \in Modes)
  BY <1>2 DEF EditOK, BodyOK, Has
<1>4. ColumnsOK(set)
  <2>1. /\ DOMAIN set \subseteq DOMAIN req[r].patch
        /\ \A f \in DOMAIN set : set[f] = req[r].patch[f]
    BY DEF Net
  <2> HIDE DEF set
  <2>2. /\ DOMAIN req[r].patch \subseteq {"name", "val", "scope"}
        /\ "name" \in DOMAIN req[r].patch => req[r].patch.name \in STRING
        /\ "val" \in DOMAIN req[r].patch => req[r].patch.val \in Vals
        /\ "scope" \in DOMAIN req[r].patch => req[r].patch.scope \in Scopes
    BY <1>3, CatalogAssumption
  <2> QED BY <2>1, <2>2 DEF ColumnsOK
<1>5. Reads'
  <2>1. req[r].pc \notin Ended
    BY <1>1 DEF Ended
  <2> QED BY <1>1, <1>2, <1>3, <2>1, AfterWrite, WritesKeeps
<1> HIDE DEF i, ls, set
<1>6. /\ DOMAIN row' = Ids
      /\ \A j \in Ids : row'[j] = row[j] \/ (row'[j] \in Rows /\ CheckConstraint(row'[j]))
  <2>1. CASE DOMAIN set = {}
    BY <1>1, <1>2, <2>1 DEF Tables
  <2>2. CASE DOMAIN set # {}
    <3>1. row[i] \in Rows /\ CheckConstraint(Onto(set, row[i]))
      BY <1>1, <1>2, <1>3, <2>2 DEF Tables
    <3>2. Onto(set, row[i]) \in Rows
      BY <1>4, <3>1, ChangedRow
    <3>3. row' = [row EXCEPT ![i] = Onto(set, row[i])]
      BY <1>1, <2>2
    <3> QED BY <1>2, <1>3, <3>1, <3>2, <3>3 DEF Tables
  <2> QED BY <2>1, <2>2
<1>7. \A j \in Ids : Live(j) => Live(j)'
  BY <1>2, <1>6, RowsKept
<1>8. \A l \in Links : link'[l] # NoLink => link'[l] \in Modes /\ Live(l[1])' /\ Live(l[2])'
  BY <1>1, <1>2, <1>3, <1>7 DEF Tables, Links, Ids
<1>9. Tables'
  BY <1>1, <1>2, <1>6, <1>7, <1>8, RowsKept DEF Tables, Ids
<1> QED BY <1>5, <1>9 DEF CatalogInv

LEMMA DeleteKeeps ==
    ASSUME CatalogInv, NEW r \in Requests, NEW ids, DeleteCommits(r, ids)
    PROVE  CatalogInv'
<1> DEFINE i == req[r].id
           next == [pc |-> "sending", doc |-> Deleted]
<1>1. /\ req[r].pc = "delete"
      /\ row' = [row EXCEPT ![i] = Deleted]
      /\ link' = [l \in Links |-> IF i \in {l[1], l[2]} THEN NoLink ELSE link[l]]
      /\ grant' = [a \in AgentIds |-> IF a = i THEN "none" ELSE grant[a]]
      /\ Writes(r, next) /\ doc' = doc
  BY DEF DeleteCommits
<1>2. Tables /\ Reads /\ RequestOK(req[r]) /\ i \in Ids /\ Has(req[r], {"id"})
  BY <1>1 DEF CatalogInv, Reads, RequestOK, Edits, EditOK, Has
<1>3. Reads'
  <2> DEFINE q == After(r, next)
  <2>1. RequestOK(q) /\ q.id = i /\ q.doc = Deleted /\ q.pc = "sending"
    BY <1>1, <1>2, AfterWrite DEF Ended
  <2>2. row'[i] = Deleted
    BY <1>1, <1>2 DEF Tables
  <2> HIDE DEF q
  <2>3. Current(q, row')
    BY <2>1, <2>2 DEF Current, Edits, Syncs, There
  <2> QED BY <1>1, <1>2, <2>1, <2>3, WritesKeeps DEF q
<1> HIDE DEF i
<1>4. \A j \in Ids : j # i => row'[j] = row[j] /\ (Live(j) <=> Live(j)')
  BY <1>1 DEF Live
<1>5. row'[i] = Deleted /\ DOMAIN row' = Ids
  BY <1>1, <1>2 DEF Tables
<1>6. Tables'
  BY <1>1, <1>2, <1>4, <1>5 DEF Tables, Live, Links, Ids
<1> QED BY <1>3, <1>6 DEF CatalogInv

LEMMA DocKeeps ==
    ASSUME CatalogInv, NEW r \in Requests, DocArrives(r)
    PROVE  CatalogInv'
<1>1. /\ Writes(r, [pc |-> "done"]) /\ UNCHANGED <<row, link, grant>>
      /\ doc' = [doc EXCEPT ![req[r].id] = req[r].doc]
  BY DEF DocArrives
<1>2. [pc |-> "done"].pc \in Ended /\ Has([pc |-> "done"], {"pc"})
  BY DEF Ended, Has
<1>3. Reads'
  BY <1>1, <1>2, AfterEnd, WritesKeeps DEF CatalogInv
<1>4. Tables'
  BY <1>1 DEF CatalogInv, Tables, Live
<1> QED BY <1>3, <1>4 DEF CatalogInv

-----------------------------------------------------------------------------
(* The commit of a sync. *)
LEMMA UpsertedRows ==
    ASSUME Tables, NEW r \in Requests, SyncOK(req[r]), StillThere(r),
           NEW ids \in NewIds(r), row' = Upserted(r, ids)
    PROVE  /\ DOMAIN row' = Ids
           /\ \A i \in Ids : row'[i] = row[i] \/ (row'[i] \in Rows /\ CheckConstraint(row'[i]))
           /\ \A i \in Ids : row'[i] # row[i] => i \in Range(req[r].found) \/ row[i] = Fresh
           /\ DOMAIN ids = DOMAIN req[r].batch.items \ DOMAIN req[r].found
           /\ \A n \in DOMAIN ids : ids[n] \in Ids /\ row'[ids[n]] \in Rows
<1> DEFINE q == req[r]
           b == q.batch
           Change(i) == Diff(q.was[i], b.items[q.was[i].name], b.app)
           Name(i) == CHOOSE n \in DOMAIN ids : ids[n] = i
<1>1. /\ DOMAIN row' = Ids
      /\ \A i \in Ids :
           row'[i] = IF i \in Range(q.found) /\ DOMAIN Change(i) # {} THEN Onto(Change(i), row[i])
                     ELSE IF i \in Range(ids) THEN Row(Name(i), b.items[Name(i)].val, b.app, "company")
                     ELSE row[i]
  <2> DEFINE change == [i \in Range(q.found) |-> Diff(q.was[i], b.items[q.was[i].name], b.app)]
  <2>1. \A i \in Range(q.found) : change[i] = Change(i)
    OBVIOUS
  <2>2. row' = [i \in Ids |->
           IF i \in Range(q.found) /\ DOMAIN change[i] # {} THEN Onto(change[i], row[i])
           ELSE IF i \in Range(ids)
                THEN Row(Name(i), b.items[Name(i)].val, b.app, "company")
                ELSE row[i]]
    BY DEF Upserted
  <2> HIDE DEF change, Change, Name, b
  <2> QED BY <2>1, <2>2
<1>2. /\ b \in Batches /\ b.app \in Apps
      /\ \A n \in DOMAIN b.items : n \in STRING /\ b.items[n].val \in Vals
  BY CatalogAssumption DEF SyncOK, Apps
<1>3. /\ DOMAIN ids = DOMAIN b.items \ DOMAIN q.found
      /\ \A n \in DOMAIN ids : ids[n] \in IdsOf(b.kind) /\ row[ids[n]] = Fresh
  BY DEF NewIds, Injection
<1>4. \A n \in DOMAIN ids : ids[n] \in Ids
  BY <1>3 DEF IdsOf, Ids
<1>5. ASSUME NEW i \in Ids, i \in Range(q.found), DOMAIN Change(i) # {}
      PROVE  /\ Live(i) /\ Onto(Change(i), row[i]) \in Rows
             /\ CheckConstraint(Onto(Change(i), row[i]))
  <2>1. Live(i)
    BY <1>5 DEF StillThere
  <2>2. q.was[i].name \in DOMAIN b.items
    BY <1>5 DEF SyncOK
  <2> DEFINE to == [val |-> b.items[q.was[i].name].val, app |-> b.app]
             c == Change(i)
  <2>3. /\ DOMAIN c \subseteq {"val", "app"}
        /\ \A f \in DOMAIN c : c[f] = to[f]
    BY DEF Diff, Net
  <2>4. to.val \in Vals /\ to.app \in Apps
    BY <1>2, <2>2
  <2> HIDE DEF c, to, Change
  <2>5. ColumnsOK(c)
    BY <2>3, <2>4 DEF ColumnsOK
  <2>6. row[i] \in Rows /\ CheckConstraint(row[i])
    BY <2>1 DEF Tables
  <2>7. DOMAIN row[i] = {"name", "val", "app", "scope", "owner"}
    BY <2>6 DEF Rows
  <2>8. Onto(c, row[i]).scope = row[i].scope /\ Onto(c, row[i]).owner = row[i].owner
    BY <2>3, <2>7 DEF Onto
  <2> QED BY <2>1, <2>5, <2>6, <2>8, ChangedRow DEF CheckConstraint, c
<1>6. ASSUME NEW i \in Range(ids)
      PROVE  /\ row[i] = Fresh
             /\ Row(Name(i), b.items[Name(i)].val, b.app, "company") \in Rows
             /\ CheckConstraint(Row(Name(i), b.items[Name(i)].val, b.app, "company"))
  <2>1. PICK n \in DOMAIN ids : ids[n] = i
    BY DEF Range
  <2>2. Name(i) \in DOMAIN ids /\ ids[Name(i)] = i
    BY <2>1
  <2> HIDE DEF Name
  <2>3. Name(i) \in DOMAIN b.items
    BY <1>3, <2>2
  <2>4. "company" \in Scopes
    BY DEF Scopes
  <2> QED BY <1>2, <1>3, <2>2, <2>3, <2>4, NewRow
<1> HIDE DEF Change, Name, b, q
<1>7. \A i \in Ids : row'[i] = row[i] \/ (row'[i] \in Rows /\ CheckConstraint(row'[i]))
  BY <1>1, <1>5, <1>6
<1>8. \A i \in Ids : row'[i] # row[i] => i \in Range(q.found) \/ row[i] = Fresh
  BY <1>1, <1>6
<1>9. ASSUME NEW n \in DOMAIN ids PROVE row'[ids[n]] \in Rows
  <2>1. ids[n] \in Range(ids) /\ ids[n] \in Ids /\ row[ids[n]] = Fresh
    BY <1>3, <1>4 DEF Range
  <2>2. ~Live(ids[n])
    BY <2>1 DEF Live
  <2>3. ~(ids[n] \in Range(q.found) /\ DOMAIN Change(ids[n]) # {})
    BY <1>5, <2>1, <2>2
  <2> QED BY <1>1, <1>6, <2>1, <2>3
<1> QED BY <1>1, <1>3, <1>4, <1>7, <1>8, <1>9 DEF q, b

LEMMA SyncSkillsKeeps ==
    ASSUME CatalogInv, NEW r \in Requests, SyncSkillsCommits(r)
    PROVE  CatalogInv'
<1>1. /\ req[r].pc = "sync" /\ StillThere(r) /\ Writes(r, [pc |-> "done"])
      /\ UNCHANGED <<link, grant, doc>>
  BY DEF SyncSkillsCommits
<1>2. PICK ids \in NewIds(r) : row' = Upserted(r, ids)
  BY DEF SyncSkillsCommits
<1>3. Tables /\ Reads /\ SyncOK(req[r])
  BY <1>1 DEF CatalogInv, Reads, RequestOK, Syncs
<1>4. /\ DOMAIN row' = Ids
      /\ \A i \in Ids : row'[i] = row[i] \/ (row'[i] \in Rows /\ CheckConstraint(row'[i]))
  BY <1>1, <1>2, <1>3, UpsertedRows
<1>5. Tables'
  BY <1>1, <1>3, <1>4, RowsKept DEF Tables, Links, Ids
<1>6. [pc |-> "done"].pc \in Ended /\ Has([pc |-> "done"], {"pc"})
  BY DEF Ended, Has
<1>7. Reads'
  BY <1>1, <1>3, <1>6, AfterEnd, WritesKeeps
<1> QED BY <1>5, <1>7 DEF CatalogInv

\* What an item asks for is a mode, or none.
LEMMA AskedModes ==
    ASSUME NEW q, SyncOK(q), q.batch.kind = "agent", NEW n \in DOMAIN q.batch.items,
           NEW s \in DOMAIN Asked(q, n)
    PROVE  ModeOf(Asked(q, n)[s]) \in Modes
<1> DEFINE w == q.batch.items[n].wants
           names == DOMAIN w \cap DOMAIN q.skill
           Skill(m) == q.skill[m]
<1>1. Asked(q, n) = [t \in {Skill(m) : m \in names} |-> w[CHOOSE m \in names : Skill(m) = t]]
  BY DEF Asked
<1>2. \A m \in DOMAIN w : w[m] \in Modes \cup {Plain}
  BY CatalogAssumption DEF SyncOK
<1> HIDE DEF w, Skill
<1>3. PICK m \in names : Skill(m) = s
  BY <1>1
<1>4. (CHOOSE k \in names : Skill(k) = s) \in DOMAIN w
  BY <1>3
<1>5. Asked(q, n)[s] \in Modes \cup {Plain}
  BY <1>1, <1>2, <1>4
<1> QED BY <1>5, CatalogAssumption DEF ModeOf

LEMMA SyncAgentsKeeps ==
    ASSUME CatalogInv, NEW r \in Requests, SyncAgentsCommits(r)
    PROVE  CatalogInv'
<1> DEFINE q == req[r]
<1>1. q.pc = "resolved" /\ StillThere(r) /\ Writes(r, [pc |-> "done"]) /\ UNCHANGED <<grant, doc>>
  BY DEF SyncAgentsCommits
<1>2. Tables /\ Reads /\ SyncOK(q) /\ q.batch.kind = "agent"
  BY <1>1 DEF CatalogInv, Reads, RequestOK, Syncs
<1>3. PICK ids \in NewIds(r) :
         LET of == Onto(ids, q.found)
             names == Relinked(q, of)
         IN  /\ \A n \in names : (n \in DOMAIN q.found => Live(of[n])) /\ \A s \in DOMAIN Asked(q, n) : Live(s)
             /\ row' = Upserted(r, ids)
             /\ link' = [l \in Links |->
                   IF \E n \in names : of[n] = l[1]
                   THEN LET n == CHOOSE m \in names : of[m] = l[1] IN
                        IF l[2] \in DOMAIN Asked(q, n) THEN ModeOf(Asked(q, n)[l[2]])
                        ELSE IF n \in DOMAIN q.found /\ q.had[l] = NoLink THEN link[l]
                        ELSE NoLink
                   ELSE link[l]]
  BY DEF SyncAgentsCommits
<1> DEFINE of == Onto(ids, q.found)
           names == Relinked(q, of)
           Named(a) == CHOOSE m \in names : of[m] = a
<1>4. /\ DOMAIN row' = Ids
      /\ \A i \in Ids : row'[i] = row[i] \/ (row'[i] \in Rows /\ CheckConstraint(row'[i]))
      /\ DOMAIN ids = DOMAIN q.batch.items \ DOMAIN q.found
      /\ \A n \in DOMAIN ids : ids[n] \in Ids /\ row'[ids[n]] \in Rows
  BY <1>1, <1>2, <1>3, UpsertedRows
<1>5. \A i \in Ids : Live(i) \/ row'[i] \in Rows => Live(i)'
  BY <1>2, <1>4, RowsKept
<1>6. /\ DOMAIN of = DOMAIN ids \cup DOMAIN q.found
      /\ \A n \in DOMAIN ids : of[n] = ids[n]
      /\ names \subseteq DOMAIN of /\ DOMAIN of \subseteq DOMAIN q.batch.items
  <2>1. DOMAIN of = DOMAIN ids \cup DOMAIN q.found /\ \A n \in DOMAIN ids : of[n] = ids[n]
    BY OntoIs
  <2>2. names \subseteq DOMAIN of
    <3> HIDE DEF of
    <3> QED BY DEF Relinked
  <2> HIDE DEF of, names
  <2> QED BY <1>2, <1>4, <2>1, <2>2 DEF SyncOK
<1>7. \A n \in names : /\ n \in DOMAIN q.found => Live(of[n])
                       /\ \A s \in DOMAIN Asked(q, n) : Live(s)
  BY <1>3
<1>8. \A l \in Links :
         link'[l] = IF \E n \in names : of[n] = l[1]
                    THEN IF l[2] \in DOMAIN Asked(q, Named(l[1])) THEN ModeOf(Asked(q, Named(l[1]))[l[2]])
                         ELSE IF Named(l[1]) \in DOMAIN q.found /\ q.had[l] = NoLink THEN link[l]
                         ELSE NoLink
                    ELSE link[l]
  BY <1>3
<1>9. ASSUME NEW a, \E n \in names : of[n] = a PROVE Named(a) \in names /\ of[Named(a)] = a
  BY <1>9
<1> HIDE DEF q, of, names, Named
<1>10. ASSUME NEW l \in Links, link'[l] # NoLink
       PROVE  link'[l] \in Modes /\ Live(l[1])' /\ Live(l[2])'
  <2>0. l[1] \in Ids /\ l[2] \in Ids
    BY DEF Links, Ids
  <2>1. CASE link'[l] = link[l]
    BY <1>2, <1>5, <1>10, <2>0, <2>1 DEF Tables
  <2>2. CASE link'[l] # link[l]
    <3> DEFINE n == Named(l[1])
    <3>1. /\ \E m \in names : of[m] = l[1]
          /\ l[2] \in DOMAIN Asked(q, n) /\ link'[l] = ModeOf(Asked(q, n)[l[2]])
      BY <1>8, <1>10, <2>2
    <3>2. n \in names /\ of[n] = l[1]
      BY <1>9, <3>1
    <3> HIDE DEF n
    <3>3. n \in DOMAIN q.batch.items /\ (n \in DOMAIN q.found \/ n \in DOMAIN ids)
      BY <1>6, <3>2
    <3>4. link'[l] \in Modes
      BY <1>2, <3>1, <3>3, AskedModes
    <3>5. Live(l[2])'
      BY <1>5, <1>7, <2>0, <3>1, <3>2
    <3>6. Live(l[1])'
      BY <1>4, <1>5, <1>6, <1>7, <2>0, <3>2, <3>3
    <3> QED BY <3>4, <3>5, <3>6
  <2> QED BY <2>1, <2>2
<1>11. Tables'
  BY <1>1, <1>2, <1>4, <1>5, <1>10, RowsKept DEF Tables, Ids
<1>12. [pc |-> "done"].pc \in Ended /\ Has([pc |-> "done"], {"pc"})
  BY DEF Ended, Has
<1>13. Reads'
  BY <1>1, <1>2, <1>12, AfterEnd, WritesKeeps
<1> QED BY <1>11, <1>13 DEF CatalogInv

-----------------------------------------------------------------------------
\* CatalogInv holds at the start, and every step keeps it.
LEMMA CatalogStarts == CatalogInit => CatalogInv
<1> SUFFICES ASSUME CatalogInit PROVE CatalogInv
  OBVIOUS
<1>1. PICK c \in Starts : /\ row = Onto(c.rows, [i \in Ids |-> Fresh])
                          /\ link = Onto(c.links, [l \in Links |-> NoLink])
  BY DEF CatalogInit
<1>2. /\ DOMAIN c.rows \subseteq Ids /\ DOMAIN c.links \subseteq Links
      /\ \A i \in DOMAIN c.rows : c.rows[i] \in Rows /\ CheckConstraint(c.rows[i])
      /\ \A l \in DOMAIN c.links : c.links[l] \in Modes /\ {l[1], l[2]} \subseteq DOMAIN c.rows
  BY CatalogAssumption
<1> DEFINE none == [i \in Ids |-> Fresh]
           unlinked == [l \in Links |-> NoLink]
<1>3. /\ DOMAIN none = Ids /\ \A i \in Ids : none[i] = Fresh
      /\ DOMAIN unlinked = Links /\ \A l \in Links : unlinked[l] = NoLink
  OBVIOUS
<1> HIDE DEF none, unlinked
<1>4. /\ DOMAIN row = Ids
      /\ \A i \in Ids : IF i \in DOMAIN c.rows THEN row[i] = c.rows[i] ELSE row[i] = Fresh
      /\ \A l \in Links : IF l \in DOMAIN c.links THEN link[l] = c.links[l] ELSE link[l] = NoLink
  <2>1. row = Onto(c.rows, none) /\ link = Onto(c.links, unlinked)
    BY <1>1 DEF none, unlinked
  <2>2. ASSUME NEW f, NEW g, NEW S, DOMAIN f \subseteq S, DOMAIN g = S, NEW v, \A x \in S : g[x] = v
        PROVE  /\ DOMAIN Onto(f, g) = S
               /\ \A x \in S : IF x \in DOMAIN f THEN Onto(f, g)[x] = f[x] ELSE Onto(f, g)[x] = v
    BY <2>2 DEF Onto
  <2>3. /\ DOMAIN row = Ids
        /\ \A i \in Ids : IF i \in DOMAIN c.rows THEN row[i] = c.rows[i] ELSE row[i] = Fresh
    BY <1>2, <1>3, <2>1, <2>2
  <2>4. \A l \in Links : IF l \in DOMAIN c.links THEN link[l] = c.links[l] ELSE link[l] = NoLink
    BY <1>2, <1>3, <2>1, <2>2
  <2> QED BY <2>3, <2>4
<1>5. \A i \in Ids : Live(i) <=> i \in DOMAIN c.rows
  <2>1. \A x \in Rows : x \notin {Fresh, Deleted}
    BY CatalogAssumption
  <2> QED BY <1>2, <1>4, <2>1 DEF Live
<1>6. Tables
  BY <1>2, <1>4, <1>5 DEF CatalogInit, Tables, Links, Ids
<1>7. /\ Has(Idle, {"pc", "alone"}) /\ Idle.pc = "idle"
      /\ RequestOK(Idle) /\ Current(Idle, row)
  BY DEF Idle, Has, RequestOK, Current, Edits, Syncs, Ended
<1>8. Reads
  BY <1>7 DEF CatalogInit, Reads
<1> QED BY <1>6, <1>8 DEF CatalogInv

LEMMA CatalogKeeps == CatalogInv /\ [CatalogNext]_catalogVars => CatalogInv'
<1> SUFFICES ASSUME CatalogInv, [CatalogNext]_catalogVars PROVE CatalogInv'
  OBVIOUS
<1>1. CASE UNCHANGED catalogVars
  BY <1>1 DEF catalogVars, CatalogInv, Tables, Reads, Live
<1>2. ASSUME NEW a \in AgentIds, NEW g, SetGrant(a, g) PROVE CatalogInv'
  <2>1. /\ UNCHANGED <<row, link, doc, req>> /\ grant' = [grant EXCEPT ![a] = g] /\ Live(a)
    BY <1>2 DEF SetGrant
  <2> QED BY <2>1 DEF CatalogInv, Tables, Reads, Live
<1>3. ASSUME NEW r \in Requests, RollsBack(r) \/ DocIsLost(r) PROVE CatalogInv'
  BY <1>3, FailingKeeps DEF RollsBack, DocIsLost
<1>4. ASSUME NEW r \in Requests, Step(r) PROVE CatalogInv'
  BY <1>3, <1>4, FindsKeep, PostKeeps, PatchKeeps, DeleteKeeps, ReadsBackKeeps, DocKeeps,
     SyncFindsKeeps, SyncSkillsKeeps, ResolvesKeeps, SyncAgentsKeeps, RunKeeps
  DEF Step, PatchSkillCommits, PatchAgentCommits, DeleteSkillCommits, DeleteAgentCommits,
      SyncSkillsFinds, SyncAgentsFinds
<1> QED BY <1>1, <1>2, <1>4 DEF CatalogNext

LEMMA CatalogAlways == CatalogSpec => []CatalogInv
BY CatalogStarts, CatalogKeeps, PTL DEF CatalogSpec

-----------------------------------------------------------------------------
\* In a step of one request, the others at most learn that it wrote.
LEMMA OneSteps ==
    ASSUME Reads, NEW r \in Requests, NEW q \in Requests, Step(r), q # r
    PROVE  req'[q] = req[q] \/ (Busy(q) /\ req'[q] = [req[q] EXCEPT !.alone = FALSE])
<1>1. ASSUME NEW next, Goes(r, next) \/ Writes(r, next)
      PROVE  req'[q] = req[q] \/ (Busy(q) /\ req'[q] = [req[q] EXCEPT !.alone = FALSE])
  BY <1>1 DEF Goes, Writes, Reads
<1>2. \E next : Goes(r, next) \/ Writes(r, next)
  <2>1. ASSUME NEW i, NEW next, FindsRow(r, i, next) PROVE \E n : Goes(r, n)
    BY <2>1 DEF FindsRow
  <2>2. ASSUME NEW kind, SyncFinds(r, kind) PROVE \E n : Goes(r, n)
    BY <2>2 DEF SyncFinds
  <2>3. CASE PostSkill(r) \/ PostAgent(r)
    BY <2>3 DEF PostSkill, PostAgent
  <2>4. CASE PatchSkillFinds(r) \/ PatchAgentFinds(r) \/ DeleteSkillFinds(r) \/ DeleteAgentFinds(r)
    BY <2>1, <2>4 DEF PatchSkillFinds, PatchAgentFinds, DeleteSkillFinds, DeleteAgentFinds
  <2>5. CASE SyncSkillsFinds(r) \/ SyncAgentsFinds(r)
    BY <2>2, <2>5 DEF SyncSkillsFinds, SyncAgentsFinds
  <2>6. ASSUME NEW ids, PatchCommits(r, ids) \/ DeleteCommits(r, ids) PROVE \E n : Writes(r, n)
    BY <2>6 DEF PatchCommits, DeleteCommits
  <2>7. CASE SyncSkillsCommits(r) \/ SyncAgentsCommits(r) \/ DocArrives(r)
    BY <2>7 DEF SyncSkillsCommits, SyncAgentsCommits, DocArrives
  <2>8. CASE SyncAgentsResolves(r)
    BY <2>8 DEF SyncAgentsResolves
  <2>9. CASE RunFinds(r) \/ RunBills(r) \/ RollsBack(r) \/ DocIsLost(r) \/ ReadsBack(r)
    BY <2>9 DEF RunFinds, RunBills, RollsBack, DocIsLost, ReadsBack
  <2> QED BY <2>3, <2>4, <2>5, <2>6, <2>7, <2>8, <2>9
          DEF Step, PatchSkillCommits, PatchAgentCommits, DeleteSkillCommits, DeleteAgentCommits
<1> QED BY <1>1, <1>2

\* A request that comes to its end in a step is the one that takes it.
LEMMA WhoEnds ==
    ASSUME Reads, NEW r \in Requests, NEW q \in Requests, Step(r),
           req[q].pc \notin Ended, req'[q].pc \in Ended
    PROVE  q = r
<1> SUFFICES ASSUME q # r PROVE FALSE
  OBVIOUS
<1>1. Has(req[q], {"pc"})
  BY DEF Reads, RequestOK
<1>2. [req[q] EXCEPT !.alone = FALSE].pc = req[q].pc
  BY <1>1 DEF Has
<1> QED BY <1>2, OneSteps

\* A run is billed to a party to it, also when the grant is withdrawn between
\* the two reads (scoping.py:125).
THEOREM PartiesPay == CatalogSpec => OnlyPartiesPay
<1>1. CatalogInv /\ [CatalogNext]_catalogVars =>
        [\A r \in Requests : req[r].pc = "run" /\ req'[r].pc = "done" =>
           CASE req'[r].payer = Guest -> grant[req[r].id] = "grantee" /\ req[r].by = Guest
             [] req'[r].payer = NoOne -> req[r].agent.owner = NoOne
             [] OTHER -> req'[r].payer = req[r].agent.owner]_catalogVars
  <2> SUFFICES ASSUME CatalogInv, CatalogNext, NEW r \in Requests, req[r].pc = "run", req'[r].pc = "done"
               PROVE  CASE req'[r].payer = Guest -> grant[req[r].id] = "grantee" /\ req[r].by = Guest
                        [] req'[r].payer = NoOne -> req[r].agent.owner = NoOne
                        [] OTHER -> req'[r].payer = req[r].agent.owner
    OBVIOUS
  <2>1. Step(r)
    <3>1. req[r].pc \notin Ended /\ req'[r].pc \in Ended
      BY DEF Ended
    <3>2. req' # req
      BY <3>1
    <3>3. PICK q \in Requests : Step(q)
      BY <3>2 DEF CatalogNext, SetGrant
    <3> QED BY <3>1, <3>3, WhoEnds DEF CatalogInv
  <2>2. RunBills(r)
    BY <2>1 DEF Step, PostSkill, PostAgent, PatchSkillFinds, PatchAgentFinds, DeleteSkillFinds,
        DeleteAgentFinds, FindsRow, PatchSkillCommits, PatchAgentCommits, PatchCommits,
        DeleteSkillCommits, DeleteAgentCommits, DeleteCommits, RollsBack, ReadsBack, DocArrives,
        DocIsLost, SyncSkillsFinds, SyncAgentsFinds, SyncFinds, SyncSkillsCommits,
        SyncAgentsResolves, SyncAgentsCommits, RunFinds
  <2> DEFINE pays == IF req[r].by = Guest THEN grant[req[r].id] ELSE "none"
             agent == req[r].agent
             payer == Payer(agent, req[r].by, pays)
  <2>3. req'[r].payer = payer
    <3> HIDE DEF payer
    <3>1. Goes(r, [pc |-> "done", payer |-> payer])
      BY <2>2 DEF RunBills, payer
    <3> QED BY <3>1 DEF Goes, After, Ended, CatalogInv, Reads
  <2>4. /\ req[r].by \in {Owner, Guest} /\ agent \in Rows /\ CheckConstraint(agent)
    BY DEF CatalogInv, Reads, RequestOK, RunOK
  <2>5. agent.owner \in {Owner, NoOne}
    BY <2>4 DEF Rows
  <2> HIDE DEF agent
  <2>6. CASE agent.scope = "platform"
    <3>1. payer = NoOne /\ agent.owner = NoOne
      BY <2>4, <2>6 DEF Payer, CheckConstraint
    <3> QED BY <2>3, <3>1, CatalogAssumption DEF agent
  <2>7. CASE agent.scope = "shared" /\ pays = "grantee"
    <3>1. payer = req[r].by /\ req[r].by = Guest /\ grant[req[r].id] = "grantee"
      BY <2>4, <2>7 DEF Payer
    <3> QED BY <2>3, <3>1, CatalogAssumption DEF agent
  <2>8. CASE agent.scope # "platform" /\ ~(agent.scope = "shared" /\ pays = "grantee")
    <3>1. payer = agent.owner
      BY <2>8 DEF Payer
    <3> QED BY <2>3, <2>5, <3>1, CatalogAssumption DEF agent
  <2> QED BY <2>6, <2>7, <2>8
<1> QED BY <1>1, CatalogAlways, PTL DEF CatalogSpec, OnlyPartiesPay

\* A row that an app provisions is written by that app, or by a request that
\* decided on what it had read before somebody's commit (agents.py:138-153, 217-243).
THEOREM ManagedRowsStay == CatalogSpec => ManagedRowsAreTheirApps
<1>1. CatalogInv /\ [CatalogNext]_catalogVars =>
        [\A i \in Ids : Live(i) /\ row[i].app # NoApp /\ row'[i] # row[i] =>
           \E r \in Requests : /\ req'[r] # req[r]
                               /\ \/ ~req[r].alone
                                  \/ req[r].pc \in {"sync", "resolved"} /\ req[r].batch.app = row[i].app]_catalogVars
  <2> SUFFICES ASSUME CatalogInv, CatalogNext, NEW i \in Ids, Live(i), row[i].app # NoApp, row'[i] # row[i]
               PROVE  \E r \in Requests : /\ req'[r] # req[r]
                                          /\ \/ ~req[r].alone
                                             \/ req[r].pc \in Syncs /\ req[r].batch.app = row[i].app
    BY DEF Syncs
  <2>1. PICK r \in Requests : Step(r)
    BY DEF CatalogNext, SetGrant
  <2>2. Tables /\ Reads /\ RequestOK(req[r]) /\ Current(req[r], row)
    BY DEF CatalogInv, Reads
  <2>3. ASSUME NEW pc, pc # req[r].pc, Writes(r, [pc |-> pc]) PROVE req'[r] # req[r]
    BY <2>3 DEF Writes, After, Onto
  <2>4. ASSUME NEW ids, PatchCommits(r, ids) PROVE req'[r] # req[r] /\ ~req[r].alone
    <3>1. req[r].pc = "patch" /\ (row' = row \/ \E x : row' = [row EXCEPT ![req[r].id] = x])
          /\ Writes(r, [pc |-> "written"])
      BY <2>4 DEF PatchCommits
    <3>2. PICK x : row' = [row EXCEPT ![req[r].id] = x]
      BY <3>1
    <3>3. i = req[r].id
      BY <2>2, <3>2 DEF Tables
    <3> QED BY <2>2, <2>3, <3>1, <3>3 DEF RequestOK, EditOK, Edits, Current
  <2>5. ASSUME NEW ids, DeleteCommits(r, ids) PROVE req'[r] # req[r] /\ ~req[r].alone
    <3>1. req[r].pc = "delete" /\ row' = [row EXCEPT ![req[r].id] = Deleted]
          /\ Writes(r, [pc |-> "sending", doc |-> Deleted])
      BY <2>5 DEF DeleteCommits
    <3>2. i = req[r].id
      BY <3>1
    <3>3. req'[r].pc = "sending"
      BY <3>1 DEF Writes, After, Onto, Ended
    <3> QED BY <2>2, <3>1, <3>2, <3>3 DEF RequestOK, EditOK, Edits, Current
  <2>6. ASSUME SyncSkillsCommits(r) \/ SyncAgentsCommits(r)
        PROVE  /\ req'[r] # req[r]
               /\ ~req[r].alone \/ (req[r].pc \in Syncs /\ req[r].batch.app = row[i].app)
    <3>1. /\ req[r].pc \in Syncs /\ StillThere(r) /\ Writes(r, [pc |-> "done"])
          /\ \E ids \in NewIds(r) : row' = Upserted(r, ids)
      BY <2>6 DEF SyncSkillsCommits, SyncAgentsCommits, Syncs
    <3>2. SyncOK(req[r])
      BY <2>2, <3>1 DEF RequestOK
    <3>3. i \in Range(req[r].found)
      BY <2>2, <3>1, <3>2, UpsertedRows DEF Live
    <3>4. req[r].alone => row[i].app \in {NoApp, req[r].batch.app}
      BY <2>2, <3>1, <3>2, <3>3 DEF Current, SyncOK
    <3>5. req[r].pc # "done"
      BY <3>1 DEF Syncs
    <3> QED BY <2>3, <3>1, <3>4, <3>5
  <2>7. ~PostSkill(r) /\ ~PostAgent(r)
    BY <2>2 DEF Tables, PostSkill, PostAgent, Live
  <2>8. \/ PatchCommits(r, SkillIds) \/ PatchCommits(r, AgentIds)
        \/ DeleteCommits(r, SkillIds) \/ DeleteCommits(r, AgentIds)
        \/ SyncSkillsCommits(r) \/ SyncAgentsCommits(r) \/ PostSkill(r) \/ PostAgent(r)
    <3>1. row' # row
      OBVIOUS
    <3> QED
      BY <2>1, <3>1
      DEF Step, PatchSkillFinds, PatchAgentFinds, DeleteSkillFinds, DeleteAgentFinds, FindsRow,
          PatchSkillCommits, PatchAgentCommits, DeleteSkillCommits, DeleteAgentCommits, RollsBack,
          ReadsBack, DocArrives, DocIsLost, SyncSkillsFinds, SyncAgentsFinds, SyncFinds,
          SyncAgentsResolves, RunFinds, RunBills
  <2>9. CASE \E ids : PatchCommits(r, ids) \/ DeleteCommits(r, ids)
    <3>1. req'[r] # req[r] /\ ~req[r].alone
      BY <2>4, <2>5, <2>9
    <3> QED BY <3>1
  <2>10. CASE SyncSkillsCommits(r) \/ SyncAgentsCommits(r)
    <3>1. /\ req'[r] # req[r]
          /\ ~req[r].alone \/ (req[r].pc \in Syncs /\ req[r].batch.app = row[i].app)
      BY <2>6, <2>10
    <3> QED BY <3>1
  <2> QED BY <2>7, <2>8, <2>9, <2>10
<1> QED BY <1>1, CatalogAlways, PTL DEF CatalogSpec, ManagedRowsAreTheirApps

\* The tables stay sound, and what reaches the index is what was committed when
\* nobody else wrote since (ai_search_index.py:142-180).
THEOREM IndexFollows == CatalogSpec => TablesAndIndexAgree
<1>1. CatalogInv => CatalogTypeOK
  BY DEF CatalogInv, Tables, CatalogTypeOK, Rows
<1>2. CatalogInv /\ [CatalogNext]_catalogVars =>
        [\A r \in Requests : req[r].pc = "sending" /\ req[r].alone /\ req'[r].pc = "done" /\ doc' # doc =>
           doc'[req[r].id] = IF Live(req[r].id) THEN Doc(row[req[r].id]) ELSE Deleted]_catalogVars
  <2> SUFFICES ASSUME CatalogInv, CatalogNext, NEW r \in Requests,
                      req[r].pc = "sending", req[r].alone, req'[r].pc = "done", doc' # doc
               PROVE  doc'[req[r].id] = IF Live(req[r].id) THEN Doc(row[req[r].id]) ELSE Deleted
    OBVIOUS
  <2>1. Step(r)
    <3>1. req[r].pc \notin Ended /\ req'[r].pc \in Ended
      BY DEF Ended
    <3>2. PICK q \in Requests : Step(q)
      BY DEF CatalogNext, SetGrant
    <3> QED BY <3>1, <3>2, WhoEnds DEF CatalogInv
  <2>2. DocArrives(r)
    BY <2>1 DEF Step, PostSkill, PostAgent, PatchSkillFinds, PatchAgentFinds, DeleteSkillFinds,
        DeleteAgentFinds, FindsRow, PatchSkillCommits, PatchAgentCommits, PatchCommits,
        DeleteSkillCommits, DeleteAgentCommits, DeleteCommits, RollsBack, ReadsBack,
        DocIsLost, SyncSkillsFinds, SyncAgentsFinds, SyncFinds, SyncSkillsCommits,
        SyncAgentsResolves, SyncAgentsCommits, RunFinds, RunBills
  <2>3. /\ doc' = [doc EXCEPT ![req[r].id] = req[r].doc] /\ DOMAIN doc = Ids /\ req[r].id \in Ids
        /\ req[r].doc = IF There(row[req[r].id]) THEN Doc(row[req[r].id]) ELSE Deleted
    BY <2>2 DEF DocArrives, CatalogInv, Tables, Reads, RequestOK, Current
  <2> QED BY <2>3 DEF Live, There
<1> QED BY <1>1, <1>2, CatalogAlways, PTL DEF CatalogSpec, TablesAndIndexAgree, IndexedAsCommitted
===============================================================================
