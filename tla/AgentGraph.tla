------------------------------- MODULE AgentGraph -------------------------------
(***************************************************************************)
(* Multi-agent graphs (orchestrator.py): AgentGraphSpec.validate and       *)
(* run_agent_graph, where every node runs its agent, decides hop by hop    *)
(* what runs next and gathers it.                                          *)
(*                                                                         *)
(* A node runs once for every way that leads to it, so a run is named by   *)
(* its way: the hops taken from the entry, as positions in `next'.         *)
(***************************************************************************)
EXTENDS Naturals, Sequences, SequencesExt

CONSTANTS
    Node,
    Unknown,     \* an id no node has
    Entry,
    Spec0,       \* the graphs that may be parsed: next and branch of every node
    Answers,     \* what an agent's answer may be, as far as branches tell
    Always,      \* the branch of a node that has none
    MaxDepth,    \* MAX_DEPTH
    Fan,         \* bound: length of next
    Guarded      \* the host passes a SafetyGuard

Denied == "denied"       \* the result of a hop that is not authorized
Missing == "missing"

ASSUME GraphAssumption ==
    /\ Unknown \notin Node /\ Entry \in Node
    /\ MaxDepth \in Nat \ {0} /\ Fan \in Nat
    /\ Always \notin Answers /\ Denied \notin Answers /\ Missing \notin Answers
    /\ Guarded \in BOOLEAN
    /\ \A s \in Spec0 : \A n \in Node :
          /\ s.branch[n] \in Answers \cup {Always}
          /\ s.next[n] \in Seq(Node \cup {Unknown}) /\ Len(s.next[n]) <= Fan

VARIABLES
    spec,        \* the graph
    outcome,     \* "unparsed", "rejected", "running", "returned", "raised"
    run,         \* the runs, by way
    results

vars == <<spec, outcome, run, results>>

Way == UNION {[1 .. d -> 1 .. Fan] : d \in 0 .. MaxDepth - 1}
Alive == {"agent", "hops", "gather"}
Absent == [node |-> Unknown, at |-> "absent", answer |-> Always, hop |-> 1, kids |-> {}]

\* answer: what the agent said; hop: the position in next it has come to;
\* kids: the hops it will run.
Run == [node : Node \cup {Unknown}, at : Alive \cup {"absent", "done", "raised"},
        answer : Answers \cup {Always}, hop : 1 .. Fan + 1, kids : SUBSET (1 .. Fan)]

TypeOK ==
    /\ outcome \in {"unparsed", "rejected", "running", "returned", "raised"}
    /\ run \in [Way -> Run]
    /\ \A w \in Way : run[w].at # "absent" => run[w].node \in Node
    /\ \A w \in Way \ {<<>>} :
          run[w].at # "absent" => run[Front(w)].at \in {"gather", "done", "raised"}
    /\ results \in [Node -> Answers \cup {Denied, Missing}]

Init ==
    /\ spec \in Spec0
    /\ outcome = "unparsed"
    /\ run = [w \in Way |-> Absent]
    /\ results = [n \in Node |-> Missing]

-----------------------------------------------------------------------------
\* Mutant: the depth is looked at once the node's hops were walked.
WalksWithoutDepth(s) ==
    LET walk[path \in BoundedSeq(Node \cup {Unknown}, Cardinality(Node) + 1)] ==
          LET node == Last(path)
          IN  /\ node \notin Range(Front(path))
              /\ node \in Node
              /\ \A i \in DOMAIN s.next[node] : walk[Append(path, s.next[node][i])]
    IN  walk[<<Entry>>]

\* _walk: `visiting' holds the path that leads to the node.
Walks(s) ==
    LET walk[path \in BoundedSeq(Node \cup {Unknown}, MaxDepth + 1) \ {<<>>}] ==
          LET node == Last(path)
          IN  /\ Len(path) <= MaxDepth
              /\ node \notin Range(Front(path))
              /\ node \in Node
              /\ \A i \in DOMAIN s.next[node] : walk[Append(path, s.next[node][i])]
    IN  walk[<<Entry>>]

NewRun(n) == [Absent EXCEPT !.node = n, !.at = "agent"]

Parse ==
    /\ outcome = "unparsed"
    /\ IF Walks(spec)
         THEN /\ outcome' = "running"
              /\ run' = [run EXCEPT ![<<>>] = NewRun(Entry)]
         ELSE outcome' = "rejected" /\ UNCHANGED run
    /\ UNCHANGED <<spec, results>>

At(w, place) == run[w].at = place
Go(w, place) == run' = [run EXCEPT ![w].at = place]
Hops(w) == spec.next[run[w].node]

\* A raise of the first run is what run_agent_graph raises.
Raise(w) ==
    /\ Go(w, "raised")
    /\ outcome' = IF w = <<>> THEN "raised" ELSE outcome

\* The agent answers, or its runner raises.
AgentAnswers(w) ==
    /\ At(w, "agent")
    /\ \E a \in Answers :
          /\ run' = [run EXCEPT ![w].at = "hops", ![w].answer = a]
          /\ results' = [results EXCEPT ![run[w].node] = a]
    /\ UNCHANGED <<spec, outcome>>

AgentRaises(w) ==
    /\ At(w, "agent")
    /\ Raise(w)
    /\ UNCHANGED <<spec, results>>

NextHop(w) == run[w].hop
AtHop(w) == At(w, "hops") /\ NextHop(w) <= Len(Hops(w))
Target(w) == Hops(w)[NextHop(w)]
BranchMatches(w) == Target(w) \in Node /\ spec.branch[Target(w)] \in {Always, run[w].answer}

SkipHop(w) ==
    /\ AtHop(w) /\ ~BranchMatches(w)
    /\ run' = [run EXCEPT ![w].hop = @ + 1]
    /\ UNCHANGED <<spec, outcome, results>>

\* Mutant: the loop goes on before the denial is recorded.
DenyHopUnrecorded(w) ==
    /\ AtHop(w) /\ BranchMatches(w)
    /\ run' = [run EXCEPT ![w].hop = @ + 1]
    /\ UNCHANGED <<spec, outcome, results>>

\* The authorizer says no, or raises.
DenyHop(w) ==
    /\ AtHop(w) /\ BranchMatches(w)
    /\ run' = [run EXCEPT ![w].hop = @ + 1]
    /\ results' = [results EXCEPT ![Target(w)] = Denied]
    /\ UNCHANGED <<spec, outcome>>

\* Authorized, and the guard lets the text through.
TakeHop(w) ==
    /\ AtHop(w) /\ BranchMatches(w)
    /\ run' = [run EXCEPT ![w].hop = @ + 1, ![w].kids = @ \cup {NextHop(w)}]
    /\ UNCHANGED <<spec, outcome, results>>

\* The guard raises: no hop of the node runs, the ones already collected included.
HopFlagged(w) ==
    /\ Guarded
    /\ AtHop(w) /\ BranchMatches(w)
    /\ Raise(w)
    /\ UNCHANGED <<spec, results>>

Kids(w) == {Append(w, i) : i \in run[w].kids}

\* The collected hops start together.
Gather(w) ==
    /\ At(w, "hops") /\ NextHop(w) > Len(Hops(w))
    /\ run' = [v \in Way |->
          IF v = w THEN [run[w] EXCEPT !.at = "gather"]
          ELSE IF v \in Kids(w) THEN NewRun(Hops(w)[Last(v)])
          ELSE run[v]]
    /\ UNCHANGED <<spec, outcome, results>>

Join(w) ==
    /\ At(w, "gather")
    /\ \A v \in Kids(w) : At(v, "done")
    /\ Go(w, "done")
    /\ outcome' = IF w = <<>> THEN "returned" ELSE outcome
    /\ UNCHANGED <<spec, results>>

\* Mutant: gather waits for all of its runs to raise.
JoinRaisesLast(w) ==
    /\ At(w, "gather")
    /\ Kids(w) # {} /\ \A v \in Kids(w) : At(v, "raised")
    /\ Raise(w)
    /\ UNCHANGED <<spec, results>>

\* gather raises with its first run that does; the others go on, unobserved.
JoinRaises(w) ==
    /\ At(w, "gather")
    /\ \E v \in Kids(w) : At(v, "raised")
    /\ Raise(w)
    /\ UNCHANGED <<spec, results>>

Next ==
    \/ Parse
    \/ \E w \in Way :
          \/ AgentAnswers(w) \/ AgentRaises(w)
          \/ SkipHop(w) \/ DenyHop(w) \/ TakeHop(w) \/ HopFlagged(w)
          \/ Gather(w) \/ Join(w) \/ JoinRaises(w)

\* Awaited agents, authorizers and guards answer or raise, and the event loop
\* resumes every run that can go on.
Fairness ==
    /\ WF_vars(Parse)
    /\ \A w \in Way :
          /\ WF_vars(AgentAnswers(w) \/ AgentRaises(w))
          /\ WF_vars(SkipHop(w) \/ DenyHop(w) \/ TakeHop(w) \/ HopFlagged(w))
          /\ WF_vars(Gather(w)) /\ WF_vars(Join(w)) /\ WF_vars(JoinRaises(w))

Spec == Init /\ [][Next]_vars
-----------------------------------------------------------------------------
\* Reference: the nodes k hops from the entry.
Level[k \in Nat] ==
    IF k = 0 THEN {Entry}
    ELSE UNION {Range(spec.next[n]) : n \in Level[k - 1] \cap Node}

\* A graph is accepted exactly when no walk from the entry has more than MaxDepth
\* nodes, cyclic walks included, and all it meets are nodes (AgentGraphSpec.validate).
AcceptsExactly ==
    outcome # "unparsed" =>
        (outcome # "rejected" <=>
            /\ Level[MaxDepth] = {}
            /\ \A k \in 0 .. MaxDepth - 1 : Level[k] \subseteq Node)

\* The hops a run has come by that their branch allows and that it has not
\* collected: those the authorizer refused.
RefusedHops(w) ==
    {i \in 1 .. run[w].hop - 1 :
        /\ Hops(w)[i] \in Node /\ spec.branch[Hops(w)[i]] \in {Always, run[w].answer}
        /\ i \notin run[w].kids}

\* When run_agent_graph returns, every run it started is done and no hop that was
\* refused was run.  Its results then speak of exactly the nodes that ran or that
\* a run was refused: an answer is one that a run of this node gave, "denied"
\* stands only where a hop was refused, and a node that was refused and never ran
\* is marked so.  (A node reached by several ways shows the last of its runs and
\* refusals.)
ReturnIsComplete ==
    /\ TypeOK
    /\ outcome = "returned" =>
        /\ \A w \in Way : At(w, "absent") \/ At(w, "done")
        /\ \A w \in Way : \A i \in RefusedHops(w) :
              Append(w, i) \in Way => At(Append(w, i), "absent")
        /\ \A n \in Node :
              LET answers == {run[w].answer : w \in {v \in Way : At(v, "done") /\ run[v].node = n}}
                  refused == \E w \in Way : \E i \in RefusedHops(w) : Hops(w)[i] = n
              IN  /\ results[n] = Missing <=> answers = {} /\ ~refused
                  /\ results[n] \in Answers => results[n] \in answers
                  /\ results[n] = Denied => refused

\* A graph that was accepted comes to an end, however its agents fail, and so does
\* every run a raise left behind (the depth cap; gather).
GraphEnds == <>[](outcome # "unparsed" /\ outcome # "running"
                  /\ \A w \in Way : run[w].at \notin Alive)
================================================================================
