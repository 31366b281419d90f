-------------------------- MODULE MCAgentCatalog --------------------------
EXTENDS AgentCatalog
CONSTANTS s1, s2, a1

MCPosts == {[name |-> "A:x:y", val |-> 1, scope |-> "company"],
            [name |-> "m", val |-> 1, scope |-> "shared"],
            [name |-> "p", val |-> 1, scope |-> "platform"]}
MCPatches == {("val" :> 2), ("scope" :> "platform"), ("name" :> "A:x:y")}
(* The apps "A" and "A:x" may both qualify a name to "A:x:y".               *)
MCBatches ==
    {[app |-> "A", kind |-> "skill", items |-> ("A:x:y" :> [val |-> v])] : v \in {1, 2}}
    \cup
    {[app |-> "A:x", kind |-> "skill", items |-> ("A:x:z" :> [val |-> 1] @@ "A:x:y" :> [val |-> 2])]}
    \cup
    {[app |-> "A", kind |-> "agent", items |-> ("A:m" :> [val |-> 1, wants |-> w])] :
        w \in {<<>>, ("A:x:y" :> Plain), ("A:x:y" :> "deny")}}

(* Nothing yet; a skill written by hand under an app's name; an agent with  *)
(* its skill, as the app left them; the two rows that two first syncs leave *)
(* when they overlap.                                                       *)
Of(n, app) == Row(n, 1, app, "company")
MCStarts ==
    {[rows |-> <<>>, links |-> <<>>],
     [rows |-> (s1 :> Of("A:x:y", NoApp)), links |-> <<>>],
     [rows |-> (s1 :> Of("A:x:y", "A") @@ a1 :> Of("A:m", "A")), links |-> (<<a1, s1>> :> "deny")],
     [rows |-> (s1 :> Of("A:x:y", "A") @@ s2 :> Of("A:x:y", "A")), links |-> <<>>]}

Symmetry == Permutations(SkillIds) \cup Permutations(AgentIds) \cup Permutations(Requests)
=============================================================================
