------------------------------ MODULE MCAgentLoop ------------------------------
(* A tool that reads, one that writes and may do so for other companies, one *)
(* that needs approval, and a name no tool answers to.                       *)
EXTENDS AgentLoop, TLC

MCName == {"look", "write", "send", "nonsense"}
MCKnown == {"look", "write", "send"}
MCRisk == ("look" :> "read") @@ ("write" :> "write") @@ ("send" :> "external") @@ ("nonsense" :> "write")
MCMode == ("look" :> "auto") @@ ("write" :> "allow") @@ ("send" :> "auto") @@ ("nonsense" :> "none")

Calling(n, v, t, d) == [name |-> n, valid |-> v, target |-> t, delegated |-> d]
Look == Calling("look", TRUE, "own", FALSE)
Misuse == Calling("look", FALSE, "own", FALSE)
Reach == Calling("write", TRUE, "other", FALSE)
ReachDelegated == Calling("write", TRUE, "other", TRUE)
Send == Calling("send", TRUE, "own", FALSE)
Nonsense == Calling("nonsense", TRUE, "own", FALSE)
MCCall == {Look, Misuse, Reach, ReachDelegated, Send, Nonsense}

Bare == [stream |-> FALSE, gate |-> FALSE, guard |-> FALSE, ungated |-> FALSE, cap |-> NoCap,
         budget |-> 0, finalize |-> FALSE, limited |-> FALSE, lossy |-> FALSE, repertoire |-> MCCall]

\* No gate; no gate, opted out, with every other guard; a gate whose sink may
\* fail; a gate in a streamed and capped loop; a gate with a shared rate limiter.
MCConfig == {[Bare EXCEPT !.repertoire = {Look, Misuse, Reach, Nonsense}],
             [Bare EXCEPT !.ungated = TRUE, !.guard = TRUE, !.cap = 1, !.budget = 2,
                          !.finalize = TRUE, !.repertoire = {Look, Reach}],
             [Bare EXCEPT !.gate = TRUE, !.lossy = TRUE, !.finalize = TRUE,
                          !.repertoire = {Look, Reach, ReachDelegated, Send}],
             [Bare EXCEPT !.gate = TRUE, !.guard = TRUE, !.cap = 1, !.stream = TRUE],
             [Bare EXCEPT !.gate = TRUE, !.limited = TRUE, !.guard = TRUE, !.repertoire = {Look, Send}]}
===============================================================================
