------------------------------- MODULE SkillRun -------------------------------
(***************************************************************************)
(* Agent.run_with_skills and Agent.analyze of agent.py, as far as they     *)
(* share self.tools, the prompt tools every input goes through: a run      *)
(* resolves its skills, attaches those that are prompt tools, and puts the *)
(* list it found back when it ends.  Runs of one agent overlap at every    *)
(* await: the lookup of a skill, the screening, the call, the usage row.   *)
(*                                                                         *)
(* tools leaves out the tools the agent was built with, which never change *)
(* and come first.                                                         *)
(***************************************************************************)
EXTENDS Sequences, SequencesExt

CONSTANTS
    AgentCall,   \* calls, each made once
    Skill        \* prompt skills

VARIABLES
    tools,       \* self.tools beyond the agent's own
    job,         \* the calls
    orderly      \* history: none overlapped another, no run of the loop was refused

skillVars == <<tools, job, orderly>>

\* mine: its prompt skills; found: original_tools; shaped: what its input went through.
NoJob == [stage |-> "none", kind |-> "analyze", mine |-> <<>>, found |-> <<>>, shaped |-> <<>>]

SkillInit ==
    /\ tools = <<>>
    /\ job = [c \in AgentCall |-> NoJob]
    /\ orderly = TRUE

Under == {"gating", "calling", "recording", "checking"}
AtStage(c, stage) == job[c].stage = stage
Kind(c) == job[c].kind
Moves(c, stage) == job' = [job EXCEPT ![c].stage = stage]

\* Names are looked up, in the database too; the skills that are action tools
\* decide between the loop and analyze.
Resolve(c) ==
    /\ AtStage(c, "none")
    /\ \E kind \in {"analyze", "prompt", "loop"}, mine \in {<<>>} \cup {<<s>> : s \in Skill} :
          /\ kind = "analyze" => mine = <<>>
          /\ job' = [job EXCEPT ![c] = [NoJob EXCEPT !.stage = "resolving", !.kind = kind, !.mine = mine]]
    /\ UNCHANGED <<tools, orderly>>

\* KeyError: a name nobody knows.
Unresolved(c) ==
    /\ AtStage(c, "resolving") /\ Kind(c) # "analyze"
    /\ Moves(c, "ended")
    /\ UNCHANGED <<tools, orderly>>

Attached(c) == IF Kind(c) = "analyze" THEN tools ELSE tools \o job[c].mine

\* From the last lookup to the screening nothing is awaited.  The loop's input
\* is shaped before the skills are attached, analyze's after.
Attach(c) ==
    /\ AtStage(c, "resolving")
    /\ tools' = Attached(c)
    /\ job' = [job EXCEPT ![c].stage = "gating", ![c].found = tools,
                          ![c].shaped = IF Kind(c) = "loop" THEN tools ELSE tools']
    /\ orderly' = (orderly /\ \A d \in AgentCall : job[d].stage \notin Under)

\* Screened, and within the budget.
LetIn(c) ==
    /\ AtStage(c, "gating")
    /\ Moves(c, "calling")
    /\ UNCHANGED <<tools, orderly>>

\* The input or the budget is refused: the loop's try has not begun, that
\* around analyze has.
Refuse(c) ==
    /\ AtStage(c, "gating")
    /\ tools' = IF Kind(c) = "prompt" THEN job[c].found ELSE tools
    /\ orderly' = (orderly /\ Kind(c) # "loop")
    /\ Moves(c, "ended")

\* The loop has its tools back in `finally', analyze when all of it is over.
CallReturns(c) ==
    /\ AtStage(c, "calling")
    /\ tools' = IF Kind(c) = "loop" THEN job[c].found ELSE tools
    /\ Moves(c, "recording")
    /\ UNCHANGED orderly

\* Mutant: the tools are put back on the way to the response only.
RaisesThrough(c) ==
    /\ AtStage(c, "calling")
    /\ Moves(c, "ended")
    /\ UNCHANGED <<tools, orderly>>

CallRaises(c) ==
    /\ AtStage(c, "calling")
    /\ tools' = IF Kind(c) = "analyze" THEN tools ELSE job[c].found
    /\ Moves(c, "ended")
    /\ UNCHANGED orderly

Recorded(c) ==
    /\ AtStage(c, "recording")
    /\ Moves(c, "checking")
    /\ UNCHANGED <<tools, orderly>>

\* The answer is returned, or refused.
Ends(c) ==
    /\ AtStage(c, "checking")
    /\ tools' = IF Kind(c) = "prompt" THEN job[c].found ELSE tools
    /\ Moves(c, "ended")
    /\ UNCHANGED orderly

SkillNext ==
    \E c \in AgentCall :
        \/ Resolve(c) \/ Unresolved(c) \/ Attach(c) \/ LetIn(c) \/ Refuse(c)
        \/ CallReturns(c) \/ CallRaises(c) \/ Recorded(c) \/ Ends(c)

RunsSpec == SkillInit /\ [][SkillNext]_skillVars

-----------------------------------------------------------------------------
Quiet == \A c \in AgentCall : job[c].stage \notin Under

\* An input that goes to analyze always passes the skills of its own run last,
\* whoever else has attached some.  And as long as runs of the agent neither
\* overlap nor are refused before the loop, a call is shaped by nobody else's
\* skills and the agent is left as it was built, whatever raises on the way
\* (run_with_skills, analyze).
SkillsStayInTheirRun ==
    /\ \A c \in AgentCall :
          (Kind(c) = "prompt" /\ job[c].stage \in Under) => IsSuffix(job[c].mine, job[c].shaped)
    /\ orderly =>
          /\ Quiet => tools = <<>>
          /\ \A c \in AgentCall : job[c].shaped \in {<<>>, job[c].mine}

\* Skills are attached "for the duration of the call": no call under way, none
\* attached (the docstring of run_with_skills).
ToolsAreReturned == Quiet => tools = <<>>
===============================================================================
