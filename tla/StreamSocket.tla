------------------------------ MODULE StreamSocket ------------------------------
(***************************************************************************)
(* One connection to /ws/ai-agents/{id}/stream (api/routers/streaming.py): *)
(* the checks, then the agent's answer as text deltas or as the events of  *)
(* the agent loop with the agent's tools.  The client may leave at any     *)
(* await.  run_agent_loop_stream is in VendorTurn, the policy gate in      *)
(* ToolPolicyGate: here the model calls what it likes, and a call runs     *)
(* when the tool is offered and its name is allowed.                       *)
(***************************************************************************)
EXTENDS Sequences, SequencesExt

CONSTANTS
    Company,
    NoCompany,     \* of a platform agent, of a user without one
    CallName       \* names of skills and of tool classes

VARIABLES
    at,            \* where the handler is
    mode,          \* of the init message
    principal,     \* what resolve_token made of the token
    agentOf,       \* the company of the agent that is asked for
    links,         \* its skill links, as they were loaded
    offered,       \* action_tools: their classes
    allowed,       \* tool_modes: the names whose mode lets a call run
    called,        \* history: names that were called and ran
    there,         \* the client is
    frames,        \* frames that reached it; events and deltas in a row are one
    code           \* close code it saw, 0: none

streamVars == <<at, mode, principal, agentOf, links, offered, allowed, called, there, frames, code>>

Owner == Company \cup {NoCompany}
Admins == {"system_admin", "company_admin", "platform_admin"}

\* is_company_admin, where the host has it; the role; the company.
Principal == [flag : {"yes", "no", "unsaid"}, role : Admins \cup {"member"}, company : Owner]
Nobody == [flag |-> "no", role |-> "none", company |-> NoCompany]

\* class: what its registry entry makes, if anything that acts.
Link == [name : CallName, active : BOOLEAN, kind : {"python_tool", "prompt"},
         class : CallName \cup {"none"}, lets : BOOLEAN]

StreamInit ==
    /\ at = "accepted"
    /\ mode = "text" /\ principal = Nobody
    /\ agentOf \in Owner
    /\ links = <<>> /\ offered = {} /\ allowed = {} /\ called = {}
    /\ there = TRUE
    /\ frames = <<>> /\ code = 0

Stays == UNCHANGED <<principal, agentOf, links, offered, allowed, called, there>>

-----------------------------------------------------------------------------
Shows(frame) == frames' = IF there /\ frame # Last(<<"none">> \o frames) THEN Append(frames, frame) ELSE frames
CloseWith(c) == code' = IF there THEN c ELSE code
Falls == at' = "over" /\ UNCHANGED <<mode, frames, code>> /\ Stays

\* An error frame and a close; a send to a client that left may raise.
Refused(c) == at' = "closed" /\ Shows("error") /\ CloseWith(c) /\ UNCHANGED mode /\ Stays

Advances(to) == at' = to /\ UNCHANGED <<frames, code>>

\* The first message, with a token or without; not JSON at all; JSON, but not
\* an object.
ReceiveInit ==
    /\ at = "accepted"
    /\ \/ /\ there /\ mode' \in {"text", "tools"} /\ Advances("authenticating") /\ Stays
       \/ there /\ Refused(4401)
       \/ at' = "closed" /\ CloseWith(1003) /\ UNCHANGED <<mode, frames>> /\ Stays
       \/ there /\ Falls

\* resolve_token: a user, nobody, or an exception.
Authenticate ==
    /\ at = "authenticating"
    /\ \/ /\ principal' \in Principal /\ Advances("authorizing")
          /\ UNCHANGED <<mode, agentOf, links, offered, allowed, called, there>>
       \/ Refused(4401)
       \/ Falls

IsAdmin == IF principal.flag = "unsaid" THEN principal.role \in Admins ELSE principal.flag = "yes"
IsSuper == principal.role \in {"system_admin", "platform_admin"}

Authorize ==
    /\ at = "authorizing"
    /\ IF IsAdmin THEN Advances("finding") /\ UNCHANGED mode /\ Stays ELSE Refused(4403)

\* The agent with its links, as they are now, if there is one and it is the
\* principal's; the query may fail.
FindAgent ==
    /\ at = "finding"
    /\ \/ /\ IsSuper \/ agentOf = principal.company
          /\ IF mode = "tools" THEN links' \in [1 .. 2 -> Link] ELSE links' = <<>>
          /\ Advances("resolving")
          /\ UNCHANGED <<mode, principal, agentOf, offered, allowed, called, there>>
       \/ Refused(4404)
       \/ Falls

\* resolve_key, then Agent(), which knows its provider types.
ResolveKey ==
    /\ at = "resolving"
    /\ \/ Advances("building") /\ UNCHANGED mode /\ Stays
       \/ Refused(1011)
       \/ Falls

Active == {i \in DOMAIN links : links[i].active}

\* Mutant: a skill that was switched off is still offered.
ResolvesInactive == {links[i].class : i \in {j \in DOMAIN links : links[j].kind = "python_tool"}} \ {"none"}

\* _resolve_action_tools
ResolveActionTools == {links[i].class : i \in {j \in Active : links[j].kind = "python_tool"}} \ {"none"}

\* tool_modes: of active links with one name, the last.
Modes == {n \in CallName : \E i \in Active : links[i].name = n /\ links[i].lets
                              /\ \A j \in Active : j > i => links[j].name # n}

\* A tool class may raise from its constructor; but for a TypeError, which
\* skips the skill, that falls out of the handler.
Build ==
    /\ at = "building"
    /\ \/ /\ IF mode = "tools" THEN offered' = ResolveActionTools /\ allowed' = Modes
             ELSE UNCHANGED <<offered, allowed>>
          /\ Advances("streaming")
          /\ UNCHANGED <<mode, principal, agentOf, links, called, there>>
       \/ mode = "tools" /\ (\E i \in Active : links[i].kind = "python_tool") /\ Falls

\* A delta or an event is forwarded.
Forward == at = "streaming" /\ Shows("data") /\ UNCHANGED <<at, mode, code>> /\ Stays

CallTool(n) ==
    /\ at = "streaming" /\ mode = "tools" /\ n \in offered \cap allowed
    /\ called' = called \cup {n}
    /\ UNCHANGED <<at, mode, principal, agentOf, links, offered, allowed, there, frames, code>>

\* The answer is complete, or breaks off; both close.
AnswerEnds ==
    /\ at = "streaming"
    /\ \/ Shows("done")
       \/ Shows("error")
    /\ at' = "closed" /\ CloseWith(1000)
    /\ UNCHANGED mode /\ Stays

\* A send finds that the client has left.
FindsLeft ==
    /\ ~there /\ at \notin {"accepted", "closed", "over"}
    /\ at' = "closed"
    /\ UNCHANGED <<mode, frames, code>> /\ Stays

Leave ==
    /\ there /\ at \notin {"closed", "over"}
    /\ there' = FALSE
    /\ UNCHANGED <<at, mode, principal, agentOf, links, offered, allowed, called, frames, code>>

StreamNext ==
    ReceiveInit \/ Authenticate \/ Authorize \/ FindAgent \/ ResolveKey \/ Build
      \/ Forward \/ (\E n \in CallName : CallTool(n)) \/ AnswerEnds \/ FindsLeft \/ Leave

StreamSpec == StreamInit /\ [][StreamNext]_streamVars

-----------------------------------------------------------------------------
\* A client that stays sees the end: one error or done and then the close code
\* of what ended it, unless the handler itself fell over or the first message
\* was no JSON; nothing of the answer comes with a refusal.
EndsAreTold ==
    /\ (at = "closed" /\ there) =>
          CASE code = 1003 -> frames = <<>>
            [] code \in {4401, 4403, 4404, 1011} -> frames = <<"error">>
            [] OTHER -> code = 1000 /\ frames \in {<<"done">>, <<"error">>, <<"data", "done">>, <<"data", "error">>}
    /\ at # "closed" => code = 0

\* Whoever sees anything of an answer is an administrator, and of the agent's
\* company or of the platform.
AnswersGoToAdmins ==
    Contains(frames, "data") \/ Contains(frames, "done") \/ called # {} =>
        IsAdmin /\ (principal.company = agentOf \/ principal.role \in {"system_admin", "platform_admin"})

\* A tool that runs has an active tool link of its class, and an active link by the
\* name it is called by whose mode lets it run (_resolve_action_tools, tool_modes).
ToolsAreLinked ==
    \A n \in called :
        /\ \E i \in Active : links[i].kind = "python_tool" /\ links[i].class = n
        /\ \E i \in Active : links[i].name = n /\ links[i].lets

StreamsAreSafe == EndsAreTold /\ AnswersGoToAdmins /\ ToolsAreLinked
================================================================================
