------------------------------- MODULE McpTools -------------------------------
(***************************************************************************)
(* MCPToolProvider of mcp/client.py: connect() to a server of tools, whose *)
(* definitions may change at any time, check them against the fingerprints *)
(* approved earlier, adapt them for the agent loop, aclose().  A           *)
(* fingerprint hashes name, description and schema, so here it is the      *)
(* definition.  The session and its transport are the mcp package's.       *)
(*                                                                         *)
(* The host takes tools from a provider whose last connect() returned, and *)
(* may retry a connect() that raised, with or without aclose().            *)
(***************************************************************************)

CONSTANTS
    ToolName,
    Version,       \* definitions a tool may have
    Gone           \* the server has no such tool

ASSUME McpAssumption == Gone \notin Version

VARIABLES
    server,        \* tool -> its definition now
    external,      \* the session is the caller's
    session,       \* _session: None, entered only, initialized, broken off
    specs,         \* _specs
    pinned,        \* expected_fingerprints and on_change of the latest connect
    host,          \* where the host is
    taken          \* the tools the host has taken since

mcpVars == <<server, external, session, specs, pinned, host, taken>>

Catalogue == [ToolName -> Version \cup {Gone}]
NoTools == [n \in ToolName |-> Gone]
NoPins == [tools |-> NoTools, change |-> "trust"]
Pins == [tools : Catalogue, change : {"raise", "warn"}]

McpInit ==
    /\ server \in Catalogue
    /\ external \in BOOLEAN
    /\ session = IF external THEN "live" ELSE "none"
    /\ specs = NoTools
    /\ pinned = NoPins
    /\ host = "apart"
    /\ taken = {}

-----------------------------------------------------------------------------
\* connect(), trusting what it finds or with pins: a session that is there is
\* used again, whatever became of the connect that left it.
Connect ==
    /\ host \in {"apart", "failed", "connected"}
    /\ pinned' \in {NoPins} \cup Pins
    /\ host' = IF session = "none" THEN "opening" ELSE "listing"
    /\ taken' = {}
    /\ UNCHANGED <<server, external, session, specs>>

SessionOpens ==
    /\ host = "opening"
    /\ session' = "live"
    /\ host' = "listing"
    /\ UNCHANGED <<server, external, specs, pinned, taken>>

\* The transport or initialize() fails; in the latter case what was entered
\* stays in _session.
SessionFails ==
    /\ host = "opening"
    /\ session' \in {"none", "entered"}
    /\ host' = "failed"
    /\ UNCHANGED <<server, external, specs, pinned, taken>>

\* Mutant: a tool that was removed is no change.
DriftedButRemoved(old, new) == \E n \in ToolName : new[n] # Gone /\ new[n] # old[n]

\* _check_fingerprints: new, redefined or removed.
Drifted(old, new) == \E n \in ToolName : new[n] # old[n]

\* list_tools() answers; the specs are replaced, then checked.
Lists ==
    /\ host = "listing" /\ session = "live"
    /\ specs' = server
    /\ host' = IF pinned.change = "raise" /\ Drifted(pinned.tools, specs')
               THEN "failed" ELSE "connected"
    /\ UNCHANGED <<server, external, session, pinned, taken>>

ListFails ==
    /\ host = "listing"
    /\ host' = "failed"
    /\ UNCHANGED <<server, external, session, specs, pinned, taken>>

\* get_action_tools()
TakeTools ==
    /\ host = "connected"
    /\ taken' = {specs}
    /\ UNCHANGED <<server, external, session, specs, pinned, host>>

\* aclose(): a caller's session is left alone, and so is _specs.
Close ==
    /\ host \in {"connected", "failed"}
    /\ session' = IF external THEN session ELSE "none"
    /\ host' = "apart"
    /\ UNCHANGED <<server, external, specs, pinned, taken>>

\* The server is redeployed,
Redefine ==
    /\ server' \in Catalogue
    /\ UNCHANGED <<external, session, specs, pinned, host, taken>>

\* or goes away.
Drops ==
    /\ session = "live"
    /\ session' = "broken"
    /\ UNCHANGED <<server, external, specs, pinned, host, taken>>

McpNext ==
    Connect \/ SessionOpens \/ SessionFails \/ Lists \/ ListFails \/ TakeTools \/ Close \/ Redefine \/ Drops

McpSpec == McpInit /\ [][McpNext]_mcpVars

-----------------------------------------------------------------------------
\* Tools taken after a connect that was given pins and on_change="raise" are the
\* approved ones, no more, no fewer and none redefined, whatever the server did
\* between approval and this connect, and however many connects failed or
\* reused a session on the way (_check_fingerprints, get_action_tools).
ToolsAsApproved == pinned.change = "raise" => taken \subseteq {pinned.tools}
===============================================================================
