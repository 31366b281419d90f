------------------------------- MODULE MCService -------------------------------
(***************************************************************************)
(* The service around the agents: the metering of calls, the table of      *)
(* vendor keys, bearer tokens, the API's limiter, an MCP provider, the     *)
(* runs that share an agent's tools, the parsing skills and a streaming    *)
(* connection.  These parts share no state with each other, so their       *)
(* interleavings say nothing: a behaviour is one of one part, and the      *)
(* others stay as they were.                                               *)
(***************************************************************************)
EXTENDS AgentMetering, KeyStore, TokenGate, ApiEntry, McpTools, SkillRun, ParsingDesk, StreamSocket

VARIABLE part

serviceVars ==
    <<part, vars, keyVars, tokenVars, entryVars, mcpVars, skillVars, parsingVars, streamVars>>

SharedAgent == [c \in Caller |-> CHOOSE a \in Agent : TRUE]

\* A token of each of two logins, one of a release that set neither iat nor
\* jti, and a refresh token.
MCToken ==
    {[born |-> b, iat |-> b, exp |-> b + 2, scope |-> "full", jti |-> "own"] : b \in {1, 2}}
    \cup {[born |-> 1, iat |-> NoIat, exp |-> 3, scope |-> "full", jti |-> "none"],
          [born |-> 1, iat |-> 1, exp |-> 3, scope |-> "refresh", jti |-> "none"]}

\* Two sign-outs are alike.
RevokerSymmetry == Permutations(Revoker)

MeteringAtRest == Init /\ \A c \in Caller : call[c].kind = CHOOSE k \in Kinds : TRUE
KeysAtRest == made = 0 /\ row = [r \in Id |-> NoRow] /\ kms = [s \in Process |-> "none"] /\ KeyInit
TokensAtRest == TokenInit /\ env = [url |-> "unset", strict |-> FALSE]
EntryAtRest == EntryInit /\ auth = [keys |-> TRUE, required |-> TRUE] /\ reply.to = CHOOSE a \in Address : TRUE
McpAtRest == McpInit /\ server = NoTools /\ ~external
ParsingAtRest == ParsingInit /\ given = CHOOSE g \in Given : TRUE
StreamAtRest == StreamInit /\ agentOf = NoCompany

ServiceInit ==
    /\ part \in {"metering", "keys", "tokens", "entry", "mcp", "skills", "parsing", "stream"}
    /\ SkillInit
    /\ IF part = "metering" THEN Init ELSE MeteringAtRest
    /\ IF part = "keys" THEN KeyInit ELSE KeysAtRest
    /\ IF part = "tokens" THEN TokenInit ELSE TokensAtRest
    /\ IF part = "entry" THEN EntryInit ELSE EntryAtRest
    /\ IF part = "mcp" THEN McpInit ELSE McpAtRest
    /\ IF part = "parsing" THEN ParsingInit ELSE ParsingAtRest
    /\ IF part = "stream" THEN StreamInit ELSE StreamAtRest

ServiceNext ==
    /\ UNCHANGED part
    /\ \/ /\ part = "metering" /\ Next
          /\ UNCHANGED <<keyVars, tokenVars, entryVars, mcpVars, skillVars, parsingVars, streamVars>>
       \/ /\ part = "keys" /\ KeyNext
          /\ UNCHANGED <<vars, tokenVars, entryVars, mcpVars, skillVars, parsingVars, streamVars>>
       \/ /\ part = "tokens" /\ TokenNext
          /\ UNCHANGED <<vars, keyVars, entryVars, mcpVars, skillVars, parsingVars, streamVars>>
       \/ /\ part = "entry" /\ EntryNext
          /\ UNCHANGED <<vars, keyVars, tokenVars, mcpVars, skillVars, parsingVars, streamVars>>
       \/ /\ part = "mcp" /\ McpNext
          /\ UNCHANGED <<vars, keyVars, tokenVars, entryVars, skillVars, parsingVars, streamVars>>
       \/ /\ part = "skills" /\ SkillNext
          /\ UNCHANGED <<vars, keyVars, tokenVars, entryVars, mcpVars, parsingVars, streamVars>>
       \/ /\ part = "parsing" /\ ParsingNext
          /\ UNCHANGED <<vars, keyVars, tokenVars, entryVars, mcpVars, skillVars, streamVars>>
       \/ /\ part = "stream" /\ StreamNext
          /\ UNCHANGED <<vars, keyVars, tokenVars, entryVars, mcpVars, skillVars, parsingVars>>

ServiceSpec == ServiceInit /\ [][ServiceNext]_serviceVars

\* For the findings: the tokens, and the agent's runs, alone.
TokensSpec == ServiceInit /\ part = "tokens" /\ [][ServiceNext]_serviceVars
SkillSpec == ServiceInit /\ part = "skills" /\ [][ServiceNext]_serviceVars
================================================================================
