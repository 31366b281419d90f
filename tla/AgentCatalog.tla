---------------------------- MODULE AgentCatalog ----------------------------
(***************************************************************************)
(* The catalogue of agents and skills: the rows of ai_skills,              *)
(* ai_agent_configs, ai_agent_skill_links and ai_agent_grants, the         *)
(* requests that administrators send, the /sync batches that the apps send *)
(* when they start, and the search index every edit is copied to.          *)
(*                                                                         *)
(* A request is one READ COMMITTED transaction: it selects rows in one     *)
(* step and commits in a later one, so other requests commit in between.   *)
(* What it writes is what the ORM writes: the attributes it set, into the  *)
(* row as it is at that time.  One tenant's administrators and apps write; *)
(* Guest is another tenant that may hold a grant.                          *)
(***************************************************************************)
EXTENDS Naturals, FiniteSets, Functions, TLC

CONSTANTS
    SkillIds, AgentIds,  \* primary keys
    Requests,            \* every request of a behaviour, each used once
    Owner, Guest,        \* the tenant that writes, and a grantee
    NoOne,               \* company_id NULL, the owner of a platform row
    NoApp,               \* source_app NULL
    Fresh, Deleted,      \* a key not used yet, the key of a deleted row
    NoLink, Plain,       \* no link; a skill listed without an approval mode
    Modes,               \* approval_mode
    Vals,                \* what the remaining columns hold
    Posts, Patches,      \* the bodies of POST and PATCH that are sent
    Batches,             \* the bodies of POST /sync that are sent
    Starts               \* the catalogues that earlier requests have left

VARIABLES
    row,    \* key -> Fresh, Deleted, or the row
    link,   \* <<agent, skill>> -> NoLink or the approval_mode
    grant,  \* agent -> who pays when Guest runs it: "none", "owner", "grantee"
    doc,    \* key -> what the search index shows, Deleted when nothing
    req     \* request -> how far it is and what it has read
catalogVars == <<row, link, grant, doc, req>>

Ids == SkillIds \cup AgentIds
IdsOf(kind) == IF kind = "skill" THEN SkillIds ELSE AgentIds
Live(i) == row[i] \notin {Fresh, Deleted}
Links == AgentIds \X SkillIds
Idle == [pc |-> "idle", alone |-> TRUE]

Row(n, v, app, scope) ==
    [name |-> n, val |-> v, app |-> app, scope |-> scope,
     owner |-> IF scope = "platform" THEN NoOne ELSE Owner]

SkillRow(n, v, app) == Row(n, v, app, "company")

Scopes == {"company", "shared", "platform"}
Apps == {NoApp} \cup {b.app : b \in Batches}
Rows == [name : STRING, val : Vals, app : Apps, scope : Scopes, owner : {Owner, NoOne}]

(* The CHECK constraint of the migration: no owner exactly when scope is   *)
(* 'platform'.                                                             *)
CheckConstraint(x) == (x.scope = "platform") <=> (x.owner = NoOne)

(* Bodies have the fields of their schemas; what earlier requests have     *)
(* left satisfies the constraints of the tables.                           *)
ASSUME CatalogAssumption ==
    /\ "auto" \in Modes /\ NoLink \notin Modes /\ SkillIds \cap AgentIds = {}
    /\ {Fresh, Deleted} \cap Rows = {}
    /\ Owner # Guest /\ NoOne \notin {Owner, Guest}
    /\ Posts \subseteq [name : STRING, val : Vals, scope : Scopes]
    /\ \A p \in Patches :
          /\ DOMAIN p \subseteq {"name", "val", "scope"}
          /\ "name" \in DOMAIN p => p.name \in STRING
          /\ "val" \in DOMAIN p => p.val \in Vals
          /\ "scope" \in DOMAIN p => p.scope \in Scopes
    /\ \A b \in Batches :
          /\ b.kind \in {"skill", "agent"} /\ b.app # NoApp
          /\ \A n \in DOMAIN b.items :
                /\ n \in STRING /\ b.items[n].val \in Vals
                /\ b.kind = "agent" => \A m \in DOMAIN b.items[n].wants :
                                         b.items[n].wants[m] \in Modes \cup {Plain}
    /\ \A c \in Starts :
          /\ DOMAIN c.rows \subseteq Ids /\ DOMAIN c.links \subseteq Links
          /\ \A i \in DOMAIN c.rows : c.rows[i] \in Rows /\ CheckConstraint(c.rows[i])
          /\ \A l \in DOMAIN c.links : c.links[l] \in Modes /\ {l[1], l[2]} \subseteq DOMAIN c.rows

(* agent_to_doc, skill_to_doc.                                             *)
Doc(x) == [name |-> x.name, val |-> x.val, owner |-> x.owner]

(* A request ends "done" or, with an error for an answer, "failed".        *)
Ended == {"done", "failed"}
Busy(q) == req[q].pc \notin {"idle"} \cup Ended

(* f, over what g holds besides.                                           *)
Onto(f, g) == [x \in DOMAIN f \cup DOMAIN g |-> IF x \in DOMAIN f THEN f[x] ELSE g[x]]

(* r goes to `next`; when it wrote, every other request under way learns   *)
(* that somebody else did.                                                 *)
After(r, next) == IF next.pc \in Ended THEN next ELSE Onto(next, req[r])
Goes(r, next) == req' = [req EXCEPT ![r] = After(r, next)]
Writes(r, next) ==
    req' = [q \in Requests |->
              IF q = r THEN After(r, next)
              ELSE IF Busy(q) THEN [req[q] EXCEPT !.alone = FALSE] ELSE req[q]]

(* The ORM writes the attributes whose value is not the one it had read.   *)
Net(was, set) == [f \in {g \in DOMAIN set : was[g] # set[g]} |-> set[f]]

CatalogInit ==
    /\ req = [r \in Requests |-> Idle]
    /\ doc = [i \in Ids |-> Deleted]
    /\ grant = [a \in AgentIds |-> "none"]
    /\ \E c \in Starts :
         /\ row = Onto(c.rows, [i \in Ids |-> Fresh])
         /\ link = Onto(c.links, [l \in Links |-> NoLink])

-----------------------------------------------------------------------------
(* POST: the row and, for an agent, its links, in one transaction.  The    *)
(* links name skills by key: a key without a row breaks the foreign key    *)
(* and the request writes nothing.                                         *)
PostSkill(r) ==
    /\ req[r].pc = "idle"
    /\ \E s \in SkillIds, p \in Posts :
         /\ row[s] = Fresh
         /\ row' = [row EXCEPT ![s] = SkillRow(p.name, p.val, NoApp)]
         /\ Writes(r, [pc |-> "written", id |-> s])
    /\ UNCHANGED <<link, grant, doc>>

PostAgent(r) ==
    /\ req[r].pc = "idle"
    /\ \E a \in AgentIds, p \in Posts, ss \in SUBSET SkillIds, m \in Modes :
         /\ row[a] = Fresh
         /\ \A s \in ss : Live(s)
         /\ row' = [row EXCEPT ![a] = Row(p.name, p.val, NoApp, p.scope)]
         /\ link' = [l \in Links |-> IF l[1] = a /\ l[2] \in ss THEN m ELSE link[l]]
         /\ Writes(r, [pc |-> "written", id |-> a])
    /\ UNCHANGED <<grant, doc>>

(* PATCH and DELETE select the row by key and company, answer 404 without  *)
(* one and 403 when an app provisions it (_reject_if_managed).             *)
Refused(i) == ~Live(i) \/ row[i].owner # Owner \/ row[i].app # NoApp
FindsRow(r, i, next) ==
    /\ req[r].pc = "idle"
    /\ row[i] # Fresh
    /\ Goes(r, IF Refused(i) THEN [pc |-> "failed"] ELSE Onto([id |-> i, was |-> row[i]], next))
    /\ UNCHANGED <<row, link, grant, doc>>

PatchSkillFinds(r) == \E s \in SkillIds, p \in Patches :
    "scope" \notin DOMAIN p /\ FindsRow(r, s, [pc |-> "patch", patch |-> p, links |-> NoLink])
PatchAgentFinds(r) ==
    \E a \in AgentIds, p \in Patches, ls \in {NoLink} \cup UNION {[ss -> Modes] : ss \in SUBSET SkillIds} :
        FindsRow(r, a, [pc |-> "patch", patch |-> p, links |-> ls])
DeleteSkillFinds(r) == \E s \in SkillIds : FindsRow(r, s, [pc |-> "delete"])
DeleteAgentFinds(r) == \E a \in AgentIds : FindsRow(r, a, [pc |-> "delete"])

(* The commit of a PATCH: the attributes of the body go into the row as it *)
(* is now, and the links are replaced when the body lists skills.  A row   *)
(* that has gone, a skill that has gone or the CHECK constraint fails it.  *)
PatchCommits(r, ids) ==
    LET i == req[r].id  ls == req[r].links  set == Net(req[r].was, req[r].patch) IN
    /\ req[r].pc = "patch" /\ i \in ids
    /\ DOMAIN set # {} => Live(i) /\ CheckConstraint(Onto(set, row[i]))
    /\ ls # NoLink => Live(i) /\ \A s \in DOMAIN ls : Live(s)
    /\ row' = IF DOMAIN set = {} THEN row ELSE [row EXCEPT ![i] = Onto(set, @)]
    /\ link' = [l \in Links |-> IF ls = NoLink \/ l[1] # i THEN link[l]
                                ELSE IF l[2] \in DOMAIN ls THEN ls[l[2]] ELSE NoLink]
    /\ Writes(r, [pc |-> "written"])
    /\ UNCHANGED <<grant, doc>>

PatchSkillCommits(r) == PatchCommits(r, SkillIds)
PatchAgentCommits(r) == PatchCommits(r, AgentIds)

(* The commit of a DELETE; the foreign keys cascade to links and grants.   *)
DeleteCommits(r, ids) ==
    LET i == req[r].id IN
    /\ req[r].pc = "delete" /\ i \in ids
    /\ row' = [row EXCEPT ![i] = Deleted]
    /\ link' = [l \in Links |-> IF i \in {l[1], l[2]} THEN NoLink ELSE link[l]]
    /\ grant' = [a \in AgentIds |-> IF a = i THEN "none" ELSE grant[a]]
    /\ Writes(r, [pc |-> "sending", doc |-> Deleted])
    /\ UNCHANGED doc

DeleteSkillCommits(r) == DeleteCommits(r, SkillIds)
DeleteAgentCommits(r) == DeleteCommits(r, AgentIds)

(* Any error of the database rolls the transaction back.                   *)
RollsBack(r) ==
    /\ req[r].pc \in {"patch", "delete", "sync", "resolved"}
    /\ Goes(r, [pc |-> "failed"])
    /\ UNCHANGED <<row, link, grant, doc>>

-----------------------------------------------------------------------------
(* After the commit the row is read again; index_doc and delete_doc then   *)
(* reach the search index, or are lost: errors are logged and swallowed.   *)
ReadsBackEarly(r) == \* mutant: indexes the row as it was selected
    /\ req[r].pc = "written"
    /\ Goes(r, IF "was" \in DOMAIN req[r] THEN [pc |-> "sending", doc |-> Doc(req[r].was)]
               ELSE [pc |-> "failed"])
    /\ UNCHANGED <<row, link, grant, doc>>

ReadsBack(r) ==
    /\ req[r].pc = "written"
    /\ Goes(r, IF Live(req[r].id) THEN [pc |-> "sending", doc |-> Doc(row[req[r].id])]
               ELSE [pc |-> "failed"])
    /\ UNCHANGED <<row, link, grant, doc>>

DocArrives(r) ==
    /\ req[r].pc = "sending"
    /\ doc' = [doc EXCEPT ![req[r].id] = req[r].doc]
    /\ Writes(r, [pc |-> "done"])
    /\ UNCHANGED <<row, link, grant>>

DocIsLost(r) ==
    /\ req[r].pc = "sending"
    /\ Goes(r, [pc |-> "done"])
    /\ UNCHANGED <<row, link, grant, doc>>

-----------------------------------------------------------------------------
(* POST /sync of an app.  The rows of the batch's names are looked up in   *)
(* one SELECT; a row that another app owns refuses the whole batch (409).  *)
(* by_name keeps one row of each name: of duplicates, any.                 *)
Hits(b) == {i \in IdsOf(b.kind) :
              Live(i) /\ row[i].owner = Owner /\ row[i].name \in DOMAIN b.items}
ConflictByName(b) == FALSE \* mutant: the name alone decides
Conflict(b) == \E i \in Hits(b) : row[i].app \notin {NoApp, b.app}
ByName(kind, names) ==
    {f \in [names -> {i \in IdsOf(kind) : Live(i)}] :
        \A n \in names : row[f[n]].name = n /\ row[f[n]].owner = Owner}
NamesOf(b) == {row[i].name : i \in Hits(b)}

SyncFinds(r, kind) ==
    /\ req[r].pc = "idle"
    /\ \E b \in {c \in Batches : c.kind = kind} :
         IF Conflict(b) THEN Goes(r, [pc |-> "failed"])
         ELSE \E f \in ByName(b.kind, NamesOf(b)) :
                Goes(r, [pc |-> "sync", batch |-> b, found |-> f,
                         was |-> [i \in Range(f) |-> row[i]],
                         had |-> [l \in {k \in Links : k[1] \in Range(f)} |-> link[l]]])
    /\ UNCHANGED <<row, link, grant, doc>>

SyncSkillsFinds(r) == SyncFinds(r, "skill")
SyncAgentsFinds(r) == SyncFinds(r, "agent")

(* The attributes of a found row that the batch changes; source_app is     *)
(* backfilled on a row that no app owned.                                  *)
Diff(x, item, app) == Net(x, [val |-> item.val, app |-> app])

(* The rows a sync leaves: found rows with their changes, and a new row    *)
(* for every name without one.                                             *)
Upserted(r, ids) ==
    LET q == req[r]  b == q.batch
        change == [i \in Range(q.found) |-> Diff(q.was[i], b.items[q.was[i].name], b.app)]
    IN  [i \in Ids |->
           IF i \in Range(q.found) /\ DOMAIN change[i] # {} THEN Onto(change[i], row[i])
           ELSE IF i \in Range(ids)
                THEN LET n == CHOOSE n \in DOMAIN ids : ids[n] = i
                     IN  Row(n, b.items[n].val, b.app, "company")
                ELSE row[i]]
NewIds(r) ==
    LET names == DOMAIN req[r].batch.items \ DOMAIN req[r].found
    IN  Injection(names, {i \in IdsOf(req[r].batch.kind) : row[i] = Fresh})

(* An UPDATE of a row deleted meanwhile matches no row and raises.         *)
StillThere(r) ==
    \A i \in Range(req[r].found) :
        \/ Live(i)
        \/ DOMAIN Diff(req[r].was[i], req[r].batch.items[req[r].was[i].name], req[r].batch.app) = {}

SyncSkillsCommits(r) ==
    /\ req[r].pc = "sync" /\ req[r].batch.kind = "skill"
    /\ StillThere(r)
    /\ \E ids \in NewIds(r) : row' = Upserted(r, ids)
    /\ Writes(r, [pc |-> "done"])
    /\ UNCHANGED <<link, grant, doc>>

(* A sync of agents then looks up every skill the batch names, again       *)
(* keeping one row of each name; a name without a row is reported as       *)
(* unresolved.                                                             *)
SyncAgentsResolves(r) ==
    LET wanted == UNION {DOMAIN req[r].batch.items[n].wants : n \in DOMAIN req[r].batch.items}
        there == {n \in wanted : \E s \in SkillIds : Live(s) /\ row[s].owner = Owner /\ row[s].name = n}
    IN
    /\ req[r].pc = "sync" /\ req[r].batch.kind = "agent"
    /\ \E f \in ByName("skill", there) : Goes(r, [pc |-> "resolved", skill |-> f])
    /\ UNCHANGED <<row, link, grant, doc>>

(* The links an item asks for: skill -> Plain or a mode.                   *)
Asked(q, n) ==
    LET w == q.batch.items[n].wants
        names == DOMAIN w \cap DOMAIN q.skill
    IN  [s \in {q.skill[m] : m \in names} |-> w[CHOOSE m \in names : q.skill[m] = s]]
ModeOf(m) == IF m = Plain THEN "auto" ELSE m

(* The links of a found agent are replaced when the set of skills differs  *)
(* or a listed mode does; a skill listed without a mode keeps its own.     *)
LinksChangeSets(q, a, asked) == \* mutant: the modes are not compared
    {s \in SkillIds : q.had[<<a, s>>] # NoLink} # DOMAIN asked
LinksChange(q, a, asked) ==
    \/ {s \in SkillIds : q.had[<<a, s>>] # NoLink} # DOMAIN asked
    \/ \E s \in DOMAIN asked : asked[s] \notin {Plain, q.had[<<a, s>>]}

(* The rows a sync relinks: the agents it creates, and the found ones      *)
(* whose links change.                                                     *)
Relinked(q, of) ==
    {n \in DOMAIN of : n \in DOMAIN q.found => LinksChange(q, of[n], Asked(q, n))}

SyncAgentsCommits(r) ==
    LET q == req[r] IN
    /\ q.pc = "resolved"
    /\ StillThere(r)
    /\ \E ids \in NewIds(r) :
         LET of == Onto(ids, q.found)
             names == Relinked(q, of)
         IN  /\ \A n \in names : (n \in DOMAIN q.found => Live(of[n])) /\ \A s \in DOMAIN Asked(q, n) : Live(s)
             (* The links it read are deleted; one it did not read and       *)
             (* inserts again breaks the primary key.                        *)
             /\ \A n \in names \cap DOMAIN q.found : \A s \in DOMAIN Asked(q, n) :
                    link[<<of[n], s>>] # NoLink => q.had[<<of[n], s>>] # NoLink
             /\ row' = Upserted(r, ids)
             /\ link' = [l \in Links |->
                   IF \E n \in names : of[n] = l[1]
                   THEN LET n == CHOOSE m \in names : of[m] = l[1] IN
                        IF l[2] \in DOMAIN Asked(q, n) THEN ModeOf(Asked(q, n)[l[2]])
                        ELSE IF n \in DOMAIN q.found /\ q.had[l] = NoLink THEN link[l]
                        ELSE NoLink
                   ELSE link[l]]
    /\ Writes(r, [pc |-> "done"])
    /\ UNCHANGED <<grant, doc>>

-----------------------------------------------------------------------------
(* visible_agent_filter, and who pays for a run (resolve_agent_api_key):   *)
(* the grant is read after the agent was.                                  *)
Visible(a, c) ==
    /\ Live(a)
    /\ \/ row[a].scope = "platform"
       \/ row[a].owner = c
       \/ row[a].scope = "shared" /\ c = Guest /\ grant[a] # "none"

RunFinds(r) ==
    /\ req[r].pc = "idle"
    /\ \E a \in AgentIds, c \in {Owner, Guest} :
         /\ Visible(a, c)
         /\ Goes(r, [pc |-> "run", id |-> a, by |-> c, agent |-> row[a]])
    /\ UNCHANGED <<row, link, grant, doc>>

PayerCaller(agent, c, pays) == \* mutant: without a grant the caller pays
    IF agent.scope = "platform" THEN NoOne
    ELSE IF agent.scope = "shared" /\ pays # "owner" THEN c
    ELSE agent.owner
Payer(agent, c, pays) ==
    IF agent.scope = "platform" THEN NoOne
    ELSE IF agent.scope = "shared" /\ pays = "grantee" THEN c
    ELSE agent.owner

RunBills(r) ==
    LET q == req[r]
        pays == IF q.by = Guest THEN grant[q.id] ELSE "none"
    IN
    /\ q.pc = "run"
    /\ Goes(r, [pc |-> "done", payer |-> Payer(q.agent, q.by, pays)])
    /\ UNCHANGED <<row, link, grant, doc>>

(* External: the host's sharing screens write the grants.                  *)
SetGrant(a, g) ==
    /\ Live(a) /\ row[a].scope = "shared"
    /\ grant' = [grant EXCEPT ![a] = g]
    /\ UNCHANGED <<row, link, doc, req>>

Step(r) ==
    \/ PostSkill(r) \/ PatchSkillFinds(r) \/ DeleteSkillFinds(r)
    \/ PostAgent(r) \/ PatchAgentFinds(r) \/ DeleteAgentFinds(r)
    \/ PatchSkillCommits(r) \/ DeleteSkillCommits(r)
    \/ PatchAgentCommits(r) \/ DeleteAgentCommits(r) \/ RollsBack(r)
    \/ ReadsBack(r) \/ DocArrives(r) \/ DocIsLost(r)
    \/ SyncSkillsFinds(r) \/ SyncSkillsCommits(r)
    \/ SyncAgentsFinds(r) \/ SyncAgentsResolves(r) \/ SyncAgentsCommits(r)
    \/ RunFinds(r) \/ RunBills(r)

CatalogNext ==
    \/ \E r \in Requests : Step(r)
    \/ \E a \in AgentIds, g \in {"none", "owner", "grantee"} : grant[a] # g /\ SetGrant(a, g)

CatalogSpec == CatalogInit /\ [][CatalogNext]_catalogVars

-----------------------------------------------------------------------------
(* The tables are as their constraints say: a link joins two rows, only a  *)
(* platform row has no owner, and what has no row has no grant.            *)
CatalogTypeOK ==
    /\ \A i \in Ids : Live(i) => CheckConstraint(row[i]) /\ row[i].val \in Vals
    /\ \A l \in Links : link[l] \in Modes \cup {NoLink} /\ (link[l] # NoLink => Live(l[1]) /\ Live(l[2]))
    /\ \A a \in AgentIds : grant[a] # "none" => Live(a)

(* r commits its sync of b in this step, and nobody wrote since it began.  *)
SyncsAlone(r, b) ==
    /\ req[r].pc \in {"sync", "resolved"} /\ req'[r].pc = "done"
    /\ req[r].alone /\ req[r].batch = b

Called(kind, n) == {i \in IdsOf(kind) : Live(i) /\ row[i].owner = Owner /\ row[i].name = n}
NoTwins(kind) == \A i, j \in {k \in IdsOf(kind) : Live(k) /\ row[k].owner = Owner} :
    row[i].name = row[j].name => i = j

(* What a batch asks for is what the tables hold: every name has a row     *)
(* with the batch's fields and app, and an agent's links are exactly the   *)
(* skills of the listed names that have a row, with the listed modes.      *)
Holds(b) ==
    \A n \in DOMAIN b.items : \E i \in Called(b.kind, n) :
        /\ row[i].val = b.items[n].val /\ row[i].app = b.app
        /\ b.kind = "agent" =>
             LET w == b.items[n].wants  linked == {s \in SkillIds : link[<<i, s>>] # NoLink}
             IN  /\ \A s \in linked : row[s].name \in DOMAIN w
                 /\ \A m \in DOMAIN w : Called("skill", m) # {} =>
                       \E s \in linked \cap Called("skill", m) : w[m] \in {Plain, link[<<i, s>>]}

(* Sending the same batch again would find nothing to change.              *)
Unchanged(b) ==
    \A f \in ByName(b.kind, DOMAIN b.items) :
        /\ \A n \in DOMAIN f : DOMAIN Diff(row[f[n]], b.items[n], b.app) = {}
        /\ b.kind = "agent" =>
             LET named == UNION {DOMAIN b.items[n].wants : n \in DOMAIN b.items}
             IN  \A g \in ByName("skill", {m \in named : Called("skill", m) # {}}), n \in DOMAIN f :
                   ~LinksChange([batch |-> b, skill |-> g, had |-> link], f[n],
                                Asked([batch |-> b, skill |-> g], n))

(* A sync that no other writer overlapped leaves what its batch asks for,  *)
(* and, where no name has two rows, the same batch sent again is reported  *)
(* unchanged.                                                              *)
SoloSyncSettles ==
    [][\A r \in Requests, b \in Batches : SyncsAlone(r, b) =>
         /\ Holds(b)'
         /\ NoTwins("skill")' /\ NoTwins("agent")' => Unchanged(b)']_catalogVars

(* A row that an app provisions is written only by a sync of that app, or  *)
(* by a request that had read the row before somebody's commit: the 403    *)
(* and the 409 are decided on what was read, not on what is there.         *)
ManagedRowsAreTheirApps ==
    [][\A i \in Ids : Live(i) /\ row[i].app # NoApp /\ row'[i] # row[i] =>
         \E r \in Requests : /\ req'[r] # req[r]
                             /\ \/ ~req[r].alone
                                \/ req[r].pc \in {"sync", "resolved"} /\ req[r].batch.app = row[i].app]_catalogVars

(* When the document of an edit reaches the index and nobody else wrote    *)
(* since the edit began, the index shows the row as it is: what was        *)
(* committed, and nothing for a deleted row.                               *)
IndexedAsCommitted ==
    [][\A r \in Requests : req[r].pc = "sending" /\ req[r].alone /\ req'[r].pc = "done" /\ doc' # doc =>
           doc'[req[r].id] = IF Live(req[r].id) THEN Doc(row[req[r].id]) ELSE Deleted]_catalogVars

(* The tables stay sound (no link without its agent and its skill, no row  *)
(* of nobody's) and the index follows them.                                *)
TablesAndIndexAgree == []CatalogTypeOK /\ IndexedAsCommitted

(* A run is billed to the tenant that owns the agent, to nobody for a      *)
(* platform agent, and to the grantee only while a grant says it pays,     *)
(* also when the grant is withdrawn between the two reads.                 *)
OnlyPartiesPay ==
    [][\A r \in Requests : req[r].pc = "run" /\ req'[r].pc = "done" =>
         CASE req'[r].payer = Guest -> grant[req[r].id] = "grantee" /\ req[r].by = Guest
           [] req'[r].payer = NoOne -> req[r].agent.owner = NoOne
           [] OTHER -> req'[r].payer = req[r].agent.owner]_catalogVars
=============================================================================
