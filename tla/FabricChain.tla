----------------------------- MODULE FabricChain -----------------------------
(***************************************************************************)
(* From Fabric's workspace to the topology specialist, by five scripts run *)
(* one after another: create_fabric_ontology (workspace, lakehouse tables, *)
(* ontology), create_fabric_graph (the graph the ontology brings along),   *)
(* create_fabric_data_agent (an agent that queries the graph, published),  *)
(* create_fabric_iq_connection (Foundry's connection to the agent's URL)   *)
(* and create_foundry_agents (a specialist's version with that URL).       *)
(* delete_fabric_workspace takes everything in Fabric away again.  What a  *)
(* script found is handed on through .env; any of them may end at any call *)
(* and be run again, and users work on the same items in the portal.       *)
(***************************************************************************)
EXTENDS Naturals, FiniteSets

CONSTANTS
  LakeTable,      \* the tables of data/ontology_entities
  MaxWorkspaces,  \* bound: workspaces ever made
  MaxAgents,      \* bound: data agents ever made
  MaxChainRuns    \* bound: script runs

ASSUME ChainAssumption ==
  IsFiniteSet(LakeTable) /\ {MaxWorkspaces, MaxAgents, MaxChainRuns} \subseteq Nat

Nothing == 0
Scripts == {"ontology", "graph", "agent", "connection", "specialists"}

VARIABLES
  spaces,     \* the workspaces that exist, with what is in them
  made,       \* [spaces, agents] made so far
  env,        \* .env: [space, ontology, agentUrl], named by workspace or agent
  target,     \* the agent fabric-iq-connection points to
  version,    \* the agent the specialist's latest version points to
  chain,      \* the script that runs: [name, pc, todo]
  chainRuns,
  current,    \* ghost: how far the chain has been run since anything upstream changed
  attached    \* ghost: a user attached a source since the run removed the others

chainVars == <<spaces, made, env, target, version, chain, chainRuns, current, attached>>

(* A workspace: lakehouse tables loaded, the ontology (none, made, bound), *)
(* its graph and another user's (none, empty or theirs, ours), the data    *)
(* agent with its staged and published sources; a source is "graph",       *)
(* "guided graph" once it has its instructions, or "other".                *)
NewSpace == [loaded |-> {}, ontology |-> "none", graph |-> "none", otherGraph |-> "theirs",
             agent |-> Nothing, staged |-> {}, published |-> {}]

ChainInit ==
  /\ spaces = [w \in {} |-> NewSpace]
  /\ made = [spaces |-> 0, agents |-> 0]
  /\ env = [space |-> Nothing, ontology |-> Nothing, agentUrl |-> Nothing]
  /\ target = Nothing /\ version = Nothing
  /\ chain = [name |-> "none", pc |-> "idle", todo |-> {}]
  /\ chainRuns = 0 /\ current = 0 /\ attached = FALSE

AtStep(name, pc) == chain.name = name /\ chain.pc = pc
ChainGoes(pc) == chain' = [chain EXCEPT !.pc = pc]
InSpace == env.space \in DOMAIN spaces
Here == spaces[env.space]
Change(field, value) == spaces' = [spaces EXCEPT ![env.space][field] = value]

StartScript ==
  /\ chain.pc \in {"idle", "done", "failed"} /\ chainRuns < MaxChainRuns
  /\ chainRuns' = chainRuns + 1
  /\ \E name \in Scripts : chain' = [name |-> name, pc |-> "start", todo |-> LakeTable]
  /\ UNCHANGED <<spaces, made, env, target, version, current, attached>>

ChainScriptEnds ==
  /\ chain.pc \notin {"idle", "done", "failed"}
  /\ ChainGoes("failed")
  /\ UNCHANGED <<spaces, made, env, target, version, chainRuns, current, attached>>

-----------------------------------------------------------------------------
(* create_fabric_ontology.py                                               *)

\* A workspace with a fresh name unless .env names one; recorded one step later.
CreateWorkspace ==
  /\ AtStep("ontology", "start")
  /\ \/ env.space # Nothing /\ ChainGoes("tables") /\ UNCHANGED <<spaces, made>>
     \/ /\ env.space = Nothing /\ made.spaces < MaxWorkspaces
        /\ made' = [made EXCEPT !.spaces = @ + 1]
        /\ spaces' = [w \in DOMAIN spaces \cup {made'.spaces} |->
                        IF w = made'.spaces THEN NewSpace ELSE spaces[w]]
        /\ ChainGoes("record workspace")
  /\ UNCHANGED <<env, target, version, chainRuns, current, attached>>

RecordWorkspace ==
  /\ AtStep("ontology", "record workspace")
  /\ env' = [env EXCEPT !.space = made.spaces]
  /\ ChainGoes("tables")
  /\ UNCHANGED <<spaces, made, target, version, chainRuns, current, attached>>

\* A load that Fabric refuses is logged, and the next table follows.
LoadTable ==
  /\ AtStep("ontology", "tables") /\ InSpace /\ chain.todo # {}
  /\ \E t \in chain.todo :
       /\ chain' = [chain EXCEPT !.todo = @ \ {t}]
       /\ \/ Change("loaded", Here.loaded \cup {t})
          \/ UNCHANGED spaces
  /\ UNCHANGED <<made, env, target, version, chainRuns, current, attached>>

\* By the id in .env, which must exist, else by name, else a new one.
CreateOrGetOntology ==
  /\ AtStep("ontology", "tables") /\ InSpace /\ chain.todo = {}
  /\ env.ontology \in {Nothing, env.space}
  /\ \/ Here.ontology = "none" /\ env.ontology = Nothing /\ Change("ontology", "made")
     \/ Here.ontology # "none" /\ UNCHANGED spaces
  /\ ChainGoes("definition")
  /\ UNCHANGED <<made, env, target, version, chainRuns, current, attached>>

UpdateOntologyDefinition ==
  /\ AtStep("ontology", "definition") /\ InSpace
  /\ Change("ontology", "bound")
  /\ ChainGoes("record ontology")
  /\ UNCHANGED <<made, env, target, version, chainRuns, current, attached>>

RecordOntology ==
  /\ AtStep("ontology", "record ontology")
  /\ env' = [env EXCEPT !.ontology = env.space]
  /\ ChainGoes("done")
  /\ UNCHANGED <<spaces, made, target, version, chainRuns, current, attached>>

\* Fabric provides the ontology's graph some time after the ontology.
GraphAppears(w) ==
  /\ w \in DOMAIN spaces
  /\ spaces[w].ontology # "none" /\ spaces[w].graph = "none"
  /\ spaces' = [spaces EXCEPT ![w].graph = "empty"]
  /\ UNCHANGED <<made, env, target, version, chain, chainRuns, current, attached>>

-----------------------------------------------------------------------------
(* create_fabric_graph.py: the ontology's graph, or else any graph there   *)
(* is, gets the definition, which is then read back.                       *)

UpdateGraphModelDefinition ==
  /\ AtStep("graph", "start") /\ InSpace
  /\ IF Here.graph # "none" THEN Change("graph", "ours") ELSE Change("otherGraph", "ours")
  /\ ChainGoes("verify")
  /\ UNCHANGED <<made, env, target, version, chainRuns, current, attached>>

VerifyDefinition ==
  /\ AtStep("graph", "verify") /\ InSpace
  /\ ChainGoes("done")
  /\ UNCHANGED <<spaces, made, env, target, version, chainRuns, current, attached>>

-----------------------------------------------------------------------------
(* create_fabric_data_agent.py                                             *)

\* By name, else a new one; its general instructions are patched next.
GetOrCreateDataAgent ==
  /\ AtStep("agent", "start") /\ InSpace
  /\ \/ Here.agent # Nothing /\ UNCHANGED <<spaces, made, current>>
     \/ /\ Here.agent = Nothing /\ made.agents < MaxAgents
        /\ made' = [made EXCEPT !.agents = @ + 1]
        /\ Change("agent", made'.agents)
        /\ current' = 0
  /\ ChainGoes("remove")
  /\ UNCHANGED <<env, target, version, chainRuns, attached>>

\* The ontology's graph must be there; every other source is detached.
RemoveOtherDatasources ==
  /\ AtStep("agent", "remove") /\ InSpace /\ Here.agent # Nothing
  /\ Here.graph # "none"
  /\ Change("staged", Here.staged \ {"other"})
  /\ attached' = FALSE
  /\ ChainGoes("add")
  /\ UNCHANGED <<made, env, target, version, chainRuns, current>>

AddFabricItemDatasource ==
  /\ AtStep("agent", "add") /\ InSpace /\ Here.agent # Nothing
  /\ IF Here.staged \cap {"graph", "guided graph"} = {}
     THEN Change("staged", Here.staged \cup {"graph"}) ELSE UNCHANGED spaces
  /\ ChainGoes("configure")
  /\ UNCHANGED <<made, env, target, version, chainRuns, current, attached>>

ConfigureDatasource ==
  /\ AtStep("agent", "configure") /\ InSpace /\ Here.agent # Nothing
  /\ Here.staged \cap {"graph", "guided graph"} # {}
  /\ Change("staged", (Here.staged \ {"graph"}) \cup {"guided graph"})
  /\ ChainGoes("publish")
  /\ UNCHANGED <<made, env, target, version, chainRuns, current, attached>>

\* Mutant of Publish: what is staged is published before it is configured.
PublishEarly ==
  /\ AtStep("agent", "configure") /\ InSpace /\ Here.agent # Nothing
  /\ Change("published", Here.staged)
  /\ ChainGoes("record agent")
  /\ UNCHANGED <<made, env, target, version, chainRuns, current, attached>>

Publish ==
  /\ AtStep("agent", "publish") /\ InSpace /\ Here.agent # Nothing
  /\ Change("published", Here.staged)
  /\ ChainGoes("record agent")
  /\ UNCHANGED <<made, env, target, version, chainRuns, current, attached>>

RecordDataAgent ==
  /\ AtStep("agent", "record agent")
  /\ InSpace
  /\ env' = [env EXCEPT !.agentUrl = Here.agent]
  /\ ChainGoes("done")
  /\ current' = IF Here.agent # Nothing /\ current = 0 THEN 1 ELSE current
  /\ UNCHANGED <<spaces, made, target, version, chainRuns, attached>>

-----------------------------------------------------------------------------
(* create_fabric_iq_connection.py and create_foundry_agents.py: what is    *)
(* there is left alone if it is as wanted, else replaced.                  *)

\* Mutant of PutFabricIqConnection: an existing connection is never replaced.
PutFabricIqConnectionOnce ==
  /\ AtStep("connection", "start") /\ env.agentUrl # Nothing
  /\ target' = IF target = Nothing THEN env.agentUrl ELSE target
  /\ ChainGoes("done")
  /\ current' = IF current = 1 THEN 2 ELSE current
  /\ UNCHANGED <<spaces, made, env, version, chainRuns, attached>>

PutFabricIqConnection ==
  /\ AtStep("connection", "start") /\ env.agentUrl # Nothing
  /\ target' = env.agentUrl
  /\ ChainGoes("done")
  /\ current' = IF current = 1 THEN 2 ELSE current
  /\ UNCHANGED <<spaces, made, env, version, chainRuns, attached>>

EnsureSpecialistAgent ==
  /\ AtStep("specialists", "start") /\ target # Nothing
  /\ version' = target
  /\ ChainGoes("done")
  /\ current' = IF current = 2 THEN 3 ELSE current
  /\ UNCHANGED <<spaces, made, env, target, chainRuns, attached>>

-----------------------------------------------------------------------------
(* The operator and other users.                                           *)

\* delete_fabric_workspace.py --yes; .env goes on naming what is gone.
DeleteWorkspace ==
  /\ chain.pc \in {"idle", "done", "failed"} /\ InSpace
  /\ spaces' = [w \in DOMAIN spaces \ {env.space} |-> spaces[w]]
  /\ current' = 0
  /\ UNCHANGED <<made, env, target, version, chain, chainRuns, attached>>

\* The operator clears the names of what is gone.
ClearEnv ==
  /\ chain.pc \in {"idle", "done", "failed"}
  /\ env.space # Nothing /\ ~InSpace
  /\ env' = [space |-> Nothing, ontology |-> Nothing, agentUrl |-> env.agentUrl]
  /\ UNCHANGED <<spaces, made, target, version, chain, chainRuns, current, attached>>

DeleteDataAgent(w) ==
  /\ w \in DOMAIN spaces /\ spaces[w].agent # Nothing
  /\ spaces' = [spaces EXCEPT ![w].agent = Nothing, ![w].staged = {}, ![w].published = {}]
  /\ current' = 0
  /\ UNCHANGED <<made, env, target, version, chain, chainRuns, attached>>

AttachSource(w) ==
  /\ w \in DOMAIN spaces /\ spaces[w].agent # Nothing /\ "other" \notin spaces[w].staged
  /\ spaces' = [spaces EXCEPT ![w].staged = @ \cup {"other"}]
  /\ attached' = TRUE
  /\ UNCHANGED <<made, env, target, version, chain, chainRuns, current>>

ChainNext ==
  \/ StartScript \/ ChainScriptEnds
  \/ CreateWorkspace \/ RecordWorkspace \/ LoadTable \/ CreateOrGetOntology
  \/ UpdateOntologyDefinition \/ RecordOntology
  \/ UpdateGraphModelDefinition \/ VerifyDefinition
  \/ GetOrCreateDataAgent \/ RemoveOtherDatasources \/ AddFabricItemDatasource
  \/ ConfigureDatasource \/ Publish \/ RecordDataAgent
  \/ PutFabricIqConnection \/ EnsureSpecialistAgent
  \/ DeleteWorkspace \/ ClearEnv
  \/ \E w \in 1 .. MaxWorkspaces : GraphAppears(w) \/ DeleteDataAgent(w) \/ AttachSource(w)

ChainSpec == ChainInit /\ [][ChainNext]_chainVars

-----------------------------------------------------------------------------
(* Properties.                                                             *)

(* What users query is never a half-made agent: whatever broke off in      *)
(* between, a published agent has the guided graph and never the bare one; *)
(* and what a run has just published has no other source, but for one that *)
(* was attached after the run had removed them.                            *)
PublishedIsWhole ==
  /\ \A w \in DOMAIN spaces :
       LET published == spaces[w].published
       IN published # {} => "guided graph" \in published /\ "graph" \notin published
  /\ AtStep("agent", "record agent") /\ InSpace /\ "other" \in Here.published => attached

(* Once the last three scripts have succeeded in their order, after the    *)
(* data agent was made and with nothing deleted since, the specialist asks *)
(* the agent that exists.                                                  *)
ChainIsFresh ==
  current = 3 => InSpace /\ Here.agent # Nothing
                 /\ version = Here.agent /\ target = Here.agent /\ env.agentUrl = Here.agent
=============================================================================
