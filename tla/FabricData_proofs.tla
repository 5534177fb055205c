-------------------------- MODULE FabricData_proofs --------------------------
(***************************************************************************)
(* Proofs about the Fabric scripts, for any number of workspaces, agents,  *)
(* tables, rows and runs: what is published is whole, a chain that was run *)
(* in its order ends at the agent that exists, and a seeding that saw      *)
(* every file through leaves exactly the rows it was given.                *)
(***************************************************************************)
EXTENDS FabricChain, EventhouseSeed, TLAPS

-----------------------------------------------------------------------------
(* From the tables to the published agent, FabricChain.                    *)
USE ChainAssumption

IsSpace(s) ==
  s = [loaded |-> s.loaded, ontology |-> s.ontology, graph |-> s.graph,
       otherGraph |-> s.otherGraph, agent |-> s.agent, staged |-> s.staged,
       published |-> s.published]

(* Workspaces are numbered from 1, 0 stands for none.                      *)
Shapes ==
  /\ spaces = [w \in DOMAIN spaces |-> spaces[w]]
  /\ \A w \in DOMAIN spaces : IsSpace(spaces[w])
  /\ Nothing \notin DOMAIN spaces
  /\ made = [spaces |-> made.spaces, agents |-> made.agents]
  /\ made.spaces \in Nat /\ made.agents \in Nat
  /\ env = [space |-> env.space, ontology |-> env.ontology, agentUrl |-> env.agentUrl]
  /\ chain = [name |-> chain.name, pc |-> chain.pc, todo |-> chain.todo]
  /\ current \in {0, 1, 2, 3}

(* What is published is whole, and what is about to be published: while    *)
(* the agent is there, its sources are as far as the script has brought    *)
(* them.                                                                   *)
PublishedSo(s) ==
  s.published # {} => "guided graph" \in s.published /\ "graph" \notin s.published

StagedSo(s) ==
  /\ chain.pc \in {"add", "configure", "publish"} /\ s.agent # Nothing /\ "other" \in s.staged
       => attached
  /\ chain.pc = "publish" /\ s.agent # Nothing
       => "guided graph" \in s.staged /\ "graph" \notin s.staged
  /\ chain.pc = "record agent" /\ "other" \in s.published => attached

Staging ==
  /\ \A w \in DOMAIN spaces : PublishedSo(spaces[w])
  /\ chain.name = "agent" /\ InSpace => StagedSo(Here)

(* How far the chain is current: recorded, connected, asked.               *)
Following ==
  /\ current # 0 => InSpace /\ Here.agent # Nothing /\ env.agentUrl = Here.agent
  /\ current = 2 \/ current = 3 => target = env.agentUrl
  /\ current = 3 => version = target

(* A new workspace is made only while .env names none.                     *)
Naming == AtStep("ontology", "record workspace") => env.space = Nothing

ChainInv == Shapes /\ Staging /\ Following /\ Naming

LEMMA ChainInitially == ChainInit => ChainInv
<1> SUFFICES ASSUME ChainInit PROVE ChainInv
  OBVIOUS
<1>1. Shapes
  <2>1. DOMAIN spaces = {} /\ spaces = [w \in DOMAIN spaces |-> spaces[w]]
    BY DEF ChainInit
  <2>2. made.spaces = 0 /\ made.agents = 0
        /\ made = [spaces |-> made.spaces, agents |-> made.agents]
    BY DEF ChainInit
  <2> QED
    BY <2>1, <2>2 DEF Shapes, ChainInit
<1>2. Staging /\ Following /\ Naming
  BY DEF ChainInit, Staging, Following, Naming, InSpace, AtStep, Nothing
<1> QED
  BY <1>1, <1>2 DEF ChainInv

(* Steps that change neither sources nor agents nor what is recorded: the  *)
(* workspaces that are there keep theirs, and the script moves on.         *)
LEMMA OtherStepsKeep ==
  ASSUME ChainInv, Shapes',
         UNCHANGED <<target, version, current, attached>>,
         env'.agentUrl = env.agentUrl,
         env'.space = env.space \/ current = 0,
         DOMAIN spaces' = DOMAIN spaces,
         \A w \in DOMAIN spaces : /\ spaces'[w].agent = spaces[w].agent
                                  /\ spaces'[w].staged = spaces[w].staged
                                  /\ spaces'[w].published = spaces[w].published,
         \/ chain' = chain /\ env' = env
         \/ /\ chain'.pc \notin {"add", "configure", "publish", "record agent"}
            /\ chain'.pc # "record workspace"
  PROVE  ChainInv'
<1>1. Staging'
  <2>1. \A w \in DOMAIN spaces' : PublishedSo(spaces'[w])
    BY DEF ChainInv, Staging, PublishedSo
  <2>2. CASE chain' = chain /\ env' = env
    BY <2>1, <2>2 DEF ChainInv, Staging, InSpace, Here, StagedSo, PublishedSo
  <2>3. CASE chain'.pc \notin {"add", "configure", "publish", "record agent"}
    BY <2>1, <2>3 DEF Staging, StagedSo, PublishedSo
  <2> QED
    BY <2>2, <2>3
<1>2. Following'
  <2>1. current' = current /\ target' = target /\ version' = version /\ env'.agentUrl = env.agentUrl
    OBVIOUS
  <2>2. current # 0 => env'.space = env.space /\ InSpace'
    BY DEF ChainInv, Following, InSpace
  <2>3. current # 0 => Here'.agent = Here.agent
    BY <2>2 DEF ChainInv, Following, InSpace, Here
  <2> QED
    BY <2>1, <2>2, <2>3 DEF ChainInv, Following
<1>3. Naming'
  BY DEF ChainInv, Naming, AtStep
<1> QED
  BY <1>1, <1>2, <1>3 DEF ChainInv

(* The script moves on.                                                    *)
LEMMA ChainMoves ==
  ASSUME Shapes, NEW pc, ChainGoes(pc)
  PROVE  /\ chain'.pc = pc /\ chain'.name = chain.name
         /\ chain' = [name |-> chain'.name, pc |-> chain'.pc, todo |-> chain'.todo]
  BY DEF Shapes, ChainGoes

(* The workspace at hand changes, in its sources or its agent or neither.  *)
LEMMA SpaceBecomes ==
  ASSUME Shapes, InSpace, NEW s, IsSpace(s), spaces' = [spaces EXCEPT ![env.space] = s]
  PROVE  /\ spaces' = [w \in DOMAIN spaces' |-> spaces'[w]]
         /\ DOMAIN spaces' = DOMAIN spaces
         /\ \A w \in DOMAIN spaces' : IsSpace(spaces'[w])
         /\ spaces'[env.space] = s
         /\ \A w \in DOMAIN spaces : w # env.space => spaces'[w] = spaces[w]
  BY DEF Shapes, InSpace

LEMMA ItemChanges ==
  ASSUME Shapes, InSpace, NEW value,
         NEW field \in {"loaded", "ontology", "graph", "otherGraph"},
         Change(field, value)
  PROVE  /\ spaces' = [w \in DOMAIN spaces' |-> spaces'[w]]
         /\ DOMAIN spaces' = DOMAIN spaces
         /\ \A w \in DOMAIN spaces' :
              /\ IsSpace(spaces'[w])
              /\ spaces'[w].agent = spaces[w].agent
              /\ spaces'[w].staged = spaces[w].staged
              /\ spaces'[w].published = spaces[w].published
<1> DEFINE s == [Here EXCEPT ![field] = value]
<1>1. spaces' = [spaces EXCEPT ![env.space] = s]
  BY DEF Change, Here
<1>2. IsSpace(Here)
  BY DEF Shapes, InSpace, Here
<1>3. IsSpace(s) /\ s.agent = Here.agent /\ s.staged = Here.staged /\ s.published = Here.published
  <2>1. CASE field = "loaded"
    <3>1. s = [Here EXCEPT !.loaded = value]
      BY <2>1
    <3> QED
      BY <1>2, <3>1 DEF IsSpace
  <2>2. CASE field = "ontology"
    <3>1. s = [Here EXCEPT !.ontology = value]
      BY <2>2
    <3> QED
      BY <1>2, <3>1 DEF IsSpace
  <2>3. CASE field = "graph"
    <3>1. s = [Here EXCEPT !.graph = value]
      BY <2>3
    <3> QED
      BY <1>2, <3>1 DEF IsSpace
  <2>4. CASE field = "otherGraph"
    <3>1. s = [Here EXCEPT !.otherGraph = value]
      BY <2>4
    <3> QED
      BY <1>2, <3>1 DEF IsSpace
  <2> QED
    BY <2>1, <2>2, <2>3, <2>4
<1> HIDE DEF s
<1>4. /\ spaces' = [w \in DOMAIN spaces' |-> spaces'[w]]
      /\ DOMAIN spaces' = DOMAIN spaces
      /\ \A w \in DOMAIN spaces' : IsSpace(spaces'[w])
      /\ spaces'[env.space] = s
      /\ \A w \in DOMAIN spaces : w # env.space => spaces'[w] = spaces[w]
  BY <1>1, <1>3, SpaceBecomes
<1> QED
  BY <1>3, <1>4 DEF Here

LEMMA AgentChanges ==
  ASSUME Shapes, InSpace, NEW value, Change("agent", value)
  PROVE  /\ spaces' = [w \in DOMAIN spaces' |-> spaces'[w]]
         /\ DOMAIN spaces' = DOMAIN spaces
         /\ \A w \in DOMAIN spaces' :
              /\ IsSpace(spaces'[w])
              /\ spaces'[w].staged = spaces[w].staged
              /\ spaces'[w].published = spaces[w].published
<1> DEFINE s == [Here EXCEPT !.agent = value]
<1>1. spaces' = [spaces EXCEPT ![env.space] = s]
  BY DEF Change, Here
<1>2. IsSpace(Here)
  BY DEF Shapes, InSpace, Here
<1>3. IsSpace(s) /\ s.staged = Here.staged /\ s.published = Here.published
  BY <1>2 DEF IsSpace
<1> HIDE DEF s
<1>4. /\ spaces' = [w \in DOMAIN spaces' |-> spaces'[w]]
      /\ DOMAIN spaces' = DOMAIN spaces
      /\ \A w \in DOMAIN spaces' : IsSpace(spaces'[w])
      /\ spaces'[env.space] = s
      /\ \A w \in DOMAIN spaces : w # env.space => spaces'[w] = spaces[w]
  BY <1>1, <1>3, SpaceBecomes
<1> QED
  BY <1>3, <1>4 DEF Here

LEMMA StagedChanges ==
  ASSUME Shapes, InSpace, NEW value, Change("staged", value)
  PROVE  /\ spaces' = [w \in DOMAIN spaces' |-> spaces'[w]]
         /\ DOMAIN spaces' = DOMAIN spaces
         /\ spaces'[env.space].staged = value
         /\ \A w \in DOMAIN spaces' :
              /\ IsSpace(spaces'[w])
              /\ spaces'[w].agent = spaces[w].agent
              /\ spaces'[w].published = spaces[w].published
<1> DEFINE s == [Here EXCEPT !.staged = value]
<1>1. spaces' = [spaces EXCEPT ![env.space] = s]
  BY DEF Change, Here
<1>2. IsSpace(Here)
  BY DEF Shapes, InSpace, Here
<1>3. IsSpace(s) /\ s.agent = Here.agent /\ s.published = Here.published /\ s.staged = value
  BY <1>2 DEF IsSpace
<1> HIDE DEF s
<1>4. /\ spaces' = [w \in DOMAIN spaces' |-> spaces'[w]]
      /\ DOMAIN spaces' = DOMAIN spaces
      /\ \A w \in DOMAIN spaces' : IsSpace(spaces'[w])
      /\ spaces'[env.space] = s
      /\ \A w \in DOMAIN spaces : w # env.space => spaces'[w] = spaces[w]
  BY <1>1, <1>3, SpaceBecomes
<1> QED
  BY <1>3, <1>4 DEF Here

LEMMA PublishedChanges ==
  ASSUME Shapes, InSpace, NEW value, Change("published", value)
  PROVE  /\ spaces' = [w \in DOMAIN spaces' |-> spaces'[w]]
         /\ DOMAIN spaces' = DOMAIN spaces
         /\ spaces'[env.space].published = value
         /\ \A w \in DOMAIN spaces : w # env.space => spaces'[w].published = spaces[w].published
         /\ \A w \in DOMAIN spaces' :
              /\ IsSpace(spaces'[w])
              /\ spaces'[w].agent = spaces[w].agent
              /\ spaces'[w].staged = spaces[w].staged
<1> DEFINE s == [Here EXCEPT !.published = value]
<1>1. spaces' = [spaces EXCEPT ![env.space] = s]
  BY DEF Change, Here
<1>2. IsSpace(Here)
  BY DEF Shapes, InSpace, Here
<1>3. IsSpace(s) /\ s.agent = Here.agent /\ s.staged = Here.staged /\ s.published = value
  BY <1>2 DEF IsSpace
<1> HIDE DEF s
<1>4. /\ spaces' = [w \in DOMAIN spaces' |-> spaces'[w]]
      /\ DOMAIN spaces' = DOMAIN spaces
      /\ \A w \in DOMAIN spaces' : IsSpace(spaces'[w])
      /\ spaces'[env.space] = s
      /\ \A w \in DOMAIN spaces : w # env.space => spaces'[w] = spaces[w]
  BY <1>1, <1>3, SpaceBecomes
<1> QED
  BY <1>3, <1>4 DEF Here

(* What the scripts before and after the agent's do.                       *)
LEMMA StartAndEndKeep ==
  ASSUME ChainInv, StartScript \/ ChainScriptEnds
  PROVE  ChainInv'
<1>1. UNCHANGED <<spaces, made, env, target, version, current, attached>>
  BY DEF StartScript, ChainScriptEnds
<1>2. /\ chain' = [name |-> chain'.name, pc |-> chain'.pc, todo |-> chain'.todo]
      /\ chain'.pc \in {"start", "failed"}
  <2>1. CASE StartScript
    BY <2>1 DEF StartScript
  <2>2. CASE ChainScriptEnds
    BY <2>2, ChainMoves DEF ChainScriptEnds, ChainInv
  <2> QED
    BY <2>1, <2>2
<1>3. Shapes'
  BY <1>1, <1>2 DEF ChainInv, Shapes
<1>4. chain'.pc \notin {"add", "configure", "publish", "record agent"}
      /\ chain'.pc # "record workspace"
  BY <1>2
<1> QED
  BY <1>1, <1>3, <1>4, OtherStepsKeep

LEMMA CreateWorkspaceKeeps ==
  ASSUME ChainInv, CreateWorkspace
  PROVE  ChainInv'
<1> USE DEF ChainInv
<1>1. UNCHANGED <<env, target, version, current, attached>> /\ chain.name = "ontology"
  BY DEF CreateWorkspace, AtStep
<1>2. CASE ChainGoes("tables") /\ UNCHANGED <<spaces, made>>
  <2>1. /\ chain'.pc = "tables"
        /\ chain' = [name |-> chain'.name, pc |-> chain'.pc, todo |-> chain'.todo]
    BY <1>2, ChainMoves
  <2>2. Shapes'
    BY <1>1, <1>2, <2>1 DEF Shapes
  <2> QED
    BY <1>1, <1>2, <2>1, <2>2, OtherStepsKeep
<1>3. CASE /\ env.space = Nothing
           /\ made' = [made EXCEPT !.spaces = @ + 1]
           /\ spaces' = [w \in DOMAIN spaces \cup {made'.spaces} |->
                           IF w = made'.spaces THEN NewSpace ELSE spaces[w]]
           /\ ChainGoes("record workspace")
  <2>1. /\ chain'.pc = "record workspace" /\ chain'.name = "ontology"
        /\ chain' = [name |-> chain'.name, pc |-> chain'.pc, todo |-> chain'.todo]
    BY <1>1, <1>3, ChainMoves
  <2>2. /\ made' = [spaces |-> made'.spaces, agents |-> made'.agents]
        /\ made'.spaces \in Nat /\ made'.spaces # 0 /\ made'.agents \in Nat
    <3>1. made' = [spaces |-> made.spaces + 1, agents |-> made.agents]
      BY <1>3 DEF Shapes
    <3> QED
      BY <3>1 DEF Shapes
  <2>3. IsSpace(NewSpace) /\ NewSpace.published = {}
    BY DEF NewSpace, IsSpace
  <2>4. /\ DOMAIN spaces' = DOMAIN spaces \cup {made'.spaces}
        /\ spaces' = [w \in DOMAIN spaces' |-> spaces'[w]]
        /\ \A w \in DOMAIN spaces' :
             spaces'[w] = NewSpace \/ (w \in DOMAIN spaces /\ spaces'[w] = spaces[w])
    <3> DEFINE D == DOMAIN spaces \cup {made'.spaces}
    <3>1. spaces' = [w \in D |-> IF w = made'.spaces THEN NewSpace ELSE spaces[w]]
      BY <1>3
    <3>2. DOMAIN spaces' = D
      BY <3>1
    <3>3. \A w \in D : spaces'[w] = IF w = made'.spaces THEN NewSpace ELSE spaces[w]
      BY <3>1
    <3>4. spaces' = [w \in D |-> spaces'[w]]
      BY <3>1
    <3>5. spaces' = [w \in DOMAIN spaces' |-> spaces'[w]]
      BY <3>2, <3>4
    <3>6. ASSUME NEW w \in D
          PROVE  spaces'[w] = NewSpace \/ (w \in DOMAIN spaces /\ spaces'[w] = spaces[w])
      <4>1. CASE w = made'.spaces
        BY <4>1, <3>3
      <4>2. CASE w # made'.spaces
        BY <4>2, <3>3
      <4> QED
        BY <4>1, <4>2
    <3> QED
      BY <3>2, <3>5, <3>6
  <2>5. \A w \in DOMAIN spaces' : IsSpace(spaces'[w])
    BY <2>3, <2>4 DEF Shapes
  <2>6. Shapes'
    BY <1>1, <2>1, <2>2, <2>4, <2>5 DEF Shapes, Nothing
  <2>7. Staging'
    BY <1>1, <2>1, <2>3, <2>4 DEF Staging, PublishedSo
  <2>8. current = 0
    BY <1>3 DEF Shapes, Following, InSpace
  <2>9. Following'
    BY <1>1, <2>8 DEF Following
  <2>10. Naming'
    BY <1>1, <1>3 DEF Naming
  <2> QED
    BY <2>6, <2>7, <2>9, <2>10
<1> QED
  BY <1>2, <1>3, Zenon DEF CreateWorkspace

(* The other steps of the first two scripts.                               *)
LEMMA RecordWorkspaceKeeps ==
  ASSUME ChainInv, RecordWorkspace
  PROVE  ChainInv'
<1> USE DEF ChainInv
<1>1. UNCHANGED <<spaces, made, target, version, current, attached>>
  BY DEF RecordWorkspace
<1>2. env.space = Nothing /\ current = 0
  <2>1. env.space = Nothing
    BY DEF RecordWorkspace, Naming
  <2> QED
    BY <2>1 DEF Shapes, Following, InSpace
<1>3. /\ env' = [space |-> env'.space, ontology |-> env'.ontology, agentUrl |-> env'.agentUrl]
      /\ env'.agentUrl = env.agentUrl
  BY DEF RecordWorkspace, Shapes
<1>4. /\ chain'.pc = "tables"
      /\ chain' = [name |-> chain'.name, pc |-> chain'.pc, todo |-> chain'.todo]
  BY ChainMoves DEF RecordWorkspace
<1>5. Shapes'
  BY <1>1, <1>3, <1>4 DEF Shapes
<1> QED
  BY <1>1, <1>2, <1>3, <1>4, <1>5, OtherStepsKeep

LEMMA RecordOntologyKeeps ==
  ASSUME ChainInv, RecordOntology
  PROVE  ChainInv'
<1> USE DEF ChainInv
<1>1. UNCHANGED <<spaces, made, target, version, current, attached>>
  BY DEF RecordOntology
<1>2. /\ env' = [space |-> env'.space, ontology |-> env'.ontology, agentUrl |-> env'.agentUrl]
      /\ env'.agentUrl = env.agentUrl /\ env'.space = env.space
  BY DEF RecordOntology, Shapes
<1>3. /\ chain'.pc = "done"
      /\ chain' = [name |-> chain'.name, pc |-> chain'.pc, todo |-> chain'.todo]
  BY ChainMoves DEF RecordOntology
<1>4. Shapes'
  BY <1>1, <1>2, <1>3 DEF Shapes
<1> QED
  BY <1>1, <1>2, <1>3, <1>4, OtherStepsKeep

LEMMA ItemStepsKeep ==
  ASSUME ChainInv,
         \/ LoadTable \/ CreateOrGetOntology \/ UpdateOntologyDefinition
         \/ UpdateGraphModelDefinition \/ VerifyDefinition
  PROVE  ChainInv'
<1> USE DEF ChainInv
<1>1. UNCHANGED <<made, env, target, version, current, attached>> /\ InSpace
  BY DEF LoadTable, CreateOrGetOntology, UpdateOntologyDefinition,
     UpdateGraphModelDefinition, VerifyDefinition
<1>2. /\ chain'.pc \in {"tables", "definition", "record ontology", "verify", "done"}
      /\ chain' = [name |-> chain'.name, pc |-> chain'.pc, todo |-> chain'.todo]
  <2>1. CASE LoadTable
    <3>1. chain.pc = "tables" /\ \E t : chain' = [chain EXCEPT !.todo = @ \ {t}]
      BY <2>1, Zenon DEF LoadTable, AtStep
    <3> QED
      BY <3>1 DEF Shapes
  <2>2. CASE CreateOrGetOntology
    BY <2>2, ChainMoves DEF CreateOrGetOntology
  <2>3. CASE UpdateOntologyDefinition
    BY <2>3, ChainMoves DEF UpdateOntologyDefinition
  <2>4. CASE UpdateGraphModelDefinition
    BY <2>4, ChainMoves DEF UpdateGraphModelDefinition
  <2>5. CASE VerifyDefinition
    BY <2>5, ChainMoves DEF VerifyDefinition
  <2> QED
    BY <2>1, <2>2, <2>3, <2>4, <2>5
<1>3. \/ UNCHANGED spaces
      \/ \E field \in {"loaded", "ontology", "graph", "otherGraph"} : \E value : Change(field, value)
  BY Zenon DEF LoadTable, CreateOrGetOntology, UpdateOntologyDefinition,
     UpdateGraphModelDefinition, VerifyDefinition
<1> DEFINE Kept ==
      /\ spaces' = [w \in DOMAIN spaces' |-> spaces'[w]]
      /\ DOMAIN spaces' = DOMAIN spaces
      /\ \A w \in DOMAIN spaces' :
           /\ IsSpace(spaces'[w])
           /\ spaces'[w].agent = spaces[w].agent
           /\ spaces'[w].staged = spaces[w].staged
           /\ spaces'[w].published = spaces[w].published
<1>4. Kept
  <2>1. CASE UNCHANGED spaces
    BY <2>1 DEF Shapes
  <2>2. ASSUME NEW field \in {"loaded", "ontology", "graph", "otherGraph"}, NEW value,
               Change(field, value)
        PROVE  Kept
    BY <1>1, <2>2, ItemChanges
  <2> QED
    BY <1>3, <2>1, <2>2
<1>5. Shapes'
  BY <1>1, <1>2, <1>4 DEF Shapes
<1>6. chain'.pc \notin {"add", "configure", "publish", "record agent"}
      /\ chain'.pc # "record workspace"
  BY <1>2
<1> QED
  BY <1>1, <1>4, <1>5, <1>6, OtherStepsKeep

(* The agent's script, step by step.                                       *)
LEMMA GetOrCreateKeeps ==
  ASSUME ChainInv, GetOrCreateDataAgent
  PROVE  ChainInv'
<1> USE DEF ChainInv
<1>1. UNCHANGED <<env, target, version, attached>> /\ InSpace /\ chain.name = "agent"
  BY DEF GetOrCreateDataAgent, AtStep
<1>2. /\ chain'.pc = "remove"
      /\ chain' = [name |-> chain'.name, pc |-> chain'.pc, todo |-> chain'.todo]
  BY ChainMoves DEF GetOrCreateDataAgent
<1>3. CASE UNCHANGED <<spaces, made, current>>
  <2>1. Shapes'
    BY <1>1, <1>2, <1>3 DEF Shapes
  <2> QED
    BY <1>1, <1>2, <1>3, <2>1, OtherStepsKeep
<1>4. CASE /\ made' = [made EXCEPT !.agents = @ + 1]
           /\ Change("agent", made'.agents)
           /\ current' = 0
  <2>1. /\ made' = [spaces |-> made'.spaces, agents |-> made'.agents]
        /\ made'.spaces \in Nat /\ made'.agents \in Nat
    <3>1. made' = [spaces |-> made.spaces, agents |-> made.agents + 1]
      BY <1>4 DEF Shapes
    <3> QED
      BY <3>1 DEF Shapes
  <2>2. /\ spaces' = [w \in DOMAIN spaces' |-> spaces'[w]]
        /\ DOMAIN spaces' = DOMAIN spaces
        /\ \A w \in DOMAIN spaces' :
             IsSpace(spaces'[w]) /\ spaces'[w].published = spaces[w].published
    BY <1>1, <1>4, AgentChanges
  <2>3. Shapes'
    BY <1>1, <1>2, <1>4, <2>1, <2>2 DEF Shapes
  <2>4. Staging'
    BY <1>2, <2>2 DEF Staging, PublishedSo, StagedSo
  <2>5. Following'
    BY <1>4 DEF Following
  <2>6. Naming'
    BY <1>2 DEF Naming, AtStep
  <2> QED
    BY <2>3, <2>4, <2>5, <2>6
<1> QED
  BY <1>3, <1>4, Zenon DEF GetOrCreateDataAgent

(* The three steps that stage: what they leave is what the next may count  *)
(* on.                                                                     *)
LEMMA StagingSteps ==
  ASSUME ChainInv, InSpace, NEW pc \in {"add", "configure", "publish"},
         \/ UNCHANGED spaces
         \/ \E value : Change("staged", value),
         chain.name = "agent", ChainGoes(pc),
         UNCHANGED <<made, env, target, version, current>>,
         Here'.agent # Nothing /\ "other" \in Here'.staged => attached',
         pc = "publish" => "guided graph" \in Here'.staged /\ "graph" \notin Here'.staged
  PROVE  ChainInv'
<1> USE DEF ChainInv
<1>1. /\ chain'.pc = pc /\ chain'.name = "agent"
      /\ chain' = [name |-> chain'.name, pc |-> chain'.pc, todo |-> chain'.todo]
  BY ChainMoves
<1> DEFINE Kept ==
      /\ spaces' = [w \in DOMAIN spaces' |-> spaces'[w]]
      /\ DOMAIN spaces' = DOMAIN spaces
      /\ \A w \in DOMAIN spaces' :
           /\ IsSpace(spaces'[w])
           /\ spaces'[w].agent = spaces[w].agent
           /\ spaces'[w].published = spaces[w].published
<1>2. Kept
  <2>1. CASE UNCHANGED spaces
    BY <2>1 DEF Shapes
  <2>2. ASSUME NEW value, Change("staged", value) PROVE Kept
    BY <2>2, StagedChanges
  <2> QED
    BY <2>1, <2>2
<1>3. Shapes'
  BY <1>1, <1>2 DEF Shapes
<1>4. Staging'
  <2>1. \A w \in DOMAIN spaces' : PublishedSo(spaces'[w])
    BY <1>2 DEF Staging, PublishedSo
  <2>2. StagedSo(Here)'
    BY <1>1 DEF StagedSo
  <2> QED
    BY <2>1, <2>2 DEF Staging
<1>5. Following'
  <2>1. current # 0 => InSpace' /\ Here'.agent = Here.agent
    BY <1>2 DEF InSpace, Here
  <2> QED
    BY <1>1, <2>1 DEF Following
<1>6. Naming'
  BY <1>1 DEF Naming, AtStep
<1> QED
  BY <1>3, <1>4, <1>5, <1>6

LEMMA RemoveKeeps ==
  ASSUME ChainInv, RemoveOtherDatasources
  PROVE  ChainInv'
<1>1. /\ Shapes /\ InSpace /\ chain.name = "agent" /\ ChainGoes("add")
      /\ Change("staged", Here.staged \ {"other"})
      /\ UNCHANGED <<made, env, target, version, current>>
  BY DEF RemoveOtherDatasources, AtStep, ChainInv
<1>2. Here'.staged = Here.staged \ {"other"}
  BY <1>1, StagedChanges DEF Here
<1> QED
  BY <1>1, <1>2, StagingSteps

LEMMA AddKeeps ==
  ASSUME ChainInv, AddFabricItemDatasource
  PROVE  ChainInv'
<1>1. /\ Shapes /\ Staging /\ InSpace /\ chain.name = "agent" /\ chain.pc = "add"
      /\ ChainGoes("configure")
      /\ UNCHANGED <<made, env, target, version, current, attached>>
  BY DEF AddFabricItemDatasource, AtStep, ChainInv
<1>2. Here.agent # Nothing /\ "other" \in Here.staged => attached
  BY <1>1 DEF Staging, StagedSo
<1>3. CASE UNCHANGED spaces
  BY <1>1, <1>2, <1>3, StagingSteps DEF Here
<1>4. CASE Change("staged", Here.staged \cup {"graph"})
  <2>1. /\ Here'.staged = Here.staged \cup {"graph"} /\ Here'.agent = Here.agent
    BY <1>1, <1>4, StagedChanges DEF Here, InSpace
  <2> QED
    BY <1>1, <1>2, <1>4, <2>1, StagingSteps
<1> QED
  BY <1>3, <1>4 DEF AddFabricItemDatasource

LEMMA ConfigureKeeps ==
  ASSUME ChainInv, ConfigureDatasource
  PROVE  ChainInv'
<1>1. /\ Shapes /\ Staging /\ InSpace /\ chain.name = "agent" /\ chain.pc = "configure"
      /\ ChainGoes("publish")
      /\ Change("staged", (Here.staged \ {"graph"}) \cup {"guided graph"})
      /\ UNCHANGED <<made, env, target, version, current, attached>>
  BY DEF ConfigureDatasource, AtStep, ChainInv
<1>2. Here.agent # Nothing /\ "other" \in Here.staged => attached
  BY <1>1 DEF Staging, StagedSo
<1>3. /\ Here'.staged = (Here.staged \ {"graph"}) \cup {"guided graph"}
      /\ Here'.agent = Here.agent
  BY <1>1, StagedChanges DEF Here, InSpace
<1> QED
  BY <1>1, <1>2, <1>3, StagingSteps

LEMMA PublishKeeps ==
  ASSUME ChainInv, Publish
  PROVE  ChainInv'
<1> USE DEF ChainInv
<1>1. /\ InSpace /\ Here.agent # Nothing /\ chain.name = "agent" /\ chain.pc = "publish"
      /\ Change("published", Here.staged) /\ ChainGoes("record agent")
      /\ UNCHANGED <<made, env, target, version, current, attached>>
  BY DEF Publish, AtStep
<1>2. /\ "other" \in Here.staged => attached
      /\ "guided graph" \in Here.staged /\ "graph" \notin Here.staged
  BY <1>1 DEF Staging, StagedSo
<1>3. /\ chain'.pc = "record agent" /\ chain'.name = "agent"
      /\ chain' = [name |-> chain'.name, pc |-> chain'.pc, todo |-> chain'.todo]
  BY <1>1, ChainMoves
<1>4. /\ spaces' = [w \in DOMAIN spaces' |-> spaces'[w]]
      /\ DOMAIN spaces' = DOMAIN spaces
      /\ spaces'[env.space].published = Here.staged
      /\ \A w \in DOMAIN spaces : w # env.space => spaces'[w].published = spaces[w].published
      /\ \A w \in DOMAIN spaces' : IsSpace(spaces'[w]) /\ spaces'[w].agent = spaces[w].agent
  BY <1>1, PublishedChanges
<1>5. Shapes'
  BY <1>1, <1>3, <1>4 DEF Shapes
<1>6. Staging'
  <2>1. ASSUME NEW w \in DOMAIN spaces' PROVE PublishedSo(spaces'[w])
    <3>1. CASE w = env.space
      BY <3>1, <1>2, <1>4 DEF PublishedSo
    <3>2. CASE w # env.space
      BY <3>2, <1>4 DEF Staging, PublishedSo
    <3> QED
      BY <3>1, <3>2
  <2>2. StagedSo(Here)'
    BY <1>1, <1>2, <1>3, <1>4 DEF StagedSo, Here
  <2> QED
    BY <2>1, <2>2 DEF Staging
<1>7. Following'
  <2>1. InSpace' /\ Here'.agent = Here.agent
    BY <1>1, <1>4 DEF InSpace, Here
  <2> QED
    BY <1>1, <1>3, <2>1 DEF Following
<1>8. Naming'
  BY <1>3 DEF Naming, AtStep
<1> QED
  BY <1>5, <1>6, <1>7, <1>8

(* What is recorded, connected and asked next.                             *)
LEMMA FollowUpsKeep ==
  ASSUME ChainInv, RecordDataAgent \/ PutFabricIqConnection \/ EnsureSpecialistAgent
  PROVE  ChainInv'
<1> USE DEF ChainInv
<1>1. UNCHANGED <<spaces, made, attached>>
  BY DEF RecordDataAgent, PutFabricIqConnection, EnsureSpecialistAgent
<1>2. /\ chain'.pc = "done"
      /\ chain' = [name |-> chain'.name, pc |-> chain'.pc, todo |-> chain'.todo]
  BY ChainMoves DEF RecordDataAgent, PutFabricIqConnection, EnsureSpecialistAgent
<1>3. /\ env' = [space |-> env'.space, ontology |-> env'.ontology, agentUrl |-> env'.agentUrl]
      /\ env'.space = env.space
      /\ env'.agentUrl # env.agentUrl => RecordDataAgent
  BY DEF RecordDataAgent, PutFabricIqConnection, EnsureSpecialistAgent, Shapes
<1>4. current' \in {0, 1, 2, 3}
  BY DEF RecordDataAgent, PutFabricIqConnection, EnsureSpecialistAgent, Shapes
<1>5. Shapes'
  BY <1>1, <1>2, <1>3, <1>4 DEF Shapes
<1>6. Staging'
  BY <1>1, <1>2, <1>3 DEF Staging, StagedSo, PublishedSo
<1>7. InSpace' = InSpace /\ Here' = Here
  BY <1>1, <1>3 DEF InSpace, Here
<1>8. Following'
  <2>1. CASE RecordDataAgent
    <3>1. env'.agentUrl = Here.agent /\ InSpace /\ UNCHANGED <<target, version>>
      BY <2>1 DEF RecordDataAgent, Shapes
    <3>2. CASE current # 0
      <4>1. current' = current /\ env'.agentUrl = env.agentUrl
        BY <2>1, <3>1, <3>2 DEF RecordDataAgent, Following
      <4> QED
        BY <1>2, <1>7, <3>1, <4>1 DEF Following
    <3>3. CASE current = 0
      <4>1. current' \in {0, 1} /\ (current' # 0 => Here.agent # Nothing)
        BY <2>1, <3>3 DEF RecordDataAgent
      <4> QED
        BY <1>2, <1>7, <3>1, <4>1 DEF Following
    <3> QED
      BY <3>2, <3>3
  <2>2. CASE PutFabricIqConnection
    <3>1. target' = env.agentUrl /\ UNCHANGED <<env, version>>
          /\ current' = IF current = 1 THEN 2 ELSE current
      BY <2>2 DEF PutFabricIqConnection
    <3> QED
      BY <1>2, <1>7, <3>1 DEF Following, Shapes
  <2>3. CASE EnsureSpecialistAgent
    <3>1. version' = target /\ UNCHANGED <<env, target>>
          /\ current' = IF current = 2 THEN 3 ELSE current
      BY <2>3 DEF EnsureSpecialistAgent
    <3> QED
      BY <1>2, <1>7, <3>1 DEF Following, Shapes
  <2> QED
    BY <2>1, <2>2, <2>3
<1>9. Naming'
  BY <1>2 DEF Naming, AtStep
<1> QED
  BY <1>5, <1>6, <1>8, <1>9

(* What the operator and other users do.                                   *)
LEMMA DeleteWorkspaceKeeps ==
  ASSUME ChainInv, DeleteWorkspace
  PROVE  ChainInv'
<1> USE DEF ChainInv
<1>1. /\ spaces' = [w \in DOMAIN spaces \ {env.space} |-> spaces[w]]
      /\ current' = 0 /\ chain.pc \in {"idle", "done", "failed"}
      /\ UNCHANGED <<made, env, target, version, chain, attached>>
  BY DEF DeleteWorkspace
<1>2. /\ DOMAIN spaces' = DOMAIN spaces \ {env.space}
      /\ \A w \in DOMAIN spaces' : spaces'[w] = spaces[w]
  BY <1>1
<1>3. spaces' = [w \in DOMAIN spaces' |-> spaces'[w]]
  BY <1>1
<1>4. Shapes'
  BY <1>1, <1>2, <1>3 DEF Shapes
<1>5. Staging'
  BY <1>1, <1>2 DEF Staging, PublishedSo, StagedSo
<1>6. Following'
  BY <1>1 DEF Following
<1>7. Naming'
  BY <1>1 DEF Naming, AtStep
<1> QED
  BY <1>4, <1>5, <1>6, <1>7

LEMMA ClearEnvKeeps ==
  ASSUME ChainInv, ClearEnv
  PROVE  ChainInv'
<1> USE DEF ChainInv
<1>1. /\ env' = [space |-> Nothing, ontology |-> Nothing, agentUrl |-> env.agentUrl]
      /\ ~InSpace /\ chain.pc \in {"idle", "done", "failed"}
      /\ UNCHANGED <<spaces, made, target, version, chain, current, attached>>
  BY DEF ClearEnv
<1>2. current = 0
  BY <1>1 DEF Following
<1>3. Shapes'
  BY <1>1 DEF Shapes
<1>4. Staging'
  BY <1>1 DEF Staging, PublishedSo, StagedSo
<1>5. Following'
  BY <1>1, <1>2 DEF Following
<1>6. Naming'
  BY <1>1 DEF Naming, AtStep
<1> QED
  BY <1>3, <1>4, <1>5, <1>6

LEMMA GraphAppearsKeeps ==
  ASSUME ChainInv, NEW w, GraphAppears(w)
  PROVE  ChainInv'
<1> USE DEF ChainInv
<1>1. /\ spaces' = [spaces EXCEPT ![w] = [spaces[w] EXCEPT !.graph = "empty"]]
      /\ w \in DOMAIN spaces
      /\ UNCHANGED <<made, env, target, version, chain, current, attached>>
  BY DEF GraphAppears
<1> DEFINE s == [spaces[w] EXCEPT !.graph = "empty"]
<1>2. IsSpace(spaces[w])
  BY <1>1 DEF Shapes
<1>3. /\ IsSpace(s) /\ s.agent = spaces[w].agent
      /\ s.staged = spaces[w].staged /\ s.published = spaces[w].published
  BY <1>2 DEF IsSpace
<1> HIDE DEF s
<1>4. spaces' = [spaces EXCEPT ![w] = s]
  BY <1>1 DEF s
<1>5. /\ spaces' = [v \in DOMAIN spaces' |-> spaces'[v]]
      /\ DOMAIN spaces' = DOMAIN spaces
      /\ spaces'[w] = s
      /\ \A v \in DOMAIN spaces : v # w => spaces'[v] = spaces[v]
  BY <1>1, <1>4 DEF Shapes
<1>6. Shapes'
  BY <1>1, <1>3, <1>5 DEF Shapes
<1>7. \A v \in DOMAIN spaces : /\ spaces'[v].agent = spaces[v].agent
                               /\ spaces'[v].staged = spaces[v].staged
                               /\ spaces'[v].published = spaces[v].published
  BY <1>3, <1>5
<1> QED
  BY <1>1, <1>5, <1>6, <1>7, OtherStepsKeep

LEMMA DeleteDataAgentKeeps ==
  ASSUME ChainInv, NEW w, DeleteDataAgent(w)
  PROVE  ChainInv'
<1> USE DEF ChainInv
<1> DEFINE s == [loaded |-> spaces[w].loaded, ontology |-> spaces[w].ontology,
                 graph |-> spaces[w].graph, otherGraph |-> spaces[w].otherGraph,
                 agent |-> Nothing, staged |-> {}, published |-> {}]
<1>2. IsSpace(spaces[w])
  BY DEF Shapes, DeleteDataAgent
<1>1. /\ spaces' = [spaces EXCEPT ![w] = s]
      /\ w \in DOMAIN spaces /\ current' = 0
      /\ UNCHANGED <<made, env, target, version, chain, attached>>
  <2> DEFINE x == spaces[w]
  <2>1. spaces' = [spaces EXCEPT ![w] = [x EXCEPT !.agent = Nothing, !.staged = {}, !.published = {}]]
    BY DEF DeleteDataAgent
  <2>2. x = [loaded |-> x.loaded, ontology |-> x.ontology, graph |-> x.graph,
             otherGraph |-> x.otherGraph, agent |-> x.agent, staged |-> x.staged,
             published |-> x.published]
    BY <1>2 DEF IsSpace
  <2> HIDE DEF x
  <2>3. [x EXCEPT !.agent = Nothing, !.staged = {}, !.published = {}]
          = [loaded |-> x.loaded, ontology |-> x.ontology, graph |-> x.graph,
             otherGraph |-> x.otherGraph, agent |-> Nothing, staged |-> {}, published |-> {}]
    <3> DEFINE y == [x EXCEPT !.agent = Nothing]
               z == [y EXCEPT !.staged = {}]
    <3>1. y = [loaded |-> x.loaded, ontology |-> x.ontology, graph |-> x.graph,
               otherGraph |-> x.otherGraph, agent |-> Nothing, staged |-> x.staged,
               published |-> x.published]
      BY <2>2
    <3>2. [x EXCEPT !.agent = Nothing, !.staged = {}, !.published = {}]
            = [z EXCEPT !.published = {}]
      OBVIOUS
    <3> HIDE DEF y
    <3>3. z = [loaded |-> x.loaded, ontology |-> x.ontology, graph |-> x.graph,
               otherGraph |-> x.otherGraph, agent |-> Nothing, staged |-> {},
               published |-> x.published]
      BY <3>1
    <3> HIDE DEF z
    <3> QED
      BY <3>2, <3>3
  <2> QED
    BY <2>1, <2>3 DEF DeleteDataAgent, x
<1>3. IsSpace(s) /\ s.agent = Nothing /\ s.staged = {} /\ s.published = {}
  BY DEF IsSpace
<1> HIDE DEF s
<1>4. /\ spaces' = [v \in DOMAIN spaces' |-> spaces'[v]]
      /\ DOMAIN spaces' = DOMAIN spaces
      /\ spaces'[w] = s
      /\ \A v \in DOMAIN spaces : v # w => spaces'[v] = spaces[v]
  BY <1>1 DEF Shapes
<1>5. Shapes'
  BY <1>1, <1>3, <1>4 DEF Shapes
<1>6. Staging'
  <2>1. \A v \in DOMAIN spaces' : PublishedSo(spaces'[v])
    BY <1>3, <1>4 DEF Staging, PublishedSo
  <2>2. ASSUME chain.name = "agent", InSpace
        PROVE  StagedSo(Here)'
    <3>1. CASE env.space = w
      BY <1>1, <1>3, <1>4, <3>1 DEF StagedSo, Here
    <3>2. CASE env.space # w
      BY <1>1, <1>4, <2>2, <3>2 DEF Staging, StagedSo, Here, InSpace
    <3> QED
      BY <3>1, <3>2
  <2> QED
    BY <1>1, <1>4, <2>1, <2>2 DEF Staging, InSpace
<1>7. Following'
  BY <1>1 DEF Following
<1>8. Naming'
  BY <1>1 DEF Naming, AtStep
<1> QED
  BY <1>5, <1>6, <1>7, <1>8

LEMMA AttachSourceKeeps ==
  ASSUME ChainInv, NEW w, AttachSource(w)
  PROVE  ChainInv'
<1> USE DEF ChainInv
<1> DEFINE s == [spaces[w] EXCEPT !.staged = @ \cup {"other"}]
<1>1. /\ spaces' = [spaces EXCEPT ![w] = s]
      /\ w \in DOMAIN spaces /\ attached' = TRUE
      /\ UNCHANGED <<made, env, target, version, chain, current>>
  BY DEF AttachSource
<1>2. IsSpace(spaces[w])
  BY <1>1 DEF Shapes
<1>3. /\ IsSpace(s) /\ s.agent = spaces[w].agent
      /\ s.staged = spaces[w].staged \cup {"other"} /\ s.published = spaces[w].published
  BY <1>2 DEF IsSpace
<1> HIDE DEF s
<1>4. /\ spaces' = [v \in DOMAIN spaces' |-> spaces'[v]]
      /\ DOMAIN spaces' = DOMAIN spaces
      /\ spaces'[w] = s
      /\ \A v \in DOMAIN spaces : v # w => spaces'[v] = spaces[v]
  BY <1>1 DEF Shapes
<1>5. Shapes'
  BY <1>1, <1>3, <1>4 DEF Shapes
<1>6. Staging'
  <2>1. \A v \in DOMAIN spaces' : PublishedSo(spaces'[v])
    BY <1>3, <1>4 DEF Staging, PublishedSo
  <2>2. ASSUME chain.name = "agent", InSpace
        PROVE  StagedSo(Here)'
    <3>1. CASE env.space = w
      <4>1. Here'.staged = Here.staged \cup {"other"} /\ Here'.agent = Here.agent
        BY <1>1, <1>3, <1>4, <3>1 DEF Here
      <4> QED
        BY <1>1, <2>2, <4>1 DEF Staging, StagedSo
    <3>2. CASE env.space # w
      BY <1>1, <1>4, <2>2, <3>2 DEF Staging, StagedSo, Here, InSpace
    <3> QED
      BY <3>1, <3>2
  <2> QED
    BY <1>1, <1>4, <2>1, <2>2 DEF Staging, InSpace
<1>7. Following'
  <2>1. InSpace' = InSpace /\ (InSpace => Here'.agent = Here.agent)
    BY <1>1, <1>3, <1>4 DEF InSpace, Here
  <2> QED
    BY <1>1, <2>1 DEF Following
<1>8. Naming'
  BY <1>1 DEF Naming, AtStep
<1> QED
  BY <1>5, <1>6, <1>7, <1>8

-----------------------------------------------------------------------------

LEMMA ChainInductive == ChainInv /\ [ChainNext]_chainVars => ChainInv'
<1> SUFFICES ASSUME ChainInv, [ChainNext]_chainVars PROVE ChainInv'
  OBVIOUS
<1>1. CASE StartScript \/ ChainScriptEnds
  BY <1>1, StartAndEndKeep
<1>2. CASE \/ CreateWorkspace \/ RecordWorkspace \/ RecordOntology
           \/ LoadTable \/ CreateOrGetOntology \/ UpdateOntologyDefinition
           \/ UpdateGraphModelDefinition \/ VerifyDefinition
  BY <1>2, CreateWorkspaceKeeps, RecordWorkspaceKeeps, RecordOntologyKeeps, ItemStepsKeep
<1>3. CASE \/ GetOrCreateDataAgent \/ RemoveOtherDatasources \/ AddFabricItemDatasource
           \/ ConfigureDatasource \/ Publish
  BY <1>3, GetOrCreateKeeps, RemoveKeeps, AddKeeps, ConfigureKeeps, PublishKeeps
<1>4. CASE RecordDataAgent \/ PutFabricIqConnection \/ EnsureSpecialistAgent
  BY <1>4, FollowUpsKeep
<1>5. CASE DeleteWorkspace \/ ClearEnv
  BY <1>5, DeleteWorkspaceKeeps, ClearEnvKeeps
<1>6. ASSUME NEW w \in 1 .. MaxWorkspaces,
             GraphAppears(w) \/ DeleteDataAgent(w) \/ AttachSource(w)
      PROVE  ChainInv'
  BY <1>6, GraphAppearsKeeps, DeleteDataAgentKeeps, AttachSourceKeeps
<1>7. CASE UNCHANGED chainVars
  BY <1>7 DEF chainVars, ChainInv, Shapes, Staging, Following, InSpace, Here, AtStep,
     StagedSo, PublishedSo, IsSpace, Naming
<1> QED
  BY <1>1, <1>2, <1>3, <1>4, <1>5, <1>6, <1>7, Zenon DEF ChainNext

LEMMA ChainAlways == ChainSpec => []ChainInv
<1>1. ChainInit => ChainInv
  BY ChainInitially
<1>2. ChainInv /\ [ChainNext]_chainVars => ChainInv'
  BY ChainInductive
<1> QED
  BY <1>1, <1>2, PTL DEF ChainSpec

(* An agent users query always has the guided graph and never the bare one *)
(* (publish comes after the datasource is configured and only in that      *)
(* order, whatever breaks off), and a run that has just published has      *)
(* published no source that it removed.                                    *)
THEOREM PublishedWhole == ChainSpec => []PublishedIsWhole
<1>1. ChainInv => PublishedIsWhole
  BY DEF ChainInv, Staging, PublishedSo, StagedSo, PublishedIsWhole, AtStep
<1> QED
  BY <1>1, ChainAlways, PTL

(* Scripts that ran in their order since the last change upstream leave    *)
(* .env, the connection and the specialist at the agent there is.          *)
THEOREM ChainFresh == ChainSpec => []ChainIsFresh
<1>1. ChainInv => ChainIsFresh
  BY DEF ChainInv, Following, ChainIsFresh
<1> QED
  BY <1>1, ChainAlways, PTL

-----------------------------------------------------------------------------
(* The rows of the Eventhouse, EventhouseSeed.                             *)
USE SeedAssumption

SeederAt == {"idle", "house", "database", "count", "clear", "ingest", "poll", "done", "failed"}

SeedType ==
  /\ batches \in [KqlTable -> Nat] /\ queued \in [KqlTable -> Nat]
  /\ replayed \in [KqlTable -> Nat]
  /\ seeder \in [pc : SeederAt, table : KqlTable, reseed : BOOLEAN]
  /\ replayer \in 0 .. 3
  /\ seedCut \subseteq KqlTable

(* A table no run left with its file queued holds the file at most once:   *)
(* only the seeder waiting for it may have it queued, and the seeder       *)
(* queues it when the table is empty.                                      *)
Once ==
  \A t \in KqlTable \ seedCut :
    /\ batches[t] + queued[t] <= 1
    /\ queued[t] > 0 => seeder.pc = "poll" /\ seeder.table = t
    /\ seeder.pc = "ingest" /\ seeder.table = t => batches[t] = 0

Filled(t) == batches[t] > 0 \/ replayed[t] > 0

(* The tables the seeder has passed are filled.                            *)
Passed ==
  /\ seeder.pc \in {"house", "database"} => seeder.table = 1
  /\ seeder.pc \in {"count", "clear", "ingest", "poll"} =>
       \A t \in KqlTable : t < seeder.table => Filled(t)
  /\ seeder.pc = "done" => \A t \in KqlTable : Filled(t)

SeedInv == SeedType /\ Once /\ Passed

LEMMA RowCount ==
  ASSUME SeedType, NEW t \in KqlTable
  PROVE  /\ GetTableRowCount(t) \in Nat
         /\ GetTableRowCount(t) = 0 => batches[t] = 0
         /\ GetTableRowCount(t) > 0 => Filled(t)
<1> DEFINE b == batches[t]
           r == replayed[t]
<1>1. b \in Nat /\ r \in Nat /\ CsvRows \in Nat /\ CsvRows >= 1 BY DEF SeedType
<1>2. ReplayRows(t) \in Nat BY DEF ReplayRows
<1>3. GetTableRowCount(t) = b * CsvRows + r * ReplayRows(t) BY DEF GetTableRowCount
<1> HIDE DEF b, r
<1>4. \A x, y \in Nat : x * y \in Nat OBVIOUS
<1>5. \A x \in Nat : x * CsvRows = 0 => x = 0 BY <1>1
<1>6. b * CsvRows \in Nat /\ r * ReplayRows(t) \in Nat BY <1>1, <1>2, <1>4
<1>7. GetTableRowCount(t) = 0 => b = 0 BY <1>1, <1>3, <1>5, <1>6
<1>8. b = 0 /\ r = 0 => GetTableRowCount(t) = 0
  <2>1. 0 * CsvRows = 0 /\ 0 * ReplayRows(t) = 0 BY <1>1, <1>2
  <2> QED BY <1>3, <2>1
<1>9. GetTableRowCount(t) \in Nat BY <1>3, <1>6
<1>10. GetTableRowCount(t) > 0 => b > 0 \/ r > 0 BY <1>1, <1>8, <1>9
<1> QED BY <1>7, <1>9, <1>10 DEF b, r, Filled

LEMMA SeedInitially == SeedInit => SeedInv
BY DEF SeedInit, SeedInv, SeedType, SeederAt, Once, Passed, KqlTable

(* A step of the seeder that leaves the tables and their files alone, ends *)
(* its wait properly and does not move to an ingest or a filled state.     *)
LEMMA SeederKeeps ==
  ASSUME SeedInv, UNCHANGED <<batches, queued, replayed, replayer>>,
         seeder' \in [pc : SeederAt, table : KqlTable, reseed : BOOLEAN],
         seedCut \subseteq seedCut', seedCut' \subseteq KqlTable,
         seeder.pc = "poll" /\ queued[seeder.table] > 0 => seeder.table \in seedCut',
         seeder'.pc = "ingest" => batches[seeder'.table] = 0,
         Passed'
  PROVE  SeedInv'
<1>1. SeedType' BY DEF SeedInv, SeedType
<1>2. Once' BY DEF SeedInv, Once
<1> QED BY <1>1, <1>2 DEF SeedInv

LEMMA NextTableIs ==
  ASSUME SeedInv, NextTable, UNCHANGED <<batches, replayed>>,
         seeder.pc \in {"count", "poll"}, GetTableRowCount(seeder.table) > 0
  PROVE  /\ seeder' \in [pc : SeederAt, table : KqlTable, reseed : BOOLEAN]
         /\ seeder'.pc \in {"count", "done"} /\ Passed'
<1>1. /\ seeder \in [pc : SeederAt, table : KqlTable, reseed : BOOLEAN]
      /\ seeder.table \in 1 .. 3
  BY DEF SeedInv, SeedType, KqlTable
<1>2. Filled(seeder.table) BY <1>1, RowCount DEF SeedInv, KqlTable
<1>3. \A t \in KqlTable : t <= seeder.table => Filled(t)
  BY <1>1, <1>2 DEF SeedInv, Passed, KqlTable
<1>4. CASE seeder.table = 3
  <2>1. seeder' = [seeder EXCEPT !.pc = "done"]
    BY <1>4 DEF NextTable, SeederGoes, IncidentEvents
  <2> QED BY <1>1, <1>3, <1>4, <2>1 DEF SeederAt, Passed, Filled, KqlTable
<1>5. CASE seeder.table # 3
  <2>1. seeder' = [seeder EXCEPT !.pc = "count", !.table = seeder.table + 1]
    BY <1>5 DEF NextTable, SeederGoes, IncidentEvents
  <2>2. seeder'.pc = "count" /\ seeder'.table = seeder.table + 1 BY <1>1, <2>1
  <2>3. seeder' \in [pc : SeederAt, table : KqlTable, reseed : BOOLEAN]
    <3>1. seeder.table + 1 \in KqlTable /\ "count" \in SeederAt
      BY <1>1, <1>5 DEF SeederAt, KqlTable
    <3> QED BY <1>1, <2>1, <3>1
  <2>4. \A t \in KqlTable : t < seeder'.table => Filled(t)'
    BY <1>1, <1>3, <2>2 DEF KqlTable, Filled
  <2> QED BY <2>2, <2>3, <2>4 DEF Passed
<1> QED BY <1>4, <1>5

LEMMA SeedSteps == SeedInv /\ [SeedNext]_seedVars => SeedInv'
<1> SUFFICES ASSUME SeedInv, [SeedNext]_seedVars PROVE SeedInv' OBVIOUS
<1>t. /\ batches \in [KqlTable -> Nat] /\ queued \in [KqlTable -> Nat]
      /\ replayed \in [KqlTable -> Nat]
      /\ seeder \in [pc : SeederAt, table : KqlTable, reseed : BOOLEAN]
      /\ replayer \in 0 .. 3 /\ seedCut \subseteq KqlTable
      /\ SeedType /\ Once /\ Passed
  BY DEF SeedInv, SeedType
<1>1. CASE StartSeeding
  <2>1. PICK reseed \in BOOLEAN : seeder' = [pc |-> "house", table |-> 1, reseed |-> reseed]
    BY <1>1 DEF StartSeeding
  <2>2. /\ UNCHANGED <<batches, queued, replayed, replayer, seedCut>> /\ seeder.pc # "poll"
    BY <1>1 DEF StartSeeding
  <2>3. seeder' \in [pc : SeederAt, table : KqlTable, reseed : BOOLEAN]
    BY <2>1 DEF SeederAt, KqlTable
  <2>4. Passed' BY <2>1 DEF Passed
  <2>5. seeder'.pc = "house" BY <2>1
  <2> QED BY ONLY <1>t, <2>2, <2>3, <2>4, <2>5, SeedInv, SeederKeeps
<1>2. CASE CreateOrGetEventhouse \/ ResolveDefaultKqlDatabase
  <2>1. PICK pc \in {"database", "count"} : seeder' = [seeder EXCEPT !.pc = pc]
    BY <1>2 DEF CreateOrGetEventhouse, ResolveDefaultKqlDatabase, SeederGoes
  <2>2. /\ UNCHANGED <<batches, queued, replayed, replayer, seedCut>>
        /\ seeder.pc \in {"house", "database"}
    BY <1>2 DEF CreateOrGetEventhouse, ResolveDefaultKqlDatabase
  <2>3. seeder' \in [pc : SeederAt, table : KqlTable, reseed : BOOLEAN]
    BY <1>t, <2>1 DEF SeederAt
  <2>4. seeder'.pc = pc /\ seeder'.table = 1 BY <1>t, <2>1, <2>2 DEF Passed
  <2>5. Passed' BY <2>4 DEF Passed, KqlTable
  <2> QED BY <1>t, <2>2, <2>3, <2>4, <2>5, SeederKeeps
<1>3. CASE DatabaseAppears \/ StartReplay \/ ReplayEnds
  <2>1. /\ UNCHANGED <<batches, queued, replayed, seeder, seedCut>>
        /\ replayer' \in 0 .. 3
    BY <1>t, <1>3 DEF DatabaseAppears, StartReplay, ReplayEnds
  <2> QED BY <1>t, <2>1 DEF SeedInv, SeedType, Once, Passed, Filled
<1>4. CASE CountRows
  <2>u. /\ UNCHANGED <<batches, queued, replayed, replayer, seedCut>> /\ seeder.pc = "count"
        /\ seeder.table \in KqlTable
    BY <1>t, <1>4 DEF CountRows
  <2>1. CASE GetTableRowCount(seeder.table) > 0 /\ NextTable
    <3>1. /\ seeder' \in [pc : SeederAt, table : KqlTable, reseed : BOOLEAN]
          /\ seeder'.pc \in {"count", "done"} /\ Passed'
      BY <2>u, <2>1, NextTableIs
    <3>2. seeder'.pc # "ingest" BY <3>1
    <3> QED BY ONLY <1>t, <2>u, <3>1, <3>2, SeedInv, SeederKeeps
  <2>2. ASSUME NEW pc \in {"clear", "ingest"}, SeederGoes(pc),
               pc = "ingest" => GetTableRowCount(seeder.table) = 0
        PROVE  SeedInv'
    <3>1. seeder' = [seeder EXCEPT !.pc = pc] BY <2>2 DEF SeederGoes
    <3>2. seeder'.pc = pc /\ seeder'.table = seeder.table BY <1>t, <3>1
    <3>3. seeder' \in [pc : SeederAt, table : KqlTable, reseed : BOOLEAN]
      BY <1>t, <3>1 DEF SeederAt
    <3>4. Passed' BY <1>t, <2>u, <3>2 DEF Passed, Filled
    <3>5. pc = "ingest" => batches[seeder.table] = 0 BY <1>t, <2>u, <2>2, RowCount
    <3> QED BY <1>t, <2>u, <3>2, <3>3, <3>4, <3>5, SeederKeeps
  <2> QED BY <1>4, <2>1, <2>2 DEF CountRows
<1>5. CASE ClearTable
  <2>1. /\ seeder.pc = "clear" /\ seeder' = [seeder EXCEPT !.pc = "ingest"]
        /\ batches' = [batches EXCEPT ![seeder.table] = 0]
        /\ replayed' = [replayed EXCEPT ![seeder.table] = 0]
        /\ UNCHANGED <<queued, replayer, seedCut>>
    BY <1>5 DEF ClearTable, SeederGoes
  <2>2. seeder'.pc = "ingest" /\ seeder'.table = seeder.table BY <1>t, <2>1
  <2>3. SeedType' BY <1>t, <2>1 DEF SeedType, SeederAt
  <2>4. Once' BY <1>t, <2>1, <2>2 DEF Once
  <2>5. Passed' BY <1>t, <2>1, <2>2 DEF Passed, Filled, KqlTable
  <2> QED BY <2>3, <2>4, <2>5 DEF SeedInv
<1>6. CASE IngestFromFile
  <2>1. /\ seeder.pc = "ingest" /\ seeder' = [seeder EXCEPT !.pc = "poll"]
        /\ queued' = [queued EXCEPT ![seeder.table] = @ + 1]
        /\ UNCHANGED <<batches, replayed, replayer, seedCut>>
    BY <1>6 DEF IngestFromFile, SeederGoes
  <2>2. seeder'.pc = "poll" /\ seeder'.table = seeder.table BY <1>t, <2>1
  <2>3. SeedType' BY <1>t, <2>1 DEF SeedType, SeederAt
  <2>4. Once' BY <1>t, <2>1, <2>2 DEF Once
  <2>5. Passed' BY <1>t, <2>1, <2>2 DEF Passed, Filled
  <2> QED BY <2>3, <2>4, <2>5 DEF SeedInv
<1>7. ASSUME NEW t \in KqlTable, IngestionLands(t) PROVE SeedInv'
  <2>1. /\ queued[t] > 0 /\ queued' = [queued EXCEPT ![t] = @ - 1]
        /\ batches' = [batches EXCEPT ![t] = @ + 1]
        /\ UNCHANGED <<replayed, seeder, replayer, seedCut>>
    BY <1>7 DEF IngestionLands
  <2>2. SeedType' BY <1>t, <2>1 DEF SeedType
  <2>3. Once' BY <1>t, <2>1 DEF Once
  <2>4. Passed' BY <1>t, <2>1 DEF Passed, Filled
  <2> QED BY <2>2, <2>3, <2>4 DEF SeedInv
<1>8. CASE CountReached
  <2>1. /\ seeder.pc = "poll" /\ GetTableRowCount(seeder.table) = CsvRows
        /\ NextTable /\ StopsWaiting /\ UNCHANGED <<batches, queued, replayed, replayer>>
    BY <1>8 DEF CountReached
  <2>2. GetTableRowCount(seeder.table) > 0 BY <2>1
  <2>3. /\ seedCut \subseteq seedCut' /\ seedCut' \subseteq KqlTable
        /\ queued[seeder.table] > 0 => seeder.table \in seedCut'
    BY <1>t, <2>1 DEF StopsWaiting
  <2> QED BY <2>1, <2>2, <2>3, NextTableIs, SeederKeeps
<1>9. CASE SeedingEnds
  <2>1. /\ seeder' = [seeder EXCEPT !.pc = "failed"] /\ StopsWaiting
        /\ UNCHANGED <<batches, queued, replayed, replayer>>
    BY <1>9 DEF SeedingEnds, SeederGoes
  <2>2. /\ seedCut \subseteq seedCut' /\ seedCut' \subseteq KqlTable
        /\ seeder.pc = "poll" /\ queued[seeder.table] > 0 => seeder.table \in seedCut'
    BY <1>t, <2>1 DEF StopsWaiting
  <2>3. seeder'.pc = "failed" /\ seeder' \in [pc : SeederAt, table : KqlTable, reseed : BOOLEAN]
    BY <1>t, <2>1 DEF SeederAt
  <2>4. Passed' BY <2>3 DEF Passed
  <2> QED BY <2>1, <2>2, <2>3, <2>4, SeederKeeps
<1>10. CASE AppendRows
  <2>1. /\ replayer > 0 /\ replayed' = [replayed EXCEPT ![replayer] = @ + 1]
        /\ replayer' = (replayer + 1) % 4
        /\ UNCHANGED <<batches, queued, seeder, seedCut>>
    BY <1>10 DEF AppendRows
  <2>2. SeedType'
    <3>1. \A n \in 0 .. 3 : (n + 1) % 4 \in 0 .. 3 OBVIOUS
    <3>2. replayer' \in 0 .. 3 BY <1>t, <2>1, <3>1
    <3>3. replayer \in KqlTable BY <1>t, <2>1 DEF KqlTable
    <3>4. replayed' \in [KqlTable -> Nat] BY <1>t, <2>1, <3>3
    <3> QED BY <1>t, <2>1, <3>2, <3>4 DEF SeedType
  <2>3. Once' BY <1>t, <2>1 DEF Once
  <2>4. Passed' BY <1>t, <2>1 DEF Passed, Filled
  <2> QED BY <2>2, <2>3, <2>4 DEF SeedInv
<1>11. CASE UNCHANGED seedVars
  BY <1>t, <1>11 DEF seedVars, SeedInv, SeedType, Once, Passed, Filled
<1> QED BY <1>1, <1>2, <1>3, <1>4, <1>5, <1>6, <1>7, <1>8, <1>9, <1>10, <1>11 DEF SeedNext

LEMMA SeedAlways == SeedSpec => []SeedInv
BY SeedInitially, SeedSteps, PTL DEF SeedSpec

(* However often seeding and replaying are started, broken off and run     *)
(* again, a file is ingested a second time only where a run stopped        *)
(* waiting for it while it was queued, and a run that reports success has  *)
(* left no table empty (create_eventhouse.py main).                        *)
THEOREM SeedingExact == SeedSpec => []SeedingIsExact
<1>1. SeedInv => SeedingIsExact
  BY DEF SeedInv, SeedType, Once, Passed, Filled, SeedingIsExact
<1> QED BY <1>1, SeedAlways, PTL

=============================================================================
