---------------------------- MODULE ConsumerConfig ----------------------------
(***************************************************************************)
(* The gateway configuration of each consumer: the admin BFF edits the     *)
(* consumer_config documents in Cosmos, the config-sync job evaluates the  *)
(* daily budgets into them and publishes global named values and a bundle  *)
(* of all consumers to API Management.  Executions of the job (cron, and   *)
(* those the BFF starts after a budget edit) and BFF requests interleave   *)
(* between their Azure calls; no write is conditional on what was read.    *)
(***************************************************************************)
EXTENDS Integers, Sequences, FiniteSets, Functions

CONSTANTS
  Consumer,
  Execution,     \* job executions that may run at the same time
  Request,       \* BFF requests that may run at the same time
  Edit,          \* request bodies: documents of some of OperatorField
  GlobalEdit,    \* operator edits of the global document
  DefaultGlobal, \* DEFAULT_GLOBAL_CONFIG
  FieldOrder,    \* the fields of FIELD_TO_NAMED_VALUE, in order
  FirstDoc,      \* documents a consumer may start with, NoDoc among them
  NoDoc,
  Cost,          \* what a consumer may have cost in a day
  Scenario       \* bounds: edits, midnights, price falls, faults, overlap

OperatorField == {"tier", "budget", "ladder"}

(* A document maps some of these and "level" to numbers: the tier's rank,  *)
(* the daily budget in whole currency units, how many rungs the ladder     *)
(* has, the level of the active downgrade.                                 *)
ASSUME ConfigAssumption ==
  /\ \A F \in SUBSET (OperatorField \cup {"level"}) : NoDoc \notin [F -> Nat]
  /\ "global" \notin Consumer
  /\ \A e \in Edit : DOMAIN e # {}
  /\ \A d \in Edit \cup (FirstDoc \ {NoDoc}) :
       DOMAIN d \subseteq OperatorField /\ d \in [DOMAIN d -> Nat]
  /\ \A g \in GlobalEdit \cup {DefaultGlobal} : DOMAIN g \subseteq Range(FieldOrder)
  /\ 0 \in Cost /\ Cost \subseteq Nat
  /\ Scenario \subseteq [edits : Nat, days : Nat, reprices : Nat,
                            faults : Nat, overlap : Nat]

VARIABLES
  docs,        \* consumer -> its consumer_config document, or NoDoc
  global,      \* the `global` document, or NoDoc
  named,       \* APIM named values: field -> value
  bundle,      \* APIM named value consumer-config-json
  spend,       \* consumer -> what it cost today, in whole currency units
  job, put,    \* each execution and each BFF request in progress
  left,        \* bound: what is left of the scenario chosen at the start
  intent,      \* history: the operator's acknowledged fields, or NoDoc
  doubtful,    \* history: fields a failing request may have left otherwise
  clobbered,   \* history: documents written over by a stale read
  relieved,    \* history: consumers whose level may drop for a reason
  fresh        \* history: those the only execution evaluated without one since

stores == <<docs, global, named, bundle, spend>>
edits == <<intent, doubtful, clobbered>>
levels == <<relieved, fresh>>
vars == <<stores, job, put, left, edits, levels>>

Docs == {c \in Consumer : docs[c] # NoDoc}

Without(d, F) == Restrict(d, DOMAIN d \ F)

Level(d) == IF "level" \in DOMAIN d THEN d["level"] ELSE 0

IdleJob == [pc |-> "idle", config |-> NoDoc, fields |-> <<>>,
            usage |-> [c \in Consumer |-> 0], writes |-> <<>>,
            entries |-> <<>>, stale |-> {}]
IdlePut == [pc |-> "idle", consumer |-> NoDoc, body |-> <<>>, merged |-> <<>>,
            stale |-> FALSE]

Init ==
  /\ docs \in [Consumer -> FirstDoc]
  /\ global = NoDoc
  /\ named = [f \in Range(FieldOrder) |-> NoDoc]
  /\ bundle = <<>>
  /\ spend = [c \in Consumer |-> 0]
  /\ job = [x \in Execution |-> IdleJob]
  /\ put = [r \in Request |-> IdlePut]
  /\ left \in Scenario
  /\ intent = [d \in Consumer \cup {"global"} |-> IF d = "global" THEN NoDoc ELSE docs[d]]
  /\ doubtful = [c \in Consumer |-> {}] /\ clobbered = {}
  /\ relieved = {} /\ fresh = {}

(* A write of document d makes stale what others have read of it.  Only a  *)
(* job between its read and its last write, or a request, holds a copy.    *)
Holds(x, d) ==
  IF d = "global" THEN job[x].pc = "seed"
  ELSE job[x].pc = "levels" /\ d \in DOMAIN job[x].writes

JobsAfterWrite(d) ==
  [x \in Execution |-> [job[x] EXCEPT !.stale = @ \cup IF Holds(x, d) THEN {d} ELSE {}]]

PutsAfterWrite(d) ==
  [r \in Request |-> [put[r] EXCEPT !.stale = @ \/ put[r].consumer = d]]

\* A reason for the levels of C to drop, until the next evaluation is published.
Relieve(C) == relieved' = relieved \cup C /\ fresh' = fresh \ C

-----------------------------------------------------------------------------
(* The job, sync.py main: one action per Azure call.                       *)

Running(x, pc) == job[x].pc = pc

JobStep(x, next) == job' = [job EXCEPT ![x] = next]

Alone(x) == \A y \in Execution \ {x} : Running(y, "idle")

StartExecution(x) ==
  /\ Running(x, "idle")
  /\ Cardinality({y \in Execution : ~Running(y, "idle")}) < left.overlap
  /\ JobStep(x, [IdleJob EXCEPT !.pc = "global"])
  /\ Relieve(IF Alone(x) THEN {} ELSE Consumer)
  /\ UNCHANGED <<stores, put, left, edits>>

(* Fields the document lacks are skipped.                                  *)
FieldsOf(config) == SelectSeq(FieldOrder, LAMBDA f : f \in DOMAIN config)

AfterNamed(record) == IF record.fields = <<>>
                      THEN [record EXCEPT !.pc = "usage", !.config = NoDoc]
                      ELSE [record EXCEPT !.pc = "named"]

ReadGlobal(x) ==
  /\ Running(x, "global")
  /\ JobStep(x, IF global = NoDoc
                THEN [job[x] EXCEPT !.pc = "seed"]
                ELSE AfterNamed([job[x] EXCEPT !.config = global,
                                               !.fields = FieldsOf(global)]))
  /\ UNCHANGED <<stores, put, left, edits, levels>>

SeedGlobal(x) ==
  /\ Running(x, "seed")
  /\ global' = DefaultGlobal
  /\ clobbered' = clobbered \cup job[x].stale
  /\ job' = [JobsAfterWrite("global") EXCEPT ![x] =
               AfterNamed([job[x] EXCEPT !.config = DefaultGlobal, !.stale = {},
                                         !.fields = FieldsOf(DefaultGlobal)])]
  /\ UNCHANGED <<docs, named, bundle, spend, put, left, intent, doubtful, levels>>

WriteNamed(x) ==
  /\ Running(x, "named")
  /\ LET f == Head(job[x].fields)
     IN named' = [named EXCEPT ![f] = job[x].config[f]]
  /\ JobStep(x, AfterNamed([job[x] EXCEPT !.fields = Tail(@)]))
  /\ UNCHANGED <<docs, global, bundle, spend, put, left, edits, levels>>

(* The day's usage at the prices of the pricing document, read right       *)
(* after: all of it, a partial result that understates, or an exception,   *)
(* on which the evaluation is left out.                                    *)
QueryUsage(x) ==
  /\ Running(x, "usage")
  /\ \/ /\ JobStep(x, [job[x] EXCEPT !.pc = "docs", !.usage = spend])
        /\ fresh' = IF Alone(x) THEN Consumer ELSE {}
        /\ UNCHANGED <<left, relieved>>
     \/ /\ left.faults > 0
        /\ left' = [left EXCEPT !.faults = @ - 1]
        /\ fresh' = {}
        /\ \/ \E u \in [Consumer -> Cost] :
                /\ u # spend /\ \A c \in Consumer : u[c] <= spend[c]
                /\ JobStep(x, [job[x] EXCEPT !.pc = "docs", !.usage = u])
                /\ relieved' = relieved \cup {c \in Consumer : u[c] < spend[c]}
           \/ /\ JobStep(x, [job[x] EXCEPT !.pc = "bundle"])
              /\ UNCHANGED relieved
  /\ UNCHANGED <<stores, put, edits>>

\* budget.level_for: 80 % and 100 % of the budget.
LevelFor(cost, budget) ==
  IF cost >= budget THEN 2 ELSE IF 10 * cost >= 8 * budget THEN 1 ELSE 0

\* An absent or zero budget and an empty ladder are skipped.
Evaluated(d) ==
  /\ {"budget", "ladder"} \subseteq DOMAIN d
  /\ d["budget"] > 0 /\ d["ladder"] > 0

\* Mutant of WithLevel: a level of zero is never written back.
WithLevelRaised(d, level) ==
  IF level = 0 THEN d ELSE [f \in DOMAIN d \cup {"level"} |-> IF f = "level" THEN level ELSE d[f]]

WithLevel(d, level) ==
  [f \in (DOMAIN d \ {"level"}) \cup {f \in {"level"} : level > 0} |->
     IF f = "level" THEN level ELSE d[f]]

(* budget.evaluate_downgrades: whole documents, of the consumers whose     *)
(* level changes only.                                                     *)
Downgrades(usage) ==
  LET NewLevel(c) == LevelFor(usage[c], docs[c]["budget"])
      Changed == {c \in Docs : Evaluated(docs[c]) /\ NewLevel(c) # Level(docs[c])}
  IN [c \in Changed |-> WithLevel(docs[c], NewLevel(c))]

NextWrite(record) ==
  IF record.writes = <<>> THEN [record EXCEPT !.pc = "bundle"] ELSE [record EXCEPT !.pc = "levels"]

ReadDocs(x) ==
  /\ Running(x, "docs")
  /\ JobStep(x, NextWrite([job[x] EXCEPT !.writes = Downgrades(job[x].usage),
                                         !.usage = IdleJob.usage]))
  /\ UNCHANGED <<stores, put, left, edits, levels>>

WriteLevel(x) ==
  /\ Running(x, "levels")
  /\ \E c \in DOMAIN job[x].writes :
       /\ docs' = [docs EXCEPT ![c] = job[x].writes[c]]
       /\ clobbered' = clobbered \cup (job[x].stale \cap {c})
       /\ job' = [JobsAfterWrite(c) EXCEPT ![x] =
                    NextWrite([job[x] EXCEPT !.writes = Without(@, {c}), !.stale = @ \ {c}])]
       /\ put' = PutsAfterWrite(c)
  /\ UNCHANGED <<global, named, bundle, spend, left, intent, doubtful, levels>>

BundleField == {"tier", "ladder", "level"}

\* build_consumer_bundle; the budget stays behind.
Bundle == [c \in Docs |-> Restrict(docs[c], BundleField \cap DOMAIN docs[c])]

ReadBundle(x) ==
  /\ Running(x, "bundle")
  /\ JobStep(x, [job[x] EXCEPT !.pc = "publish", !.entries = Bundle])
  /\ UNCHANGED <<stores, put, left, edits, levels>>

Publish(x) ==
  /\ Running(x, "publish")
  /\ bundle' = job[x].entries
  /\ JobStep(x, IdleJob)
  /\ relieved' = relieved \ fresh /\ fresh' = {}
  /\ UNCHANGED <<docs, global, named, spend, put, left, edits>>

(* Any Azure call may raise, or the container be killed: main returns 1.   *)
(* A call that raises though it took effect is that call's step and this.  *)
ExecutionFails(x) ==
  /\ ~Running(x, "idle")
  /\ left.faults > 0
  /\ left' = [left EXCEPT !.faults = @ - 1]
  /\ JobStep(x, IdleJob)
  /\ fresh' = {}
  /\ UNCHANGED <<stores, put, edits, relieved>>

-----------------------------------------------------------------------------
(* The BFF, app.py put_consumer_config and delete_consumer.                *)

Updated(d, body) ==
  [f \in DOMAIN d \cup DOMAIN body |-> IF f \in DOMAIN body THEN body[f] ELSE d[f]]

\* Mutant of Merged: the body replaces the stored document.
MergedNothing(d, body) ==
  IF d = NoDoc THEN body ELSE Updated(Restrict(d, {"level"} \cap DOMAIN d), body)

\* Mutant of Merged: the level the job wrote is not carried over.
MergedOperatorFields(d, body) == IF d = NoDoc THEN body ELSE Updated(Without(d, {"level"}), body)

Merged(d, body) == IF d = NoDoc THEN body ELSE Updated(d, body)

PutReads(r) ==
  /\ put[r].pc = "idle" /\ left.edits > 0
  /\ left' = [left EXCEPT !.edits = @ - 1]
  /\ \E c \in Consumer, e \in Edit :
       put' = [put EXCEPT ![r] = [pc |-> "write", consumer |-> c, body |-> e,
                                  merged |-> Merged(docs[c], e), stale |-> FALSE]]
  /\ UNCHANGED <<stores, job, edits, levels>>

(* The upsert of the merged document.                                      *)
Overwrite(r) ==
  LET c == put[r].consumer
  IN /\ docs' = [docs EXCEPT ![c] = put[r].merged]
     /\ job' = JobsAfterWrite(c)
     /\ put' = [PutsAfterWrite(c) EXCEPT ![r] = IdlePut]
     /\ clobbered' = clobbered \cup IF put[r].stale THEN {c} ELSE {}
     /\ Relieve(IF put[r].stale \/ {"budget", "ladder"} \cap DOMAIN put[r].body # {}
                THEN {c} ELSE {})

(* A budget edit then asks for an execution of the job, best effort: that  *)
(* is StartExecution, which cron may take at any time anyway.              *)
PutWrites(r) ==
  /\ put[r].pc = "write"
  /\ Overwrite(r)
  /\ LET c == put[r].consumer  e == put[r].body
     IN /\ intent' = [intent EXCEPT ![c] = IF @ = NoDoc THEN e ELSE Updated(@, e)]
        /\ doubtful' = [doubtful EXCEPT ![c] = @ \ DOMAIN e]
  /\ UNCHANGED <<global, named, bundle, spend, left>>

(* The operator is told 500, whether or not the upsert took effect.        *)
PutFails(r) ==
  /\ put[r].pc = "write" /\ left.faults > 0
  /\ left' = [left EXCEPT !.faults = @ - 1]
  /\ \/ /\ put' = [put EXCEPT ![r] = IdlePut]
        /\ UNCHANGED <<docs, job, doubtful, clobbered, levels>>
     \/ /\ Overwrite(r)
        /\ doubtful' = [doubtful EXCEPT ![put[r].consumer] = @ \cup DOMAIN put[r].body]
  /\ UNCHANGED <<global, named, bundle, spend, intent>>

(* The deletion takes effect, and the operator is told so or not; one that *)
(* does not leaves everything as it is.                                    *)
DeleteConfig(c) ==
  /\ left.edits > 0 /\ docs[c] # NoDoc
  /\ docs' = [docs EXCEPT ![c] = NoDoc]
  /\ job' = JobsAfterWrite(c) /\ put' = PutsAfterWrite(c)
  /\ Relieve({c})
  /\ \/ /\ left' = [left EXCEPT !.edits = @ - 1]
        /\ intent' = [intent EXCEPT ![c] = NoDoc]
        /\ doubtful' = [doubtful EXCEPT ![c] = {}]
     \/ /\ left.faults > 0
        /\ left' = [left EXCEPT !.edits = @ - 1, !.faults = @ - 1]
        /\ doubtful' = [doubtful EXCEPT ![c] = OperatorField]
        /\ UNCHANGED intent
  /\ UNCHANGED <<global, named, bundle, spend, clobbered>>

-----------------------------------------------------------------------------
(* The world: the operator's global document, traffic and midnight.        *)

EditGlobal ==
  /\ left.edits > 0
  /\ left' = [left EXCEPT !.edits = @ - 1]
  /\ \E g \in GlobalEdit : global' = g /\ intent' = [intent EXCEPT !["global"] = g]
  /\ job' = JobsAfterWrite("global")
  /\ UNCHANGED <<docs, named, bundle, spend, put, doubtful, clobbered, levels>>

\* More traffic, or a higher price for what the day saw so far.
Spend(c) ==
  /\ \E s \in Cost : s > spend[c] /\ spend' = [spend EXCEPT ![c] = s]
  /\ UNCHANGED <<docs, global, named, bundle, job, put, left, edits, levels>>

(* A price falls, by the job's own refresh or an operator's override: the  *)
(* usage of the day costs less from now on.                                *)
Reprice ==
  /\ left.reprices > 0
  /\ left' = [left EXCEPT !.reprices = @ - 1]
  /\ \E s \in [Consumer -> Cost] :
       /\ s # spend /\ \A c \in Consumer : s[c] <= spend[c]
       /\ spend' = s
       /\ Relieve({c \in Consumer : s[c] < spend[c]})
  /\ UNCHANGED <<docs, global, named, bundle, job, put, edits>>

NewDay ==
  /\ left.days > 0
  /\ left' = [left EXCEPT !.days = @ - 1]
  /\ spend' = [c \in Consumer |-> 0]
  /\ Relieve(Consumer)
  /\ UNCHANGED <<docs, global, named, bundle, job, put, edits>>

ExecutionStep(x) ==
  \/ StartExecution(x) \/ ReadGlobal(x) \/ SeedGlobal(x) \/ WriteNamed(x)
  \/ QueryUsage(x) \/ ReadDocs(x) \/ WriteLevel(x) \/ ReadBundle(x) \/ Publish(x)

Next ==
  \/ \E x \in Execution : ExecutionStep(x) \/ ExecutionFails(x)
  \/ \E r \in Request : PutReads(r) \/ PutWrites(r) \/ PutFails(r)
  \/ \E c \in Consumer : DeleteConfig(c) \/ Spend(c)
  \/ EditGlobal \/ Reprice \/ NewDay

(* Cron starts executions for ever and a started one goes on; a request    *)
(* that has read writes or fails.  Nobody has to edit or to spend.         *)
Fairness ==
  /\ \A x \in Execution : WF_vars(ExecutionStep(x))
  /\ \A r \in Request : WF_vars(PutWrites(r))

Spec == Init /\ [][Next]_vars /\ Fairness

-----------------------------------------------------------------------------
(* Properties.                                                             *)

\* What a document says of a field: its value, or nothing.
Said(d, f) == IF d # NoDoc /\ f \in DOMAIN d THEN {d[f]} ELSE {}

(* What an operator was told is saved stays as saved, through partial      *)
(* edits, level writes, deletions and failed executions, unless someone    *)
(* wrote the document from a copy read before the edit (PUT and the job    *)
(* both write whole documents back, app.py:257-262, sync.py:216) or a      *)
(* request of which the operator was told that it failed changed that very *)
(* field.                                                                  *)
EditsSurvive ==
  /\ \A c \in Consumer \ clobbered : \A f \in OperatorField \ doubtful[c] :
       Said(docs[c], f) = Said(intent[c], f)
  /\ "global" \notin clobbered /\ intent["global"] # NoDoc => global = intent["global"]

PublishedLevel(c) == IF c \in DOMAIN bundle THEN Level(bundle[c]) ELSE 0

(* The downgrade the gateway enforces on a consumer is lifted only for a   *)
(* reason that came up since an undisturbed execution last published: its  *)
(* budget or ladder was edited or its document deleted, the day ended, a   *)
(* fallen price made the day's usage cheaper, the usage came back partial, *)
(* or two executions overlapped.                                           *)
DowngradesHold ==
  [][\A c \in Consumer \ relieved : PublishedLevel(c)' >= PublishedLevel(c)]_vars

Settled ==
  /\ \A f \in Range(FieldOrder) \cap DOMAIN global : named[f] = global[f]
  /\ bundle = Bundle
  /\ \A c \in Docs : Evaluated(docs[c]) => Level(docs[c]) = LevelFor(spend[c], docs[c]["budget"])

(* Once edits, traffic and faults stop, the gateway ends up enforcing what *)
(* the documents say, and the levels what the spend says, however stale    *)
(* the copies that were written on the way.                                *)
Converges == <>[](global # NoDoc /\ Settled)
=============================================================================
