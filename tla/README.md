# TLA+ models of the NOC agent and its token-governance gateway

This directory specifies, model-checks and proves properties of the stateful parts of
the repository: the detected-incident monitor, the agent's turns and its host
(`src/agent`), the run ledger, the budget lease, the config-sync worker and the
admin back end of the gateway (`src/gateway/app`), and the provisioning scripts
(`src/scripts`). Paths below are relative to `src/` unless they name a file of
this directory.

## 1. Inventory

| Component | State it keeps | Operations | Talks to |
|---|---|---|---|
| **Incident monitor** `agent/incident_monitor.py` | blob `monitor/state.json` (cursor, pending, dead letters), blob `monitor/subscription.json`, lease on `monitor/leader.lock`; per process `_lease_lost`, `_task` and the `state` dictionary of `run_once` | `start`, `stop`, `run`, `_renew`, `run_once`, `_process`, `save_subscription`, `remove_subscription` | Blob storage, Kusto `IncidentEvents`, the host's `_handle_detected_incident` |
| **Agent turn** `agent/agent.py` | run ids and tokens, the confirmed specialists, context variables of a turn | `process_user_message`, `_run_turn`, `_call_specialist`, `investigate_detected_incident` | run ledger, Foundry agents, Teams |
| **Cowork MCP server** `agent/mcp_server.py` | none beyond a call | `call_tool`, `_invoke_noc_tool` | agent, run ledger |
| **Conversations and tokens** `agent/agent.py` | history list and cached token of each user | `process_user_message`, `_exchange_user_token` | token broker |
| **Host server** `agent/host_agent_server.py`, **notifications** `agent/notifications.py` | the agent, the monitor, the blob repository, start-up task | `initialize_agent`, `cleanup`, `notify_incident`, `broadcast` | Teams, Graph mail, monitor |
| **Run ledger** `gateway/app/run-ledger/run_ledger/service.py`, `decide.py` | Redis hash `run:<id>`, list `run:<id>:prompts`, keys `resv:<id>` with a TTL | `create_run`, `precall`, `postcall` | Redis; called by APIM and the agent |
| **Budget lease** `.../budget_lease.py` | `Ledger` (granted, settled, outstanding grants), `Lease` per orchestrator | `grant`, `reclaim_expired`, `settle`, `renew`, `debit`, `release` | in process; a stand-in not yet wired into the service |
| **Config-sync worker** `gateway/app/config-sync-worker` | none; reads and writes Cosmos and APIM named values | one execution of `main`: named values, budget downgrades, consumer bundle, prices | Cosmos, Log Analytics, APIM, Retail Prices API |
| **Admin BFF** `gateway/app/admin-ui/bff` | Cosmos documents (keys, consumers, configuration, pricing), two copies of the prices in its process | create/delete key, create/update/delete consumer, put configuration, pricing refresh/put | Cosmos, APIM, job starter |
| **Provisioning scripts** `scripts/` | `.env`; Fabric, Foundry, Entra and Kusto resources | one run of each script | Fabric, Foundry, Graph, Kusto |
| APIM policies, dashboards, admin SPA, Bicep, generated data | - | - | not modelled, see section 6 |

The monitor hands an event to the host, whose handler lets the agent investigate;
the agent, and the gateway for it, ask the run ledger before and report after
each model call; operators edit consumers through the BFF, and the worker
publishes what they saved, with the day's budget levels, to the gateway. Scripts
create what the agent finds at its start.

### What is hard, and the properties that make each part correct

- **Monitor**: crash between any two of save / handle / save; two leaders after a
  lost lease, both overwriting one blob with a state read earlier; rows that
  become queryable late; a batch limit that cuts a burst with equal timestamps;
  one failing storage call. Correct when no event at or before the saved cursor
  is forgotten, events are settled in order, every visible event is posted or
  dead-lettered, and dead letters stay (the last three under one leader).
- **Run ledger**: concurrent precalls, concurrent and repeated reports, expiring
  reservations, lost callers. Correct when the counters equal the open
  reservations, spend and reservations stay under the budget, what is reported is
  never forgotten, and the concurrency cap holds and drains; each with the exceptions
  the callers force on it (calls that cost more than they reserved, charges no report
  tells of, corrected calls).
- **Budget lease**: expiry while the holder lives, late settles, superseded
  tokens. Correct when the ledger never hands out more than the budget and
  nothing is settled twice.
- **Agent turn**: many exits (consent, halt, provider error, missing specialist,
  watchdog) between asking the ledger and reporting to it; provider threads that
  outlive the turn; a ledger request that times out at the caller and is
  processed all the same. Correct when a reservation stays open, a charge stays
  unseen and a call is reported twice only in the few cases that can be named;
  when a cancelled turn stays quiet and every turn ends; and when the monitor
  posts complete evidence only.
- **Conversations, host**: turns of one user that overlap share a list object; a
  token expires under a running turn; shutdown in the middle of start-up; a mail
  that fails after others went out, perhaps one of the same persona.
- **Worker and BFF**: whole-document writes from stale copies, overlapping
  executions, partial failure between APIM and Cosmos, deletes that race with
  the issue of a key, two writers of the price document, prices that change what the
  day has cost so far. Correct when an
  acknowledged edit survives unless a stale copy was written or a failed request
  changed it, a downgrade is lifted only for a reason, a working key is mapped, a revoked one is dead, and everything
  converges once edits stop.
- **Scripts**: broken off anywhere and run again, administrators in between.
  Correct when a run that reports success leaves the whole and no run destroys
  what is not its own.

`PROJECT.json` lists each hazard with its line and the properties aimed at it.

## 2. Modules

| Module | What it is |
|---|---|
| `IncidentMonitor` | all instances' monitor tasks, lease, blob, event table |
| `DurableQueue` | the abstract promise: a durable queue settled in order |
| `RunLedgerDecide`, `RunLedger`, `RunLedgerAccounts` | `decide.py` as operators; the service, one run, concurrent callers; sums over open calls |
| `AtomicLedger` | the abstract promise: precalls and reports that take effect one at a time |
| `BudgetLease` | `Ledger` and its `Lease`s |
| `AgentTurn` | one turn and its bookkeeping |
| `Conversations` | histories and tokens that turns share |
| `HostServer` | start-up, shutdown, proactive mails |
| `ConsumerConfig`, `KeyRegistry`, `Pricing` | the three kinds of gateway documents and who writes them |
| `EventhouseSeed`, `WorkIqCredential`, `EntraAccess`, `FabricChain` | the provisioning scripts, by the resources they share |
| `IncidentMonitor_proofs`, `RunLedger_proofs`, `BudgetLease_proofs` | theorems about the module of that name (`RunLedger_proofs` also about `RunLedgerAccounts`) |
| `AgentServing_proofs` | theorems about `HostServer`, `Conversations` and `AgentTurn` |
| `GatewayConfig_proofs` | theorems about `KeyRegistry`, `Pricing` and `ConsumerConfig` |
| `EntraSetup_proofs` | theorems about `EntraAccess` and `WorkIqCredential` |
| `FabricData_proofs` | theorems about `FabricChain` and `EventhouseSeed` |
| `SumTheorems` | lemmas about sums over finite sets |
| `MC*` | definitions and composition for the TLC instances |

### IncidentMonitor

Events are numbered in the order of the compound cursor `(Timestamp,
IncidentId)`; the cursor is the number of an event, 0 when absent, and
`Timestamp` gives each event its time, several events possibly the same. An
action ends where the Python awaits: `ReadState`, `ReadSubscription`, `Poll`
(query), `SaveState` (`write_json`), the handler. `pc[i]` is the place of
instance `i` in `run`/`run_once`/`_process`; `mem[i]` is its local `state`
dictionary, which is written to `blob` as a whole. `lost[i]` is `_lease_lost`.
The lease has a holder and may have run out; a deposed leader goes on until it
looks at `_lease_lost`, which is how two leaders come about. `Crash` is both a
killed process (the lease stays until it expires) and `stop()` (the lease is
released); a write under way may or may not have reached the blob. `TaskFails`
is an exception of a storage or Kusto call. The handler is external: it may post
and report success, fail before posting, or fail after posting. `delivered` and
`passedOver` are history variables: what was posted, and what a query left out
although it returned something newer.

### RunLedger

One action is one Redis command or one MULTI transaction together with the
Python up to the next. A WATCH is a flag per caller that every write to the run
key clears. `PrecallRead` is WATCH, HGETALL, LRANGE and `decide`; the prompt
list is only ever written in the transaction that also writes the hash, so the
WATCH covers it (a refusal, which is returned without a transaction, may have
combined a hash with a list one reservation newer; the model reads both at
once). `PrecallExecute` is EXEC, `PrecallConflict` the WatchError retry.
`PostcallGet`, `PostcallExecute`, `PostcallCheck`, `PostcallHalt` are the four
commands of a report. Callers are slots: a slot makes a call, reports it and may
call again. Callers, as the gateway's policy (`openai-pipeline.xml`) and the agent are,
make three things harder than the ledger assumes:

- The output cap of a decision limits the call only under the decisions in
  `req.binds`. The policy rewrites the body on "mutate" and leaves it alone on
  "allow", so a limit of the body's own is needed for `{"allow", "mutate"}`; a
  specialist applies the cap on "mutate"; the roots of a turn never do. Without it a
  call may produce `ModelLimit` tokens. What reports book above the reservations is
  `excess`.
- A call reported as failed may have been charged (`ModelFails`): the agent's root
  whose tool raised, a cancelled Cowork call, the policy's on-error report. So may one
  whose reply carries no usage. What reports leave out is `unbooked`, bounded by
  `MaxUnbooked`.
- A caller cancelled during the call never reports (`CallerLost`).

`ConcurrencyCap` counts corrected calls apart, because `decide` lets them through before it asks for
the cap (the shipped policy has `loop_repeats` 3 in a window of 6).

`AtomicLedger` keeps the open calls and what is reserved for each, and no counters:
a precall decides on the run as it is and opens a call, a report closes one, a
halt for the budget needs a spent budget. `RunLedgerAccounts` maps the hash to it;
the counters `inflight` and `concurrent` become sums over the open calls, and `excess`
adds up what settlements were above what was reserved.

Prices are whole micros per token (the code rounds the product, so results
differ by less than a micro). `PriceOut[m] = 0 => PriceIn[m] = 0` excludes the
division by zero of the shrinking step.

### BudgetLease

Every method runs without yielding, so a method call is an action. `Tick`
advances the clock, `Resume` is a holder that died and was replaced. `debit`
renews at time 0.0, as the code does, so its grants may already have expired.

### AgentTurn

A *bracket* is what surrounds one model call: ask the ledger (`Enter`, `Precall`,
`Hear` or `Unheard`), call (`CallProvider`), usage event and report (`Returns`,
`Fails`, `Postcall`, `Reported`). There is one for each specialist and one for
the root: the orchestrator, the synthesis of an investigation, or, for a Cowork
call that goes straight to a specialist, the MCP server's own bracket without a
model. `calls[b].pc` is where its coroutine is, `ledger[b]` what the ledger has,
which may be ahead of the caller or behind it. `Precall`, `ProviderEnds` and
`Postcall` belong to the ledger and the provider and go on after a cancellation.
The ledger's own rules are `RunLedger`'s; here it answers held or refused.

Four kinds of turn: `teams` (90 s watchdog, identity optional), `cowork` and
`direct` (28 s), `monitor` (no run token, hence ungoverned, all five families
under a semaphore, each call with a deadline; the synthesis after them has none). Tool exceptions may reach the root
or not, depending on the framework; the model allows both. The root's call ends
only after the tools it started. `provider[b]` is "failed" for a call that raised, whether
or not the provider charged for it: that uncertainty is `RunLedger`'s.

### Conversations and HostServer

A history is a Python list, so `lists` holds objects and `stored` names one:
overlapping turns append to the same object. The clock counts in units of the
60 s margin. In `HostServer` an action is the code between two awaits of
`initialize_agent`, `cleanup` and `broadcast`; the bot framework is assumed to
hand on what a handler raises. The personas of a request are the caller's list, up to
`MaxPersonas` long and with repetitions; a later result replaces an earlier one of the
same persona.

### ConsumerConfig, KeyRegistry, Pricing

One action is one call to Azure with the Python up to the next. `job[x]` and
`put[r]` hold what an execution or a request has read; ghosts (`clobbered`, `doubtful`,
`relieved`, `raced`, `crossed`, `bare`) record exactly the circumstances under
which a property's promise lapses, so that it is claimed everywhere else. A
failing call may have taken effect, a PUT included: `doubtful` has the fields its
operator was told nothing certain about.

`spend` is what the day's usage costs at the prices of the moment: traffic and rising
prices raise it (`Spend`), a fallen price, from the job's own refresh or an operator's
override, lowers it (`Reprice`). `relieved` has the consumers for whom there is a reason to
lower the level; it is cleared when an execution that ran alone and read the whole usage
after the last such reason (`fresh`) publishes.

### The scripts

One script runs at a time in each module (an operator runs them by hand); any
call may fail and the operator may interrupt, which leaves everything done so
far. Administrators, Graph's listing delay (of both scripts' applications), queued
ingestion and Fabric's late graph run concurrently. Administrators add permissions, consents
and roles, replace roles, and take all of them away again: `withdrawn` says where they took
something since the run began, `assigned` whose role they set. An optional principal is
configured in `.env` or skipped (`Configured`). `eclipsing` has the applications that a
rotation made although the one in `.env` was there and not listed yet. `.env` is written
one key at a time where the code does.
`create_eventhouse` and `replay_monitor_anomaly` may overlap.

## 3. Runs

### Passing

| Run | Shows | Bounds, and why they are enough |
|---|---|---|
| `MonitorSplitBrain` | `TypeOK`, `AtLeastOnce`, `HeadOfLine` | two instances, one stalled lease (so two leaders and a stale overwrite), three events one tick apart that become visible in any order, batch 2, a catch-up window shorter than the run |
| `MonitorQueue` | `NothingSkippedInOrder`, `ImplementsQueue`, `EventuallyResolvedIfNoFault` | two instances, one crash and one failing call, three events of which two share a timestamp and a batch of 2, so that a batch is cut inside a burst; two attempts: retry, dead letter and failover occur. No stall: the refinement holds only under one leader |
| `LedgerReservations` | `ReservationsCounted`, `Ceiling`, `ConcurrencyCap`, `LedgerRemembers` | three callers and a cap of 2, so that callers queue and a correction passes the cap (two equal prompts in a window of 2); a budget of three one-micro tokens, calls that reserve 1 or 2 and may cost up to 3 where nothing limits their output, step cap 2: conflicts, overruns, cost_guard and the halts occur; 1.6 million states. Every charge of a report is told (`MaxUnbooked = 0`) |
| `LedgerLosses` | `ChargesBooked`, `ChargesWithinCeiling`, `ImplementsAtomicLedger`, `CapDrainsIfReported` | two callers and a cap of 1, one lost caller and one expiry, a budget of three one-micro tokens for calls that reserve 1 to 3 and cost up to 4, one micro that no report tells of; `LoopRepeats = 1`, so that progress_guard fires on any repetition: conflicts, shrinking, a halt between transaction and check, corrections past the cap, failures reported after a charge and calls that never settle occur. Both callers may be gone, so deadlock is not checked |
| `LeaseFencing` | `GrantedWithinBudget`, `NothingSettledTwice` | two holders, budget 3 over leases of 2 (partial grants), a TTL of one tick within two, overspending debits, four tokens (supersession, late settles, resumes) |
| `AgentServing` | `LeaksExplained`, `SecondReportExplained`, `BooksMatchCharges`, `ChargesAreVisible`, `PostsAreComplete`, `QuietAfterCancel`, `TurnsAlwaysEnd`; `AnswersFitQuestions`, `TokensOutliveTheMargin`; `ShutdownIsComplete`, `AnswersMatchMail` | two specialists, one of them delegated and answerable from the graph, perhaps missing at start-up, one call at a time for the monitor, all four kinds of turn; two users and three messages (overlap of two turns, and a third after them); lists of up to three of two personas, one without recipient, and a misspelt one, so that a repeated persona is accepted and then refused, or refused and then accepted. Turns, histories and the host end by design, so deadlock is not checked |
| `GatewayConfig` | `EditsSurvive`, `DowngradesHold`, `ConfigConverges`; `WorkingKeysAreMapped`, `RevokedKeysAreDead`, `ConfigOutlivesKeys`; `PinnedPricesHold` | one consumer (documents of different consumers are never combined) with two edits, a midnight and a fault, or an edit and a fall of prices, or two overlapping executions; a spend that reaches the first threshold of one budget and all of another, so that every level occurs; two clients, two keys, two handlers, four requests, one failing call; two price requests and one worker write over two price lists. The bounds on requests let it stop, so deadlock is not checked |
| `Provisioning` | `SeedingIsExact`; `CredentialsAgree`; `AccessIsComplete`, `NothingIsDropped`; `PublishedIsWhole`, `ChainIsFresh` | three seedings and two replays over three tables and a CSV of two rows, so that replayed rows can make up the count a seeding waits for; two applications and three secrets, enough for a rerun that makes a second application while the first is not listed, is broken off and run again; three runs of the Entra scripts with one edit or withdrawal in between and any of the optional principals configured; two workspaces, two data agents, six script runs: enough for a broken-off run, a deletion and a complete rerun. Scripts end, so deadlock is not checked |

`AgentServing`, `GatewayConfig` and `Provisioning` put modules side by side that
share no state a property relates: a run explores one part after another, from
all initial states of each, instead of their product.

### Violated: where code and documentation disagree

| Run | Property | What happens |
|---|---|---|
| `MonitorAfterFault` | `EventuallyResolved` | one failing storage or Kusto call ends `run()`; nothing restarts it |
| `LedgerDoubleReport` | `ReservationsCounted` | both reports pass the GET; the reservation comes off twice |
| `PricingOverrides` | `OverrideKept` | one execution of the job replaces the price document, the operator's override included |
| `SeedDuplicates` | `RerunsKeepOneBatch` | a rerun before the queued file has landed counts no rows and queues it again |

The findings in `PROJECT.json` quote the sentence each contradicts. The passing
counterparts state under which condition the promise does hold:
`EventuallyResolvedIfNoFault`, `ReservationsCounted` without double reports,
`PinnedPricesHold` until the job's next write, `SeedingIsExact` but for tables
whose seeding stopped waiting.

### Fairness

- Monitor (`Fairness`): the platform starts a stopped process, the lease of an
  instance that no longer renews runs out after its 15 to 60 seconds, the event
  loop runs every ready task, and Kusto queries have a timeout. The handler is not
  forced to return: the five specialist calls carry a deadline, but it is reset
  (`agent/agent.py:1167`) before the synthesis, which has none (1214).
  `EventuallyResolved` therefore has the hypothesis `HandlersReturn`. Faults, crashes,
  the clock, the event table and the operator are never forced.
- Ledger (`FairSpec`): a report under way runs on. Model calls need not end (that they
  do is a hypothesis of `CapDrainsIfReported`), nobody has to call again, and
  reservations need not expire.
- Turn: the event loop runs what is ready, timers fire, a ledger request is
  answered or times out after two seconds. A provider may hang for ever, except
  for the monitor's specialists, whose calls carry the investigation's deadline. Its
  synthesis may hang: `TurnsAlwaysEnd` claims nothing of a turn that waits for it for ever.
  That an orchestrator or a user starts tools is not assumed.
- Gateway: cron starts executions for ever and a started one goes on, a request
  that has read writes or fails. Edits, traffic, prices, midnights and faults are bounded
  and never forced, so "once they stop" is every behaviour's end.

### Other disagreements and consequences

These can be read off the modules; they have no run of their own.

- Monitor: the failure branch of `_process` does not look at `_lease_lost` and
  may settle an event after the lease is known to be lost, although
  `docs/ARCHITECTURE.md:73-74` says lease loss does not mark work complete. The
  cursor filter of the query drops a late row even inside the overlap meant to
  catch it. A deposed leader that overwrites a newer state takes its dead letters
  back. An event whose handler kills the process is never counted as an attempt.
- Ledger: two creations of one run can reset it
  (`gateway/app/run-ledger/tests/test_api.py:181` expects otherwise); a
  caller that never reports keeps its place in `concurrent`; `progress_guard`
  reserves without the affordability check and past the concurrency cap; a
  report after the run hash expired recreates a hash without a budget; a model
  priced for input only makes the shrinking step divide by zero. A call that fails
  after it was charged is never booked. On a plain "allow" the policy does not set the
  output limit it reserved for.
- Lease: each TTL lends out again what a live holder still spends, so the stated
  bound on overshoot (`budget_lease.py:6-7`) does not hold.
- Turn: the monitor's investigations never ask the ledger. Their synthesis has no
  deadline, so that one hanging call stops the monitor of its process. A direct Cowork call
  books an estimated charge for a bracket without a model. The Cowork root emits
  no usage event. Waiting for the usage report and being cancelled there makes a
  Cowork root report twice. A specialist missing at start-up is never looked for
  again, and a failed start-up is never retried: the host answers 503 for ever.
- Host: a failed token exchange makes `notify_incident` answer 200 with no
  results. An unknown persona raises the `KeyError` the host takes for an unknown
  conversation, after mails may have gone out. A persona named twice is mailed twice and
  reported as its last mail went.
- Gateway: a partial usage result lowers levels, and so does a fallen price, a reason the
  comments do not list (`config-sync-worker/sync.py:209` prices the whole day anew); a failed
  PUT may have changed the document; overlapping executions can lift
  a downgrade for a moment; the job's seed can overwrite a global document an
  operator has just made. A failing `list_secrets` leaves a working key nobody
  knows. Two concurrent requests can give one group to two consumers. The BFF's
  copies of the prices are stale after the worker's write, and the runs page
  keeps the prices of the start. An override saved before any price list was
  known becomes the base and cannot be removed.
- Scripts: the grant script changes the first consent it finds, also one user's,
  where its docstring speaks of an AllPrincipals grant
  (`scripts/grant_agent_identity_access.py:112`), and takes any role for "at least"
  the wanted one (154): an administrator's Viewer stays where Contributor is meant. Graph's
  listing delay can make a second application, after
  which Cowork runs end with "More than one". A Work IQ rerun that makes one and is broken
  off before `.env` names it leaves the connection with the new application's secret, and
  the next run, which finds the old one listed again and its secret good, reports success. A table Fabric refuses to load is logged
  and passed over. The graph script overwrites another graph model while the
  ontology's own has not appeared. `.env` goes on naming a deleted workspace.

## 4. Theorems

Checked by TLAPS for every value of the constants that satisfies the named
assumptions (`MonitorAssumption`; `DecideAssumption`, `LedgerAssumption`;
`LeaseAssumption`; `AgentAssumption`; `ConversationAssumption`; `HostAssumption`;
`ConfigAssumption`; `RegistryAssumption`; `PricingAssumption`; `EntraAssumption`;
`WorkIqAssumption`; `ChainAssumption`; `SeedAssumption`). They say that bounds are
numbers, that callers and holders are finitely many (sums range over them), and
that the marks for "no document", "no request" or "absent" are none of the real
ones. Every safety invariant and action property of the passing runs is proved.

**Monitor.** `TypeCorrect`, `DeliveryAtLeastOnce`, `HeadOfLineBlocking`,
`QueueRefinement`, `QueryComplete`. The
invariants about the blob are not inductive alone, because an overwrite brings
in whatever a task has in memory, and that may be an old state. The
strengthening says of every *snapshot* (the blob and each task's `mem`) that
everything up to its cursor is resolved and its pending entry is the one event
after that, and ties a task's `cur` and `batch` to its own `mem`. Since
"resolved" refers to the history (`delivered`, `passedOver`) and to the dead
letters of the same snapshot, a stale overwrite keeps the invariant: it takes
back the cursor together with the dead letters. This is why at-least-once
survives the split brain, while dead letters do not: the refinement
`ImplementsQueue`, which keeps them, needs a single leader, and is proved under
`MaxStalls = 0`. *SoleLeader* then says that a task in leadership holds a live
lease, and *Unsaved* what its memory has ahead of the blob at each point: nothing,
or the one change it is about to save, which is the queue's step. `QueryComplete`
rests on *Prefix*: the visible rows are the first ones and none is younger than the
clock, so the window keeps all of them beyond the cursor and `take` the oldest.

**Ledger.** `TypeCorrect`, `BudgetCeiling`, `ConcurrencyBounded`,
`ReservationsAreFresh`, `RunRemembers`. The inductive invariant `LedgerInv` adds to the
ceiling *Fresh* (a decided slot whose WATCH is clean carries the decision for
the present state) and *ChargedLate* (nothing is charged before the call). A
reservation keeps the ceiling because the decision is fresh
and `decide` only lets through what fits or a correction; a report keeps it
because it moves at most the reserved amount from reservations to spend, and the rest
to `excess`. Double
reports, lost callers and expiries are included: they only lower the sum. Nothing is
assumed about what calls cost: a call may cost more than it reserved (no enforced output
limit, more input than estimated, a dearer model than the one named), and the ceiling says
what then is left of the promise, since `decide` counts an overrun from its report on.
`ConcurrencyBounded` needs no condition on the policy: an admission that is not a
correction found room under the cap, and a correction adds one to both sides of
`ConcurrencyCap`.
`RunRemembers` assumes one creator (*OneCreator*): a second request that read an
empty hash would write the counters back to zero. That steps and steering do not go
back is *Fresh* again, since the transaction writes both as precall computed them.

**Ledger books.** `ReservationsBalance`, `ChargesBalance` and `ChargesBounded` hold
for a run with one creator whose calls are reported once (`~DoubleReport`), the
conditions of the passing runs; `LedgerDoubleReport` shows what a second report does.
The invariant `AccountsInv` adds to the two balances that a call has one report, that
a run not yet created has no calls and that nobody is told the cost of a call reported as
failed (*FailedUntold*), which is therefore in `unbooked`. The sums are
folds over a set; what adding, removing and changing one member does to them is
proved once, in `SumTheorems`, by an induction over subsets that takes the set of
subsets for which a fact holds as its parameter, so that no operator has to be
instantiated. `ChargesBounded` follows from the balances and the ceiling: what the open
calls cost is at most what is reserved for them and what they overran it by
(*CostsWithinReserved*).

`LedgerRefinement`: under the same conditions the service implements `AtomicLedger`.
A transaction that goes through is the abstract admission because its decision is
fresh and the counters it was made on are the sums over the open calls; the MULTI of a
report is the abstract settlement because the call is still open; everything else,
lost callers, expiries and failed transactions included, changes nothing the abstract
ledger has. *HaltsInv* adds that between the check of the budget and the halt the
budget stays spent, since spend never goes back.

**Lease.** `BudgetNeverExceeded` and `SettledOnce`, from `LeaseInv`, which is little
more than the two together with types: a grant takes at most what is left once the
expired grants are reclaimed, everything else only lowers `granted`, and a release
moves what a holder drew to `settled`, or drops it when its token is stale, in the
step that clears it from the lease.

**Turn.** `TypeCorrect`, `OpenReservationsExplained`, `SecondReports`, `Books`,
`Charges`, `Posts` and `CancelledIsQuiet`. The inductive invariant `IInv` speaks of
each bracket in four parts: *BeforeCall* (what cannot have happened yet),
*Settling* (ledger and reports agree: a booking has an arrived usage report, a
release an arrived failure report), *Reporting* (a bracket that got its
reservation confirmed and moved on has reported, unless it was cut off) and
*Truthful* (a usage report stands for a charge, a failure report for a failed
call, an answer for a charge or the graph). *Whole* adds what relates brackets: in
a cancelled turn nobody is asking, calling or reporting usage, and a root's call
ends after its tools. The last is needed because a Cowork turn may also end as
timed out without its watchdog, by the provider's own timeout. Helper lemmas
(`StepShape`, `CallProviderShape`, `SendShape`, `WatchdogShape`) say once what a
step does to its own bracket and that it leaves the others alone; each action's
lemma then treats the bracket that moves and the others apart.

**Conversations.** `AnswersFit` and `TokensOutlive`. The list a turn works on may be
shared, so the invariant speaks of the list objects: for a user without overlap the
stored list is complete pairs of question and answer, or the running turn's own list
ends in its question. `TokensOutlive` rests on `TokenInv`: a cached token expires its
margin after it may last be handed out, and a running turn took its token with more
than the margin to go.

**Consumer configuration.** `EditsHold` from `ConfigInv`: whoever is going to write a
whole document (a request that read it, an execution with its list of level writes)
either is known to hold a stale copy, which makes the write clobber the document, or
its copy is what the document would become from its present state.
A request that fails may have written, too; its fields go to `doubtful` and the others
must still be what was acknowledged.
`DowngradesStand` needs *LevelInv*, in two parts. *CalmInv*:
for a consumer nothing relieved, the level only climbs along the way an execution
carries it - published, in the document, in its pending write, by the usage it read -
so whatever it publishes next is no lower. This is where one execution at a time, full
usage and a cost that only grows enter; each departure from them puts
the consumer in `relieved`. *FreshInv* says what an execution that was not disturbed since
it read the usage has got right so far, whatever was published before; it is what makes
*CalmInv* true again of the consumers its publication takes out of `relieved`.

**Prices.** `PinnedHold`: what the pricing document, the base of a request and the
back end's two copies have to do with one another between the requests' calls.

**Keys.** `WorkingKeys`, `RevokedKeys` and `ConfigOutlives`, from `KeyInv`. The
properties speak of one moment, the requests of several: what a request holds
between two calls must agree with APIM and Cosmos although other requests go on.
*Drawn* says that a drawn key is nobody else's and is never drawn again, *InFlight*
that a key being issued is at most its own consumer's and a key being unmapped is
dead already, *Mapped* is the property with these exceptions spelled out, and
*Vacated* that a consumer about to lose its documents has no working key an operator
was handed, but for those issued after the count.

**Entra.** `AccessComplete` and `NothingDropped`, from `AccessInv`. *ReadIsCurrent*
says that what a run has read covers what is there, but for what was edited since;
this is what makes a write of a whole list harmless, and, but for what was withdrawn
since, is itself covered by what is there, so that a run that finds nothing missing may
skip the write. *CoworkSoFar* and *AgentSoFar*
describe the progress of each script: which scopes, consents and roles are in place
at each step, outside `withdrawn`. *RolesAreKnown* says that a role other than the wanted
one comes from an administrator (`assigned`), *UsersOwn* that a grant of one user has an
entry of his own. Two consents of one script may belong to the same grant, so a later
write has to be shown to keep an earlier one.

**Fabric.** `PublishedWhole` and `ChainFresh`, from `ChainInv`. *Staging* ties the
staged sources to the place of the agent's script, for an agent that others may
delete, recreate or attach sources to at any time; *Following* follows the ghost
`current` through .env, connection and specialist; *Naming* keeps a new workspace
from taking the place of one .env still names.

**Work IQ.** `CredentialsMatch`, from `CredInv`. A run decides to keep a secret by
looking at two of the four keys it finds in .env, and the four are written one by
one, so the question is whether a half-written .env can be taken for a whole one.
*EnvSound* says it cannot: .env holds one secret, the connection's, or *Unusable*
holds, which no later event but a rotation undoes - the key on file is dead for that
application, or its expiry has come near, because that is why the broken-off run
rotated. Graph's listing delay adds the one other reason for a rotation: the application in
.env was there and not listed, so the run made another. Then the connection may be ahead
of a perfectly usable .env, and `eclipsing` says of which application it is; it leaves
`eclipsing` when .env names it. The order of the writes (connection first, then application, secret, key,
expiry) is what the proof rests on.

**Eventhouse.** `SeedingExact`, from `SeedInv`: only the seeding that waits for a file
has it queued, it queued it for an empty table (*Once*), and the tables it has passed
have rows (*Passed*). The proof changed the property: a seeding that waits for its file ends
when the count is right, and replayed rows can make up that count while the file is
still queued, so that a rerun may count it short and queue it again although no run
was broken off. `seedCut` therefore marks a table whose seeding stopped waiting for
either reason, and the run uses a CSV of two rows so that it happens.

**Host.** `ShutdownCompletes` and `AnswersMatch`, from `HostInv`: once the cleanup
has cancelled the start-up nothing starts any more, and while a request mails, its
results are what was accepted, but that a refusal may stand for a persona the list names
again.

**Only model-checked.** Liveness (`EventuallyResolvedIfNoFault`,
`CapDrainsIfReported`, `TurnsAlwaysEnd`, `ConfigConverges`), which is outside the
prover.

## 5. Plan

Done: the agent's turn, its host and its memory, the gateway's configuration, the
provisioning scripts, and the theorems of section 4. What is left, in order of what
it would add:

1. The composition of `AgentTurn` with `AtomicLedger`, so that the answers held and
   refused come from the open calls instead of a choice; `LedgerRefinement` then
   carries the result over to the service.
2. The run hash's own expiry, and two consumers that share a group across
   `KeyRegistry` and `ConsumerConfig`.
3. Abstract specifications for the configuration (a document per consumer, written
   atomically) and for the issue and revocation of keys.

## 6. Not modelled

- Token signing, HTTP and Redis connections; expiry of the run hash (its TTL is
  refreshed by every call and exceeds the reservation's).
- The text of prompts, answers, mails and queries, routing a question to
  specialists, the layout of cards; sub-microsecond timestamps.
- `agent/token_cache.py` (observability tokens only), authentication middleware,
  message routing and health endpoint of the host.
- `generate_incident_telemetry.py` (arithmetic on constants into CSV files),
  `create_foundry_iq_kb.py`, `create_rti_connection.py`,
  `refresh_iq_connections.py` and the toolbox spike: one or two create-or-update
  calls in a row without state of their own.
- APIM policies beyond the calls `openai-pipeline.xml` makes to the ledger (they
  are `RunLedger`'s callers, with the charge a failing call may still bring) and
  the published named values; the 4096-character limit of a named value
  (`config-sync-worker/sync.py:75`), which
  the worker only warns of. Dashboards, the SPA, Bicep and sample data.
- What administrators delete besides grants: applications, service principals
  and resources stay. A grant taken away and made anew counts as present.
- Portal users who publish the data agent or detach its sources; they only
  attach. `FabricChain.RecordDataAgent` records the agent that exists; when one is
  deleted between its making and its recording the script writes the stale id
  (`create_fabric_data_agent.py:366-378`), a run the ghost `current` excludes.
