--------------------------- MODULE IncidentMonitor ---------------------------
(***************************************************************************)
(* The detected-incident monitor of src/agent/incident_monitor.py: every   *)
(* App Service instance runs one IncidentMonitor task; a blob lease elects *)
(* the one that polls the IncidentEvents table and drives the handler.     *)
(* The durable state is one JSON blob (cursor, pending work, dead letters) *)
(* that a leader reads at the start of run_once, changes in memory and     *)
(* overwrites as a whole after every change.                               *)
(*                                                                         *)
(* Events are numbered in the order of the compound cursor                 *)
(* (Timestamp, IncidentId), so the cursor is the number of an event and 0  *)
(* is the absent cursor.  The lease service, the event table and the       *)
(* conversation the handler posts to are external.                         *)
(***************************************************************************)
EXTENDS Integers, FiniteSets

CONSTANTS
  Inst,           \* the App Service instances that run a monitor
  NoInst,         \* "no instance holds the lease"
  NumEvents,      \* the events are 1 .. NumEvents, in cursor order
  Timestamp,      \* the Timestamp column of each event
  MaxTime,        \* bound on the clock
  Overlap,        \* config.overlap_seconds
  MaxCatchup,     \* config.max_catchup_minutes
  FirstLookback,  \* config.first_run_lookback_minutes
  BatchSize,      \* config.batch_size
  MaxAttempts,    \* config.max_attempts
  InOrder,        \* TRUE: rows become queryable in cursor order
  MaxFaults,      \* bound on blob/Kusto calls that raise
  MaxCrashes,     \* bound on process crashes and graceful stops
  MaxStalls       \* bound on lease trouble of a live leader

Event == 1 .. NumEvents

ASSUME MonitorAssumption ==
  /\ NoInst \notin Inst
  /\ NumEvents \in Nat
  /\ Timestamp \in [Event -> Nat]
  /\ \A e, f \in Event : e <= f => Timestamp[e] <= Timestamp[f]
  /\ MaxTime \in Nat /\ Overlap \in Nat
  /\ MaxCatchup \in Nat /\ FirstLookback \in Nat
  /\ BatchSize \in Nat \ {0} /\ MaxAttempts \in Nat \ {0}
  /\ InOrder \in BOOLEAN
  /\ MaxFaults \in Nat /\ MaxCrashes \in Nat /\ MaxStalls \in Nat

VARIABLES
  now,          \* the clock every instance reads
  visible,      \* rows of the event table a query can return
  subscribed,   \* the subscription blob exists
  blob,         \* contents of monitor/state.json
  holder,       \* instance whose lease id is on monitor/leader.lock
  leaseLive,    \* that lease has not expired
  pc,           \* where each instance's task stands
  lost,         \* _lease_lost
  mem,          \* the `state` dictionary a run_once works on
  polled,       \* run_once has queried the table
  batch,        \* events of the query not yet looked at
  cur,          \* event _process is working on, 0 when none
  delivered,    \* history: events whose update reached the conversation
  passedOver,   \* history: events left out by a query that returned a newer one
  faults, crashes, stalls

clockVars == <<now, visible, subscribed>>
leaseVars == <<holder, leaseLive>>
localVars == <<pc, lost, mem, polled, batch, cur>>
boundVars == <<faults, crashes, stalls>>
vars == <<clockVars, blob, leaseVars, localVars, delivered, passedOver, boundVars>>

-----------------------------------------------------------------------------
(* The durable state.  An entry of "pending" carries its attempts; an      *)
(* event that is not pending has none.                                     *)

MonitorState ==
  [cursor : 0 .. NumEvents, pending : SUBSET Event,
   attempts : [Event -> 0 .. MaxAttempts - 1], dead : SUBSET Event]

EmptyState ==
  [cursor |-> 0, pending |-> {}, attempts |-> [e \in Event |-> 0], dead |-> {}]

\* Mutant of Pend: the cursor is saved together with the pending entry.
PendAdvancing(s, e) ==
  [s EXCEPT !.cursor = e, !.pending = @ \cup {e}, !.attempts = [@ EXCEPT ![e] = 0]]

Pend(s, e) == [s EXCEPT !.pending = @ \cup {e}, !.attempts = [@ EXCEPT ![e] = 0]]

Retry(s, e) == [s EXCEPT !.attempts = [@ EXCEPT ![e] = s.attempts[e] + 1]]

Settle(s, e) ==
  [s EXCEPT !.cursor = e, !.pending = @ \ {e}, !.attempts = [@ EXCEPT ![e] = 0]]

DeadLetter(s, e) == [Settle(s, e) EXCEPT !.dead = @ \cup {e}]

-----------------------------------------------------------------------------
(* build_incident_query: the rows in the window that follow the cursor,    *)
(* oldest first, at most BatchSize of them.                                *)

Later(x, y) == IF x < y THEN y ELSE x

LowerBound(c, t) ==
  IF c = 0 THEN t - FirstLookback
  ELSE Later(Timestamp[c] - Overlap, t - MaxCatchup)

Matching(c, t) ==
  {e \in visible : e > c /\ LowerBound(c, t) <= Timestamp[e] /\ Timestamp[e] <= t}

\* Mutant of QueryResult: `order by ... desc` before `take`.
QueryResultNewest(c, t) ==
  {e \in Matching(c, t) :
     Cardinality({f \in Matching(c, t) : f > e}) < BatchSize}

QueryResult(c, t) ==
  {e \in Matching(c, t) :
     Cardinality({f \in Matching(c, t) : f < e}) < BatchSize}

-----------------------------------------------------------------------------
Saving == {"saveTake", "saveDone", "saveRetry"}

LeaderPC == {"idle", "loaded", "choose", "handling"} \cup Saving

Init ==
  /\ now = 0 /\ visible = {} /\ subscribed = FALSE
  /\ blob = EmptyState
  /\ holder = NoInst /\ leaseLive = FALSE
  /\ pc = [i \in Inst |-> "off"]
  /\ lost = [i \in Inst |-> FALSE]
  /\ mem = [i \in Inst |-> EmptyState]
  /\ polled = [i \in Inst |-> FALSE]
  /\ batch = [i \in Inst |-> {}]
  /\ cur = [i \in Inst |-> 0]
  /\ delivered = {} /\ passedOver = {}
  /\ faults = 0 /\ crashes = 0 /\ stalls = 0

Goto(i, l) == pc' = [pc EXCEPT ![i] = l]

(* run_once returns (or the task ends): its local variables are gone.      *)
Forget(i) ==
  /\ mem' = [mem EXCEPT ![i] = EmptyState]
  /\ polled' = [polled EXCEPT ![i] = FALSE]
  /\ batch' = [batch EXCEPT ![i] = {}]
  /\ cur' = [cur EXCEPT ![i] = 0]

-----------------------------------------------------------------------------
(* The environment: time, the event table, the operator.                   *)

Tick ==
  /\ now < MaxTime
  /\ now' = now + 1
  /\ UNCHANGED <<visible, subscribed, blob, leaseVars, localVars, delivered,
                 passedOver, boundVars>>

Ingest(e) ==
  /\ e \notin visible
  /\ Timestamp[e] <= now
  /\ InOrder => \A f \in Event : f < e => f \in visible
  /\ visible' = visible \cup {e}
  /\ UNCHANGED <<now, subscribed, blob, leaseVars, localVars, delivered,
                 passedOver, boundVars>>

SaveSubscription ==
  /\ ~subscribed
  /\ subscribed' = TRUE
  /\ UNCHANGED <<now, visible, blob, leaseVars, localVars, delivered,
                 passedOver, boundVars>>

RemoveSubscription ==
  /\ subscribed
  /\ subscribed' = FALSE
  /\ UNCHANGED <<now, visible, blob, leaseVars, localVars, delivered,
                 passedOver, boundVars>>

-----------------------------------------------------------------------------
(* Leadership.                                                             *)

Start(i) ==
  /\ pc[i] = "off"
  /\ Goto(i, "standby")
  /\ lost' = [lost EXCEPT ![i] = FALSE]
  /\ UNCHANGED <<clockVars, blob, leaseVars, mem, polled, batch, cur,
                 delivered, passedOver, boundVars>>

AcquireLease(i) ==
  /\ pc[i] = "standby"
  /\ ~leaseLive
  /\ holder' = i /\ leaseLive' = TRUE
  /\ Goto(i, "idle")
  /\ UNCHANGED <<clockVars, blob, lost, mem, polled, batch, cur,
                 delivered, passedOver, boundVars>>

(* The lease runs out.  Nobody renews the lease of an instance that is     *)
(* down or whose _renew task has ended; a live leader only misses a        *)
(* renewal when it is stalled or cut off from storage.                     *)
Renewing(i) == pc[i] \in LeaderPC /\ ~lost[i]

LeaseExpires ==
  /\ leaseLive
  /\ leaseLive' = FALSE
  /\ IF Renewing(holder)
     THEN stalls < MaxStalls /\ stalls' = stalls + 1
     ELSE UNCHANGED stalls
  /\ UNCHANGED <<clockVars, blob, holder, localVars, delivered, passedOver,
                 faults, crashes>>

(* A lapsed lease nobody took can still be renewed by its id.              *)
RenewSucceeds(i) ==
  /\ Renewing(i) /\ holder = i /\ ~leaseLive
  /\ leaseLive' = TRUE
  /\ UNCHANGED <<clockVars, blob, holder, localVars, delivered, passedOver,
                 boundVars>>

(* renew() raises: because another id is on the blob, or for any other     *)
(* error; _renew sets _lease_lost and ends.                                *)
RenewFails(i) ==
  /\ Renewing(i)
  /\ \/ holder # i /\ UNCHANGED stalls
     \/ holder = i /\ stalls < MaxStalls /\ stalls' = stalls + 1
  /\ lost' = [lost EXCEPT ![i] = TRUE]
  /\ UNCHANGED <<clockVars, blob, leaseVars, pc, mem, polled, batch, cur,
                 delivered, passedOver, faults, crashes>>

(* The finally block of run(): release only what this task holds.          *)
ReleaseLease(i) ==
  IF pc[i] \in LeaderPC /\ holder = i
  THEN holder' = NoInst /\ leaseLive' = FALSE
  ELSE UNCHANGED leaseVars

(* The loop of run() ends once _lease_lost is set; nothing restarts it.    *)
Retire(i) ==
  /\ pc[i] = "idle" /\ lost[i]
  /\ Goto(i, "ended")
  /\ ReleaseLease(i)
  /\ UNCHANGED <<clockVars, blob, lost, mem, polled, batch, cur,
                 delivered, passedOver, boundVars>>

-----------------------------------------------------------------------------
(* run_once.                                                               *)

ReadState(i) ==
  /\ pc[i] = "idle" /\ ~lost[i]
  /\ mem' = [mem EXCEPT ![i] = blob]
  /\ Goto(i, "loaded")
  /\ UNCHANGED <<clockVars, blob, leaseVars, lost, polled, batch, cur,
                 delivered, passedOver, boundVars>>

ReadSubscription(i) ==
  /\ pc[i] = "loaded"
  /\ \/ /\ subscribed
        /\ Goto(i, "choose")
        /\ UNCHANGED <<mem, polled, batch, cur>>
     \/ /\ ~subscribed
        /\ Goto(i, "idle")
        /\ Forget(i)
  /\ UNCHANGED <<clockVars, blob, leaseVars, lost, delivered, passedOver,
                 boundVars>>

(* Pending work comes first, oldest first.                                 *)
ResumePending(i) ==
  /\ pc[i] = "choose" /\ ~lost[i]
  /\ \E e \in mem[i].pending :
       /\ \A f \in mem[i].pending : e <= f
       /\ cur' = [cur EXCEPT ![i] = e]
  /\ Goto(i, "handling")
  /\ UNCHANGED <<clockVars, blob, leaseVars, lost, mem, polled, batch,
                 delivered, passedOver, boundVars>>

Poll(i) ==
  /\ pc[i] = "choose" /\ ~polled[i] /\ mem[i].pending = {}
  /\ polled' = [polled EXCEPT ![i] = TRUE]
  /\ LET c == mem[i].cursor
         q == QueryResult(c, now)
     IN /\ batch' = [batch EXCEPT ![i] = q]
        /\ passedOver' = passedOver \cup
             {e \in Event : e > c /\ e \notin q /\ \E f \in q : e < f}
  /\ UNCHANGED <<clockVars, blob, leaseVars, pc, lost, mem, cur, delivered,
                 boundVars>>

\* Mutant of TakeNext: the batch is walked newest first.
TakeNewest(i) ==
  /\ pc[i] = "choose" /\ polled[i] /\ mem[i].pending = {} /\ ~lost[i]
  /\ \E e \in batch[i] :
       /\ \A f \in batch[i] : f <= e
       /\ batch' = [batch EXCEPT ![i] = @ \ {e}]
       /\ mem' = [mem EXCEPT ![i] = Pend(@, e)]
       /\ cur' = [cur EXCEPT ![i] = e]
       /\ Goto(i, "saveTake")
  /\ UNCHANGED <<clockVars, blob, leaseVars, lost, polled, delivered,
                 passedOver, boundVars>>

\* Mutant of TakeNext: the handler runs before the pending entry is saved.
TakeUnsaved(i) ==
  /\ pc[i] = "choose" /\ polled[i] /\ mem[i].pending = {} /\ ~lost[i]
  /\ \E e \in batch[i] :
       /\ \A f \in batch[i] : e <= f
       /\ batch' = [batch EXCEPT ![i] = @ \ {e}]
       /\ mem' = [mem EXCEPT ![i] = Pend(@, e)]
       /\ cur' = [cur EXCEPT ![i] = e]
       /\ Goto(i, "handling")
  /\ UNCHANGED <<clockVars, blob, leaseVars, lost, polled, delivered,
                 passedOver, boundVars>>

(* The next row of the batch: skipped when the cursor has reached it,      *)
(* otherwise made pending and saved before the handler sees it.            *)
TakeNext(i) ==
  /\ pc[i] = "choose" /\ polled[i] /\ mem[i].pending = {} /\ ~lost[i]
  /\ \E e \in batch[i] :
       /\ \A f \in batch[i] : e <= f
       /\ batch' = [batch EXCEPT ![i] = @ \ {e}]
       /\ \/ /\ e <= mem[i].cursor
             /\ UNCHANGED <<pc, mem, cur>>
          \/ /\ e > mem[i].cursor
             /\ mem' = [mem EXCEPT ![i] = Pend(@, e)]
             /\ cur' = [cur EXCEPT ![i] = e]
             /\ Goto(i, "saveTake")
  /\ UNCHANGED <<clockVars, blob, leaseVars, lost, polled, delivered,
                 passedOver, boundVars>>

(* run_once returns: the batch is used up, or lease loss is seen at the    *)
(* head of one of its loops.                                               *)
FinishRun(i) ==
  /\ pc[i] = "choose"
  /\ \/ polled[i] /\ mem[i].pending = {} /\ batch[i] = {}
     \/ lost[i] /\ (mem[i].pending # {} \/ batch[i] # {})
  /\ Goto(i, "idle")
  /\ Forget(i)
  /\ UNCHANGED <<clockVars, blob, leaseVars, lost, delivered, passedOver,
                 boundVars>>

-----------------------------------------------------------------------------
(* _process.                                                               *)

(* The handler posted the update and returned True.  A lost lease leaves   *)
(* the event pending; otherwise the cursor moves in memory.                *)
HandlerSucceeds(i) ==
  /\ pc[i] = "handling"
  /\ delivered' = delivered \cup {cur[i]}
  /\ \/ /\ lost[i]
        /\ Goto(i, "idle")
        /\ Forget(i)
     \/ /\ ~lost[i]
        /\ mem' = [mem EXCEPT ![i] = Settle(@, cur[i])]
        /\ Goto(i, "saveDone")
        /\ UNCHANGED <<polled, batch, cur>>
  /\ UNCHANGED <<clockVars, blob, leaseVars, lost, passedOver, boundVars>>

\* Mutant of HandlerFails: `attempts <= max_attempts` allows one try more.
HandlerFailsOnceMore(i) ==
  /\ pc[i] = "handling"
  /\ delivered' \in {delivered, delivered \cup {cur[i]}}
  /\ \/ /\ mem[i].attempts[cur[i]] + 1 <= MaxAttempts
        /\ mem' = [mem EXCEPT ![i] = Retry(@, cur[i])]
        /\ Goto(i, "saveRetry")
     \/ /\ mem[i].attempts[cur[i]] + 1 > MaxAttempts
        /\ mem' = [mem EXCEPT ![i] = DeadLetter(@, cur[i])]
        /\ Goto(i, "saveDone")
  /\ UNCHANGED <<clockVars, blob, leaseVars, lost, polled, batch, cur,
                 passedOver, boundVars>>

\* Mutant of HandlerFails: the attempt count is not kept.
HandlerFailsUncounted(i) ==
  /\ pc[i] = "handling"
  /\ delivered' \in {delivered, delivered \cup {cur[i]}}
  /\ Goto(i, "saveRetry")
  /\ UNCHANGED <<clockVars, blob, leaseVars, lost, mem, polled, batch, cur,
                 passedOver, boundVars>>

(* The handler returned False or raised, before or after the update was    *)
(* posted.  This path does not look at _lease_lost.                        *)
HandlerFails(i) ==
  /\ pc[i] = "handling"
  /\ delivered' \in {delivered, delivered \cup {cur[i]}}
  /\ \/ /\ mem[i].attempts[cur[i]] + 1 < MaxAttempts
        /\ mem' = [mem EXCEPT ![i] = Retry(@, cur[i])]
        /\ Goto(i, "saveRetry")
     \/ /\ mem[i].attempts[cur[i]] + 1 >= MaxAttempts
        /\ mem' = [mem EXCEPT ![i] = DeadLetter(@, cur[i])]
        /\ Goto(i, "saveDone")
  /\ UNCHANGED <<clockVars, blob, leaseVars, lost, polled, batch, cur,
                 passedOver, boundVars>>

(* write_json of the whole state, unconditionally.                         *)
SaveState(i) ==
  /\ pc[i] \in Saving
  /\ blob' = mem[i]
  /\ \/ /\ pc[i] = "saveTake"
        /\ Goto(i, "handling")
        /\ UNCHANGED <<mem, polled, batch, cur>>
     \/ /\ pc[i] = "saveDone"
        /\ Goto(i, "choose")
        /\ cur' = [cur EXCEPT ![i] = 0]
        /\ UNCHANGED <<mem, polled, batch>>
     \/ /\ pc[i] = "saveRetry"
        /\ Goto(i, "idle")
        /\ Forget(i)
  /\ UNCHANGED <<clockVars, leaseVars, lost, delivered, passedOver, boundVars>>

-----------------------------------------------------------------------------
(* Failures.  A write cut short may or may not have reached the blob.      *)

InterruptedWrite(i) ==
  IF pc[i] \in Saving THEN blob' \in {blob, mem[i]} ELSE UNCHANGED blob

(* A storage or Kusto call outside the handler raises: run() logs the      *)
(* error, releases the lease and the task is over.                         *)
TaskFails(i) ==
  /\ faults < MaxFaults
  /\ faults' = faults + 1
  /\ \/ pc[i] \in {"standby", "loaded"} \cup Saving
     \/ pc[i] = "idle" /\ ~lost[i]
     \/ pc[i] = "choose" /\ ~polled[i] /\ mem[i].pending = {}
  /\ InterruptedWrite(i)
  /\ Goto(i, "ended")
  /\ Forget(i)
  /\ ReleaseLease(i)
  /\ UNCHANGED <<clockVars, lost, delivered, passedOver, crashes, stalls>>

(* The process dies, keeping the lease until it expires, or stop() cancels *)
(* the task, which releases it.                                            *)
Crash(i) ==
  /\ pc[i] # "off"
  /\ crashes < MaxCrashes
  /\ crashes' = crashes + 1
  /\ InterruptedWrite(i)
  /\ Goto(i, "off")
  /\ Forget(i)
  /\ \/ UNCHANGED leaseVars
     \/ ReleaseLease(i)
  /\ UNCHANGED <<clockVars, lost, delivered, passedOver, faults, stalls>>

-----------------------------------------------------------------------------
Leadership(i) ==
  \/ AcquireLease(i) \/ RenewSucceeds(i) \/ RenewFails(i) \/ Retire(i)

RunOnce(i) ==
  \/ ReadState(i) \/ ReadSubscription(i) \/ ResumePending(i) \/ Poll(i)
  \/ TakeNext(i) \/ FinishRun(i) \/ SaveState(i)

Handler(i) == HandlerSucceeds(i) \/ HandlerFails(i)

Environment ==
  \/ Tick \/ SaveSubscription \/ RemoveSubscription \/ LeaseExpires
  \/ \E e \in Event : Ingest(e)

Next ==
  \/ Environment
  \/ \E i \in Inst :
       \/ Start(i) \/ Leadership(i) \/ RunOnce(i) \/ Handler(i)
       \/ TaskFails(i) \/ Crash(i)

Spec == Init /\ [][Next]_vars

(* The platform starts a stopped process, the lease of a dead holder runs  *)
(* out, and the event loop runs every ready task.  Nothing is assumed of   *)
(* the handler, which may await the synthesis call for ever: that call has *)
(* no deadline.  Neither faults nor crashes, nor anything the operator or  *)
(* the clock does, must happen.                                            *)
Fairness ==
  /\ WF_vars(LeaseExpires /\ UNCHANGED stalls)
  /\ \A i \in Inst :
       /\ WF_vars(Start(i))
       /\ WF_vars(AcquireLease(i))
       /\ WF_vars(RunOnce(i))
       /\ WF_vars(Retire(i))

FairSpec == Spec /\ Fairness

-----------------------------------------------------------------------------
(* Type invariant: the JSON state always has the shape run_once relies on, *)
(* in the blob and in every task's memory, and no saved entry has used up  *)
(* its attempts.                                                           *)
TypeOK ==
  /\ now \in Nat /\ visible \in SUBSET Event /\ subscribed \in BOOLEAN
  /\ blob \in MonitorState
  /\ holder \in Inst \cup {NoInst} /\ leaseLive \in BOOLEAN
  /\ leaseLive => holder \in Inst
  /\ pc \in [Inst -> {"off", "standby", "ended"} \cup LeaderPC]
  /\ lost \in [Inst -> BOOLEAN]
  /\ mem \in [Inst -> MonitorState]
  /\ polled \in [Inst -> BOOLEAN]
  /\ batch \in [Inst -> SUBSET Event]
  /\ cur \in [Inst -> Event \cup {0}]
  /\ \A i \in Inst : pc[i] \in Saving \cup {"handling"} => cur[i] \in Event
  /\ delivered \in SUBSET Event /\ passedOver \in SUBSET Event
  /\ faults \in Nat /\ crashes \in Nat /\ stalls \in Nat

Resolved(s, e) == e \in delivered \cup s.dead \cup passedOver

(* At-least-once delivery: no event at or before the saved cursor is       *)
(* forgotten; it was posted, it is among the saved dead letters, or the    *)
(* query itself never returned it.  This holds whatever crashes, lost      *)
(* leases, stale overwrites and failed writes did.                         *)
AtLeastOnce == \A e \in 1 .. blob.cursor : Resolved(blob, e)

(* Head-of-line blocking: while an event is pending nothing newer has been *)
(* looked at and everything older is settled.                              *)
HeadOfLine ==
  \A e \in blob.pending :
    /\ blob.pending = {e} /\ blob.cursor < e
    /\ \A f \in 1 .. e - 1 : Resolved(blob, f)

(* When rows become queryable in cursor order and the catch-up windows     *)
(* reach back to the start, the cursor filter, ordering and `take` of the  *)
(* query never leave an event out.                                         *)
WindowCovers == MaxTime <= FirstLookback /\ MaxTime <= MaxCatchup

NothingSkippedInOrder == InOrder /\ WindowCovers => passedOver = {}

(* No handler hangs: whenever one runs it ends, or its process does.       *)
HandlersReturn == \A i \in Inst : []<>(pc[i] # "handling")

(* Every queryable event is eventually posted or dead-lettered, provided   *)
(* the conversation stays subscribed and every investigation comes back.   *)
EventuallyResolved ==
  <>[]subscribed /\ HandlersReturn =>
    \A e \in Event : e \in visible ~> e \in delivered \cup blob.dead

(* The same for a run in which no storage or Kusto call ever fails, since  *)
(* such a failure ends the monitor of its process for good.                *)
EventuallyResolvedIfNoFault == [](faults = 0) => EventuallyResolved

-----------------------------------------------------------------------------
(* The monitor under one leader at a time is a durable queue.              *)
Queue == INSTANCE DurableQueue WITH
  cursor <- blob.cursor, inFlight <- blob.pending,
  posted <- delivered, dead <- blob.dead

(* Refinement: with no lease trouble every step of every instance is a     *)
(* step of the durable queue, crashes and failed writes included; so the   *)
(* cursor never goes back, dead letters stay, and nothing is posted that   *)
(* was not saved as pending first.                                         *)
ImplementsQueue == Queue!Spec
=============================================================================
