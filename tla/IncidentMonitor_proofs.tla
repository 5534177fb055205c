------------------------ MODULE IncidentMonitor_proofs ------------------------
(***************************************************************************)
(* Type correctness of the incident monitor, and at-least-once delivery    *)
(* with head-of-line blocking, for every number of instances and events    *)
(* and whatever crashes, faults and lost leases do.  The argument never    *)
(* uses the lease: every snapshot of the state, saved or in memory, is     *)
(* sound by itself, so a stale snapshot overwriting a newer one is sound   *)
(* too.                                                                    *)
(***************************************************************************)
EXTENDS IncidentMonitor, FiniteSetTheorems, TLAPS

(* The shape of monitor/state.json is kept by each change to it.           *)
LEMMA StateChangesTyped ==
  ASSUME NEW s \in MonitorState, NEW e \in Event
  PROVE  /\ EmptyState \in MonitorState
         /\ Pend(s, e) \in MonitorState
         /\ s.attempts[e] + 1 < MaxAttempts => Retry(s, e) \in MonitorState
         /\ Settle(s, e) \in MonitorState
         /\ DeadLetter(s, e) \in MonitorState
<1> USE MonitorAssumption
<1> DEFINE A == [Event -> 0 .. MaxAttempts - 1]
<1>0. /\ s.cursor \in 0 .. NumEvents /\ e \in 0 .. NumEvents
      /\ s.pending \in SUBSET Event /\ s.dead \in SUBSET Event
      /\ s.attempts \in A
  BY DEF MonitorState, Event
<1>1. EmptyState \in MonitorState BY DEF EmptyState, MonitorState, Event
<1>2. [s.attempts EXCEPT ![e] = 0] \in A BY <1>0
<1>3. s.attempts[e] + 1 < MaxAttempts =>
        [s.attempts EXCEPT ![e] = s.attempts[e] + 1] \in A
  <2> SUFFICES ASSUME s.attempts[e] + 1 < MaxAttempts
               PROVE  [s.attempts EXCEPT ![e] = s.attempts[e] + 1] \in A
    OBVIOUS
  <2>1. s.attempts[e] + 1 \in 0 .. MaxAttempts - 1 BY <1>0
  <2> QED BY <1>0, <2>1
<1>4. ASSUME NEW c \in 0 .. NumEvents, NEW P \in SUBSET Event,
             NEW a \in A, NEW D \in SUBSET Event
      PROVE  /\ [s EXCEPT !.cursor = c, !.pending = P, !.attempts = a] \in MonitorState
             /\ [s EXCEPT !.pending = P, !.attempts = a] \in MonitorState
             /\ [s EXCEPT !.attempts = a] \in MonitorState
  BY DEF MonitorState
<1>5. Pend(s, e) \in MonitorState BY <1>0, <1>2, <1>4 DEF Pend
<1>6. s.attempts[e] + 1 < MaxAttempts => Retry(s, e) \in MonitorState
  BY <1>0, <1>3, <1>4 DEF Retry
<1>7. Settle(s, e) \in MonitorState BY <1>0, <1>2, <1>4 DEF Settle
<1>8. DeadLetter(s, e) \in MonitorState
  BY <1>7 DEF DeadLetter, MonitorState
<1> QED BY <1>1, <1>5, <1>6, <1>7, <1>8

LEMMA InitType == Init => TypeOK
<1> SUFFICES ASSUME Init PROVE TypeOK OBVIOUS
<1>1. EmptyState \in MonitorState
  BY MonitorAssumption DEF EmptyState, MonitorState, Event
<1> QED BY <1>1 DEF Init, TypeOK, Saving, LeaderPC

LEMMA TypeStep == TypeOK /\ [Next]_vars => TypeOK'
<1> SUFFICES ASSUME TypeOK, [Next]_vars PROVE TypeOK' OBVIOUS
<1> USE DEF TypeOK, clockVars, leaseVars, localVars, boundVars, Goto, LeaderPC, Saving
<1>e. EmptyState \in MonitorState
  BY MonitorAssumption DEF EmptyState, MonitorState, Event
<1>f. ASSUME NEW i \in Inst, Forget(i)
      PROVE  /\ mem' \in [Inst -> MonitorState]
             /\ polled' \in [Inst -> BOOLEAN]
             /\ batch' \in [Inst -> SUBSET Event]
             /\ cur' \in [Inst -> Event \cup {0}]
             /\ \A j \in Inst \ {i} : cur'[j] = cur[j]
  BY <1>e, <1>f DEF Forget
<1>w. ASSUME NEW i \in Inst, InterruptedWrite(i) PROVE blob' \in MonitorState
  BY <1>w DEF InterruptedWrite
<1>r. ASSUME NEW i \in Inst, ReleaseLease(i)
      PROVE  /\ holder' \in Inst \cup {NoInst} /\ leaseLive' \in BOOLEAN
             /\ leaseLive' => holder' \in Inst
  BY <1>r DEF ReleaseLease
<1>1. CASE Environment
  <2>1. CASE Tick BY <2>1 DEF Tick
  <2>2. CASE SaveSubscription BY <2>2 DEF SaveSubscription
  <2>3. CASE RemoveSubscription BY <2>3 DEF RemoveSubscription
  <2>4. CASE LeaseExpires
    <3>1. stalls' \in Nat BY <2>4 DEF LeaseExpires
    <3>2. leaseLive' = FALSE BY <2>4 DEF LeaseExpires
    <3>3. UNCHANGED <<clockVars, blob, holder, localVars, delivered,
                      passedOver, faults, crashes>>
      BY <2>4 DEF LeaseExpires
    <3> QED BY <3>1, <3>2, <3>3
  <2>5. ASSUME NEW e \in Event, Ingest(e) PROVE TypeOK' BY <2>5 DEF Ingest
  <2> QED BY <1>1, <2>1, <2>2, <2>3, <2>4, <2>5 DEF Environment
<1>2. ASSUME NEW i \in Inst, Start(i) PROVE TypeOK'
  BY <1>2 DEF Start
<1>3. ASSUME NEW i \in Inst, Leadership(i) PROVE TypeOK'
  <2>1. CASE AcquireLease(i) BY <2>1 DEF AcquireLease
  <2>2. CASE RenewSucceeds(i) BY <2>2 DEF RenewSucceeds
  <2>3. CASE RenewFails(i) BY <2>3 DEF RenewFails
  <2>4. CASE Retire(i) BY <2>4, <1>r DEF Retire
  <2> QED BY <1>3, <2>1, <2>2, <2>3, <2>4 DEF Leadership
<1>4. ASSUME NEW i \in Inst, RunOnce(i) PROVE TypeOK'
  <2>1. CASE ReadState(i) BY <2>1 DEF ReadState
  <2>2. CASE ReadSubscription(i) BY <2>2, <1>f DEF ReadSubscription
  <2>3. CASE ResumePending(i)
    <3>1. PICK e \in mem[i].pending : cur' = [cur EXCEPT ![i] = e]
      BY <2>3 DEF ResumePending
    <3>2. e \in Event BY DEF MonitorState
    <3> QED BY <2>3, <3>1, <3>2 DEF ResumePending
  <2>4. CASE Poll(i)
    <3>1. QueryResult(mem[i].cursor, now) \subseteq Event
      BY DEF QueryResult, Matching
    <3> QED BY <2>4, <3>1 DEF Poll
  <2>5. CASE TakeNext(i)
    <3>1. PICK e \in batch[i] :
            /\ batch' = [batch EXCEPT ![i] = @ \ {e}]
            /\ \/ UNCHANGED <<pc, mem, cur>>
               \/ /\ mem' = [mem EXCEPT ![i] = Pend(@, e)]
                  /\ cur' = [cur EXCEPT ![i] = e]
                  /\ Goto(i, "saveTake")
      BY <2>5 DEF TakeNext
    <3>2. e \in Event OBVIOUS
    <3>3. Pend(mem[i], e) \in MonitorState BY <3>2, StateChangesTyped
    <3> QED BY <2>5, <3>1, <3>2, <3>3 DEF TakeNext
  <2>6. CASE FinishRun(i) BY <2>6, <1>f DEF FinishRun
  <2>7. CASE SaveState(i)
    <3>1. CASE pc[i] = "saveTake" BY <2>7, <3>1 DEF SaveState
    <3>2. CASE pc[i] = "saveDone" BY <2>7, <3>2 DEF SaveState
    <3>3. CASE pc[i] = "saveRetry" BY <2>7, <3>3, <1>f DEF SaveState
    <3> QED BY <2>7, <3>1, <3>2, <3>3 DEF SaveState
  <2> QED BY <1>4, <2>1, <2>2, <2>3, <2>4, <2>5, <2>6, <2>7 DEF RunOnce
<1>5. ASSUME NEW i \in Inst, Handler(i) PROVE TypeOK'
  <2>1. cur[i] \in Event BY <1>5 DEF Handler, HandlerSucceeds, HandlerFails
  <2>2. CASE HandlerSucceeds(i)
    <3>1. Settle(mem[i], cur[i]) \in MonitorState BY <2>1, StateChangesTyped
    <3> QED BY <2>1, <2>2, <3>1, <1>f DEF HandlerSucceeds
  <2>3. CASE HandlerFails(i)
    <3>1. DeadLetter(mem[i], cur[i]) \in MonitorState BY <2>1, StateChangesTyped
    <3>2. mem[i].attempts[cur[i]] + 1 < MaxAttempts =>
            Retry(mem[i], cur[i]) \in MonitorState
      BY <2>1, StateChangesTyped
    <3> QED BY <2>1, <2>3, <3>1, <3>2 DEF HandlerFails
  <2> QED BY <1>5, <2>2, <2>3 DEF Handler
<1>6. ASSUME NEW i \in Inst, TaskFails(i) PROVE TypeOK'
  BY <1>6, <1>f, <1>w, <1>r DEF TaskFails
<1>7. ASSUME NEW i \in Inst, Crash(i) PROVE TypeOK'
  BY <1>7, <1>f, <1>w, <1>r DEF Crash
<1>8. CASE UNCHANGED vars BY <1>8 DEF vars
<1> QED BY <1>1, <1>2, <1>3, <1>4, <1>5, <1>6, <1>7, <1>8 DEF Next

(* In every reachable state the saved and in-memory states have the shape  *)
(* run_once relies on and no pending entry has used up its attempts.       *)
THEOREM TypeCorrect == Spec => []TypeOK
BY InitType, TypeStep, PTL DEF Spec

-----------------------------------------------------------------------------
(* The inductive invariant.  A snapshot s is sound for a set g of events   *)
(* that are past losing (posted, or left out by the query) when everything *)
(* up to its cursor is in g or among its dead letters, and so is           *)
(* everything older than its pending event.                                *)

Gone == delivered \cup passedOver

Sound(s, g) ==
  /\ \A e \in Event : e <= s.cursor => e \in g \cup s.dead
  /\ \A e \in s.pending :
       /\ s.pending = {e} /\ s.cursor < e
       /\ \A f \in Event : f < e => f \in g \cup s.dead

(* A batch is sound for s when whatever is older than one of its events is *)
(* settled, pending or still in the batch.                                 *)
BatchSound(s, b, g) ==
  \A e \in b : \A f \in Event :
    f < e => f \in g \cup s.dead \cup s.pending \cup b

Working == {"choose", "handling"} \cup Saving

LocalSound(i) ==
  /\ Sound(mem[i], Gone)
  /\ BatchSound(mem[i], batch[i], Gone)
  /\ pc[i] \in {"handling", "saveTake", "saveRetry"} => mem[i].pending = {cur[i]}
  /\ pc[i] = "saveDone" => mem[i].pending = {}
  /\ pc[i] \notin Working => batch[i] = {}

Snapshots ==
  /\ Sound(blob, Gone)
  /\ \A i \in Inst : LocalSound(i)

(* Soundness survives more events becoming past losing.                    *)
LEMMA SoundGrows ==
  ASSUME NEW s \in MonitorState, NEW b \in SUBSET Event, NEW g, NEW h, g \subseteq h
  PROVE  /\ Sound(s, g) => Sound(s, h)
         /\ BatchSound(s, b, g) => BatchSound(s, b, h)
BY DEF Sound, BatchSound

LEMMA EmptySound ==
  ASSUME NEW s, NEW g
  PROVE Sound(EmptyState, g) /\ BatchSound(s, {}, g)
BY DEF Sound, BatchSound, EmptyState, Event

(* Taking the oldest event of a sound batch beyond the cursor.             *)
LEMMA PendSound ==
  ASSUME NEW s \in MonitorState, NEW b \in SUBSET Event, NEW g,
         Sound(s, g), BatchSound(s, b, g), s.pending = {},
         NEW e \in b, \A f \in b : e <= f, e > s.cursor
  PROVE  /\ Sound(Pend(s, e), g)
         /\ BatchSound(Pend(s, e), b \ {e}, g)
         /\ Pend(s, e).pending = {e}
<1> USE DEF Event, MonitorState
<1>1. /\ Pend(s, e).cursor = s.cursor /\ Pend(s, e).dead = s.dead
      /\ Pend(s, e).pending = {e}
  BY DEF Pend
<1>2. \A f \in Event : f < e => f \in g \cup s.dead
  <2> SUFFICES ASSUME NEW f \in Event, f < e PROVE f \in g \cup s.dead OBVIOUS
  <2>1. f \notin b OBVIOUS
  <2> QED BY <2>1 DEF BatchSound
<1>3. Sound(Pend(s, e), g) BY <1>1, <1>2 DEF Sound
<1>4. BatchSound(Pend(s, e), b \ {e}, g) BY <1>1 DEF BatchSound
<1> QED BY <1>1, <1>3, <1>4

(* Skipping an event the cursor has reached.                               *)
LEMMA SkipSound ==
  ASSUME NEW s \in MonitorState, NEW b \in SUBSET Event, NEW g,
         Sound(s, g), BatchSound(s, b, g), NEW e \in b, e <= s.cursor
  PROVE  BatchSound(s, b \ {e}, g)
BY DEF Sound, BatchSound, Event, MonitorState

(* Settling the pending event, posted (h) or dead-lettered.                *)
LEMMA SettleSound ==
  ASSUME NEW s \in MonitorState, NEW b \in SUBSET Event, NEW g,
         Sound(s, g), BatchSound(s, b, g), NEW e \in Event, s.pending = {e}
  PROVE  /\ Sound(Settle(s, e), g \cup {e})
         /\ BatchSound(Settle(s, e), b, g \cup {e})
         /\ Settle(s, e).pending = {}
         /\ Sound(DeadLetter(s, e), g)
         /\ BatchSound(DeadLetter(s, e), b, g)
         /\ DeadLetter(s, e).pending = {}
<1> USE DEF Event, MonitorState
<1>1. /\ Settle(s, e).cursor = e /\ Settle(s, e).pending = {}
      /\ Settle(s, e).dead = s.dead
  BY DEF Settle
<1>2. /\ DeadLetter(s, e).cursor = e /\ DeadLetter(s, e).pending = {}
      /\ DeadLetter(s, e).dead = s.dead \cup {e}
  BY DEF Settle, DeadLetter
<1>3. \A f \in Event : f < e => f \in g \cup s.dead BY DEF Sound
<1>4. Sound(Settle(s, e), g \cup {e}) BY <1>1, <1>3 DEF Sound
<1>5. Sound(DeadLetter(s, e), g) BY <1>2, <1>3 DEF Sound
<1>6. BatchSound(Settle(s, e), b, g \cup {e}) BY <1>1 DEF BatchSound
<1>7. BatchSound(DeadLetter(s, e), b, g) BY <1>2 DEF BatchSound
<1> QED BY <1>1, <1>2, <1>4, <1>5, <1>6, <1>7

LEMMA RetrySound ==
  ASSUME NEW s \in MonitorState, NEW b \in SUBSET Event, NEW g, NEW e \in Event,
         Sound(s, g), BatchSound(s, b, g)
  PROVE  /\ Sound(Retry(s, e), g) /\ BatchSound(Retry(s, e), b, g)
         /\ Retry(s, e).pending = s.pending
<1>1. /\ Retry(s, e).cursor = s.cursor /\ Retry(s, e).pending = s.pending
      /\ Retry(s, e).dead = s.dead
  BY DEF Retry, MonitorState
<1> QED BY <1>1 DEF Sound, BatchSound

(* A fresh query result is sound once the rows it left out are recorded.   *)
LEMMA PollSound ==
  ASSUME NEW s \in MonitorState, NEW b \in SUBSET Event, NEW g, Sound(s, g)
  PROVE  BatchSound(s, b, g \cup
           {e \in Event : e > s.cursor /\ e \notin b /\ \E f \in b : e < f})
BY DEF Sound, BatchSound, Event, MonitorState

LEMMA InitSnapshots == Init => Snapshots
<1> SUFFICES ASSUME Init PROVE Snapshots OBVIOUS
<1>1. Sound(EmptyState, Gone) /\ BatchSound(EmptyState, {}, Gone)
  BY EmptySound, InitType DEF TypeOK, Init
<1> QED BY <1>1 DEF Init, Snapshots, LocalSound, Working, Saving

(* A step of instance i: the events past losing only grow, the blob and    *)
(* i's own snapshot are sound afterwards, the others' are left alone.      *)
LEMMA LocalStep ==
  ASSUME TypeOK, Snapshots, NEW i \in Inst, Gone \subseteq Gone',
         Sound(blob, Gone)', LocalSound(i)',
         \A j \in Inst \ {i} : /\ mem'[j] = mem[j] /\ batch'[j] = batch[j]
                               /\ pc'[j] = pc[j] /\ cur'[j] = cur[j]
  PROVE  Snapshots'
<1>1. ASSUME NEW j \in Inst, j # i PROVE LocalSound(j)'
  <2>1. LocalSound(j) BY DEF Snapshots
  <2>2. Sound(mem[j], Gone') /\ BatchSound(mem[j], batch[j], Gone')
    BY <2>1, SoundGrows DEF TypeOK, LocalSound
  <2> QED BY <1>1, <2>1, <2>2 DEF LocalSound
<1> QED BY <1>1 DEF Snapshots

(* A step that leaves the snapshots and the history alone and takes i, if  *)
(* anywhere, from one place without obligations to another.                *)
LEMMA QuietStep ==
  ASSUME TypeOK, Snapshots, NEW i \in Inst, NEW l,
         UNCHANGED <<blob, mem, batch, cur, delivered, passedOver>>,
         \/ pc' = pc
         \/ /\ pc' = [pc EXCEPT ![i] = l]
            /\ l \notin {"handling"} \cup Saving
            /\ l \in Working \/ pc[i] \notin Working
  PROVE  Snapshots'
<1>1. Gone' = Gone BY DEF Gone
<1>2. LocalSound(i)' BY <1>1 DEF TypeOK, Snapshots, LocalSound, Saving, Working
<1>3. Sound(blob, Gone)' BY <1>1 DEF Snapshots
<1> QED BY <1>1, <1>2, <1>3, LocalStep DEF TypeOK

(* run_once returns or the task ends, with or without a last write.        *)
LEMMA ForgetStep ==
  ASSUME TypeOK, TypeOK', Snapshots, NEW i \in Inst, NEW l, l \notin Working,
         Goto(i, l), Forget(i), blob' \in {blob, mem[i]},
         Gone \subseteq Gone'
  PROVE  Snapshots'
<1>1. /\ mem'[i] = EmptyState /\ batch'[i] = {} /\ pc'[i] = l
      /\ \A j \in Inst \ {i} : /\ mem'[j] = mem[j] /\ batch'[j] = batch[j]
                               /\ pc'[j] = pc[j] /\ cur'[j] = cur[j]
  BY DEF Forget, Goto, TypeOK
<1>2. Sound(EmptyState, Gone') /\ BatchSound(EmptyState, {}, Gone')
  BY EmptySound DEF TypeOK
<1>3. LocalSound(i)' BY <1>1, <1>2 DEF LocalSound, Working, Saving
<1>4. Sound(blob, Gone') /\ Sound(mem[i], Gone')
  BY SoundGrows DEF TypeOK, Snapshots, LocalSound
<1>5. Sound(blob, Gone)' BY <1>4
<1> QED BY <1>1, <1>3, <1>5, LocalStep

LEMMA SnapshotsStep == TypeOK /\ Snapshots /\ [Next]_vars => Snapshots'
<1> SUFFICES ASSUME TypeOK, Snapshots, [Next]_vars PROVE Snapshots' OBVIOUS
<1>t. TypeOK' BY TypeStep
<1>k. ASSUME UNCHANGED <<delivered, passedOver>> PROVE Gone' = Gone
  BY <1>k DEF Gone
<1>b. ASSUME UNCHANGED blob, Gone \subseteq Gone' PROVE Sound(blob, Gone)'
  <2>1. Sound(blob, Gone') BY <1>b, SoundGrows DEF TypeOK, Snapshots
  <2> QED BY <1>b, <2>1
<1>l. ASSUME NEW i \in Inst
      PROVE  /\ LocalSound(i) /\ mem[i] \in MonitorState
             /\ batch[i] \in SUBSET Event
  BY <1>l DEF Snapshots, TypeOK
<1>w. ASSUME NEW i \in Inst, InterruptedWrite(i) PROVE blob' \in {blob, mem[i]}
  BY <1>w DEF InterruptedWrite
<1>1. CASE Environment \/ UNCHANGED vars
  <2>1. UNCHANGED <<blob, pc, mem, batch, cur, delivered, passedOver>>
    BY <1>1 DEF Environment, Tick, SaveSubscription, RemoveSubscription,
                LeaseExpires, Ingest, localVars, vars
  <2> QED BY <2>1, <1>k DEF Snapshots, LocalSound
<1>2. ASSUME NEW i \in Inst, Start(i) \/ Leadership(i) PROVE Snapshots'
  <2>1. CASE Start(i)
    BY <2>1, QuietStep DEF Start, Goto, Saving, Working
  <2>2. CASE AcquireLease(i)
    BY <2>2, QuietStep DEF AcquireLease, Goto, Saving, Working
  <2>3. CASE RenewSucceeds(i)
    BY <2>3, QuietStep DEF RenewSucceeds, localVars
  <2>4. CASE RenewFails(i) BY <2>4, QuietStep DEF RenewFails
  <2>5. CASE Retire(i)
    BY <2>5, QuietStep DEF Retire, Goto, Saving, Working
  <2> QED BY <1>2, <2>1, <2>2, <2>3, <2>4, <2>5 DEF Leadership
<1>3. ASSUME NEW i \in Inst, RunOnce(i) PROVE Snapshots'
  <2>1. CASE ReadState(i)
    <3>1. /\ mem' = [mem EXCEPT ![i] = blob] /\ pc' = [pc EXCEPT ![i] = "loaded"]
          /\ UNCHANGED <<blob, batch, cur, delivered, passedOver>>
      BY <2>1 DEF ReadState, Goto
    <3>2. Gone' = Gone BY <3>1, <1>k
    <3>3. batch[i] = {} BY <2>1, <1>l DEF ReadState, LocalSound, Working, Saving
    <3>4. mem'[i] = blob /\ pc'[i] = "loaded" BY <3>1 DEF TypeOK
    <3>5. LocalSound(i)'
      BY <3>1, <3>2, <3>3, <3>4, EmptySound
      DEF LocalSound, Working, Saving, Snapshots, TypeOK
    <3> QED BY <3>1, <3>2, <3>5, <1>b, LocalStep
  <2>2. CASE ReadSubscription(i)
    <3>1. CASE UNCHANGED <<mem, polled, batch, cur>> /\ Goto(i, "choose")
      BY <2>2, <3>1, QuietStep DEF ReadSubscription, Goto, Saving, Working
    <3>2. CASE Goto(i, "idle") /\ Forget(i)
      BY <2>2, <3>2, <1>t, <1>k, ForgetStep DEF ReadSubscription, Working, Saving
    <3> QED BY <2>2, <3>1, <3>2 DEF ReadSubscription
  <2>3. CASE ResumePending(i)
    <3>1. PICK e \in mem[i].pending : cur' = [cur EXCEPT ![i] = e]
      BY <2>3 DEF ResumePending
    <3>2. /\ UNCHANGED <<blob, mem, batch, delivered, passedOver>>
          /\ pc' = [pc EXCEPT ![i] = "handling"]
      BY <2>3 DEF ResumePending, Goto
    <3>3. Gone' = Gone BY <3>2, <1>k
    <3>4. mem[i].pending = {e} BY <1>l, <3>1 DEF LocalSound, Sound
    <3>5. LocalSound(i)'
      BY <3>1, <3>2, <3>3, <3>4, <1>l DEF LocalSound, Working, Saving, TypeOK
    <3> QED BY <3>1, <3>2, <3>3, <3>5, <1>b, LocalStep
  <2>4. CASE Poll(i)
    <3> DEFINE q == QueryResult(mem[i].cursor, now)
               left == {e \in Event : /\ e > mem[i].cursor /\ e \notin q
                                      /\ \E f \in q : e < f}
    <3>1. /\ batch' = [batch EXCEPT ![i] = q] /\ passedOver' = passedOver \cup left
          /\ UNCHANGED <<blob, mem, pc, cur, delivered>> /\ pc[i] = "choose"
      BY <2>4 DEF Poll
    <3>2. q \in SUBSET Event BY DEF QueryResult, Matching, TypeOK
    <3>3. Gone' = Gone \cup left BY <3>1 DEF Gone
    <3> HIDE DEF q
    <3>4. BatchSound(mem[i], q, Gone') BY <1>l, <3>2, <3>3, PollSound DEF LocalSound
    <3>5. Sound(mem[i], Gone') BY <1>l, <3>3, SoundGrows DEF LocalSound
    <3>6. LocalSound(i)'
      BY <3>1, <3>4, <3>5 DEF LocalSound, Working, Saving, TypeOK
    <3> QED BY <3>1, <3>3, <3>6, <1>b, LocalStep
  <2>5. CASE TakeNext(i)
    <3>1. PICK e \in batch[i] :
            /\ \A f \in batch[i] : e <= f
            /\ batch' = [batch EXCEPT ![i] = @ \ {e}]
            /\ \/ e <= mem[i].cursor /\ UNCHANGED <<pc, mem, cur>>
               \/ /\ e > mem[i].cursor
                  /\ mem' = [mem EXCEPT ![i] = Pend(@, e)]
                  /\ cur' = [cur EXCEPT ![i] = e]
                  /\ Goto(i, "saveTake")
      BY <2>5 DEF TakeNext
    <3>2. /\ UNCHANGED <<blob, delivered, passedOver>>
          /\ pc[i] = "choose" /\ mem[i].pending = {}
      BY <2>5 DEF TakeNext
    <3>3. Gone' = Gone BY <3>2, <1>k
    <3>4. batch'[i] = batch[i] \ {e} BY <3>1 DEF TypeOK
    <3>5. CASE e <= mem[i].cursor /\ UNCHANGED <<pc, mem, cur>>
      <4>1. BatchSound(mem[i], batch[i] \ {e}, Gone)
        BY <3>5, <1>l, SkipSound DEF LocalSound
      <4>2. LocalSound(i)'
        BY <3>2, <3>3, <3>4, <3>5, <4>1, <1>l DEF LocalSound, Working, Saving
      <4> QED BY <3>1, <3>2, <3>3, <3>5, <4>2, <1>b, LocalStep
    <3>6. CASE /\ e > mem[i].cursor /\ mem' = [mem EXCEPT ![i] = Pend(@, e)]
               /\ cur' = [cur EXCEPT ![i] = e] /\ Goto(i, "saveTake")
      <4>1. /\ mem'[i] = Pend(mem[i], e) /\ cur'[i] = e /\ pc'[i] = "saveTake"
        BY <3>6 DEF Goto, TypeOK
      <4>2. /\ Sound(Pend(mem[i], e), Gone)
            /\ BatchSound(Pend(mem[i], e), batch[i] \ {e}, Gone)
            /\ Pend(mem[i], e).pending = {e}
        BY <3>1, <3>2, <3>6, <1>l, PendSound DEF LocalSound
      <4>3. LocalSound(i)'
        BY <3>3, <3>4, <4>1, <4>2 DEF LocalSound, Working, Saving
      <4> QED BY <3>1, <3>2, <3>3, <3>6, <4>3, <1>b, LocalStep DEF Goto
    <3> QED BY <3>1, <3>5, <3>6
  <2>6. CASE FinishRun(i)
    BY <2>6, <1>t, <1>k, ForgetStep DEF FinishRun, Working, Saving
  <2>7. CASE SaveState(i)
    <3>1. /\ blob' = mem[i] /\ UNCHANGED <<delivered, passedOver>>
          /\ pc[i] \in Saving
      BY <2>7 DEF SaveState
    <3>2. Gone' = Gone BY <3>1, <1>k
    <3>3. Sound(blob, Gone)' BY <3>1, <3>2, <1>l DEF LocalSound
    <3>4. CASE pc[i] = "saveTake"
      <4>1. UNCHANGED <<mem, batch, cur>> /\ pc' = [pc EXCEPT ![i] = "handling"]
        BY <2>7, <3>4 DEF SaveState, Goto
      <4>2. LocalSound(i)'
        BY <3>2, <3>4, <4>1, <1>l DEF LocalSound, Working, Saving, TypeOK
      <4> QED BY <3>2, <3>3, <4>1, <4>2, LocalStep
    <3>5. CASE pc[i] = "saveDone"
      <4>1. /\ UNCHANGED <<mem, batch>> /\ pc' = [pc EXCEPT ![i] = "choose"]
            /\ cur' = [cur EXCEPT ![i] = 0]
        BY <2>7, <3>5 DEF SaveState, Goto
      <4>2. LocalSound(i)'
        BY <3>2, <3>5, <4>1, <1>l DEF LocalSound, Working, Saving, TypeOK
      <4> QED BY <3>2, <3>3, <4>1, <4>2, LocalStep
    <3>6. CASE pc[i] = "saveRetry"
      BY <2>7, <3>1, <3>2, <3>6, <1>t, ForgetStep DEF SaveState, Working, Saving
    <3> QED BY <3>1, <3>4, <3>5, <3>6 DEF Saving
  <2> QED BY <1>3, <2>1, <2>2, <2>3, <2>4, <2>5, <2>6, <2>7 DEF RunOnce
<1>4. ASSUME NEW i \in Inst, Handler(i) PROVE Snapshots'
  <2>1. pc[i] = "handling" BY <1>4 DEF Handler, HandlerSucceeds, HandlerFails
  <2>2. cur[i] \in Event /\ mem[i].pending = {cur[i]}
    BY <2>1, <1>l DEF LocalSound, TypeOK
  <2>3. /\ UNCHANGED <<blob, passedOver>>
        /\ delivered \subseteq delivered'
    BY <1>4 DEF Handler, HandlerSucceeds, HandlerFails
  <2>4. Gone \subseteq Gone' BY <2>3 DEF Gone
  <2>5. Sound(mem[i], Gone') /\ BatchSound(mem[i], batch[i], Gone')
    BY <2>4, <1>l, SoundGrows DEF LocalSound
  <2>6. CASE HandlerSucceeds(i) /\ lost[i]
    BY <2>3, <2>4, <2>6, <1>t, ForgetStep DEF HandlerSucceeds, Working, Saving
  <2>7. CASE HandlerSucceeds(i) /\ ~lost[i]
    <3>1. /\ mem' = [mem EXCEPT ![i] = Settle(@, cur[i])]
          /\ pc' = [pc EXCEPT ![i] = "saveDone"]
          /\ UNCHANGED <<batch, cur>> /\ delivered' = delivered \cup {cur[i]}
      BY <2>7 DEF HandlerSucceeds, Goto
    <3>2. Gone' = Gone' \cup {cur[i]} BY <3>1 DEF Gone
    <3>3. mem'[i] = Settle(mem[i], cur[i]) BY <3>1 DEF TypeOK
    <3>4. /\ Sound(Settle(mem[i], cur[i]), Gone' \cup {cur[i]})
          /\ BatchSound(Settle(mem[i], cur[i]), batch[i], Gone' \cup {cur[i]})
          /\ Settle(mem[i], cur[i]).pending = {}
      BY <2>2, <2>5, <1>l, SettleSound
    <3>5. LocalSound(i)'
      BY <3>1, <3>2, <3>3, <3>4 DEF LocalSound, Working, Saving, TypeOK
    <3> QED BY <2>3, <2>4, <3>1, <3>5, <1>b, LocalStep
  <2>8. CASE HandlerFails(i)
    <3>1. UNCHANGED <<batch, cur>> BY <2>8 DEF HandlerFails
    <3>2. CASE /\ mem' = [mem EXCEPT ![i] = Retry(@, cur[i])]
               /\ Goto(i, "saveRetry")
      <4>1. mem'[i] = Retry(mem[i], cur[i]) /\ pc' = [pc EXCEPT ![i] = "saveRetry"]
        BY <3>2 DEF TypeOK, Goto
      <4>2. /\ Sound(Retry(mem[i], cur[i]), Gone')
            /\ BatchSound(Retry(mem[i], cur[i]), batch[i], Gone')
            /\ Retry(mem[i], cur[i]).pending = {cur[i]}
        BY <2>2, <2>5, <1>l, RetrySound
      <4>3. LocalSound(i)'
        BY <3>1, <4>1, <4>2 DEF LocalSound, Working, Saving, TypeOK
      <4> QED BY <2>3, <2>4, <3>1, <3>2, <4>1, <4>3, <1>b, LocalStep
    <3>3. CASE /\ mem' = [mem EXCEPT ![i] = DeadLetter(@, cur[i])]
               /\ Goto(i, "saveDone")
      <4>1. /\ mem'[i] = DeadLetter(mem[i], cur[i])
            /\ pc' = [pc EXCEPT ![i] = "saveDone"]
        BY <3>3 DEF TypeOK, Goto
      <4>2. /\ Sound(DeadLetter(mem[i], cur[i]), Gone')
            /\ BatchSound(DeadLetter(mem[i], cur[i]), batch[i], Gone')
            /\ DeadLetter(mem[i], cur[i]).pending = {}
        BY <2>2, <2>5, <1>l, SettleSound
      <4>3. LocalSound(i)'
        BY <3>1, <4>1, <4>2 DEF LocalSound, Working, Saving, TypeOK
      <4> QED BY <2>3, <2>4, <3>1, <3>3, <4>1, <4>3, <1>b, LocalStep
    <3> QED BY <2>8, <3>2, <3>3 DEF HandlerFails
  <2> QED BY <1>4, <2>6, <2>7, <2>8 DEF Handler
<1>5. ASSUME NEW i \in Inst, TaskFails(i) \/ Crash(i) PROVE Snapshots'
  <2>1. /\ blob' \in {blob, mem[i]} /\ Forget(i)
        /\ UNCHANGED <<delivered, passedOver>>
        /\ Goto(i, "ended") \/ Goto(i, "off")
    BY <1>5, <1>w DEF TaskFails, Crash
  <2> QED BY <2>1, <1>t, <1>k, ForgetStep DEF Working, Saving
<1> QED BY <1>1, <1>2, <1>3, <1>4, <1>5 DEF Next

(* At-least-once delivery holds in every reachable state, for every        *)
(* number of instances, events, crashes, faults and lost leases.           *)
THEOREM DeliveryAtLeastOnce == Spec => []AtLeastOnce
<1>1. Snapshots /\ TypeOK => AtLeastOnce
  BY MonitorAssumption
  DEF Snapshots, TypeOK, MonitorState, AtLeastOnce, Resolved, Sound, Gone, Event
<1> QED
  BY <1>1, InitType, TypeStep, InitSnapshots, SnapshotsStep, PTL DEF Spec

(* While an event is pending nothing newer is looked at and everything     *)
(* older is settled, in every reachable state.                             *)
THEOREM HeadOfLineBlocking == Spec => []HeadOfLine
<1>1. Snapshots /\ TypeOK => HeadOfLine
  BY MonitorAssumption
  DEF Snapshots, TypeOK, MonitorState, HeadOfLine, Resolved, Sound, Gone, Event
<1> QED
  BY <1>1, InitType, TypeStep, InitSnapshots, SnapshotsStep, PTL DEF Spec
-----------------------------------------------------------------------------
(* The refinement of the durable queue, when no live leader ever misses a  *)
(* renewal.  Then there is one leader, its memory differs from the blob    *)
(* only between a change and its save, and that save is the queue's step.  *)

SoleLeader ==
  \A i \in Inst :
    /\ pc[i] \in LeaderPC => leaseLive /\ holder = i /\ ~lost[i]
    /\ pc[i] = "standby" => ~lost[i]

Unsaved(i) ==
  /\ pc[i] \in {"loaded", "choose", "handling"} => mem[i] = blob
  /\ pc[i] = "saveTake" =>
       /\ mem[i] = Pend(blob, cur[i])
       /\ blob.pending = {} /\ cur[i] > blob.cursor
  /\ pc[i] = "saveDone" =>
       /\ blob.pending = {cur[i]}
       /\ \/ mem[i] = Settle(blob, cur[i]) /\ cur[i] \in delivered
          \/ mem[i] = DeadLetter(blob, cur[i])
  /\ pc[i] = "saveRetry" => mem[i] = Retry(blob, cur[i])

OneWriter == SoleLeader /\ \A i \in Inst : Unsaved(i)

LEMMA InitOneWriter == Init => OneWriter
BY DEF Init, OneWriter, SoleLeader, Unsaved, LeaderPC, Saving

LEMMA SoleLeaderStep ==
  ASSUME MaxStalls = 0, TypeOK, SoleLeader, [Next]_vars
  PROVE  SoleLeader'
<1> USE DEF TypeOK, SoleLeader, LeaderPC, Saving, Goto
<1>r. ASSUME NEW i \in Inst, NEW l, l \notin LeaderPC \cup {"standby"},
             pc' = [pc EXCEPT ![i] = l], UNCHANGED lost,
             UNCHANGED leaseVars \/ ReleaseLease(i)
      PROVE  SoleLeader'
  BY <1>r DEF ReleaseLease, leaseVars
<1>m. ASSUME NEW i \in Inst, NEW l \in LeaderPC, pc[i] \in LeaderPC,
             pc' = [pc EXCEPT ![i] = l], UNCHANGED <<lost, leaseVars>>
      PROVE  SoleLeader'
  BY <1>m DEF leaseVars
<1>1. CASE Environment
  <2>1. CASE LeaseExpires
    <3>1. ~Renewing(holder) BY <2>1 DEF LeaseExpires
    <3>2. UNCHANGED <<pc, lost>> BY <2>1 DEF LeaseExpires, localVars
    <3> QED BY <3>1, <3>2 DEF Renewing
  <2>2. CASE ~LeaseExpires
    <3>1. UNCHANGED <<pc, lost, leaseVars>>
      BY <1>1, <2>2 DEF Environment, Tick, SaveSubscription,
         RemoveSubscription, Ingest, localVars
    <3> QED BY <3>1 DEF leaseVars
  <2> QED BY <2>1, <2>2
<1>2. ASSUME NEW i \in Inst, Start(i) PROVE SoleLeader'
  BY <1>2 DEF Start, leaseVars
<1>3. ASSUME NEW i \in Inst, Leadership(i) PROVE SoleLeader'
  <2>1. CASE AcquireLease(i) BY <2>1 DEF AcquireLease
  <2>2. CASE RenewSucceeds(i) BY <2>2 DEF RenewSucceeds, localVars, Renewing
  <2>3. ~RenewFails(i) BY DEF RenewFails, Renewing
  <2>4. ~Retire(i) BY DEF Retire
  <2> QED BY <1>3, <2>1, <2>2, <2>3, <2>4 DEF Leadership
<1>4. ASSUME NEW i \in Inst, RunOnce(i) \/ Handler(i) PROVE SoleLeader'
  <2>1. /\ pc[i] \in LeaderPC /\ UNCHANGED <<lost, leaseVars>>
        /\ \E l \in LeaderPC : pc' = [pc EXCEPT ![i] = l]
    <3>1. CASE Handler(i)
      BY <3>1 DEF Handler, HandlerSucceeds, HandlerFails
    <3>2. CASE ReadState(i) BY <3>2 DEF ReadState
    <3>3. CASE ReadSubscription(i) BY <3>3 DEF ReadSubscription
    <3>4. CASE ResumePending(i) BY <3>4 DEF ResumePending
    <3>5. CASE Poll(i)
      <4>1. pc' = [pc EXCEPT ![i] = "choose"] BY <3>5 DEF Poll
      <4> QED BY <3>5, <4>1 DEF Poll
    <3>6. CASE TakeNext(i)
      <4>1. \/ pc' = [pc EXCEPT ![i] = "choose"]
            \/ pc' = [pc EXCEPT ![i] = "saveTake"]
        BY <3>6 DEF TakeNext
      <4> QED BY <3>6, <4>1 DEF TakeNext
    <3>7. CASE FinishRun(i) BY <3>7 DEF FinishRun
    <3>8. CASE SaveState(i) BY <3>8 DEF SaveState
    <3> QED BY <1>4, <3>1, <3>2, <3>3, <3>4, <3>5, <3>6, <3>7, <3>8 DEF RunOnce
  <2> QED BY <2>1, <1>m
<1>5. ASSUME NEW i \in Inst, TaskFails(i) PROVE SoleLeader'
  BY <1>5, <1>r DEF TaskFails
<1>6. ASSUME NEW i \in Inst, Crash(i) PROVE SoleLeader'
  BY <1>6, <1>r DEF Crash
<1>7. CASE UNCHANGED vars BY <1>7 DEF vars, leaseVars, localVars
<1> QED BY <1>1, <1>2, <1>3, <1>4, <1>5, <1>6, <1>7 DEF Next

(* A step of i keeps what is unsaved elsewhere: the others have nothing    *)
(* unsaved while i leads, and i changes nothing of theirs otherwise.       *)
LEMMA UnsavedElsewhere ==
  ASSUME TypeOK, OneWriter, NEW i \in Inst, Unsaved(i)',
         pc[i] \in LeaderPC \/ UNCHANGED blob, delivered \subseteq delivered',
         \A j \in Inst \ {i} : /\ mem'[j] = mem[j] /\ pc'[j] = pc[j]
                               /\ cur'[j] = cur[j]
  PROVE  \A j \in Inst : Unsaved(j)'
<1>1. ASSUME NEW j \in Inst, j # i PROVE Unsaved(j)'
  <2>1. CASE pc[i] \in LeaderPC
    <3>1. pc'[j] \notin LeaderPC BY <1>1, <2>1 DEF OneWriter, SoleLeader
    <3> QED BY <3>1 DEF Unsaved, LeaderPC, Saving
  <2>2. CASE UNCHANGED blob BY <1>1, <2>2 DEF OneWriter, Unsaved
  <2> QED BY <2>1, <2>2
<1> QED BY <1>1

LEMMA UnsavedStep ==
  ASSUME TypeOK, Snapshots, OneWriter, [Next]_vars
  PROVE  \A j \in Inst : Unsaved(j)'
<1> USE DEF TypeOK, Saving, Goto
<1>l. ASSUME NEW i \in Inst
      PROVE  /\ Unsaved(i) /\ LocalSound(i)
             /\ pc[i] \in LeaderPC => ~lost[i]
  BY <1>l DEF OneWriter, SoleLeader, Snapshots
<1>q. ASSUME NEW i \in Inst, NEW l, l \in {"off", "standby", "ended", "idle"},
             pc' = [pc EXCEPT ![i] = l], Forget(i) \/ UNCHANGED <<mem, cur>>,
             UNCHANGED delivered, pc[i] \in LeaderPC \/ UNCHANGED blob
      PROVE  \A j \in Inst : Unsaved(j)'
  <2>1. Unsaved(i)' BY <1>q DEF Unsaved
  <2> QED BY <1>q, <2>1, UnsavedElsewhere DEF Forget
<1>1. CASE Environment \/ UNCHANGED vars
  <2>1. UNCHANGED <<blob, pc, mem, cur, delivered>>
    BY <1>1 DEF Environment, Tick, SaveSubscription, RemoveSubscription,
                LeaseExpires, Ingest, localVars, vars
  <2> QED BY <2>1, <1>l DEF Unsaved
<1>2. ASSUME NEW i \in Inst, Start(i) \/ Leadership(i)
      PROVE  \A j \in Inst : Unsaved(j)'
  <2>1. CASE Start(i) BY <2>1, <1>q DEF Start
  <2>2. CASE AcquireLease(i) BY <2>2, <1>q DEF AcquireLease
  <2>3. CASE RenewSucceeds(i) \/ RenewFails(i)
    <3>1. UNCHANGED <<blob, pc, mem, cur, delivered>>
      BY <2>3 DEF RenewSucceeds, RenewFails, localVars
    <3> QED BY <3>1, <1>l DEF Unsaved
  <2>4. CASE Retire(i) BY <2>4, <1>q DEF Retire
  <2> QED BY <1>2, <2>1, <2>2, <2>3, <2>4 DEF Leadership
<1>3. ASSUME NEW i \in Inst, RunOnce(i) PROVE \A j \in Inst : Unsaved(j)'
  <2>1. CASE ReadState(i)
    <3>1. Unsaved(i)' BY <2>1 DEF ReadState, Unsaved
    <3> QED BY <2>1, <3>1, UnsavedElsewhere DEF ReadState
  <2>2. CASE ReadSubscription(i)
    <3>1. CASE ~subscribed BY <2>2, <3>1, <1>q DEF ReadSubscription
    <3>2. CASE subscribed
      <4>1. Unsaved(i)' BY <2>2, <3>2, <1>l DEF ReadSubscription, Unsaved
      <4> QED BY <2>2, <3>2, <4>1, UnsavedElsewhere DEF ReadSubscription
    <3> QED BY <3>1, <3>2
  <2>3. CASE ResumePending(i)
    <3>1. Unsaved(i)' BY <2>3, <1>l DEF ResumePending, Unsaved
    <3> QED BY <2>3, <3>1, UnsavedElsewhere DEF ResumePending
  <2>4. CASE Poll(i)
    <3>1. UNCHANGED <<blob, pc, mem, cur, delivered>> BY <2>4 DEF Poll
    <3> QED BY <3>1, <1>l DEF Unsaved
  <2>5. CASE TakeNext(i)
    <3>1. PICK e \in batch[i] :
            \/ UNCHANGED <<pc, mem, cur>>
            \/ /\ e > mem[i].cursor
               /\ mem' = [mem EXCEPT ![i] = Pend(@, e)]
               /\ cur' = [cur EXCEPT ![i] = e]
               /\ pc' = [pc EXCEPT ![i] = "saveTake"]
      BY <2>5 DEF TakeNext
    <3>2. UNCHANGED <<blob, delivered>> /\ mem[i].pending = {} /\ mem[i] = blob
      BY <2>5, <1>l DEF TakeNext, Unsaved
    <3>3. CASE UNCHANGED <<pc, mem, cur>> BY <3>2, <3>3, <1>l DEF Unsaved
    <3>4. CASE ~UNCHANGED <<pc, mem, cur>>
      <4>1. Unsaved(i)' BY <3>1, <3>2, <3>4 DEF Unsaved
      <4> QED BY <3>1, <3>2, <3>4, <4>1, UnsavedElsewhere
    <3> QED BY <3>3, <3>4
  <2>6. CASE FinishRun(i) BY <2>6, <1>q DEF FinishRun
  <2>7. CASE SaveState(i)
    <3>1. blob' = mem[i] /\ UNCHANGED delivered /\ pc[i] \in LeaderPC
      BY <2>7 DEF SaveState, LeaderPC
    <3>2. CASE pc[i] = "saveTake" \/ pc[i] = "saveDone"
      <4>1. Unsaved(i)' BY <2>7, <3>1, <3>2 DEF SaveState, Unsaved
      <4> QED BY <2>7, <3>1, <3>2, <4>1, UnsavedElsewhere DEF SaveState
    <3>3. CASE pc[i] = "saveRetry" BY <2>7, <3>1, <3>3, <1>q DEF SaveState
    <3> QED BY <2>7, <3>2, <3>3 DEF SaveState
  <2> QED BY <1>3, <2>1, <2>2, <2>3, <2>4, <2>5, <2>6, <2>7 DEF RunOnce
<1>4. ASSUME NEW i \in Inst, Handler(i) PROVE \A j \in Inst : Unsaved(j)'
  <2>1. /\ pc[i] = "handling" /\ UNCHANGED blob
        /\ delivered \subseteq delivered'
    BY <1>4 DEF Handler, HandlerSucceeds, HandlerFails
  <2>2. /\ ~lost[i] /\ mem[i] = blob /\ blob.pending = {cur[i]}
        /\ pc[i] \in LeaderPC
    BY <2>1, <1>l DEF LeaderPC, Unsaved, LocalSound
  <2>3. CASE HandlerSucceeds(i)
    <3>1. Unsaved(i)' BY <2>1, <2>2, <2>3 DEF HandlerSucceeds, Unsaved
    <3> QED BY <2>1, <2>2, <2>3, <3>1, UnsavedElsewhere DEF HandlerSucceeds
  <2>4. CASE HandlerFails(i)
    <3>1. Unsaved(i)' BY <2>1, <2>2, <2>4 DEF HandlerFails, Unsaved
    <3> QED BY <2>1, <2>2, <2>4, <3>1, UnsavedElsewhere DEF HandlerFails
  <2> QED BY <1>4, <2>3, <2>4 DEF Handler
<1>5. ASSUME NEW i \in Inst, TaskFails(i) \/ Crash(i)
      PROVE  \A j \in Inst : Unsaved(j)'
  <2>1. pc[i] \in LeaderPC \/ UNCHANGED blob
    BY <1>5 DEF TaskFails, Crash, InterruptedWrite, LeaderPC
  <2>2. CASE TaskFails(i) BY <2>1, <2>2, <1>q DEF TaskFails
  <2>3. CASE Crash(i) BY <2>1, <2>3, <1>q DEF Crash
  <2> QED BY <1>5, <2>2, <2>3
<1> QED BY <1>1, <1>2, <1>3, <1>4, <1>5 DEF Next

(* Each save of the blob is one step of the queue, or none.                *)
LEMMA SaveIsQueueStep ==
  ASSUME TypeOK, OneWriter, NEW i \in Inst, pc[i] \in Saving,
         blob' = mem[i], UNCHANGED delivered
  PROVE  [Queue!Next]_(Queue!queueVars)
<1> DEFINE e == cur[i]
<1>1. e \in 1 .. NumEvents /\ blob \in MonitorState
  BY DEF TypeOK, Event
<1>2. CASE pc[i] = "saveTake"
  <2>1. /\ blob' = Pend(blob, e) /\ blob.pending = {} /\ e > blob.cursor
    BY <1>2 DEF OneWriter, Unsaved
  <2>2. Queue!Take(e) BY <1>1, <2>1 DEF Queue!Take, Pend, MonitorState
  <2> QED BY <1>1, <2>2 DEF Queue!Next
<1>3. CASE pc[i] = "saveDone"
  <2>1. blob.pending = {e} BY <1>3 DEF OneWriter, Unsaved
  <2>2. CASE blob' = Settle(blob, e) /\ e \in delivered
    <3>1. Queue!Acknowledge(e)
      BY <1>1, <2>1, <2>2 DEF Queue!Acknowledge, Settle, MonitorState
    <3> QED BY <1>1, <3>1 DEF Queue!Next
  <2>3. CASE blob' = DeadLetter(blob, e)
    <3>1. Queue!GiveUp(e)
      BY <1>1, <2>1, <2>3 DEF Queue!GiveUp, DeadLetter, Settle, MonitorState
    <3> QED BY <1>1, <3>1 DEF Queue!Next
  <2> QED BY <1>3, <2>2, <2>3 DEF OneWriter, Unsaved
<1>4. CASE pc[i] = "saveRetry"
  <2>1. blob' = Retry(blob, e) BY <1>4 DEF OneWriter, Unsaved
  <2>2. UNCHANGED Queue!queueVars
    BY <1>1, <2>1 DEF Queue!queueVars, Retry, MonitorState
  <2> QED BY <2>2
<1> QED BY <1>2, <1>3, <1>4 DEF Saving

LEMMA StepIsQueueStep ==
  ASSUME TypeOK, Snapshots, OneWriter, [Next]_vars
  PROVE  [Queue!Next]_(Queue!queueVars)
<1>q. ASSUME UNCHANGED <<blob, delivered>> PROVE [Queue!Next]_(Queue!queueVars)
  BY <1>q DEF Queue!queueVars
<1>1. CASE Environment \/ UNCHANGED vars
  BY <1>1, <1>q DEF Environment, Tick, SaveSubscription, RemoveSubscription,
                    LeaseExpires, Ingest, vars
<1>2. ASSUME NEW i \in Inst, Start(i) \/ Leadership(i)
      PROVE  [Queue!Next]_(Queue!queueVars)
  BY <1>2, <1>q DEF Start, Leadership, AcquireLease, RenewSucceeds, RenewFails,
                    Retire
<1>3. ASSUME NEW i \in Inst, RunOnce(i) PROVE [Queue!Next]_(Queue!queueVars)
  <2>1. CASE SaveState(i) BY <2>1, SaveIsQueueStep DEF SaveState
  <2>2. CASE ~SaveState(i)
    BY <1>3, <2>2, <1>q DEF RunOnce, ReadState, ReadSubscription,
       ResumePending, Poll, TakeNext, FinishRun
  <2> QED BY <2>1, <2>2
<1>4. ASSUME NEW i \in Inst, Handler(i) PROVE [Queue!Next]_(Queue!queueVars)
  <2>1. /\ pc[i] = "handling" /\ UNCHANGED blob
        /\ delivered' \in {delivered, delivered \cup {cur[i]}}
    BY <1>4 DEF Handler, HandlerSucceeds, HandlerFails
  <2>2. cur[i] \in 1 .. NumEvents /\ blob.pending = {cur[i]}
    BY <2>1 DEF TypeOK, Event, OneWriter, Unsaved, Snapshots, LocalSound
  <2>3. CASE delivered' = delivered \cup {cur[i]}
    <3>1. Queue!Post(cur[i]) BY <2>1, <2>2, <2>3 DEF Queue!Post
    <3> QED BY <2>2, <3>1 DEF Queue!Next
  <2> QED BY <2>1, <2>3, <1>q
<1>5. ASSUME NEW i \in Inst, TaskFails(i) \/ Crash(i)
      PROVE  [Queue!Next]_(Queue!queueVars)
  <2>1. /\ UNCHANGED delivered
        /\ \/ UNCHANGED blob
           \/ pc[i] \in Saving /\ blob' = mem[i]
    BY <1>5 DEF TaskFails, Crash, InterruptedWrite
  <2> QED BY <2>1, <1>q, SaveIsQueueStep
<1> QED BY <1>1, <1>2, <1>3, <1>4, <1>5 DEF Next

(* When no live leader misses a renewal, the monitor implements the        *)
(* durable queue: for every number of instances and events, every step     *)
(* (crashes, failed calls and half-finished writes included) takes, posts, *)
(* acknowledges or gives up one event, or leaves the queue alone.          *)
THEOREM QueueRefinement == MaxStalls = 0 => (Spec => ImplementsQueue)
<1> SUFFICES ASSUME MaxStalls = 0 PROVE Spec => ImplementsQueue OBVIOUS
<1>1. Init => Queue!Init BY DEF Init, EmptyState, Queue!Init
<1>2. TypeOK /\ Snapshots /\ OneWriter /\ [Next]_vars
        => [Queue!Next]_(Queue!queueVars)
  BY StepIsQueueStep
<1>3. TypeOK /\ Snapshots /\ OneWriter /\ [Next]_vars => OneWriter'
  BY SoleLeaderStep, UnsavedStep DEF OneWriter
<1> QED
  BY <1>1, <1>2, <1>3, InitType, TypeStep, InitSnapshots, SnapshotsStep,
     InitOneWriter, PTL DEF Spec, ImplementsQueue, Queue!Spec

-----------------------------------------------------------------------------
(* The query.  Rows that became queryable in cursor order form a prefix of *)
(* the events; a catch-up window that reaches back to the start then keeps *)
(* all of them beyond the cursor, and `take` keeps the oldest.             *)

Prefix ==
  /\ now <= MaxTime
  /\ \A e \in visible : Timestamp[e] <= now
  /\ InOrder => \A e \in visible, f \in Event : f < e => f \in visible

LEMMA PrefixStep ==
  ASSUME TypeOK, Prefix, [Next]_vars
  PROVE  Prefix'
<1> USE MonitorAssumption DEF TypeOK
<1>1. CASE Tick BY <1>1 DEF Tick, Prefix, Event
<1>2. ASSUME NEW e \in Event, Ingest(e) PROVE Prefix'
  <2>1. UNCHANGED now /\ visible' = visible \cup {e} BY <1>2 DEF Ingest
  <2> QED BY <1>2, <2>1 DEF Ingest, Prefix
<1>3. CASE UNCHANGED <<now, visible>> BY <1>3 DEF Prefix
<1> QED
  BY <1>1, <1>2, <1>3 DEF Next, Environment, SaveSubscription,
     RemoveSubscription, LeaseExpires, Start, Leadership, AcquireLease,
     RenewSucceeds, RenewFails, Retire, RunOnce, ReadState, ReadSubscription,
     ResumePending, Poll, TakeNext, FinishRun, SaveState, Handler,
     HandlerSucceeds, HandlerFails, TaskFails, Crash, clockVars, vars

(* The window drops no visible event beyond the cursor.                    *)
LEMMA WindowKeeps ==
  ASSUME TypeOK, Prefix, WindowCovers, NEW c \in 0 .. NumEvents
  PROVE  Matching(c, now) = {e \in visible : e > c}
<1> USE MonitorAssumption DEF TypeOK
<1> SUFFICES ASSUME NEW e \in visible, e > c
             PROVE  LowerBound(c, now) <= Timestamp[e] /\ Timestamp[e] <= now
  BY DEF Matching
<1>1. Timestamp[e] \in Nat /\ Timestamp[e] <= now BY DEF Prefix
<1>2. now - FirstLookback <= 0 /\ now - MaxCatchup <= 0
  BY DEF Prefix, WindowCovers
<1>3. CASE c = 0 BY <1>1, <1>2, <1>3 DEF LowerBound
<1>4. CASE c # 0
  <2>1. c \in Event /\ e \in Event /\ c <= e BY <1>4 DEF Event
  <2>2. Timestamp[c] \in Nat /\ Timestamp[c] <= Timestamp[e] BY <2>1
  <2> QED BY <1>1, <1>2, <1>4, <2>2 DEF LowerBound, Later
<1> QED BY <1>3, <1>4

(* The query leaves out no event older than one it returns.                *)
LEMMA QueryLeavesNoneOut ==
  ASSUME TypeOK, Prefix, WindowCovers, InOrder, NEW c \in 0 .. NumEvents,
         NEW e \in Event, e > c, NEW f \in QueryResult(c, now), e < f
  PROVE  e \in QueryResult(c, now)
<1> DEFINE M == Matching(c, now)
           Before(x) == {g \in M : g < x}
<1> USE MonitorAssumption DEF TypeOK
<1>1. f \in M /\ Cardinality(Before(f)) < BatchSize BY DEF QueryResult
<1>2. f \in visible /\ visible \subseteq Event BY <1>1 DEF Matching
<1>3. e \in M BY <1>2, WindowKeeps DEF Prefix
<1>4. IsFiniteSet(Before(f))
  <2>1. IsFiniteSet(Event) BY FS_Interval DEF Event
  <2>2. Before(f) \subseteq Event BY <1>2 DEF Matching
  <2> QED BY <2>1, <2>2, FS_Subset
<1>5. Before(e) \subseteq Before(f)
  <2>1. M \subseteq Event BY <1>2 DEF Matching
  <2>2. f \in Event BY <1>2
  <2> HIDE DEF M
  <2> SUFFICES ASSUME NEW g \in M, g < e PROVE g < f OBVIOUS
  <2>3. g \in Event BY <2>1
  <2> QED BY <2>2, <2>3 DEF Event
<1>6. Cardinality(Before(e)) <= Cardinality(Before(f))
  BY <1>4, <1>5, FS_Subset
<1>7. Cardinality(Before(e)) \in Nat /\ Cardinality(Before(f)) \in Nat
  BY <1>4, <1>5, FS_Subset, FS_CardinalityType
<1> HIDE DEF Before
<1>8. Cardinality(Before(e)) < BatchSize BY <1>1, <1>6, <1>7
<1> QED BY <1>3, <1>8 DEF QueryResult, Before

LEMMA NothingSkippedStep ==
  ASSUME TypeOK, Prefix, NothingSkippedInOrder, [Next]_vars
  PROVE  NothingSkippedInOrder'
<1> SUFFICES ASSUME InOrder, WindowCovers, passedOver = {}
             PROVE  passedOver' = {}
  BY DEF NothingSkippedInOrder, WindowCovers
<1>1. ASSUME NEW i \in Inst, Poll(i) PROVE passedOver' = {}
  <2> DEFINE c == mem[i].cursor
  <2>1. c \in 0 .. NumEvents BY DEF TypeOK, MonitorState
  <2>2. passedOver' = {e \in Event : /\ e > c /\ e \notin QueryResult(c, now)
                                     /\ \E f \in QueryResult(c, now) : e < f}
    BY <1>1 DEF Poll
  <2> HIDE DEF c
  <2> QED BY <2>1, <2>2, QueryLeavesNoneOut
<1>2. CASE UNCHANGED passedOver BY <1>2
<1> QED
  BY <1>1, <1>2 DEF Next, Environment, Tick, Ingest, SaveSubscription,
     RemoveSubscription, LeaseExpires, Start, Leadership, AcquireLease,
     RenewSucceeds, RenewFails, Retire, RunOnce, ReadState, ReadSubscription,
     ResumePending, TakeNext, FinishRun, SaveState, Handler,
     HandlerSucceeds, HandlerFails, TaskFails, Crash, vars

(* When rows become queryable in cursor order and the windows reach back   *)
(* to the start, the query never leaves an event out, for every batch size *)
(* and every overlap.                                                      *)
THEOREM QueryComplete == Spec => []NothingSkippedInOrder
<1>1. Init => Prefix /\ NothingSkippedInOrder
  BY MonitorAssumption DEF Init, Prefix, NothingSkippedInOrder
<1>2. TypeOK /\ Prefix /\ NothingSkippedInOrder /\ [Next]_vars
        => Prefix' /\ NothingSkippedInOrder'
  BY PrefixStep, NothingSkippedStep
<1> QED BY <1>1, <1>2, InitType, TypeStep, PTL DEF Spec
=============================================================================
