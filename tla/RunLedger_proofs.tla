--------------------------- MODULE RunLedger_proofs ---------------------------
(***************************************************************************)
(* Proofs about the run ledger: its type invariant, that a reservation is  *)
(* only made on a decision that is still the right one, and from that the  *)
(* budget ceiling and the concurrency cap; that a created run keeps what   *)
(* it remembers; that the hash's counters balance with the open calls and  *)
(* the charges with the spend, as sums over the open calls; and that       *)
(* overlapping requests come to the same as AtomicLedger, one at a time.   *)
(***************************************************************************)
EXTENDS RunLedgerAccounts, SumTheorems, FiniteSetTheorems, SequenceTheorems, TLAPS

USE DecideAssumption, LedgerAssumption

-----------------------------------------------------------------------------
(* Arithmetic of the decision.                                             *)

LEMMA DivisionFits ==
  ASSUME NEW a \in Int, NEW b \in Nat \ {0}
  PROVE  /\ a \div b \in Int
         /\ (a \div b) * b <= a
  OBVIOUS

(* The worst case of a call is a natural number.                           *)
LEMMA WorstCaseType ==
  ASSUME NEW est \in Nat, NEW out \in Nat, NEW m \in Model
  PROVE  worst_case_micros(est, out, m) \in Nat
<1>1. PriceIn[m] \in Nat /\ PriceOut[m] \in Nat
  OBVIOUS
<1>2. est * PriceIn[m] \in Nat /\ out * PriceOut[m] \in Nat
  BY <1>1
<1> QED
  BY <1>2 DEF worst_case_micros

LEMMA GrantType ==
  ASSUME NEW r \in Request, NEW cap \in Nat, NEW steer \in BOOLEAN
  PROVE  /\ Grant(r, cap, steer) \in Decision
         /\ Grant(r, cap, steer).action \in {"allow", "mutate"}
         /\ Grant(r, cap, steer).cap = cap
         /\ Grant(r, cap, steer).override = steer
         /\ Grant(r, cap, steer).reserve = worst_case_micros(r.est, cap, r.model)
<1>1. worst_case_micros(r.est, cap, r.model) \in Nat
  BY WorstCaseType
<1> QED
  BY <1>1 DEF Grant, Decision

LEMMA CorrectType ==
  ASSUME NEW r \in Request
  PROVE  /\ Correct(r) \in Decision
         /\ Correct(r).action \in {"allow", "mutate"}
         /\ Correct(r).cap = DefaultMaxOutput
         /\ Correct(r).inject /\ ~Correct(r).override
         /\ Correct(r).reserve = worst_case_micros(r.est, DefaultMaxOutput, r.model)
<1>1. DefaultMaxOutput \in Nat
  OBVIOUS
<1>2. worst_case_micros(r.est, DefaultMaxOutput, r.model) \in Nat
  BY <1>1, WorstCaseType
<1> QED
  BY <1>1, <1>2 DEF Correct, Grant, Decision

LEMMA RefuseType ==
  ASSUME NEW reason \in Reason \cup {"none"}, NEW action \in {"queue", "halt"}
  PROVE  /\ Refuse(action, reason) \in Decision
         /\ Refuse(action, reason).action \notin {"allow", "mutate"}
  BY DEF Refuse, Decision

(* What decide promises of a call it lets through: it books the worst case *)
(* of the call, and either that fits what remains of the budget and the    *)
(* concurrency cap has room, or it is the correction of progress_guard.    *)
LetThrough(s, r, rec, d) ==
  /\ d.reserve = worst_case_micros(r.est, d.cap, r.model)
  /\ s.spend + s.inflight < s.budget
  /\ \/ s.spend + s.inflight + d.reserve <= s.budget /\ s.concurrent < MaxConcurrent
     \/ d = Correct(r) /\ Repeats(rec, r.prompt) >= LoopRepeats

LEMMA AffordSpec ==
  ASSUME NEW s \in RunState, NEW r \in Request, s.spend + s.inflight < s.budget
  PROVE  LET d == Afford(s, r)
         IN /\ d \in Decision
            /\ d.action \in {"allow", "mutate"} =>
                 /\ d.reserve = worst_case_micros(r.est, d.cap, r.model)
                 /\ s.spend + s.inflight + d.reserve <= s.budget
<1> DEFINE cap == IF r.out = 0 THEN DefaultMaxOutput ELSE r.out
           steer == ~s.steered /\ PastThreshold(s)
           rest == Remaining(s) - r.est * PriceIn[r.model]
           fits == rest \div PriceOut[r.model]
           full == worst_case_micros(r.est, cap, r.model)
<1>1. /\ cap \in Nat /\ steer \in BOOLEAN
      /\ r.est \in Nat /\ r.model \in Model
      /\ PriceIn[r.model] \in Nat /\ PriceOut[r.model] \in Nat
  BY DEF RunState
<1>2. /\ s.budget \in Nat /\ s.spend \in Int /\ s.inflight \in Int
      /\ Remaining(s) \in Int /\ Remaining(s) > 0
      /\ Remaining(s) = s.budget - s.spend - s.inflight
  BY DEF RunState, Remaining
<1>3. full \in Nat
  BY <1>1, WorstCaseType
<1>4. Afford(s, r) = IF full <= Remaining(s) THEN Grant(r, cap, steer)
                     ELSE IF fits < 1 THEN Refuse("halt", "pre_call_worst_case")
                     ELSE Grant(r, fits, steer)
  BY DEF Afford
<1> HIDE DEF cap, steer, full
<1>5. CASE full <= Remaining(s)
  <2>1. /\ Grant(r, cap, steer) \in Decision
        /\ Grant(r, cap, steer).cap = cap
        /\ Grant(r, cap, steer).reserve = worst_case_micros(r.est, cap, r.model)
    BY <1>1, GrantType
  <2>2. s.spend + s.inflight + full <= s.budget
    BY <1>2, <1>3, <1>5
  <2> QED
    BY <1>4, <1>5, <2>1, <2>2 DEF full
<1>6. CASE ~(full <= Remaining(s)) /\ fits < 1
  <2>1. Afford(s, r) = Refuse("halt", "pre_call_worst_case")
    BY <1>4, <1>6
  <2> QED
    BY <2>1, RefuseType DEF Reason
<1>7. CASE ~(full <= Remaining(s)) /\ ~(fits < 1)
  <2>1. PriceOut[r.model] # 0
    <3>1. SUFFICES ASSUME PriceOut[r.model] = 0 PROVE FALSE
      OBVIOUS
    <3>2. PriceIn[r.model] = 0
      BY <1>1, <3>1
    <3>3. full = 0
      BY <1>1, <3>1, <3>2 DEF full, worst_case_micros
    <3> QED
      BY <1>2, <1>7, <3>3
  <2>2. rest \in Int /\ r.est * PriceIn[r.model] \in Int
    BY <1>1, <1>2
  <2>3. fits \in Int /\ fits * PriceOut[r.model] <= rest
    BY <1>1, <2>1, <2>2, DivisionFits
  <2>4. fits \in Nat
    BY <1>7, <2>3
  <2>5. /\ Grant(r, fits, steer) \in Decision
        /\ Grant(r, fits, steer).cap = fits
        /\ Grant(r, fits, steer).reserve = worst_case_micros(r.est, fits, r.model)
    BY <1>1, <2>4, GrantType
  <2>6. worst_case_micros(r.est, fits, r.model) <= Remaining(s)
    <3> HIDE DEF fits
    <3>1. fits * PriceOut[r.model] \in Int
      BY <1>1, <2>4
    <3> QED
      BY <1>1, <1>2, <2>2, <2>3, <3>1 DEF worst_case_micros
  <2>7. worst_case_micros(r.est, fits, r.model) \in Nat
    BY <1>1, <2>4, WorstCaseType
  <2>8. s.spend + s.inflight + worst_case_micros(r.est, fits, r.model) <= s.budget
    BY <1>2, <2>6, <2>7
  <2> QED
    BY <1>4, <1>7, <2>5, <2>8
<1> QED
  BY <1>5, <1>6, <1>7

LEMMA DecideSpec ==
  ASSUME NEW s \in RunState, NEW r \in Request, NEW rec
  PROVE  LET d == decide(s, r, rec)
         IN /\ d \in Decision
            /\ d.action \in {"allow", "mutate"} => LetThrough(s, r, rec, d)
<1> DEFINE d == decide(s, r, rec)
<1>1. CASE s.halt # "none"
  <2>1. d = Refuse("halt", s.halt)
    BY <1>1 DEF decide
  <2>2. s.halt \in Reason \cup {"none"}
    BY DEF RunState
  <2> QED
    BY <2>1, <2>2, RefuseType
<1>2. CASE s.halt = "none" /\ s.spend + s.inflight >= s.budget
  <2>1. d = Refuse("halt", "cost_budget")
    BY <1>2 DEF decide
  <2> QED
    BY <2>1, RefuseType DEF Reason
<1>3. CASE s.halt = "none" /\ ~(s.spend + s.inflight >= s.budget)
  <2>1. s.spend + s.inflight < s.budget
    BY <1>3 DEF RunState
  <2>2. CASE s.steps >= MaxSteps
    <3>1. d = Refuse("halt", "step_cap")
      BY <1>3, <2>2 DEF decide
    <3> QED
      BY <3>1, RefuseType DEF Reason
  <2>3. CASE ~(s.steps >= MaxSteps) /\ Repeats(rec, r.prompt) >= LoopRepeats
    <3>1. d = Correct(r)
      BY <1>3, <2>3 DEF decide
    <3> QED
      BY <2>1, <2>3, <3>1, CorrectType DEF LetThrough
  <2>4. CASE /\ ~(s.steps >= MaxSteps) /\ ~(Repeats(rec, r.prompt) >= LoopRepeats)
             /\ s.concurrent >= MaxConcurrent
    <3>1. d = Refuse("queue", "none")
      BY <1>3, <2>4 DEF decide
    <3> QED
      BY <3>1, RefuseType
  <2>5. CASE /\ ~(s.steps >= MaxSteps) /\ ~(Repeats(rec, r.prompt) >= LoopRepeats)
             /\ ~(s.concurrent >= MaxConcurrent)
    <3>1. d = Afford(s, r)
      BY <1>3, <2>5 DEF decide
    <3>2. s.concurrent < MaxConcurrent
      BY <2>5 DEF RunState
    <3> QED
      BY <2>1, <3>1, <3>2, AffordSpec DEF LetThrough
  <2> QED
    BY <2>2, <2>3, <2>4, <2>5
<1> QED
  BY <1>1, <1>2, <1>3

-----------------------------------------------------------------------------
(* Type correctness.                                                       *)

Prompt == {r.prompt : r \in Request}

LEMMA OutcomeSpec ==
  ASSUME TypeOK, NEW r \in Request
  PROVE  /\ Outcome(r) \in OutcomeType
         /\ Granted(Outcome(r)) =>
              LetThrough(run, r, recent, Outcome(r).decision)
<1> DEFINE s == [run EXCEPT !.steps = Later(@, r.step)]
           d == decide(s, r, recent)
<1>1. run \in RunState /\ r.step \in Nat
  BY DEF TypeOK
<1>2. Later(run.steps, r.step) \in Nat
  BY <1>1 DEF Later, RunState
<1>3. /\ s \in RunState
      /\ s.spend = run.spend /\ s.inflight = run.inflight
      /\ s.budget = run.budget /\ s.concurrent = run.concurrent
  BY <1>1, <1>2 DEF RunState
<1>4. /\ d \in Decision
      /\ d.action \in {"allow", "mutate"} => LetThrough(s, r, recent, d)
  BY <1>3, DecideSpec
<1>5. /\ Outcome(r).decision = d
      /\ Outcome(r).steps = Later(run.steps, r.step)
      /\ Outcome(r) \in [decision : {d}, steps : {Later(run.steps, r.step)},
                         steered : BOOLEAN]
  <2>1. d.override \in BOOLEAN /\ d.inject \in BOOLEAN /\ run.steered \in BOOLEAN
    BY <1>1, <1>4 DEF Decision, RunState
  <2>2. (run.steered \/ (PastThreshold(run) /\ (d.override \/ d.inject))) \in BOOLEAN
    BY <2>1 DEF PastThreshold
  <2> QED
    BY <2>2 DEF Outcome
<1>6. Outcome(r) \in OutcomeType
  BY <1>2, <1>4, <1>5 DEF OutcomeType
<1>7. LetThrough(s, r, recent, d) => LetThrough(run, r, recent, d)
  BY <1>3 DEF LetThrough
<1> QED
  BY <1>4, <1>5, <1>6, <1>7 DEF Granted

LEMMA PushedType ==
  ASSUME TypeOK, NEW p \in Prompt
  PROVE  /\ Pushed(p) \in Seq(Prompt)
         /\ Len(Pushed(p)) <= LoopWindow
<1> DEFINE all == <<p>> \o recent
           n == Smaller(LoopWindow, Len(all))
<1>1. recent \in Seq(Prompt) /\ <<p>> \in Seq(Prompt)
  BY DEF TypeOK, Prompt
<1>2. all \in Seq(Prompt) /\ Len(all) \in Nat
  BY <1>1, ConcatProperties
<1>3. n \in 0 .. Len(all) /\ n <= LoopWindow
  BY <1>2 DEF Smaller
<1> HIDE DEF all, n
<1>4. \A k \in 1 .. n : k \in 1 .. Len(all)
  BY <1>2, <1>3
<1>5. SubSeq(all, 1, n) \in Seq(Prompt) /\ Len(SubSeq(all, 1, n)) = n
  BY <1>2, <1>3, <1>4, SubSeqProperties
<1> QED
  BY <1>3, <1>5 DEF Pushed, all, n

LEMMA RunUpdate ==
  ASSUME NEW s \in RunState, NEW i \in Int, NEW n \in Int
  PROVE  /\ \A st \in Nat : \A b \in BOOLEAN :
              [s EXCEPT !.inflight = i, !.concurrent = n, !.steps = st,
                        !.steered = b] \in RunState
         /\ \A sp \in Int :
              [s EXCEPT !.inflight = i, !.concurrent = n, !.spend = sp] \in RunState
  BY DEF RunState

LEMMA TypeInit == Init => TypeOK
<1> SUFFICES ASSUME Init PROVE TypeOK
  OBVIOUS
<1>1. NewRun \in RunState
  BY DEF NewRun, RunState
<1>1a. [NewRun EXCEPT !.budget = 0] \in RunState
  BY <1>1 DEF RunState
<1>2. recent \in Seq({r.prompt : r \in Request})
  BY DEF Init
<1> QED
  BY <1>1a, <1>2 DEF Init, NoRun, TypeOK, SlotPC, ReportPC

LEMMA OverrunType ==
  ASSUME NEW x \in Nat, NEW y \in Nat
  PROVE  Above(x, y) \in Nat /\ x <= y + Above(x, y)
  BY DEF Above

(* What a charge does to the books, whoever is told of it.                 *)
LEMMA ChargeIs ==
  ASSUME TypeOK, NEW c \in Slot, NEW told \in BOOLEAN, Charge(c, told)
  PROVE  \E y \in Nat :
           /\ cost' = [cost EXCEPT ![c] = y] /\ (told \/ y = 0)
           /\ billed' \in Nat /\ unbooked' \in Nat
           /\ billed' - unbooked' = billed - unbooked + y
           /\ cost' \in [Slot -> Nat] /\ excess' = excess
<1>1. PICK m \in Answering(c) : \E x \in 0 .. HighestCost(c, m) :
        /\ billed' = billed + x
        /\ cost' = [cost EXCEPT ![c] = IF told THEN x ELSE 0]
        /\ unbooked' = IF told THEN unbooked ELSE unbooked + x
        /\ excess' = excess
  BY DEF Charge
<1>2. PICK x \in 0 .. HighestCost(c, m) :
        /\ billed' = billed + x
        /\ cost' = [cost EXCEPT ![c] = IF told THEN x ELSE 0]
        /\ unbooked' = IF told THEN unbooked ELSE unbooked + x
        /\ excess' = excess
  BY <1>1
<1> DEFINE y == IF told THEN x ELSE 0
<1>3. x \in Nat /\ y \in Nat OBVIOUS
<1>4. billed \in Nat /\ unbooked \in Nat /\ cost \in [Slot -> Nat] BY DEF TypeOK
<1>5. /\ billed' \in Nat /\ unbooked' \in Nat
      /\ billed' - unbooked' = billed - unbooked + y
  BY <1>2, <1>3, <1>4
<1>6. (told \/ y = 0) /\ cost' = [cost EXCEPT ![c] = y] BY <1>2
<1> HIDE DEF y
<1>7. cost' \in [Slot -> Nat] BY <1>3, <1>4, <1>6
<1> QED BY <1>2, <1>3, <1>5, <1>6, <1>7

LEMMA TypeStep == TypeOK /\ [Next]_vars => TypeOK'
<1> SUFFICES ASSUME TypeOK, [Next]_vars PROVE TypeOK'
  OBVIOUS
<1> USE DEF TypeOK, hashVars, slotVars, books
<1>1. ASSUME NEW k \in Creator, CreateRead(k) PROVE TypeOK'
  BY <1>1 DEF CreateRead
<1>2. ASSUME NEW k \in Creator, CreateWrite(k) PROVE TypeOK'
  <2>1. NewRun \in RunState
    BY DEF NewRun, RunState
  <2> QED
    BY <1>2, <2>1 DEF CreateWrite, Touch
<1>3. ASSUME NEW k \in Creator, CreateExpire(k) PROVE TypeOK'
  BY <1>3 DEF CreateExpire, Touch
<1>4. ASSUME NEW c \in Slot, NEW r \in Request, PrecallRead(c, r) PROVE TypeOK'
  <2>1. Outcome(r) \in OutcomeType
    BY OutcomeSpec
  <2>2. CASE /\ exists /\ Granted(Outcome(r))
             /\ watched' = watched \cup {c}
             /\ req' = [req EXCEPT ![c] = r]
             /\ outcome' = [outcome EXCEPT ![c] = Outcome(r)]
             /\ Goto(c, "decided")
    BY <1>4, <2>1, <2>2 DEF PrecallRead, Goto, Granted, SlotPC
  <2>3. CASE /\ req' = [req EXCEPT ![c] = NoRequest]
             /\ Goto(c, "idle")
             /\ UNCHANGED <<watched, outcome>>
    BY <1>4, <2>3 DEF PrecallRead, Goto, SlotPC
  <2> QED
    BY <1>4, <2>2, <2>3 DEF PrecallRead
<1>5. ASSUME NEW c \in Slot, PrecallExecute(c) PROVE TypeOK'
  <2>1. /\ req[c] \in Request /\ outcome[c] \in OutcomeType
        /\ outcome[c].decision \in Decision
        /\ outcome[c].decision.reserve \in Nat
        /\ outcome[c].steps \in Nat /\ outcome[c].steered \in BOOLEAN
    BY <1>5 DEF PrecallExecute, OutcomeType, Decision
  <2>2. Pushed(req[c].prompt) \in Seq({r.prompt : r \in Request})
    BY <2>1, PushedType DEF Prompt
  <2>3. run' \in RunState
    <3>0. run.inflight \in Int /\ run.concurrent \in Int
      BY DEF RunState
    <3>1. /\ run.inflight + outcome[c].decision.reserve \in Int
          /\ run.concurrent + 1 \in Int
      BY ONLY <2>1, <3>0
    <3> QED
      BY <1>5, <2>1, <3>1, RunUpdate DEF PrecallExecute, Reserve
  <2>4. /\ pc[c] = "decided" /\ pc' = [pc EXCEPT ![c] = "reserved"]
        /\ exists' = exists /\ recent' = Pushed(req[c].prompt)
        /\ resv' = resv \cup {c} /\ watched' = {}
        /\ UNCHANGED <<create, req, outcome, report, cost, billed, unbooked,
                       excess, losses, expiries>>
    BY <1>5 DEF PrecallExecute, Reserve, Goto, Touch
  <2>5. /\ exists' \in BOOLEAN /\ recent' \in Seq({r.prompt : r \in Request})
        /\ resv' \in SUBSET Slot /\ watched' \in SUBSET Slot
        /\ pc' \in [Slot -> SlotPC]
    BY <2>2, <2>4 DEF SlotPC
  <2>6. \A d \in Slot :
          /\ pc'[d] # "idle" => req'[d] \in Request
          /\ pc'[d] \notin {"idle", "retry"} =>
               /\ outcome'[d] \in OutcomeType
               /\ outcome'[d].decision.action \in {"allow", "mutate"}
          /\ pc'[d] # "called" => \A k \in Kind : report'[d][k] = "none"
    BY <2>4
  <2> QED
    BY <2>3, <2>4, <2>5, <2>6
<1>6. ASSUME NEW c \in Slot, PrecallConflict(c) PROVE TypeOK'
  BY <1>6 DEF PrecallConflict, Goto, SlotPC
<1>7. ASSUME NEW c \in Slot, NEW told \in BOOLEAN, Charge(c, told)
      PROVE  /\ cost' \in [Slot -> Nat] /\ billed' \in Nat
             /\ unbooked' \in Nat /\ excess' = excess
  BY <1>7, ChargeIs
<1>8. ASSUME NEW c \in Slot, ModelAnswers(c) PROVE TypeOK'
  <2>1. /\ cost' \in [Slot -> Nat] /\ billed' \in Nat
        /\ unbooked' \in Nat /\ excess' = excess
    BY <1>7, <1>8 DEF ModelAnswers
  <2> QED
    BY <1>8, <2>1 DEF ModelAnswers, Goto, SlotPC, ReportPC
<1>9. ASSUME NEW c \in Slot, ModelFails(c) PROVE TypeOK'
  <2>1. /\ cost' \in [Slot -> Nat] /\ billed' \in Nat
        /\ unbooked' \in Nat /\ excess' = excess
    BY <1>7, <1>9 DEF ModelFails
  <2> QED
    BY <1>9, <2>1 DEF ModelFails, Goto, SlotPC, ReportPC
<1>10. ASSUME NEW c \in Slot, CallerLost(c) PROVE TypeOK'
  <2>1. /\ cost' \in [Slot -> Nat] /\ billed' \in Nat
        /\ unbooked' \in Nat /\ excess' = excess
    BY <1>7, <1>10 DEF CallerLost
  <2>2. /\ pc[c] = "reserved" /\ pc' = [pc EXCEPT ![c] = "lost"]
        /\ losses' = losses + 1
        /\ UNCHANGED <<exists, run, recent, resv, create, req, outcome, report,
                       watched, expiries>>
    BY <1>10 DEF CallerLost, Goto
  <2>3. pc' \in [Slot -> SlotPC] /\ losses' \in Nat
    BY <2>2 DEF SlotPC
  <2>4. \A d \in Slot :
          /\ pc'[d] # "idle" => req'[d] \in Request
          /\ pc'[d] \notin {"idle", "retry"} =>
               /\ outcome'[d] \in OutcomeType
               /\ outcome'[d].decision.action \in {"allow", "mutate"}
          /\ pc'[d] # "called" => \A k \in Kind : report'[d][k] = "none"
    BY <2>2
  <2> QED
    BY <2>1, <2>2, <2>3, <2>4
<1>11. ASSUME NEW c \in Slot, ReservationExpires(c) PROVE TypeOK'
  BY <1>11 DEF ReservationExpires
<1>12. ASSUME NEW c \in Slot, NEW k \in Kind, PostcallGet(c, k) PROVE TypeOK'
  BY <1>12 DEF PostcallGet, ReportAt, ReportPC
<1>13. ASSUME NEW c \in Slot, NEW k \in Kind, PostcallExecute(c, k)
       PROVE  TypeOK'
  <2>0. pc[c] = "called"
    BY <1>13 DEF PostcallExecute
  <2>1. outcome[c].decision.reserve \in Nat /\ cost[c] \in Nat
    BY <2>0 DEF OutcomeType, Decision
  <2>2. run' \in RunState
    <3>1. /\ run.inflight - outcome[c].decision.reserve \in Int
          /\ run.concurrent - 1 \in Int
          /\ (IF k = "usage" THEN run.spend + cost[c] ELSE run.spend) \in Int
      BY <2>1 DEF RunState
    <3> QED
      BY <1>13, <3>1, RunUpdate DEF PostcallExecute
  <2>3. excess' \in Nat
    <3>1. Above(cost[c], outcome[c].decision.reserve) \in Nat
      BY <2>1, OverrunType
    <3>2. Overrun(c, k) \in Nat
      BY <3>1 DEF Overrun
    <3>3. excess' = excess + Overrun(c, k)
      BY <1>13 DEF PostcallExecute
    <3> QED
      BY <3>2, <3>3
  <2> QED
    BY <1>13, <2>2, <2>3 DEF PostcallExecute, ReportAt, ReportPC, Touch
<1>14. ASSUME NEW c \in Slot, NEW k \in Kind, PostcallCheck(c, k) PROVE TypeOK'
  BY <1>14 DEF PostcallCheck, ReportAt, ReportPC
<1>15. ASSUME NEW c \in Slot, NEW k \in Kind, PostcallHalt(c, k) PROVE TypeOK'
  <2>1. run' \in RunState
    BY <1>15 DEF PostcallHalt, RunState, Reason
  <2> QED
    BY <1>15, <2>1 DEF PostcallHalt, ReportAt, ReportPC, Touch
<1>16. ASSUME NEW c \in Slot, CallEnds(c) PROVE TypeOK'
  BY <1>16 DEF CallEnds, Goto, SlotPC, ReportPC
<1>17. CASE UNCHANGED vars
  BY <1>17 DEF vars
<1> QED
  BY <1>1, <1>2, <1>3, <1>4, <1>5, <1>6, <1>8, <1>9, <1>10, <1>11, <1>12, <1>13,
     <1>14, <1>15, <1>16, <1>17
  DEF Next, Precall, ModelCall, Postcall

(* The type invariant holds in every instance of the ledger: the hash is   *)
(* always a run record, and only granted calls hold reservations.          *)
THEOREM TypeCorrect == Spec => []TypeOK
  BY TypeInit, TypeStep, PTL DEF Spec

-----------------------------------------------------------------------------
(* The invariant behind the ceiling.                                       *)

(* A decision whose WATCH is clean is the decision of this moment.         *)
Fresh == \A c \in watched : pc[c] = "decided" => outcome[c] = Outcome(req[c])

(* Nothing is charged before the call.                                     *)
ChargedLate == \A c \in Slot : pc[c] \notin {"called", "lost"} => cost[c] = 0

LedgerInv == Fresh /\ ChargedLate /\ Ceiling

(* Booking a call that decide lets through keeps the ceiling.              *)
LEMMA LetThroughCeiling ==
  ASSUME TypeOK, NEW r \in Request, NEW d \in Decision, LetThrough(run, r, recent, d)
  PROVE  WithinCeiling(run.spend + run.inflight + d.reserve)
<1>1. /\ run.spend \in Int /\ run.inflight \in Int /\ run.budget \in Nat
      /\ d.reserve \in Nat
  BY DEF TypeOK, RunState, Decision
<1>2. CASE run.spend + run.inflight + d.reserve <= run.budget
  BY <1>2 DEF WithinCeiling
<1>3. CASE d = Correct(r) /\ run.spend + run.inflight < run.budget
  <2>1. run.spend + run.inflight + d.reserve < run.budget + Correct(r).reserve
    BY <1>1, <1>3
  <2> QED
    BY <2>1 DEF WithinCeiling
<1> QED
  BY <1>2, <1>3 DEF LetThrough

LEMMA CeilingMonotone ==
  ASSUME TypeOK, NEW x \in Int, NEW y \in Int, y <= x, WithinCeiling(x)
  PROVE  WithinCeiling(y)
<1>1. run.budget \in Nat /\ \A r \in Request : Correct(r).reserve \in Nat
  BY CorrectType DEF TypeOK, RunState, Decision
<1> QED
  BY <1>1 DEF WithinCeiling

-----------------------------------------------------------------------------
(* What a step leaves alone keeps its part of the invariant.               *)

LEMMA CeilingFrame ==
  ASSUME Ceiling, UNCHANGED <<run, excess>>
  PROVE  Ceiling'
  BY DEF Ceiling, WithinCeiling

LEMMA FreshFrame ==
  ASSUME Fresh, UNCHANGED <<run, recent>>,
         \A c \in watched' : pc'[c] = "decided" =>
           /\ c \in watched /\ pc[c] = "decided"
           /\ req'[c] = req[c] /\ outcome'[c] = outcome[c]
  PROVE  Fresh'
  BY DEF Fresh, Outcome

LEMMA FreshTouch == ASSUME Touch PROVE Fresh'
  BY DEF Touch, Fresh

LEMMA ChargedFrame ==
  ASSUME ChargedLate, UNCHANGED cost,
         \A c \in Slot : pc'[c] \notin {"called", "lost"} =>
           pc[c] \notin {"called", "lost"}
  PROVE  ChargedLate'
  BY DEF ChargedLate

-----------------------------------------------------------------------------
LEMMA LedgerInit == Init => LedgerInv
<1> SUFFICES ASSUME Init PROVE LedgerInv
  OBVIOUS
<1>1. Fresh /\ ChargedLate
  BY DEF Init, Fresh, ChargedLate
<1>2. run.spend = 0 /\ run.inflight = 0 /\ run.budget = 0 /\ excess = 0
  BY DEF Init, NoRun, NewRun
<1>3. Ceiling
  BY <1>2 DEF Ceiling, WithinCeiling
<1> QED
  BY <1>1, <1>3 DEF LedgerInv

(* The transaction of precall.                                             *)
LEMMA ReserveStep ==
  ASSUME TypeOK, LedgerInv, NEW c \in Slot, PrecallExecute(c)
  PROVE  LedgerInv'
<1> DEFINE d == outcome[c].decision
<1>1. /\ pc[c] = "decided" /\ outcome[c] = Outcome(req[c])
      /\ req[c] \in Request /\ d \in Decision /\ d.reserve \in Nat
      /\ d.action \in {"allow", "mutate"}
  BY DEF PrecallExecute, LedgerInv, Fresh, TypeOK, OutcomeType, Decision
<1>2. LetThrough(run, req[c], recent, d)
  BY <1>1, OutcomeSpec DEF Granted
<1>3. /\ run.spend \in Int /\ run.inflight \in Int /\ excess \in Nat
      /\ run'.budget = run.budget /\ run'.spend = run.spend
      /\ run'.inflight = run.inflight + d.reserve /\ excess' = excess
  BY DEF PrecallExecute, Reserve, TypeOK, RunState, books
<1>4. Fresh'
  BY FreshTouch DEF PrecallExecute, Reserve
<1>5. ChargedLate'
  <2>1. /\ UNCHANGED cost
        /\ \A b \in Slot : pc'[b] = IF b = c THEN "reserved" ELSE pc[b]
    BY DEF PrecallExecute, Reserve, Goto, TypeOK
  <2> QED
    BY <1>1, <2>1, ChargedFrame DEF LedgerInv
<1>6. Ceiling'
  <2>1. WithinCeiling(run.spend + run.inflight + d.reserve)
    BY <1>1, <1>2, LetThroughCeiling
  <2>2. run'.spend + run'.inflight - excess' <= run.spend + run.inflight + d.reserve
    BY <1>1, <1>3
  <2>3. WithinCeiling(run'.spend + run'.inflight - excess')
    BY <1>1, <1>3, <2>1, <2>2, CeilingMonotone
  <2> QED
    BY <1>3, <2>3 DEF Ceiling, WithinCeiling
<1> QED
  BY <1>4, <1>5, <1>6 DEF LedgerInv

(* The transaction of postcall: what it books above the reservation it     *)
(* releases is in excess.                                                  *)
LEMMA SettleStep ==
  ASSUME TypeOK, LedgerInv, NEW c \in Slot, NEW k \in Kind, PostcallExecute(c, k)
  PROVE  LedgerInv'
<1> DEFINE spent == IF k = "usage" THEN cost[c] ELSE 0
           reserve == outcome[c].decision.reserve
<1>1. pc[c] = "called" /\ reserve \in Nat /\ cost[c] \in Nat
  <2>1. pc[c] = "called"
    BY DEF PostcallExecute, TypeOK
  <2>2. outcome[c] \in OutcomeType
    BY <2>1 DEF TypeOK
  <2> QED
    BY <2>1, <2>2 DEF OutcomeType, Decision, TypeOK
<1>2. /\ run.spend \in Int /\ run.inflight \in Int /\ excess \in Nat
      /\ run'.budget = run.budget /\ run'.spend = run.spend + spent
      /\ run'.inflight = run.inflight - reserve
      /\ excess' = excess + Overrun(c, k)
  <2>1. /\ run \in RunState /\ excess \in Nat /\ run.spend \in Int
        /\ run.inflight \in Int
    BY DEF TypeOK, RunState
  <2>2. /\ run' = [run EXCEPT !.inflight = @ - reserve, !.concurrent = @ - 1,
                              !.spend = IF k = "usage" THEN @ + cost[c] ELSE @]
        /\ excess' = excess + Overrun(c, k)
    BY DEF PostcallExecute
  <2>3. run'.spend = IF k = "usage" THEN run.spend + cost[c] ELSE run.spend
    BY <2>1, <2>2 DEF RunState
  <2>4. run'.spend = run.spend + spent
    BY <1>1, <2>1, <2>3
  <2> QED
    BY <2>1, <2>2, <2>4 DEF RunState
<1>3. Overrun(c, k) \in Nat /\ spent <= reserve + Overrun(c, k) /\ spent \in Nat
  <2>1. /\ Above(cost[c], reserve) \in Nat
        /\ cost[c] <= reserve + Above(cost[c], reserve)
    BY <1>1, OverrunType
  <2>2. CASE k = "usage" BY <1>1, <2>1, <2>2 DEF Overrun
  <2>3. CASE k # "usage" BY <1>1, <2>3 DEF Overrun
  <2> QED
    BY <2>2, <2>3
<1>4. Fresh' /\ ChargedLate'
  BY FreshTouch, ChargedFrame DEF PostcallExecute, LedgerInv
<1>5. Ceiling'
  <2> HIDE DEF spent, reserve
  <2>1. WithinCeiling(run.spend + run.inflight - excess)
    BY DEF LedgerInv, Ceiling
  <2>2. run'.spend + run'.inflight - excess' <= run.spend + run.inflight - excess
    BY <1>1, <1>2, <1>3
  <2>3. WithinCeiling(run'.spend + run'.inflight - excess')
    BY <1>1, <1>2, <1>3, <2>1, <2>2, CeilingMonotone
  <2> QED
    BY <1>2, <2>3 DEF Ceiling, WithinCeiling
<1> QED
  BY <1>4, <1>5 DEF LedgerInv

(* The reads and the decision of precall.                                  *)
LEMMA DecideStep ==
  ASSUME TypeOK, LedgerInv, NEW c \in Slot, NEW r \in Request, PrecallRead(c, r)
  PROVE  LedgerInv'
<1>1. Ceiling'
  BY CeilingFrame DEF PrecallRead, hashVars, books, LedgerInv
<1>2. pc[c] \in {"idle", "retry"} /\ UNCHANGED <<run, recent, cost>>
  BY DEF PrecallRead, hashVars
<1>3. CASE /\ watched' = watched \cup {c}
           /\ req' = [req EXCEPT ![c] = r]
           /\ outcome' = [outcome EXCEPT ![c] = Outcome(r)]
           /\ Goto(c, "decided")
  <2>1. /\ req'[c] = r /\ outcome'[c] = Outcome(r) /\ pc'[c] = "decided"
        /\ \A b \in Slot : b # c =>
             req'[b] = req[b] /\ outcome'[b] = outcome[b] /\ pc'[b] = pc[b]
    BY <1>3 DEF TypeOK, Goto
  <2>2. Fresh'
    <3>1. SUFFICES ASSUME NEW b \in watched', pc'[b] = "decided"
                   PROVE  outcome'[b] = (Outcome(req[b]))'
      BY DEF Fresh
    <3>2. b \in Slot
      BY <1>3 DEF TypeOK
    <3>3. (Outcome(req[b]))' = Outcome(req'[b])
      BY <1>2 DEF Outcome
    <3> QED
      BY <1>3, <2>1, <3>1, <3>2, <3>3 DEF LedgerInv, Fresh
  <2>3. ChargedLate'
    BY <1>2, <2>1 DEF LedgerInv, ChargedLate
  <2> QED
    BY <1>1, <2>2, <2>3 DEF LedgerInv
<1>4. CASE /\ req' = [req EXCEPT ![c] = NoRequest]
           /\ Goto(c, "idle")
           /\ UNCHANGED <<watched, outcome>>
  <2>1. /\ pc'[c] = "idle"
        /\ \A b \in Slot : b # c => req'[b] = req[b] /\ pc'[b] = pc[b]
    BY <1>4 DEF TypeOK, Goto
  <2>2. Fresh'
    BY <1>2, <1>4, <2>1, FreshFrame DEF LedgerInv, TypeOK
  <2>3. ChargedLate'
    BY <1>2, <2>1 DEF LedgerInv, ChargedLate
  <2> QED
    BY <1>1, <2>2, <2>3 DEF LedgerInv
<1> QED
  BY <1>3, <1>4 DEF PrecallRead

LEMMA LedgerStep == TypeOK /\ LedgerInv /\ [Next]_vars => LedgerInv'
<1> SUFFICES ASSUME TypeOK, LedgerInv, [Next]_vars PROVE LedgerInv'
  OBVIOUS
<1> USE DEF hashVars, slotVars, books
<1>a. Fresh /\ ChargedLate /\ Ceiling
  BY DEF LedgerInv
<1>1. ASSUME NEW k \in Creator, CreateRead(k) PROVE LedgerInv'
  BY <1>a, <1>1, CeilingFrame, FreshFrame, ChargedFrame DEF CreateRead, LedgerInv
<1>2. ASSUME NEW k \in Creator, CreateWrite(k) PROVE LedgerInv'
  <2>1. Fresh' /\ ChargedLate'
    BY <1>a, <1>2, FreshTouch, ChargedFrame DEF CreateWrite
  <2>2. /\ run'.spend = 0 /\ run'.inflight = 0 /\ run'.budget = Budget
        /\ excess' = excess /\ excess \in Nat
    BY <1>2 DEF CreateWrite, NewRun, TypeOK
  <2>3. Ceiling'
    BY <2>2 DEF Ceiling, WithinCeiling
  <2> QED
    BY <2>1, <2>3 DEF LedgerInv
<1>3. ASSUME NEW k \in Creator, CreateExpire(k) PROVE LedgerInv'
  BY <1>a, <1>3, CeilingFrame, FreshTouch, ChargedFrame DEF CreateExpire, LedgerInv
<1>4. ASSUME NEW c \in Slot, NEW r \in Request, PrecallRead(c, r) PROVE LedgerInv'
  BY <1>4, DecideStep
<1>5. ASSUME NEW c \in Slot, PrecallExecute(c) PROVE LedgerInv'
  BY <1>5, ReserveStep
<1>6. ASSUME NEW c \in Slot, PrecallConflict(c) PROVE LedgerInv'
  <2>1. /\ pc'[c] = "retry" /\ pc[c] = "decided"
        /\ \A b \in Slot : b # c => outcome'[b] = outcome[b] /\ pc'[b] = pc[b]
    BY <1>6 DEF PrecallConflict, Goto, TypeOK
  <2>2. Fresh'
    BY <1>a, <1>6, <2>1, FreshFrame DEF PrecallConflict, TypeOK
  <2>3. ChargedLate'
    BY <1>a, <1>6, <2>1 DEF PrecallConflict, ChargedLate
  <2> QED
    BY <1>a, <1>6, <2>2, <2>3, CeilingFrame DEF PrecallConflict, LedgerInv
<1>7. ASSUME NEW c \in Slot, ModelCall(c) \/ CallerLost(c) PROVE LedgerInv'
  <2>1. PICK l \in {"called", "lost"} : Goto(c, l)
    BY <1>7 DEF ModelCall, ModelAnswers, ModelFails, CallerLost
  <2>2. /\ \E told \in BOOLEAN : Charge(c, told)
        /\ pc[c] = "reserved" /\ UNCHANGED <<run, recent, req, outcome, watched>>
    BY <1>7 DEF ModelCall, ModelAnswers, ModelFails, CallerLost
  <2>3. PICK y \in Nat : cost' = [cost EXCEPT ![c] = y] /\ excess' = excess
    BY <2>2, ChargeIs
  <2>4. \A b \in Slot : pc'[b] = IF b = c THEN l ELSE pc[b]
    BY <2>1 DEF Goto, TypeOK
  <2>5. Fresh'
    BY <1>a, <2>2, <2>4, FreshFrame DEF TypeOK
  <2>6. \A b \in Slot : b # c => cost'[b] = cost[b]
    BY <2>3 DEF TypeOK
  <2>7. ChargedLate'
    BY <1>a, <2>4, <2>6 DEF ChargedLate
  <2> QED
    BY <1>a, <2>2, <2>3, <2>5, <2>7, CeilingFrame DEF LedgerInv
<1>9. ASSUME NEW c \in Slot, ReservationExpires(c) PROVE LedgerInv'
  BY <1>a, <1>9, CeilingFrame, FreshFrame, ChargedFrame DEF ReservationExpires, LedgerInv
<1>10. ASSUME NEW c \in Slot, NEW k \in Kind, PostcallGet(c, k) PROVE LedgerInv'
  BY <1>a, <1>10, CeilingFrame, FreshFrame, ChargedFrame DEF PostcallGet, LedgerInv
<1>11. ASSUME NEW c \in Slot, NEW k \in Kind, PostcallExecute(c, k) PROVE LedgerInv'
  BY <1>11, SettleStep
<1>12. ASSUME NEW c \in Slot, NEW k \in Kind, PostcallCheck(c, k) PROVE LedgerInv'
  BY <1>a, <1>12, CeilingFrame, FreshFrame, ChargedFrame DEF PostcallCheck, LedgerInv
<1>13. ASSUME NEW c \in Slot, NEW k \in Kind, PostcallHalt(c, k) PROVE LedgerInv'
  <2>1. Fresh' /\ ChargedLate'
    BY <1>a, <1>13, FreshTouch, ChargedFrame DEF PostcallHalt
  <2>2. /\ run'.spend = run.spend /\ run'.inflight = run.inflight
        /\ run'.budget = run.budget /\ excess' = excess
    BY <1>13 DEF PostcallHalt, TypeOK, RunState
  <2>3. Ceiling'
    BY <1>a, <2>2 DEF Ceiling, WithinCeiling
  <2> QED
    BY <2>1, <2>3 DEF LedgerInv
<1>14. ASSUME NEW c \in Slot, CallEnds(c) PROVE LedgerInv'
  <2>1. /\ pc'[c] = "idle" /\ cost'[c] = 0
        /\ \A b \in Slot : b # c =>
             /\ outcome'[b] = outcome[b] /\ pc'[b] = pc[b]
             /\ cost'[b] = cost[b] /\ req'[b] = req[b]
    BY <1>14 DEF CallEnds, Goto, TypeOK
  <2>2. Fresh'
    BY <1>a, <1>14, <2>1, FreshFrame DEF CallEnds, TypeOK
  <2>3. ChargedLate'
    BY <1>a, <2>1 DEF ChargedLate
  <2> QED
    BY <1>a, <1>14, <2>2, <2>3, CeilingFrame DEF CallEnds, LedgerInv
<1>15. CASE UNCHANGED vars
  BY <1>a, <1>15, CeilingFrame, FreshFrame, ChargedFrame DEF vars, LedgerInv
<1> QED
  BY <1>1, <1>2, <1>3, <1>4, <1>5, <1>6, <1>7, <1>9, <1>10, <1>11, <1>12,
     <1>13, <1>14, <1>15
  DEF Next, Precall, Postcall

THEOREM LedgerInvariant == Spec => [](TypeOK /\ LedgerInv)
<1>1. Init => TypeOK /\ LedgerInv
  BY TypeInit, LedgerInit
<1>2. TypeOK /\ LedgerInv /\ [Next]_vars => (TypeOK /\ LedgerInv)'
  BY TypeStep, LedgerStep
<1> QED
  BY <1>1, <1>2, PTL DEF Spec

(* The budget ceiling: but for what calls cost above their reservations,   *)
(* spend and outstanding reservations never exceed the budget by as much   *)
(* as one corrected call, whatever requests interleave, get lost, expire,  *)
(* fail after they were charged or are reported twice.                     *)
THEOREM BudgetCeiling == Spec => []Ceiling
<1>1. TypeOK /\ LedgerInv => Ceiling
  BY DEF LedgerInv
<1> QED
  BY <1>1, LedgerInvariant, PTL

(* Optimistic concurrency works: every reservation rests on a decision     *)
(* about the state of the run at the moment the transaction goes through.  *)
THEOREM ReservationsAreFresh == Spec => FreshDecisions
<1>1. TypeOK /\ LedgerInv /\ [Next]_vars =>
        [\A c \in Slot : pc[c] = "decided" /\ pc'[c] = "reserved" =>
           outcome[c] = Outcome(req[c])]_vars
  <2> SUFFICES ASSUME TypeOK, LedgerInv, [Next]_vars,
                      NEW c \in Slot, pc[c] = "decided", pc'[c] = "reserved"
               PROVE  outcome[c] = Outcome(req[c])
    OBVIOUS
  <2>1. PrecallExecute(c)
    <3>1. pc' # pc
      OBVIOUS
    <3>2. ASSUME NEW k \in Creator, CreateRead(k) \/ CreateWrite(k) \/ CreateExpire(k)
          PROVE  FALSE
      BY <3>1, <3>2 DEF CreateRead, CreateWrite, CreateExpire, hashVars, slotVars, books
    <3>3. ASSUME NEW b \in Slot, NEW l \in SlotPC, Goto(b, l)
          PROVE  b = c /\ l = "reserved"
      BY <3>3 DEF Goto, TypeOK
    <3>4. ASSUME NEW b \in Slot, NEW r \in Request, PrecallRead(b, r)
          PROVE  FALSE
      BY <3>3, <3>4 DEF PrecallRead, SlotPC
    <3>5. ASSUME NEW b \in Slot, PrecallConflict(b)
          PROVE  FALSE
      BY <3>3, <3>5 DEF PrecallConflict, SlotPC
    <3>6. ASSUME NEW b \in Slot, PrecallExecute(b)
          PROVE  PrecallExecute(c)
      BY <3>3, <3>6 DEF PrecallExecute, Reserve, SlotPC
    <3>7. ASSUME NEW b \in Slot,
                 ModelCall(b) \/ CallEnds(b) \/ CallerLost(b)
          PROVE  FALSE
      BY <3>3, <3>7 DEF ModelCall, ModelAnswers, ModelFails, CallEnds, CallerLost,
                        SlotPC
    <3>8. ASSUME NEW b \in Slot, Postcall(b) \/ ReservationExpires(b)
          PROVE  FALSE
      BY <3>1, <3>8 DEF Postcall, PostcallGet, PostcallExecute, PostcallCheck,
                        PostcallHalt, ReservationExpires, slotVars, books
    <3>9. CASE UNCHANGED vars
      BY <3>1, <3>9 DEF vars, slotVars, books
    <3> QED
      BY <3>2, <3>4, <3>5, <3>6, <3>7, <3>8, <3>9 DEF Next, Precall
  <2> QED
    BY <2>1 DEF PrecallExecute, LedgerInv, Fresh
<1> QED
  BY <1>1, LedgerInvariant, PTL DEF Spec, FreshDecisions

-----------------------------------------------------------------------------
(* The memory of the run, for a run that is created once: a second         *)
(* creation that read an empty hash would overwrite it.                    *)

OneCreator == \A k, l \in Creator : k = l

CreatedOnce ==
  /\ OneCreator => \A k \in Creator : create[k] = "absent" => ~exists
  /\ run.halt \in {"none", "cost_budget"}

Remembered ==
  exists =>
    /\ run'.budget = run.budget
    /\ run'.spend >= run.spend /\ run'.steps >= run.steps
    /\ run.steered => run'.steered
    /\ run.halt # "none" => run'.halt = run.halt

LEMMA RememberedStep ==
  ASSUME OneCreator, TypeOK, LedgerInv, CreatedOnce, [Next]_vars
  PROVE  Remembered /\ CreatedOnce'
<1> USE DEF CreatedOnce
<1>t. run \in RunState /\ create \in [Creator -> {"start", "absent", "present", "done"}]
  BY DEF TypeOK
<1>k. ASSUME UNCHANGED run PROVE Remembered BY <1>k, <1>t DEF Remembered, RunState
<1>c. ASSUME UNCHANGED <<exists, create>>, run'.halt \in {"none", "cost_budget"}
      PROVE  CreatedOnce'
  BY <1>c
<1>1. ASSUME NEW k \in Creator, CreateRead(k) PROVE Remembered /\ CreatedOnce'
  <2>1. UNCHANGED <<exists, run>> BY <1>1 DEF CreateRead, hashVars
  <2>2. ASSUME NEW l \in Creator, create'[l] = "absent" PROVE ~exists'
    BY <1>1, <2>1, <2>2, <1>t DEF CreateRead, OneCreator
  <2> QED BY <2>1, <2>2, <1>k
<1>2. ASSUME NEW k \in Creator, CreateWrite(k) PROVE Remembered /\ CreatedOnce'
  <2>1. ~exists BY <1>2 DEF CreateWrite
  <2>2. ASSUME NEW l \in Creator PROVE create'[l] # "absent"
    BY <1>2, <2>2, <1>t DEF CreateWrite, OneCreator
  <2>3. run'.halt = "none" BY <1>2 DEF CreateWrite, NewRun
  <2> QED BY <2>1, <2>2, <2>3 DEF Remembered
<1>3. ASSUME NEW k \in Creator, CreateExpire(k) PROVE Remembered /\ CreatedOnce'
  <2>1. UNCHANGED <<exists, run>> BY <1>3 DEF CreateExpire, hashVars
  <2>2. ASSUME NEW l \in Creator, create'[l] = "absent" PROVE ~exists'
    BY <1>3, <2>1, <2>2, <1>t DEF CreateExpire
  <2> QED BY <2>1, <2>2, <1>k
<1>4. ASSUME NEW c \in Slot, PrecallExecute(c) PROVE Remembered /\ CreatedOnce'
  <2> DEFINE o == outcome[c]
  <2>1. /\ o = Outcome(req[c]) /\ o \in OutcomeType
    BY <1>4 DEF PrecallExecute, LedgerInv, Fresh, TypeOK
  <2>2. /\ o.steps = Later(run.steps, req[c].step)
        /\ run.steered => o.steered
    <3>1. o.steps = Later(run.steps, req[c].step) BY <2>1 DEF Outcome
    <3>2. ASSUME run.steered PROVE o.steered
      <4> DEFINE d == decide([run EXCEPT !.steps = Later(@, req[c].step)],
                             req[c], recent)
                 st == run.steered \/ (PastThreshold(run) /\ (d.override \/ d.inject))
      <4>1. o.steered = st BY <2>1 DEF Outcome
      <4>2. st BY <3>2
      <4> HIDE DEF st
      <4> QED BY <4>1, <4>2
    <3> QED BY <3>1, <3>2
  <2>3. req[c] \in Request /\ req[c].step \in Nat
    BY <1>4 DEF PrecallExecute, TypeOK
  <2>4. o.steps >= run.steps BY <2>2, <2>3, <1>t DEF Later, RunState
  <2>5. /\ run'.budget = run.budget /\ run'.spend = run.spend
        /\ run'.steps = o.steps /\ run'.steered = o.steered
        /\ run'.halt = run.halt /\ UNCHANGED <<exists, create>>
    BY <1>4, <1>t DEF PrecallExecute, Reserve, RunState
  <2>6. Remembered BY <2>2, <2>4, <2>5, <1>t DEF Remembered, RunState
  <2> QED BY <2>5, <2>6, <1>c
<1>5. ASSUME NEW c \in Slot, NEW k \in Kind, PostcallExecute(c, k)
      PROVE  Remembered /\ CreatedOnce'
  <2>1. /\ run'.budget = run.budget /\ run'.steps = run.steps
        /\ run'.steered = run.steered /\ run'.halt = run.halt
        /\ run'.spend \in {run.spend, run.spend + cost[c]}
        /\ UNCHANGED <<exists, create>>
    BY <1>5, <1>t DEF PostcallExecute, RunState
  <2>2. cost[c] \in Nat BY DEF TypeOK
  <2>3. run'.spend >= run.spend BY <2>1, <2>2, <1>t DEF RunState
  <2>4. Remembered BY <2>1, <2>3, <1>t DEF Remembered, RunState
  <2> QED BY <2>1, <2>4, <1>c
<1>6. ASSUME NEW c \in Slot, NEW k \in Kind, PostcallHalt(c, k)
      PROVE  Remembered /\ CreatedOnce'
  <2>1. /\ run'.budget = run.budget /\ run'.steps = run.steps
        /\ run'.steered = run.steered /\ run'.halt = "cost_budget"
        /\ run'.spend = run.spend /\ UNCHANGED <<exists, create>>
    BY <1>6, <1>t DEF PostcallHalt, RunState
  <2>2. Remembered BY <2>1, <1>t DEF Remembered, RunState
  <2> QED BY <2>1, <2>2, <1>c
<1>7. CASE UNCHANGED <<exists, run, create>> BY <1>7, <1>k, <1>c
<1> QED
  BY <1>1, <1>2, <1>3, <1>4, <1>5, <1>6, <1>7 DEF Next, Precall, PrecallRead,
     PrecallConflict, ModelCall, ModelAnswers, ModelFails, Postcall, PostcallGet,
     PostcallCheck, CallEnds, CallerLost, ReservationExpires, hashVars, vars

(* The run remembers: a run with one creator keeps its budget, its spend   *)
(* and its steps never go back, and steering and a halt are for good,      *)
(* however many calls overlap, get lost or are reported twice.             *)
THEOREM RunRemembers == OneCreator => (Spec => LedgerRemembers)
<1> SUFFICES ASSUME OneCreator PROVE Spec => LedgerRemembers OBVIOUS
<1>1. Init => CreatedOnce BY DEF Init, CreatedOnce, NoRun, NewRun
<1>2. TypeOK /\ LedgerInv /\ CreatedOnce /\ [Next]_vars
        => Remembered /\ CreatedOnce'
  BY RememberedStep
<1> QED
  BY <1>1, <1>2, LedgerInvariant, PTL DEF Spec, LedgerRemembers, Remembered

-----------------------------------------------------------------------------
(* The books of RunLedgerAccounts.  They balance for a run created once    *)
(* whose calls are reported once; the violated run of LedgerDoubleReport   *)
(* shows what a second report of a call does to them.                      *)

(* One report a call; a run that does not exist has no calls; nobody is    *)
(* told the charge of a call that is reported as failed.                   *)
OneReport ==
  \A c \in Slot : \A k, l \in Kind :
    report[c][k] # "none" /\ report[c][l] # "none" => k = l

NothingBefore ==
  ~exists => run = NoRun /\ billed = 0 /\ \A c \in Slot : pc[c] = "idle"

FailedUntold == \A c \in Slot : report[c]["failed"] # "none" => cost[c] = 0

AccountsInv ==
  OneReport /\ NothingBefore /\ FailedUntold /\ ReservationsCounted /\ ChargesBooked

ReservedSum == SumFunctionOnSet(Reserved, Open)
CostSum == SumFunctionOnSet(cost, Open)

LEMMA OpenType ==
  ASSUME TypeOK
  PROVE  /\ Open \subseteq Slot /\ IsFiniteSet(Open) /\ Cardinality(Open) \in Nat
         /\ \A c \in Open : Reserved[c] = outcome[c].decision.reserve
         /\ \A c \in Open : Reserved[c] \in Nat /\ cost[c] \in Nat
<1>1. Open \subseteq Slot BY DEF Open
<1>2. IsFiniteSet(Open) /\ Cardinality(Open) \in Nat
  BY <1>1, FS_Subset, FS_CardinalityType
<1>3. ASSUME NEW c \in Open
      PROVE  /\ Reserved[c] = outcome[c].decision.reserve
             /\ Reserved[c] \in Nat /\ cost[c] \in Nat
  <2>1. c \in Slot /\ pc[c] \in {"reserved", "called", "lost"} BY DEF Open
  <2>2. outcome[c] \in OutcomeType BY <2>1 DEF TypeOK
  <2> QED BY <2>1, <2>2 DEF TypeOK, OutcomeType, Decision, Reserved
<1> QED BY <1>1, <1>2, <1>3

LEMMA SumsType ==
  ASSUME TypeOK PROVE ReservedSum \in Nat /\ CostSum \in Nat
<1>1. IsFiniteSet(Open) /\ (\A c \in Open : Reserved[c] \in Nat)
  BY OpenType
<1>2. \A c \in Open : cost[c] \in Nat BY OpenType
<1>3. ReservedSum \in Nat BY <1>1, SumNat DEF ReservedSum
<1>4. CostSum \in Nat BY <1>1, <1>2, SumNat DEF CostSum
<1> QED BY <1>3, <1>4

(* The books of a step, from what it does to the two sums.                 *)
BooksHold ==
  /\ run.concurrent = Cardinality(Open)
  /\ run.inflight = ReservedSum
  /\ billed = run.spend + unbooked + CostSum

LEMMA BooksAre == BooksHold <=> ReservationsCounted /\ ChargesBooked
BY DEF BooksHold, ReservationsCounted, ChargesBooked, ReservedSum, CostSum

(* Calls that keep their decision and their cost keep the sums.            *)
LEMMA SumsSame ==
  ASSUME TypeOK, Open' = Open,
         \A c \in Open : outcome'[c] = outcome[c] /\ cost'[c] = cost[c]
  PROVE  ReservedSum' = ReservedSum /\ CostSum' = CostSum
<1>1. IsFiniteSet(Open) BY OpenType
<1>2. \A c \in Open : Reserved[c] \in Int /\ Reserved[c] = (Reserved')[c]
  BY OpenType DEF Reserved
<1>3. \A c \in Open : cost[c] \in Int /\ cost[c] = (cost')[c]
  BY OpenType
<1>4. SumFunctionOnSet(Reserved, Open) = SumFunctionOnSet(Reserved', Open)
  BY ONLY <1>1, <1>2, SumSame
<1>5. SumFunctionOnSet(cost, Open) = SumFunctionOnSet(cost', Open)
  BY ONLY <1>1, <1>3, SumSame
<1> QED BY <1>4, <1>5 DEF ReservedSum, CostSum

(* A step that opens no call, settles none and touches no open one.        *)
LEMMA AccountsFrame ==
  ASSUME TypeOK, BooksHold, Open' = Open, UNCHANGED <<billed, unbooked>>,
         run'.concurrent = run.concurrent, run'.inflight = run.inflight,
         run'.spend = run.spend,
         \A c \in Open : outcome'[c] = outcome[c] /\ cost'[c] = cost[c]
  PROVE  BooksHold'
BY SumsSame DEF BooksHold

(* A call that takes its place under the reservations has cost nothing.    *)
LEMMA SumsOpen ==
  ASSUME TypeOK, NEW c \in Slot, c \notin Open, Open' = Open \cup {c},
         UNCHANGED <<outcome, cost>>, outcome[c].decision.reserve \in Nat, cost[c] = 0
  PROVE  /\ Cardinality(Open)' = Cardinality(Open) + 1
         /\ ReservedSum' = ReservedSum + outcome[c].decision.reserve
         /\ CostSum' = CostSum
<1>1. IsFiniteSet(Open) BY OpenType
<1>2. Cardinality(Open \cup {c}) = Cardinality(Open) + 1 BY <1>1, FS_AddElement
<1>3. \A d \in Open : Reserved[d] \in Int /\ Reserved[d] = (Reserved')[d]
  BY OpenType DEF Reserved
<1>4. (Reserved')[c] = outcome[c].decision.reserve BY DEF Reserved
<1>5. SumFunctionOnSet(Reserved, Open) = SumFunctionOnSet(Reserved', Open)
  BY ONLY <1>1, <1>3, SumSame
<1>6. \A d \in Open : (Reserved')[d] \in Int BY <1>3
<1>7. (Reserved')[c] \in Int BY <1>4
<1>8. SumFunctionOnSet(Reserved', Open \cup {c}) =
        SumFunctionOnSet(Reserved', Open) + (Reserved')[c]
  BY ONLY <1>1, <1>6, <1>7, c \notin Open, SumAdd
<1>9. \A d \in Open : cost[d] \in Int BY OpenType
<1>10. cost[c] \in Int OBVIOUS
<1>11. SumFunctionOnSet(cost, Open \cup {c}) = SumFunctionOnSet(cost, Open) + cost[c]
  BY ONLY <1>1, <1>9, <1>10, c \notin Open, SumAdd
<1>12. CostSum \in Nat BY SumsType
<1>13. CostSum' = CostSum + 0 BY <1>11 DEF CostSum
<1> QED BY <1>2, <1>4, <1>5, <1>8, <1>12, <1>13 DEF ReservedSum

(* A settled call takes its reservation and its cost with it.              *)
LEMMA SumsSettle ==
  ASSUME TypeOK, NEW c \in Open, Open' = Open \ {c}, UNCHANGED <<outcome, cost>>
  PROVE  /\ Cardinality(Open)' = Cardinality(Open) - 1
         /\ ReservedSum' = ReservedSum - outcome[c].decision.reserve
         /\ CostSum' = CostSum - cost[c]
<1> DEFINE T == Open \ {c}
<1>1. IsFiniteSet(Open) /\ IsFiniteSet(T) BY OpenType, FS_RemoveElement
<1>2. Cardinality(T) = Cardinality(Open) - 1 BY <1>1, FS_RemoveElement
<1>3. \A d \in T : Reserved[d] \in Int /\ Reserved[d] = (Reserved')[d]
  BY OpenType DEF Reserved
<1>4. \A d \in Open : Reserved[d] \in Int BY OpenType
<1>5. \A d \in Open : cost[d] \in Int BY OpenType
<1> HIDE DEF T
<1>6. SumFunctionOnSet(Reserved, T) = SumFunctionOnSet(Reserved', T)
  BY ONLY <1>1, <1>3, SumSame
<1>7. SumFunctionOnSet(Reserved, Open) =
        SumFunctionOnSet(Reserved, Open \ {c}) + Reserved[c]
  BY ONLY <1>1, <1>4, c \in Open, SumRemove
<1>8. SumFunctionOnSet(cost, Open) = SumFunctionOnSet(cost, Open \ {c}) + cost[c]
  BY ONLY <1>1, <1>5, c \in Open, SumRemove
<1>9. /\ SumFunctionOnSet(Reserved, T) \in Int
      /\ SumFunctionOnSet(cost, T) \in Int
  <2>1. (\A d \in T : Reserved[d] \in Int) /\ (\A d \in T : cost[d] \in Int)
    BY <1>4, <1>5 DEF T
  <2> QED BY <1>1, <2>1, SumType
<1>10. /\ Reserved[c] = outcome[c].decision.reserve
       /\ Reserved[c] \in Nat /\ cost[c] \in Nat
  BY OpenType
<1>11. ReservedSum' = ReservedSum - Reserved[c]
  <2>1. ReservedSum' = SumFunctionOnSet(Reserved', T) BY DEF ReservedSum, T
  <2>2. ReservedSum = SumFunctionOnSet(Reserved, T) + Reserved[c]
    BY <1>7 DEF ReservedSum, T
  <2> QED BY <1>6, <1>9, <1>10, <2>1, <2>2
<1>12. CostSum' = CostSum - cost[c]
  <2>1. CostSum' = SumFunctionOnSet(cost, T) BY DEF CostSum, T
  <2>2. CostSum = SumFunctionOnSet(cost, T) + cost[c]
    BY <1>8 DEF CostSum, T
  <2> QED BY <1>9, <1>10, <2>1, <2>2
<1> QED BY <1>2, <1>10, <1>11, <1>12 DEF T

LEMMA AccountsInit == Init => AccountsInv
<1> SUFFICES ASSUME Init PROVE AccountsInv OBVIOUS
<1>1. OneReport /\ NothingBefore /\ FailedUntold
  BY DEF Init, OneReport, NothingBefore, FailedUntold, Kind
<1>2. Open = {} BY DEF Init, Open
<1>3. Cardinality(Open) = 0 BY <1>2, FS_EmptySet
<1>4. ReservedSum = 0 /\ CostSum = 0 BY <1>2, SumEmpty DEF ReservedSum, CostSum
<1>5. run.concurrent = 0 /\ run.inflight = 0 /\ run.spend = 0 /\ billed = 0
      /\ unbooked = 0
  BY DEF Init, NoRun, NewRun
<1> QED BY <1>1, <1>3, <1>4, <1>5, BooksAre DEF BooksHold, AccountsInv

(* The parts of the invariant that do not add up anything.                 *)
CallsInv == OneReport /\ NothingBefore /\ FailedUntold

LEMMA CallsStep ==
  ASSUME ~DoubleReport, OneCreator, TypeOK, LedgerInv, CreatedOnce, CallsInv, [Next]_vars
  PROVE  CallsInv'
<1> USE DEF CallsInv
<1>r. /\ report \in [Slot -> [Kind -> ReportPC]] /\ pc \in [Slot -> SlotPC]
      /\ cost \in [Slot -> Nat]
      /\ \A c \in Slot : pc[c] # "called" => \A k \in Kind : report[c][k] = "none"
      /\ \A c \in Slot : pc[c] = "reserved" => cost[c] = 0
  BY DEF TypeOK, LedgerInv, ChargedLate
<1>e. ASSUME NEW c \in Slot, pc[c] # "idle" PROVE exists
  BY <1>e DEF NothingBefore
<1>n. ASSUME exists' PROVE NothingBefore' BY <1>n DEF NothingBefore
<1>f. ASSUME UNCHANGED <<report, cost>> PROVE OneReport' /\ FailedUntold'
  BY <1>f DEF OneReport, FailedUntold
(* A report that moves on is a report that was there.                      *)
<1>p. ASSUME NEW c \in Slot, NEW k \in Kind, NEW l, ReportAt(c, k, l),
             report[c][k] # "none", UNCHANGED cost
      PROVE  OneReport' /\ FailedUntold'
  <2>1. \A b \in Slot : \A j \in Kind :
          report'[b][j] = IF b = c /\ j = k THEN l ELSE report[b][j]
    BY <1>p, <1>r DEF ReportAt
  <2>2. \A b \in Slot : \A j \in Kind : report'[b][j] # "none" => report[b][j] # "none"
    BY <1>p, <2>1
  <2>3. OneReport' BY <2>2 DEF OneReport
  <2>4. "failed" \in Kind BY DEF Kind
  <2>5. FailedUntold' BY <1>p, <2>2, <2>4 DEF FailedUntold
  <2> QED BY <2>3, <2>5
<1>1. ASSUME NEW k \in Creator, CreateRead(k) \/ CreateExpire(k) PROVE CallsInv'
  BY <1>1, <1>f DEF CreateRead, CreateExpire, hashVars, slotVars, books, NothingBefore
<1>2. ASSUME NEW k \in Creator, CreateWrite(k) PROVE CallsInv'
  BY <1>2, <1>f, <1>n DEF CreateWrite, slotVars, books
<1>3. ASSUME NEW c \in Slot, NEW r \in Request, PrecallRead(c, r) PROVE CallsInv'
  <2>1. UNCHANGED <<report, cost, exists, run, billed>>
    BY <1>3 DEF PrecallRead, hashVars, books
  <2>2. ASSUME ~exists PROVE \A b \in Slot : pc'[b] = "idle"
    BY <1>3, <1>r, <2>2 DEF PrecallRead, Goto, NothingBefore
  <2>3. NothingBefore' BY <2>1, <2>2 DEF NothingBefore
  <2> QED BY <1>f, <2>1, <2>3
<1>4. ASSUME NEW c \in Slot, PrecallExecute(c) \/ PrecallConflict(c) PROVE CallsInv'
  <2>1. UNCHANGED <<report, cost, exists>> /\ pc[c] = "decided"
    BY <1>4 DEF PrecallExecute, PrecallConflict, Reserve, hashVars
  <2> QED BY <1>e, <1>f, <1>n, <2>1
<1>5. ASSUME NEW c \in Slot, ModelAnswers(c) PROVE CallsInv'
  <2>1. /\ pc[c] = "reserved" /\ UNCHANGED exists
        /\ \A j \in Kind : report'[c][j] = IF j = "usage" THEN "due" ELSE "none"
        /\ \A b \in Slot : b # c => report'[b] = report[b] /\ cost'[b] = cost[b]
    BY <1>5, <1>r, ChargeIs DEF ModelAnswers, hashVars
  <2>2. \A j, l \in Kind : report'[c][j] # "none" /\ report'[c][l] # "none" => j = l
    BY <2>1
  <2>3. "failed" \in Kind /\ report'[c]["failed"] = "none" BY <2>1 DEF Kind
  <2>4. OneReport' BY <2>1, <2>2 DEF OneReport
  <2>5. FailedUntold' BY <2>1, <2>3 DEF FailedUntold
  <2> QED BY <1>e, <1>n, <2>1, <2>4, <2>5
<1>6. ASSUME NEW c \in Slot, ModelFails(c) PROVE CallsInv'
  <2>1. /\ pc[c] = "reserved" /\ UNCHANGED exists /\ cost'[c] = 0
        /\ \A j \in Kind : report'[c][j] = IF j = "failed" THEN "due" ELSE "none"
        /\ \A b \in Slot : b # c => report'[b] = report[b] /\ cost'[b] = cost[b]
    BY <1>6, <1>r, ChargeIs DEF ModelFails, hashVars
  <2>2. \A j, l \in Kind : report'[c][j] # "none" /\ report'[c][l] # "none" => j = l
    BY <2>1
  <2>4. OneReport' BY <2>1, <2>2 DEF OneReport
  <2>5. FailedUntold' BY <2>1 DEF FailedUntold
  <2> QED BY <1>e, <1>n, <2>1, <2>4, <2>5
<1>7. ASSUME NEW c \in Slot, CallerLost(c) PROVE CallsInv'
  <2>1. /\ pc[c] = "reserved" /\ UNCHANGED <<exists, report>>
        /\ \A b \in Slot : b # c => cost'[b] = cost[b]
    BY <1>7, <1>r, ChargeIs DEF CallerLost, hashVars
  <2>2. "failed" \in Kind /\ report[c]["failed"] = "none" BY <2>1, <1>r DEF Kind
  <2>3. OneReport' /\ FailedUntold' BY <2>1, <2>2 DEF OneReport, FailedUntold
  <2> QED BY <1>e, <1>n, <2>1, <2>3
<1>8. ASSUME NEW c \in Slot, ReservationExpires(c) PROVE CallsInv'
  BY <1>8, <1>f DEF ReservationExpires, hashVars, slotVars, books, NothingBefore
<1>9. ASSUME NEW c \in Slot, NEW k \in Kind,
             PostcallGet(c, k) \/ PostcallExecute(c, k) \/ PostcallCheck(c, k)
               \/ PostcallHalt(c, k)
      PROVE  CallsInv'
  <2>1. /\ report[c][k] # "none" /\ UNCHANGED <<cost, exists>>
        /\ \E l : ReportAt(c, k, l)
    BY <1>9 DEF PostcallGet, PostcallExecute, PostcallCheck, PostcallHalt, hashVars
  <2>2. pc[c] # "idle" BY <2>1, <1>r
  <2> QED BY <1>e, <1>n, <1>p, <2>1, <2>2
<1>10. ASSUME NEW c \in Slot, CallEnds(c) PROVE CallsInv'
  <2>1. /\ pc[c] = "called" /\ UNCHANGED exists
        /\ \A j \in Kind : report'[c][j] = "none"
        /\ \A b \in Slot : b # c => report'[b] = report[b] /\ cost'[b] = cost[b]
    BY <1>10, <1>r DEF CallEnds, hashVars
  <2>2. "failed" \in Kind BY DEF Kind
  <2>3. OneReport' BY <2>1 DEF OneReport
  <2>4. FailedUntold' BY <2>1, <2>2 DEF FailedUntold
  <2> QED BY <1>e, <1>n, <2>1, <2>3, <2>4
<1>11. CASE UNCHANGED vars
  BY <1>11, <1>f DEF vars, hashVars, slotVars, books, NothingBefore
<1> QED
  BY <1>1, <1>2, <1>3, <1>4, <1>5, <1>6, <1>7, <1>8, <1>9, <1>10, <1>11
  DEF Next, Precall, ModelCall, Postcall

LEMMA SumsTypeNext == TypeOK' => CostSum' \in Nat
<1> SUFFICES ASSUME TypeOK' PROVE CostSum' \in Nat OBVIOUS
<1>1. IsFiniteSet(Open') /\ \A c \in Open' : (cost')[c] \in Nat
  <2>1. Open' \subseteq Slot BY DEF Open
  <2> QED BY <2>1, FS_Subset DEF TypeOK
<1> QED BY <1>1, SumNat DEF CostSum

(* What the caller of an open call is told is added to the costs.          *)
LEMMA SumsCharge ==
  ASSUME TypeOK, NEW c \in Open, cost[c] = 0, NEW told \in BOOLEAN,
         Charge(c, told), Open' = Open, UNCHANGED outcome
  PROVE  /\ ReservedSum' = ReservedSum
         /\ CostSum' - CostSum = (billed' - unbooked') - (billed - unbooked)
<1>1. c \in Slot BY DEF Open
<1>2. PICK x \in Nat : /\ cost' = [cost EXCEPT ![c] = x]
                       /\ billed' - unbooked' = billed - unbooked + x
  BY <1>1, ChargeIs
<1>3. IsFiniteSet(Open) /\ Open \subseteq Slot BY OpenType
<1>4. (cost')[c] = x /\ \A d \in Open : d # c => (cost')[d] = cost[d]
  BY <1>2, <1>3 DEF TypeOK
<1>5. \A d \in Open : cost[d] \in Int BY OpenType
<1>6. \A d \in Open : (cost')[d] \in Int BY <1>2, <1>4, <1>5
<1>7. \A d \in Open : d # c => (cost')[d] = cost[d] BY <1>4
<1>8. SumFunctionOnSet(cost', Open) = SumFunctionOnSet(cost, Open) - cost[c] + (cost')[c]
  BY ONLY <1>3, <1>5, <1>6, <1>7, c \in Open, SumUpdate
<1>9. CostSum \in Nat BY SumsType
<1>10. CostSum' - CostSum = x BY <1>2, <1>4, <1>8, <1>9 DEF CostSum
<1>11. \A d \in Open : Reserved[d] \in Int /\ Reserved[d] = (Reserved')[d]
  BY OpenType DEF Reserved
<1>12. SumFunctionOnSet(Reserved, Open) = SumFunctionOnSet(Reserved', Open)
  BY ONLY <1>3, <1>11, SumSame
<1>13. billed \in Nat /\ unbooked \in Nat BY DEF TypeOK
<1> QED BY <1>2, <1>10, <1>12, <1>13 DEF ReservedSum

(* Which calls are open changes when a reservation is made and when it is  *)
(* settled, and at no other step.                                          *)
LEMMA OpenKept ==
  ASSUME TypeOK,
         \A c \in Slot :
           (pc'[c] \in {"reserved", "called", "lost"}) =
             (pc[c] \in {"reserved", "called", "lost"}),
         \A c \in Slot : pc[c] \in {"reserved", "called", "lost"} =>
           Settled(c)' = Settled(c)
  PROVE  Open' = Open
BY DEF Open

LEMMA SettledAt ==
  ASSUME TypeOK, NEW c \in Slot, NEW k \in Kind, NEW l, ReportAt(c, k, l),
         (l \in {"checking", "halting", "done"}) =
           (report[c][k] \in {"checking", "halting", "done"})
  PROVE  \A b \in Slot : Settled(b)' = Settled(b)
<1>1. \A b \in Slot : \A j \in Kind :
        report'[b][j] = IF b = c /\ j = k THEN l ELSE report[b][j]
  BY DEF ReportAt, TypeOK
<1>2. \A b \in Slot : \A j \in Kind :
        (report'[b][j] \in {"checking", "halting", "done"}) =
          (report[b][j] \in {"checking", "halting", "done"})
  BY <1>1
<1> HIDE <1>1
<1> QED BY <1>2 DEF Settled

(* Every step but a reservation and its settlement leaves the open calls   *)
(* open, with the decisions they were admitted on.                         *)
QuietStep ==
  \/ \E k \in Creator : CreateRead(k) \/ CreateWrite(k) \/ CreateExpire(k)
  \/ \E c \in Slot :
       \/ \E r \in Request : PrecallRead(c, r)
       \/ PrecallConflict(c) \/ ModelCall(c) \/ CallerLost(c)
       \/ ReservationExpires(c) \/ CallEnds(c)
       \/ \E k \in Kind : PostcallGet(c, k) \/ PostcallCheck(c, k) \/ PostcallHalt(c, k)
  \/ UNCHANGED vars

LEMMA OpenStays ==
  ASSUME TypeOK, QuietStep
  PROVE  Open' = Open /\ \A b \in Open : outcome'[b] = outcome[b]
<1> DEFINE Stays == Open' = Open /\ \A b \in Open : outcome'[b] = outcome[b]
<1>t. /\ pc \in [Slot -> SlotPC] /\ report \in [Slot -> [Kind -> ReportPC]]
      /\ outcome \in [Slot -> OutcomeType \cup {NoOutcome}]
      /\ \A c \in Slot : pc[c] # "called" => \A k \in Kind : report[c][k] = "none"
  BY DEF TypeOK
<1>s. ASSUME NEW c \in Slot, pc[c] # "called" PROVE ~Settled(c)
  BY <1>s, <1>t DEF Settled
<1>u. ASSUME UNCHANGED <<pc, report, outcome>> PROVE Stays
  BY <1>u DEF Open, Settled
(* A call that is being asked for is not open.                             *)
<1>a. ASSUME NEW c \in Slot, UNCHANGED report,
             pc[c] \notin {"reserved", "called", "lost"},
             pc'[c] \notin {"reserved", "called", "lost"},
             \A b \in Slot : b # c => pc'[b] = pc[b] /\ outcome'[b] = outcome[b]
      PROVE  Stays
  <2>1. Open' = Open BY <1>a, OpenKept DEF Settled
  <2>2. c \notin Open BY <1>a DEF Open
  <2> QED BY <1>a, <2>1, <2>2, OpenType
(* A call in flight stays open while it waits for its answer.              *)
<1>i. ASSUME NEW c \in Slot, pc[c] = "reserved", pc'[c] \in {"called", "lost"},
             UNCHANGED outcome, \A j \in Kind : report'[c][j] \in {"none", "due"},
             \A b \in Slot : b # c => pc'[b] = pc[b] /\ report'[b] = report[b]
      PROVE  Stays
  <2>1. ~Settled(c) /\ ~Settled(c)' BY <1>s, <1>i DEF Settled
  <2>2. \A b \in Slot : Settled(b)' = Settled(b) BY <1>i, <2>1 DEF Settled
  <2>3. \A b \in Slot : (pc'[b] \in {"reserved", "called", "lost"}) =
                          (pc[b] \in {"reserved", "called", "lost"})
    BY <1>i
  <2> QED BY <1>i, <2>2, <2>3, OpenKept
<1>1. ASSUME NEW k \in Creator, CreateRead(k) \/ CreateWrite(k) \/ CreateExpire(k)
      PROVE  Stays
  BY <1>1, <1>u DEF CreateRead, CreateWrite, CreateExpire, slotVars, books
<1>2. ASSUME NEW c \in Slot, NEW r \in Request, PrecallRead(c, r) PROVE Stays
  <2>1. /\ pc[c] \in {"idle", "retry"} /\ pc'[c] \in {"idle", "decided"}
        /\ \A b \in Slot : b # c => pc'[b] = pc[b] /\ outcome'[b] = outcome[b]
        /\ UNCHANGED report
    BY <1>2, <1>t DEF PrecallRead, Goto
  <2> QED BY <1>a, <2>1
<1>3. ASSUME NEW c \in Slot, PrecallConflict(c) PROVE Stays
  <2>1. /\ pc[c] = "decided" /\ pc'[c] = "retry" /\ UNCHANGED report
        /\ \A b \in Slot : b # c => pc'[b] = pc[b] /\ outcome'[b] = outcome[b]
    BY <1>3, <1>t DEF PrecallConflict, Goto
  <2> QED BY <1>a, <2>1
<1>4. ASSUME NEW c \in Slot, ModelCall(c) \/ CallerLost(c) PROVE Stays
  <2>0. \A j \in Kind : pc[c] = "reserved" => report[c][j] = "none" BY <1>t
  <2>1. /\ pc[c] = "reserved" /\ pc'[c] \in {"called", "lost"} /\ UNCHANGED outcome
        /\ \A j \in Kind : report'[c][j] \in {"none", "due"}
        /\ \A b \in Slot : b # c => pc'[b] = pc[b] /\ report'[b] = report[b]
    <3>1. CASE ModelAnswers(c) BY <1>t, <3>1 DEF ModelAnswers, Goto
    <3>2. CASE ModelFails(c) BY <1>t, <2>0, <3>2 DEF ModelFails, Goto
    <3>3. CASE CallerLost(c) BY <1>t, <2>0, <3>3 DEF CallerLost, Goto
    <3> QED BY <1>4, <3>1, <3>2, <3>3 DEF ModelCall
  <2> QED BY <1>i, <2>1
<1>5. ASSUME NEW c \in Slot, ReservationExpires(c) PROVE Stays
  BY <1>5, <1>u DEF ReservationExpires, slotVars, books
<1>6. ASSUME NEW c \in Slot, CallEnds(c) PROVE Stays
  <2>1. /\ pc[c] = "called" /\ pc'[c] = "idle" /\ Settled(c)
        /\ \A b \in Slot : b # c =>
             pc'[b] = pc[b] /\ report'[b] = report[b] /\ outcome'[b] = outcome[b]
    BY <1>6, <1>t DEF CallEnds, Goto, Settled
  <2>2. \A b \in Slot : b # c => Settled(b)' = Settled(b) BY <2>1 DEF Settled
  <2>3. Open' = Open BY <2>1, <2>2 DEF Open
  <2>4. c \notin Open BY <2>1 DEF Open
  <2> QED BY <2>1, <2>3, <2>4, OpenType
<1>7. ASSUME NEW c \in Slot, NEW k \in Kind,
             PostcallGet(c, k) \/ PostcallCheck(c, k) \/ PostcallHalt(c, k)
      PROVE  Stays
  <2>1. \A b \in Slot : Settled(b)' = Settled(b)
    BY <1>7, SettledAt DEF PostcallGet, PostcallCheck, PostcallHalt
  <2>2. UNCHANGED <<pc, outcome>>
    BY <1>7 DEF PostcallGet, PostcallCheck, PostcallHalt
  <2> QED BY <2>1, <2>2 DEF Open
<1>8. CASE UNCHANGED vars BY <1>8, <1>u DEF vars, slotVars, books
<1> QED BY <1>1, <1>2, <1>3, <1>4, <1>5, <1>6, <1>7, <1>8 DEF QuietStep

(* A reservation opens a call; its settlement, of which there is one       *)
(* because there is one report, closes it.                                 *)
LEMMA OpenGrows ==
  ASSUME TypeOK, NEW c \in Slot, PrecallExecute(c)
  PROVE  c \notin Open /\ Open' = Open \cup {c} /\ UNCHANGED outcome
<1>1. /\ pc[c] = "decided" /\ \A b \in Slot : pc'[b] = IF b = c THEN "reserved" ELSE pc[b]
      /\ UNCHANGED <<outcome, report>>
  BY DEF PrecallExecute, Reserve, Goto, TypeOK
<1>2. c \notin Open BY <1>1 DEF Open
<1>3. ~Settled(c) /\ \A b \in Slot : Settled(b)' = Settled(b)
  BY <1>1 DEF Settled, TypeOK
<1> QED BY <1>1, <1>2, <1>3 DEF Open

-----------------------------------------------------------------------------
(* The concurrency cap: only corrected calls pass it.                      *)

OpenCorrected == {c \in Open : Corrected(c)}

LEMMA CorrectedFinite ==
  ASSUME TypeOK
  PROVE  IsFiniteSet(OpenCorrected) /\ Cardinality(OpenCorrected) \in Nat
<1>1. OpenCorrected \subseteq Slot BY DEF OpenCorrected, Open
<1> QED BY <1>1, FS_Subset, FS_CardinalityType

LEMMA CapStep ==
  ASSUME TypeOK, TypeOK', LedgerInv, ConcurrencyCap, [Next]_vars
  PROVE  ConcurrencyCap'
<1>c. ConcurrencyCap <=> run.concurrent <= MaxConcurrent + Cardinality(OpenCorrected)
  BY DEF ConcurrencyCap, OpenCorrected
<1>n. /\ Cardinality(OpenCorrected) \in Nat /\ Cardinality(OpenCorrected') \in Nat
      /\ IsFiniteSet(OpenCorrected) /\ IsFiniteSet(OpenCorrected')
      /\ run.concurrent \in Int /\ run \in RunState
  <2>1. Slot \in {Slot} /\ OpenCorrected' \subseteq Slot BY DEF OpenCorrected, Open
  <2> QED BY <2>1, CorrectedFinite, FS_Subset, FS_CardinalityType DEF TypeOK, RunState
<1>g. ASSUME run'.concurrent <= MaxConcurrent + Cardinality(OpenCorrected')
      PROVE  ConcurrencyCap'
  BY <1>g DEF ConcurrencyCap, OpenCorrected
(* A quiet step keeps the set of corrected calls.                          *)
<1>q. ASSUME QuietStep, run'.concurrent <= run.concurrent \/ run'.concurrent = 0,
             run'.concurrent \in Int
      PROVE  ConcurrencyCap'
  <2>1. Open' = Open /\ \A b \in Open : outcome'[b] = outcome[b]
    BY <1>q, OpenStays
  <2>2. OpenCorrected' = OpenCorrected BY <2>1 DEF OpenCorrected, Corrected
  <2>3. run'.concurrent <= MaxConcurrent + Cardinality(OpenCorrected')
    BY <1>c, <1>n, <1>q, <2>2
  <2> QED BY <1>g, <2>3
<1>1. ASSUME NEW c \in Slot, PrecallExecute(c) PROVE ConcurrencyCap'
  <2> DEFINE d == outcome[c].decision
  <2>1. /\ outcome[c] = Outcome(req[c]) /\ req[c] \in Request
        /\ d.action \in {"allow", "mutate"}
    BY <1>1 DEF PrecallExecute, LedgerInv, Fresh, TypeOK
  <2>2. LetThrough(run, req[c], recent, d) BY <2>1, OutcomeSpec DEF Granted
  <2>3. c \notin Open /\ Open' = Open \cup {c} /\ UNCHANGED outcome
    BY <1>1, OpenGrows
  <2>4. run'.concurrent = run.concurrent + 1
    BY <1>1, <1>n DEF PrecallExecute, Reserve, RunState
  <2>5. CASE Corrected(c)
    <3>1. OpenCorrected' = OpenCorrected \cup {c} /\ c \notin OpenCorrected
      BY <2>3, <2>5 DEF OpenCorrected, Corrected
    <3>2. Cardinality(OpenCorrected') = Cardinality(OpenCorrected) + 1
      BY <1>n, <3>1, FS_AddElement
    <3> QED BY <1>c, <1>g, <1>n, <2>4, <3>2
  <2>6. CASE ~Corrected(c)
    <3>1. d # Correct(req[c]) BY <2>1, <2>6, CorrectType DEF Corrected
    <3>2. run.concurrent < MaxConcurrent BY <2>2, <3>1 DEF LetThrough
    <3> QED BY <1>g, <1>n, <2>4, <3>2
  <2> QED BY <2>5, <2>6
<1>2. ASSUME NEW c \in Slot, NEW k \in Kind, PostcallExecute(c, k)
      PROVE  ConcurrencyCap'
  <2>1. /\ UNCHANGED <<pc, outcome>>
        /\ \A b \in Slot : \A j \in Kind :
             b # c => report'[b][j] = report[b][j]
    BY <1>2 DEF PostcallExecute, ReportAt, TypeOK
  <2>2. \A b \in Slot : b # c => Settled(b)' = Settled(b) BY <2>1 DEF Settled
  <2>3. OpenCorrected \ {c} \subseteq OpenCorrected'
    BY <2>1, <2>2 DEF OpenCorrected, Open, Corrected
  <2>4. /\ Cardinality(OpenCorrected \ {c}) <= Cardinality(OpenCorrected')
        /\ Cardinality(OpenCorrected \ {c}) \in Nat
    BY <1>n, <2>3, FS_Subset, FS_CardinalityType
  <2>5. Cardinality(OpenCorrected) <= Cardinality(OpenCorrected \ {c}) + 1
    <3> DEFINE S == OpenCorrected
    <3>0. IsFiniteSet(S) /\ Cardinality(S) \in Nat /\ Cardinality(S \ {c}) \in Nat
      BY <1>n, <2>4
    <3> HIDE DEF S
    <3>1. c \in S => Cardinality(S \ {c}) = Cardinality(S) - 1
      BY <3>0, FS_RemoveElement
    <3>2. c \notin S => S \ {c} = S OBVIOUS
    <3>3. Cardinality(S) <= Cardinality(S \ {c}) + 1 BY <3>0, <3>1, <3>2
    <3> QED BY <3>3 DEF S
  <2>6. run'.concurrent = run.concurrent - 1
    BY <1>2, <1>n DEF PostcallExecute, RunState
  <2> QED BY <1>c, <1>g, <1>n, <2>4, <2>5, <2>6
<1>3. ASSUME NEW k \in Creator, CreateWrite(k) PROVE ConcurrencyCap'
  <2>1. run'.concurrent = 0 BY <1>3 DEF CreateWrite, NewRun
  <2> QED BY <1>3, <1>q, <2>1 DEF QuietStep
<1>4. ASSUME NEW c \in Slot, NEW k \in Kind, PostcallHalt(c, k) PROVE ConcurrencyCap'
  <2>1. run'.concurrent = run.concurrent BY <1>4, <1>n DEF PostcallHalt, RunState
  <2> QED BY <1>4, <1>n, <1>q, <2>1 DEF QuietStep
<1>5. ASSUME QuietStep, UNCHANGED run PROVE ConcurrencyCap'
  BY <1>5, <1>n, <1>q
<1>6. ASSUME NEW k \in Creator, CreateRead(k) \/ CreateExpire(k) PROVE ConcurrencyCap'
  BY <1>5, <1>6 DEF CreateRead, CreateExpire, hashVars, QuietStep
<1>7. ASSUME NEW c \in Slot,
             \/ (\E r \in Request : PrecallRead(c, r)) \/ PrecallConflict(c)
             \/ ModelCall(c) \/ CallerLost(c) \/ ReservationExpires(c) \/ CallEnds(c)
             \/ \E k \in Kind : PostcallGet(c, k) \/ PostcallCheck(c, k)
      PROVE  ConcurrencyCap'
  <2>1. UNCHANGED run
    BY <1>7 DEF PrecallRead, PrecallConflict, ModelCall, ModelAnswers, ModelFails,
                CallerLost, ReservationExpires, CallEnds, PostcallGet, PostcallCheck,
                hashVars
  <2> QED BY <1>5, <1>7, <2>1 DEF QuietStep
<1>8. CASE UNCHANGED vars BY <1>5, <1>8 DEF vars, hashVars, QuietStep
<1> QED
  BY <1>1, <1>2, <1>3, <1>4, <1>6, <1>7, <1>8 DEF Next, Precall, Postcall

(* The concurrency cap, whatever requests interleave, get lost, expire or  *)
(* are reported twice, and however often prompts repeat: a run is over its *)
(* cap by no more than the corrected calls that are open.                  *)
THEOREM ConcurrencyBounded == Spec => []ConcurrencyCap
<1>1. Init => ConcurrencyCap
  <2> SUFFICES ASSUME Init PROVE ConcurrencyCap OBVIOUS
  <2>1. run.concurrent = 0 BY DEF Init, NoRun, NewRun
  <2>2. Cardinality(OpenCorrected) \in Nat BY TypeInit, CorrectedFinite
  <2> QED BY <2>1, <2>2 DEF ConcurrencyCap, OpenCorrected
<1>2. TypeOK /\ TypeOK' /\ LedgerInv /\ ConcurrencyCap /\ [Next]_vars => ConcurrencyCap'
  BY CapStep
<1> QED BY <1>1, <1>2, LedgerInvariant, PTL DEF Spec

-----------------------------------------------------------------------------
LEMMA OpenShrinks ==
  ASSUME TypeOK, OneReport, NEW c \in Slot, NEW k \in Kind, PostcallExecute(c, k)
  PROVE  c \in Open /\ Open' = Open \ {c} /\ UNCHANGED outcome
<1>0. /\ report[c][k] = "settling" /\ ReportAt(c, k, "checking")
      /\ UNCHANGED <<pc, outcome>>
  BY DEF PostcallExecute
<1>1. /\ report[c][k] = "settling" /\ pc[c] = "called"
      /\ UNCHANGED <<pc, outcome>>
      /\ \A b \in Slot : \A j \in Kind :
            report'[b][j] = IF b = c /\ j = k THEN "checking" ELSE report[b][j]
  BY <1>0 DEF ReportAt, TypeOK
<1>2. ~Settled(c)
  <2>1. \A j \in Kind : j # k => report[c][j] = "none" BY <1>1 DEF OneReport
  <2> QED BY <1>1, <2>1 DEF Settled
<1>3. Settled(c)' BY <1>1 DEF Settled
<1>4. \A b \in Slot : b # c => Settled(b)' = Settled(b) BY <1>1 DEF Settled
<1> QED BY <1>1, <1>2, <1>3, <1>4 DEF Open

LEMMA BooksStep ==
  ASSUME OneCreator, TypeOK, TypeOK', LedgerInv, CreatedOnce, CallsInv, BooksHold,
         [Next]_vars
  PROVE  BooksHold'
<1>t. /\ run \in RunState /\ cost \in [Slot -> Nat] /\ billed \in Nat /\ unbooked \in Nat
      /\ \A c \in Slot : pc[c] = "reserved" => cost[c] = 0
  BY DEF TypeOK, LedgerInv, ChargedLate
<1>q. ASSUME QuietStep PROVE Open' = Open /\ \A b \in Open : outcome'[b] = outcome[b]
  BY <1>q, OpenStays
<1>1. ASSUME QuietStep, UNCHANGED <<cost, billed, unbooked>>,
             run'.concurrent = run.concurrent, run'.inflight = run.inflight,
             run'.spend = run.spend
      PROVE  BooksHold'
  BY <1>1, <1>q, AccountsFrame
<1>2. ASSUME NEW k \in Creator, CreateWrite(k) PROVE BooksHold'
  <2>1. run = NoRun BY <1>2 DEF CreateWrite, CreatedOnce, CallsInv, NothingBefore
  <2>2. /\ run'.concurrent = run.concurrent /\ run'.inflight = run.inflight
        /\ run'.spend = run.spend
    BY <1>2, <2>1 DEF CreateWrite, NoRun, NewRun
  <2>3. UNCHANGED <<cost, billed, unbooked>> /\ QuietStep
    BY <1>2 DEF CreateWrite, slotVars, books, QuietStep
  <2> QED BY <1>1, <2>2, <2>3
<1>3. ASSUME NEW c \in Slot, PrecallExecute(c) PROVE BooksHold'
  <2>1. pc[c] = "decided" /\ UNCHANGED <<cost, billed, unbooked>>
    BY <1>3 DEF PrecallExecute, Reserve, books
  <2>2. c \notin Open /\ Open' = Open \cup {c} /\ UNCHANGED outcome
    BY <1>3, OpenGrows
  <2>3. outcome[c].decision.reserve \in Nat /\ cost[c] = 0
    BY <2>1 DEF TypeOK, OutcomeType, Decision, LedgerInv, ChargedLate
  <2>4. /\ Cardinality(Open)' = Cardinality(Open) + 1
        /\ ReservedSum' = ReservedSum + outcome[c].decision.reserve
        /\ CostSum' = CostSum
    BY <2>1, <2>2, <2>3, SumsOpen
  <2>5. /\ run'.concurrent = run.concurrent + 1 /\ run'.spend = run.spend
        /\ run'.inflight = run.inflight + outcome[c].decision.reserve
    BY <1>3, <1>t DEF PrecallExecute, Reserve, RunState
  <2> QED BY <2>1, <2>4, <2>5 DEF BooksHold
<1>4. ASSUME NEW c \in Slot, ModelCall(c) \/ CallerLost(c) PROVE BooksHold'
  <2>1. pc[c] = "reserved" /\ UNCHANGED <<run, outcome>>
    BY <1>4 DEF ModelCall, ModelAnswers, ModelFails, CallerLost, hashVars
  <2>2. PICK told \in BOOLEAN : Charge(c, told)
    BY <1>4 DEF ModelCall, ModelAnswers, ModelFails, CallerLost
  <2>3. Open' = Open BY <1>4, <1>q DEF QuietStep
  <2>4. c \in Open BY <2>1 DEF Open, Settled, TypeOK
  <2>5. /\ ReservedSum' = ReservedSum
        /\ CostSum' - CostSum = (billed' - unbooked') - (billed - unbooked)
    BY <1>t, <2>1, <2>2, <2>3, <2>4, SumsCharge
  <2>6. CostSum \in Nat /\ CostSum' \in Nat BY SumsType, SumsTypeNext
  <2>7. billed' \in Nat /\ unbooked' \in Nat /\ run.spend \in Int
    BY <1>t DEF TypeOK, RunState
  <2>8. billed = run.spend + unbooked + CostSum BY DEF BooksHold
  <2>9. billed' = run.spend + unbooked' + CostSum'
    BY <1>t, <2>5, <2>6, <2>7, <2>8
  <2> QED BY <2>1, <2>3, <2>5, <2>9 DEF BooksHold
<1>5. ASSUME NEW c \in Slot, NEW k \in Kind, PostcallExecute(c, k) PROVE BooksHold'
  <2>1. report[c][k] = "settling" /\ UNCHANGED <<cost, billed, unbooked>>
    BY <1>5 DEF PostcallExecute
  <2>2. c \in Open /\ Open' = Open \ {c} /\ UNCHANGED outcome
    BY <1>5, OpenShrinks DEF CallsInv
  <2>3. /\ Cardinality(Open)' = Cardinality(Open) - 1
        /\ ReservedSum' = ReservedSum - outcome[c].decision.reserve
        /\ CostSum' = CostSum - cost[c]
    BY <2>1, <2>2, SumsSettle
  <2>4. /\ run'.concurrent = run.concurrent - 1
        /\ run'.inflight = run.inflight - outcome[c].decision.reserve
        /\ run'.spend = IF k = "usage" THEN run.spend + cost[c] ELSE run.spend
    BY <1>5, <1>t DEF PostcallExecute, RunState
  <2>5. k # "usage" => cost[c] = 0
    BY <2>1 DEF CallsInv, FailedUntold, Kind
  <2>6. run'.spend = run.spend + cost[c] BY <1>t, <2>4, <2>5 DEF RunState
  <2>7. CostSum \in Nat /\ cost[c] \in Nat /\ run.spend \in Int
    BY <1>t, SumsType DEF RunState
  <2>8. billed' = run'.spend + unbooked' + CostSum'
    BY <1>t, <2>1, <2>3, <2>6, <2>7 DEF BooksHold
  <2> QED BY <2>3, <2>4, <2>8 DEF BooksHold
<1>6. ASSUME NEW c \in Slot, CallEnds(c) PROVE BooksHold'
  <2>1. /\ UNCHANGED <<run, billed, unbooked>> /\ Settled(c)
        /\ \A b \in Slot : b # c => cost'[b] = cost[b]
    BY <1>6, <1>t DEF CallEnds, hashVars, books, Settled
  <2>2. QuietStep BY <1>6 DEF QuietStep
  <2>3. c \notin Open BY <2>1 DEF Open
  <2>4. \A b \in Open : outcome'[b] = outcome[b] /\ cost'[b] = cost[b]
    BY <1>q, <2>1, <2>2, <2>3, OpenType
  <2> QED BY <1>q, <2>1, <2>2, <2>4, AccountsFrame
<1>7. ASSUME NEW c \in Slot, NEW k \in Kind, PostcallHalt(c, k) PROVE BooksHold'
  <2>1. /\ UNCHANGED <<cost, billed, unbooked>>
        /\ run'.concurrent = run.concurrent /\ run'.inflight = run.inflight
        /\ run'.spend = run.spend
    BY <1>7, <1>t DEF PostcallHalt, RunState, books
  <2> QED BY <1>1, <1>7, <2>1 DEF QuietStep
<1>8. ASSUME QuietStep, UNCHANGED <<run, cost, billed, unbooked>> PROVE BooksHold'
  BY <1>1, <1>8
<1>9. ASSUME NEW k \in Creator, CreateRead(k) \/ CreateExpire(k) PROVE BooksHold'
  BY <1>8, <1>9 DEF CreateRead, CreateExpire, hashVars, slotVars, books, QuietStep
<1>10. ASSUME NEW c \in Slot,
              (\E r \in Request : PrecallRead(c, r)) \/ PrecallConflict(c)
                \/ ReservationExpires(c)
       PROVE  BooksHold'
  BY <1>8, <1>10 DEF PrecallRead, PrecallConflict, ReservationExpires,
                     hashVars, slotVars, books, QuietStep
<1>11. ASSUME NEW c \in Slot, NEW k \in Kind, PostcallGet(c, k) \/ PostcallCheck(c, k)
       PROVE  BooksHold'
  BY <1>8, <1>11 DEF PostcallGet, PostcallCheck, hashVars, books, QuietStep
<1>12. CASE UNCHANGED vars
  BY <1>8, <1>12 DEF vars, hashVars, slotVars, books, QuietStep
<1> QED
  BY <1>2, <1>3, <1>4, <1>5, <1>6, <1>7, <1>9, <1>10, <1>11, <1>12
  DEF Next, Precall, Postcall

LEMMA AccountsInvariant ==
  ASSUME ~DoubleReport, OneCreator
  PROVE  Spec => [](TypeOK /\ LedgerInv /\ AccountsInv)
<1>1. Init => CreatedOnce /\ AccountsInv
  BY AccountsInit DEF Init, CreatedOnce, NoRun, NewRun
<1>2. TypeOK /\ TypeOK' /\ LedgerInv /\ CreatedOnce /\ AccountsInv /\ [Next]_vars
        => CreatedOnce' /\ AccountsInv'
  <2> SUFFICES ASSUME TypeOK, TypeOK', LedgerInv, CreatedOnce, AccountsInv, [Next]_vars
               PROVE  CreatedOnce' /\ AccountsInv'
    OBVIOUS
  <2>1. CreatedOnce' BY RememberedStep
  <2>2. CallsInv BY DEF AccountsInv, CallsInv
  <2>3. BooksHold BY BooksAre DEF AccountsInv
  <2>4. CallsInv' BY <2>2, CallsStep
  <2>5. BooksHold' BY <2>2, <2>3, BooksStep
  <2>6. (ReservationsCounted /\ ChargesBooked)' BY <2>5, BooksAre, PTL
  <2> QED BY <2>1, <2>4, <2>6 DEF AccountsInv, CallsInv
<1> QED BY <1>1, <1>2, LedgerInvariant, PTL DEF Spec

(* The reservations balance: for a run created once whose calls are        *)
(* reported once, the hash counts exactly the open calls and their         *)
(* reserved amounts, whatever precalls and reports overlap, and whichever  *)
(* callers are lost and reservations expire.                               *)
THEOREM ReservationsBalance ==
  ~DoubleReport /\ OneCreator => (Spec => []ReservationsCounted)
<1> SUFFICES ASSUME ~DoubleReport, OneCreator PROVE Spec => []ReservationsCounted
  OBVIOUS
<1>1. AccountsInv => ReservationsCounted BY DEF AccountsInv
<1> QED BY <1>1, AccountsInvariant, PTL

(* The charges balance: what the provider charged is what is booked, what  *)
(* the reports left out and the cost of the calls that are still open.     *)
THEOREM ChargesBalance ==
  ~DoubleReport /\ OneCreator => (Spec => []ChargesBooked)
<1> SUFFICES ASSUME ~DoubleReport, OneCreator PROVE Spec => []ChargesBooked
  OBVIOUS
<1>1. AccountsInv => ChargesBooked BY DEF AccountsInv
<1> QED BY <1>1, AccountsInvariant, PTL

(* What the open calls cost is no more than what is reserved for them and  *)
(* what they overran it by.                                                *)
LEMMA CostsWithinReserved ==
  ASSUME TypeOK
  PROVE  /\ CostSum <= ReservedSum + SumFunctionOnSet(Overruns, Open)
         /\ SumFunctionOnSet(Overruns, Open) \in Nat
<1>1. IsFiniteSet(Open) BY OpenType
<1>2. \A c \in Open : /\ cost[c] \in Nat /\ Reserved[c] \in Nat /\ Overruns[c] \in Nat
                      /\ cost[c] <= Reserved[c] + Overruns[c]
  BY OpenType, OverrunType DEF Overruns
<1>3. SumFunctionOnSet(Overruns, Open) \in Nat BY <1>1, <1>2, SumNat
<1>4. SumFunctionOnSet(cost, Open) <=
        SumFunctionOnSet(Reserved, Open) + SumFunctionOnSet(Overruns, Open)
  BY <1>1, <1>2, SumBounded
<1> QED BY <1>3, <1>4 DEF CostSum, ReservedSum

(* The ceiling holds of what the provider really charged, calls that are   *)
(* never reported and reservations that expire included: over it is only   *)
(* what calls cost above their reservations and what no report tells of.   *)
THEOREM ChargesBounded ==
  ~DoubleReport /\ OneCreator => (Spec => []ChargesWithinCeiling)
<1> SUFFICES ASSUME ~DoubleReport, OneCreator PROVE Spec => []ChargesWithinCeiling
  OBVIOUS
<1>1. TypeOK /\ LedgerInv /\ AccountsInv => ChargesWithinCeiling
  <2> SUFFICES ASSUME TypeOK, LedgerInv, AccountsInv PROVE ChargesWithinCeiling
    OBVIOUS
  <2> DEFINE over == SumFunctionOnSet(Overruns, Open)
  <2>1. run.inflight = ReservedSum /\ billed = run.spend + unbooked + CostSum
    BY BooksAre DEF AccountsInv, BooksHold
  <2>2. CostSum <= ReservedSum + over /\ over \in Nat BY CostsWithinReserved
  <2>3. CostSum \in Nat /\ ReservedSum \in Nat BY SumsType
  <2>4. /\ run.spend \in Int /\ billed \in Nat /\ unbooked \in Nat /\ excess \in Nat
    BY DEF TypeOK, RunState
  <2>5. WithinCeiling(run.spend + run.inflight - excess) BY DEF LedgerInv, Ceiling
  <2> HIDE DEF over
  <2>6. billed - unbooked - excess - over <= run.spend + run.inflight - excess
    BY <2>1, <2>2, <2>3, <2>4
  <2>7. WithinCeiling(billed - unbooked - excess - over)
    BY <2>1, <2>2, <2>3, <2>4, <2>5, <2>6, CeilingMonotone
  <2> QED BY <2>7 DEF ChargesWithinCeiling, over
<1> QED BY <1>1, AccountsInvariant, PTL

-----------------------------------------------------------------------------
(* The refinement of AtomicLedger.                                         *)

(* A created run keeps its budget, and a report only sets out to halt a    *)
(* run whose budget is spent.                                              *)
HaltsInv ==
  /\ exists => run.budget = Budget
  /\ \A c \in Slot : \A k \in Kind :
       report[c][k] = "halting" => exists /\ run.spend >= run.budget

LEMMA HaltsStep ==
  ASSUME OneCreator, TypeOK, LedgerInv, CreatedOnce, NothingBefore, HaltsInv, [Next]_vars
  PROVE  HaltsInv'
<1>t. /\ run \in RunState /\ run' \in RunState
      /\ report \in [Slot -> [Kind -> ReportPC]]
      /\ \A c \in Slot : pc[c] # "called" => \A k \in Kind : report[c][k] = "none"
  BY TypeStep DEF TypeOK
<1>r. Remembered BY RememberedStep
<1>e. ASSUME NEW c \in Slot, NEW k \in Kind, report[c][k] # "none" PROVE exists
  BY <1>e, <1>t DEF NothingBefore
(* A step that does not touch the hash's existence and sends no report on  *)
(* its way to halt the run.                                                *)
<1>k. ASSUME exists' = exists, ~exists => run' = run,
             \A c \in Slot : \A k \in Kind :
               report'[c][k] = "halting" => report[c][k] = "halting"
      PROVE  HaltsInv'
  BY <1>k, <1>t, <1>r DEF HaltsInv, Remembered, RunState
<1>1. ASSUME NEW k \in Creator, CreateRead(k) \/ CreateExpire(k) PROVE HaltsInv'
  BY <1>1, <1>k DEF CreateRead, CreateExpire, hashVars, slotVars, books
<1>2. ASSUME NEW k \in Creator, CreateWrite(k) PROVE HaltsInv'
  <2>1. ~exists /\ run'.budget = Budget /\ UNCHANGED report
    BY <1>2 DEF CreateWrite, CreatedOnce, NewRun, slotVars, books
  <2> QED BY <1>e, <2>1 DEF HaltsInv
<1>3. ASSUME NEW c \in Slot, Precall(c) \/ CallerLost(c) \/ ReservationExpires(c)
      PROVE  HaltsInv'
  <2>1. UNCHANGED <<exists, report>>
    BY <1>3 DEF Precall, PrecallRead, PrecallExecute, PrecallConflict, Reserve,
                CallerLost, ReservationExpires, hashVars, slotVars, books
  <2>2. ASSUME ~exists PROVE run' = run
    BY <1>3, <2>2 DEF Precall, PrecallRead, PrecallExecute, PrecallConflict,
                NothingBefore, CallerLost, ReservationExpires, hashVars
  <2> QED BY <1>k, <2>1, <2>2
<1>4. ASSUME NEW c \in Slot, ModelCall(c) \/ CallEnds(c) PROVE HaltsInv'
  <2>1. /\ UNCHANGED <<exists, run>>
        /\ \A b \in Slot : b # c => report'[b] = report[b]
        /\ \A k \in Kind : report'[c][k] # "halting"
    <3>1. CASE ModelAnswers(c) BY <1>t, <3>1 DEF ModelAnswers, hashVars
    <3>2. CASE ModelFails(c)
      <4>1. pc[c] = "reserved" /\ \A k \in Kind : report[c][k] = "none"
        BY <1>t, <3>2 DEF ModelFails
      <4> QED BY <1>t, <3>2, <4>1 DEF ModelFails, hashVars
    <3>3. CASE CallEnds(c) BY <1>t, <3>3 DEF CallEnds, hashVars
    <3> QED BY <1>4, <3>1, <3>2, <3>3 DEF ModelCall
  <2> QED BY <1>k, <2>1
<1>5. ASSUME NEW c \in Slot, NEW k \in Kind,
             PostcallGet(c, k) \/ PostcallExecute(c, k) \/ PostcallHalt(c, k)
      PROVE  HaltsInv'
  <2>1. /\ exists /\ UNCHANGED exists
        /\ \E l : ReportAt(c, k, l) /\ l # "halting"
    BY <1>5, <1>e DEF PostcallGet, PostcallExecute, PostcallHalt, hashVars
  <2>2. \A b \in Slot : \A j \in Kind :
          report'[b][j] = "halting" => report[b][j] = "halting"
    BY <2>1, <1>t DEF ReportAt
  <2> QED BY <1>k, <2>1, <2>2
<1>6. ASSUME NEW c \in Slot, NEW k \in Kind, PostcallCheck(c, k) PROVE HaltsInv'
  <2>1. UNCHANGED <<exists, run>> BY <1>6 DEF PostcallCheck, hashVars
  <2>2. ASSUME NEW b \in Slot, NEW j \in Kind, report'[b][j] = "halting"
        PROVE  exists /\ run.spend >= run.budget
    BY <1>6, <1>t, <2>2 DEF PostcallCheck, ReportAt, HaltsInv
  <2> QED BY <2>1, <2>2 DEF HaltsInv
<1>7. CASE UNCHANGED vars BY <1>7, <1>k DEF vars, hashVars, slotVars, books
<1> QED
  BY <1>1, <1>2, <1>3, <1>4, <1>5, <1>6, <1>7 DEF Next, Postcall

-----------------------------------------------------------------------------
(* What the abstract ledger reads off the hash.                            *)

LEMMA AtomicSums ==
  ASSUME NEW f, NEW S
  PROVE  /\ Atomic!Cardinality(S) = Cardinality(S)
         /\ Atomic!SumFunctionOnSet(f, S) = SumFunctionOnSet(f, S)
BY DEF Atomic!Cardinality, Cardinality, Atomic!SumFunctionOnSet, SumFunctionOnSet,
       Atomic!FoldFunctionOnSet, FoldFunctionOnSet, Atomic!MapThenFoldSet, MapThenFoldSet

LEMMA AtomicAfford ==
  ASSUME NEW x, NEW r PROVE Atomic!Afford(x, r) = Afford(x, r)
BY DEF Atomic!Afford, Afford, Atomic!Refuse, Refuse, Atomic!Grant, Grant,
       Atomic!Remaining, Remaining, Atomic!PastThreshold, PastThreshold,
       Atomic!worst_case_micros, worst_case_micros

LEMMA AtomicDecide ==
  ASSUME NEW x, NEW r, NEW p
  PROVE  Atomic!decide(x, r, p) = decide(x, r, p)
<1>1. Atomic!Repeats(p, r.prompt) = Repeats(p, r.prompt)
  BY AtomicSums DEF Atomic!Repeats, Repeats
<1>2. Atomic!Correct(r) = Correct(r)
  BY DEF Atomic!Correct, Correct, Atomic!Grant, Grant,
         Atomic!worst_case_micros, worst_case_micros
<1>3. \A a, b : Atomic!Refuse(a, b) = Refuse(a, b)
  BY DEF Atomic!Refuse, Refuse
<1>4. Atomic!Afford(x, r) = Afford(x, r) BY AtomicAfford
<1> QED BY <1>1, <1>2, <1>3, <1>4 DEF Atomic!decide, decide

(* Its view of a created run is the hash.                                  *)
LEMMA ViewIsRun ==
  ASSUME TypeOK, ReservationsCounted, run.budget = Budget
  PROVE  Atomic!View = run
<1>1. DOMAIN Reserved = Open BY DEF Reserved
<1>2. /\ run.concurrent = Cardinality(Open)
      /\ run.inflight = SumFunctionOnSet(Reserved, Open)
  BY DEF ReservationsCounted
<1>3. run \in RunState BY DEF TypeOK
<1>4. run = [budget |-> run.budget, spend |-> run.spend, inflight |-> run.inflight,
             halt |-> run.halt, steps |-> run.steps, concurrent |-> run.concurrent,
             steered |-> run.steered]
  BY <1>3 DEF RunState
<1> QED BY <1>1, <1>2, <1>4, AtomicSums DEF Atomic!View

LEMMA AtomicInit == Init => Atomic!Init
<1> SUFFICES ASSUME Init PROVE Atomic!Init OBVIOUS
<1>1. Open = {} BY DEF Init, Open
<1>2. Reserved = [c \in {} |-> 0] BY <1>1 DEF Reserved
<1> QED BY <1>2 DEF Init, Atomic!Init, NoRun, NewRun

(* The abstract ledger does not see a step that leaves hash, prompts and   *)
(* open calls alone.                                                       *)
LEMMA AtomicStutter ==
  ASSUME TypeOK, QuietStep, UNCHANGED <<exists, run, recent, excess>>
  PROVE  UNCHANGED Atomic!ledgerVars
<1>1. Open' = Open /\ \A c \in Open : outcome'[c] = outcome[c] BY OpenStays
<1>2. Reserved' = Reserved BY <1>1 DEF Reserved
<1> QED BY <1>2 DEF Atomic!ledgerVars

(* A transaction that goes through admits the call on the present state.   *)
LEMMA AtomicAdmit ==
  ASSUME TypeOK, LedgerInv, AccountsInv, HaltsInv, NEW c \in Slot, PrecallExecute(c)
  PROVE  Atomic!Next
<1> DEFINE r == req[c]
           o == outcome[c]
           step == IF run.steps < r.step THEN r.step ELSE run.steps
           d == decide([run EXCEPT !.steps = step], r, recent)
<1>1. pc[c] = "decided" /\ r \in Request /\ o = Outcome(r)
  BY DEF PrecallExecute, LedgerInv, Fresh, TypeOK
<1>2. exists BY <1>1 DEF AccountsInv, NothingBefore
<1>3. Atomic!View = run
  BY <1>2, ViewIsRun DEF AccountsInv, HaltsInv
<1>4. c \notin Open /\ Open' = Open \cup {c} /\ UNCHANGED outcome BY OpenGrows
<1>5. DOMAIN Reserved = Open BY DEF Reserved
<1>6. o.decision = d /\ o.steps = step
      /\ o.steered = (run.steered \/ (PastThreshold(run) /\ (d.override \/ d.inject)))
  BY <1>1 DEF Outcome, Later
<1>7. d.action \in {"allow", "mutate"} BY <1>1, <1>6 DEF TypeOK
<1>8. Reserved' = [b \in DOMAIN Reserved \cup {c} |->
                     IF b = c THEN d.reserve ELSE Reserved[b]]
  BY <1>4, <1>5, <1>6 DEF Reserved
<1>9. /\ run'.steps = o.steps /\ run'.steered = o.steered
      /\ run'.spend = run.spend /\ run'.halt = run.halt
      /\ UNCHANGED <<exists, excess>>
      /\ recent' = Pushed(r.prompt)
  BY DEF PrecallExecute, Reserve, TypeOK, RunState, books
<1>10. recent' = Atomic!Newest(<<r.prompt>> \o recent)
  BY <1>9 DEF Pushed, Smaller, Atomic!Newest
<1>11. Atomic!decide([Atomic!View EXCEPT !.steps = step], r, recent) = d
  BY <1>3, AtomicDecide
<1>12. Atomic!PastThreshold(Atomic!View) <=> PastThreshold(run)
  BY <1>3 DEF Atomic!PastThreshold, PastThreshold
<1> HIDE DEF d, step
<1>13. Atomic!Admit(c, r)
  BY <1>2, <1>4, <1>5, <1>6, <1>7, <1>8, <1>9, <1>10, <1>11, <1>12 DEF Atomic!Admit, step
<1> QED BY <1>1, <1>13 DEF Atomic!Next

LEMMA AtomicAbove ==
  ASSUME NEW x, NEW y PROVE Atomic!Above(x, y) = Above(x, y)
BY DEF Atomic!Above, Above

(* A report settles its call, and tells how far it was above its           *)
(* reservation.                                                            *)
LEMMA AtomicSettle ==
  ASSUME TypeOK, LedgerInv, AccountsInv, NEW c \in Slot, NEW k \in Kind,
         PostcallExecute(c, k)
  PROVE  Atomic!Next
<1>1. c \in Open /\ Open' = Open \ {c} /\ UNCHANGED outcome
  BY OpenShrinks DEF AccountsInv
<1>2. DOMAIN Reserved = Open /\ Reserved[c] = outcome[c].decision.reserve
  BY <1>1 DEF Reserved
<1>3. Reserved' = [b \in DOMAIN Reserved \ {c} |-> Reserved[b]]
  BY <1>1 DEF Reserved
<1>4. /\ run'.spend = IF k = "usage" THEN run.spend + cost[c] ELSE run.spend
      /\ run'.steps = run.steps /\ run'.steered = run.steered
      /\ run'.halt = run.halt /\ UNCHANGED <<exists, recent>>
      /\ excess' = excess + Overrun(c, k)
  BY DEF PostcallExecute, TypeOK, RunState
<1>5. cost[c] \in Nat /\ run.spend \in Int /\ Reserved[c] \in Nat
  BY <1>1, OpenType DEF TypeOK, RunState
<1>6. run.spend <= run'.spend
  BY <1>4, <1>5
<1>7. Overrun(c, k) = Above(run'.spend - run.spend, Reserved[c])
  <2>1. CASE k = "usage"
    <3>1. run'.spend - run.spend = cost[c] BY <1>4, <1>5, <2>1
    <3> QED BY <1>2, <2>1, <3>1 DEF Overrun
  <2>2. CASE k # "usage"
    <3>1. run'.spend - run.spend = 0 BY <1>4, <1>5, <2>2
    <3> QED BY <1>5, <2>2, <3>1 DEF Overrun, Above
  <2> QED BY <2>1, <2>2
<1>8. Atomic!Settle(c)
  BY <1>1, <1>2, <1>3, <1>4, <1>6, <1>7, AtomicAbove DEF Atomic!Settle
<1> QED BY <1>8 DEF Atomic!Next

LEMMA AtomicHalt ==
  ASSUME TypeOK, AccountsInv, HaltsInv, NEW c \in Slot, NEW k \in Kind, PostcallHalt(c, k)
  PROVE  Atomic!Next
<1>1. exists /\ run.spend >= Budget
  BY DEF PostcallHalt, HaltsInv
<1>2. /\ run'.halt = "cost_budget" /\ run'.spend = run.spend
      /\ run'.steps = run.steps /\ run'.steered = run.steered
      /\ UNCHANGED <<exists, recent, excess>>
  BY DEF PostcallHalt, TypeOK, RunState, books
<1>3. Open' = Open /\ \A b \in Open : outcome'[b] = outcome[b]
  BY OpenStays DEF QuietStep
<1>4. Reserved' = Reserved BY <1>3 DEF Reserved
<1>5. Atomic!Halt BY <1>1, <1>2, <1>4 DEF Atomic!Halt
<1> QED BY <1>5 DEF Atomic!Next

LEMMA AtomicCreate ==
  ASSUME OneCreator, TypeOK, CreatedOnce, AccountsInv, NEW k \in Creator, CreateWrite(k)
  PROVE  Atomic!Next
<1>1. ~exists /\ exists' BY DEF CreateWrite, CreatedOnce
<1>2. run = NoRun BY <1>1 DEF AccountsInv, NothingBefore
<1>3. /\ run'.spend = run.spend /\ run'.halt = run.halt
      /\ run'.steps = run.steps /\ run'.steered = run.steered
      /\ UNCHANGED <<recent, excess>>
  BY <1>2 DEF CreateWrite, NoRun, NewRun, slotVars, books
<1>4. Open' = Open /\ \A b \in Open : outcome'[b] = outcome[b]
  BY OpenStays DEF QuietStep
<1>5. Reserved' = Reserved BY <1>4 DEF Reserved
<1>6. Atomic!Create BY <1>1, <1>3, <1>5 DEF Atomic!Create, CreateWrite
<1> QED BY <1>6 DEF Atomic!Next

LEMMA AtomicStep ==
  ASSUME OneCreator, TypeOK, LedgerInv, CreatedOnce, AccountsInv, HaltsInv, [Next]_vars
  PROVE  [Atomic!Next]_(Atomic!ledgerVars)
<1>1. ASSUME NEW k \in Creator, CreateRead(k) \/ CreateExpire(k)
      PROVE  UNCHANGED Atomic!ledgerVars
  <2>1. UNCHANGED <<exists, run, recent, excess>>
    BY <1>1 DEF CreateRead, CreateExpire, hashVars, slotVars, books
  <2> QED BY <1>1, <2>1, AtomicStutter DEF QuietStep
<1>2. ASSUME NEW c \in Slot,
             (\E r \in Request : PrecallRead(c, r)) \/ PrecallConflict(c)
               \/ ModelCall(c) \/ CallerLost(c) \/ ReservationExpires(c) \/ CallEnds(c)
      PROVE  UNCHANGED Atomic!ledgerVars
  <2>1. UNCHANGED <<exists, run, recent, excess>>
    BY <1>2 DEF PrecallRead, PrecallConflict, ModelCall, ModelAnswers, ModelFails,
                CallerLost, Charge, ReservationExpires, CallEnds, hashVars,
                slotVars, books
  <2> QED BY <1>2, <2>1, AtomicStutter DEF QuietStep
<1>3. ASSUME NEW c \in Slot, NEW k \in Kind, PostcallGet(c, k) \/ PostcallCheck(c, k)
      PROVE  UNCHANGED Atomic!ledgerVars
  <2>1. UNCHANGED <<exists, run, recent, excess>>
    BY <1>3 DEF PostcallGet, PostcallCheck, hashVars, books
  <2> QED BY <1>3, <2>1, AtomicStutter DEF QuietStep
<1>4. ASSUME UNCHANGED vars PROVE UNCHANGED Atomic!ledgerVars
  <2>1. UNCHANGED <<exists, run, recent, excess>>
    BY <1>4 DEF vars, hashVars, slotVars, books
  <2> QED BY <1>4, <2>1, AtomicStutter DEF QuietStep
<1> QED
  BY <1>1, <1>2, <1>3, <1>4, AtomicCreate, AtomicAdmit, AtomicSettle, AtomicHalt
  DEF Next, Precall, Postcall

(* The run ledger implements the atomic ledger: for a run created once     *)
(* whose calls are reported once, every behaviour of the service is one of *)
(* calls admitted and settled one at a time.                               *)
THEOREM LedgerRefinement ==
  ~DoubleReport /\ OneCreator => (Spec => ImplementsAtomicLedger)
<1> SUFFICES ASSUME ~DoubleReport, OneCreator PROVE Spec => ImplementsAtomicLedger
  OBVIOUS
<1>1. Init => HaltsInv /\ CreatedOnce
  BY DEF Init, HaltsInv, CreatedOnce, NoRun, NewRun, Kind
<1>2. TypeOK /\ LedgerInv /\ CreatedOnce /\ AccountsInv /\ HaltsInv /\ [Next]_vars
        => CreatedOnce' /\ HaltsInv'
  BY RememberedStep, HaltsStep DEF AccountsInv
<1>3. TypeOK /\ LedgerInv /\ CreatedOnce /\ AccountsInv /\ HaltsInv /\ [Next]_vars
        => [Atomic!Next]_(Atomic!ledgerVars)
  BY AtomicStep
<1> QED
  BY <1>1, <1>2, <1>3, AtomicInit, AccountsInvariant, PTL
  DEF Spec, ImplementsAtomicLedger, Atomic!Spec
=============================================================================
