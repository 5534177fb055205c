------------------------------ MODULE RunLedger ------------------------------
(***************************************************************************)
(* The run ledger service, run_ledger/service.py, for one run: the Redis   *)
(* hash of the run, the reservations beside it, and the requests that work *)
(* on them concurrently.  One action is one Redis command or one MULTI     *)
(* transaction, with the Python between it and the next.                   *)
(*                                                                         *)
(* A slot is a caller of the ledger (a gateway request, a specialist call  *)
(* of the agent): precall, the model call, one or two usage reports, and   *)
(* then the next call.  Callers, gateway and model are external.           *)
(***************************************************************************)
EXTENDS RunLedgerDecide

CONSTANTS
  Slot,            \* concurrent callers of the ledger
  Creator,         \* concurrent POST /v1/runs requests for the run
  Budget,          \* budget_micros of those requests
  CheapModel,      \* Policies.cheap_model
  BilledAs,        \* the model the usage report names, for each named model
  InputSlack,      \* tokens by which the estimate of the input may fall short
  ModelLimit,      \* output tokens of a call whose output nothing limits
  DoubleReport,    \* TRUE: the gateway may report failure after usage
  MaxLost,         \* bound on calls whose report is never sent
  MaxExpiries,     \* bound on reservations that reach their TTL
  MaxUnbooked,     \* bound on charges that no report tells of
  NoRequest, NoOutcome

ASSUME LedgerAssumption ==
  /\ Budget \in Nat \ {0}
  /\ CheapModel \in Model /\ BilledAs \in [Model -> Model]
  /\ InputSlack \in Nat /\ ModelLimit \in Nat /\ DoubleReport \in BOOLEAN
  /\ MaxLost \in Nat /\ MaxExpiries \in Nat /\ MaxUnbooked \in Nat
  /\ IsFiniteSet(Slot)
  /\ NoRequest \notin Request

VARIABLES
  exists,       \* the hash run:<run_id> exists
  run,          \* its fields
  recent,       \* run:<run_id>:prompts, newest first
  resv,         \* slots whose resv:<reservation_id> key exists
  create,       \* where each create_run stands
  pc,           \* where each slot stands
  req,          \* the precall body of the slot
  outcome,      \* what precall computed for it
  watched,      \* slots whose WATCH on the run key is still clean
  report,       \* where each usage report of the slot stands
  cost,         \* what the reply says the slot's call was charged
  billed,       \* history: all the provider charged
  unbooked,     \* history: what it charged for calls whose report omits it
  excess,       \* history: what was booked above the calls' reservations
  losses, expiries

hashVars == <<exists, run, recent>>
books == <<billed, unbooked, excess>>
slotVars == <<pc, req, outcome, report, cost, books>>
vars == <<hashVars, resv, create, slotVars, watched, losses, expiries>>

Kind == {"usage", "failed"}

NewRun ==
  [budget |-> Budget, spend |-> 0, inflight |-> 0, halt |-> "none",
   steps |-> 0, concurrent |-> 0, steered |-> FALSE]

NoRun == [NewRun EXCEPT !.budget = 0]

(* What precall works out between its reads and its MULTI: the decision    *)
(* and the fields it is going to overwrite.  _map_run lets the caller's    *)
(* step count when it is ahead of the stored one.                          *)
Later(x, y) == IF x < y THEN y ELSE x

\* Mutant of Outcome: the step of the caller replaces the stored one.
OutcomeCallerStep(r) ==
  LET d == decide([run EXCEPT !.steps = r.step], r, recent)
  IN [decision |-> d, steps |-> r.step,
      steered |-> run.steered \/ (PastThreshold(run) /\ d.inject)]

Outcome(r) ==
  LET d == decide([run EXCEPT !.steps = Later(@, r.step)], r, recent)
  IN [decision |-> d, steps |-> Later(run.steps, r.step),
      steered |-> run.steered \/ (PastThreshold(run) /\ (d.override \/ d.inject))]

Granted(o) == o.decision.action \in {"allow", "mutate"}

Init ==
  /\ exists = FALSE /\ run = NoRun /\ recent = <<>>
  /\ resv = {}
  /\ create = [k \in Creator |-> "start"]
  /\ pc = [c \in Slot |-> "idle"]
  /\ req = [c \in Slot |-> NoRequest]
  /\ outcome = [c \in Slot |-> NoOutcome]
  /\ watched = {}
  /\ report = [c \in Slot |-> [k \in Kind |-> "none"]]
  /\ cost = [c \in Slot |-> 0]
  /\ billed = 0 /\ unbooked = 0 /\ excess = 0
  /\ losses = 0 /\ expiries = 0

Goto(c, l) == pc' = [pc EXCEPT ![c] = l]

(* Every write to the run key fails the transactions that watch it.        *)
Touch == watched' = {}

-----------------------------------------------------------------------------
(* create_run: HGETALL, then HSET when the hash was empty, then EXPIRE.    *)

CreateRead(k) ==
  /\ create[k] = "start"
  /\ create' = [create EXCEPT ![k] = IF exists THEN "present" ELSE "absent"]
  /\ UNCHANGED <<hashVars, resv, slotVars, watched, losses, expiries>>

CreateWrite(k) ==
  /\ create[k] = "absent"
  /\ exists' = TRUE /\ run' = NewRun
  /\ create' = [create EXCEPT ![k] = "present"]
  /\ Touch
  /\ UNCHANGED <<recent, resv, slotVars, losses, expiries>>

CreateExpire(k) ==
  /\ create[k] = "present"
  /\ create' = [create EXCEPT ![k] = "done"]
  /\ Touch
  /\ UNCHANGED <<hashVars, resv, slotVars, losses, expiries>>

-----------------------------------------------------------------------------
(* precall.                                                                *)

(* WATCH, the reads and the decision.  The prompt list is written only     *)
(* together with the hash, so the watch guards it too.  An unknown run and *)
(* a refusal end the request; queued and refused callers may come again.   *)
PrecallRead(c, r) ==
  /\ \/ pc[c] = "idle"
     \/ pc[c] = "retry" /\ r = req[c]
  /\ \/ /\ exists /\ Granted(Outcome(r))
        /\ watched' = watched \cup {c}
        /\ req' = [req EXCEPT ![c] = r]
        /\ outcome' = [outcome EXCEPT ![c] = Outcome(r)]
        /\ Goto(c, "decided")
     \/ /\ ~exists \/ ~Granted(Outcome(r))
        /\ req' = [req EXCEPT ![c] = NoRequest]
        /\ Goto(c, "idle")
        /\ UNCHANGED <<watched, outcome>>
  /\ UNCHANGED <<hashVars, resv, create, report, cost, books, losses, expiries>>

Smaller(x, y) == IF x < y THEN x ELSE y

(* LPUSH and LTRIM.                                                        *)
Pushed(p) ==
  LET all == <<p>> \o recent IN SubSeq(all, 1, Smaller(LoopWindow, Len(all)))

(* The transaction went through.                                           *)
Reserve(c) ==
  LET o == outcome[c]
  IN /\ run' = [run EXCEPT !.inflight = @ + o.decision.reserve,
                           !.concurrent = @ + 1,
                           !.steps = o.steps, !.steered = o.steered]
     /\ recent' = Pushed(req[c].prompt)
     /\ resv' = resv \cup {c}
     /\ Goto(c, "reserved")
     /\ Touch
     /\ UNCHANGED <<exists, create, req, outcome, report, cost, books, losses,
                    expiries>>

\* Mutant of PrecallExecute: the transaction does not watch the run.
PrecallExecuteUnwatched(c) ==
  /\ pc[c] = "decided"
  /\ Reserve(c)

PrecallExecute(c) ==
  /\ pc[c] = "decided" /\ c \in watched
  /\ Reserve(c)

(* WatchError: once more round the loop.                                   *)
PrecallConflict(c) ==
  /\ pc[c] = "decided" /\ c \notin watched
  /\ outcome' = [outcome EXCEPT ![c] = NoOutcome]
  /\ Goto(c, "retry")
  /\ UNCHANGED <<hashVars, resv, create, req, watched, report, cost, books,
                 losses, expiries>>

-----------------------------------------------------------------------------
(* The model call, outside the ledger.  It is charged at the price of the  *)
(* model that really answered, for at most the input the caller estimated  *)
(* (and the slack) and the output the call was limited to.  req.binds are  *)
(* the decisions under which that limit is the cap of the decision: the    *)
(* gateway leaves the body alone on a plain "allow", so that the cap only  *)
(* holds if the body names it; a specialist applies it on "mutate"; the    *)
(* roots of a turn never do.                                               *)

Answering(c) ==
  {BilledAs[req[c].model]}
    \cup (IF outcome[c].decision.override THEN {CheapModel} ELSE {})

HighestCost(c, m) ==
  LET d == outcome[c].decision
  IN worst_case_micros(req[c].est + InputSlack,
                       IF d.action \in req[c].binds THEN d.cap ELSE ModelLimit, m)

(* The provider charges for the call; the caller is told how much if the   *)
(* reply reaches it and carries the usage.                                 *)
Charge(c, told) ==
  \E m \in Answering(c) : \E spent \in 0 .. HighestCost(c, m) :
    /\ billed' = billed + spent
    /\ cost' = [cost EXCEPT ![c] = IF told THEN spent ELSE 0]
    /\ unbooked' = IF told THEN unbooked ELSE unbooked + spent
    /\ unbooked' <= MaxUnbooked
    /\ UNCHANGED excess

ModelAnswers(c) ==
  /\ pc[c] = "reserved"
  /\ \E told \in BOOLEAN : Charge(c, told)
  /\ report' = [report EXCEPT ![c] =
       [k \in Kind |-> IF k = "usage" \/ DoubleReport THEN "due" ELSE "none"]]
  /\ Goto(c, "called")
  /\ UNCHANGED <<hashVars, resv, create, req, outcome, watched, losses, expiries>>

(* The call is reported as failed: the model may have answered all the     *)
(* same, to a caller that timed out or raised on the way, and is charged.  *)
ModelFails(c) ==
  /\ pc[c] = "reserved"
  /\ Charge(c, FALSE)
  /\ report' = [report EXCEPT ![c] = [@ EXCEPT !["failed"] = "due"]]
  /\ Goto(c, "called")
  /\ UNCHANGED <<hashVars, resv, create, req, outcome, watched, losses, expiries>>

(* The caller is cancelled during the call: no report will be sent, and    *)
(* the provider charges for what it did.                                   *)
CallerLost(c) ==
  /\ pc[c] = "reserved" /\ losses < MaxLost
  /\ losses' = losses + 1
  /\ Charge(c, TRUE)
  /\ Goto(c, "lost")
  /\ UNCHANGED <<hashVars, resv, create, req, outcome, report, watched, expiries>>

ReservationExpires(c) ==
  /\ c \in resv /\ expiries < MaxExpiries
  /\ expiries' = expiries + 1
  /\ resv' = resv \ {c}
  /\ UNCHANGED <<hashVars, create, slotVars, watched, losses>>

-----------------------------------------------------------------------------
(* postcall: GET, one MULTI, and a separate check of the budget.           *)

ReportAt(c, k, l) == report' = [report EXCEPT ![c] = [@ EXCEPT ![k] = l]]

PostcallGet(c, k) ==
  /\ report[c][k] = "due"
  /\ ReportAt(c, k, IF c \in resv THEN "settling" ELSE "missed")
  /\ UNCHANGED <<hashVars, resv, create, pc, req, outcome, cost, books,
                 watched, losses, expiries>>

(* What a usage report books above the reservation.                        *)
Overrun(c, k) ==
  IF k = "usage" THEN Above(cost[c], outcome[c].decision.reserve) ELSE 0

\* Mutant of PostcallExecute: a failed call keeps what it reserved.
PostcallExecuteLeaking(c, k) ==
  /\ report[c][k] = "settling"
  /\ run' = IF k = "failed" THEN run
            ELSE [run EXCEPT !.inflight = @ - outcome[c].decision.reserve,
                    !.concurrent = @ - 1, !.spend = @ + cost[c]]
  /\ excess' = excess + Overrun(c, k)
  /\ resv' = resv \ {c}
  /\ ReportAt(c, k, "checking")
  /\ Touch
  /\ UNCHANGED <<exists, recent, create, pc, req, outcome, cost, billed, unbooked,
                 losses, expiries>>

\* Mutant of PostcallExecute: the worst case is booked instead of the usage.
PostcallExecuteWorstCase(c, k) ==
  /\ report[c][k] = "settling"
  /\ run' = [run EXCEPT !.inflight = @ - outcome[c].decision.reserve,
       !.concurrent = @ - 1,
       !.spend = IF k = "usage" THEN @ + outcome[c].decision.reserve ELSE @]
  /\ excess' = excess + Overrun(c, k)
  /\ resv' = resv \ {c}
  /\ ReportAt(c, k, "checking")
  /\ Touch
  /\ UNCHANGED <<exists, recent, create, pc, req, outcome, cost, billed, unbooked,
                 losses, expiries>>

PostcallExecute(c, k) ==
  /\ report[c][k] = "settling"
  /\ run' = [run EXCEPT !.inflight = @ - outcome[c].decision.reserve,
       !.concurrent = @ - 1,
       !.spend = IF k = "usage" THEN @ + cost[c] ELSE @]
  /\ excess' = excess + Overrun(c, k)
  /\ resv' = resv \ {c}
  /\ ReportAt(c, k, "checking")
  /\ Touch
  /\ UNCHANGED <<exists, recent, create, pc, req, outcome, cost, billed, unbooked,
                 losses, expiries>>

PostcallCheck(c, k) ==
  /\ report[c][k] = "checking"
  /\ ReportAt(c, k, IF exists /\ run.spend >= run.budget THEN "halting" ELSE "done")
  /\ UNCHANGED <<hashVars, resv, create, pc, req, outcome, cost, books,
                 watched, losses, expiries>>

PostcallHalt(c, k) ==
  /\ report[c][k] = "halting"
  /\ run' = [run EXCEPT !.halt = "cost_budget"]
  /\ ReportAt(c, k, "done")
  /\ Touch
  /\ UNCHANGED <<exists, recent, resv, create, pc, req, outcome, cost, books,
                 losses, expiries>>

(* The caller is done with a call that was settled.                        *)
CallEnds(c) ==
  /\ pc[c] = "called"
  /\ \A k \in Kind : report[c][k] \in {"none", "missed", "done"}
  /\ \E k \in Kind : report[c][k] = "done"
  /\ Goto(c, "idle")
  /\ req' = [req EXCEPT ![c] = NoRequest]
  /\ outcome' = [outcome EXCEPT ![c] = NoOutcome]
  /\ report' = [report EXCEPT ![c] = [k \in Kind |-> "none"]]
  /\ cost' = [cost EXCEPT ![c] = 0]
  /\ UNCHANGED <<hashVars, resv, create, books, watched, losses, expiries>>

-----------------------------------------------------------------------------
Precall(c) ==
  (\E r \in Request : PrecallRead(c, r)) \/ PrecallExecute(c) \/ PrecallConflict(c)

Postcall(c) ==
  \E k \in Kind :
    PostcallGet(c, k) \/ PostcallExecute(c, k) \/ PostcallCheck(c, k)
      \/ PostcallHalt(c, k)

ModelCall(c) == ModelAnswers(c) \/ ModelFails(c)

Next ==
  \/ \E k \in Creator : CreateRead(k) \/ CreateWrite(k) \/ CreateExpire(k)
  \/ \E c \in Slot :
       \/ Precall(c) \/ ModelCall(c) \/ Postcall(c) \/ CallEnds(c)
       \/ CallerLost(c) \/ ReservationExpires(c)

Spec == Init /\ [][Next]_vars

(* A report under way runs to its end.  Nothing makes a model call return  *)
(* (the root calls of a turn have no deadline) or a caller call again.     *)
FairSpec == Spec /\ \A c \in Slot : WF_vars(Postcall(c))

-----------------------------------------------------------------------------
OutcomeType == [decision : Decision, steps : Nat, steered : BOOLEAN]

SlotPC == {"idle", "retry", "decided", "reserved", "called", "lost"}

ReportPC == {"none", "due", "settling", "missed", "checking", "halting", "done"}

(* Type invariant: the hash has the shape _map_run reads, and a slot that  *)
(* goes through the transaction carries a decision that grants the call.   *)
TypeOK ==
  /\ exists \in BOOLEAN /\ run \in RunState
  /\ recent \in Seq({r.prompt : r \in Request})
  /\ resv \in SUBSET Slot /\ watched \in SUBSET Slot
  /\ create \in [Creator -> {"start", "absent", "present", "done"}]
  /\ pc \in [Slot -> SlotPC]
  /\ req \in [Slot -> Request \cup {NoRequest}]
  /\ outcome \in [Slot -> OutcomeType \cup {NoOutcome}]
  /\ report \in [Slot -> [Kind -> ReportPC]]
  /\ \A c \in Slot :
       /\ pc[c] # "idle" => req[c] \in Request
       /\ pc[c] \notin {"idle", "retry"} =>
            /\ outcome[c] \in OutcomeType
            /\ outcome[c].decision.action \in {"allow", "mutate"}
       /\ pc[c] # "called" => \A k \in Kind : report[c][k] = "none"
  /\ cost \in [Slot -> Nat]
  /\ billed \in Nat /\ unbooked \in Nat /\ excess \in Nat
  /\ losses \in Nat /\ expiries \in Nat

(* progress_guard skips the affordability check, so the ceiling is the     *)
(* budget and less than one corrected call on top of it.                   *)
WithinCeiling(x) ==
  \/ x <= run.budget
  \/ \E r \in Request : x < run.budget + Correct(r).reserve

(* The ceiling: but for what calls cost above their reservations, spend    *)
(* and outstanding reservations stay within the budget and one corrected   *)
(* call, however precalls and reports interleave.  However much such calls *)
(* overran, the next precall already counts it.                            *)
Ceiling == WithinCeiling(run.spend + run.inflight - excess)

(* Optimistic concurrency: a reservation is only made on the decision that *)
(* the state of the run at that moment calls for.                          *)
FreshDecisions ==
  [][\A c \in Slot : pc[c] = "decided" /\ pc'[c] = "reserved" =>
       outcome[c] = Outcome(req[c])]_vars

(* The run remembers: its budget is fixed, spend and steps never go back,  *)
(* steering and halting are for good (test_create_run_reuses_existing_...).*)
LedgerRemembers ==
  [][exists =>
       /\ run'.budget = run.budget
       /\ run'.spend >= run.spend /\ run'.steps >= run.steps
       /\ run.steered => run'.steered
       /\ run.halt # "none" => run'.halt = run.halt]_vars
=============================================================================
