--------------------------- MODULE RunLedgerDecide ---------------------------
(***************************************************************************)
(* The decision core of the run ledger, run_ledger/decide.py: a pure       *)
(* function from the state of a run and the shape of the next model call   *)
(* to what the gateway does with the call.  Money is in whole micros.      *)
(***************************************************************************)
EXTENDS Integers, Sequences, FiniteSets

CONSTANTS
  Model,             \* the models (and agent names) a call may name
  PriceIn, PriceOut, \* micros per token; an unknown model is priced 0
  MaxSteps,          \* Policies.max_steps
  MaxConcurrent,     \* Policies.max_concurrent
  GuardNum, GuardDen,\* Policies.guard_threshold, as a fraction
  DefaultMaxOutput,  \* Policies.default_max_output
  LoopWindow,        \* Policies.loop_window
  LoopRepeats,       \* Policies.loop_repeats
  Request            \* the precall bodies that may arrive

(* The last conjunct keeps the shrinking step of decide from dividing by   *)
(* zero: a model that costs nothing to answer costs nothing to ask.        *)
ASSUME DecideAssumption ==
  /\ PriceIn \in [Model -> Nat] /\ PriceOut \in [Model -> Nat]
  /\ MaxSteps \in Nat /\ MaxConcurrent \in Nat
  /\ GuardNum \in Nat /\ GuardDen \in Nat \ {0}
  /\ DefaultMaxOutput \in Nat /\ LoopWindow \in Nat \ {0} /\ LoopRepeats \in Nat
  /\ \A r \in Request :
       /\ r.model \in Model /\ r.est \in Nat /\ r.out \in Nat /\ r.step \in Nat
       /\ r.binds \subseteq {"allow", "mutate"}
  /\ \A m \in Model : PriceOut[m] = 0 => PriceIn[m] = 0

Reason == {"cost_budget", "step_cap", "pre_call_worst_case"}

(* RunState, less the prompts.  A field the hash lacks reads as zero.      *)
RunState ==
  [budget : Nat, spend : Int, inflight : Int, halt : Reason \cup {"none"},
   steps : Nat, concurrent : Int, steered : BOOLEAN]

Decision ==
  [action : {"allow", "mutate", "queue", "halt"}, reason : Reason \cup {"none"},
   override : BOOLEAN, inject : BOOLEAN, cap : Nat, reserve : Nat]

worst_case_micros(est, out, m) == est * PriceIn[m] + out * PriceOut[m]

(* How far x is above y.                                                   *)
Above(x, y) == IF y < x THEN x - y ELSE 0

Remaining(run) == run.budget - run.spend - run.inflight

(* How often the prompt occurs among the recent ones.                      *)
Repeats(recent, prompt) ==
  Cardinality({k \in 1 .. Len(recent) : recent[k] = prompt})

PastThreshold(run) == run.spend * GuardDen >= run.budget * GuardNum

Refuse(action, reason) ==
  [action |-> action, reason |-> reason, override |-> FALSE, inject |-> FALSE,
   cap |-> 0, reserve |-> 0]

(* A call let through with an output cap; `steer` is cost_guard firing.    *)
Grant(r, cap, steer) ==
  [action |-> IF steer \/ cap # r.out THEN "mutate" ELSE "allow",
   reason |-> "none", override |-> steer, inject |-> steer, cap |-> cap,
   reserve |-> worst_case_micros(r.est, cap, r.model)]

(* progress_guard: the injected correction, and no change of model.        *)
Correct(r) ==
  [Grant(r, DefaultMaxOutput, FALSE) EXCEPT !.action = "mutate", !.inject = TRUE]

(* Everything after the concurrency cap: cost_guard, then shrinking the    *)
(* output until the worst case fits.                                       *)
Afford(run, r) ==
  LET cap == IF r.out = 0 THEN DefaultMaxOutput ELSE r.out
      steer == ~run.steered /\ PastThreshold(run)
      fits == (Remaining(run) - r.est * PriceIn[r.model]) \div PriceOut[r.model]
  IN IF worst_case_micros(r.est, cap, r.model) <= Remaining(run)
     THEN Grant(r, cap, steer)
     ELSE IF fits < 1 THEN Refuse("halt", "pre_call_worst_case")
     ELSE Grant(r, fits, steer)

\* Mutant of decide: outstanding reservations do not count against the budget.
decideSpendOnly(run, r, recent) ==
  IF run.halt # "none" THEN Refuse("halt", run.halt)
  ELSE IF run.spend >= run.budget THEN Refuse("halt", "cost_budget")
  ELSE IF run.steps >= MaxSteps THEN Refuse("halt", "step_cap")
  ELSE IF Repeats(recent, r.prompt) >= LoopRepeats THEN Correct(r)
  ELSE IF run.concurrent >= MaxConcurrent THEN Refuse("queue", "none")
  ELSE Afford([run EXCEPT !.inflight = 0], r)

\* Mutant of decide: off by one at the concurrency cap.
decideOneTooMany(run, r, recent) ==
  IF run.halt # "none" THEN Refuse("halt", run.halt)
  ELSE IF run.spend + run.inflight >= run.budget THEN Refuse("halt", "cost_budget")
  ELSE IF run.steps >= MaxSteps THEN Refuse("halt", "step_cap")
  ELSE IF Repeats(recent, r.prompt) >= LoopRepeats THEN Correct(r)
  ELSE IF run.concurrent > MaxConcurrent THEN Refuse("queue", "none")
  ELSE Afford(run, r)

decide(run, r, recent) ==
  IF run.halt # "none" THEN Refuse("halt", run.halt)
  ELSE IF run.spend + run.inflight >= run.budget THEN Refuse("halt", "cost_budget")
  ELSE IF run.steps >= MaxSteps THEN Refuse("halt", "step_cap")
  ELSE IF Repeats(recent, r.prompt) >= LoopRepeats THEN Correct(r)
  ELSE IF run.concurrent >= MaxConcurrent THEN Refuse("queue", "none")
  ELSE Afford(run, r)
=============================================================================
