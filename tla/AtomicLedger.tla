----------------------------- MODULE AtomicLedger -----------------------------
(***************************************************************************)
(* What the run ledger promises its callers: each precall and each report  *)
(* takes effect as if it were alone.  The ledger keeps the calls that are  *)
(* open, not counters of them; a call is admitted on the state of that     *)
(* moment, is settled once, and a run is halted for its budget only when   *)
(* the budget is spent.                                                    *)
(***************************************************************************)
EXTENDS RunLedgerDecide, Functions

CONSTANTS
  Slot,     \* the callers
  Budget    \* what the run may spend

VARIABLES
  exists,   \* the run was created
  spend,    \* all that was settled
  excess,   \* how much of it was above the calls' reservations
  open,     \* what is reserved for each call in flight
  halt,     \* why the run was halted, or "none"
  steps, steered,
  recent    \* the latest prompts, newest first

ledgerVars == <<exists, spend, excess, open, halt, steps, steered, recent>>

(* The run as decide sees it: the counters are those of the open calls.    *)
View ==
  [budget |-> Budget, spend |-> spend,
   inflight |-> SumFunctionOnSet(open, DOMAIN open), halt |-> halt,
   steps |-> steps, concurrent |-> Cardinality(DOMAIN open), steered |-> steered]

Init ==
  /\ exists = FALSE
  /\ spend = 0 /\ excess = 0 /\ open = [c \in {} |-> 0]
  /\ halt = "none" /\ steps = 0 /\ steered = FALSE /\ recent = <<>>

Create ==
  /\ ~exists /\ exists' = TRUE
  /\ UNCHANGED <<spend, excess, open, halt, steps, steered, recent>>

Newest(s) == SubSeq(s, 1, IF LoopWindow < Len(s) THEN LoopWindow ELSE Len(s))

Admit(c, r) ==
  LET step == IF steps < r.step THEN r.step ELSE steps
      d == decide([View EXCEPT !.steps = step], r, recent)
  IN /\ exists /\ c \notin DOMAIN open
     /\ recent' = Newest(<<r.prompt>> \o recent)
     /\ steps' = step
     /\ d.action \in {"allow", "mutate"}
     /\ steered' = (steered \/ (PastThreshold(View) /\ (d.override \/ d.inject)))
     /\ open' = [b \in DOMAIN open \cup {c} |-> IF b = c THEN d.reserve ELSE open[b]]
     /\ UNCHANGED <<exists, spend, excess, halt>>

Settle(c) ==
  /\ c \in DOMAIN open
  /\ open' = [b \in DOMAIN open \ {c} |-> open[b]]
  /\ spend <= spend'
  /\ excess' = excess + Above(spend' - spend, open[c])
  /\ UNCHANGED <<exists, halt, steps, steered, recent>>

Halt ==
  /\ exists /\ spend >= Budget
  /\ halt' = "cost_budget"
  /\ UNCHANGED <<exists, spend, excess, open, steps, steered, recent>>

Next ==
  \/ Create \/ Halt
  \/ \E c \in Slot : Settle(c) \/ \E r \in Request : Admit(c, r)

Spec == Init /\ [][Next]_ledgerVars
=============================================================================
