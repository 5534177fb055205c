-------------------------- MODULE RunLedgerAccounts --------------------------
(***************************************************************************)
(* The books of the run ledger: what the counters in the hash add up to,   *)
(* over all the calls that hold a reservation, and the ledger of single    *)
(* precalls and reports it implements.                                     *)
(***************************************************************************)
EXTENDS RunLedger, Functions

Settled(c) == \E k \in Kind : report[c][k] \in {"checking", "halting", "done"}

(* The calls whose reservation the hash still has to count.                *)
Open == {c \in Slot : pc[c] \in {"reserved", "called", "lost"} /\ ~Settled(c)}

Reserved == [c \in Open |-> outcome[c].decision.reserve]

(* The hash counts exactly the open reservations: what was reserved comes  *)
(* off once, whatever the order of concurrent precalls and reports.        *)
ReservationsCounted ==
  /\ run.concurrent = Cardinality(Open)
  /\ run.inflight = SumFunctionOnSet(Reserved, Open)

(* progress_guard lets a corrected call through before the cap is asked.   *)
Corrected(c) == outcome[c].decision.inject /\ ~outcome[c].decision.override

(* "concurrency_cap - fan-out": no more calls are in flight than the       *)
(* policy allows, but for the corrected ones (decide.py:82).               *)
ConcurrencyCap ==
  run.concurrent <= MaxConcurrent + Cardinality({c \in Open : Corrected(c)})

(* What the provider charged and a report tells of is booked, or belongs   *)
(* to a call whose reservation is still counted.                           *)
ChargesBooked == billed = run.spend + unbooked + SumFunctionOnSet(cost, Open)

Overruns == [c \in Open |-> Above(cost[c], outcome[c].decision.reserve)]

(* The charges, lost callers and expired reservations included, stay below *)
(* the ceiling but for what calls cost above their reservations, and for   *)
(* calls reported without their usage (agent.py:1295, mcp_server.py:357).  *)
ChargesWithinCeiling ==
  WithinCeiling(billed - unbooked - excess - SumFunctionOnSet(Overruns, Open))

(* "Run concurrency cap reached. Please retry shortly." (agent.py:353): a  *)
(* run at its cap gets below it again.                                     *)
CapDrains == run.concurrent >= MaxConcurrent ~> run.concurrent < MaxConcurrent

(* The same for a run whose model calls return, none of whose callers is   *)
(* lost and none of whose reservations expires, since those keep their     *)
(* place under the cap, once no corrected call passes the cap any more.    *)
CapDrainsIfReported ==
  /\ [](losses = 0 /\ expiries = 0)
  /\ \A c \in Slot : []<>(pc[c] # "reserved")
  /\ <>[](\A c \in Open : ~Corrected(c))
  => CapDrains

-----------------------------------------------------------------------------
(* The reads, transactions and counters of overlapping requests, mapped to *)
(* the ledger whose precalls and reports take effect one at a time.        *)
Atomic == INSTANCE AtomicLedger WITH
  open <- Reserved, spend <- run.spend, halt <- run.halt, steps <- run.steps,
  steered <- run.steered

(* Overlapping precalls and reports act one after another: every call is   *)
(* admitted on the run as it is at that moment and settled at most once,   *)
(* what it cost above its reservation is told, and only a spent budget     *)
(* halts a run (service.py:142-204 and 216-257).                           *)
ImplementsAtomicLedger == Atomic!Spec
=============================================================================
