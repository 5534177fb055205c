----------------------------- MODULE MCRunLedger -----------------------------
(* Instances of RunLedgerAccounts for TLC.                                  *)
EXTENDS RunLedgerAccounts, TLC

CONSTANTS gpt, mini, p1, p2

(* The large model costs a micro per token either way; the cheap model     *)
(* answers for nothing, so that steering shows in what is charged.         *)
In == [m \in Model |-> IF m = gpt THEN 1 ELSE 0]
Out == [m \in Model |-> IF m = gpt THEN 1 ELSE 0]
Same == [m \in Model |-> m]

Call(e, o, p, s, binds) ==
  [model |-> gpt, est |-> e, out |-> o, prompt |-> p, step |-> s, binds |-> binds]

(* A short call with a limit of its own, a root call that neither names    *)
(* nor applies one, and a specialist call past the step cap.               *)
Calls ==
  {Call(0, 1, p1, 0, {"allow", "mutate"}), Call(1, 0, p2, 1, {}),
   Call(1, 1, p2, MaxSteps, {"mutate"})}

SlotSymmetry == Permutations(Slot)
=============================================================================
