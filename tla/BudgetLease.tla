----------------------------- MODULE BudgetLease -----------------------------
(***************************************************************************)
(* Budget leasing, run_ledger/budget_lease.py: an orchestrator borrows a   *)
(* slice of the run budget from the central Ledger, spends it locally and  *)
(* renews; grants carry a fencing token and a TTL.  Every method runs to   *)
(* its end without yielding, so one method call is one action.             *)
(***************************************************************************)
EXTENDS Integers, FiniteSets, Functions

CONSTANTS
  Holder,      \* the orchestrators holding a Lease
  Budget,      \* Ledger.budget_micros
  Size,        \* Lease.size_micros
  Ttl,         \* ttl of a grant
  MaxCost,     \* bound on the cost of a turn
  MaxTime,     \* bound on the clock
  MaxSpent,    \* bound on what is debited in all
  MaxTokens    \* bound on the grants handed out

ASSUME LeaseAssumption ==
  /\ Budget \in Nat \ {0} /\ Size \in Nat \ {0} /\ Ttl \in Nat \ {0}
  /\ MaxCost \in Nat /\ MaxSpent \in Nat /\ MaxTime \in Nat /\ MaxTokens \in Nat
  /\ IsFiniteSet(Holder)

VARIABLES
  now,
  granted, settled, ledgerHalted, nextToken, outstanding,  \* Ledger
  remaining, spent, halted, token,                         \* each Lease
  totalSpent                     \* history: all that was ever debited

ledgerVars == <<granted, settled, ledgerHalted, nextToken, outstanding>>
leaseVars == <<remaining, spent, halted, token>>
vars == <<now, ledgerVars, leaseVars, totalSpent>>

Amount(G) == SumFunctionOnSet([g \in G |-> g.amount], G)

Expired(t) == {g \in outstanding : g.expires <= t}

Init ==
  /\ now = 0
  /\ granted = 0 /\ settled = 0 /\ ledgerHalted = FALSE
  /\ nextToken = 1 /\ outstanding = {}
  /\ remaining = [h \in Holder |-> 0]
  /\ spent = [h \in Holder |-> 0]
  /\ halted = [h \in Holder |-> FALSE]
  /\ token = [h \in Holder |-> 0]
  /\ totalSpent = 0

Tick ==
  /\ now < MaxTime
  /\ now' = now + 1
  /\ UNCHANGED <<ledgerVars, leaseVars, totalSpent>>

-----------------------------------------------------------------------------
(* Ledger.                                                                 *)

Reclaim(t) ==
  /\ granted' = granted - Amount(Expired(t))
  /\ outstanding' = outstanding \ Expired(t)

(* The watchdog reclaims the leases of holders that died.                  *)
ReclaimExpired ==
  /\ Reclaim(now)
  /\ UNCHANGED <<now, settled, ledgerHalted, nextToken, leaseVars, totalSpent>>

Available(t) == Budget - (granted - Amount(Expired(t)))

Smaller(x, y) == IF x < y THEN x ELSE y

\* Mutant of HandedOut: a grant is never partial.
HandedOutWhole(t) == Size

HandedOut(t) == Smaller(Size, Available(t))

(* Lease.renew at time t, for a lease with `left` remaining: Ledger.grant  *)
(* reclaims first, then grants or raises LedgerFull, which halts the lease.*)
Renew(h, t, left) ==
  \/ /\ ~ledgerHalted /\ Available(t) > 0 /\ nextToken <= MaxTokens
     /\ LET g == [token |-> nextToken, amount |-> HandedOut(t), expires |-> t + Ttl]
        IN /\ granted' = granted - Amount(Expired(t)) + g.amount
           /\ outstanding' = (outstanding \ Expired(t)) \cup {g}
           /\ remaining' = [remaining EXCEPT ![h] = left + g.amount]
     /\ nextToken' = nextToken + 1
     /\ token' = [token EXCEPT ![h] = nextToken]
     /\ UNCHANGED <<ledgerHalted, halted>>
  \/ /\ ledgerHalted \/ Available(t) <= 0
     /\ Reclaim(t)
     /\ ledgerHalted' = TRUE
     /\ halted' = [halted EXCEPT ![h] = TRUE]
     /\ remaining' = [remaining EXCEPT ![h] = left]
     /\ UNCHANGED <<nextToken, token>>

-----------------------------------------------------------------------------
(* Lease.                                                                  *)

(* The background prefetch, or a turn that found it cannot be afforded.    *)
LeaseRenew(h) ==
  /\ ~halted[h]
  /\ Renew(h, now, remaining[h])
  /\ UNCHANGED <<now, settled, spent, totalSpent>>

(* debit renews a lease it has used up, at the default time zero.          *)
Debit(h) ==
  \E cost \in 1 .. MaxCost :
    LET left == remaining[h] - cost
    IN /\ totalSpent + cost <= MaxSpent
       /\ spent' = [spent EXCEPT ![h] = @ + cost]
       /\ totalSpent' = totalSpent + cost
       /\ \/ /\ left > 0
             /\ remaining' = [remaining EXCEPT ![h] = left]
             /\ UNCHANGED <<granted, ledgerHalted, nextToken, outstanding, halted,
                            token>>
          \/ left <= 0 /\ Renew(h, 0, left)
       /\ UNCHANGED <<now, settled>>

Unused(h) == IF remaining[h] > 0 THEN remaining[h] ELSE 0

\* Mutant of Release: what was settled stays on the lease.
ReleaseKeepingSpent(h) ==
  /\ \/ \E g \in outstanding :
          /\ g.token = token[h]
          /\ settled' = settled + spent[h]
          /\ granted' = granted - Unused(h)
          /\ outstanding' = outstanding \ {g}
     \/ /\ \A g \in outstanding : g.token # token[h]
        /\ UNCHANGED <<settled, granted, outstanding>>
  /\ remaining' = [remaining EXCEPT ![h] = 0]
  /\ UNCHANGED <<now, ledgerHalted, nextToken, spent, halted, token, totalSpent>>

(* release: settle is ignored unless the last token is still outstanding.  *)
Release(h) ==
  /\ \/ \E g \in outstanding :
          /\ g.token = token[h]
          /\ settled' = settled + spent[h]
          /\ granted' = granted - Unused(h)
          /\ outstanding' = outstanding \ {g}
     \/ /\ \A g \in outstanding : g.token # token[h]
        /\ UNCHANGED <<settled, granted, outstanding>>
  /\ remaining' = [remaining EXCEPT ![h] = 0]
  /\ spent' = [spent EXCEPT ![h] = 0]
  /\ UNCHANGED <<now, ledgerHalted, nextToken, halted, token, totalSpent>>

(* A replica dies; the one that resumes the workflow builds a new Lease.   *)
Resume(h) ==
  /\ remaining' = [remaining EXCEPT ![h] = 0]
  /\ spent' = [spent EXCEPT ![h] = 0]
  /\ halted' = [halted EXCEPT ![h] = FALSE]
  /\ token' = [token EXCEPT ![h] = 0]
  /\ UNCHANGED <<now, ledgerVars, totalSpent>>

Next ==
  \/ Tick \/ ReclaimExpired
  \/ \E h \in Holder : LeaseRenew(h) \/ Debit(h) \/ Release(h) \/ Resume(h)

Spec == Init /\ [][Next]_vars

-----------------------------------------------------------------------------
(* The ledger never has more handed out than the budget, at any moment,    *)
(* through reclaims, late settles and resumed holders.                     *)
GrantedWithinBudget == granted <= Budget

(* "Rejects stale tokens so a resumed workflow can't double-count": no     *)
(* debit is ever settled twice.                                            *)
NothingSettledTwice == settled + SumFunctionOnSet(spent, Holder) <= totalSpent
=============================================================================
