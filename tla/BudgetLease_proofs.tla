-------------------------- MODULE BudgetLease_proofs --------------------------
(***************************************************************************)
(* Proofs about budget leasing: the ledger never has more handed out than  *)
(* the budget, and no debit is settled twice, for any number of holders,   *)
(* any lease size, TTL and cost.                                           *)
(***************************************************************************)
EXTENDS BudgetLease, SumTheorems

USE LeaseAssumption

GrantType == [token : Nat, amount : Nat, expires : Int]

LeaseType ==
  /\ now \in Nat
  /\ granted \in Int /\ settled \in Nat /\ ledgerHalted \in BOOLEAN
  /\ nextToken \in Nat
  /\ outstanding \in SUBSET GrantType /\ IsFiniteSet(outstanding)
  /\ remaining \in [Holder -> Int] /\ spent \in [Holder -> Nat]
  /\ halted \in [Holder -> BOOLEAN] /\ token \in [Holder -> Nat]
  /\ totalSpent \in Nat

LeaseInv == LeaseType /\ GrantedWithinBudget /\ NothingSettledTwice

-----------------------------------------------------------------------------
(* What is reclaimed at once is a natural amount.                          *)
LEMMA ExpiredAmount ==
  ASSUME LeaseType, NEW t \in Nat
  PROVE  /\ Amount(Expired(t)) \in Nat
         /\ IsFiniteSet(outstanding \ Expired(t))
         /\ Available(t) \in Int
         /\ Available(t) = Budget - (granted - Amount(Expired(t)))
<1> DEFINE F == [g \in Expired(t) |-> g.amount]
<1>1. IsFiniteSet(Expired(t)) /\ IsFiniteSet(outstanding \ Expired(t))
  BY FS_Subset DEF LeaseType, Expired
<1>2. \A g \in Expired(t) : F[g] \in Nat
  BY DEF LeaseType, Expired, GrantType
<1> HIDE DEF F
<1>3. SumFunctionOnSet(F, Expired(t)) \in Nat BY <1>1, <1>2, SumNat
<1>4. Amount(Expired(t)) \in Nat BY <1>3 DEF Amount, F
<1> QED BY <1>1, <1>4 DEF LeaseType, Available

LEMMA HandedOutFits ==
  ASSUME LeaseType, NEW t \in Nat, Available(t) > 0
  PROVE  HandedOut(t) \in Nat /\ HandedOut(t) <= Available(t)
<1>1. Available(t) \in Int /\ Size \in Nat BY ExpiredAmount
<1> QED BY <1>1 DEF HandedOut, Smaller

(* Whether it grants or halts, a renewal keeps the ledger within its       *)
(* budget, at whatever time it is asked for.                               *)
LEMMA RenewKeeps ==
  ASSUME LeaseType, GrantedWithinBudget,
         NEW h \in Holder, NEW t \in Nat, NEW left \in Int, Renew(h, t, left)
  PROVE  /\ granted' \in Int /\ granted' <= Budget
         /\ outstanding' \in SUBSET GrantType /\ IsFiniteSet(outstanding')
         /\ remaining' \in [Holder -> Int] /\ token' \in [Holder -> Nat]
         /\ halted' \in [Holder -> BOOLEAN] /\ ledgerHalted' \in BOOLEAN
         /\ nextToken' \in Nat
<1> DEFINE g == [token |-> nextToken, amount |-> HandedOut(t), expires |-> t + Ttl]
           kept == outstanding \ Expired(t)
<1>1. /\ Amount(Expired(t)) \in Nat /\ IsFiniteSet(kept) /\ kept \in SUBSET GrantType
      /\ Available(t) = Budget - (granted - Amount(Expired(t)))
  BY ExpiredAmount DEF LeaseType
<1>2. CASE /\ ~ledgerHalted /\ Available(t) > 0
           /\ granted' = granted - Amount(Expired(t)) + g.amount
           /\ outstanding' = kept \cup {g}
           /\ remaining' = [remaining EXCEPT ![h] = left + g.amount]
           /\ nextToken' = nextToken + 1
           /\ token' = [token EXCEPT ![h] = nextToken]
           /\ UNCHANGED <<ledgerHalted, halted>>
  <2>1. HandedOut(t) \in Nat /\ HandedOut(t) <= Available(t)
    BY <1>2, HandedOutFits
  <2>2. granted' = granted - Amount(Expired(t)) + HandedOut(t) BY <1>2
  <2>3. g \in GrantType BY <2>1 DEF LeaseType, GrantType
  <2>4. remaining' = [remaining EXCEPT ![h] = left + HandedOut(t)] BY <1>2
  <2> HIDE DEF g, kept
  <2>5. IsFiniteSet(outstanding') /\ outstanding' \in SUBSET GrantType
    BY <1>1, <1>2, <2>3, FS_AddElement
  <2>6. granted' \in Int /\ granted' <= Budget
    BY <1>1, <2>1, <2>2 DEF LeaseType
  <2> QED BY <1>2, <2>1, <2>4, <2>5, <2>6 DEF LeaseType
<1>3. CASE /\ Reclaim(t)
           /\ ledgerHalted' = TRUE
           /\ halted' = [halted EXCEPT ![h] = TRUE]
           /\ remaining' = [remaining EXCEPT ![h] = left]
           /\ UNCHANGED <<nextToken, token>>
  <2>1. granted' = granted - Amount(Expired(t)) /\ outstanding' = kept
    BY <1>3 DEF Reclaim
  <2>2. granted' \in Int /\ granted' <= Budget
    BY <1>1, <2>1 DEF LeaseType, GrantedWithinBudget
  <2> QED BY <1>1, <1>3, <2>1, <2>2 DEF LeaseType
<1> QED BY <1>2, <1>3 DEF Renew

-----------------------------------------------------------------------------
(* What the holders have debited and not settled.                          *)
Unsettled == SumFunctionOnSet(spent, Holder)

LEMMA UnsettledType == LeaseType => Unsettled \in Nat
BY SumNat DEF LeaseType, Unsettled

LEMMA UnsettledChanges ==
  ASSUME LeaseType, NEW h \in Holder, NEW x \in Nat,
         spent' = [spent EXCEPT ![h] = x]
  PROVE  Unsettled' = Unsettled - spent[h] + x
<1>1. /\ \A k \in Holder : spent[k] \in Int
      /\ \A k \in Holder : spent'[k] \in Int
      /\ \A k \in Holder : k # h => spent'[k] = spent[k]
      /\ spent'[h] = x
  BY DEF LeaseType
<1>2. SumFunctionOnSet(spent', Holder) =
        SumFunctionOnSet(spent, Holder) - spent[h] + spent'[h]
  <2> IsFiniteSet(Holder) OBVIOUS
  <2> QED BY ONLY IsFiniteSet(Holder), h \in Holder, <1>1, SumUpdate
<1> QED BY <1>1, <1>2 DEF Unsettled

LEMMA LeaseInit == Init => LeaseInv
<1> SUFFICES ASSUME Init PROVE LeaseInv OBVIOUS
<1>1. LeaseType
  <2>1. outstanding \in SUBSET GrantType /\ IsFiniteSet(outstanding)
    BY FS_EmptySet DEF Init
  <2>2. /\ now \in Nat /\ granted \in Int /\ settled \in Nat
        /\ nextToken \in Nat /\ totalSpent \in Nat
    BY DEF Init
  <2>3. ledgerHalted \in BOOLEAN BY DEF Init
  <2>4. /\ remaining \in [Holder -> Int] /\ spent \in [Holder -> Nat]
        /\ halted \in [Holder -> BOOLEAN] /\ token \in [Holder -> Nat]
    BY DEF Init
  <2> QED BY <2>1, <2>2, <2>3, <2>4 DEF LeaseType
<1>2. SumFunctionOnSet(spent, Holder) = 0
  BY SumZero DEF Init
<1> QED BY <1>1, <1>2 DEF Init, LeaseInv, GrantedWithinBudget, NothingSettledTwice

LEMMA LeaseStep == LeaseInv /\ [Next]_vars => LeaseInv'
<1> SUFFICES ASSUME LeaseInv, [Next]_vars PROVE LeaseInv' OBVIOUS
<1> USE DEF GrantedWithinBudget
<1>a. LeaseType /\ granted <= Budget /\ settled + Unsettled <= totalSpent
      /\ Unsettled \in Nat
  BY UnsettledType DEF LeaseInv, NothingSettledTwice, Unsettled
<1>b. ASSUME LeaseType', granted' <= Budget, settled' + Unsettled' <= totalSpent'
      PROVE  LeaseInv'
  BY <1>b DEF LeaseInv, NothingSettledTwice, Unsettled
<1>1. CASE Tick
  <2>1. LeaseType' BY <1>1, <1>a DEF Tick, LeaseType, ledgerVars, leaseVars
  <2>2. UNCHANGED <<granted, settled, spent, totalSpent>>
    BY <1>1 DEF Tick, ledgerVars, leaseVars
  <2> QED BY <1>a, <1>b, <2>1, <2>2 DEF Unsettled
<1>2. CASE ReclaimExpired
  <2>1. now \in Nat BY <1>a DEF LeaseType
  <2>2. Amount(Expired(now)) \in Nat /\ IsFiniteSet(outstanding \ Expired(now))
    BY <1>a, <2>1, ExpiredAmount
  <2>3. /\ granted' = granted - Amount(Expired(now))
        /\ outstanding' = outstanding \ Expired(now)
        /\ UNCHANGED <<now, settled, ledgerHalted, nextToken, leaseVars, totalSpent>>
    BY <1>2 DEF ReclaimExpired, Reclaim
  <2>4. granted' \in Int /\ granted' <= Budget BY <1>a, <2>2, <2>3 DEF LeaseType
  <2>5. LeaseType' BY <1>a, <2>2, <2>3, <2>4 DEF LeaseType, leaseVars
  <2>6. Unsettled' = Unsettled BY <2>3 DEF Unsettled, leaseVars
  <2> QED BY <1>a, <1>b, <2>3, <2>4, <2>5, <2>6
<1>3. ASSUME NEW h \in Holder, LeaseRenew(h) PROVE LeaseInv'
  <2>1. /\ Renew(h, now, remaining[h]) /\ now \in Nat /\ remaining[h] \in Int
        /\ UNCHANGED <<now, settled, spent, totalSpent>>
    BY <1>3, <1>a DEF LeaseRenew, LeaseType
  <2>2. LeaseType' /\ granted' <= Budget
    BY <1>a, <2>1, RenewKeeps DEF LeaseType
  <2> QED BY <1>a, <1>b, <2>1, <2>2 DEF Unsettled
<1>4. ASSUME NEW h \in Holder, Debit(h) PROVE LeaseInv'
  <2> PICK cost \in 1 .. MaxCost :
        LET left == remaining[h] - cost
        IN /\ totalSpent + cost <= MaxSpent
           /\ spent' = [spent EXCEPT ![h] = @ + cost]
           /\ totalSpent' = totalSpent + cost
           /\ \/ /\ left > 0
                 /\ remaining' = [remaining EXCEPT ![h] = left]
                 /\ UNCHANGED <<granted, ledgerHalted, nextToken, outstanding, halted,
                                token>>
              \/ left <= 0 /\ Renew(h, 0, left)
           /\ UNCHANGED <<now, settled>>
    BY <1>4 DEF Debit
  <2> DEFINE left == remaining[h] - cost
  <2>1. left \in Int /\ cost \in Nat /\ spent[h] \in Nat /\ 0 \in Nat
    BY <1>a DEF LeaseType
  <2>2. Unsettled' = Unsettled - spent[h] + (spent[h] + cost)
    <3>1. spent' = [spent EXCEPT ![h] = spent[h] + cost] /\ spent[h] + cost \in Nat
      BY <2>1
    <3> QED BY <1>a, <3>1, UnsettledChanges
  <2>3. /\ spent' \in [Holder -> Nat] /\ totalSpent' \in Nat
        /\ UNCHANGED <<now, settled>> /\ totalSpent' = totalSpent + cost
    BY <1>a, <2>1 DEF LeaseType
  <2>4. settled' + Unsettled' <= totalSpent'
    BY <1>a, <2>1, <2>2, <2>3 DEF LeaseType
  <2>5. LeaseType' /\ granted' <= Budget
    <3>1. CASE /\ remaining' = [remaining EXCEPT ![h] = left]
               /\ UNCHANGED <<granted, ledgerHalted, nextToken, outstanding, halted,
                              token>>
      BY <1>a, <2>1, <2>3, <3>1 DEF LeaseType
    <3>2. CASE Renew(h, 0, left)
      <4> HIDE DEF left
      <4> QED BY <1>a, <2>1, <2>3, <3>2, RenewKeeps DEF LeaseType
    <3> QED BY <3>1, <3>2
  <2> QED BY <1>b, <2>4, <2>5
<1>5. ASSUME NEW h \in Holder, Release(h) PROVE LeaseInv'
  <2>1. /\ remaining' = [remaining EXCEPT ![h] = 0]
        /\ spent' = [spent EXCEPT ![h] = 0]
        /\ UNCHANGED <<now, ledgerHalted, nextToken, halted, token, totalSpent>>
    BY <1>5 DEF Release
  <2>2. Unsettled' = Unsettled - spent[h] + 0 BY <1>a, <2>1, UnsettledChanges
  <2>3. spent[h] \in Nat /\ Unused(h) \in Nat BY <1>a DEF LeaseType, Unused
  <2>4. /\ granted' \in {granted, granted - Unused(h)}
        /\ settled' \in {settled, settled + spent[h]}
        /\ outstanding' \subseteq outstanding
    BY <1>5 DEF Release
  <2>5. granted' \in Int /\ granted' <= Budget /\ settled' \in Nat
    BY <1>a, <2>3, <2>4 DEF LeaseType
  <2>6. outstanding' \in SUBSET GrantType /\ IsFiniteSet(outstanding')
    BY <1>a, <2>4, FS_Subset DEF LeaseType
  <2>7. LeaseType' BY <1>a, <2>1, <2>5, <2>6 DEF LeaseType
  <2>8. settled' + Unsettled' <= totalSpent'
    BY <1>a, <2>1, <2>2, <2>3, <2>4 DEF LeaseType
  <2> QED BY <1>b, <2>5, <2>7, <2>8
<1>6. ASSUME NEW h \in Holder, Resume(h) PROVE LeaseInv'
  <2>1. /\ spent' = [spent EXCEPT ![h] = 0]
        /\ UNCHANGED <<now, ledgerVars, totalSpent>>
    BY <1>6 DEF Resume
  <2>2. Unsettled' = Unsettled - spent[h] + 0 BY <1>a, <2>1, UnsettledChanges
  <2>3. LeaseType' BY <1>6, <1>a DEF Resume, LeaseType, ledgerVars
  <2>4. spent[h] \in Nat /\ settled' = settled /\ granted' = granted
    BY <1>a, <2>1 DEF LeaseType, ledgerVars
  <2>5. settled' + Unsettled' <= totalSpent'
    BY <1>a, <2>1, <2>2, <2>4 DEF LeaseType
  <2> QED BY <1>a, <1>b, <2>3, <2>4, <2>5
<1>7. CASE UNCHANGED vars
  <2>1. LeaseType' BY <1>7, <1>a DEF vars, ledgerVars, leaseVars, LeaseType
  <2>2. UNCHANGED <<granted, settled, spent, totalSpent>>
    BY <1>7 DEF vars, ledgerVars, leaseVars
  <2> QED BY <1>a, <1>b, <2>1, <2>2 DEF Unsettled
<1> QED BY <1>1, <1>2, <1>3, <1>4, <1>5, <1>6, <1>7 DEF Next

THEOREM LeaseInvariant == Spec => []LeaseInv
BY LeaseInit, LeaseStep, PTL DEF Spec

(* The ledger never hands out more than the budget: not when a grant is    *)
(* partial, when expired grants are reclaimed at a time other than that of *)
(* the next grant, when a superseded holder settles late or when a resumed *)
(* one starts with a lease of its own.                                     *)
THEOREM BudgetNeverExceeded == Spec => []GrantedWithinBudget
<1>1. LeaseInv => GrantedWithinBudget BY DEF LeaseInv
<1> QED BY <1>1, LeaseInvariant, PTL

(* No debit is settled twice: what the ledger has booked and what the      *)
(* holders still carry never exceed what was ever debited.                 *)
THEOREM SettledOnce == Spec => []NothingSettledTwice
<1>1. LeaseInv => NothingSettledTwice BY DEF LeaseInv
<1> QED BY <1>1, LeaseInvariant, PTL
=============================================================================
