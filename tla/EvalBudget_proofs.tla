-------------------------- MODULE EvalBudget_proofs --------------------------
(***************************************************************************)
(* Proofs about EvalBudget, for every budget and any number of top-level   *)
(* expressions.  IInv says what the counter is worth at each point of      *)
(* eval_source and is inductive; the safety properties follow from it.     *)
(***************************************************************************)
EXTENDS EvalBudget, TLAPS

LEMMA InitIInv == Init => IInv
  <1> SUFFICES ASSUME Init
               PROVE  IInv
    OBVIOUS
  <1> USE EvalBudgetAssumption DEF Init
  <1>1. TypeOK
    <2>1. pc \in PC /\ error \in BOOLEAN /\ over \in BOOLEAN /\ slow \in BOOLEAN
      BY DEF PC
    <2>2. budget \in 0 .. Budget /\ saved \in 0 .. Budget /\ polls \in 0 .. Budget
      OBVIOUS
    <2>3. left \in 0 .. MaxExprs /\ late \in Nat
      OBVIOUS
    <2> QED
      BY <2>1, <2>2, <2>3 DEF TypeOK
  <1>2. BudgetInv /\ OneBudget
    BY DEF BudgetInv, OneBudget
  <1>3. HistoryInv /\ CutAtFirstPoll
    BY DEF HistoryInv, CutAtFirstPoll
  <1> QED
    BY <1>1, <1>2, <1>3 DEF IInv

LEMMA NextIInv == IInv /\ [Next]_vars => IInv'
  <1> SUFFICES ASSUME IInv, [Next]_vars
               PROVE  IInv'
    OBVIOUS
  <1> USE EvalBudgetAssumption
      DEF IInv, TypeOK, PC, BudgetInv, OneBudget, Remaining, HistoryInv, CutAtFirstPoll, clock
  <1>1. CASE Run
    <2>1. TypeOK' /\ BudgetInv'
      BY <1>1 DEF Run
    <2>2. OneBudget' /\ CutAtFirstPoll'
      BY <1>1 DEF Run
    <2>3. HistoryInv'
      BY <1>1 DEF Run
    <2> QED
      BY <2>1, <2>2, <2>3
  <1>2. CASE Refuse
    BY <1>2 DEF Refuse
  <1>3. ASSUME NEW n \in Inputs, Parse(n)
        PROVE  IInv'
    <2>1. TypeOK' /\ BudgetInv'
      <3>1. left' \in 0 .. MaxExprs /\ over' \in BOOLEAN /\ slow' \in BOOLEAN
        BY <1>3 DEF Parse, Inputs
      <3>2. TypeOK'
        BY <1>3, <3>1 DEF Parse
      <3>3. BudgetInv'
        BY <1>3 DEF Parse
      <3> QED
        BY <3>2, <3>3
    <2>2. OneBudget' /\ CutAtFirstPoll'
      BY <1>3 DEF Parse, Inputs
    <2>3. HistoryInv'
      BY <1>3 DEF Parse, Inputs
    <2> QED
      BY <2>1, <2>2, <2>3
  <1>4. CASE NextExpr
    BY <1>4 DEF NextExpr
  <1>5. CASE LeaveLoop
    BY <1>5 DEF LeaveLoop
  <1>6. CASE Pause
    BY <1>6 DEF Pause
  <1>7. CASE Return
    BY <1>7 DEF Return
  <1>8. CASE Jump
    BY <1>8 DEF Jump
  <1>9. CASE Resume
    BY <1>9 DEF Resume
  <1>10. CASE Evaluated
    BY <1>10 DEF Evaluated
  <1>11. CASE Fails
    BY <1>11 DEF Fails
  <1>12. CASE CpuLimitPasses
    BY <1>12 DEF CpuLimitPasses
  \* Inside the compiler the budget is zero, so only evaluations are counted.
  <1>13. CASE Poll
    <2>1. pc = "evaluate" /\ budget > 0 /\ late = 0
      BY <1>13 DEF Poll
    <2>2. polls' = polls + 1 /\ late' \in {0, 1}
      BY <1>13, <2>1 DEF Poll, CountPoll
    <2>3. CASE budget = 1 \/ over
      <3>1. pc' = "loop" /\ error' = TRUE /\ budget' = 0
        BY <1>13, <2>1, <2>3 DEF Poll, Raise
      <3>2. TypeOK' /\ BudgetInv'
        BY <1>13, <2>1, <2>2, <3>1 DEF Poll
      <3>3. OneBudget' /\ CutAtFirstPoll'
        BY <1>13, <2>1, <2>2, <3>1 DEF Poll
      <3>4. HistoryInv'
        BY <1>13, <2>1, <2>2, <3>1 DEF Poll
      <3> QED
        BY <3>2, <3>3, <3>4
    <2>4. CASE ~(budget = 1 \/ over)
      <3>1. pc' = pc /\ budget' = budget - 1 /\ budget' > 0 /\ error' = error
        BY <1>13, <2>4 DEF Poll
      <3>2. late' = 0 /\ polls' = polls + 1
        BY <1>13, <2>1, <2>4 DEF Poll, CountPoll
      <3>3. UNCHANGED <<saved, left, over, slow>>
        BY <1>13 DEF Poll
      <3>4. TypeOK' /\ BudgetInv'
        BY <2>1, <3>1, <3>2, <3>3
      <3>5. OneBudget' /\ CutAtFirstPoll'
        BY <2>1, <3>1, <3>2, <3>3
      <3>6. HistoryInv'
        BY <2>1, <3>1, <3>2, <3>3
      <3> QED
        BY <3>4, <3>5, <3>6
    <2> QED
      BY ONLY <2>3, <2>4
  <1>14. CASE PollOff
    <2>1. pc = "compiling"
      BY <1>14 DEF PollOff
    <2> QED
      BY <1>14, <2>1 DEF PollOff, CountPoll
  <1>15. CASE UNCHANGED vars
    BY <1>15 DEF vars
  <1> QED
    BY <1>1, <1>2, <1>3, <1>4, <1>5, <1>6, <1>7, <1>8, <1>9, <1>10, <1>11,
       <1>12, <1>13, <1>14, <1>15
       DEF Next, Harness

\* IInv holds in every state the harness reaches.
THEOREM Invariance == Spec => []IInv
  BY InitIInv, NextIInv, PTL DEF Spec

\* Every variable keeps its type; the counter never goes below zero.
THEOREM TypeCorrect == Spec => []TypeOK
  <1>1. IInv => TypeOK
    BY DEF IInv
  <1> QED
    BY <1>1, Invariance, PTL

\* No expression is evaluated with the hook switched off.
THEOREM Limited == Spec => []NeverUnlimited
  <1>1. IInv => NeverUnlimited
    BY DEF IInv, BudgetInv, NeverUnlimited
  <1> QED
    BY <1>1, Invariance, PTL

\* Between inputs the hook is switched off.
THEOREM Off == Spec => []OffBetweenInputs
  <1>1. IInv => OffBetweenInputs
    BY DEF IInv, BudgetInv, OffBetweenInputs
  <1> QED
    BY <1>1, Invariance, PTL

\* The expressions of an input share one budget, which only they draw on.
THEOREM SharedBudget == Spec => []OneBudget
  <1>1. IInv => OneBudget
    BY DEF IInv
  <1> QED
    BY <1>1, Invariance, PTL

\* An input past its CPU limit ends at its next poll.
THEOREM Backstop == Spec => []CutAtFirstPoll
  <1>1. IInv => CutAtFirstPoll
    BY DEF IInv
  <1> QED
    BY <1>1, Invariance, PTL

\* The compiler is never charged, so no budget error is raised inside it.
THEOREM Uncharged == Spec => CompilerNotCharged
  <1>1. ASSUME IInv, IInv', [Next]_vars
        PROVE  [pc = "compiling" => budget' >= budget]_vars
    <2> SUFFICES ASSUME pc = "compiling"
                 PROVE  budget' >= budget
      OBVIOUS
    <2>1. budget = 0
      BY <1>1 DEF IInv, BudgetInv
    <2>2. budget' \in Nat
      BY <1>1, EvalBudgetAssumption DEF IInv, TypeOK
    <2> QED
      BY <2>1, <2>2
  <1> QED
    BY <1>1, Invariance, PTL DEF Spec, CompilerNotCharged
=============================================================================
