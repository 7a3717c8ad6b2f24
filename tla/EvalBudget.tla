----------------------------- MODULE EvalBudget -----------------------------
(***************************************************************************)
(* How harnesses/eval.c ends an input that would run forever.  R polls     *)
(* R_PolledEvents every few evaluations; eval_poll_budget is that hook and *)
(* counts the polls of one input down from FUZZ_EVAL_BUDGET.  A count of   *)
(* zero switches the hook off: that is how eval_compile pauses it, how an  *)
(* input leaves it, and also what a spent budget looks like.               *)
(*                                                                         *)
(* The parser, the compiler and the evaluator are R's: an input chooses    *)
(* freely what they do next.  Errors and interrupts inside R_tryEvalSilent *)
(* end in its error flag; elsewhere in eval_source they unwind to          *)
(* R_ToplevelExec in eval_run.                                             *)
(***************************************************************************)
EXTENDS Naturals

CONSTANTS Budget,    \* FUZZ_EVAL_BUDGET
          MaxExprs   \* bound on an input's top-level expressions

ASSUME EvalBudgetAssumption ==
    /\ Budget \in Nat \ {0}
    /\ MaxExprs \in Nat

VARIABLES
    pc,      \* where the input is in fuzz_target_run .. eval_source
    budget,  \* eval_budget
    saved,   \* eval_compile's local copy of it
    left,    \* top-level expressions the loop has still to start
    error,   \* eval_source's *error
    over,    \* clock() - eval_cpu_start exceeds FUZZ_EVAL_CPU_LIMIT
    polls,   \* history: polls this input has made while evaluating
    slow,    \* history: it has evaluated for longer than the CPU limit
    late     \* history: polls it has made while evaluating since then

clock == <<over, slow>>
vars  == <<pc, budget, saved, left, error, clock, polls, late>>

PC == {"idle", "parse", "loop", "compile", "compiling", "evaluate", "unwound"}

Inputs == 0 .. MaxExprs

-----------------------------------------------------------------------------

Init ==
    /\ pc = "idle"
    /\ budget = 0
    /\ saved = 0
    /\ left = 0
    /\ error = FALSE
    /\ over = FALSE
    /\ polls = 0
    /\ slow = FALSE
    /\ late = 0

\* An input of legal size, without NULs and in UTF-8 reaches eval_run; any
\* other is rejected before anything changes.  The warm-up source of
\* fuzz_target_init goes the same way, before the first input.
Run ==
    /\ pc = "idle"
    /\ pc' = "parse"
    /\ error' = FALSE
    /\ polls' = 0
    /\ late' = 0
    /\ UNCHANGED <<budget, saved, left, clock>>

\* Not R source, or a parse tree over the depth or node limit.
Refuse ==
    /\ pc = "parse"
    /\ pc' = "unwound"
    /\ error' = TRUE
    /\ UNCHANGED <<budget, saved, left, clock, polls, late>>

\* Parsed into n expressions: the one budget and CPU allowance they share.
Parse(n) ==
    /\ pc = "parse"
    /\ pc' = "loop"
    /\ left' = n
    /\ over' = FALSE
    /\ slow' = FALSE
    /\ budget' = Budget
    /\ UNCHANGED <<saved, error, polls, late>>

NextExpr ==
    /\ pc = "loop"
    /\ ~error
    /\ left > 0
    /\ pc' = "compile"
    /\ left' = left - 1
    /\ UNCHANGED <<budget, saved, error, clock, polls, late>>

LeaveLoop ==
    /\ pc = "loop"
    /\ error \/ left = 0
    /\ pc' = "unwound"
    /\ budget' = 0
    /\ UNCHANGED <<saved, left, error, clock, polls, late>>

\* A jump out of R code that no R_tryEvalSilent encloses: an allocation that
\* fails in the parser, or in building the call to the compiler.  It skips
\* the rest of eval_source.
Jump ==
    /\ pc \in {"parse", "compile"}
    /\ pc' = "unwound"
    /\ UNCHANGED <<budget, saved, left, error, clock, polls, late>>

Pause ==
    /\ pc = "compile"
    /\ pc' = "compiling"
    /\ saved' = budget
    /\ budget' = 0
    /\ UNCHANGED <<left, error, clock, polls, late>>

\* A plausible eval_compile restores the budget only when it succeeded.
ResumeForgotten ==
    /\ pc = "compiling"
    /\ pc' = "evaluate"
    /\ budget' \in {budget, saved}
    /\ UNCHANGED <<saved, left, error, clock, polls, late>>

\* A plausible loop gives each expression its own budget and clock.
ResumeAfresh ==
    /\ pc = "compiling"
    /\ pc' = "evaluate"
    /\ budget' = Budget
    /\ over' = FALSE
    /\ UNCHANGED <<saved, left, error, polls, slow, late>>

\* The compiler returned byte-code, or declined and the expression itself is
\* evaluated.
Resume ==
    /\ pc = "compiling"
    /\ pc' = "evaluate"
    /\ budget' = saved
    /\ UNCHANGED <<saved, left, error, clock, polls, late>>

\* R_tryEvalSilent returns a value.
Evaluated ==
    /\ pc = "evaluate"
    /\ pc' = "loop"
    /\ UNCHANGED <<budget, saved, left, error, clock, polls, late>>

\* R_tryEvalSilent catches an error of the input, or an interrupt.
Fails ==
    /\ pc = "evaluate"
    /\ pc' = "loop"
    /\ error' = TRUE
    /\ UNCHANGED <<budget, saved, left, clock, polls, late>>

\* CPU time passes, in the compiler as well as in the evaluator.
CpuLimitPasses ==
    /\ pc \in {"loop", "compile", "compiling", "evaluate"}
    /\ ~slow
    /\ over' = TRUE
    /\ slow' = TRUE
    /\ UNCHANGED <<pc, budget, saved, left, error, polls, late>>

\* What a poll's error does: it unwinds past all of the input's code, as none
\* of the allowed primitives catches an error, to the R_tryEvalSilent around
\* the evaluation, which sets the error flag, or to the one around the
\* compiler, which makes it decline.
Raise ==
    IF pc = "evaluate"
    THEN pc' = "loop" /\ error' = TRUE
    ELSE pc' = pc /\ UNCHANGED error

CountPoll ==
    /\ polls' = IF pc = "evaluate" THEN polls + 1 ELSE polls
    /\ late'  = IF pc = "evaluate" /\ slow THEN late + 1 ELSE late

\* A plausible eval_poll_budget tests eval_budget-- against zero.
PollPostDecrement ==
    /\ pc \in {"compiling", "evaluate"}
    /\ budget > 0
    /\ CountPoll
    /\ \/ over /\ budget' = 0 /\ Raise
       \/ ~over /\ budget' = budget - 1 /\ UNCHANGED <<pc, error>>
    /\ UNCHANGED <<saved, left, clock>>

\* eval_poll_budget, with the budget counting: R polls from the evaluator,
\* from loops in C and from the compiler.
Poll ==
    /\ pc \in {"compiling", "evaluate"}
    /\ budget > 0
    /\ CountPoll
    /\ \/ /\ budget = 1 \/ over
          /\ budget' = 0
          /\ Raise
       \/ /\ budget > 1 /\ ~over
          /\ budget' = budget - 1
          /\ UNCHANGED <<pc, error>>
    /\ UNCHANGED <<saved, left, clock>>

\* The hook switched off: it returns at once, and only the history of an
\* evaluation that should have been limited changes (up to a bound).
PollOff ==
    /\ pc \in {"compiling", "evaluate"}
    /\ budget = 0
    /\ polls <= Budget
    /\ CountPoll
    /\ UNCHANGED <<pc, budget, saved, left, error, clock>>

\* A plausible eval_run leaves the reset to eval_source.
ReturnAsIs ==
    /\ pc = "unwound"
    /\ pc' = "idle"
    /\ UNCHANGED <<budget, saved, left, error, clock, polls, late>>

\* Back in eval_run: reset once more, for the jumps that skipped LeaveLoop.
Return ==
    /\ pc = "unwound"
    /\ pc' = "idle"
    /\ budget' = 0
    /\ UNCHANGED <<saved, left, error, clock, polls, late>>

\* What eval_source and eval_run do next by themselves.
Harness ==
    \/ Refuse \/ (\E n \in Inputs : Parse(n))
    \/ NextExpr \/ LeaveLoop \/ Pause \/ Return

Next ==
    \/ Run \/ Harness
    \/ Jump \/ Resume \/ Evaluated \/ Fails
    \/ CpuLimitPasses \/ Poll \/ PollOff

Spec == Init /\ [][Next]_vars

\* The harness keeps going and the compiler returns: the parse tree is
\* bounded.  The evaluator need never return, but it polls again and again:
\* every ten evaluations (instrumentation/0001).
Fairness == WF_vars(Harness) /\ WF_vars(Resume) /\ WF_vars(Poll)

FairSpec == Spec /\ Fairness

-----------------------------------------------------------------------------
(* Properties *)

\* The type invariant: the counter stays between zero and the budget.
TypeOK ==
    /\ pc \in PC
    /\ budget \in 0 .. Budget
    /\ saved \in 0 .. Budget
    /\ left \in 0 .. MaxExprs
    /\ error \in BOOLEAN
    /\ over \in BOOLEAN
    /\ polls \in 0 .. Budget
    /\ slow \in BOOLEAN
    /\ late \in Nat

\* The budget the expressions not yet evaluated will have.
Remaining == IF pc = "compiling" THEN saved ELSE budget

\* Every path out of an input, a jump past eval_source included, leaves the
\* budget switched off, so that what R does between inputs is not cut short.
OffBetweenInputs == pc = "idle" => budget = 0

\* No expression is ever evaluated with the budget at zero, which the hook
\* would take for "no limit": the error that spends it always ends the loop.
NeverUnlimited == pc = "evaluate" => budget > 0

\* All top-level expressions of an input draw on one budget: every poll the
\* evaluator makes is charged to it, whichever expression makes it, and the
\* compiler's polls in between are not.
OneBudget ==
    pc \in {"loop", "compile", "compiling", "evaluate"} /\ ~error
        => polls + Remaining = Budget

\* Once the CPU limit has passed, wherever that was, the first poll of an
\* evaluation ends the input, in whichever expression it comes.
CutAtFirstPoll == late <= 1

\* The hook never raises its error inside the compiler, which would swallow
\* it: the budget is spent only by an evaluation.
CompilerNotCharged == [][pc = "compiling" => budget' >= budget]_vars

\* An input ends, however long its code would loop.
InputEnds == pc # "idle" ~> pc = "idle"

\* The invariant that carries the properties above: what the count is worth
\* at each point of eval_source.
BudgetInv ==
    /\ pc \in {"idle", "parse", "compiling"} => budget = 0
    /\ pc \in {"compile", "evaluate"} \/ (pc = "loop" /\ ~error) => budget > 0
    /\ pc = "compiling" => saved > 0
    /\ pc \in {"compile", "compiling", "evaluate"} => ~error

HistoryInv ==
    /\ pc = "parse" => polls = 0 /\ late = 0 /\ ~error
    /\ pc \in {"loop", "compile", "compiling", "evaluate"} => over = slow
    /\ pc \in {"compile", "compiling", "evaluate"} \/ (pc = "loop" /\ ~error)
          => late = 0

IInv == TypeOK /\ BudgetInv /\ OneBudget /\ HistoryInv /\ CutAtFirstPoll
=============================================================================
