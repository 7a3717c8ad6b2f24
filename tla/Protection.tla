----------------------------- MODULE Protection -----------------------------
(***************************************************************************)
(* What keeps R objects alive while the C code of the harnesses holds      *)
(* them.  R may collect garbage in any call that allocates, and frees what *)
(* is not reachable from the protect stack; a C variable keeps nothing     *)
(* alive.  Rf_protect pushes, Rf_unprotect(n) pops, what fuzz_target_init  *)
(* leaves on the stack stays for good, and a jump out of R_ToplevelExec    *)
(* puts the stack back to where it was.                                    *)
(***************************************************************************)
EXTENDS Routines, Functions

CONSTANTS
    Program,       \* what each scenario runs
    Scenarios,     \* the ones run
    MaxObjects     \* the heap

VariablesOf(s) ==
    {"nil"} \cup {step.v : step \in UNION {Range(Program[s].code[k]) : k \in {1, 2}}}

StepsOf(s) ==
    {step \in [do : STRING, v : VariablesOf(s), args : Seq(VariablesOf(s)), n : Nat] :
        /\ step.do \in {"protect", "preserve", "attach"} => step.v \in Range(step.args)
        /\ step.do = "get" => 1 \in DOMAIN step.args
        /\ step.do \in {"attach", "else"} => 2 \in DOMAIN step.args}

ASSUME ProtectionAssumption ==
    /\ MaxObjects \in Nat
    /\ Scenarios \subseteq DOMAIN Program
    /\ \A s \in Scenarios :
          /\ \A k \in {1, 2} : Program[s].code[k] \in Seq(StepsOf(s))
          /\ Program[s].statics \subseteq VariablesOf(s)

-----------------------------------------------------------------------------

VARIABLES
    scenario,
    stage,    \* 1 in fuzz_target_init, 2 in fuzz_target_run
    at,       \* the next step
    error,    \* the last test, evaluation or toplevel call failed
    stack,    \* the protect stack
    base,     \* its height when the stage began
    kept,     \* preserved objects
    bound,    \* the object that each C variable points to, 0 for none
    refers,   \* the objects not yet freed, each with what it refers to
    toplevel  \* the R_ToplevelExec it is in: where a jump goes

heap == <<stack, kept, bound, refers>>
vars == <<scenario, stage, at, error, base, toplevel, heap>>

\* A plausible set_lines that leaves its vector to the calls.
CodeLeavingLines ==
    IF scenario = "sort" /\ stage = 2 THEN SortInputUnprotected
    ELSE Program[scenario].code[stage]

\* A plausible eval_source that unprotects only after a success.
CodeLeavingLoop ==
    IF scenario = "eval" /\ stage = 2 THEN EvalSource(EvalExpressionLeaving)
    ELSE Program[scenario].code[stage]

\* A plausible start-up that unprotects what it protected last.
CodeExposing ==
    IF stage = 1 THEN Program[scenario].code[1] \o Unprotect(1)
    ELSE Program[scenario].code[2]

\* fuzz_target_init or fuzz_target_run.
Code == Program[scenario].code[stage]
Now == Code[at]
Running == at \in DOMAIN Code

Outside == [height |-> 0, behind |-> 0]

Init ==
    /\ scenario \in Scenarios
    /\ stage = 1
    /\ at = 1
    /\ error = FALSE
    /\ stack = <<>>
    /\ base = 0
    /\ kept = {}
    /\ bound = [v \in VariablesOf(scenario) |-> 0]
    /\ refers = <<>>
    /\ toplevel = Outside

\* Objects and what they refer to.
Widened(objects) ==
    objects \cup ((UNION {Range(refers[o]) : o \in objects \cap DOMAIN refers}) \ {0})

\* What can be reached from a set of objects, the freed ones that it ends at
\* included.
Reachable(objects) ==
    LET from[n \in 0 .. MaxObjects] ==
            IF n = 0 THEN objects \ {0} ELSE Widened(from[n - 1])
    IN from[MaxObjects]

\* What a collection leaves, while an allocator or evaluator holds objects.
Collected(held) == Reachable(Range(stack) \cup kept \cup held) \cap DOMAIN refers

\* Objects of the arguments of this step.
Arguments == {bound[v] : v \in Range(Now.args)}

\* R collects when it sees fit.  Here it does in every call that may, as
\* under gctorture(): what is reachable does not depend on what has been
\* collected, so this frees all that any other schedule could have freed.
Collect == refers' = [o \in Collected(Arguments) |-> refers[o]]

\* A new object in v, at an address that neither an object nor a variable has.
Allocate(v, contents) ==
    LET live == Collected(Arguments)
        free == (1 .. MaxObjects) \ (live \cup Range(bound))
        new  == CHOOSE a \in free : \A b \in free : a <= b
    IN  /\ free # {}
        /\ bound' = [bound EXCEPT ![v] = new]
        /\ refers' = [o \in live \cup {new} |-> IF o = new THEN contents ELSE refers[o]]

Is(do) == Running /\ Now.do = do

Step1 == at' = at + 1

StepLet ==
    /\ Is("let")
    /\ Allocate(Now.v, [i \in DOMAIN Now.args |-> bound[Now.args[i]]])
    /\ Step1
    /\ UNCHANGED <<scenario, stage, error, stack, base, kept, toplevel>>

StepProtect ==
    /\ Is("protect")
    /\ stack' = Append(stack, bound[Now.v])
    /\ Step1
    /\ UNCHANGED <<scenario, stage, error, base, kept, bound, refers, toplevel>>

StepUnprotect ==
    /\ Is("unprotect")
    /\ stack' = SubSeq(stack, 1, Len(stack) - Now.n)
    /\ Step1
    /\ UNCHANGED <<scenario, stage, error, base, kept, bound, refers, toplevel>>

StepPreserve ==
    /\ Is("preserve")
    /\ kept' = kept \cup {bound[Now.v]}
    /\ Collect
    /\ Step1
    /\ UNCHANGED <<scenario, stage, error, stack, base, bound, toplevel>>

StepAttach ==
    /\ Is("attach")
    /\ refers' = [o \in DOMAIN refers |->
                     IF o = bound[Now.v]
                     THEN [refers[o] EXCEPT ![Now.n] = bound[Now.args[2]]]
                     ELSE refers[o]]
    /\ Step1
    /\ UNCHANGED <<scenario, stage, error, stack, base, kept, bound, toplevel>>

StepGet ==
    /\ Is("get")
    /\ bound' = [bound EXCEPT ![Now.v] = refers[bound[Now.args[1]]][Now.n]]
    /\ Step1
    /\ UNCHANGED <<scenario, stage, error, stack, base, kept, refers, toplevel>>

StepUse ==
    /\ Is("use")
    /\ Step1
    /\ UNCHANGED <<scenario, stage, error, base, toplevel, heap>>

StepCheck ==
    /\ Is("check")
    /\ error' \in BOOLEAN
    /\ Step1
    /\ UNCHANGED <<scenario, stage, base, toplevel, heap>>

StepIf ==
    /\ Is("if ok") \/ Is("if error")
    /\ at' = IF (Now.do = "if error") = error THEN at + 1 ELSE at + Now.n + 1
    /\ UNCHANGED <<scenario, stage, error, base, toplevel, heap>>

\* R_tryEval, or Rf_eval that returns.
StepEvaluated ==
    /\ Is("eval") \/ Is("try") \/ Is("else")
    /\ Allocate(Now.v, <<>>)
    /\ error' = IF Now.do = "try" THEN FALSE ELSE error
    /\ Step1
    /\ UNCHANGED <<scenario, stage, stack, base, kept, toplevel>>

\* The jump ends in R_tryEval itself, which restores the stack.
StepFailed ==
    /\ Is("try") \/ Is("else")
    /\ Collect
    /\ bound' = [bound EXCEPT ![Now.v] =
                    IF Now.do = "else" THEN bound[Now.args[2]] ELSE 0]
    /\ error' = IF Now.do = "try" THEN TRUE ELSE error
    /\ Step1
    /\ UNCHANGED <<scenario, stage, stack, base, kept, toplevel>>

Enter ==
    /\ Is("enter")
    /\ toplevel' = [height |-> Len(stack), behind |-> at + Now.n + 2]
    /\ error' = FALSE
    /\ Step1
    /\ UNCHANGED <<scenario, stage, base, heap>>

Leave ==
    /\ Is("leave")
    /\ toplevel' = Outside
    /\ error' = FALSE
    /\ Step1
    /\ UNCHANGED <<scenario, stage, base, heap>>

\* An allocation hits the vector limit, Rf_eval fails, or an interrupt goes
\* past R_tryEval.
Jump ==
    /\ toplevel # Outside
    /\ \E do \in {"let", "eval", "try", "else"} : Is(do)
    /\ Collect
    /\ stack' = SubSeq(stack, 1, toplevel.height)
    /\ at' = toplevel.behind
    /\ toplevel' = Outside
    /\ error' = TRUE
    /\ UNCHANGED <<scenario, stage, base, kept, bound>>

\* fuzz_target_init or fuzz_target_run returns; the next input.
NextInput ==
    /\ ~Running
    /\ stage' = 2
    /\ at' = 1
    /\ base' = Len(stack)
    /\ bound' = [v \in DOMAIN bound |-> IF v \in Program[scenario].statics THEN bound[v] ELSE 0]
    /\ UNCHANGED <<scenario, error, stack, kept, refers, toplevel>>

Next ==
    \/ StepLet \/ StepProtect \/ StepUnprotect \/ StepPreserve
    \/ StepAttach \/ StepGet \/ StepUse \/ StepCheck \/ StepIf
    \/ StepEvaluated \/ StepFailed
    \/ Enter \/ Leave \/ Jump \/ NextInput

Spec == Init /\ [][Next]_vars

-----------------------------------------------------------------------------
(* Properties *)

\* character.c:185, of every routine: whatever an object is needed for, it
\* has not been collected, nor has anything that can be reached from it.
NothingInUseCollected ==
    Running => Reachable(Arguments) \subseteq DOMAIN refers

\* A run leaves the protect stack as it found it, whatever failed in it: one
\* protect too many per input ends in an overflow of the stack, one unprotect
\* too many exposes what fuzz_target_init protected.
StackBalanced == ~Running /\ stage = 2 => Len(stack) = base

\* Between inputs a target's calls and vectors, with all they hold, are safe
\* from any collection to come.
CallsRooted ==
    ~Running =>
        Reachable({bound[v] : v \in Program[scenario].statics})
            \subseteq Reachable(Range(stack) \cup kept)
=============================================================================
