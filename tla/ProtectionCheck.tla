--------------------------- MODULE ProtectionCheck ---------------------------
(***************************************************************************)
(* A check of routines that runs none of them: it follows what is known of *)
(* a routine's variables from step to step, whatever R collects and where  *)
(* an evaluation or a check fails.  What it accepts is protected: that is  *)
(* proved in Protection_proofs.                                            *)
(*                                                                         *)
(* What is known at a step, a view, is                                     *)
(*   stage, at, error   where the routine is and the last outcome          *)
(*   slots   for each object pushed in this stage a variable that still    *)
(*           points to it, or "?"                                          *)
(*   top     the R_ToplevelExec it is in, with the height of slots         *)
(*   rooted  variables whose objects were on the stack when the stage      *)
(*           began, or are preserved                                       *)
(*   fields  elements of objects that have not been freed: element n of    *)
(*           the object of one variable is the object of another, or "?"   *)
(*   safe    variables whose objects have not been freed                   *)
(***************************************************************************)
EXTENDS Protection

ViewsOf(s) ==
    LET v == VariablesOf(s)
    IN  [stage : {1, 2}, at : Nat, error : BOOLEAN, slots : Seq(v \cup {"?"}),
         top : [height : Nat, behind : Nat], rooted : SUBSET v,
         fields : SUBSET [of : v, n : Nat, is : v \cup {"?"}], safe : SUBSET v]

Start ==
    [stage |-> 1, at |-> 1, error |-> FALSE, slots |-> <<>>, top |-> Outside,
     rooted |-> {"nil"}, fields |-> {}, safe |-> {"nil"}]

Roots(x) == x.rooted \cup (Range(x.slots) \ {"?"})

\* What is held, and the elements that are known of it, outlives a collection.
Spared(x, held) ==
    Roots(x) \cup held
        \cup {t.is : t \in {t \in x.fields : t.of \in Roots(x) \cup held /\ t.is # "?"}}

Swept(x, held) ==
    [x EXCEPT !.safe = Spared(x, held),
              !.fields = {t \in @ : t.of \in Spared(x, held)}]

\* v points to something else.
Assigned(x, v) ==
    [x EXCEPT !.slots  = [k \in DOMAIN @ |-> IF @[k] = v THEN "?" ELSE @[k]],
              !.rooted = @ \ {v},
              !.fields = {[t EXCEPT !.is = IF @ = v THEN "?" ELSE @] :
                             t \in {t \in @ : t.of # v}}]

Ahead(x) == [x EXCEPT !.at = @ + 1]

Safely(x, v) == [x EXCEPT !.safe = @ \cup {v}]

\* Variables that never point to the object of another: those that only take
\* what an allocation, an evaluation or nothing gives them.
Owners(s) ==
    {v \in VariablesOf(s) :
        \A k \in {1, 2} : \A i \in DOMAIN Program[s].code[k] :
            Program[s].code[k][i].do \in {"get", "else"} => Program[s].code[k][i].v # v}

-----------------------------------------------------------------------------
(* The views after a step *)

\* A call that may collect has given v something.
Given(x, step) == Ahead(Safely(Assigned(Swept(x, Range(step.args)), step.v), step.v))

AfterLet(x, step) ==
    [Given(x, step) EXCEPT
        !.fields = @ \cup {[of |-> step.v, n |-> k, is |-> step.args[k]] : k \in DOMAIN step.args}]

AfterProtect(x, step) == [Ahead(x) EXCEPT !.slots = Append(@, step.v)]

AfterUnprotect(x, step) == [Ahead(x) EXCEPT !.slots = SubSeq(@, 1, Len(@) - step.n)]

AfterPreserve(x, step) ==
    [Ahead(Swept(x, Range(step.args))) EXCEPT !.rooted = @ \cup {step.v}]

\* Writing to c may write to what another variable than an owner points to.
AfterAttach(s, x, step) ==
    [Ahead(x) EXCEPT
        !.fields = {[t EXCEPT !.is =
                        IF t.n # step.n THEN @
                        ELSE IF t.of = step.v THEN step.args[2]
                        ELSE IF {t.of, step.v} \subseteq Owners(s) THEN @
                        ELSE "?"] : t \in @}]

AfterGet(x, step) ==
    [Ahead(Safely(Assigned(x, step.v), step.v)) EXCEPT
        !.fields = {[t EXCEPT !.is =
                        IF t.of = step.args[1] /\ t.n = step.n THEN step.v ELSE @] : t \in @}]

AfterCheck(x) == {[Ahead(x) EXCEPT !.error = e] : e \in BOOLEAN}

AfterIf(x, step) ==
    IF (step.do = "if error") = x.error THEN Ahead(x) ELSE [x EXCEPT !.at = @ + step.n + 1]

\* An evaluation, which gives v something new, or fails and gives it nothing
\* or another variable's object.
AfterEvaluated(x, step) ==
    [Given(x, step) EXCEPT !.error = IF step.do = "try" THEN FALSE ELSE @]

AfterFailed(x, step) ==
    [Given(x, step) EXCEPT !.error = IF step.do = "try" THEN TRUE ELSE @]

AfterEnter(x, step) ==
    [Ahead(x) EXCEPT !.top = [height |-> Len(x.slots), behind |-> x.at + step.n + 2],
                     !.error = FALSE]

AfterLeave(x) == [Ahead(x) EXCEPT !.top = Outside, !.error = FALSE]

AfterJump(x, step) ==
    [Swept(x, Range(step.args)) EXCEPT
        !.slots = SubSeq(@, 1, x.top.height), !.at = x.top.behind,
        !.top = Outside, !.error = TRUE]

\* The next input: only the statics still point to something.
AfterInput(s, x) ==
    LET lasting == Roots(x) \cap Program[s].statics
    IN  [x EXCEPT !.stage = 2, !.at = 1, !.slots = <<>>,
                  !.rooted = lasting \cup {"nil"}, !.safe = lasting \cup {"nil"},
                  !.fields = {[t EXCEPT !.is = IF @ \in lasting THEN @ ELSE "?"] :
                                 t \in {t \in @ : t.of \in lasting}}]

-----------------------------------------------------------------------------
(* The check *)

Ended(s, x) == x.at \notin DOMAIN Program[s].code[x.stage]

StepAt(s, x) == Program[s].code[x.stage][x.at]

Outcomes(s, x, step) ==
    CASE step.do = "let"       -> {AfterLet(x, step)}
      [] step.do = "protect"   -> {AfterProtect(x, step)}
      [] step.do = "unprotect" -> {AfterUnprotect(x, step)}
      [] step.do = "preserve"  -> {AfterPreserve(x, step)}
      [] step.do = "attach"    -> {AfterAttach(s, x, step)}
      [] step.do = "get"       -> {AfterGet(x, step)}
      [] step.do = "use"       -> {Ahead(x)}
      [] step.do = "check"     -> AfterCheck(x)
      [] step.do \in {"if ok", "if error"} -> {AfterIf(x, step)}
      [] step.do = "eval"      -> {AfterEvaluated(x, step)}
      [] step.do \in {"try", "else"} -> {AfterEvaluated(x, step), AfterFailed(x, step)}
      [] step.do = "enter"     -> {AfterEnter(x, step)}
      [] step.do = "leave"     -> {AfterLeave(x)}
      [] OTHER                 -> {}

Jumps(x, step) ==
    IF x.top # Outside /\ step.do \in {"let", "eval", "try", "else"}
    THEN {AfterJump(x, step)} ELSE {}

Successors(s, x) ==
    IF Ended(s, x) THEN {AfterInput(s, x)}
    ELSE Outcomes(s, x, StepAt(s, x)) \cup Jumps(x, StepAt(s, x))

\* A step needs its arguments, does not unprotect what was protected before
\* its R_ToplevelExec, and takes an element where there is one.
StepAllowed(x, step) ==
    /\ Range(step.args) \subseteq x.safe
    /\ step.do \in {"let", "eval", "try", "else", "get"} =>
          step.v \notin Range(step.args)
    /\ step.do = "unprotect" => step.n + x.top.height <= Len(x.slots)
    /\ step.do = "get" => \E t \in x.fields : t.of = step.args[1] /\ t.n = step.n

\* A routine ends outside of R_ToplevelExec and leaves the statics reachable,
\* and an input the stack as it was.
EndAllowed(s, x) ==
    /\ x.top = Outside
    /\ Program[s].statics \subseteq Roots(x)
    /\ x.stage = 2 => x.slots = <<>>

Allowed(s, x) == IF Ended(s, x) THEN EndAllowed(s, x) ELSE StepAllowed(x, StepAt(s, x))

\* Bound on the rounds after which no view is new.
Rounds(s) == Len(Program[s].code[1]) + 3 * Len(Program[s].code[2]) + 4

\* The views that the steps lead to.
Views(s) ==
    LET known[r \in 0 .. Rounds(s)] ==
            IF r = 0 THEN [all |-> {Start}, last |-> {Start}]
            ELSE LET before == known[r - 1]
                     new == (UNION {Successors(s, x) : x \in before.last}) \ before.all
                 IN  [all |-> before.all \cup new, last |-> new]
    IN known[Rounds(s)].all

Accepted(s) ==
    LET views == Views(s)
    IN  /\ Start \in views
        /\ \A x \in views :
              x \in ViewsOf(s) /\ Allowed(s, x) /\ Successors(s, x) \subseteq views

ASSUME RoutinesAccepted == \A s \in Scenarios : Accepted(s)
=============================================================================
