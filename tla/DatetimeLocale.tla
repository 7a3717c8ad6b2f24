--------------------------- MODULE DatetimeLocale ---------------------------
(***************************************************************************)
(* Which LC_CTYPE a slot of harnesses/datetime.c runs in.  Two views of it *)
(* exist, the C library's and the one R caches; R_strptime picks its wide  *)
(* or narrow path by R's, and R's changes only in Sys.setlocale.  The      *)
(* harness remembers in ctype_is_utf8 what it last asked for, and asks     *)
(* again only when a slot needs the other setting.                         *)
(***************************************************************************)
EXTENDS Integers

CONSTANTS NCalls,          \* N_CALLS
          FirstUtf8Call,   \* FIRST_UTF8_CALL
          MayFail          \* may Sys.setlocale fail, for want of memory?

DatetimeLimits ==
    /\ NCalls \in Nat \ {0}
    /\ FirstUtf8Call \in 0 .. NCalls
    /\ MayFail \in BOOLEAN

CallNumbers == 0 .. NCalls - 1

VARIABLES
    pc,         \* "init", "probe", "idle", "switch" or "evaluate"
    slot,       \* the slot running, or being warmed up
    warm,       \* the warm-up of fuzz_target_init is over
    startup,    \* is the runner's own locale UTF-8?
    available,  \* does the runner have one of the candidate locales?
    found,      \* call_ctype_utf8 # NULL
    cView,      \* LC_CTYPE is UTF-8, for the C library
    rView,      \* and for R
    cached,     \* ctype_is_utf8
    missed      \* history: the last switch failed

runner == <<startup, available>>
views  == <<cView, rView>>
vars   == <<pc, slot, warm, runner, found, views, cached, missed>>

Bit(b) == IF b THEN 1 ELSE 0

-----------------------------------------------------------------------------

\* R has taken over the locale of the runner (fuzz_init_r).
Init ==
    /\ pc = "init"
    /\ slot = 0
    /\ warm = FALSE
    /\ startup \in BOOLEAN
    /\ available \in BOOLEAN
    /\ found = FALSE
    /\ cView = startup
    /\ rView = startup
    /\ cached = -1
    /\ missed = FALSE

\* find_utf8_locale tries the candidates with the C library's setlocale...
Probe ==
    /\ pc = "init"
    /\ pc' = "probe"
    /\ cView' = (available \/ cView)
    /\ UNCHANGED <<slot, warm, runner, found, rView, cached, missed>>

\* A plausible probe that leaves what it found in place.
ProbeNotUndone ==
    /\ pc = "probe"
    /\ pc' = "switch"
    /\ found' = available
    /\ UNCHANGED <<slot, warm, runner, views, cached, missed>>

\* ... and puts back what it saved, which R has not noticed.  The warm-up
\* starts with slot 0.
ProbeDone ==
    /\ pc = "probe"
    /\ pc' = "switch"
    /\ found' = available
    /\ cView' = startup
    /\ UNCHANGED <<slot, warm, runner, rView, cached, missed>>

\* An input for slot s, staged.
Run(s) ==
    /\ pc = "idle"
    /\ pc' = "switch"
    /\ slot' = s
    /\ UNCHANGED <<warm, runner, found, views, cached, missed>>

\* What set_ctype is asked for, and what it makes of it.
Asked == slot >= FirstUtf8Call

\* A plausible set_ctype that forgets that there may be no UTF-8 locale.
WantRegardless == Asked

Want == Asked /\ found

NoSwitch ==
    /\ pc = "switch"
    /\ cached = Bit(Want)
    /\ pc' = "evaluate"
    /\ UNCHANGED <<slot, warm, runner, found, views, cached, missed>>

\* Sys.setlocale sets both views.
Switch ==
    /\ pc = "switch"
    /\ cached # Bit(Want)
    /\ pc' = "evaluate"
    /\ cView' = Want
    /\ rView' = Want
    /\ cached' = Bit(Want)
    /\ missed' = FALSE
    /\ UNCHANGED <<slot, warm, runner, found>>

\* An R error in evaluating the call, which fuzz_eval_silent swallows: before
\* Sys.setlocale calls the C library's setlocale, or after that and before R's
\* view follows, when it allocates its result.
SwitchFails ==
    /\ MayFail
    /\ pc = "switch"
    /\ cached # Bit(Want)
    /\ pc' = "evaluate"
    /\ cached' = Bit(Want)
    /\ cView' \in {cView, Want}
    /\ missed' = TRUE
    /\ UNCHANGED <<slot, warm, runner, found, rView>>

\* The call has run: on to the next warm-up call, or to the next input.
Evaluated ==
    /\ pc = "evaluate"
    /\ IF ~warm /\ slot + 1 \in CallNumbers
       THEN /\ pc' = "switch"
            /\ slot' = slot + 1
            /\ UNCHANGED warm
       ELSE /\ pc' = "idle"
            /\ warm' = TRUE
            /\ UNCHANGED slot
    /\ UNCHANGED <<runner, found, views, cached, missed>>

Next ==
    \/ Probe \/ ProbeDone
    \/ \E s \in CallNumbers : Run(s)
    \/ NoSwitch \/ Switch \/ SwitchFails \/ Evaluated

Spec == Init /\ [][Next]_vars

-----------------------------------------------------------------------------
(* Properties *)

\* The type invariant: a slot is one of the target's.
TypeOK ==
    /\ pc \in {"init", "probe", "switch", "idle", "evaluate"}
    /\ slot \in CallNumbers
    /\ warm \in BOOLEAN
    /\ startup \in BOOLEAN
    /\ available \in BOOLEAN
    /\ found \in BOOLEAN
    /\ cView \in BOOLEAN
    /\ rView \in BOOLEAN
    /\ cached \in -1 .. 1
    /\ missed \in BOOLEAN

\* tests/datetime.c, check_slot: a slot runs with both views as it asks for,
\* in every runner.
RightLocale ==
    pc = "evaluate" => /\ cView = (available /\ slot >= FirstUtf8Call)
                       /\ rView = cView

\* The same, except after a switch that failed and until the next that does
\* not: a slot of the other kind mends it.
RightUnlessMissed == missed \/ RightLocale

\* R believes in another LC_CTYPE than the C library has only after a switch
\* that failed, from the first warm-up call on, and the next that does not
\* fail ends it.
ViewsAgree == missed \/ (pc \in {"switch", "evaluate", "idle"} => rView = cView)

\* The invariant behind them: once something was asked for and granted, the
\* views are what the cache says.
CacheInv ==
    /\ pc \notin {"init", "probe"} => found = available
    /\ pc \in {"init", "probe"} => rView = startup /\ cached = -1 /\ ~missed
    /\ pc = "init" => cView = startup
    /\ cached # -1 /\ ~missed => cached = Bit(cView)
    /\ cached = 1 => found
    /\ pc = "evaluate" => cached = Bit(Want)

IInv == TypeOK /\ CacheInv /\ ViewsAgree
=============================================================================
