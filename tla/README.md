# r-oss-fuzz: a TLA+ model of the harnesses

This directory holds TLA+ modules for the fuzzing harnesses of R in this
repository, the TLC configurations that check them on small instances, and
TLAPS proofs of the properties that do not depend on the instance. Paths are
relative to the repository.

## The system

Every fuzzer binary is one harness (`harnesses/*.c`, with `harnesses/common.h`
included) linked with R and with libFuzzer or AFL++'s driver. The driver calls
`LLVMFuzzerTestOneInput` once per input, on the process's main thread; the
harness evaluates R calls with the input on a second thread, the *R thread*.
R itself is single-threaded and is never entered from main. The process may
be forked by AFL++'s forkserver, or by R code inside an input.

| Component | State it keeps | Operations | Interacts with |
|---|---|---|---|
| R thread handoff (`common.h:466-579`) | `fuzz_r_thread`: started, thread, mutex, cond, job; the fork handler | `fuzz_run_on_r_thread`, `fuzz_r_thread_main`, `fuzz_r_thread_forget`, `fuzz_on_r_thread` | driver (main), every harness (as the job), fork |
| Timeout diagnostics (`common.h:177-464`) | `fuzz_alarm`: three clocks, six atomics, the saved handler | `fuzz_alarm_wrap`, `fuzz_alarm_handler`, `fuzz_dump_handler` | libFuzzer's SIGALRM handler, the handoff, slot labels |
| Slot labels (`common.h:215-371`) | `fuzz_labels`, `fuzz_label_current` | `fuzz_label_calls`, `fuzz_label_call`, `fuzz_label_append_line`, `fuzz_label_enter` | the dump; every harness at start-up and per call |
| Input staging (`common.h:696-822`, each `fuzz_target_run`) | the vectors and the scratch file the calls were built over | `fuzz_set_string`, `fuzz_set_raw_arg`, `fuzz_write_scratch`, the slot tables | R's allocator (which may fail), the guards |
| GC protection (all of `harnesses/`) | R's protect stack, the C variables that point to R objects | `fuzz_make_wrapper`, `fuzz_init_r`, each `fuzz_target_init`, the refills, `eval_compile`, `eval_source` | R's collector, jumps out of `R_ToplevelExec` |
| Repeat guard (`common.h:824-870`) | none | `fuzz_repeat_product_excessive` | TRE's expansion of counted repeats (patches 0006, 0008) |
| chartr guard, UTF-8 decoder (`character.c`) | none | `fuzz_decode_utf8`, the table sum | staging of the character target |
| eval target (`eval.c`) | the poll budget, the CPU clock, the allowlist frames | `eval_poll_budget`, `eval_compile`, `eval_source`, `eval_run`, `eval_valid_utf8`, `eval_tree_within_budget` | R's evaluator through `R_PolledEvents`, R's compiler |
| datetime's LC_CTYPE (`datetime.c`) | `ctype_is_utf8`, the process's locale | `find_utf8_locale`, `set_ctype`, the warm-up | the C library's and R's view of the locale |
| Slot closures (R source inside the harnesses) | connections, palette, options, extraction directory | the R closures and their `on.exit()` | R's error handling, the file system |
| sort's line splitting (`sort.c`) | the calls' vector | `set_lines` | R's allocator |
| Checkout and patch series (`docker/base/checkout-r.sh`, `ossfuzz.sh`) | the working copy and its lock, the patched source | the retried checkout of one revision, `apply_patch_dir` for `patches/` and `instrumentation/` | Subversion, trunk, the patch files |
| Build pipeline (`ossfuzz.sh`, `docker/`, `.clusterfuzzlite/`) | the built R and harnesses, the base image and its stamp | staged builds | the checkout, the compilers |
| Status script (`scripts/ossfuzz-status.py`) | none | paged requests | an external service |
| Patches and instrumentation (`patches/`, `instrumentation/`) | R's own | changes to R's source | everything |

What is hard about it:

- *Concurrency.* Main, the R thread, a SIGALRM handler on main and a dump
  handler on the R thread share plain and atomic variables. One condition
  variable serves both directions of the handoff, and its wait may return
  spuriously.
- *Fork.* A child inherits a copy of the handoff without the thread.
- *Timeouts racing completion.* A tick is held, an input ends, more ticks
  queue up, a dump is delivered late, for another input than it was asked for.
- *Failure in the middle.* Any R call may end in an error (a vector limit is
  set), so each refill, each step of a closure, each switch of the locale may
  be the last one that happens.
- *State left behind.* The calls are built once; vectors, files, locale,
  palette and options outlive an input. A child of the forkserver gets some of
  them back, but not files.
- *Garbage collection.* R may collect in any call that allocates, and C code
  must have protected by then what it still holds, and unprotected exactly
  that when it returns, also where R jumps out of it.
- *A server that breaks off, and a trunk that moves on meanwhile.*
- *Boundaries.* A budget whose zero means both "spent" and "off", buffers that
  must keep room for an ellipsis, a wrapping 32-bit number that must not be 0.

What makes each component correct is stated by the properties listed with the
runs below; `PROJECT.json` lists the hazards with the line where each bites
and the properties that would catch it.

## The modules

| Module | Models | State and actions against the code |
|---|---|---|
| `SyncCall` | what the handoff promises | The phase of each process's call: idle, called, running, ran. `Fork` only between calls, `Die` in a call, `Restart` of the fuzzer. Abstract. |
| `RThread` | the handoff, per process | One variable per field of `fuzz_r_thread`, plus program counters of main and of the R thread. One action per critical section or shared access: `Call` `Start` `Publish` `Lock` `Post` `Wait` `Wake` `Return` in `fuzz_run_on_r_thread`; `RBorn` ... `RClear` in `fuzz_r_thread_main`; `RInitializeR` and `RRestore` are `fuzz_init_r`'s call of `Rf_initialize_R`, which overwrites R's stack bounds, and what puts them back; `Fork` runs `fuzz_r_thread_forget` in the child. `SpuriousWake`, `Die`, `Restart` are the environment. Implements `SyncCall`. |
| `TimeoutDump` | SIGALRM, the hold, the dump and the report in one process | Takes the handoff as the actions of `SyncCall`. Four program counters; every load or store of an atomic or clock that another flow can see is its own step. Clocks are ages. libFuzzer's clock, handler and exit are modelled as `tests/timeout.c` plays them (external in the map). |
| `EvalBudget` | the eval target's limits on an input | `budget`, `saved` and the program counter of `eval_run`/`eval_source`; `Poll` and `PollOff` are `eval_poll_budget`; `Jump` is an R error outside `R_tryEvalSilent`. The history variables `polls`, `slow`, `late` are for the properties. |
| `Staging` | how every harness but eval's puts an input into the calls' places (21 targets) | Targets are records of tables translated from the `inputs[]`/`needs[]` arrays, the calls that `fuzz_target_init` builds and the statements of `fuzz_target_run`; the actions are one iteration: guard, refill place by place, evaluate. Where a harness makes several calls for an input (`agrep`, `coerce`, `io`, ...), `then` says which places take the result of the one before, and `CallAgain` is each further call. |
| `Routines` | what C code does with R objects | Each routine is the sequence of those of its steps that allocate, protect, unprotect, attach, evaluate or use an object, in the code's order. A scenario of `Targets` is one kind of target: its `fuzz_target_init` and what it does for an input. |
| `Protection` | what keeps those objects from R's collector | Runs the routines, `fuzz_target_init` once, then input after input; one action per kind of step. The heap is a graph, and every allocation frees what is not reachable from the protect stack. Which routines are run is a constant, `Program`. |
| `ProtectionCheck` | a check of the routines that runs none of them | For each step the *views* with which it may be reached: what is known there of the objects that the variables point to, whatever was collected and whatever failed. `Accepted` says that no view reaches a step that its routine may not take. It is not code of the repository; it is what the theorems about `Protection` are made from. |
| `SlotClosures` | what the R closures open, change, register and release | Each closure is a sequence of steps; one action per kind of step; an error may happen at any of them; leaving runs what `on.exit()` holds, each expression of which may fail in turn. Emptying the extraction directory is `unlink()` on what `list.files()` found, name by name, each taken for a pattern (`Unlink`). The closures of the harnesses are `Closures`; which are run is a constant, `Program`. |
| `SlotLabels` | formatting and sharing labels | `fuzz_label_calls` slot by slot, or several calls registered for one slot, as `io.c` does: registration by registration (`Turns`), each for a slot (`SlotOf`). A text is its length and the turns whose slots its header names. |
| `DatetimeLocale` | LC_CTYPE of the datetime target | The C library's view, R's view, and `ctype_is_utf8`. A switch that fails does so before it has reached the C library, or between that and R's view (`SwitchFails`). |
| `Leftovers` | what an input leaves in the process for the next | Composes `SlotClosures` and `DatetimeLocale`: a behaviour is one of one of the two, the other being off. |
| `Utf8Check` | `eval_valid_utf8` and `fuzz_decode_utf8` | Two scans over one string, one action per turn of each loop, against a definition of UTF-8. |
| `RepeatGuard` | `fuzz_repeat_product_excessive` | The scan over the text of a pattern printed from a syntax tree, one action per character class, against the tree's product and expansion. `Nesting` bounds the trees, `LargestNumber` the numbers in their braces. |
| `LineSplit` | `set_lines` of the sort target | The counting and the filling loop, one action per turn; any allocation may fail and leave the calls with an earlier input's lines. |
| `ChartrGuard` | `fuzz_chartr_table_excessive` of the character target | The scan over the decoded characters, one action per range or character, against the table `chartr()` builds. |
| `TreeBudget` | `eval_tree_within_budget` | The recursive walk with its C stack made explicit, one action per entered node and per cell, against the tree's depth and size. The trees are a constant: any set `Objects` of leaves, lists and vectors over itself, of which the parser returns `Sources`. |
| `Scans` | the harnesses' own handling of text | Composes `SlotLabels`, `Utf8Check`, `RepeatGuard`, `ChartrGuard`, `LineSplit` and `TreeBudget`: a behaviour is one of one of the six, the others being off. |
| `BuildTree` | which source R is built from | `Info` ... `Fetched` are `checkout-r.sh` with `attempt` and `resume_checkout`, `Start` ... `EndInstrumentation` the two runs of `apply_patch_dir` in `ossfuzz.sh`. A patch is a set of hunks, and a hunk may rewrite lines of an earlier one. Subversion and `patch` are as the scripts use them; `TrunkMoves`, `FetchCut`, `CleanupFails`, `Killed` and `Rerun` are the environment. |

`MCScans` gives `Scans` its calls, repeats and trees for TLC. The `*_proofs`
modules hold theorems. Definitions commented as
*variant* or *plausible ...* are the wrong versions of a neighbouring
definition with which each property was seen to fail; no specification uses
them.

Abstractions worth knowing:

- `RThread` indexes its variables by process slot; a slot is reused after its
  process died. What the same functions do to `fuzz_alarm` is left to
  `TimeoutDump`, what a job does to R to the other modules. Forks are those of
  main, between calls. A fork in a job (R code that forks) leaves a child
  whose only thread is a copy of the R thread; it is not modelled.
- In `TimeoutDump` a dump handler may be entered at any step of the R thread,
  and stays in "printing" for as long as it likes; a thread that never gets
  to it is one that never takes the step. Inputs are numbered modulo
  `InputMod`, so that a run passes the wrap.
- `EvalBudget` lets an input choose everything R does next: parse to any
  number of expressions, evaluate, fail, be interrupted, poll, loop. An error in an evaluation is
  taken to end it: that none of the functions on the allowlist catches errors
  is assumed.
- `Protection` collects in *every* call that may, which frees all that any
  other schedule could have freed; a pass therefore covers every schedule. One
  or two call slots stand for those built alike. Symbols are never freed; that
  the tag names in `tagged()` are symbols R already has is assumed.
- In `BuildTree` a patch that has begun ends or is killed: there is no fuzz
  and no rejected hunk after a dry run that succeeded. Which hunks trunk has
  taken over or broken, and which hunk rewrites which, is open.
- `SlotClosures` takes from R that it goes on with the remaining `on.exit()`
  expressions after one of them failed; that a function which opens a
  connection, or sets the palette, returns when it has done so or leaves
  nothing; and that `unlink()`, called without `expand = FALSE`, takes a name
  for a pattern and removes what it matches, or, if that is nothing, the file
  of that name. `options()` in `format.c` sets three options in turn and may
  fail in between; its closure can register what undoes that only when it
  returns, so it is not among the `Eager` ones.
- A string in `Staging` is "this input", "an earlier one" or "partial", and
  whether its repeats or its table are excessive.
- `RepeatGuard` takes from TRE how repeats are copied. TRE is not in the
  repository; `patches/0006` and `patches/0008` show how it reads and expands
  them. An open repeat `{m,}` becomes m copies and a starred one, so
  `ClosedExpansionBounded` is about bounded repeats.

## The runs

All bounds are `CONSTANTS` of the modules, but for `LargestNumber` of
`RepeatGuard`, which the run does not come near. `CHECK_DEADLOCK FALSE` is said
where the modelled program ends: `TimeoutDump` (a report exits, or
`MaxInputs` have been run), `MCScans` (the scan, the formatting or the walk is
over, or `NInputs` have been split) and `BuildTree` (the checkout gave up, or
R is built and `MaxReruns` are spent). In the other modules every state has a
successor and TLC checks it.

| Run | Bounds | What it shows |
|---|---|---|
| `rthread` | two process slots, two jobs, one level of nesting, spurious wakeups | The job in a caller's frame outlives its use (`JobFrameAlive`); no broadcast is lost (`NoLostWakeup`); jobs run on the process's own thread, with its stack bounds, though R's start-up sets others and forked children inherit their parent's (`OnOwnThread`); the handoff refines `SyncCall`; every call returns or its process dies (`CallReturns`). Slots are reused, so families of forks of any depth occur. |
| `timeout` | timeout 2 s in half seconds, two inputs over a number that wraps at 4, a second look at the dump, reports that may let the process go on | The race between ticks, the input's end, the dump and the report: libFuzzer's clock is bracketed, a dump is only asked for an input out of time, one that finished is not reported, no dump, label or clock of an earlier input is taken for this one's, a hung input is reported although nothing answers, held ticks are let go. Two inputs are what a stale dump, label, clock or queued tick needs; 2 s leaves one second of margin and one without. |
| `eval` | a budget of four polls, up to three expressions | The budget is shared by an input's expressions, never off while one is evaluated, off between inputs; the CPU limit ends the input at its next poll; an input that loops for ever ends. A budget of four can be spent inside one expression, across two, or not at all. |
| `staging` | none: the tables of the 21 targets at their real size | Whatever was refused, skipped or half written before, an evaluated call reads this input in every place it reads, or what an earlier call made of this input, and no guarded slot expands a pattern its guard refuses. |
| `leftovers` | all closures, with errors and crashes at any step; the real 17 calls of the datetime target, runners with and without a UTF-8 locale of their own and among the candidates, switches that fail | What was passed to `on.exit()` is released, in closures with two resources as well, or its release failed (`DeferredReleased`); the closures that register at once leave no connection open and the palette as it was, unless undoing that failed (`EagerLeavesNothing`); no extracted file stays whose name matches itself as a pattern, but for what a crash or a failed `unlink()` left (`PlainNamesRemoved`). Four names, as `[a]`, `a`, `a*` and `b` match each other, are patterns that match themselves and one that does not. Unless the last switch failed, R and the C library agree on LC_CTYPE (`ViewsAgree`), and a slot gets what it asks for (`RightUnlessMissed`). |
| `extract_globs` | the extraction slot, the same four names | Violation; see the findings. |
| `closures_leak` | the write slot | Violation; see the findings. |
| `datetime_missed` | the datetime target as in `leftovers` | Violation; see the findings. |
| `scans` | labels: eleven slots, four of them calling, one of these with two calls, one call shared by three, two labels, small buffers. UTF-8: all strings of up to four bytes out of seventeen values at the edges of the encoding's ranges. Repeats: limit 20 for 1000, saturation at 200, seven kinds of repeat, patterns of up to three nested repeats over rows (`Nesting` is 2), with stray braces. chartr: specifications of up to five characters out of four, tables up to 21. Lines: three, inputs of up to six bytes, two inputs. Trees: depth 2, twelve nodes, lists of up to three (`Width`) | No label overflows and each names its slots; the check admits exactly UTF-8 and the lenient decoder decodes it; the repeat guard's verdict is the product over all counted repeats, and what it accepts expands to at most the limit times its literals; the chartr guard counts every entry of the table; a call sees the lines of this input, of which only the last one at the limit holds newlines; the walk refuses exactly the trees too deep or too large. Four bytes is the longest sequence; repeats of 1, 2, 5, 12 and 250 lie below, at and past the limit and past saturation; the ranges make tables on both sides of 21; six bytes allow fewer, as many and more newlines than lines; depth and nodes run out together and apart. |
| `protection` | ten kinds of target, a heap of twenty objects, a collection in each allocation, a jump out of each evaluation | Nothing that is used has been collected; an input leaves the protect stack as it found it; calls and vectors stay reachable between inputs. Heap addresses are reused, so input after input is one cycle of states; twenty objects are never all in use. Before it starts TLC evaluates `RoutinesAccepted`, that the check accepts the ten. |
| `protection_gap` | the call that switches LC_CTYPE | Violation; see the findings. |
| `build` | five attempts, two revisions, a working copy of two parts, three patches, two of two hunks in `patches/` and one of one hunk in `instrumentation/`, one rerun | The checkout gives up only after as many failures as attempts and hands on the announced revision, whole, though trunk moved; a rerun comes to the tree that one undisturbed run comes to, unless a patch was torn; with `R_PATCH_STRICT` R is built only from a tree that took every patch. Three patches let one rewrite lines of either of two others, and be followed by one that depends on it. |

## Fairness

- `RThread`: weak fairness of main and of the R thread, since both are
  ordinary threads that stay scheduled, and only finitely many spurious
  wakeups: a mutex promises no order, and a main that woke spuriously for ever
  could keep it from the R thread for ever. Strong fairness of `REnd`, since a job
  ends sooner or later however often it calls `fuzz_run_on_r_thread` nested
  (harness code nests at most once). Nothing is assumed of forks, deaths,
  nested calls or callers.
- `TimeoutDump`: time passes, the interval timer ticks, main with its handler
  and the R thread's few statements around a job are scheduled. *Not* assumed:
  that the input finishes or notes a call, or that a dump signal is ever
  handled: `HungInputReported` is about inputs that do not finish.
- `EvalBudget`: the harness's C code goes on; the compiler returns, since the
  parse tree is bounded by `eval_tree_within_budget`; code that is evaluated
  keeps polling, which `instrumentation/0001` arranges. *Not* assumed: that an
  evaluation ends.

## What is proved

`tlapm` checks eight modules of theorems. They hold for all values of the
constants that satisfy the named assumptions in the modules. `TypeCorrect`
where there is one, and `SharedBudget`, `Uncharged`, `LabelsAreUnique` and
`SlotsAreLabelled`, are theorems only: no run repeats them.

- `RThread_proofs`: `TypeCorrect`, `JobFrames`, `NoLostWakeups`,
  `JobsOnOwnThread` and `Refinement` (`RThread` implements `SyncCall`), for
  any set of processes and jobs, any nesting, with or without spurious
  wakeups. The properties are not inductive: the induction needs to know who
  holds the mutex at which statement and who can be waiting (`MutexInv`), that
  a thread is born before it is published (`ThreadInv`), that a job is posted
  only while its caller waits and stays posted while it runs (`JobInv`), and
  that a free slot is empty (`DeadInv`). `IInv` is their conjunction with
  `TypeOK`. For the refinement each step is mapped to a step of `SyncCall` or
  a stutter under the mapping `phase`.
- `TimeoutDump_proofs`: all seven invariants of run `timeout`, for any timeout,
  resolution of the clocks, number of looks and width of the input's number
  that is not outnumbered by the inputs. `CallInv` ties main's and the R
  thread's statements to the phase of the call; `HoldInv` says that a held
  tick keeps main where it is, so that no other input begins; `AgeInv` and
  `TimeInv` order the three clocks and say what a clock that was read is still
  worth; `FinishInv` is where main can be between a held input's end and the
  next reset; `YoungInv` bounds what a young tick's delay hides; `NumberInv`
  says which inputs' numbers requests, dumps in progress and answers can
  carry, which with `NumberUnique` keeps a late dump from settling another
  input's request.
- `BuildTree_proofs`: `CheckoutSound`, `StrictSound` and `RerunSound`, for any
  number of attempts, revisions, parts, patches and reruns. `AttemptsInv`
  accounts for each attempt (a lock that stays is paid for by the clean-up that
  failed), `CopyInv` says that the revision is asked for once, `SeriesInv` that
  a run without a miss has taken every patch it passed and that a patch which
  passed its dry run goes in whole. `WholeInv` is for `RerunSound`: as long as
  no patch was torn, the tree between two patches, and where a run was killed
  or refused, is `After[m]`, what an undisturbed run has after its first m
  patches, with m at least the patches that this run is past.
- `EvalBudget_proofs`: type correctness, the four invariants of the budget and
  the action property `CompilerNotCharged`, for any budget. `BudgetInv` says
  at which points the counter is zero and where it cannot be; `HistoryInv`
  ties the clock the code reads to the time that passed.
- `Staging_proofs`: `TypeCorrect`, `FreshInputs`, `GuardsHold`. A lemma checks
  the tables of each target (a slot needs what it reads or is passed, guards
  what it expands); `Progress` says that places already passed hold this input and
  that an accepted input has no excess its slot guards.
- `Leftovers_proofs`:
  - `DeferredIsReleased`, `PlainNamesAreRemoved` and `EagerLeaveNothing`, for
    any closures that satisfy what `SlotClosuresAssumption` asks of their steps:
    only the first `on.exit()` lacks `add = TRUE`, and a step that takes
    something finds it registered or, taking all or nothing, is followed by
    its registration. TLC evaluates that for the closures of the harnesses.
    The names of extracted files and what they match are any; releases may
    fail, and `unlink()` may break off between two names.
    `RunInv` says that `on.exit()` holds all that was passed to it so far;
    `HeldInv` that what must be released and is held is registered there, or
    will be after the next step, which cannot fail; `FilesInv` that a file
    whose name matches itself is one `unlink()` has still to come to, or a
    crash or a failed `unlink()` left it.
  - `NoSplitView` and `SlotsInTheirLocale`, for any number of calls.
    `CacheInv` says what the cache is worth: once a switch was made and none
    missed, it is the C library's view, which is R's. A failed switch may leave
    the two views apart, so both theorems except the time from there to the
    next switch that succeeds.
- `Protection_proofs`: `NothingIsCollectedInUse`, `RunsBalance` and
  `StaticsStayRooted`, for *any* routines that `ProtectionCheck` accepts, any
  size of the heap, any failures and any number of inputs. They are the
  soundness of a static check: what it accepts never uses an object that R may
  have collected, never leaves the protect stack higher or lower than it found
  it, and keeps its calls reachable between inputs. `RoutinesAccepted` is the
  assumption, which TLC evaluates for the routines of the ten targets; the
  check rejects the eleventh, `setlocale`, for the gap that run
  `protection_gap` shows. The invariant has three parts:
  - The heap is closed: the objects not yet freed include all that is
    reachable from the protect stack, the preserved objects and the variables
    that a view calls safe (`HeapKnown`). That `Reachable`, defined by
    widening a set `MaxObjects` times, is closed at all is a pigeonhole
    argument over the size of the heap (`FromGrows`, `ReachableFacts`).
  - The protect stack is what the view says, slot by slot, on top of what was
    there when the stage began (`StackKnown`).
  - Some view of `Views` describes the state. A step leads from a described
    state to one described by a successor of the view, which is one lemma for
    each action (`LetReached` ... `InputReached`), and a closed set of views
    holds it.
- `Scans_proofs`: of the labels, `LabelsFit`, `LabelsNameTheirSlots`,
  `LabelsAreUnique` and `SlotsAreLabelled`, for any calls, buffer sizes and line
  lengths under which a header and the ellipsis fit. `JobInv` carries it: the
  text in the making always keeps room for the ellipsis, and belongs to this
  slot alone. Then the seven properties of the five scans that run `scans`
  checks on small inputs, for inputs of any size and any limits that satisfy
  `ScansAssumption`. Each scan has an invariant that ties the place it has
  reached to the reference definition of what is still to come:
  - `Utf8Exact`, `Utf8Decoded` (`UInv`): where the check stands, every way to
    cut the string into encoded characters has a cut; the bytes it has asked
    for are exactly those of one character, case by case over the four
    lengths; the decoder's output followed by the code points from its place
    on is what the whole string stands for.
  - `TableCounted` (`CInv`): the entries counted so far and the table of the
    rest make the table of the whole; the decoder's lookahead is the
    specification's next characters.
  - `LinesJoined` (`LInv`): the newlines passed while counting are one fewer
    than the lines; the lines filled so far, joined, are the input up to the
    start of the next; only the last line at the limit holds newlines.
    Allocations may fail anywhere and inputs follow each other.
  - `WalkExact` (`TInv`): the nodes entered so far form a set that contains
    with each node the nodes on the way to it, the C stack is the way to the
    node in hand, and the counter is the number of the entered nodes and
    cells. A refusal for depth exhibits a node below the limit, one for nodes
    a part of the tree that is too large by itself.
  - `RepeatsCounted`, `ExpansionBounded` (`RInv`): the product so far times
    the product of the text from the scan's place on is the product of the
    tree, so that what a brace contributes does not depend on the braces
    around it. A lemma for each kind of pattern shows that its text weighs its
    product (`Weighs`, `Values`), whatever follows; in a brace, `Reading` says
    what the digits so far amount to, up to saturation. The second theorem
    adds that a closed pattern expands to at most its product times its
    literals.

The reference definitions of `Scans_proofs` and `BuildTree_proofs` are
recursive functions. That such a function has the values its equation says is
itself proved: `SetInduction` (least elements of sets of numbers, from the
well-foundedness of the order) shows that functions which satisfy the equation
on longer and longer parts of the domain exist, and so that the one that
`CHOOSE` takes does; for patterns `PartsInduction` does the same over the depth
of what they repeat. No theorem of the library that takes an operator as
parameter is used. The reference functions over patterns are written with `IF`
rather than `CASE`, which the prover handles better under recursion.

Only model-checked: liveness (`CallReturns`, `HungInputReported`,
`HeldTickLetGo`, `InputEnds`), which is out of the prover's reach. Every
invariant and every action property that a passing run checks is also a
theorem, and so is the refinement of `SyncCall`.

## Findings

Four places where a comment says more than the code does have a run in which
TLC shows it, and an entry in `PROJECT.json` that quotes the comment.

- `closures_leak`: `wrapper_write` closes two of its connections with a plain
  `close()`, and `wrapper_chunks` and `wrapper_gzcon` call `on.exit()` only
  after an `open()` or `gzcon()` that may fail, though `connections.c:13` says
  every slot closes its connection on exit.
- `extract_globs`: the wrapper of `zip.c` empties its directory with
  `unlink(list.files(exdir, ...), recursive = TRUE)` (`zip.c:75`), and
  `unlink()` expands wildcards. Of an archive with the entries `[a]` and `a`
  the first name is taken for a pattern that removes `a`, then `a` is gone, and
  `[a]` stays for the next input, though `zip.c:36` says that the directory is
  emptied, error or not. `PlainNamesRemoved` is what does hold.
- `protection_gap`: `make_setlocale_call` (`datetime.c:93`) makes two strings
  in one argument list, so the first is unprotected while the second is
  allocated, against the rule of `character.c:185`. It bites only if R
  collects right there, once at start-up.
- `datetime_missed`: `set_ctype` remembers a switch that failed, so slots may
  run in the other locale, or in one that R and the C library disagree about,
  though `datetime.c:48` says which they run with. `RightUnlessMissed` is what does hold.

Four more were met on the way; the first three decided how a property is
stated:

- A tick during the handoff finds `running` at 0 and goes to libFuzzer, which
  may report the input without a dump although the tick was not delayed; the
  comment at `common.h:211` knows of delayed ticks only. `YoungTickNeedsDelay`
  is about the ticks that do read the armed clock.
- After a spurious wakeup either thread holds the mutex for a moment in which
  the other may fork, though `common.h:524` says that nothing does. Resetting
  the child's copy is safe all the same: run `rthread` has such forks.
- The repeat guard does not count a repeat in TRE's approximate syntax,
  `{2+14}` (`common.h:856`), nor the starred copy of an open one, though
  `common.h:825` calls its product an over-estimate. `ClosedExpansionBounded`
  leaves both out.
- `docs/eval.md:32` says the `:` wrapper refuses sequences of a million
  elements or more. `eval.c:113` refuses a difference of a million or more, so
  `1:1000000` is accepted. It is an R expression inside a C string, of one
  comparison, and has no model.

## Not modelled

- The allowlist of the eval target and the `:` wrapper: data, and R source of
  a line or two. What the allowlist admits is decided by R's evaluator.
- In `Protection`, harnesses built like one of the ten kinds; they repeat the
  same routines.
- What R does with R code that forks *inside* an input: the child's only
  thread is a copy of the R thread, and it runs R code that the repository
  does not have.
- Start-up of R beyond the thread it runs on and what it protects: set once
  from the environment.
- R, TRE, the patches and the instrumentation: other people's source, of which
  only the changes are here. `BuildTree` puts patches on it as sets of hunks.
- Building the dependencies, R and the harnesses, packaging, and the stamp of
  the base image: commands in a row that stop at the first that fails.
- The status script: its pages come from a service of which the repository
  says nothing more than how to ask for them, so what a testcase that moves
  between two pages looks like would be invented.
- Workflows, dictionaries, options, seeds: configuration and data.

## Plan

Done: the handoff and its contract, then what runs on top of it (timeout
diagnostics, the eval budget), then what every iteration does (staging,
closures, labels, protection), the scans, and where the fuzzed R comes from;
and a proof of every safety property of these. What is left:

1. A composition of `RThread` with `TimeoutDump`, in which the handoff is not
   replaced by `SyncCall`, as a larger run.
2. The routines of the harnesses that `Targets` leaves out, and a translation of
   the C code into routines, so that `RoutinesAccepted` covers every harness.
