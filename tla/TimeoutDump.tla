---------------------------- MODULE TimeoutDump -----------------------------
(***************************************************************************)
(* The timeout diagnostics of harnesses/common.h in one fuzzer process.    *)
(*                                                                         *)
(* libFuzzer times an input with a periodic SIGALRM on the main thread,    *)
(* which only waits while the R thread works.  fuzz_alarm_handler stands   *)
(* in front of libFuzzer's handler: it holds a tick that comes near the    *)
(* timeout until the input is out of time by every clock, asks the R       *)
(* thread for its stack, waits a bounded while, and passes the tick on.    *)
(*                                                                         *)
(* Three control flows interleave: main (libFuzzer's loop and              *)
(* fuzz_run_on_r_thread), the handler that interrupts main, and the R      *)
(* thread, itself interrupted by fuzz_dump_handler.  The call between main *)
(* and the R thread is the one RThread is proved to implement: the actions *)
(* of SyncCall for the one process.  libFuzzer's own part (its clock, its  *)
(* ticks, its report) is modelled as tests/timeout.c's stand-in plays it.  *)
(*                                                                         *)
(* Clocks are ages, the time since each was last read, in Sub-ths of a     *)
(* second; they stop at Old, where every comparison is settled.            *)
(***************************************************************************)
EXTENDS Naturals

CONSTANTS Root,        \* the fuzzer process
          Timeout,     \* fuzz_alarm.timeout, seconds
          Sub,         \* clock units in a second
          PollMax,     \* looks while the dump is awaited (5000 in the code)
          InputMod,    \* the width of fuzz_alarm.input (2^32 in the code)
          FirstInput,  \* fuzz_alarm.input once R is initialized
          MaxInputs,   \* bound on the inputs run
          Lenient      \* may libFuzzer's handler come back from a report?

ASSUME TimeoutDumpAssumption ==
    /\ Timeout \in Nat \ {0}
    /\ Sub \in Nat \ {0}
    /\ PollMax \in Nat
    /\ InputMod \in Nat
    /\ FirstInput \in 1..(InputMod - 1)
    /\ MaxInputs \in 1..(InputMod - 2)
    /\ Lenient \in BOOLEAN

Old == Timeout * Sub

VARIABLES
    live, phase,  \* of the call, as in SyncCall
    mpc,          \* main, from one input to the next
    hpc,          \* the alarm handler, which suspends main
    rpc,          \* the R thread
    dpc,          \* the dump handler, which suspends the R thread
    armedAge,     \* since fuzz_alarm.armed
    unitAge,      \* since libFuzzer started the input's clock
    startAge,     \* since fuzz_alarm.started
    unitRunning,  \* libFuzzer is inside LLVMFuzzerTestOneInput
    wrapper,      \* "never" tried, "in" place, or "failed" to go in
    running, finishing, input, requested, done,   \* fuzz_alarm's atomics
    label,        \* fuzz_label_current: the input that noted a call, 0 none
    pendingTick,  \* a SIGALRM waits for the handler to return
    dumpSignals,  \* dump signals queued for the R thread
    outOfTime,    \* the handler's local: age >= timeout
    polls,        \* the handler's local: looks taken
    dumpInput,    \* the dump handler's local: input
    via,          \* history: why the tick went on to libFuzzer
    late,         \* history: time since the tick read the armed clock
    overran,      \* history: this input was running when out of time
    answered,     \* history: the dump asked for this input was settled
    inputs,       \* inputs run so far
    exited        \* libFuzzer reported a timeout and exited

callVars  == <<live, phase>>
clocks    == <<armedAge, unitAge, startAge>>
atomics   == <<running, finishing, input, requested, done, label>>
signals   == <<pendingTick, dumpSignals>>
locals    == <<outOfTime, polls, dumpInput>>
history   == <<via, late, overran, answered>>
libFuzzer == <<unitRunning, wrapper, inputs, exited>>
pcs       == <<mpc, hpc, rpc, dpc>>
vars == <<callVars, clocks, atomics, signals, locals, history, libFuzzer, pcs>>

Handoff == INSTANCE SyncCall WITH Procs <- {Root}

\* fuzz_seconds_since
Seconds(age) == age \div Sub

\* Variant: 0 is not skipped.
NextInputPlain(i) == (i + 1) % InputMod

\* The increment of fuzz_alarm.input, which skips 0.
NextInput(i) == IF (i + 1) % InputMod = 0 THEN 1 ELSE (i + 1) % InputMod

Init ==
    /\ Handoff!Init
    /\ mpc = "idle" /\ hpc = "off" /\ rpc = "idle" /\ dpc = "off"
    /\ armedAge = 0 /\ unitAge = Old /\ startAge = 0
    /\ unitRunning = FALSE /\ wrapper = "never" /\ inputs = 0 /\ exited = FALSE
    /\ running = FALSE /\ finishing = FALSE
    /\ input = FirstInput /\ requested = 0 /\ done = 0 /\ label = 0
    /\ pendingTick = FALSE /\ dumpSignals = 0
    /\ outOfTime = FALSE /\ polls = 0 /\ dumpInput = 0
    /\ via = "none" /\ late = 0 /\ overran = FALSE /\ answered = FALSE

-----------------------------------------------------------------------------
\* Main: libFuzzer's loop, LLVMFuzzerTestOneInput and fuzz_run_on_r_thread.
\* A tick interrupts it at once, so it moves only outside the handler.

MainMoves(from, to) ==
    /\ ~exited
    /\ hpc = "off"
    /\ mpc = from
    /\ mpc' = to
    /\ UNCHANGED <<hpc, rpc, dpc, signals, locals, exited>>

StartUnitClock ==
    /\ MainMoves("idle", "timed")
    /\ inputs < MaxInputs
    /\ inputs' = inputs + 1
    /\ unitAge' = 0
    /\ UNCHANGED <<callVars, armedAge, startAge, unitRunning, wrapper, atomics, history>>

EnterUnit ==
    /\ MainMoves("timed", "wrap")
    /\ unitRunning' = TRUE
    /\ UNCHANGED <<callVars, clocks, wrapper, inputs, atomics, history>>

\* fuzz_alarm_wrap, once; without SIGALRM handler or signals to be had the
\* ticks keep going straight to libFuzzer.
Wrap ==
    /\ MainMoves("wrap", "number")
    /\ IF wrapper = "never" THEN wrapper' \in {"in", "failed"} ELSE UNCHANGED wrapper
    /\ UNCHANGED <<callVars, clocks, unitRunning, inputs, atomics, history>>

Number ==
    /\ MainMoves("number", "post")
    /\ input' = NextInput(input)
    /\ answered' = FALSE
    /\ UNCHANGED <<callVars, clocks, unitRunning, wrapper, inputs, running, finishing,
                   requested, done, label, via, late, overran>>

\* Variant: the armed clock is read as the job is posted.
PostArming ==
    /\ MainMoves("post", "wait")
    /\ Handoff!Call(Root)
    /\ armedAge' = 0
    /\ UNCHANGED <<unitAge, startAge, unitRunning, wrapper, inputs, atomics, history>>

Post ==
    /\ MainMoves("post", "wait")
    /\ Handoff!Call(Root)
    /\ UNCHANGED <<clocks, unitRunning, wrapper, inputs, atomics, history>>

Return ==
    /\ MainMoves("wait", "reset")
    /\ Handoff!Return(Root)
    /\ UNCHANGED <<clocks, unitRunning, wrapper, inputs, atomics, history>>

Reset ==
    /\ MainMoves("reset", "arm")
    /\ finishing' = FALSE
    /\ UNCHANGED <<callVars, clocks, unitRunning, wrapper, inputs, running, input,
                   requested, done, label, history>>

Arm ==
    /\ MainMoves("arm", "leave")
    /\ armedAge' = 0
    /\ UNCHANGED <<callVars, unitAge, startAge, unitRunning, wrapper, inputs, atomics, history>>

LeaveUnit ==
    /\ MainMoves("leave", "idle")
    /\ unitRunning' = FALSE
    /\ UNCHANGED <<callVars, clocks, wrapper, inputs, atomics, history>>

-----------------------------------------------------------------------------
\* The R thread around a job, fuzz_do_target_run inside it.

RMoves(from, to) ==
    /\ ~exited
    /\ dpc = "off"
    /\ rpc = from
    /\ rpc' = to
    /\ UNCHANGED <<mpc, hpc, dpc, signals, locals, libFuzzer>>

RTake ==
    /\ RMoves("idle", "stamp")
    /\ phase[Root] = "called"
    /\ UNCHANGED <<callVars, clocks, atomics, history>>

RStamp ==
    /\ RMoves("stamp", "announce")
    /\ startAge' = 0
    /\ overran' = FALSE
    /\ UNCHANGED <<callVars, armedAge, unitAge, atomics, via, late, answered>>

RAnnounce ==
    /\ RMoves("announce", "begin")
    /\ running' = TRUE
    /\ Handoff!Begin(Root)
    /\ overran' = (Seconds(startAge) >= Timeout)
    /\ UNCHANGED <<clocks, finishing, input, requested, done, label, via, late, answered>>

RClearLabel ==
    /\ RMoves("begin", "target")
    /\ label' = 0
    /\ UNCHANGED <<callVars, clocks, running, finishing, input, requested, done, history>>

\* fuzz_label_enter: notes a registered call, clears the label for another.
RNoteCall ==
    /\ RMoves("target", "target")
    /\ label' \in {input, 0}
    /\ UNCHANGED <<callVars, clocks, running, finishing, input, requested, done, history>>

\* Variant: the label is left behind.
RFinishLabeled ==
    /\ RMoves("target", "retract")
    /\ UNCHANGED <<callVars, clocks, atomics, history>>

RFinish ==
    /\ RMoves("target", "retract")
    /\ label' = 0
    /\ UNCHANGED <<callVars, clocks, running, finishing, input, requested, done, history>>

RRetract ==
    /\ RMoves("retract", "idle")
    /\ running' = FALSE
    /\ Handoff!End(Root)
    /\ UNCHANGED <<clocks, finishing, input, requested, done, label, history>>

\* fuzz_dump_handler, wherever the R thread is; a blocked or stuck thread
\* just never gets to it.
DumpMoves(from, to) ==
    /\ ~exited
    /\ dpc = from
    /\ dpc' = to
    /\ UNCHANGED <<mpc, hpc, rpc, callVars, clocks, pendingTick, outOfTime, polls,
                   libFuzzer, via, late, overran>>

DumpEnter ==
    /\ DumpMoves("off", "printing")
    /\ dumpSignals > 0
    /\ dumpSignals' = dumpSignals - 1
    /\ dumpInput' = requested
    /\ answered' = (answered \/ requested = input)
    /\ UNCHANGED atomics

\* Variant: the request is read again once the stack is printed.
DumpLeaveRereading ==
    /\ DumpMoves("printing", "off")
    /\ done' = requested
    /\ UNCHANGED <<running, finishing, input, requested, label, dumpSignals, dumpInput, answered>>

DumpLeave ==
    /\ DumpMoves("printing", "off")
    /\ done' = dumpInput
    /\ UNCHANGED <<running, finishing, input, requested, label, dumpSignals, dumpInput, answered>>

-----------------------------------------------------------------------------
\* The alarm.

\* Main is interrupted: by the wrapper, or straight by libFuzzer's handler.
TickLands ==
    /\ hpc' = IF wrapper = "in" THEN "enter" ELSE "chain"
    /\ via' = IF wrapper = "in" THEN "none" ELSE "bare"

\* A tick interrupts main, or waits for the tick being handled: SIGALRM is
\* masked in its handler, and at most one is kept.
Tick ==
    /\ ~exited
    /\ \/ /\ hpc = "off"
          /\ TickLands
          /\ late' = 0
          /\ UNCHANGED pendingTick
       \/ /\ hpc # "off"
          /\ ~pendingTick
          /\ pendingTick' = TRUE
          /\ UNCHANGED <<hpc, via, late>>
    /\ UNCHANGED <<mpc, rpc, dpc, callVars, clocks, atomics, dumpSignals, locals,
                   overran, answered, libFuzzer>>

HandlerMoves(from) ==
    /\ ~exited
    /\ hpc = from
    /\ UNCHANGED <<mpc, rpc, dpc, callVars, clocks, dumpInput, overran>>

\* Leaving the handler lets a waiting tick in.
HandlerReturns ==
    /\ IF pendingTick THEN TickLands ELSE hpc' = "off" /\ via' = "none"
    /\ pendingTick' = FALSE
    /\ late' = 0
    /\ UNCHANGED <<dumpSignals, outOfTime, polls>>

\* Handing the tick to libFuzzer.
Chain(why) ==
    /\ hpc' = "chain"
    /\ via' = why
    /\ UNCHANGED <<signals, outOfTime, polls, late>>

GoesOn(to) ==
    /\ hpc' = to
    /\ UNCHANGED via

\* Variant: ticks count during finishing too.
HEnterFinishing ==
    /\ HandlerMoves("enter")
    /\ IF running
       THEN GoesOn("armed") /\ UNCHANGED <<signals, outOfTime, polls, late>>
       ELSE Chain("handoff")
    /\ UNCHANGED <<atomics, answered, libFuzzer>>

\* Variant: the clocks are read whether or not the input runs.
HEnterNotRunning ==
    /\ HandlerMoves("enter")
    /\ IF finishing
       THEN HandlerReturns
       ELSE GoesOn("armed") /\ UNCHANGED <<signals, outOfTime, polls, late>>
    /\ UNCHANGED <<atomics, answered, libFuzzer>>

HEnter ==
    /\ HandlerMoves("enter")
    /\ \/ finishing /\ HandlerReturns
       \/ ~finishing /\ ~running /\ Chain("handoff")
       \/ ~finishing /\ running /\ GoesOn("armed")
          /\ UNCHANGED <<signals, outOfTime, polls, late>>
    /\ UNCHANGED <<atomics, answered, libFuzzer>>

\* Variant: no second of margin.
HReadArmedExactly ==
    /\ HandlerMoves("armed")
    /\ late' = 0
    /\ IF Seconds(armedAge) >= Timeout
       THEN GoesOn("age")
       ELSE hpc' = "chain" /\ via' = "younger"
    /\ UNCHANGED <<signals, outOfTime, polls, atomics, answered, libFuzzer>>

HReadArmed ==
    /\ HandlerMoves("armed")
    /\ late' = 0
    /\ IF Seconds(armedAge) >= Timeout - 1
       THEN GoesOn("age")
       ELSE hpc' = "chain" /\ via' = "younger"
    /\ UNCHANGED <<signals, outOfTime, polls, atomics, answered, libFuzzer>>

\* Variant: the hold ends by the armed clock.
HReadAgeArmed ==
    /\ HandlerMoves("age")
    /\ outOfTime' = (Seconds(armedAge) >= Timeout)
    /\ GoesOn("look")
    /\ UNCHANGED <<signals, polls, late, atomics, answered, libFuzzer>>

\* The hold: first the clock...
HReadAge ==
    /\ HandlerMoves("age")
    /\ outOfTime' = (Seconds(startAge) >= Timeout)
    /\ GoesOn("look")
    /\ UNCHANGED <<signals, polls, late, atomics, answered, libFuzzer>>

\* ...then the input.
HLook ==
    /\ HandlerMoves("look")
    /\ \/ /\ ~running
          /\ finishing' = TRUE
          /\ HandlerReturns
       \/ /\ running
          /\ GoesOn(IF outOfTime THEN "request" ELSE "age")
          /\ UNCHANGED <<finishing, signals, outOfTime, polls, late>>
    /\ UNCHANGED <<running, input, requested, done, label, answered, libFuzzer>>

HRequest ==
    /\ HandlerMoves("request")
    /\ requested' = input
    /\ polls' = 0
    /\ GoesOn(IF requested = input THEN "poll" ELSE "kill")
    /\ UNCHANGED <<running, finishing, input, done, label, signals, outOfTime, late,
                   answered, libFuzzer>>

\* pthread_kill, which may fail.
HKill ==
    /\ HandlerMoves("kill")
    /\ GoesOn("poll")
    /\ \/ dumpSignals' = dumpSignals + 1 /\ UNCHANGED <<done, answered>>
       \/ done' = input /\ answered' = TRUE /\ UNCHANGED dumpSignals
    /\ UNCHANGED <<running, finishing, input, requested, label, pendingTick, outOfTime,
                   polls, late, libFuzzer>>

\* Variant: the wait for the dump has no bound.
HPollForever ==
    /\ HandlerMoves("poll")
    /\ IF done = input \/ ~running
       THEN Chain("dump")
       ELSE GoesOn("poll") /\ UNCHANGED <<signals, outOfTime, polls, late>>
    /\ UNCHANGED <<atomics, answered, libFuzzer>>

\* Variant: the tick ends with the dump.
HPollLast ==
    /\ HandlerMoves("poll")
    /\ IF done = input \/ ~running \/ polls = PollMax
       THEN HandlerReturns
       ELSE /\ polls' = polls + 1
            /\ GoesOn("poll")
            /\ UNCHANGED <<signals, outOfTime, late>>
    /\ UNCHANGED <<atomics, answered, libFuzzer>>

HPoll ==
    /\ HandlerMoves("poll")
    /\ IF done = input \/ ~running \/ polls = PollMax
       THEN Chain("dump")
       ELSE /\ polls' = polls + 1
            /\ GoesOn("poll")
            /\ UNCHANGED <<signals, outOfTime, late>>
    /\ UNCHANGED <<atomics, answered, libFuzzer>>

\* libFuzzer's handler: inside an input, and past the timeout, it reports.
LibFuzzerAlarm ==
    /\ HandlerMoves("chain")
    /\ IF unitRunning /\ Seconds(unitAge) >= Timeout
       THEN /\ GoesOn("reported")
            /\ UNCHANGED <<signals, outOfTime, polls, late>>
       ELSE HandlerReturns
    /\ UNCHANGED <<atomics, answered, libFuzzer>>

LibFuzzerExit ==
    /\ HandlerMoves("reported")
    /\ exited' = TRUE
    /\ UNCHANGED <<hpc, via, late, signals, outOfTime, polls, atomics, answered,
                   unitRunning, wrapper, inputs>>

LibFuzzerLetsPass ==
    /\ Lenient
    /\ HandlerMoves("reported")
    /\ HandlerReturns
    /\ UNCHANGED <<atomics, answered, libFuzzer>>

-----------------------------------------------------------------------------
Older(age) == IF age < Old THEN age + 1 ELSE age

Elapse ==
    /\ ~exited
    /\ armedAge' = Older(armedAge)
    /\ unitAge'  = Older(unitAge)
    /\ startAge' = Older(startAge)
    /\ late' = IF hpc \in {"off", "reported"} \/ late > Sub THEN late ELSE late + 1
    /\ overran' = (overran \/ (running /\ Seconds(startAge') >= Timeout))
    /\ UNCHANGED <<pcs, callVars, atomics, signals, locals, via, answered, libFuzzer>>

Main == \/ StartUnitClock \/ EnterUnit \/ Wrap \/ Number \/ Post
        \/ Return \/ Reset \/ Arm \/ LeaveUnit

RBookkeeping == RTake \/ RStamp \/ RAnnounce \/ RClearLabel \/ RRetract

DumpHandler == DumpEnter \/ DumpLeave

AlarmHandler == \/ HEnter \/ HReadArmed \/ HReadAge \/ HLook \/ HRequest \/ HKill
                \/ HPoll \/ LibFuzzerAlarm \/ LibFuzzerExit \/ LibFuzzerLetsPass

Next == \/ Main \/ RBookkeeping \/ RNoteCall \/ RFinish \/ DumpHandler
        \/ Tick \/ AlarmHandler \/ Elapse

Spec == Init /\ [][Next]_vars

\* Time passes, the timer ticks, main and its handler are scheduled.  The
\* input need not finish, nor the R thread answer.
Fairness ==
    /\ WF_vars(Elapse)
    /\ WF_vars(Tick)
    /\ WF_vars(Main)
    /\ WF_vars(AlarmHandler)
    /\ WF_vars(RBookkeeping)

FairSpec == Spec /\ Fairness

-----------------------------------------------------------------------------
\* "libFuzzer's clock for the input is not visible, but it is bracketed: it
\* starts after the main thread last went idle (armed) and before the R
\* thread took the input (started)."
ClockBracketed ==
    running => startAge <= unitAge /\ unitAge <= armedAge

\* A tick that the handler found the input running on, and passed on for
\* being young, leaves a timeout without its dump only if it was delayed by
\* over a second since it read the armed clock.
YoungTickNeedsDelay ==
    hpc = "reported" /\ via = "younger" /\ requested # input => late > Sub

\* The dump, and the report after it, are only for an input that was running
\* when out of time by its own clock, the latest of the three.
DumpOnlyOutOfTime ==
    hpc \in {"request", "kill", "poll"} \/ via = "dump" =>
        /\ overran
        /\ Seconds(unitAge) >= Timeout

\* Once a held tick saw the input finish, libFuzzer gets no tick, be it the
\* held one or one that queued up, until main is idle again.
FinishedNotReported ==
    finishing => hpc \notin {"chain", "reported"} /\ ~running

\* A dump outstanding from one input does not stand in for the next's, also
\* when the number of the input wraps.
DumpNotStale ==
    done = input => answered

\* The label a dump prints was noted by the input being run.
LabelOfThisInput ==
    label # 0 => label = input /\ rpc = "target"

\* The R thread does not write fuzz_alarm.started, a plain struct, while the
\* handler reads it; nor does the input change under the handler.
ClockNotTorn ==
    hpc \in {"age", "look", "request", "kill", "poll"} =>
        rpc # "stamp" /\ mpc = "wait"

\* An input that never ends is reported, and the process exits or goes on as
\* libFuzzer decides, even if the R thread never answers.
HungInputReported ==
    (running /\ ~overran) ~> (~running \/ hpc = "reported" \/ exited)

\* A held tick is let go in bounded time: the input ends, or is found out of
\* time and its dump comes, cannot be asked for or is not waited for any more.
HeldTickLetGo ==
    hpc \in {"age", "look", "request", "kill", "poll"}
        ~> hpc \in {"off", "enter", "chain"}
=============================================================================
