------------------------------ MODULE RThread -------------------------------
(***************************************************************************)
(* The R thread of harnesses/common.h: fuzz_run_on_r_thread hands a job to *)
(* a worker thread with a large stack and waits for it, one                *)
(* condition-variable handoff each way; the thread is started on first     *)
(* use; a child of fork has lost it and starts its own.                    *)
(*                                                                         *)
(* Every process has its own copy of the static fuzz_r_thread, so each     *)
(* variable below is indexed by process, and Fork copies the parent's      *)
(* values.  Two threads run in a process: "main", which calls              *)
(* fuzz_run_on_r_thread, and "r", which runs fuzz_r_thread_main.  What the *)
(* same functions do to fuzz_alarm is in module TimeoutDump.               *)
(***************************************************************************)
EXTENDS Naturals

CONSTANTS Procs,            \* process slots; a slot whose process died is reused
          Root,             \* the process the fuzzer starts in
          Jobs,             \* the jobs handed over: initialization, inputs
          NoJob,            \* the NULL job pointer
          NoThread,         \* a pthread_t never written
          MaxDepth,         \* bound on jobs calling fuzz_run_on_r_thread themselves
          SpuriousWakeups   \* may pthread_cond_wait return without a broadcast?

ASSUME RThreadAssumption ==
    /\ Root \in Procs
    /\ NoJob \notin Jobs
    /\ NoThread \notin Procs
    /\ MaxDepth \in Nat
    /\ SpuriousWakeups \in BOOLEAN

VARIABLES
    live,      \* the processes that exist
    started,   \* fuzz_r_thread.started
    thread,    \* fuzz_r_thread.thread, named by the process it runs in
    mutex,     \* who holds fuzz_r_thread.mutex
    waiters,   \* the threads blocked on fuzz_r_thread.cond
    job,       \* fuzz_r_thread.job
    cstack,    \* R_CStackStart: the process whose R thread set it, NoThread
               \* when R's start-up did
    atfork,    \* atfork_registered
    mpc,       \* where main is in fuzz_run_on_r_thread
    mine,      \* the job in main's stack frame, NoJob once the frame is gone
    rpc,       \* where the R thread is in fuzz_r_thread_main
    taken,     \* the R thread's local job
    depth      \* jobs nested on the R thread inside the one it took

shared  == <<started, thread, mutex, waiters, job, cstack, atfork>>
mainVars == <<mpc, mine>>
rVars    == <<rpc, taken, depth>>
vars     == <<live, shared, mainVars, rVars>>

Threads == {"main", "r"}

MainPC == {"idle", "start", "publish", "lock", "post", "check", "wait"}

RPC == {"none", "born", "lock", "check", "wait", "took", "run", "startup", "ran"}

MainAt(p, at) == p \in live /\ mpc[p] = at
RAt(p, at)    == p \in live /\ rpc[p] = at

MainGoes(p, to) == mpc' = [mpc EXCEPT ![p] = to]
RGoes(p, to)    == rpc' = [rpc EXCEPT ![p] = to]

Acquire(p, t) ==
    /\ mutex[p] = "free"
    /\ mutex' = [mutex EXCEPT ![p] = t]

Release(p) == mutex' = [mutex EXCEPT ![p] = "free"]

\* pthread_cond_wait: give the mutex up and block, in one step.
CondWait(p, t) ==
    /\ Release(p)
    /\ waiters' = [waiters EXCEPT ![p] = @ \cup {t}]

Broadcast(p) == waiters' = [waiters EXCEPT ![p] = {}]

-----------------------------------------------------------------------------

Init ==
    /\ live    = {Root}
    /\ started = [p \in Procs |-> FALSE]
    /\ thread  = [p \in Procs |-> NoThread]
    /\ mutex   = [p \in Procs |-> "free"]
    /\ waiters = [p \in Procs |-> {}]
    /\ job     = [p \in Procs |-> NoJob]
    /\ cstack  = [p \in Procs |-> NoThread]
    /\ atfork  = [p \in Procs |-> FALSE]
    /\ mpc     = [p \in Procs |-> "idle"]
    /\ mine    = [p \in Procs |-> NoJob]
    /\ rpc     = [p \in Procs |-> "none"]
    /\ taken   = [p \in Procs |-> NoJob]
    /\ depth   = [p \in Procs |-> 0]

\* Main enters fuzz_run_on_r_thread.  It is never the R thread itself, so
\* fuzz_on_r_thread() is false for it and the job goes to the thread.
Call(p, j) ==
    /\ MainAt(p, "idle")
    /\ MainGoes(p, IF started[p] THEN "lock" ELSE "start")
    /\ mine' = [mine EXCEPT ![p] = j]
    /\ UNCHANGED <<live, shared, rVars>>

\* First use in this process: register the fork handler, unless an ancestor
\* did, and create the thread, which may run before started is set.
Start(p) ==
    /\ MainAt(p, "start")
    /\ MainGoes(p, "publish")
    /\ RGoes(p, "born")
    /\ atfork' = [atfork EXCEPT ![p] = TRUE]
    /\ thread' = [thread EXCEPT ![p] = p]
    /\ UNCHANGED <<live, started, mutex, waiters, job, cstack, mine, taken, depth>>

Publish(p) ==
    /\ MainAt(p, "publish")
    /\ MainGoes(p, "lock")
    /\ started' = [started EXCEPT ![p] = TRUE]
    /\ UNCHANGED <<live, thread, mutex, waiters, job, cstack, atfork, mine, rVars>>

Lock(p) ==
    /\ MainAt(p, "lock")
    /\ Acquire(p, "main")
    /\ MainGoes(p, "post")
    /\ UNCHANGED <<live, started, thread, waiters, job, cstack, atfork, mine, rVars>>

\* Variant: the job is posted without a broadcast.
PostSilently(p) ==
    /\ MainAt(p, "post")
    /\ MainGoes(p, "check")
    /\ job' = [job EXCEPT ![p] = mine[p]]
    /\ UNCHANGED <<live, started, thread, mutex, waiters, cstack, atfork, mine, rVars>>

Post(p) ==
    /\ MainAt(p, "post")
    /\ MainGoes(p, "check")
    /\ job' = [job EXCEPT ![p] = mine[p]]
    /\ Broadcast(p)
    /\ UNCHANGED <<live, started, thread, mutex, cstack, atfork, mine, rVars>>

Wait(p) ==
    /\ MainAt(p, "check")
    /\ job[p] # NoJob
    /\ CondWait(p, "main")
    /\ MainGoes(p, "wait")
    /\ UNCHANGED <<live, started, thread, job, cstack, atfork, mine, rVars>>

\* pthread_cond_wait returns: with the mutex, and back to the loop condition.
Wake(p) ==
    /\ MainAt(p, "wait")
    /\ "main" \notin waiters[p]
    /\ Acquire(p, "main")
    /\ MainGoes(p, "check")
    /\ UNCHANGED <<live, started, thread, waiters, job, cstack, atfork, mine, rVars>>

\* Variant: main waits with `if` where the code has `while`.
ReturnUnchecked(p) ==
    /\ MainAt(p, "check")
    /\ job[p] = NoJob \/ "main" \notin waiters[p]
    /\ Release(p)
    /\ MainGoes(p, "idle")
    /\ mine' = [mine EXCEPT ![p] = NoJob]
    /\ UNCHANGED <<live, started, thread, waiters, job, cstack, atfork, rVars>>

Return(p) ==
    /\ MainAt(p, "check")
    /\ job[p] = NoJob
    /\ Release(p)
    /\ MainGoes(p, "idle")
    /\ mine' = [mine EXCEPT ![p] = NoJob]
    /\ UNCHANGED <<live, started, thread, waiters, job, cstack, atfork, rVars>>

-----------------------------------------------------------------------------
\* The R thread.

\* Variant: the thread keeps the stack check it finds.
RBornInheriting(p) ==
    /\ RAt(p, "born")
    /\ RGoes(p, "lock")
    /\ UNCHANGED <<live, shared, mainVars, taken, depth>>

RBorn(p) ==
    /\ RAt(p, "born")
    /\ RGoes(p, "lock")
    /\ cstack' = [cstack EXCEPT ![p] = p]
    /\ UNCHANGED <<live, started, thread, mutex, waiters, job, atfork, mainVars, taken, depth>>

RLock(p) ==
    /\ RAt(p, "lock")
    /\ Acquire(p, "r")
    /\ RGoes(p, "check")
    /\ UNCHANGED <<live, started, thread, waiters, job, cstack, atfork, mainVars, taken, depth>>

RWait(p) ==
    /\ RAt(p, "check")
    /\ job[p] = NoJob
    /\ CondWait(p, "r")
    /\ RGoes(p, "wait")
    /\ UNCHANGED <<live, started, thread, job, cstack, atfork, mainVars, taken, depth>>

RWake(p) ==
    /\ RAt(p, "wait")
    /\ "r" \notin waiters[p]
    /\ Acquire(p, "r")
    /\ RGoes(p, "check")
    /\ UNCHANGED <<live, started, thread, waiters, job, cstack, atfork, mainVars, taken, depth>>

\* Variant: the job is cleared when it is taken, not when it is done.
RTakeClearing(p) ==
    /\ RAt(p, "check")
    /\ job[p] # NoJob
    /\ taken' = [taken EXCEPT ![p] = job[p]]
    /\ job' = [job EXCEPT ![p] = NoJob]
    /\ Broadcast(p)
    /\ Release(p)
    /\ RGoes(p, "took")
    /\ UNCHANGED <<live, started, thread, cstack, atfork, mainVars, depth>>

\* Variant: the job runs under the mutex.
RTakeLocked(p) ==
    /\ RAt(p, "check")
    /\ job[p] # NoJob
    /\ taken' = [taken EXCEPT ![p] = job[p]]
    /\ RGoes(p, "took")
    /\ UNCHANGED <<live, shared, mainVars, depth>>

RTake(p) ==
    /\ RAt(p, "check")
    /\ job[p] # NoJob
    /\ taken' = [taken EXCEPT ![p] = job[p]]
    /\ Release(p)
    /\ RGoes(p, "took")
    /\ UNCHANGED <<live, started, thread, waiters, job, cstack, atfork, mainVars, depth>>

\* job->fn(job->arg): reads the caller's stack frame.
RBegin(p) ==
    /\ RAt(p, "took")
    /\ RGoes(p, "run")
    /\ UNCHANGED <<live, shared, mainVars, taken, depth>>

OnRThread(p) == started[p] /\ thread[p] = p

\* A job calls fuzz_run_on_r_thread: on the R thread it is a plain call.
RNest(p) ==
    /\ RAt(p, "run")
    /\ depth[p] < MaxDepth
    /\ OnRThread(p)
    /\ depth' = [depth EXCEPT ![p] = @ + 1]
    /\ UNCHANGED <<live, shared, mainVars, rpc, taken>>

RUnnest(p) ==
    /\ RAt(p, "run")
    /\ depth[p] > 0
    /\ depth' = [depth EXCEPT ![p] = @ - 1]
    /\ UNCHANGED <<live, shared, mainVars, rpc, taken>>

\* fuzz_init_r, in a job of its own: Rf_initialize_R takes the main thread's
\* stack for R's...
RInitializeR(p) ==
    /\ RAt(p, "run")
    /\ depth[p] = 0
    /\ RGoes(p, "startup")
    /\ cstack' = [cstack EXCEPT ![p] = NoThread]
    /\ UNCHANGED <<live, started, thread, mutex, waiters, job, atfork, mainVars, taken, depth>>

\* Variant: nothing puts the R thread's back.
RRestoreForgotten(p) ==
    /\ RAt(p, "startup")
    /\ RGoes(p, "run")
    /\ UNCHANGED <<live, shared, mainVars, taken, depth>>

\* ... and fuzz_init_r puts the R thread's back.
RRestore(p) ==
    /\ RAt(p, "startup")
    /\ RGoes(p, "run")
    /\ cstack' = [cstack EXCEPT ![p] = p]
    /\ UNCHANGED <<live, started, thread, mutex, waiters, job, atfork, mainVars, taken, depth>>

REnd(p) ==
    /\ RAt(p, "run")
    /\ depth[p] = 0
    /\ RGoes(p, "ran")
    /\ UNCHANGED <<live, shared, mainVars, taken, depth>>

RClear(p) ==
    /\ RAt(p, "ran")
    /\ Acquire(p, "r")
    /\ job' = [job EXCEPT ![p] = NoJob]
    /\ Broadcast(p)
    /\ taken' = [taken EXCEPT ![p] = NoJob]
    /\ RGoes(p, "check")
    /\ UNCHANGED <<live, started, thread, cstack, atfork, mainVars, depth>>

-----------------------------------------------------------------------------
\* The environment: the pthread library, fork and death.

SpuriousWake(p, t) ==
    /\ SpuriousWakeups
    /\ p \in live
    /\ t \in waiters[p]
    /\ waiters' = [waiters EXCEPT ![p] = @ \ {t}]
    /\ UNCHANGED <<live, started, thread, mutex, job, cstack, atfork, mainVars, rVars>>

\* Variant: the child goes on believing in its parent's thread.
ForgetJobOnly(c) ==
    /\ started' = [started EXCEPT ![c] = TRUE]
    /\ job'     = [job     EXCEPT ![c] = NoJob]
    /\ mutex'   = [mutex   EXCEPT ![c] = "free"]
    /\ waiters' = [waiters EXCEPT ![c] = {}]

\* What fuzz_r_thread_forget leaves in the child's copy of fuzz_r_thread.
Forget(c) ==
    /\ started' = [started EXCEPT ![c] = FALSE]
    /\ job'     = [job     EXCEPT ![c] = NoJob]
    /\ mutex'   = [mutex   EXCEPT ![c] = "free"]
    /\ waiters' = [waiters EXCEPT ![c] = {}]

\* The child of a process that registered no handler: a plain copy.
Inherit(p, c) ==
    /\ started' = [started EXCEPT ![c] = started[p]]
    /\ job'     = [job     EXCEPT ![c] = job[p]]
    /\ mutex'   = [mutex   EXCEPT ![c] = mutex[p]]
    /\ waiters' = [waiters EXCEPT ![c] = waiters[p]]

\* AFL++'s forkserver: main forks between calls; only main survives in the
\* child.
Fork(p, c) ==
    /\ MainAt(p, "idle")
    /\ c \in Procs \ live
    /\ live' = live \cup {c}
    /\ IF atfork[p] THEN Forget(c) ELSE Inherit(p, c)
    /\ thread' = [thread EXCEPT ![c] = thread[p]]
    /\ cstack' = [cstack EXCEPT ![c] = cstack[p]]
    /\ atfork' = [atfork EXCEPT ![c] = atfork[p]]
    /\ mpc'    = [mpc    EXCEPT ![c] = "idle"]
    /\ mine'   = [mine   EXCEPT ![c] = NoJob]
    /\ rpc'    = [rpc    EXCEPT ![c] = "none"]
    /\ taken'  = [taken  EXCEPT ![c] = NoJob]
    /\ depth'  = [depth  EXCEPT ![c] = 0]

\* The process is gone: a job crashed or aborted it, or the fork handler or
\* the thread could not be set up.
Die(p) ==
    /\ MainAt(p, "start") \/ RAt(p, "run") \/ RAt(p, "startup")
    /\ live'    = live \ {p}
    /\ started' = [started EXCEPT ![p] = FALSE]
    /\ thread'  = [thread  EXCEPT ![p] = NoThread]
    /\ mutex'   = [mutex   EXCEPT ![p] = "free"]
    /\ waiters' = [waiters EXCEPT ![p] = {}]
    /\ job'     = [job     EXCEPT ![p] = NoJob]
    /\ cstack'  = [cstack  EXCEPT ![p] = NoThread]
    /\ atfork'  = [atfork  EXCEPT ![p] = FALSE]
    /\ mpc'     = [mpc     EXCEPT ![p] = "idle"]
    /\ mine'    = [mine    EXCEPT ![p] = NoJob]
    /\ rpc'     = [rpc     EXCEPT ![p] = "none"]
    /\ taken'   = [taken   EXCEPT ![p] = NoJob]
    /\ depth'   = [depth   EXCEPT ![p] = 0]

\* Every process died: the fuzzing job starts the fuzzer again.
Restart ==
    /\ live = {}
    /\ live' = {Root}
    /\ UNCHANGED <<shared, mainVars, rVars>>

Main(p) ==
    \/ Start(p) \/ Publish(p) \/ Lock(p) \/ Post(p)
    \/ Wait(p) \/ Wake(p) \/ Return(p)

RThreadMain(p) ==
    \/ RBorn(p) \/ RLock(p) \/ RWait(p) \/ RWake(p) \/ RTake(p)
    \/ RBegin(p) \/ RUnnest(p) \/ RRestore(p) \/ REnd(p) \/ RClear(p)

Step(p) ==
    \/ \E j \in Jobs : Call(p, j)
    \/ Main(p)
    \/ RThreadMain(p)
    \/ RNest(p) \/ RInitializeR(p)
    \/ \E t \in Threads : SpuriousWake(p, t)
    \/ \E c \in Procs : Fork(p, c)
    \/ Die(p)

Next == Restart \/ \E p \in Procs : Step(p)

Spec == Init /\ [][Next]_vars

\* Both threads keep being scheduled, and a job ends sooner or later whatever
\* it nests; nobody has to call, fork, nest, start R or die.  Spurious wakeups are the
\* exception: a thread does not keep getting them for ever.
AnySpuriousWake == \E p \in Procs, t \in Threads : SpuriousWake(p, t)

Fairness ==
    /\ \A p \in Procs :
        /\ WF_vars(Main(p))
        /\ WF_vars(RThreadMain(p))
        /\ SF_vars(REnd(p))
    /\ <>[][~AnySpuriousWake]_vars

FairSpec == Spec /\ Fairness

-----------------------------------------------------------------------------
\* Properties.

\* The type invariant, over every process that lives.
TypeOK ==
    /\ live \subseteq Procs
    /\ started \in [Procs -> BOOLEAN]
    /\ thread  \in [Procs -> Procs \cup {NoThread}]
    /\ mutex   \in [Procs -> Threads \cup {"free"}]
    /\ waiters \in [Procs -> SUBSET Threads]
    /\ job     \in [Procs -> Jobs \cup {NoJob}]
    /\ cstack  \in [Procs -> Procs \cup {NoThread}]
    /\ atfork  \in [Procs -> BOOLEAN]
    /\ mpc     \in [Procs -> MainPC]
    /\ mine    \in [Procs -> Jobs \cup {NoJob}]
    /\ rpc     \in [Procs -> RPC]
    /\ taken   \in [Procs -> Jobs \cup {NoJob}]
    /\ depth   \in [Procs -> 0..MaxDepth]

\* Between taking a job and clearing it the R thread dereferences a pointer
\* into the stack frame of fuzz_run_on_r_thread: that frame is still there,
\* waiting, and holds the very job that was taken.
JobFrameAlive ==
    \A p \in live : rpc[p] \in {"took", "run", "startup", "ran"} =>
        /\ mpc[p] \in {"check", "wait"}
        /\ taken[p] = mine[p]
        /\ taken[p] # NoJob

\* Neither side sleeps through the other's broadcast: the R thread is not
\* blocked while a job is posted, nor main while its job is cleared.
NoLostWakeup ==
    \A p \in live :
        /\ "r" \in waiters[p] => job[p] = NoJob
        /\ "main" \in waiters[p] => job[p] # NoJob

\* Inside a job fuzz_on_r_thread() answers true, though the thread may start
\* before started is set, and R's stack check measures the stack the job is
\* really on, in a forked child and after R's start-up as well.
OnOwnThread ==
    \A p \in live : rpc[p] = "run" => OnRThread(p) /\ cstack[p] = p

\* A call returns unless the process dies, in a forked child too, which
\* inherits an initialized R and no thread to run it on.
CallReturns ==
    \A p \in Procs : mpc[p] # "idle" ~> mpc[p] = "idle"

\* The call of process p as its caller and its job see it.
PhaseOf(p) ==
    CASE rpc[p] \in {"run", "startup"} -> "running"
      [] rpc[p] = "ran" -> "ran"
      [] mpc[p] \in {"check", "wait"} /\ job[p] = NoJob -> "ran"
      [] mpc[p] = "idle" -> "idle"
      [] OTHER -> "called"

phase == [p \in Procs |-> PhaseOf(p)]

Abs == INSTANCE SyncCall

\* The handoff implements the synchronous call: the job of every call begins
\* once, after the call, and ends before the call returns, whatever the two
\* threads, the forks and the deaths do in between.
ImplementsSyncCall == Abs!Spec

-----------------------------------------------------------------------------
\* The inductive invariant behind the safety properties.

\* fuzz_r_thread.mutex is held exactly where the code says it is, and only
\* threads blocked in pthread_cond_wait wait.
MutexInv(p) ==
    /\ mutex[p] = "main" <=> mpc[p] \in {"post", "check"}
    /\ mutex[p] = "r" <=> rpc[p] = "check"
    /\ "main" \in waiters[p] => mpc[p] = "wait" /\ job[p] # NoJob
    /\ "r" \in waiters[p] => rpc[p] = "wait" /\ job[p] = NoJob

\* The thread exists from Start on and is known to from Publish on.
ThreadInv(p) ==
    /\ started[p] => rpc[p] # "none"
    /\ rpc[p] # "none" => thread[p] = p /\ atfork[p] /\ (started[p] \/ mpc[p] = "publish")
    /\ rpc[p] \notin {"none", "born", "startup"} => cstack[p] = p
    /\ mpc[p] \in {"lock", "post", "check", "wait"} => started[p]
    /\ mpc[p] = "start" => rpc[p] = "none"
    /\ mpc[p] = "publish" => ~started[p] /\ rpc[p] # "none"

\* A job is posted only while its caller waits for it, and stays posted
\* while the R thread has it.
JobInv(p) ==
    /\ mine[p] = NoJob <=> mpc[p] = "idle"
    /\ job[p] # NoJob => mpc[p] \in {"check", "wait"} /\ job[p] = mine[p]
    /\ rpc[p] \in {"took", "run", "startup", "ran"} => job[p] # NoJob /\ taken[p] = job[p]
    /\ depth[p] > 0 => rpc[p] = "run"

\* A free slot holds nothing.
DeadInv(p) ==
    p \notin live => mpc[p] = "idle" /\ rpc[p] = "none"

IInv ==
    /\ TypeOK
    /\ \A p \in Procs : MutexInv(p) /\ ThreadInv(p) /\ JobInv(p) /\ DeadInv(p)
=============================================================================
