--------------------------- MODULE RThread_proofs ---------------------------
(***************************************************************************)
(* Proofs about the R thread, for any set of processes and of jobs, any    *)
(* nesting bound, with and without spurious wakeups.                       *)
(***************************************************************************)
EXTENDS RThread, TLAPS

\* Every variable of fuzz_r_thread holds a value of its type, and the
\* invariant holds, when the fuzzer starts.
LEMMA InitIInv == Init => IInv
  BY RThreadAssumption
  DEF Init, IInv, TypeOK, MutexInv, ThreadInv, JobInv, DeadInv,
      Threads, MainPC, RPC

\* Types are preserved by every step of either thread and by fork and death.
LEMMA NextTypeOK == TypeOK /\ [Next]_vars => TypeOK'
  <1> SUFFICES ASSUME TypeOK, [Next]_vars
             PROVE  TypeOK'
    OBVIOUS
  <1> USE RThreadAssumption DEF TypeOK, Threads, MainPC, RPC,
          MainAt, RAt, MainGoes, RGoes, Acquire, Release, CondWait, Broadcast,
          shared, mainVars, rVars
  <1>1. ASSUME NEW p \in Procs, NEW j \in Jobs, Call(p, j)
        PROVE  TypeOK'
    BY <1>1 DEF Call
  <1>2. ASSUME NEW p \in Procs, Start(p)
        PROVE  TypeOK'
    BY <1>2 DEF Start
  <1>3. ASSUME NEW p \in Procs, Publish(p)
        PROVE  TypeOK'
    BY <1>3 DEF Publish
  <1>4. ASSUME NEW p \in Procs, Lock(p)
        PROVE  TypeOK'
    BY <1>4 DEF Lock
  <1>5. ASSUME NEW p \in Procs, Post(p)
        PROVE  TypeOK'
    BY <1>5 DEF Post
  <1>6. ASSUME NEW p \in Procs, Wait(p)
        PROVE  TypeOK'
    BY <1>6 DEF Wait
  <1>7. ASSUME NEW p \in Procs, Wake(p)
        PROVE  TypeOK'
    BY <1>7 DEF Wake
  <1>8. ASSUME NEW p \in Procs, Return(p)
        PROVE  TypeOK'
    BY <1>8 DEF Return
  <1>9. ASSUME NEW p \in Procs, RBorn(p)
        PROVE  TypeOK'
    BY <1>9 DEF RBorn
  <1>10. ASSUME NEW p \in Procs, RLock(p)
        PROVE  TypeOK'
    BY <1>10 DEF RLock
  <1>11. ASSUME NEW p \in Procs, RWait(p)
        PROVE  TypeOK'
    BY <1>11 DEF RWait
  <1>12. ASSUME NEW p \in Procs, RWake(p)
        PROVE  TypeOK'
    BY <1>12 DEF RWake
  <1>13. ASSUME NEW p \in Procs, RTake(p)
        PROVE  TypeOK'
    BY <1>13 DEF RTake
  <1>14. ASSUME NEW p \in Procs, RBegin(p)
        PROVE  TypeOK'
    BY <1>14 DEF RBegin
  <1>15. ASSUME NEW p \in Procs, RNest(p)
        PROVE  TypeOK'
    BY <1>15 DEF RNest
  <1>16. ASSUME NEW p \in Procs, RUnnest(p)
        PROVE  TypeOK'
    BY <1>16 DEF RUnnest
  <1>17. ASSUME NEW p \in Procs, REnd(p)
        PROVE  TypeOK'
    BY <1>17 DEF REnd
  <1>18. ASSUME NEW p \in Procs, RInitializeR(p)
        PROVE  TypeOK'
    BY <1>18 DEF RInitializeR
  <1>19. ASSUME NEW p \in Procs, RRestore(p)
        PROVE  TypeOK'
    BY <1>19 DEF RRestore
  <1>20. ASSUME NEW p \in Procs, RClear(p)
        PROVE  TypeOK'
    BY <1>20 DEF RClear
  <1>21. ASSUME NEW p \in Procs, NEW t \in Threads, SpuriousWake(p, t)
        PROVE  TypeOK'
    BY <1>21 DEF SpuriousWake
  <1>22. ASSUME NEW p \in Procs, NEW c \in Procs, Fork(p, c)
        PROVE  TypeOK'
    <2>1. CASE atfork[p]
      <3>1. /\ live \cup {c} \subseteq Procs
            /\ started' \in [Procs -> BOOLEAN]
            /\ atfork' \in [Procs -> BOOLEAN]
        BY <1>22, <2>1, Zenon DEF Fork, Forget
      <3>2. QED
        BY <1>22, <2>1, <3>1 DEF Fork, Forget
    <2>2. CASE ~atfork[p]
      BY <1>22, <2>2 DEF Fork, Inherit
    <2>3. QED
      BY <2>1, <2>2
  <1>23. ASSUME NEW p \in Procs, Die(p)
        PROVE  TypeOK'
    BY <1>23 DEF Die
  <1>24. CASE Restart
    BY <1>24 DEF Restart
  <1>25. CASE UNCHANGED vars
    BY <1>25 DEF vars
  <1> HIDE DEF TypeOK, Threads, MainPC, RPC,
          MainAt, RAt, MainGoes, RGoes, Acquire, Release, CondWait, Broadcast,
          shared, mainVars, rVars
  <1>26. QED
    BY <1>1, <1>2, <1>3, <1>4, <1>5, <1>6, <1>7, <1>8, <1>9, <1>10,
       <1>11, <1>12, <1>13, <1>14, <1>15, <1>16, <1>17, <1>18, <1>19, <1>20, <1>21, <1>22,
       <1>23, <1>24, <1>25
    DEF Next, Step, Main, RThreadMain

\* Every step preserves the invariant.
LEMMA NextIInv == IInv /\ [Next]_vars => IInv'
  <1> SUFFICES ASSUME IInv, [Next]_vars
               PROVE  IInv'
    OBVIOUS
  <1> DEFINE PInv(q) == MutexInv(q) /\ ThreadInv(q) /\ JobInv(q) /\ DeadInv(q)
  <1>a. TypeOK'
    BY NextTypeOK DEF IInv
  <1>b. SUFFICES ASSUME NEW q \in Procs PROVE PInv(q)'
    BY <1>a DEF IInv
  <1> USE RThreadAssumption DEF IInv, TypeOK, Threads, MainPC, RPC,
          MutexInv, ThreadInv, JobInv, DeadInv,
          MainAt, RAt, MainGoes, RGoes, Acquire, Release, CondWait, Broadcast,
          shared, mainVars, rVars
  <1>1. ASSUME NEW p \in Procs, NEW j \in Jobs, Call(p, j)
        PROVE  PInv(q)'
    BY <1>1 DEF Call
  <1>2. ASSUME NEW p \in Procs, Start(p)
        PROVE  PInv(q)'
    BY <1>2 DEF Start
  <1>3. ASSUME NEW p \in Procs, Publish(p)
        PROVE  PInv(q)'
    BY <1>3 DEF Publish
  <1>4. ASSUME NEW p \in Procs, Lock(p)
        PROVE  PInv(q)'
    BY <1>4 DEF Lock
  <1>5. ASSUME NEW p \in Procs, Post(p)
        PROVE  PInv(q)'
    BY <1>5 DEF Post
  <1>6. ASSUME NEW p \in Procs, Wait(p)
        PROVE  PInv(q)'
    BY <1>6 DEF Wait
  <1>7. ASSUME NEW p \in Procs, Wake(p)
        PROVE  PInv(q)'
    BY <1>7 DEF Wake
  <1>8. ASSUME NEW p \in Procs, Return(p)
        PROVE  PInv(q)'
    BY <1>8 DEF Return
  <1>9. ASSUME NEW p \in Procs, RBorn(p)
        PROVE  PInv(q)'
    BY <1>9 DEF RBorn
  <1>10. ASSUME NEW p \in Procs, RLock(p)
        PROVE  PInv(q)'
    BY <1>10 DEF RLock
  <1>11. ASSUME NEW p \in Procs, RWait(p)
        PROVE  PInv(q)'
    BY <1>11 DEF RWait
  <1>12. ASSUME NEW p \in Procs, RWake(p)
        PROVE  PInv(q)'
    BY <1>12 DEF RWake
  <1>13. ASSUME NEW p \in Procs, RTake(p)
        PROVE  PInv(q)'
    BY <1>13 DEF RTake
  <1>14. ASSUME NEW p \in Procs, RBegin(p)
        PROVE  PInv(q)'
    BY <1>14 DEF RBegin
  <1>15. ASSUME NEW p \in Procs, RNest(p)
        PROVE  PInv(q)'
    BY <1>15 DEF RNest
  <1>16. ASSUME NEW p \in Procs, RUnnest(p)
        PROVE  PInv(q)'
    BY <1>16 DEF RUnnest
  <1>17. ASSUME NEW p \in Procs, REnd(p)
        PROVE  PInv(q)'
    BY <1>17 DEF REnd
  <1>18. ASSUME NEW p \in Procs, RInitializeR(p)
        PROVE  PInv(q)'
    BY <1>18 DEF RInitializeR
  <1>19. ASSUME NEW p \in Procs, RRestore(p)
        PROVE  PInv(q)'
    BY <1>19 DEF RRestore
  <1>20. ASSUME NEW p \in Procs, RClear(p)
        PROVE  PInv(q)'
    BY <1>20 DEF RClear
  <1>21. ASSUME NEW p \in Procs, NEW t \in Threads, SpuriousWake(p, t)
        PROVE  PInv(q)'
    BY <1>21 DEF SpuriousWake
  <1>22. ASSUME NEW p \in Procs, NEW c \in Procs, Fork(p, c)
        PROVE  PInv(q)'
    BY <1>22 DEF Fork, Forget, Inherit
  <1>23. ASSUME NEW p \in Procs, Die(p)
        PROVE  PInv(q)'
    BY <1>23 DEF Die
  <1>24. CASE Restart
    BY <1>24 DEF Restart
  <1>25. CASE UNCHANGED vars
    BY <1>25 DEF vars
  <1> HIDE DEF IInv, TypeOK, Threads, MainPC, RPC,
          MutexInv, ThreadInv, JobInv, DeadInv,
          MainAt, RAt, MainGoes, RGoes, Acquire, Release, CondWait, Broadcast,
          shared, mainVars, rVars, PInv
  <1>26. QED
    BY <1>1, <1>2, <1>3, <1>4, <1>5, <1>6, <1>7, <1>8, <1>9, <1>10,
       <1>11, <1>12, <1>13, <1>14, <1>15, <1>16, <1>17, <1>18, <1>19, <1>20, <1>21, <1>22,
       <1>23, <1>24, <1>25
    DEF Next, Step, Main, RThreadMain

\* TypeOK: every variable keeps its type.
THEOREM TypeCorrect == Spec => []TypeOK
  <1>1. Init => TypeOK
    BY InitIInv DEF IInv
  <1>2. QED
    BY <1>1, NextTypeOK, PTL DEF Spec

THEOREM Invariance == Spec => []IInv
  BY InitIInv, NextIInv, PTL DEF Spec

\* The R thread never touches a stack frame fuzz_run_on_r_thread has left.
THEOREM JobFrames == Spec => []JobFrameAlive
  <1>1. IInv => JobFrameAlive
    BY RThreadAssumption DEF IInv, TypeOK, JobInv, JobFrameAlive
  <1>2. QED
    BY <1>1, Invariance, PTL

\* No broadcast of either side is lost.
THEOREM NoLostWakeups == Spec => []NoLostWakeup
  <1>1. IInv => NoLostWakeup
    BY RThreadAssumption DEF IInv, TypeOK, MutexInv, NoLostWakeup
  <1>2. QED
    BY <1>1, Invariance, PTL

\* Every job finds itself on the R thread, its stack the one R checks.
THEOREM JobsOnOwnThread == Spec => []OnOwnThread
  <1>1. IInv => OnOwnThread
    BY DEF IInv, TypeOK, ThreadInv, JobInv, OnOwnThread, OnRThread
  <1>2. QED
    BY <1>1, Invariance, PTL

-----------------------------------------------------------------------------
\* The handoff implements SyncCall.

\* A step that leaves the phases of the other processes alone changes phase
\* at one process.
LEMMA PhaseChange ==
  ASSUME NEW p \in Procs,
         \A q \in Procs \ {p} : PhaseOf(q)' = PhaseOf(q)
  PROVE  phase' = [phase EXCEPT ![p] = PhaseOf(p)']
  BY DEF phase

\* Every step of the handoff is a step of SyncCall or leaves phase alone.
LEMMA StepImplements == IInv /\ [Next]_vars => [Abs!Next]_(Abs!svars)
  <1> SUFFICES ASSUME IInv, [Next]_vars
               PROVE  [Abs!Next]_(Abs!svars)
    OBVIOUS
  <1> DEFINE Same(q) == PhaseOf(q)' = PhaseOf(q)
  <1>a. ASSUME live' = live, \A q \in Procs : Same(q)
        PROVE  UNCHANGED Abs!svars
    BY <1>a DEF Abs!svars, phase
  <1>b. ASSUME NEW p \in Procs, \A q \in Procs \ {p} : Same(q)
        PROVE  phase' = [phase EXCEPT ![p] = PhaseOf(p)']
    BY <1>b, PhaseChange
  <1> USE
  DEF MainAt, RAt, MainGoes, RGoes, Acquire, Release, CondWait, Broadcast
  <1>1. ASSUME NEW p \in Procs, NEW j \in Jobs, Call(p, j)
        PROVE  Abs!Call(p)
    <2>1. p \in live /\ PhaseOf(p) = "idle" /\ PhaseOf(p)' = "called" /\ live' = live
      BY <1>1, RThreadAssumption
      DEF Call, IInv, TypeOK, MutexInv, ThreadInv, JobInv, PhaseOf, shared,
          mainVars, rVars
    <2>2. \A q \in Procs \ {p} : Same(q)
      BY <1>1
      DEF Call, IInv, TypeOK, MutexInv, ThreadInv, JobInv, PhaseOf, shared,
          mainVars, rVars
    <2>3. QED
      BY <2>1, <2>2, <1>b DEF phase, Abs!Call, Abs!Move
  <1>2. ASSUME NEW p \in Procs, Start(p)
        PROVE  UNCHANGED Abs!svars
    <2>1. live' = live /\ \A q \in Procs : Same(q)
      BY <1>2, RThreadAssumption
      DEF Start, IInv, TypeOK, MutexInv, ThreadInv, JobInv, PhaseOf, shared,
          mainVars, rVars
    <2>2. QED
      BY <2>1, <1>a
  <1>3. ASSUME NEW p \in Procs, Publish(p)
        PROVE  UNCHANGED Abs!svars
    <2>1. live' = live /\ \A q \in Procs : Same(q)
      BY <1>3, RThreadAssumption
      DEF Publish, IInv, TypeOK, MutexInv, ThreadInv, JobInv, PhaseOf, shared,
          mainVars, rVars
    <2>2. QED
      BY <2>1, <1>a
  <1>4. ASSUME NEW p \in Procs, Lock(p)
        PROVE  UNCHANGED Abs!svars
    <2>1. live' = live /\ \A q \in Procs : Same(q)
      BY <1>4, RThreadAssumption
      DEF Lock, IInv, TypeOK, MutexInv, ThreadInv, JobInv, PhaseOf, shared,
          mainVars, rVars
    <2>2. QED
      BY <2>1, <1>a
  <1>5. ASSUME NEW p \in Procs, Post(p)
        PROVE  UNCHANGED Abs!svars
    <2>1. live' = live /\ \A q \in Procs : Same(q)
      BY <1>5, RThreadAssumption
      DEF Post, IInv, TypeOK, MutexInv, ThreadInv, JobInv, PhaseOf, shared,
          mainVars, rVars
    <2>2. QED
      BY <2>1, <1>a
  <1>6. ASSUME NEW p \in Procs, Wait(p)
        PROVE  UNCHANGED Abs!svars
    <2>1. live' = live /\ \A q \in Procs : Same(q)
      BY <1>6, RThreadAssumption
      DEF Wait, IInv, TypeOK, MutexInv, ThreadInv, JobInv, PhaseOf, shared,
          mainVars, rVars
    <2>2. QED
      BY <2>1, <1>a
  <1>7. ASSUME NEW p \in Procs, Wake(p)
        PROVE  UNCHANGED Abs!svars
    <2>1. live' = live /\ \A q \in Procs : Same(q)
      BY <1>7, RThreadAssumption
      DEF Wake, IInv, TypeOK, MutexInv, ThreadInv, JobInv, PhaseOf, shared,
          mainVars, rVars
    <2>2. QED
      BY <2>1, <1>a
  <1>8. ASSUME NEW p \in Procs, Return(p)
        PROVE  Abs!Return(p)
    <2>1. p \in live /\ PhaseOf(p) = "ran" /\ PhaseOf(p)' = "idle" /\ live' = live
      BY <1>8, RThreadAssumption
      DEF Return, IInv, TypeOK, MutexInv, ThreadInv, JobInv, PhaseOf, shared,
          mainVars, rVars
    <2>2. \A q \in Procs \ {p} : Same(q)
      BY <1>8
      DEF Return, IInv, TypeOK, MutexInv, ThreadInv, JobInv, PhaseOf, shared,
          mainVars, rVars
    <2>3. QED
      BY <2>1, <2>2, <1>b DEF phase, Abs!Return, Abs!Move
  <1>9. ASSUME NEW p \in Procs, RBorn(p)
        PROVE  UNCHANGED Abs!svars
    <2>1. live' = live /\ \A q \in Procs : Same(q)
      BY <1>9, RThreadAssumption
      DEF RBorn, IInv, TypeOK, MutexInv, ThreadInv, JobInv, PhaseOf, shared,
          mainVars, rVars
    <2>2. QED
      BY <2>1, <1>a
  <1>10. ASSUME NEW p \in Procs, RLock(p)
        PROVE  UNCHANGED Abs!svars
    <2>1. live' = live /\ \A q \in Procs : Same(q)
      BY <1>10, RThreadAssumption
      DEF RLock, IInv, TypeOK, MutexInv, ThreadInv, JobInv, PhaseOf, shared,
          mainVars, rVars
    <2>2. QED
      BY <2>1, <1>a
  <1>11. ASSUME NEW p \in Procs, RWait(p)
        PROVE  UNCHANGED Abs!svars
    <2>1. live' = live /\ \A q \in Procs : Same(q)
      BY <1>11, RThreadAssumption
      DEF RWait, IInv, TypeOK, MutexInv, ThreadInv, JobInv, PhaseOf, shared,
          mainVars, rVars
    <2>2. QED
      BY <2>1, <1>a
  <1>12. ASSUME NEW p \in Procs, RWake(p)
        PROVE  UNCHANGED Abs!svars
    <2>1. live' = live /\ \A q \in Procs : Same(q)
      BY <1>12, RThreadAssumption
      DEF RWake, IInv, TypeOK, MutexInv, ThreadInv, JobInv, PhaseOf, shared,
          mainVars, rVars
    <2>2. QED
      BY <2>1, <1>a
  <1>13. ASSUME NEW p \in Procs, RTake(p)
        PROVE  UNCHANGED Abs!svars
    <2>1. live' = live /\ \A q \in Procs : Same(q)
      BY <1>13, RThreadAssumption
      DEF RTake, IInv, TypeOK, MutexInv, ThreadInv, JobInv, PhaseOf, shared,
          mainVars, rVars
    <2>2. QED
      BY <2>1, <1>a
  <1>14. ASSUME NEW p \in Procs, RBegin(p)
        PROVE  Abs!Begin(p)
    <2>1. p \in live /\ PhaseOf(p) = "called" /\ PhaseOf(p)' = "running" /\ live' = live
      BY <1>14, RThreadAssumption
      DEF RBegin, IInv, TypeOK, MutexInv, ThreadInv, JobInv, PhaseOf, shared,
          mainVars, rVars
    <2>2. \A q \in Procs \ {p} : Same(q)
      BY <1>14
      DEF RBegin, IInv, TypeOK, MutexInv, ThreadInv, JobInv, PhaseOf, shared,
          mainVars, rVars
    <2>3. QED
      BY <2>1, <2>2, <1>b DEF phase, Abs!Begin, Abs!Move
  <1>15. ASSUME NEW p \in Procs, RNest(p)
        PROVE  UNCHANGED Abs!svars
    <2>1. live' = live /\ \A q \in Procs : Same(q)
      BY <1>15, RThreadAssumption
      DEF RNest, IInv, TypeOK, MutexInv, ThreadInv, JobInv, PhaseOf, shared,
          mainVars, rVars
    <2>2. QED
      BY <2>1, <1>a
  <1>16. ASSUME NEW p \in Procs, RUnnest(p)
        PROVE  UNCHANGED Abs!svars
    <2>1. live' = live /\ \A q \in Procs : Same(q)
      BY <1>16, RThreadAssumption
      DEF RUnnest, IInv, TypeOK, MutexInv, ThreadInv, JobInv, PhaseOf, shared,
          mainVars, rVars
    <2>2. QED
      BY <2>1, <1>a
  <1>17. ASSUME NEW p \in Procs, REnd(p)
        PROVE  Abs!End(p)
    <2>1. p \in live /\ PhaseOf(p) = "running" /\ PhaseOf(p)' = "ran" /\ live' = live
      BY <1>17, RThreadAssumption
      DEF REnd, IInv, TypeOK, MutexInv, ThreadInv, JobInv, PhaseOf, shared,
          mainVars, rVars
    <2>2. \A q \in Procs \ {p} : Same(q)
      BY <1>17
      DEF REnd, IInv, TypeOK, MutexInv, ThreadInv, JobInv, PhaseOf, shared,
          mainVars, rVars
    <2>3. QED
      BY <2>1, <2>2, <1>b DEF phase, Abs!End, Abs!Move
  <1>18. ASSUME NEW p \in Procs, RInitializeR(p)
        PROVE  UNCHANGED Abs!svars
    <2>1. live' = live /\ \A q \in Procs : Same(q)
      BY <1>18, RThreadAssumption
      DEF RInitializeR, IInv, TypeOK, MutexInv, ThreadInv, JobInv, PhaseOf, shared,
          mainVars, rVars
    <2>2. QED
      BY <2>1, <1>a
  <1>19. ASSUME NEW p \in Procs, RRestore(p)
        PROVE  UNCHANGED Abs!svars
    <2>1. live' = live /\ \A q \in Procs : Same(q)
      BY <1>19, RThreadAssumption
      DEF RRestore, IInv, TypeOK, MutexInv, ThreadInv, JobInv, PhaseOf, shared,
          mainVars, rVars
    <2>2. QED
      BY <2>1, <1>a
  <1>20. ASSUME NEW p \in Procs, RClear(p)
        PROVE  UNCHANGED Abs!svars
    <2>1. live' = live /\ \A q \in Procs : Same(q)
      BY <1>20, RThreadAssumption
      DEF RClear, IInv, TypeOK, MutexInv, ThreadInv, JobInv, PhaseOf, shared,
          mainVars, rVars
    <2>2. QED
      BY <2>1, <1>a
  <1>21. ASSUME NEW p \in Procs, NEW t \in Threads, SpuriousWake(p, t)
        PROVE  UNCHANGED Abs!svars
    <2>1. live' = live /\ \A q \in Procs : Same(q)
      BY <1>21, RThreadAssumption
      DEF SpuriousWake, IInv, TypeOK, MutexInv, ThreadInv, JobInv, PhaseOf,
          shared, mainVars, rVars
    <2>2. QED
      BY <2>1, <1>a
  <1>22. ASSUME NEW p \in Procs, NEW c \in Procs, Fork(p, c)
        PROVE  Abs!Fork(p, c)
    <2>1. /\ p \in live /\ PhaseOf(p) = "idle"
          /\ c \notin live /\ live' = live \cup {c}
      BY <1>22, RThreadAssumption
      DEF Fork, IInv, TypeOK, ThreadInv, JobInv, PhaseOf
    <2>2. PhaseOf(c)' = "idle"
      BY <1>22 DEF Fork, IInv, TypeOK, PhaseOf
    <2>3. job' = [job EXCEPT ![c] = job'[c]]
      BY <1>22 DEF Fork, Forget, Inherit, IInv, TypeOK
    <2>4. \A q \in Procs \ {c} : Same(q)
      BY <1>22, <2>3 DEF Fork, IInv, TypeOK, PhaseOf
    <2>5. QED
      BY <2>1, <2>2, <2>4, <1>b DEF phase, Abs!Fork
  <1>23. ASSUME NEW p \in Procs, Die(p)
        PROVE  Abs!Die(p)
    <2>1. /\ p \in live /\ live' = live \ {p}
          /\ PhaseOf(p) \in {"called", "running"}
      BY <1>23, RThreadAssumption
      DEF Die, IInv, TypeOK, ThreadInv, JobInv, PhaseOf
    <2>2. PhaseOf(p)' = "idle"
      BY <1>23 DEF Die, IInv, TypeOK, PhaseOf
    <2>3. \A q \in Procs \ {p} : Same(q)
      BY <1>23 DEF Die, IInv, TypeOK, PhaseOf
    <2>4. QED
      BY <2>1, <2>2, <2>3, <1>b DEF phase, Abs!Die
  <1>24. CASE Restart
    <2>1. \A q \in Procs : Same(q)
      BY <1>24 DEF Restart, PhaseOf, shared, mainVars, rVars
    <2>2. QED
      BY <1>24, <2>1 DEF Restart, phase, Abs!Next, Abs!Restart
  <1>25. CASE UNCHANGED vars
    <2>1. live' = live /\ \A q \in Procs : Same(q)
      BY <1>25 DEF vars, PhaseOf, shared, mainVars, rVars
    <2>2. QED
      BY <2>1, <1>a
  <1>26. QED
    BY <1>1, <1>2, <1>3, <1>4, <1>5, <1>6, <1>7, <1>8, <1>9, <1>10,
       <1>11, <1>12, <1>13, <1>14, <1>15, <1>16, <1>17, <1>18, <1>19, <1>20, <1>21, <1>22,
       <1>23, <1>24, <1>25
    DEF Next, Step, Main, RThreadMain, Abs!Next

\* Every job runs once, on the R thread, between the call and its return:
\* the handoff implements the synchronous call.
THEOREM Refinement == Spec => ImplementsSyncCall
  <1>1. Init => Abs!Init
    BY RThreadAssumption DEF Init, Abs!Init, phase, PhaseOf
  <1>2. QED
    BY <1>1, Invariance, StepImplements, PTL
    DEF Spec, ImplementsSyncCall, Abs!Spec
=============================================================================
