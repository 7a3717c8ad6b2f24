------------------------- MODULE TimeoutDump_proofs -------------------------
(***************************************************************************)
(* The races of the alarm handler with the input, for any timeout, clock   *)
(* resolution, number of looks and width of the input's number.            *)
(***************************************************************************)
EXTENDS TimeoutDump, TLAPS

\* The handler's steps from reading the armed clock to the end of its wait.
Holding == {"armed", "age", "look", "request", "kill", "poll"}

Types ==
    /\ live = {Root}
    /\ phase \in [{Root} -> {"idle", "called", "running", "ran"}]
    /\ mpc \in {"idle", "timed", "wrap", "number", "post", "wait", "reset", "arm", "leave"}
    /\ hpc \in {"off", "enter", "chain", "reported"} \cup Holding
    /\ rpc \in {"idle", "stamp", "announce", "begin", "target", "retract"}
    /\ armedAge \in 0 .. Old /\ unitAge \in 0 .. Old /\ startAge \in 0 .. Old
    /\ wrapper \in {"never", "in", "failed"}
    /\ running \in BOOLEAN /\ unitRunning \in BOOLEAN /\ finishing \in BOOLEAN
    /\ outOfTime \in BOOLEAN /\ overran \in BOOLEAN

\* Where main and the R thread are in a call.
CallInv ==
    /\ (mpc = "wait") <=> (phase[Root] # "idle")
    /\ rpc \in {"stamp", "announce"} => phase[Root] = "called"
    /\ (rpc \in {"begin", "target", "retract"}) <=> (phase[Root] = "running")
    /\ running <=> (phase[Root] = "running")
    /\ (unitRunning = TRUE) <=> (mpc \notin {"idle", "timed"})

\* Between an input's clock and main's next idling, and between the R
\* thread's taking it and its end, the clocks stand in order.
AgeInv ==
    /\ mpc \notin {"idle", "leave"} => unitAge <= armedAge
    /\ rpc \in {"announce", "begin", "target", "retract"} => startAge <= unitAge

\* A tick is only held by the wrapper and while main waits for an input that
\* was begun; the R thread takes no other one meanwhile.
HoldInv ==
    /\ hpc \in Holding \cup {"enter"} => wrapper = "in"
    /\ hpc \in Holding => ~finishing
    /\ hpc \in Holding \/ via = "dump" => phase[Root] \in {"running", "ran"}
    /\ via = "dump" => hpc \in {"chain", "reported"}

\* Since a held tick saw the input finish, main has not come to Reset.
FinishInv ==
    finishing => /\ wrapper = "in" /\ hpc \in {"off", "enter"}
                 /\ mpc \in {"wait", "reset"} /\ phase[Root] \in {"ran", "idle"}

\* What the clocks said when the handler read them is still so.
TimeInv ==
    /\ running /\ startAge = Old => overran
    /\ hpc = "look" /\ outOfTime => startAge = Old
    /\ hpc \in {"request", "kill", "poll"} \/ via = "dump" => overran /\ unitAge = Old

\* A tick passed on as young has not seen the input's clock run out yet, but
\* for the time that has passed since it read the armed one.
YoungInv ==
    /\ late \in Nat
    /\ via = "younger" =>
           \/ hpc \in {"chain", "reported"} /\ late > Sub
           \/ hpc = "chain" /\ unitAge + Sub < Old + late

\* The number of the k-th input: the numbers go round at most once, past 0.
NumberOf(k) == IF FirstInput + k < InputMod
               THEN FirstInput + k
               ELSE FirstInput + k - InputMod + 1

\* Inputs that have been given a number.
Numbered == IF mpc \in {"timed", "wrap", "number"} THEN inputs - 1 ELSE inputs

\* n is no number, or that of an input before, or of this one and settled.
Known(n, settled) ==
    n # 0 => \E k \in 0 .. Numbered : n = NumberOf(k) /\ (k = Numbered => settled)

\* What requests, dumps and answers are about.
NumberInv ==
    /\ inputs \in 0 .. MaxInputs /\ Numbered \in Nat
    /\ input = NumberOf(Numbered)
    /\ answered \in BOOLEAN
    /\ dpc \in {"off", "printing"}
    /\ Known(requested, TRUE)
    /\ dpc = "printing" => Known(dumpInput, answered)
    /\ Known(done, answered)

IInv ==
    /\ Types /\ CallInv /\ AgeInv /\ HoldInv /\ FinishInv
    /\ LabelOfThisInput /\ TimeInv /\ YoungInv /\ NumberInv

-----------------------------------------------------------------------------

\* Having been so long is the same in seconds and in clock units.
LEMMA SecondsOld ==
    ASSUME NEW age \in 0 .. Old
    PROVE  (Seconds(age) >= Timeout) <=> (age = Old)
  <1>1. Timeout \in Nat /\ Sub \in Nat \ {0}
    BY TimeoutDumpAssumption
  <1> QED
    BY <1>1 DEF Seconds, Old


LEMMA OldIsNat == Old \in Nat \ {0}
  BY TimeoutDumpAssumption DEF Old

\* What is younger than the timeout by more than the margin of a second.
LEMMA SecondsYoung ==
    ASSUME NEW age \in 0 .. Old, ~(Seconds(age) >= Timeout - 1)
    PROVE  age + Sub < Old
  <1>1. Timeout \in Nat \ {0} /\ Sub \in Nat \ {0}
    BY TimeoutDumpAssumption
  <1>2. age \div Sub + 1 < Timeout
    BY <1>1 DEF Seconds, Old
  <1>3. age < Sub * (age \div Sub + 1)
    BY <1>1 DEF Old
  <1>4. age \div Sub \in Nat
    BY <1>1 DEF Old
  <1> DEFINE q == age \div Sub
  <1> HIDE DEF q
  <1>5. Sub * (q + 2) <= Timeout * Sub
    BY <1>1, <1>2, <1>4 DEF q
  <1>6. Sub * (q + 2) = Sub * (q + 1) + Sub
    BY <1>1, <1>4 DEF q
  <1> QED
    BY <1>1, <1>3, <1>4, <1>5, <1>6 DEF q, Old

\* Numbers are never 0, and follow each other as the code counts.
LEMMA NumberStep ==
    ASSUME NEW k \in 0 .. MaxInputs
    PROVE  /\ NumberOf(k) \in 1 .. (InputMod - 1)
           /\ NextInput(NumberOf(k)) = NumberOf(k + 1)
  <1>1. /\ InputMod \in Nat /\ FirstInput \in 1 .. (InputMod - 1)
        /\ MaxInputs \in 1 .. (InputMod - 2)
    BY TimeoutDumpAssumption
  <1>2. NumberOf(k) \in 1 .. (InputMod - 1)
    BY <1>1 DEF NumberOf
  <1>3. NumberOf(k + 1) = IF NumberOf(k) + 1 = InputMod THEN 1 ELSE NumberOf(k) + 1
    BY <1>1 DEF NumberOf
  <1>4. ASSUME NEW n \in 1 .. (InputMod - 1)
        PROVE  NextInput(n) = IF n + 1 = InputMod THEN 1 ELSE n + 1
    BY <1>1 DEF NextInput
  <1> QED
    BY <1>2, <1>3, <1>4

\* As long as the inputs do not outnumber the numbers, no two share one.
LEMMA NumberUnique ==
    ASSUME NEW j \in 0 .. MaxInputs, NEW k \in 0 .. MaxInputs,
           NumberOf(j) = NumberOf(k)
    PROVE  j = k
  BY TimeoutDumpAssumption DEF NumberOf

LEMMA InitIInv == Init => IInv
  <1> SUFFICES ASSUME Init
               PROVE  IInv
    OBVIOUS
  <1> USE OldIsNat DEF Init, Handoff!Init
  <1>1. Types
    <2>1. armedAge \in 0 .. Old /\ unitAge \in 0 .. Old /\ startAge \in 0 .. Old
      OBVIOUS
    <2>2. /\ running \in BOOLEAN /\ unitRunning \in BOOLEAN /\ finishing \in BOOLEAN
          /\ outOfTime \in BOOLEAN /\ overran \in BOOLEAN
      OBVIOUS
    <2>3. phase \in [{Root} -> {"idle", "called", "running", "ran"}]
      OBVIOUS
    <2> QED
      BY <2>1, <2>2, <2>3 DEF Types
  <1>2. CallInv
    BY DEF CallInv
  <1>3. AgeInv /\ HoldInv /\ FinishInv
    BY DEF AgeInv, HoldInv, FinishInv, Holding
  <1>4. LabelOfThisInput /\ TimeInv
    BY DEF LabelOfThisInput, TimeInv
  <1>5. YoungInv
    BY DEF YoungInv
  <1>6. NumberInv
    <2>1. FirstInput + 0 = FirstInput /\ FirstInput < InputMod
      BY TimeoutDumpAssumption
    <2>2. Numbered = 0
      BY DEF Numbered
    <2>3. input = NumberOf(Numbered)
      BY <2>1, <2>2 DEF NumberOf
    <2>4. /\ Known(requested, TRUE) /\ Known(done, answered)
          /\ dpc \in {"off", "printing"} /\ ~(dpc = "printing")
      BY DEF Known
    <2>5. inputs \in 0 .. MaxInputs
      BY TimeoutDumpAssumption
    <2>6. answered \in BOOLEAN
      OBVIOUS
    <2> QED
      BY <2>2, <2>3, <2>4, <2>5, <2>6 DEF NumberInv
  <1> QED
    BY <1>1, <1>2, <1>3, <1>4, <1>5, <1>6 DEF IInv

\* The types are kept.
LEMMA NextTypes == IInv /\ [Next]_vars => Types'
  <1> SUFFICES ASSUME IInv, [Next]_vars
               PROVE  Types'
    OBVIOUS
  <1> USE OldIsNat DEF IInv, Types, Holding
  <1>1. CASE StartUnitClock
    BY <1>1 DEF StartUnitClock, MainMoves, callVars, clocks, atomics, signals,
      locals, history
  <1>2. CASE EnterUnit
    BY <1>2 DEF EnterUnit, MainMoves, callVars, clocks, atomics, signals, locals,
      history
  <1>3. CASE Wrap
    BY <1>3 DEF Wrap, MainMoves, callVars, clocks, atomics, signals, locals, history
  <1>4. CASE Number
    BY <1>4 DEF Number, MainMoves, callVars, clocks, atomics, signals, locals,
      history
  <1>5. CASE Post
    BY <1>5 DEF Post, MainMoves, Handoff!Call, Handoff!Move, callVars, clocks,
      atomics, signals, locals, history
  <1>6. CASE Return
    BY <1>6 DEF Return, MainMoves, Handoff!Return, Handoff!Move, callVars, clocks,
      atomics, signals, locals, history
  <1>7. CASE Reset
    BY <1>7 DEF Reset, MainMoves, callVars, clocks, atomics, signals, locals,
      history
  <1>8. CASE Arm
    BY <1>8 DEF Arm, MainMoves, callVars, clocks, atomics, signals, locals, history
  <1>9. CASE LeaveUnit
    BY <1>9 DEF LeaveUnit, MainMoves, callVars, clocks, atomics, signals, locals,
      history
  <1>10. CASE RTake
    BY <1>10 DEF RTake, RMoves, libFuzzer, callVars, clocks, atomics, signals,
      locals, history
  <1>11. CASE RStamp
    <2>1. startAge' \in 0 .. Old
      BY <1>11 DEF RStamp
    <2>2. overran' \in BOOLEAN
      BY <1>11 DEF RStamp
    <2>3. UNCHANGED <<live, phase, mpc, hpc, armedAge, unitAge, wrapper, running,
                      unitRunning, finishing, outOfTime>> /\ rpc' = "announce"
      BY <1>11 DEF RStamp, RMoves, libFuzzer, callVars, clocks, atomics, signals,
        locals, history
    <2> QED
      BY <2>1, <2>2, <2>3
  <1>12. CASE RAnnounce
    BY <1>12 DEF RAnnounce, RMoves, libFuzzer, Handoff!Begin, Handoff!Move,
      callVars, clocks, atomics, signals, locals, history
  <1>13. CASE RClearLabel
    BY <1>13 DEF RClearLabel, RMoves, libFuzzer, callVars, clocks, atomics, signals,
      locals, history
  <1>14. CASE RRetract
    <2>1. live' = {Root} /\ phase' \in [{Root} -> {"idle", "called", "running", "ran"}]
      BY <1>14 DEF RRetract, Handoff!End, Handoff!Move
    <2>2. rpc' = "idle" /\ running' \in BOOLEAN
      BY <1>14 DEF RRetract, RMoves
    <2>3. UNCHANGED <<mpc, hpc, wrapper, armedAge, unitAge, startAge>>
      BY <1>14 DEF RRetract, RMoves, libFuzzer, clocks
    <2>4. UNCHANGED <<unitRunning, finishing, outOfTime, overran>>
      BY <1>14 DEF RRetract, RMoves, libFuzzer, locals, history
    <2>5. /\ unitRunning' \in BOOLEAN /\ finishing' \in BOOLEAN
          /\ outOfTime' \in BOOLEAN /\ overran' \in BOOLEAN
      BY <2>4
    <2> QED
      BY <2>1, <2>2, <2>3, <2>5
  <1>15. CASE RNoteCall
    BY <1>15 DEF RNoteCall, RMoves, libFuzzer, callVars, clocks, atomics, signals,
      locals, history
  <1>16. CASE RFinish
    BY <1>16 DEF RFinish, RMoves, libFuzzer, callVars, clocks, atomics, signals,
      locals, history
  <1>17. CASE DumpEnter
    BY <1>17 DEF DumpEnter, DumpMoves, libFuzzer, callVars, clocks, atomics,
      signals, locals, history
  <1>18. CASE DumpLeave
    BY <1>18 DEF DumpLeave, DumpMoves, libFuzzer, callVars, clocks, atomics,
      signals, locals, history
  <1>19. CASE Tick
    BY <1>19 DEF Tick, TickLands, libFuzzer, callVars, clocks, atomics, signals,
      locals, history
  <1>20. CASE HEnter
    BY <1>20 DEF HEnter, HandlerMoves, HandlerReturns, TickLands, Chain, GoesOn,
      libFuzzer, callVars, clocks, atomics, signals, locals, history
  <1>21. CASE HReadArmed
    BY <1>21 DEF HReadArmed, HandlerMoves, HandlerReturns, TickLands, Chain, GoesOn,
      libFuzzer, callVars, clocks, atomics, signals, locals, history
  <1>22. CASE HReadAge
    BY <1>22 DEF HReadAge, HandlerMoves, HandlerReturns, TickLands, Chain, GoesOn,
      libFuzzer, callVars, clocks, atomics, signals, locals, history
  <1>23. CASE HLook
    <2>1. UNCHANGED <<live, phase, mpc, rpc, armedAge, unitAge, startAge, wrapper,
                      running, unitRunning, overran>>
      BY <1>23 DEF HLook, HandlerMoves, libFuzzer, callVars, clocks
    <2>2. finishing' \in BOOLEAN
      BY <1>23 DEF HLook
    <2>3. outOfTime' = outOfTime
      BY <1>23 DEF HLook, HandlerReturns
    <2>4. hpc' \in {"off", "enter", "chain", "reported"} \cup Holding
      BY <1>23 DEF HLook, HandlerReturns, TickLands, GoesOn
    <2> HIDE DEF IInv
    <2> QED
      BY <2>1, <2>2, <2>3, <2>4 DEF IInv
  <1>24. CASE HRequest
    BY <1>24 DEF HRequest, HandlerMoves, HandlerReturns, TickLands, Chain, GoesOn,
      libFuzzer, callVars, clocks, atomics, signals, locals, history
  <1>25. CASE HKill
    BY <1>25 DEF HKill, HandlerMoves, HandlerReturns, TickLands, Chain, GoesOn,
      libFuzzer, callVars, clocks, atomics, signals, locals, history
  <1>26. CASE HPoll
    BY <1>26 DEF HPoll, HandlerMoves, HandlerReturns, TickLands, Chain, GoesOn,
      libFuzzer, callVars, clocks, atomics, signals, locals, history
  <1>27. CASE LibFuzzerAlarm
    BY <1>27 DEF LibFuzzerAlarm, HandlerMoves, HandlerReturns, TickLands, Chain,
      GoesOn, libFuzzer, callVars, clocks, atomics, signals, locals, history
  <1>28. CASE LibFuzzerExit
    BY <1>28 DEF LibFuzzerExit, HandlerMoves, HandlerReturns, TickLands, Chain,
      GoesOn, libFuzzer, callVars, clocks, atomics, signals, locals, history
  <1>29. CASE LibFuzzerLetsPass
    BY <1>29 DEF LibFuzzerLetsPass, HandlerMoves, HandlerReturns, TickLands, Chain,
      GoesOn, libFuzzer, callVars, clocks, atomics, signals, locals, history
  <1>30. CASE Elapse
    BY <1>30 DEF Elapse, Older, libFuzzer, pcs, callVars, clocks, atomics, signals,
      locals, history
  <1>31. CASE UNCHANGED vars
    BY <1>31 DEF vars, pcs, libFuzzer, callVars, clocks, atomics, signals, locals,
      history
  <1> QED
    BY ONLY [Next]_vars, <1>1, <1>2, <1>3, <1>4, <1>5, <1>6, <1>7, <1>8, <1>9,
      <1>10, <1>11, <1>12, <1>13, <1>14, <1>15, <1>16, <1>17, <1>18, <1>19, <1>20,
      <1>21, <1>22, <1>23, <1>24, <1>25, <1>26, <1>27, <1>28, <1>29, <1>30, <1>31 DEF
      Next, Main, RBookkeeping, DumpHandler, AlarmHandler

\* Main and the R thread take turns.
LEMMA NextCallInv == IInv /\ [Next]_vars => CallInv'
  <1> SUFFICES ASSUME IInv, [Next]_vars
               PROVE  CallInv'
    OBVIOUS
  <1> USE DEF IInv, Types, CallInv, HoldInv, Holding
  <1>1. CASE StartUnitClock
    BY <1>1 DEF StartUnitClock, MainMoves, callVars, clocks, atomics, signals,
      locals, history
  <1>2. CASE EnterUnit
    BY <1>2 DEF EnterUnit, MainMoves, callVars, clocks, atomics, signals, locals,
      history
  <1>3. CASE Wrap
    BY <1>3 DEF Wrap, MainMoves, callVars, clocks, atomics, signals, locals, history
  <1>4. CASE Number
    BY <1>4 DEF Number, MainMoves, callVars, clocks, atomics, signals, locals,
      history
  <1>5. CASE Post
    BY <1>5 DEF Post, MainMoves, Handoff!Call, Handoff!Move, callVars, clocks,
      atomics, signals, locals, history
  <1>6. CASE Return
    BY <1>6 DEF Return, MainMoves, Handoff!Return, Handoff!Move, callVars, clocks,
      atomics, signals, locals, history
  <1>7. CASE Reset
    BY <1>7 DEF Reset, MainMoves, callVars, clocks, atomics, signals, locals,
      history
  <1>8. CASE Arm
    BY <1>8 DEF Arm, MainMoves, callVars, clocks, atomics, signals, locals, history
  <1>9. CASE LeaveUnit
    BY <1>9 DEF LeaveUnit, MainMoves, callVars, clocks, atomics, signals, locals,
      history
  <1>10. CASE RTake
    BY <1>10 DEF RTake, RMoves, libFuzzer, callVars, clocks, atomics, signals,
      locals, history
  <1>11. CASE RStamp
    BY <1>11 DEF RStamp, RMoves, libFuzzer, callVars, clocks, atomics, signals,
      locals, history
  <1>12. CASE RAnnounce
    BY <1>12 DEF RAnnounce, RMoves, libFuzzer, Handoff!Begin, Handoff!Move,
      callVars, clocks, atomics, signals, locals, history
  <1>13. CASE RClearLabel
    BY <1>13 DEF RClearLabel, RMoves, libFuzzer, callVars, clocks, atomics, signals,
      locals, history
  <1>14. CASE RRetract
    BY <1>14 DEF RRetract, RMoves, libFuzzer, Handoff!End, Handoff!Move, callVars,
      clocks, atomics, signals, locals, history
  <1>15. CASE RNoteCall
    BY <1>15 DEF RNoteCall, RMoves, libFuzzer, callVars, clocks, atomics, signals,
      locals, history
  <1>16. CASE RFinish
    BY <1>16 DEF RFinish, RMoves, libFuzzer, callVars, clocks, atomics, signals,
      locals, history
  <1>17. CASE DumpEnter
    BY <1>17 DEF DumpEnter, DumpMoves, libFuzzer, callVars, clocks, atomics,
      signals, locals, history
  <1>18. CASE DumpLeave
    BY <1>18 DEF DumpLeave, DumpMoves, libFuzzer, callVars, clocks, atomics,
      signals, locals, history
  <1>19. CASE Tick
    BY <1>19 DEF Tick, TickLands, libFuzzer, callVars, clocks, atomics, signals,
      locals, history
  <1>20. CASE HEnter
    BY <1>20 DEF HEnter, HandlerMoves, HandlerReturns, TickLands, Chain, GoesOn,
      libFuzzer, callVars, clocks, atomics, signals, locals, history
  <1>21. CASE HReadArmed
    BY <1>21 DEF HReadArmed, HandlerMoves, HandlerReturns, TickLands, Chain, GoesOn,
      libFuzzer, callVars, clocks, atomics, signals, locals, history
  <1>22. CASE HReadAge
    BY <1>22 DEF HReadAge, HandlerMoves, HandlerReturns, TickLands, Chain, GoesOn,
      libFuzzer, callVars, clocks, atomics, signals, locals, history
  <1>23. CASE HLook
    BY <1>23 DEF HLook, HandlerMoves, HandlerReturns, TickLands, Chain, GoesOn,
      libFuzzer, callVars, clocks, atomics, signals, locals, history
  <1>24. CASE HRequest
    BY <1>24 DEF HRequest, HandlerMoves, HandlerReturns, TickLands, Chain, GoesOn,
      libFuzzer, callVars, clocks, atomics, signals, locals, history
  <1>25. CASE HKill
    BY <1>25 DEF HKill, HandlerMoves, HandlerReturns, TickLands, Chain, GoesOn,
      libFuzzer, callVars, clocks, atomics, signals, locals, history
  <1>26. CASE HPoll
    BY <1>26 DEF HPoll, HandlerMoves, HandlerReturns, TickLands, Chain, GoesOn,
      libFuzzer, callVars, clocks, atomics, signals, locals, history
  <1>27. CASE LibFuzzerAlarm
    BY <1>27 DEF LibFuzzerAlarm, HandlerMoves, HandlerReturns, TickLands, Chain,
      GoesOn, libFuzzer, callVars, clocks, atomics, signals, locals, history
  <1>28. CASE LibFuzzerExit
    BY <1>28 DEF LibFuzzerExit, HandlerMoves, HandlerReturns, TickLands, Chain,
      GoesOn, libFuzzer, callVars, clocks, atomics, signals, locals, history
  <1>29. CASE LibFuzzerLetsPass
    BY <1>29 DEF LibFuzzerLetsPass, HandlerMoves, HandlerReturns, TickLands, Chain,
      GoesOn, libFuzzer, callVars, clocks, atomics, signals, locals, history
  <1>30. CASE Elapse
    BY <1>30 DEF Elapse, Older, libFuzzer, pcs, callVars, clocks, atomics, signals,
      locals, history
  <1>31. CASE UNCHANGED vars
    BY <1>31 DEF vars, pcs, libFuzzer, callVars, clocks, atomics, signals, locals,
      history
  <1> QED
    BY ONLY [Next]_vars, <1>1, <1>2, <1>3, <1>4, <1>5, <1>6, <1>7, <1>8, <1>9,
      <1>10, <1>11, <1>12, <1>13, <1>14, <1>15, <1>16, <1>17, <1>18, <1>19, <1>20,
      <1>21, <1>22, <1>23, <1>24, <1>25, <1>26, <1>27, <1>28, <1>29, <1>30, <1>31 DEF
      Next, Main, RBookkeeping, DumpHandler, AlarmHandler

\* The clocks stay in order: reading one comes after reading the next older.
LEMMA NextAgeInv == IInv /\ [Next]_vars => AgeInv'
  <1> SUFFICES ASSUME IInv, [Next]_vars
               PROVE  AgeInv'
    OBVIOUS
  <1> USE DEF IInv, Types, CallInv, AgeInv, Holding
  <1>1. CASE StartUnitClock
    BY <1>1 DEF StartUnitClock, MainMoves, callVars, clocks, atomics, signals,
      locals, history
  <1>2. CASE EnterUnit
    BY <1>2 DEF EnterUnit, MainMoves, callVars, clocks, atomics, signals, locals,
      history
  <1>3. CASE Wrap
    BY <1>3 DEF Wrap, MainMoves, callVars, clocks, atomics, signals, locals, history
  <1>4. CASE Number
    BY <1>4 DEF Number, MainMoves, callVars, clocks, atomics, signals, locals,
      history
  <1>5. CASE Post
    BY <1>5 DEF Post, MainMoves, Handoff!Call, Handoff!Move, callVars, clocks,
      atomics, signals, locals, history
  <1>6. CASE Return
    BY <1>6 DEF Return, MainMoves, Handoff!Return, Handoff!Move, callVars, clocks,
      atomics, signals, locals, history
  <1>7. CASE Reset
    BY <1>7 DEF Reset, MainMoves, callVars, clocks, atomics, signals, locals,
      history
  <1>8. CASE Arm
    BY <1>8 DEF Arm, MainMoves, callVars, clocks, atomics, signals, locals, history
  <1>9. CASE LeaveUnit
    BY <1>9 DEF LeaveUnit, MainMoves, callVars, clocks, atomics, signals, locals,
      history
  <1>10. CASE RTake
    BY <1>10 DEF RTake, RMoves, libFuzzer, callVars, clocks, atomics, signals,
      locals, history
  <1>11. CASE RStamp
    BY <1>11 DEF RStamp, RMoves, libFuzzer, callVars, clocks, atomics, signals,
      locals, history
  <1>12. CASE RAnnounce
    BY <1>12 DEF RAnnounce, RMoves, libFuzzer, Handoff!Begin, Handoff!Move,
      callVars, clocks, atomics, signals, locals, history
  <1>13. CASE RClearLabel
    BY <1>13 DEF RClearLabel, RMoves, libFuzzer, callVars, clocks, atomics, signals,
      locals, history
  <1>14. CASE RRetract
    BY <1>14 DEF RRetract, RMoves, libFuzzer, Handoff!End, Handoff!Move, callVars,
      clocks, atomics, signals, locals, history
  <1>15. CASE RNoteCall
    BY <1>15 DEF RNoteCall, RMoves, libFuzzer, callVars, clocks, atomics, signals,
      locals, history
  <1>16. CASE RFinish
    BY <1>16 DEF RFinish, RMoves, libFuzzer, callVars, clocks, atomics, signals,
      locals, history
  <1>17. CASE DumpEnter
    BY <1>17 DEF DumpEnter, DumpMoves, libFuzzer, callVars, clocks, atomics,
      signals, locals, history
  <1>18. CASE DumpLeave
    BY <1>18 DEF DumpLeave, DumpMoves, libFuzzer, callVars, clocks, atomics,
      signals, locals, history
  <1>19. CASE Tick
    BY <1>19 DEF Tick, TickLands, libFuzzer, callVars, clocks, atomics, signals,
      locals, history
  <1>20. CASE HEnter
    BY <1>20 DEF HEnter, HandlerMoves, HandlerReturns, TickLands, Chain, GoesOn,
      libFuzzer, callVars, clocks, atomics, signals, locals, history
  <1>21. CASE HReadArmed
    BY <1>21 DEF HReadArmed, HandlerMoves, HandlerReturns, TickLands, Chain, GoesOn,
      libFuzzer, callVars, clocks, atomics, signals, locals, history
  <1>22. CASE HReadAge
    BY <1>22 DEF HReadAge, HandlerMoves, HandlerReturns, TickLands, Chain, GoesOn,
      libFuzzer, callVars, clocks, atomics, signals, locals, history
  <1>23. CASE HLook
    BY <1>23 DEF HLook, HandlerMoves, HandlerReturns, TickLands, Chain, GoesOn,
      libFuzzer, callVars, clocks, atomics, signals, locals, history
  <1>24. CASE HRequest
    BY <1>24 DEF HRequest, HandlerMoves, HandlerReturns, TickLands, Chain, GoesOn,
      libFuzzer, callVars, clocks, atomics, signals, locals, history
  <1>25. CASE HKill
    BY <1>25 DEF HKill, HandlerMoves, HandlerReturns, TickLands, Chain, GoesOn,
      libFuzzer, callVars, clocks, atomics, signals, locals, history
  <1>26. CASE HPoll
    BY <1>26 DEF HPoll, HandlerMoves, HandlerReturns, TickLands, Chain, GoesOn,
      libFuzzer, callVars, clocks, atomics, signals, locals, history
  <1>27. CASE LibFuzzerAlarm
    BY <1>27 DEF LibFuzzerAlarm, HandlerMoves, HandlerReturns, TickLands, Chain,
      GoesOn, libFuzzer, callVars, clocks, atomics, signals, locals, history
  <1>28. CASE LibFuzzerExit
    BY <1>28 DEF LibFuzzerExit, HandlerMoves, HandlerReturns, TickLands, Chain,
      GoesOn, libFuzzer, callVars, clocks, atomics, signals, locals, history
  <1>29. CASE LibFuzzerLetsPass
    BY <1>29 DEF LibFuzzerLetsPass, HandlerMoves, HandlerReturns, TickLands, Chain,
      GoesOn, libFuzzer, callVars, clocks, atomics, signals, locals, history
  <1>30. CASE Elapse
    BY <1>30 DEF Elapse, Older, libFuzzer, pcs, callVars, clocks, atomics, signals,
      locals, history
  <1>31. CASE UNCHANGED vars
    BY <1>31 DEF vars, pcs, libFuzzer, callVars, clocks, atomics, signals, locals,
      history
  <1> QED
    BY ONLY [Next]_vars, <1>1, <1>2, <1>3, <1>4, <1>5, <1>6, <1>7, <1>8, <1>9,
      <1>10, <1>11, <1>12, <1>13, <1>14, <1>15, <1>16, <1>17, <1>18, <1>19, <1>20,
      <1>21, <1>22, <1>23, <1>24, <1>25, <1>26, <1>27, <1>28, <1>29, <1>30, <1>31 DEF
      Next, Main, RBookkeeping, DumpHandler, AlarmHandler

\* A tick is held for an input that was begun.
LEMMA NextHoldInv == IInv /\ [Next]_vars => HoldInv'
  <1> SUFFICES ASSUME IInv, [Next]_vars
               PROVE  HoldInv'
    OBVIOUS
  <1> USE DEF IInv, Types, CallInv, HoldInv, FinishInv, Holding
  <1>1. CASE StartUnitClock
    BY <1>1 DEF StartUnitClock, MainMoves, callVars, clocks, atomics, signals,
      locals, history
  <1>2. CASE EnterUnit
    BY <1>2 DEF EnterUnit, MainMoves, callVars, clocks, atomics, signals, locals,
      history
  <1>3. CASE Wrap
    BY <1>3 DEF Wrap, MainMoves, callVars, clocks, atomics, signals, locals, history
  <1>4. CASE Number
    BY <1>4 DEF Number, MainMoves, callVars, clocks, atomics, signals, locals,
      history
  <1>5. CASE Post
    BY <1>5 DEF Post, MainMoves, Handoff!Call, Handoff!Move, callVars, clocks,
      atomics, signals, locals, history
  <1>6. CASE Return
    BY <1>6 DEF Return, MainMoves, Handoff!Return, Handoff!Move, callVars, clocks,
      atomics, signals, locals, history
  <1>7. CASE Reset
    BY <1>7 DEF Reset, MainMoves, callVars, clocks, atomics, signals, locals,
      history
  <1>8. CASE Arm
    BY <1>8 DEF Arm, MainMoves, callVars, clocks, atomics, signals, locals, history
  <1>9. CASE LeaveUnit
    BY <1>9 DEF LeaveUnit, MainMoves, callVars, clocks, atomics, signals, locals,
      history
  <1>10. CASE RTake
    BY <1>10 DEF RTake, RMoves, libFuzzer, callVars, clocks, atomics, signals,
      locals, history
  <1>11. CASE RStamp
    BY <1>11 DEF RStamp, RMoves, libFuzzer, callVars, clocks, atomics, signals,
      locals, history
  <1>12. CASE RAnnounce
    BY <1>12 DEF RAnnounce, RMoves, libFuzzer, Handoff!Begin, Handoff!Move,
      callVars, clocks, atomics, signals, locals, history
  <1>13. CASE RClearLabel
    BY <1>13 DEF RClearLabel, RMoves, libFuzzer, callVars, clocks, atomics, signals,
      locals, history
  <1>14. CASE RRetract
    BY <1>14 DEF RRetract, RMoves, libFuzzer, Handoff!End, Handoff!Move, callVars,
      clocks, atomics, signals, locals, history
  <1>15. CASE RNoteCall
    BY <1>15 DEF RNoteCall, RMoves, libFuzzer, callVars, clocks, atomics, signals,
      locals, history
  <1>16. CASE RFinish
    BY <1>16 DEF RFinish, RMoves, libFuzzer, callVars, clocks, atomics, signals,
      locals, history
  <1>17. CASE DumpEnter
    BY <1>17 DEF DumpEnter, DumpMoves, libFuzzer, callVars, clocks, atomics,
      signals, locals, history
  <1>18. CASE DumpLeave
    BY <1>18 DEF DumpLeave, DumpMoves, libFuzzer, callVars, clocks, atomics,
      signals, locals, history
  <1>19. CASE Tick
    BY <1>19 DEF Tick, TickLands, libFuzzer, callVars, clocks, atomics, signals,
      locals, history
  <1>20. CASE HEnter
    BY <1>20 DEF HEnter, HandlerMoves, HandlerReturns, TickLands, Chain, GoesOn,
      libFuzzer, callVars, clocks, atomics, signals, locals, history
  <1>21. CASE HReadArmed
    BY <1>21 DEF HReadArmed, HandlerMoves, HandlerReturns, TickLands, Chain, GoesOn,
      libFuzzer, callVars, clocks, atomics, signals, locals, history
  <1>22. CASE HReadAge
    BY <1>22 DEF HReadAge, HandlerMoves, HandlerReturns, TickLands, Chain, GoesOn,
      libFuzzer, callVars, clocks, atomics, signals, locals, history
  <1>23. CASE HLook
    BY <1>23 DEF HLook, HandlerMoves, HandlerReturns, TickLands, Chain, GoesOn,
      libFuzzer, callVars, clocks, atomics, signals, locals, history
  <1>24. CASE HRequest
    BY <1>24 DEF HRequest, HandlerMoves, HandlerReturns, TickLands, Chain, GoesOn,
      libFuzzer, callVars, clocks, atomics, signals, locals, history
  <1>25. CASE HKill
    BY <1>25 DEF HKill, HandlerMoves, HandlerReturns, TickLands, Chain, GoesOn,
      libFuzzer, callVars, clocks, atomics, signals, locals, history
  <1>26. CASE HPoll
    BY <1>26 DEF HPoll, HandlerMoves, HandlerReturns, TickLands, Chain, GoesOn,
      libFuzzer, callVars, clocks, atomics, signals, locals, history
  <1>27. CASE LibFuzzerAlarm
    BY <1>27 DEF LibFuzzerAlarm, HandlerMoves, HandlerReturns, TickLands, Chain,
      GoesOn, libFuzzer, callVars, clocks, atomics, signals, locals, history
  <1>28. CASE LibFuzzerExit
    BY <1>28 DEF LibFuzzerExit, HandlerMoves, HandlerReturns, TickLands, Chain,
      GoesOn, libFuzzer, callVars, clocks, atomics, signals, locals, history
  <1>29. CASE LibFuzzerLetsPass
    BY <1>29 DEF LibFuzzerLetsPass, HandlerMoves, HandlerReturns, TickLands, Chain,
      GoesOn, libFuzzer, callVars, clocks, atomics, signals, locals, history
  <1>30. CASE Elapse
    BY <1>30 DEF Elapse, Older, libFuzzer, pcs, callVars, clocks, atomics, signals,
      locals, history
  <1>31. CASE UNCHANGED vars
    BY <1>31 DEF vars, pcs, libFuzzer, callVars, clocks, atomics, signals, locals,
      history
  <1> QED
    BY ONLY [Next]_vars, <1>1, <1>2, <1>3, <1>4, <1>5, <1>6, <1>7, <1>8, <1>9,
      <1>10, <1>11, <1>12, <1>13, <1>14, <1>15, <1>16, <1>17, <1>18, <1>19, <1>20,
      <1>21, <1>22, <1>23, <1>24, <1>25, <1>26, <1>27, <1>28, <1>29, <1>30, <1>31 DEF
      Next, Main, RBookkeeping, DumpHandler, AlarmHandler

\* An input that finished under a held tick gets no other.
LEMMA NextFinishInv == IInv /\ [Next]_vars => FinishInv'
  <1> SUFFICES ASSUME IInv, [Next]_vars
               PROVE  FinishInv'
    OBVIOUS
  <1> USE DEF IInv, Types, CallInv, HoldInv, FinishInv, Holding
  <1>1. CASE StartUnitClock
    BY <1>1 DEF StartUnitClock, MainMoves, callVars, clocks, atomics, signals,
      locals, history
  <1>2. CASE EnterUnit
    BY <1>2 DEF EnterUnit, MainMoves, callVars, clocks, atomics, signals, locals,
      history
  <1>3. CASE Wrap
    BY <1>3 DEF Wrap, MainMoves, callVars, clocks, atomics, signals, locals, history
  <1>4. CASE Number
    BY <1>4 DEF Number, MainMoves, callVars, clocks, atomics, signals, locals,
      history
  <1>5. CASE Post
    BY <1>5 DEF Post, MainMoves, Handoff!Call, Handoff!Move, callVars, clocks,
      atomics, signals, locals, history
  <1>6. CASE Return
    BY <1>6 DEF Return, MainMoves, Handoff!Return, Handoff!Move, callVars, clocks,
      atomics, signals, locals, history
  <1>7. CASE Reset
    BY <1>7 DEF Reset, MainMoves, callVars, clocks, atomics, signals, locals,
      history
  <1>8. CASE Arm
    BY <1>8 DEF Arm, MainMoves, callVars, clocks, atomics, signals, locals, history
  <1>9. CASE LeaveUnit
    BY <1>9 DEF LeaveUnit, MainMoves, callVars, clocks, atomics, signals, locals,
      history
  <1>10. CASE RTake
    BY <1>10 DEF RTake, RMoves, libFuzzer, callVars, clocks, atomics, signals,
      locals, history
  <1>11. CASE RStamp
    BY <1>11 DEF RStamp, RMoves, libFuzzer, callVars, clocks, atomics, signals,
      locals, history
  <1>12. CASE RAnnounce
    BY <1>12 DEF RAnnounce, RMoves, libFuzzer, Handoff!Begin, Handoff!Move,
      callVars, clocks, atomics, signals, locals, history
  <1>13. CASE RClearLabel
    BY <1>13 DEF RClearLabel, RMoves, libFuzzer, callVars, clocks, atomics, signals,
      locals, history
  <1>14. CASE RRetract
    BY <1>14 DEF RRetract, RMoves, libFuzzer, Handoff!End, Handoff!Move, callVars,
      clocks, atomics, signals, locals, history
  <1>15. CASE RNoteCall
    BY <1>15 DEF RNoteCall, RMoves, libFuzzer, callVars, clocks, atomics, signals,
      locals, history
  <1>16. CASE RFinish
    BY <1>16 DEF RFinish, RMoves, libFuzzer, callVars, clocks, atomics, signals,
      locals, history
  <1>17. CASE DumpEnter
    BY <1>17 DEF DumpEnter, DumpMoves, libFuzzer, callVars, clocks, atomics,
      signals, locals, history
  <1>18. CASE DumpLeave
    BY <1>18 DEF DumpLeave, DumpMoves, libFuzzer, callVars, clocks, atomics,
      signals, locals, history
  <1>19. CASE Tick
    BY <1>19 DEF Tick, TickLands, libFuzzer, callVars, clocks, atomics, signals,
      locals, history
  <1>20. CASE HEnter
    BY <1>20 DEF HEnter, HandlerMoves, HandlerReturns, TickLands, Chain, GoesOn,
      libFuzzer, callVars, clocks, atomics, signals, locals, history
  <1>21. CASE HReadArmed
    BY <1>21 DEF HReadArmed, HandlerMoves, HandlerReturns, TickLands, Chain, GoesOn,
      libFuzzer, callVars, clocks, atomics, signals, locals, history
  <1>22. CASE HReadAge
    BY <1>22 DEF HReadAge, HandlerMoves, HandlerReturns, TickLands, Chain, GoesOn,
      libFuzzer, callVars, clocks, atomics, signals, locals, history
  <1>23. CASE HLook
    BY <1>23 DEF HLook, HandlerMoves, HandlerReturns, TickLands, Chain, GoesOn,
      libFuzzer, callVars, clocks, atomics, signals, locals, history
  <1>24. CASE HRequest
    BY <1>24 DEF HRequest, HandlerMoves, HandlerReturns, TickLands, Chain, GoesOn,
      libFuzzer, callVars, clocks, atomics, signals, locals, history
  <1>25. CASE HKill
    BY <1>25 DEF HKill, HandlerMoves, HandlerReturns, TickLands, Chain, GoesOn,
      libFuzzer, callVars, clocks, atomics, signals, locals, history
  <1>26. CASE HPoll
    BY <1>26 DEF HPoll, HandlerMoves, HandlerReturns, TickLands, Chain, GoesOn,
      libFuzzer, callVars, clocks, atomics, signals, locals, history
  <1>27. CASE LibFuzzerAlarm
    BY <1>27 DEF LibFuzzerAlarm, HandlerMoves, HandlerReturns, TickLands, Chain,
      GoesOn, libFuzzer, callVars, clocks, atomics, signals, locals, history
  <1>28. CASE LibFuzzerExit
    BY <1>28 DEF LibFuzzerExit, HandlerMoves, HandlerReturns, TickLands, Chain,
      GoesOn, libFuzzer, callVars, clocks, atomics, signals, locals, history
  <1>29. CASE LibFuzzerLetsPass
    BY <1>29 DEF LibFuzzerLetsPass, HandlerMoves, HandlerReturns, TickLands, Chain,
      GoesOn, libFuzzer, callVars, clocks, atomics, signals, locals, history
  <1>30. CASE Elapse
    BY <1>30 DEF Elapse, Older, libFuzzer, pcs, callVars, clocks, atomics, signals,
      locals, history
  <1>31. CASE UNCHANGED vars
    BY <1>31 DEF vars, pcs, libFuzzer, callVars, clocks, atomics, signals, locals,
      history
  <1> QED
    BY ONLY [Next]_vars, <1>1, <1>2, <1>3, <1>4, <1>5, <1>6, <1>7, <1>8, <1>9,
      <1>10, <1>11, <1>12, <1>13, <1>14, <1>15, <1>16, <1>17, <1>18, <1>19, <1>20,
      <1>21, <1>22, <1>23, <1>24, <1>25, <1>26, <1>27, <1>28, <1>29, <1>30, <1>31 DEF
      Next, Main, RBookkeeping, DumpHandler, AlarmHandler

\* A label does not outlast its input.
LEMMA NextLabel == IInv /\ [Next]_vars => LabelOfThisInput'
  <1> SUFFICES ASSUME IInv, [Next]_vars
               PROVE  LabelOfThisInput'
    OBVIOUS
  <1> USE DEF IInv, Types, CallInv, LabelOfThisInput
  <1>1. CASE StartUnitClock
    BY <1>1 DEF StartUnitClock, MainMoves, callVars, clocks, atomics, signals,
      locals, history
  <1>2. CASE EnterUnit
    BY <1>2 DEF EnterUnit, MainMoves, callVars, clocks, atomics, signals, locals,
      history
  <1>3. CASE Wrap
    BY <1>3 DEF Wrap, MainMoves, callVars, clocks, atomics, signals, locals, history
  <1>4. CASE Number
    BY <1>4 DEF Number, MainMoves, callVars, clocks, atomics, signals, locals,
      history
  <1>5. CASE Post
    BY <1>5 DEF Post, MainMoves, Handoff!Call, Handoff!Move, callVars, clocks,
      atomics, signals, locals, history
  <1>6. CASE Return
    BY <1>6 DEF Return, MainMoves, Handoff!Return, Handoff!Move, callVars, clocks,
      atomics, signals, locals, history
  <1>7. CASE Reset
    BY <1>7 DEF Reset, MainMoves, callVars, clocks, atomics, signals, locals,
      history
  <1>8. CASE Arm
    BY <1>8 DEF Arm, MainMoves, callVars, clocks, atomics, signals, locals, history
  <1>9. CASE LeaveUnit
    BY <1>9 DEF LeaveUnit, MainMoves, callVars, clocks, atomics, signals, locals,
      history
  <1>10. CASE RTake
    BY <1>10 DEF RTake, RMoves, libFuzzer, callVars, clocks, atomics, signals,
      locals, history
  <1>11. CASE RStamp
    BY <1>11 DEF RStamp, RMoves, libFuzzer, callVars, clocks, atomics, signals,
      locals, history
  <1>12. CASE RAnnounce
    BY <1>12 DEF RAnnounce, RMoves, libFuzzer, Handoff!Begin, Handoff!Move,
      callVars, clocks, atomics, signals, locals, history
  <1>13. CASE RClearLabel
    BY <1>13 DEF RClearLabel, RMoves, libFuzzer, callVars, clocks, atomics, signals,
      locals, history
  <1>14. CASE RRetract
    BY <1>14 DEF RRetract, RMoves, libFuzzer, Handoff!End, Handoff!Move, callVars,
      clocks, atomics, signals, locals, history
  <1>15. CASE RNoteCall
    BY <1>15 DEF RNoteCall, RMoves, libFuzzer, callVars, clocks, atomics, signals,
      locals, history
  <1>16. CASE RFinish
    BY <1>16 DEF RFinish, RMoves, libFuzzer, callVars, clocks, atomics, signals,
      locals, history
  <1>17. CASE DumpEnter
    BY <1>17 DEF DumpEnter, DumpMoves, libFuzzer, callVars, clocks, atomics,
      signals, locals, history
  <1>18. CASE DumpLeave
    BY <1>18 DEF DumpLeave, DumpMoves, libFuzzer, callVars, clocks, atomics,
      signals, locals, history
  <1>19. CASE Tick
    BY <1>19 DEF Tick, TickLands, libFuzzer, callVars, clocks, atomics, signals,
      locals, history
  <1>20. CASE HEnter
    BY <1>20 DEF HEnter, HandlerMoves, HandlerReturns, TickLands, Chain, GoesOn,
      libFuzzer, callVars, clocks, atomics, signals, locals, history
  <1>21. CASE HReadArmed
    BY <1>21 DEF HReadArmed, HandlerMoves, HandlerReturns, TickLands, Chain, GoesOn,
      libFuzzer, callVars, clocks, atomics, signals, locals, history
  <1>22. CASE HReadAge
    BY <1>22 DEF HReadAge, HandlerMoves, HandlerReturns, TickLands, Chain, GoesOn,
      libFuzzer, callVars, clocks, atomics, signals, locals, history
  <1>23. CASE HLook
    BY <1>23 DEF HLook, HandlerMoves, HandlerReturns, TickLands, Chain, GoesOn,
      libFuzzer, callVars, clocks, atomics, signals, locals, history
  <1>24. CASE HRequest
    BY <1>24 DEF HRequest, HandlerMoves, HandlerReturns, TickLands, Chain, GoesOn,
      libFuzzer, callVars, clocks, atomics, signals, locals, history
  <1>25. CASE HKill
    BY <1>25 DEF HKill, HandlerMoves, HandlerReturns, TickLands, Chain, GoesOn,
      libFuzzer, callVars, clocks, atomics, signals, locals, history
  <1>26. CASE HPoll
    BY <1>26 DEF HPoll, HandlerMoves, HandlerReturns, TickLands, Chain, GoesOn,
      libFuzzer, callVars, clocks, atomics, signals, locals, history
  <1>27. CASE LibFuzzerAlarm
    BY <1>27 DEF LibFuzzerAlarm, HandlerMoves, HandlerReturns, TickLands, Chain,
      GoesOn, libFuzzer, callVars, clocks, atomics, signals, locals, history
  <1>28. CASE LibFuzzerExit
    BY <1>28 DEF LibFuzzerExit, HandlerMoves, HandlerReturns, TickLands, Chain,
      GoesOn, libFuzzer, callVars, clocks, atomics, signals, locals, history
  <1>29. CASE LibFuzzerLetsPass
    BY <1>29 DEF LibFuzzerLetsPass, HandlerMoves, HandlerReturns, TickLands, Chain,
      GoesOn, libFuzzer, callVars, clocks, atomics, signals, locals, history
  <1>30. CASE Elapse
    BY <1>30 DEF Elapse, Older, libFuzzer, pcs, callVars, clocks, atomics, signals,
      locals, history
  <1>31. CASE UNCHANGED vars
    BY <1>31 DEF vars, pcs, libFuzzer, callVars, clocks, atomics, signals, locals,
      history
  <1> QED
    BY ONLY [Next]_vars, <1>1, <1>2, <1>3, <1>4, <1>5, <1>6, <1>7, <1>8, <1>9,
      <1>10, <1>11, <1>12, <1>13, <1>14, <1>15, <1>16, <1>17, <1>18, <1>19, <1>20,
      <1>21, <1>22, <1>23, <1>24, <1>25, <1>26, <1>27, <1>28, <1>29, <1>30, <1>31 DEF
      Next, Main, RBookkeeping, DumpHandler, AlarmHandler

\* What the clocks said stays true of them.
LEMMA NextTimeInv == IInv /\ [Next]_vars => TimeInv'
  <1> SUFFICES ASSUME IInv, [Next]_vars
               PROVE  TimeInv'
    OBVIOUS
  <1> USE OldIsNat, SecondsOld DEF IInv, Types, CallInv, AgeInv, HoldInv, TimeInv, Holding
  <1>1. CASE StartUnitClock
    BY <1>1 DEF StartUnitClock, MainMoves, callVars, clocks, atomics, signals,
      locals, history
  <1>2. CASE EnterUnit
    BY <1>2 DEF EnterUnit, MainMoves, callVars, clocks, atomics, signals, locals,
      history
  <1>3. CASE Wrap
    BY <1>3 DEF Wrap, MainMoves, callVars, clocks, atomics, signals, locals, history
  <1>4. CASE Number
    BY <1>4 DEF Number, MainMoves, callVars, clocks, atomics, signals, locals,
      history
  <1>5. CASE Post
    BY <1>5 DEF Post, MainMoves, Handoff!Call, Handoff!Move, callVars, clocks,
      atomics, signals, locals, history
  <1>6. CASE Return
    BY <1>6 DEF Return, MainMoves, Handoff!Return, Handoff!Move, callVars, clocks,
      atomics, signals, locals, history
  <1>7. CASE Reset
    BY <1>7 DEF Reset, MainMoves, callVars, clocks, atomics, signals, locals,
      history
  <1>8. CASE Arm
    BY <1>8 DEF Arm, MainMoves, callVars, clocks, atomics, signals, locals, history
  <1>9. CASE LeaveUnit
    BY <1>9 DEF LeaveUnit, MainMoves, callVars, clocks, atomics, signals, locals,
      history
  <1>10. CASE RTake
    BY <1>10 DEF RTake, RMoves, libFuzzer, callVars, clocks, atomics, signals,
      locals, history
  <1>11. CASE RStamp
    BY <1>11 DEF RStamp, RMoves, libFuzzer, callVars, clocks, atomics, signals,
      locals, history
  <1>12. CASE RAnnounce
    BY <1>12 DEF RAnnounce, RMoves, libFuzzer, Handoff!Begin, Handoff!Move,
      callVars, clocks, atomics, signals, locals, history
  <1>13. CASE RClearLabel
    BY <1>13 DEF RClearLabel, RMoves, libFuzzer, callVars, clocks, atomics, signals,
      locals, history
  <1>14. CASE RRetract
    BY <1>14 DEF RRetract, RMoves, libFuzzer, Handoff!End, Handoff!Move, callVars,
      clocks, atomics, signals, locals, history
  <1>15. CASE RNoteCall
    BY <1>15 DEF RNoteCall, RMoves, libFuzzer, callVars, clocks, atomics, signals,
      locals, history
  <1>16. CASE RFinish
    BY <1>16 DEF RFinish, RMoves, libFuzzer, callVars, clocks, atomics, signals,
      locals, history
  <1>17. CASE DumpEnter
    BY <1>17 DEF DumpEnter, DumpMoves, libFuzzer, callVars, clocks, atomics,
      signals, locals, history
  <1>18. CASE DumpLeave
    BY <1>18 DEF DumpLeave, DumpMoves, libFuzzer, callVars, clocks, atomics,
      signals, locals, history
  <1>19. CASE Tick
    BY <1>19 DEF Tick, TickLands, libFuzzer, callVars, clocks, atomics, signals,
      locals, history
  <1>20. CASE HEnter
    BY <1>20 DEF HEnter, HandlerMoves, HandlerReturns, TickLands, Chain, GoesOn,
      libFuzzer, callVars, clocks, atomics, signals, locals, history
  <1>21. CASE HReadArmed
    BY <1>21 DEF HReadArmed, HandlerMoves, HandlerReturns, TickLands, Chain, GoesOn,
      libFuzzer, callVars, clocks, atomics, signals, locals, history
  <1>22. CASE HReadAge
    BY <1>22 DEF HReadAge, HandlerMoves, HandlerReturns, TickLands, Chain, GoesOn,
      libFuzzer, callVars, clocks, atomics, signals, locals, history
  <1>23. CASE HLook
    BY <1>23 DEF HLook, HandlerMoves, HandlerReturns, TickLands, Chain, GoesOn,
      libFuzzer, callVars, clocks, atomics, signals, locals, history
  <1>24. CASE HRequest
    BY <1>24 DEF HRequest, HandlerMoves, HandlerReturns, TickLands, Chain, GoesOn,
      libFuzzer, callVars, clocks, atomics, signals, locals, history
  <1>25. CASE HKill
    BY <1>25 DEF HKill, HandlerMoves, HandlerReturns, TickLands, Chain, GoesOn,
      libFuzzer, callVars, clocks, atomics, signals, locals, history
  <1>26. CASE HPoll
    BY <1>26 DEF HPoll, HandlerMoves, HandlerReturns, TickLands, Chain, GoesOn,
      libFuzzer, callVars, clocks, atomics, signals, locals, history
  <1>27. CASE LibFuzzerAlarm
    BY <1>27 DEF LibFuzzerAlarm, HandlerMoves, HandlerReturns, TickLands, Chain,
      GoesOn, libFuzzer, callVars, clocks, atomics, signals, locals, history
  <1>28. CASE LibFuzzerExit
    BY <1>28 DEF LibFuzzerExit, HandlerMoves, HandlerReturns, TickLands, Chain,
      GoesOn, libFuzzer, callVars, clocks, atomics, signals, locals, history
  <1>29. CASE LibFuzzerLetsPass
    BY <1>29 DEF LibFuzzerLetsPass, HandlerMoves, HandlerReturns, TickLands, Chain,
      GoesOn, libFuzzer, callVars, clocks, atomics, signals, locals, history
  <1>30. CASE Elapse
    BY <1>30 DEF Elapse, Older, libFuzzer, pcs, callVars, clocks, atomics, signals,
      locals, history
  <1>31. CASE UNCHANGED vars
    BY <1>31 DEF vars, pcs, libFuzzer, callVars, clocks, atomics, signals, locals,
      history
  <1> QED
    BY ONLY [Next]_vars, <1>1, <1>2, <1>3, <1>4, <1>5, <1>6, <1>7, <1>8, <1>9,
      <1>10, <1>11, <1>12, <1>13, <1>14, <1>15, <1>16, <1>17, <1>18, <1>19, <1>20,
      <1>21, <1>22, <1>23, <1>24, <1>25, <1>26, <1>27, <1>28, <1>29, <1>30, <1>31 DEF
      Next, Main, RBookkeeping, DumpHandler, AlarmHandler

\* A tick passed on as young stays so, or its report comes late.
LEMMA NextYoungInv == IInv /\ [Next]_vars => YoungInv'
  <1> SUFFICES ASSUME IInv, [Next]_vars
               PROVE  YoungInv'
    OBVIOUS
  <1> Sub \in Nat \ {0}
    BY TimeoutDumpAssumption
  <1> USE OldIsNat, SecondsOld, SecondsYoung
      DEF IInv, Types, CallInv, AgeInv, HoldInv, YoungInv, Holding
  <1>1. CASE StartUnitClock
    BY <1>1 DEF StartUnitClock, MainMoves, callVars, clocks, atomics, signals,
      locals, history
  <1>2. CASE EnterUnit
    BY <1>2 DEF EnterUnit, MainMoves, callVars, clocks, atomics, signals, locals,
      history
  <1>3. CASE Wrap
    BY <1>3 DEF Wrap, MainMoves, callVars, clocks, atomics, signals, locals, history
  <1>4. CASE Number
    BY <1>4 DEF Number, MainMoves, callVars, clocks, atomics, signals, locals,
      history
  <1>5. CASE Post
    BY <1>5 DEF Post, MainMoves, Handoff!Call, Handoff!Move, callVars, clocks,
      atomics, signals, locals, history
  <1>6. CASE Return
    BY <1>6 DEF Return, MainMoves, Handoff!Return, Handoff!Move, callVars, clocks,
      atomics, signals, locals, history
  <1>7. CASE Reset
    BY <1>7 DEF Reset, MainMoves, callVars, clocks, atomics, signals, locals,
      history
  <1>8. CASE Arm
    BY <1>8 DEF Arm, MainMoves, callVars, clocks, atomics, signals, locals, history
  <1>9. CASE LeaveUnit
    BY <1>9 DEF LeaveUnit, MainMoves, callVars, clocks, atomics, signals, locals,
      history
  <1>10. CASE RTake
    BY <1>10 DEF RTake, RMoves, libFuzzer, callVars, clocks, atomics, signals,
      locals, history
  <1>11. CASE RStamp
    BY <1>11 DEF RStamp, RMoves, libFuzzer, callVars, clocks, atomics, signals,
      locals, history
  <1>12. CASE RAnnounce
    BY <1>12 DEF RAnnounce, RMoves, libFuzzer, Handoff!Begin, Handoff!Move,
      callVars, clocks, atomics, signals, locals, history
  <1>13. CASE RClearLabel
    BY <1>13 DEF RClearLabel, RMoves, libFuzzer, callVars, clocks, atomics, signals,
      locals, history
  <1>14. CASE RRetract
    BY <1>14 DEF RRetract, RMoves, libFuzzer, Handoff!End, Handoff!Move, callVars,
      clocks, atomics, signals, locals, history
  <1>15. CASE RNoteCall
    BY <1>15 DEF RNoteCall, RMoves, libFuzzer, callVars, clocks, atomics, signals,
      locals, history
  <1>16. CASE RFinish
    BY <1>16 DEF RFinish, RMoves, libFuzzer, callVars, clocks, atomics, signals,
      locals, history
  <1>17. CASE DumpEnter
    BY <1>17 DEF DumpEnter, DumpMoves, libFuzzer, callVars, clocks, atomics,
      signals, locals, history
  <1>18. CASE DumpLeave
    BY <1>18 DEF DumpLeave, DumpMoves, libFuzzer, callVars, clocks, atomics,
      signals, locals, history
  <1>19. CASE Tick
    BY <1>19 DEF Tick, TickLands, libFuzzer, callVars, clocks, atomics, signals,
      locals, history
  <1>20. CASE HEnter
    BY <1>20 DEF HEnter, HandlerMoves, HandlerReturns, TickLands, Chain, GoesOn,
      libFuzzer, callVars, clocks, atomics, signals, locals, history
  <1>21. CASE HReadArmed
    BY <1>21 DEF HReadArmed, HandlerMoves, HandlerReturns, TickLands, Chain, GoesOn,
      libFuzzer, callVars, clocks, atomics, signals, locals, history
  <1>22. CASE HReadAge
    BY <1>22 DEF HReadAge, HandlerMoves, HandlerReturns, TickLands, Chain, GoesOn,
      libFuzzer, callVars, clocks, atomics, signals, locals, history
  <1>23. CASE HLook
    BY <1>23 DEF HLook, HandlerMoves, HandlerReturns, TickLands, Chain, GoesOn,
      libFuzzer, callVars, clocks, atomics, signals, locals, history
  <1>24. CASE HRequest
    BY <1>24 DEF HRequest, HandlerMoves, HandlerReturns, TickLands, Chain, GoesOn,
      libFuzzer, callVars, clocks, atomics, signals, locals, history
  <1>25. CASE HKill
    BY <1>25 DEF HKill, HandlerMoves, HandlerReturns, TickLands, Chain, GoesOn,
      libFuzzer, callVars, clocks, atomics, signals, locals, history
  <1>26. CASE HPoll
    BY <1>26 DEF HPoll, HandlerMoves, HandlerReturns, TickLands, Chain, GoesOn,
      libFuzzer, callVars, clocks, atomics, signals, locals, history
  <1>27. CASE LibFuzzerAlarm
    BY <1>27 DEF LibFuzzerAlarm, HandlerMoves, HandlerReturns, TickLands, Chain,
      GoesOn, libFuzzer, callVars, clocks, atomics, signals, locals, history
  <1>28. CASE LibFuzzerExit
    BY <1>28 DEF LibFuzzerExit, HandlerMoves, HandlerReturns, TickLands, Chain,
      GoesOn, libFuzzer, callVars, clocks, atomics, signals, locals, history
  <1>29. CASE LibFuzzerLetsPass
    BY <1>29 DEF LibFuzzerLetsPass, HandlerMoves, HandlerReturns, TickLands, Chain,
      GoesOn, libFuzzer, callVars, clocks, atomics, signals, locals, history
  <1>30. CASE Elapse
    BY <1>30 DEF Elapse, Older, libFuzzer, pcs, callVars, clocks, atomics, signals,
      locals, history
  <1>31. CASE UNCHANGED vars
    BY <1>31 DEF vars, pcs, libFuzzer, callVars, clocks, atomics, signals, locals,
      history
  <1> QED
    BY ONLY [Next]_vars, <1>1, <1>2, <1>3, <1>4, <1>5, <1>6, <1>7, <1>8, <1>9,
      <1>10, <1>11, <1>12, <1>13, <1>14, <1>15, <1>16, <1>17, <1>18, <1>19, <1>20,
      <1>21, <1>22, <1>23, <1>24, <1>25, <1>26, <1>27, <1>28, <1>29, <1>30, <1>31 DEF
      Next, Main, RBookkeeping, DumpHandler, AlarmHandler

\* Numbers stay with their inputs.
LEMMA NextNumberInv == IInv /\ [Next]_vars => NumberInv'
  <1> SUFFICES ASSUME IInv, [Next]_vars
               PROVE  NumberInv'
    OBVIOUS
  <1> USE NumberStep, TimeoutDumpAssumption
      DEF IInv, Types, CallInv, NumberInv, Numbered, Known
  <1>1. CASE StartUnitClock
    BY <1>1 DEF StartUnitClock, MainMoves, callVars, clocks, atomics, signals,
      locals, history
  <1>2. CASE EnterUnit
    BY <1>2 DEF EnterUnit, MainMoves, callVars, clocks, atomics, signals, locals,
      history
  <1>3. CASE Wrap
    BY <1>3 DEF Wrap, MainMoves, callVars, clocks, atomics, signals, locals, history
  <1>4. CASE Number
    <2>1. /\ mpc = "number" /\ mpc' = "post" /\ input' = NextInput(input)
          /\ answered' = FALSE /\ UNCHANGED <<inputs, dpc, requested, dumpInput, done>>
      BY <1>4 DEF Number, MainMoves, locals
    <2>2. Numbered \in 0 .. MaxInputs /\ Numbered' = Numbered + 1
      BY <2>1
    <2>3. input' = NumberOf(Numbered')
      BY <2>1, <2>2
    <2>4. ASSUME NEW n, NEW settled, NEW settled2, Known(n, settled)
          PROVE  n # 0 => \E k \in 0 .. Numbered' :
                              n = NumberOf(k) /\ (k = Numbered' => settled2)
      BY <2>2, <2>4
    <2>5. /\ Known(requested, TRUE)' /\ Known(done, answered)'
          /\ (dpc = "printing" => Known(dumpInput, answered))'
      BY <2>1, <2>4
    <2>6. Numbered' \in Nat /\ inputs' \in 0 .. MaxInputs
      BY <2>1, <2>2
    <2>7. dpc' \in {"off", "printing"}
      BY <2>1
    <2>8. answered' \in BOOLEAN
      BY <2>1
    <2> HIDE NumberStep, TimeoutDumpAssumption DEF IInv, Types, CallInv, Numbered, Known
    <2> QED
      BY <2>1, <2>3, <2>5, <2>6, <2>7, <2>8
  <1>5. CASE Post
    BY <1>5 DEF Post, MainMoves, Handoff!Call, Handoff!Move, callVars, clocks,
      atomics, signals, locals, history
  <1>6. CASE Return
    BY <1>6 DEF Return, MainMoves, Handoff!Return, Handoff!Move, callVars, clocks,
      atomics, signals, locals, history
  <1>7. CASE Reset
    BY <1>7 DEF Reset, MainMoves, callVars, clocks, atomics, signals, locals,
      history
  <1>8. CASE Arm
    BY <1>8 DEF Arm, MainMoves, callVars, clocks, atomics, signals, locals, history
  <1>9. CASE LeaveUnit
    BY <1>9 DEF LeaveUnit, MainMoves, callVars, clocks, atomics, signals, locals,
      history
  <1>10. CASE RTake
    BY <1>10 DEF RTake, RMoves, libFuzzer, callVars, clocks, atomics, signals,
      locals, history
  <1>11. CASE RStamp
    BY <1>11 DEF RStamp, RMoves, libFuzzer, callVars, clocks, atomics, signals,
      locals, history
  <1>12. CASE RAnnounce
    BY <1>12 DEF RAnnounce, RMoves, libFuzzer, Handoff!Begin, Handoff!Move,
      callVars, clocks, atomics, signals, locals, history
  <1>13. CASE RClearLabel
    BY <1>13 DEF RClearLabel, RMoves, libFuzzer, callVars, clocks, atomics, signals,
      locals, history
  <1>14. CASE RRetract
    BY <1>14 DEF RRetract, RMoves, libFuzzer, Handoff!End, Handoff!Move, callVars,
      clocks, atomics, signals, locals, history
  <1>15. CASE RNoteCall
    BY <1>15 DEF RNoteCall, RMoves, libFuzzer, callVars, clocks, atomics, signals,
      locals, history
  <1>16. CASE RFinish
    BY <1>16 DEF RFinish, RMoves, libFuzzer, callVars, clocks, atomics, signals,
      locals, history
  <1>17. CASE DumpEnter
    BY <1>17 DEF DumpEnter, DumpMoves, libFuzzer, callVars, clocks, atomics,
      signals, locals, history
  <1>18. CASE DumpLeave
    BY <1>18 DEF DumpLeave, DumpMoves, libFuzzer, callVars, clocks, atomics,
      signals, locals, history
  <1>19. CASE Tick
    BY <1>19 DEF Tick, TickLands, libFuzzer, callVars, clocks, atomics, signals,
      locals, history
  <1>20. CASE HEnter
    BY <1>20 DEF HEnter, HandlerMoves, HandlerReturns, TickLands, Chain, GoesOn,
      libFuzzer, callVars, clocks, atomics, signals, locals, history
  <1>21. CASE HReadArmed
    BY <1>21 DEF HReadArmed, HandlerMoves, HandlerReturns, TickLands, Chain, GoesOn,
      libFuzzer, callVars, clocks, atomics, signals, locals, history
  <1>22. CASE HReadAge
    BY <1>22 DEF HReadAge, HandlerMoves, HandlerReturns, TickLands, Chain, GoesOn,
      libFuzzer, callVars, clocks, atomics, signals, locals, history
  <1>23. CASE HLook
    BY <1>23 DEF HLook, HandlerMoves, HandlerReturns, TickLands, Chain, GoesOn,
      libFuzzer, callVars, clocks, atomics, signals, locals, history
  <1>24. CASE HRequest
    BY <1>24 DEF HRequest, HandlerMoves, HandlerReturns, TickLands, Chain, GoesOn,
      libFuzzer, callVars, clocks, atomics, signals, locals, history
  <1>25. CASE HKill
    <2>1. /\ UNCHANGED <<mpc, dpc, inputs, input, requested, dumpInput>>
          /\ \/ UNCHANGED <<done, answered>>
             \/ done' = input /\ answered' = TRUE
      BY <1>25 DEF HKill, HandlerMoves, libFuzzer
    <2>2. CASE UNCHANGED <<done, answered>>
      BY <2>1, <2>2
    <2>3. CASE done' = input /\ answered' = TRUE
      BY <2>1, <2>3
    <2> QED
      BY <2>1, <2>2, <2>3
  <1>26. CASE HPoll
    BY <1>26 DEF HPoll, HandlerMoves, HandlerReturns, TickLands, Chain, GoesOn,
      libFuzzer, callVars, clocks, atomics, signals, locals, history
  <1>27. CASE LibFuzzerAlarm
    BY <1>27 DEF LibFuzzerAlarm, HandlerMoves, HandlerReturns, TickLands, Chain,
      GoesOn, libFuzzer, callVars, clocks, atomics, signals, locals, history
  <1>28. CASE LibFuzzerExit
    BY <1>28 DEF LibFuzzerExit, HandlerMoves, HandlerReturns, TickLands, Chain,
      GoesOn, libFuzzer, callVars, clocks, atomics, signals, locals, history
  <1>29. CASE LibFuzzerLetsPass
    BY <1>29 DEF LibFuzzerLetsPass, HandlerMoves, HandlerReturns, TickLands, Chain,
      GoesOn, libFuzzer, callVars, clocks, atomics, signals, locals, history
  <1>30. CASE Elapse
    BY <1>30 DEF Elapse, Older, libFuzzer, pcs, callVars, clocks, atomics, signals,
      locals, history
  <1>31. CASE UNCHANGED vars
    BY <1>31 DEF vars, pcs, libFuzzer, callVars, clocks, atomics, signals, locals,
      history
  <1> QED
    BY ONLY [Next]_vars, <1>1, <1>2, <1>3, <1>4, <1>5, <1>6, <1>7, <1>8, <1>9,
      <1>10, <1>11, <1>12, <1>13, <1>14, <1>15, <1>16, <1>17, <1>18, <1>19, <1>20,
      <1>21, <1>22, <1>23, <1>24, <1>25, <1>26, <1>27, <1>28, <1>29, <1>30, <1>31 DEF
      Next, Main, RBookkeeping, DumpHandler, AlarmHandler

-----------------------------------------------------------------------------

LEMMA Invariance == Spec => []IInv
  <1>1. IInv /\ [Next]_vars => IInv'
    BY NextTypes, NextCallInv, NextAgeInv, NextHoldInv, NextFinishInv, NextLabel,
      NextTimeInv, NextYoungInv, NextNumberInv DEF IInv
  <1> QED
    BY <1>1, InitIInv, PTL DEF Spec

\* While the R thread runs an input, libFuzzer's clock for it started after
\* main last went idle and before the R thread took the input: the bracket of
\* fuzz_alarm_handler's comment, for any interleaving and number of inputs.
THEOREM BracketSound == Spec => []ClockBracketed
  <1>1. IInv => ClockBracketed
    BY DEF IInv, CallInv, AgeInv, ClockBracketed
  <1> QED
    BY <1>1, Invariance, PTL

\* A tick that fuzz_alarm_handler passed on for being young becomes a report
\* without a dump only if over a second went by in between.
THEOREM YoungTickSound == Spec => []YoungTickNeedsDelay
  <1>1. IInv => YoungTickNeedsDelay
    BY DEF IInv, YoungInv, YoungTickNeedsDelay
  <1> QED
    BY <1>1, Invariance, PTL

\* fuzz_alarm_handler asks for a dump, and hands the tick on after it, only
\* for an input that was found running when out of time by its own clock.
THEOREM DumpOnlyOutOfTimeSound == Spec => []DumpOnlyOutOfTime
  <1>1. IInv => DumpOnlyOutOfTime
    BY SecondsOld, OldIsNat DEF IInv, Types, TimeInv, DumpOnlyOutOfTime
  <1> QED
    BY <1>1, Invariance, PTL

\* Once fuzz_alarm_handler saw a held input finish, libFuzzer gets no tick
\* for it, be it the held one or one that queued up.
THEOREM FinishedNotReportedSound == Spec => []FinishedNotReported
  <1>1. IInv => FinishedNotReported
    BY DEF IInv, CallInv, Types, FinishInv, FinishedNotReported
  <1> QED
    BY <1>1, Invariance, PTL

\* fuzz_alarm.done names the input being run only once the dump for that very
\* input was taken up or given up, however late the dumps asked for before
\* come, as long as the inputs do not outnumber the numbers.
THEOREM DumpNotStaleSound == Spec => []DumpNotStale
  <1>1. IInv => DumpNotStale
    <2> SUFFICES ASSUME IInv, done = input
                 PROVE  answered
      BY DEF DumpNotStale
    <2>1. Numbered \in 0 .. MaxInputs /\ input = NumberOf(Numbered)
      BY TimeoutDumpAssumption DEF IInv, NumberInv, Numbered
    <2>2. done # 0
      BY <2>1, NumberStep
    <2>3. PICK k \in 0 .. Numbered :
                   done = NumberOf(k) /\ (k = Numbered => answered)
      BY <2>2 DEF IInv, NumberInv, Known
    <2>4. k \in 0 .. MaxInputs
      BY <2>1, <2>3, TimeoutDumpAssumption
    <2>5. NumberOf(k) = NumberOf(Numbered)
      BY <2>1, <2>3
    <2>6. k = Numbered
      BY ONLY <2>1, <2>4, <2>5, NumberUnique
    <2> QED
      BY <2>3, <2>6
  <1> QED
    BY <1>1, Invariance, PTL

\* The label that fuzz_dump_handler prints was noted by fuzz_label_enter in
\* the input being run.
THEOREM LabelSound == Spec => []LabelOfThisInput
  <1>1. IInv => LabelOfThisInput
    BY DEF IInv
  <1> QED
    BY <1>1, Invariance, PTL

\* While fuzz_alarm_handler reads fuzz_alarm.started, a plain struct, the R
\* thread does not write it, nor does main number another input.
THEOREM ClockNotTornSound == Spec => []ClockNotTorn
  <1>1. IInv => ClockNotTorn
    BY DEF IInv, Types, CallInv, HoldInv, Holding, ClockNotTorn
  <1> QED
    BY <1>1, Invariance, PTL
=============================================================================
