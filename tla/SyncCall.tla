------------------------------ MODULE SyncCall ------------------------------
(***************************************************************************)
(* What the R thread of harnesses/common.h promises the rest of a harness: *)
(* in every process, "run fn(arg) on the R thread" is a synchronous call.  *)
(* A call is made, its job begins exactly once, ends, and only then does   *)
(* the caller go on.  A process is forked only between calls, and may die  *)
(* in a job (a crash is what a fuzzer looks for) or while the thread is    *)
(* being created.  RThread implements this module; TimeoutDump builds on   *)
(* it.                                                                     *)
(***************************************************************************)

CONSTANTS Procs,   \* process slots
          Root     \* the process that starts first

VARIABLES live,    \* the processes that exist
          phase    \* of each process's call

svars == <<live, phase>>

Phases == {"idle", "called", "running", "ran"}

Move(p, from, to) ==
    /\ p \in live
    /\ phase[p] = from
    /\ phase' = [phase EXCEPT ![p] = to]
    /\ UNCHANGED live

Init ==
    /\ live = {Root}
    /\ phase = [p \in Procs |-> "idle"]

Call(p)   == Move(p, "idle", "called")
Begin(p)  == Move(p, "called", "running")
End(p)    == Move(p, "running", "ran")
Return(p) == Move(p, "ran", "idle")

Fork(p, c) ==
    /\ p \in live
    /\ phase[p] = "idle"
    /\ c \in Procs \ live
    /\ live' = live \cup {c}
    /\ phase' = [phase EXCEPT ![c] = "idle"]

Die(p) ==
    /\ p \in live
    /\ phase[p] \in {"called", "running"}
    /\ live' = live \ {p}
    /\ phase' = [phase EXCEPT ![p] = "idle"]

Restart ==
    /\ live = {}
    /\ live' = {Root}
    /\ UNCHANGED phase

Next ==
    \/ Restart
    \/ \E p \in Procs :
        \/ Call(p) \/ Begin(p) \/ End(p) \/ Return(p) \/ Die(p)
        \/ \E c \in Procs : Fork(p, c)

Spec == Init /\ [][Next]_svars
=============================================================================
