----------------------------- MODULE LineSplit ------------------------------
(***************************************************************************)
(* How the sort harness turns an input into the lines that its slots sort: *)
(* set_lines of sort.c, which counts the lines first, allocates the vector *)
(* and fills it, under R_ToplevelExec because each allocation may fail.    *)
(* Only a full vector reaches the calls, and the input is not run when the *)
(* filling failed.                                                         *)
(***************************************************************************)
EXTENDS Naturals, Sequences

CONSTANTS MaxLines,  \* FUZZ_MAX_LINES
          MaxSize,   \* bound on the length of an input
          NInputs    \* bound on the inputs of a process

LineLimits ==
    /\ MaxLines \in Nat \ {0}
    /\ MaxSize \in Nat
    /\ NInputs \in Nat

Newline == 10
Letter  == 97

Inputs == UNION {[1 .. n -> {Newline, Letter}] : n \in 0 .. MaxSize}

VARIABLES
    input,   \* the input being run
    inputs,  \* how many there have been
    pc,      \* "idle", "count", "fill" or "run"
    q,       \* the counting loop's position
    n,       \* the lines counted
    p,       \* where the next line starts
    lines,   \* the vector being filled
    calls    \* the lines that the calls hold

vars == <<input, inputs, pc, q, n, p, lines, calls>>

Init ==
    /\ input = <<>>
    /\ inputs = 0
    /\ pc = "idle"
    /\ q = 0 /\ n = 0 /\ p = 0
    /\ lines = <<>>
    /\ calls = <<>>      \* the placeholder

Begin ==
    /\ pc = "idle" /\ inputs < NInputs
    /\ input' \in Inputs
    /\ inputs' = inputs + 1
    /\ pc' = "count"
    /\ q' = 0 /\ n' = 1 /\ p' = 0
    /\ lines' = <<>>
    /\ UNCHANGED calls

\* One turn of the counting loop, which stops at the limit.
Count ==
    /\ pc = "count"
    /\ q < Len(input) /\ n < MaxLines
    /\ n' = IF input[q + 1] = Newline THEN n + 1 ELSE n
    /\ q' = q + 1
    /\ UNCHANGED <<input, inputs, pc, p, lines, calls>>

\* A plausible loop that stops one line short of the limit.
CountedOneShort ==
    /\ pc = "count"
    /\ ~(q < Len(input) /\ n < MaxLines - 1)
    /\ pc' = "fill"
    /\ UNCHANGED <<input, inputs, q, n, p, lines, calls>>

\* The vector is allocated; the filling starts.
Counted ==
    /\ pc = "count"
    /\ ~(q < Len(input) /\ n < MaxLines)
    /\ pc' = "fill"
    /\ UNCHANGED <<input, inputs, q, n, p, lines, calls>>

\* Where the line that starts at p ends: memchr, or the end of the input.
Newlines == {k \in p .. Len(input) - 1 : input[k + 1] = Newline}
End ==
    IF Newlines = {} \/ Len(lines) = n - 1
    THEN Len(input)
    ELSE CHOOSE k \in Newlines : \A l \in Newlines : k <= l

\* One turn of the filling loop: a line, without its newline.
Fill ==
    /\ pc = "fill" /\ Len(lines) < n
    /\ lines' = Append(lines, SubSeq(input, p + 1, End))
    /\ p' = IF End < Len(input) THEN End + 1 ELSE Len(input)
    /\ UNCHANGED <<input, inputs, pc, q, n, calls>>

\* A plausible fuzz_target_run that ignores what R_ToplevelExec returned.
FillFailsUnnoticed ==
    /\ pc = "fill"
    /\ pc' = "run"
    /\ UNCHANGED <<input, inputs, q, n, p, lines, calls>>

\* An allocation fails: R_ToplevelExec returns FALSE and the input ends.
FillFails ==
    /\ pc = "fill"
    /\ pc' = "idle"
    /\ UNCHANGED <<input, inputs, q, n, p, lines, calls>>

Filled ==
    /\ pc = "fill" /\ Len(lines) = n
    /\ calls' = lines
    /\ pc' = "run"
    /\ UNCHANGED <<input, inputs, q, n, p, lines>>

Run ==
    /\ pc = "run"
    /\ pc' = "idle"
    /\ UNCHANGED <<input, inputs, q, n, p, lines, calls>>

Next ==
    \/ Begin \/ Count \/ Counted \/ Fill \/ FillFails \/ Filled \/ Run

Spec == Init /\ [][Next]_vars

-----------------------------------------------------------------------------
(* Properties *)

\* The first k of some lines, joined by newlines.
Joined(l) ==
    LET upto[k \in 1 .. Len(l)] ==
            IF k = 1 THEN l[1] ELSE upto[k - 1] \o <<Newline>> \o l[k]
    IN  upto[Len(l)]

\* What the slots sort is the input, all of it, whatever newlines it ends
\* with or however many it holds: joined by newlines, the lines are the
\* input, and only the last, which takes the rest once the limit is reached,
\* may hold a newline, and only at the limit.
LinesOfInput ==
    pc = "run" =>
        /\ Joined(calls) = input
        /\ \A k \in 1 .. Len(calls) :
              (\E c \in 1 .. Len(calls[k]) : calls[k][c] = Newline)
                  => k = Len(calls) /\ k = MaxLines
=============================================================================
