----------------------------- MODULE SlotLabels -----------------------------
(***************************************************************************)
(* The labels that the timeout dump prints (common.h).  A target registers *)
(* its calls once, one after the other, each for a slot: slot by slot      *)
(* (fuzz_label_calls), or several calls for one slot, as io.c does.  Each  *)
(* gets a text: a header that names its slots, then the deparsed call,     *)
(* line by line, into a buffer of fixed size, cut with "..." where it does *)
(* not fit.  A call registered again keeps its one label, whose header is  *)
(* rewritten into a buffer sized for it.  Deparsing may fail at any line,  *)
(* and so may malloc.                                                      *)
(*                                                                         *)
(* A text is its length and the turns whose slots its header names.        *)
(***************************************************************************)
EXTENDS Naturals, Sequences

CONSTANTS
    Calls,       \* the calls to register, turn by turn from 0
    SlotOf,      \* the slot each is registered for
    NoCall,      \* the NULL of a slot that runs in C
    MaxLabels,   \* FUZZ_MAX_LABELS
    LabelMax,    \* FUZZ_LABEL_MAX
    Ellipsis,    \* sizeof "    ...\n", its NUL included
    Indent,      \* what a line costs beyond its own text
    Room,        \* what fuzz_label_call adds to a text it rewrites (32)
    MaxLine,     \* bound on the length of a deparsed line
    HeaderMin    \* length of "==fuzz== slot  of n:\n" without the slot

\* Characters of a slot number.
Digits(s) == IF s < 10 THEN 1 ELSE IF s < 100 THEN 2 ELSE 3

ASSUME SlotLabelsAssumption ==
    /\ MaxLabels \in Nat
    /\ LabelMax \in Nat
    /\ Ellipsis \in Nat \ {0}
    /\ Indent \in Nat
    /\ Room \in Nat
    /\ Room > 5
    /\ MaxLine \in Nat
    /\ HeaderMin \in Nat
    /\ HeaderMin + 3 + Ellipsis <= LabelMax
    /\ \E n \in 1 .. 1000 : DOMAIN Calls = 0 .. n - 1

ASSUME SlotOfAssumption == SlotOf \in [DOMAIN Calls -> 0 .. 999]

Turns == DOMAIN Calls

VARIABLES
    i,       \* the turn to come
    labels,  \* fuzz_labels[0 .. fuzz_n_labels - 1]
    job,     \* the label being formatted, or NoJob
    failed   \* history: turns that malloc or the limit left out

vars == <<i, labels, job, failed>>

\* A label: the call, the turns that its header names the slots of, the length
\* of its text and the size of the buffer that holds it.
Label == [call : {Calls[s] : s \in Turns} \ {NoCall},
          turns : SUBSET Turns, length : Nat, size : Nat]

NoJob == [call |-> NoCall, turns |-> {}, length |-> 0, size |-> 0]

-----------------------------------------------------------------------------

Init ==
    /\ i = 0
    /\ labels = <<>>
    /\ job = NoJob
    /\ failed = {}

\* fuzz_label_call of the next call is about to run.
Turn == job = NoJob /\ i \in Turns

SkipNull ==
    /\ Turn
    /\ Calls[i] = NoCall
    /\ i' = i + 1
    /\ UNCHANGED <<labels, job, failed>>

\* A plausible search that stops short of the last label.
HoldersButLast == {k \in DOMAIN labels : k < Len(labels) /\ labels[k].call = Calls[i]}

\* The labels of this turn's call.
Holders == {k \in DOMAIN labels : labels[k].call = Calls[i]}

\* A plausible header that replaces the slots it named.
ShareReplacing(k) ==
    /\ Turn
    /\ Calls[i] # NoCall
    /\ k \in Holders
    /\ labels' = [labels EXCEPT ![k].turns = {i}]
    /\ i' = i + 1
    /\ UNCHANGED <<job, failed>>

\* The call has a label: its header is rewritten to name this slot as well, in
\* a new buffer.
Share(k) ==
    /\ Turn
    /\ Calls[i] # NoCall
    /\ k \in Holders
    /\ labels' = [labels EXCEPT ![k] =
                     [call   |-> @.call,
                      turns  |-> @.turns \cup {i},
                      length |-> @.length + 2 + Digits(SlotOf[i]),
                      size   |-> @.length + Room]]
    /\ i' = i + 1
    /\ UNCHANGED <<job, failed>>

\* malloc failed, or every label is taken: this turn goes without.
LeaveOut ==
    /\ Turn
    /\ Calls[i] # NoCall
    /\ failed' = failed \cup {i}
    /\ i' = i + 1
    /\ UNCHANGED <<labels, job>>

\* A label of its own, with its header.
Start ==
    /\ Turn
    /\ Calls[i] # NoCall
    /\ Holders = {}
    /\ Len(labels) < MaxLabels
    /\ job' = [call |-> Calls[i], turns |-> {i},
               length |-> HeaderMin + Digits(SlotOf[i]), size |-> LabelMax]
    /\ UNCHANGED <<i, labels, failed>>

\* A plausible test that keeps no room for the closing "...".
FitsWithoutEllipsis(n) == job.length + Indent + n < LabelMax

\* fuzz_label_append_line: does a line of n characters fit, with room left?
Fits(n) == job.length + Indent + n + Ellipsis < LabelMax

Longer(n) == [call |-> job.call, turns |-> job.turns,
              length |-> job.length + n, size |-> job.size]

Line(n) ==
    /\ job # NoJob
    /\ Fits(n)
    /\ job' = Longer(Indent + n)
    /\ UNCHANGED <<i, labels, failed>>

Register(j) ==
    /\ labels' = Append(labels, j)
    /\ job' = NoJob
    /\ i' = i + 1
    /\ UNCHANGED failed

\* The first line that does not fit ends the text.
Cut(n) ==
    /\ job # NoJob
    /\ ~Fits(n)
    /\ Register(Longer(Ellipsis - 1))

\* No more lines: the call is deparsed, or deparsing it failed.
Deparsed ==
    /\ job # NoJob
    /\ Register(job)

Next ==
    \/ SkipNull \/ LeaveOut \/ Start \/ Deparsed
    \/ \E k \in DOMAIN labels : Share(k)
    \/ \E n \in 0 .. MaxLine : Line(n) \/ Cut(n)

Spec == Init /\ [][Next]_vars

-----------------------------------------------------------------------------
(* Properties *)

\* The type invariant: no more labels than there is room for.
TypeOK ==
    /\ i \in Nat
    /\ i = 0 \/ i - 1 \in Turns
    /\ labels \in Seq(Label)
    /\ Len(labels) <= MaxLabels
    /\ job \in Label \cup {NoJob}
    /\ failed \subseteq Turns

\* No text, with its NUL, outgrows the buffer it was formatted into: neither
\* the cut one, nor the header that slot after slot is added to.
TextFits ==
    /\ \A k \in DOMAIN labels : labels[k].length < labels[k].size
    /\ job # NoJob => job.length < job.size

\* A header names exactly the slots that its call was registered for so far,
\* apart from the turns that malloc left out.
NamesItsSlots ==
    \A k \in DOMAIN labels, s \in Turns :
        /\ s \in labels[k].turns => s < i /\ Calls[s] = labels[k].call
        /\ s < i /\ Calls[s] = labels[k].call => s \in labels[k].turns \cup failed

\* A call has one label, so that the one fuzz_label_enter finds first is the
\* one that names all its slots.
OneLabelPerCall ==
    \A j, k \in DOMAIN labels : labels[j].call = labels[k].call => j = k

\* Every turn passed that had a call and was not left out is in a label.
AllLabelled ==
    \A s \in Turns : s < i /\ Calls[s] # NoCall /\ s \notin failed =>
        \E k \in DOMAIN labels : s \in labels[k].turns

\* What makes them inductive: the label in the making is this turn's alone,
\* and keeps room for the closing "...".
JobInv ==
    job # NoJob =>
        /\ i \in Turns /\ Calls[i] # NoCall
        /\ job.call = Calls[i] /\ job.turns = {i}
        /\ Holders = {}
        /\ Len(labels) < MaxLabels
        /\ job.size = LabelMax
        /\ job.length + Ellipsis <= LabelMax

IInv ==
    /\ TypeOK /\ JobInv
    /\ TextFits /\ NamesItsSlots /\ OneLabelPerCall /\ AllLabelled
=============================================================================
