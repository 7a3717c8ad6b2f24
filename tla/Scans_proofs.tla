---------------------------- MODULE Scans_proofs ----------------------------
(***************************************************************************)
(* Formatting the labels, the two readers of UTF-8, the chartr guard, the  *)
(* splitting of lines, the walk over a parsed input and the repeat guard,  *)
(* for targets, strings, specifications, inputs, trees and patterns of any *)
(* size and any limits.                                                    *)
(*                                                                         *)
(* What a recursive function of the reference definitions stands for is    *)
(* shown by induction over the natural numbers (SetInduction), for         *)
(* patterns over the depth of what they repeat (PartsInduction): that the  *)
(* function is well defined, what its equation says at one place, and the  *)
(* type of its values.                                                     *)
(***************************************************************************)
EXTENDS Scans, SequenceTheorems, FiniteSetTheorems, WellFoundedInduction, TLAPS

-----------------------------------------------------------------------------
(* Labels fit their buffers and name their slots, for any target, limits,  *)
(* line lengths and failures.                                              *)

\* A slot number takes one to three characters.
LEMMA DigitsBounded == \A s \in Nat : Digits(s) \in 1 .. 3
  BY DEF Digits

\* Turns are numbers, and so are the slots registered in them.
LEMMA TurnsAreNumbers ==
    /\ Turns \subseteq Nat
    /\ \A s \in Turns : Calls[s] \in {Calls[r] : r \in Turns}
    /\ \A s \in Turns : SlotOf[s] \in Nat
  <1>1. Turns \subseteq Nat
    BY SlotLabelsAssumption DEF Turns
  <1>2. \A s \in Turns : SlotOf[s] \in 0 .. 999
    BY ONLY SlotOfAssumption DEF Turns
  <1>3. \A m \in 0 .. 999 : m \in Nat
    OBVIOUS
  <1> QED
    BY ONLY <1>1, <1>2, <1>3

\* The turns before the next one: those before this one, and this one.
LEMMA TurnsBeforeNext ==
    \A m \in Nat : \A s \in Turns : s < m + 1 <=> s < m \/ s = m
  <1>1. \A m \in Nat : \A s \in Nat : s < m + 1 <=> s < m \/ s = m
    OBVIOUS
  <1>2. Turns \subseteq Nat
    BY TurnsAreNumbers
  <1> QED
    BY ONLY <1>1, <1>2

LEMMA InitIInv == Init => IInv
  BY SlotLabelsAssumption
  DEF Init, IInv, TypeOK, JobInv, TextFits, NamesItsSlots, OneLabelPerCall,
      AllLabelled

-----------------------------------------------------------------------------

\* Registering the label in the making, with a text that fits, keeps every
\* label apart, fitting and naming its slots.
LEMMA RegisterIInv ==
    ASSUME IInv, job # NoJob,
           NEW j, j \in Label, j.call = job.call, j.turns = job.turns,
           j.length < j.size, Register(j)
    PROVE  IInv'
  <1>1. /\ i \in Turns /\ i \in Nat
        /\ j.call = Calls[i] /\ j.turns = {i}
        /\ \A k \in DOMAIN labels : labels[k].call # j.call
        /\ labels \in Seq(Label)
    BY TurnsAreNumbers DEF IInv, TypeOK, JobInv, Holders
  <1>2. /\ labels' \in Seq(Label)
        /\ DOMAIN labels' = DOMAIN labels \cup {Len(labels) + 1}
        /\ \A k \in DOMAIN labels : labels'[k] = labels[k]
        /\ labels'[Len(labels) + 1] = j
        /\ Len(labels') = Len(labels) + 1
        /\ Len(labels) + 1 \notin DOMAIN labels
    BY <1>1 DEF Register
  <1>3. TypeOK'
    <2>1. i' = i + 1 /\ i' \in Nat /\ i' - 1 \in Turns
      BY <1>1 DEF Register
    <2>2. Len(labels') <= MaxLabels
      BY <1>1, <1>2, SlotLabelsAssumption DEF IInv, JobInv
    <2> QED
      BY <1>2, <2>1, <2>2 DEF IInv, TypeOK, Register
  <1>4. JobInv'
    BY DEF Register, JobInv
  <1>5. TextFits'
    BY <1>2 DEF IInv, TextFits, Register
  <1>6. OneLabelPerCall'
    BY <1>1, <1>2 DEF IInv, OneLabelPerCall, Register
  <1>7. \A s \in Turns : s < i /\ Calls[s] = Calls[i] => s \in failed
    BY <1>1 DEF IInv, AllLabelled, NamesItsSlots, JobInv
  <1>8. \A s \in Turns : s < i + 1 <=> s < i \/ s = i
    BY <1>1, TurnsBeforeNext
  <1>9. NamesItsSlots'
    <2>1. ASSUME NEW k \in DOMAIN labels, NEW s \in Turns
          PROVE  /\ s \in labels[k].turns => s < i + 1 /\ Calls[s] = labels[k].call
                 /\ s < i + 1 /\ Calls[s] = labels[k].call
                        => s \in labels[k].turns \cup failed
      BY <1>1, <1>8, <2>1 DEF IInv, NamesItsSlots
    <2>2. ASSUME NEW s \in Turns
          PROVE  /\ s \in j.turns => s < i + 1 /\ Calls[s] = j.call
                 /\ s < i + 1 /\ Calls[s] = j.call => s \in j.turns \cup failed
      BY <1>1, <1>7, <1>8
    <2>3. failed' = failed /\ i' = i + 1
      BY DEF Register
    <2> QED
      BY <1>2, <2>1, <2>2, <2>3 DEF NamesItsSlots
  <1>10. AllLabelled'
    <2>1. ASSUME NEW s \in Turns, s < i, Calls[s] # NoCall, s \notin failed
          PROVE  \E k \in DOMAIN labels' : s \in labels'[k].turns
      BY <1>2, <2>1 DEF IInv, AllLabelled
    <2>2. i \in labels'[Len(labels) + 1].turns
      BY <1>1, <1>2
    <2> QED
      BY <1>2, <1>8, <2>1, <2>2 DEF AllLabelled, Register
  <1> QED
    BY <1>3, <1>4, <1>5, <1>6, <1>9, <1>10 DEF IInv

\* A slot that shares a call is added to the one label of that call.
LEMMA ShareIInv ==
    ASSUME IInv, NEW k \in DOMAIN labels, Share(k)
    PROVE  IInv'
  <1>1. /\ i \in Turns /\ i \in Nat /\ job = NoJob /\ job' = job
        /\ labels[k] \in Label /\ labels[k].call = Calls[i]
        /\ labels \in Seq(Label)
        /\ Digits(SlotOf[i]) \in 1 .. 3
    BY TurnsAreNumbers, DigitsBounded DEF IInv, TypeOK, Share, Turn, Holders
  <1> DEFINE g == [call   |-> labels[k].call,
                   turns  |-> labels[k].turns \cup {i},
                   length |-> labels[k].length + 2 + Digits(SlotOf[i]),
                   size   |-> labels[k].length + Room]
  <1>0. /\ labels[k].length \in Nat
        /\ labels[k].length + 2 + Digits(SlotOf[i]) \in Nat
        /\ labels[k].length + Room \in Nat
    <2>1. labels[k].length \in Nat
      BY <1>1 DEF Label
    <2>2. \A x \in Nat, d \in 1 .. 3 : x + 2 + d \in Nat
      OBVIOUS
    <2>3. \A x \in Nat : x + Room \in Nat
      BY SlotLabelsAssumption
    <2> QED
      BY ONLY <1>1, <2>1, <2>2, <2>3
  <1>2. /\ labels' \in Seq(Label)
        /\ Len(labels') = Len(labels)
        /\ DOMAIN labels' = DOMAIN labels
        /\ \A l \in DOMAIN labels : l # k => labels'[l] = labels[l]
        /\ labels'[k].call = Calls[i]
        /\ labels'[k].turns = labels[k].turns \cup {i}
        /\ labels'[k].length = labels[k].length + 2 + Digits(SlotOf[i])
        /\ labels'[k].size = labels[k].length + Room
    <2>1. labels' = [labels EXCEPT ![k] = g]
      BY DEF Share
    <2>2. /\ g \in Label
          /\ g.call = labels[k].call /\ g.turns = labels[k].turns \cup {i}
          /\ g.length = labels[k].length + 2 + Digits(SlotOf[i])
          /\ g.size = labels[k].length + Room
      <3>1. labels[k] \in Label /\ i \in Turns
        BY <1>1
      <3>2. labels[k].turns \cup {i} \in SUBSET Turns
        BY ONLY <3>1 DEF Label
      <3>3. labels[k].call \in {Calls[s] : s \in Turns} \ {NoCall}
        BY ONLY <3>1 DEF Label
      <3>4. g \in Label
        BY ONLY <1>0, <3>2, <3>3 DEF Label
      <3> QED
        BY <3>4
    <2> HIDE DEF g
    <2>3. labels'[k] = g
      BY <1>1, <2>1
    <2> QED
      BY <1>1, <2>1, <2>2, <2>3
  <1>3. TypeOK'
    BY <1>1, <1>2 DEF IInv, TypeOK, Share
  <1>4. JobInv'
    BY <1>1 DEF JobInv
  <1>5. TextFits'
    <2>1. labels[k].length \in Nat
      BY <1>1 DEF Label
    <2>2. labels'[k].length < labels'[k].size
      BY <1>1, <1>2, <2>1, SlotLabelsAssumption
    <2> QED
      BY <1>1, <1>2, <2>2 DEF IInv, TextFits
  <1>6. OneLabelPerCall'
    BY <1>1, <1>2 DEF IInv, OneLabelPerCall
  <1>7. \A s \in Turns : s < i + 1 <=> s < i \/ s = i
    BY <1>1, TurnsBeforeNext
  <1>8. NamesItsSlots'
    <2>1. failed' = failed /\ i' = i + 1
      BY DEF Share
    <2>2. \A l \in DOMAIN labels : l # k => labels[l].call # Calls[i]
      BY <1>1 DEF IInv, OneLabelPerCall
    <2>3. \A l \in DOMAIN labels, s \in Turns :
              /\ s \in labels[l].turns => s < i /\ Calls[s] = labels[l].call
              /\ s < i /\ Calls[s] = labels[l].call
                     => s \in labels[l].turns \cup failed
      BY DEF IInv, NamesItsSlots
    <2>4. \A s \in Turns :
              /\ s \in labels'[k].turns => s < i + 1 /\ Calls[s] = labels'[k].call
              /\ s < i + 1 /\ Calls[s] = labels'[k].call
                     => s \in labels'[k].turns \cup failed
      BY ONLY <1>1, <1>2, <1>7, <2>3
    <2>5. ASSUME NEW l \in DOMAIN labels, l # k, NEW s \in Turns
          PROVE  /\ s \in labels'[l].turns => s < i + 1 /\ Calls[s] = labels'[l].call
                 /\ s < i + 1 /\ Calls[s] = labels'[l].call
                        => s \in labels'[l].turns \cup failed
      <3>1. labels'[l] = labels[l] /\ labels[l].call # Calls[i]
        BY <1>2, <2>2, <2>5
      <3> QED
        BY ONLY <1>7, <2>3, <2>5, <3>1
    <2> QED
      BY ONLY <1>2, <2>1, <2>4, <2>5 DEF NamesItsSlots
  <1>9. AllLabelled'
    BY <1>1, <1>2, <1>7 DEF IInv, AllLabelled, Share
  <1> QED
    BY <1>3, <1>4, <1>5, <1>6, <1>8, <1>9 DEF IInv

\* A slot without a label, because it has no call or was left out.
LEMMA NoLabelIInv ==
    ASSUME IInv, SkipNull \/ LeaveOut
    PROVE  IInv'
  <1>1. /\ i \in Turns /\ i \in Nat /\ job = NoJob /\ job' = job
        /\ labels' = labels /\ i' = i + 1
        /\ failed \subseteq failed' /\ failed' \subseteq failed \cup {i}
        /\ Calls[i] # NoCall => i \in failed'
    BY TurnsAreNumbers DEF SkipNull, LeaveOut, Turn
  <1>2. \A s \in Turns : s < i + 1 <=> s < i \/ s = i
    <2>1. i \in Nat /\ Turns \subseteq Nat
      BY <1>1, TurnsAreNumbers
    <2> QED
      BY ONLY <2>1
  <1>3. \A k \in DOMAIN labels : labels[k].call # NoCall
    <2>1. \A k \in DOMAIN labels : labels[k] \in Label
      BY DEF IInv, TypeOK
    <2>2. \A l \in Label : l.call # NoCall
      BY DEF Label
    <2> QED
      BY <2>1, <2>2
  <1>4. TypeOK'
    BY <1>1 DEF IInv, TypeOK
  <1>5. NamesItsSlots'
    BY <1>1, <1>2, <1>3 DEF IInv, NamesItsSlots
  <1>6. AllLabelled'
    BY <1>1, <1>2 DEF IInv, AllLabelled
  <1>7. JobInv' /\ TextFits' /\ OneLabelPerCall'
    BY <1>1 DEF IInv, JobInv, TextFits, OneLabelPerCall
  <1> QED
    BY <1>4, <1>5, <1>6, <1>7 DEF IInv

\* The label in the making: its header, its lines, its last line.
LEMMA JobIInv ==
    ASSUME IInv, NEW w \in 0 .. MaxLine, Start \/ Line(w)
    PROVE  IInv'
  <1>1. /\ labels' = labels /\ i' = i /\ failed' = failed
        /\ i \in Turns
        /\ job' # NoJob
    BY DEF Start, Line, Longer, NoJob, Turn, IInv, JobInv
  <1>2. JobInv' /\ job' \in Label /\ job'.length < job'.size
    <2>1. CASE Start
      <3>1. Digits(SlotOf[i]) \in 1 .. 3
        BY <1>1, DigitsBounded, TurnsAreNumbers
      <3>2. Calls[i] \in {Calls[s] : s \in Turns} \ {NoCall}
        BY <2>1, <1>1 DEF Start
      <3> QED
        BY <1>1, <2>1, <3>1, <3>2, SlotLabelsAssumption
        DEF Start, JobInv, Label, Holders
    <2>2. CASE Line(w)
      <3>1. /\ job \in Label /\ job.length \in Nat /\ job.size = LabelMax
            /\ job.length + Indent + w + Ellipsis < LabelMax
            /\ Indent + w \in Nat
        <4>1. job \in Label /\ job.size = LabelMax
          BY <2>2 DEF Line, IInv, TypeOK, JobInv
        <4>2. job.length \in Nat
          BY <4>1 DEF Label
        <4>3. Indent + w \in Nat
          BY SlotLabelsAssumption
        <4>4. job.length + Indent + w + Ellipsis < LabelMax
          BY <2>2 DEF Line, Fits
        <4> QED
          BY <4>1, <4>2, <4>3, <4>4
      <3>2. job' \in Label
        BY <2>2, <3>1 DEF Line, Longer, Label
      <3>3. job'.length = job.length + (Indent + w) /\ job'.size = LabelMax
        BY <2>2, <3>1 DEF Line, Longer
      <3>4. job'.length + Ellipsis <= LabelMax /\ job'.length < job'.size
        BY <3>1, <3>3, SlotLabelsAssumption
      <3> QED
        BY <1>1, <2>2, <3>2, <3>3, <3>4 DEF Line, Longer, JobInv, IInv, Holders
    <2> QED
      BY <2>1, <2>2
  <1>3. TypeOK'
    BY <1>1, <1>2 DEF IInv, TypeOK
  <1>4. TextFits'
    BY <1>1, <1>2 DEF IInv, TextFits
  <1>5. NamesItsSlots' /\ OneLabelPerCall' /\ AllLabelled'
    BY <1>1 DEF IInv, NamesItsSlots, OneLabelPerCall, AllLabelled
  <1> QED
    BY <1>2, <1>3, <1>4, <1>5 DEF IInv

LEMMA CutIInv ==
    ASSUME IInv, NEW w \in 0 .. MaxLine, Cut(w)
    PROVE  IInv'
  <1>1. /\ job \in Label /\ job.length \in Nat /\ job.size = LabelMax
        /\ job # NoJob /\ job.length + Ellipsis <= LabelMax
    BY DEF Cut, IInv, TypeOK, JobInv, Label
  <1>2. Ellipsis - 1 \in Nat /\ LabelMax \in Nat
    BY SlotLabelsAssumption
  <1>3. Longer(Ellipsis - 1) \in Label
    BY <1>1, <1>2 DEF Longer, Label
  <1>4. Longer(Ellipsis - 1).length < Longer(Ellipsis - 1).size
    BY <1>1, <1>2, SlotLabelsAssumption DEF Longer
  <1>5. Longer(Ellipsis - 1).call = job.call /\ Longer(Ellipsis - 1).turns = job.turns
    BY DEF Longer
  <1> QED
    BY <1>1, <1>3, <1>4, <1>5, RegisterIInv DEF Cut

LEMMA DeparsedIInv ==
    ASSUME IInv, Deparsed
    PROVE  IInv'
  <1>1. job \in Label /\ job # NoJob /\ job.length < job.size
    BY DEF Deparsed, IInv, TypeOK, TextFits
  <1> QED
    BY <1>1, RegisterIInv DEF Deparsed

LEMMA Invariance == Spec => []IInv
  <1>1. IInv /\ [Next]_vars => IInv'
    <2> SUFFICES ASSUME IInv, [Next]_vars
                 PROVE  IInv'
      OBVIOUS
    <2>1. CASE UNCHANGED vars
      BY <2>1 DEF vars, IInv, TypeOK, JobInv, Holders, TextFits, NamesItsSlots,
                  OneLabelPerCall, AllLabelled
    <2>2. CASE SkipNull \/ LeaveOut
      BY <2>2, NoLabelIInv
    <2>3. CASE Start
      <3>1. 0 \in 0 .. MaxLine
        BY SlotLabelsAssumption
      <3> QED
        BY <2>3, <3>1, JobIInv
    <2>4. CASE Deparsed
      BY <2>4, DeparsedIInv
    <2>5. ASSUME NEW k \in DOMAIN labels, Share(k)
          PROVE  IInv'
      BY <2>5, ShareIInv
    <2>6. ASSUME NEW w \in 0 .. MaxLine, Line(w) \/ Cut(w)
          PROVE  IInv'
      BY <2>6, JobIInv, CutIInv
    <2> QED
      BY ONLY [Next]_vars, <2>1, <2>2, <2>3, <2>4, <2>5, <2>6 DEF Next
  <1> QED
    BY InitIInv, <1>1, PTL DEF Spec

\* No label text outgrows its buffer in fuzz_label_call or fuzz_do_deparse.
THEOREM LabelsFit == Spec => []TextFits
  <1>1. IInv => TextFits
    BY DEF IInv
  <1> QED
    BY <1>1, Invariance, PTL

\* The dump's header names the slots of the call it stands for, and only
\* those (fuzz_label_call).
THEOREM LabelsNameTheirSlots == Spec => []NamesItsSlots
  <1>1. IInv => NamesItsSlots
    BY DEF IInv
  <1> QED
    BY <1>1, Invariance, PTL

\* fuzz_label_enter's linear search has at most one label to find.
THEOREM LabelsAreUnique == Spec => []OneLabelPerCall
  <1>1. IInv => OneLabelPerCall
    BY DEF IInv
  <1> QED
    BY <1>1, Invariance, PTL

\* No slot that calls R and was not left out by malloc or the limit is
\* without a label (fuzz_label_calls).
THEOREM SlotsAreLabelled == Spec => []AllLabelled
  <1>1. IInv => AllLabelled
    BY DEF IInv
  <1> QED
    BY <1>1, Invariance, PTL

-----------------------------------------------------------------------------
(* UTF-8: the bytes that eval_valid_utf8 asks for, one sequence at a time,  *)
(* are those that encode a code point.                                     *)

Byte == 1 .. 255

Asked(s) ==
    /\ s[1] \in U!Lead(Len(s))
    /\ \A l \in 2 .. Len(s) : U!Continues(s[l])
    /\ Len(s) > 1 => U!Second(s[1], s[2])

LEMMA Leads ==
    /\ U!Lead(1) = 0 .. 127
    /\ U!Lead(2) = 194 .. 223
    /\ U!Lead(3) = 224 .. 239
    /\ U!Lead(4) = 240 .. 244
  BY SMT DEF U!Lead

LEMMA Shortest ==
    /\ U!Shortest(1) = 0
    /\ U!Shortest(2) = 128
    /\ U!Shortest(3) = 2048
    /\ U!Shortest(4) = 65536
  BY SMT DEF U!Shortest

LEMMA AskedOne ==
    ASSUME NEW s, Len(s) = 1, NEW b \in Byte, s[1] = b
    PROVE  U!Encodes(s) <=> Asked(s)
  <1>1. U!Shaped(s) <=> b < 128
    BY SMT DEF U!Shaped, Byte
  <1>2. U!Value(s) = b
    BY SMT DEF U!Value
  <1>3. U!Scalar(b, 1)
    BY Shortest, SMT DEF U!Scalar, Byte
  <1>4. Asked(s) <=> b < 128
    BY Leads, SMT DEF Asked, Byte
  <1> QED
    BY <1>1, <1>2, <1>3, <1>4, Zenon DEF U!Encodes

LEMMA AskedTwo ==
    ASSUME NEW s, Len(s) = 2, NEW b \in Byte, NEW c \in Byte, s[1] = b, s[2] = c
    PROVE  U!Encodes(s) <=> Asked(s)
  <1> DEFINE v == 64 * (b % 32) + (c % 64)
             Shape == b \in 192 .. 223 /\ U!Continues(c)
  <1>1. U!Shaped(s) <=> Shape
    BY SMT DEF U!Shaped, Byte
  <1>2. U!Value(s) = v
    BY SMT DEF U!Value
  <1>3. v \in Int /\ (Shape => v = 64 * (b - 192) + (c - 128))
    BY SMT DEF U!Continues, Byte
  <1> HIDE DEF v
  <1>4. Asked(s) <=> b \in 194 .. 223 /\ U!Continues(c)
    BY Leads, SMT DEF Asked, U!Second, Byte
  <1>5. Shape /\ U!Scalar(v, 2) <=> b \in 194 .. 223 /\ U!Continues(c)
    BY <1>3, Shortest, SMT DEF U!Scalar, U!Continues, Byte
  <1>6. U!Encodes(s) <=> U!Shaped(s) /\ U!Scalar(v, 2)
    BY <1>2, Zenon DEF U!Encodes
  <1> HIDE DEF Shape
  <1> QED
    BY ONLY <1>1, <1>4, <1>5, <1>6, Zenon

LEMMA AskedThree ==
    ASSUME NEW s, Len(s) = 3, NEW b \in Byte, NEW c \in Byte, NEW d \in Byte,
           s[1] = b, s[2] = c, s[3] = d
    PROVE  U!Encodes(s) <=> Asked(s)
  <1> DEFINE v == 4096 * (b % 16) + 64 * (c % 64) + (d % 64)
             Shape == b \in 224 .. 239 /\ U!Continues(c) /\ U!Continues(d)
             Ranges == Shape /\ U!Second(b, c)
  <1>1. U!Shaped(s) <=> Shape
    BY SMT DEF U!Shaped, Byte
  <1>2. U!Value(s) = v
    BY SMT DEF U!Value
  <1>3. v \in Int /\ (Shape => v = 4096 * (b - 224) + 64 * (c - 128) + (d - 128))
    BY SMT DEF U!Continues, Byte
  <1> HIDE DEF v
  <1>4. Asked(s) <=> Ranges
    BY Leads, SMT DEF Asked, Byte
  <1>5. Shape /\ U!Scalar(v, 3) <=> Ranges
    BY <1>3, Shortest, SMT DEF U!Scalar, U!Continues, U!Second, Byte
  <1>6. U!Encodes(s) <=> U!Shaped(s) /\ U!Scalar(v, 3)
    BY <1>2, Zenon DEF U!Encodes
  <1> HIDE DEF Shape, Ranges
  <1> QED
    BY ONLY <1>1, <1>4, <1>5, <1>6, Zenon

LEMMA AskedFour ==
    ASSUME NEW s, Len(s) = 4, NEW b \in Byte, NEW c \in Byte, NEW d \in Byte, NEW e \in Byte,
           s[1] = b, s[2] = c, s[3] = d, s[4] = e
    PROVE  U!Encodes(s) <=> Asked(s)
  <1> DEFINE v == 262144 * (b % 8) + 4096 * (c % 64) + 64 * (d % 64) + (e % 64)
             Shape == b \in 240 .. 247 /\ U!Continues(c) /\ U!Continues(d) /\ U!Continues(e)
             Ranges == /\ b \in 240 .. 244
                       /\ U!Continues(c) /\ U!Continues(d) /\ U!Continues(e)
                       /\ U!Second(b, c)
  <1>1. U!Shaped(s) <=> Shape
    BY SMT DEF U!Shaped, Byte
  <1>2. U!Value(s) = v
    BY SMT DEF U!Value
  <1>3. v \in Int
    BY SMT DEF Byte
  <1>4. Shape => v = 262144 * (b - 240) + 4096 * (c - 128) + 64 * (d - 128) + (e - 128)
    BY SMT DEF U!Continues, Byte
  <1> HIDE DEF v
  <1>5. Asked(s) <=> Ranges
    BY Leads, SMT DEF Asked, Byte
  <1>6. Shape /\ U!Scalar(v, 4) <=> Ranges
    BY <1>3, <1>4, Shortest, SMT DEF U!Scalar, U!Continues, U!Second, Byte
  <1>7. U!Encodes(s) <=> U!Shaped(s) /\ U!Scalar(v, 4)
    BY <1>2, Zenon DEF U!Encodes
  <1> HIDE DEF Shape, Ranges
  <1> QED
    BY ONLY <1>1, <1>5, <1>6, <1>7, Zenon

LEMMA AskedEncodes ==
    ASSUME NEW m \in 1 .. 4, NEW s, Len(s) = m, \A l \in 1 .. m : s[l] \in Byte
    PROVE  U!Encodes(s) <=> Asked(s)
  <1>1. m = 1 \/ m = 2 \/ m = 3 \/ m = 4
    OBVIOUS
  <1>2. /\ 1 \in 1 .. m
        /\ m \in {2, 3, 4} => 2 \in 1 .. m
        /\ m \in {3, 4} => 3 \in 1 .. m
        /\ m = 4 => 4 \in 1 .. m
    OBVIOUS
  <1>3. s[1] \in Byte
    BY <1>2, Zenon
  <1>4. CASE m = 1
    BY <1>3, <1>4, AskedOne, Zenon
  <1>5. CASE m = 2
    BY <1>2, <1>3, <1>5, AskedTwo, Zenon
  <1>6. CASE m = 3
    BY <1>2, <1>3, <1>6, AskedThree, Zenon
  <1>7. CASE m = 4
    BY <1>2, <1>3, <1>7, AskedFour, Zenon
  <1> QED
    BY <1>1, <1>4, <1>5, <1>6, <1>7

-----------------------------------------------------------------------------
(* Sequences of UTF-8 in the data *)

Text == data \in Seq(Byte)

LEMMA TextByte ==
    ASSUME Text, NEW k \in Nat
    PROVE  /\ Len(data) \in Nat
           /\ k < Len(data) => U!At(data, k) \in Byte
           /\ k >= Len(data) => U!At(data, k) = 0
  <1>1. Len(data) \in Nat
    BY Zenon, LenProperties DEF Text
  <1>2. CASE k < Len(data)
    <2>1. k + 1 \in 1 .. Len(data)
      BY <1>1, <1>2
    <2>2. data[k + 1] \in Byte
      BY <2>1, ElementOfSeq, Zenon DEF Text
    <2>3. ~ (k >= Len(data))
      BY <1>1, <1>2
    <2> QED
      BY <1>1, <1>2, <2>2, <2>3, Zenon DEF U!At
  <1>3. CASE ~ (k < Len(data))
    BY <1>1, <1>3, Zenon DEF U!At
  <1> QED
    BY <1>2, <1>3

\* What starts at k, by the bytes there.
LEMMA StartsAsked ==
    ASSUME Text, NEW k \in Nat, NEW m \in 1 .. 4, k + m <= Len(data)
    PROVE  U!Starts(k, m) <=> /\ U!At(data, k) \in U!Lead(m)
                              /\ \A l \in 1 .. m - 1 : U!Continues(U!At(data, k + l))
                              /\ m > 1 => U!Second(U!At(data, k), U!At(data, k + 1))
  <1> DEFINE s == U!Sequence(k, m)
  <1>1. Len(data) \in Nat
    BY TextByte
  <1>2. Len(s) = m /\ \A l \in 1 .. m : s[l] = U!At(data, k + l - 1)
    BY DEF U!Sequence
  <1>3. \A l \in 1 .. m : s[l] \in Byte
    <2> SUFFICES ASSUME NEW l \in 1 .. m
                 PROVE  s[l] \in Byte
      OBVIOUS
    <2>1. k + l - 1 \in Nat /\ k + l - 1 < Len(data)
      BY <1>1
    <2> QED
      BY <1>2, <2>1, TextByte
  <1> HIDE DEF s
  <1>4. U!Encodes(s) <=> Asked(s)
    BY <1>2, <1>3, AskedEncodes, Zenon
  <1>5. s[1] = U!At(data, k) /\ (m > 1 => s[2] = U!At(data, k + 1))
    <2>1. 1 \in 1 .. m /\ k + 1 - 1 = k /\ (m > 1 => 2 \in 1 .. m) /\ k + 2 - 1 = k + 1
      OBVIOUS
    <2> QED
      BY <1>2, <2>1, Zenon
  <1>6. (\A l \in 2 .. m : U!Continues(s[l]))
          <=> \A l \in 1 .. m - 1 : U!Continues(U!At(data, k + l))
    <2>1. ASSUME NEW l \in 2 .. m
          PROVE  l - 1 \in 1 .. m - 1 /\ s[l] = U!At(data, k + (l - 1))
      <3>1. k + l - 1 = k + (l - 1) /\ l \in 1 .. m /\ l - 1 \in 1 .. m - 1
        OBVIOUS
      <3> QED
        BY <1>2, <3>1, Zenon
    <2>2. ASSUME NEW l \in 1 .. m - 1
          PROVE  l + 1 \in 2 .. m /\ s[l + 1] = U!At(data, k + l)
      <3>1. k + (l + 1) - 1 = k + l /\ l + 1 \in 1 .. m /\ l + 1 \in 2 .. m
        OBVIOUS
      <3> QED
        BY <1>2, <3>1, Zenon
    <2> QED
      BY <2>1, <2>2, Zenon
  <1>7. U!Starts(k, m) <=> U!Encodes(s)
    BY Zenon DEF U!Starts, s
  <1> QED
    BY <1>2, <1>4, <1>5, <1>6, <1>7, Zenon DEF Asked

\* eval_valid_utf8 goes on past m bytes just where a sequence of m starts.
LEMMA AdmitsStarts ==
    ASSUME Text, checked \in Nat, NEW m \in 1 .. 4
    PROVE  U!Admits(m) <=> U!Starts(checked, m)
  <1>1. CASE checked + m <= Len(data)
    BY <1>1, StartsAsked, Zenon DEF U!Admits
  <1>2. CASE ~ (checked + m <= Len(data))
    BY <1>2, Zenon DEF U!Admits, U!Starts
  <1> QED
    BY <1>1, <1>2

\* What starts somewhere has one length: the announced one.
LEMMA StartsAnnounced ==
    ASSUME Text, NEW k \in Nat, NEW m \in 1 .. 4, U!Starts(k, m)
    PROVE  /\ m = U!Announced(U!At(data, k))
           /\ \A l \in 1 .. m - 1 : U!Continues(U!At(data, k + l))
  <1>1. k + m <= Len(data)
    BY Zenon DEF U!Starts
  <1>2. /\ U!At(data, k) \in U!Lead(m)
        /\ \A l \in 1 .. m - 1 : U!Continues(U!At(data, k + l))
    BY <1>1, StartsAsked, Zenon
  <1>3. m = U!Announced(U!At(data, k))
    BY <1>2, Leads, SMT DEF U!Announced
  <1> QED
    BY <1>2, <1>3, Zenon

-----------------------------------------------------------------------------
(* The code points from a place on *)

LEMMA SetInduction ==
    ASSUME NEW S, 0 \in S, \A k \in Nat : k \in S => k + 1 \in S
    PROVE  Nat \subseteq S
  <1> DEFINE Less == OpToRel(<, Nat)
             Rest == Nat \ S
  <1>1. IsWellFoundedOn(Less, Nat)
    BY NatLessThanWellFounded, Zenon
  <1>2. SUFFICES ASSUME Rest # {}
                 PROVE  FALSE
    OBVIOUS
  <1> HIDE DEF Less
  <1>3. PICK x \in Rest : \A y \in Rest : ~ (<<y, x>> \in Less)
    BY <1>1, <1>2, WFMin
  <1>4. x # 0 /\ x - 1 \in Nat
    BY <1>3
  <1>5. x - 1 \in Rest
    BY <1>3, <1>4
  <1>6. <<x - 1, x>> \in Less
    BY <1>3, <1>4 DEF Less, OpToRel
  <1> QED
    BY <1>3, <1>5, <1>6

\* Some sequence starts at k, and how long the one that does is.
Goes(k) == \E m \in 1 .. 4 : U!Starts(k, m)
Size(k) == CHOOSE m \in 1 .. 4 : U!Starts(k, m)
Point(k) == U!Value(U!Sequence(k, Size(k)))

LEMMA SizeStarts ==
    ASSUME Text, NEW k \in Nat, Goes(k)
    PROVE  /\ Size(k) \in 1 .. 4 /\ U!Starts(k, Size(k)) /\ k + Size(k) <= Len(data)
           /\ k < Len(data)
           /\ \A m \in 1 .. 4 : U!Starts(k, m) => m = Size(k)
  <1>1. Size(k) \in 1 .. 4 /\ U!Starts(k, Size(k))
    BY Zenon DEF Goes, Size
  <1>2. k + Size(k) <= Len(data)
    BY <1>1, Zenon DEF U!Starts
  <1>3. Len(data) \in Nat
    BY TextByte
  <1>4. \A m \in 1 .. 4 : U!Starts(k, m) => m = Size(k)
    <2>1. \A m \in 1 .. 4 : U!Starts(k, m) => m = U!Announced(U!At(data, k))
      BY StartsAnnounced
    <2> QED
      BY ONLY <1>1, <2>1, Zenon
  <1>5. k < Len(data)
    <2>1. PICK e \in 1 .. 4 : k + e <= Len(data)
      BY ONLY <1>1, <1>2, Zenon
    <2> QED
      BY ONLY <1>3, <2>1, k \in Nat, SMT
  <1> QED
    BY <1>1, <1>2, <1>4, <1>5, Zenon

\* CodePoints is well defined, by recursion from the end of the data.
LEMMA CodesDef ==
    ASSUME Text
    PROVE  U!CodePoints = [k \in 0 .. Len(data) |->
              IF ~ Goes(k) THEN <<>> ELSE <<Point(k)>> \o U!CodePoints[k + Size(k)]]
  <1> DEFINE Size0 == Len(data)
             Step(x, k) == IF ~ Goes(k) THEN <<>> ELSE <<Point(k)>> \o x
             IsCodes(a, m) == a = [k \in (Size0 - m) .. Size0 |-> Step(a[k + Size(k)], k)]
             S == {m \in Nat : m <= Size0 => \E a : IsCodes(a, m)}
  <1>1. Size0 \in Nat
    BY TextByte
  <1>2. \A k \in Nat : Goes(k) => Size(k) \in 1 .. 4 /\ k + Size(k) <= Size0
    BY SizeStarts, Zenon
  <1>3. \A x, y, k : ~ Goes(k) => Step(x, k) = Step(y, k)
    OBVIOUS
  <1> HIDE DEF Step, Size0
  <1>4. 0 \in S
    <2>1. ~ Goes(Size0)
      BY <1>1, <1>2
    <2> DEFINE a == [k \in Size0 .. Size0 |-> Step(<<>>, k)]
    <2>2. \A k \in Size0 .. Size0 : a[k] = Step(a[k + Size(k)], k)
      BY <1>1, <1>3, <2>1
    <2>3. a = [k \in (Size0 - 0) .. Size0 |-> a[k]]
      BY <1>1
    <2> HIDE DEF a
    <2>4. IsCodes(a, 0)
      BY <1>1, <2>2, <2>3
    <2> QED
      BY <2>4
  <1>5. ASSUME NEW m \in Nat, m \in S
        PROVE  m + 1 \in S
    <2> SUFFICES ASSUME m + 1 <= Size0
                 PROVE  \E b : IsCodes(b, m + 1)
      OBVIOUS
    <2>1. PICK a : IsCodes(a, m)
      BY <1>1, <1>5
    <2> DEFINE l == Size0 - (m + 1)
               b == [k \in l .. Size0 |->
                       IF k = l THEN Step(a[k + Size(k)], k) ELSE a[k]]
    <2>2. l \in Nat /\ l <= Size0 /\ l + 1 = Size0 - m
      BY <1>1
    <2>3. \A k \in l + 1 .. Size0 : b[k] = a[k]
      BY <2>2, <1>1
    <2>4. b[l] = Step(a[l + Size(l)], l)
      BY <2>2, <1>1
    <2>5. b = [k \in l .. Size0 |-> b[k]]
      OBVIOUS
    <2> HIDE DEF b, l
    <2>6. \A k \in l + 1 .. Size0 : a[k] = Step(a[k + Size(k)], k)
      BY <2>1, <2>2
    <2>7. ASSUME NEW k \in l .. Size0
          PROVE  b[k] = Step(b[k + Size(k)], k)
      <3>1. b[k] = Step(a[k + Size(k)], k)
        BY <2>2, <2>3, <2>4, <2>6, <1>1
      <3>2. CASE ~ Goes(k)
        BY <3>1, <3>2, <1>3
      <3>3. CASE Goes(k)
        <4>1. k + Size(k) \in l + 1 .. Size0
          BY <3>3, <2>2, <1>1, <1>2
        <4> QED
          BY <4>1, <3>1, <2>3
      <3> QED
        BY <3>2, <3>3
    <2>8. IsCodes(b, m + 1)
      BY <2>5, <2>7 DEF l
    <2> QED
      BY <2>8
  <1>6. Size0 \in S
    BY <1>1, <1>4, <1>5, SetInduction
  <1>7. \E a : a = [k \in 0 .. Size0 |-> Step(a[k + Size(k)], k)]
    <2>1. PICK a : IsCodes(a, Size0)
      BY <1>1, <1>6
    <2>2. Size0 - Size0 = 0
      BY ONLY <1>1, SMT
    <2> QED
      BY ONLY <2>1, <2>2, Zenon
  <1> QED
    BY <1>7 DEF U!CodePoints, Step, Size0, Goes, Size, Point

LEMMA CodesStep ==
    ASSUME Text, NEW k \in 0 .. Len(data)
    PROVE  /\ ~ Goes(k) => U!CodePoints[k] = <<>>
           /\ Goes(k) => U!CodePoints[k] = <<Point(k)>> \o U!CodePoints[k + Size(k)]
  <1> DEFINE Step(x) == IF ~ Goes(x) THEN <<>> ELSE <<Point(x)>> \o U!CodePoints[x + Size(x)]
  <1> HIDE DEF Step
  <1>1. U!CodePoints = [x \in 0 .. Len(data) |-> Step(x)]
    BY CodesDef, Zenon DEF Step
  <1>2. U!CodePoints[k] = Step(k)
    BY <1>1
  <1> QED
    BY <1>2, Zenon DEF Step

LEMMA SequenceBytes ==
    ASSUME Text, NEW k \in Nat, NEW m \in 1 .. 4, k + m <= Len(data)
    PROVE  /\ Len(U!Sequence(k, m)) = m
           /\ \A l \in 1 .. m : /\ U!Sequence(k, m)[l] = U!At(data, k + l - 1)
                                /\ U!Sequence(k, m)[l] \in Byte
  <1> DEFINE s == U!Sequence(k, m)
  <1>1. Len(data) \in Nat
    BY TextByte
  <1>2. Len(s) = m /\ \A l \in 1 .. m : s[l] = U!At(data, k + l - 1)
    BY DEF U!Sequence
  <1>3. ASSUME NEW l \in 1 .. m
        PROVE  s[l] \in Byte
    <2>1. k + l - 1 \in Nat /\ k + l - 1 < Len(data)
      BY <1>1
    <2> QED
      BY <1>2, <2>1, TextByte
  <1> QED
    BY <1>2, <1>3, Zenon

LEMMA ValueInt ==
    ASSUME NEW m \in 1 .. 4, NEW s, Len(s) = m, \A l \in 1 .. m : s[l] \in Byte
    PROVE  U!Value(s) \in Int
  <1>1. m = 1 \/ m = 2 \/ m = 3 \/ m = 4
    OBVIOUS
  <1>2. /\ s[1] \in Int
        /\ m >= 2 => s[2] \in Int
        /\ m >= 3 => s[3] \in Int
        /\ m >= 4 => s[4] \in Int
    <2>1. /\ 1 \in 1 .. m
          /\ m >= 2 => 2 \in 1 .. m
          /\ m >= 3 => 3 \in 1 .. m
          /\ m >= 4 => 4 \in 1 .. m
          /\ Byte \subseteq Int
      BY DEF Byte
    <2> QED
      BY <2>1, Zenon
  <1>3. \A x \in Int : x % 64 \in Int /\ x % 32 \in Int /\ x % 16 \in Int /\ x % 8 \in Int
    OBVIOUS
  <1>4. CASE m = 1
    BY <1>2, <1>4, SMT DEF U!Value
  <1>5. CASE m = 2
    BY <1>2, <1>5, SMT DEF U!Value
  <1>6. CASE m = 3
    BY <1>2, <1>6, SMT DEF U!Value
  <1>7. CASE m = 4
    BY <1>2, <1>7, SMT DEF U!Value
  <1> QED
    BY <1>1, <1>4, <1>5, <1>6, <1>7

LEMMA PointInt ==
    ASSUME Text, NEW k \in Nat, Goes(k)
    PROVE  Point(k) \in Int
  <1>1. Size(k) \in 1 .. 4 /\ k + Size(k) <= Len(data)
    BY SizeStarts
  <1>2. Len(U!Sequence(k, Size(k))) = Size(k)
        /\ \A l \in 1 .. Size(k) : U!Sequence(k, Size(k))[l] \in Byte
    BY <1>1, SequenceBytes, Zenon
  <1> QED
    BY <1>1, <1>2, ValueInt, Zenon DEF Point

LEMMA CodesSeq ==
    ASSUME Text
    PROVE  \A k \in 0 .. Len(data) : U!CodePoints[k] \in Seq(Int)
  <1> DEFINE IsSeq(k) == U!CodePoints[k] \in Seq(Int)
             S == {m \in Nat : \A k \in 0 .. Len(data) : Len(data) - m <= k => IsSeq(k)}
  <1>1. Len(data) \in Nat
    BY TextByte
  <1>2. ASSUME NEW k \in 0 .. Len(data), Goes(k) => k + Size(k) \in 0 .. Len(data) /\ IsSeq(k + Size(k))
        PROVE  IsSeq(k)
    <2>1. CASE ~ Goes(k)
      <3>1. U!CodePoints[k] = <<>>
        BY <2>1, CodesStep
      <3>2. <<>> \in Seq(Int)
        OBVIOUS
      <3> QED
        BY <3>1, <3>2
    <2>2. CASE Goes(k)
      <3>1. U!CodePoints[k] = <<Point(k)>> \o U!CodePoints[k + Size(k)]
        BY <2>2, CodesStep
      <3>2. <<Point(k)>> \in Seq(Int)
        BY <2>2, PointInt
      <3> QED
        BY <3>1, <3>2, <2>2, <1>2, ConcatProperties, Zenon
    <2> QED
      BY <2>1, <2>2
  <1>3. \A k \in Nat : Goes(k) => Size(k) \in 1 .. 4 /\ k + Size(k) <= Len(data)
    BY SizeStarts, Zenon
  <1> HIDE DEF IsSeq
  <1>4. 0 \in S
    <2> SUFFICES IsSeq(Len(data))
      BY <1>1
    <2>1. ~ Goes(Len(data))
      BY <1>1, <1>3
    <2> QED
      BY <1>1, <1>2, <2>1
  <1>5. ASSUME NEW m \in Nat, m \in S
        PROVE  m + 1 \in S
    <2> SUFFICES ASSUME NEW k \in 0 .. Len(data), Len(data) - (m + 1) <= k
                 PROVE  IsSeq(k)
      OBVIOUS
    <2>1. ASSUME Goes(k)
          PROVE  k + Size(k) \in 0 .. Len(data) /\ Len(data) - m <= k + Size(k)
      BY <1>1, <1>3, <2>1
    <2> QED
      BY <1>2, <1>5, <2>1
  <1>6. Len(data) \in S
    BY <1>1, <1>4, <1>5, SetInduction
  <1> QED
    BY <1>1, <1>6 DEF IsSeq

\* fuzz_decode_utf8 computes the code point of the sequence it is at.
LEMMA ShiftedValue ==
    ASSUME Text, position \in Nat, NEW m \in 1 .. 4, U!Starts(position, m)
    PROVE  U!Shifted(U!At(data, position), m) = U!Value(U!Sequence(position, m))
  <1> DEFINE b(l) == U!At(data, position + l - 1)
             c == U!At(data, position)
             s == U!Sequence(position, m)
             f0 == U!Payload(c, m)
             IsShifted(f) == f = [k \in 1 .. m |-> IF k = 1 THEN f0 ELSE f[k - 1] * 64 + (b(k) % 64)]
  <1>1. position + m <= Len(data)
    BY Zenon DEF U!Starts
  <1>2. Len(s) = m /\ \A l \in 1 .. m : s[l] = b(l) /\ s[l] \in Byte
    BY <1>1, SequenceBytes, Zenon
  <1>3. b(1) = c
    <2>1. position + 1 - 1 = position
      OBVIOUS
    <2> QED
      BY <2>1, Zenon
  <1>4. c \in U!Lead(m)
    BY <1>1, StartsAsked, Zenon
  <1>5. \A l \in 1 .. m : b(l) \in Byte
    BY <1>2
  <1> SUFFICES U!Shifted(c, m) = U!Value(s)
    BY Zenon
  <1> HIDE DEF b, c, s, f0
  <1>6. \E f : IsShifted(f)
    <2> DEFINE f1 == f0
               f2 == f1 * 64 + (b(2) % 64)
               f3 == f2 * 64 + (b(3) % 64)
               f4 == f3 * 64 + (b(4) % 64)
    <2> HIDE DEF f1, f2, f3, f4
    <2> DEFINE f == [k \in 1 .. m |-> IF k = 1 THEN f1 ELSE IF k = 2 THEN f2
                                      ELSE IF k = 3 THEN f3 ELSE f4]
    <2>1. \A k \in 1 .. m : f[k] = IF k = 1 THEN f1 ELSE IF k = 2 THEN f2
                                      ELSE IF k = 3 THEN f3 ELSE f4
      OBVIOUS
    <2>2. f = [k \in 1 .. m |-> f[k]]
      OBVIOUS
    <2> HIDE DEF f
    <2>3. ASSUME NEW k \in 1 .. m
          PROVE  f[k] = IF k = 1 THEN f0 ELSE f[k - 1] * 64 + (b(k) % 64)
      <3>1. CASE k = 1
        BY <2>1, <3>1 DEF f1
      <3>2. CASE k = 2
        <4>1. f[2] = f2 /\ f[1] = f1
          BY <2>1, <3>2
        <4> QED
          BY <4>1, <3>2 DEF f2
      <3>3. CASE k = 3
        <4>1. f[3] = f3 /\ f[2] = f2
          BY <2>1, <3>3
        <4> QED
          BY <4>1, <3>3 DEF f3
      <3>4. CASE k = 4
        <4>1. f[4] = f4 /\ f[3] = f3
          BY <2>1, <3>4
        <4> QED
          BY <4>1, <3>4 DEF f4
      <3> QED
        BY <3>1, <3>2, <3>3, <3>4
    <2>4. IsShifted(f)
      BY <2>2, <2>3
    <2> QED
      BY <2>4, Zenon
  <1>7. PICK f : IsShifted(f) /\ U!Shifted(c, m) = f[m]
    <2> DEFINE g == CHOOSE f : IsShifted(f)
    <2>1. U!Shifted(c, m) = g[m]
      BY Zenon DEF U!Shifted, b, f0
    <2>2. IsShifted(g)
      BY <1>6, Zenon
    <2> QED
      BY <2>1, <2>2, Zenon
  <1>8. \A k \in 1 .. m : f[k] = IF k = 1 THEN f0 ELSE f[k - 1] * 64 + (b(k) % 64)
    BY <1>7
  <1>9. /\ s[1] = c /\ f[1] = f0
        /\ m >= 2 => s[2] = b(2) /\ b(2) \in Byte /\ f[2] = f[1] * 64 + (b(2) % 64)
        /\ m >= 3 => s[3] = b(3) /\ b(3) \in Byte /\ f[3] = f[2] * 64 + (b(3) % 64)
        /\ m >= 4 => s[4] = b(4) /\ b(4) \in Byte /\ f[4] = f[3] * 64 + (b(4) % 64)
    <2>1. /\ 1 \in 1 .. m
          /\ m >= 2 => 2 \in 1 .. m /\ 2 # 1 /\ 2 - 1 = 1
          /\ m >= 3 => 3 \in 1 .. m /\ 3 # 1 /\ 3 - 1 = 2
          /\ m >= 4 => 4 \in 1 .. m /\ 4 # 1 /\ 4 - 1 = 3
      OBVIOUS
    <2>2. m >= 2 => s[2] = b(2) /\ b(2) \in Byte /\ f[2] = f[1] * 64 + (b(2) % 64)
      BY <1>2, <1>5, <1>8, <2>1, Zenon
    <2>3. m >= 3 => s[3] = b(3) /\ b(3) \in Byte /\ f[3] = f[2] * 64 + (b(3) % 64)
      BY <1>2, <1>5, <1>8, <2>1, Zenon
    <2>4. m >= 4 => s[4] = b(4) /\ b(4) \in Byte /\ f[4] = f[3] * 64 + (b(4) % 64)
      BY <1>2, <1>5, <1>8, <2>1, Zenon
    <2>5. s[1] = c /\ f[1] = f0
      BY <1>2, <1>3, <1>8, <2>1, Zenon
    <2> QED
      BY <2>2, <2>3, <2>4, <2>5, Zenon
  <1>10. c \in Byte
    <2>1. 1 \in 1 .. m
      OBVIOUS
    <2> QED
      BY <2>1, <1>3, <1>5, Zenon
  <1>11. CASE m = 1
    <2>1. f0 = c
      BY <1>4, <1>11, Leads, SMT DEF f0, U!Payload
    <2>2. U!Value(s) = s[1]
      BY <1>2, <1>11, SMT DEF U!Value
    <2> QED
      BY <2>1, <2>2, <1>7, <1>9, <1>11
  <1>12. CASE m = 2
    <2>1. f0 = c % 32
      BY <1>12, SMT DEF f0, U!Payload
    <2>2. U!Value(s) = 64 * (s[1] % 32) + (s[2] % 64)
      BY <1>2, <1>12, SMT DEF U!Value
    <2>3. U!Value(s) = f[2]
      BY <2>1, <2>2, <1>9, <1>10, <1>12, SMT DEF Byte
    <2> QED
      BY <2>3, <1>7, <1>12
  <1>13. CASE m = 3
    <2>1. f0 = c % 16
      BY <1>13, SMT DEF f0, U!Payload
    <2>2. U!Value(s) = 4096 * (s[1] % 16) + 64 * (s[2] % 64) + (s[3] % 64)
      BY <1>2, <1>13, SMT DEF U!Value
    <2>3. U!Value(s) = f[3]
      BY <2>1, <2>2, <1>9, <1>10, <1>13, SMT DEF Byte
    <2> QED
      BY <2>3, <1>7, <1>13
  <1>14. CASE m = 4
    <2>1. f0 = c % 8
      BY <1>14, SMT DEF f0, U!Payload
    <2>2. U!Value(s) = 262144 * (s[1] % 8) + 4096 * (s[2] % 64) + 64 * (s[3] % 64) + (s[4] % 64)
      BY <1>2, <1>14, SMT DEF U!Value
    <2>3. U!Value(s) = f[4]
      <3>1. c % 8 \in Int /\ b(2) % 64 \in Int /\ b(3) % 64 \in Int /\ b(4) % 64 \in Int
        BY <1>9, <1>10, <1>14, SMT DEF Byte
      <3>2. \A w, x, y, z \in Int : ((w * 64 + x) * 64 + y) * 64 + z
                                      = 262144 * w + 4096 * x + 64 * y + z
        BY SMT
      <3>3. U!Value(s) = 262144 * (c % 8) + 4096 * (b(2) % 64) + 64 * (b(3) % 64) + (b(4) % 64)
        BY <2>2, <1>9, <1>14, SMT
      <3>4. f[4] = (((c % 8) * 64 + (b(2) % 64)) * 64 + (b(3) % 64)) * 64 + (b(4) % 64)
        BY <2>1, <1>9, <1>14, SMT
      <3> QED
        BY ONLY <3>1, <3>2, <3>3, <3>4, SMT
    <2> QED
      BY <2>3, <1>7, <1>14
  <1> QED
    BY <1>11, <1>12, <1>13, <1>14

-----------------------------------------------------------------------------
(* The invariant of the two readers *)

\* The sequences that were passed so far, each by the place where it starts.
Passed(b) ==
    /\ b \in SUBSET (0 .. checked) /\ {0, checked} \subseteq b
    /\ \A k \in b \ {checked} : \E m \in 1 .. 4 : U!Starts(k, m) /\ k + m \in b

CheckInv ==
    /\ checked \in 0 .. Len(data)
    /\ \E b : Passed(b)
    /\ \A b \in U!Cuts : checked \in b
    /\ valid \in {"open", "valid", "invalid"}
    /\ valid = "valid" => checked = Len(data)
    /\ valid = "invalid" => U!Cuts = {}

DecodeInv ==
    /\ position \in 0 .. Len(data)
    /\ \A b \in U!Cuts : position \in b
    /\ U!WellFormed => /\ decoded \in Seq(Int)
                       /\ decoded \o U!CodePoints[position] = U!CodePoints[0]

UInv == Text /\ CheckInv /\ DecodeInv

LEMMA FixedData ==
    ASSUME data' = data
    PROVE  /\ U!Cuts' = U!Cuts /\ U!CodePoints' = U!CodePoints
           /\ \A k, m : U!Starts(k, m)' <=> U!Starts(k, m)
           /\ Text' <=> Text
  <1>1. \A k, m : U!Starts(k, m)' <=> U!Starts(k, m)
    BY DEF U!Starts, U!Sequence
  <1>2. U!Cuts' = U!Cuts
    BY DEF U!Cuts, U!Starts, U!Sequence
  <1>3. U!CodePoints' = U!CodePoints
    BY DEF U!CodePoints, U!Starts, U!Sequence
  <1> QED
    BY <1>1, <1>2, <1>3 DEF Text

\* A cut that holds a place before the end holds the end of what starts there.
LEMMA CutGoes ==
    ASSUME Text, NEW b \in U!Cuts, NEW k \in b, k # Len(data)
    PROVE  k \in Nat /\ Goes(k) /\ k + Size(k) \in b
  <1>1. Len(data) \in Nat
    BY TextByte
  <1>2. k \in 0 .. Len(data)
    BY Zenon DEF U!Cuts
  <1>3. PICK m \in 1 .. 4 : U!Starts(k, m) /\ k + m \in b
    BY Zenon DEF U!Cuts
  <1>4. k \in Nat
    BY <1>1, <1>2
  <1>5. m = Size(k)
    BY <1>3, <1>4, SizeStarts, Zenon DEF Goes
  <1> QED
    BY <1>3, <1>4, <1>5, Zenon DEF Goes

\* The bytes that fuzz_decode_utf8 takes are bytes before the NUL.
LEMMA FollowsWithin ==
    ASSUME Text, position \in Nat, position < Len(data), NEW m \in 1 .. 4, U!Follows(m)
    PROVE  position + m <= Len(data)
  <1>1. Len(data) \in Nat
    BY TextByte
  <1>2. CASE m = 1
    BY <1>1, <1>2
  <1>3. CASE m > 1
    <2>1. m - 1 \in 1 .. m - 1 /\ position + (m - 1) \in Nat
      BY <1>3
    <2>2. U!Continues(U!At(data, position + (m - 1)))
      BY <2>1, Zenon DEF U!Follows
    <2>3. U!At(data, position + (m - 1)) # 0
      <3>1. ~ (0 \in 128 .. 191)
        OBVIOUS
      <3> QED
        BY <2>2, <3>1, Zenon DEF U!Continues
    <2>4. ~ (position + (m - 1) >= Len(data))
      BY <2>1, <2>3, TextByte
    <2> QED
      BY <1>1, <2>4
  <1> QED
    BY <1>2, <1>3

LEMMA InitUInv == U!Init => UInv
  <1> SUFFICES ASSUME U!Init
               PROVE  UInv
    OBVIOUS
  <1>1. PICK m \in 0 .. MaxBytes : data \in [1 .. m -> Bytes]
    BY Zenon DEF U!Init
  <1>2. MaxBytes \in Nat /\ Bytes \subseteq Byte
    BY ScansAssumption, Zenon DEF U!Utf8Limits, Byte
  <1>3. Text
    <2>1. m \in Nat
      BY <1>2
    <2>2. data \in [1 .. m -> Byte]
      BY <1>1, <1>2
    <2> QED
      BY <2>1, <2>2, SeqDef DEF Text
  <1>4. Len(data) \in Nat
    BY <1>3, TextByte
  <1>5. \A b \in U!Cuts : 0 \in b
    BY Zenon DEF U!Cuts
  <1>6. checked = 0 /\ position = 0 /\ valid = "open" /\ decoded = <<>>
    BY Zenon DEF U!Init
  <1>7. Passed({0})
    BY <1>6 DEF Passed
  <1>8. CheckInv
    BY <1>4, <1>5, <1>6, <1>7 DEF CheckInv
  <1>9. U!CodePoints[0] \in Seq(Int) /\ <<>> \in Seq(Int)
    BY <1>3, <1>4, CodesSeq
  <1>10. <<>> \o U!CodePoints[0] = U!CodePoints[0]
    BY <1>9, ConcatEmptySeq, Zenon
  <1>11. DecodeInv
    <2>1. 0 \in 0 .. Len(data)
      BY <1>4
    <2> QED
      BY <1>5, <1>6, <1>9, <1>10, <2>1, Zenon DEF DecodeInv
  <1> QED
    BY <1>3, <1>8, <1>11 DEF UInv

LEMMA NextCheckInv ==
    ASSUME UInv, U!Check \/ U!CheckEnds
    PROVE  CheckInv' /\ UNCHANGED <<data, position, decoded>>
  <1>1. data' = data /\ UNCHANGED <<data, position, decoded>>
    BY DEF U!Check, U!CheckEnds
  <1>2. /\ U!Cuts' = U!Cuts
        /\ \A k, m : U!Starts(k, m)' <=> U!Starts(k, m)
    BY <1>1, FixedData
  <1>3. Text /\ Len(data) \in Nat /\ checked \in 0 .. Len(data) /\ checked \in Nat
    BY TextByte DEF UInv, CheckInv
  <1>4. PICK b : Passed(b)
    BY DEF UInv, CheckInv
  <1>5. CASE U!Check /\ \E m \in 1 .. 4 : U!Admits(m)
    <2>1. PICK m \in 1 .. 4 : U!Admits(m) /\ checked' = checked + m
      BY <1>5, Zenon DEF U!Check
    <2>2. valid' = "open"
      BY <1>5 DEF U!Check
    <2>3. U!Starts(checked, m) /\ checked + m <= Len(data)
      BY <1>3, <2>1, AdmitsStarts, Zenon DEF U!Starts
    <2>4. \E d : Passed(d)'
      <3>0. PICK d : d = b \cup {checked + m}
        OBVIOUS
      <3>1. b \subseteq 0 .. checked /\ 0 \in b /\ checked \in b
        BY <1>4, Zenon DEF Passed
      <3>2. d \subseteq 0 .. checked + m
        BY <1>3, <3>0, <3>1
      <3>3. ASSUME NEW k \in d \ {checked + m}
            PROVE  \E l \in 1 .. 4 : U!Starts(k, l) /\ k + l \in d
        <4>1. CASE k = checked
          BY <4>1, <2>3, <3>0
        <4>2. CASE k # checked
          <5>1. k \in b \ {checked}
            BY <4>2, <3>0
          <5>2. \A y \in b \ {checked} : \E l \in 1 .. 4 : U!Starts(y, l) /\ y + l \in b
            BY <1>4, Zenon DEF Passed
          <5> QED
            BY <5>1, <5>2, <3>0
        <4> QED
          BY <4>1, <4>2
      <3>4. 0 \in d /\ checked + m \in d
        BY <3>0, <3>1
      <3>5. \A k \in d \ {checked + m} : \E l \in 1 .. 4 : U!Starts(k, l)' /\ k + l \in d
        BY <1>2, <3>3, Zenon
      <3>6. Passed(d)'
        BY <2>1, <3>2, <3>4, <3>5, Zenon DEF Passed
      <3> QED
        BY <3>6, Zenon
    <2>5. ASSUME NEW c \in U!Cuts
          PROVE  checked + m \in c
      <3>1. checked \in c
        BY DEF UInv, CheckInv
      <3>2. checked # Len(data)
        BY <1>3, <2>3
      <3>3. checked + Size(checked) \in c
        BY <1>3, <3>1, <3>2, CutGoes
      <3>4. m = Size(checked)
        BY <1>3, <2>3, SizeStarts, Zenon DEF Goes
      <3> QED
        BY <3>3, <3>4
    <2>6. checked' \in 0 .. Len(data)
      BY <1>3, <2>1, <2>3
    <2> QED
      BY <1>1, <1>2, <2>1, <2>2, <2>4, <2>5, <2>6 DEF CheckInv
  <1>6. CASE U!Check /\ ~ \E m \in 1 .. 4 : U!Admits(m)
    <2>1. valid' = "invalid" /\ checked' = checked /\ checked < Len(data)
      BY <1>6 DEF U!Check
    <2>2. U!Cuts = {}
      <3> SUFFICES ASSUME NEW c \in U!Cuts
                   PROVE  FALSE
        OBVIOUS
      <3>1. checked \in c /\ checked # Len(data)
        BY <2>1, <1>3 DEF UInv, CheckInv
      <3>2. Goes(checked)
        BY <1>3, <3>1, CutGoes
      <3> QED
        BY <3>2, <1>3, <1>6, AdmitsStarts, Zenon DEF Goes
    <2>3. Passed(b)'
      BY <1>2, <1>4, <2>1 DEF Passed
    <2> QED
      BY <1>1, <1>2, <1>3, <2>1, <2>2, <2>3 DEF CheckInv
  <1>7. CASE U!CheckEnds
    <2>1. valid' = "valid" /\ checked' = checked /\ checked = Len(data)
      BY <1>7 DEF U!CheckEnds
    <2>2. Passed(b)'
      BY <1>2, <1>4, <2>1 DEF Passed
    <2>3. \A c \in U!Cuts : checked \in c
      BY DEF UInv, CheckInv
    <2> QED
      BY <1>1, <1>2, <1>3, <2>1, <2>2, <2>3 DEF CheckInv
  <1> QED
    BY <1>5, <1>6, <1>7

LEMMA ConcatInts ==
    \A x, y, z \in Seq(Int) : (x \o y) \o z = x \o (y \o z)
  <1> SUFFICES ASSUME NEW x \in Seq(Int), NEW y \in Seq(Int), NEW z \in Seq(Int)
               PROVE  (x \o y) \o z = x \o (y \o z)
    OBVIOUS
  <1>1. \A S : \A d, e, g \in Seq(S) : (d \o e) \o g = d \o (e \o g)
    BY ConcatAssociative
  <1> QED
    BY <1>1

LEMMA NextDecodeInv ==
    ASSUME UInv, U!Decode
    PROVE  DecodeInv' /\ UNCHANGED <<data, checked, valid>>
  <1> DEFINE c == U!At(data, position)
             m == U!Announced(c)
  <1>1. UNCHANGED <<data, checked, valid>> /\ position < Len(data)
    BY DEF U!Decode
  <1>2. /\ U!Cuts' = U!Cuts /\ U!CodePoints' = U!CodePoints /\ (U!WellFormed' <=> U!WellFormed)
    BY <1>1, FixedData DEF U!WellFormed
  <1>3. Text /\ Len(data) \in Nat /\ position \in 0 .. Len(data) /\ position \in Nat
    BY TextByte DEF UInv, DecodeInv
  <1>4. m \in 1 .. 4
    BY DEF U!Announced
  <1>5. position' \in 0 .. Len(data)
    <2>1. CASE U!Follows(m)
      <3>1. position' = position + m
        BY <2>1, Zenon DEF U!Decode
      <3> HIDE DEF m, c
      <3>2. position + m <= Len(data)
        BY <1>1, <1>3, <1>4, <2>1, FollowsWithin, Zenon
      <3> QED
        BY <1>3, <1>4, <3>1, <3>2
    <2>2. CASE ~ U!Follows(m)
      <3>1. position' = position + 1
        BY <2>2, Zenon DEF U!Decode
      <3> QED
        BY <1>1, <1>3, <3>1
    <2> QED
      BY <2>1, <2>2
  <1>6. ASSUME NEW b \in U!Cuts
        PROVE  /\ Goes(position) /\ position + Size(position) \in b
               /\ position' = position + Size(position)
               /\ decoded' = Append(decoded, Point(position))
    <2>1. position \in b /\ position # Len(data)
      BY <1>1, <1>3 DEF UInv, DecodeInv
    <2>2. Goes(position) /\ position + Size(position) \in b
      BY <1>3, <2>1, CutGoes
    <2>3. Size(position) \in 1 .. 4 /\ U!Starts(position, Size(position))
      BY <1>3, <2>2, SizeStarts
    <2>4. Size(position) = m /\ U!Follows(Size(position))
      BY <1>3, <2>3, StartsAnnounced, Zenon DEF U!Follows
    <2>5. U!Shifted(c, m) = Point(position)
      BY <1>3, <2>3, <2>4, ShiftedValue, Zenon DEF Point
    <2>6. decoded' = Append(decoded, U!Shifted(c, m)) /\ position' = position + m
      BY <2>4, Zenon DEF U!Decode
    <2> QED
      BY <2>2, <2>4, <2>5, <2>6, Zenon
  <1>7. ASSUME U!WellFormed
        PROVE  /\ decoded' \in Seq(Int)
               /\ decoded' \o U!CodePoints[position'] = U!CodePoints[0]
    <2>1. PICK b : b \in U!Cuts
      BY <1>7 DEF U!WellFormed
    <2>2. /\ Goes(position) /\ position' = position + Size(position)
          /\ decoded' = Append(decoded, Point(position))
      BY <1>6, <2>1, Zenon
    <2>3. decoded \in Seq(Int) /\ decoded \o U!CodePoints[position] = U!CodePoints[0]
      BY <1>7 DEF UInv, DecodeInv
    <2> DEFINE x == Point(position)
               s == U!CodePoints[position']
    <2>4. x \in Int
      BY <1>3, <2>2, PointInt
    <2>5. U!CodePoints[position] = <<x>> \o s
      BY <1>3, <2>2, CodesStep
    <2>6. s \in Seq(Int)
      BY <1>3, <1>5, CodesSeq
    <2>8. decoded' = Append(decoded, x)
      BY <2>2
    <2> HIDE DEF x, s
    <2>7. <<x>> \in Seq(Int)
      BY <2>4
    <2>11. decoded' = decoded \o <<x>>
      BY <2>3, <2>4, <2>8, AppendIsConcat, Zenon
    <2>9. (decoded \o <<x>>) \o s = decoded \o (<<x>> \o s)
      BY <2>3, <2>6, <2>7, ConcatInts
    <2>10. decoded \o <<x>> \in Seq(Int)
      BY <2>3, <2>7, ConcatProperties, Zenon
    <2>12. decoded' \o s = U!CodePoints[0]
      BY <2>3, <2>5, <2>9, <2>11
    <2> QED
      BY <2>10, <2>11, <2>12 DEF s
  <1>8. \A b \in U!Cuts : position' \in b
    BY <1>6, Zenon
  <1> QED
    BY <1>1, <1>2, <1>5, <1>7, <1>8, Zenon DEF DecodeInv

LEMMA NextUInv == UInv /\ [U!Next]_utf8Vars => UInv'
  <1> SUFFICES ASSUME UInv, [U!Next]_utf8Vars
               PROVE  UInv'
    OBVIOUS
  <1>1. data' = data
    BY DEF U!Next, U!Check, U!CheckEnds, U!Decode, utf8Vars
  <1>2. /\ Text' /\ U!Cuts' = U!Cuts /\ U!CodePoints' = U!CodePoints
        /\ \A k, m : U!Starts(k, m)' <=> U!Starts(k, m)
    BY <1>1, FixedData DEF UInv
  <1>3. UNCHANGED <<data, checked, valid>> => CheckInv'
    <2> SUFFICES ASSUME UNCHANGED <<data, checked, valid>>
                 PROVE  CheckInv'
      OBVIOUS
    <2>1. CheckInv
      BY DEF UInv
    <2>2. \A b : Passed(b)' <=> Passed(b)
      BY <1>2 DEF Passed
    <2> QED
      BY <1>2, <2>1, <2>2 DEF CheckInv
  <1>4. UNCHANGED <<data, position, decoded>> => DecodeInv'
    BY <1>2 DEF UInv, DecodeInv, U!WellFormed
  <1>5. CASE U!Check \/ U!CheckEnds
    BY <1>2, <1>4, <1>5, NextCheckInv DEF UInv
  <1>6. CASE U!Decode
    BY <1>2, <1>3, <1>6, NextDecodeInv DEF UInv
  <1>7. CASE UNCHANGED utf8Vars
    BY <1>2, <1>3, <1>4, <1>7 DEF UInv, utf8Vars
  <1> QED
    BY <1>5, <1>6, <1>7 DEF U!Next

LEMMA UInvExactly == UInv => U!ExactlyUtf8
  <1> SUFFICES ASSUME UInv
               PROVE  U!ExactlyUtf8
    OBVIOUS
  <1>1. CASE valid = "valid"
    <2>1. PICK b : Passed(b) /\ checked = Len(data)
      BY <1>1 DEF UInv, CheckInv
    <2>2. b \in U!Cuts
      BY <2>1 DEF Passed, U!Cuts
    <2> QED
      BY <1>1, <2>2 DEF U!ExactlyUtf8, U!WellFormed
  <1>2. CASE valid # "valid"
    BY <1>2 DEF UInv, CheckInv, U!ExactlyUtf8, U!WellFormed
  <1> QED
    BY <1>1, <1>2

LEMMA UInvDecodes == UInv => U!DecodesUtf8
  <1> SUFFICES ASSUME UInv
               PROVE  U!DecodesUtf8
    OBVIOUS
  <1>1. Text /\ Len(data) \in Nat /\ position \in 0 .. Len(data)
    BY TextByte DEF UInv, DecodeInv
  <1>2. ASSUME position = Len(data), U!WellFormed
        PROVE  decoded = U!CodePoints[0]
    <2>1. decoded \in Seq(Int) /\ decoded \o U!CodePoints[position] = U!CodePoints[0]
      BY <1>2 DEF UInv, DecodeInv
    <2>2. ~ Goes(position)
      BY <1>1, <1>2, SizeStarts
    <2>3. U!CodePoints[position] = <<>>
      BY <1>1, <2>2, CodesStep
    <2>4. decoded \o <<>> = decoded
      BY <2>1, ConcatEmptySeq
    <2> QED
      BY <2>1, <2>3, <2>4
  <1> QED
    BY <1>1, <1>2 DEF U!DecodesUtf8

-----------------------------------------------------------------------------
(* A subject's invariant is one of the composition. *)

Utf8Inv == subject = "utf8" => UInv

LEMMA Utf8InvHolds == ScansSpec => []Utf8Inv
  <1>1. ScansInit => Utf8Inv
    BY InitUInv DEF ScansInit, Utf8Inv
  <1>2. Utf8Inv /\ [ScansNext]_allVars => Utf8Inv'
    <2> SUFFICES ASSUME Utf8Inv, [ScansNext]_allVars, subject' = "utf8"
                 PROVE  UInv'
      BY DEF Utf8Inv
    <2>1. subject' = subject
      BY DEF ScansNext, allVars
    <2>2. [U!Next]_utf8Vars
      BY <2>1 DEF ScansNext, allVars
    <2> QED
      BY <2>1, <2>2, NextUInv DEF Utf8Inv
  <1> QED
    BY <1>1, <1>2, PTL DEF ScansSpec

\* eval.c's eval_valid_utf8 admits exactly the strings that are UTF-8, of any
\* length: the bytes it asks for, one sequence at a time, are those of a
\* scalar value in its shortest form.
THEOREM Utf8Exact == ScansSpec => []ExactlyUtf8
  <1>1. Utf8Inv => ExactlyUtf8
    BY UInvExactly DEF Utf8Inv, ExactlyUtf8
  <1> QED
    BY <1>1, Utf8InvHolds, PTL

\* character.c's fuzz_decode_utf8, called over a whole string, reads the code
\* points of UTF-8 and never reads behind the NUL of any string.
THEOREM Utf8Decoded == ScansSpec => []DecodesUtf8
  <1>1. Utf8Inv => DecodesUtf8
    BY UInvDecodes DEF Utf8Inv, DecodesUtf8
  <1> QED
    BY <1>1, Utf8InvHolds, PTL

-----------------------------------------------------------------------------
(* The table that chartr() fills from a place on *)

Decoded == spec \in Seq(Nat)

\* What stands at k: a range of three characters or a single one, and what it
\* fills.
Ranged(k) == k + 3 <= Len(spec) /\ spec[k + 2] = C!Hyphen
Wide(k) == IF Ranged(k) THEN 3 ELSE 1
Fills(k) ==
    IF Ranged(k)
    THEN IF spec[k + 3] >= spec[k + 1] THEN spec[k + 3] - spec[k + 1] + 1 ELSE 0
    ELSE 1

LEMMA DecodedNat ==
    ASSUME Decoded
    PROVE  /\ Len(spec) \in Nat
           /\ \A k \in Nat : k < Len(spec) => spec[k + 1] \in Nat
  <1>1. Len(spec) \in Nat
    BY Zenon, LenProperties DEF Decoded
  <1>2. ASSUME NEW k \in Nat, k < Len(spec)
        PROVE  spec[k + 1] \in Nat
    <2>1. k + 1 \in 1 .. Len(spec)
      BY <1>1, <1>2
    <2> QED
      BY <2>1, ElementOfSeq, Zenon DEF Decoded
  <1> QED
    BY <1>1, <1>2

LEMMA IntervalSize ==
    \A x, y \in Int : Cardinality(x .. y) = IF x > y THEN 0 ELSE y - x + 1
  BY FS_Interval

LEMMA PieceFills ==
    ASSUME Decoded, NEW k \in Nat, k < Len(spec)
    PROVE  /\ Wide(k) \in {1, 3} /\ k + Wide(k) <= Len(spec)
           /\ Fills(k) \in Nat
           /\ Len(C!PieceAt(k)) = Wide(k)
           /\ Cardinality(C!Entries(C!PieceAt(k))) = Fills(k)
  <1> DEFINE w == Wide(k)
             s == C!PieceAt(k)
  <1>1. Len(spec) \in Nat
    BY DecodedNat
  <1>2. w \in {1, 3} /\ k + w <= Len(spec)
    BY <1>1 DEF Wide, Ranged
  <1>3. s = SubSeq(spec, k + 1, k + w)
    BY Zenon DEF C!PieceAt, Wide, Ranged
  <1> HIDE DEF s, w
  <1>4. Len(s) = w /\ \A l \in 1 .. w : s[l] = spec[k + l]
    <2>1. k + 1 \in Int /\ k + w \in Int /\ k + 1 <= k + w /\ k + w - (k + 1) + 1 = w
      BY <1>2
    <2>2. \A l \in k + 1 .. k + w : spec[l] \in Nat
      <3> SUFFICES ASSUME NEW l \in k + 1 .. k + w
                   PROVE  spec[l] \in Nat
        OBVIOUS
      <3>1. l - 1 \in Nat /\ l - 1 < Len(spec) /\ (l - 1) + 1 = l
        BY <1>1, <1>2
      <3>2. spec[(l - 1) + 1] \in Nat
        BY <3>1, DecodedNat
      <3> QED
        BY <3>1, <3>2
    <2>3. Len(s) = w /\ \A l \in 1 .. w : s[l] = spec[(k + 1) + l - 1]
      <3>1. PICK y \in Int, z \in Int : y = k + 1 /\ z = k + w
        BY <2>1
      <3>2. \A l \in y .. z : spec[l] \in Nat
        BY <2>2, <3>1
      <3>3. /\ Len(SubSeq(spec, y, z)) = IF y <= z THEN z - y + 1 ELSE 0
            /\ \A l \in 1 .. z - y + 1 : SubSeq(spec, y, z)[l] = spec[y + l - 1]
        BY <3>2, SubSeqProperties
      <3>4. s = SubSeq(spec, y, z)
        BY <1>3, <3>1, Zenon
      <3>5. z - y + 1 = w /\ y <= z
        BY <1>2, <2>1, <3>1
      <3>6. Len(s) = w /\ \A l \in 1 .. w : s[l] = spec[y + l - 1]
        BY <3>3, <3>4, <3>5, Zenon
      <3> QED
        BY <3>1, <3>6, Zenon
    <2>4. \A l \in 1 .. w : (k + 1) + l - 1 = k + l
      BY <1>2
    <2> QED
      BY <2>3, <2>4
  <1>5. spec[k + 1] \in Nat
    BY DecodedNat
  <1>6. CASE Ranged(k)
    <2>1. w = 3
      BY <1>6 DEF w, Wide
    <2>2. spec[k + 3] \in Nat
      <3>1. k + 2 \in Nat /\ k + 2 < Len(spec) /\ (k + 2) + 1 = k + 3
        BY <1>1, <1>2, <2>1
      <3>2. spec[(k + 2) + 1] \in Nat
        BY <3>1, DecodedNat
      <3> QED
        BY <3>1, <3>2
    <2>3. C!Entries(s) = spec[k + 1] .. spec[k + 3]
      <3>1. s[1] = spec[k + 1] /\ s[Len(s)] = spec[k + 3]
        BY <1>4, <2>1
      <3> QED
        BY <3>1 DEF C!Entries
    <2>4. Cardinality(C!Entries(s)) = IF spec[k + 1] > spec[k + 3] THEN 0
                                      ELSE spec[k + 3] - spec[k + 1] + 1
      <3>1. spec[k + 1] \in Int /\ spec[k + 3] \in Int
        BY <1>5, <2>2
      <3> QED
        BY <2>3, <3>1, IntervalSize, Zenon
    <2>5. Cardinality(C!Entries(s)) = Fills(k) /\ Fills(k) \in Nat
      BY <1>5, <1>6, <2>2, <2>4 DEF Fills
    <2> QED
      BY <1>2, <1>4, <2>5 DEF s, w
  <1>7. CASE ~ Ranged(k)
    <2>1. w = 1
      BY <1>7 DEF w, Wide
    <2>2. C!Entries(s) = spec[k + 1] .. spec[k + 1]
      <3>1. s[1] = spec[k + 1] /\ Len(s) = 1
        BY <1>4, <2>1
      <3> QED
        BY <3>1 DEF C!Entries
    <2>3. Cardinality(C!Entries(s)) = 1
      <3>1. spec[k + 1] \in Int
        BY <1>5
      <3>2. Cardinality(C!Entries(s)) = IF spec[k + 1] > spec[k + 1] THEN 0
                                        ELSE spec[k + 1] - spec[k + 1] + 1
        BY <2>2, <3>1, IntervalSize, Zenon
      <3> QED
        BY <3>1, <3>2
    <2>4. Fills(k) = 1
      BY <1>7 DEF Fills
    <2> QED
      BY <1>2, <1>4, <2>3, <2>4 DEF s, w
  <1> QED
    BY <1>6, <1>7

\* Table is well defined, by recursion from the end of the specification.
LEMMA TableDef ==
    ASSUME Decoded
    PROVE  C!Table = [k \in 0 .. Len(spec) |->
              IF k = Len(spec) THEN 0 ELSE Fills(k) + C!Table[k + Wide(k)]]
  <1> DEFINE Size0 == Len(spec)
             Count(k) == C!Cardinality(C!Entries(C!PieceAt(k)))
             Goto(k) == k + Len(C!PieceAt(k))
             Step(x, k) == IF k = Size0 THEN 0 ELSE Count(k) + x
             IsTable(a, m) == a = [k \in (Size0 - m) .. Size0 |-> Step(a[Goto(k)], k)]
             S == {m \in Nat : m <= Size0 => \E a : IsTable(a, m)}
  <1>1. Size0 \in Nat
    BY DecodedNat
  <1>2. \A k \in Nat : k < Size0 => /\ Goto(k) = k + Wide(k) /\ Count(k) = Fills(k)
                                    /\ Goto(k) > k /\ Goto(k) <= Size0
    <2> SUFFICES ASSUME NEW k \in Nat, k < Size0
                 PROVE  /\ Goto(k) = k + Wide(k) /\ Count(k) = Fills(k)
                        /\ Goto(k) > k /\ Goto(k) <= Size0
      OBVIOUS
    <2>1. \A s : C!Cardinality(s) = Cardinality(s)
      BY DEF C!Cardinality, Cardinality
    <2>2. /\ Wide(k) \in {1, 3} /\ k + Wide(k) <= Len(spec)
          /\ Len(C!PieceAt(k)) = Wide(k)
          /\ Cardinality(C!Entries(C!PieceAt(k))) = Fills(k)
      BY PieceFills
    <2> QED
      BY <1>1, <2>1, <2>2
  <1>3. \A x, y : Step(x, Size0) = Step(y, Size0)
    OBVIOUS
  <1> HIDE DEF Step, Size0, Goto
  <1>4. 0 \in S
    <2> DEFINE a == [k \in Size0 .. Size0 |-> Step(0, k)]
    <2>1. \A k \in Size0 .. Size0 : a[k] = Step(a[Goto(k)], k)
      BY <1>1, <1>3
    <2>2. a = [k \in (Size0 - 0) .. Size0 |-> a[k]]
      BY <1>1
    <2> HIDE DEF a
    <2>3. IsTable(a, 0)
      BY <1>1, <2>1, <2>2
    <2> QED
      BY <2>3
  <1>5. ASSUME NEW m \in Nat, m \in S
        PROVE  m + 1 \in S
    <2> SUFFICES ASSUME m + 1 <= Size0
                 PROVE  \E b : IsTable(b, m + 1)
      OBVIOUS
    <2>1. PICK a : IsTable(a, m)
      BY <1>1, <1>5
    <2> DEFINE l == Size0 - (m + 1)
               b == [k \in l .. Size0 |-> IF k = l THEN Step(a[Goto(k)], k) ELSE a[k]]
    <2>2. l \in Nat /\ l < Size0 /\ l + 1 = Size0 - m
      BY <1>1
    <2>3. \A k \in l + 1 .. Size0 : b[k] = a[k]
      BY <2>2, <1>1
    <2>4. b[l] = Step(a[Goto(l)], l)
      BY <2>2, <1>1
    <2>5. b = [k \in l .. Size0 |-> b[k]]
      OBVIOUS
    <2> HIDE DEF b, l
    <2>6. \A k \in l + 1 .. Size0 : a[k] = Step(a[Goto(k)], k)
      BY <2>1, <2>2
    <2>7. ASSUME NEW k \in l .. Size0
          PROVE  b[k] = Step(b[Goto(k)], k)
      <3>1. b[k] = Step(a[Goto(k)], k)
        BY <2>2, <2>3, <2>4, <2>6, <1>1
      <3>2. CASE k = Size0
        BY <3>1, <3>2, <1>3
      <3>3. CASE k # Size0
        <4>1. Goto(k) \in l + 1 .. Size0
          <5>1. k \in Nat /\ k < Size0
            BY <3>3, <2>2, <1>1
          <5>2. Goto(k) = k + Wide(k) /\ Goto(k) > k /\ Goto(k) <= Size0 /\ Wide(k) \in {1, 3}
            BY <5>1, <1>2, PieceFills DEF Size0
          <5> QED
            BY <5>1, <5>2, <2>2, <1>1
        <4> QED
          BY <4>1, <3>1, <2>3
      <3> QED
        BY <3>2, <3>3
    <2>8. IsTable(b, m + 1)
      BY <2>5, <2>7 DEF l
    <2> QED
      BY <2>8
  <1>6. Size0 \in S
    BY <1>1, <1>4, <1>5, SetInduction
  <1>7. C!Table = [k \in 0 .. Size0 |-> Step(C!Table[Goto(k)], k)]
    <2>1. \E a : a = [k \in 0 .. Size0 |-> Step(a[Goto(k)], k)]
      <3>1. PICK a : IsTable(a, Size0)
        BY <1>1, <1>6
      <3>2. Size0 - Size0 = 0
        BY <1>1
      <3> QED
        BY <3>1, <3>2
    <2> QED
      BY <2>1 DEF C!Table, Step, Size0, Goto
  <1>8. \A k \in 0 .. Size0 : Step(C!Table[Goto(k)], k)
           = IF k = Size0 THEN 0 ELSE Fills(k) + C!Table[k + Wide(k)]
    BY <1>1, <1>2 DEF Step
  <1> QED
    BY <1>7, <1>8 DEF Size0

LEMMA TableStep ==
    ASSUME Decoded, NEW k \in 0 .. Len(spec)
    PROVE  /\ k = Len(spec) => C!Table[k] = 0
           /\ k < Len(spec) => C!Table[k] = Fills(k) + C!Table[k + Wide(k)]
  <1> DEFINE Step(x) == IF x = Len(spec) THEN 0 ELSE Fills(x) + C!Table[x + Wide(x)]
  <1> HIDE DEF Step
  <1>1. C!Table = [x \in 0 .. Len(spec) |-> Step(x)]
    BY TableDef, Zenon DEF Step
  <1>2. C!Table[k] = Step(k)
    BY <1>1
  <1>3. k < Len(spec) => k # Len(spec)
    BY DecodedNat
  <1> QED
    BY <1>2, <1>3, Zenon DEF Step

LEMMA TableNat ==
    ASSUME Decoded
    PROVE  \A k \in 0 .. Len(spec) : C!Table[k] \in Nat
  <1> DEFINE IsNat(k) == C!Table[k] \in Nat
             S == {m \in Nat : \A k \in 0 .. Len(spec) : Len(spec) - m <= k => IsNat(k)}
  <1>1. Len(spec) \in Nat
    BY DecodedNat
  <1>2. IsNat(Len(spec))
    BY <1>1, TableStep
  <1>3. ASSUME NEW k \in 0 .. Len(spec), k < Len(spec)
        PROVE  /\ k + Wide(k) \in k + 1 .. Len(spec)
               /\ IsNat(k + Wide(k)) => IsNat(k)
    <2>1. Wide(k) \in {1, 3} /\ k + Wide(k) <= Len(spec) /\ Fills(k) \in Nat
      BY <1>3, PieceFills
    <2>2. C!Table[k] = Fills(k) + C!Table[k + Wide(k)]
      BY <1>3, TableStep
    <2> QED
      BY <1>1, <2>1, <2>2
  <1> HIDE DEF IsNat
  <1>4. 0 \in S
    BY <1>1, <1>2
  <1>5. ASSUME NEW m \in Nat, m \in S
        PROVE  m + 1 \in S
    <2> SUFFICES ASSUME NEW k \in 0 .. Len(spec), Len(spec) - (m + 1) <= k
                 PROVE  IsNat(k)
      OBVIOUS
    <2>1. CASE k = Len(spec)
      BY <1>2, <2>1
    <2>2. CASE k < Len(spec)
      <3>1. k + Wide(k) \in 0 .. Len(spec) /\ Len(spec) - m <= k + Wide(k)
        BY <1>1, <1>3, <2>2
      <3> QED
        BY <1>3, <1>5, <2>2, <3>1
    <2> QED
      BY <1>1, <2>1, <2>2
  <1>6. Len(spec) \in S
    BY <1>1, <1>4, <1>5, SetInduction
  <1> QED
    BY <1>1, <1>6 DEF IsNat

-----------------------------------------------------------------------------
(* The invariant of the chartr guard *)

AheadInv ==
    /\ Len(ahead) \in 0 .. 3 /\ ahead \in Seq(Nat)
    /\ at + Len(ahead) <= Len(spec)
    /\ \A l \in 1 .. Len(ahead) : ahead[l] = spec[at + l]

EntriesInv ==
    /\ at \in 0 .. Len(spec)
    /\ entries \in Nat
    /\ table \in {"open", "accepted", "excessive"}
    /\ entries + C!Table[at] = C!Table[0]
    /\ table = "accepted" => at = Len(spec)
    /\ table = "excessive" <=> entries > MaxTable

CInv == Decoded /\ AheadInv /\ EntriesInv

LEMMA FixedSpec ==
    ASSUME spec' = spec
    PROVE  C!Table' = C!Table /\ (Decoded' <=> Decoded)
  <1>1. C!Table' = C!Table
    BY DEF C!Table, C!PieceAt, C!Entries
  <1> QED
    BY <1>1 DEF Decoded

LEMMA InitCInv == C!Init => CInv
  <1> SUFFICES ASSUME C!Init
               PROVE  CInv
    OBVIOUS
  <1>1. PICK m \in 0 .. MaxLength : spec \in [1 .. m -> Characters]
    BY Zenon DEF C!Init
  <1>2. MaxLength \in Nat /\ Characters \subseteq Nat /\ MaxTable \in Nat
    BY ScansAssumption, Zenon DEF C!ChartrLimits
  <1>3. Decoded
    <2>1. m \in Nat
      BY <1>2
    <2>2. spec \in [1 .. m -> Nat]
      BY <1>1, <1>2
    <2> QED
      BY <2>1, <2>2, SeqDef DEF Decoded
  <1>4. at = 0 /\ ahead = <<>> /\ entries = 0 /\ table = "open"
    BY Zenon DEF C!Init
  <1>5. Len(spec) \in Nat /\ 0 \in 0 .. Len(spec)
    BY <1>3, DecodedNat
  <1>6. C!Table[0] \in Nat
    BY <1>3, <1>5, TableNat
  <1>7. AheadInv
    BY <1>4, <1>5 DEF AheadInv
  <1>8. EntriesInv
    BY <1>2, <1>4, <1>5, <1>6 DEF EntriesInv
  <1> QED
    BY <1>3, <1>7, <1>8 DEF CInv

\* What the inner loop has decoded when it ends shows whether a range is next.
LEMMA LookedPiece ==
    ASSUME CInv, C!Looked
    PROVE  /\ at \in Nat /\ at < Len(spec)
           /\ C!IsRange <=> Ranged(at)
           /\ ahead[1] = spec[at + 1]
           /\ C!IsRange => ahead[3] = spec[at + 3]
  <1>1. Decoded /\ AheadInv /\ at \in 0 .. Len(spec) /\ Len(spec) \in Nat
    BY DecodedNat DEF CInv, EntriesInv
  <1>0. C!Looked
    OBVIOUS
  <1>2. Len(ahead) \in 1 .. 3
    <2>1. Len(ahead) # 0
      BY <1>0, <1>1, EmptySeq DEF C!Looked, AheadInv
    <2> QED
      BY <1>1, <2>1 DEF AheadInv
  <1>3. at \in Nat /\ at < Len(spec)
    <2>1. at + Len(ahead) <= Len(spec)
      BY <1>1, Zenon DEF AheadInv
    <2>2. \A x \in 1 .. 3 : \A y, z \in Nat : y + x <= z => y < z
      OBVIOUS
    <2>3. at \in Nat
      BY <1>1
    <2> QED
      BY <1>1, <1>2, <2>1, <2>2, <2>3, Zenon
  <1>4. ahead[1] = spec[at + 1]
    <2>1. 1 \in 1 .. Len(ahead)
      BY <1>2
    <2> QED
      BY <1>1, <2>1, Zenon DEF AheadInv
  <1>5. CASE Len(ahead) = 3
    <2>1. 2 \in 1 .. Len(ahead) /\ 3 \in 1 .. Len(ahead)
      BY <1>5
    <2>2. ahead[2] = spec[at + 2] /\ ahead[3] = spec[at + 3]
      BY <1>1, <2>1, Zenon DEF AheadInv
    <2>3. at + 3 <= Len(spec)
      BY <1>1, <1>5 DEF AheadInv
    <2> QED
      BY <1>3, <1>4, <1>5, <2>2, <2>3 DEF C!IsRange, Ranged
  <1>6. CASE Len(ahead) # 3
    <2>1. at + Len(ahead) = Len(spec)
      BY <1>0, <1>6 DEF C!Looked
    <2>2. ~ (at + 3 <= Len(spec))
      <3>1. \A x \in 1 .. 3 : \A y, z \in Nat : x # 3 /\ y + x = z => ~ (y + 3 <= z)
        OBVIOUS
      <3> QED
        BY <1>1, <1>2, <1>3, <1>6, <2>1, <3>1, Zenon
    <2> QED
      BY <1>3, <1>4, <1>6, <2>2 DEF C!IsRange, Ranged
  <1> QED
    BY <1>5, <1>6

\* What Range and Single count is what the next piece fills.
LEMMA TakePiece ==
    ASSUME CInv, C!Looked, C!Take(Wide(at), Fills(at))
    PROVE  CInv'
  <1>1. Decoded /\ at \in Nat /\ at \in 0 .. Len(spec) /\ at < Len(spec)
    BY LookedPiece DEF CInv, EntriesInv
  <1>2. /\ Len(spec) \in Nat /\ Wide(at) \in {1, 3} /\ at + Wide(at) <= Len(spec)
        /\ Fills(at) \in Nat
    BY <1>1, DecodedNat, PieceFills
  <1>3. /\ at' = at + Wide(at) /\ entries' = entries + Fills(at) /\ ahead' = <<>> /\ spec' = spec
        /\ table' = IF entries' > MaxTable THEN "excessive" ELSE table
    BY DEF C!Take
  <1>4. C!Table' = C!Table /\ Decoded'
    BY <1>1, <1>3, FixedSpec
  <1>5. table = "open" /\ entries \in Nat /\ entries + C!Table[at] = C!Table[0]
    BY DEF CInv, EntriesInv, C!Looked
  <1>6. C!Table[at] = Fills(at) + C!Table[at + Wide(at)]
    BY <1>1, TableStep
  <1>7. at + Wide(at) \in 0 .. Len(spec)
    BY <1>1, <1>2
  <1>8. C!Table[at + Wide(at)] \in Nat
    BY <1>1, <1>7, TableNat
  <1>9. entries' + C!Table[at'] = C!Table[0]
    BY <1>2, <1>3, <1>5, <1>6, <1>8
  <1>10. EntriesInv'
    BY <1>2, <1>3, <1>4, <1>5, <1>7, <1>9 DEF EntriesInv
  <1>11. AheadInv'
    BY <1>2, <1>3, <1>7 DEF AheadInv
  <1> QED
    BY <1>4, <1>10, <1>11 DEF CInv

LEMMA NextCInv == CInv /\ [C!Next]_tableVars => CInv'
  <1> SUFFICES ASSUME CInv, [C!Next]_tableVars
               PROVE  CInv'
    OBVIOUS
  <1>1. Decoded /\ AheadInv /\ EntriesInv /\ Len(spec) \in Nat
    BY DecodedNat DEF CInv
  <1>2. UNCHANGED <<spec, at, entries, table>> => EntriesInv'
    BY <1>1, FixedSpec DEF EntriesInv
  <1>3. CASE C!LookAhead
    <2>1. /\ UNCHANGED <<spec, at, entries, table>>
          /\ Len(ahead) < 3 /\ at + Len(ahead) < Len(spec)
          /\ ahead' = Append(ahead, spec[at + Len(ahead) + 1])
      BY <1>3 DEF C!LookAhead
    <2> DEFINE x == spec[at + Len(ahead) + 1]
    <2>2. at + Len(ahead) \in Nat /\ ahead \in Seq(Nat)
      BY <1>1 DEF AheadInv, EntriesInv
    <2>3. x \in Nat
      BY <1>1, <2>1, <2>2, DecodedNat
    <2>4. ahead' = Append(ahead, x)
      BY <2>1
    <2>5. x = spec[at + (Len(ahead) + 1)]
      <3>1. at + Len(ahead) + 1 = at + (Len(ahead) + 1)
        BY <1>1 DEF AheadInv, EntriesInv
      <3> QED
        BY <3>1
    <2> HIDE DEF x
    <2>6. /\ ahead' \in Seq(Nat) /\ Len(ahead') = Len(ahead) + 1
          /\ \A l \in 1 .. Len(ahead) : ahead'[l] = ahead[l]
          /\ ahead'[Len(ahead) + 1] = x
      BY <2>2, <2>3, <2>4, AppendProperties
    <2>7. AheadInv'
      <3>1. \A l \in 1 .. Len(ahead) + 1 : l \in 1 .. Len(ahead) \/ l = Len(ahead) + 1
        BY <1>1 DEF AheadInv
      <3>2. \A l \in 1 .. Len(ahead') : ahead'[l] = spec[at + l]
        BY <1>1, <2>5, <2>6, <3>1 DEF AheadInv
      <3>3. Len(ahead') \in 0 .. 3 /\ at + Len(ahead') <= Len(spec)
        BY <1>1, <2>1, <2>6 DEF AheadInv, EntriesInv
      <3> QED
        BY <2>1, <2>6, <3>2, <3>3 DEF AheadInv
    <2> QED
      BY <1>1, <1>2, <2>1, <2>7, FixedSpec DEF CInv
  <1>4. CASE C!Range
    <2>1. C!Looked /\ C!IsRange
      BY <1>4 DEF C!Range
    <2>2. /\ Ranged(at) /\ ahead[1] = spec[at + 1] /\ ahead[3] = spec[at + 3]
      BY <2>1, LookedPiece
    <2>3. Wide(at) = 3
      BY <2>2 DEF Wide
    <2>4. Fills(at) = IF ahead[3] >= ahead[1] THEN ahead[3] - ahead[1] + 1 ELSE 0
      BY <2>2 DEF Fills
    <2>5. C!Take(Wide(at), Fills(at))
      BY <1>4, <2>3, <2>4 DEF C!Range
    <2> QED
      BY <2>1, <2>5, TakePiece
  <1>5. CASE C!Single
    <2>1. C!Looked /\ ~ C!IsRange
      BY <1>5 DEF C!Single
    <2>2. ~ Ranged(at)
      BY <2>1, LookedPiece
    <2>3. Wide(at) = 1 /\ Fills(at) = 1
      BY <2>2 DEF Wide, Fills
    <2>4. C!Take(Wide(at), Fills(at))
      BY <1>5, <2>3 DEF C!Single
    <2> QED
      BY <2>1, <2>4, TakePiece
  <1>6. CASE C!Accept
    <2>1. /\ UNCHANGED <<spec, at, ahead, entries>> /\ at = Len(spec)
          /\ table = "open" /\ table' = "accepted"
      BY <1>6 DEF C!Accept
    <2> QED
      BY <1>1, <2>1, FixedSpec DEF CInv, AheadInv, EntriesInv
  <1>7. CASE UNCHANGED tableVars
    BY <1>1, <1>7, FixedSpec DEF CInv, AheadInv, EntriesInv, tableVars
  <1> QED
    BY <1>3, <1>4, <1>5, <1>6, <1>7 DEF C!Next

LEMMA CInvCounts == CInv => C!CountsEveryEntry
  <1> SUFFICES ASSUME CInv
               PROVE  C!CountsEveryEntry
    OBVIOUS
  <1>1. Decoded /\ Len(spec) \in Nat /\ at \in 0 .. Len(spec) /\ entries \in Nat
    BY DecodedNat DEF CInv, EntriesInv
  <1>2. C!Table[at] \in Nat /\ C!Table[Len(spec)] = 0
    BY <1>1, TableNat, TableStep
  <1>3. entries + C!Table[at] = C!Table[0] /\ MaxTable \in Nat
    BY ScansAssumption DEF CInv, EntriesInv, C!ChartrLimits
  <1>4. table = "accepted" => at = Len(spec) /\ entries <= MaxTable
    BY <1>1, <1>3 DEF CInv, EntriesInv
  <1>5. table = "excessive" => entries > MaxTable
    BY DEF CInv, EntriesInv
  <1> QED
    BY <1>1, <1>2, <1>3, <1>4, <1>5 DEF C!CountsEveryEntry

TableInv == subject = "table" => CInv

LEMMA TableInvHolds == ScansSpec => []TableInv
  <1>1. ScansInit => TableInv
    BY InitCInv DEF ScansInit, TableInv
  <1>2. TableInv /\ [ScansNext]_allVars => TableInv'
    <2> SUFFICES ASSUME TableInv, [ScansNext]_allVars, subject' = "table"
                 PROVE  CInv'
      BY DEF TableInv
    <2>1. subject' = subject
      BY DEF ScansNext, allVars
    <2>2. [C!Next]_tableVars
      BY <2>1 DEF ScansNext, allVars
    <2> QED
      BY <2>1, <2>2, NextCInv DEF TableInv
  <1> QED
    BY <1>1, <1>2, PTL DEF ScansSpec

\* character.c's fuzz_chartr_table_excessive, over a specification of any
\* length, refuses it exactly when the table that chartr() fills is larger
\* than the limit.
THEOREM TableCounted == ScansSpec => []CountsEveryEntry
  <1>1. TableInv => CountsEveryEntry
    BY CInvCounts DEF TableInv, CountsEveryEntry
  <1> QED
    BY <1>1, TableInvHolds, PTL

-----------------------------------------------------------------------------
(* Lines joined by newlines *)

IsUpto(f, s, m) ==
    f = [k \in 1 .. m |-> IF k = 1 THEN s[1] ELSE f[k - 1] \o <<L!Newline>> \o s[k]]

LEMMA UptoExists ==
    ASSUME NEW s, NEW m \in Nat
    PROVE  \E f : IsUpto(f, s, m)
  <1> DEFINE Step(x, k) == IF k = 1 THEN s[1] ELSE x \o <<L!Newline>> \o s[k]
             Is(f, l) == f = [k \in 1 .. l |-> Step(f[k - 1], k)]
             S == {l \in Nat : \E f : Is(f, l)}
  <1>1. \A x, y : Step(x, 1) = Step(y, 1)
    OBVIOUS
  <1> HIDE DEF Step
  <1>2. 0 \in S
    <2>1. Is([k \in 1 .. 0 |-> 0], 0)
      OBVIOUS
    <2> QED
      BY <2>1
  <1>3. ASSUME NEW l \in Nat, l \in S
        PROVE  l + 1 \in S
    <2>1. PICK f : Is(f, l)
      BY <1>3
    <2> DEFINE g == [k \in 1 .. l + 1 |-> IF k = l + 1 THEN Step(f[l], l + 1) ELSE f[k]]
    <2>2. \A k \in 1 .. l : g[k] = f[k]
      OBVIOUS
    <2>3. g[l + 1] = Step(f[l], l + 1)
      OBVIOUS
    <2>4. g = [k \in 1 .. l + 1 |-> g[k]]
      OBVIOUS
    <2> HIDE DEF g
    <2>5. \A k \in 1 .. l : f[k] = Step(f[k - 1], k)
      BY <2>1
    <2>6. ASSUME NEW k \in 1 .. l + 1
          PROVE  g[k] = Step(g[k - 1], k)
      <3>1. CASE k = l + 1 /\ l = 0
        BY <3>1, <2>3, <1>1
      <3>2. CASE k = l + 1 /\ l # 0
        <4>1. k - 1 = l /\ l \in 1 .. l
          BY <3>2
        <4> QED
          BY <3>2, <4>1, <2>2, <2>3
      <3>3. CASE k # l + 1 /\ k = 1
        <4>1. k \in 1 .. l
          BY <3>3
        <4> QED
          BY <3>3, <4>1, <2>2, <2>5, <1>1
      <3>4. CASE k # l + 1 /\ k # 1
        <4>1. k \in 1 .. l /\ k - 1 \in 1 .. l
          BY <3>4
        <4> QED
          BY <4>1, <2>2, <2>5
      <3> QED
        BY <3>1, <3>2, <3>3, <3>4
    <2>7. Is(g, l + 1)
      BY <2>4, <2>6
    <2> QED
      BY <2>7
  <1>4. m \in S
    BY <1>2, <1>3, SetInduction
  <1> QED
    BY <1>4 DEF IsUpto, Step

LEMMA JoinedUpto ==
    ASSUME NEW s, Len(s) \in Nat
    PROVE  \E f : IsUpto(f, s, Len(s)) /\ L!Joined(s) = f[Len(s)]
  <1> DEFINE f == CHOOSE g : IsUpto(g, s, Len(s))
  <1>1. IsUpto(f, s, Len(s))
    BY UptoExists, Zenon
  <1>2. L!Joined(s) = f[Len(s)]
    BY Zenon DEF L!Joined, IsUpto
  <1> QED
    BY <1>1, <1>2, Zenon

LEMMA UptoSame ==
    \A f, g, s, d : \A l, m \in Nat :
        /\ l <= m
        /\ \A k \in 1 .. l : s[k] = d[k]
        /\ IsUpto(f, s, l) /\ IsUpto(g, d, m)
        => \A k \in 1 .. l : f[k] = g[k]
  <1> SUFFICES ASSUME NEW f, NEW g, NEW s, NEW d, NEW l \in Nat, NEW m \in Nat,
                      l <= m, \A k \in 1 .. l : s[k] = d[k],
                      IsUpto(f, s, l), IsUpto(g, d, m)
               PROVE  \A k \in 1 .. l : f[k] = g[k]
    OBVIOUS
  <1> DEFINE Step(x, y, k) == IF k = 1 THEN y ELSE x \o <<L!Newline>> \o y
             S == {k \in Nat : k \in 1 .. l => f[k] = g[k]}
  <1>1. /\ f = [k \in 1 .. l |-> Step(f[k - 1], s[k], k)]
        /\ g = [k \in 1 .. m |-> Step(g[k - 1], d[k], k)]
    BY DEF IsUpto
  <1>2. \A x, y, z : Step(x, z, 1) = Step(y, z, 1)
    OBVIOUS
  <1> HIDE DEF Step
  <1>3. \A k \in 1 .. l : f[k] = Step(f[k - 1], s[k], k) /\ g[k] = Step(g[k - 1], s[k], k)
    <2>1. \A k \in 1 .. l : f[k] = Step(f[k - 1], s[k], k)
      BY <1>1
    <2>2. \A k \in 1 .. m : g[k] = Step(g[k - 1], d[k], k)
      BY <1>1
    <2>3. \A k \in 1 .. l : k \in 1 .. m /\ d[k] = s[k]
      OBVIOUS
    <2> QED
      BY <2>1, <2>2, <2>3, Zenon
  <1>4. 0 \in S
    OBVIOUS
  <1>5. ASSUME NEW k \in Nat, k \in S
        PROVE  k + 1 \in S
    <2> SUFFICES ASSUME k + 1 \in 1 .. l
                 PROVE  f[k + 1] = g[k + 1]
      OBVIOUS
    <2>1. CASE k = 0
      BY <1>2, <1>3, <2>1
    <2>2. CASE k # 0
      <3>1. k \in 1 .. l /\ (k + 1) - 1 = k
        BY <2>2
      <3> QED
        BY <1>3, <1>5, <3>1
    <2> QED
      BY <2>1, <2>2
  <1>6. Nat \subseteq S
    BY <1>4, <1>5, SetInduction
  <1> QED
    BY <1>6

\* A line more.
LEMMA JoinedAppend ==
    ASSUME NEW s \in Seq(Seq(Nat)), NEW x \in Seq(Nat)
    PROVE  /\ s = <<>> => L!Joined(Append(s, x)) = x
           /\ s # <<>> => L!Joined(Append(s, x)) = L!Joined(s) \o <<L!Newline>> \o x
  <1> DEFINE l == Len(s)
             d == Append(s, x)
  <1>1. /\ l \in Nat /\ Len(d) = l + 1 /\ d[l + 1] = x
        /\ \A k \in 1 .. l : s[k] = d[k]
    BY AppendProperties, LenProperties
  <1>2. s = <<>> <=> l = 0
    BY EmptySeq
  <1> HIDE DEF l, d
  <1>3. PICK g : IsUpto(g, d, l + 1) /\ L!Joined(d) = g[l + 1]
    BY <1>1, JoinedUpto
  <1>4. \A k \in 1 .. l + 1 : g[k] = IF k = 1 THEN d[1] ELSE g[k - 1] \o <<L!Newline>> \o d[k]
    BY <1>3 DEF IsUpto
  <1>5. CASE l = 0
    <2>1. g[1] = d[1]
      BY <1>1, <1>4, <1>5
    <2> QED
      BY <1>1, <1>2, <1>3, <1>5, <2>1 DEF d
  <1>6. CASE l # 0
    <2>1. PICK f : IsUpto(f, s, l) /\ L!Joined(s) = f[l]
      BY <1>1, JoinedUpto DEF l
    <2>2. f[l] = g[l]
      <3>1. \A k \in 1 .. l : f[k] = g[k]
        <4>1. l + 1 \in Nat /\ l <= l + 1
          BY <1>1
        <4>2. PICK m \in Nat : m = l + 1
          BY <4>1
        <4>3. IsUpto(g, d, m) /\ l <= m
          BY <1>3, <4>1, <4>2
        <4>4. l \in Nat /\ \A k \in 1 .. l : s[k] = d[k]
          BY <1>1
        <4> QED
          BY <2>1, <4>3, <4>4, UptoSame, SMT
      <3>2. l \in 1 .. l
        BY <1>1, <1>6
      <3> QED
        BY <3>1, <3>2
    <2>3. g[l + 1] = g[l] \o <<L!Newline>> \o x
      <3>1. l + 1 \in 1 .. l + 1 /\ l + 1 # 1 /\ (l + 1) - 1 = l
        BY <1>1, <1>6
      <3> QED
        BY <1>1, <1>4, <3>1, Zenon
    <2> QED
      BY <1>2, <1>3, <1>6, <2>1, <2>2, <2>3 DEF d
  <1> QED
    BY <1>5, <1>6

\* What lies before a newline, the newline, and what follows it.
LEMMA SubSeqAround ==
    ASSUME NEW s \in Seq(Nat), NEW k \in 1 .. Len(s), NEW e \in k .. Len(s)
    PROVE  SubSeq(s, 1, k - 1) \o <<s[k]>> \o SubSeq(s, k + 1, e) = SubSeq(s, 1, e)
  <1>1. Len(s) \in Nat
    BY LenProperties
  <1>2. SubSeq(s, 1, k) = SubSeq(s, 1, k - 1) \o <<s[k]>>
    <2>1. 1 \in 1 .. Len(s) /\ k \in 1 .. Len(s)
      BY <1>1
    <2> QED
      BY <2>1, SubSeqRecursiveSecond
  <1>3. SubSeq(s, 1, k) \o SubSeq(s, k + 1, e) = SubSeq(s, 1, e)
    <2>1. 1 \in 1 .. Len(s) + 1 /\ k \in 1 - 1 .. Len(s)
      BY <1>1
    <2> QED
      BY <2>1, ConcatAdjacentSubSeq
  <1> QED
    BY <1>2, <1>3

-----------------------------------------------------------------------------
(* The invariant of the line splitting *)

\* The newlines that the counting loop has passed.
Before == {k \in 0 .. scanned - 1 : input[k + 1] = L!Newline}

Holds(s) == \E c \in 1 .. Len(s) : s[c] = L!Newline

CountInv ==
    splitting = "count" =>
        /\ scanned \in 0 .. Len(input) /\ n \in 1 .. MaxLines
        /\ start = 0 /\ lines = <<>>
        /\ Cardinality(Before) = n - 1

\* What the lines of the vector stand for, and the newlines left for the rest.
JoinedInv ==
    /\ lines = <<>> => start = 0
    /\ lines # <<>> /\ Len(lines) < n =>
           /\ start \in 1 .. Len(input) /\ input[start] = L!Newline
           /\ L!Joined(lines) = SubSeq(input, 1, start - 1)
    /\ Len(lines) = n => L!Joined(lines) = input

RestInv ==
    Len(lines) < n =>
        /\ Cardinality(L!Newlines) >= n - 1 - Len(lines)
        /\ n < MaxLines => Cardinality(L!Newlines) = n - 1 - Len(lines)

HoldsInv == \A k \in 1 .. Len(lines) : Holds(lines[k]) => k = n /\ n = MaxLines

FillTypes ==
    /\ n \in 1 .. MaxLines /\ start \in 0 .. Len(input)
    /\ lines \in Seq(Seq(Nat)) /\ Len(lines) \in 0 .. n

FillInv == splitting = "fill" => FillTypes /\ JoinedInv /\ RestInv /\ HoldsInv

RunInv ==
    splitting = "run" =>
        /\ L!Joined(held) = input
        /\ \A k \in 1 .. Len(held) : Holds(held[k]) => k = Len(held) /\ k = MaxLines

LInv ==
    /\ input \in Seq(Nat)
    /\ splitting \in {"idle", "count", "fill", "run"}
    /\ CountInv /\ FillInv /\ RunInv

\* A set of places in the input is finite.
LEMMA PlacesFinite ==
    ASSUME NEW z \in Int, NEW S \in SUBSET (0 .. z)
    PROVE  IsFiniteSet(S) /\ Cardinality(S) \in Nat
  <1>1. IsFiniteSet(0 .. z)
    BY FS_Interval
  <1>2. IsFiniteSet(S)
    BY <1>1, FS_Subset
  <1> QED
    BY <1>2, FS_CardinalityType

LEMMA InputNat ==
    ASSUME input \in Seq(Nat)
    PROVE  Len(input) \in Nat /\ \A k \in 1 .. Len(input) : input[k] \in Nat
  <1>1. Len(input) \in Nat
    BY LenProperties, Zenon
  <1>2. \A k \in 1 .. Len(input) : input[k] \in Nat
    BY ElementOfSeq, Zenon
  <1> QED
    BY <1>1, <1>2

LEMMA BeginLInv == LInv /\ L!Begin => LInv'
  <1> SUFFICES ASSUME LInv, L!Begin
               PROVE  LInv'
    OBVIOUS
  <1>1. /\ input' \in L!Inputs /\ splitting' = "count"
        /\ scanned' = 0 /\ n' = 1 /\ start' = 0 /\ lines' = <<>>
    BY DEF L!Begin
  <1>2. MaxInput \in Nat /\ MaxLines \in Nat \ {0}
    BY ScansAssumption, Zenon DEF L!LineLimits
  <1>3. input' \in Seq(Nat)
    <2>1. PICK m \in 0 .. MaxInput : input' \in [1 .. m -> {L!Newline, L!Letter}]
      BY <1>1, Zenon DEF L!Inputs
    <2>2. m \in Nat /\ L!Newline \in Nat /\ L!Letter \in Nat
      BY <1>2 DEF L!Newline, L!Letter
    <2>3. input' \in [1 .. m -> Nat]
      BY <2>1, <2>2
    <2> QED
      BY <2>2, <2>3, SeqDef
  <1>4. Len(input') \in Nat
    BY <1>3, LenProperties, Zenon
  <1>5. Before' = {}
    BY <1>1 DEF Before
  <1>6. CountInv'
    BY <1>1, <1>2, <1>4, <1>5, FS_EmptySet DEF CountInv
  <1> QED
    BY <1>1, <1>3, <1>6 DEF LInv, FillInv, RunInv

LEMMA CountLInv == LInv /\ L!Count => LInv'
  <1> SUFFICES ASSUME LInv, L!Count
               PROVE  LInv'
    OBVIOUS
  <1>1. /\ splitting = "count" /\ scanned < Len(input) /\ n < MaxLines
        /\ n' = IF input[scanned + 1] = L!Newline THEN n + 1 ELSE n
        /\ scanned' = scanned + 1
        /\ UNCHANGED <<input, splitting, start, lines, held>>
    BY DEF L!Count
  <1>2. /\ scanned \in 0 .. Len(input) /\ n \in 1 .. MaxLines
        /\ start = 0 /\ lines = <<>>
        /\ Cardinality(Before) = n - 1
    BY <1>1 DEF LInv, CountInv
  <1>3. Len(input) \in Nat /\ MaxLines \in Nat
    BY ScansAssumption, InputNat DEF LInv, L!LineLimits
  <1>4. IsFiniteSet(Before) /\ ~ (scanned \in Before)
    <2>1. Before \in SUBSET (0 .. scanned - 1) /\ ~ (scanned \in 0 .. scanned - 1)
      BY <1>2, <1>3 DEF Before
    <2>2. scanned - 1 \in Int
      BY <1>2, <1>3
    <2> QED
      BY <2>1, <2>2, PlacesFinite
  <1>5. Before' = IF input[scanned + 1] = L!Newline THEN Before \cup {scanned} ELSE Before
    <2>1. 0 .. scanned' - 1 = (0 .. scanned - 1) \cup {scanned}
      BY <1>1, <1>2, <1>3
    <2>2. Before' = {k \in (0 .. scanned - 1) \cup {scanned} : input[k + 1] = L!Newline}
      BY <1>1, <2>1, Zenon DEF Before
    <2> QED
      BY <2>2 DEF Before
  <1>6. Cardinality(Before') = n' - 1
    <2>1. Cardinality(Before \cup {scanned}) = Cardinality(Before) + 1
      BY <1>4, FS_AddElement
    <2> QED
      BY <1>1, <1>2, <1>3, <1>5, <2>1
  <1>7. CountInv'
    BY <1>1, <1>2, <1>3, <1>6 DEF CountInv
  <1> QED
    BY <1>1, <1>7 DEF LInv, FillInv, RunInv

LEMMA CountedLInv == LInv /\ L!Counted => LInv'
  <1> SUFFICES ASSUME LInv, L!Counted
               PROVE  LInv'
    OBVIOUS
  <1>1. /\ splitting = "count" /\ splitting' = "fill" /\ ~ (scanned < Len(input) /\ n < MaxLines)
        /\ UNCHANGED <<input, scanned, n, start, lines, held>>
    BY DEF L!Counted
  <1>2. /\ scanned \in 0 .. Len(input) /\ n \in 1 .. MaxLines
        /\ start = 0 /\ lines = <<>>
        /\ Cardinality(Before) = n - 1
    BY <1>1 DEF LInv, CountInv
  <1>3. Len(input) \in Nat /\ MaxLines \in Nat
    BY ScansAssumption, InputNat DEF LInv, L!LineLimits
  <1>4. Len(lines) = 0 /\ lines \in Seq(Seq(Nat))
    BY <1>2, EmptySeq
  <1>5. L!Newlines = {k \in 0 .. Len(input) - 1 : input[k + 1] = L!Newline}
    BY <1>2 DEF L!Newlines
  <1>6. Cardinality(L!Newlines) >= n - 1
    <2>1. L!Newlines \in SUBSET (0 .. Len(input) - 1) /\ Len(input) - 1 \in Int
      BY <1>3, <1>5
    <2>2. Before \in SUBSET L!Newlines
      <3>1. 0 .. scanned - 1 \subseteq 0 .. Len(input) - 1
        BY <1>2, <1>3
      <3> QED
        BY <1>5, <3>1 DEF Before
    <2>3. IsFiniteSet(L!Newlines) /\ Cardinality(L!Newlines) \in Nat
      BY <2>1, PlacesFinite
    <2>4. Cardinality(Before) <= Cardinality(L!Newlines)
      BY <2>2, <2>3, FS_Subset
    <2> QED
      BY <1>2, <1>3, <2>3, <2>4
  <1>7. n < MaxLines => Cardinality(L!Newlines) = n - 1
    <2> SUFFICES ASSUME n < MaxLines
                 PROVE  Cardinality(L!Newlines) = n - 1
      OBVIOUS
    <2>1. scanned = Len(input)
      BY <1>1, <1>2, <1>3
    <2> QED
      BY <1>2, <1>5, <2>1 DEF Before
  <1>8. FillInv'
    <2>1. L!Newlines' = L!Newlines
      BY <1>1 DEF L!Newlines
    <2>2. FillTypes'
      BY <1>1, <1>2, <1>3, <1>4 DEF FillTypes
    <2>3. JoinedInv'
      BY <1>1, <1>2, <1>3, <1>4 DEF JoinedInv
    <2>4. RestInv'
      BY <1>1, <1>2, <1>3, <1>4, <1>6, <1>7, <2>1 DEF RestInv
    <2>5. HoldsInv'
      BY <1>1, <1>4 DEF HoldsInv
    <2> QED
      BY <2>2, <2>3, <2>4, <2>5 DEF FillInv
  <1> QED
    BY <1>1, <1>8 DEF LInv, CountInv, RunInv

LEMMA SmallestPlace ==
    ASSUME NEW S \in SUBSET Nat, S # {}
    PROVE  \E k \in S : \A l \in S : k <= l
  <1> DEFINE Less == OpToRel(<, Nat)
  <1>1. IsWellFoundedOn(Less, Nat)
    BY NatLessThanWellFounded, Zenon
  <1> HIDE DEF Less
  <1>2. PICK x \in S : \A y \in S : ~ (<<y, x>> \in Less)
    BY <1>1, WFMin
  <1>3. \A y \in S : y < x => <<y, x>> \in Less
    BY DEF Less, OpToRel
  <1>4. \A y \in S : ~ (y < x)
    BY <1>2, <1>3, Zenon
  <1>5. \A y \in S : x \in Nat /\ y \in Nat
    OBVIOUS
  <1>6. \A y \in S : x <= y
    BY <1>4, <1>5
  <1> QED
    BY <1>6

\* A line that ends at e, and what the vector stands for with it.
LEMMA LineJoined ==
    ASSUME LInv, FillTypes, JoinedInv, Len(lines) < n, NEW e \in start .. Len(input)
    PROVE  LET s == SubSeq(input, start + 1, e)
           IN  /\ s \in Seq(Nat)
               /\ Holds(s) <=> \E k \in start .. e - 1 : input[k + 1] = L!Newline
               /\ L!Joined(Append(lines, s)) = SubSeq(input, 1, e)
  <1> DEFINE s == SubSeq(input, start + 1, e)
  <1>1. /\ input \in Seq(Nat) /\ Len(input) \in Nat
        /\ \A k \in 1 .. Len(input) : input[k] \in Nat
        /\ start \in 0 .. Len(input) /\ e \in Nat /\ e <= Len(input) /\ start <= e
        /\ lines \in Seq(Seq(Nat))
    BY InputNat DEF LInv, FillTypes
  <1>2. s \in Seq(Nat) /\ Len(s) = e - start /\ \A c \in 1 .. e - start : s[c] = input[start + c]
    <2>1. PICK y \in Int : y = start + 1
      BY <1>1
    <2>2. e \in Int /\ \A l \in y .. e : input[l] \in Nat
      BY <1>1, <2>1
    <2>3. /\ SubSeq(input, y, e) \in Seq(Nat)
          /\ Len(SubSeq(input, y, e)) = IF y <= e THEN e - y + 1 ELSE 0
          /\ \A c \in 1 .. e - y + 1 : SubSeq(input, y, e)[c] = input[y + c - 1]
      BY <2>2, SubSeqProperties
    <2>4. s = SubSeq(input, y, e)
      BY <2>1
    <2> HIDE DEF s
    <2>5. /\ e - y + 1 = e - start /\ (y <= e => e - y + 1 = e - start)
          /\ (~ (y <= e) => 0 = e - start)
          /\ \A c \in 1 .. e - start : y + c - 1 = start + c
      BY <1>1, <2>1
    <2>6. Len(s) = e - start
      BY <2>3, <2>4, <2>5
    <2>7. \A c \in 1 .. e - start : s[c] = input[start + c]
      BY <2>3, <2>4, <2>5
    <2> QED
      BY <2>3, <2>4, <2>6, <2>7
  <1> HIDE DEF s
  <1>3. Holds(s) <=> \E k \in start .. e - 1 : input[k + 1] = L!Newline
    <2>1. Holds(s) <=> \E c \in 1 .. e - start : input[start + c] = L!Newline
      BY <1>2 DEF Holds
    <2>2. ASSUME NEW c \in 1 .. e - start
          PROVE  start + c - 1 \in start .. e - 1 /\ (start + c - 1) + 1 = start + c
      BY <1>1
    <2>3. ASSUME NEW k \in start .. e - 1
          PROVE  k + 1 - start \in 1 .. e - start /\ start + (k + 1 - start) = k + 1
      BY <1>1
    <2> QED
      BY <2>1, <2>2, <2>3, Zenon
  <1>4. L!Joined(Append(lines, s)) = SubSeq(input, 1, e)
    <2>1. CASE lines = <<>>
      <3>1. start = 0
        BY <2>1 DEF JoinedInv
      <3>2. s = SubSeq(input, 1, e)
        BY <3>1 DEF s
      <3> QED
        BY <1>1, <1>2, <2>1, <3>2, JoinedAppend
    <2>2. CASE lines # <<>>
      <3>1. /\ start \in 1 .. Len(input) /\ input[start] = L!Newline
            /\ L!Joined(lines) = SubSeq(input, 1, start - 1)
        BY <2>2 DEF JoinedInv
      <3>2. L!Joined(Append(lines, s)) = L!Joined(lines) \o <<L!Newline>> \o s
        BY <1>1, <1>2, <2>2, JoinedAppend
      <3>3. SubSeq(input, 1, start - 1) \o <<input[start]>> \o SubSeq(input, start + 1, e)
              = SubSeq(input, 1, e)
        BY <1>1, <3>1, SubSeqAround
      <3> QED
        BY <3>1, <3>2, <3>3 DEF s
    <2> QED
      BY <2>1, <2>2
  <1> QED
    BY <1>2, <1>3, <1>4 DEF s

LEMMA FillLInv == LInv /\ L!Fill => LInv'
  <1> SUFFICES ASSUME LInv, L!Fill
               PROVE  LInv'
    OBVIOUS
  <1> DEFINE e == L!End
             s == SubSeq(input, start + 1, e)
             w == Len(lines)
  <1>1. /\ splitting = "fill" /\ w < n /\ lines' = Append(lines, s)
        /\ start' = IF e < Len(input) THEN e + 1 ELSE Len(input)
        /\ UNCHANGED <<input, splitting, n, held>>
    BY DEF L!Fill
  <1>2. FillTypes /\ JoinedInv /\ RestInv /\ HoldsInv
    BY <1>1 DEF LInv, FillInv
  <1>3. /\ input \in Seq(Nat) /\ Len(input) \in Nat /\ MaxLines \in Nat
        /\ n \in 1 .. MaxLines /\ start \in 0 .. Len(input)
        /\ lines \in Seq(Seq(Nat)) /\ w \in 0 .. n
    BY <1>2, InputNat, ScansAssumption DEF LInv, FillTypes, L!LineLimits
  <1>4. L!Newlines \in SUBSET (0 .. Len(input) - 1) /\ L!Newlines \in SUBSET Nat
    BY <1>3 DEF L!Newlines
  <1>5. IsFiniteSet(L!Newlines) /\ Cardinality(L!Newlines) \in Nat
    <2>1. Len(input) - 1 \in Int
      BY <1>3
    <2> QED
      BY <1>4, <2>1, PlacesFinite
  <1>6. /\ e \in start .. Len(input)
        /\ w = n - 1 => e = Len(input)
        /\ w # n - 1 => e \in L!Newlines /\ \A l \in L!Newlines : e <= l
    <2>1. CASE w = n - 1
      <3>1. e = Len(input)
        BY <2>1, Zenon DEF L!End
      <3> QED
        BY <1>3, <2>1, <3>1
    <2>2. CASE w # n - 1
      <3>1. Cardinality(L!Newlines) >= n - 1 - w
        BY <1>1, <1>2 DEF RestInv
      <3>2. Cardinality(L!Newlines) # 0
        BY <1>1, <1>3, <1>5, <2>2, <3>1
      <3>3. L!Newlines # {}
        BY <3>2, FS_EmptySet
      <3>4. \E k \in L!Newlines : \A l \in L!Newlines : k <= l
        BY <1>4, <3>3, SmallestPlace
      <3>5. e \in L!Newlines /\ \A l \in L!Newlines : e <= l
        BY <2>2, <3>3, <3>4, Zenon DEF L!End
      <3>6. e \in start .. Len(input) - 1
        BY <3>5, Zenon DEF L!Newlines
      <3> QED
        BY <1>3, <2>2, <3>5, <3>6
    <2> QED
      BY <2>1, <2>2
  <1> HIDE DEF e, s
  <1>7. /\ s \in Seq(Nat)
        /\ Holds(s) <=> \E k \in start .. e - 1 : input[k + 1] = L!Newline
        /\ L!Joined(lines') = SubSeq(input, 1, e)
    BY <1>1, <1>2, <1>6, LineJoined DEF s
  <1>8. /\ lines' \in Seq(Seq(Nat)) /\ Len(lines') = w + 1 /\ lines' # <<>>
        /\ \A k \in 1 .. w : lines'[k] = lines[k]
        /\ lines'[w + 1] = s
    <2> HIDE DEF w
    <2>1. lines' = Append(lines, s) /\ lines \in Seq(Seq(Nat)) /\ s \in Seq(Nat) /\ w = Len(lines)
      BY <1>1, <1>3, <1>7 DEF w
    <2> QED
      BY ONLY <2>1, AppendProperties
  <1>9. start' \in 0 .. Len(input) /\ FillTypes'
    BY <1>1, <1>3, <1>6, <1>8 DEF FillTypes
  <1>10. ASSUME w # n - 1
         PROVE  /\ start' = e + 1 /\ start' \in 1 .. Len(input)
                /\ input[start'] = L!Newline /\ ~ Holds(s)
                /\ L!Newlines' = L!Newlines \ {e}
    <2>1. e \in L!Newlines /\ \A l \in L!Newlines : e <= l
      BY <1>6, <1>10
    <2>2. e \in start .. Len(input) - 1 /\ input[e + 1] = L!Newline
      BY <2>1, Zenon DEF L!Newlines
    <2>3. start' = e + 1 /\ start' \in 1 .. Len(input)
      BY <1>1, <1>3, <2>2
    <2>4. ~ Holds(s)
      <3> SUFFICES ASSUME NEW k \in start .. e - 1, input[k + 1] = L!Newline
                   PROVE  FALSE
        BY <1>7
      <3>1. k \in L!Newlines
        BY <1>3, <2>2 DEF L!Newlines
      <3> QED
        BY <1>3, <2>1, <2>2, <3>1
    <2>5. L!Newlines' = {k \in e + 1 .. Len(input) - 1 : input[k + 1] = L!Newline}
      BY <1>1, <2>3 DEF L!Newlines
    <2>6. \A k : k \in e + 1 .. Len(input) - 1 => k \in start .. Len(input) - 1 /\ k # e
      BY <1>3, <2>2
    <2>7. \A k \in L!Newlines : k # e => k \in e + 1 .. Len(input) - 1
      <3> SUFFICES ASSUME NEW k \in L!Newlines, k # e
                   PROVE  k \in e + 1 .. Len(input) - 1
        OBVIOUS
      <3>1. k \in start .. Len(input) - 1 /\ e <= k
        BY <2>1, Zenon DEF L!Newlines
      <3> QED
        BY <1>3, <2>2, <3>1
    <2>8. L!Newlines' = L!Newlines \ {e}
      <3>1. \A k \in L!Newlines : input[k + 1] = L!Newline
        BY Zenon DEF L!Newlines
      <3>2. \A k \in start .. Len(input) - 1 : input[k + 1] = L!Newline => k \in L!Newlines
        BY Zenon DEF L!Newlines
      <3> QED
        BY <2>5, <2>6, <2>7, <3>1, <3>2
    <2> QED
      BY <2>2, <2>3, <2>4, <2>8
  <1>11. JoinedInv'
    <2>1. CASE w = n - 1
      <3>1. L!Joined(lines') = input /\ Len(lines') = n
        BY <1>3, <1>6, <1>7, <1>8, <2>1, SubSeqFull
      <3> QED
        BY <1>1, <1>3, <1>8, <3>1 DEF JoinedInv
    <2>2. CASE w # n - 1
      <3>1. Len(lines') < n /\ e = start' - 1
        BY <1>1, <1>3, <1>6, <1>8, <1>10, <2>2
      <3> QED
        BY <1>1, <1>3, <1>7, <1>8, <1>10, <2>2, <3>1 DEF JoinedInv
    <2> QED
      BY <2>1, <2>2
  <1>12. RestInv'
    <2> SUFFICES ASSUME Len(lines') < n
                 PROVE  /\ Cardinality(L!Newlines') >= n - 1 - (w + 1)
                        /\ n < MaxLines => Cardinality(L!Newlines') = n - 1 - (w + 1)
      BY <1>1, <1>8 DEF RestInv
    <2>1. w # n - 1
      BY <1>3, <1>8
    <2>2. e \in L!Newlines
      BY <1>6, <2>1
    <2>3. Cardinality(L!Newlines') = Cardinality(L!Newlines) - 1
      BY <1>5, <1>10, <2>1, <2>2, FS_RemoveElement
    <2>4. /\ Cardinality(L!Newlines) >= n - 1 - w
          /\ n < MaxLines => Cardinality(L!Newlines) = n - 1 - w
      BY <1>1, <1>2 DEF RestInv
    <2> QED
      BY <1>3, <1>5, <2>3, <2>4
  <1>13. HoldsInv'
    <2>1. ASSUME Holds(s)
          PROVE  w + 1 = n /\ n = MaxLines
      <3>1. w = n - 1
        BY <1>10, <2>1
      <3>2. PICK k \in start .. e - 1 : input[k + 1] = L!Newline
        BY <1>7, <2>1
      <3>3. e = Len(input)
        BY <1>6, <3>1
      <3>4. k \in L!Newlines
        BY <3>2, <3>3 DEF L!Newlines
      <3>5. Cardinality(L!Newlines) # 0
        BY <1>5, <3>4, FS_EmptySet
      <3>6. n < MaxLines => Cardinality(L!Newlines) = n - 1 - w
        BY <1>1, <1>2 DEF RestInv
      <3> QED
        BY <1>3, <3>1, <3>5, <3>6
    <2>2. \A k \in 1 .. w + 1 : k \in 1 .. w \/ k = w + 1
      BY <1>3
    <2>3. \A k \in 1 .. w : Holds(lines[k]) => k = n /\ n = MaxLines
      BY <1>2 DEF HoldsInv
    <2>4. \A k \in 1 .. w + 1 : Holds(lines'[k]) => k = n /\ n = MaxLines
      BY <1>8, <2>1, <2>2, <2>3
    <2> QED
      BY <1>1, <1>8, <2>4 DEF HoldsInv
  <1> QED
    BY <1>1, <1>9, <1>11, <1>12, <1>13 DEF LInv, CountInv, FillInv, RunInv

LEMMA NextLInv == LInv /\ [L!Next]_lineVars => LInv'
  <1> SUFFICES ASSUME LInv, [L!Next]_lineVars
               PROVE  LInv'
    OBVIOUS
  <1>1. CASE L!Begin
    BY <1>1, BeginLInv
  <1>2. CASE L!Count
    BY <1>2, CountLInv
  <1>3. CASE L!Counted
    BY <1>3, CountedLInv
  <1>4. CASE L!Fill
    BY <1>4, FillLInv
  <1>5. CASE L!FillFails
    BY <1>5 DEF L!FillFails, LInv, CountInv, FillInv, RunInv
  <1>6. CASE L!Filled
    <2>1. /\ splitting = "fill" /\ splitting' = "run" /\ Len(lines) = n /\ held' = lines
          /\ input' = input
      BY <1>6 DEF L!Filled
    <2>2. JoinedInv /\ HoldsInv
      BY <2>1 DEF LInv, FillInv
    <2>3. RunInv'
      BY <2>1, <2>2 DEF RunInv, JoinedInv, HoldsInv
    <2> QED
      BY <2>1, <2>3 DEF LInv, CountInv, FillInv
  <1>7. CASE L!Run
    BY <1>7 DEF L!Run, LInv, CountInv, FillInv, RunInv
  <1>8. CASE UNCHANGED lineVars
    BY <1>8 DEF lineVars, LInv, CountInv, Before, FillInv, FillTypes, JoinedInv, RestInv,
                HoldsInv, RunInv, L!Newlines
  <1> QED
    BY <1>1, <1>2, <1>3, <1>4, <1>5, <1>6, <1>7, <1>8 DEF L!Next

LineInv == subject = "lines" => LInv

LEMMA LineInvHolds == ScansSpec => []LineInv
  <1>1. ScansInit => LineInv
    <2> SUFFICES ASSUME L!Init
                 PROVE  LInv
      BY DEF ScansInit, LineInv
    <2>1. <<>> \in Seq(Nat)
      OBVIOUS
    <2> QED
      BY <2>1 DEF L!Init, LInv, CountInv, FillInv, RunInv
  <1>2. LineInv /\ [ScansNext]_allVars => LineInv'
    <2> SUFFICES ASSUME LineInv, [ScansNext]_allVars, subject' = "lines"
                 PROVE  LInv'
      BY DEF LineInv
    <2>1. subject' = subject
      BY DEF ScansNext, allVars
    <2>2. [L!Next]_lineVars
      BY <2>1 DEF ScansNext, allVars
    <2> QED
      BY <2>1, <2>2, NextLInv DEF LineInv
  <1> QED
    BY <1>1, <1>2, PTL DEF ScansSpec

\* What sort.c's set_lines hands the calls is the input, of any length, cut at
\* its newlines up to the limit on lines, whatever inputs came before and
\* wherever an allocation failed.
THEOREM LinesJoined == ScansSpec => []LinesOfInput
  <1>1. LineInv => LinesOfInput
    BY DEF LineInv, LinesOfInput, LInv, RunInv, Holds, L!LinesOfInput
  <1> QED
    BY <1>1, LineInvHolds, PTL

-----------------------------------------------------------------------------
(* The places of a parsed input: its nodes, each by the way to it *)

Parsed == tree \in Sources

Root == [way |-> <<>>, node |-> tree, cell |-> FALSE]
Elt(x, k) == [way  |-> Append(x.way, k),
              node |-> x.node.of[k],
              cell |-> x.node.kind = "list"]
Allowed == 0 .. MaxDepth
Whole == UNION {T!Level[d] : d \in Allowed}

LEMMA TreeConstants ==
    /\ MaxDepth \in Nat /\ MaxNodes \in Nat
    /\ Sources \subseteq Objects
    /\ \A x \in Objects :
          /\ x = [kind |-> x.kind, of |-> x.of]
          /\ x.of \in Seq(Objects)
          /\ x.kind \in {"leaf", "list", "vector"}
          /\ x.kind = "leaf" => x.of = <<>>
  BY ScansAssumption, Zenon DEF T!TreeLimits

\* Level is well defined, by recursion from the root.
LEMMA LevelDef ==
    T!Level = [d \in 0 .. MaxDepth + 1 |->
                  IF d = 0 THEN {Root} ELSE UNION {T!Elements(x) : x \in T!Level[d - 1]}]
  <1> DEFINE Below(s) == UNION {T!Elements(x) : x \in s}
             IsLevels(f, m) == f = [d \in 0 .. m |-> IF d = 0 THEN {Root} ELSE Below(f[d - 1])]
             S == {m \in Nat : \E f : IsLevels(f, m)}
  <1>1. MaxDepth + 1 \in Nat
    BY TreeConstants
  <1> HIDE DEF Below
  <1>2. 0 \in S
    <2> DEFINE f == [d \in 0 .. 0 |-> {Root}]
    <2>1. f = [d \in 0 .. 0 |-> IF d = 0 THEN {Root} ELSE Below(f[d - 1])]
      OBVIOUS
    <2> QED
      BY <2>1, Zenon
  <1>3. ASSUME NEW m \in Nat, m \in S
        PROVE  m + 1 \in S
    <2>1. PICK f : IsLevels(f, m)
      BY <1>3
    <2> DEFINE g == [d \in 0 .. m + 1 |-> IF d = m + 1 THEN Below(f[m]) ELSE f[d]]
    <2>2. \A d \in 0 .. m : g[d] = f[d]
      OBVIOUS
    <2>3. g[m + 1] = Below(f[m])
      OBVIOUS
    <2>4. g = [d \in 0 .. m + 1 |-> g[d]]
      OBVIOUS
    <2> HIDE DEF g
    <2>5. \A d \in 0 .. m : f[d] = IF d = 0 THEN {Root} ELSE Below(f[d - 1])
      BY <2>1
    <2>6. \A d \in 0 .. m + 1 : g[d] = IF d = 0 THEN {Root} ELSE Below(g[d - 1])
      BY <2>2, <2>3, <2>5
    <2>7. IsLevels(g, m + 1)
      BY <2>4, <2>6
    <2> QED
      BY <2>7
  <1>4. \E f : f = [d \in 0 .. MaxDepth + 1 |-> IF d = 0 THEN {Root} ELSE Below(f[d - 1])]
    BY <1>1, <1>2, <1>3, SetInduction
  <1> QED
    BY <1>4 DEF T!Level, Below, Root

LEMMA ElementsElt ==
    \A x, y : y \in T!Elements(x) <=> \E k \in DOMAIN x.node.of : y = Elt(x, k)
  BY SMT DEF T!Elements, Elt

LEMMA LevelMembers ==
    /\ T!Level[0] = {Root}
    /\ \A d \in Allowed : \A y :
          y \in T!Level[d + 1] <=> \E x \in T!Level[d] : \E k \in DOMAIN x.node.of : y = Elt(x, k)
  <1> DEFINE Below(s) == UNION {T!Elements(x) : x \in s}
  <1>1. MaxDepth \in Nat
    BY TreeConstants
  <1>2. \A s, y : y \in Below(s) <=> \E x \in s : y \in T!Elements(x)
    BY SMT
  <1> HIDE DEF Below
  <1>3. T!Level = [d \in 0 .. MaxDepth + 1 |-> IF d = 0 THEN {Root} ELSE Below(T!Level[d - 1])]
    BY LevelDef, Zenon DEF Below
  <1>4. T!Level[0] = {Root}
    BY <1>1, <1>3
  <1>5. ASSUME NEW d \in Allowed
        PROVE  T!Level[d + 1] = Below(T!Level[d])
    <2>1. d + 1 \in 0 .. MaxDepth + 1 /\ d + 1 # 0 /\ (d + 1) - 1 = d
      BY <1>1 DEF Allowed
    <2>2. T!Level[d + 1] = IF d + 1 = 0 THEN {Root} ELSE Below(T!Level[(d + 1) - 1])
      BY <1>3, <2>1
    <2> QED
      BY <2>1, <2>2
  <1>6. ASSUME NEW d \in Allowed, NEW y
        PROVE  y \in T!Level[d + 1]
                  <=> \E x \in T!Level[d] : \E k \in DOMAIN x.node.of : y = Elt(x, k)
    <2> DEFINE s == T!Level[d]
    <2>1. y \in T!Level[d + 1] <=> \E x \in s : y \in T!Elements(x)
      BY <1>2, <1>5
    <2> QED
      BY <2>1, ElementsElt, Zenon
  <1> QED
    BY <1>4, <1>6

\* A place at level d has a way of d steps, and its node is an R object.
IsPlace(x, d) ==
    /\ x.way \in Seq(Nat) /\ Len(x.way) = d
    /\ x.node \in Objects /\ x.cell \in BOOLEAN

LEMMA EltPlace ==
    ASSUME NEW d \in Nat, NEW x, IsPlace(x, d), NEW k \in DOMAIN x.node.of
    PROVE  /\ IsPlace(Elt(x, k), d + 1)
           /\ k \in 1 .. Len(x.node.of) /\ Len(x.node.of) \in Nat
  <1> DEFINE s == x.node.of
             v == x.way
  <1>1. s \in Seq(Objects)
    BY TreeConstants, Zenon DEF IsPlace
  <1>2. v \in Seq(Nat) /\ Len(v) = d
    BY Zenon DEF IsPlace
  <1>3. k \in DOMAIN s
    OBVIOUS
  <1> HIDE DEF s, v
  <1>4. k \in 1 .. Len(s) /\ Len(s) \in Nat /\ k \in Nat /\ s[k] \in Objects
    BY <1>1, <1>3
  <1>5. Append(v, k) \in Seq(Nat) /\ Len(Append(v, k)) = d + 1
    BY <1>2, <1>4
  <1>6. /\ Elt(x, k).way = Append(v, k)
        /\ Elt(x, k).node = s[k]
        /\ Elt(x, k).cell = (x.node.kind = "list")
    BY DEF Elt, s, v
  <1>7. Elt(x, k).cell \in BOOLEAN
    BY <1>6, Zenon
  <1> QED
    BY <1>4, <1>5, <1>6, <1>7, Zenon DEF IsPlace, s

LEMMA LevelPlaces ==
    ASSUME Parsed
    PROVE  \A d \in 0 .. MaxDepth + 1 : \A x \in T!Level[d] : IsPlace(x, d)
  <1> DEFINE S == {d \in Nat : d <= MaxDepth + 1 => \A x \in T!Level[d] : IsPlace(x, d)}
  <1>1. MaxDepth \in Nat
    BY TreeConstants
  <1>2. IsPlace(Root, 0)
    BY TreeConstants DEF Parsed, IsPlace, Root
  <1>3. 0 \in S
    BY <1>2, LevelMembers
  <1>4. ASSUME NEW d \in Nat, d \in S
        PROVE  d + 1 \in S
    <2> SUFFICES ASSUME d + 1 <= MaxDepth + 1, NEW y \in T!Level[d + 1]
                 PROVE  IsPlace(y, d + 1)
      OBVIOUS
    <2>1. d \in Allowed /\ d <= MaxDepth + 1
      BY <1>1 DEF Allowed
    <2>2. PICK x \in T!Level[d] : \E k \in DOMAIN x.node.of : y = Elt(x, k)
      BY <2>1, LevelMembers
    <2>3. PICK k \in DOMAIN x.node.of : y = Elt(x, k)
      BY <2>2
    <2>4. IsPlace(x, d)
      BY <1>4, <2>1
    <2> QED
      BY <2>3, <2>4, EltPlace, Zenon
  <1> HIDE DEF S
  <1>5. Nat \subseteq S
    BY <1>3, <1>4, SetInduction
  <1>6. \A d \in 0 .. MaxDepth + 1 : d \in Nat /\ d <= MaxDepth + 1
    BY <1>1
  <1> QED
    BY <1>5, <1>6 DEF S

LEMMA WaysApart ==
    ASSUME NEW x, NEW y, NEW k \in Nat, NEW m \in Nat, Elt(x, k).way = Elt(y, m).way,
           x.way \in Seq(Nat), y.way \in Seq(Nat)
    PROVE  x.way = y.way /\ k = m
  <1>1. PICK s \in Seq(Nat) : s = x.way
    OBVIOUS
  <1>2. PICK v \in Seq(Nat) : v = y.way
    OBVIOUS
  <1>3. Append(s, k) = Append(v, m)
    BY <1>1, <1>2 DEF Elt
  <1>4. s = v /\ k = m
    BY <1>3, AppendInjective
  <1> QED
    BY <1>1, <1>2, <1>4

\* The way tells the place.
LEMMA SameWay ==
    ASSUME Parsed
    PROVE  \A d \in 0 .. MaxDepth + 1 : \A x, y \in T!Level[d] : x.way = y.way => x = y
  <1> DEFINE S == {d \in Nat : d <= MaxDepth + 1 =>
                                  \A x, y \in T!Level[d] : x.way = y.way => x = y}
  <1>1. MaxDepth \in Nat
    BY TreeConstants
  <1>2. 0 \in S
    BY LevelMembers
  <1>3. ASSUME NEW d \in Nat, d \in S
        PROVE  d + 1 \in S
    <2> SUFFICES ASSUME d + 1 <= MaxDepth + 1,
                        NEW x \in T!Level[d + 1], NEW y \in T!Level[d + 1], x.way = y.way
                 PROVE  x = y
      OBVIOUS
    <2>1. d \in Allowed /\ d \in 0 .. MaxDepth + 1
      BY <1>1 DEF Allowed
    <2>2. PICK b \in T!Level[d] : \E k \in DOMAIN b.node.of : x = Elt(b, k)
      BY <2>1, LevelMembers
    <2>3. PICK k \in DOMAIN b.node.of : x = Elt(b, k)
      BY <2>2
    <2>4. PICK c \in T!Level[d] : \E m \in DOMAIN c.node.of : y = Elt(c, m)
      BY <2>1, LevelMembers
    <2>5. PICK m \in DOMAIN c.node.of : y = Elt(c, m)
      BY <2>4
    <2>6. IsPlace(b, d) /\ IsPlace(c, d)
      BY <2>1, LevelPlaces
    <2>7. Elt(b, k).way = Elt(c, m).way
      BY <2>3, <2>5
    <2>8. k \in Nat /\ m \in Nat
      BY <2>6, EltPlace
    <2>9. b.way \in Seq(Nat) /\ c.way \in Seq(Nat)
      BY <2>6 DEF IsPlace
    <2>10. b.way = c.way /\ k = m
      BY <2>7, <2>8, <2>9, WaysApart
    <2>11. b = c
      BY <1>3, <2>1, <2>10
    <2> QED
      BY <2>3, <2>5, <2>10, <2>11, Zenon
  <1> HIDE DEF S
  <1>4. Nat \subseteq S
    BY <1>2, <1>3, SetInduction
  <1>5. \A d \in 0 .. MaxDepth + 1 : d \in Nat /\ d <= MaxDepth + 1
    BY <1>1
  <1> QED
    BY <1>4, <1>5 DEF S

\* No place is on two levels, or an element of two places.
LEMMA LevelsApart ==
    ASSUME Parsed, NEW d \in 0 .. MaxDepth + 1, NEW e \in 0 .. MaxDepth + 1,
           NEW x \in T!Level[d], x \in T!Level[e]
    PROVE  d = e
  <1>1. IsPlace(x, d) /\ IsPlace(x, e)
    BY LevelPlaces
  <1> QED
    BY <1>1, Zenon DEF IsPlace

LEMMA EltsApart ==
    ASSUME Parsed,
           NEW d \in Allowed, NEW x \in T!Level[d], NEW k \in DOMAIN x.node.of,
           NEW e \in Allowed, NEW y \in T!Level[e], NEW m \in DOMAIN y.node.of,
           Elt(x, k) = Elt(y, m)
    PROVE  d = e /\ x = y /\ k = m
  <1>1. /\ d \in Nat /\ e \in Nat
        /\ d \in 0 .. MaxDepth + 1 /\ e \in 0 .. MaxDepth + 1
    BY TreeConstants DEF Allowed
  <1>2. IsPlace(x, d) /\ IsPlace(y, e)
    BY <1>1, LevelPlaces
  <1>3. IsPlace(Elt(x, k), d + 1) /\ IsPlace(Elt(y, m), e + 1) /\ k \in Nat /\ m \in Nat
    BY <1>1, <1>2, EltPlace
  <1>4. d + 1 = e + 1
    BY <1>3, Zenon DEF IsPlace
  <1>5. d = e
    BY <1>1, <1>4
  <1>7. x.way \in Seq(Nat) /\ y.way \in Seq(Nat)
    BY <1>2 DEF IsPlace
  <1>8. x.way = y.way /\ k = m
    BY <1>3, <1>7, WaysApart
  <1> QED
    BY <1>1, <1>5, <1>8, SameWay, Zenon

\* There are finitely many places.
Image(f) == {f[x] : x \in DOMAIN f}

LEMMA ImageFinite ==
    \A S, X : \A f \in [S -> X] : IsFiniteSet(S) => IsFiniteSet(Image(f))
  <1> SUFFICES ASSUME NEW S, IsFiniteSet(S), NEW X, NEW f \in [S -> X]
               PROVE  IsFiniteSet(Image(f))
    OBVIOUS
  <1> DEFINE Y == Image(f)
  <1>1. f \in Surjection(S, Y)
    BY DEF Surjection, Image
  <1> HIDE DEF Y
  <1>2. IsFiniteSet(Y)
    BY <1>1, FS_Surjection
  <1> QED
    BY <1>2 DEF Y

LEMMA ElementsFinite ==
    ASSUME NEW d \in Nat, NEW x, IsPlace(x, d)
    PROVE  IsFiniteSet(T!Elements(x))
  <1> DEFINE m == Len(x.node.of)
             f == [k \in 1 .. m |-> Elt(x, k)]
             X == {Elt(x, k) : k \in 1 .. m}
  <1>1. x.node.of \in Seq(Objects)
    BY TreeConstants, Zenon DEF IsPlace
  <1>2. m \in Nat /\ DOMAIN x.node.of = 1 .. m
    <2>1. PICK e \in Seq(Objects) : e = x.node.of
      BY <1>1, Zenon
    <2>2. Len(e) \in Nat /\ DOMAIN e = 1 .. Len(e)
      BY ONLY <2>1, SMT
    <2> QED
      BY <2>1, <2>2, Zenon
  <1>3. IsFiniteSet(1 .. m)
    <2>1. \A e \in Nat : IsFiniteSet(1 .. e)
      BY FS_Interval
    <2> QED
      BY <1>2, <2>1, Zenon
  <1>4. f \in [1 .. m -> X]
    OBVIOUS
  <1>5. T!Elements(x) = Image(f)
    BY <1>2 DEF T!Elements, Elt, Image
  <1> HIDE DEF f, m, X
  <1>6. IsFiniteSet(Image(f))
    BY <1>3, <1>4, ImageFinite, Zenon
  <1> QED
    BY <1>5, <1>6, Zenon

LEMMA LevelsFinite ==
    ASSUME Parsed
    PROVE  \A d \in 0 .. MaxDepth + 1 : IsFiniteSet(T!Level[d])
  <1> DEFINE S == {d \in Nat : d <= MaxDepth + 1 => IsFiniteSet(T!Level[d])}
  <1>1. MaxDepth \in Nat
    BY TreeConstants
  <1>2. 0 \in S
    BY LevelMembers, FS_Singleton
  <1>3. ASSUME NEW d \in Nat, d \in S
        PROVE  d + 1 \in S
    <2> SUFFICES ASSUME d + 1 <= MaxDepth + 1
                 PROVE  IsFiniteSet(T!Level[d + 1])
      OBVIOUS
    <2>1. d \in Allowed /\ d \in 0 .. MaxDepth + 1
      BY <1>1 DEF Allowed
    <2> DEFINE s == T!Level[d]
               f == [x \in s |-> T!Elements(x)]
               X == {T!Elements(x) : x \in s}
    <2>2. IsFiniteSet(s)
      BY <1>3, <2>1
    <2>3. \A x \in s : IsFiniteSet(T!Elements(x))
      BY <2>1, LevelPlaces, ElementsFinite
    <2>4. f \in [s -> X] /\ X = Image(f)
      BY Zenon DEF Image
    <2>5. T!Level[d + 1] = UNION X
      <3>1. \A y : y \in T!Level[d + 1] <=> \E x \in s : y \in T!Elements(x)
        BY <2>1, LevelMembers, ElementsElt
      <3>2. \A y : y \in UNION X <=> \E x \in s : y \in T!Elements(x)
        BY SMT
      <3> QED
        BY <3>1, <3>2
    <2>6. IsFiniteSet(X)
      <3>1. IsFiniteSet(Image(f))
        BY <2>2, <2>4, ImageFinite, Zenon
      <3> QED
        BY <2>4, <3>1, Zenon
    <2> QED
      BY <2>3, <2>5, <2>6, FS_UNION, Zenon
  <1> HIDE DEF S
  <1>4. Nat \subseteq S
    BY <1>2, <1>3, SetInduction
  <1>5. \A d \in 0 .. MaxDepth + 1 : d \in Nat /\ d <= MaxDepth + 1
    BY <1>1
  <1> QED
    BY <1>4, <1>5 DEF S

LEMMA WholeFinite ==
    ASSUME Parsed
    PROVE  IsFiniteSet(Whole)
  <1> DEFINE X == {T!Level[d] : d \in Allowed}
             f == [d \in Allowed |-> T!Level[d]]
  <1>1. MaxDepth \in Nat /\ Allowed \subseteq 0 .. MaxDepth + 1
    BY TreeConstants DEF Allowed
  <1>2. IsFiniteSet(Allowed)
    BY <1>1, FS_Interval DEF Allowed
  <1>3. f \in [Allowed -> X] /\ X = Image(f)
    BY Zenon DEF Image
  <1>4. \A s \in X : IsFiniteSet(s)
    BY <1>1, LevelsFinite
  <1>5. IsFiniteSet(X)
    <2>1. IsFiniteSet(Image(f))
      BY <1>2, <1>3, ImageFinite, Zenon
    <2> QED
      BY <1>3, <2>1, Zenon
  <1> QED
    BY <1>4, <1>5, FS_UNION, Zenon DEF Whole

\* What the counter is to say of a set of places: its nodes and its cells.
Cells(s) == {x \in s : x.cell}
Cost(s)  == Cardinality(s) + Cardinality(Cells(s))

LEMMA CostMore ==
    ASSUME NEW s, IsFiniteSet(s), NEW e, e \notin s, e.cell \in BOOLEAN
    PROVE  /\ Cost(s) \in Nat
           /\ Cost(s \cup {e}) = Cost(s) + 1 + (IF e.cell THEN 1 ELSE 0)
  <1> DEFINE c == Cells(s)
  <1>1. IsFiniteSet(c)
    BY FS_Subset, Zenon DEF Cells
  <1>2. e \notin c
    BY DEF Cells
  <1>3. Cells(s \cup {e}) = IF e.cell THEN c \cup {e} ELSE c
    BY DEF Cells
  <1> HIDE DEF c
  <1>4. Cardinality(s) \in Nat /\ Cardinality(c) \in Nat
    BY <1>1, FS_CardinalityType
  <1>5. Cardinality(s \cup {e}) = Cardinality(s) + 1
    BY FS_AddElement
  <1>6. Cardinality(c \cup {e}) = Cardinality(c) + 1
    BY <1>1, <1>2, FS_AddElement
  <1>7. Cost(s) = Cardinality(s) + Cardinality(c)
    BY DEF Cost, c
  <1>8. Cost(s \cup {e}) = Cardinality(s) + 1 + (IF e.cell THEN Cardinality(c) + 1 ELSE Cardinality(c))
    BY <1>3, <1>5, <1>6, Zenon DEF Cost
  <1> QED
    BY <1>4, <1>7, <1>8

LEMMA CostGrows ==
    ASSUME NEW s, IsFiniteSet(s), NEW r \in SUBSET s
    PROVE  Cost(r) <= Cost(s) /\ Cost(r) \in Nat /\ Cost(s) \in Nat
  <1>1. /\ IsFiniteSet(r) /\ IsFiniteSet(Cells(r)) /\ IsFiniteSet(Cells(s))
        /\ Cardinality(r) <= Cardinality(s)
    BY FS_Subset, Zenon DEF Cells
  <1>2. Cells(r) \in SUBSET Cells(s)
    BY DEF Cells
  <1>3. Cardinality(Cells(r)) <= Cardinality(Cells(s))
    BY <1>1, <1>2, FS_Subset, Zenon
  <1>4. /\ Cardinality(r) \in Nat /\ Cardinality(s) \in Nat
        /\ Cardinality(Cells(r)) \in Nat /\ Cardinality(Cells(s)) \in Nat
    BY <1>1, FS_CardinalityType
  <1> QED
    BY <1>1, <1>3, <1>4 DEF Cost

Excessive == T!TooDeep \/ Cost(Whole) > MaxNodes

\* A place that was not entered, too deep or beyond the counter, is enough.
LEMMA OneMore ==
    ASSUME Parsed, NEW s \in SUBSET Whole,
           NEW d \in 0 .. MaxDepth + 1, NEW e \in T!Level[d], e \notin s,
           d <= MaxDepth => Cost(s) + 1 + (IF e.cell THEN 1 ELSE 0) > MaxNodes
    PROVE  Excessive
  <1>1. MaxDepth \in Nat /\ MaxNodes \in Nat
    BY TreeConstants
  <1>2. CASE d > MaxDepth
    <2>1. d = MaxDepth + 1
      BY <1>1, <1>2
    <2> QED
      BY <2>1 DEF T!TooDeep, Excessive
  <1>3. CASE d <= MaxDepth
    <2>1. e \in Whole
      BY <1>1, <1>3 DEF Whole, Allowed
    <2>2. IsFiniteSet(Whole) /\ IsFiniteSet(s)
      BY WholeFinite, FS_Subset, Zenon
    <2>3. e.cell \in BOOLEAN
      BY LevelPlaces, Zenon DEF IsPlace
    <2>4. Cost(s) \in Nat /\ Cost(s \cup {e}) = Cost(s) + 1 + (IF e.cell THEN 1 ELSE 0)
      BY <2>2, <2>3, CostMore
    <2>5. Cost(s \cup {e}) <= Cost(Whole) /\ Cost(Whole) \in Nat
      BY <2>1, <2>2, CostGrows
    <2>6. Cost(s) + 1 + (IF e.cell THEN 1 ELSE 0) > MaxNodes
      BY <1>3
    <2> DEFINE a == Cost(s) + 1 + (IF e.cell THEN 1 ELSE 0)
    <2>7. a \in Nat /\ a <= Cost(Whole) /\ a > MaxNodes
      BY <2>4, <2>5, <2>6
    <2> HIDE DEF a
    <2> QED
      BY <1>1, <2>5, <2>7 DEF Excessive
  <1> QED
    BY <1>1, <1>2, <1>3

-----------------------------------------------------------------------------
(* The invariant of the walk *)

Frames == Seq([kind : {"list", "vector"}, of : Seq(Objects)])

\* w are the places that the walk is inside of, the root first.  Of each it
\* has taken some elements, and what it keeps is the rest of them.
Taken(w, l) == Len(w[l].node.of) - Len(inside[l].of)

Rest(w, l) ==
    /\ Taken(w, l) \in Nat
    /\ \A k \in 1 .. Len(inside[l].of) : inside[l].of[k] = w[l].node.of[Taken(w, l) + k]

PathInv(w) ==
    /\ inside \in Frames
    /\ \A l \in 1 .. Len(inside) :
          /\ l - 1 \in Allowed /\ w[l] \in T!Level[l - 1]
          /\ inside[l].kind = w[l].node.kind
          /\ Rest(w, l)

\* The place that is about to be entered.
Pending(w) == IF inside = <<>> THEN Root ELSE Elt(w[Len(inside)], Taken(w, Len(inside)))

EnteredInv(w, v) ==
    /\ entered = <<>> => Root \in v
    /\ entered # <<>> => /\ entered = <<Pending(w).node>>
                         /\ inside = <<>> => v = {}
                         /\ inside # <<>> => Taken(w, Len(inside)) > 0

\* v are the places it has entered: with a place also the one above it, all
\* that is below a place that it has left, and of a place that it is inside of
\* the elements it has taken.
Done(w, l) == IF l = Len(inside) /\ entered # <<>> THEN Taken(w, l) - 1 ELSE Taken(w, l)

OnPath(w) == {w[l] : l \in 1 .. Len(inside)}

UpClosed(v) ==
    \A d \in Allowed : \A x \in T!Level[d] : \A k \in DOMAIN x.node.of : Elt(x, k) \in v => x \in v

VisitInv(w, v) ==
    /\ v \in SUBSET Whole /\ OnPath(w) \subseteq v
    /\ \A x \in v : x \notin OnPath(w) => T!Elements(x) \subseteq v
    /\ UpClosed(v)
    /\ \A l \in 1 .. Len(inside) : \A k \in DOMAIN w[l].node.of :
          Elt(w[l], k) \in v <=> k <= Done(w, l)

\* The counter is theirs, and that of the cell of the place to be entered.
PendingCell(w) == IF entered # <<>> /\ Pending(w).cell THEN 1 ELSE 0

CostInv(w, v) == nodes = Cost(v) + PendingCell(w) /\ nodes <= MaxNodes

WalkInv(w, v) == PathInv(w) /\ EnteredInv(w, v) /\ VisitInv(w, v) /\ CostInv(w, v)

TInv ==
    /\ Parsed
    /\ walked \in {"open", "within", "refused"}
    /\ walked = "open" => \E w, v : WalkInv(w, v)
    /\ walked = "within" => ~ Excessive
    /\ walked = "refused" => Excessive

LEMMA FixedTree ==
    ASSUME tree' = tree
    PROVE  /\ T!Level' = T!Level /\ Whole' = Whole /\ Root' = Root
           /\ Excessive' <=> Excessive
           /\ \A v : UpClosed(v)' <=> UpClosed(v)
           /\ Parsed' <=> Parsed
  <1>1. T!Level' = T!Level
    BY DEF T!Level, T!Elements
  <1>2. Whole' = Whole
    BY <1>1 DEF Whole
  <1>3. Excessive' <=> Excessive
    BY <1>1, <1>2 DEF Excessive, T!TooDeep
  <1>4. \A v : UpClosed(v)' <=> UpClosed(v)
    BY <1>1 DEF UpClosed
  <1> QED
    BY <1>1, <1>2, <1>3, <1>4 DEF Root, Parsed

LEMMA PathPlaces ==
    ASSUME Parsed, NEW w, PathInv(w)
    PROVE  /\ Len(inside) \in Nat /\ (inside = <<>> <=> Len(inside) = 0)
           /\ \A l \in 1 .. Len(inside) :
                 /\ IsPlace(w[l], l - 1)
                 /\ inside[l] \in [kind : {"list", "vector"}, of : Seq(Objects)]
                 /\ w[l].node.of \in Seq(Objects)
                 /\ DOMAIN w[l].node.of = 1 .. Len(w[l].node.of) /\ Len(w[l].node.of) \in Nat
                 /\ Len(inside[l].of) \in Nat /\ Taken(w, l) \in 0 .. Len(w[l].node.of)
                 /\ w[l].node.kind \in {"list", "vector"}
           /\ Len(inside) <= MaxDepth + 1
  <1> DEFINE X == [kind : {"list", "vector"}, of : Seq(Objects)]
  <1>1. inside \in Seq(X)
    BY DEF PathInv, Frames
  <1> HIDE DEF X
  <1>2. /\ Len(inside) \in Nat /\ (inside = <<>> <=> Len(inside) = 0)
        /\ \A l \in 1 .. Len(inside) : inside[l] \in X
    BY <1>1
  <1>3. ASSUME NEW l \in 1 .. Len(inside)
        PROVE  /\ IsPlace(w[l], l - 1)
               /\ inside[l] \in X
               /\ w[l].node.of \in Seq(Objects)
               /\ DOMAIN w[l].node.of = 1 .. Len(w[l].node.of) /\ Len(w[l].node.of) \in Nat
               /\ Len(inside[l].of) \in Nat /\ Taken(w, l) \in 0 .. Len(w[l].node.of)
               /\ w[l].node.kind \in {"list", "vector"}
    <2>1. l - 1 \in 0 .. MaxDepth + 1 /\ w[l] \in T!Level[l - 1]
      BY <1>2, TreeConstants DEF PathInv, Allowed
    <2>2. IsPlace(w[l], l - 1)
      BY <2>1, LevelPlaces
    <2>3. PICK s : s = w[l].node.of
      OBVIOUS
    <2>4. s \in Seq(Objects)
      BY <2>2, <2>3, TreeConstants, Zenon DEF IsPlace
    <2>5. inside[l] \in X
      BY <1>2
    <2>6. PICK b : b = inside[l].of
      OBVIOUS
    <2>7. b \in Seq(Objects) /\ inside[l].kind \in {"list", "vector"}
      BY <2>5, <2>6 DEF X
    <2>8. Taken(w, l) = Len(s) - Len(b) /\ Taken(w, l) \in Nat
      BY <2>3, <2>6 DEF Taken, PathInv, Rest
    <2>9. Len(s) \in Nat /\ Len(b) \in Nat /\ DOMAIN s = 1 .. Len(s)
      BY <2>4, <2>7
    <2>10. Taken(w, l) \in 0 .. Len(s)
      BY <2>8, <2>9
    <2>11. w[l].node.kind \in {"list", "vector"}
      BY <2>7 DEF PathInv
    <2> QED
      BY <2>2, <2>3, <2>4, <2>5, <2>6, <2>9, <2>10, <2>11
  <1>4. Len(inside) <= MaxDepth + 1
    <2>1. CASE Len(inside) = 0
      BY <2>1, TreeConstants
    <2>2. CASE Len(inside) # 0
      <3>1. Len(inside) \in 1 .. Len(inside)
        BY <1>2, <2>2
      <3>2. Len(inside) - 1 \in Allowed
        BY <3>1, Zenon DEF PathInv
      <3> QED
        BY <1>2, <3>2, TreeConstants DEF Allowed
    <2> QED
      BY <2>1, <2>2
  <1> QED
    BY <1>2, <1>3, <1>4 DEF X

\* The place to be entered is one, and a new one.
LEMMA PendingPlace ==
    ASSUME Parsed, NEW w, NEW v, PathInv(w), EnteredInv(w, v), VisitInv(w, v), entered # <<>>
    PROVE  /\ Len(inside) \in 0 .. MaxDepth + 1
           /\ Pending(w) \in T!Level[Len(inside)]
           /\ Pending(w) \notin v
           /\ entered = <<Pending(w).node>>
           /\ IsPlace(Pending(w), Len(inside))
  <1> DEFINE m == Len(inside)
             e == Pending(w)
  <1>1. m \in 0 .. MaxDepth + 1
    BY PathPlaces, TreeConstants
  <1>2. CASE inside = <<>>
    <2>1. e = Root /\ v = {} /\ m = 0
      BY <1>2 DEF Pending, EnteredInv
    <2> QED
      BY <1>1, <2>1, LevelMembers, LevelPlaces, Zenon DEF EnteredInv
  <1>3. CASE inside # <<>>
    <2>1. m \in 1 .. m /\ m - 1 \in Allowed /\ m = (m - 1) + 1
      BY <1>3, PathPlaces DEF PathInv
    <2> DEFINE x == w[m]
               k == Taken(w, m)
    <2>2. x \in T!Level[m - 1]
      BY <2>1, Zenon DEF PathInv
    <2>3. k > 0
      BY <1>3, Zenon DEF EnteredInv
    <2>4. k \in DOMAIN x.node.of
      <3>1. /\ DOMAIN x.node.of = 1 .. Len(x.node.of) /\ Len(x.node.of) \in Nat
            /\ k \in 0 .. Len(x.node.of)
        BY <2>1, PathPlaces, Zenon
      <3> HIDE DEF x, k
      <3> QED
        BY <2>3, <3>1
    <2>5. e = Elt(x, k)
      BY <1>3, Zenon DEF Pending
    <2>6. e \in T!Level[m]
      BY <2>1, <2>2, <2>4, <2>5, LevelMembers, Zenon
    <2>7. Done(w, m) = k - 1 /\ k \in Nat
      <3>1. Done(w, m) = k - 1
        BY Zenon DEF Done
      <3> QED
        BY <2>1, <3>1, PathPlaces
    <2>8. Elt(x, k) \in v <=> k <= Done(w, m)
      BY <2>1, <2>4, Zenon DEF VisitInv
    <2>9. e \notin v
      BY <2>5, <2>7, <2>8
    <2> QED
      BY <1>1, <2>6, <2>9, LevelPlaces, Zenon DEF EnteredInv
  <1> QED
    BY <1>2, <1>3, Zenon

LEMMA RootEntered ==
    ASSUME Parsed, NEW w, NEW v, PathInv(w), VisitInv(w, v), inside # <<>>
    PROVE  Root \in v
  <1>1. 1 \in 1 .. Len(inside)
    BY PathPlaces
  <1>2. w[1] \in T!Level[0]
    <2>1. w[1] \in T!Level[1 - 1] /\ 1 - 1 = 0
      BY <1>1 DEF PathInv
    <2> QED
      BY <2>1
  <1>3. w[1] \in v
    BY <1>1, Zenon DEF VisitInv, OnPath
  <1> QED
    BY <1>2, <1>3, LevelMembers

\* What entering a place does to the places entered.
Grown(w, v, e, s) ==
    /\ s \in SUBSET Whole /\ Root \in s /\ UpClosed(s)
    /\ \A k \in DOMAIN e.node.of : Elt(e, k) \notin s
    /\ \A l \in 1 .. Len(inside) : \A k \in DOMAIN w[l].node.of :
          Elt(w[l], k) \in s <=> k <= Taken(w, l)
    /\ Cost(s) = nodes + 1
    /\ \A x \in v : x \notin OnPath(w) => T!Elements(x) \subseteq s

LEMMA Added ==
    ASSUME Parsed, NEW w, NEW v, WalkInv(w, v), entered # <<>>, Len(inside) <= MaxDepth,
           NEW e, e = Pending(w), NEW s, s = v \cup {e}
    PROVE  Grown(w, v, e, s)
  <1> DEFINE m == Len(inside)
  <1>0. PathInv(w) /\ EnteredInv(w, v) /\ VisitInv(w, v) /\ CostInv(w, v)
    BY DEF WalkInv
  <1>1. /\ m \in Allowed /\ m \in Nat /\ m \in 0 .. MaxDepth + 1
        /\ e \in T!Level[m] /\ e \notin v /\ IsPlace(e, m)
    <2>1. m \in 0 .. MaxDepth + 1 /\ e \in T!Level[m] /\ e \notin v /\ IsPlace(e, m)
      BY <1>0, PendingPlace, Zenon
    <2> QED
      BY <2>1, TreeConstants DEF Allowed
  <1>2. s \in SUBSET Whole
    <2>1. e \in Whole
      BY <1>1 DEF Whole
    <2>2. v \in SUBSET Whole
      BY <1>0, Zenon DEF VisitInv
    <2> QED
      BY <2>1, <2>2
  <1>3. Root \in s
    <2>1. CASE inside = <<>>
      BY <2>1 DEF Pending
    <2>2. CASE inside # <<>>
      BY <1>0, <2>2, RootEntered
    <2> QED
      BY <2>1, <2>2
  <1>4. /\ inside = <<>> => e = Root
        /\ inside # <<>> =>
              /\ m \in 1 .. m /\ m - 1 \in Allowed /\ w[m] \in T!Level[m - 1]
              /\ e = Elt(w[m], Taken(w, m))
              /\ Taken(w, m) \in DOMAIN w[m].node.of
              /\ w[m] \in v
    <2>1. inside = <<>> => e = Root
      BY DEF Pending
    <2>2. ASSUME inside # <<>>
          PROVE  /\ m \in 1 .. m /\ m - 1 \in Allowed /\ w[m] \in T!Level[m - 1]
                 /\ e = Elt(w[m], Taken(w, m))
                 /\ Taken(w, m) \in DOMAIN w[m].node.of
                 /\ w[m] \in v
      <3>1. m \in 1 .. m
        BY <1>0, <2>2, PathPlaces
      <3>2. m - 1 \in Allowed /\ w[m] \in T!Level[m - 1]
        BY <1>0, <3>1, Zenon DEF PathInv
      <3>3. e = Elt(w[m], Taken(w, m))
        BY <2>2, Zenon DEF Pending
      <3>4. Taken(w, m) > 0
        BY <1>0, <2>2, Zenon DEF EnteredInv
      <3>5. /\ DOMAIN w[m].node.of = 1 .. Len(w[m].node.of) /\ Len(w[m].node.of) \in Nat
            /\ Taken(w, m) \in 0 .. Len(w[m].node.of)
        BY <1>0, <3>1, PathPlaces, Zenon
      <3>6. Taken(w, m) \in DOMAIN w[m].node.of
        BY <3>4, <3>5
      <3>7. w[m] \in v
        BY <1>0, <3>1, Zenon DEF VisitInv, OnPath
      <3> QED
        BY <3>1, <3>2, <3>3, <3>6, <3>7, Zenon
    <2> QED
      BY <2>1, <2>2, Zenon
  \* The place is an element of the innermost one only.
  <1>5. ASSUME NEW d \in Allowed, NEW x \in T!Level[d], NEW k \in DOMAIN x.node.of,
               Elt(x, k) = e
        PROVE  inside # <<>> /\ d = m - 1 /\ x = w[m] /\ k = Taken(w, m)
    <2>1. d \in Nat /\ d \in 0 .. MaxDepth + 1
      BY TreeConstants DEF Allowed
    <2>2. IsPlace(x, d)
      BY <2>1, LevelPlaces
    <2>3. IsPlace(e, d + 1)
      BY <1>5, <2>1, <2>2, EltPlace, Zenon
    <2>4. m = d + 1
      BY <1>1, <2>3, Zenon DEF IsPlace
    <2>5. inside # <<>>
      BY <2>1, <2>4, <1>0, PathPlaces
    <2> DEFINE b == Taken(w, m)
               y == w[m]
    <2>6. /\ m - 1 \in Allowed /\ y \in T!Level[m - 1] /\ b \in DOMAIN y.node.of
          /\ Elt(x, k) = Elt(y, b)
      BY <1>4, <1>5, <2>5, Zenon
    <2> HIDE DEF b, y
    <2>7. d = m - 1 /\ x = y /\ k = b
      BY <2>6, EltsApart
    <2> QED
      BY <2>5, <2>7 DEF b, y
  <1>6. UpClosed(s)
    <2> SUFFICES ASSUME NEW d \in Allowed, NEW x \in T!Level[d], NEW k \in DOMAIN x.node.of,
                        Elt(x, k) \in s
                 PROVE  x \in s
      BY Zenon DEF UpClosed
    <2>1. CASE Elt(x, k) \in v
      BY <2>1, <1>0, Zenon DEF VisitInv, UpClosed
    <2>2. CASE Elt(x, k) = e
      BY <2>2, <1>4, <1>5, Zenon
    <2> QED
      BY <2>1, <2>2
  <1>7. ASSUME NEW k \in DOMAIN e.node.of
        PROVE  Elt(e, k) \notin s
    <2>1. Elt(e, k) \notin v
      BY <1>0, <1>1, Zenon DEF VisitInv, UpClosed
    <2>2. IsPlace(Elt(e, k), m + 1)
      BY <1>1, EltPlace
    <2>3. m + 1 # m
      BY <1>1
    <2>4. Elt(e, k) # e
      BY <1>1, <2>2, <2>3, Zenon DEF IsPlace
    <2> QED
      BY <2>1, <2>4
  <1>8. ASSUME NEW l \in 1 .. m, NEW k \in DOMAIN w[l].node.of
        PROVE  Elt(w[l], k) \in s <=> k <= Taken(w, l)
    <2>1. l - 1 \in Allowed /\ w[l] \in T!Level[l - 1]
      BY <1>0, Zenon DEF PathInv
    <2>2. Elt(w[l], k) \in v <=> k <= Done(w, l)
      BY <1>0, Zenon DEF VisitInv
    <2>3. Elt(w[l], k) = e => l - 1 = m - 1 /\ k = Taken(w, l)
      BY <1>5, <2>1
    <2>4. k \in Nat /\ Taken(w, l) \in Nat /\ l \in Nat
      BY <1>0, <1>1, PathPlaces
    <2>5. CASE l # m
      <3>1. Elt(w[l], k) # e
        BY <1>1, <2>3, <2>4, <2>5
      <3>2. Done(w, l) = Taken(w, l)
        BY <2>5, Zenon DEF Done
      <3> QED
        BY <2>2, <3>1, <3>2
    <2>6. CASE l = m
      <3>1. Done(w, l) = Taken(w, l) - 1
        BY <2>6, Zenon DEF Done
      <3>2. e = Elt(w[l], Taken(w, l))
        BY <1>4, <2>6, <1>0, PathPlaces
      <3>3. Elt(w[l], k) = e <=> k = Taken(w, l)
        BY <2>3, <3>2, Zenon
      <3>4. k <= Taken(w, l) <=> k <= Done(w, l) \/ k = Taken(w, l)
        BY <2>4, <3>1
      <3> QED
        BY <2>2, <3>3, <3>4
    <2> QED
      BY <2>5, <2>6
  <1>9. Cost(s) = nodes + 1
    <2>1. IsFiniteSet(v)
      BY <1>0, WholeFinite, FS_Subset, Zenon DEF VisitInv
    <2>2. e.cell \in BOOLEAN
      BY <1>1, Zenon DEF IsPlace
    <2>3. Cost(v) \in Nat /\ Cost(s) = Cost(v) + 1 + (IF e.cell THEN 1 ELSE 0)
      BY <1>1, <2>1, <2>2, CostMore
    <2>4. nodes = Cost(v) + (IF e.cell THEN 1 ELSE 0)
      BY <1>0 DEF CostInv, PendingCell
    <2> QED
      BY <2>3, <2>4
  <1>10. \A x \in v : x \notin OnPath(w) => T!Elements(x) \subseteq s
    BY <1>0 DEF VisitInv
  <1> QED
    BY <1>2, <1>3, <1>6, <1>7, <1>8, <1>9, <1>10, Zenon DEF Grown

LEMMA EnterWalk ==
    ASSUME Parsed, NEW w, NEW v, WalkInv(w, v), T!Enter
    PROVE  \E x, y : WalkInv(x, y)'
  <1> DEFINE m == Len(inside)
  <1>0. PathInv(w) /\ EnteredInv(w, v) /\ VisitInv(w, v) /\ CostInv(w, v)
    BY DEF WalkInv
  <1>1. /\ entered # <<>> /\ m <= MaxDepth /\ nodes + 1 <= MaxNodes
        /\ nodes' = nodes + 1 /\ entered' = <<>> /\ tree' = tree
        /\ inside' = IF entered[1].kind = "leaf" THEN inside ELSE Append(inside, entered[1])
    BY DEF T!Enter
  <1>2. PICK e : e = Pending(w)
    OBVIOUS
  <1>3. PICK s : s = v \cup {e}
    OBVIOUS
  <1>4. /\ s \in SUBSET Whole /\ Root \in s /\ UpClosed(s)
        /\ \A k \in DOMAIN e.node.of : Elt(e, k) \notin s
        /\ \A l \in 1 .. m : \A k \in DOMAIN w[l].node.of : Elt(w[l], k) \in s <=> k <= Taken(w, l)
        /\ Cost(s) = nodes + 1
        /\ \A x \in v : x \notin OnPath(w) => T!Elements(x) \subseteq s
    <2>1. Grown(w, v, e, s)
      BY <1>1, <1>2, <1>3, Added, Zenon
    <2> QED
      BY <2>1, Zenon DEF Grown
  <1>5. /\ T!Level' = T!Level /\ Whole' = Whole /\ Root' = Root /\ UpClosed(s)'
    BY <1>1, <1>4, FixedTree
  <1>6. /\ m \in Nat /\ m \in Allowed /\ e \in T!Level[m] /\ IsPlace(e, m) /\ entered[1] = e.node
        /\ inside \in Frames
    BY <1>0, <1>1, <1>2, PendingPlace, PathPlaces, TreeConstants DEF Allowed, PathInv
  <1>7. \A x : EnteredInv(x, s)'
    BY <1>1, <1>4, <1>5 DEF EnteredInv
  <1>8. \A x : CostInv(x, s)'
    <2>1. \A x : PendingCell(x)' = 0
      BY <1>1 DEF PendingCell
    <2> QED
      BY <1>1, <1>4, <2>1, <1>0, WholeFinite, CostGrows DEF CostInv
  <1>9. CASE e.node.kind = "leaf"
    <2>1. inside' = inside
      BY <1>1, <1>6, <1>9
    <2>2. \A l : Taken(w, l)' = Taken(w, l)
      BY <2>1 DEF Taken
    <2>3. PathInv(w)'
      BY <1>0, <1>5, <2>1, <2>2 DEF PathInv, Rest
    <2>4. OnPath(w)' = OnPath(w)
      BY <2>1 DEF OnPath
    <2>5. e.node.of = <<>>
      BY <1>6, <1>9, TreeConstants DEF IsPlace
    <2>6. \A x \in s : x \notin OnPath(w)' => T!Elements(x) \subseteq s
      <3>1. T!Elements(e) = {}
        BY <2>5, ElementsElt
      <3> QED
        BY <1>3, <1>4, <2>4, <3>1
    <2>7. OnPath(w)' \subseteq s
      BY <1>0, <1>3, <2>4 DEF VisitInv
    <2>8. \A l : Done(w, l)' = Taken(w, l)
      BY <1>1, <2>2 DEF Done
    <2>9. VisitInv(w, s)'
      BY <1>4, <1>5, <2>1, <2>6, <2>7, <2>8 DEF VisitInv, T!Elements
    <2> QED
      BY <1>7, <1>8, <2>3, <2>9 DEF WalkInv
  <1>10. CASE e.node.kind # "leaf"
    <2>0. PICK j \in Nat : j = m + 1
      BY <1>6
    <2>1. PICK x : x = [l \in 1 .. j |-> IF l = j THEN e ELSE w[l]]
      OBVIOUS
    <2>2. x[j] = e /\ \A l \in 1 .. m : x[l] = w[l]
      BY <2>0, <1>6, <2>1
    <2>3. inside' = Append(inside, e.node)
      BY <2>0, <1>1, <1>6, <1>10
    <2>4. e.node \in [kind : {"list", "vector"}, of : Seq(Objects)]
      <3>1. PICK b \in Objects : b = e.node
        BY <2>0, <1>6 DEF IsPlace
      <3>2. /\ b = [kind |-> b.kind, of |-> b.of] /\ b.of \in Seq(Objects)
            /\ b.kind \in {"list", "vector"}
        BY <2>0, <1>10, <3>1, TreeConstants
      <3> QED
        BY <2>0, <3>1, <3>2
    <2>5. inside' \in Frames
      BY <2>0, <1>6, <2>3, <2>4 DEF Frames
    <2>6. /\ Len(inside') = j /\ inside'[j] = e.node
          /\ \A l \in 1 .. m : inside'[l] = inside[l]
      BY <2>0, <1>6, <2>3 DEF Frames
    <2>7. /\ Taken(x, j)' = 0
          /\ \A l \in 1 .. m : Taken(x, l)' = Taken(w, l)
      <3>1. Len(e.node.of) \in Nat
        BY <1>6, <2>4
      <3>2. Taken(x, j)' = Len(x[j].node.of) - Len(inside'[j].of)
        BY DEF Taken
      <3>3. Taken(x, j)' = 0
        BY <2>2, <2>6, <3>1, <3>2
      <3>4. ASSUME NEW l \in 1 .. m
            PROVE  Taken(x, l)' = Taken(w, l)
        <4>1. x[l] = w[l] /\ inside'[l] = inside[l]
          BY <2>2, <2>6
        <4> QED
          BY <4>1, Zenon DEF Taken
      <3> QED
        BY <3>3, <3>4
    <2>8. PathInv(x)'
      <3> DEFINE Good(l) == /\ l - 1 \in Allowed /\ x[l] \in T!Level[l - 1]
                            /\ inside'[l].kind = x[l].node.kind
                            /\ Rest(x, l)'
      <3>1. Good(j)
        <4>1. j - 1 = m
          BY <2>0, <1>6
        <4>2. Rest(x, j)'
          BY <2>0, <2>2, <2>6, <2>7, <1>6, <2>4 DEF Rest
        <4>3. /\ j - 1 \in Allowed /\ x[j] \in T!Level[j - 1]
              /\ inside'[j].kind = x[j].node.kind
          BY <2>0, <1>6, <2>2, <2>6, <4>1, Zenon
        <4> QED
          BY <2>0, <4>2, <4>3, Zenon
      <3>2. ASSUME NEW l \in 1 .. m
            PROVE  Good(l)
        <4>1. Rest(w, l) /\ Taken(x, l)' = Taken(w, l) /\ x[l] = w[l] /\ inside'[l] = inside[l]
          BY <2>0, <1>0, <2>2, <2>6, <2>7 DEF PathInv
        <4>2. Rest(x, l)'
          BY <2>0, <4>1 DEF Rest
        <4> QED
          BY <2>0, <1>0, <4>1, <4>2 DEF PathInv
      <3> HIDE DEF Good
      <3>3. \A l \in 1 .. Len(inside') : Good(l)
        BY <2>0, <1>6, <2>6, <3>1, <3>2
      <3> QED
        BY <2>0, <1>5, <2>5, <3>3 DEF PathInv, Good
    <2>9. OnPath(x)' = OnPath(w) \cup {e}
      <3>1. OnPath(x)' = {x[l] : l \in 1 .. j}
        BY <2>0, <2>6 DEF OnPath
      <3>2. \A l : l \in 1 .. j <=> l \in 1 .. m \/ l = j
        BY <1>6, <2>0
      <3>3. \A b : b \in OnPath(x)' <=> b \in OnPath(w) \/ b = e
        BY <2>2, <3>1, <3>2 DEF OnPath
      <3> QED
        BY <3>3
    <2>10. OnPath(x)' \subseteq s
      BY <2>0, <1>0, <1>3, <2>9 DEF VisitInv
    <2>11. \A b \in s : b \notin OnPath(x)' => T!Elements(b) \subseteq s
      BY <2>0, <1>3, <1>4, <2>9
    <2>12. ASSUME NEW l \in 1 .. j, NEW k \in DOMAIN x[l].node.of
           PROVE  Elt(x[l], k) \in s <=> k <= Done(x, l)'
      <3>1. Done(x, l)' = Taken(x, l)'
        BY <2>0, <1>1 DEF Done
      <3>2. CASE l = j
        <4>0. k \in DOMAIN e.node.of
          BY <2>0, <2>2, <3>2
        <4>1. k \in Nat /\ k > 0
          BY <2>0, <1>6, <4>0, EltPlace
        <4>2. Done(x, l)' = 0 /\ x[l] = e
          BY <2>0, <2>2, <2>7, <3>1, <3>2
        <4>3. Elt(x[l], k) \notin s
          BY <2>0, <1>4, <4>0, <4>2
        <4> QED
          BY <2>0, <4>1, <4>2, <4>3
      <3>3. CASE l \in 1 .. m
        BY <2>0, <1>4, <2>2, <2>7, <3>1, <3>3
      <3> QED
        BY <2>0, <1>6, <3>2, <3>3
    <2>13. VisitInv(x, s)'
      BY <2>0, <1>4, <1>5, <2>6, <2>10, <2>11, <2>12 DEF VisitInv, T!Elements
    <2> QED
      BY <2>0, <1>7, <1>8, <2>8, <2>13 DEF WalkInv
  <1> QED
    BY <1>9, <1>10

LEMMA CellWalk ==
    ASSUME Parsed, NEW w, NEW v, WalkInv(w, v), T!Cell
    PROVE  WalkInv(w, v)'
  <1>0. PathInv(w) /\ EnteredInv(w, v) /\ VisitInv(w, v) /\ CostInv(w, v)
    BY DEF WalkInv
  <1>1. PICK m : m = Len(inside)
    OBVIOUS
  <1>2. /\ entered = <<>> /\ inside # <<>> /\ inside[m].of # <<>>
        /\ nodes + T!CellCost <= MaxNodes /\ nodes' = nodes + T!CellCost
        /\ entered' = <<Head(inside[m].of)>> /\ tree' = tree
        /\ inside' = [inside EXCEPT ![m].of = Tail(@)]
    BY <1>1, Zenon DEF T!Cell, T!Turning, T!Deepest
  <1>3. /\ m \in Nat /\ m \in 1 .. m /\ m \in 1 .. Len(inside)
        /\ w[m].node.kind \in {"list", "vector"} /\ inside[m].kind = w[m].node.kind
    <2>1. m \in Nat /\ m # 0
      BY <1>0, <1>1, <1>2, PathPlaces
    <2>2. m \in 1 .. m /\ m \in 1 .. Len(inside)
      BY <1>1, <2>1
    <2> QED
      BY <1>0, <2>1, <2>2, PathPlaces DEF PathInv
  <1>4. PICK b \in Seq(Objects) : b = inside[m].of
    BY <1>0, <1>3, PathPlaces
  <1>5. PICK g \in Seq(Objects) : g = w[m].node.of
    BY <1>0, <1>3, PathPlaces
  <1>6. PICK c \in Seq(Objects) : c = Tail(b)
    <2>1. b # <<>>
      BY <1>2, <1>4
    <2>2. Tail(b) \in Seq(Objects)
      BY <2>1
    <2> QED
      BY <2>2
  <1>7. /\ Len(c) = Len(b) - 1 /\ Len(b) \in Nat /\ Len(g) \in Nat /\ Len(b) > 0
        /\ \A k \in 1 .. Len(c) : c[k] = b[k + 1]
        /\ Head(b) = b[1]
    BY <1>2, <1>4, <1>6
  <1>8. PICK r \in Nat : r = Taken(w, m)
    BY <1>0, <1>3 DEF PathInv, Rest
  <1>9. /\ r = Len(g) - Len(b)
        /\ \A k \in 1 .. Len(b) : b[k] = g[r + k]
    BY <1>0, <1>3, <1>4, <1>5, <1>8 DEF PathInv, Rest, Taken
  \* What is left of the innermost place, and of the others.
  <1>10. /\ Len(inside') = m /\ inside' \in Frames
         /\ inside'[m].kind = inside[m].kind /\ inside'[m].of = c
         /\ \A l \in 1 .. m : l # m => inside'[l] = inside[l]
    <2> DEFINE X == [kind : {"list", "vector"}, of : Seq(Objects)]
    <2>1. inside \in Seq(X)
      BY <1>0 DEF PathInv, Frames
    <2>2. PICK f : f = [inside[m] EXCEPT !.of = c]
      OBVIOUS
    <2>3. inside[m] \in X
      BY <1>0, <1>3, PathPlaces
    <2>4. f \in X /\ f.kind = inside[m].kind /\ f.of = c
      BY <2>2, <2>3, <1>6
    <2>5. inside' = [inside EXCEPT ![m] = f]
      BY <1>2, <1>4, <1>6, <2>2
    <2> HIDE DEF X
    <2>6. inside' \in Seq(X) /\ Len(inside') = Len(inside)
      BY <2>1, <2>4, <2>5, <1>3
    <2>7. inside'[m] = f /\ \A l \in 1 .. m : l # m => inside'[l] = inside[l]
      BY <2>1, <2>5, <1>1, <1>3
    <2> QED
      BY <1>1, <2>4, <2>6, <2>7 DEF X, Frames
  <1>11. /\ Taken(w, m)' = r + 1
         /\ \A l \in 1 .. m : l # m => Taken(w, l)' = Taken(w, l)
    <2>1. Taken(w, m)' = Len(g) - Len(c)
      BY <1>5, <1>10 DEF Taken
    <2>2. ASSUME NEW l \in 1 .. m, l # m
          PROVE  Taken(w, l)' = Taken(w, l)
      BY <1>10, <2>2, Zenon DEF Taken
    <2> QED
      BY <1>7, <1>9, <2>1, <2>2
  <1>12. T!Level' = T!Level /\ Whole' = Whole /\ Root' = Root /\ (UpClosed(v)' <=> UpClosed(v))
    BY <1>2, FixedTree
  <1>13. PathInv(w)'
    <2> DEFINE Good(l) == /\ l - 1 \in Allowed /\ w[l] \in T!Level[l - 1]
                          /\ inside'[l].kind = w[l].node.kind
                          /\ Rest(w, l)'
    <2>1. Good(m)
      <3>1. ASSUME NEW k \in 1 .. Len(c)
            PROVE  c[k] = g[(r + 1) + k]
        <4>1. k + 1 \in 1 .. Len(b) /\ r + (k + 1) = (r + 1) + k
          BY <1>7
        <4>2. c[k] = b[k + 1] /\ b[k + 1] = g[r + (k + 1)]
          BY <1>7, <1>9, <4>1
        <4> QED
          BY <4>1, <4>2
      <3>2. Rest(w, m)'
        BY <1>5, <1>8, <1>10, <1>11, <3>1 DEF Rest
      <3> QED
        BY <1>0, <1>3, <1>10, <3>2 DEF PathInv
    <2>2. ASSUME NEW l \in 1 .. m, l # m
          PROVE  Good(l)
      <3>1. Rest(w, l) /\ Taken(w, l)' = Taken(w, l) /\ inside'[l] = inside[l]
        BY <1>0, <1>1, <1>10, <1>11, <2>2 DEF PathInv
      <3>2. Rest(w, l)'
        BY <3>1 DEF Rest
      <3> QED
        BY <1>0, <1>1, <3>1, <3>2 DEF PathInv
    <2> HIDE DEF Good
    <2>3. \A l \in 1 .. Len(inside') : Good(l)
      BY <1>10, <2>1, <2>2
    <2> QED
      BY <1>10, <1>12, <2>3 DEF PathInv, Good
  <1>14. inside' # <<>> /\ entered' # <<>>
    BY <1>2, <1>3, <1>10
  <1>15. Pending(w)' = Elt(w[m], r + 1)
    BY <1>10, <1>11, <1>14 DEF Pending
  <1>16. EnteredInv(w, v)'
    <2>1. Pending(w)'.node = g[r + 1]
      BY <1>5, <1>15 DEF Elt
    <2>2. b[1] = g[r + 1]
      BY <1>7, <1>9
    <2>3. entered' = <<Pending(w)'.node>>
      BY <1>2, <1>4, <1>7, <2>1, <2>2
    <2>4. Taken(w, Len(inside))' > 0
      BY <1>10, <1>11
    <2> QED
      BY <1>14, <2>3, <2>4 DEF EnteredInv
  <1>17. \A l \in 1 .. m : Done(w, l)' = Done(w, l)
    <2>1. Done(w, m)' = (r + 1) - 1
      BY <1>2, <1>10, <1>11, <1>14 DEF Done
    <2>2. Done(w, m) = r
      BY <1>2, <1>8 DEF Done
    <2>3. ASSUME NEW l \in 1 .. m, l # m
          PROVE  Done(w, l)' = Done(w, l)
      BY <1>2, <1>10, <1>11, <2>3 DEF Done
    <2> QED
      BY <2>1, <2>2, <2>3
  <1>18. VisitInv(w, v)'
    <2>1. OnPath(w)' = OnPath(w)
      BY <1>1, <1>10 DEF OnPath
    <2> QED
      BY <1>0, <1>1, <1>10, <1>12, <1>17, <2>1 DEF VisitInv, T!Elements
  <1>19. CostInv(w, v)'
    <2>1. T!CellCost = IF w[m].node.kind = "list" THEN 1 ELSE 0
      BY <1>1, <1>3 DEF T!CellCost, T!Deepest
    <2>2. Pending(w)'.cell = (w[m].node.kind = "list")
      BY <1>15 DEF Elt
    <2>3. PendingCell(w)' = T!CellCost
      BY <1>14, <2>1, <2>2 DEF PendingCell
    <2>4. PendingCell(w) = 0 /\ nodes = Cost(v) + 0
      BY <1>0, <1>2 DEF PendingCell, CostInv
    <2>5. Cost(v) \in Nat
      BY <1>0, WholeFinite, CostGrows DEF VisitInv
    <2> QED
      BY <1>2, <2>3, <2>4, <2>5 DEF CostInv
  <1> QED
    BY <1>13, <1>16, <1>18, <1>19 DEF WalkInv

LEMMA ReturnWalk ==
    ASSUME Parsed, NEW w, NEW v, WalkInv(w, v), T!Return
    PROVE  WalkInv(w, v)'
  <1>0. PathInv(w) /\ EnteredInv(w, v) /\ VisitInv(w, v) /\ CostInv(w, v)
    BY DEF WalkInv
  <1>1. PICK m : m = Len(inside)
    OBVIOUS
  <1>2. /\ entered = <<>> /\ inside # <<>> /\ inside[m].of = <<>>
        /\ entered' = <<>> /\ tree' = tree /\ nodes' = nodes
        /\ inside' = SubSeq(inside, 1, m - 1)
    BY <1>1, Zenon DEF T!Return, T!Deepest
  <1>3. m \in Nat /\ m \in 1 .. m /\ m \in 1 .. Len(inside)
    <2>1. m \in Nat /\ m # 0
      BY <1>0, <1>1, <1>2, PathPlaces
    <2> QED
      BY <1>1, <2>1
  <1>4. /\ Len(inside') = m - 1 /\ inside' \in Frames
        /\ \A l \in 1 .. m - 1 : inside'[l] = inside[l] /\ l \in 1 .. m
    <2> DEFINE X == [kind : {"list", "vector"}, of : Seq(Objects)]
    <2>1. inside \in Seq(X)
      BY <1>0 DEF PathInv, Frames
    <2> HIDE DEF X
    <2>2. Len(inside') = m - 1 /\ inside' \in Seq(X)
      BY <1>1, <1>2, <1>3, <2>1
    <2>3. \A l \in 1 .. m - 1 : inside'[l] = inside[l] /\ l \in 1 .. m
      BY <1>1, <1>2, <1>3, <2>1
    <2> QED
      BY <2>2, <2>3 DEF X, Frames
  <1>5. \A l \in 1 .. m - 1 : Taken(w, l)' = Taken(w, l)
    BY <1>4 DEF Taken
  <1>6. T!Level' = T!Level /\ Whole' = Whole /\ Root' = Root /\ (UpClosed(v)' <=> UpClosed(v))
    BY <1>2, FixedTree
  <1>7. PathInv(w)'
    <2> DEFINE Good(l) == /\ l - 1 \in Allowed /\ w[l] \in T!Level[l - 1]
                          /\ inside'[l].kind = w[l].node.kind
                          /\ Rest(w, l)'
    <2>1. ASSUME NEW l \in 1 .. m - 1
          PROVE  Good(l)
      <3>1. Rest(w, l) /\ Taken(w, l)' = Taken(w, l) /\ inside'[l] = inside[l]
        BY <1>0, <1>1, <1>4, <1>5 DEF PathInv
      <3>2. Rest(w, l)'
        BY <3>1 DEF Rest
      <3> QED
        BY <1>0, <1>1, <1>4, <3>1, <3>2 DEF PathInv
    <2> HIDE DEF Good
    <2>2. \A l \in 1 .. Len(inside') : Good(l)
      BY <1>4, <2>1
    <2> QED
      BY <1>4, <1>6, <2>2 DEF PathInv, Good
  <1>8. EnteredInv(w, v)'
    BY <1>0, <1>2, <1>6 DEF EnteredInv
  \* All the elements of the place that it leaves have been entered.
  <1>9. T!Elements(w[m]) \subseteq v
    <2>1. PICK g \in Seq(Objects) : g = w[m].node.of
      BY <1>0, <1>3, PathPlaces
    <2>2. Done(w, m) = Len(g) - 0
      BY <1>2, <2>1 DEF Done, Taken
    <2>3. ASSUME NEW k \in DOMAIN g
          PROVE  Elt(w[m], k) \in v
      <3>1. k <= Done(w, m)
        BY <2>1, <2>2
      <3> QED
        BY <1>0, <1>3, <2>1, <3>1 DEF VisitInv
    <2> QED
      BY <2>1, <2>3, ElementsElt
  <1>10. VisitInv(w, v)'
    <2>1. OnPath(w) = OnPath(w)' \cup {w[m]}
      <3>1. \A l : l \in 1 .. m <=> l \in 1 .. m - 1 \/ l = m
        BY <1>3
      <3>2. OnPath(w)' = {w[l] : l \in 1 .. m - 1}
        BY <1>4 DEF OnPath
      <3>3. \A b : b \in OnPath(w) <=> b \in OnPath(w)' \/ b = w[m]
        BY <1>1, <3>1, <3>2 DEF OnPath
      <3> QED
        BY <3>3
    <2>2. \A b \in v : b \notin OnPath(w)' => T!Elements(b) \subseteq v
      BY <1>0, <1>9, <2>1 DEF VisitInv
    <2>3. OnPath(w)' \subseteq v
      BY <1>0, <2>1 DEF VisitInv
    <2>4. \A l \in 1 .. m - 1 : Done(w, l)' = Done(w, l)
      BY <1>2, <1>5 DEF Done
    <2>5. \A l \in 1 .. Len(inside') : \A k \in DOMAIN w[l].node.of :
             Elt(w[l], k) \in v <=> k <= Done(w, l)'
      BY <1>0, <1>1, <1>4, <2>4 DEF VisitInv
    <2> QED
      BY <1>0, <1>6, <2>2, <2>3, <2>5 DEF VisitInv, T!Elements
  <1>11. CostInv(w, v)'
    BY <1>0, <1>2 DEF CostInv, PendingCell
  <1> QED
    BY <1>7, <1>8, <1>10, <1>11 DEF WalkInv

LEMMA RefusedExcessive ==
    ASSUME Parsed, NEW w, NEW v, WalkInv(w, v), T!EnterRefused \/ T!CellRefused
    PROVE  Excessive
  <1>0. PathInv(w) /\ EnteredInv(w, v) /\ VisitInv(w, v) /\ CostInv(w, v)
    BY DEF WalkInv
  <1>1. PICK m : m = Len(inside)
    OBVIOUS
  <1>2. v \in SUBSET Whole /\ Cost(v) \in Nat /\ m \in Nat /\ MaxDepth \in Nat /\ MaxNodes \in Nat
    BY <1>0, <1>1, WholeFinite, CostGrows, PathPlaces, TreeConstants DEF VisitInv
  <1>3. CASE T!EnterRefused
    <2>1. entered # <<>> /\ (m > MaxDepth \/ nodes + 1 > MaxNodes)
      BY <1>1, <1>3 DEF T!EnterRefused
    <2>2. PICK e : e = Pending(w)
      OBVIOUS
    <2>3. m \in 0 .. MaxDepth + 1 /\ e \in T!Level[m] /\ e \notin v
      BY <1>0, <1>1, <2>1, <2>2, PendingPlace
    <2>4. nodes = Cost(v) + (IF e.cell THEN 1 ELSE 0)
      BY <1>0, <2>1, <2>2 DEF CostInv, PendingCell
    <2>5. m <= MaxDepth => Cost(v) + 1 + (IF e.cell THEN 1 ELSE 0) > MaxNodes
      BY <1>2, <2>1, <2>4
    <2> QED
      BY <1>2, <2>3, <2>5, OneMore
  <1>4. CASE T!CellRefused
    <2>1. entered = <<>> /\ inside # <<>> /\ inside[m].of # <<>> /\ nodes + T!CellCost > MaxNodes
      BY <1>1, <1>4 DEF T!CellRefused, T!Turning, T!Deepest
    <2>2. m \in 1 .. Len(inside) /\ m <= MaxDepth + 1
      BY <1>0, <1>1, <1>2, <2>1, PathPlaces
    <2>3. PICK g \in Seq(Objects) : g = w[m].node.of
      BY <1>0, <2>2, PathPlaces
    <2>4. PICK b \in Seq(Objects) : b = inside[m].of
      BY <1>0, <2>2, PathPlaces
    <2>5. PICK r \in Nat : r = Taken(w, m) /\ r = Len(g) - Len(b)
      BY <1>0, <2>2, <2>3, <2>4 DEF PathInv, Rest, Taken
    <2>6. r + 1 \in DOMAIN g
      <3>1. Len(b) \in Nat /\ Len(b) # 0 /\ Len(g) \in Nat
        BY <2>1, <2>4
      <3> QED
        BY <2>5, <3>1
    <2>7. m - 1 \in Allowed /\ w[m] \in T!Level[m - 1] /\ w[m].node.kind = inside[m].kind
      BY <1>0, <2>2 DEF PathInv
    <2>8. PICK e : e = Elt(w[m], r + 1)
      OBVIOUS
    <2>9. e \in T!Level[m]
      <3>1. e \in T!Level[(m - 1) + 1]
        BY <2>3, <2>6, <2>7, <2>8, LevelMembers
      <3>2. (m - 1) + 1 = m
        BY <1>2
      <3> QED
        BY <3>1, <3>2
    <2>10. e \notin v
      <3>1. Done(w, m) = r
        BY <2>1, <2>5 DEF Done
      <3>2. ~ (r + 1 <= Done(w, m))
        BY <3>1
      <3> QED
        BY <1>0, <2>2, <2>3, <2>6, <2>8, <3>2 DEF VisitInv
    <2>11. nodes = Cost(v)
      BY <1>0, <1>2, <2>1 DEF CostInv, PendingCell
    <2>12. T!CellCost = IF e.cell THEN 1 ELSE 0
      BY <1>1, <2>7, <2>8 DEF T!CellCost, T!Deepest, Elt
    <2>13. Cost(v) + 1 + (IF e.cell THEN 1 ELSE 0) > MaxNodes
      BY <1>2, <2>1, <2>11, <2>12
    <2>14. m \in 0 .. MaxDepth + 1
      BY <1>2, <2>2
    <2> QED
      BY <1>2, <2>9, <2>10, <2>13, <2>14, OneMore
  <1> QED
    BY <1>3, <1>4

\* When the walk has returned, it has entered every place, and none too deep.
LEMMA ReturnedWithin ==
    ASSUME Parsed, NEW w, NEW v, WalkInv(w, v), entered = <<>>, inside = <<>>
    PROVE  ~ Excessive
  <1>0. PathInv(w) /\ EnteredInv(w, v) /\ VisitInv(w, v) /\ CostInv(w, v)
    BY DEF WalkInv
  <1>1. /\ Root \in v /\ v \in SUBSET Whole
        /\ \A x \in v : T!Elements(x) \subseteq v
    <2>1. OnPath(w) = {}
      BY DEF OnPath
    <2> QED
      BY <1>0, <2>1 DEF EnteredInv, VisitInv
  <1>2. MaxDepth \in Nat /\ MaxNodes \in Nat
    BY TreeConstants
  <1> DEFINE S == {d \in Nat : d <= MaxDepth + 1 => T!Level[d] \subseteq v}
  <1>3. 0 \in S
    BY <1>1, LevelMembers
  <1>4. ASSUME NEW d \in Nat, d \in S
        PROVE  d + 1 \in S
    <2> SUFFICES ASSUME d + 1 <= MaxDepth + 1, NEW y \in T!Level[d + 1]
                 PROVE  y \in v
      OBVIOUS
    <2>1. d \in Allowed /\ d <= MaxDepth + 1
      BY <1>2 DEF Allowed
    <2>2. PICK x \in T!Level[d] : y \in T!Elements(x)
      BY <2>1, LevelMembers, ElementsElt
    <2> QED
      BY <1>1, <1>4, <2>1, <2>2
  <1> HIDE DEF S
  <1>5. Nat \subseteq S
    BY <1>3, <1>4, SetInduction
  <1>6. \A d \in 0 .. MaxDepth + 1 : T!Level[d] \subseteq v
    <2>1. \A d \in 0 .. MaxDepth + 1 : d \in Nat /\ d <= MaxDepth + 1
      BY <1>2
    <2> QED
      BY <1>5, <2>1 DEF S
  <1>7. v = Whole
    <2>1. \A d \in Allowed : T!Level[d] \subseteq v
      BY <1>2, <1>6 DEF Allowed
    <2> QED
      BY <1>1, <2>1 DEF Whole
  <1>8. ~ T!TooDeep
    <2> SUFFICES ASSUME NEW x \in T!Level[MaxDepth + 1]
                 PROVE  FALSE
      BY DEF T!TooDeep
    <2>1. MaxDepth + 1 \in 0 .. MaxDepth + 1
      BY <1>2
    <2>2. x \in Whole
      BY <1>1, <1>6, <2>1
    <2>3. PICK d \in Allowed : x \in T!Level[d]
      BY <2>2 DEF Whole
    <2>4. d \in 0 .. MaxDepth + 1 /\ d # MaxDepth + 1
      BY <1>2 DEF Allowed
    <2> QED
      BY <2>1, <2>3, <2>4, LevelsApart
  <1>9. ~ (Cost(Whole) > MaxNodes)
    <2>1. nodes = Cost(v) + 0 /\ nodes <= MaxNodes
      BY <1>0 DEF CostInv, PendingCell
    <2>2. Cost(v) \in Nat
      BY <1>1, WholeFinite, CostGrows
    <2> QED
      BY <1>2, <1>7, <2>1, <2>2
  <1> QED
    BY <1>8, <1>9 DEF Excessive

LEMMA InitTInv == T!Init => TInv
  <1> SUFFICES ASSUME T!Init
               PROVE  TInv
    OBVIOUS
  <1>1. /\ Parsed /\ entered = <<tree>> /\ inside = <<>> /\ nodes = 0 /\ walked = "open"
    BY DEF T!Init, Parsed
  <1>2. Len(inside) = 0 /\ 1 .. Len(inside) = {} /\ inside \in Frames
    BY <1>1 DEF Frames
  <1>3. PathInv(<<>>)
    BY <1>2 DEF PathInv
  <1>4. Pending(<<>>) = Root /\ Root.node = tree /\ Root.cell = FALSE
    BY <1>1 DEF Pending, Root
  <1>5. EnteredInv(<<>>, {})
    BY <1>1, <1>4 DEF EnteredInv
  <1>6. VisitInv(<<>>, {})
    BY <1>2 DEF VisitInv, OnPath, UpClosed
  <1>7. CostInv(<<>>, {})
    <2>1. Cost({}) = 0
      <3>1. Cells({}) = {}
        BY DEF Cells
      <3> QED
        BY <3>1, FS_EmptySet DEF Cost
    <2> QED
      BY <1>1, <1>4, <2>1, TreeConstants DEF CostInv, PendingCell
  <1> QED
    BY <1>1, <1>3, <1>5, <1>6, <1>7 DEF TInv, WalkInv

LEMMA NextTInv == TInv /\ [T!Next]_treeVars => TInv'
  <1> SUFFICES ASSUME TInv, [T!Next]_treeVars
               PROVE  TInv'
    OBVIOUS
  <1>1. CASE UNCHANGED treeVars
    <2>1. /\ tree' = tree /\ entered' = entered /\ inside' = inside /\ nodes' = nodes
          /\ walked' = walked
      BY <1>1 DEF treeVars
    <2>2. /\ T!Level' = T!Level /\ Whole' = Whole /\ Root' = Root /\ (Excessive' <=> Excessive)
          /\ \A v : UpClosed(v)' <=> UpClosed(v)
          /\ Parsed' <=> Parsed
      BY <2>1, FixedTree
    <2>3. ASSUME NEW w, NEW v, WalkInv(w, v)
          PROVE  WalkInv(w, v)'
      <3>1. \A l : Taken(w, l)' = Taken(w, l)
        BY <2>1 DEF Taken
      <3>2. Pending(w)' = Pending(w)
        BY <2>1, <2>2, <3>1 DEF Pending
      <3>3. PathInv(w)'
        BY <2>1, <2>2, <2>3, <3>1 DEF WalkInv, PathInv, Rest
      <3>4. EnteredInv(w, v)' /\ CostInv(w, v)'
        BY <2>1, <2>2, <2>3, <3>1, <3>2 DEF WalkInv, EnteredInv, CostInv, PendingCell
      <3>5. VisitInv(w, v)'
        BY <2>1, <2>2, <2>3, <3>1 DEF WalkInv, VisitInv, OnPath, Done, T!Elements
      <3> QED
        BY <3>3, <3>4, <3>5 DEF WalkInv
    <2> QED
      BY <2>1, <2>2, <2>3 DEF TInv
  <1>2. CASE T!Next
    <2>1. walked = "open" /\ tree' = tree
      BY <1>2 DEF T!Next, T!EnterRefused, T!Enter, T!CellRefused, T!Cell, T!Return,
                  T!Returned, T!Refuse, T!Turning, T!Open
    <2>2. Parsed /\ Parsed' /\ (Excessive' <=> Excessive)
      BY <2>1, FixedTree DEF TInv
    <2>3. PICK w, v : WalkInv(w, v)
      BY <2>1 DEF TInv
    <2>4. CASE T!EnterRefused \/ T!CellRefused
      <3>1. walked' = "refused"
        BY <2>4 DEF T!EnterRefused, T!CellRefused, T!Refuse
      <3>2. Excessive
        BY <2>2, <2>3, <2>4, RefusedExcessive
      <3> QED
        BY <2>2, <3>1, <3>2 DEF TInv
    <2>5. CASE T!Enter
      <3>1. walked' = walked
        BY <2>5 DEF T!Enter
      <3>2. \E x, y : WalkInv(x, y)'
        BY <2>2, <2>3, <2>5, EnterWalk
      <3> QED
        BY <2>1, <2>2, <3>1, <3>2 DEF TInv
    <2>6. CASE T!Cell
      <3>1. walked' = walked
        BY <2>6 DEF T!Cell
      <3>2. WalkInv(w, v)'
        BY <2>2, <2>3, <2>6, CellWalk
      <3> QED
        BY <2>1, <2>2, <3>1, <3>2 DEF TInv
    <2>7. CASE T!Return
      <3>1. walked' = walked
        BY <2>7 DEF T!Return
      <3>2. WalkInv(w, v)'
        BY <2>2, <2>3, <2>7, ReturnWalk
      <3> QED
        BY <2>1, <2>2, <3>1, <3>2 DEF TInv
    <2>8. CASE T!Returned
      <3>1. walked' = "within" /\ entered = <<>> /\ inside = <<>>
        BY <2>8 DEF T!Returned
      <3>2. ~ Excessive
        BY <2>2, <2>3, <3>1, ReturnedWithin
      <3> QED
        BY <2>2, <3>1, <3>2 DEF TInv
    <2> QED
      BY <1>2, <2>4, <2>5, <2>6, <2>7, <2>8 DEF T!Next
  <1> QED
    BY <1>1, <1>2

LEMMA TInvExactly == TInv => T!RefusesExactly
  BY Zenon DEF TInv, T!RefusesExactly, T!Cardinality, Cardinality, T!IsFiniteSet, IsFiniteSet, Excessive, Cost, Cells, Whole, Allowed

-----------------------------------------------------------------------------
(* The walk over a parsed input, as a theorem *)

TreeInv == subject = "tree" => TInv

LEMMA TreeInvHolds == ScansSpec => []TreeInv
  <1>1. ScansInit => TreeInv
    BY InitTInv DEF ScansInit, TreeInv
  <1>2. TreeInv /\ [ScansNext]_allVars => TreeInv'
    <2> SUFFICES ASSUME TreeInv, [ScansNext]_allVars, subject' = "tree"
                 PROVE  TInv'
      BY DEF TreeInv
    <2>1. subject = "tree" /\ [T!Next]_treeVars
      BY DEF ScansNext, allVars, treeVars
    <2> QED
      BY <2>1, NextTInv DEF TreeInv
  <1> QED
    BY <1>1, <1>2, PTL DEF ScansSpec

\* eval.c's eval_tree_within_budget refuses a parsed input, of any shape and
\* size, exactly when it is deeper than the limit or its nodes and cells are
\* more than the limit.
THEOREM WalkExact == ScansSpec => []RefusesExactly
  <1>1. TreeInv => RefusesExactly
    BY TInvExactly DEF TreeInv, RefusesExactly
  <1> QED
    BY <1>1, TreeInvHolds, PTL

-----------------------------------------------------------------------------
(* The repeat guard's patterns: a function on them is what its equations    *)
(* for literals, rows and repeats say.                                     *)

Literal(x)     == x \in R!Leaves
RowOf(x, s)    == x.kind = "row" /\ x.first \in s /\ x.second \in s
RepeatOf(x, s) == x.kind = "repeat" /\ x.of \in s /\ x.times \in Repeats

\* A set of patterns with all their parts.
Closes(s) == \A x \in s : Literal(x) \/ RowOf(x, s) \/ RepeatOf(x, s)

LEMMA RepeatConstants ==
    /\ Limit \in Nat /\ Limit >= 1 /\ Saturated \in Nat /\ Saturated > Limit
    /\ Nesting \in Nat
    /\ Repeats \subseteq (0 .. R!LargestNumber) \X (-1 .. R!LargestNumber) \X BOOLEAN
  <1>1. R!RepeatLimits
    BY ScansAssumption
  <1> QED
    BY ONLY <1>1 DEF R!RepeatLimits

LEMMA NestedDef ==
    R!Nested = [d \in 0 .. Nesting |->
                   IF d = 0 THEN R!Leaves
                   ELSE R!Nested[d - 1] \cup R!Rows(R!Nested[d - 1])
                                        \cup R!Counted(R!Nested[d - 1])]
  <1> DEFINE More(s) == s \cup R!Rows(s) \cup R!Counted(s)
             IsNested(f, m) == f = [d \in 0 .. m |-> IF d = 0 THEN R!Leaves ELSE More(f[d - 1])]
             S == {m \in Nat : \E f : IsNested(f, m)}
  <1>1. Nesting \in Nat
    BY RepeatConstants
  <1> HIDE DEF More
  <1>2. 0 \in S
    <2> DEFINE f == [d \in 0 .. 0 |-> R!Leaves]
    <2>1. f = [d \in 0 .. 0 |-> IF d = 0 THEN R!Leaves ELSE More(f[d - 1])]
      OBVIOUS
    <2> QED
      BY <2>1, Zenon
  <1>3. ASSUME NEW m \in Nat, m \in S
        PROVE  m + 1 \in S
    <2>1. PICK f : IsNested(f, m)
      BY <1>3
    <2> DEFINE g == [d \in 0 .. m + 1 |-> IF d = m + 1 THEN More(f[m]) ELSE f[d]]
    <2>2. \A d \in 0 .. m : g[d] = f[d]
      OBVIOUS
    <2>3. g[m + 1] = More(f[m])
      OBVIOUS
    <2>4. g = [d \in 0 .. m + 1 |-> g[d]]
      OBVIOUS
    <2> HIDE DEF g
    <2>5. \A d \in 0 .. m : f[d] = IF d = 0 THEN R!Leaves ELSE More(f[d - 1])
      BY <2>1
    <2>6. \A d \in 0 .. m + 1 : g[d] = IF d = 0 THEN R!Leaves ELSE More(g[d - 1])
      BY <2>2, <2>3, <2>5
    <2>7. IsNested(g, m + 1)
      BY <2>4, <2>6
    <2> QED
      BY <2>7
  <1>4. \E f : f = [d \in 0 .. Nesting |-> IF d = 0 THEN R!Leaves ELSE More(f[d - 1])]
    BY <1>1, <1>2, <1>3, SetInduction
  <1> QED
    BY <1>4 DEF R!Nested, More

LEMMA NestedStep ==
    /\ R!Nested[0] = R!Leaves
    /\ \A d \in Nat : d + 1 <= Nesting =>
          R!Nested[d + 1] = R!Nested[d] \cup R!Rows(R!Nested[d]) \cup R!Counted(R!Nested[d])
  <1> DEFINE More(s) == s \cup R!Rows(s) \cup R!Counted(s)
  <1>1. R!Nested = [d \in 0 .. Nesting |->
                       IF d = 0 THEN R!Leaves ELSE More(R!Nested[d - 1])]
    BY NestedDef
  <1>2. Nesting \in Nat
    BY RepeatConstants
  <1> HIDE DEF More
  <1>3. \A d \in 0 .. Nesting :
           R!Nested[d] = IF d = 0 THEN R!Leaves ELSE More(R!Nested[d - 1])
    BY <1>1
  <1>4. R!Nested[0] = R!Leaves
    BY <1>2, <1>3
  <1>5. ASSUME NEW d \in Nat, d + 1 <= Nesting
        PROVE  R!Nested[d + 1] = More(R!Nested[d])
    <2>1. d + 1 \in 0 .. Nesting /\ d + 1 # 0 /\ (d + 1) - 1 = d
      BY <1>2, <1>5
    <2> QED
      BY <1>3, <2>1
  <1> QED
    BY <1>4, <1>5 DEF More

\* One level more of the parts of some patterns.
LEMMA MoreWhole ==
    ASSUME NEW s, Closes(s)
    PROVE  Closes(s \cup R!Rows(s) \cup R!Counted(s))
  <1> DEFINE z == s \cup R!Rows(s) \cup R!Counted(s)
  <1> SUFFICES ASSUME NEW x \in z
               PROVE  Literal(x) \/ RowOf(x, z) \/ RepeatOf(x, z)
    BY DEF Closes
  <1>1. CASE x \in s
    BY <1>1 DEF Closes, RowOf, RepeatOf
  <1>2. CASE x \in R!Rows(s)
    BY <1>2 DEF R!Rows, RowOf
  <1>3. CASE x \in R!Counted(s)
    BY <1>3 DEF R!Counted, RepeatOf
  <1> QED
    BY <1>1, <1>2, <1>3

LEMMA NestedWhole ==
    \A d \in Nat : d <= Nesting => Closes(R!Nested[d]) /\ R!Leaves \subseteq R!Nested[d]
  <1> DEFINE S == {d \in Nat : d <= Nesting =>
                      Closes(R!Nested[d]) /\ R!Leaves \subseteq R!Nested[d]}
  <1>1. Nesting \in Nat
    BY RepeatConstants
  <1>2. 0 \in S
    BY NestedStep DEF Closes, Literal
  <1>3. ASSUME NEW d \in Nat, d \in S
        PROVE  d + 1 \in S
    <2> SUFFICES ASSUME d + 1 <= Nesting
                 PROVE  Closes(R!Nested[d + 1]) /\ R!Leaves \subseteq R!Nested[d + 1]
      OBVIOUS
    <2>1. Closes(R!Nested[d]) /\ R!Leaves \subseteq R!Nested[d]
      BY <1>1, <1>3
    <2>2. R!Nested[d + 1] = R!Nested[d] \cup R!Rows(R!Nested[d]) \cup R!Counted(R!Nested[d])
      BY NestedStep, Zenon
    <2>3. Closes(R!Nested[d + 1])
      BY <2>1, <2>2, MoreWhole, Zenon
    <2> QED
      BY <2>1, <2>2, <2>3
  <1> HIDE DEF S
  <1>4. Nat \subseteq S
    BY <1>2, <1>3, SetInduction
  <1> QED
    BY <1>4 DEF S

LEMMA NestedGrows ==
    \A d \in Nat : d <= Nesting => R!Nested[d] \subseteq R!Inner
  <1> DEFINE S == {d \in Nat : d <= Nesting => R!Nested[Nesting - d] \subseteq R!Inner}
  <1>1. Nesting \in Nat
    BY RepeatConstants
  <1>2. 0 \in S
    BY <1>1 DEF R!Inner
  <1>3. ASSUME NEW d \in Nat, d \in S
        PROVE  d + 1 \in S
    <2> SUFFICES ASSUME d + 1 <= Nesting
                 PROVE  R!Nested[Nesting - (d + 1)] \subseteq R!Inner
      OBVIOUS
    <2> DEFINE k == Nesting - (d + 1)
    <2>1. k \in Nat /\ k + 1 <= Nesting /\ k + 1 = Nesting - d
      BY <1>1
    <2>2. R!Nested[k] \subseteq R!Nested[k + 1]
      BY <2>1, NestedStep
    <2>3. R!Nested[Nesting - d] \subseteq R!Inner
      BY <1>1, <1>3
    <2> QED
      BY <2>1, <2>2, <2>3
  <1> HIDE DEF S
  <1>4. Nat \subseteq S
    BY <1>2, <1>3, SetInduction
  <1> SUFFICES ASSUME NEW d \in Nat, d <= Nesting
               PROVE  R!Nested[d] \subseteq R!Inner
    OBVIOUS
  <1>5. Nesting - d \in S /\ Nesting - d \in Nat /\ Nesting - d <= Nesting
    BY <1>1, <1>4
  <1>6. Nesting - (Nesting - d) = d
    BY <1>1
  <1> QED
    BY <1>5, <1>6 DEF S

LEMMA PartsClose ==
    /\ Closes(R!Inner) /\ Closes(R!Parts)
    /\ R!Leaves \subseteq R!Inner /\ R!Inner \subseteq R!Parts
    /\ \A x \in R!Parts : x \in R!Inner \/ RepeatOf(x, R!Inner)
    /\ R!Patterns \subseteq R!Parts
  <1>1. Closes(R!Inner) /\ R!Leaves \subseteq R!Inner
    BY RepeatConstants, NestedWhole DEF R!Inner
  <1>2. \A x \in R!Patterns : RepeatOf(x, R!Inner)
    BY DEF R!Patterns, R!Counted, RepeatOf
  <1>3. R!Parts = R!Inner \cup R!Patterns
    BY DEF R!Parts
  <1>4. Closes(R!Parts)
    BY <1>1, <1>2, <1>3 DEF Closes, RowOf, RepeatOf
  <1> QED
    BY <1>1, <1>2, <1>3, <1>4

\* What holds of literals, of rows and of repeats holds of all patterns.
LEMMA PartsInduction ==
    ASSUME NEW G,
           R!Leaves \subseteq G,
           \A x \in R!Parts : RowOf(x, R!Parts \cap G) => x \in G,
           \A x \in R!Parts : RepeatOf(x, R!Parts \cap G) => x \in G
    PROVE  R!Parts \subseteq G
  <1> DEFINE S == {d \in Nat : d <= Nesting => R!Nested[d] \subseteq G}
  <1>1. Nesting \in Nat
    BY RepeatConstants
  <1>2. 0 \in S
    BY NestedStep
  <1>3. ASSUME NEW d \in Nat, d \in S
        PROVE  d + 1 \in S
    <2> SUFFICES ASSUME d + 1 <= Nesting, NEW x \in R!Nested[d + 1]
                 PROVE  x \in G
      OBVIOUS
    <2>1. /\ R!Nested[d] \subseteq R!Parts \cap G
          /\ x \in R!Parts
      <3>1. d + 1 \in Nat /\ d <= Nesting
        BY <1>1
      <3>2. R!Nested[d] \subseteq R!Inner /\ R!Nested[d + 1] \subseteq R!Inner
        BY <3>1, NestedGrows, Zenon
      <3> QED
        BY <1>3, <3>1, <3>2, PartsClose
    <2>2. x \in R!Nested[d] \cup R!Rows(R!Nested[d]) \cup R!Counted(R!Nested[d])
      BY NestedStep, Zenon
    <2>3. CASE x \in R!Nested[d]
      BY <2>1, <2>3
    <2>4. CASE x \in R!Rows(R!Nested[d])
      <3>1. RowOf(x, R!Parts \cap G)
        BY <2>1, <2>4 DEF R!Rows, RowOf
      <3> QED
        BY <2>1, <3>1, Zenon
    <2>5. CASE x \in R!Counted(R!Nested[d])
      <3>1. RepeatOf(x, R!Parts \cap G)
        BY <2>1, <2>5 DEF R!Counted, RepeatOf
      <3> QED
        BY <2>1, <3>1, Zenon
    <2> QED
      BY <2>2, <2>3, <2>4, <2>5
  <1> HIDE DEF S
  <1>4. Nat \subseteq S
    BY <1>2, <1>3, SetInduction
  <1>5. R!Inner \subseteq G
    BY <1>1, <1>4 DEF S, R!Inner
  <1> SUFFICES ASSUME NEW x \in R!Parts
               PROVE  x \in G
    OBVIOUS
  <1>6. CASE RepeatOf(x, R!Inner)
    <2>1. RepeatOf(x, R!Parts \cap G)
      BY <1>5, <1>6, PartsClose DEF RepeatOf
    <2> QED
      BY <2>1
  <1> QED
    BY <1>5, <1>6, PartsClose

\* f is computed on s from its values on the parts of a pattern: by e on
\* literals, by g on rows, by h on repeats.
Computed(f, s, e, g, h) ==
    \A x \in s :
       /\ x.kind = "literal" => f[x] = e[x]
       /\ x.kind = "row"     => f[x] = g[<<f[x.first], f[x.second]>>]
       /\ x.kind = "repeat"  => f[x] = h[<<x, f[x.of]>>]

Multiples == {x \in R!Parts : x.kind = "repeat" /\ x.times \in Repeats}

From(V, e, g, h) ==
    e \in [R!Leaves -> V] /\ g \in [V \X V -> V] /\ h \in [Multiples \X V -> V]

Computable(s, V, e, g, h) == \E f \in [s -> V] : Computed(f, s, e, g, h)

\* z has at most one level more than s.
Above(z, s) ==
    /\ Closes(s) /\ s \subseteq z /\ z \subseteq R!Parts
    /\ \A x \in z : Literal(x) \/ RowOf(x, s) \/ RepeatOf(x, s)

LEMMA ComputedMore ==
    \A s, z, V, e, g, h :
       From(V, e, g, h) /\ Above(z, s) /\ Computable(s, V, e, g, h)
       => Computable(z, V, e, g, h)
  <1> SUFFICES ASSUME NEW s, NEW z, NEW V, NEW e, NEW g, NEW h,
                      From(V, e, g, h), Above(z, s), Computable(s, V, e, g, h)
               PROVE  Computable(z, V, e, g, h)
    BY Zenon
  <1>0. PICK f \in [s -> V] : Computed(f, s, e, g, h)
    BY Zenon DEF Computable
  <1> USE <1>0 DEF From, Above
  <1> DEFINE Body(x) == IF x.kind = "literal" THEN e[x]
                        ELSE IF x.kind = "row" THEN g[<<f[x.first], f[x.second]>>]
                        ELSE h[<<x, f[x.of]>>]
             m == [x \in z |-> Body(x)]
  <1>1. \A x \in z : \/ x \in R!Leaves /\ x.kind = "literal"
                     \/ x.kind = "row" /\ x.first \in s /\ x.second \in s
                     \/ x.kind = "repeat" /\ x.of \in s /\ x \in Multiples
    BY DEF Literal, RowOf, RepeatOf, R!Leaves, Multiples
  <1>2. \A x \in s : \/ x.kind = "literal"
                     \/ x.kind = "row" /\ x.first \in s /\ x.second \in s
                     \/ x.kind = "repeat" /\ x.of \in s
    BY DEF Literal, RowOf, RepeatOf, R!Leaves, Closes
  <1>3. \A x \in z : Body(x) \in V
    <2> TAKE x \in z
    <2>1. CASE x \in R!Leaves /\ x.kind = "literal"
      BY <2>1
    <2>2. CASE x.kind = "row" /\ x.first \in s /\ x.second \in s
      BY <2>2
    <2>3. CASE x.kind = "repeat" /\ x.of \in s /\ x \in Multiples
      BY <2>3
    <2> QED
      BY <1>1, <2>1, <2>2, <2>3
  <1>4. m \in [z -> V] /\ \A x \in z : m[x] = Body(x)
    BY <1>3
  <1> HIDE DEF m
  <1>5. \A x \in s : m[x] = f[x]
    <2> TAKE x \in s
    <2>1. m[x] = Body(x)
      BY <1>4
    <2> QED
      BY <1>2, <2>1 DEF Computed
  <1>6. Computed(m, z, e, g, h)
    <2> SUFFICES ASSUME NEW x \in z
                 PROVE  /\ x.kind = "literal" => m[x] = e[x]
                        /\ x.kind = "row"     => m[x] = g[<<m[x.first], m[x.second]>>]
                        /\ x.kind = "repeat"  => m[x] = h[<<x, m[x.of]>>]
      BY Zenon DEF Computed
    <2>1. m[x] = Body(x)
      BY <1>4
    <2>2. CASE x.kind = "literal"
      BY <2>1, <2>2
    <2>3. CASE x.kind = "row" /\ x.first \in s /\ x.second \in s
      BY <1>5, <2>1, <2>3
    <2>4. CASE x.kind = "repeat" /\ x.of \in s /\ x \in Multiples
      BY <1>5, <2>1, <2>4
    <2> QED
      BY <1>1, <2>2, <2>3, <2>4
  <1> QED
    BY <1>4, <1>6, Zenon DEF Computable

\* Whatever it is computed from, there is such a function on all patterns.
LEMMA ComputedParts ==
    ASSUME NEW V, NEW e, NEW g, NEW h, From(V, e, g, h)
    PROVE  Computable(R!Parts, V, e, g, h)
  <1> DEFINE S == {d \in Nat : d <= Nesting => Computable(R!Nested[d], V, e, g, h)}
  <1>1. Nesting \in Nat
    BY RepeatConstants
  <1>2. 0 \in S
    <2>1. \A x \in R!Leaves : x.kind = "literal"
      BY DEF R!Leaves
    <2>2. Computed(e, R!Leaves, e, g, h)
      BY <2>1 DEF Computed
    <2>3. Computable(R!Nested[0], V, e, g, h)
      BY <2>2, NestedStep DEF Computable, From
    <2> QED
      BY <2>3
  <1>3. ASSUME NEW d \in Nat, d \in S
        PROVE  d + 1 \in S
    <2> SUFFICES ASSUME d + 1 <= Nesting
                 PROVE  Computable(R!Nested[d + 1], V, e, g, h)
      OBVIOUS
    <2> DEFINE s == R!Nested[d]
               z == R!Nested[d + 1]
    <2>1. /\ d <= Nesting /\ d + 1 \in Nat
          /\ z = s \cup R!Rows(s) \cup R!Counted(s)
      BY <1>1, NestedStep
    <2>2. Closes(s) /\ R!Leaves \subseteq s
      BY <2>1, NestedWhole, Zenon
    <2>3. s \subseteq z /\ z \subseteq R!Parts
      <3>1. z \subseteq R!Inner
        BY <2>1, NestedGrows, Zenon
      <3> QED
        BY <2>1, <3>1, PartsClose
    <2>4. \A x \in z : Literal(x) \/ RowOf(x, s) \/ RepeatOf(x, s)
      BY <2>1, <2>2 DEF Closes, RowOf, RepeatOf, R!Rows, R!Counted
    <2>5. Computable(s, V, e, g, h)
      BY <1>3, <2>1
    <2>6. Above(z, s)
      BY <2>2, <2>3, <2>4, Zenon DEF Above
    <2> QED
      BY <2>5, <2>6, ComputedMore, Zenon
  <1> HIDE DEF S
  <1>4. Nat \subseteq S
    BY <1>2, <1>3, SetInduction
  <1>5. Computable(R!Inner, V, e, g, h)
    BY <1>1, <1>4 DEF S, R!Inner
  <1>6. \A x \in R!Parts : Literal(x) \/ RowOf(x, R!Inner) \/ RepeatOf(x, R!Inner)
    BY PartsClose DEF Closes
  <1>7. Above(R!Parts, R!Inner)
    BY <1>6, PartsClose DEF Above
  <1> QED
    BY <1>5, <1>7, ComputedMore, Zenon

-----------------------------------------------------------------------------
(* The numbers in the braces of a repeat                                    *)

\* The characters that the guard reads inside braces.
Marks == (0 .. 9) \cup {R!CommaSign}

\* What it makes of them without saturation: c is the number that is being
\* read, b the largest one before a comma.
IsRead(s, b, c) ==
    /\ b \in [0 .. Len(s) -> Nat] /\ c \in [0 .. Len(s) -> Nat]
    /\ b[0] = 0 /\ c[0] = 0
    /\ \A k \in 1 .. Len(s) :
          /\ s[k] = R!CommaSign => b[k] = R!Larger(b[k - 1], c[k - 1]) /\ c[k] = 0
          /\ s[k] \in 0 .. 9    => b[k] = b[k - 1] /\ c[k] = 10 * c[k - 1] + s[k]

Reads(s, v) == \E b, c : IsRead(s, b, c) /\ v = R!Larger(b[Len(s)], c[Len(s)])

\* The digits d stand in s behind l, where a number starts.
Stand(d, s, b, c, l) ==
    /\ IsRead(s, b, c) /\ Len(s) \in Nat
    /\ l + Len(d) <= Len(s)
    /\ \A k \in 1 .. Len(d) : s[l + k] = d[k]
    /\ c[l] = 0

\* Wherever the digits d stand, they are read as a.
ReadAs(d, a) ==
    /\ d \in Seq(0 .. 9) /\ Len(d) >= 1
    /\ \A s, b, c : \A l \in Nat :
          Stand(d, s, b, c, l) => c[l + Len(d)] = a /\ b[l + Len(d)] = b[l]

Small == 0 .. R!LargestNumber
OneDigit(a)    == a \in Nat /\ a < 10
TwoDigits(a)   == a \in Nat /\ 10 <= a /\ a < 100
ThreeDigits(a) == a \in Nat /\ 100 <= a /\ a < 1000
Tens(a) == a \div 10
Ones(a) == a % 10

LEMMA SmallNumber ==
    \A a : a \in Small <=> OneDigit(a) \/ TwoDigits(a) \/ ThreeDigits(a)
  <1>1. PICK l \in Nat : l = R!LargestNumber
    BY DEF R!LargestNumber
  <1>2. \A a : a \in Small <=> a \in Nat /\ a <= l
    BY <1>1 DEF Small
  <1>3. l = 999
    BY <1>1 DEF R!LargestNumber
  <1> QED
    BY <1>2, <1>3, SMT DEF OneDigit, TwoDigits, ThreeDigits

LEMMA TensOnes ==
    \A a \in Nat :
       /\ TwoDigits(a) => OneDigit(Tens(a))
       /\ ThreeDigits(a) => TwoDigits(Tens(a))
       /\ OneDigit(a) <=> a < 10
       /\ Tens(a) \in Nat /\ Ones(a) \in 0 .. 9 /\ 10 * Tens(a) + Ones(a) = a
  BY SMT DEF Tens, Ones, OneDigit, TwoDigits, ThreeDigits

LEMMA DigitsNat ==
    \A a : OneDigit(a) \/ TwoDigits(a) \/ ThreeDigits(a) => a \in Nat
  BY DEF OneDigit, TwoDigits, ThreeDigits

LEMMA NumberDigits ==
    \A a \in Small :
       /\ OneDigit(a)   => R!Digits[a] = <<a>>
       /\ ~ OneDigit(a) => R!Digits[a] = Append(R!Digits[Tens(a)], Ones(a))
  <1> DEFINE Step(d, a) == IF OneDigit(a) THEN <<a>> ELSE Append(d, Ones(a))
             Two(a) == Append(<<Tens(a)>>, Ones(a))
             Three(a) == Append(Two(Tens(a)), Ones(a))
             f == [a \in Small |-> IF OneDigit(a) THEN <<a>>
                                   ELSE IF TwoDigits(a) THEN Two(a) ELSE Three(a)]
  <1>1. \A a \in Nat : (TwoDigits(a) \/ ThreeDigits(a)) => ~ OneDigit(a)
    BY SMT DEF OneDigit, TwoDigits, ThreeDigits
  <1>2. \A a \in Small : f[a] = Step(f[Tens(a)], a)
    <2> SUFFICES ASSUME NEW a \in Small
                 PROVE  f[a] = Step(f[Tens(a)], a)
      BY Zenon
    <2>0. a \in Nat
      BY SmallNumber, DigitsNat, Zenon
    <2>1. CASE OneDigit(a)
      BY <2>1, Zenon
    <2>2. CASE TwoDigits(a)
      <3>1. OneDigit(Tens(a)) /\ Tens(a) \in Small /\ ~ OneDigit(a)
        BY <1>1, <2>0, <2>2, TensOnes, SmallNumber, Zenon
      <3> QED
        BY <2>2, <3>1, Zenon
    <2>3. CASE ThreeDigits(a) /\ ~ TwoDigits(a)
      <3>1. TwoDigits(Tens(a)) /\ Tens(a) \in Small /\ ~ OneDigit(a)
        BY <1>1, <2>0, <2>3, TensOnes, SmallNumber, Zenon
      <3>2. ~ OneDigit(Tens(a))
        BY <1>1, <2>0, <3>1, TensOnes, Zenon
      <3>3. f[Tens(a)] = Two(Tens(a)) /\ f[a] = Three(a)
        BY <2>3, <3>1, <3>2, Zenon
      <3> QED
        BY <3>1, <3>3, Zenon
    <2> QED
      BY <2>1, <2>2, <2>3, SmallNumber, Zenon
  <1>3. f = [a \in Small |-> f[a]]
    BY Zenon
  <1> HIDE DEF f
  <1>4. \A a \in Small : f[a] = IF a < 10 THEN <<a>> ELSE Append(f[Tens(a)], Ones(a))
    BY <1>2, SmallNumber, DigitsNat, TensOnes, Zenon
  <1>5. f = [a \in Small |-> IF a < 10 THEN <<a>> ELSE Append(f[Tens(a)], Ones(a))]
    BY <1>3, <1>4, Zenon
  <1>6. R!Digits = [a \in Small |-> IF a < 10 THEN <<a>>
                                    ELSE Append(R!Digits[Tens(a)], Ones(a))]
    BY <1>5, Zenon DEF R!Digits, Tens, Ones, Small
  <1>7. \A a \in Small : R!Digits[a] = IF a < 10 THEN <<a>>
                                       ELSE Append(R!Digits[Tens(a)], Ones(a))
    BY <1>6, Zenon
  <1> QED
    BY <1>7, SmallNumber, DigitsNat, TensOnes, Zenon

LEMMA DigitReads ==
    \A a \in 0 .. 9 : ReadAs(<<a>>, a)
  <1> SUFFICES ASSUME NEW a \in 0 .. 9
               PROVE  ReadAs(<<a>>, a)
    OBVIOUS
  <1> DEFINE d == <<a>>
  <1>1. d \in Seq(0 .. 9) /\ Len(d) = 1 /\ d[1] = a
    OBVIOUS
  <1> HIDE DEF d
  <1>2. ASSUME NEW s, NEW b, NEW c, NEW l \in Nat, Stand(d, s, b, c, l)
        PROVE  c[l + Len(d)] = a /\ b[l + Len(d)] = b[l]
    <2>1. l + 1 \in 1 .. Len(s) /\ (l + 1) - 1 = l /\ s[l + 1] = a
      BY <1>1, <1>2 DEF Stand
    <2>2. b[l + 1] = b[l] /\ c[l + 1] = 10 * c[l] + a
      BY <1>2, <2>1 DEF IsRead, Stand
    <2> QED
      BY <1>1, <1>2, <2>2 DEF Stand
  <1>3. ReadAs(d, a)
    BY <1>1, <1>2 DEF ReadAs
  <1> QED
    BY <1>3 DEF d

LEMMA DigitsReadMore ==
    ASSUME NEW a \in Nat, NEW d, ReadAs(d, Tens(a))
    PROVE  ReadAs(Append(d, Ones(a)), a)
  <1>1. PICK m \in 0 .. 9 : m = Ones(a) /\ Tens(a) \in Nat /\ 10 * Tens(a) + m = a
    BY TensOnes, Zenon
  <1>2. d \in Seq(0 .. 9) /\ Len(d) \in Nat
    BY DEF ReadAs
  <1> DEFINE z == Append(d, m)
  <1>3. z \in Seq(0 .. 9) /\ Len(z) = Len(d) + 1 /\ z[Len(d) + 1] = m
        /\ \A k \in 1 .. Len(d) : z[k] = d[k]
    BY <1>1, <1>2, AppendProperties
  <1> HIDE DEF z
  <1>4. ASSUME NEW s, NEW b, NEW c, NEW l \in Nat, Stand(z, s, b, c, l)
        PROVE  c[l + Len(z)] = a /\ b[l + Len(z)] = b[l]
    <2>0. /\ IsRead(s, b, c) /\ Len(s) \in Nat /\ l + Len(z) <= Len(s) /\ c[l] = 0
          /\ \A k \in 1 .. Len(z) : s[l + k] = z[k]
      BY <1>4, Zenon DEF Stand
    <2>1. l + Len(d) <= Len(s) /\ \A k \in 1 .. Len(d) : s[l + k] = d[k]
      BY <1>2, <1>3, <2>0
    <2>2. Stand(d, s, b, c, l)
      BY <2>0, <2>1, Zenon DEF Stand
    <2>3. c[l + Len(d)] = Tens(a) /\ b[l + Len(d)] = b[l]
      BY <2>2, Zenon DEF ReadAs
    <2> DEFINE k == l + Len(z)
    <2>4. k \in 1 .. Len(s) /\ k - 1 = l + Len(d) /\ s[k] = m
      <3>1. Len(z) \in 1 .. Len(z) /\ s[k] = z[Len(z)]
        BY <1>2, <1>3, <2>0
      <3> QED
        BY <1>2, <1>3, <2>0, <3>1
    <2> HIDE DEF k
    <2>5. b[k] = b[k - 1] /\ c[k] = 10 * c[k - 1] + m
      BY <1>1, <2>0, <2>4 DEF IsRead
    <2>6. c[k] = a /\ b[k] = b[l]
      BY <1>1, <2>3, <2>4, <2>5
    <2> QED
      BY <2>6 DEF k
  <1>5. ReadAs(z, a)
    BY <1>2, <1>3, <1>4 DEF ReadAs
  <1> QED
    BY <1>1, <1>5 DEF z

LEMMA DigitsRead ==
    \A a \in Small : ReadAs(R!Digits[a], a)
  <1>1. ASSUME NEW a \in Small, OneDigit(a)
        PROVE  ReadAs(R!Digits[a], a)
    <2>1. a \in 0 .. 9
      BY <1>1 DEF OneDigit
    <2>2. R!Digits[a] = <<a>>
      BY <1>1, NumberDigits, Zenon
    <2> QED
      BY <2>1, <2>2, DigitReads, Zenon
  <1>2. ASSUME NEW a \in Small, ~ OneDigit(a), ReadAs(R!Digits[Tens(a)], Tens(a))
        PROVE  ReadAs(R!Digits[a], a)
    <2>1. R!Digits[a] = Append(R!Digits[Tens(a)], Ones(a))
      BY <1>2, NumberDigits, Zenon
    <2>2. a \in Nat
      BY SmallNumber, DigitsNat, Zenon
    <2> QED
      BY <1>2, <2>1, <2>2, DigitsReadMore, Zenon
  <1>3. ASSUME NEW a \in Small, TwoDigits(a)
        PROVE  ReadAs(R!Digits[a], a)
    <2>1. OneDigit(Tens(a)) /\ Tens(a) \in Small
      BY <1>3, SmallNumber, DigitsNat, TensOnes, Zenon
    <2>2. ReadAs(R!Digits[Tens(a)], Tens(a))
      BY <1>1, <2>1, Zenon
    <2> QED
      BY <1>1, <1>2, <2>2, Zenon
  <1>4. ASSUME NEW a \in Small, ThreeDigits(a)
        PROVE  ReadAs(R!Digits[a], a)
    <2>1. TwoDigits(Tens(a)) /\ Tens(a) \in Small
      BY <1>4, SmallNumber, DigitsNat, TensOnes, Zenon
    <2>2. ReadAs(R!Digits[Tens(a)], Tens(a))
      BY <1>3, <2>1, Zenon
    <2> QED
      BY <1>1, <1>2, <2>2, Zenon
  <1> QED
    BY <1>1, <1>3, <1>4, SmallNumber, Zenon

LEMMA RepeatTimes ==
    ASSUME NEW x, x.times \in Repeats
    PROVE  /\ R!Least(x) \in Small
           /\ R!Most(x) = -1 \/ R!Most(x) \in Small
           /\ R!Approximate(x) \in BOOLEAN
  <1>1. PICK l : l = R!LargestNumber
    OBVIOUS
  <1>2. x.times \in (0 .. l) \X (-1 .. l) \X BOOLEAN
    BY <1>1, RepeatConstants
  <1>3. x.times[1] \in 0 .. l /\ x.times[2] \in -1 .. l /\ x.times[3] \in BOOLEAN
    BY <1>2
  <1>4. l \in Nat
    BY <1>1 DEF R!LargestNumber
  <1>5. x.times[2] = -1 \/ x.times[2] \in 0 .. l
    BY <1>3, <1>4
  <1> QED
    BY <1>1, <1>3, <1>5, Zenon DEF Small, R!Least, R!Most, R!Approximate

SmallNat == \A a \in Small : a \in Nat

LEMMA SmallIsNat == SmallNat
  BY SmallNumber, DigitsNat, Zenon DEF SmallNat

\* What the guard counts a repeat with.
Bound(l, m) == IF l > 1 \/ m > 1 THEN IF l > m THEN l ELSE m ELSE 1

LEMMA BoundLargest ==
    ASSUME NEW l \in Nat, NEW m \in Int, m >= -1
    PROVE  /\ m = l  => R!Larger(1, R!Larger(0, l)) = Bound(l, m)
           /\ m = -1 => R!Larger(1, R!Larger(R!Larger(0, l), 0)) = Bound(l, m)
           /\ m >= 0 => R!Larger(1, R!Larger(R!Larger(0, l), m)) = Bound(l, m)
           /\ Bound(l, m) \in Nat /\ Bound(l, m) >= 1
  BY SMT DEF R!Larger, Bound

LEMMA StandRead ==
    \A d, a, s, b, c : ReadAs(d, a) /\ Stand(d, s, b, c, 0)
                        => c[Len(d)] = a /\ b[Len(d)] = 0
  BY SMT DEF ReadAs, Stand, IsRead

LEMMA BoundsCases ==
    \A x : LET l == R!Least(x)
               m == R!Most(x)
           IN  /\ m = l /\ m # R!Open => R!Bounds(x) = R!Digits[l]
               /\ m # l /\ m = R!Open => R!Bounds(x) = R!Digits[l] \o <<R!CommaSign>>
               /\ m # l /\ m # R!Open =>
                     R!Bounds(x) = (R!Digits[l] \o <<R!CommaSign>>) \o R!Digits[m]
  <1> SUFFICES ASSUME NEW x
               PROVE  LET l == R!Least(x)
                          m == R!Most(x)
                      IN  /\ m = l /\ m # R!Open => R!Bounds(x) = R!Digits[l]
                          /\ m # l /\ m = R!Open =>
                                R!Bounds(x) = R!Digits[l] \o <<R!CommaSign>>
                          /\ m # l /\ m # R!Open =>
                                R!Bounds(x) = (R!Digits[l] \o <<R!CommaSign>>) \o R!Digits[m]
    OBVIOUS
  <1>1. PICK l, m, y, u, z : /\ l = R!Least(x) /\ m = R!Most(x) /\ y = R!Digits[l]
                             /\ u = R!Digits[l] \o <<R!CommaSign>>
                             /\ z = (R!Digits[l] \o <<R!CommaSign>>) \o R!Digits[m]
    OBVIOUS
  <1>2. R!Bounds(x) = CASE m = l -> y [] m = R!Open -> u [] OTHER -> z
    BY <1>1 DEF R!Bounds
  <1> QED
    BY <1>1, <1>2

\* The number before a comma.
BeforeComma(d, s) ==
    /\ Len(s) \in Nat /\ Len(d) + 1 <= Len(s)
    /\ \A k \in 1 .. Len(d) : s[k] = d[k]
    /\ s[Len(d) + 1] = R!CommaSign

LEMMA LowerRead ==
    \A a \in Small : \A s, b, c :
       BeforeComma(R!Digits[a], s) /\ IsRead(s, b, c)
       => /\ b[Len(R!Digits[a]) + 1] = R!Larger(0, a)
          /\ c[Len(R!Digits[a]) + 1] = 0
  <1> SUFFICES ASSUME NEW a \in Small, NEW s, NEW b, NEW c,
                      BeforeComma(R!Digits[a], s), IsRead(s, b, c)
               PROVE  /\ b[Len(R!Digits[a]) + 1] = R!Larger(0, a)
                      /\ c[Len(R!Digits[a]) + 1] = 0
    BY Zenon
  <1>d. PICK d : d = R!Digits[a]
    OBVIOUS
  <1>0. /\ Len(s) \in Nat /\ Len(d) + 1 <= Len(s)
        /\ \A k \in 1 .. Len(d) : s[k] = d[k]
        /\ s[Len(d) + 1] = R!CommaSign
    BY <1>d, Zenon DEF BeforeComma
  <1>1. ReadAs(d, a)
    BY <1>d, DigitsRead, Zenon
  <1>2. Len(d) \in Nat /\ b[0] = 0 /\ c[0] = 0
    BY <1>1 DEF ReadAs, IsRead
  <1>3. Stand(d, s, b, c, 0)
    BY <1>0, <1>2 DEF Stand
  <1>4. c[Len(d)] = a /\ b[Len(d)] = 0
    BY <1>1, <1>3, StandRead, Zenon
  <1> DEFINE k == Len(d) + 1
  <1>5. k \in 1 .. Len(s) /\ k - 1 = Len(d)
    BY <1>0, <1>2
  <1>6. b[k] = R!Larger(b[k - 1], c[k - 1]) /\ c[k] = 0
    BY <1>0, <1>5, Zenon DEF IsRead
  <1> QED
    BY <1>d, <1>4, <1>5, <1>6, Zenon

\* The characters of the numbers of a repeat, and what they are read as.
LEMMA BoundsRead ==
    ASSUME NEW x, x.times \in Repeats, NEW d, d = R!Bounds(x)
    PROVE  /\ d \in Seq(Marks) /\ Len(d) >= 1 /\ d[1] \in 0 .. 9
           /\ \A v : Reads(d, v) => R!Larger(1, v) = Bound(R!Least(x), R!Most(x))
  <1>1. PICK l \in Small : l = R!Least(x)
    BY RepeatTimes, Zenon
  <1>2. PICK m : m = R!Most(x) /\ (m = -1 \/ m \in Small)
    BY RepeatTimes, Zenon
  <1>3. PICK w : w = R!Digits[l]
    OBVIOUS
  <1>4. ReadAs(w, l)
    BY <1>3, DigitsRead, Zenon
  <1>5. w \in Seq(0 .. 9) /\ Len(w) \in Nat /\ Len(w) >= 1
    BY <1>4 DEF ReadAs
  <1>6. w \in Seq(Marks) /\ w[1] \in 0 .. 9
    BY <1>5 DEF Marks
  <1>7. l \in Nat /\ m \in Int /\ m >= -1 /\ (m = -1 \/ (m \in Small /\ m \in Nat))
    BY <1>2, SmallIsNat DEF SmallNat
  <1>8. R!CommaSign \in Marks
    BY DEF Marks
  <1>9. R!Open = -1 /\ (m = l => m # -1)
    BY <1>7 DEF R!Open
  <1>10. CASE m = l
    <2>1. d = w
      BY <1>1, <1>2, <1>3, <1>9, <1>10, BoundsCases, Zenon
    <2>2. ASSUME NEW v, Reads(d, v)
          PROVE  R!Larger(1, v) = Bound(l, m)
      <3>1. PICK b, c : IsRead(d, b, c) /\ v = R!Larger(b[Len(d)], c[Len(d)])
        BY <2>2, Zenon DEF Reads
      <3>2. b[0] = 0 /\ c[0] = 0
        BY <3>1, Zenon DEF IsRead
      <3>3. Stand(w, d, b, c, 0)
        BY <1>5, <2>1, <3>1, <3>2 DEF Stand
      <3>4. c[Len(w)] = l /\ b[Len(w)] = 0
        BY <1>4, <3>3, StandRead, Zenon
      <3>5. v = R!Larger(0, l)
        BY <2>1, <3>1, <3>4, Zenon
      <3> QED
        BY <1>7, <1>10, <3>5, BoundLargest, Zenon
    <2> QED
      BY <1>1, <1>2, <1>5, <1>6, <2>1, <2>2, Zenon
  <1>11. CASE m # l /\ m = -1
    <2>1. d = w \o <<R!CommaSign>>
      BY <1>1, <1>2, <1>3, <1>9, <1>11, BoundsCases, Zenon
    <2>2. /\ d \in Seq(Marks) /\ Len(d) = Len(w) + 1 /\ d[Len(w) + 1] = R!CommaSign
          /\ \A k \in 1 .. Len(w) : d[k] = w[k]
      <3> HIDE DEF R!CommaSign
      <3>1. <<R!CommaSign>> \in Seq(Marks) /\ Len(<<R!CommaSign>>) = 1
        BY <1>8
      <3> QED
        BY <1>5, <1>6, <1>8, <2>1, <3>1
    <2>3. d[1] \in 0 .. 9
      BY <1>5, <1>6, <2>2
    <2>4. ASSUME NEW v, Reads(d, v)
          PROVE  R!Larger(1, v) = Bound(l, m)
      <3>1. PICK b, c : IsRead(d, b, c) /\ v = R!Larger(b[Len(d)], c[Len(d)])
        BY <2>4, Zenon DEF Reads
      <3>2. Len(d) \in Nat /\ Len(w) + 1 <= Len(d)
        BY <1>5, <2>2
      <3>3. BeforeComma(w, d)
        BY <2>2, <3>2, Zenon DEF BeforeComma
      <3>4. b[Len(w) + 1] = R!Larger(0, l) /\ c[Len(w) + 1] = 0
        BY <1>3, <3>1, <3>3, LowerRead, Zenon
      <3>5. v = R!Larger(R!Larger(0, l), 0)
        BY <2>2, <3>1, <3>4, Zenon
      <3> QED
        BY <1>7, <1>11, <3>5, BoundLargest, Zenon
    <2> QED
      BY <1>1, <1>2, <1>5, <2>2, <2>3, <2>4
  <1>12. CASE m # l /\ m # -1
    <2>1. PICK z : z = R!Digits[m]
      OBVIOUS
    <2>2. ReadAs(z, m)
      BY <1>7, <1>12, <2>1, DigitsRead, Zenon
    <2>3. z \in Seq(0 .. 9) /\ Len(z) \in Nat /\ Len(z) >= 1
      BY <2>2 DEF ReadAs
    <2>4. z \in Seq(Marks)
      BY <2>3 DEF Marks
    <2>5. d = (w \o <<R!CommaSign>>) \o z
      BY <1>1, <1>2, <1>3, <1>9, <1>12, <2>1, BoundsCases, Zenon
    <2> DEFINE r == w \o <<R!CommaSign>>
    <2>6. /\ r \in Seq(Marks) /\ Len(r) = Len(w) + 1 /\ r[Len(w) + 1] = R!CommaSign
          /\ \A k \in 1 .. Len(w) : r[k] = w[k]
      <3> HIDE DEF R!CommaSign
      <3>1. <<R!CommaSign>> \in Seq(Marks) /\ Len(<<R!CommaSign>>) = 1
        BY <1>8
      <3> QED
        BY <1>5, <1>6, <1>8, <3>1
    <2> HIDE DEF r
    <2>7. /\ d \in Seq(Marks) /\ Len(d) = Len(r) + Len(z)
          /\ \A k \in 1 .. Len(r) : d[k] = r[k]
          /\ \A k \in 1 .. Len(z) : d[Len(r) + k] = z[k]
      BY <2>4, <2>5, <2>6, <1>5, <2>3 DEF r
    <2>8. d[1] \in 0 .. 9
      BY <1>5, <1>6, <2>6, <2>7
    <2>9. ASSUME NEW v, Reads(d, v)
          PROVE  R!Larger(1, v) = Bound(l, m)
      <3>1. PICK b, c : IsRead(d, b, c) /\ v = R!Larger(b[Len(d)], c[Len(d)])
        BY <2>9, Zenon DEF Reads
      <3>2. Len(d) \in Nat /\ Len(w) + 1 <= Len(d) /\ Len(r) \in Nat
        BY <1>5, <2>3, <2>6, <2>7
      <3>3. d[Len(w) + 1] = R!CommaSign /\ \A k \in 1 .. Len(w) : d[k] = w[k]
        BY <1>5, <2>6, <2>7
      <3>4. b[Len(r)] = R!Larger(0, l) /\ c[Len(r)] = 0
        <4>1. BeforeComma(w, d)
          BY <3>2, <3>3, Zenon DEF BeforeComma
        <4>2. IsRead(d, b, c)
          BY <3>1, Zenon
        <4>3. b[Len(w) + 1] = R!Larger(0, l) /\ c[Len(w) + 1] = 0
          BY <1>3, <4>1, <4>2, LowerRead, Zenon
        <4>4. Len(r) = Len(w) + 1
          BY <2>6, Zenon
        <4> QED
          BY ONLY <4>3, <4>4, Zenon
      <3>5. Stand(z, d, b, c, Len(r))
        BY <2>7, <3>1, <3>2, <3>4 DEF Stand
      <3>6. c[Len(r) + Len(z)] = m /\ b[Len(r) + Len(z)] = b[Len(r)]
        BY <2>2, <3>2, <3>5, Zenon DEF ReadAs
      <3>7. v = R!Larger(R!Larger(0, l), m)
        BY <2>7, <3>1, <3>4, <3>6, Zenon
      <3>8. m >= 0
        BY <1>7, <1>12
      <3> QED
        BY <1>7, <3>7, <3>8, BoundLargest, Zenon
    <2> QED
      BY <1>1, <1>2, <1>5, <2>3, <2>6, <2>7, <2>8, <2>9
  <1> QED
    BY <1>10, <1>11, <1>12

-----------------------------------------------------------------------------
(* The weight of a text from one of its places on: the product of the       *)
(* repeats that are counted behind it.                                      *)

\* Behind place k of s stands a counted repeat, {d}.
Block(s, k, d) ==
    /\ d \in Seq(Marks)
    /\ \E j \in 1 .. Len(d) : d[j] \in 0 .. 9
    /\ k + Len(d) + 2 <= Len(s)
    /\ s[k + 1] = R!LeftBrace
    /\ \A j \in 1 .. Len(d) : s[k + 1 + j] = d[j]
    /\ s[k + Len(d) + 2] = R!RightBrace

Times(v, w) == R!Larger(1, v) * w

Weight(f, s, k) ==
    /\ \A d, v : Block(s, k, d) /\ Reads(d, v) => f[k] = Times(v, f[k + Len(d) + 2])
    /\ (\A d : ~ Block(s, k, d)) => f[k] = f[k + 1]

Weighs(f, s) ==
    /\ f \in [0 .. Len(s) -> Nat \ {0}]
    /\ f[Len(s)] = 1
    /\ \A k \in 0 .. Len(s) - 1 : Weight(f, s, k)

Weighted(s, w) == \E f : Weighs(f, s) /\ f[0] = w

\* A repeat ends at the first foreign character.
Stopped(s, k, d) ==
    /\ Len(s) \in Nat /\ d \in Seq(Marks) /\ k + Len(d) + 1 <= Len(s)
    /\ \A j \in 1 .. Len(d) : s[k + 1 + j] = d[j]
    /\ k + Len(d) + 1 < Len(s) => s[k + Len(d) + 2] \notin Marks

LEMMA FirstStop ==
    \A s, d, y : \A k \in Nat :
       Stopped(s, k, d) /\ Block(s, k, y)
       => y = d /\ k + Len(d) + 1 < Len(s) /\ s[k + Len(d) + 2] = R!RightBrace
  <1> SUFFICES ASSUME NEW s, NEW d, NEW y, NEW k \in Nat, Stopped(s, k, d), Block(s, k, y)
               PROVE  y = d /\ k + Len(d) + 1 < Len(s) /\ s[k + Len(d) + 2] = R!RightBrace
    BY Zenon
  <1>0. /\ Len(s) \in Nat /\ d \in Seq(Marks) /\ k + Len(d) + 1 <= Len(s)
        /\ \A j \in 1 .. Len(d) : s[k + 1 + j] = d[j]
        /\ k + Len(d) + 1 < Len(s) => s[k + Len(d) + 2] \notin Marks
    BY Zenon DEF Stopped
  <1>1. /\ y \in Seq(Marks) /\ k + Len(y) + 2 <= Len(s)
        /\ s[k + Len(y) + 2] = R!RightBrace
        /\ \A j \in 1 .. Len(y) : s[k + 1 + j] = y[j]
    BY Zenon DEF Block
  <1>2. PICK l \in Nat : l = Len(y) /\ \A j \in 1 .. l : y[j] \in Marks
    BY <1>1
  <1>3. PICK m \in Nat : m = Len(d) /\ \A j \in 1 .. m : d[j] \in Marks
    <2>1. Len(d) \in Nat /\ \A j \in 1 .. Len(d) : d[j] \in Marks
      BY <1>0
    <2> QED
      BY <2>1, Zenon
  <1>4. R!RightBrace \notin Marks
    BY DEF R!RightBrace, Marks, R!CommaSign
  <1>5. ~ (l < m)
    <2> SUFFICES ASSUME l < m
                 PROVE  FALSE
      OBVIOUS
    <2>1. l + 1 \in 1 .. m /\ k + 1 + (l + 1) = k + l + 2
      BY <1>2, <1>3
    <2>2. s[k + l + 2] = d[l + 1] /\ d[l + 1] \in Marks
      BY <1>0, <1>3, <2>1
    <2> QED
      BY <1>1, <1>2, <1>4, <2>2
  <1>6. ~ (m < l)
    <2> SUFFICES ASSUME m < l
                 PROVE  FALSE
      OBVIOUS
    <2>1. m + 1 \in 1 .. l /\ k + 1 + (m + 1) = k + m + 2 /\ k + m + 1 < Len(s)
      BY <1>0, <1>1, <1>2, <1>3
    <2>2. s[k + m + 2] = y[m + 1] /\ y[m + 1] \in Marks
      BY <1>1, <1>2, <2>1
    <2> QED
      BY <1>0, <1>3, <2>1, <2>2
  <1>7. l = m
    BY <1>5, <1>6
  <1>8. \A j \in 1 .. m : y[j] = d[j]
    BY <1>0, <1>1, <1>2, <1>3, <1>7
  <1>9. y = d
    BY <1>0, <1>1, <1>2, <1>3, <1>7, <1>8, SeqEqual
  <1> QED
    BY <1>0, <1>1, <1>2, <1>3, <1>7, <1>9

IsJoint(s, u, t) ==
    /\ s \in Seq(Int) /\ Len(s) \in Nat /\ Len(u) \in Nat /\ Len(t) \in Nat
    /\ Len(s) = Len(u) + Len(t)
    /\ \A k \in 1 .. Len(u) : s[k] = u[k]
    /\ \A k \in 1 .. Len(t) : s[Len(u) + k] = t[k]

LEMMA Joint ==
    \A u, t \in Seq(Int) : IsJoint(u \o t, u, t)
  BY DEF IsJoint

\* u stands before t, whose weight is w, and makes it z.
Opens(u, t, w, z) ==
    /\ u \in Seq(Int) /\ Len(u) >= 1 /\ z \in Nat \ {0}
    /\ \A k \in 2 .. Len(u) : u[k] # R!LeftBrace
    /\ \A d, v : Block(u \o t, 0, d) /\ Reads(d, v) => Len(d) + 2 = Len(u) /\ z = Times(v, w)
    /\ (\A d : ~ Block(u \o t, 0, d)) => z = w

LEMMA Prepend ==
    \A u, w, z : \A t \in Seq(Int) : Weighted(t, w) /\ Opens(u, t, w, z) => Weighted(u \o t, z)
  <1> SUFFICES ASSUME NEW u, NEW w, NEW z, NEW t \in Seq(Int), Weighted(t, w), Opens(u, t, w, z)
               PROVE  Weighted(u \o t, z)
    BY Zenon
  <1>1. /\ u \in Seq(Int) /\ Len(u) >= 1 /\ z \in Nat \ {0}
        /\ \A k \in 2 .. Len(u) : u[k] # R!LeftBrace
        /\ \A d, v : Block(u \o t, 0, d) /\ Reads(d, v) => Len(d) + 2 = Len(u) /\ z = Times(v, w)
        /\ (\A d : ~ Block(u \o t, 0, d)) => z = w
    BY Zenon DEF Opens
  <1>2. PICK s : s = u \o t
    OBVIOUS
  <1>3. PICK a \in Nat : a = Len(u) /\ a >= 1
    BY <1>1
  <1>4. PICK l \in Nat : l = Len(t)
    OBVIOUS
  <1>5. /\ Len(s) = a + l
        /\ \A k \in 1 .. a : s[k] = u[k]
        /\ \A k \in 1 .. l : s[a + k] = t[k]
    BY <1>1, <1>2, <1>3, <1>4
  <1>6. PICK f : Weighs(f, t) /\ f[0] = w
    BY Zenon DEF Weighted
  <1>7. /\ f \in [0 .. l -> Nat \ {0}] /\ f[l] = 1
        /\ \A k \in 0 .. l - 1 : Weight(f, t, k)
    BY <1>4, <1>6, Zenon DEF Weighs
  <1> DEFINE g == [k \in 0 .. a + l |-> IF k = 0 THEN z ELSE IF k < a THEN w ELSE f[k - a]]
  <1>8. w \in Nat \ {0}
    BY <1>6, <1>7
  <1>9. g \in [0 .. a + l -> Nat \ {0}]
    BY <1>1, <1>3, <1>7, <1>8
  <1>10. g[0] = z /\ (\A k \in 1 .. a : g[k] = w) /\ (\A k \in 0 .. l : g[a + k] = f[k])
    BY <1>3, <1>6
  <1> HIDE DEF g
  <1>11. \A k \in 0 .. l - 1 : \A d : Block(s, a + k, d) <=> Block(t, k, d)
    <2> SUFFICES ASSUME NEW k \in 0 .. l - 1, NEW d, d \in Seq(Marks)
                 PROVE  Block(s, a + k, d) <=> Block(t, k, d)
      BY Zenon DEF Block
    <2>1. PICK e \in Nat : e = Len(d)
      OBVIOUS
    <2>2. a + k + e + 2 <= Len(s) <=> k + e + 2 <= Len(t)
      BY <1>4, <1>5
    <2>3. s[a + k + 1] = t[k + 1]
      <3>1. k + 1 \in 1 .. l /\ a + (k + 1) = a + k + 1
        OBVIOUS
      <3> QED
        BY <1>5, <3>1
    <2>4. k + e + 2 <= Len(t) => /\ s[a + k + e + 2] = t[k + e + 2]
                                 /\ \A j \in 1 .. e : s[a + k + 1 + j] = t[k + 1 + j]
      <3> SUFFICES ASSUME k + e + 2 <= Len(t)
                   PROVE  /\ s[a + k + e + 2] = t[k + e + 2]
                          /\ \A j \in 1 .. e : s[a + k + 1 + j] = t[k + 1 + j]
        OBVIOUS
      <3>1. k + e + 2 \in 1 .. l /\ a + (k + e + 2) = a + k + e + 2
        BY <1>4
      <3>2. \A j \in 1 .. e : k + 1 + j \in 1 .. l /\ a + (k + 1 + j) = a + k + 1 + j
        BY <1>4
      <3> QED
        BY <1>5, <3>1, <3>2
    <2> QED
      BY <2>1, <2>2, <2>3, <2>4 DEF Block
  <1>12. Weight(g, s, 0)
    <2>1. ASSUME NEW d, NEW v, Block(s, 0, d), Reads(d, v)
          PROVE  g[0] = Times(v, g[0 + Len(d) + 2])
      <3>1. Len(d) + 2 = Len(u) /\ z = Times(v, w)
        BY <1>1, <1>2, <2>1, Zenon
      <3>2. d \in Seq(Marks)
        BY <2>1, Zenon DEF Block
      <3>3. 0 + Len(d) + 2 = a /\ a \in 1 .. a
        BY <1>3, <3>1, <3>2
      <3> QED
        BY <1>10, <3>1, <3>3, Zenon
    <2>2. ASSUME \A d : ~ Block(s, 0, d)
          PROVE  g[0] = g[0 + 1]
      <3>1. z = w
        BY <1>1, <1>2, <2>2, Zenon
      <3>2. 0 + 1 \in 1 .. a
        BY <1>3
      <3> QED
        BY <1>10, <3>1, <3>2, Zenon
    <2> QED
      BY <2>1, <2>2, Zenon DEF Weight
  <1>13. ASSUME NEW k \in 1 .. a - 1
         PROVE  Weight(g, s, k)
    <2>1. k + 1 \in 2 .. Len(u) /\ k + 1 \in 1 .. a /\ k \in 1 .. a
      BY <1>3
    <2>2. s[k + 1] # R!LeftBrace
      BY <1>1, <1>5, <2>1, Zenon
    <2>3. \A d : ~ Block(s, k, d)
      BY <2>2, Zenon DEF Block
    <2>4. g[k] = g[k + 1]
      BY <1>10, <2>1, Zenon
    <2> QED
      BY <2>3, <2>4, Zenon DEF Weight
  <1>14. ASSUME NEW k \in 0 .. l - 1
         PROVE  Weight(g, s, a + k)
    <2>1. Weight(f, t, k)
      BY <1>7, Zenon
    <2>2. g[a + k] = f[k] /\ g[a + k + 1] = f[k + 1]
      <3>1. k \in 0 .. l /\ k + 1 \in 0 .. l /\ a + (k + 1) = a + k + 1
        OBVIOUS
      <3> QED
        BY <1>10, <3>1
    <2>3. ASSUME NEW d, NEW v, Block(s, a + k, d), Reads(d, v)
          PROVE  g[a + k] = Times(v, g[a + k + Len(d) + 2])
      <3>1. Block(t, k, d)
        BY <1>11, <2>3, Zenon
      <3>2. f[k] = Times(v, f[k + Len(d) + 2])
        BY <2>1, <2>3, <3>1, Zenon DEF Weight
      <3>3. d \in Seq(Marks) /\ k + Len(d) + 2 <= Len(t)
        BY <3>1, Zenon DEF Block
      <3>4. k + Len(d) + 2 \in 0 .. l /\ a + (k + Len(d) + 2) = a + k + Len(d) + 2
        BY <1>4, <3>3
      <3> QED
        BY <1>10, <2>2, <3>2, <3>4, Zenon
    <2>4. ASSUME \A d : ~ Block(s, a + k, d)
          PROVE  g[a + k] = g[a + k + 1]
      <3>1. \A d : ~ Block(t, k, d)
        BY <1>11, <2>4, Zenon
      <3> QED
        BY <2>1, <2>2, <3>1, Zenon DEF Weight
    <2> QED
      BY <2>3, <2>4, Zenon DEF Weight
  <1>15. \A k \in 0 .. Len(s) - 1 : Weight(g, s, k)
    <2> SUFFICES ASSUME NEW k \in 0 .. Len(s) - 1
                 PROVE  Weight(g, s, k)
      OBVIOUS
    <2>1. k = 0 \/ k \in 1 .. a - 1 \/ (k - a \in 0 .. l - 1 /\ k = a + (k - a))
      BY <1>5
    <2> QED
      BY <1>12, <1>13, <1>14, <2>1, Zenon
  <1>16. g[Len(s)] = 1
    BY <1>5, <1>7, <1>10
  <1>17. Weighs(g, s)
    BY <1>5, <1>9, <1>15, <1>16, Zenon DEF Weighs
  <1> QED
    BY <1>2, <1>10, <1>17, Zenon DEF Weighted

-----------------------------------------------------------------------------
(* The text and the reference functions of a pattern, by its parts          *)

LEMMA PartKinds ==
    \A x \in R!Parts :
       \/ x.kind = "literal" /\ x \in R!Leaves
       \/ x.kind = "row" /\ x.first \in R!Parts /\ x.second \in R!Parts
       \/ x.kind = "repeat" /\ x.of \in R!Parts /\ x \in Multiples
  BY PartsClose DEF Closes, Literal, RowOf, RepeatOf, R!Leaves, Multiples

LEMMA MarksInt == Marks \subseteq Int
  BY DEF Marks, R!CommaSign

\* The characters between the braces of a repeat.
LEMMA BracesInt ==
    ASSUME NEW x \in Multiples
    PROVE  R!Braces(x) \in Seq(Int)
  <1>1. x.times \in Repeats
    BY DEF Multiples
  <1>2. PICK d : d = R!Bounds(x)
    OBVIOUS
  <1>3. d \in Seq(Marks)
    BY <1>1, <1>2, BoundsRead, Zenon
  <1>4. d \in Seq(Int)
    <2>1. Len(d) \in Nat /\ d \in [1 .. Len(d) -> Marks]
      BY <1>3
    <2>2. d \in [1 .. Len(d) -> Int]
      BY <2>1, MarksInt
    <2> QED
      BY <2>1, <2>2, SeqDef, Zenon
  <1>5. d \o <<R!PlusSign, 1>> \in Seq(Int)
    BY <1>4 DEF R!PlusSign
  <1> QED
    BY <1>2, <1>4, <1>5, Zenon DEF R!Braces

LEMMA LeafText ==
    \A x \in R!Leaves : x.text \in Seq(Int)
  <1>1. \A x \in R!Leaves : x.text \in R!Literals
    BY DEF R!Leaves
  <1>2. R!LetterA \in Int /\ R!LeftBrace \in Int /\ R!RightBrace \in Int
    BY DEF R!LetterA, R!LeftBrace, R!RightBrace
  <1>3. /\ <<R!LetterA>> \in Seq(Int) /\ <<R!LeftBrace>> \in Seq(Int)
        /\ <<R!LeftBrace, 9, R!LetterA, R!RightBrace>> \in Seq(Int)
    BY <1>2
  <1>4. \A s \in R!Literals : s \in Seq(Int)
    BY <1>3, Zenon DEF R!Literals
  <1> QED
    BY <1>1, <1>4, Zenon

\* A repeated pattern, its text being s.
Wrapped(s, d) ==
    <<R!LeftParen>> \o s \o <<R!RightParen>> \o <<R!LeftBrace>> \o d \o <<R!RightBrace>>

LEMMA WrappedInt ==
    \A s, d \in Seq(Int) : Wrapped(s, d) \in Seq(Int)
  BY DEF Wrapped, R!LeftParen, R!RightParen, R!LeftBrace, R!RightBrace

LEMMA TextCases ==
    \A x \in R!Parts :
       /\ x.kind = "literal" => R!Text[x] = x.text
       /\ x.kind = "row"     => R!Text[x] = R!Text[x.first] \o R!Text[x.second]
       /\ x.kind = "repeat"  => R!Text[x] = Wrapped(R!Text[x.of], R!Braces(x))
  <1> DEFINE V == Seq(Int)
             e == [x \in R!Leaves |-> x.text]
             g == [z \in V \X V |-> z[1] \o z[2]]
             h == [z \in Multiples \X V |-> Wrapped(z[2], R!Braces(z[1]))]
             Body(f, x) == IF x.kind = "literal" THEN x.text
                           ELSE IF x.kind = "row" THEN f[x.first] \o f[x.second]
                           ELSE Wrapped(f[x.of], R!Braces(x))
  <1>1. From(V, e, g, h)
    <2>1. e \in [R!Leaves -> V]
      BY LeafText
    <2>2. g \in [V \X V -> V]
      OBVIOUS
    <2>3. h \in [Multiples \X V -> V]
      BY BracesInt, WrappedInt
    <2> QED
      BY <2>1, <2>2, <2>3, Zenon DEF From
  <1>2. PICK f \in [R!Parts -> V] : Computed(f, R!Parts, e, g, h)
    BY <1>1, ComputedParts, Zenon DEF Computable
  <1>3. \A x \in R!Parts : f[x] = Body(f, x)
    <2> SUFFICES ASSUME NEW x \in R!Parts
                 PROVE  f[x] = Body(f, x)
      OBVIOUS
    <2>1. CASE x.kind = "literal" /\ x \in R!Leaves
      <3>1. f[x] = e[x]
        BY <1>2, <2>1, Zenon DEF Computed
      <3> QED
        BY <2>1, <3>1
    <2>2. CASE x.kind = "row" /\ x.first \in R!Parts /\ x.second \in R!Parts
      <3>1. f[x] = g[<<f[x.first], f[x.second]>>]
        BY <1>2, <2>2, Zenon DEF Computed
      <3>2. f[x.first] \in V /\ f[x.second] \in V
        BY <2>2
      <3>3. f[x] = f[x.first] \o f[x.second]
        BY <3>1, <3>2
      <3> QED
        BY <2>2, <3>3
    <2>3. CASE x.kind = "repeat" /\ x.of \in R!Parts /\ x \in Multiples
      <3>1. f[x] = h[<<x, f[x.of]>>]
        BY <1>2, <2>3, Zenon DEF Computed
      <3>2. f[x.of] \in V
        BY <2>3
      <3>3. f[x] = Wrapped(f[x.of], R!Braces(x))
        BY <2>3, <3>1, <3>2
      <3> QED
        BY <2>3, <3>3
    <2> QED
      BY <2>1, <2>2, <2>3, PartKinds, Zenon
  <1>4. f = [x \in R!Parts |-> Body(f, x)]
    <2> HIDE DEF Body
    <2> QED
      BY <1>3, Zenon
  <1>5. R!Text = [x \in R!Parts |-> Body(R!Text, x)]
    BY <1>4, Zenon DEF R!Text, Wrapped
  <1>6. \A x \in R!Parts : R!Text[x] = Body(R!Text, x)
    <2> HIDE DEF Body
    <2> QED
      BY <1>5, Zenon
  <1> QED
    BY <1>6

LEMMA TextInt ==
    \A x \in R!Parts : R!Text[x] \in Seq(Int)
  <1> DEFINE G == {x \in R!Parts : R!Text[x] \in Seq(Int)}
  <1>1. R!Leaves \subseteq G
    BY LeafText, TextCases, PartsClose DEF R!Leaves
  <1>2. \A x \in R!Parts : RowOf(x, R!Parts \cap G) => x \in G
    <2> SUFFICES ASSUME NEW x \in R!Parts, RowOf(x, R!Parts \cap G)
                 PROVE  R!Text[x] \in Seq(Int)
      OBVIOUS
    <2>1. x.kind = "row" /\ R!Text[x.first] \in Seq(Int) /\ R!Text[x.second] \in Seq(Int)
      BY DEF RowOf
    <2>2. \A s, d \in Seq(Int) : s \o d \in Seq(Int)
      OBVIOUS
    <2> QED
      BY <2>1, <2>2, TextCases, Zenon
  <1>3. \A x \in R!Parts : RepeatOf(x, R!Parts \cap G) => x \in G
    <2> SUFFICES ASSUME NEW x \in R!Parts, RepeatOf(x, R!Parts \cap G)
                 PROVE  R!Text[x] \in Seq(Int)
      OBVIOUS
    <2>1. x.kind = "repeat" /\ R!Text[x.of] \in Seq(Int) /\ x \in Multiples
      BY DEF RepeatOf, Multiples
    <2> QED
      BY <2>1, TextCases, BracesInt, WrappedInt, Zenon
  <1> HIDE DEF G
  <1>4. R!Parts \subseteq G
    BY <1>1, <1>2, <1>3, PartsInduction
  <1> QED
    BY <1>4 DEF G

-----------------------------------------------------------------------------
(* The weight of a pattern's text is its product                            *)

\* Nothing of t continues a number.
Ends(t) == Len(t) >= 1 => t[1] \notin Marks

LEMMA Stops ==
    /\ R!LetterA \notin Marks /\ R!LeftBrace \notin Marks /\ R!RightBrace \notin Marks
    /\ R!LeftParen \notin Marks /\ R!RightParen \notin Marks /\ R!PlusSign \notin Marks
    /\ R!LetterA # R!LeftBrace /\ R!LeftParen # R!LeftBrace /\ R!RightParen # R!LeftBrace
    /\ R!RightBrace # R!LeftBrace /\ R!PlusSign # R!LeftBrace /\ R!PlusSign # R!RightBrace
    /\ R!LetterA # R!RightBrace /\ R!LeftBrace # 1 /\ R!LeftBrace # 9
    /\ R!LetterA \in Int /\ R!LeftBrace \in Int /\ R!RightBrace \in Int
    /\ R!LeftParen \in Int /\ R!RightParen \in Int /\ R!PlusSign \in Int
  BY DEF R!LetterA, R!LeftBrace, R!RightBrace, R!LeftParen, R!RightParen, R!PlusSign,
         Marks, R!CommaSign

LEMMA NoBrace ==
    ASSUME NEW s, s[1] # R!LeftBrace
    PROVE  \A d : ~ Block(s, 0, d)
  <1> SUFFICES ASSUME NEW d, Block(s, 0, d)
               PROVE  FALSE
    OBVIOUS
  <1>1. s[0 + 1] = R!LeftBrace
    BY Zenon DEF Block
  <1> QED
    BY <1>1

\* A character that is no brace adds nothing.
LEMMA PrependPlain ==
    \A e, w : \A t \in Seq(Int) :
       e \in Int /\ e \notin Marks /\ e # R!LeftBrace /\ Weighted(t, w)
       => Weighted(<<e>> \o t, w) /\ Ends(<<e>> \o t)
  <1> SUFFICES ASSUME NEW e \in Int, NEW w, NEW t \in Seq(Int), e \notin Marks,
                      e # R!LeftBrace, Weighted(t, w)
               PROVE  Weighted(<<e>> \o t, w) /\ Ends(<<e>> \o t)
    BY Zenon
  <1> DEFINE u == <<e>>
  <1>1. u \in Seq(Int) /\ Len(u) = 1 /\ u[1] = e /\ (u \o t)[1] = e
    OBVIOUS
  <1> HIDE DEF u
  <1>2. w \in Nat \ {0}
    BY DEF Weighted, Weighs
  <1>3. \A d : ~ Block(u \o t, 0, d)
    BY <1>1, NoBrace
  <1>4. \A k \in 2 .. Len(u) : u[k] # R!LeftBrace
    BY <1>1
  <1>5. Opens(u, t, w, w)
    BY <1>1, <1>2, <1>3, <1>4 DEF Opens
  <1>6. Weighted(u \o t, w)
    BY <1>5, Prepend, Zenon
  <1>7. Ends(u \o t)
    BY <1>1, Zenon DEF Ends
  <1> QED
    BY <1>6, <1>7 DEF u

\* No more does a brace that is no repeat.
LEMMA PrependLiteral ==
    ASSUME NEW u \in R!Literals, NEW w, NEW t \in Seq(Int), Weighted(t, w), Ends(t)
    PROVE  Weighted(u \o t, w) /\ Ends(u \o t)
  <1>1. w \in Nat \ {0}
    BY DEF Weighted, Weighs
  <1>2. CASE u = <<R!LetterA>>
    BY <1>2, PrependPlain, Stops, Zenon
  <1>3. CASE u = <<R!LeftBrace>>
    <2>1. u \in Seq(Int) /\ Len(u) = 1 /\ u[1] = R!LeftBrace
      BY <1>3, Stops
    <2>2. PICK s : s = u \o t
      OBVIOUS
    <2>3. /\ Len(s) \in Nat /\ Len(s) = 1 + Len(t) /\ s[1] = R!LeftBrace
          /\ Len(t) \in Nat /\ (Len(t) >= 1 => s[2] = t[1])
      <3>1. IsJoint(s, u, t)
        BY <2>1, <2>2, Joint, Zenon
      <3> QED
        BY <2>1, <3>1 DEF IsJoint
    <2>4. ASSUME NEW y, Block(s, 0, y)
          PROVE  FALSE
      <3> DEFINE d == <<>>
      <3>1. d \in Seq(Marks) /\ Len(d) = 0
        OBVIOUS
      <3> HIDE DEF d
      <3>2. 0 + Len(d) + 1 <= Len(s) /\ \A j \in 1 .. Len(d) : s[0 + 1 + j] = d[j]
        BY <2>3, <3>1
      <3>3. 0 + Len(d) + 1 < Len(s) => s[0 + Len(d) + 2] \notin Marks
        BY <2>3, <3>1 DEF Ends
      <3>s. Stopped(s, 0, d)
        BY <2>3, <3>1, <3>2, <3>3, Zenon DEF Stopped
      <3>4. y = d
        BY <2>4, <3>s, FirstStop
      <3> QED
        BY <2>4, <3>1, <3>4 DEF Block
    <2>5. \A k \in 2 .. Len(u) : u[k] # R!LeftBrace
      BY <2>1
    <2>6. Opens(u, t, w, w)
      BY <1>1, <2>1, <2>2, <2>4, <2>5 DEF Opens
    <2>7. Ends(s)
      BY <2>3, Stops, Zenon DEF Ends
    <2> QED
      BY <2>2, <2>6, <2>7, Prepend, Zenon
  <1>4. CASE u = <<R!LeftBrace, 9, R!LetterA, R!RightBrace>>
    <2>1. /\ u \in Seq(Int) /\ Len(u) = 4 /\ u[1] = R!LeftBrace /\ u[2] = 9
          /\ u[3] = R!LetterA /\ u[4] = R!RightBrace
      BY <1>4, Stops
    <2>2. PICK s : s = u \o t
      OBVIOUS
    <2>3. /\ Len(s) \in Nat /\ Len(s) >= 4 /\ s[1] = R!LeftBrace
          /\ s[2] = 9 /\ s[3] = R!LetterA
      <3>1. IsJoint(s, u, t)
        BY <2>1, <2>2, Joint, Zenon
      <3> QED
        BY <2>1, <3>1 DEF IsJoint
    <2>4. ASSUME NEW y, Block(s, 0, y)
          PROVE  FALSE
      <3> DEFINE d == <<9>>
      <3>1. d \in Seq(Marks) /\ Len(d) = 1 /\ d[1] = 9
        BY DEF Marks
      <3> HIDE DEF d
      <3>2. 0 + Len(d) + 1 <= Len(s) /\ \A j \in 1 .. Len(d) : s[0 + 1 + j] = d[j]
        BY <2>3, <3>1
      <3>3. s[0 + Len(d) + 2] = R!LetterA
        BY <2>3, <3>1
      <3>s. Stopped(s, 0, d)
        BY <2>3, <3>1, <3>2, <3>3, Stops, Zenon DEF Stopped
      <3>4. s[0 + Len(d) + 2] = R!RightBrace
        BY <2>4, <3>s, FirstStop
      <3> QED
        BY <3>3, <3>4, Stops
    <2>5. \A k \in 2 .. Len(u) : u[k] # R!LeftBrace
      <3>1. \A k \in 2 .. 4 : k = 2 \/ k = 3 \/ k = 4
        OBVIOUS
      <3> QED
        BY <2>1, <3>1, Stops
    <2>6. Opens(u, t, w, w)
      BY <1>1, <2>1, <2>2, <2>4, <2>5 DEF Opens
    <2>7. Ends(s)
      BY <2>3, Stops, Zenon DEF Ends
    <2> QED
      BY <2>2, <2>6, <2>7, Prepend, Zenon
  <1> QED
    BY <1>2, <1>3, <1>4, Zenon DEF R!Literals

\* The braces of a repeated pattern multiply the weight by its larger bound.
Braced(d) == (<<R!LeftBrace>> \o d) \o <<R!RightBrace>>

LEMMA Within ==
    \A a \in Nat :
       /\ 1 \in 1 .. a + 2 /\ a + 2 \in 1 .. a + 2 /\ 1 \in 1 .. a + 1
       /\ \A k \in 1 .. a : k \in 1 .. a + 2 /\ k + 1 \in 1 .. a + 2 /\ k + 1 \in 1 .. a + 1
       /\ \A k \in 2 .. a + 2 : k = a + 2 \/ (k - 1 \in 1 .. a /\ (k - 1) + 1 = k)
  OBVIOUS

LEMMA BracedIs ==
    ASSUME NEW d \in Seq(Int), NEW u, u = Braced(d)
    PROVE  /\ u \in Seq(Int) /\ Len(d) \in Nat /\ Len(u) = Len(d) + 2
           /\ u[1] = R!LeftBrace /\ u[Len(d) + 2] = R!RightBrace
           /\ \A j \in 1 .. Len(d) : u[j + 1] = d[j]
  <1> DEFINE b == <<R!LeftBrace>>
             e == <<R!RightBrace>>
             m == b \o d
  <1>1. b \in Seq(Int) /\ Len(b) = 1 /\ b[1] = R!LeftBrace
    BY Stops
  <1>2. e \in Seq(Int) /\ Len(e) = 1 /\ e[1] = R!RightBrace
    BY Stops
  <1>3. u = m \o e
    BY Zenon DEF Braced
  <1> HIDE DEF b, e
  <1>4. IsJoint(m, b, d)
    BY <1>1, Joint, Zenon
  <1> HIDE DEF m
  <1>5. m \in Seq(Int)
    BY <1>4, Zenon DEF IsJoint
  <1>6. IsJoint(u, m, e)
    BY <1>2, <1>3, <1>5, Joint, Zenon
  <1>7. PICK a \in Nat : a = Len(d)
    OBVIOUS
  <1>8. /\ Len(m) = a + 1 /\ m[1] = b[1]
        /\ \A j \in 1 .. a : m[1 + j] = d[j]
    BY <1>1, <1>4, <1>7 DEF IsJoint
  <1>9. /\ u \in Seq(Int) /\ Len(u) = a + 1 + 1
        /\ \A k \in 1 .. a + 1 : u[k] = m[k]
        /\ u[a + 1 + 1] = e[1]
    BY <1>2, <1>6, <1>8 DEF IsJoint
  <1>10. u[1] = R!LeftBrace
    BY <1>1, <1>7, <1>8, <1>9, Within, Zenon
  <1>11. a + 1 + 1 = a + 2 /\ \A j \in 1 .. a : 1 + j = j + 1
    OBVIOUS
  <1>12. \A j \in 1 .. a : u[j + 1] = d[j]
    BY <1>8, <1>9, <1>11, Within, Zenon
  <1> QED
    BY <1>2, <1>7, <1>9, <1>10, <1>11, <1>12, Zenon

LEMMA FactorBound ==
    ASSUME NEW x \in Multiples
    PROVE  /\ R!Approximate(x) => R!Factor(x) = 1
           /\ ~ R!Approximate(x) => R!Factor(x) = Bound(R!Least(x), R!Most(x))
           /\ R!Factor(x) \in Nat /\ R!Factor(x) >= 1
  <1>1. x.times \in Repeats
    BY DEF Multiples
  <1>2. R!Least(x) \in Nat /\ (R!Most(x) = -1 \/ R!Most(x) \in Nat)
    BY <1>1, RepeatTimes, SmallIsNat, Zenon DEF SmallNat
  <1>3. /\ R!Approximate(x) => R!Factor(x) = 1
        /\ ~ R!Approximate(x) => R!Factor(x) = Bound(R!Least(x), R!Most(x))
    BY Zenon DEF R!Factor, Bound
  <1>4. PICK l \in Nat, m \in Int : l = R!Least(x) /\ m = R!Most(x) /\ m >= -1
    BY <1>2
  <1>5. Bound(l, m) \in Nat /\ Bound(l, m) >= 1
    BY <1>4, BoundLargest, Zenon
  <1>6. R!Approximate(x) \/ ~ R!Approximate(x)
    OBVIOUS
  <1>7. R!Factor(x) = 1 \/ R!Factor(x) = Bound(l, m)
    BY <1>3, <1>4, <1>6, Zenon
  <1>8. R!Factor(x) \in Nat /\ R!Factor(x) >= 1
    BY <1>5, <1>7
  <1> QED
    BY <1>3, <1>8, Zenon

LEMMA WeightPositive ==
    \A t, w : t \in Seq(Int) /\ Weighted(t, w) => w \in Nat \ {0}
  <1> SUFFICES ASSUME NEW t \in Seq(Int), NEW w, Weighted(t, w)
               PROVE  w \in Nat \ {0}
    BY Zenon
  <1>1. PICK f : f \in [0 .. Len(t) -> Nat \ {0}] /\ f[0] = w
    BY Zenon DEF Weighted, Weighs
  <1>2. 0 \in 0 .. Len(t)
    OBVIOUS
  <1> QED
    BY <1>1, <1>2

LEMMA MarksSeqInt ==
    \A d \in Seq(Marks) : d \in Seq(Int) /\ Len(d) \in Nat /\ \A j \in 1 .. Len(d) : d[j] \in Marks
  <1> SUFFICES ASSUME NEW d \in Seq(Marks)
               PROVE  d \in Seq(Int) /\ Len(d) \in Nat /\ \A j \in 1 .. Len(d) : d[j] \in Marks
    OBVIOUS
  <1>1. Len(d) \in Nat /\ d \in [1 .. Len(d) -> Marks]
    OBVIOUS
  <1>2. d \in [1 .. Len(d) -> Int]
    BY <1>1, MarksInt
  <1>3. d \in Seq(Int)
    <2>1. PICK a : a = Len(d)
      OBVIOUS
    <2>2. a \in Nat /\ d \in [1 .. a -> Int]
      BY <1>1, <1>2, <2>1, Zenon
    <2>3. [j \in 1 .. a |-> d[j]] \in Seq(Int) /\ d = [j \in 1 .. a |-> d[j]]
      BY <2>2
    <2> QED
      BY <2>3
  <1> QED
    BY <1>1, <1>3

\* What stands in the braces, b, begins with the bounds, d, and holds no brace.
InBraces(x, b, d) ==
    /\ b \in Seq(Int) /\ Len(b) \in Nat /\ d \in Seq(Marks) /\ Len(d) \in Nat
    /\ Len(d) <= Len(b)
    /\ \E j \in 1 .. Len(d) : d[j] \in 0 .. 9
    /\ \A j \in 1 .. Len(d) : b[j] = d[j]
    /\ \A j \in 1 .. Len(b) : b[j] # R!LeftBrace
    /\ ~ R!Approximate(x) => b = d
    /\ R!Approximate(x) => Len(d) + 1 <= Len(b) /\ b[Len(d) + 1] = R!PlusSign

LEMMA BracesHold ==
    ASSUME NEW x \in Multiples, NEW b, NEW d, b = R!Braces(x), d = R!Bounds(x)
    PROVE  InBraces(x, b, d)
  <1>1. x.times \in Repeats
    BY DEF Multiples
  <1>2. d \in Seq(Marks) /\ Len(d) >= 1 /\ d[1] \in 0 .. 9
    BY <1>1, BoundsRead, Zenon
  <1>3. /\ d \in Seq(Int) /\ Len(d) \in Nat /\ \A j \in 1 .. Len(d) : d[j] \in Marks
    BY <1>2, MarksSeqInt, Zenon
  <1>4. \E j \in 1 .. Len(d) : d[j] \in 0 .. 9
    BY <1>2, <1>3
  <1>5. CASE ~ R!Approximate(x)
    <2>1. b = d
      BY <1>5, Zenon DEF R!Braces
    <2>2. \A j \in 1 .. Len(d) : d[j] # R!LeftBrace
      BY <1>3, Stops, Zenon
    <2>3. Len(d) <= Len(d)
      BY <1>3
    <2> QED
      BY <1>2, <1>3, <1>4, <1>5, <2>1, <2>2, <2>3, Zenon DEF InBraces
  <1>6. CASE R!Approximate(x)
    <2> DEFINE e == <<R!PlusSign, 1>>
    <2>1. e \in Seq(Int) /\ Len(e) = 2 /\ e[1] = R!PlusSign /\ e[2] = 1
      BY Stops
    <2>2. b = d \o e
      BY <1>6, Zenon DEF R!Braces
    <2> HIDE DEF e
    <2>3. IsJoint(b, d, e)
      BY <1>3, <2>1, <2>2, Joint, Zenon
    <2>4. PICK a \in Nat : a = Len(d)
      BY <1>3, Zenon
    <2>5. 1 \in 1 .. 2 /\ 2 \in 1 .. 2
      OBVIOUS
    <2>6. /\ b \in Seq(Int) /\ Len(b) = a + 2 /\ b[a + 1] = R!PlusSign /\ b[a + 2] = 1
          /\ \A j \in 1 .. a : b[j] = d[j]
      BY <2>1, <2>3, <2>4, <2>5, Zenon DEF IsJoint
    <2>7. \A j \in 1 .. a : b[j] # R!LeftBrace
      <3> SUFFICES ASSUME NEW j \in 1 .. a
                   PROVE  b[j] # R!LeftBrace
        OBVIOUS
      <3>1. b[j] = d[j] /\ d[j] \in Marks
        BY <1>3, <2>4, <2>6, Zenon
      <3>2. R!LeftBrace \notin Marks
        BY Stops, Zenon
      <3> QED
        BY <3>1, <3>2
    <2>8. /\ \A j \in 1 .. a + 2 : j \in 1 .. a \/ j = a + 1 \/ j = a + 2
          /\ a + 2 \in Nat /\ a <= a + 2 /\ a + 1 <= a + 2
      OBVIOUS
    <2>9. \A j \in 1 .. Len(b) : b[j] # R!LeftBrace
      BY <2>6, <2>7, <2>8, Stops, Zenon
    <2> QED
      BY <1>2, <1>3, <1>4, <1>6, <2>4, <2>6, <2>8, <2>9, Zenon DEF InBraces
  <1> QED
    BY <1>5, <1>6, Zenon

LEMMA PrependBraces ==
    \A x \in Multiples : \A w : \A t \in Seq(Int) :
       Weighted(t, w) => Weighted(Braced(R!Braces(x)) \o t, R!Factor(x) * w)
  <1> SUFFICES ASSUME NEW x \in Multiples, NEW w, NEW t \in Seq(Int), Weighted(t, w)
               PROVE  Weighted(Braced(R!Braces(x)) \o t, R!Factor(x) * w)
    BY Zenon
  <1>1. x.times \in Repeats
    BY DEF Multiples
  <1>2. PICK b, d : b = R!Braces(x) /\ d = R!Bounds(x)
    OBVIOUS
  <1>3. /\ b \in Seq(Int) /\ Len(b) \in Nat /\ d \in Seq(Marks) /\ Len(d) \in Nat
        /\ Len(d) <= Len(b)
        /\ \E j \in 1 .. Len(d) : d[j] \in 0 .. 9
        /\ \A j \in 1 .. Len(d) : b[j] = d[j]
        /\ \A j \in 1 .. Len(b) : b[j] # R!LeftBrace
        /\ ~ R!Approximate(x) => b = d
        /\ R!Approximate(x) => Len(d) + 1 <= Len(b) /\ b[Len(d) + 1] = R!PlusSign
    <2>1. InBraces(x, b, d)
      BY <1>2, BracesHold
    <2> QED
      BY <2>1, Zenon DEF InBraces
  <1>4. PICK u : u = Braced(b)
    OBVIOUS
  <1>5. PICK s : s = u \o t
    OBVIOUS
  <1>6. PICK a \in Nat, m \in Nat : a = Len(b) /\ m = Len(d)
    BY <1>3
  <1>7. PICK z : z = R!Factor(x) * w
    OBVIOUS
  <1>8. z \in Nat \ {0}
    <2>1. \A y, v \in Nat : y >= 1 /\ v >= 1 => y * v \in Nat /\ y * v >= 1
      <3>1. \A y, v \in Nat : y * v \in Nat
        OBVIOUS
      <3>2. \A y, v \in Nat : y >= 1 /\ v >= 1 => y * v >= 1
        BY SMT
      <3> QED
        BY <3>1, <3>2
    <2>2. w \in Nat \ {0}
      BY WeightPositive, Zenon
    <2>3. w \in Nat /\ w >= 1
      BY <2>2
    <2>4. R!Factor(x) * w \in Nat /\ R!Factor(x) * w >= 1
      BY <2>1, <2>3, FactorBound, Zenon
    <2>5. z \in Nat /\ z >= 1
      BY <1>7, <2>4, Zenon
    <2> QED
      BY <2>5
  <1>9. /\ u \in Seq(Int) /\ Len(u) = a + 2
        /\ u[1] = R!LeftBrace /\ u[a + 2] = R!RightBrace
        /\ \A j \in 1 .. a : u[j + 1] = b[j]
    BY <1>3, <1>4, <1>6, BracedIs, Zenon
  <1>10. PICK l \in Nat : l = Len(t)
    OBVIOUS
  <1>11. Len(s) = a + 2 + l /\ \A k \in 1 .. a + 2 : s[k] = u[k]
    <2>1. IsJoint(s, u, t)
      BY <1>5, <1>9, Joint, Zenon
    <2> QED
      BY <1>9, <1>10, <2>1, Zenon DEF IsJoint
  <1>12. s[1] = R!LeftBrace /\ s[a + 2] = R!RightBrace /\ \A j \in 1 .. a : s[j + 1] = b[j]
    BY <1>6, <1>9, <1>11, Within, Zenon
  <1>13. \A k \in 2 .. Len(u) : u[k] # R!LeftBrace
    <2> SUFFICES ASSUME NEW k \in 2 .. Len(u)
                 PROVE  u[k] # R!LeftBrace
      OBVIOUS
    <2>1. k = a + 2 \/ (k - 1 \in 1 .. a /\ (k - 1) + 1 = k)
      BY <1>9
    <2>2. R!RightBrace # R!LeftBrace
      BY Stops, Zenon
    <2>3. CASE k = a + 2
      BY <1>9, <2>2, <2>3, Zenon
    <2>4. CASE k - 1 \in 1 .. a /\ (k - 1) + 1 = k
      <3>1. u[k] = b[k - 1]
        BY <1>9, <2>4, Zenon
      <3>2. b[k - 1] # R!LeftBrace
        <4>1. \A j \in 1 .. a : b[j] # R!LeftBrace
          BY <1>3, <1>6, Zenon
        <4> QED
          BY <2>4, <4>1, Zenon
      <3> QED
        BY <3>1, <3>2, Zenon
    <2> QED
      BY <2>1, <2>3, <2>4, Zenon
  <1>14. m <= a
    BY <1>3, <1>6, Zenon
  <1>15. \A j \in 1 .. m : s[0 + 1 + j] = d[j]
    <2>1. \A j \in 1 .. m : j \in 1 .. a /\ 0 + 1 + j = j + 1
      BY <1>14
    <2> QED
      BY <1>3, <1>6, <1>12, <2>1, Zenon
  <1>16. /\ Len(s) \in Nat /\ 0 + Len(d) + 1 <= Len(s) /\ 0 + Len(d) + 2 <= Len(s)
         /\ 0 + Len(d) + 2 = m + 2 /\ 0 + 1 = 1
    BY <1>6, <1>11, <1>14
  <1>17. CASE ~ R!Approximate(x)
    <2>1. b = d /\ a = m
      BY <1>3, <1>6, <1>17, Zenon
    <2>2. s[0 + Len(d) + 2] = R!RightBrace
      BY <1>12, <1>16, <2>1, Zenon
    <2>s. s[0 + Len(d) + 2] \notin Marks
      BY <2>2, Stops, Zenon
    <2>m. d \in Seq(Marks) /\ \A j \in 1 .. Len(d) : s[0 + 1 + j] = d[j]
      BY <1>3, <1>6, <1>15, Zenon
    <2>3. Stopped(s, 0, d)
      BY ONLY <1>16, <2>m, <2>s, Zenon DEF Stopped
    <2>4. Block(s, 0, d)
      BY <1>3, <1>6, <1>12, <1>15, <1>16, <2>2, Zenon DEF Block
    <2>5. ASSUME NEW y, NEW v, Block(s, 0, y), Reads(y, v)
          PROVE  Len(y) + 2 = Len(u) /\ z = Times(v, w)
      <3>1. y = d
        BY <2>3, <2>5, FirstStop
      <3>2. R!Larger(1, v) = Bound(R!Least(x), R!Most(x))
        BY <1>1, <1>2, <2>5, <3>1, BoundsRead, Zenon
      <3>3. R!Larger(1, v) = R!Factor(x)
        BY <1>17, <3>2, FactorBound, Zenon
      <3> QED
        BY <1>6, <1>7, <1>9, <2>1, <3>1, <3>3, Zenon DEF Times
    <2>6. (\A y : ~ Block(s, 0, y)) => z = w
      BY <2>4, Zenon
    <2>7. Len(u) >= 1
      BY <1>9
    <2>8. Opens(u, t, w, z)
      BY <1>5, <1>8, <1>9, <1>13, <2>5, <2>6, <2>7, Zenon DEF Opens
    <2> QED
      BY <1>2, <1>4, <1>7, <2>8, Prepend, Zenon
  <1>18. CASE R!Approximate(x)
    <2>1. m + 1 \in 1 .. a /\ (m + 1) + 1 = m + 2
      BY <1>3, <1>6, <1>18
    <2>2. s[0 + Len(d) + 2] = R!PlusSign
      BY <1>3, <1>6, <1>12, <1>16, <1>18, <2>1, Zenon
    <2>s. s[0 + Len(d) + 2] \notin Marks
      BY <2>2, Stops, Zenon
    <2>m. d \in Seq(Marks) /\ \A j \in 1 .. Len(d) : s[0 + 1 + j] = d[j]
      BY <1>3, <1>6, <1>15, Zenon
    <2>3. Stopped(s, 0, d)
      BY ONLY <1>16, <2>m, <2>s, Zenon DEF Stopped
    <2>4. ASSUME NEW y, Block(s, 0, y)
          PROVE  FALSE
      <3>1. s[0 + Len(d) + 2] = R!RightBrace
        BY <2>3, <2>4, FirstStop
      <3> QED
        BY <2>2, <3>1, Stops
    <2>5. z = w
      <3>1. w \in Nat
        <4>1. w \in Nat \ {0}
          BY WeightPositive, Zenon
        <4> QED
          BY <4>1
      <3>2. 1 * w = w
        BY <3>1
      <3> QED
        BY <1>7, <1>18, <3>2, FactorBound, Zenon
    <2>6. Len(u) >= 1
      BY <1>9
    <2>7. Opens(u, t, w, z)
      BY <1>5, <1>8, <1>9, <1>13, <2>4, <2>5, <2>6, Zenon DEF Opens
    <2> QED
      BY <1>2, <1>4, <1>7, <2>7, Prepend, Zenon
  <1> QED
    BY <1>17, <1>18

-----------------------------------------------------------------------------
(* What a pattern expands to                                                *)

\* f is computed on x.
ValueOf(f, V, e, g, h, x) ==
    \/ x.kind = "literal" /\ x \in R!Leaves /\ f[x] = e[x]
    \/ /\ x.kind = "row" /\ x.first \in R!Parts /\ x.second \in R!Parts
       /\ f[x.first] \in V /\ f[x.second] \in V /\ f[x] = g[<<f[x.first], f[x.second]>>]
    \/ /\ x.kind = "repeat" /\ x.of \in R!Parts /\ x \in Multiples
       /\ f[x.of] \in V /\ f[x] = h[<<x, f[x.of]>>]

LEMMA Values ==
    \A V, e, g, h : From(V, e, g, h)
                    => \E f \in [R!Parts -> V] : \A x \in R!Parts : ValueOf(f, V, e, g, h, x)
  <1> SUFFICES ASSUME NEW V, NEW e, NEW g, NEW h, From(V, e, g, h)
               PROVE  \E f \in [R!Parts -> V] : \A x \in R!Parts : ValueOf(f, V, e, g, h, x)
    BY Zenon
  <1>1. PICK f \in [R!Parts -> V] : Computed(f, R!Parts, e, g, h)
    BY ComputedParts, Zenon DEF Computable
  <1>2. \A x \in R!Parts : f[x] \in V
    BY <1>1, Zenon
  <1>3. \A x \in R!Parts : ValueOf(f, V, e, g, h, x)
    BY <1>1, <1>2, PartKinds, Zenon DEF Computed, ValueOf
  <1> QED
    BY <1>1, <1>3, Zenon

LEMMA ProductCases ==
    \A x \in R!Parts :
       /\ x.kind = "literal" => R!Product[x] = 1
       /\ x.kind = "row"     => R!Product[x] = R!Product[x.first] * R!Product[x.second]
       /\ x.kind = "repeat"  => R!Product[x] = R!Product[x.of] * R!Factor(x)
  <1> DEFINE V == Nat
             e == [x \in R!Leaves |-> 1]
             g == [z \in V \X V |-> z[1] * z[2]]
             h == [z \in Multiples \X V |-> z[2] * R!Factor(z[1])]
             Body(f, x) == IF x.kind = "literal" THEN 1
                           ELSE IF x.kind = "row" THEN f[x.first] * f[x.second]
                           ELSE f[x.of] * R!Factor(x)
  <1>1. From(V, e, g, h)
    <2>1. \A z \in V \X V : z[1] * z[2] \in V
      OBVIOUS
    <2>2. \A x \in Multiples : R!Factor(x) \in Nat
      BY FactorBound, Zenon
    <2>3. \A z \in Multiples \X V : z[2] * R!Factor(z[1]) \in V
      BY <2>2
    <2> QED
      BY <2>1, <2>3 DEF From
  <1>2. PICK f \in [R!Parts -> V] : \A x \in R!Parts : ValueOf(f, V, e, g, h, x)
    BY <1>1, Values, Zenon
  <1>3. \A x \in R!Parts : f[x] = Body(f, x)
    BY <1>2 DEF ValueOf
  <1>4. f = [x \in R!Parts |-> Body(f, x)]
    <2> HIDE DEF Body
    <2> QED
      BY <1>3, Zenon
  <1>5. R!Product = [x \in R!Parts |-> Body(R!Product, x)]
    BY <1>4, Zenon DEF R!Product
  <1>6. \A x \in R!Parts : R!Product[x] = Body(R!Product, x)
    <2> HIDE DEF Body
    <2> QED
      BY <1>5, Zenon
  <1> QED
    BY <1>6

\* The copies of a closed repeat are within its factor.
LEMMA CopiesNat ==
    \A x \in Multiples :
       /\ R!Copies(x) \in Nat
       /\ R!Most(x) # R!Open /\ ~ R!Approximate(x) => R!Copies(x) <= R!Factor(x)
  <1> SUFFICES ASSUME NEW x \in Multiples
               PROVE  /\ R!Copies(x) \in Nat
                      /\ R!Most(x) # R!Open /\ ~ R!Approximate(x) => R!Copies(x) <= R!Factor(x)
    OBVIOUS
  <1>1. x.times \in Repeats
    BY DEF Multiples
  <1>2. R!Least(x) \in Nat /\ (R!Most(x) = -1 \/ R!Most(x) \in Nat)
    BY <1>1, RepeatTimes, SmallIsNat, Zenon DEF SmallNat
  <1>3. PICK l \in Nat, m \in Int : l = R!Least(x) /\ m = R!Most(x) /\ m >= -1
    BY <1>2
  <1>4. ~ R!Approximate(x) => R!Factor(x) = Bound(l, m)
    BY <1>3, FactorBound, Zenon
  <1>5. R!Copies(x) = CASE l <= 1 /\ m <= 1 -> 1
                        [] m = R!Open       -> l + 1
                        [] OTHER            -> m
    BY <1>3 DEF R!Copies
  <1>6. R!Open = -1
    BY DEF R!Open
  <1>7. CASE m = -1
    <2>1. R!Copies(x) = 1 \/ R!Copies(x) = l + 1
      BY <1>5, <1>6, <1>7
    <2> QED
      BY <1>3, <1>6, <1>7, <2>1
  <1>8. CASE m # -1
    <2>1. R!Copies(x) = IF l <= 1 /\ m <= 1 THEN 1 ELSE m
      BY <1>5, <1>6, <1>8
    <2>2. R!Copies(x) \in Nat /\ R!Copies(x) <= Bound(l, m)
      BY <1>3, <1>8, <2>1, SMT DEF Bound
    <2> QED
      BY <1>4, <2>2, Zenon
  <1> QED
    BY <1>7, <1>8

LEMMA ExpandedCases ==
    \A x \in R!Parts :
       /\ x.kind = "literal" => R!Expanded[x] = Len(x.text)
       /\ x.kind = "row"     => R!Expanded[x] = R!Expanded[x.first] + R!Expanded[x.second]
       /\ x.kind = "repeat"  => R!Expanded[x] = R!Copies(x) * R!Expanded[x.of]
  <1> DEFINE V == Int
             e == [x \in R!Leaves |-> Len(x.text)]
             g == [z \in V \X V |-> z[1] + z[2]]
             h == [z \in Multiples \X V |-> R!Copies(z[1]) * z[2]]
             Body(f, x) == IF x.kind = "literal" THEN Len(x.text)
                           ELSE IF x.kind = "row" THEN f[x.first] + f[x.second]
                           ELSE R!Copies(x) * f[x.of]
  <1>1. From(V, e, g, h)
    <2>1. \A x \in R!Leaves : Len(x.text) \in V
      BY LeafText
    <2>2. \A x \in Multiples : R!Copies(x) \in Int
      BY CopiesNat
    <2>3. \A z \in Multiples \X V : R!Copies(z[1]) * z[2] \in V
      BY <2>2
    <2> QED
      BY <2>1, <2>3 DEF From
  <1>2. PICK f \in [R!Parts -> V] : \A x \in R!Parts : ValueOf(f, V, e, g, h, x)
    BY <1>1, Values, Zenon
  <1>3. \A x \in R!Parts : f[x] = Body(f, x)
    BY <1>2 DEF ValueOf
  <1>4. f = [x \in R!Parts |-> Body(f, x)]
    <2> HIDE DEF Body
    <2> QED
      BY <1>3, Zenon
  <1>5. R!Expanded = [x \in R!Parts |-> Body(R!Expanded, x)]
    BY <1>4, Zenon DEF R!Expanded
  <1>6. \A x \in R!Parts : R!Expanded[x] = Body(R!Expanded, x)
    <2> HIDE DEF Body
    <2> QED
      BY <1>5, Zenon
  <1> QED
    BY <1>6

LEMMA PlainCases ==
    \A x \in R!Parts :
       /\ x.kind = "literal" => R!Plain[x] = Len(x.text)
       /\ x.kind = "row"     => R!Plain[x] = R!Plain[x.first] + R!Plain[x.second]
       /\ x.kind = "repeat"  => R!Plain[x] = R!Plain[x.of]
  <1> DEFINE V == Int
             e == [x \in R!Leaves |-> Len(x.text)]
             g == [z \in V \X V |-> z[1] + z[2]]
             h == [z \in Multiples \X V |-> z[2]]
             Body(f, x) == IF x.kind = "literal" THEN Len(x.text)
                           ELSE IF x.kind = "row" THEN f[x.first] + f[x.second]
                           ELSE f[x.of]
  <1>1. From(V, e, g, h)
    <2>1. \A x \in R!Leaves : Len(x.text) \in V
      BY LeafText
    <2> QED
      BY <2>1 DEF From
  <1>2. PICK f \in [R!Parts -> V] : \A x \in R!Parts : ValueOf(f, V, e, g, h, x)
    BY <1>1, Values, Zenon
  <1>3. \A x \in R!Parts : f[x] = Body(f, x)
    BY <1>2 DEF ValueOf
  <1>4. f = [x \in R!Parts |-> Body(f, x)]
    <2> HIDE DEF Body
    <2> QED
      BY <1>3, Zenon
  <1>5. R!Plain = [x \in R!Parts |-> Body(R!Plain, x)]
    BY <1>4, Zenon DEF R!Plain
  <1>6. \A x \in R!Parts : R!Plain[x] = Body(R!Plain, x)
    <2> HIDE DEF Body
    <2> QED
      BY <1>5, Zenon
  <1> QED
    BY <1>6

LEMMA ClosedCases ==
    \A x \in R!Parts :
       /\ x.kind = "row"    => (R!Closed[x] => R!Closed[x.first] /\ R!Closed[x.second])
       /\ x.kind = "repeat" =>
             (R!Closed[x] => R!Closed[x.of] /\ R!Most(x) # R!Open /\ ~ R!Approximate(x))
  <1> DEFINE V == BOOLEAN
             e == [x \in R!Leaves |-> TRUE]
             g == [z \in V \X V |-> z[1] /\ z[2]]
             h == [z \in Multiples \X V |->
                     z[2] /\ R!Most(z[1]) # R!Open /\ ~ R!Approximate(z[1])]
             Body(f, x) == IF x.kind = "literal" THEN TRUE
                           ELSE IF x.kind = "row" THEN f[x.first] /\ f[x.second]
                           ELSE f[x.of] /\ R!Most(x) # R!Open /\ ~ R!Approximate(x)
  <1>1. From(V, e, g, h)
    BY DEF From
  <1>2. PICK f \in [R!Parts -> V] : \A x \in R!Parts : ValueOf(f, V, e, g, h, x)
    BY <1>1, Values, Zenon
  <1>3. \A x \in R!Parts : f[x] = Body(f, x)
    BY <1>2 DEF ValueOf
  <1>4. f = [x \in R!Parts |-> Body(f, x)]
    <2> HIDE DEF Body
    <2> QED
      BY <1>3, Zenon
  <1>5. R!Closed = [x \in R!Parts |-> Body(R!Closed, x)]
    BY <1>4, Zenon DEF R!Closed
  <1>6. \A x \in R!Parts : R!Closed[x] = Body(R!Closed, x)
    <2> HIDE DEF Body
    <2> QED
      BY <1>5, Zenon
  <1> QED
    BY <1>6

LEMMA ProductPositive ==
    \A x \in R!Parts : R!Product[x] \in Nat /\ R!Product[x] >= 1
  <1> DEFINE Good(a) == a \in Nat /\ a >= 1
             G == {x \in R!Parts : Good(R!Product[x])}
  <1>1. Good(1) /\ \A a, b : Good(a) /\ Good(b) => Good(a * b)
    <2>1. \A a, b \in Nat : a * b \in Nat
      OBVIOUS
    <2>2. \A a, b \in Nat : a >= 1 /\ b >= 1 => a * b >= 1
      BY SMT
    <2> QED
      BY <2>1, <2>2
  <1>2. \A x \in Multiples : Good(R!Factor(x))
    BY FactorBound, Zenon
  <1> HIDE DEF Good
  <1>3. \A x \in R!Leaves : x \in R!Parts /\ x.kind = "literal"
    BY PartsClose DEF R!Leaves
  <1>4. R!Leaves \subseteq G
    BY <1>1, <1>3, ProductCases
  <1>5. \A x \in R!Parts : RowOf(x, R!Parts \cap G) => x \in G
    <2> SUFFICES ASSUME NEW x \in R!Parts, RowOf(x, R!Parts \cap G)
                 PROVE  Good(R!Product[x])
      OBVIOUS
    <2>1. x.kind = "row" /\ Good(R!Product[x.first]) /\ Good(R!Product[x.second])
      BY DEF RowOf
    <2>2. R!Product[x] = R!Product[x.first] * R!Product[x.second]
      BY <2>1, ProductCases, Zenon
    <2> QED
      BY <1>1, <2>1, <2>2, Zenon
  <1>6. \A x \in R!Parts : RepeatOf(x, R!Parts \cap G) => x \in G
    <2> SUFFICES ASSUME NEW x \in R!Parts, RepeatOf(x, R!Parts \cap G)
                 PROVE  Good(R!Product[x])
      OBVIOUS
    <2>1. x.kind = "repeat" /\ Good(R!Product[x.of]) /\ x \in Multiples
      BY DEF RepeatOf, Multiples
    <2>2. R!Product[x] = R!Product[x.of] * R!Factor(x)
      BY <2>1, ProductCases, Zenon
    <2> QED
      BY <1>1, <1>2, <2>1, <2>2, Zenon
  <1> HIDE DEF G
  <1>7. R!Parts \subseteq G
    BY <1>4, <1>5, <1>6, PartsInduction
  <1> QED
    BY <1>7 DEF G, Good

\* A closed pattern has at most as many copies of its literals as its product.
LEMMA ClosedWithinProduct ==
    \A x \in R!Parts :
       /\ R!Expanded[x] \in Nat /\ R!Plain[x] \in Nat
       /\ R!Closed[x] => R!Expanded[x] <= R!Product[x] * R!Plain[x]
  <1> DEFINE Sized(x)   == R!Expanded[x] \in Nat /\ R!Plain[x] \in Nat
             Bounded(x) == R!Expanded[x] <= R!Product[x] * R!Plain[x]
             G == {x \in R!Parts : Sized(x) /\ (R!Closed[x] => Bounded(x))}
  <1>1. \A x \in R!Leaves : x \in R!Parts /\ x.kind = "literal" /\ Len(x.text) \in Nat
    BY PartsClose, LeafText DEF R!Leaves
  <1>2. R!Leaves \subseteq G
    <2> SUFFICES ASSUME NEW x \in R!Leaves
                 PROVE  Sized(x) /\ Bounded(x)
      BY <1>1
    <2>1. PICK a \in Nat : a = Len(x.text)
      BY <1>1
    <2>2. R!Expanded[x] = a /\ R!Plain[x] = a /\ R!Product[x] = 1
      BY <1>1, <2>1, ExpandedCases, PlainCases, ProductCases, Zenon
    <2> QED
      BY <2>2
  <1>3. \A x \in R!Parts : RowOf(x, R!Parts \cap G) => x \in G
    <2> SUFFICES ASSUME NEW x \in R!Parts, RowOf(x, R!Parts \cap G)
                 PROVE  Sized(x) /\ (R!Closed[x] => Bounded(x))
      OBVIOUS
    <2>1. x.kind = "row" /\ x.first \in R!Parts /\ x.second \in R!Parts
      BY DEF RowOf
    <2>2. /\ Sized(x.first) /\ (R!Closed[x.first] => Bounded(x.first))
          /\ Sized(x.second) /\ (R!Closed[x.second] => Bounded(x.second))
      BY DEF RowOf
    <2>3. PICK a \in Nat, b \in Nat, c \in Nat, d \in Nat, k \in Nat, l \in Nat :
             /\ a = R!Expanded[x.first] /\ b = R!Plain[x.first] /\ c = R!Product[x.first]
             /\ d = R!Expanded[x.second] /\ k = R!Plain[x.second] /\ l = R!Product[x.second]
             /\ c >= 1 /\ l >= 1
      BY <2>1, <2>2, ProductPositive
    <2>4. R!Expanded[x] = a + d /\ R!Plain[x] = b + k /\ R!Product[x] = c * l
      BY <2>1, <2>3, ExpandedCases, PlainCases, ProductCases, Zenon
    <2>5. a <= c * b /\ d <= l * k => a + d <= (c * l) * (b + k)
      <3>1. \A v, r, y \in Nat : y >= 1 => v * r <= (v * y) * r
        BY SMT
      <3>2. c * b <= (c * l) * b /\ l * k <= (l * c) * k
        BY <2>3, <3>1
      <3>3. (c * l) * (b + k) = (c * l) * b + (l * c) * k
        BY SMT
      <3>4. c * b \in Nat /\ l * k \in Nat /\ (c * l) * b \in Nat /\ (l * c) * k \in Nat
        OBVIOUS
      <3> QED
        BY <3>2, <3>3, <3>4
    <2>6. R!Closed[x] => Bounded(x.first) /\ Bounded(x.second)
      BY <2>1, <2>2, ClosedCases, Zenon
    <2>7. R!Closed[x] => Bounded(x)
      BY <2>3, <2>4, <2>5, <2>6
    <2> QED
      BY <2>4, <2>7
  <1>4. \A x \in R!Parts : RepeatOf(x, R!Parts \cap G) => x \in G
    <2> SUFFICES ASSUME NEW x \in R!Parts, RepeatOf(x, R!Parts \cap G)
                 PROVE  Sized(x) /\ (R!Closed[x] => Bounded(x))
      OBVIOUS
    <2>1. x.kind = "repeat" /\ x.of \in R!Parts /\ x \in Multiples
      BY DEF RepeatOf, Multiples
    <2>2. Sized(x.of) /\ (R!Closed[x.of] => Bounded(x.of))
      BY DEF RepeatOf
    <2>3. /\ R!Copies(x) \in Nat /\ R!Factor(x) \in Nat
          /\ R!Most(x) # R!Open /\ ~ R!Approximate(x) => R!Copies(x) <= R!Factor(x)
      BY <2>1, CopiesNat, FactorBound, Zenon
    <2>4. PICK a \in Nat, b \in Nat, c \in Nat, k \in Nat, l \in Nat :
             /\ a = R!Expanded[x.of] /\ b = R!Plain[x.of] /\ c = R!Product[x.of]
             /\ k = R!Copies(x) /\ l = R!Factor(x)
      BY <2>1, <2>2, <2>3, ProductPositive
    <2>5. R!Expanded[x] = k * a /\ R!Plain[x] = b /\ R!Product[x] = c * l
      BY <2>1, <2>4, ExpandedCases, PlainCases, ProductCases, Zenon
    <2>6. a <= c * b /\ k <= l => k * a <= (c * l) * b
      <3>1. \A v, r, y \in Nat : v <= r => v * y <= r * y
        BY SMT
      <3>2. \A v, r, y \in Nat : v <= r => y * v <= y * r
        BY SMT
      <3>3. c * b \in Nat /\ k * a \in Nat /\ l * a \in Nat /\ l * (c * b) \in Nat
        OBVIOUS
      <3>4. k <= l => k * a <= l * a
        BY <3>1
      <3>5. a <= c * b => l * a <= l * (c * b)
        BY <3>2, <3>3
      <3>6. l * (c * b) = (c * l) * b
        BY SMT
      <3> QED
        BY <3>3, <3>4, <3>5, <3>6
    <2>7. R!Closed[x] => Bounded(x.of) /\ k <= l
      BY <2>1, <2>2, <2>3, <2>4, ClosedCases, Zenon
    <2>8. R!Closed[x] => Bounded(x)
      BY <2>4, <2>5, <2>6, <2>7
    <2>9. k * a \in Nat
      OBVIOUS
    <2> QED
      BY <2>5, <2>8, <2>9
  <1> HIDE DEF G
  <1>5. R!Parts \subseteq G
    BY <1>2, <1>3, <1>4, PartsInduction
  <1> QED
    BY <1>5 DEF G

-----------------------------------------------------------------------------
(* The text of a pattern weighs its product, before whatever follows        *)

LEMMA EndsLiteral ==
    \A u \in R!Literals : \A w : \A t \in Seq(Int) :
       Weighted(t, w) /\ Ends(t) => Weighted(u \o t, w) /\ Ends(u \o t)
  BY PrependLiteral

LEMMA ConcatIs ==
    \A u, t \in Seq(Int) : u \o t \in Seq(Int)
  OBVIOUS

Chars == Seq(Int)

Associate(x, y, z) == (x \o y) \o z = x \o (y \o z)

LEMMA CharsJoin ==
    /\ \A x, y \in Chars : x \o y \in Chars
    /\ \A x, y, z \in Chars : Associate(x, y, z)
  <1>1. \A x, y \in Seq(Int) : x \o y \in Seq(Int)
    BY ConcatIs
  <1> QED
    BY <1>1, ConcatInts DEF Chars, Associate

\* A repeated pattern before t, character by character.
LEMMA WrappedBefore ==
    \A s, d, t \in Seq(Int) :
       Wrapped(s, d) \o t
          = <<R!LeftParen>> \o (s \o (<<R!RightParen>> \o (Braced(d) \o t)))
  <1> SUFFICES ASSUME NEW s \in Chars, NEW d \in Chars, NEW t \in Chars
               PROVE  Wrapped(s, d) \o t
                         = <<R!LeftParen>> \o (s \o (<<R!RightParen>> \o (Braced(d) \o t)))
    BY Zenon DEF Chars
  <1>1. PICK a \in Chars, b \in Chars, c \in Chars, e \in Chars :
           /\ a = <<R!LeftParen>> /\ b = <<R!RightParen>>
           /\ c = <<R!LeftBrace>> /\ e = <<R!RightBrace>>
    <2>1. /\ <<R!LeftParen>> \in Chars /\ <<R!RightParen>> \in Chars
          /\ <<R!LeftBrace>> \in Chars /\ <<R!RightBrace>> \in Chars
      BY Stops DEF Chars
    <2> QED
      BY <2>1, Zenon
  <1>2. Braced(d) = (c \o d) \o e
    BY <1>1, Zenon DEF Braced
  <1>3. Wrapped(s, d) = ((((a \o s) \o b) \o c) \o d) \o e
    BY <1>1, Zenon DEF Wrapped
  <1>4. PICK m, k, r, y, z : /\ m = (a \o s) \o b /\ k = c \o d /\ r = k \o e
                             /\ y = r \o t /\ z = b \o y
    OBVIOUS
  <1>5. a \o s \in Chars
    BY CharsJoin, Zenon
  <1>6. m \in Chars /\ k \in Chars
    BY <1>4, <1>5, CharsJoin, Zenon
  <1>7. r \in Chars
    BY <1>4, <1>6, CharsJoin, Zenon
  <1>8. y \in Chars
    BY <1>4, <1>7, CharsJoin, Zenon
  <1>9. z \in Chars
    BY <1>4, <1>8, CharsJoin, Zenon
  <1>10. /\ Associate(m, c, d) /\ Associate(m, k, e) /\ Associate(m, r, t)
         /\ Associate(a \o s, b, y) /\ Associate(a, s, z)
    BY <1>5, <1>6, <1>7, <1>8, <1>9, CharsJoin, Zenon
  <1>11. /\ (m \o c) \o d = m \o k /\ (m \o k) \o e = m \o r /\ (m \o r) \o t = m \o y
         /\ m \o y = (a \o s) \o z /\ (a \o s) \o z = a \o (s \o z)
    BY <1>4, <1>10, Zenon DEF Associate
  <1>12. Wrapped(s, d) = m \o r
    BY <1>3, <1>4, <1>11, Zenon
  <1>13. Wrapped(s, d) \o t = a \o (s \o z)
    BY <1>11, <1>12, Zenon
  <1> QED
    BY <1>1, <1>2, <1>4, <1>13, Zenon

\* The text u weighs z, before whatever follows.
Adds(u, z) ==
    \A w : \A t \in Seq(Int) :
       Weighted(t, w) /\ Ends(t) => Weighted(u \o t, z * w) /\ Ends(u \o t)

LEMMA EndsBraced ==
    \A d, t \in Seq(Int) : Ends(Braced(d) \o t)
  <1> SUFFICES ASSUME NEW d \in Seq(Int), NEW t \in Seq(Int)
               PROVE  Ends(Braced(d) \o t)
    OBVIOUS
  <1>1. PICK u, s : u = Braced(d) /\ s = u \o t
    OBVIOUS
  <1>2. u \in Seq(Int) /\ Len(d) \in Nat /\ Len(u) = Len(d) + 2 /\ u[1] = R!LeftBrace
    BY <1>1, BracedIs, Zenon
  <1>3. IsJoint(s, u, t)
    BY <1>1, <1>2, Joint, Zenon
  <1>4. 1 \in 1 .. Len(u)
    BY <1>2
  <1>5. s[1] = R!LeftBrace
    BY <1>2, <1>3, <1>4, Zenon DEF IsJoint
  <1> QED
    BY <1>1, <1>5, Stops, Zenon DEF Ends

LEMMA AddsLiteral ==
    \A x \in R!Leaves : Adds(R!Text[x], R!Product[x])
  <1> SUFFICES ASSUME NEW x \in R!Leaves, NEW w, NEW t \in Seq(Int), Weighted(t, w), Ends(t)
               PROVE  Weighted(R!Text[x] \o t, R!Product[x] * w) /\ Ends(R!Text[x] \o t)
    BY Zenon DEF Adds
  <1>1. x \in R!Parts /\ x.kind = "literal" /\ x.text \in R!Literals
    BY PartsClose DEF R!Leaves
  <1>2. R!Text[x] = x.text /\ R!Product[x] = 1
    BY <1>1, TextCases, ProductCases, Zenon
  <1>3. w \in Nat \ {0}
    BY WeightPositive, Zenon
  <1>4. 1 * w = w
    BY <1>3
  <1> QED
    BY <1>1, <1>2, <1>4, EndsLiteral, Zenon

LEMMA AddsRow ==
    \A x \in R!Parts :
       /\ x.kind = "row" /\ x.first \in R!Parts /\ x.second \in R!Parts
       /\ Adds(R!Text[x.first], R!Product[x.first])
       /\ Adds(R!Text[x.second], R!Product[x.second])
       => Adds(R!Text[x], R!Product[x])
  <1> SUFFICES ASSUME NEW x \in R!Parts,
                      x.kind = "row" /\ x.first \in R!Parts /\ x.second \in R!Parts,
                      Adds(R!Text[x.first], R!Product[x.first]),
                      Adds(R!Text[x.second], R!Product[x.second]),
                      NEW w, NEW t \in Seq(Int), Weighted(t, w), Ends(t)
               PROVE  Weighted(R!Text[x] \o t, R!Product[x] * w) /\ Ends(R!Text[x] \o t)
    BY Zenon DEF Adds
  <1>1. PICK u \in Seq(Int), v \in Seq(Int) : u = R!Text[x.first] /\ v = R!Text[x.second]
    BY TextInt
  <1>2. PICK a \in Nat, b \in Nat : a = R!Product[x.first] /\ b = R!Product[x.second]
    BY ProductPositive
  <1>3. R!Text[x] = u \o v /\ R!Product[x] = a * b
    BY <1>1, <1>2, TextCases, ProductCases, Zenon
  <1>4. Weighted(v \o t, b * w) /\ Ends(v \o t)
    BY <1>1, <1>2, Zenon DEF Adds
  <1>5. v \o t \in Seq(Int)
    BY ConcatIs, Zenon
  <1>6. Weighted(u \o (v \o t), a * (b * w)) /\ Ends(u \o (v \o t))
    BY <1>1, <1>2, <1>4, <1>5, Zenon DEF Adds
  <1>7. w \in Nat \ {0}
    BY WeightPositive, Zenon
  <1>8. (a * b) * w = a * (b * w)
    BY <1>7, SMT
  <1>9. (u \o v) \o t = u \o (v \o t)
    BY ConcatInts, Zenon
  <1> QED
    BY <1>3, <1>6, <1>8, <1>9, Zenon

LEMMA AddsRepeat ==
    \A x \in Multiples :
       x.of \in R!Parts /\ Adds(R!Text[x.of], R!Product[x.of]) => Adds(R!Text[x], R!Product[x])
  <1> SUFFICES ASSUME NEW x \in Multiples, x.of \in R!Parts,
                      Adds(R!Text[x.of], R!Product[x.of]),
                      NEW w, NEW t \in Seq(Int), Weighted(t, w), Ends(t)
               PROVE  Weighted(R!Text[x] \o t, R!Product[x] * w) /\ Ends(R!Text[x] \o t)
    BY Zenon DEF Adds
  <1>1. x \in R!Parts /\ x.kind = "repeat"
    BY DEF Multiples
  <1>2. PICK u \in Seq(Int), d \in Seq(Int) : u = R!Text[x.of] /\ d = R!Braces(x)
    BY TextInt, BracesInt
  <1>3. PICK a \in Nat, b \in Nat : a = R!Product[x.of] /\ b = R!Factor(x)
    BY ProductPositive, FactorBound
  <1>4. R!Text[x] = Wrapped(u, d) /\ R!Product[x] = a * b
    BY <1>1, <1>2, <1>3, TextCases, ProductCases, Zenon
  <1>5. PICK y : y = Braced(d) \o t
    OBVIOUS
  <1>6. y \in Seq(Int) /\ Weighted(y, b * w) /\ Ends(y)
    <2>1. Weighted(y, b * w)
      BY <1>2, <1>3, <1>5, PrependBraces, Zenon
    <2>2. Ends(y)
      BY <1>5, EndsBraced, Zenon
    <2>3. Braced(d) \in Seq(Int)
      BY BracedIs, Zenon
    <2>4. y \in Seq(Int)
      BY <1>5, <2>3, ConcatIs, Zenon
    <2> QED
      BY <2>1, <2>2, <2>4
  <1>7. PICK z : z = <<R!RightParen>> \o y
    OBVIOUS
  <1>8. /\ R!RightParen \in Int /\ R!RightParen \notin Marks /\ R!RightParen # R!LeftBrace
        /\ R!LeftParen \in Int /\ R!LeftParen \notin Marks /\ R!LeftParen # R!LeftBrace
    BY Stops, Zenon
  <1>9. Weighted(z, b * w) /\ Ends(z)
    BY <1>6, <1>7, <1>8, PrependPlain, Zenon
  <1>10. z \in Seq(Int)
    BY <1>6, <1>7, <1>8
  <1>11. Weighted(u \o z, a * (b * w)) /\ Ends(u \o z)
    BY <1>2, <1>3, <1>9, <1>10, Zenon DEF Adds
  <1>12. u \o z \in Seq(Int)
    BY <1>10, ConcatIs, Zenon
  <1>13. Weighted(<<R!LeftParen>> \o (u \o z), a * (b * w)) /\ Ends(<<R!LeftParen>> \o (u \o z))
    BY <1>8, <1>11, <1>12, PrependPlain, Zenon
  <1>14. Wrapped(u, d) \o t = <<R!LeftParen>> \o (u \o z)
    BY <1>5, <1>7, WrappedBefore, Zenon
  <1>15. w \in Nat \ {0}
    BY WeightPositive, Zenon
  <1>16. (a * b) * w = a * (b * w)
    BY <1>15, SMT
  <1> QED
    BY <1>4, <1>13, <1>14, <1>16, Zenon

LEMMA AddsProduct ==
    \A x \in R!Parts : Adds(R!Text[x], R!Product[x])
  <1> DEFINE G == {x \in R!Parts : Adds(R!Text[x], R!Product[x])}
  <1>1. R!Leaves \subseteq G
    BY AddsLiteral, PartsClose
  <1>2. \A x \in R!Parts : RowOf(x, R!Parts \cap G) => x \in G
    BY AddsRow DEF RowOf
  <1>3. \A x \in R!Parts : RepeatOf(x, R!Parts \cap G) => x \in G
    BY AddsRepeat DEF RepeatOf, Multiples
  <1> HIDE DEF G
  <1>4. R!Parts \subseteq G
    BY <1>1, <1>2, <1>3, PartsInduction
  <1> QED
    BY <1>4 DEF G

LEMMA TextWeighed ==
    \A x \in R!Parts : Weighted(R!Text[x], R!Product[x])
  <1>1. <<>> \in Seq(Int) /\ Len(<<>>) = 0
    OBVIOUS
  <1>2. Weighted(<<>>, 1)
    <2> DEFINE f == [k \in 0 .. 0 |-> 1]
    <2>1. f \in [0 .. 0 -> Nat \ {0}] /\ f[0] = 1 /\ 0 .. 0 - 1 = {}
      OBVIOUS
    <2> HIDE DEF f
    <2>2. Weighs(f, <<>>)
      BY <1>1, <2>1 DEF Weighs
    <2> QED
      BY <2>1, <2>2, Zenon DEF Weighted
  <1>3. Ends(<<>>)
    BY <1>1 DEF Ends
  <1> SUFFICES ASSUME NEW x \in R!Parts
               PROVE  Weighted(R!Text[x], R!Product[x])
    OBVIOUS
  <1>4. Weighted(R!Text[x] \o <<>>, R!Product[x] * 1)
    BY <1>1, <1>2, <1>3, AddsProduct, Zenon DEF Adds
  <1>5. R!Text[x] \o <<>> = R!Text[x]
    <2>1. \A u \in Seq(Int) : u \o <<>> = u
      OBVIOUS
    <2> QED
      BY <2>1, TextInt, Zenon
  <1>6. R!Product[x] * 1 = R!Product[x]
    BY ProductPositive
  <1> QED
    BY <1>4, <1>5, <1>6, Zenon

-----------------------------------------------------------------------------
(* The scan                                                                 *)

Sat(a) == IF a > Saturated THEN Saturated ELSE a

\* The scan is at place l of the text t, and has counted what is before it.
AtPlace(f, t, l, m) ==
    /\ l \in 0 .. Len(t) /\ m \in Nat /\ 1 <= m /\ m <= Limit
    /\ m * f[l] = f[0]

\* At place k it has read the characters d behind the brace behind l.
Reading(t, l, k, x, y, e, d, b, c) ==
    /\ t[l + 1] = R!LeftBrace
    /\ d \in Seq(Marks) /\ k = l + 1 + Len(d) /\ k <= Len(t)
    /\ \A j \in 1 .. Len(d) : t[l + 1 + j] = d[j]
    /\ IsRead(d, b, c)
    /\ x = Sat(b[Len(d)]) /\ y = Sat(c[Len(d)])
    /\ e <=> \E j \in 1 .. Len(d) : d[j] \in 0 .. 9

Brace(t, l, k, x, y, e) == \E d, b, c : Reading(t, l, k, x, y, e, d, b, c)

RInv ==
    /\ pattern \in R!Parts /\ text \in Seq(Int)
    /\ guarded \in {"open", "inside"} =>
          \E f : Weighs(f, text) /\ f[0] = R!Product[pattern] /\ AtPlace(f, text, p, product)
    /\ guarded = "inside" => Brace(text, p, q, bound, cur, counted)
    /\ R!CountsEveryRepeat

LEMMA ReadNat ==
    \A d \in Seq(Marks) : \A b, c :
       IsRead(d, b, c) => b[Len(d)] \in Nat /\ c[Len(d)] \in Nat
  <1> SUFFICES ASSUME NEW d \in Seq(Marks), NEW b, NEW c, IsRead(d, b, c)
               PROVE  b[Len(d)] \in Nat /\ c[Len(d)] \in Nat
    BY Zenon
  <1>1. PICK a \in Nat : a = Len(d)
    OBVIOUS
  <1>2. b \in [0 .. a -> Nat] /\ c \in [0 .. a -> Nat]
    BY <1>1, Zenon DEF IsRead
  <1>3. b[a] \in Nat /\ c[a] \in Nat
    BY <1>2
  <1> QED
    BY <1>1, <1>3, Zenon

LEMMA SatDigits ==
    \A a \in Nat, m \in 0 .. 9 : Sat(Sat(a) * 10 + m) = Sat(10 * a + m)
  BY RepeatConstants, SMT DEF Sat

LEMMA SatLarger ==
    \A a, c \in Nat : R!Larger(Sat(a), Sat(c)) = Sat(R!Larger(a, c))
  BY RepeatConstants, SMT DEF Sat, R!Larger

\* A weight is a positive number.
LEMMA WeighsNat ==
    \A f : \A t \in Seq(Int) :
       Weighs(f, t) => \A k \in 0 .. Len(t) : f[k] \in Nat /\ f[k] >= 1
  <1> SUFFICES ASSUME NEW f, NEW t \in Seq(Int), Weighs(f, t), NEW k \in 0 .. Len(t)
               PROVE  f[k] \in Nat /\ f[k] >= 1
    BY Zenon
  <1>1. f \in [0 .. Len(t) -> Nat \ {0}]
    BY Zenon DEF Weighs
  <1>2. f[k] \in Nat \ {0}
    BY <1>1
  <1> QED
    BY <1>2

\* No repeat stands behind l: the next place weighs the same.
LEMMA AtNextPlace ==
    \A f, l, m : \A t \in Seq(Int) :
       Weighs(f, t) /\ AtPlace(f, t, l, m) /\ l < Len(t) /\ (\A y : ~ Block(t, l, y))
       => AtPlace(f, t, l + 1, m)
  <1> SUFFICES ASSUME NEW f, NEW l, NEW m, NEW t \in Seq(Int), Weighs(f, t),
                      AtPlace(f, t, l, m), l < Len(t), \A y : ~ Block(t, l, y)
               PROVE  AtPlace(f, t, l + 1, m)
    BY Zenon
  <1>1. l \in 0 .. Len(t) - 1 /\ l + 1 \in 0 .. Len(t)
    BY DEF AtPlace
  <1>2. Weight(f, t, l)
    BY <1>1, Zenon DEF Weighs
  <1>3. f[l] = f[l + 1]
    BY <1>2, Zenon DEF Weight
  <1> QED
    BY <1>1, <1>3, Zenon DEF AtPlace

\* What has been read so far, and the character behind it, if that is foreign.
LEMMA ReadingStops ==
    \A t \in Seq(Int) : \A l \in Nat : \A k, x, y, e, d, b, c :
       /\ Reading(t, l, k, x, y, e, d, b, c)
       /\ k < Len(t) => t[k + 1] \notin Marks
       => Stopped(t, l, d)
  <1> SUFFICES ASSUME NEW t \in Seq(Int), NEW l \in Nat, NEW k, NEW x, NEW y, NEW e,
                      NEW d, NEW b, NEW c, Reading(t, l, k, x, y, e, d, b, c),
                      k < Len(t) => t[k + 1] \notin Marks
               PROVE  Stopped(t, l, d)
    BY Zenon
  <1>1. /\ d \in Seq(Marks) /\ k = l + 1 + Len(d) /\ k <= Len(t)
        /\ \A j \in 1 .. Len(d) : t[l + 1 + j] = d[j]
    BY Zenon DEF Reading
  <1>2. PICK a \in Nat : a = Len(d)
    BY <1>1
  <1>3. k = l + a + 1 /\ k + 1 = l + a + 2
    BY <1>1, <1>2
  <1>4. Len(t) \in Nat
    OBVIOUS
  <1> QED
    BY <1>1, <1>2, <1>3, <1>4, Zenon DEF Stopped

\* A brace whose reading stopped at no closing brace, or without a digit, is no
\* repeat.
LEMMA NoRepeat ==
    \A t \in Seq(Int) : \A l \in Nat : \A k, x, y, e :
       /\ Brace(t, l, k, x, y, e)
       /\ k < Len(t) => t[k + 1] \notin Marks
       /\ k < Len(t) /\ t[k + 1] = R!RightBrace => ~ e
       => \A u : ~ Block(t, l, u)
  <1> SUFFICES ASSUME NEW t \in Seq(Int), NEW l \in Nat, NEW k, NEW x, NEW y, NEW e,
                      Brace(t, l, k, x, y, e),
                      k < Len(t) => t[k + 1] \notin Marks,
                      k < Len(t) /\ t[k + 1] = R!RightBrace => ~ e,
                      NEW u, Block(t, l, u)
               PROVE  FALSE
    BY Zenon
  <1>1. PICK d, b, c : Reading(t, l, k, x, y, e, d, b, c)
    BY Zenon DEF Brace
  <1>2. Stopped(t, l, d)
    BY <1>1, ReadingStops, Zenon
  <1>3. u = d /\ l + Len(d) + 1 < Len(t) /\ t[l + Len(d) + 2] = R!RightBrace
    BY <1>2, FirstStop, Zenon
  <1>4. d \in Seq(Marks) /\ k = l + 1 + Len(d)
    BY <1>1, Zenon DEF Reading
  <1>5. k = l + Len(d) + 1 /\ k + 1 = l + Len(d) + 2
    <2>1. Len(d) \in Nat
      BY <1>4
    <2> QED
      BY <1>4, <2>1
  <1>6. ~ e
    BY <1>3, <1>5, Zenon
  <1>7. \E j \in 1 .. Len(d) : d[j] \in 0 .. 9
    BY <1>3, Zenon DEF Block
  <1> QED
    BY <1>1, <1>6, <1>7, Zenon DEF Reading

HasDigit(d) == \E j \in 1 .. Len(d) : d[j] \in 0 .. 9

ReadTo(t, l, k, d) == \E x, y, e, b, c : Reading(t, l, k, x, y, e, d, b, c)

BlockUpTo(t, l, d, k) == Block(t, l, d) /\ k + 1 = l + Len(d) + 2

RightAt(t, k) == k < Len(t) /\ t[k + 1] = R!RightBrace

\* A brace whose reading stopped at its closing brace with a digit is one.
LEMMA IsRepeat ==
    \A t \in Seq(Int) : \A l \in Nat : \A k, d :
       ReadTo(t, l, k, d) /\ HasDigit(d) /\ RightAt(t, k) => BlockUpTo(t, l, d, k)
  <1> SUFFICES ASSUME NEW t \in Seq(Int), NEW l \in Nat, NEW k, NEW d,
                      ReadTo(t, l, k, d), HasDigit(d), RightAt(t, k)
               PROVE  BlockUpTo(t, l, d, k)
    BY Zenon
  <1>0. k < Len(t) /\ t[k + 1] = R!RightBrace
    BY Zenon DEF RightAt
  <1>1. /\ d \in Seq(Marks) /\ k = l + 1 + Len(d) /\ t[l + 1] = R!LeftBrace
        /\ \A j \in 1 .. Len(d) : t[l + 1 + j] = d[j]
        /\ \E j \in 1 .. Len(d) : d[j] \in 0 .. 9
    BY Zenon DEF Reading, ReadTo, HasDigit
  <1>2. PICK a \in Nat : a = Len(d)
    BY <1>1
  <1>3. PICK m \in Nat : m = Len(t)
    OBVIOUS
  <1>4. k = l + 1 + a /\ k < m
    BY <1>0, <1>1, <1>2, <1>3, Zenon
  <1>5. k + 1 = l + a + 2 /\ l + a + 2 <= m
    BY <1>4
  <1> QED
    BY <1>0, <1>1, <1>2, <1>3, <1>5, Zenon DEF Block, BlockUpTo

\* The numbers of the products.
Multiplied(m, v, w, z) ==
    /\ z <= Limit => z = m * R!Larger(1, v)
    /\ z > Limit  => m * (R!Larger(1, v) * w) > Limit
    /\ z \in Nat /\ 1 <= z
    /\ m * (R!Larger(1, v) * w) = (m * R!Larger(1, v)) * w

LEMMA Products ==
    \A m, v, w \in Nat : 1 <= m /\ 1 <= w => Multiplied(m, v, w, m * R!Larger(1, Sat(v)))
  <1> SUFFICES ASSUME NEW m \in Nat, NEW v \in Nat, NEW w \in Nat, 1 <= m, 1 <= w
               PROVE  Multiplied(m, v, w, m * R!Larger(1, Sat(v)))
    OBVIOUS
  <1>1. PICK a \in Nat, c \in Nat : a = R!Larger(1, Sat(v)) /\ c = R!Larger(1, v)
    BY RepeatConstants DEF R!Larger, Sat
  <1>2. 1 <= a /\ 1 <= c /\ a <= c /\ (a < Saturated => a = c)
    BY <1>1, RepeatConstants DEF R!Larger, Sat
  <1>3. \A x, y \in Nat : x >= 1 => y <= x * y
    BY SMT
  <1>4. \A x, y, z \in Nat : y <= z => x * y <= x * z
    BY SMT
  <1>5. m * a \in Nat /\ m * c \in Nat /\ c * w \in Nat /\ m * (c * w) \in Nat
    OBVIOUS
  <1>6. a <= m * a /\ m * a <= m * c
    BY <1>2, <1>3, <1>4
  <1>7. c <= c * w
    <2>1. \A x, y \in Nat : y >= 1 => x <= x * y
      BY SMT
    <2> QED
      BY <2>1
  <1>8. m * c <= m * (c * w)
    BY <1>4, <1>5, <1>7
  <1>9. m * (c * w) = (m * c) * w
    BY SMT
  <1>10. Limit \in Nat /\ Saturated \in Nat /\ Limit < Saturated
    BY RepeatConstants
  <1>11. m * a <= Limit => a = c
    BY <1>2, <1>5, <1>6, <1>10
  <1>12. m * a > Limit => m * (c * w) > Limit
    BY <1>5, <1>6, <1>8, <1>10
  <1>13. 1 <= m * a
    BY <1>2, <1>5, <1>6
  <1> QED
    BY <1>1, <1>5, <1>9, <1>11, <1>12, <1>13, Zenon DEF Multiplied

AtRepeat(f, t, l, k, x, y, e) ==
    Weighs(f, t) /\ Brace(t, l, k, x, y, e) /\ e /\ RightAt(t, k)

Counts(f, t, k, z) ==
    /\ z <= Limit => AtPlace(f, t, k + 1, z)
    /\ z > Limit  => f[0] > Limit

\* A repeat that closes multiplies the product by its larger bound.
LEMMA Closing ==
    ASSUME NEW f, NEW l, NEW m, NEW t \in Seq(Int), NEW k, NEW x, NEW y, NEW e, NEW z,
           AtPlace(f, t, l, m), AtRepeat(f, t, l, k, x, y, e),
           z = m * R!Larger(1, R!Larger(x, y))
    PROVE  Counts(f, t, k, z)
  <1>0. Weighs(f, t) /\ Brace(t, l, k, x, y, e) /\ e /\ RightAt(t, k)
    BY Zenon DEF AtRepeat
  <1>1. PICK d, b, c : Reading(t, l, k, x, y, e, d, b, c)
    BY <1>0, Zenon DEF Brace
  <1>2. l \in Nat /\ l <= Len(t) /\ m \in Nat /\ 1 <= m /\ m * f[l] = f[0] /\ Len(t) \in Nat
    BY DEF AtPlace
  <1>3. Block(t, l, d) /\ k + 1 = l + Len(d) + 2
    <2>2. HasDigit(d)
      BY <1>0, <1>1, Zenon DEF Reading, HasDigit
    <2>3. ReadTo(t, l, k, d)
      BY <1>1, Zenon DEF ReadTo
    <2>4. BlockUpTo(t, l, d, k)
      BY <1>0, <1>2, <2>2, <2>3, IsRepeat, Zenon
    <2> QED
      BY <2>4, Zenon DEF BlockUpTo
  <1>4. d \in Seq(Marks) /\ IsRead(d, b, c) /\ x = Sat(b[Len(d)]) /\ y = Sat(c[Len(d)])
    BY <1>1, Zenon DEF Reading
  <1>5. PICK v : v = R!Larger(b[Len(d)], c[Len(d)])
    OBVIOUS
  <1>6. Reads(d, v)
    BY <1>4, <1>5, Zenon DEF Reads
  <1>7. b[Len(d)] \in Nat /\ c[Len(d)] \in Nat
    BY <1>4, ReadNat, Zenon
  <1>8. R!Larger(x, y) = Sat(v) /\ v \in Nat
    <2>1. R!Larger(x, y) = Sat(v)
      BY <1>4, <1>5, <1>7, SatLarger, Zenon
    <2>2. v \in Nat
      BY <1>5, <1>7 DEF R!Larger
    <2> QED
      BY <2>1, <2>2
  <1>9. l + Len(d) + 2 <= Len(t) /\ Len(d) \in Nat
    BY <1>3, <1>4 DEF Block
  <1>10. l \in 0 .. Len(t) - 1 /\ k + 1 \in 0 .. Len(t)
    BY <1>2, <1>3, <1>9
  <1>11. Weight(f, t, l)
    BY <1>0, <1>10, Zenon DEF Weighs
  <1>12. f[l] = R!Larger(1, v) * f[k + 1]
    BY <1>3, <1>6, <1>11, Zenon DEF Weight, Times
  <1>13. f[k + 1] \in Nat /\ f[k + 1] >= 1
    BY <1>0, <1>10, WeighsNat, Zenon
  <1>14. PICK w \in Nat : w = f[k + 1] /\ 1 <= w
    BY <1>13
  <1>15. f[0] = m * (R!Larger(1, v) * w)
    BY <1>2, <1>12, <1>14, Zenon
  <1>16. z = m * R!Larger(1, Sat(v))
    BY <1>8, Zenon
  <1>17. /\ z <= Limit => z = m * R!Larger(1, v)
         /\ z > Limit => m * (R!Larger(1, v) * w) > Limit
         /\ z \in Nat /\ 1 <= z
         /\ m * (R!Larger(1, v) * w) = (m * R!Larger(1, v)) * w
    <2>1. Multiplied(m, v, w, z)
      BY <1>2, <1>8, <1>14, <1>16, Products, Zenon
    <2> QED
      BY <2>1, Zenon DEF Multiplied
  <1> QED
    BY <1>10, <1>14, <1>15, <1>17, Zenon DEF AtPlace, Counts

\* One more character of a brace, m.
ReadOn(d, b, c, m, y, z) ==
    /\ IsRead(Append(d, m), y, z)
    /\ m \in 0 .. 9 => /\ y[Len(d) + 1] = b[Len(d)]
                       /\ z[Len(d) + 1] = 10 * c[Len(d)] + m
    /\ m = R!CommaSign => /\ y[Len(d) + 1] = R!Larger(b[Len(d)], c[Len(d)])
                          /\ z[Len(d) + 1] = 0

LEMMA ReadOne ==
    \A d \in Seq(Marks) : \A b, c : \A m \in Marks :
       IsRead(d, b, c) => \E y, z : ReadOn(d, b, c, m, y, z)
  <1> SUFFICES ASSUME NEW d \in Seq(Marks), NEW b, NEW c, NEW m \in Marks, IsRead(d, b, c)
               PROVE  \E y, z : ReadOn(d, b, c, m, y, z)
    BY Zenon
  <1>1. PICK a \in Nat : a = Len(d)
    OBVIOUS
  <1>2. PICK s : s = Append(d, m)
    OBVIOUS
  <1>3. Len(s) = a + 1 /\ s[a + 1] = m /\ \A k \in 1 .. a : s[k] = d[k]
    BY <1>1, <1>2
  <1>4. /\ b \in [0 .. a -> Nat] /\ c \in [0 .. a -> Nat] /\ b[0] = 0 /\ c[0] = 0
        /\ \A k \in 1 .. a :
              /\ d[k] = R!CommaSign => b[k] = R!Larger(b[k - 1], c[k - 1]) /\ c[k] = 0
              /\ d[k] \in 0 .. 9    => b[k] = b[k - 1] /\ c[k] = 10 * c[k - 1] + d[k]
    BY <1>1, Zenon DEF IsRead
  <1>5. b[a] \in Nat /\ c[a] \in Nat
    BY <1>4
  <1>6. PICK u \in Nat, v \in Nat :
           /\ m \in 0 .. 9 => u = b[a] /\ v = 10 * c[a] + m
           /\ m \notin 0 .. 9 => u = R!Larger(b[a], c[a]) /\ v = 0
    <2>1. CASE m \in 0 .. 9
      <3>1. m \in Nat /\ 10 * c[a] + m \in Nat
        BY <1>5, <2>1
      <3> QED
        BY <1>5, <2>1, <3>1
    <2>2. CASE m \notin 0 .. 9
      <3>1. R!Larger(b[a], c[a]) \in Nat
        BY <1>5 DEF R!Larger
      <3> QED
        BY <2>2, <3>1
    <2> QED
      BY <2>1, <2>2
  <1>7. R!CommaSign \notin 0 .. 9
    BY DEF R!CommaSign
  <1> DEFINE y == [k \in 0 .. a + 1 |-> IF k = a + 1 THEN u ELSE b[k]]
             z == [k \in 0 .. a + 1 |-> IF k = a + 1 THEN v ELSE c[k]]
  <1>8. /\ y \in [0 .. a + 1 -> Nat] /\ y[a + 1] = u /\ \A k \in 0 .. a : y[k] = b[k]
        /\ z \in [0 .. a + 1 -> Nat] /\ z[a + 1] = v /\ \A k \in 0 .. a : z[k] = c[k]
    BY <1>4
  <1> HIDE DEF y, z
  <1>9. \A k \in 1 .. a + 1 :
              /\ s[k] = R!CommaSign => y[k] = R!Larger(y[k - 1], z[k - 1]) /\ z[k] = 0
              /\ s[k] \in 0 .. 9    => y[k] = y[k - 1] /\ z[k] = 10 * z[k - 1] + s[k]
    <2> SUFFICES ASSUME NEW k \in 1 .. a + 1
                 PROVE  /\ s[k] = R!CommaSign => y[k] = R!Larger(y[k - 1], z[k - 1]) /\ z[k] = 0
                        /\ s[k] \in 0 .. 9    => y[k] = y[k - 1] /\ z[k] = 10 * z[k - 1] + s[k]
      OBVIOUS
    <2>1. CASE k = a + 1
      <3>1. k - 1 = a /\ a \in 0 .. a
        BY <2>1
      <3>2. y[k - 1] = b[a] /\ z[k - 1] = c[a] /\ y[k] = u /\ z[k] = v /\ s[k] = m
        BY <1>3, <1>8, <2>1, <3>1, Zenon
      <3> QED
        BY <1>6, <1>7, <3>2, Zenon
    <2>2. CASE k \in 1 .. a
      <3>1. k \in 0 .. a /\ k - 1 \in 0 .. a
        BY <2>2
      <3>2. y[k - 1] = b[k - 1] /\ z[k - 1] = c[k - 1] /\ y[k] = b[k] /\ z[k] = c[k]
            /\ s[k] = d[k]
        BY <1>3, <1>8, <2>2, <3>1, Zenon
      <3> QED
        BY <1>4, <2>2, <3>2, Zenon
    <2>3. k = a + 1 \/ k \in 1 .. a
      OBVIOUS
    <2> QED
      BY <2>1, <2>2, <2>3, Zenon
  <1>10. y[0] = 0 /\ z[0] = 0
    BY <1>4, <1>8
  <1>11. IsRead(s, y, z)
    BY <1>3, <1>8, <1>9, <1>10, Zenon DEF IsRead
  <1>12. ReadOn(d, b, c, m, y, z)
    BY <1>1, <1>2, <1>6, <1>7, <1>8, <1>11, Zenon DEF ReadOn
  <1> QED
    BY <1>12, Zenon

LEMMA InitRInv == R!Init => RInv
  <1> SUFFICES ASSUME R!Init
               PROVE  RInv
    OBVIOUS
  <1>1. /\ pattern \in R!Patterns /\ text = R!Text[pattern]
        /\ p = 0 /\ product = 1 /\ guarded = "open"
    BY DEF R!Init
  <1>2. pattern \in R!Parts
    BY <1>1, PartsClose
  <1>3. text \in Seq(Int)
    BY <1>1, <1>2, TextInt, Zenon
  <1>4. Weighted(text, R!Product[pattern])
    BY <1>1, <1>2, TextWeighed, Zenon
  <1>5. PICK f : Weighs(f, text) /\ f[0] = R!Product[pattern]
    BY <1>4, Zenon DEF Weighted
  <1>6. AtPlace(f, text, p, product)
    <2>1. f[0] \in Nat
      BY <1>2, <1>5, ProductPositive
    <2>2. 1 * f[0] = f[0]
      BY <2>1
    <2>3. 0 \in 0 .. Len(text) /\ 1 \in Nat /\ 1 <= 1 /\ 1 <= Limit
      BY <1>3, RepeatConstants
    <2> QED
      BY <1>1, <2>2, <2>3, Zenon DEF AtPlace
  <1>7. R!CountsEveryRepeat /\ guarded # "inside"
    BY <1>1 DEF R!CountsEveryRepeat
  <1> QED
    BY <1>2, <1>3, <1>5, <1>6, <1>7, Zenon DEF RInv

\* The characters that the scan has a case for.
LEMMA Foreign ==
    \A k : /\ k \in {R!LetterA, R!PlusSign, R!LeftBrace, R!LeftParen, R!RightParen}
              => k \notin Marks /\ k # R!RightBrace
           /\ k = R!RightBrace => k \notin Marks
           /\ k = R!CommaSign => k \in Marks /\ k \notin 0 .. 9
           /\ k \in 0 .. 9 => k \in Marks /\ k # R!CommaSign
  <1>1. /\ R!RightBrace # R!LetterA /\ R!RightBrace # R!PlusSign /\ R!RightBrace # R!LeftBrace
        /\ R!RightBrace # R!LeftParen /\ R!RightBrace # R!RightParen
    BY DEF R!RightBrace, R!LetterA, R!PlusSign, R!LeftBrace, R!LeftParen, R!RightParen
  <1>2. R!CommaSign \notin 0 .. 9
    BY DEF R!CommaSign
  <1>3. \A k : k \in Marks <=> k \in 0 .. 9 \/ k = R!CommaSign
    BY Zenon DEF Marks
  <1> QED
    BY <1>1, <1>2, <1>3, Stops, Zenon

\* One more character of a brace, as the scan reads it.
LEMMA BraceMore ==
    ASSUME NEW t \in Seq(Int), NEW l \in Nat, NEW k, NEW x, NEW y, NEW e,
           Brace(t, l, k, x, y, e), k < Len(t), NEW m, m = t[k + 1]
    PROVE  /\ m \in 0 .. 9 => Brace(t, l, k + 1, x, Sat(y * 10 + m), TRUE)
           /\ m = R!CommaSign => Brace(t, l, k + 1, R!Larger(x, y), 0, e)
  <1>1. PICK d, b, c : Reading(t, l, k, x, y, e, d, b, c)
    BY Zenon DEF Brace
  <1>2. /\ t[l + 1] = R!LeftBrace
        /\ d \in Seq(Marks) /\ k = l + 1 + Len(d) /\ k <= Len(t)
        /\ \A j \in 1 .. Len(d) : t[l + 1 + j] = d[j]
        /\ IsRead(d, b, c)
        /\ x = Sat(b[Len(d)]) /\ y = Sat(c[Len(d)])
        /\ e <=> \E j \in 1 .. Len(d) : d[j] \in 0 .. 9
    BY <1>1, Zenon DEF Reading
  <1>d. d \in Seq(Marks)
    BY <1>2, Zenon
  <1>3. PICK a \in Nat : a = Len(d)
    BY <1>d
  <1>4. b[a] \in Nat /\ c[a] \in Nat
    <2>1. IsRead(d, b, c)
      BY <1>2, Zenon
    <2> QED
      BY <1>d, <1>3, <2>1, ReadNat, Zenon
  <1> SUFFICES ASSUME m \in Marks
               PROVE  /\ m \in 0 .. 9 => Brace(t, l, k + 1, x, Sat(y * 10 + m), TRUE)
                      /\ m = R!CommaSign => Brace(t, l, k + 1, R!Larger(x, y), 0, e)
    BY Foreign, Zenon
  <1>5. PICK s : s = Append(d, m)
    OBVIOUS
  <1>6. PICK u, v : /\ IsRead(s, u, v)
                    /\ m \in 0 .. 9 => u[a + 1] = b[a] /\ v[a + 1] = 10 * c[a] + m
                    /\ m = R!CommaSign => u[a + 1] = R!Larger(b[a], c[a]) /\ v[a + 1] = 0
    <2>1. PICK u, v : ReadOn(d, b, c, m, u, v)
      BY <1>2, ReadOne, Zenon
    <2> QED
      BY <1>3, <1>5, <2>1, Zenon DEF ReadOn
  <1>7. /\ s \in Seq(Marks) /\ Len(s) = a + 1 /\ s[a + 1] = m
        /\ \A j \in 1 .. a : s[j] = d[j]
    BY <1>d, <1>3, <1>5
  <1>8. k + 1 = l + 1 + Len(s) /\ k + 1 <= Len(t)
    BY <1>2, <1>3, <1>7
  <1>9. \A j \in 1 .. Len(s) : t[l + 1 + j] = s[j]
    <2> SUFFICES ASSUME NEW j \in 1 .. a + 1
                 PROVE  t[l + 1 + j] = s[j]
      BY <1>7
    <2>1. CASE j = a + 1
      <3>1. l + 1 + j = k + 1
        BY <1>2, <1>3, <2>1
      <3> QED
        BY <1>7, <2>1, <3>1, Zenon
    <2>2. CASE j \in 1 .. a
      BY <1>2, <1>3, <1>7, <2>2, Zenon
    <2>3. j = a + 1 \/ j \in 1 .. a
      OBVIOUS
    <2> QED
      BY <2>1, <2>2, <2>3, Zenon
  <1>10. a + 1 \in 1 .. a + 1 /\ \A j : j \in 1 .. a + 1 <=> j \in 1 .. a \/ j = a + 1
    OBVIOUS
  <1>11. (\E j \in 1 .. Len(s) : s[j] \in 0 .. 9)
            <=> m \in 0 .. 9 \/ \E j \in 1 .. Len(d) : d[j] \in 0 .. 9
    BY <1>3, <1>7, <1>10, Zenon
  <1>12. t[l + 1] = R!LeftBrace
    BY <1>2, Zenon
  <1>13. s \in Seq(Marks) /\ Len(s) = a + 1
    BY <1>7, Zenon
  <1>14. IsRead(s, u, v)
    BY <1>6, Zenon
  <1>15. e <=> \E j \in 1 .. Len(d) : d[j] \in 0 .. 9
    BY <1>2, Zenon
  <1>16. ASSUME m \in 0 .. 9
         PROVE  Brace(t, l, k + 1, x, Sat(y * 10 + m), TRUE)
    <2>1. Sat(y * 10 + m) = Sat(v[a + 1])
      BY <1>2, <1>3, <1>4, <1>6, <1>16, SatDigits, Zenon
    <2>2. x = Sat(u[a + 1])
      BY <1>2, <1>3, <1>6, <1>16, Zenon
    <2>3. TRUE <=> \E j \in 1 .. Len(s) : s[j] \in 0 .. 9
      BY <1>11, <1>16, Zenon
    <2>4. x = Sat(u[Len(s)]) /\ Sat(y * 10 + m) = Sat(v[Len(s)])
      BY <1>13, <2>1, <2>2, Zenon
    <2>5. Reading(t, l, k + 1, x, Sat(y * 10 + m), TRUE, s, u, v)
      BY ONLY <1>8, <1>9, <1>12, <1>13, <1>14, <2>3, <2>4, Zenon DEF Reading
    <2> QED
      BY <2>5, Zenon DEF Brace
  <1>17. ASSUME m = R!CommaSign
         PROVE  Brace(t, l, k + 1, R!Larger(x, y), 0, e)
    <2>1. R!Larger(x, y) = Sat(u[a + 1])
      BY <1>2, <1>3, <1>4, <1>6, <1>17, SatLarger, Zenon
    <2>2. 0 = Sat(v[a + 1])
      <3>1. Sat(0) = 0
        BY RepeatConstants DEF Sat
      <3> QED
        BY <1>6, <1>17, <3>1, Zenon
    <2>3. m \notin 0 .. 9
      BY <1>17, Foreign, Zenon
    <2>4. e <=> \E j \in 1 .. Len(s) : s[j] \in 0 .. 9
      BY <1>11, <1>15, <2>3, Zenon
    <2>5. R!Larger(x, y) = Sat(u[Len(s)]) /\ 0 = Sat(v[Len(s)])
      BY <1>13, <2>1, <2>2, Zenon
    <2>6. Reading(t, l, k + 1, R!Larger(x, y), 0, e, s, u, v)
      BY ONLY <1>8, <1>9, <1>12, <1>13, <1>14, <2>4, <2>5, Zenon DEF Reading
    <2> QED
      BY <2>6, Zenon DEF Brace
  <1> QED
    BY <1>16, <1>17

\* A brace that has just been opened.
LEMMA BraceOpens ==
    \A t \in Seq(Int) : \A l \in Nat :
       l < Len(t) /\ t[l + 1] = R!LeftBrace => Brace(t, l, l + 1, 0, 0, FALSE)
  <1> SUFFICES ASSUME NEW t \in Seq(Int), NEW l \in Nat, l < Len(t), t[l + 1] = R!LeftBrace
               PROVE  Brace(t, l, l + 1, 0, 0, FALSE)
    BY Zenon
  <1> DEFINE d == <<>>
             b == [k \in 0 .. 0 |-> 0]
  <1>1. /\ d \in Seq(Marks) /\ Len(d) = 0 /\ 1 .. Len(d) = {}
        /\ l + 1 = l + 1 + Len(d) /\ l + 1 <= Len(t)
    OBVIOUS
  <1>2. b \in [0 .. 0 -> Nat] /\ b[0] = 0
    OBVIOUS
  <1>3. Sat(0) = 0
    BY RepeatConstants DEF Sat
  <1> HIDE DEF d, b
  <1>4. IsRead(d, b, b)
    BY <1>1, <1>2 DEF IsRead
  <1>5. Reading(t, l, l + 1, 0, 0, FALSE, d, b, b)
    BY <1>1, <1>2, <1>3, <1>4, Zenon DEF Reading
  <1> QED
    BY <1>5, Zenon DEF Brace

LEMMA NextRInv == RInv /\ [R!Next]_repeatVars => RInv'
  <1> SUFFICES ASSUME RInv, [R!Next]_repeatVars
               PROVE  RInv'
    OBVIOUS
  <1>0. /\ pattern \in R!Parts /\ text \in Seq(Int)
        /\ guarded \in {"open", "inside"} =>
              \E f : Weighs(f, text) /\ f[0] = R!Product[pattern] /\ AtPlace(f, text, p, product)
        /\ guarded = "inside" => Brace(text, p, q, bound, cur, counted)
        /\ R!CountsEveryRepeat
    BY Zenon DEF RInv
  <1>1. CASE UNCHANGED repeatVars
    <2>1. /\ pattern' = pattern /\ text' = text /\ p' = p /\ q' = q /\ bound' = bound
          /\ cur' = cur /\ counted' = counted /\ product' = product /\ guarded' = guarded
      BY <1>1 DEF repeatVars
    <2>2. R!CountsEveryRepeat'
      BY <1>0, <2>1, Zenon DEF R!CountsEveryRepeat
    <2> QED
      BY <1>0, <2>1, <2>2, Zenon DEF RInv
  <1>2. CASE R!Next
    <2>0. /\ guarded \in {"open", "inside"} /\ pattern' = pattern /\ text' = text
      BY <1>2 DEF R!Next, R!Skip, R!Accept, R!OpenBrace, R!Digit, R!Comma, R!NotCounted,
                  R!CloseBrace
    <2>1. PICK f : Weighs(f, text) /\ f[0] = R!Product[pattern] /\ AtPlace(f, text, p, product)
      BY <1>0, <2>0, Zenon
    <2>2. /\ p \in Nat /\ p <= Len(text) /\ product \in Nat /\ 1 <= product
          /\ product <= Limit /\ product * f[p] = f[0]
      <3>1. p \in 0 .. Len(text)
        BY <2>1, Zenon DEF AtPlace
      <3>2. product \in Nat /\ 1 <= product /\ product <= Limit /\ product * f[p] = f[0]
        BY <2>1, Zenon DEF AtPlace
      <3> QED
        BY <3>1, <3>2
    <2>3. pattern' \in R!Parts /\ text' \in Seq(Int)
      BY <1>0, <2>0, Zenon
    \* A step that leaves the scan running.
    <2>4. ASSUME guarded' \in {"open", "inside"}, AtPlace(f, text, p', product'),
                 guarded' = "inside" => Brace(text, p', q', bound', cur', counted')
          PROVE  RInv'
      <3>1. R!CountsEveryRepeat'
        BY <2>4 DEF R!CountsEveryRepeat
      <3>2. Weighs(f, text') /\ f[0] = R!Product[pattern'] /\ AtPlace(f, text', p', product')
        BY <2>0, <2>1, <2>4, Zenon
      <3>3. guarded' = "inside" => Brace(text', p', q', bound', cur', counted')
        BY <2>0, <2>4, Zenon
      <3> QED
        BY <2>3, <3>1, <3>2, <3>3, Zenon DEF RInv
    <2>5. CASE R!Skip
      <3>1. /\ p < Len(text) /\ text[p + 1] # R!LeftBrace /\ p' = p + 1
            /\ product' = product /\ guarded' = "open"
        BY <2>5 DEF R!Skip, R!At
      <3>2. \A y : ~ Block(text, p, y)
        BY <3>1, Zenon DEF Block
      <3>3. AtPlace(f, text, p', product')
        BY <1>0, <2>1, <3>1, <3>2, AtNextPlace, Zenon
      <3> QED
        BY <2>4, <3>1, <3>3
    <2>6. CASE R!Accept
      <3>1. p = Len(text) /\ guarded' = "accepted"
        BY <2>6 DEF R!Accept
      <3>2. f[p] = 1
        BY <2>1, <3>1, Zenon DEF Weighs
      <3>3. f[0] = product
        BY <2>2, <3>2
      <3>4. R!Product[pattern'] <= Limit
        BY <2>0, <2>1, <2>2, <3>3, Zenon
      <3>5. R!CountsEveryRepeat'
        BY <3>1, <3>4 DEF R!CountsEveryRepeat
      <3>6. guarded' \notin {"open", "inside"} /\ guarded' # "inside"
        BY <3>1
      <3> QED
        BY <2>3, <3>5, <3>6, Zenon DEF RInv
    <2>7. CASE R!OpenBrace
      <3>1. /\ p < Len(text) /\ text[p + 1] = R!LeftBrace /\ q' = p + 1 /\ bound' = 0
            /\ cur' = 0 /\ counted' = FALSE /\ guarded' = "inside"
            /\ p' = p /\ product' = product
        BY <2>7 DEF R!OpenBrace, R!At
      <3>2. Brace(text, p, p + 1, 0, 0, FALSE)
        BY <1>0, <2>2, <3>1, BraceOpens, Zenon
      <3>3. Brace(text, p', q', bound', cur', counted')
        BY <3>1, <3>2
      <3>4. AtPlace(f, text, p', product')
        BY <2>1, <3>1
      <3> QED
        BY <2>4, <3>1, <3>3, <3>4
    <2>8. CASE R!Digit
      <3>1. /\ guarded = "inside" /\ q < Len(text) /\ text[q + 1] \in 0 .. 9
            /\ cur' = Sat(cur * 10 + text[q + 1]) /\ counted' = TRUE /\ q' = q + 1
            /\ p' = p /\ bound' = bound /\ product' = product /\ guarded' = guarded
        BY <2>8, Zenon DEF R!Digit, R!At, Sat
      <3>2. Brace(text, p, q, bound, cur, counted)
        BY <1>0, <3>1, Zenon
      <3>3. Brace(text, p, q + 1, bound, Sat(cur * 10 + text[q + 1]), TRUE)
        BY <1>0, <2>2, <3>1, <3>2, BraceMore
      <3>4. Brace(text, p', q', bound', cur', counted')
        BY <3>1, <3>3
      <3>5. AtPlace(f, text, p', product')
        BY <2>1, <3>1
      <3> QED
        BY <2>4, <3>1, <3>4, <3>5
    <2>9. CASE R!Comma
      <3>1. /\ guarded = "inside" /\ q < Len(text) /\ text[q + 1] = R!CommaSign
            /\ bound' = R!Larger(bound, cur) /\ cur' = 0 /\ q' = q + 1
            /\ p' = p /\ counted' = counted /\ product' = product /\ guarded' = guarded
        BY <2>9, Zenon DEF R!Comma, R!At
      <3>2. Brace(text, p, q, bound, cur, counted)
        BY <1>0, <3>1, Zenon
      <3>3. Brace(text, p, q + 1, R!Larger(bound, cur), 0, counted)
        BY <1>0, <2>2, <3>1, <3>2, BraceMore
      <3>4. Brace(text, p', q', bound', cur', counted')
        BY <3>1, <3>3
      <3>5. AtPlace(f, text, p', product')
        BY <2>1, <3>1
      <3> QED
        BY <2>4, <3>1, <3>4, <3>5
    <2>10. CASE R!NotCounted
      <3>1. /\ guarded = "inside" /\ p' = p + 1 /\ guarded' = "open" /\ product' = product
            /\ \/ q = Len(text)
               \/ q < Len(text) /\ text[q + 1] \in {R!LetterA, R!PlusSign, R!LeftBrace,
                                                     R!LeftParen, R!RightParen}
               \/ q < Len(text) /\ text[q + 1] = R!RightBrace /\ ~ counted
        BY <2>10, Zenon DEF R!NotCounted, R!At
      <3>2. Brace(text, p, q, bound, cur, counted)
        BY <1>0, <3>1, Zenon
      <3>3. Len(text) \in Nat
        BY <1>0
      <3>4. q = Len(text) => ~ (q < Len(text))
        BY <3>3
      <3>5. q < Len(text) => text[q + 1] \notin Marks
        BY <3>1, <3>4, Foreign, Zenon
      <3>6. q < Len(text) /\ text[q + 1] = R!RightBrace => ~ counted
        BY <3>1, <3>4, Foreign, Zenon
      <3>7. \A u : ~ Block(text, p, u)
        BY <1>0, <2>2, <3>2, <3>5, <3>6, NoRepeat, Zenon
      <3>8. p < Len(text)
        <4>1. PICK d, b, c : Reading(text, p, q, bound, cur, counted, d, b, c)
          BY <3>2, Zenon DEF Brace
        <4>2. d \in Seq(Marks) /\ q = p + 1 + Len(d) /\ q <= Len(text)
          BY <4>1, Zenon DEF Reading
        <4>3. Len(d) \in Nat
          BY <4>2
        <4> QED
          BY <2>2, <3>3, <4>2, <4>3
      <3>9. AtPlace(f, text, p', product')
        BY <1>0, <2>1, <3>1, <3>7, <3>8, AtNextPlace, Zenon
      <3> QED
        BY <2>4, <3>1, <3>9
    <2>11. CASE R!CloseBrace
      <3>1. /\ guarded = "inside" /\ q < Len(text) /\ text[q + 1] = R!RightBrace /\ counted
            /\ bound' = R!Larger(bound, cur)
            /\ product' = product * (IF bound' > 1 THEN bound' ELSE 1)
            /\ IF product' > Limit THEN guarded' = "excessive" /\ p' = p
               ELSE guarded' = "open" /\ p' = q + 1
        BY <2>11, Zenon DEF R!CloseBrace, R!At
      <3>2. Brace(text, p, q, bound, cur, counted)
        BY <1>0, <3>1, Zenon
      <3>3. bound' \in Nat
        <4>1. PICK d, b, c : Reading(text, p, q, bound, cur, counted, d, b, c)
          BY <3>2, Zenon DEF Brace
        <4>2. IsRead(d, b, c) /\ bound = Sat(b[Len(d)]) /\ cur = Sat(c[Len(d)])
              /\ d \in Seq(Marks)
          BY <4>1, Zenon DEF Reading
        <4>3. b[Len(d)] \in Nat /\ c[Len(d)] \in Nat
          BY <4>2, ReadNat, Zenon
        <4>4. bound \in Nat /\ cur \in Nat
          BY <4>2, <4>3, RepeatConstants DEF Sat
        <4> QED
          BY <3>1, <4>4 DEF R!Larger
      <3>4. product' = product * R!Larger(1, R!Larger(bound, cur))
        <4>1. R!Larger(1, bound') = IF bound' > 1 THEN bound' ELSE 1
          BY <3>3 DEF R!Larger
        <4> QED
          BY <3>1, <4>1, Zenon
      <3>5. /\ product' <= Limit => AtPlace(f, text, q + 1, product')
            /\ product' > Limit  => f[0] > Limit
        <4>1. AtRepeat(f, text, p, q, bound, cur, counted)
          BY <2>1, <3>1, <3>2, Zenon DEF AtRepeat, RightAt
        <4>2. Counts(f, text, q, product')
          BY <1>0, <2>1, <3>4, <4>1, Closing
        <4> QED
          BY <4>2, Zenon DEF Counts
      <3>6. CASE product' > Limit
        <4>1. guarded' = "excessive" /\ R!Product[pattern'] > Limit
          BY <2>0, <2>1, <3>1, <3>5, <3>6, Zenon
        <4>2. R!CountsEveryRepeat'
          BY <4>1 DEF R!CountsEveryRepeat
        <4>3. guarded' \notin {"open", "inside"} /\ guarded' # "inside"
          BY <4>1
        <4> QED
          BY <2>3, <4>2, <4>3, Zenon DEF RInv
      <3>7. CASE ~ (product' > Limit)
        <4>1. guarded' = "open" /\ p' = q + 1
          BY <3>1, <3>7
        <4>2. product' <= Limit
          <5>1. \A a \in Nat : product * a \in Nat
            BY <2>2
          <5>2. R!Larger(1, R!Larger(bound, cur)) \in Nat
            BY <3>1, <3>3 DEF R!Larger
          <5>3. product' \in Nat /\ Limit \in Nat
            BY <3>4, <5>1, <5>2, RepeatConstants, Zenon
          <5> QED
            BY <3>7, <5>3
        <4>3. AtPlace(f, text, p', product')
          BY <3>5, <4>1, <4>2, Zenon
        <4> QED
          BY <2>4, <4>1, <4>3
      <3> QED
        BY <3>6, <3>7
    <2> QED
      BY <1>2, <2>5, <2>6, <2>7, <2>8, <2>9, <2>10, <2>11 DEF R!Next
  <1> QED
    BY <1>1, <1>2

-----------------------------------------------------------------------------
(* The repeat guard, as theorems *)

RepeatInv == subject = "repeats" => RInv

LEMMA RepeatInvHolds == ScansSpec => []RepeatInv
  <1>1. ScansInit => RepeatInv
    BY InitRInv DEF ScansInit, RepeatInv
  <1>2. RepeatInv /\ [ScansNext]_allVars => RepeatInv'
    <2> SUFFICES ASSUME RepeatInv, [ScansNext]_allVars, subject' = "repeats"
                 PROVE  RInv'
      BY DEF RepeatInv
    <2>1. subject = "repeats" /\ [R!Next]_repeatVars
      BY DEF ScansNext, allVars, repeatVars
    <2> QED
      BY <2>1, NextRInv DEF RepeatInv
  <1> QED
    BY <1>1, <1>2, PTL DEF ScansSpec

\* fuzz_repeat_product_excessive refuses a pattern exactly when the product of
\* the larger bounds of all its counted repeats is above the limit, whatever
\* the pattern, its nesting, its stray braces and the saturation of the numbers.
THEOREM RepeatsCounted == ScansSpec => []CountsEveryRepeat
  <1>1. RepeatInv => CountsEveryRepeat
    BY DEF RepeatInv, RInv, CountsEveryRepeat
  <1> QED
    BY <1>1, RepeatInvHolds, PTL

LEMMA AcceptedWithin ==
    ASSUME RInv, R!Closed[pattern], guarded = "accepted"
    PROVE  R!Expanded[pattern] <= Limit * R!Plain[pattern]
  <1>1. pattern \in R!Parts /\ R!Product[pattern] <= Limit
    BY DEF RInv, R!CountsEveryRepeat
  <1>2. PICK a \in Nat, b \in Nat, c \in Nat :
           a = R!Expanded[pattern] /\ b = R!Plain[pattern] /\ c = R!Product[pattern]
    BY <1>1, ClosedWithinProduct, ProductPositive
  <1>3. a <= c * b
    BY <1>1, <1>2, ClosedWithinProduct, Zenon
  <1>4. Limit \in Nat /\ c <= Limit
    BY <1>1, <1>2, RepeatConstants, Zenon
  <1>5. \A x, y, z \in Nat : x <= y => x * z <= y * z /\ x * z \in Nat /\ y * z \in Nat
    <2>1. \A x, y \in Nat : x * y \in Nat
      OBVIOUS
    <2>2. \A x, y, z \in Nat : x <= y => x * z <= y * z
      BY SMT
    <2> QED
      BY <2>1, <2>2, Zenon
  <1>6. c * b <= Limit * b /\ c * b \in Nat /\ Limit * b \in Nat
    BY <1>4, <1>5, Zenon
  <1>7. a <= Limit * b
    BY <1>3, <1>6
  <1> QED
    BY <1>2, <1>7, Zenon

\* A pattern that the guard accepts expands in TRE to at most the limit times
\* its own literals, if its repeats are exact and have an upper bound.
THEOREM ExpansionBounded == ScansSpec => []ClosedExpansionBounded
  <1>1. RepeatInv => ClosedExpansionBounded
    BY AcceptedWithin, Zenon DEF RepeatInv, ClosedExpansionBounded, R!ClosedExpansionBounded
  <1> QED
    BY <1>1, RepeatInvHolds, PTL
=============================================================================
