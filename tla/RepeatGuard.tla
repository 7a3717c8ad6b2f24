----------------------------- MODULE RepeatGuard ----------------------------
(***************************************************************************)
(* fuzz_repeat_product_excessive of common.h, the scan that keeps patterns *)
(* with too many nested counted repeats from TRE.  It multiplies the       *)
(* largest number of every {...} and refuses the pattern when the product  *)
(* passes a limit.                                                         *)
(*                                                                         *)
(* The patterns are printed from syntax trees, so that what the scan says  *)
(* can be compared with the size of the tree that TRE builds when it       *)
(* copies the argument of a counted repeat.                                *)
(***************************************************************************)
EXTENDS Integers, Sequences

CONSTANTS Limit,     \* FUZZ_MAX_REPEAT_PRODUCT
          Saturated, \* where the reading of a number saturates
          Repeats,   \* the repeats <<min, max, approximate>> that occur
          Nesting    \* bound on the depth of what a pattern repeats

\* The max of a repeat {min,} without an upper bound.
Open == -1

\* Bound on the numbers of a repeat.
LargestNumber == 999

RepeatLimits ==
    /\ Limit \in Nat /\ Limit >= 1
    /\ Saturated \in Nat /\ Saturated > Limit
    /\ Repeats \subseteq (0 .. LargestNumber) \X (-1 .. LargestNumber) \X BOOLEAN
    /\ Nesting \in Nat

-----------------------------------------------------------------------------
(* Patterns: literals, two patterns in a row, a repeated pattern *)

\* The characters of a pattern: a digit is its value.
LeftParen == 40
RightParen == 41
PlusSign == 43
CommaSign == 44
LetterA == 97
LeftBrace == 123
RightBrace == 125

\* Braces that are no counted repeat are literals too.
Literals == {<<LetterA>>, <<LeftBrace>>, <<LeftBrace, 9, LetterA, RightBrace>>}

Leaves     == [kind : {"literal"}, text : Literals]
Rows(S)    == [kind : {"row"}, first : S, second : S]
Counted(S) == [kind : {"repeat"}, of : S, times : Repeats]

Nested[d \in 0 .. Nesting] ==
    IF d = 0 THEN Leaves
    ELSE Nested[d - 1] \cup Rows(Nested[d - 1]) \cup Counted(Nested[d - 1])

Inner    == Nested[Nesting]
Patterns == Counted(Inner)
Parts    == Inner \cup Patterns

Digits[k \in 0 .. LargestNumber] == IF k < 10 THEN <<k>> ELSE Append(Digits[k \div 10], k % 10)

Least(x) == x.times[1]
Most(x)  == x.times[2]
Approximate(x) == x.times[3]

Bounds(x) ==
    CASE Most(x) = Least(x) -> Digits[Least(x)]
      [] Most(x) = Open     -> Digits[Least(x)] \o <<CommaSign>>
      [] OTHER              -> Digits[Least(x)] \o <<CommaSign>> \o Digits[Most(x)]

\* With TRE's approximate syntax, {2+14}: twice, with up to 14 insertions.
Braces(x) ==
    IF Approximate(x) THEN Bounds(x) \o <<PlusSign, 1>> ELSE Bounds(x)

Text[x \in Parts] ==
    IF x.kind = "literal" THEN x.text
    ELSE IF x.kind = "row" THEN Text[x.first] \o Text[x.second]
    ELSE <<LeftParen>> \o Text[x.of] \o <<RightParen>>
         \o <<LeftBrace>> \o Braces(x) \o <<RightBrace>>

\* The copies that TRE makes of a repeated pattern: max of them, or min and
\* one more under a star.  A repeat that asks for at most one is not expanded.
Copies(x) ==
    CASE Least(x) <= 1 /\ Most(x) <= 1 -> 1
      [] Most(x) = Open                -> Least(x) + 1
      [] OTHER                         -> Most(x)

Expanded[x \in Parts] ==
    IF x.kind = "literal" THEN Len(x.text)
    ELSE IF x.kind = "row" THEN Expanded[x.first] + Expanded[x.second]
    ELSE Copies(x) * Expanded[x.of]

\* The pattern's own literals.
Plain[x \in Parts] ==
    IF x.kind = "literal" THEN Len(x.text)
    ELSE IF x.kind = "row" THEN Plain[x.first] + Plain[x.second]
    ELSE Plain[x.of]

\* Are all its repeats exact and bounded?
Closed[x \in Parts] ==
    IF x.kind = "literal" THEN TRUE
    ELSE IF x.kind = "row" THEN Closed[x.first] /\ Closed[x.second]
    ELSE Closed[x.of] /\ Most(x) # Open /\ ~Approximate(x)

\* The product of the larger bounds of all repeats but the approximate ones,
\* which the guard does not take for counted repeats.
Factor(x) ==
    IF ~Approximate(x) /\ (Least(x) > 1 \/ Most(x) > 1)
    THEN IF Least(x) > Most(x) THEN Least(x) ELSE Most(x)
    ELSE 1

Product[x \in Parts] ==
    IF x.kind = "literal" THEN 1
    ELSE IF x.kind = "row" THEN Product[x.first] * Product[x.second]
    ELSE Product[x.of] * Factor(x)

-----------------------------------------------------------------------------
(* The scan *)

VARIABLES
    tree,     \* the pattern
    pattern,  \* its text
    p,        \* where the scan is; Len(pattern) is the NUL
    q,        \* where it is inside braces
    bound,    \* the largest number before a comma so far
    cur,      \* the number being read
    counted,  \* it has seen a digit and nothing foreign
    product,
    verdict   \* "open", "inside" a brace, "accepted" or "excessive"

vars == <<tree, pattern, p, q, bound, cur, counted, product, verdict>>

Init ==
    /\ tree \in Patterns
    /\ pattern = Text[tree]
    /\ p = 0 /\ q = 0
    /\ bound = 0 /\ cur = 0 /\ counted = FALSE
    /\ product = 1
    /\ verdict = "open"

At(k) == pattern[k + 1]
Larger(a, b) == IF a > b THEN a ELSE b

Skip ==
    /\ verdict = "open"
    /\ p < Len(pattern) /\ At(p) # LeftBrace
    /\ p' = p + 1
    /\ UNCHANGED <<tree, pattern, q, bound, cur, counted, product, verdict>>

Accept ==
    /\ verdict = "open"
    /\ p = Len(pattern)
    /\ verdict' = "accepted"
    /\ UNCHANGED <<tree, pattern, p, q, bound, cur, counted, product>>

OpenBrace ==
    /\ verdict = "open"
    /\ p < Len(pattern) /\ At(p) = LeftBrace
    /\ q' = p + 1
    /\ bound' = 0 /\ cur' = 0 /\ counted' = FALSE
    /\ verdict' = "inside"
    /\ UNCHANGED <<tree, pattern, p, product>>

\* A number that saturates at the limit itself.
DigitSaturatingLow ==
    /\ verdict = "inside"
    /\ q < Len(pattern) /\ At(q) \in 0 .. 9
    /\ LET read == cur * 10 + At(q) IN cur' = IF read > Limit THEN Limit ELSE read
    /\ counted' = TRUE
    /\ q' = q + 1
    /\ UNCHANGED <<tree, pattern, p, bound, product, verdict>>

Digit ==
    /\ verdict = "inside"
    /\ q < Len(pattern) /\ At(q) \in 0 .. 9
    /\ LET read == cur * 10 + At(q) IN cur' = IF read > Saturated THEN Saturated ELSE read
    /\ counted' = TRUE
    /\ q' = q + 1
    /\ UNCHANGED <<tree, pattern, p, bound, product, verdict>>

Comma ==
    /\ verdict = "inside"
    /\ q < Len(pattern) /\ At(q) = CommaSign
    /\ bound' = Larger(bound, cur)
    /\ cur' = 0
    /\ q' = q + 1
    /\ UNCHANGED <<tree, pattern, p, counted, product, verdict>>

\* Anything else, the end, or a brace without a digit: no counted repeat, and
\* the scan goes on behind its opening brace.
NotCounted ==
    /\ verdict = "inside"
    /\ \/ q = Len(pattern)
       \/ q < Len(pattern) /\ At(q) \in {LetterA, PlusSign, LeftBrace, LeftParen, RightParen}
       \/ q < Len(pattern) /\ At(q) = RightBrace /\ ~counted
    /\ p' = p + 1
    /\ counted' = FALSE
    /\ verdict' = "open"
    /\ UNCHANGED <<tree, pattern, q, bound, cur, product>>

\* A brace that is counted by the number before its comma.
CloseBraceLower ==
    /\ verdict = "inside"
    /\ q < Len(pattern) /\ At(q) = RightBrace /\ counted
    /\ bound' = IF bound > 0 THEN bound ELSE cur
    /\ product' = product * (IF bound' > 1 THEN bound' ELSE 1)
    /\ IF product' > Limit
       THEN verdict' = "excessive" /\ UNCHANGED p
       ELSE verdict' = "open" /\ p' = q + 1
    /\ UNCHANGED <<tree, pattern, q, cur, counted>>

CloseBrace ==
    /\ verdict = "inside"
    /\ q < Len(pattern) /\ At(q) = RightBrace /\ counted
    /\ bound' = Larger(bound, cur)
    /\ product' = product * (IF bound' > 1 THEN bound' ELSE 1)
    /\ IF product' > Limit
       THEN verdict' = "excessive" /\ UNCHANGED p
       ELSE verdict' = "open" /\ p' = q + 1
    /\ UNCHANGED <<tree, pattern, q, cur, counted>>

Next == Skip \/ Accept \/ OpenBrace \/ Digit \/ Comma \/ NotCounted \/ CloseBrace

Spec == Init /\ [][Next]_vars

-----------------------------------------------------------------------------
(* Properties *)

\* The scan finds every counted repeat, whatever braces stand before it, and
\* counts its larger bound: its verdict is that of the product over the tree.
CountsEveryRepeat ==
    /\ verdict = "accepted" => Product[tree] <= Limit
    /\ verdict = "excessive" => Product[tree] > Limit

\* What an accepted pattern expands to is within the limit times its literals,
\* if its repeats are exact and have an upper bound: the guard skips TRE's
\* approximate repeats, and does not count the starred copy of an open one.
ClosedExpansionBounded ==
    verdict = "accepted" /\ Closed[tree] => Expanded[tree] <= Limit * Plain[tree]
=============================================================================
