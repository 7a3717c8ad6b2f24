----------------------------- MODULE Utf8Check ------------------------------
(***************************************************************************)
(* The two readers of UTF-8 in the harnesses: eval_valid_utf8 of eval.c,   *)
(* which admits an input to the parser, and fuzz_decode_utf8 of            *)
(* character.c, the lenient one with which the chartr guard counts.  Each  *)
(* scans a string in steps of one to four bytes; the first never looks at  *)
(* a byte past the end, the second relies on the NUL behind it.            *)
(*                                                                         *)
(* Both are compared with the definition of UTF-8: a scalar value in its   *)
(* shortest form.                                                          *)
(***************************************************************************)
EXTENDS Naturals, Sequences

CONSTANTS Bytes,    \* the byte values that occur
          MaxSize   \* bound on the length of a string

Utf8Limits ==
    /\ Bytes \subseteq 1 .. 255
    /\ MaxSize \in Nat

\* Indices are C's: data[i] is byte i, from 0, and the string ends in a NUL.
At(s, i) == IF i < Len(s) THEN s[i + 1] ELSE 0

Continues(b) == b \in 128 .. 191     \* (b & 0xc0) == 0x80

-----------------------------------------------------------------------------
(* The definition of UTF-8 *)

\* The value that a sequence of bytes of the right shape stands for.
Shaped(b) ==
    /\ Len(b) \in 1 .. 4
    /\ b[1] \in <<0 .. 127, 192 .. 223, 224 .. 239, 240 .. 247>>[Len(b)]
    /\ \A k \in 2 .. Len(b) : Continues(b[k])

Value(b) ==
    LET bits(k) == b[k] % 64
    IN  IF Len(b) = 1 THEN b[1]
        ELSE IF Len(b) = 2 THEN 64 * (b[1] % 32) + bits(2)
        ELSE IF Len(b) = 3 THEN 4096 * (b[1] % 16) + 64 * bits(2) + bits(3)
        ELSE 262144 * (b[1] % 8) + 4096 * bits(2) + 64 * bits(3) + bits(4)

\* Shortest form, no surrogate, within Unicode.
Shortest(n) == <<0, 128, 2048, 65536>>[n]

Scalar(v, n) ==
    /\ v >= Shortest(n)
    /\ v < 55296 \/ v > 57343
    /\ v <= 1114111

Encodes(b) == Shaped(b) /\ Scalar(Value(b), Len(b))

-----------------------------------------------------------------------------
(* The scans *)

VARIABLES
    data,      \* the string
    i,         \* eval_valid_utf8's position
    verdict,   \* "open", "valid" or "invalid"
    j,         \* the chartr guard's position
    decoded    \* the code points it has read

vars == <<data, i, verdict, j, decoded>>

Init ==
    /\ data \in UNION {[1 .. n -> Bytes] : n \in 0 .. MaxSize}
    /\ i = 0
    /\ verdict = "open"
    /\ j = 0
    /\ decoded = <<>>

\* The first bytes of a sequence of n bytes that eval_valid_utf8 takes.
Lead(n) == <<0 .. 127, 194 .. 223, 224 .. 239, 240 .. 244>>[n]

\* What it demands of a byte d after a first byte c: no overlong form, no
\* surrogate, nothing beyond Unicode.
Second(c, d) ==
    /\ c = 224 => d >= 160
    /\ c = 237 => d < 160
    /\ c = 240 => d >= 144
    /\ c = 244 => d < 144

\* A plausible test that admits surrogates and overlong forms.
AdmitsLoosely(n) ==
    /\ i + n <= Len(data)
    /\ At(data, i) \in Lead(n)
    /\ \A k \in 1 .. n - 1 : Continues(At(data, i + k))

\* What it demands of a sequence of n bytes that starts at i.
Admits(n) ==
    /\ i + n <= Len(data)
    /\ At(data, i) \in Lead(n)
    /\ \A k \in 1 .. n - 1 : Continues(At(data, i + k))
    /\ n > 1 => Second(At(data, i), At(data, i + 1))

\* One turn of its loop.
Check ==
    /\ verdict = "open"
    /\ i < Len(data)
    /\ IF \E n \in 1 .. 4 : Admits(n)
       THEN /\ \E n \in 1 .. 4 : Admits(n) /\ i' = i + n
            /\ UNCHANGED verdict
       ELSE /\ verdict' = "invalid"
            /\ UNCHANGED i
    /\ UNCHANGED <<data, j, decoded>>

CheckEnds ==
    /\ verdict = "open"
    /\ i = Len(data)
    /\ verdict' = "valid"
    /\ UNCHANGED <<data, i, j, decoded>>

\* A plausible decoder that knows no sequence of four bytes.
AnnouncedShort(c) ==
    IF c < 128 THEN 1 ELSE IF c < 224 THEN 2 ELSE 3

\* fuzz_decode_utf8: the length the first byte announces ...
Announced(c) ==
    IF c < 128 THEN 1 ELSE IF c < 224 THEN 2 ELSE IF c < 240 THEN 3 ELSE 4

\* ... which counts only if so many bytes follow; the NUL does not continue.
Follows(n) ==
    \A k \in 1 .. n - 1 : Continues(At(data, j + k))

\* The payload bits of a first byte that announces n bytes: c & (0x7f >> n).
Payload(c, n) == c % <<128, 32, 16, 8>>[n]

\* Those of the bytes after it shifted in, one byte after the other.
Shifted(c, n) ==
    LET shifted[k \in 1 .. n] ==
            IF k = 1 THEN Payload(c, n) ELSE shifted[k - 1] * 64 + (At(data, j + k - 1) % 64)
    IN  shifted[n]

\* One call of it, as the guard's loop makes them from left to right.
Decode ==
    /\ j < Len(data)
    /\ LET c == At(data, j)
           n == Announced(c)
       IN  IF Follows(n)
           THEN /\ decoded' = Append(decoded, Shifted(c, n))
                /\ j' = j + n
           ELSE /\ decoded' = Append(decoded, c)
                /\ j' = j + 1
    /\ UNCHANGED <<data, i, verdict>>

Next == Check \/ CheckEnds \/ Decode

Spec == Init /\ [][Next]_vars

-----------------------------------------------------------------------------
(* Properties *)

\* The sequence of n bytes that starts at k.
Sequence(k, n) == [l \in 1 .. n |-> At(data, k + l - 1)]

Starts(k, n) == k + n <= Len(data) /\ Encodes(Sequence(k, n))

\* The ways to cut the string into such sequences, each the set of the places
\* where one starts and the last ends.
Cuts ==
    {c \in SUBSET (0 .. Len(data)) :
        /\ {0, Len(data)} \subseteq c
        /\ \A k \in c \ {Len(data)} : \E n \in 1 .. 4 : Starts(k, n) /\ k + n \in c}

WellFormed == Cuts # {}

\* eval_valid_utf8 admits exactly the strings that are UTF-8: no overlong
\* form, surrogate, stray or missing continuation byte slips through, and
\* nothing else is refused.
ExactlyUtf8 ==
    /\ verdict = "valid" => WellFormed
    /\ verdict = "invalid" => ~WellFormed

\* The code points of the rest of a well-formed string, from k on.
CodePoints[k \in 0 .. Len(data)] ==
    IF ~ \E n \in 1 .. 4 : Starts(k, n) THEN <<>>
    ELSE LET n == CHOOSE m \in 1 .. 4 : Starts(k, m)
         IN  <<Value(Sequence(k, n))>> \o CodePoints[k + n]

\* Of a UTF-8 string the lenient decoder reads the very code points, and of
\* no string anything behind its NUL.
DecodesUtf8 ==
    /\ j <= Len(data)
    /\ j = Len(data) /\ WellFormed => decoded = CodePoints[0]
=============================================================================
