---------------------------- MODULE ChartrGuard -----------------------------
(***************************************************************************)
(* fuzz_chartr_table_excessive of character.c, which keeps from chartr() a *)
(* translation whose ranges expand to too large a table.  It goes over the *)
(* characters that fuzz_decode_utf8 (Utf8Check) decodes, a range or a      *)
(* single character at a time, and adds up what they expand to.            *)
(***************************************************************************)
EXTENDS Naturals, Sequences, FiniteSets

CONSTANTS Characters,   \* the code points that occur; a hyphen is one
          MaxLength,    \* bound on a specification
          MaxTable      \* FUZZ_MAX_CHARTR_TABLE

Hyphen == 45

ChartrLimits ==
    /\ Characters \subseteq Nat /\ Hyphen \in Characters
    /\ MaxLength \in Nat
    /\ MaxTable \in Nat

-----------------------------------------------------------------------------
(* The guard *)

VARIABLES
    spec,     \* the specification, decoded
    at,       \* characters it is past
    ahead,    \* what it has decoded from there, up to three
    entries,
    verdict   \* "open", "accepted" or "excessive"

vars == <<spec, at, ahead, entries, verdict>>

Init ==
    /\ spec \in UNION {[1 .. n -> Characters] : n \in 0 .. MaxLength}
    /\ at = 0
    /\ ahead = <<>>
    /\ entries = 0
    /\ verdict = "open"

\* The inner loop decodes one more character.
LookAhead ==
    /\ verdict = "open"
    /\ Len(ahead) < 3 /\ at + Len(ahead) < Len(spec)
    /\ ahead' = Append(ahead, spec[at + Len(ahead) + 1])
    /\ UNCHANGED <<spec, at, entries, verdict>>

\* The inner loop has ended with something to count.
Looked ==
    /\ verdict = "open"
    /\ ahead # <<>>
    /\ Len(ahead) = 3 \/ at + Len(ahead) = Len(spec)

IsRange == Len(ahead) = 3 /\ ahead[2] = Hyphen

\* n characters count as so many entries, and the limit is tested.
Take(n, more) ==
    /\ at' = at + n
    /\ entries' = entries + more
    /\ verdict' = IF entries' > MaxTable THEN "excessive" ELSE verdict
    /\ ahead' = <<>>
    /\ UNCHANGED spec

\* A plausible count of a range without one of its ends.
RangeHalfOpen ==
    /\ Looked /\ IsRange
    /\ Take(3, IF ahead[3] >= ahead[1] THEN ahead[3] - ahead[1] ELSE 0)

Range ==
    /\ Looked /\ IsRange
    /\ Take(3, IF ahead[3] >= ahead[1] THEN ahead[3] - ahead[1] + 1 ELSE 0)

Single ==
    /\ Looked /\ ~IsRange
    /\ Take(1, 1)

Accept ==
    /\ verdict = "open"
    /\ at = Len(spec)
    /\ verdict' = "accepted"
    /\ UNCHANGED <<spec, at, ahead, entries>>

Next == LookAhead \/ Range \/ Single \/ Accept

Spec == Init /\ [][Next]_vars

-----------------------------------------------------------------------------
(* Properties *)

\* What chartr() makes of a specification, read from the left: ranges and
\* single characters, each with the entries from its first to its last
\* character.  A decreasing range is an R error: none.
PieceAt(k) ==
    LET length == IF k + 3 <= Len(spec) /\ spec[k + 2] = Hyphen THEN 3 ELSE 1
    IN  SubSeq(spec, k + 1, k + length)

Entries(piece) == piece[1] .. piece[Len(piece)]

\* The size of the table that it fills from character k on.
Table[k \in 0 .. Len(spec)] ==
    IF k = Len(spec) THEN 0
    ELSE Cardinality(Entries(PieceAt(k))) + Table[k + Len(PieceAt(k))]

\* The guard refuses a specification if and only if the table it fills is
\* larger than the limit, whatever hyphens stand at its ends, next to each
\* other or for themselves, and although it stops at the first excess.
CountsEveryEntry ==
    /\ verdict = "accepted" => Table[0] <= MaxTable
    /\ verdict = "excessive" => Table[0] > MaxTable
=============================================================================
