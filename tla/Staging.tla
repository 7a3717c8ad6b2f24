------------------------------ MODULE Staging ------------------------------
(***************************************************************************)
(* How a harness hands an input to R.  The calls are built once, over      *)
(* vectors (or one scratch file) that every iteration refills; the first   *)
(* byte selects a call slot.  A target refills only part of its places for *)
(* a slot, any refill may fail and skips the iteration, and what is left   *)
(* behind stays for later iterations.  A call must still never see         *)
(* anything but the input in hand, nor compile a pattern that a guard was  *)
(* to keep out.                                                            *)
(*                                                                         *)
(* A target is a record: "reads" comes from the calls that                 *)
(* fuzz_target_init builds, "needs", "guards" and "order" from the tables  *)
(* and the statements of fuzz_target_run.  "then" has an element for each  *)
(* call after the first: the places that take the result of the one        *)
(* before it.                                                              *)
(***************************************************************************)
EXTENDS Naturals, Sequences

\* What may be wrong with a pattern: its counted repeats multiply to too
\* much, or its chartr ranges make too large a table.
Excesses == {"repeat", "table"}

\* A function over slots that is v(slot) on the places whose set of slots
\* holds it.
PerSlot(slots, where) ==
    [s \in slots |-> {p \in DOMAIN where : s \in where[p]}]

\* One call for an input, in each of the slots.
OneCall(slots) == [s \in slots |-> <<>>]

\* A target whose n calls all read one place, for which nothing is refused.
OnePlace(n, place) ==
    [slots   |-> 0 .. n - 1,
     order   |-> <<place>>,
     reads   |-> [s \in 0 .. n - 1 |-> {place}],
     needs   |-> [s \in 0 .. n - 1 |-> {place}],
     expands |-> [s \in 0 .. n - 1 |-> {}],
     guards  |-> [s \in 0 .. n - 1 |-> {}],
     pattern |-> {},
     then    |-> OneCall(0 .. n - 1)]

-----------------------------------------------------------------------------
(* The targets *)

\* A plausible table: slot 14, which compiles aux, without NEED_REGEX.
CharacterGuardsForgotten == [repeat |-> {9, 10, 13}, table |-> {19, 20}]

\* needs[]: the NEED_X .. NEED_AUXU flags of each slot.
CharacterNeeds ==
    [x    |-> (0 .. 12) \cup {19, 21, 22, 23, 27} \cup (29 .. 32),
     xu   |-> (13 .. 17) \cup {20, 24, 25, 28, 33},
     xl   |-> {18, 26},
     aux  |-> (9 .. 12) \cup {19},
     auxu |-> (13 .. 15) \cup {20, 28}]

\* NEED_REGEX and NEED_CHARTR.
CharacterGuards == [repeat |-> {9, 10, 13, 14}, table |-> {19, 20}]

\* The string vectors that occur in calls[k].
CharacterReads ==
    [x    |-> (0 .. 12) \cup {19} \cup (21 .. 23) \cup {27} \cup (29 .. 32),
     xu   |-> (13 .. 17) \cup {20, 24, 25, 28, 33},
     xl   |-> {18, 26},
     aux  |-> (9 .. 12) \cup {19},
     auxu |-> (13 .. 15) \cup {20, 28}]

\* strsplit(perl = TRUE) compiles a pattern, chartr() expands a table.
Character ==
    [slots  |-> 0 .. 33,
     order  |-> <<"x", "xu", "xl", "aux", "auxu">>,
     reads  |-> PerSlot(0 .. 33, CharacterReads),
     needs  |-> PerSlot(0 .. 33, CharacterNeeds),
     expands |-> PerSlot(0 .. 33, [repeat |-> {9, 10, 13, 14},
                                   table  |-> {19, 20}]),
     guards |-> PerSlot(0 .. 33, CharacterGuards),
     pattern |-> {"aux", "auxu"},
     then    |-> OneCall(0 .. 33)]

\* One of four places, by inputs[k].
Encoding ==
    [slots  |-> 0 .. 27,
     order  |-> <<"raw", "utf8", "latin1", "str">>,
     reads  |-> PerSlot(0 .. 27, [raw    |-> (0 .. 5) \cup (22 .. 27),
                                  str    |-> (6 .. 11) \cup {15, 19, 21},
                                  utf8   |-> {12, 14, 18, 20},
                                  latin1 |-> {13, 16, 17}]),
     needs  |-> PerSlot(0 .. 27, [raw    |-> (0 .. 5) \cup (22 .. 27),
                                  str    |-> (6 .. 11) \cup {15, 19, 21},
                                  utf8   |-> {12, 14, 18, 20},
                                  latin1 |-> {13, 16, 17}]),
     expands |-> PerSlot(0 .. 27, <<>>),
     guards |-> PerSlot(0 .. 27, <<>>),
     pattern |-> {},
     then    |-> OneCall(0 .. 27)]

\* Slots 0-8 have fixed formats; both vectors are refilled for every slot.
Datetime ==
    [slots  |-> 0 .. 16,
     order  |-> <<"str", "fmt">>,
     reads  |-> PerSlot(0 .. 16, [str |-> 0 .. 16, fmt |-> 9 .. 16]),
     needs  |-> PerSlot(0 .. 16, [str |-> 0 .. 16, fmt |-> 0 .. 16]),
     expands |-> PerSlot(0 .. 16, <<>>),
     guards |-> PerSlot(0 .. 16, <<>>),
     pattern |-> {},
     then    |-> OneCall(0 .. 16)]

\* Slots 0-62 read the scratch file, 63-65 the raw argument.  Each call has
\* an argument of its own, of which only the selected call's matters.
Connections ==
    [slots  |-> 0 .. 65,
     order  |-> <<"scratch", "arg">>,
     reads  |-> PerSlot(0 .. 65, [scratch |-> 0 .. 62, arg |-> 63 .. 65]),
     needs  |-> PerSlot(0 .. 65, [scratch |-> 0 .. 65, arg |-> 0 .. 65]),
     expands |-> PerSlot(0 .. 65, <<>>),
     guards |-> PerSlot(0 .. 65, <<>>),
     pattern |-> {},
     then    |-> OneCall(0 .. 65)]

\* Slots 7, 9 and 14 take the pattern as fixed text.
Grep ==
    [slots  |-> 0 .. 15,
     order  |-> <<"pat">>,
     reads  |-> PerSlot(0 .. 15, [pat |-> 0 .. 15]),
     needs  |-> PerSlot(0 .. 15, [pat |-> 0 .. 15]),
     expands |-> PerSlot(0 .. 15, [repeat |-> (0 .. 15) \ {7, 9, 14}]),
     guards |-> PerSlot(0 .. 15, [repeat |-> 0 .. 15]),
     pattern |-> {"pat"},
     then    |-> OneCall(0 .. 15)]

\* The header's four values go in place; only the string can fail.
Format ==
    [slots  |-> 0 .. 23,
     order  |-> <<"digits", "width", "nsmall", "flag", "str">>,
     reads  |-> PerSlot(0 .. 23, [str    |-> 0 .. 23,
                                  digits |-> (1 .. 3) \cup (5 .. 8)
                                                 \cup {12, 15, 17, 19, 22, 23},
                                  width  |-> {0, 1, 2, 3, 5, 6, 7, 8, 9, 10, 11, 12,
                                              13, 14, 16, 17, 19, 21, 23},
                                  nsmall |-> {2, 12, 19, 22},
                                  flag   |-> 5 .. 10]),
     needs  |-> [s \in 0 .. 23 |-> {"digits", "width", "nsmall", "flag", "str"}],
     expands |-> PerSlot(0 .. 23, <<>>),
     guards |-> PerSlot(0 .. 23, <<>>),
     pattern |-> {},
     then    |-> OneCall(0 .. 23)]

\* All three calls for every input, whether or not one fails.
Agrep ==
    [OnePlace(1, "pat") EXCEPT
        !.expands = [s \in {0} |-> {"repeat"}],
        !.guards  = [s \in {0} |-> {"repeat"}],
        !.pattern = {"pat"},
        !.then    = [s \in {0} |-> <<{}, {}>>]]

Coerce == [OnePlace(1, "str") EXCEPT !.then = [s \in {0} |-> <<{}, {}, {}>>]]

\* Slots 0-7 read binary data, write what they read and read that again.
Io ==
    [OnePlace(18, "arg") EXCEPT
        !.order = <<"arg", "value">>,
        !.then  = [s \in 0 .. 17 |-> IF s < 8 THEN <<{"value"}, {"arg"}>> ELSE <<>>]]

Parse      == OnePlace(7, "str")
Scan       == OnePlace(18, "str")
Sprintf    == OnePlace(4, "str")
Dcf        == OnePlace(2, "str")
Rd         == OnePlace(2, "str")
ReadTable  == OnePlace(20, "str")
Colors     == OnePlace(16, "str")
Sort       == OnePlace(22, "lines")

\* A raw vector for the selected call.
Decompress  == OnePlace(4, "arg")
Unserialize == OnePlace(4, "arg")

\* All of their calls read the path of the scratch file.
Load == OnePlace(2, "scratch")
Zip  == OnePlace(4, "scratch")

Targets ==
    {Character, Encoding, Datetime, Connections, Grep, Format, Agrep, Coerce, Io,
     Parse, Scan, Sprintf, Dcf, Rd, ReadTable, Colors, Sort,
     Decompress, Unserialize, Load, Zip}

-----------------------------------------------------------------------------
(* An iteration *)

VARIABLES
    target,   \* the harness this process was built from
    pc,       \* "idle", "guard", "stage" or "evaluate"
    slot,     \* selected
    excess,   \* what is wrong with the pattern of this input
    next,     \* the place fuzz_target_run turns to next
    further,  \* calls made after the first
    holds     \* what each place holds

vars == <<target, pc, slot, excess, next, further, holds>>

PlacesOf(t) == {t.order[i] : i \in DOMAIN t.order}
Places == PlacesOf(target)

Content == [of : {"this", "earlier", "partial"}, excess : SUBSET Excesses]

Default == [of |-> "earlier", excess |-> {}]

\* The header values of format.c are stored without a call into R.
CannotFail == {"digits", "width", "nsmall", "flag"}

Init ==
    /\ target \in Targets
    /\ pc = "idle"
    /\ slot = 0
    /\ excess = {}
    /\ next = 1 /\ further = 0
    /\ holds = [p \in Places |-> Default]

\* A new input.  What earlier ones left in the places is now old.
Begin(s, e) ==
    /\ pc = "idle"
    /\ e # {} => target.pattern # {}
    /\ pc' = "guard"
    /\ slot' = s
    /\ excess' = e
    /\ next' = 1 /\ further' = 0
    /\ holds' = [p \in Places |->
                    IF holds[p].of = "this"
                    THEN [holds[p] EXCEPT !.of = "earlier"] ELSE holds[p]]
    /\ UNCHANGED target

\* The repeat and table guards, before anything is touched.
Refuse ==
    /\ pc = "guard"
    /\ target.guards[slot] \cap excess # {}
    /\ pc' = "idle"
    /\ UNCHANGED <<target, slot, excess, next, further, holds>>

Accept ==
    /\ pc = "guard"
    /\ target.guards[slot] \cap excess = {}
    /\ pc' = "stage"
    /\ UNCHANGED <<target, slot, excess, next, further, holds>>

Place == target.order[next]

\* A place that this slot does not need.
Pass ==
    /\ pc = "stage"
    /\ next \in DOMAIN target.order
    /\ Place \notin target.needs[slot]
    /\ next' = next + 1
    /\ UNCHANGED <<target, pc, slot, excess, further, holds>>

Stage ==
    /\ pc = "stage"
    /\ next \in DOMAIN target.order
    /\ Place \in target.needs[slot]
    /\ holds' = [holds EXCEPT ![Place] =
                    [of     |-> "this",
                     excess |-> IF Place \in target.pattern THEN excess ELSE {}]]
    /\ next' = next + 1
    /\ UNCHANGED <<target, pc, slot, excess, further>>

\* A failed refill leaves a vector as it was, and of the file what fopen
\* truncated and fwrite wrote.
Damage ==
    \/ UNCHANGED holds
    \/ /\ Place = "scratch"
       /\ holds' = [holds EXCEPT ![Place].of = "partial"]

\* A plausible fuzz_target_run that ignores what a refill returned.
StageIgnored ==
    /\ pc = "stage"
    /\ next \in DOMAIN target.order
    /\ Place \in target.needs[slot] \ CannotFail
    /\ Damage
    /\ next' = next + 1
    /\ UNCHANGED <<target, pc, slot, excess, further>>

\* An allocation hit the vector limit, or the file could not be written: the
\* iteration is skipped.
StageFails ==
    /\ pc = "stage"
    /\ next \in DOMAIN target.order
    /\ Place \in target.needs[slot] \ CannotFail
    /\ Damage
    /\ pc' = "idle"
    /\ UNCHANGED <<target, slot, excess, next, further>>

AllStaged ==
    /\ pc = "stage"
    /\ next \notin DOMAIN target.order
    /\ pc' = "evaluate"
    /\ UNCHANGED <<target, slot, excess, next, further, holds>>

Then == target.then[slot]

\* A plausible run_io that does not pass the result on.
CallAgainUnset ==
    /\ pc = "evaluate"
    /\ further < Len(Then)
    /\ further' = further + 1
    /\ UNCHANGED <<target, pc, slot, excess, next, holds>>

\* The next call, over the result of the last where that is passed on.
CallAgain ==
    /\ pc = "evaluate"
    /\ further < Len(Then)
    /\ further' = further + 1
    /\ holds' = [p \in Places |-> IF p \in Then[further + 1]
                                  THEN [of |-> "this", excess |-> {}] ELSE holds[p]]
    /\ UNCHANGED <<target, pc, slot, excess, next>>

\* The last call returned or failed, or one did whose result was to be passed
\* on.
Evaluated ==
    /\ pc = "evaluate"
    /\ further < Len(Then) => Then[further + 1] # {}
    /\ pc' = "idle"
    /\ UNCHANGED <<target, slot, excess, next, further, holds>>

\* A new child of AFL++'s forkserver: the vectors are as fuzz_target_init
\* left them, the file is as the last child left it.
NewChild ==
    /\ pc = "idle"
    /\ holds' = [p \in Places |-> IF p = "scratch" THEN holds[p] ELSE Default]
    /\ UNCHANGED <<target, pc, slot, excess, next, further>>

Next ==
    \/ \E s \in target.slots, e \in SUBSET Excesses : Begin(s, e)
    \/ Refuse \/ Accept
    \/ Pass \/ Stage \/ StageFails \/ AllStaged
    \/ CallAgain \/ Evaluated \/ NewChild

Spec == Init /\ [][Next]_vars

-----------------------------------------------------------------------------
(* Properties *)

\* The type invariant: the slot is one of the target's.
TypeOK ==
    /\ target \in Targets
    /\ pc \in {"idle", "guard", "stage", "evaluate"}
    /\ slot \in target.slots
    /\ excess \in SUBSET Excesses
    /\ next \in 1 .. Len(target.order) + 1
    /\ further \in 0 .. Len(Then)
    /\ holds \in [Places -> Content]

\* The places that the calls made for this input have read.
ReadSoFar == target.reads[slot] \cup UNION {Then[i] : i \in 1 .. further}

\* Whatever failed or was skipped before, in whichever slots, an evaluated
\* call reads the input in hand, whole, or what an earlier call made of it, in
\* every place it reads.
ReadsThisInput ==
    pc = "evaluate" => \A p \in ReadSoFar : holds[p].of = "this"

\* No call expands a pattern whose excess a guard is there to refuse, though
\* slots without that guard put such text into the very same vectors.
NothingExcessiveExpanded ==
    pc = "evaluate" =>
        \A p \in target.reads[slot] \cap target.pattern :
            holds[p].excess \cap target.expands[slot] = {}

\* What makes both hold: the places already passed hold this input, and an
\* accepted input has nothing its slot expands.
Progress ==
    /\ pc = "guard" => next = 1
    /\ pc \in {"guard", "stage"} => further = 0
    /\ pc = "stage" =>
           \A i \in DOMAIN target.order :
               i < next /\ target.order[i] \in target.needs[slot]
                   => holds[target.order[i]].of = "this"
    /\ pc = "evaluate" =>
           /\ \A p \in target.needs[slot] : holds[p].of = "this"
           /\ \A i \in 1 .. further : \A p \in Then[i] : holds[p].of = "this"
    /\ \A p \in Places : holds[p].of = "this" => holds[p].excess \subseteq excess
    /\ pc \in {"stage", "evaluate"} => excess \cap target.guards[slot] = {}

IInv == TypeOK /\ Progress
=============================================================================
