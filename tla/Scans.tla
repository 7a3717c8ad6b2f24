------------------------------- MODULE Scans --------------------------------
(***************************************************************************)
(* The harnesses' own handling of text, one subject at a time: formatting  *)
(* the labels, the two readers of UTF-8, the repeat guard, the chartr      *)
(* guard, splitting lines, and the walk over a parsed input.  They share   *)
(* nothing; a behaviour is one of one of them, the others being off.       *)
(***************************************************************************)
EXTENDS SlotLabels, Integers

CONSTANTS
    Bytes, MaxBytes,
    Limit, Saturated, Repeats, Nesting,
    Characters, MaxLength, MaxTable,
    MaxLines, MaxInput, NInputs,
    MaxDepth, MaxNodes, Objects, Sources

VARIABLES
    subject,
    data, checked, valid, position, decoded,
    pattern, text, p, q, bound, cur, counted, product, guarded,
    spec, at, ahead, entries, table,
    input, inputs, splitting, scanned, n, start, lines, held,
    tree, entered, inside, nodes, walked

utf8Vars  == <<data, checked, valid, position, decoded>>
repeatVars == <<pattern, text, p, q, bound, cur, counted, product, guarded>>
tableVars == <<spec, at, ahead, entries, table>>
lineVars  == <<input, inputs, splitting, scanned, n, start, lines, held>>
treeVars  == <<tree, entered, inside, nodes, walked>>

U == INSTANCE Utf8Check WITH MaxSize <- MaxBytes, i <- checked, verdict <- valid,
                             j <- position
R == INSTANCE RepeatGuard WITH tree <- pattern, pattern <- text, verdict <- guarded
C == INSTANCE ChartrGuard WITH verdict <- table
L == INSTANCE LineSplit WITH MaxSize <- MaxInput, pc <- splitting, q <- scanned,
                             p <- start, calls <- held
T == INSTANCE TreeBudget WITH verdict <- walked

ASSUME ScansAssumption ==
    U!Utf8Limits /\ R!RepeatLimits /\ C!ChartrLimits /\ L!LineLimits /\ T!TreeLimits

LabelsOff  == i = 0 /\ labels = <<>> /\ job = NoJob /\ failed = {}
Utf8Off    == data = <<>> /\ checked = 0 /\ valid = "off" /\ position = 0 /\ decoded = <<>>
RepeatsOff == /\ pattern = 0 /\ text = <<>> /\ p = 0 /\ q = 0 /\ bound = 0
              /\ cur = 0 /\ counted = FALSE /\ product = 0 /\ guarded = "off"
TableOff   == spec = <<>> /\ at = 0 /\ ahead = <<>> /\ entries = 0 /\ table = "off"
LinesOff   == /\ input = <<>> /\ inputs = 0 /\ splitting = "off" /\ scanned = 0
              /\ n = 0 /\ start = 0 /\ lines = <<>> /\ held = <<>>
TreeOff    == tree = 0 /\ entered = <<>> /\ inside = <<>> /\ nodes = 0 /\ walked = "off"

ScansInit ==
    \/ subject = "labels"  /\ Init   /\ Utf8Off /\ RepeatsOff /\ TableOff /\ LinesOff /\ TreeOff
    \/ subject = "utf8"    /\ U!Init /\ LabelsOff /\ RepeatsOff /\ TableOff /\ LinesOff /\ TreeOff
    \/ subject = "repeats" /\ R!Init /\ LabelsOff /\ Utf8Off /\ TableOff /\ LinesOff /\ TreeOff
    \/ subject = "table"   /\ C!Init /\ LabelsOff /\ Utf8Off /\ RepeatsOff /\ LinesOff /\ TreeOff
    \/ subject = "lines"   /\ L!Init /\ LabelsOff /\ Utf8Off /\ RepeatsOff /\ TableOff /\ TreeOff
    \/ subject = "tree"    /\ T!Init /\ LabelsOff /\ Utf8Off /\ RepeatsOff /\ TableOff /\ LinesOff

ScansNext ==
    \/ /\ subject = "labels" /\ Next
       /\ UNCHANGED <<subject, utf8Vars, repeatVars, tableVars, lineVars, treeVars>>
    \/ /\ subject = "utf8" /\ U!Next
       /\ UNCHANGED <<subject, vars, repeatVars, tableVars, lineVars, treeVars>>
    \/ /\ subject = "repeats" /\ R!Next
       /\ UNCHANGED <<subject, vars, utf8Vars, tableVars, lineVars, treeVars>>
    \/ /\ subject = "table" /\ C!Next
       /\ UNCHANGED <<subject, vars, utf8Vars, repeatVars, lineVars, treeVars>>
    \/ /\ subject = "lines" /\ L!Next
       /\ UNCHANGED <<subject, vars, utf8Vars, repeatVars, tableVars, treeVars>>
    \/ /\ subject = "tree" /\ T!Next
       /\ UNCHANGED <<subject, vars, utf8Vars, repeatVars, tableVars, lineVars>>

allVars == <<subject, vars, utf8Vars, repeatVars, tableVars, lineVars, treeVars>>

ScansSpec == ScansInit /\ [][ScansNext]_allVars

-----------------------------------------------------------------------------
(* The properties of the subjects, each stated in its module *)

\* eval.c admits exactly the strings that are UTF-8.
ExactlyUtf8 == subject = "utf8" => U!ExactlyUtf8

\* The chartr guard's decoder reads the code points of UTF-8.
DecodesUtf8 == subject = "utf8" => U!DecodesUtf8

\* The repeat guard's verdict is that of the product over the pattern.
CountsEveryRepeat == subject = "repeats" => R!CountsEveryRepeat

\* What the repeat guard accepts expands within its limit.
ClosedExpansionBounded == subject = "repeats" => R!ClosedExpansionBounded

\* The chartr guard's verdict is that of the size of the table.
CountsEveryEntry == subject = "table" => C!CountsEveryEntry

\* The lines that the sort target's calls get are the input.
LinesOfInput == subject = "lines" => L!LinesOfInput

\* The eval target's walk refuses the trees beyond its limits and no other.
RefusesExactly == subject = "tree" => T!RefusesExactly
=============================================================================
