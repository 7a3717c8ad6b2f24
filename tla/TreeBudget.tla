----------------------------- MODULE TreeBudget -----------------------------
(***************************************************************************)
(* eval_tree_within_budget of eval.c, the walk over a parsed input that    *)
(* refuses trees too deep or too large to compile.  It recurses into the   *)
(* elements of calls, argument lists and expression vectors, and one       *)
(* counter goes through all of it.                                         *)
(*                                                                         *)
(* A tree is a leaf, a list (LANGSXP or LISTSXP, a chain of cells) or a    *)
(* vector (EXPRSXP).  The C stack is a sequence of what is left of the     *)
(* nodes that the walk is inside of.                                       *)
(***************************************************************************)
EXTENDS Naturals, Sequences, FiniteSets

CONSTANTS MaxDepth,   \* FUZZ_MAX_DEPTH
          MaxNodes,   \* FUZZ_MAX_NODES
          Objects,    \* the R objects that occur in parsed inputs
          Sources     \* those that R_ParseVector returns

TreeLimits ==
    /\ MaxDepth \in Nat /\ MaxNodes \in Nat
    /\ Sources \subseteq Objects
    /\ \A x \in Objects :
          /\ x = [kind |-> x.kind, of |-> x.of]
          /\ x.of \in Seq(Objects)
          /\ x.kind \in {"leaf", "list", "vector"}
          /\ x.kind = "leaf" => x.of = <<>>

-----------------------------------------------------------------------------
(* The walk *)

VARIABLES
    tree,     \* R_ParseVector's result
    entered,  \* the call's argument, until its first line has run
    inside,   \* the nodes whose elements it is going through
    nodes,    \* *nodes
    verdict   \* "open", "within" or "refused"

vars == <<tree, entered, inside, nodes, verdict>>

Init ==
    /\ tree \in Sources
    /\ entered = <<tree>>
    /\ inside = <<>>
    /\ nodes = 0
    /\ verdict = "open"

Open == verdict = "open"

Refuse ==
    /\ verdict' = "refused"
    /\ UNCHANGED <<tree, entered, inside, nodes>>

\* A call that is one too deep, or meets a spent counter.
EnterRefused ==
    /\ Open /\ entered # <<>>
    /\ Len(inside) > MaxDepth \/ nodes + 1 > MaxNodes
    /\ Refuse

Enter ==
    /\ Open /\ entered # <<>>
    /\ Len(inside) <= MaxDepth /\ nodes + 1 <= MaxNodes
    /\ nodes' = nodes + 1
    /\ inside' = IF entered[1].kind = "leaf" THEN inside ELSE Append(inside, entered[1])
    /\ entered' = <<>>
    /\ UNCHANGED <<tree, verdict>>

Deepest == inside[Len(inside)]

\* At the head of one of its two loops, with an element left.
Turning == Open /\ entered = <<>> /\ inside # <<>> /\ Deepest.of # <<>>

\* A plausible walk that takes the cells of a list for free.
CellCostFree == 0

\* What the loop itself counts.
CellCost == IF Deepest.kind = "list" THEN 1 ELSE 0

CellRefused ==
    /\ Turning
    /\ nodes + CellCost > MaxNodes
    /\ Refuse

Cell ==
    /\ Turning
    /\ nodes + CellCost <= MaxNodes
    /\ nodes' = nodes + CellCost
    /\ entered' = <<Head(Deepest.of)>>
    /\ inside' = [inside EXCEPT ![Len(inside)].of = Tail(@)]
    /\ UNCHANGED <<tree, verdict>>

Return ==
    /\ Open /\ entered = <<>> /\ inside # <<>>
    /\ Deepest.of = <<>>
    /\ inside' = SubSeq(inside, 1, Len(inside) - 1)
    /\ UNCHANGED <<tree, entered, nodes, verdict>>

Returned ==
    /\ Open /\ entered = <<>> /\ inside = <<>>
    /\ verdict' = "within"
    /\ UNCHANGED <<tree, entered, inside, nodes>>

Next == EnterRefused \/ Enter \/ CellRefused \/ Cell \/ Return \/ Returned

Spec == Init /\ [][Next]_vars

-----------------------------------------------------------------------------
(* Properties *)

\* The nodes so many levels down, each by the way to it from the root; an
\* element of a list sits in a cell.
Elements(x) ==
    {[way |-> Append(x.way, k), node |-> x.node.of[k], cell |-> x.node.kind = "list"] :
        k \in DOMAIN x.node.of}

Level[d \in 0 .. MaxDepth + 1] ==
    IF d = 0 THEN {[way |-> <<>>, node |-> tree, cell |-> FALSE]}
    ELSE UNION {Elements(x) : x \in Level[d - 1]}

TooDeep == Level[MaxDepth + 1] # {}

\* The walk refuses a tree if and only if it is too deep or its nodes and
\* cells are too many, whichever it meets first and however wide a list is.
RefusesExactly ==
    LET all       == UNION {Level[d] : d \in 0 .. MaxDepth}
        cells     == {x \in all : x.cell}
        excessive == TooDeep \/ Cardinality(all) + Cardinality(cells) > MaxNodes
    IN  /\ verdict = "within" => ~excessive
        /\ verdict = "refused" => excessive
=============================================================================
