------------------------------ MODULE MCScans -------------------------------
(***************************************************************************)
(* Scans for TLC.  The labels are those of a target of eleven slots, seven *)
(* of them run in C, whose calls are shared the way datetime.c shares its  *)
(* strptime calls, with a slot number of two digits among the shared ones, *)
(* and which registers two calls for its last slot, as io.c does.          *)
(***************************************************************************)
EXTENDS Scans

CONSTANTS strptime, format, other,
          Width       \* bound on the elements of a list

MCCalls == [s \in 0 .. 11 |->
               CASE s \in {1, 9, 11} -> strptime
                 [] s = 3  -> format
                 [] s = 10 -> other
                 [] OTHER  -> NoCall]

MCSlotOf == [s \in 0 .. 11 |-> IF s = 11 THEN 10 ELSE s]

\* Repeats below, at and above what the limit allows, and an approximate one.
MCRepeats == {<<1, 1, FALSE>>, <<2, 2, FALSE>>, <<0, 5, FALSE>>, <<2, 12, FALSE>>,
              <<2, -1, FALSE>>, <<250, 250, FALSE>>, <<3, 3, TRUE>>}

\* Parsed inputs of one and of two expressions, the shorter the deeper.
Leaf       == [kind |-> "leaf", of |-> <<>>]
Grow(S)    == {Leaf} \cup [kind : {"list"}, of : UNION {[1 .. m -> S] : m \in 1 .. Width}]
Deep       == Grow(Grow({Leaf}))
Deeper     == [kind : {"list"}, of : Deep \X {Leaf}]
MCSources  == [kind : {"vector"},
               of : {<<>>} \cup {<<x>> : x \in Deep \cup Deeper}
                           \cup {<<x, y>> : x, y \in Grow({Leaf})}]
MCObjects  == Deep \cup Deeper \cup MCSources
=============================================================================
