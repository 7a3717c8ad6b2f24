------------------------- MODULE Protection_proofs --------------------------
(***************************************************************************)
(* The check of ProtectionCheck is sound: whatever routines it accepts,    *)
(* with a heap of any size, nothing in use is ever collected, a run leaves *)
(* the protect stack as it found it, and a target's calls and vectors stay *)
(* reachable.                                                              *)
(***************************************************************************)
EXTENDS ProtectionCheck, Integers, FiniteSetTheorems, WellFoundedInduction, TLAPS

-----------------------------------------------------------------------------
(* What can be reached *)

\* Induction over the natural numbers.
LEMMA SetInduction ==
    ASSUME NEW S, 0 \in S, \A n \in Nat : n \in S => n + 1 \in S
    PROVE  Nat \subseteq S
  <1> DEFINE R == OpToRel(<, Nat)
             T == Nat \ S
  <1>1. IsWellFoundedOn(R, Nat)
    BY NatLessThanWellFounded, Zenon
  <1>2. SUFFICES ASSUME T # {}
                 PROVE  FALSE
    OBVIOUS
  <1> HIDE DEF R
  <1>3. PICK x \in T : \A y \in T : ~ (<<y, x>> \in R)
    BY <1>1, <1>2, WFMin
  <1>4. x # 0 /\ x - 1 \in Nat
    BY <1>3
  <1>5. x - 1 \in T
    BY <1>3, <1>4
  <1>6. <<x - 1, x>> \in R
    BY <1>3, <1>4 DEF R, OpToRel
  <1> QED
    BY <1>3, <1>5, <1>6

\* A set of numbers has a least one.
LEMMA Least ==
    ASSUME NEW S \in SUBSET Nat, S # {}
    PROVE  \E a \in S : \A b \in S : a <= b
  <1> DEFINE R == OpToRel(<, Nat)
  <1>1. IsWellFoundedOn(R, Nat)
    BY NatLessThanWellFounded, Zenon
  <1> HIDE DEF R
  <1>2. PICK x \in S : \A y \in S : ~ (<<y, x>> \in R)
    BY <1>1, WFMin
  <1>3. \A y \in S : ~ (y < x)
    BY <1>2 DEF R, OpToRel
  <1> QED
    BY <1>3

\* What is reached from the objects in some number of references.
From(objects) ==
    CHOOSE from :
        from = [n \in 0 .. MaxObjects |->
                   IF n = 0 THEN objects \ {0} ELSE Widened(from[n - 1])]

\* A heap in which no object refers to a freed one.
Heap(r) ==
    /\ DOMAIN r \subseteq 1 .. MaxObjects
    /\ \A o \in DOMAIN r : Range(r[o]) \subseteq DOMAIN r \cup {0}

\* From is well defined, by recursion over the number of references.
LEMMA FromDef ==
    ASSUME NEW objects
    PROVE  From(objects) =
               [n \in 0 .. MaxObjects |->
                   IF n = 0 THEN objects \ {0} ELSE Widened(From(objects)[n - 1])]
  <1> DEFINE IsFrom(f, m) ==
               f = [n \in 0 .. m |-> IF n = 0 THEN objects \ {0} ELSE Widened(f[n - 1])]
             S == {m \in Nat : \E f : IsFrom(f, m)}
  <1>1. 0 \in S
    <2>1. IsFrom([n \in 0 .. 0 |-> objects \ {0}], 0)
      OBVIOUS
    <2> QED
      BY <2>1
  <1>2. ASSUME NEW m \in Nat, m \in S
        PROVE  m + 1 \in S
    <2>1. PICK f : IsFrom(f, m)
      BY <1>2
    <2> DEFINE g == [n \in 0 .. m + 1 |-> IF n = m + 1 THEN Widened(f[m]) ELSE f[n]]
    <2>2. \A n \in 0 .. m : g[n] = f[n]
      OBVIOUS
    <2>3. ASSUME NEW n \in 0 .. m + 1
          PROVE  g[n] = IF n = 0 THEN objects \ {0} ELSE Widened(g[n - 1])
      <3>1. CASE n = m + 1
        BY <3>1, <2>2
      <3>2. CASE n # m + 1
        <4>1. n \in 0 .. m /\ (n # 0 => n - 1 \in 0 .. m)
          BY <3>2
        <4>2. f[n] = IF n = 0 THEN objects \ {0} ELSE Widened(f[n - 1])
          BY <4>1, <2>1
        <4> QED
          BY <4>1, <4>2, <2>2
      <3> QED
        BY <3>1, <3>2
    <2> HIDE DEF g
    <2>4. g = [n \in 0 .. m + 1 |-> g[n]]
      BY DEF g
    <2>5. IsFrom(g, m + 1)
      BY <2>3, <2>4
    <2> QED
      BY <2>5
  <1>3. Nat \subseteq S
    <2> HIDE DEF S
    <2> QED
      BY <1>1, <1>2, SetInduction
  <1>4. \E f : IsFrom(f, MaxObjects)
    BY <1>3, ProtectionAssumption
  <1> QED
    BY <1>4 DEF From

LEMMA FromSteps ==
    ASSUME NEW objects
    PROVE  /\ From(objects)[0] = objects \ {0}
           /\ \A n \in 0 .. MaxObjects - 1 :
                 From(objects)[n + 1] = Widened(From(objects)[n])
           /\ Reachable(objects) = From(objects)[MaxObjects]
  <1>1. From(objects) =
            [n \in 0 .. MaxObjects |->
                IF n = 0 THEN objects \ {0} ELSE Widened(From(objects)[n - 1])]
    BY FromDef
  <1>2. MaxObjects \in Nat
    BY ProtectionAssumption
  <1>3. From(objects)[0] = objects \ {0}
    BY <1>1, <1>2
  <1>4. ASSUME NEW n \in 0 .. MaxObjects - 1
        PROVE  From(objects)[n + 1] = Widened(From(objects)[n])
    <2>1. n + 1 \in 0 .. MaxObjects /\ n + 1 # 0 /\ (n + 1) - 1 = n
      BY <1>2
    <2> QED
      BY <1>1, <2>1
  <1>5. Reachable(objects) = From(objects)[MaxObjects]
    BY DEF Reachable, From
  <1> QED
    BY <1>3, <1>4, <1>5

\* Objects with all that they refer to.
Closed(objects) ==
    \A o \in objects \cap DOMAIN refers : Range(refers[o]) \subseteq objects \cup {0}

LEMMA WidenedFacts ==
    ASSUME NEW objects
    PROVE  /\ objects \subseteq Widened(objects)
           /\ Closed(objects) => Widened(objects) = objects
           /\ Widened(objects) = objects => Closed(objects)
           /\ \A all : objects \subseteq all /\ Closed(all) => Widened(objects) \subseteq all
           /\ Heap(refers) /\ objects \subseteq DOMAIN refers
                 => Widened(objects) \subseteq DOMAIN refers
  <1>0. \A o : o \in Widened(objects) <=>
           \/ o \in objects
           \/ o # 0 /\ \E p \in objects \cap DOMAIN refers : o \in Range(refers[p])
    BY DEF Widened
  <1>1. objects \subseteq Widened(objects)
    BY DEF Widened
  <1>2. ASSUME NEW all, objects \subseteq all, Closed(all)
        PROVE  Widened(objects) \subseteq all
    <2>1. ASSUME NEW o \in objects \cap DOMAIN refers
          PROVE  Range(refers[o]) \ {0} \subseteq all
      BY <1>2, <2>1 DEF Closed
    <2> QED
      BY ONLY <1>0, <1>2, <2>1
  <1>3. Closed(objects) => Widened(objects) = objects
    BY <1>1, <1>2
  <1>4. Widened(objects) = objects => Closed(objects)
    <2>1. ASSUME NEW o \in objects \cap DOMAIN refers
          PROVE  Range(refers[o]) \ {0} \subseteq Widened(objects)
      BY ONLY <1>0
    <2> QED
      BY <2>1 DEF Closed
  <1>5. ASSUME Heap(refers), objects \subseteq DOMAIN refers
        PROVE  Widened(objects) \subseteq DOMAIN refers
    BY <1>2, <1>5 DEF Heap, Closed
  <1> QED
    BY <1>1, <1>2, <1>3, <1>4, <1>5

\* A number of rounds either adds that many objects or ends.
LEMMA FromGrows ==
    ASSUME Heap(refers), NEW objects, objects \subseteq DOMAIN refers \cup {0}
    PROVE  \A n \in 0 .. MaxObjects :
              /\ From(objects)[n] \subseteq DOMAIN refers
              /\ objects \ {0} \subseteq From(objects)[n]
              /\ \/ Closed(From(objects)[n])
                 \/ Cardinality(From(objects)[n]) >= n
  <1> DEFINE F(n) == From(objects)[n]
             Good(n) == /\ F(n) \subseteq DOMAIN refers
                        /\ objects \ {0} \subseteq F(n)
                        /\ Closed(F(n)) \/ Cardinality(F(n)) >= n
             S == {n \in Nat : n <= MaxObjects => Good(n)}
  <1>1. /\ F(0) = objects \ {0}
        /\ \A n \in 0 .. MaxObjects - 1 : F(n + 1) = Widened(F(n))
        /\ MaxObjects \in Nat
    BY FromSteps, ProtectionAssumption
  <1>2. ASSUME NEW T, T \subseteq DOMAIN refers
        PROVE  IsFiniteSet(T) /\ Cardinality(T) \in Nat
    <2>1. IsFiniteSet(1 .. MaxObjects)
      BY ONLY ProtectionAssumption, FS_Interval
    <2>2. T \in SUBSET (1 .. MaxObjects)
      BY <1>2 DEF Heap
    <2>3. IsFiniteSet(T)
      BY ONLY <2>1, <2>2, FS_Subset
    <2> QED
      BY ONLY <2>3, FS_CardinalityType
  <1> HIDE DEF F
  <1>3. 0 \in S
    <2>1. F(0) \subseteq DOMAIN refers
      BY <1>1
    <2> QED
      BY <1>1, <1>2, <2>1
  <1>4. ASSUME NEW n \in Nat, n \in S
        PROVE  n + 1 \in S
    <2> SUFFICES ASSUME n + 1 <= MaxObjects
                 PROVE  Good(n + 1)
      OBVIOUS
    <2>1. Good(n) /\ F(n + 1) = Widened(F(n))
      BY <1>1, <1>4
    <2>2. F(n) \subseteq F(n + 1) /\ F(n + 1) \subseteq DOMAIN refers
      BY <2>1, WidenedFacts
    <2>3. CASE Closed(F(n))
      BY <2>1, <2>2, <2>3, WidenedFacts
    <2>4. CASE ~ Closed(F(n))
      <3>1. F(n + 1) # F(n)
        BY <2>1, <2>4, WidenedFacts
      <3>2. /\ IsFiniteSet(F(n + 1)) /\ Cardinality(F(n + 1)) \in Nat
            /\ Cardinality(F(n)) \in Nat
        BY <1>2, <2>1, <2>2
      <3>3. /\ Cardinality(F(n)) <= Cardinality(F(n + 1))
            /\ Cardinality(F(n)) # Cardinality(F(n + 1))
        BY <2>2, <3>1, <3>2, FS_Subset
      <3>4. Cardinality(F(n)) >= n
        BY <2>1, <2>4
      <3>5. Cardinality(F(n + 1)) >= n + 1
        BY ONLY <3>2, <3>3, <3>4, n \in Nat, SMT
      <3> QED
        BY <2>1, <2>2, <3>5
    <2> QED
      BY <2>3, <2>4
  <1>5. Nat \subseteq S
    <2> HIDE DEF S
    <2> QED
      BY <1>3, <1>4, SetInduction
  <1>6. \A n \in 0 .. MaxObjects : Good(n)
    BY <1>1, <1>5
  <1> QED
    BY <1>6 DEF F

\* What is reached from live objects: they, and all that they refer to, live.
LEMMA ReachableFacts ==
    ASSUME Heap(refers), NEW objects, objects \subseteq DOMAIN refers \cup {0}
    PROVE  /\ objects \ {0} \subseteq Reachable(objects)
           /\ Reachable(objects) \subseteq DOMAIN refers
           /\ \A o \in Reachable(objects) :
                 Range(refers[o]) \subseteq Reachable(objects) \cup {0}
  <1>1. MaxObjects \in Nat
    BY ProtectionAssumption
  <1> DEFINE F == From(objects)[MaxObjects]
  <1>2. Reachable(objects) = F
    BY FromSteps
  <1>3. /\ F \subseteq DOMAIN refers
        /\ objects \ {0} \subseteq F
        /\ Closed(F) \/ Cardinality(F) >= MaxObjects
    BY <1>1, FromGrows
  <1>4. Closed(F)
    <2>1. SUFFICES ASSUME Cardinality(F) >= MaxObjects
                   PROVE  Closed(F)
      BY <1>3
    <2>2. /\ IsFiniteSet(1 .. MaxObjects)
          /\ Cardinality(1 .. MaxObjects) = MaxObjects
      BY <1>1, FS_Interval
    <2>3. F \in SUBSET (1 .. MaxObjects)
      BY <1>3 DEF Heap
    <2> HIDE DEF F
    <2>4. IsFiniteSet(F) /\ Cardinality(F) <= MaxObjects
      BY ONLY <2>2, <2>3, FS_Subset
    <2>5. Cardinality(F) \in Nat
      BY ONLY <2>4, FS_CardinalityType
    <2>6. Cardinality(F) = MaxObjects
      BY ONLY <1>1, <2>1, <2>4, <2>5, SMT
    <2>7. F = 1 .. MaxObjects
      BY ONLY <2>2, <2>3, <2>6, FS_Subset
    <2>8. DOMAIN refers = F
      BY <1>3, <2>7 DEF Heap
    <2> QED
      BY <2>8 DEF Heap, Closed
  <1> HIDE DEF F
  <1> QED
    BY <1>2, <1>3, <1>4 DEF Closed

\* Nothing else is reached than what is in every closed set of objects.
LEMMA ReachableLeast ==
    ASSUME NEW objects, NEW all, objects \ {0} \subseteq all, Closed(all)
    PROVE  Reachable(objects) \subseteq all
  <1> DEFINE F(n) == From(objects)[n]
             S == {n \in Nat : n <= MaxObjects => F(n) \subseteq all}
  <1>1. /\ F(0) = objects \ {0}
        /\ \A n \in 0 .. MaxObjects - 1 : F(n + 1) = Widened(F(n))
        /\ MaxObjects \in Nat
        /\ Reachable(objects) = F(MaxObjects)
    BY FromSteps, ProtectionAssumption
  <1> HIDE DEF F
  <1>2. 0 \in S
    BY <1>1
  <1>3. ASSUME NEW n \in Nat, n \in S
        PROVE  n + 1 \in S
    BY <1>1, <1>3, WidenedFacts
  <1>4. Nat \subseteq S
    <2> HIDE DEF S
    <2> QED
      BY <1>2, <1>3, SetInduction
  <1> QED
    BY <1>1, <1>4

-----------------------------------------------------------------------------
(* Views, part by part *)

Parts == {"stage", "at", "error", "slots", "top", "rooted", "fields", "safe"}

Field(V) == [of : V, n : Nat, is : V \cup {"?"}]

\* What the lemmas need of a view's types.
View(x, V) ==
    /\ x = [p \in Parts |-> x[p]]
    /\ x.slots \in Seq(V \cup {"?"})
    /\ x.rooted \subseteq V
    /\ x.fields \subseteq Field(V)
    /\ x.safe \subseteq V

LEMMA ViewsOfView ==
    ASSUME NEW s, NEW x \in ViewsOf(s)
    PROVE  /\ View(x, VariablesOf(s))
           /\ x.stage \in {1, 2} /\ x.at \in Nat /\ x.error \in BOOLEAN
           /\ x.top \in [height : Nat, behind : Nat]
  BY DEF ViewsOf, View, Parts, Field

LEMMA AheadView ==
    ASSUME NEW V, NEW x, View(x, V)
    PROVE  /\ View(Ahead(x), V)
           /\ Ahead(x).at = x.at + 1
           /\ \A p \in Parts \ {"at"} : Ahead(x)[p] = x[p]
  <1> DEFINE y == Ahead(x)
  <1>1. /\ y = [p \in Parts |-> y[p]]
        /\ y.at = x.at + 1
        /\ \A p \in Parts \ {"at"} : y[p] = x[p]
    BY DEF Ahead, View, Parts
  <1> HIDE DEF y
  <1>2. View(y, V)
    BY <1>1 DEF View, Parts
  <1> QED
    BY <1>1, <1>2 DEF y

LEMMA SafelyView ==
    ASSUME NEW V, NEW x, View(x, V), NEW v \in V
    PROVE  /\ View(Safely(x, v), V)
           /\ Safely(x, v).safe = x.safe \cup {v}
           /\ \A p \in Parts \ {"safe"} : Safely(x, v)[p] = x[p]
  <1> DEFINE y == Safely(x, v)
  <1>1. /\ y = [p \in Parts |-> y[p]]
        /\ y.safe = x.safe \cup {v}
        /\ \A p \in Parts \ {"safe"} : y[p] = x[p]
    BY DEF Safely, View, Parts
  <1> HIDE DEF y
  <1>2. View(y, V)
    BY <1>1 DEF View, Parts
  <1> QED
    BY <1>1, <1>2 DEF y

LEMMA RootsView ==
    ASSUME NEW V, NEW x, View(x, V)
    PROVE  Roots(x) \subseteq V
  <1>1. x.rooted \subseteq V /\ x.slots \in Seq(V \cup {"?"})
    BY DEF View
  <1>2. \A k \in DOMAIN x.slots : x.slots[k] \in V \cup {"?"}
    BY <1>1
  <1>3. Range(x.slots) \subseteq V \cup {"?"}
    BY <1>2 DEF Range
  <1> QED
    BY ONLY <1>1, <1>3 DEF Roots

LEMMA SparedView ==
    ASSUME NEW V, NEW x, View(x, V), NEW held \in SUBSET V
    PROVE  Spared(x, held) \subseteq V
  <1>1. \A t \in x.fields : t.is \in V \cup {"?"}
    BY DEF View, Field
  <1>2. Roots(x) \subseteq V
    BY RootsView
  <1> QED
    BY ONLY <1>1, <1>2, held \in SUBSET V DEF Spared

LEMMA SweptView ==
    ASSUME NEW V, NEW x, View(x, V), NEW held \in SUBSET V
    PROVE  /\ View(Swept(x, held), V)
           /\ Swept(x, held).safe = Spared(x, held)
           /\ Swept(x, held).fields = {t \in x.fields : t.of \in Spared(x, held)}
           /\ \A p \in Parts \ {"safe", "fields"} : Swept(x, held)[p] = x[p]
  <1>1. Spared(x, held) \subseteq V
    BY SparedView
  <1> QED
    BY <1>1 DEF Swept, View, Parts

\* A field that is known to hold something else, or nothing.
LEMMA FieldChanged ==
    ASSUME NEW V, NEW t \in Field(V), NEW w \in V \cup {"?"}
    PROVE  /\ [t EXCEPT !.is = w] \in Field(V)
           /\ [t EXCEPT !.is = w].of = t.of
           /\ [t EXCEPT !.is = w].n = t.n
           /\ [t EXCEPT !.is = w].is = w
  BY DEF Field

LEMMA AssignedView ==
    ASSUME NEW V, NEW x, View(x, V), NEW v \in V
    PROVE  /\ View(Assigned(x, v), V)
           /\ Assigned(x, v).slots =
                  [k \in DOMAIN x.slots |-> IF x.slots[k] = v THEN "?" ELSE x.slots[k]]
           /\ Assigned(x, v).rooted = x.rooted \ {v}
           /\ \A t \in Assigned(x, v).fields : \E f \in x.fields :
                 /\ f.of # v
                 /\ t.of = f.of /\ t.n = f.n
                 /\ t.is = IF f.is = v THEN "?" ELSE f.is
           /\ \A p \in Parts \ {"slots", "rooted", "fields"} : Assigned(x, v)[p] = x[p]
  <1> DEFINE y == Assigned(x, v)
             New(t) == [t EXCEPT !.is = IF t.is = v THEN "?" ELSE t.is]
  <1>1. /\ y = [p \in Parts |-> y[p]]
        /\ y.slots = [k \in DOMAIN x.slots |-> IF x.slots[k] = v THEN "?" ELSE x.slots[k]]
        /\ y.rooted = x.rooted \ {v}
        /\ y.fields = {New(t) : t \in {t \in x.fields : t.of # v}}
        /\ \A p \in Parts \ {"slots", "rooted", "fields"} : y[p] = x[p]
    BY DEF Assigned, View, Parts
  <1>2. ASSUME NEW t \in Field(V)
        PROVE  /\ New(t) \in Field(V)
               /\ New(t).of = t.of /\ New(t).n = t.n
               /\ New(t).is = IF t.is = v THEN "?" ELSE t.is
    <2>1. t.is \in V \cup {"?"}
      BY DEF Field
    <2>2. (IF t.is = v THEN "?" ELSE t.is) \in V \cup {"?"}
      BY <2>1
    <2> QED
      BY ONLY <2>2, FieldChanged, t \in Field(V)
  <1> HIDE DEF y, New
  <1>3. x.fields \subseteq Field(V) /\ x.rooted \subseteq V /\ x.safe \subseteq V
    BY DEF View
  <1>4. y.fields \subseteq Field(V)
    BY ONLY <1>1, <1>2, <1>3
  <1>5. \A t \in y.fields : \E f \in x.fields :
           /\ f.of # v
           /\ t.of = f.of /\ t.n = f.n
           /\ t.is = IF f.is = v THEN "?" ELSE f.is
    BY ONLY <1>1, <1>2, <1>3
  <1>6. y.slots \in Seq(V \cup {"?"})
    <2>1. x.slots \in Seq(V \cup {"?"})
      BY DEF View
    <2> QED
      BY ONLY <1>1, <2>1
  <1>7. y.rooted \subseteq V /\ y.safe \subseteq V
    BY <1>1, <1>3 DEF Parts
  <1>8. View(y, V)
    BY <1>1, <1>4, <1>6, <1>7 DEF View
  <1> QED
    BY <1>1, <1>5, <1>8 DEF y

-----------------------------------------------------------------------------
(* What a view says of a state: of variables b, a protect stack st that was *)
(* h high when the stage began, preserved objects kp and a heap r.          *)

SlotsHold(slots, b, st, h) ==
    /\ Len(st) = h + Len(slots)
    /\ \A k \in DOMAIN slots : slots[k] # "?" => st[h + k] = b[slots[k]]

RootsHold(rooted, b, st, h, kp) ==
    \A v \in rooted : b[v] \in kp \cup {0} \/ \E k \in 1 .. h : b[v] = st[k]

FieldsHold(fields, b, r) ==
    \A t \in fields :
        /\ b[t.of] \in DOMAIN r
        /\ t.n \in DOMAIN r[b[t.of]]
        /\ t.is # "?" => r[b[t.of]][t.n] = b[t.is]

SafeHold(safe, b, r) == \A v \in safe : b[v] \in DOMAIN r \cup {0}

\* What a view says of the stack, and of the heap.
StackKnown(x, b, st, h, kp) ==
    SlotsHold(x.slots, b, st, h) /\ RootsHold(x.rooted, b, st, h, kp)

HeapKnown(x, b, r) == FieldsHold(x.fields, b, r) /\ SafeHold(x.safe, b, r)

\* The roots of a view point to what a collection starts from.
LEMMA RootsFound ==
    ASSUME NEW V, NEW x, View(x, V),
           NEW b, NEW st, st \in Seq(Nat), NEW h \in Nat, NEW kp,
           StackKnown(x, b, st, h, kp),
           NEW v \in Roots(x)
    PROVE  b[v] \in Range(st) \cup kp \cup {0}
  <1>1. Len(st) = h + Len(x.slots) /\ x.slots \in Seq(V \cup {"?"})
    BY DEF StackKnown, SlotsHold, View
  <1>2. \A k \in 1 .. Len(st) : st[k] \in Range(st)
    BY DEF Range
  <1>3. CASE v \in x.rooted
    <2>1. b[v] \in kp \cup {0} \/ \E k \in 1 .. h : b[v] = st[k]
      BY <1>3 DEF StackKnown, RootsHold
    <2>2. 1 .. h \subseteq 1 .. Len(st)
      BY <1>1
    <2> QED
      BY ONLY <1>2, <2>1, <2>2
  <1>4. CASE v \in Range(x.slots) \ {"?"}
    <2>1. PICK k \in DOMAIN x.slots : x.slots[k] = v /\ v # "?"
      BY <1>4 DEF Range
    <2>2. st[h + k] = b[v]
      BY <2>1 DEF StackKnown, SlotsHold
    <2>3. k \in 1 .. Len(x.slots) /\ Len(x.slots) \in Nat
      BY ONLY <1>1, <2>1
    <2>4. h + k \in 1 .. Len(st)
      BY ONLY <1>1, <2>3, h \in Nat
    <2> QED
      BY ONLY <1>2, <2>2, <2>4
  <1> QED
    BY <1>3, <1>4 DEF Roots

\* What a collection may leave of heap r when it spares objects.
Survives(survivors, r, objects) ==
    /\ objects \ {0} \subseteq survivors
    /\ survivors \subseteq DOMAIN r
    /\ \A o \in survivors : Range(r[o]) \subseteq survivors \cup {0}

Left(survivors, r) == [o \in survivors |-> r[o]]

LEMMA LeftHeap ==
    ASSUME NEW r, Heap(r), NEW survivors, NEW objects, Survives(survivors, r, objects)
    PROVE  /\ Heap(Left(survivors, r))
           /\ objects \subseteq DOMAIN Left(survivors, r) \cup {0}
           /\ 0 \notin survivors
  BY ProtectionAssumption DEF Survives, Left, Heap

\* What is known of the heap after a collection.
LEMMA SweptKnown ==
    ASSUME NEW V, NEW x, View(x, V),
           NEW b, NEW st, st \in Seq(Nat), NEW h \in Nat, NEW kp,
           StackKnown(x, b, st, h, kp),
           NEW r, Heap(r), HeapKnown(x, b, r),
           NEW held \in SUBSET V, NEW survivors,
           Survives(survivors, r, Range(st) \cup kp \cup {b[v] : v \in held})
    PROVE  HeapKnown(Swept(x, held), b, Left(survivors, r))
  <1> DEFINE l == Left(survivors, r)
  <1>1. /\ DOMAIN l = survivors
        /\ \A o \in survivors : l[o] = r[o]
        /\ survivors \subseteq DOMAIN r
        /\ \A o \in survivors : Range(r[o]) \subseteq survivors \cup {0}
        /\ \A v \in held : b[v] \in survivors \cup {0}
        /\ Range(st) \cup kp \subseteq survivors \cup {0}
    <2>1. DOMAIN l = survivors /\ \A o \in survivors : l[o] = r[o]
      BY DEF Left
    <2>2. /\ \A v \in held : b[v] \in Range(st) \cup kp \cup {b[w] : w \in held}
          /\ survivors \subseteq DOMAIN r
          /\ \A o \in survivors : Range(r[o]) \subseteq survivors \cup {0}
      BY DEF Survives
    <2>3. Range(st) \cup kp \cup {b[w] : w \in held} \subseteq survivors \cup {0}
      BY DEF Survives
    <2> QED
      BY ONLY <2>1, <2>2, <2>3
  <1>2. 0 \notin DOMAIN r
    BY ProtectionAssumption DEF Heap
  <1>3. \A v \in Roots(x) \cup held : b[v] \in survivors \cup {0}
    BY <1>1, RootsFound
  <1>4. \A t \in x.fields :
           /\ b[t.of] \in DOMAIN r
           /\ t.n \in DOMAIN r[b[t.of]]
           /\ t.is # "?" => r[b[t.of]][t.n] = b[t.is]
    BY DEF HeapKnown, FieldsHold
  <1>5. ASSUME NEW t \in x.fields, t.of \in Roots(x) \cup held, t.is # "?"
        PROVE  b[t.is] \in survivors \cup {0}
    <2>1. b[t.of] \in survivors
      BY ONLY <1>2, <1>3, <1>4, <1>5
    <2>2. b[t.is] \in Range(r[b[t.of]])
      BY <1>4, <1>5 DEF Range
    <2> QED
      BY ONLY <1>1, <2>1, <2>2
  <1> HIDE DEF l
  <1>6. \A v \in Spared(x, held) : b[v] \in survivors \cup {0}
    BY ONLY <1>3, <1>5 DEF Spared
  <1>7. SafeHold(Spared(x, held), b, l)
    BY <1>1, <1>6 DEF SafeHold
  <1>8. FieldsHold({t \in x.fields : t.of \in Spared(x, held)}, b, l)
    <2>1. \A t \in {t \in x.fields : t.of \in Spared(x, held)} : b[t.of] \in survivors
      BY ONLY <1>2, <1>4, <1>6
    <2> QED
      BY ONLY <1>1, <1>4, <2>1 DEF FieldsHold
  <1>9. /\ Swept(x, held).safe = Spared(x, held)
        /\ Swept(x, held).fields = {t \in x.fields : t.of \in Spared(x, held)}
    BY SweptView
  <1> QED
    BY ONLY <1>7, <1>8, <1>9 DEF HeapKnown, l

\* What is known of the stack after a collection.
LEMMA SweptStack ==
    ASSUME NEW V, NEW x, View(x, V), NEW held \in SUBSET V,
           NEW b, NEW st, NEW h, NEW kp, StackKnown(x, b, st, h, kp)
    PROVE  StackKnown(Swept(x, held), b, st, h, kp)
  <1>1. \A p \in Parts \ {"safe", "fields"} : Swept(x, held)[p] = x[p]
    BY SweptView
  <1>2. Swept(x, held).slots = x.slots /\ Swept(x, held).rooted = x.rooted
    BY <1>1 DEF Parts
  <1> QED
    BY <1>2 DEF StackKnown

\* A heap with more in it.
Extends(r, less) ==
    /\ DOMAIN less \subseteq DOMAIN r
    /\ \A o \in DOMAIN less : r[o] = less[o]

LEMMA ExtendsKnown ==
    ASSUME NEW x, NEW b, NEW less, HeapKnown(x, b, less), NEW r, Extends(r, less)
    PROVE  HeapKnown(x, b, r)
  BY DEF Extends, HeapKnown, FieldsHold, SafeHold

\* What is known after an assignment, of an object a or of nothing, to v.
LEMMA AssignedKnown ==
    ASSUME NEW V, NEW x, View(x, V), NEW v \in V,
           NEW b, DOMAIN b = V, NEW a,
           NEW st, NEW h, NEW kp, StackKnown(x, b, st, h, kp),
           NEW r, HeapKnown(x, b, r), a \in DOMAIN r \cup {0}
    PROVE  /\ StackKnown(Assigned(x, v), [b EXCEPT ![v] = a], st, h, kp)
           /\ FieldsHold(Assigned(x, v).fields, [b EXCEPT ![v] = a], r)
           /\ SafeHold(x.safe \cup {v}, [b EXCEPT ![v] = a], r)
  <1> DEFINE c == [b EXCEPT ![v] = a]
             y == Assigned(x, v)
  <1>1. c[v] = a /\ \A w \in V \ {v} : c[w] = b[w]
    OBVIOUS
  <1>2. /\ y.slots = [k \in DOMAIN x.slots |-> IF x.slots[k] = v THEN "?" ELSE x.slots[k]]
        /\ y.rooted = x.rooted \ {v}
        /\ \A t \in y.fields : \E f \in x.fields :
              /\ f.of # v
              /\ t.of = f.of /\ t.n = f.n
              /\ t.is = IF f.is = v THEN "?" ELSE f.is
    BY AssignedView
  <1>3. /\ x.slots \in Seq(V \cup {"?"}) /\ x.rooted \subseteq V /\ x.safe \subseteq V
        /\ \A f \in x.fields : f.of \in V /\ f.is \in V \cup {"?"}
    BY DEF View, Field
  <1> HIDE DEF c, y
  <1>4. SlotsHold(y.slots, c, st, h)
    <2>1. /\ Len(st) = h + Len(x.slots)
          /\ \A k \in DOMAIN x.slots : x.slots[k] # "?" => st[h + k] = b[x.slots[k]]
      BY DEF StackKnown, SlotsHold
    <2>2. DOMAIN y.slots = DOMAIN x.slots /\ Len(y.slots) = Len(x.slots)
      BY <1>2, <1>3
    <2>3. \A k \in DOMAIN x.slots : y.slots[k] # "?" =>
             y.slots[k] = x.slots[k] /\ x.slots[k] \in V \ {v}
      BY <1>2, <1>3
    <2> QED
      BY <1>1, <2>1, <2>2, <2>3 DEF SlotsHold
  <1>5. RootsHold(y.rooted, c, st, h, kp)
    BY <1>1, <1>2, <1>3 DEF StackKnown, RootsHold
  <1>6. FieldsHold(y.fields, c, r)
    <2>1. \A f \in x.fields :
             /\ b[f.of] \in DOMAIN r
             /\ f.n \in DOMAIN r[b[f.of]]
             /\ f.is # "?" => r[b[f.of]][f.n] = b[f.is]
      BY DEF HeapKnown, FieldsHold
    <2>2. ASSUME NEW t \in y.fields
          PROVE  /\ c[t.of] \in DOMAIN r
                 /\ t.n \in DOMAIN r[c[t.of]]
                 /\ t.is # "?" => r[c[t.of]][t.n] = c[t.is]
      <3>1. PICK f \in x.fields :
               /\ f.of # v
               /\ t.of = f.of /\ t.n = f.n
               /\ t.is = IF f.is = v THEN "?" ELSE f.is
        BY <1>2
      <3>2. c[t.of] = b[f.of]
        BY <1>1, <1>3, <3>1
      <3>3. t.is # "?" => f.is # "?" /\ c[t.is] = b[f.is]
        BY <1>1, <1>3, <3>1
      <3> QED
        BY ONLY <2>1, <3>1, <3>2, <3>3
    <2> QED
      BY ONLY <2>2 DEF FieldsHold
  <1>7. SafeHold(x.safe \cup {v}, c, r)
    BY <1>1, <1>3 DEF HeapKnown, SafeHold
  <1> QED
    BY <1>4, <1>5, <1>6, <1>7 DEF StackKnown, c, y

\* View y is that of the step after x, up to what is known.
Follows(y, x, V, c, st, h, kp, r) ==
    /\ View(y, V)
    /\ y.stage = x.stage /\ y.at = x.at + 1 /\ y.error = x.error /\ y.top = x.top
    /\ Len(y.slots) = Len(x.slots)
    /\ StackKnown(y, c, st, h, kp)
    /\ HeapKnown(y, c, r)

\* What is known after v was given an object a, or nothing.
LEMMA GivenKnown ==
    ASSUME NEW V, NEW x, View(x, V), NEW v \in V,
           NEW b, DOMAIN b = V, NEW a,
           NEW st, NEW h, NEW kp, StackKnown(x, b, st, h, kp),
           NEW r, HeapKnown(x, b, r), a \in DOMAIN r \cup {0},
           NEW c, c = [b EXCEPT ![v] = a]
    PROVE  Follows(Ahead(Safely(Assigned(x, v), v)), x, V, c, st, h, kp, r)
  <1> DEFINE z == Assigned(x, v)
             y == Ahead(Safely(z, v))
  <1>1. /\ StackKnown(z, c, st, h, kp)
        /\ FieldsHold(z.fields, c, r)
        /\ SafeHold(x.safe \cup {v}, c, r)
    BY AssignedKnown
  <1>2. /\ View(z, V)
        /\ z.slots = [k \in DOMAIN x.slots |-> IF x.slots[k] = v THEN "?" ELSE x.slots[k]]
        /\ \A p \in Parts \ {"slots", "rooted", "fields"} : z[p] = x[p]
    BY AssignedView
  <1>3. x.slots \in Seq(V \cup {"?"})
    BY DEF View
  <1> HIDE DEF z
  <1>4. Len(z.slots) = Len(x.slots)
    BY ONLY <1>2, <1>3
  <1>5. /\ View(Safely(z, v), V)
        /\ Safely(z, v).safe = z.safe \cup {v}
        /\ \A p \in Parts \ {"safe"} : Safely(z, v)[p] = z[p]
    BY <1>2, SafelyView
  <1>6. /\ View(y, V)
        /\ y.at = Safely(z, v).at + 1
        /\ \A p \in Parts \ {"at"} : y[p] = Safely(z, v)[p]
    BY <1>5, AheadView
  <1> HIDE DEF y
  <1>7. /\ y.stage = x.stage /\ y.at = x.at + 1 /\ y.error = x.error /\ y.top = x.top
        /\ y.slots = z.slots /\ y.rooted = z.rooted /\ y.fields = z.fields
        /\ y.safe = x.safe \cup {v}
    BY ONLY <1>2, <1>5, <1>6 DEF Parts
  <1>8. StackKnown(y, c, st, h, kp) /\ HeapKnown(y, c, r)
    BY ONLY <1>1, <1>7 DEF StackKnown, HeapKnown
  <1>9. Follows(y, x, V, c, st, h, kp, r)
    BY ONLY <1>4, <1>6, <1>7, <1>8 DEF Follows
  <1> QED
    BY <1>9 DEF y, z

-----------------------------------------------------------------------------
(* The inductive invariant: a memory without dangling references, of which *)
(* one of the views that the check has seen is true                        *)

\* Owners never share an object.
Apart(b) ==
    \A v, w \in Owners(scenario) : v # w /\ b[v] = b[w] => b[v] = 0

Memory(b, st, h, kp, r) ==
    /\ b \in [VariablesOf(scenario) -> Nat]
    /\ st \in Seq(Nat)
    /\ h \in Nat
    /\ Heap(r)
    /\ Range(st) \cup kp \subseteq DOMAIN r \cup {0}
    /\ Apart(b)

\* A toplevel call of which the view's top speaks, over a stack h high.
TopOf(top, h) ==
    IF top = Outside THEN Outside
    ELSE [height |-> h + top.height, behind |-> top.behind]

Describes(x) ==
    /\ x.stage = stage /\ x.at = at /\ x.error = error
    /\ x.top.height <= Len(x.slots)
    /\ toplevel = TopOf(x.top, base)
    /\ StackKnown(x, bound, stack, base, kept)
    /\ HeapKnown(x, bound, refers)

IInv ==
    /\ scenario \in Scenarios
    /\ Memory(bound, stack, base, kept, refers)
    /\ \E x \in Views(scenario) : Describes(x)

\* What a step starts from.
Ready(x) ==
    /\ scenario \in Scenarios
    /\ Memory(bound, stack, base, kept, refers)
    /\ x \in ViewsOf(scenario)
    /\ Allowed(scenario, x)
    /\ Describes(x)

\* What it has to lead to.
Reached(x) ==
    \E y \in Successors(scenario, x) :
        /\ Memory(bound', stack', base', kept', refers')
        /\ y.stage = stage' /\ y.at = at' /\ y.error = error'
        /\ y.top.height <= Len(y.slots)
        /\ toplevel' = TopOf(y.top, base')
        /\ StackKnown(y, bound', stack', base', kept')
        /\ HeapKnown(y, bound', refers')

\* The step under way is typed, and allowed to a view that is true.
LEMMA NowAllowed ==
    ASSUME NEW x, Ready(x), Running
    PROVE  /\ Now.v \in VariablesOf(scenario)
           /\ Now.args \in Seq(VariablesOf(scenario))
           /\ Now.n \in Nat
           /\ Now.do \in {"protect", "preserve", "attach"} => Now.v \in Range(Now.args)
           /\ Now.do = "get" => 1 \in DOMAIN Now.args
           /\ Now.do \in {"attach", "else"} => 2 \in DOMAIN Now.args
           /\ StepAllowed(x, Now)
           /\ Successors(scenario, x) = Outcomes(scenario, x, Now) \cup Jumps(x, Now)
  <1>1. x.stage = stage /\ x.at = at /\ x.stage \in {1, 2}
    BY ViewsOfView DEF Ready, Describes
  <1>2. ~ Ended(scenario, x) /\ StepAt(scenario, x) = Now
    BY <1>1 DEF Ended, StepAt, Running, Now, Code
  <1>3. Now \in StepsOf(scenario)
    <2>1. scenario \in Scenarios
      BY DEF Ready
    <2>2. \A k \in {1, 2} : Program[scenario].code[k] \in Seq(StepsOf(scenario))
      BY ONLY <2>1, ProtectionAssumption
    <2>3. Code \in Seq(StepsOf(scenario))
      BY ONLY <1>1, <2>2 DEF Code
    <2> QED
      BY <2>3 DEF Now, Running
  <1>4. StepAllowed(x, Now)
    BY <1>2 DEF Ready, Allowed
  <1>5. Successors(scenario, x) = Outcomes(scenario, x, Now) \cup Jumps(x, Now)
    BY ONLY <1>2, Zenon DEF Successors
  <1> QED
    BY <1>3, <1>4, <1>5 DEF StepsOf

\* A step of another kind does not assign to an owner.
LEMMA OwnersNow ==
    ASSUME NEW x, Ready(x), Running, Now.do \in {"get", "else"}
    PROVE  Now.v \notin Owners(scenario)
  <1>1. stage \in {1, 2}
    BY ViewsOfView DEF Ready, Describes
  <1> QED
    BY <1>1 DEF Owners, Now, Code, Running

\* What a step reads has not been freed, and a collection spares it.
LEMMA ArgumentsSurvive ==
    ASSUME NEW x, Ready(x), Running
    PROVE  /\ Range(Now.args) \subseteq x.safe
           /\ Range(Now.args) \subseteq VariablesOf(scenario)
           /\ Arguments \subseteq DOMAIN refers \cup {0}
           /\ Survives(Collected(Arguments), refers, Range(stack) \cup kept \cup Arguments)
  <1>1. /\ Range(Now.args) \subseteq x.safe
        /\ Range(Now.args) \subseteq VariablesOf(scenario)
    BY NowAllowed DEF StepAllowed, Range
  <1>2. Arguments \subseteq DOMAIN refers \cup {0}
    BY <1>1 DEF Arguments, Ready, Describes, HeapKnown, SafeHold
  <1>3. Heap(refers) /\ Range(stack) \cup kept \cup Arguments \subseteq DOMAIN refers \cup {0}
    BY <1>2 DEF Ready, Memory
  <1> DEFINE all == Range(stack) \cup kept \cup Arguments
  <1>4. /\ all \ {0} \subseteq Reachable(all)
        /\ Reachable(all) \subseteq DOMAIN refers
        /\ \A o \in Reachable(all) : Range(refers[o]) \subseteq Reachable(all) \cup {0}
    BY <1>3, ReachableFacts
  <1>5. Collected(Arguments) = Reachable(all)
    BY <1>4 DEF Collected
  <1> QED
    BY <1>1, <1>2, <1>4, <1>5 DEF Survives

-----------------------------------------------------------------------------
(* Each step leads to what one of its successors describes *)

\* A new object in v, after a collection.
LEMMA AllocatedFacts ==
    ASSUME NEW x, Ready(x), Running,
           NEW v \in VariablesOf(scenario), NEW contents, Allocate(v, contents),
           Range(contents) \subseteq Collected(Arguments) \cup {0}
    PROVE  \E new :
              /\ new \in DOMAIN refers'
              /\ bound' = [bound EXCEPT ![v] = new]
              /\ refers'[new] = contents
              /\ Extends(refers', Left(Collected(Arguments), refers))
              /\ Memory(bound', stack, base, kept, refers')
  <1> DEFINE live == Collected(Arguments)
             free == (1 .. MaxObjects) \ (live \cup Range(bound))
             new  == CHOOSE a \in free : \A b \in free : a <= b
  <1>1. /\ free # {}
        /\ bound' = [bound EXCEPT ![v] = new]
        /\ refers' = [o \in live \cup {new} |-> IF o = new THEN contents ELSE refers[o]]
    BY DEF Allocate
  <1>2. new \in free
    <2>1. free \in SUBSET Nat
      BY ProtectionAssumption
    <2> HIDE DEF free
    <2>2. \E a \in free : \A b \in free : a <= b
      BY ONLY <1>1, <2>1, Least
    <2> QED
      BY <2>2
  <1>3. /\ Range(stack) \cup kept \subseteq live \cup {0}
        /\ live \subseteq DOMAIN refers
        /\ \A o \in live : Range(refers[o]) \subseteq live \cup {0}
    BY ArgumentsSurvive DEF Survives
  <1>4. new \in 1 .. MaxObjects /\ new \notin live /\ new \notin Range(bound)
    BY <1>2
  <1>5. /\ bound \in [VariablesOf(scenario) -> Nat]
        /\ stack \in Seq(Nat) /\ base \in Nat
        /\ Heap(refers) /\ Apart(bound)
    BY DEF Ready, Memory
  <1>6. Range(contents) \subseteq live \cup {0}
    OBVIOUS
  <1> HIDE DEF new, live, free
  <1>7. DOMAIN refers' = live \cup {new} /\ refers'[new] = contents
        /\ \A o \in live : refers'[o] = refers[o]
    BY ONLY <1>1, <1>4
  <1>8. Heap(refers')
    BY ONLY <1>3, <1>4, <1>5, <1>6, <1>7 DEF Heap
  <1>9. Extends(refers', Left(live, refers))
    BY ONLY <1>7 DEF Extends, Left
  <1>10. bound' \in [VariablesOf(scenario) -> Nat]
    BY ONLY <1>1, <1>4, <1>5, ProtectionAssumption
  <1>11. Apart(bound')
    <2>1. \A w \in VariablesOf(scenario) : bound[w] # new
      BY ONLY <1>4, <1>5 DEF Range
    <2>2. Owners(scenario) \subseteq VariablesOf(scenario)
      BY DEF Owners
    <2> QED
      BY ONLY <1>1, <1>5, <2>1, <2>2, v \in VariablesOf(scenario) DEF Apart
  <1>12. Memory(bound', stack, base, kept, refers')
    BY ONLY <1>3, <1>5, <1>7, <1>8, <1>10, <1>11 DEF Memory
  <1> QED
    BY <1>1, <1>7, <1>9, <1>12 DEF live

\* A collection, and nothing else.
LEMMA CollectFacts ==
    ASSUME NEW x, Ready(x), Running, Collect
    PROVE  /\ refers' = Left(Collected(Arguments), refers)
           /\ Memory(bound, stack, base, kept, refers')
           /\ Arguments \subseteq DOMAIN refers' \cup {0}
  <1> DEFINE all == Range(stack) \cup kept \cup Arguments
  <1>1. refers' = Left(Collected(Arguments), refers)
    BY DEF Collect, Left
  <1>2. Survives(Collected(Arguments), refers, all)
    BY ArgumentsSurvive
  <1>3. Heap(refers') /\ all \subseteq DOMAIN refers' \cup {0}
    BY <1>1, <1>2, LeftHeap DEF Ready, Memory
  <1> QED
    BY <1>1, <1>3 DEF Ready, Memory

\* The view after the collection of this step.
LEMMA CollectKnown ==
    ASSUME NEW x, Ready(x), Running
    PROVE  LET w == Swept(x, Range(Now.args))
           IN  /\ View(w, VariablesOf(scenario))
               /\ w.stage = stage /\ w.at = at /\ w.error = error
               /\ w.slots = x.slots /\ w.rooted = x.rooted /\ w.top = x.top
               /\ StackKnown(w, bound, stack, base, kept)
               /\ HeapKnown(w, bound, Left(Collected(Arguments), refers))
  <1> DEFINE V == VariablesOf(scenario)
             held == Range(Now.args)
             w == Swept(x, held)
  <1>1. View(x, V) /\ held \in SUBSET V
    BY ViewsOfView, ArgumentsSurvive DEF Ready
  <1>2. Survives(Collected(Arguments), refers,
                 Range(stack) \cup kept \cup {bound[v] : v \in held})
    BY ArgumentsSurvive DEF Arguments
  <1>3. /\ StackKnown(x, bound, stack, base, kept) /\ HeapKnown(x, bound, refers)
        /\ stack \in Seq(Nat) /\ base \in Nat /\ Heap(refers)
        /\ x.stage = stage /\ x.at = at /\ x.error = error
    BY DEF Ready, Describes, Memory
  <1> HIDE DEF V, held
  <1>4. StackKnown(w, bound, stack, base, kept)
    BY ONLY <1>1, <1>3, SweptStack
  <1>5. HeapKnown(w, bound, Left(Collected(Arguments), refers))
    BY ONLY <1>1, <1>2, <1>3, SweptKnown
  <1>6. View(w, V) /\ \A p \in Parts \ {"safe", "fields"} : w[p] = x[p]
    BY ONLY <1>1, SweptView
  <1> HIDE DEF w
  <1>7. /\ w.stage = stage /\ w.at = at /\ w.error = error
        /\ w.slots = x.slots /\ w.rooted = x.rooted /\ w.top = x.top
    BY ONLY <1>3, <1>6 DEF Parts
  <1> QED
    BY <1>4, <1>5, <1>6, <1>7 DEF V, held, w

\* After a collection and an assignment, of an object a or of nothing.
GivenHolds(y) ==
    /\ View(y, VariablesOf(scenario))
    /\ y.stage = stage /\ y.at = at + 1 /\ y.error = error
    /\ y.top.height <= Len(y.slots)
    /\ toplevel = TopOf(y.top, base)
    /\ StackKnown(y, bound', stack, base, kept)
    /\ HeapKnown(y, bound', refers')

LEMMA GivenAfter ==
    ASSUME NEW x, Ready(x), Running,
           NEW a, bound' = [bound EXCEPT ![Now.v] = a], a \in DOMAIN refers' \cup {0},
           Extends(refers', Left(Collected(Arguments), refers))
    PROVE  GivenHolds(Given(x, Now))
  <1> DEFINE V == VariablesOf(scenario)
             v == Now.v
             y == Given(x, Now)
             w == Swept(x, Range(Now.args))
  <1>1. /\ View(w, V)
        /\ w.stage = stage /\ w.at = at /\ w.error = error
        /\ w.slots = x.slots /\ w.rooted = x.rooted /\ w.top = x.top
        /\ StackKnown(w, bound, stack, base, kept)
        /\ HeapKnown(w, bound, Left(Collected(Arguments), refers))
    BY CollectKnown
  <1> HIDE DEF w
  <1>2. HeapKnown(w, bound, refers')
    BY ONLY <1>1, ExtendsKnown, Extends(refers', Left(Collected(Arguments), refers))
  <1>3. /\ DOMAIN bound = V
        /\ x.top.height <= Len(x.slots) /\ toplevel = TopOf(x.top, base)
    BY DEF Ready, Memory, Describes
  <1>4. y = Ahead(Safely(Assigned(w, v), v))
    BY DEF w, Given
  <1>0. v \in V /\ bound' = [bound EXCEPT ![v] = a]
    BY NowAllowed
  <1> HIDE DEF v, V, y
  <1>5. Follows(y, w, V, bound', stack, base, kept, refers')
    BY ONLY <1>1, <1>2, <1>3, <1>4, <1>0, GivenKnown, a \in DOMAIN refers' \cup {0}
  <1> QED
    BY ONLY <1>0, <1>1, <1>3, <1>5 DEF Follows, GivenHolds, V, y

LEMMA LetReached ==
    ASSUME NEW x, Ready(x), StepLet
    PROVE  Reached(x)
  <1> DEFINE V == VariablesOf(scenario)
             v == Now.v
             args == Now.args
             contents == [i \in DOMAIN args |-> bound[args[i]]]
             z == Given(x, Now)
             new == {[of |-> v, n |-> k, is |-> args[k]] : k \in DOMAIN args}
             y == AfterLet(x, Now)
  <1>1. /\ Running /\ Now.do = "let" /\ Allocate(v, contents)
        /\ stage' = stage /\ at' = at + 1 /\ error' = error
        /\ stack' = stack /\ base' = base /\ kept' = kept /\ toplevel' = toplevel
    BY DEF StepLet, Is, Step1
  <1>2. /\ v \in V /\ args \in Seq(V)
        /\ v \notin Range(args)
        /\ y \in Successors(scenario, x)
    BY <1>1, NowAllowed DEF StepAllowed, Outcomes
  <1>3. Range(contents) \subseteq Collected(Arguments) \cup {0}
    <2>1. Range(contents) = Arguments
      BY <1>1 DEF Range, Arguments
    <2>2. Arguments \subseteq Collected(Arguments) \cup {0}
      BY <1>1, ArgumentsSurvive DEF Survives
    <2> QED
      BY <2>1, <2>2
  <1>4. PICK a :
           /\ a \in DOMAIN refers'
           /\ bound' = [bound EXCEPT ![v] = a]
           /\ refers'[a] = contents
           /\ Extends(refers', Left(Collected(Arguments), refers))
           /\ Memory(bound', stack, base, kept, refers')
    <2> HIDE DEF contents
    <2> QED
      BY <1>1, <1>2, <1>3, AllocatedFacts
  <1>0. GivenHolds(z)
    BY <1>1, <1>2, <1>4, GivenAfter
  <1>5. /\ View(z, V)
        /\ z.stage = stage /\ z.at = at + 1 /\ z.error = error
        /\ z.top.height <= Len(z.slots)
        /\ toplevel = TopOf(z.top, base)
        /\ StackKnown(z, bound', stack, base, kept)
        /\ HeapKnown(z, bound', refers')
    BY ONLY <1>0 DEF GivenHolds
  <1>6. /\ y.fields = z.fields \cup new
        /\ \A p \in Parts \ {"fields"} : y[p] = z[p]
    <2>1. y = [z EXCEPT !.fields = @ \cup new]
      BY DEF AfterLet
    <2> HIDE DEF y, z, new
    <2> QED
      BY ONLY <1>5, <2>1 DEF View, Parts
  <1>7. FieldsHold(new, bound', refers')
    <2>1. ASSUME NEW k \in DOMAIN args
          PROVE  /\ bound'[v] \in DOMAIN refers'
                 /\ k \in DOMAIN refers'[bound'[v]]
                 /\ refers'[bound'[v]][k] = bound'[args[k]]
      <3>1. args[k] \in V /\ args[k] # v
        BY <1>2 DEF Range
      <3>2. DOMAIN bound = V
        BY DEF Ready, Memory
      <3>3. bound'[v] = a /\ bound'[args[k]] = bound[args[k]]
        BY <1>2, <1>4, <3>1, <3>2
      <3> QED
        BY <1>4, <3>3
    <2>2. \A t \in new : \E k \in DOMAIN args : t.of = v /\ t.n = k /\ t.is = args[k]
      OBVIOUS
    <2> HIDE DEF new
    <2> QED
      BY ONLY <2>1, <2>2 DEF FieldsHold
  <1> HIDE DEF y, z, new, contents
  <1>8. /\ y.stage = z.stage /\ y.at = z.at /\ y.error = z.error /\ y.slots = z.slots
        /\ y.top = z.top /\ y.rooted = z.rooted /\ y.safe = z.safe
    BY ONLY <1>6 DEF Parts
  <1>9. HeapKnown(y, bound', refers')
    BY ONLY <1>5, <1>6, <1>7, <1>8 DEF HeapKnown, FieldsHold
  <1>10. StackKnown(y, bound', stack, base, kept)
    BY ONLY <1>5, <1>8 DEF StackKnown
  <1> QED
    BY ONLY <1>1, <1>2, <1>4, <1>5, <1>8, <1>9, <1>10 DEF Reached

\* What an evaluation leads to, whether it returns or fails.
LEMMA EvaluatedKnown ==
    ASSUME NEW x, Ready(x), Running,
           NEW a, bound' = [bound EXCEPT ![Now.v] = a], a \in DOMAIN refers' \cup {0},
           Extends(refers', Left(Collected(Arguments), refers)),
           Memory(bound', stack, base, kept, refers'),
           stage' = stage, at' = at + 1,
           stack' = stack, base' = base, kept' = kept, toplevel' = toplevel,
           NEW failed, error' = IF Now.do = "try" THEN failed ELSE error,
           NEW y \in Successors(scenario, x),
           y = [Given(x, Now) EXCEPT !.error = IF Now.do = "try" THEN failed ELSE @]
    PROVE  Reached(x)
  <1> DEFINE z == Given(x, Now)
  <1>0. GivenHolds(z)
    BY GivenAfter
  <1>1. /\ View(z, VariablesOf(scenario))
        /\ z.stage = stage /\ z.at = at + 1 /\ z.error = error
        /\ z.top.height <= Len(z.slots)
        /\ toplevel = TopOf(z.top, base)
        /\ StackKnown(z, bound', stack, base, kept)
        /\ HeapKnown(z, bound', refers')
    BY ONLY <1>0 DEF GivenHolds
  <1> HIDE DEF z
  <1>2. y.error = error' /\ \A p \in Parts \ {"error"} : y[p] = z[p]
    BY <1>1 DEF View, Parts, z
  <1>3. /\ y.stage = z.stage /\ y.at = z.at /\ y.slots = z.slots /\ y.top = z.top
        /\ y.rooted = z.rooted /\ y.fields = z.fields /\ y.safe = z.safe
    BY ONLY <1>2 DEF Parts
  <1>4. StackKnown(y, bound', stack, base, kept) /\ HeapKnown(y, bound', refers')
    BY ONLY <1>1, <1>3 DEF StackKnown, HeapKnown
  <1> QED
    BY <1>1, <1>2, <1>3, <1>4 DEF Reached

LEMMA EvaluatedReached ==
    ASSUME NEW x, Ready(x), StepEvaluated
    PROVE  Reached(x)
  <1> DEFINE y == AfterEvaluated(x, Now)
  <1>1. /\ Running /\ Now.do \in {"eval", "try", "else"} /\ Allocate(Now.v, <<>>)
        /\ stage' = stage /\ at' = at + 1
        /\ error' = IF Now.do = "try" THEN FALSE ELSE error
        /\ stack' = stack /\ base' = base /\ kept' = kept /\ toplevel' = toplevel
    BY DEF StepEvaluated, Is, Step1
  <1>2. Now.v \in VariablesOf(scenario) /\ y \in Successors(scenario, x)
    BY <1>1, NowAllowed DEF Outcomes
  <1>3. Range(<<>>) \subseteq Collected(Arguments) \cup {0}
    BY DEF Range
  <1>4. PICK a :
           /\ a \in DOMAIN refers'
           /\ bound' = [bound EXCEPT ![Now.v] = a]
           /\ Extends(refers', Left(Collected(Arguments), refers))
           /\ Memory(bound', stack, base, kept, refers')
    BY <1>1, <1>2, <1>3, AllocatedFacts
  <1>5. y = [Given(x, Now) EXCEPT !.error = IF Now.do = "try" THEN FALSE ELSE @]
    BY DEF AfterEvaluated
  <1> HIDE DEF y
  <1> QED
    BY <1>1, <1>2, <1>4, <1>5, EvaluatedKnown

LEMMA FailedReached ==
    ASSUME NEW x, Ready(x), StepFailed
    PROVE  Reached(x)
  <1> DEFINE y == AfterFailed(x, Now)
             a == IF Now.do = "else" THEN bound[Now.args[2]] ELSE 0
  <1>1. /\ Running /\ Now.do \in {"try", "else"} /\ Collect
        /\ bound' = [bound EXCEPT ![Now.v] = a]
        /\ stage' = stage /\ at' = at + 1
        /\ error' = IF Now.do = "try" THEN TRUE ELSE error
        /\ stack' = stack /\ base' = base /\ kept' = kept /\ toplevel' = toplevel
    BY DEF StepFailed, Is, Step1
  <1>2. /\ Now.v \in VariablesOf(scenario) /\ Now.args \in Seq(VariablesOf(scenario))
        /\ Now.do = "else" => 2 \in DOMAIN Now.args
        /\ y \in Successors(scenario, x)
    BY <1>1, NowAllowed DEF Outcomes
  <1>3. /\ refers' = Left(Collected(Arguments), refers)
        /\ Memory(bound, stack, base, kept, refers')
        /\ Arguments \subseteq DOMAIN refers' \cup {0}
    BY <1>1, CollectFacts
  <1>4. a \in DOMAIN refers' \cup {0}
    BY <1>2, <1>3 DEF Arguments, Range
  <1>5. Extends(refers', Left(Collected(Arguments), refers))
    BY <1>3 DEF Extends
  <1>6. Memory(bound', stack, base, kept, refers')
    <2>1. /\ bound \in [VariablesOf(scenario) -> Nat]
          /\ Heap(refers') /\ Apart(bound)
      BY <1>3 DEF Memory
    <2>2. a \in Nat
      BY <1>4, <2>1, ProtectionAssumption DEF Heap
    <2>3. Apart(bound')
      <3>1. Owners(scenario) \subseteq VariablesOf(scenario)
        BY DEF Owners
      <3>2. CASE a = 0
        BY ONLY <1>1, <1>2, <2>1, <3>1, <3>2 DEF Apart
      <3>3. CASE Now.do = "else"
        <4>1. Now.v \notin Owners(scenario)
          BY <1>1, <3>3, OwnersNow
        <4> HIDE DEF a
        <4> QED
          BY ONLY <1>1, <1>2, <2>1, <3>1, <4>1 DEF Apart
      <3> QED
        BY <3>2, <3>3
    <2> HIDE DEF a
    <2> QED
      BY <1>1, <1>3, <2>1, <2>2, <2>3 DEF Memory
  <1>7. y = [Given(x, Now) EXCEPT !.error = IF Now.do = "try" THEN TRUE ELSE @]
    BY DEF AfterFailed
  <1> HIDE DEF y, a
  <1> QED
    BY <1>1, <1>2, <1>4, <1>5, <1>6, <1>7, EvaluatedKnown

\* A step that changes neither variables nor heap, and leads from x to a view
\* with the same knowledge of both.
LEMMA SameHeap ==
    ASSUME NEW x, Ready(x), UNCHANGED <<bound, refers>>,
           NEW y, y.fields = x.fields, y.safe = x.safe
    PROVE  HeapKnown(y, bound', refers')
  BY DEF Ready, Describes, HeapKnown

LEMMA SameStack ==
    ASSUME NEW x, Ready(x), UNCHANGED <<bound, stack, base, kept>>,
           NEW y, y.slots = x.slots, y.rooted = x.rooted
    PROVE  StackKnown(y, bound', stack', base', kept')
  BY DEF Ready, Describes, StackKnown

\* What holds of every view that is ready.
LEMMA ReadyView ==
    ASSUME NEW x, Ready(x)
    PROVE  /\ View(x, VariablesOf(scenario))
           /\ x.stage = stage /\ x.at = at /\ x.error = error
           /\ stage \in {1, 2} /\ at \in Nat
           /\ x.top \in [height : Nat, behind : Nat]
           /\ x.top.height <= Len(x.slots)
           /\ toplevel = TopOf(x.top, base)
           /\ StackKnown(x, bound, stack, base, kept)
           /\ HeapKnown(x, bound, refers)
           /\ Memory(bound, stack, base, kept, refers)
           /\ x.slots \in Seq(VariablesOf(scenario) \cup {"?"})
  BY ViewsOfView DEF Ready, Describes, View

LEMMA AppendFacts ==
    ASSUME NEW S, NEW s \in Seq(S), NEW e \in S
    PROVE  /\ Append(s, e) \in Seq(S)
           /\ Len(s) \in Nat /\ DOMAIN s = 1 .. Len(s)
           /\ Len(Append(s, e)) = Len(s) + 1
           /\ DOMAIN Append(s, e) = 1 .. Len(s) + 1
           /\ Append(s, e)[Len(s) + 1] = e
           /\ \A k \in 1 .. Len(s) : Append(s, e)[k] = s[k]
  OBVIOUS

LEMMA ProtectReached ==
    ASSUME NEW x, Ready(x), StepProtect
    PROVE  Reached(x)
  <1> DEFINE V == VariablesOf(scenario)
             v == Now.v
             y == AfterProtect(x, Now)
  <1>1. /\ Running /\ Now.do = "protect"
        /\ stack' = Append(stack, bound[v])
        /\ stage' = stage /\ at' = at + 1 /\ error' = error /\ base' = base
        /\ kept' = kept /\ bound' = bound /\ refers' = refers /\ toplevel' = toplevel
    BY DEF StepProtect, Is, Step1
  <1>2. v \in V /\ v \in Range(Now.args) /\ y \in Successors(scenario, x)
    BY <1>1, NowAllowed DEF Outcomes
  <1>3. bound[v] \in DOMAIN refers \cup {0}
    BY <1>1, <1>2, ArgumentsSurvive DEF Arguments
  <1>4. /\ View(x, V)
        /\ x.stage = stage /\ x.at = at /\ x.error = error
        /\ x.top \in [height : Nat, behind : Nat]
        /\ x.top.height <= Len(x.slots)
        /\ toplevel = TopOf(x.top, base)
        /\ StackKnown(x, bound, stack, base, kept)
        /\ Memory(bound, stack, base, kept, refers)
        /\ x.slots \in Seq(V \cup {"?"})
    BY ReadyView
  <1>5. /\ y.at = x.at + 1 /\ y.slots = Append(x.slots, v)
        /\ \A p \in Parts \ {"at", "slots"} : y[p] = x[p]
    <2>1. /\ View(Ahead(x), V) /\ Ahead(x).at = x.at + 1
          /\ \A p \in Parts \ {"at"} : Ahead(x)[p] = x[p]
      BY <1>4, AheadView
    <2> QED
      BY <2>1 DEF AfterProtect, View, Parts
  <1> HIDE DEF y, v, V
  <1>6. /\ y.stage = x.stage /\ y.error = x.error /\ y.top = x.top
        /\ y.rooted = x.rooted /\ y.fields = x.fields /\ y.safe = x.safe
    BY ONLY <1>5 DEF Parts
  <1>7. /\ bound \in [VariablesOf(scenario) -> Nat] /\ stack \in Seq(Nat) /\ base \in Nat
        /\ Heap(refers) /\ Range(stack) \cup kept \subseteq DOMAIN refers \cup {0}
        /\ Apart(bound)
    BY ONLY <1>4 DEF Memory
  <1>8. bound[v] \in Nat
    BY <1>2, <1>7 DEF V
  <1>9. /\ stack' \in Seq(Nat) /\ Len(stack') = Len(stack) + 1
        /\ stack'[Len(stack) + 1] = bound[v]
        /\ \A k \in 1 .. Len(stack) : stack'[k] = stack[k]
        /\ DOMAIN stack' = 1 .. Len(stack) + 1 /\ DOMAIN stack = 1 .. Len(stack)
        /\ Len(stack) \in Nat
    BY ONLY <1>1, <1>7, <1>8, AppendFacts
  <1>10. Memory(bound', stack', base', kept', refers')
    <2>1. Range(stack') \subseteq Range(stack) \cup {bound[v]}
      <3>1. \A k \in 1 .. Len(stack) + 1 :
               k \in 1 .. Len(stack) \/ k = Len(stack) + 1
        BY ONLY <1>9
      <3>2. \A k \in DOMAIN stack' : stack'[k] \in Range(stack) \cup {bound[v]}
        BY ONLY <1>9, <3>1 DEF Range
      <3> QED
        BY ONLY <3>2 DEF Range
    <2> QED
      BY ONLY <1>1, <1>3, <1>7, <1>9, <2>1 DEF Memory
  <1>11. StackKnown(y, bound', stack', base', kept')
    <2>1. /\ Len(stack) = base + Len(x.slots)
          /\ \A k \in DOMAIN x.slots : x.slots[k] # "?" => stack[base + k] = bound[x.slots[k]]
      BY ONLY <1>4 DEF StackKnown, SlotsHold
    <2>2. /\ DOMAIN x.slots = 1 .. Len(x.slots) /\ Len(x.slots) \in Nat
          /\ DOMAIN y.slots = 1 .. Len(x.slots) + 1 /\ Len(y.slots) = Len(x.slots) + 1
          /\ y.slots[Len(x.slots) + 1] = v
          /\ \A k \in 1 .. Len(x.slots) : y.slots[k] = x.slots[k]
      BY ONLY <1>2, <1>4, <1>5, AppendFacts, v \in V \cup {"?"}
    <2>3. SlotsHold(y.slots, bound, stack', base)
      <3>1. ASSUME NEW k \in 1 .. Len(x.slots), y.slots[k] # "?"
            PROVE  stack'[base + k] = bound[y.slots[k]]
        <4>1. base + k \in 1 .. Len(stack)
          BY ONLY <1>7, <2>1, <2>2
        <4>2. x.slots[k] # "?" /\ y.slots[k] = x.slots[k] /\ k \in DOMAIN x.slots
          BY ONLY <2>2, <3>1
        <4>3. stack'[base + k] = stack[base + k]
          BY ONLY <1>9, <4>1
        <4> QED
          BY ONLY <2>1, <4>2, <4>3
      <3>2. stack'[base + (Len(x.slots) + 1)] = bound[y.slots[Len(x.slots) + 1]]
        <4>1. base + (Len(x.slots) + 1) = Len(stack) + 1
          BY ONLY <1>7, <2>1, <2>2
        <4> QED
          BY ONLY <1>9, <2>2, <4>1
      <3>3. Len(stack') = base + Len(y.slots)
        <4>1. /\ Len(stack') = Len(stack) + 1 /\ Len(y.slots) = Len(x.slots) + 1
              /\ Len(stack) = base + Len(x.slots)
              /\ base \in Nat /\ Len(x.slots) \in Nat
          BY ONLY <1>7, <1>9, <2>1, <2>2
        <4> QED
          BY ONLY <4>1, SMT
      <3>4. \A k \in DOMAIN y.slots : k \in 1 .. Len(x.slots) \/ k = Len(x.slots) + 1
        BY ONLY <2>2
      <3> QED
        BY ONLY <3>1, <3>2, <3>3, <3>4 DEF SlotsHold
    <2>4. RootsHold(y.rooted, bound, stack', base, kept)
      <3>1. RootsHold(x.rooted, bound, stack, base, kept)
        BY ONLY <1>4 DEF StackKnown
      <3>2. \A k \in 1 .. base : stack'[k] = stack[k]
        BY ONLY <1>7, <1>9, <2>1, <2>2
      <3> QED
        BY ONLY <1>6, <3>1, <3>2 DEF RootsHold
    <2> QED
      BY ONLY <1>1, <2>3, <2>4 DEF StackKnown
  <1>12. HeapKnown(y, bound', refers')
    BY <1>1, <1>6, SameHeap
  <1>13. y.top.height <= Len(y.slots)
    BY ONLY <1>2, <1>4, <1>5, <1>6
  <1> QED
    BY ONLY <1>1, <1>2, <1>4, <1>5, <1>6, <1>10, <1>11, <1>12, <1>13 DEF Reached

LEMMA CutFacts ==
    ASSUME NEW S, NEW s \in Seq(S), NEW n \in 0 .. Len(s)
    PROVE  /\ SubSeq(s, 1, n) \in Seq(S)
           /\ Len(SubSeq(s, 1, n)) = n
           /\ DOMAIN s = 1 .. Len(s) /\ DOMAIN SubSeq(s, 1, n) = 1 .. n
           /\ \A k \in 1 .. n : SubSeq(s, 1, n)[k] = s[k]
           /\ Range(SubSeq(s, 1, n)) \subseteq Range(s)
  <1>1. /\ Len(s) \in Nat /\ DOMAIN s = 1 .. Len(s)
        /\ SubSeq(s, 1, n) \in Seq(S)
        /\ Len(SubSeq(s, 1, n)) = n
        /\ DOMAIN SubSeq(s, 1, n) = 1 .. n
        /\ \A k \in 1 .. n : SubSeq(s, 1, n)[k] = s[k]
    OBVIOUS
  <1>2. Range(SubSeq(s, 1, n)) \subseteq Range(s)
    BY <1>1 DEF Range
  <1> QED
    BY <1>1, <1>2

\* View y has the first m objects of this stage that view x has.
CutTo(y, x, m) ==
    /\ m \in 0 .. Len(x.slots)
    /\ y.slots = SubSeq(x.slots, 1, m)
    /\ y.rooted = x.rooted

\* What is known of a stack when no more than m objects of this stage are left.
LEMMA CutKnown ==
    ASSUME NEW V, NEW x, View(x, V),
           NEW b, NEW st, st \in Seq(Nat), NEW h \in Nat, NEW kp,
           StackKnown(x, b, st, h, kp),
           NEW m, NEW y, CutTo(y, x, m)
    PROVE  /\ h + m \in 0 .. Len(st)
           /\ Len(y.slots) = m
           /\ StackKnown(y, b, SubSeq(st, 1, h + m), h, kp)
  <1> DEFINE cut == SubSeq(st, 1, h + m)
  <1>1. /\ Len(st) = h + Len(x.slots) /\ x.slots \in Seq(V \cup {"?"})
        /\ \A k \in DOMAIN x.slots : x.slots[k] # "?" => st[h + k] = b[x.slots[k]]
    BY DEF StackKnown, SlotsHold, View
  <1>2. Len(x.slots) \in Nat /\ m \in Nat /\ m <= Len(x.slots) /\ h + m \in 0 .. Len(st)
    BY <1>1 DEF CutTo
  <1>3. /\ Len(y.slots) = m
        /\ DOMAIN x.slots = 1 .. Len(x.slots) /\ DOMAIN y.slots = 1 .. m
        /\ \A k \in 1 .. m : y.slots[k] = x.slots[k]
    BY <1>1, CutFacts DEF CutTo
  <1>4. /\ Len(cut) = h + m
        /\ \A k \in 1 .. (h + m) : cut[k] = st[k]
    BY <1>2, CutFacts
  <1>5. SlotsHold(y.slots, b, cut, h)
    <2>1. ASSUME NEW k \in 1 .. m
          PROVE  h + k \in 1 .. (h + m) /\ k \in 1 .. Len(x.slots)
      BY ONLY <1>2, <2>1, h \in Nat
    <2> HIDE DEF cut
    <2> QED
      BY ONLY <1>1, <1>3, <1>4, <2>1 DEF SlotsHold
  <1>6. RootsHold(y.rooted, b, cut, h, kp)
    <2>1. RootsHold(x.rooted, b, st, h, kp) /\ y.rooted = x.rooted
      BY DEF StackKnown, CutTo
    <2>2. \A k \in 1 .. h : k \in 1 .. (h + m)
      BY ONLY <1>2, h \in Nat
    <2> HIDE DEF cut
    <2> QED
      BY ONLY <1>4, <2>1, <2>2 DEF RootsHold
  <1> QED
    BY <1>2, <1>3, <1>5, <1>6 DEF StackKnown

LEMMA UnprotectReached ==
    ASSUME NEW x, Ready(x), StepUnprotect
    PROVE  Reached(x)
  <1> DEFINE V == VariablesOf(scenario)
             y == AfterUnprotect(x, Now)
             m == Len(x.slots) - Now.n
  <1>1. /\ Running /\ Now.do = "unprotect"
        /\ stack' = SubSeq(stack, 1, Len(stack) - Now.n)
        /\ stage' = stage /\ at' = at + 1 /\ error' = error /\ base' = base
        /\ kept' = kept /\ bound' = bound /\ refers' = refers /\ toplevel' = toplevel
    BY DEF StepUnprotect, Is, Step1
  <1>2. /\ Now.n \in Nat /\ Now.n + x.top.height <= Len(x.slots)
        /\ y \in Successors(scenario, x)
    BY <1>1, NowAllowed DEF StepAllowed, Outcomes
  <1>3. /\ View(x, V)
        /\ x.stage = stage /\ x.at = at /\ x.error = error
        /\ x.top \in [height : Nat, behind : Nat]
        /\ toplevel = TopOf(x.top, base)
        /\ StackKnown(x, bound, stack, base, kept)
        /\ Memory(bound, stack, base, kept, refers)
        /\ x.slots \in Seq(V \cup {"?"})
    BY ReadyView
  <1>4. /\ y.at = x.at + 1 /\ y.slots = SubSeq(x.slots, 1, m)
        /\ \A p \in Parts \ {"at", "slots"} : y[p] = x[p]
    <2>1. /\ View(Ahead(x), V) /\ Ahead(x).at = x.at + 1
          /\ \A p \in Parts \ {"at"} : Ahead(x)[p] = x[p]
      BY <1>3, AheadView
    <2> QED
      BY <2>1 DEF AfterUnprotect, View, Parts
  <1>5. m \in 0 .. Len(x.slots) /\ x.top.height <= m /\ x.top.height \in Nat
    BY <1>2, <1>3
  <1> HIDE DEF y, V
  <1>6. /\ y.stage = x.stage /\ y.error = x.error /\ y.top = x.top
        /\ y.rooted = x.rooted /\ y.fields = x.fields /\ y.safe = x.safe
    BY ONLY <1>4 DEF Parts
  <1>7. /\ bound \in [VariablesOf(scenario) -> Nat] /\ stack \in Seq(Nat) /\ base \in Nat
        /\ Heap(refers) /\ Range(stack) \cup kept \subseteq DOMAIN refers \cup {0}
        /\ Apart(bound)
    BY ONLY <1>3 DEF Memory
  <1>8. Len(stack) - Now.n = base + m
    <2>1. Len(stack) = base + Len(x.slots)
      BY ONLY <1>3 DEF StackKnown, SlotsHold
    <2> QED
      BY ONLY <1>2, <1>3, <1>7, <2>1
  <1> HIDE DEF m
  <1>9. /\ base + m \in 0 .. Len(stack)
        /\ Len(y.slots) = m
        /\ StackKnown(y, bound, SubSeq(stack, 1, base + m), base, kept)
    <2>1. View(x, V) /\ StackKnown(x, bound, stack, base, kept)
      BY ONLY <1>3
    <2>2. CutTo(y, x, m)
      BY ONLY <1>4, <1>5, <1>6 DEF CutTo
    <2> QED
      BY ONLY <1>7, <2>1, <2>2, CutKnown
  <1>10. stack' \in Seq(Nat) /\ Range(stack') \subseteq Range(stack)
    BY ONLY <1>1, <1>7, <1>8, <1>9, CutFacts
  <1>11. Memory(bound', stack', base', kept', refers')
    BY ONLY <1>1, <1>7, <1>10 DEF Memory
  <1>12. HeapKnown(y, bound', refers')
    BY <1>1, <1>6, SameHeap
  <1>13. StackKnown(y, bound', stack', base', kept')
    BY ONLY <1>1, <1>8, <1>9
  <1> QED
    BY ONLY <1>1, <1>2, <1>3, <1>4, <1>5, <1>6, <1>9, <1>11, <1>12, <1>13 DEF Reached

LEMMA JumpReached ==
    ASSUME NEW x, Ready(x), Jump
    PROVE  Reached(x)
  <1> DEFINE V == VariablesOf(scenario)
             w == Swept(x, Range(Now.args))
             y == AfterJump(x, Now)
             m == x.top.height
  <1>1. /\ Running /\ Now.do \in {"let", "eval", "try", "else"} /\ Collect
        /\ toplevel # Outside
        /\ stack' = SubSeq(stack, 1, toplevel.height)
        /\ at' = toplevel.behind
        /\ stage' = stage /\ error' = TRUE /\ base' = base
        /\ kept' = kept /\ bound' = bound /\ toplevel' = Outside
    BY DEF Jump, Is
  <1>2. /\ View(x, V)
        /\ x.top \in [height : Nat, behind : Nat]
        /\ x.top.height <= Len(x.slots)
        /\ toplevel = TopOf(x.top, base)
        /\ x.slots \in Seq(V \cup {"?"})
        /\ stack \in Seq(Nat) /\ base \in Nat
    BY ReadyView DEF Memory
  <1>3. /\ x.top # Outside
        /\ toplevel = [height |-> base + m, behind |-> x.top.behind]
    BY <1>1, <1>2 DEF TopOf
  <1>4. y \in Successors(scenario, x)
    BY <1>1, <1>3, NowAllowed DEF Jumps
  <1>5. /\ View(w, V)
        /\ w.stage = stage /\ w.at = at /\ w.error = error
        /\ w.slots = x.slots /\ w.rooted = x.rooted /\ w.top = x.top
        /\ StackKnown(w, bound, stack, base, kept)
        /\ HeapKnown(w, bound, Left(Collected(Arguments), refers))
    BY <1>1, CollectKnown
  <1> HIDE DEF w
  <1>6. /\ y.slots = SubSeq(w.slots, 1, m) /\ y.at = x.top.behind
        /\ y.top = Outside /\ y.error = TRUE
        /\ \A p \in Parts \ {"slots", "at", "top", "error"} : y[p] = w[p]
    BY <1>5 DEF AfterJump, View, Parts, w
  <1> HIDE DEF y, V
  <1>7. /\ y.stage = w.stage /\ y.rooted = w.rooted
        /\ y.fields = w.fields /\ y.safe = w.safe
    BY ONLY <1>6 DEF Parts
  <1>8. m \in 0 .. Len(w.slots)
    BY ONLY <1>2, <1>5
  <1> HIDE DEF m
  <1>9. /\ base + m \in 0 .. Len(stack)
        /\ Len(y.slots) = m
        /\ StackKnown(y, bound, SubSeq(stack, 1, base + m), base, kept)
    <2>1. CutTo(y, w, m)
      BY ONLY <1>6, <1>7, <1>8 DEF CutTo
    <2> QED
      BY ONLY <1>2, <1>5, <2>1, CutKnown
  <1>10. /\ stack' = SubSeq(stack, 1, base + m) /\ at' = x.top.behind
    BY ONLY <1>1, <1>3
  <1>11. stack' \in Seq(Nat) /\ Range(stack') \subseteq Range(stack)
    BY ONLY <1>2, <1>9, <1>10, CutFacts
  <1>12. /\ refers' = Left(Collected(Arguments), refers)
         /\ Memory(bound, stack, base, kept, refers')
    BY <1>1, CollectFacts
  <1>13. Memory(bound', stack', base', kept', refers')
    BY ONLY <1>1, <1>11, <1>12 DEF Memory
  <1>14. HeapKnown(y, bound', refers')
    BY ONLY <1>1, <1>5, <1>7, <1>12 DEF HeapKnown
  <1>15. toplevel' = TopOf(y.top, base') /\ y.top.height <= Len(y.slots)
    BY ONLY <1>1, <1>6, <1>8, <1>9 DEF TopOf, Outside
  <1> QED
    BY ONLY <1>1, <1>4, <1>5, <1>6, <1>7, <1>9, <1>10, <1>13, <1>14, <1>15 DEF Reached

LEMMA PreserveReached ==
    ASSUME NEW x, Ready(x), StepPreserve
    PROVE  Reached(x)
  <1> DEFINE V == VariablesOf(scenario)
             v == Now.v
             w == Swept(x, Range(Now.args))
             y == AfterPreserve(x, Now)
  <1>1. /\ Running /\ Now.do = "preserve" /\ Collect
        /\ kept' = kept \cup {bound[v]}
        /\ stage' = stage /\ at' = at + 1 /\ error' = error /\ base' = base
        /\ stack' = stack /\ bound' = bound /\ toplevel' = toplevel
    BY DEF StepPreserve, Is, Step1
  <1>2. v \in V /\ v \in Range(Now.args) /\ y \in Successors(scenario, x)
    BY <1>1, NowAllowed DEF Outcomes
  <1>3. /\ x.top.height <= Len(x.slots)
        /\ toplevel = TopOf(x.top, base)
    BY ReadyView
  <1>4. /\ View(w, V)
        /\ w.stage = stage /\ w.at = at /\ w.error = error
        /\ w.slots = x.slots /\ w.rooted = x.rooted /\ w.top = x.top
        /\ StackKnown(w, bound, stack, base, kept)
        /\ HeapKnown(w, bound, Left(Collected(Arguments), refers))
    BY <1>1, CollectKnown
  <1>5. /\ refers' = Left(Collected(Arguments), refers)
        /\ Memory(bound, stack, base, kept, refers')
        /\ bound[v] \in DOMAIN refers' \cup {0}
    BY <1>1, <1>2, CollectFacts DEF Arguments
  <1> HIDE DEF w
  <1>6. /\ y.at = w.at + 1 /\ y.rooted = w.rooted \cup {v}
        /\ \A p \in Parts \ {"at", "rooted"} : y[p] = w[p]
    <2>1. /\ View(Ahead(w), V) /\ Ahead(w).at = w.at + 1
          /\ \A p \in Parts \ {"at"} : Ahead(w)[p] = w[p]
      BY <1>4, AheadView
    <2> QED
      BY <2>1 DEF AfterPreserve, View, Parts, w
  <1> HIDE DEF y, v, V
  <1>7. /\ y.stage = w.stage /\ y.error = w.error /\ y.top = w.top
        /\ y.slots = w.slots /\ y.fields = w.fields /\ y.safe = w.safe
    BY ONLY <1>6 DEF Parts
  <1>8. Memory(bound', stack', base', kept', refers')
    BY ONLY <1>1, <1>5 DEF Memory
  <1>9. HeapKnown(y, bound', refers')
    BY ONLY <1>1, <1>4, <1>5, <1>7 DEF HeapKnown
  <1>10. StackKnown(y, bound', stack', base', kept')
    BY ONLY <1>1, <1>4, <1>6, <1>7 DEF StackKnown, RootsHold
  <1> QED
    BY ONLY <1>1, <1>2, <1>3, <1>4, <1>6, <1>7, <1>8, <1>9, <1>10 DEF Reached

LEMMA AttachReached ==
    ASSUME NEW x, Ready(x), StepAttach
    PROVE  Reached(x)
  <1> DEFINE V == VariablesOf(scenario)
             c == Now.v
             e == Now.args[2]
             n == Now.n
             Changed(t) == IF t.n # n THEN t.is
                           ELSE IF t.of = c THEN e
                           ELSE IF {t.of, c} \subseteq Owners(scenario) THEN t.is
                           ELSE "?"
             After(t) == [t EXCEPT !.is = Changed(t)]
             y == AfterAttach(scenario, x, Now)
  <1>1. /\ Running /\ Now.do = "attach"
        /\ refers' = [o \in DOMAIN refers |->
                         IF o = bound[c] THEN [refers[o] EXCEPT ![n] = bound[e]]
                         ELSE refers[o]]
        /\ stage' = stage /\ at' = at + 1 /\ error' = error /\ base' = base
        /\ stack' = stack /\ kept' = kept /\ bound' = bound /\ toplevel' = toplevel
    BY DEF StepAttach, Is, Step1
  <1>2. /\ c \in V /\ 2 \in DOMAIN Now.args /\ e \in V /\ e \in Range(Now.args)
        /\ y \in Successors(scenario, x)
    BY <1>1, NowAllowed DEF Outcomes, Range
  <1>3. bound[e] \in DOMAIN refers \cup {0}
    BY <1>1, <1>2, ArgumentsSurvive DEF Arguments
  <1>4. /\ View(x, V)
        /\ x.stage = stage /\ x.at = at /\ x.error = error
        /\ x.top.height <= Len(x.slots)
        /\ toplevel = TopOf(x.top, base)
        /\ HeapKnown(x, bound, refers)
        /\ Memory(bound, stack, base, kept, refers)
    BY ReadyView
  <1>5. /\ y.at = x.at + 1 /\ y.fields = {After(t) : t \in x.fields}
        /\ \A p \in Parts \ {"at", "fields"} : y[p] = x[p]
    <2>1. /\ View(Ahead(x), V) /\ Ahead(x).at = x.at + 1
          /\ \A p \in Parts \ {"at"} : Ahead(x)[p] = x[p]
      BY <1>4, AheadView
    <2> QED
      BY <2>1 DEF AfterAttach, View, Parts
  <1>6. ASSUME NEW t \in x.fields
        PROVE  After(t).of = t.of /\ After(t).n = t.n /\ After(t).is = Changed(t)
    <2>1. t \in Field(V)
      BY <1>4 DEF View
    <2>2. Changed(t) \in V \cup {"?"}
      BY <1>2, <2>1 DEF Field
    <2> HIDE DEF Changed
    <2> QED
      BY ONLY <2>1, <2>2, FieldChanged
  <1>7. /\ bound \in [V -> Nat] /\ stack \in Seq(Nat) /\ base \in Nat
        /\ Heap(refers) /\ Range(stack) \cup kept \subseteq DOMAIN refers \cup {0}
        /\ Apart(bound)
    BY <1>4 DEF Memory
  <1> HIDE DEF y, After
  <1>8. /\ y.stage = x.stage /\ y.error = x.error /\ y.top = x.top
        /\ y.slots = x.slots /\ y.rooted = x.rooted /\ y.safe = x.safe
    BY ONLY <1>5 DEF Parts
  <1>9. /\ DOMAIN refers' = DOMAIN refers
        /\ \A o \in DOMAIN refers :
              /\ DOMAIN refers'[o] = DOMAIN refers[o]
              /\ \A k \in DOMAIN refers[o] :
                    refers'[o][k] = IF o = bound[c] /\ k = n THEN bound[e] ELSE refers[o][k]
    <2> HIDE DEF c, e, n
    <2> QED
      BY ONLY <1>1
  <1>10. Heap(refers')
    <2> HIDE DEF c, e, n
    <2>1. \A o \in DOMAIN refers : Range(refers'[o]) \subseteq Range(refers[o]) \cup {bound[e]}
      BY ONLY <1>9 DEF Range
    <2> QED
      BY ONLY <1>3, <1>7, <1>9, <2>1 DEF Heap
  <1>11. Memory(bound', stack', base', kept', refers')
    BY ONLY <1>1, <1>7, <1>9, <1>10 DEF Memory
  <1>12. FieldsHold(y.fields, bound, refers')
    <2>1. \A t \in x.fields :
             /\ bound[t.of] \in DOMAIN refers
             /\ t.n \in DOMAIN refers[bound[t.of]]
             /\ t.is # "?" => refers[bound[t.of]][t.n] = bound[t.is]
      BY <1>4 DEF HeapKnown, FieldsHold
    <2>2. ASSUME NEW t \in x.fields, Changed(t) # "?"
          PROVE  refers'[bound[t.of]][t.n] = bound[Changed(t)]
      <3>1. CASE t.n # n
        BY <1>9, <2>1, <2>2, <3>1
      <3>2. CASE t.n = n /\ t.of = c
        BY <1>9, <2>1, <2>2, <3>2
      <3>3. CASE t.n = n /\ t.of # c
        <4>1. {t.of, c} \subseteq Owners(scenario) /\ Changed(t) = t.is
          BY <2>2, <3>3
        <4>2. bound[t.of] # bound[c]
          <5>1. bound[t.of] # 0
            BY <1>7, <2>1, ProtectionAssumption DEF Heap
          <5> QED
            BY <1>7, <3>3, <4>1, <5>1 DEF Apart
        <4> QED
          BY <1>9, <2>1, <2>2, <4>1, <4>2
      <3> QED
        BY <3>1, <3>2, <3>3
    <2> HIDE DEF Changed
    <2>3. ASSUME NEW t \in x.fields
          PROVE  /\ bound[After(t).of] \in DOMAIN refers'
                 /\ After(t).n \in DOMAIN refers'[bound[After(t).of]]
                 /\ After(t).is # "?" =>
                       refers'[bound[After(t).of]][After(t).n] = bound[After(t).is]
      BY ONLY <1>6, <1>9, <2>1, <2>2, <2>3
    <2> QED
      BY ONLY <1>5, <2>3 DEF FieldsHold
  <1>13. HeapKnown(y, bound', refers')
    <2>1. SafeHold(x.safe, bound, refers)
      BY <1>4 DEF HeapKnown
    <2> QED
      BY ONLY <1>1, <1>8, <1>9, <1>12, <2>1 DEF HeapKnown, SafeHold
  <1>14. StackKnown(y, bound', stack', base', kept')
    BY <1>1, <1>8, SameStack
  <1> QED
    BY ONLY <1>1, <1>2, <1>4, <1>5, <1>8, <1>11, <1>13, <1>14 DEF Reached

LEMMA GetReached ==
    ASSUME NEW x, Ready(x), StepGet
    PROVE  Reached(x)
  <1> DEFINE V == VariablesOf(scenario)
             v == Now.v
             c == Now.args[1]
             n == Now.n
             a == refers[bound[c]][n]
             z == Ahead(Safely(Assigned(x, v), v))
             Changed(t) == IF t.of = c /\ t.n = n THEN v ELSE t.is
             After(t) == [t EXCEPT !.is = Changed(t)]
             y == AfterGet(x, Now)
  <1>1. /\ Running /\ Now.do = "get"
        /\ bound' = [bound EXCEPT ![v] = a]
        /\ stage' = stage /\ at' = at + 1 /\ error' = error /\ base' = base
        /\ stack' = stack /\ kept' = kept /\ refers' = refers /\ toplevel' = toplevel
    BY DEF StepGet, Is, Step1
  <1>2. /\ v \in V /\ c \in V /\ c # v
        /\ \E t \in x.fields : t.of = c /\ t.n = n
        /\ y \in Successors(scenario, x)
        /\ v \notin Owners(scenario)
    <2>1. /\ v \in V /\ 1 \in DOMAIN Now.args /\ Now.args \in Seq(V)
          /\ StepAllowed(x, Now) /\ y \in Successors(scenario, x)
      BY <1>1, NowAllowed DEF Outcomes
    <2>2. c \in V /\ c \in Range(Now.args)
      BY <2>1 DEF Range
    <2>3. v \notin Range(Now.args) /\ \E t \in x.fields : t.of = c /\ t.n = n
      BY <1>1, <2>1 DEF StepAllowed
    <2>4. v \notin Owners(scenario)
      BY <1>1, OwnersNow
    <2> QED
      BY <2>1, <2>2, <2>3, <2>4
  <1>3. /\ View(x, V)
        /\ x.stage = stage /\ x.at = at /\ x.error = error
        /\ x.top.height <= Len(x.slots)
        /\ toplevel = TopOf(x.top, base)
        /\ StackKnown(x, bound, stack, base, kept)
        /\ HeapKnown(x, bound, refers)
        /\ Memory(bound, stack, base, kept, refers)
    BY ReadyView
  <1>4. /\ bound \in [V -> Nat] /\ stack \in Seq(Nat) /\ base \in Nat
        /\ Heap(refers) /\ Range(stack) \cup kept \subseteq DOMAIN refers \cup {0}
        /\ Apart(bound)
    BY <1>3 DEF Memory
  <1>5. a \in DOMAIN refers \cup {0}
    <2>1. bound[c] \in DOMAIN refers /\ n \in DOMAIN refers[bound[c]]
      BY <1>2, <1>3 DEF HeapKnown, FieldsHold
    <2>2. a \in Range(refers[bound[c]])
      BY <2>1 DEF Range
    <2> QED
      BY <1>4, <2>1, <2>2 DEF Heap
  <1>6. Follows(z, x, V, bound', stack, base, kept, refers)
    <2> HIDE DEF v, V, a
    <2> QED
      BY ONLY <1>1, <1>2, <1>3, <1>4, <1>5, GivenKnown, DOMAIN bound = V
  <1>7. /\ y.fields = {After(t) : t \in z.fields}
        /\ \A p \in Parts \ {"fields"} : y[p] = z[p]
    <2>1. z = [p \in Parts |-> z[p]]
      BY ONLY <1>6 DEF Follows, View
    <2>2. y = [z EXCEPT !.fields = {After(t) : t \in @}]
      BY DEF AfterGet
    <2> HIDE DEF y, z, After
    <2> QED
      BY ONLY <2>1, <2>2 DEF Parts
  <1> HIDE DEF y, z
  <1>8. ASSUME NEW t \in z.fields
        PROVE  After(t).of = t.of /\ After(t).n = t.n /\ After(t).is = Changed(t)
    <2>1. t \in Field(V)
      BY <1>6 DEF View, Follows
    <2>2. Changed(t) \in V \cup {"?"}
      BY <1>2, <2>1 DEF Field
    <2> HIDE DEF Changed
    <2> QED
      BY ONLY <2>1, <2>2, FieldChanged
  <1> HIDE DEF After
  <1>9. /\ y.stage = z.stage /\ y.at = z.at /\ y.error = z.error /\ y.top = z.top
        /\ y.slots = z.slots /\ y.rooted = z.rooted /\ y.safe = z.safe
    BY ONLY <1>7 DEF Parts
  <1>10. FieldsHold(y.fields, bound', refers)
    <2>1. \A t \in z.fields :
             /\ bound'[t.of] \in DOMAIN refers
             /\ t.n \in DOMAIN refers[bound'[t.of]]
             /\ t.is # "?" => refers[bound'[t.of]][t.n] = bound'[t.is]
      BY <1>6 DEF Follows, HeapKnown, FieldsHold
    <2>2. bound'[c] = bound[c] /\ bound'[v] = a
      BY <1>1, <1>2, <1>4
    <2>3. ASSUME NEW t \in z.fields, Changed(t) # "?"
          PROVE  refers[bound'[t.of]][t.n] = bound'[Changed(t)]
      <3>1. CASE t.of = c /\ t.n = n
        BY <2>2, <3>1
      <3>2. CASE ~ (t.of = c /\ t.n = n)
        BY <2>1, <2>3, <3>2
      <3> QED
        BY <3>1, <3>2
    <2> HIDE DEF Changed
    <2>4. ASSUME NEW t \in z.fields
          PROVE  /\ bound'[After(t).of] \in DOMAIN refers
                 /\ After(t).n \in DOMAIN refers[bound'[After(t).of]]
                 /\ After(t).is # "?" =>
                       refers[bound'[After(t).of]][After(t).n] = bound'[After(t).is]
      BY ONLY <1>8, <2>1, <2>3, <2>4
    <2> QED
      BY ONLY <1>7, <2>4 DEF FieldsHold
  <1>11. Memory(bound', stack', base', kept', refers')
    <2> HIDE DEF a
    <2>1. a \in Nat
      BY <1>4, <1>5, ProtectionAssumption DEF Heap
    <2>2. Owners(scenario) \subseteq VariablesOf(scenario)
      BY DEF Owners
    <2>3. bound' \in [V -> Nat] /\ \A w \in Owners(scenario) : bound'[w] = bound[w]
      BY ONLY <1>1, <1>2, <1>4, <2>1, <2>2
    <2>4. Apart(bound')
      <3>1. Apart(bound)
        BY ONLY <1>4
      <3> QED
        BY ONLY <2>3, <3>1 DEF Apart
    <2> QED
      BY ONLY <1>1, <1>4, <2>3, <2>4 DEF Memory
  <1>12. HeapKnown(y, bound', refers')
    <2>1. HeapKnown(z, bound', refers)
      BY ONLY <1>6 DEF Follows
    <2>2. SafeHold(z.safe, bound', refers)
      BY ONLY <2>1 DEF HeapKnown
    <2> QED
      BY ONLY <1>1, <1>9, <1>10, <2>2 DEF HeapKnown
  <1>13. StackKnown(y, bound', stack', base', kept')
    BY ONLY <1>1, <1>6, <1>9 DEF StackKnown, Follows
  <1>14. /\ y.stage = stage' /\ y.at = at' /\ y.error = error'
         /\ y.top.height <= Len(y.slots) /\ toplevel' = TopOf(y.top, base')
    BY ONLY <1>1, <1>3, <1>6, <1>9 DEF Follows
  <1> QED
    BY ONLY <1>2, <1>11, <1>12, <1>13, <1>14 DEF Reached

-----------------------------------------------------------------------------
(* Steps that touch neither stack nor heap *)

LEMMA OnlyControl ==
    ASSUME NEW x, Ready(x), UNCHANGED <<stack, base, kept, bound, refers>>,
           NEW y \in Successors(scenario, x),
           \A p \in {"slots", "rooted", "fields", "safe"} : y[p] = x[p],
           y.stage = stage', y.at = at', y.error = error',
           y.top.height <= Len(x.slots), toplevel' = TopOf(y.top, base)
    PROVE  Reached(x)
  <1>1. /\ y.slots = x.slots /\ y.rooted = x.rooted
        /\ y.fields = x.fields /\ y.safe = x.safe
    OBVIOUS
  <1>2. StackKnown(y, bound', stack', base', kept') /\ HeapKnown(y, bound', refers')
    BY <1>1, SameStack, SameHeap
  <1>3. Memory(bound', stack', base', kept', refers')
    BY DEF Ready
  <1> QED
    BY <1>1, <1>2, <1>3 DEF Reached

LEMMA UseReached ==
    ASSUME NEW x, Ready(x), StepUse
    PROVE  Reached(x)
  <1> DEFINE y == Ahead(x)
  <1>1. /\ Running /\ Now.do = "use"
        /\ stage' = stage /\ at' = at + 1 /\ error' = error /\ toplevel' = toplevel
        /\ UNCHANGED <<stack, base, kept, bound, refers>>
    BY DEF StepUse, Is, Step1, heap
  <1>2. y \in Successors(scenario, x)
    BY <1>1, NowAllowed DEF Outcomes
  <1>3. /\ View(x, VariablesOf(scenario))
        /\ x.stage = stage /\ x.at = at /\ x.error = error
        /\ x.top.height <= Len(x.slots)
        /\ toplevel = TopOf(x.top, base)
    BY ReadyView
  <1>4. y.at = x.at + 1 /\ \A p \in Parts \ {"at"} : y[p] = x[p]
    BY <1>3, AheadView
  <1> HIDE DEF y
  <1>5. /\ y.stage = x.stage /\ y.error = x.error /\ y.top = x.top
        /\ \A p \in {"slots", "rooted", "fields", "safe"} : y[p] = x[p]
    BY ONLY <1>4 DEF Parts
  <1> QED
    BY <1>1, <1>2, <1>3, <1>4, <1>5, OnlyControl

LEMMA CheckReached ==
    ASSUME NEW x, Ready(x), StepCheck
    PROVE  Reached(x)
  <1> DEFINE y == [Ahead(x) EXCEPT !.error = error']
  <1>1. /\ Running /\ Now.do = "check" /\ error' \in BOOLEAN
        /\ stage' = stage /\ at' = at + 1 /\ toplevel' = toplevel
        /\ UNCHANGED <<stack, base, kept, bound, refers>>
    BY DEF StepCheck, Is, Step1, heap
  <1>2. y \in Successors(scenario, x)
    BY <1>1, NowAllowed DEF Outcomes, AfterCheck
  <1>3. /\ View(x, VariablesOf(scenario))
        /\ x.stage = stage /\ x.at = at
        /\ x.top.height <= Len(x.slots)
        /\ toplevel = TopOf(x.top, base)
    BY ReadyView
  <1>4. /\ y.at = x.at + 1 /\ y.error = error'
        /\ \A p \in Parts \ {"at", "error"} : y[p] = x[p]
    <2>1. /\ View(Ahead(x), VariablesOf(scenario)) /\ Ahead(x).at = x.at + 1
          /\ \A p \in Parts \ {"at"} : Ahead(x)[p] = x[p]
      BY <1>3, AheadView
    <2> QED
      BY <2>1 DEF View, Parts
  <1> HIDE DEF y
  <1>5. /\ y.stage = x.stage /\ y.top = x.top
        /\ \A p \in {"slots", "rooted", "fields", "safe"} : y[p] = x[p]
    BY ONLY <1>4 DEF Parts
  <1> QED
    BY <1>1, <1>2, <1>3, <1>4, <1>5, OnlyControl

LEMMA IfReached ==
    ASSUME NEW x, Ready(x), StepIf
    PROVE  Reached(x)
  <1> DEFINE y == AfterIf(x, Now)
  <1>1. /\ Running /\ Now.do \in {"if ok", "if error"}
        /\ at' = IF (Now.do = "if error") = error THEN at + 1 ELSE at + Now.n + 1
        /\ stage' = stage /\ error' = error /\ toplevel' = toplevel
        /\ UNCHANGED <<stack, base, kept, bound, refers>>
    BY DEF StepIf, Is, heap
  <1>2. y \in Successors(scenario, x)
    BY <1>1, NowAllowed DEF Outcomes
  <1>3. /\ View(x, VariablesOf(scenario))
        /\ x.stage = stage /\ x.at = at /\ x.error = error
        /\ x.top.height <= Len(x.slots)
        /\ toplevel = TopOf(x.top, base)
    BY ReadyView
  <1>4. y.at = at' /\ \A p \in Parts \ {"at"} : y[p] = x[p]
    <2>1. Ahead(x).at = x.at + 1 /\ \A p \in Parts \ {"at"} : Ahead(x)[p] = x[p]
      BY <1>3, AheadView
    <2>2. CASE (Now.do = "if error") = error
      BY <1>1, <1>3, <2>1, <2>2 DEF AfterIf
    <2>3. CASE (Now.do = "if error") # error
      BY <1>1, <1>3, <2>3 DEF AfterIf, View, Parts
    <2> QED
      BY <2>2, <2>3
  <1> HIDE DEF y
  <1>5. /\ y.stage = x.stage /\ y.error = x.error /\ y.top = x.top
        /\ \A p \in {"slots", "rooted", "fields", "safe"} : y[p] = x[p]
    BY ONLY <1>4 DEF Parts
  <1> QED
    BY <1>1, <1>2, <1>3, <1>4, <1>5, OnlyControl

LEMMA EnterReached ==
    ASSUME NEW x, Ready(x), Enter
    PROVE  Reached(x)
  <1> DEFINE y == AfterEnter(x, Now)
             top == [height |-> Len(x.slots), behind |-> x.at + Now.n + 2]
  <1>1. /\ Running /\ Now.do = "enter"
        /\ toplevel' = [height |-> Len(stack), behind |-> at + Now.n + 2]
        /\ stage' = stage /\ at' = at + 1 /\ error' = FALSE
        /\ UNCHANGED <<stack, base, kept, bound, refers>>
    BY DEF Enter, Is, Step1, heap
  <1>2. y \in Successors(scenario, x) /\ Now.n \in Nat
    BY <1>1, NowAllowed DEF Outcomes
  <1>3. /\ View(x, VariablesOf(scenario))
        /\ x.stage = stage /\ x.at = at /\ at \in Nat
        /\ StackKnown(x, bound, stack, base, kept)
        /\ x.slots \in Seq(VariablesOf(scenario) \cup {"?"})
    BY ReadyView
  <1>4. /\ y.at = x.at + 1 /\ y.error = FALSE /\ y.top = top
        /\ \A p \in Parts \ {"at", "error", "top"} : y[p] = x[p]
    <2>1. /\ View(Ahead(x), VariablesOf(scenario)) /\ Ahead(x).at = x.at + 1
          /\ \A p \in Parts \ {"at"} : Ahead(x)[p] = x[p]
      BY <1>3, AheadView
    <2> HIDE DEF top
    <2>2. y = [Ahead(x) EXCEPT !.top = top, !.error = FALSE]
      BY DEF AfterEnter, top
    <2> QED
      BY ONLY <2>1, <2>2 DEF View, Parts
  <1>5. top # Outside
    BY <1>2, <1>3 DEF Outside
  <1>6. toplevel' = TopOf(top, base) /\ top.height <= Len(x.slots)
    <2>1. Len(stack) = base + Len(x.slots) /\ Len(x.slots) \in Nat
      BY <1>3 DEF StackKnown, SlotsHold
    <2> QED
      BY <1>1, <1>3, <1>5, <2>1 DEF TopOf
  <1> HIDE DEF y, top
  <1>7. /\ y.stage = x.stage
        /\ \A p \in {"slots", "rooted", "fields", "safe"} : y[p] = x[p]
    <2>1. \A p \in Parts : p \notin {"at", "error", "top"} => y[p] = x[p]
      BY ONLY <1>4
    <2>2. {"stage", "slots", "rooted", "fields", "safe"} \subseteq Parts
      BY DEF Parts
    <2> QED
      BY ONLY <2>1, <2>2
  <1> QED
    BY <1>1, <1>2, <1>3, <1>4, <1>6, <1>7, OnlyControl

LEMMA LeaveReached ==
    ASSUME NEW x, Ready(x), Leave
    PROVE  Reached(x)
  <1> DEFINE y == AfterLeave(x)
  <1>1. /\ Running /\ Now.do = "leave"
        /\ toplevel' = Outside
        /\ stage' = stage /\ at' = at + 1 /\ error' = FALSE
        /\ UNCHANGED <<stack, base, kept, bound, refers>>
    BY DEF Leave, Is, Step1, heap
  <1>2. y \in Successors(scenario, x)
    BY <1>1, NowAllowed DEF Outcomes
  <1>3. /\ View(x, VariablesOf(scenario))
        /\ x.stage = stage /\ x.at = at
        /\ x.slots \in Seq(VariablesOf(scenario) \cup {"?"})
    BY ReadyView
  <1>4. /\ y.at = x.at + 1 /\ y.error = FALSE /\ y.top = Outside
        /\ \A p \in Parts \ {"at", "error", "top"} : y[p] = x[p]
    <2>1. /\ View(Ahead(x), VariablesOf(scenario)) /\ Ahead(x).at = x.at + 1
          /\ \A p \in Parts \ {"at"} : Ahead(x)[p] = x[p]
      BY <1>3, AheadView
    <2>2. y = [Ahead(x) EXCEPT !.top = Outside, !.error = FALSE]
      BY DEF AfterLeave
    <2> QED
      BY ONLY <2>1, <2>2 DEF View, Parts
  <1>5. toplevel' = TopOf(y.top, base) /\ y.top.height <= Len(x.slots)
    BY <1>1, <1>3, <1>4 DEF TopOf, Outside
  <1> HIDE DEF y
  <1>6. /\ y.stage = x.stage
        /\ \A p \in {"slots", "rooted", "fields", "safe"} : y[p] = x[p]
    BY ONLY <1>4 DEF Parts
  <1> QED
    BY <1>1, <1>2, <1>3, <1>4, <1>5, <1>6, OnlyControl

LEMMA InputReached ==
    ASSUME NEW x, Ready(x), NextInput
    PROVE  Reached(x)
  <1> DEFINE V == VariablesOf(scenario)
             statics == Program[scenario].statics
             lasting == Roots(x) \cap statics
             Changed(t) == IF t.is \in lasting THEN t.is ELSE "?"
             After(t) == [t EXCEPT !.is = Changed(t)]
             y == AfterInput(scenario, x)
  <1>1. /\ ~ Running
        /\ bound' = [v \in DOMAIN bound |-> IF v \in statics THEN bound[v] ELSE 0]
        /\ stage' = 2 /\ at' = 1 /\ error' = error /\ base' = Len(stack)
        /\ stack' = stack /\ kept' = kept /\ refers' = refers /\ toplevel' = toplevel
    BY DEF NextInput
  <1>2. /\ View(x, V)
        /\ x.stage = stage /\ x.at = at /\ x.error = error
        /\ toplevel = TopOf(x.top, base)
        /\ StackKnown(x, bound, stack, base, kept)
        /\ HeapKnown(x, bound, refers)
        /\ Memory(bound, stack, base, kept, refers)
    BY ReadyView
  <1>3. Ended(scenario, x) /\ x.top = Outside /\ statics \subseteq Roots(x)
    <2>1. Ended(scenario, x)
      BY <1>1, <1>2 DEF Ended, Running, Code
    <2> QED
      BY <2>1 DEF Ready, Allowed, EndAllowed
  <1>4. y \in Successors(scenario, x)
    BY <1>3 DEF Successors
  <1>5. /\ bound \in [V -> Nat] /\ stack \in Seq(Nat) /\ base \in Nat
        /\ Heap(refers) /\ Range(stack) \cup kept \subseteq DOMAIN refers \cup {0}
        /\ Apart(bound)
    BY ONLY <1>2 DEF Memory
  <1>6. /\ y.stage = 2 /\ y.at = 1 /\ y.slots = <<>>
        /\ y.rooted = lasting \cup {"nil"} /\ y.safe = lasting \cup {"nil"}
        /\ y.fields = {After(t) : t \in {t \in x.fields : t.of \in lasting}}
        /\ y.error = x.error /\ y.top = x.top
    BY <1>2 DEF AfterInput, View, Parts
  <1>7. ASSUME NEW t \in x.fields
        PROVE  After(t).of = t.of /\ After(t).n = t.n /\ After(t).is = Changed(t)
    <2>1. t \in Field(V)
      BY <1>2 DEF View
    <2>2. Changed(t) \in V \cup {"?"}
      BY <2>1 DEF Field
    <2> HIDE DEF Changed
    <2> QED
      BY ONLY <2>1, <2>2, FieldChanged
  <1> HIDE DEF y, After
  <1>8. /\ lasting \subseteq V /\ "nil" \in V
        /\ \A v \in lasting : bound'[v] = bound[v]
        /\ bound'["nil"] = 0 \/ "nil" \in lasting
    <2>1. Roots(x) \subseteq V /\ "nil" \in V
      BY <1>2, RootsView DEF VariablesOf
    <2>2. DOMAIN bound = V
      BY <1>5
    <2> HIDE DEF V
    <2> QED
      BY <1>1, <1>3, <2>1, <2>2
  <1>9. \A v \in lasting : bound[v] \in Range(stack) \cup kept \cup {0}
    BY <1>2, <1>5, RootsFound
  <1> HIDE DEF lasting, statics, V
  <1>10. StackKnown(y, bound', stack', base', kept')
    <2>1. SlotsHold(<<>>, bound', stack, Len(stack))
      BY <1>5 DEF SlotsHold
    <2>2. \A o \in Range(stack) : \E k \in 1 .. Len(stack) : o = stack[k]
      BY <1>5 DEF Range
    <2>3. RootsHold(lasting \cup {"nil"}, bound', stack, Len(stack), kept)
      BY ONLY <1>8, <1>9, <2>2 DEF RootsHold
    <2> QED
      BY ONLY <1>1, <1>6, <2>1, <2>3 DEF StackKnown
  <1>11. FieldsHold(y.fields, bound', refers)
    <2>1. \A t \in x.fields :
             /\ bound[t.of] \in DOMAIN refers
             /\ t.n \in DOMAIN refers[bound[t.of]]
             /\ t.is # "?" => refers[bound[t.of]][t.n] = bound[t.is]
      BY ONLY <1>2 DEF HeapKnown, FieldsHold
    <2>2. ASSUME NEW t \in x.fields, t.of \in lasting
          PROVE  /\ bound'[After(t).of] \in DOMAIN refers
                 /\ After(t).n \in DOMAIN refers[bound'[After(t).of]]
                 /\ After(t).is # "?" =>
                       refers[bound'[After(t).of]][After(t).n] = bound'[After(t).is]
      BY ONLY <1>7, <1>8, <2>1, <2>2
    <2> QED
      BY ONLY <1>6, <2>2 DEF FieldsHold
  <1>12. HeapKnown(y, bound', refers')
    <2>1. SafeHold(lasting \cup {"nil"}, bound', refers)
      BY ONLY <1>5, <1>8, <1>9 DEF SafeHold
    <2> QED
      BY ONLY <1>1, <1>6, <1>11, <2>1 DEF HeapKnown
  <1>13. Memory(bound', stack', base', kept', refers')
    <2>1. bound' \in [V -> Nat]
      BY ONLY <1>1, <1>5
    <2>2. Apart(bound')
      <3>1. Owners(scenario) \subseteq V
        BY DEF Owners, V
      <3> QED
        BY ONLY <1>1, <1>5, <3>1 DEF Apart
    <2>3. Len(stack) \in Nat
      BY ONLY <1>5
    <2> QED
      BY ONLY <1>1, <1>5, <2>1, <2>2, <2>3 DEF Memory, V
  <1>14. toplevel' = TopOf(y.top, base') /\ y.top.height <= Len(y.slots)
    BY ONLY <1>1, <1>2, <1>3, <1>6 DEF TopOf, Outside
  <1> QED
    BY ONLY <1>1, <1>2, <1>4, <1>6, <1>10, <1>12, <1>13, <1>14 DEF Reached

-----------------------------------------------------------------------------
(* The invariant and what follows from it *)

\* What the check says of the views that it has seen.
LEMMA SeenAccepted ==
    ASSUME scenario \in Scenarios
    PROVE  /\ Start \in Views(scenario)
           /\ \A x \in Views(scenario) :
                 /\ x \in ViewsOf(scenario)
                 /\ Allowed(scenario, x)
                 /\ Successors(scenario, x) \subseteq Views(scenario)
  BY RoutinesAccepted DEF Accepted

LEMMA IInvReady ==
    ASSUME IInv
    PROVE  \E x \in Views(scenario) : Ready(x)
  BY SeenAccepted DEF IInv, Ready

LEMMA InitIInv == Init => IInv
  <1> SUFFICES ASSUME Init
               PROVE  IInv
    OBVIOUS
  <1>1. /\ scenario \in Scenarios /\ stage = 1 /\ at = 1 /\ error = FALSE
        /\ stack = <<>> /\ base = 0 /\ kept = {} /\ refers = <<>> /\ toplevel = Outside
        /\ bound = [v \in VariablesOf(scenario) |-> 0]
    BY DEF Init
  <1>2. "nil" \in VariablesOf(scenario)
    BY DEF VariablesOf
  <1>3. /\ DOMAIN refers = {} /\ Range(stack) = {}
    BY <1>1 DEF Range
  <1>4. Memory(bound, stack, base, kept, refers)
    BY <1>1, <1>3 DEF Memory, Heap, Apart, Owners
  <1>5. /\ Start.stage = 1 /\ Start.at = 1 /\ Start.error = FALSE /\ Start.slots = <<>>
        /\ Start.top = Outside /\ Start.rooted = {"nil"} /\ Start.fields = {}
        /\ Start.safe = {"nil"}
    BY DEF Start
  <1>6. StackKnown(Start, bound, stack, base, kept)
    BY <1>1, <1>2, <1>5 DEF StackKnown, SlotsHold, RootsHold
  <1>7. HeapKnown(Start, bound, refers)
    BY <1>1, <1>2, <1>5 DEF HeapKnown, FieldsHold, SafeHold
  <1>8. Describes(Start)
    <2>1. Start.top.height <= Len(Start.slots)
      BY ONLY <1>5 DEF Outside
    <2>2. toplevel = TopOf(Start.top, base)
      BY ONLY <1>1, <1>5 DEF TopOf
    <2> QED
      BY ONLY <1>1, <1>5, <1>6, <1>7, <2>1, <2>2 DEF Describes
  <1> QED
    BY <1>1, <1>4, <1>8, SeenAccepted DEF IInv

\* Whatever step is taken, one of the successors of a view that is ready
\* describes what it leads to.
LEMMA NextReached ==
    ASSUME NEW x, Ready(x), Next
    PROVE  Reached(x)
  <1>1. CASE StepLet BY <1>1, LetReached
  <1>2. CASE StepProtect BY <1>2, ProtectReached
  <1>3. CASE StepUnprotect BY <1>3, UnprotectReached
  <1>4. CASE StepPreserve BY <1>4, PreserveReached
  <1>5. CASE StepAttach BY <1>5, AttachReached
  <1>6. CASE StepGet BY <1>6, GetReached
  <1>7. CASE StepUse BY <1>7, UseReached
  <1>8. CASE StepCheck BY <1>8, CheckReached
  <1>9. CASE StepIf BY <1>9, IfReached
  <1>10. CASE StepEvaluated BY <1>10, EvaluatedReached
  <1>11. CASE StepFailed BY <1>11, FailedReached
  <1>12. CASE Enter BY <1>12, EnterReached
  <1>13. CASE Leave BY <1>13, LeaveReached
  <1>14. CASE Jump BY <1>14, JumpReached
  <1>15. CASE NextInput BY <1>15, InputReached
  <1> QED
    BY ONLY Next, <1>1, <1>2, <1>3, <1>4, <1>5, <1>6, <1>7, <1>8, <1>9, <1>10,
            <1>11, <1>12, <1>13, <1>14, <1>15 DEF Next

LEMMA NextSameScenario == Next => UNCHANGED scenario
  BY DEF Next, StepLet, StepProtect, StepUnprotect, StepPreserve, StepAttach,
         StepGet, StepUse, StepCheck, StepIf, StepEvaluated, StepFailed, Enter,
         Leave, Jump, NextInput

LEMMA NextIInv == IInv /\ [Next]_vars => IInv'
  <1> SUFFICES ASSUME IInv, [Next]_vars
               PROVE  IInv'
    OBVIOUS
  <1>1. CASE Next
    <2>1. PICK x \in Views(scenario) : Ready(x)
      BY IInvReady
    <2>2. PICK y \in Successors(scenario, x) :
             /\ Memory(bound', stack', base', kept', refers')
             /\ y.stage = stage' /\ y.at = at' /\ y.error = error'
             /\ y.top.height <= Len(y.slots)
             /\ toplevel' = TopOf(y.top, base')
             /\ StackKnown(y, bound', stack', base', kept')
             /\ HeapKnown(y, bound', refers')
      BY <1>1, <2>1, NextReached DEF Reached
    <2>3. scenario \in Scenarios /\ scenario' = scenario
      BY <1>1, NextSameScenario DEF IInv
    <2>4. y \in Views(scenario)
      BY <2>1, <2>2, <2>3, SeenAccepted
    <2>5. Memory(bound, stack, base, kept, refers)'
      BY <2>2, <2>3 DEF Memory, Apart
    <2>6. Describes(y)'
      BY <2>2 DEF Describes
    <2> QED
      BY <2>3, <2>4, <2>5, <2>6 DEF IInv
  <1>2. CASE UNCHANGED vars
    BY <1>2 DEF vars, heap, IInv, Memory, Apart, Describes
  <1> QED
    BY <1>1, <1>2

LEMMA Invariance == Spec => []IInv
  BY InitIInv, NextIInv, PTL DEF Spec

\* character.c:185, of every routine that the check accepts, whatever is
\* collected and whatever fails: what a step needs is still there.
THEOREM NothingIsCollectedInUse == Spec => []NothingInUseCollected
  <1>1. IInv => NothingInUseCollected
    <2> SUFFICES ASSUME IInv, Running
                 PROVE  Reachable(Arguments) \subseteq DOMAIN refers
      BY DEF NothingInUseCollected
    <2>1. PICK x \in Views(scenario) : Ready(x)
      BY IInvReady
    <2>2. Arguments \subseteq DOMAIN refers \cup {0} /\ Heap(refers)
      BY <2>1, ArgumentsSurvive DEF Ready, Memory
    <2> QED
      BY <2>2, ReachableFacts
  <1> QED
    BY <1>1, Invariance, PTL

\* What a view says where a routine has ended.
LEMMA AtEnd ==
    ASSUME NEW x, Ready(x), ~ Running
    PROVE  EndAllowed(scenario, x)
  <1>1. x.stage = stage /\ x.at = at
    BY ReadyView
  <1>2. Ended(scenario, x)
    BY <1>1 DEF Ended, Running, Code
  <1> QED
    BY <1>2 DEF Ready, Allowed

\* Every fuzz_target_run that the check accepts leaves the protect stack as
\* it found it, whatever failed and wherever a jump went.
THEOREM RunsBalance == Spec => []StackBalanced
  <1>1. IInv => StackBalanced
    <2> SUFFICES ASSUME IInv, ~ Running, stage = 2
                 PROVE  Len(stack) = base
      BY DEF StackBalanced
    <2>1. PICK x \in Views(scenario) : Ready(x)
      BY IInvReady
    <2>2. x.slots = <<>>
      BY <2>1, AtEnd, ReadyView DEF EndAllowed
    <2>3. Len(stack) = base + Len(x.slots) /\ base \in Nat
      BY <2>1, ReadyView DEF StackKnown, SlotsHold, Memory
    <2> QED
      BY <2>2, <2>3
  <1> QED
    BY <1>1, Invariance, PTL

\* What a target keeps for its inputs can be reached from the protect stack
\* or a preserved object whenever the check accepts its routines.
THEOREM StaticsStayRooted == Spec => []CallsRooted
  <1>1. IInv => CallsRooted
    <2> DEFINE calls == {bound[v] : v \in Program[scenario].statics}
               roots == Range(stack) \cup kept
    <2> SUFFICES ASSUME IInv, ~ Running
                 PROVE  Reachable(calls) \subseteq Reachable(roots)
      BY DEF CallsRooted
    <2>1. PICK x \in Views(scenario) : Ready(x)
      BY IInvReady
    <2>2. Program[scenario].statics \subseteq Roots(x)
      BY <2>1, AtEnd DEF EndAllowed
    <2>3. \A v \in Roots(x) : bound[v] \in Range(stack) \cup kept \cup {0}
      BY <2>1, ReadyView, RootsFound DEF Memory
    <2>4. calls \ {0} \subseteq roots \ {0}
      BY <2>2, <2>3
    <2>5. Heap(refers) /\ roots \subseteq DOMAIN refers \cup {0}
      BY <2>1 DEF Ready, Memory
    <2> HIDE DEF calls, roots
    <2>6. /\ roots \ {0} \subseteq Reachable(roots)
          /\ \A o \in Reachable(roots) : Range(refers[o]) \subseteq Reachable(roots) \cup {0}
      BY <2>5, ReachableFacts
    <2>7. Closed(Reachable(roots))
      BY ONLY <2>6 DEF Closed
    <2>8. calls \ {0} \subseteq Reachable(roots)
      BY ONLY <2>4, <2>6
    <2> QED
      BY ONLY <2>7, <2>8, ReachableLeast
  <1> QED
    BY <1>1, Invariance, PTL
=============================================================================
