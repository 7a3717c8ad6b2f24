--------------------------- MODULE Staging_proofs ---------------------------
(***************************************************************************)
(* For every target, slot and order of inputs, refusals and failures, the  *)
(* evaluated call reads its own input and expands nothing a guard should   *)
(* have kept out.                                                          *)
(***************************************************************************)
EXTENDS Staging, TLAPS

\* Selecting by slot preserves inclusion.
LEMMA PerSlotIncluded ==
    ASSUME NEW slots, NEW small, NEW large,
           DOMAIN small \subseteq DOMAIN large,
           \A p \in DOMAIN small : small[p] \cap slots \subseteq large[p]
    PROVE  \A s \in slots : PerSlot(slots, small)[s] \subseteq PerSlot(slots, large)[s]
  BY DEF PerSlot

\* What the tables promise: a slot refills every place its call reads, and
\* guards against everything its call expands.
Sound(t) ==
    \A s \in t.slots : /\ t.reads[s] \subseteq t.needs[s]
                       /\ t.expands[s] \subseteq t.guards[s]
                       /\ t.needs[s] \subseteq PlacesOf(t)
                       /\ \A i \in DOMAIN t.then[s] : t.then[s][i] \subseteq PlacesOf(t)

LEMMA CharacterSound == Sound(Character)
  <1>1. PlacesOf(Character) = {"x", "xu", "xl", "aux", "auxu"}
    BY DEF PlacesOf, Character
  <1>2. ASSUME NEW s \in Character.slots
        PROVE  Character.reads[s] \subseteq Character.needs[s]
    <2>1. ASSUME NEW p \in DOMAIN CharacterReads
          PROVE  p \in DOMAIN CharacterNeeds /\ CharacterReads[p] \subseteq CharacterNeeds[p]
      BY DEF CharacterReads, CharacterNeeds
    <2> QED
      BY <1>2, <2>1, PerSlotIncluded DEF Character
  <1>3. ASSUME NEW s \in Character.slots
        PROVE  Character.expands[s] \subseteq Character.guards[s]
    BY <1>3 DEF Character, PerSlot, CharacterNeeds, CharacterGuards
  <1>4. ASSUME NEW s \in Character.slots
        PROVE  Character.needs[s] \subseteq PlacesOf(Character)
    BY <1>1, <1>4 DEF Character, PerSlot, CharacterNeeds, CharacterGuards
  <1>5. ASSUME NEW s \in Character.slots
        PROVE  Character.then[s] = <<>>
    BY <1>5 DEF Character, OneCall
  <1> QED
    BY <1>2, <1>3, <1>4, <1>5 DEF Sound

LEMMA EncodingSound == Sound(Encoding)
  <1>1. PlacesOf(Encoding) = {"raw", "utf8", "latin1", "str"}
    BY DEF PlacesOf, Encoding
  <1>2. ASSUME NEW s \in Encoding.slots
        PROVE  Encoding.reads[s] \subseteq Encoding.needs[s]
    BY <1>2 DEF Encoding, PerSlot
  <1>3. ASSUME NEW s \in Encoding.slots
        PROVE  Encoding.expands[s] \subseteq Encoding.guards[s]
    BY <1>3 DEF Encoding, PerSlot
  <1>4. ASSUME NEW s \in Encoding.slots
        PROVE  Encoding.needs[s] \subseteq PlacesOf(Encoding)
    BY <1>1, <1>4 DEF Encoding, PerSlot
  <1>5. ASSUME NEW s \in Encoding.slots
        PROVE  Encoding.then[s] = <<>>
    BY <1>5 DEF Encoding, OneCall
  <1> QED
    BY <1>2, <1>3, <1>4, <1>5 DEF Sound

LEMMA DatetimeSound == Sound(Datetime)
  <1>1. PlacesOf(Datetime) = {"str", "fmt"}
    BY DEF PlacesOf, Datetime
  <1>2. ASSUME NEW s \in Datetime.slots
        PROVE  Datetime.reads[s] \subseteq Datetime.needs[s]
    BY <1>2 DEF Datetime, PerSlot
  <1>3. ASSUME NEW s \in Datetime.slots
        PROVE  Datetime.expands[s] \subseteq Datetime.guards[s]
    BY <1>3 DEF Datetime, PerSlot
  <1>4. ASSUME NEW s \in Datetime.slots
        PROVE  Datetime.needs[s] \subseteq PlacesOf(Datetime)
    BY <1>1, <1>4 DEF Datetime, PerSlot
  <1>5. ASSUME NEW s \in Datetime.slots
        PROVE  Datetime.then[s] = <<>>
    BY <1>5 DEF Datetime, OneCall
  <1> QED
    BY <1>2, <1>3, <1>4, <1>5 DEF Sound

LEMMA ConnectionsSound == Sound(Connections)
  <1>1. PlacesOf(Connections) = {"scratch", "arg"}
    BY DEF PlacesOf, Connections
  <1>2. ASSUME NEW s \in Connections.slots
        PROVE  Connections.reads[s] \subseteq Connections.needs[s]
    <2>1. "scratch" \in Connections.needs[s] /\ "arg" \in Connections.needs[s]
      BY <1>2 DEF Connections, PerSlot
    <2>2. Connections.reads[s] \subseteq {"scratch", "arg"}
      BY <1>2 DEF Connections, PerSlot
    <2> QED
      BY <2>1, <2>2
  <1>3. ASSUME NEW s \in Connections.slots
        PROVE  Connections.expands[s] \subseteq Connections.guards[s]
    BY <1>3 DEF Connections, PerSlot
  <1>4. ASSUME NEW s \in Connections.slots
        PROVE  Connections.needs[s] \subseteq PlacesOf(Connections)
    BY <1>1, <1>4 DEF Connections, PerSlot
  <1>5. ASSUME NEW s \in Connections.slots
        PROVE  Connections.then[s] = <<>>
    BY <1>5 DEF Connections, OneCall
  <1> QED
    BY <1>2, <1>3, <1>4, <1>5 DEF Sound

LEMMA GrepSound == Sound(Grep)
  <1>1. PlacesOf(Grep) = {"pat"}
    BY DEF PlacesOf, Grep
  <1>2. ASSUME NEW s \in Grep.slots
        PROVE  Grep.reads[s] \subseteq Grep.needs[s]
    BY <1>2 DEF Grep, PerSlot
  <1>3. ASSUME NEW s \in Grep.slots
        PROVE  Grep.expands[s] \subseteq Grep.guards[s]
    BY <1>3 DEF Grep, PerSlot
  <1>4. ASSUME NEW s \in Grep.slots
        PROVE  Grep.needs[s] \subseteq PlacesOf(Grep)
    BY <1>1, <1>4 DEF Grep, PerSlot
  <1>5. ASSUME NEW s \in Grep.slots
        PROVE  Grep.then[s] = <<>>
    BY <1>5 DEF Grep, OneCall
  <1> QED
    BY <1>2, <1>3, <1>4, <1>5 DEF Sound

LEMMA FormatSound == Sound(Format)
  <1>1. PlacesOf(Format) = {"digits", "width", "nsmall", "flag", "str"}
    BY DEF PlacesOf, Format
  <1>2. ASSUME NEW s \in Format.slots
        PROVE  Format.reads[s] \subseteq Format.needs[s]
    BY <1>2 DEF Format, PerSlot
  <1>3. ASSUME NEW s \in Format.slots
        PROVE  Format.expands[s] \subseteq Format.guards[s]
    BY <1>3 DEF Format, PerSlot
  <1>4. ASSUME NEW s \in Format.slots
        PROVE  Format.needs[s] \subseteq PlacesOf(Format)
    BY <1>1, <1>4 DEF Format, PerSlot
  <1>5. ASSUME NEW s \in Format.slots
        PROVE  Format.then[s] = <<>>
    BY <1>5 DEF Format, OneCall
  <1> QED
    BY <1>2, <1>3, <1>4, <1>5 DEF Sound

\* So does every target of one place, however many calls it has.
LEMMA OnePlaceSound ==
    ASSUME NEW n \in Nat \ {0}, NEW place
    PROVE  Sound(OnePlace(n, place))
  <1> DEFINE t == OnePlace(n, place)
  <1>1. PlacesOf(t) = {place}
    BY DEF PlacesOf, OnePlace
  <1>2. /\ t.slots = 0 .. n - 1 /\ t.then = [s \in 0 .. n - 1 |-> <<>>]
        /\ t.reads = [s \in 0 .. n - 1 |-> {place}] /\ t.needs = t.reads
        /\ t.expands = t.guards
    BY DEF OnePlace, OneCall
  <1> HIDE DEF t
  <1>3. Sound(t)
    BY <1>1, <1>2 DEF Sound
  <1> QED
    BY <1>3 DEF t

LEMMA AgrepSound == Sound(Agrep)
  <1>1. /\ Agrep.slots = {0} /\ Agrep.order = <<"pat">>
        /\ Agrep.reads = [s \in {0} |-> {"pat"}] /\ Agrep.needs = [s \in {0} |-> {"pat"}]
        /\ Agrep.expands = Agrep.guards /\ Agrep.then = [s \in {0} |-> <<{}, {}>>]
    BY DEF Agrep, OnePlace
  <1> QED
    BY <1>1 DEF Sound, PlacesOf

LEMMA CoerceSound == Sound(Coerce)
  <1>1. /\ Coerce.slots = {0} /\ Coerce.order = <<"str">>
        /\ Coerce.reads = [s \in {0} |-> {"str"}] /\ Coerce.needs = [s \in {0} |-> {"str"}]
        /\ Coerce.expands = Coerce.guards /\ Coerce.then = [s \in {0} |-> <<{}, {}, {}>>]
    BY DEF Coerce, OnePlace
  <1> QED
    BY <1>1 DEF Sound, PlacesOf

LEMMA IoSound == Sound(Io)
  <1>1. /\ Io.slots = 0 .. 17 /\ Io.order = <<"arg", "value">>
        /\ Io.reads = [s \in 0 .. 17 |-> {"arg"}] /\ Io.needs = [s \in 0 .. 17 |-> {"arg"}]
        /\ Io.expands = Io.guards
        /\ Io.then = [s \in 0 .. 17 |-> IF s < 8 THEN <<{"value"}, {"arg"}>> ELSE <<>>]
    BY DEF Io, OnePlace
  <1>2. PlacesOf(Io) = {"arg", "value"}
    BY <1>1 DEF PlacesOf
  <1> QED
    BY <1>1, <1>2 DEF Sound

LEMMA TargetsSound ==
    ASSUME NEW t \in Targets
    PROVE  Sound(t)
  BY CharacterSound, EncodingSound, DatetimeSound, ConnectionsSound, GrepSound,
     FormatSound, AgrepSound, CoerceSound, IoSound, OnePlaceSound
  DEF Targets, Parse, Scan, Sprintf, Dcf, Rd, ReadTable, Colors, Sort,
      Decompress, Unserialize, Load, Zip

\* The order of a target is a sequence of its places, and what follows the
\* first call of a slot a sequence as well.
InSequence(t) ==
    /\ Len(t.order) \in Nat /\ DOMAIN t.order = 1 .. Len(t.order)
    /\ 0 \in t.slots
    /\ \A s \in t.slots : /\ Len(t.then[s]) \in Nat
                          /\ DOMAIN t.then[s] = 1 .. Len(t.then[s])

LEMMA OnePlaceInSequence ==
    ASSUME NEW n \in Nat \ {0}, NEW place
    PROVE  InSequence(OnePlace(n, place))
  BY DEF InSequence, OnePlace, OneCall

LEMMA TargetsInSequence ==
    ASSUME NEW t \in Targets
    PROVE  InSequence(t)
  <1>1. InSequence(Character)
    <2>1. /\ Character.slots = 0 .. 33
          /\ Character.order = <<"x", "xu", "xl", "aux", "auxu">>
          /\ Character.then = [s \in 0 .. 33 |-> <<>>]
      BY DEF Character, OneCall
    <2> QED
      BY <2>1 DEF InSequence
  <1>2. InSequence(Encoding)
    <2>1. /\ Encoding.slots = 0 .. 27
          /\ Encoding.order = <<"raw", "utf8", "latin1", "str">>
          /\ Encoding.then = [s \in 0 .. 27 |-> <<>>]
      BY DEF Encoding, OneCall
    <2> QED
      BY <2>1 DEF InSequence
  <1>3. InSequence(Datetime)
    <2>1. /\ Datetime.slots = 0 .. 16
          /\ Datetime.order = <<"str", "fmt">>
          /\ Datetime.then = [s \in 0 .. 16 |-> <<>>]
      BY DEF Datetime, OneCall
    <2> QED
      BY <2>1 DEF InSequence
  <1>4. InSequence(Connections)
    <2>1. /\ Connections.slots = 0 .. 65
          /\ Connections.order = <<"scratch", "arg">>
          /\ Connections.then = [s \in 0 .. 65 |-> <<>>]
      BY DEF Connections, OneCall
    <2> QED
      BY <2>1 DEF InSequence
  <1>5. InSequence(Grep)
    <2>1. /\ Grep.slots = 0 .. 15
          /\ Grep.order = <<"pat">>
          /\ Grep.then = [s \in 0 .. 15 |-> <<>>]
      BY DEF Grep, OneCall
    <2> QED
      BY <2>1 DEF InSequence
  <1>6. InSequence(Format)
    <2>1. /\ Format.slots = 0 .. 23
          /\ Format.order = <<"digits", "width", "nsmall", "flag", "str">>
          /\ Format.then = [s \in 0 .. 23 |-> <<>>]
      BY DEF Format, OneCall
    <2> QED
      BY <2>1 DEF InSequence
  <1>7. InSequence(Agrep) /\ InSequence(Coerce)
    BY DEF InSequence, OnePlace, Agrep, Coerce
  <1>8. InSequence(Io)
    <2>1. /\ Io.slots = 0 .. 17 /\ Io.order = <<"arg", "value">>
          /\ Io.then = [s \in 0 .. 17 |-> IF s < 8 THEN <<{"value"}, {"arg"}>> ELSE <<>>]
      BY DEF Io, OnePlace
    <2> QED
      BY <2>1 DEF InSequence
  <1> QED
    BY <1>1, <1>2, <1>3, <1>4, <1>5, <1>6, <1>7, <1>8, OnePlaceInSequence
    DEF Targets, Parse, Scan, Sprintf, Dcf, Rd, ReadTable, Colors, Sort,
        Decompress, Unserialize, Load, Zip

-----------------------------------------------------------------------------

LEMMA InitIInv == Init => IInv
  BY TargetsInSequence DEF InSequence, Then, Init, IInv, TypeOK, Progress, Places, Content, Default

\* Types are kept by every step of an iteration.
LEMMA NextTypeOK == TypeOK /\ [Next]_vars => TypeOK'
  <1> SUFFICES ASSUME TypeOK, [Next]_vars
               PROVE  TypeOK'
    OBVIOUS
  <1>0. target' = target /\ target \in Targets
    BY DEF TypeOK, Next, Begin, Refuse, Accept, Pass, Stage, StageFails,
           AllStaged, CallAgain, Evaluated, NewChild, vars
  <1>1. PlacesOf(target)' = PlacesOf(target)
    BY <1>0 DEF PlacesOf
  <1> USE TargetsInSequence, <1>0, <1>1 DEF InSequence, Then, TypeOK, Content, Places
  <1>2. ASSUME NEW s \in target.slots, NEW e \in SUBSET Excesses, Begin(s, e)
        PROVE  TypeOK'
    BY <1>2 DEF Begin
  <1>3. CASE Refuse
    BY <1>3 DEF Refuse
  <1>4. CASE Accept
    BY <1>4 DEF Accept
  <1>5. CASE Pass
    BY <1>5 DEF Pass
  <1>6. CASE Stage
    <2>1. Place \in Places /\ next + 1 \in 1 .. Len(target.order) + 1
      BY <1>6 DEF Stage, Place, PlacesOf
    <2>2. holds' \in [Places -> Content]
      BY <1>6, <2>1 DEF Stage
    <2> QED
      BY <1>6, <2>1, <2>2 DEF Stage
  <1>7. CASE StageFails
    BY <1>7 DEF StageFails, Damage, Place
  <1>8. CASE AllStaged
    BY <1>8 DEF AllStaged
  <1>9. CASE Evaluated
    BY <1>9 DEF Evaluated
  <1>10. CASE NewChild
    BY <1>10 DEF NewChild, Default
  <1>11. CASE CallAgain
    BY <1>11 DEF CallAgain
  <1>12. CASE UNCHANGED vars
    BY <1>12 DEF vars
  <1> QED
    BY ONLY [Next]_vars, <1>2, <1>3, <1>4, <1>5, <1>6, <1>7, <1>8, <1>9, <1>10,
            <1>11, <1>12 DEF Next

\* The places already passed hold the input in hand, without an excess that
\* its slot would expand.
LEMMA NextProgress == IInv /\ [Next]_vars => Progress'
  <1> SUFFICES ASSUME IInv, [Next]_vars
               PROVE  Progress'
    OBVIOUS
  <1>0. target' = target /\ target \in Targets
    BY DEF IInv, TypeOK, Next, Begin, Refuse, Accept, Pass, Stage, StageFails,
           AllStaged, CallAgain, Evaluated, NewChild, vars
  <1>1. PlacesOf(target)' = PlacesOf(target)
    BY <1>0 DEF PlacesOf
  <1> USE TargetsInSequence, <1>0, <1>1 DEF InSequence, Then, IInv, TypeOK, Content, Places, Progress
  <1>2. ASSUME NEW s \in target.slots, NEW e \in SUBSET Excesses, Begin(s, e)
        PROVE  Progress'
    BY <1>2 DEF Begin
  <1>3. CASE Refuse
    BY <1>3 DEF Refuse
  <1>4. CASE Accept
    BY <1>4 DEF Accept
  <1>5. CASE Pass
    BY <1>5 DEF Pass, Place
  <1>6. CASE Stage
    <2>1. Place \in Places
      BY <1>6 DEF Stage, Place, PlacesOf
    <2>2. holds'[Place].of = "this" /\ holds'[Place].excess \subseteq excess
      BY <1>6, <2>1 DEF Stage
    <2>3. \A p \in Places \ {Place} : holds'[p] = holds[p]
      BY <1>6 DEF Stage
    <2>4. \A i \in DOMAIN target.order :
             i < next + 1 /\ target.order[i] \in target.needs[slot]
                 => holds'[target.order[i]].of = "this"
      <3>1. ASSUME NEW i \in DOMAIN target.order, i < next + 1,
                   target.order[i] \in target.needs[slot]
            PROVE  holds'[target.order[i]].of = "this"
        <4>1. target.order[i] \in Places
          BY DEF PlacesOf
        <4>2. CASE target.order[i] = Place
          BY <2>2, <4>2
        <4>3. CASE target.order[i] # Place
          <5>1. i < next
            BY <3>1, <4>3 DEF Place
          <5>2. holds[target.order[i]].of = "this"
            BY <1>6, <3>1, <5>1 DEF Stage
          <5> QED
            BY <2>3, <4>1, <4>3, <5>2
        <4> QED
          BY <4>2, <4>3
      <3> QED
        BY <3>1
    <2>5. \A p \in Places : holds'[p].of = "this" => holds'[p].excess \subseteq excess
      BY <2>1, <2>2, <2>3
    <2> QED
      BY <1>6, <2>4, <2>5 DEF Stage
  <1>7. CASE StageFails
    BY <1>7 DEF StageFails, Damage, Place
  <1>8. CASE AllStaged
    <2>1. \A p \in target.needs[slot] : \E i \in DOMAIN target.order : p = target.order[i]
      BY TargetsSound DEF Sound, PlacesOf
    <2>2. \A i \in DOMAIN target.order : i < next
      BY <1>8 DEF AllStaged
    <2>3. \A p \in target.needs[slot] : holds[p].of = "this"
      BY <1>8, <2>1, <2>2 DEF AllStaged
    <2> QED
      BY <1>8, <2>3 DEF AllStaged
  <1>9. CASE Evaluated
    BY <1>9 DEF Evaluated
  <1>10. CASE NewChild
    BY <1>10 DEF NewChild, Default
  <1>11. CASE CallAgain
    <2>1. \A p \in Then[further + 1] : p \in Places
      BY <1>11, TargetsSound DEF CallAgain, Sound
    <2>2. \A p \in Places :
             holds'[p] = IF p \in Then[further + 1]
                         THEN [of |-> "this", excess |-> {}] ELSE holds[p]
      BY <1>11 DEF CallAgain
    <2>3. \A p \in Places : holds[p].of = "this" => holds'[p].of = "this"
      BY <2>2
    <2>4. target.needs[slot] \subseteq Places
      BY TargetsSound DEF Sound
    <2>5. \A i \in 1 .. further : Then[i] \subseteq Places
      BY TargetsSound DEF Sound
    <2>6. \A i \in 1 .. further + 1 : \A p \in Then[i] : holds'[p].of = "this"
      BY <1>11, <2>1, <2>2, <2>3, <2>5 DEF CallAgain
    <2>7. \A p \in Places : holds'[p].of = "this" => holds'[p].excess \subseteq excess
      BY <2>2
    <2> QED
      BY <1>11, <2>3, <2>4, <2>6, <2>7 DEF CallAgain
  <1>12. CASE UNCHANGED vars
    BY <1>12 DEF vars
  <1> QED
    BY ONLY [Next]_vars, <1>2, <1>3, <1>4, <1>5, <1>6, <1>7, <1>8, <1>9, <1>10,
            <1>11, <1>12 DEF Next

LEMMA Invariance == Spec => []IInv
  <1>1. IInv /\ [Next]_vars => IInv'
    BY NextTypeOK, NextProgress DEF IInv
  <1> QED
    BY InitIInv, <1>1, PTL DEF Spec

\* The selected slot, the progress through its places and their contents stay
\* within their types in every target (fuzz_target_run).
THEOREM TypeCorrect == Spec => []TypeOK
  <1>1. IInv => TypeOK
    BY DEF IInv
  <1> QED
    BY <1>1, Invariance, PTL

\* Every evaluated call of every target reads the input in hand, whatever
\* earlier iterations left behind when they were refused or failed.
THEOREM FreshInputs == Spec => []ReadsThisInput
  <1>1. IInv => ReadsThisInput
    BY TargetsSound DEF IInv, TypeOK, Progress, ReadsThisInput, ReadSoFar, Sound
  <1> QED
    BY <1>1, Invariance, PTL

\* No call expands repeats or ranges that the guard of its slot is to refuse
\* (fuzz_repeat_product_excessive, fuzz_chartr_table_excessive).
THEOREM GuardsHold == Spec => []NothingExcessiveExpanded
  <1>1. ASSUME IInv, pc = "evaluate",
               NEW p \in target.reads[slot] \cap target.pattern
        PROVE  holds[p].excess \cap target.expands[slot] = {}
    <2>1. p \in target.needs[slot] /\ p \in Places
      BY <1>1, TargetsSound DEF IInv, TypeOK, Sound, Places
    <2>2. holds[p].excess \subseteq excess
      BY <1>1, <2>1 DEF IInv, Progress
    <2>3. excess \cap target.guards[slot] = {}
      BY <1>1 DEF IInv, Progress
    <2>4. target.expands[slot] \subseteq target.guards[slot]
      BY <1>1, TargetsSound DEF IInv, TypeOK, Sound
    <2> QED
      BY <2>2, <2>3, <2>4
  <1>2. IInv => NothingExcessiveExpanded
    BY <1>1 DEF NothingExcessiveExpanded
  <1> QED
    BY <1>2, Invariance, PTL
=============================================================================
