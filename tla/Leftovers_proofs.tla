-------------------------- MODULE Leftovers_proofs --------------------------
(***************************************************************************)
(* What was passed to on.exit() is released, and no extracted file stays   *)
(* whose name matches itself, for any closures that register what they     *)
(* take, errors and crashes at any step and any names of extracted files;  *)
(* and the slots of the datetime target run in the locale they ask for,    *)
(* for any number of them and any runner.                                  *)
(***************************************************************************)
EXTENDS Leftovers, TLAPS

-----------------------------------------------------------------------------
(* The closures *)

\* The running closure, and its next step.
LEMMA CodeFacts ==
    ASSUME TypeOK
    PROVE  /\ slot \in Slots
           /\ Code \in Seq(Steps) /\ Code = Program[slot]
           /\ Appends(slot)
           /\ \A k \in DOMAIN Code :
                /\ Code[k].res \in STRING
                /\ slot \in Eager \/ Code[k].do = "unzip" => Covered(slot, k)
                /\ Code[k].do = "unzip" <=>
                      Code[k].do \notin {"defer", "add"} /\ Code[k].res = "exdir"
  <1>1. /\ slot \in Slots
        /\ Code \in Seq(Steps) /\ Code = Program[slot]
        /\ Appends(slot)
    BY SlotClosuresAssumption DEF TypeOK, Code
  <1>2. ASSUME NEW k \in DOMAIN Code
        PROVE  Code[k].res \in STRING
    <2>1. \A c \in Seq(Steps) : k \in DOMAIN c => c[k] \in Steps
      OBVIOUS
    <2>2. Code[k] \in Steps
      BY <1>1, <1>2, <2>1
    <2> QED
      BY ONLY <2>2 DEF Steps
  <1>3. ASSUME NEW k \in DOMAIN Code
        PROVE  /\ slot \in Eager \/ Code[k].do = "unzip" => Covered(slot, k)
               /\ Code[k].do = "unzip" <=>
                     Code[k].do \notin {"defer", "add"} /\ Code[k].res = "exdir"
    BY ONLY <1>1, <1>3, SlotClosuresAssumption
  <1> QED
    BY <1>1, <1>2, <1>3

\* Registrations add up, one step at a time.
LEMMA RegisteredNext ==
    ASSUME TypeOK, NEW k \in Nat
    PROVE  /\ Registered(slot, k) \subseteq Registered(slot, k + 1)
           /\ k \in DOMAIN Code /\ Code[k].do \in {"defer", "add"} =>
                 Registered(slot, k + 1) = Registered(slot, k) \cup {Code[k].res}
           /\ ~ (k \in DOMAIN Code /\ Code[k].do \in {"defer", "add"}) =>
                 Registered(slot, k + 1) = Registered(slot, k)
  <1>1. Code = Program[slot] /\ DOMAIN Code \subseteq Nat
    BY CodeFacts
  <1>2. \A j \in DOMAIN Code : j < k + 1 <=> j < k \/ j = k
    BY <1>1
  <1> QED
    BY ONLY <1>1, <1>2 DEF Registered

LEMMA RegisteredFirst ==
    ASSUME NEW s \in Slots
    PROVE  Registered(s, 1) = {}
  <1>1. DOMAIN Program[s] = 1 .. Len(Program[s]) /\ Len(Program[s]) \in Nat
    <2>1. Program[s] \in Seq(Steps)
      BY SlotClosuresAssumption
    <2> DEFINE p == Program[s]
    <2>2. p \in Seq(Steps)
      BY <2>1
    <2> HIDE DEF p
    <2>3. DOMAIN p = 1 .. Len(p) /\ Len(p) \in Nat
      BY ONLY <2>2
    <2> QED
      BY <2>3 DEF p
  <1>2. \A j \in DOMAIN Program[s] : ~ (j < 1)
    BY <1>1
  <1> QED
    BY <1>2 DEF Registered

LEMMA InitIInv == Init => IInv
  <1> SUFFICES ASSUME Init
               PROVE  IInv
    OBVIOUS
  <1>1. TypeOK
    <2>1. <<>> \in Seq(STRING) /\ 1 \in Nat \ {0}
      OBVIOUS
    <2> QED
      BY <2>1, Zenon DEF Init, TypeOK
  <1> QED
    BY <1>1 DEF Init, IInv, RunInv, HeldInv, ExitInv, FilesInv

LEMMA BeginIInv ==
    ASSUME IInv, NEW s \in Slots, Begin(s)
    PROVE  IInv'
  <1>1. TypeOK'
    BY DEF IInv, TypeOK, Begin, directory
  <1>2. Registered(s, 1) = {}
    BY RegisteredFirst
  <1>3. RunInv'
    BY <1>2 DEF Begin, RunInv, Held, Range
  <1>4. HeldInv' /\ ExitInv'
    BY DEF Begin, HeldInv, ExitInv
  <1>5. FilesInv'
    BY DEF IInv, TypeOK, Begin, directory, FilesInv
  <1> QED
    BY <1>1, <1>3, <1>4, <1>5 DEF IInv

\* The step in hand is one of the closure's, and the next place a place.
LEMMA StepFacts ==
    ASSUME TypeOK, NEW do, At(do)
    PROVE  /\ pc = "run" /\ at \in DOMAIN Code /\ Code[at].do = do
           /\ Res = Code[at].res /\ Res \in STRING
           /\ at \in Nat /\ at + 1 \in Nat \ {0}
           /\ do \notin {"defer", "add", "unzip"} => Res # "exdir"
  BY CodeFacts DEF At, Res, TypeOK

LEMMA OpenIInv ==
    ASSUME IInv, StepOpen
    PROVE  IInv'
  <1>1. PICK do \in {"open", "change"} : At(do)
    BY DEF StepOpen
  <1>2. /\ TypeOK /\ pc = "run" /\ at \in DOMAIN Code /\ Code[at].do = do
        /\ Res = Code[at].res /\ Res \in STRING /\ Res # "exdir"
        /\ at \in Nat /\ at + 1 \in Nat \ {0}
    BY <1>1, StepFacts DEF IInv
  <1>3. /\ pc' = pc /\ slot' = slot /\ onexit' = onexit /\ named' = named
        /\ at' = at + 1 /\ live' = live \cup {Res}
        /\ leaked' = leaked /\ files' = files /\ listed' = listed
        /\ failed' = failed /\ torn' = torn
    BY DEF StepOpen, directory, history
  <1>4. /\ Registered(slot, at + 1) = Registered(slot, at)
        /\ Registered(slot, at + 1) \subseteq Registered(slot, (at + 1) + 1)
    BY <1>1, <1>2, RegisteredNext
  <1>5. TypeOK'
    BY <1>2, <1>3 DEF TypeOK
  <1>6. RunInv'
    BY <1>2, <1>3, <1>4 DEF IInv, RunInv, Held
  <1>7. slot \in Eager => Res \in Registered(slot, (at + 1) + 1)
    <2>1. slot \in Eager => Covered(slot, at)
      BY <1>2, CodeFacts
    <2>2. (at + 1) + 1 = at + 2
      BY <1>2
    <2>3. Code = Program[slot]
      BY <1>2, CodeFacts
    <2> QED
      BY <1>2, <1>4, <2>1, <2>2, <2>3 DEF Covered
  <1>8. HeldInv'
    <2>1. Soon' = Registered(slot, (at + 1) + 1)
      BY <1>3 DEF Soon
    <2>2. ASSUME NEW res \in live, slot \in Eager
          PROVE  res \in Registered(slot, at + 1)
      BY <1>2, <2>2 DEF IInv, HeldInv, Soon
    <2> QED
      BY <1>2, <1>3, <1>4, <1>7, <2>1, <2>2 DEF HeldInv
  <1>9. ExitInv' /\ FilesInv'
    BY <1>2, <1>3 DEF IInv, TypeOK, ExitInv, FilesInv, Held
  <1> QED
    BY <1>5, <1>6, <1>8, <1>9 DEF IInv

\* on.exit(): what it holds after the step is what is registered by then.
LEMMA DeferIInv ==
    ASSUME IInv, StepDefer \/ StepDeferAdd
    PROVE  IInv'
  <1>1. PICK do \in {"defer", "add"} : At(do)
    BY DEF StepDefer, StepDeferAdd
  <1>2. /\ TypeOK /\ pc = "run" /\ at \in DOMAIN Code /\ Code[at].do = do
        /\ Res = Code[at].res /\ Res \in STRING
        /\ at \in Nat /\ at + 1 \in Nat \ {0}
        /\ Code = Program[slot]
    BY <1>1, StepFacts, CodeFacts DEF IInv
  <1>3. /\ pc' = pc /\ slot' = slot /\ live' = live
        /\ named' = named \cup {Res} /\ at' = at + 1
        /\ leaked' = leaked /\ files' = files /\ listed' = listed
        /\ failed' = failed /\ torn' = torn
    BY DEF StepDefer, StepDeferAdd, directory
  <1>4. /\ Registered(slot, at + 1) = Registered(slot, at) \cup {Res}
        /\ Registered(slot, at + 1) \subseteq Registered(slot, (at + 1) + 1)
    BY <1>1, <1>2, RegisteredNext
  <1>5. Held = Registered(slot, at) /\ named = Held
    BY <1>2 DEF IInv, RunInv
  <1>6. onexit' \in Seq(STRING) /\ Held' = Held \cup {Res}
    <2>1. CASE StepDefer
      <3>1. onexit' = <<Res>> /\ Code[at].do = "defer"
        BY <2>1 DEF StepDefer, At
      <3>2. Held = {}
        BY <1>2, <1>5, <3>1, CodeFacts DEF Appends
      <3> QED
        BY <1>2, <3>1, <3>2 DEF Held, Range
    <2>2. CASE StepDeferAdd
      <3>1. onexit' = Append(onexit, Res) /\ onexit \in Seq(STRING)
        BY <1>2, <2>2 DEF StepDeferAdd, TypeOK
      <3> QED
        BY <1>2, <3>1 DEF Held, Range
    <2> QED
      BY <2>1, <2>2
  <1>7. TypeOK'
    BY <1>2, <1>3, <1>6 DEF TypeOK
  <1>8. RunInv'
    BY <1>3, <1>4, <1>5, <1>6 DEF RunInv
  <1>9. HeldInv'
    <2>1. Soon' = Registered(slot, (at + 1) + 1)
      BY <1>3 DEF Soon
    <2>2. ASSUME NEW res \in live, slot \in Eager
          PROVE  res \in Registered(slot, at + 1)
      BY <1>2, <2>2 DEF IInv, HeldInv, Soon
    <2> QED
      BY <1>2, <1>3, <1>4, <2>1, <2>2 DEF HeldInv
  <1>10. ExitInv' /\ FilesInv'
    BY <1>2, <1>3, <1>6 DEF IInv, TypeOK, ExitInv, FilesInv
  <1> QED
    BY <1>7, <1>8, <1>9, <1>10 DEF IInv

LEMMA OtherIInv ==
    ASSUME IInv, StepUse \/ StepClose
    PROVE  IInv'
  <1>1. PICK do \in {"use", "close"} : At(do)
    BY DEF StepUse, StepClose
  <1>2. /\ TypeOK /\ pc = "run" /\ at \in DOMAIN Code /\ Code[at].do = do
        /\ at \in Nat /\ at + 1 \in Nat \ {0}
    BY <1>1, StepFacts DEF IInv
  <1>3. /\ pc' = pc /\ slot' = slot /\ onexit' = onexit /\ named' = named
        /\ at' = at + 1 /\ live' \subseteq live
        /\ leaked' = leaked /\ files' = files /\ listed' = listed
        /\ failed' = failed /\ torn' = torn
    BY DEF StepUse, StepClose, directory, history
  <1>4. /\ Registered(slot, at + 1) = Registered(slot, at)
        /\ Registered(slot, at + 1) \subseteq Registered(slot, (at + 1) + 1)
    BY <1>1, <1>2, RegisteredNext
  <1>5. TypeOK'
    BY <1>2, <1>3 DEF TypeOK
  <1>6. RunInv'
    BY <1>2, <1>3, <1>4 DEF IInv, RunInv, Held
  <1>7. HeldInv'
    <2>1. Soon' = Registered(slot, (at + 1) + 1)
      BY <1>3 DEF Soon
    <2>2. ASSUME NEW res \in live, slot \in Eager
          PROVE  res \in Registered(slot, at + 1)
      BY <1>2, <2>2 DEF IInv, HeldInv, Soon
    <2> QED
      BY <1>2, <1>3, <1>4, <2>1, <2>2 DEF HeldInv
  <1>8. ExitInv' /\ FilesInv'
    BY <1>2, <1>3 DEF IInv, TypeOK, ExitInv, FilesInv, Held
  <1> QED
    BY <1>5, <1>6, <1>7, <1>8 DEF IInv

\* Unpacking adds files, and the release of the directory is registered.
LEMMA UnzipIInv ==
    ASSUME IInv, StepUnzip
    PROVE  IInv'
  <1>1. At("unzip")
    BY DEF StepUnzip
  <1>2. /\ TypeOK /\ pc = "run" /\ at \in DOMAIN Code /\ Code[at].do = "unzip"
        /\ at \in Nat /\ at + 1 \in Nat \ {0}
    BY <1>1, StepFacts DEF IInv
  <1>3. /\ pc' = pc /\ slot' = slot /\ onexit' = onexit /\ named' = named
        /\ at' = at + 1 /\ live' = live /\ leaked' = leaked
        /\ listed' = listed /\ failed' = failed /\ torn' = torn
        /\ files' \subseteq Names
    BY <1>2 DEF StepUnzip, history, TypeOK
  <1>4. /\ Registered(slot, at + 1) = Registered(slot, at)
        /\ Registered(slot, at + 1) \subseteq Registered(slot, (at + 1) + 1)
    BY <1>2, RegisteredNext
  <1>5. Held = Registered(slot, at) /\ "exdir" \in Held
    <2>1. Covered(slot, at) /\ Code[at].res = "exdir" /\ Code = Program[slot]
      BY <1>2, CodeFacts
    <2>2. Held = Registered(slot, at)
      BY <1>2 DEF IInv, RunInv
    <2> QED
      BY <1>2, <2>1, <2>2 DEF Covered
  <1>6. TypeOK'
    BY <1>2, <1>3 DEF TypeOK
  <1>7. RunInv'
    BY <1>2, <1>3, <1>4 DEF IInv, RunInv, Held
  <1>8. HeldInv'
    <2>1. Soon' = Registered(slot, (at + 1) + 1)
      BY <1>3 DEF Soon
    <2>2. ASSUME NEW res \in live, slot \in Eager
          PROVE  res \in Registered(slot, at + 1)
      BY <1>2, <2>2 DEF IInv, HeldInv, Soon
    <2> QED
      BY <1>2, <1>3, <1>4, <2>1, <2>2 DEF HeldInv
  <1>9. ExitInv' /\ FilesInv'
    BY <1>2, <1>3, <1>5 DEF IInv, ExitInv, FilesInv, Held
  <1> QED
    BY <1>6, <1>7, <1>8, <1>9 DEF IInv

\* An error stops the closure at a step that registers nothing, as its end
\* does: all that it holds and must release has been registered by then.
LEMMA StoppedIInv ==
    ASSUME IInv, Fails \/ Returns
    PROVE  IInv'
  <1>1. TypeOK /\ pc = "run" /\ at \in Nat
    BY DEF IInv, TypeOK, Fails, Returns, At
  <1>2. Held = Registered(slot, at) /\ named = Held
    BY <1>1 DEF IInv, RunInv
  <1>3. Soon = Held
    <2>1. ~ (at \in DOMAIN Code /\ Code[at].do \in {"defer", "add"})
      BY DEF Fails, Returns, At
    <2> QED
      BY <1>1, <1>2, <2>1, RegisteredNext DEF Soon
  <1>4. /\ pc' = "exit" /\ slot' = slot /\ at' = at /\ onexit' = onexit
        /\ named' = named /\ failed' = failed /\ leaked' = leaked
        /\ listed' = listed /\ torn' = torn
    BY DEF Fails, Returns, directory, history
  <1>5. \/ live' = live
        \/ /\ live' = live \cup {Res} /\ Res \in STRING \ {"exdir"}
           /\ slot \in Eager => Res \in Held
    <2>1. CASE live' = live
      BY <2>1
    <2>2. CASE At("change") /\ live' = live \cup {Res}
      <3>1. /\ at \in DOMAIN Code /\ Code[at].do = "change"
            /\ Res = Code[at].res /\ Res \in STRING \ {"exdir"} /\ Code = Program[slot]
        BY <1>1, <2>2, StepFacts, CodeFacts
      <3>2. slot \in Eager => Covered(slot, at)
        BY <1>1, <3>1, CodeFacts
      <3> QED
        BY <1>2, <2>2, <3>1, <3>2 DEF Covered
    <2> QED
      BY <2>1, <2>2 DEF Fails, Returns
  <1>6. files' \subseteq Names /\ (files' = files \/ "exdir" \in Held)
    <2>1. CASE files' = files
      BY <1>1, <2>1 DEF TypeOK
    <2>2. CASE At("unzip") /\ \E extracted \in SUBSET Names : files' = files \cup extracted
      <3>1. /\ at \in DOMAIN Code /\ Code[at].do = "unzip" /\ Code[at].res = "exdir"
            /\ Covered(slot, at) /\ Code = Program[slot]
        BY <1>1, <2>2, StepFacts, CodeFacts
      <3> QED
        BY <1>1, <1>2, <2>2, <3>1 DEF Covered, TypeOK
    <2> QED
      BY <2>1, <2>2 DEF Fails, Returns, directory
  <1>7. TypeOK'
    BY <1>1, <1>4, <1>5, <1>6 DEF TypeOK
  <1>8. HeldInv'
    <2>1. ASSUME NEW res \in live, slot \in Eager
          PROVE  res \in Held
      BY <1>1, <1>3, <2>1 DEF IInv, HeldInv
    <2> QED
      BY <1>4, <1>5, <2>1 DEF HeldInv, Held
  <1>9. RunInv' /\ ExitInv'
    BY <1>2, <1>4 DEF IInv, RunInv, ExitInv, Held
  <1>10. FilesInv'
    BY <1>1, <1>4, <1>6 DEF IInv, FilesInv, Held
  <1> QED
    BY <1>7, <1>8, <1>9, <1>10 DEF IInv

\* What R turns to is held no longer, the rest still is.
LEMMA OnExitFacts ==
    ASSUME TypeOK, NEW undone, OnExit(undone)
    PROVE  /\ pc = "exit" /\ undone \in STRING
           /\ onexit' \in Seq(STRING) /\ Held \subseteq Held' \cup {undone}
  <1>1. /\ pc = "exit" /\ onexit \in Seq(STRING) /\ onexit # <<>>
        /\ undone = Head(onexit) /\ onexit' = Tail(onexit)
    BY DEF OnExit, TypeOK
  <1>2. /\ Tail(onexit) \in Seq(STRING) /\ Len(onexit) \in Nat \ {0}
        /\ Len(Tail(onexit)) = Len(onexit) - 1
        /\ \A k \in 1 .. Len(onexit) - 1 : Tail(onexit)[k] = onexit[k + 1]
        /\ Head(onexit) = onexit[1] /\ Head(onexit) \in STRING
    BY <1>1
  <1>3. ASSUME NEW k \in DOMAIN onexit, k # 1
        PROVE  onexit[k] \in Range(Tail(onexit))
    <2>1. k - 1 \in DOMAIN Tail(onexit) /\ Tail(onexit)[k - 1] = onexit[k]
      BY <1>1, <1>2, <1>3
    <2> QED
      BY <2>1 DEF Range
  <1>4. Range(onexit) \subseteq Range(Tail(onexit)) \cup {Head(onexit)}
    BY <1>2, <1>3 DEF Range
  <1> QED
    BY <1>1, <1>2, <1>4 DEF Held

\* An expression that on.exit() held has run or failed; the others still will.
LEMMA RunOnExitIInv ==
    ASSUME IInv, NEW undone, RunOnExit(undone) \/ OnExitFails(undone)
    PROVE  IInv'
  <1>1. TypeOK /\ OnExit(undone)
    BY DEF IInv, RunOnExit, OnExitFails
  <1>2. /\ pc = "exit" /\ undone \in STRING
        /\ onexit' \in Seq(STRING) /\ Held \subseteq Held' \cup {undone}
    BY <1>1, OnExitFacts
  <1>3. /\ pc' = pc /\ slot' = slot /\ at' = at /\ named' = named
        /\ leaked' = leaked /\ files' = files /\ listed' = listed
        /\ live' \subseteq live
        /\ \/ /\ undone # "exdir" /\ undone \notin live'
              /\ failed' = failed /\ torn' = torn
           \/ /\ failed' = failed \cup {undone}
              /\ undone = "exdir" => torn' = TRUE
              /\ undone # "exdir" => torn' = torn
    BY <1>1 DEF RunOnExit, OnExitFails, directory, history, TypeOK
  <1>4. TypeOK'
    BY <1>1, <1>2, <1>3 DEF TypeOK
  <1>5. HeldInv'
    BY <1>2, <1>3 DEF IInv, HeldInv
  <1>6. RunInv' /\ ExitInv'
    BY <1>2, <1>3 DEF IInv, RunInv, ExitInv
  <1>7. FilesInv'
    BY <1>1, <1>2, <1>3 DEF IInv, TypeOK, FilesInv
  <1> QED
    BY <1>4, <1>5, <1>6, <1>7 DEF IInv

LEMMA ListFilesIInv ==
    ASSUME IInv, ListFiles
    PROVE  IInv'
  <1>1. TypeOK /\ OnExit("exdir")
    BY DEF IInv, ListFiles
  <1>2. /\ pc = "exit" /\ onexit' \in Seq(STRING)
        /\ Held \subseteq Held' \cup {"exdir"}
    BY <1>1, OnExitFacts
  <1>3. /\ pc' = "unlink" /\ slot' = slot /\ at' = at /\ named' = named
        /\ leaked' = leaked /\ files' = files /\ listed' = files
        /\ live' = live /\ failed' = failed /\ torn' = torn
    BY DEF ListFiles, history
  <1>4. "exdir" \notin live
    BY <1>1 DEF IInv, TypeOK
  <1>5. TypeOK'
    BY <1>1, <1>2, <1>3 DEF TypeOK
  <1>6. RunInv' /\ FilesInv'
    BY <1>3 DEF IInv, RunInv, FilesInv
  <1>7. HeldInv' /\ ExitInv'
    BY <1>2, <1>3, <1>4 DEF IInv, HeldInv, ExitInv
  <1> QED
    BY <1>5, <1>6, <1>7 DEF IInv

\* A file that matches itself is there no longer when its name was turned to.
LEMMA UnlinkIInv ==
    ASSUME IInv, NEW n \in listed, Unlink(n)
    PROVE  IInv'
  <1>1. /\ TypeOK /\ pc = "unlink" /\ pc' = pc /\ slot' = slot /\ at' = at
        /\ live' = live /\ onexit' = onexit /\ leaked' = leaked
        /\ named' = named /\ failed' = failed /\ torn' = torn
        /\ files' = files \ Unlinked(n) /\ listed' = listed \ {n}
    BY DEF IInv, Unlink, history
  <1>2. TypeOK'
    BY <1>1 DEF TypeOK
  <1>3. RunInv' /\ HeldInv' /\ ExitInv'
    BY <1>1 DEF IInv, RunInv, HeldInv, ExitInv, Held
  <1>4. n \in Matches[n] => n \notin files'
    BY <1>1 DEF Unlinked
  <1>5. FilesInv'
    BY <1>1, <1>4 DEF IInv, TypeOK, FilesInv
  <1> QED
    BY <1>2, <1>3, <1>5 DEF IInv

\* The end of unlink(), by an error or not.
LEMMA UnlinkEndsIInv ==
    ASSUME IInv, UnlinkReturns \/ UnlinkFails
    PROVE  IInv'
  <1>1. /\ TypeOK /\ pc = "unlink" /\ pc' = "exit" /\ slot' = slot /\ at' = at
        /\ live' = live /\ onexit' = onexit /\ leaked' = leaked
        /\ named' = named /\ files' = files /\ listed' \subseteq listed
        /\ torn' \in BOOLEAN
        /\ failed' \in {failed, failed \cup {"exdir"}}
        /\ torn' \/ listed = {}
    BY DEF IInv, UnlinkReturns, UnlinkFails, history
  <1>2. TypeOK'
    <2>1. listed' \subseteq Names
      BY <1>1 DEF TypeOK
    <2>2. failed' \ {"exdir"} \subseteq STRING
      BY <1>1, Zenon DEF TypeOK
    <2> QED
      BY <1>1, <2>1, <2>2, Zenon DEF TypeOK
  <1>3. RunInv' /\ HeldInv' /\ ExitInv'
    BY <1>1 DEF IInv, RunInv, HeldInv, ExitInv, Held
  <1>4. FilesInv'
    BY <1>1 DEF IInv, TypeOK, FilesInv
  <1> QED
    BY <1>2, <1>3, <1>4 DEF IInv

\* Nothing is left of what on.exit() held, but what it failed to release.
LEMMA LeaveIInv ==
    ASSUME IInv, Leave
    PROVE  /\ IInv'
           /\ named \cap live \subseteq failed
           /\ slot \in Eager => live \subseteq failed
  <1>1. TypeOK /\ pc = "exit" /\ Held = {}
    BY DEF IInv, Leave, Held, Range
  <1>2. /\ pc' = "idle" /\ slot' = slot /\ at' = at /\ onexit' = onexit
        /\ named' = named /\ failed' = failed /\ files' = files
        /\ listed' = listed /\ torn' = torn
        /\ leaked' = leaked \cup (live \ failed) /\ live' = {}
    BY DEF Leave, directory, history
  <1>3. named \cap live \subseteq failed
    BY <1>1 DEF IInv, ExitInv
  <1>4. slot \in Eager => live \subseteq failed
    BY <1>1 DEF IInv, HeldInv
  <1>5. TypeOK'
    BY <1>1, <1>2 DEF TypeOK
  <1>6. RunInv' /\ HeldInv' /\ ExitInv'
    BY <1>2 DEF RunInv, HeldInv, ExitInv
  <1>7. FilesInv'
    BY <1>1, <1>2 DEF IInv, TypeOK, FilesInv
  <1> QED
    BY <1>3, <1>4, <1>5, <1>6, <1>7 DEF IInv

LEMMA CrashIInv ==
    ASSUME IInv, Crash
    PROVE  IInv'
  <1>1. TypeOK /\ <<>> \in Seq(STRING)
    BY DEF IInv
  <1>2. TypeOK'
    BY <1>1 DEF Crash, history, TypeOK
  <1>3. FilesInv'
    BY DEF IInv, Crash, FilesInv
  <1> QED
    BY <1>2, <1>3 DEF IInv, Crash, RunInv, HeldInv, ExitInv

LEMMA NextIInv == IInv /\ [Next]_vars => IInv'
  <1> SUFFICES ASSUME IInv, [Next]_vars
               PROVE  IInv'
    OBVIOUS
  <1>1. CASE UNCHANGED vars
    BY <1>1 DEF vars, directory, history, IInv, TypeOK, RunInv, HeldInv, ExitInv,
                FilesInv, Held, Soon
  <1>2. ASSUME NEW s \in Slots, Begin(s)
        PROVE  IInv'
    BY <1>2, BeginIInv
  <1>3. CASE StepOpen
    BY <1>3, OpenIInv
  <1>4. CASE StepDefer \/ StepDeferAdd
    BY <1>4, DeferIInv
  <1>5. CASE StepUse \/ StepClose
    BY <1>5, OtherIInv
  <1>6. CASE StepUnzip
    BY <1>6, UnzipIInv
  <1>7. CASE Fails \/ Returns
    BY <1>7, StoppedIInv
  <1>8. ASSUME NEW undone \in Range(onexit), RunOnExit(undone) \/ OnExitFails(undone)
        PROVE  IInv'
    BY <1>8, RunOnExitIInv
  <1>9. CASE ListFiles
    BY <1>9, ListFilesIInv
  <1>10. ASSUME NEW n \in listed, Unlink(n)
         PROVE  IInv'
    BY <1>10, UnlinkIInv
  <1>11. CASE UnlinkReturns \/ UnlinkFails
    BY <1>11, UnlinkEndsIInv
  <1>12. CASE Leave
    BY <1>12, LeaveIInv
  <1>13. CASE Crash
    BY <1>13, CrashIInv
  <1> QED
    BY ONLY [Next]_vars, <1>1, <1>2, <1>3, <1>4, <1>5, <1>6, <1>7, <1>8, <1>9,
            <1>10, <1>11, <1>12, <1>13
    DEF Next

LEMMA Invariance == Spec => []IInv
  BY InitIInv, NextIInv, PTL DEF Spec

\* zip.c:75: unlink(), which takes names for patterns, removes every extracted
\* file whose name matches itself, so that the next input finds none of these,
\* whatever fails while it extracts; only a crash or an error in unlink()
\* itself leaves them.
THEOREM PlainNamesAreRemoved == Spec => []PlainNamesRemoved
  <1>1. IInv => PlainNamesRemoved
    BY DEF IInv, FilesInv, PlainNamesRemoved
  <1> QED
    BY <1>1, Invariance, PTL

\* What a closure passed to on.exit() is released when it is left, at
\* whatever step an error stopped it (connections.c:107), also when the
\* release of something else failed.
THEOREM DeferredIsReleased == Spec => DeferredReleased
  <1>1. IInv /\ [Next]_vars => [Leave => named \cap live \subseteq failed]_vars
    BY LeaveIInv
  <1> QED
    BY <1>1, Invariance, PTL DEF Spec, DeferredReleased

\* Closures that register what they take before anything else can fail leave
\* no connection open and nothing changed, unless undoing that very thing
\* failed.
THEOREM EagerLeaveNothing == Spec => EagerLeavesNothing
  <1>1. IInv /\ [Next]_vars => [Leave /\ slot \in Eager => live \subseteq failed]_vars
    BY LeaveIInv
  <1> QED
    BY <1>1, Invariance, PTL DEF Spec, EagerLeavesNothing

-----------------------------------------------------------------------------
(* The locale *)

LEMMA LocaleInit == D!Init => D!IInv
  <1> SUFFICES ASSUME D!Init
               PROVE  D!IInv
    OBVIOUS
  <1>1. 0 \in D!CallNumbers
    BY LeftoversAssumption DEF D!CallNumbers, D!DatetimeLimits
  <1>2. D!TypeOK
    <2>1. -1 \in -1 .. 1
      OBVIOUS
    <2> QED
      BY <1>1, <2>1, Zenon DEF D!Init, D!TypeOK
  <1>3. D!CacheInv /\ D!ViewsAgree
    BY DEF D!Init, D!CacheInv, D!ViewsAgree
  <1> QED
    BY <1>2, <1>3 DEF D!IInv

LEMMA LocaleNext == D!IInv /\ [D!Next]_localeVars => D!IInv'
  <1> SUFFICES ASSUME D!IInv, [D!Next]_localeVars
               PROVE  D!IInv'
    OBVIOUS
  <1> USE LeftoversAssumption
      DEF D!DatetimeLimits, D!IInv, D!TypeOK, D!CacheInv, D!ViewsAgree, D!CallNumbers, D!Bit,
          D!Want, D!Asked, D!runner, D!views
  <1>1. CASE D!Probe
    BY <1>1 DEF D!Probe
  <1>2. CASE D!ProbeDone
    BY <1>2 DEF D!ProbeDone
  <1>3. ASSUME NEW s \in D!CallNumbers, D!Run(s)
        PROVE  D!IInv'
    BY <1>3 DEF D!Run
  <1>4. CASE D!NoSwitch
    BY <1>4 DEF D!NoSwitch
  <1>5. CASE D!Switch
    <2>1. D!Want \in BOOLEAN /\ D!Bit(D!Want) \in {0, 1} /\ (D!Bit(D!Want) = 1 => found)
      OBVIOUS
    <2>2. D!TypeOK'
      <3>1. D!Bit(D!Want) \in -1 .. 1
        BY <2>1
      <3> HIDE DEF D!Bit, D!Want
      <3> QED
        BY <1>5, <2>1, <3>1, Zenon DEF D!Switch
    <2>3. /\ D!Want' = D!Want /\ D!Bit(D!Want)' = D!Bit(D!Want)
          /\ D!Bit(cView)' = D!Bit(D!Want)
      BY <1>5 DEF D!Switch
    <2>4. D!CacheInv'
      BY <1>5, <2>1, <2>3 DEF D!Switch
    <2> QED
      BY <1>5, <2>2, <2>4 DEF D!Switch
  <1>6. CASE D!SwitchFails
    <2>1. D!Want \in BOOLEAN /\ D!Bit(D!Want) \in {0, 1} /\ (D!Bit(D!Want) = 1 => found)
      OBVIOUS
    <2>2. D!TypeOK'
      <3>1. D!Bit(D!Want) \in -1 .. 1
        BY <2>1
      <3> HIDE DEF D!Bit, D!Want
      <3> QED
        BY <1>6, <2>1, <3>1, Zenon DEF D!SwitchFails
    <2>3. D!CacheInv'
      BY <1>6, <2>1 DEF D!SwitchFails
    <2> QED
      BY <1>6, <2>2, <2>3 DEF D!SwitchFails
  <1>7. CASE D!Evaluated
    BY <1>7 DEF D!Evaluated
  <1>8. CASE UNCHANGED localeVars
    BY <1>8 DEF localeVars
  <1> QED
    BY ONLY [D!Next]_localeVars, <1>1, <1>2, <1>3, <1>4, <1>5, <1>6, <1>7, <1>8
    DEF D!Next

LocaleInv == subject = "locale" => D!IInv

LEMMA LocaleInvHolds == LeftoversSpec => []LocaleInv
  <1>1. LeftoversInit => LocaleInv
    BY LocaleInit DEF LeftoversInit, LocaleInv
  <1>2. LocaleInv /\ [LeftoversNext]_<<subject, vars, localeVars>> => LocaleInv'
    <2> SUFFICES ASSUME LocaleInv, [LeftoversNext]_<<subject, vars, localeVars>>,
                        subject' = "locale"
                 PROVE  D!IInv'
      BY DEF LocaleInv
    <2>1. subject = "locale" /\ [D!Next]_localeVars
      BY DEF LeftoversNext
    <2> QED
      BY <2>1, LocaleNext DEF LocaleInv
  <1> QED
    BY <1>1, <1>2, PTL DEF LeftoversSpec

\* R's cached view of LC_CTYPE and the C library's are the same whenever a
\* slot is prepared or run, the probing included, unless the last switch
\* failed, in whichever of its two ways (set_ctype).
THEOREM NoSplitView == LeftoversSpec => []ViewsAgree
  <1>1. LocaleInv => ViewsAgree
    BY DEF LocaleInv, D!IInv, ViewsAgree
  <1> QED
    BY <1>1, LocaleInvHolds, PTL

\* A slot runs in the LC_CTYPE it asks for, unless the last switch failed
\* (set_ctype).
THEOREM SlotsInTheirLocale == LeftoversSpec => []RightUnlessMissed
  <1>1. LocaleInv => RightUnlessMissed
    BY DEF LocaleInv, RightUnlessMissed, D!IInv, D!TypeOK, D!CacheInv, D!ViewsAgree,
           D!RightUnlessMissed, D!RightLocale, D!Bit, D!Want, D!Asked
  <1> QED
    BY <1>1, LocaleInvHolds, PTL
=============================================================================
