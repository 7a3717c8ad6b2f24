-------------------------- MODULE BuildTree_proofs --------------------------
(***************************************************************************)
(* The resumed checkout, the strict patch series and the reruns of the     *)
(* patch series, for any number of attempts, revisions, parts, patches and *)
(* reruns.                                                                 *)
(***************************************************************************)
EXTENDS BuildTree, Integers, WellFoundedInduction, TLAPS

\* The script is past the checkout.
CheckedOut == {"patches", "apply", "build", "refused", "killed"}

Types ==
    /\ pc \in {"info", "cleanup", "fetch", "failed"} \cup CheckedOut
    /\ tries \in Nat /\ cut \in Nat
    /\ locked \in BOOLEAN
    /\ copy = [f \in Parts |-> copy[f]]

\* Every attempt so far was the server's fault, or that of a clean-up that
\* left the lock on which the attempt under way will fail.
AttemptsInv ==
    /\ pc \in {"info", "cleanup", "fetch"} => cut >= tries
    /\ pc = "fetch" /\ locked => cut >= tries + 1
    /\ pc = "failed" => cut >= Attempts

\* What is asked for, and then there, is the revision that was announced.
CopyInv ==
    /\ pc = "fetch" => target = rev
    /\ pc \in CheckedOut => \A f \in Parts : copy[f] = rev

\* Patch k went in, and trunk had nothing of it.
Taken(k) == HunksOf(k) \subseteq tree /\ HunksOf(k) \cap landed = {}

\* Patch k, which is being put in, will go in whole.
Going(k) ==
    \A h \in HunksOf(k) :
        /\ h \notin landed \cup drifted
        /\ h \in tree \/ rewrites[h] \in tree \cup {Plain}

\* Without a miss, a run has taken every patch it passed.
SeriesInv ==
    /\ at \in Nat \ {0} /\ misses \in Nat
    /\ strict \in BOOLEAN /\ fixes \in BOOLEAN
    /\ landed \subseteq tree /\ tree \subseteq Hunks
    /\ pc \in {"info", "cleanup", "fetch", "failed"} => tree = {} /\ at = 1
    /\ pc \in {"patches", "apply"} /\ strict /\ misses = 0 =>
           \A k \in 1 .. (at - 1) : Taken(k)
    /\ pc = "apply" => at \in 1 .. NPatches /\ Going(at)
    /\ pc = "build" /\ strict => \A k \in 1 .. NPatches : Taken(k)

\* What trunk is to the patches: a hunk can only need an earlier patch.
RevisionInv ==
    pc \in CheckedOut =>
        /\ landed \subseteq Hunks
        /\ rewrites \in [Hunks -> Hunks \cup {Plain}]
        /\ \A h \in Hunks : rewrites[h][1] < h[1]

\* The tree is that of an undisturbed run in the middle of patch at ...
Entering ==
    /\ Applies(After[at - 1], at)
    /\ After[at - 1] \subseteq tree
    /\ tree \subseteq After[at - 1] \cup HunksOf(at)

\* ... or after m of its patches, those the script is past among them.
AfterSome(first) == \E m \in 0 .. NPatches : first <= m /\ tree = After[m]

\* Unless patch was killed inside one, patches are in the tree whole.
WholeInv ==
    torn = {} =>
        /\ pc = "patches" => AfterSome(at - 1)
        /\ pc = "apply" => Entering
        /\ pc \in {"refused", "killed"} => AfterSome(0)
        /\ pc = "build" => tree = After[NPatches]

IInv == Types /\ AttemptsInv /\ CopyInv /\ SeriesInv /\ RevisionInv /\ WholeInv

-----------------------------------------------------------------------------

\* Induction over the numbers of the patches.
LEMMA SetInduction ==
    ASSUME NEW S, 0 \in S, \A n \in Nat : n \in S => n + 1 \in S
    PROVE  Nat \subseteq S
  <1> DEFINE R == OpToRel(<, Nat)
             T == Nat \ S
  <1>1. IsWellFoundedOn(R, Nat)
    BY NatLessThanWellFounded, Zenon
  <1>2. SUFFICES ASSUME T # {}
                 PROVE  FALSE
    OBVIOUS
  <1> HIDE DEF R
  <1>3. PICK x \in T : \A y \in T : ~ (<<y, x>> \in R)
    BY <1>1, <1>2, WFMin
  <1>4. x # 0 /\ x - 1 \in Nat
    BY <1>3
  <1>5. x - 1 \in T
    BY <1>3, <1>4
  <1>6. <<x - 1, x>> \in R
    BY <1>3, <1>4 DEF R, OpToRel
  <1> QED
    BY <1>3, <1>5, <1>6

\* After is well defined, by recursion over the patches.
LEMMA AfterDef ==
    After = [k \in 0 .. NPatches |->
               IF k = 0 THEN landed
               ELSE After[k - 1] \cup (IF Applies(After[k - 1], k) THEN HunksOf(k) ELSE {})]
  <1> DEFINE Step(t, k) == t \cup (IF Applies(t, k) THEN HunksOf(k) ELSE {})
             IsAfter(a, m) == a = [k \in 0 .. m |-> IF k = 0 THEN landed ELSE Step(a[k - 1], k)]
             S == {m \in Nat : \E a : IsAfter(a, m)}
  <1> HIDE DEF Step
  <1>1. 0 \in S
    <2>1. IsAfter([k \in 0 .. 0 |-> landed], 0)
      OBVIOUS
    <2> QED
      BY <2>1
  <1>2. ASSUME NEW m \in Nat, m \in S
        PROVE  m + 1 \in S
    <2>1. PICK a : IsAfter(a, m)
      BY <1>2
    <2> DEFINE b == [k \in 0 .. m + 1 |-> IF k = m + 1 THEN Step(a[m], m + 1) ELSE a[k]]
    <2>2. \A k \in 0 .. m : b[k] = a[k]
      OBVIOUS
    <2>3. \A k \in 0 .. m + 1 : k = 0 \/ k - 1 \in 0 .. m
      OBVIOUS
    <2>4. ASSUME NEW k \in 0 .. m + 1
          PROVE  b[k] = IF k = 0 THEN landed ELSE Step(b[k - 1], k)
      <3>1. CASE k = m + 1
        BY <3>1, <2>2
      <3>2. CASE k # m + 1
        <4>1. k \in 0 .. m /\ (k # 0 => k - 1 \in 0 .. m)
          BY <3>2
        <4>2. a[k] = IF k = 0 THEN landed ELSE Step(a[k - 1], k)
          BY <4>1, <2>1
        <4> QED
          BY <4>1, <4>2, <2>2
      <3> QED
        BY <3>1, <3>2
    <2> HIDE DEF b
    <2>5. b = [k \in 0 .. m + 1 |-> b[k]]
      BY DEF b
    <2>6. IsAfter(b, m + 1)
      BY <2>4, <2>5
    <2> QED
      BY <2>6
  <1>3. Nat \subseteq S
    BY <1>1, <1>2, SetInduction
  <1>4. \E a : IsAfter(a, NPatches)
    BY <1>3, BuildTreeAssumption
  <1> QED
    BY <1>4 DEF After, Step

\* The recursion equations, in any state.
LEMMA AfterStep ==
    /\ After[0] = landed
    /\ \A k \in 1 .. NPatches :
          After[k] = After[k - 1] \cup (IF Applies(After[k - 1], k) THEN HunksOf(k) ELSE {})
  <1> DEFINE Step(t, k) == t \cup (IF Applies(t, k) THEN HunksOf(k) ELSE {})
  <1> HIDE DEF Step
  <1>1. After = [k \in 0 .. NPatches |-> IF k = 0 THEN landed ELSE Step(After[k - 1], k)]
    BY AfterDef DEF Step
  <1>2. After[0] = landed
    BY <1>1, BuildTreeAssumption
  <1>3. \A k \in 1 .. NPatches : After[k] = Step(After[k - 1], k)
    BY <1>1, BuildTreeAssumption
  <1> QED
    BY <1>2, <1>3 DEF Step

LEMMA AfterFirst == After[0] = landed
  BY AfterStep

\* Later in the series there is more in the tree, all of it of later patches.
LEMMA AfterGrows ==
    ASSUME NEW k \in 0 .. NPatches
    PROVE  \A m \in k .. NPatches :
              /\ After[k] \subseteq After[m]
              /\ \A h \in After[m] \ After[k] : \E l \in k + 1 .. NPatches : h \in HunksOf(l)
  <1> DEFINE Grown(m) == /\ After[k] \subseteq After[m]
                         /\ \A h \in After[m] \ After[k] :
                               \E l \in k + 1 .. NPatches : h \in HunksOf(l)
             S == {d \in Nat : k + d <= NPatches => Grown(k + d)}
  <1>1. 0 \in S
    OBVIOUS
  <1>2. ASSUME NEW d \in Nat, d \in S
        PROVE  d + 1 \in S
    <2> SUFFICES ASSUME k + (d + 1) <= NPatches
                 PROVE  Grown(k + (d + 1))
      OBVIOUS
    <2> DEFINE l == k + d + 1
    <2>1. Grown(k + d)
      BY <1>2, BuildTreeAssumption
    <2>2. l \in 1 .. NPatches /\ l - 1 = k + d /\ l \in k + 1 .. NPatches
      BY BuildTreeAssumption
    <2> HIDE DEF l
    <2>3. /\ After[k + d] \subseteq After[l]
          /\ After[l] \ After[k + d] \subseteq HunksOf(l)
      BY <2>2, AfterStep
    <2>4. Grown(l)
      BY <2>1, <2>2, <2>3
    <2> QED
      BY <2>4 DEF l
  <1>3. Nat \subseteq S
    BY <1>1, <1>2, SetInduction
  <1> SUFFICES ASSUME NEW m \in k .. NPatches
               PROVE  Grown(m)
    OBVIOUS
  <1>4. m - k \in Nat /\ k + (m - k) = m /\ m <= NPatches
    BY BuildTreeAssumption
  <1>5. m - k \in S
    BY <1>3, <1>4
  <1> QED
    BY <1>4, <1>5

\* A patch that the series is past does not apply any more, whether it went
\* in, or could not then: nothing that it needs is in a later patch.
LEMMA Settled ==
    ASSUME RevisionInv, pc \in CheckedOut,
           NEW k \in 1 .. NPatches, NEW m \in k .. NPatches
    PROVE  ~ Applies(After[m], k)
  <1>1. After[k - 1] \subseteq After[k] /\ After[k] \subseteq After[m]
    BY AfterGrows, AfterStep, BuildTreeAssumption
  <1>2. CASE Applies(After[k - 1], k)
    <2>1. HunksOf(k) \subseteq After[m]
      BY <1>1, <1>2, AfterStep
    <2>2. <<k, 1>> \in HunksOf(k)
      BY DEF HunksOf
    <2> QED
      BY <2>1, <2>2 DEF Applies, Fits
  <1>3. CASE ~ Applies(After[k - 1], k)
    <2>1. PICK h \in HunksOf(k) : ~ Fits(After[k - 1], h)
      BY <1>3 DEF Applies
    <2>2. CASE h \in After[k - 1] \cup drifted
      BY <1>1, <2>1, <2>2 DEF Applies, Fits
    <2>3. CASE rewrites[h] \notin After[k - 1] \cup {Plain}
      <3>1. h \in Hunks /\ h[1] = k
        BY <2>1 DEF Hunks, HunksOf
      <3>2. rewrites[h][1] < k
        BY <3>1 DEF RevisionInv
      <3>3. k - 1 \in 0 .. NPatches /\ m \in (k - 1) .. NPatches
        BY BuildTreeAssumption
      <3>4. \A g \in After[m] \ After[k - 1] : \E l \in k .. NPatches : g \in HunksOf(l)
        BY <3>3, AfterGrows
      <3>5. \A g \in After[m] \ After[k - 1] : \E l \in k .. NPatches : g[1] = l
        BY <3>4 DEF HunksOf
      <3>6. rewrites[h] \notin After[m] \ After[k - 1]
        BY <3>2, <3>5
      <3> QED
        BY <2>1, <2>3, <3>6 DEF Applies, Fits
    <2> QED
      BY <2>1, <2>2, <2>3 DEF Fits
  <1> QED
    BY <1>2, <1>3

\* Once all of patch at is in, the tree is that of an undisturbed run past it.
LEMMA Entered ==
    ASSUME at \in 1 .. NPatches, Entering, Left = {}
    PROVE  tree = After[at]
  <1>1. ASSUME NEW h \in HunksOf(at)
        PROVE  h \in tree
    <2>1. h \notin drifted /\ rewrites[h] \in tree \cup {Plain}
      BY DEF Entering, Applies, Fits
    <2>2. ~ Fits(tree, h)
      BY DEF Left
    <2> QED
      BY <2>1, <2>2 DEF Fits
  <1>2. After[at] = After[at - 1] \cup HunksOf(at)
    BY AfterStep DEF Entering
  <1> QED
    BY <1>1, <1>2 DEF Entering

-----------------------------------------------------------------------------

LEMMA InitIInv == Init => IInv
  <1> SUFFICES ASSUME Init
               PROVE  IInv
    OBVIOUS
  <1> USE DEF Init
  <1>1. Types
    BY DEF Types, CheckedOut
  <1>2. AttemptsInv /\ CopyInv
    BY DEF AttemptsInv, CopyInv, CheckedOut
  <1>3. SeriesInv
    BY DEF SeriesInv
  <1>4. RevisionInv /\ WholeInv
    BY DEF RevisionInv, WholeInv, CheckedOut
  <1> QED
    BY <1>1, <1>2, <1>3, <1>4 DEF IInv

\* The types are kept.
LEMMA NextTypes == IInv /\ [Next]_vars => Types'
  <1> SUFFICES ASSUME IInv, [Next]_vars
               PROVE  Types'
    OBVIOUS
  <1> USE DEF IInv, Types, CheckedOut
  <1>1. CASE TrunkMoves
    BY <1>1 DEF TrunkMoves, checkout, revision, series
  <1>2. CASE Info
    BY <1>2 DEF Info, checkout, revision, series
  <1>3. CASE InfoFails
    BY <1>3 DEF InfoFails, Again, checkout, revision, series
  <1>4. CASE Resume
    BY <1>4 DEF Resume, checkout, revision, series
  <1>5. CASE CleanupFails
    BY <1>5 DEF CleanupFails, checkout, revision, series
  <1>6. ASSUME NEW f \in Parts, Fetch(f)
        PROVE  Types'
    BY <1>6 DEF Fetch, revision, series
  <1>7. CASE FetchCut
    BY <1>7 DEF FetchCut, Again, checkout, revision, series
  <1>8. CASE FetchLocked
    BY <1>8 DEF FetchLocked, Again, checkout, revision, series
  <1>9. CASE Fetched
    BY <1>9 DEF Fetched, checkout, revision, series
  <1>10. CASE Start
    BY <1>10 DEF Start, Trying, checkout, revision, series
  <1>11. CASE ApplyHunk
    BY <1>11 DEF ApplyHunk, checkout, revision, series
  <1>12. CASE Applied
    BY <1>12 DEF Applied, checkout, revision, series
  <1>13. CASE Already
    BY <1>13 DEF Already, Trying, checkout, revision, series
  <1>14. CASE Skip
    BY <1>14 DEF Skip, Trying, checkout, revision, series
  <1>15. CASE EndFixes
    BY <1>15 DEF EndFixes, checkout, revision, series
  <1>16. CASE EndInstrumentation
    BY <1>16 DEF EndInstrumentation, checkout, revision, series
  <1>17. CASE Killed
    BY <1>17 DEF Killed, checkout, revision, series
  <1>18. CASE Rerun
    BY <1>18 DEF Rerun, checkout, revision, series
  <1>19. CASE UNCHANGED vars
    BY <1>19 DEF vars, checkout, revision, series
  <1> QED
    BY ONLY [Next]_vars, <1>1, <1>2, <1>3, <1>4, <1>5, <1>6, <1>7, <1>8, <1>9, <1>10,
      <1>11, <1>12, <1>13, <1>14, <1>15, <1>16, <1>17, <1>18, <1>19 DEF Next

\* No attempt is lost but to the server or to a failed clean-up.
LEMMA NextAttemptsInv == IInv /\ [Next]_vars => AttemptsInv'
  <1> SUFFICES ASSUME IInv, [Next]_vars
               PROVE  AttemptsInv'
    OBVIOUS
  <1> USE BuildTreeAssumption DEF IInv, Types, AttemptsInv, CheckedOut
  <1>1. CASE TrunkMoves
    BY <1>1 DEF TrunkMoves, checkout, revision, series
  <1>2. CASE Info
    BY <1>2 DEF Info, checkout, revision, series
  <1>3. CASE InfoFails
    BY <1>3 DEF InfoFails, Again, checkout, revision, series
  <1>4. CASE Resume
    BY <1>4 DEF Resume, checkout, revision, series
  <1>5. CASE CleanupFails
    BY <1>5 DEF CleanupFails, checkout, revision, series
  <1>6. ASSUME NEW f \in Parts, Fetch(f)
        PROVE  AttemptsInv'
    BY <1>6 DEF Fetch, revision, series
  <1>7. CASE FetchCut
    BY <1>7 DEF FetchCut, Again, checkout, revision, series
  <1>8. CASE FetchLocked
    BY <1>8 DEF FetchLocked, Again, checkout, revision, series
  <1>9. CASE Fetched
    BY <1>9 DEF Fetched, checkout, revision, series
  <1>10. CASE Start
    BY <1>10 DEF Start, Trying, checkout, revision, series
  <1>11. CASE ApplyHunk
    BY <1>11 DEF ApplyHunk, checkout, revision, series
  <1>12. CASE Applied
    BY <1>12 DEF Applied, checkout, revision, series
  <1>13. CASE Already
    BY <1>13 DEF Already, Trying, checkout, revision, series
  <1>14. CASE Skip
    BY <1>14 DEF Skip, Trying, checkout, revision, series
  <1>15. CASE EndFixes
    BY <1>15 DEF EndFixes, checkout, revision, series
  <1>16. CASE EndInstrumentation
    BY <1>16 DEF EndInstrumentation, checkout, revision, series
  <1>17. CASE Killed
    BY <1>17 DEF Killed, checkout, revision, series
  <1>18. CASE Rerun
    BY <1>18 DEF Rerun, checkout, revision, series
  <1>19. CASE UNCHANGED vars
    BY <1>19 DEF vars, checkout, revision, series
  <1> QED
    BY ONLY [Next]_vars, <1>1, <1>2, <1>3, <1>4, <1>5, <1>6, <1>7, <1>8, <1>9, <1>10,
      <1>11, <1>12, <1>13, <1>14, <1>15, <1>16, <1>17, <1>18, <1>19 DEF Next

\* The revision is asked for once.
LEMMA NextCopyInv == IInv /\ [Next]_vars => CopyInv'
  <1> SUFFICES ASSUME IInv, [Next]_vars
               PROVE  CopyInv'
    OBVIOUS
  <1> USE DEF IInv, Types, CopyInv, CheckedOut
  <1>1. CASE TrunkMoves
    BY <1>1 DEF TrunkMoves, checkout, revision, series
  <1>2. CASE Info
    BY <1>2 DEF Info, checkout, revision, series
  <1>3. CASE InfoFails
    BY <1>3 DEF InfoFails, Again, checkout, revision, series
  <1>4. CASE Resume
    BY <1>4 DEF Resume, checkout, revision, series
  <1>5. CASE CleanupFails
    BY <1>5 DEF CleanupFails, checkout, revision, series
  <1>6. ASSUME NEW f \in Parts, Fetch(f)
        PROVE  CopyInv'
    BY <1>6 DEF Fetch, revision, series
  <1>7. CASE FetchCut
    BY <1>7 DEF FetchCut, Again, checkout, revision, series
  <1>8. CASE FetchLocked
    BY <1>8 DEF FetchLocked, Again, checkout, revision, series
  <1>9. CASE Fetched
    BY <1>9 DEF Fetched, checkout, revision, series
  <1>10. CASE Start
    BY <1>10 DEF Start, Trying, checkout, revision, series
  <1>11. CASE ApplyHunk
    BY <1>11 DEF ApplyHunk, checkout, revision, series
  <1>12. CASE Applied
    BY <1>12 DEF Applied, checkout, revision, series
  <1>13. CASE Already
    BY <1>13 DEF Already, Trying, checkout, revision, series
  <1>14. CASE Skip
    BY <1>14 DEF Skip, Trying, checkout, revision, series
  <1>15. CASE EndFixes
    BY <1>15 DEF EndFixes, checkout, revision, series
  <1>16. CASE EndInstrumentation
    BY <1>16 DEF EndInstrumentation, checkout, revision, series
  <1>17. CASE Killed
    BY <1>17 DEF Killed, checkout, revision, series
  <1>18. CASE Rerun
    BY <1>18 DEF Rerun, checkout, revision, series
  <1>19. CASE UNCHANGED vars
    BY <1>19 DEF vars, checkout, revision, series
  <1> QED
    BY ONLY [Next]_vars, <1>1, <1>2, <1>3, <1>4, <1>5, <1>6, <1>7, <1>8, <1>9, <1>10,
      <1>11, <1>12, <1>13, <1>14, <1>15, <1>16, <1>17, <1>18, <1>19 DEF Next

\* Patches go in whole, or count as misses.
LEMMA NextSeriesInv == IInv /\ [Next]_vars => SeriesInv'
  <1> SUFFICES ASSUME IInv, [Next]_vars
               PROVE  SeriesInv'
    OBVIOUS
  <1> USE BuildTreeAssumption DEF IInv, Types, SeriesInv, CheckedOut, Taken
  <1>1. CASE TrunkMoves
    BY <1>1 DEF TrunkMoves, checkout, revision, series
  <1>2. CASE Info
    BY <1>2 DEF Info, checkout, revision, series
  <1>3. CASE InfoFails
    BY <1>3 DEF InfoFails, Again, checkout, revision, series
  <1>4. CASE Resume
    BY <1>4 DEF Resume, checkout, revision, series
  <1>5. CASE CleanupFails
    BY <1>5 DEF CleanupFails, checkout, revision, series
  <1>6. ASSUME NEW f \in Parts, Fetch(f)
        PROVE  SeriesInv'
    BY <1>6 DEF Fetch, revision, series
  <1>7. CASE FetchCut
    BY <1>7 DEF FetchCut, Again, checkout, revision, series
  <1>8. CASE FetchLocked
    BY <1>8 DEF FetchLocked, Again, checkout, revision, series
  <1>9. CASE Fetched
    BY <1>9 DEF Fetched, checkout, revision, series
  <1>10. CASE Start
    <2>1. /\ pc = "patches" /\ pc' = "apply" /\ at <= Last /\ Applies(tree, at)
          /\ UNCHANGED <<landed, drifted, rewrites, strict, tree, at, fixes, misses>>
      BY <1>10 DEF Start, Trying, revision, series
    <2>2. at \in 1 .. NPatches
      BY <2>1 DEF Last
    <2>3. Going(at)
      BY <2>1 DEF Applies, Fits, Going
    <2>4. Going(at)'
      BY <2>1, <2>3 DEF Going
    <2> QED
      BY <2>1, <2>2, <2>4
  <1>11. CASE ApplyHunk
    <2>1. /\ pc = "apply" /\ pc' = pc
          /\ UNCHANGED <<landed, drifted, rewrites, strict, at, fixes, misses>>
      BY <1>11 DEF ApplyHunk, revision
    <2>2. PICK h \in Left : tree' = tree \cup {h}
      BY <1>11 DEF ApplyHunk
    <2>3. h \in Hunks
      BY <2>1, <2>2 DEF Left, Hunks
    <2>4. Going(at)'
      BY <2>1, <2>2 DEF Going
    <2>5. strict /\ misses = 0 => \A k \in 1 .. (at - 1) : Taken(k)'
      BY <2>1, <2>2
    <2> QED
      BY <2>1, <2>2, <2>3, <2>4, <2>5
  <1>12. CASE Applied
    <2>1. /\ pc = "apply" /\ pc' = "patches" /\ Left = {} /\ at' = at + 1
          /\ UNCHANGED <<landed, drifted, rewrites, strict, tree, fixes, misses>>
      BY <1>12 DEF Applied, revision
    <2>2. Taken(at)
      BY <2>1 DEF Going, Left, Fits
    <2>3. strict /\ misses = 0 => \A k \in 1 .. at : Taken(k)
      BY <2>1, <2>2
    <2>4. strict /\ misses = 0 => \A k \in 1 .. (at' - 1) : Taken(k)'
      BY <2>1, <2>3
    <2> QED
      BY <2>1, <2>4
  <1>13. CASE Already
    BY <1>13 DEF Already, Trying, checkout, revision, series
  <1>14. CASE Skip
    BY <1>14 DEF Skip, Trying, checkout, revision, series
  <1>15. CASE EndFixes
    <2>1. /\ pc = "patches"
          /\ \/ strict /\ misses > 0 /\ pc' = "refused" /\ UNCHANGED <<fixes, misses>>
             \/ ~(strict /\ misses > 0) /\ fixes' = FALSE /\ misses' = 0 /\ pc' = pc
          /\ UNCHANGED <<landed, strict, tree, at>>
      BY <1>15 DEF EndFixes, revision
    <2>2. CASE strict /\ misses > 0
      BY <2>1, <2>2
    <2>3. CASE ~(strict /\ misses > 0)
      <3>1. strict => misses = 0
        BY <2>3
      <3>2. /\ fixes' = FALSE /\ misses' = 0 /\ pc' = pc /\ pc = "patches"
            /\ UNCHANGED <<landed, strict, tree, at>>
        BY <2>1, <2>3
      <3>3. fixes' \in BOOLEAN /\ misses' \in Nat
        BY <3>2
      <3>4. strict => \A k \in 1 .. (at - 1) : Taken(k)
        BY <3>1, <3>2
      <3> QED
        BY <3>2, <3>3, <3>4
    <2> QED
      BY <2>2, <2>3
  <1>16. CASE EndInstrumentation
    <2>1. /\ pc = "patches" /\ at > NPatches
          /\ pc' = IF strict /\ misses > 0 THEN "refused" ELSE "build"
          /\ UNCHANGED <<landed, strict, tree, at, fixes, misses>>
      BY <1>16 DEF EndInstrumentation, Last, revision, series
    <2>2. ASSUME pc' = "build", strict
          PROVE  \A k \in 1 .. NPatches : Taken(k)
      BY <2>1, <2>2
    <2>3. (pc = "build" /\ strict => \A k \in 1 .. NPatches : Taken(k))'
      BY <2>1, <2>2
    <2> QED
      BY <2>1, <2>3
  <1>17. CASE Killed
    BY <1>17 DEF Killed, checkout, revision, series
  <1>18. CASE Rerun
    BY <1>18 DEF Rerun, checkout, revision, series
  <1>19. CASE UNCHANGED vars
    BY <1>19 DEF vars, checkout, revision, series, Going
  <1> QED
    BY ONLY [Next]_vars, <1>1, <1>2, <1>3, <1>4, <1>5, <1>6, <1>7, <1>8, <1>9, <1>10,
      <1>11, <1>12, <1>13, <1>14, <1>15, <1>16, <1>17, <1>18, <1>19 DEF Next

\* What trunk is to the patches is settled once, when the checkout is complete.
LEMMA NextRevisionInv == IInv /\ [Next]_vars => RevisionInv'
  <1> SUFFICES ASSUME IInv, [Next]_vars
               PROVE  RevisionInv'
    OBVIOUS
  <1> USE DEF IInv, RevisionInv, CheckedOut
  <1>1. CASE pc' \notin CheckedOut
    BY <1>1
  <1>2. CASE Fetched
    <2>1. /\ rewrites' \in [Hunks -> Hunks \cup {Plain}]
          /\ \A h \in Hunks : rewrites'[h][1] < h[1]
          /\ landed' \subseteq Hunks
      BY <1>2 DEF Fetched
    <2> QED
      BY <2>1
  <1>3. CASE pc \in CheckedOut /\ UNCHANGED revision
    BY <1>3 DEF revision
  <1>4. pc' \notin CheckedOut \/ Fetched \/ (pc \in CheckedOut /\ UNCHANGED revision)
    BY DEF Next, Types, TrunkMoves, Info, InfoFails, Resume, CleanupFails, Fetch, FetchCut,
      FetchLocked, Again, Start, Trying, ApplyHunk, Applied, Already, Skip, EndFixes,
      EndInstrumentation, Killed, Rerun, vars
  <1> QED
    BY <1>1, <1>2, <1>3, <1>4

LEMMA AfterSame == UNCHANGED revision => After' = After
  <1> SUFFICES ASSUME UNCHANGED revision
               PROVE  After' = After
    OBVIOUS
  <1>1. landed' = landed /\ rewrites' = rewrites /\ drifted' = drifted
    BY DEF revision
  <1> QED
    BY <1>1 DEF After, Applies, Fits

\* No patch is put into the tree in part or a second time, or lost from it.
LEMMA NextWholeInv == IInv /\ [Next]_vars => WholeInv'
  <1> SUFFICES ASSUME IInv, [Next]_vars, torn' = {}
               PROVE  /\ pc' = "patches" => AfterSome(at - 1)'
                      /\ pc' = "apply" => Entering'
                      /\ pc' \in {"refused", "killed"} => AfterSome(0)'
                      /\ pc' = "build" => tree' = After'[NPatches]
    BY DEF WholeInv
  <1> USE BuildTreeAssumption
  <1>1. pc \in {"patches", "apply"} => at \in Nat \ {0}
    BY DEF IInv, SeriesInv
  <1>2. CASE Fetched
    <2>1. pc' = "patches" /\ tree' = landed' /\ at' = 1
      BY <1>2 DEF Fetched, IInv, SeriesInv
    <2>2. (After[0] = landed)'
      BY AfterFirst, PTL
    <2> QED
      BY <2>1, <2>2 DEF AfterSome
  <1>3. CASE Start
    <2>1. /\ pc = "patches" /\ pc' = "apply" /\ at <= Last /\ Applies(tree, at) /\ torn = {}
          /\ UNCHANGED <<revision, tree, at>>
      BY <1>3 DEF Start, Trying, series
    <2>2. at \in 1 .. NPatches
      BY <2>1, <1>1 DEF Last
    <2>3. PICK m \in 0 .. NPatches : at - 1 <= m /\ tree = After[m]
      BY <2>1 DEF IInv, WholeInv, AfterSome
    <2>4. ~ (m \in at .. NPatches)
      BY <2>1, <2>2, <2>3, Settled DEF IInv, CheckedOut
    <2>5. m = at - 1
      BY <2>2, <2>3, <2>4
    <2>6. Entering
      BY <2>1, <2>3, <2>5 DEF Entering
    <2>7. Entering'
      BY <2>1, <2>6, AfterSame DEF Entering, Applies, Fits, revision
    <2> QED
      BY <2>1, <2>7
  <1>4. CASE ApplyHunk
    <2>1. pc = "apply" /\ pc' = pc /\ torn = {} /\ UNCHANGED <<revision, at>>
      BY <1>4 DEF ApplyHunk
    <2>2. PICK h \in HunksOf(at) : tree' = tree \cup {h}
      BY <1>4 DEF ApplyHunk, Left
    <2>3. Entering
      BY <2>1 DEF IInv, WholeInv
    <2>4. Entering'
      BY <2>1, <2>2, <2>3, AfterSame DEF Entering, Applies, Fits, revision
    <2> QED
      BY <2>1, <2>4
  <1>5. CASE Applied
    <2>1. /\ pc = "apply" /\ pc' = "patches" /\ Left = {} /\ at' = at + 1 /\ torn = {}
          /\ UNCHANGED <<revision, tree>>
      BY <1>5 DEF Applied
    <2>2. at \in 1 .. NPatches
      BY <2>1 DEF IInv, SeriesInv
    <2>3. tree = After[at]
      BY <2>1, <2>2, Entered DEF IInv, WholeInv
    <2>4. at' - 1 = at /\ tree' = After'[at]
      BY <2>1, <2>2, <2>3, AfterSame
    <2> QED
      BY <2>1, <2>2, <2>4 DEF AfterSome
  <1>6. CASE Already \/ Skip
    <2>1. /\ pc = "patches" /\ pc' = pc /\ at <= Last /\ ~ Applies(tree, at) /\ torn = {}
          /\ at' = at + 1 /\ UNCHANGED <<revision, tree>>
      BY <1>6 DEF Already, Skip, Trying
    <2>2. at \in 1 .. NPatches
      BY <2>1, <1>1 DEF Last
    <2>3. PICK m \in 0 .. NPatches : at - 1 <= m /\ tree = After[m]
      BY <2>1 DEF IInv, WholeInv, AfterSome
    <2>4. CASE m = at - 1
      <3>1. After[at] = tree
        BY <2>1, <2>2, <2>3, <2>4, AfterStep
      <3> QED
        BY <2>1, <2>2, <3>1, AfterSame DEF AfterSome
    <2>5. CASE at <= m
      <3>1. at' - 1 <= m /\ tree' = After'[m]
        BY <2>1, <2>2, <2>3, <2>5, AfterSame
      <3> QED
        BY <2>1, <2>3, <3>1 DEF AfterSome
    <2> QED
      BY <2>2, <2>3, <2>4, <2>5
  <1>7. CASE EndFixes \/ EndInstrumentation
    <2>1. /\ pc = "patches" /\ at > Last /\ torn = {} /\ UNCHANGED <<revision, tree, at>>
          /\ pc' \in {"refused", "patches", "build"}
          /\ pc' = "build" => ~ fixes
      BY <1>7 DEF EndFixes, EndInstrumentation, series
    <2>2. PICK m \in 0 .. NPatches : at - 1 <= m /\ tree = After[m]
      BY <2>1 DEF IInv, WholeInv, AfterSome
    <2>3. at' - 1 <= m /\ 0 <= m /\ tree' = After'[m]
      BY <2>1, <2>2, AfterSame
    <2>4. pc' = "build" => m = NPatches
      BY <1>1, <2>1, <2>2 DEF Last
    <2> QED
      BY <2>1, <2>3, <2>4 DEF AfterSome
  <1>8. CASE Killed
    <2>1. /\ pc \in {"patches", "apply"} /\ pc' = "killed" /\ torn = {}
          /\ pc = "apply" => Left = {} \/ Left = HunksOf(at)
          /\ UNCHANGED <<revision, tree>>
      BY <1>8 DEF Killed
    <2>2. CASE pc = "patches"
      <3>1. PICK m \in 0 .. NPatches : at - 1 <= m /\ tree = After[m]
        BY <2>1, <2>2 DEF IInv, WholeInv, AfterSome
      <3>2. 0 <= m /\ tree' = After'[m]
        BY <2>1, <3>1, AfterSame
      <3> QED
        BY <2>1, <3>2 DEF AfterSome
    <2>3. CASE pc = "apply" /\ Left = {}
      <3>1. at \in 1 .. NPatches
        BY <2>3 DEF IInv, SeriesInv
      <3>2. tree = After[at]
        BY <2>1, <2>3, <3>1, Entered DEF IInv, WholeInv
      <3>3. at \in 0 .. NPatches /\ 0 <= at /\ tree' = After'[at]
        BY <2>1, <3>1, <3>2, AfterSame
      <3> QED
        BY <2>1, <3>3 DEF AfterSome
    <2>4. CASE pc = "apply" /\ Left = HunksOf(at)
      <3>1. at \in 1 .. NPatches
        BY <2>4 DEF IInv, SeriesInv
      <3>2. HunksOf(at) \cap tree = {}
        BY <2>4 DEF Left, Fits
      <3>3. tree = After[at - 1]
        BY <2>1, <2>4, <3>2 DEF IInv, WholeInv, Entering
      <3>4. at - 1 \in 0 .. NPatches /\ 0 <= at - 1 /\ tree' = After'[at - 1]
        BY <2>1, <3>1, <3>3, AfterSame
      <3> QED
        BY <2>1, <3>4 DEF AfterSome
    <2> QED
      BY <2>1, <2>2, <2>3, <2>4
  <1>9. CASE Rerun
    <2>1. /\ pc \in {"killed", "refused", "build"} /\ pc' = "patches" /\ at' = 1 /\ torn = {}
          /\ UNCHANGED <<revision, tree>>
      BY <1>9 DEF Rerun
    <2>2. PICK m \in 0 .. NPatches : tree = After[m]
      BY <2>1 DEF IInv, WholeInv, AfterSome
    <2>3. at' - 1 <= m /\ tree' = After'[m]
      BY <2>1, <2>2, AfterSame
    <2> QED
      BY <2>1, <2>3 DEF AfterSome
  <1>10. CASE pc' \notin CheckedOut
    BY <1>10 DEF CheckedOut
  <1>11. CASE UNCHANGED vars
    <2>1. UNCHANGED <<pc, revision, tree, at, torn>>
      BY <1>11 DEF vars, series
    <2>2. Entering' = Entering
      BY <2>1, AfterSame DEF Entering, Applies, Fits, revision
    <2> QED
      BY <2>1, <2>2, AfterSame DEF IInv, WholeInv, AfterSome
  <1>12. TrunkMoves \/ Info \/ InfoFails \/ Resume \/ CleanupFails \/ (\E f \in Parts : Fetch(f))
           \/ FetchCut \/ FetchLocked => pc' \notin CheckedOut
    BY DEF TrunkMoves, Info, InfoFails, Resume, CleanupFails, Fetch, FetchCut, FetchLocked,
      Again, CheckedOut
  <1> QED
    BY ONLY [Next]_vars, <1>2, <1>3, <1>4, <1>5, <1>6, <1>7, <1>8, <1>9, <1>10, <1>11,
      <1>12 DEF Next

-----------------------------------------------------------------------------

LEMMA Invariance == Spec => []IInv
  <1>1. IInv /\ [Next]_vars => IInv'
    BY NextTypes, NextAttemptsInv, NextCopyInv, NextSeriesInv, NextRevisionInv, NextWholeInv
      DEF IInv
  <1> QED
    BY <1>1, InitIInv, PTL DEF Spec

\* checkout-r.sh gives up only when the server or svn cleanup has failed it as
\* often as it has attempts, and otherwise hands on the announced revision,
\* whole, wherever the attempts broke off and however trunk moved.
THEOREM CheckoutSound == Spec => []CheckoutResumed
  <1>1. IInv => CheckoutResumed
    BY DEF IInv, AttemptsInv, CopyInv, CheckedOut, CheckoutResumed
  <1> QED
    BY <1>1, Invariance, PTL

\* With R_PATCH_STRICT, ossfuzz.sh builds R only from a tree in which every
\* patch of both directories was put by the script and none by trunk, after
\* any history of killed, refused and finished runs.
THEOREM StrictSound == Spec => []StrictTakesAll
  <1>1. IInv => StrictTakesAll
    <2> SUFFICES ASSUME IInv, pc = "build", strict
                 PROVE  tree = Hunks /\ landed = {}
      BY DEF StrictTakesAll
    <2>1. \A k \in 1 .. NPatches : Taken(k)
      BY DEF IInv, SeriesInv
    <2>2. tree = Hunks
      BY <2>1 DEF IInv, SeriesInv, Taken, Hunks
    <2>3. landed = {}
      BY <2>1 DEF IInv, SeriesInv, Taken, Hunks
    <2> QED
      BY <2>2, <2>3
  <1> QED
    BY <1>1, Invariance, PTL

\* ossfuzz.sh, run as often as one likes on one tree, killed between patches or
\* refused, builds R only from the tree that one undisturbed run leaves, in
\* which each patch is whole or absent: for any patches of one or two hunks
\* that rewrite each other's lines, and whatever trunk has of them.
THEOREM RerunSound == Spec => []RerunAgrees
  <1>1. IInv => RerunAgrees
    BY DEF IInv, WholeInv, RerunAgrees
  <1> QED
    BY <1>1, Invariance, PTL
=============================================================================
