----------------------------- MODULE BuildTree ------------------------------
(***************************************************************************)
(* Where the R that is fuzzed comes from: docker/base/checkout-r.sh checks *)
(* out one revision of trunk from a server that may break off, and         *)
(* ossfuzz.sh puts the local patches on it, in order, each only if all of  *)
(* it applies.  The script may be stopped at any point and run again on    *)
(* the same tree, as local builds with R_SOURCE are.                       *)
(*                                                                         *)
(* A patch is a set of hunks.  A hunk may rewrite lines that a hunk of an  *)
(* earlier patch introduced; trunk may have taken over hunks, or have      *)
(* changed the lines that they need.                                       *)
(***************************************************************************)
EXTENDS Naturals

CONSTANTS
    Attempts,      \* ATTEMPTS
    MaxRevision,   \* bound on the revisions of trunk
    Parts,         \* what a working copy consists of
    NPatches,      \* patches, those in patches/ first
    NFixes,        \* how many are in patches/; the others in instrumentation/
    TwoHunks,      \* the patches of two hunks; the others have one
    MaxReruns      \* bound on the runs of ossfuzz.sh after the first

ASSUME BuildTreeAssumption ==
    /\ Attempts \in Nat \ {0} /\ MaxRevision \in Nat \ {0} /\ MaxReruns \in Nat
    /\ NPatches \in Nat /\ NFixes \in 0 .. NPatches /\ TwoHunks \subseteq 1 .. NPatches

HunksOf(k) == {<<k, 1>>} \cup (IF k \in TwoHunks THEN {<<k, 2>>} ELSE {})
Hunks      == UNION {HunksOf(k) : k \in 1 .. NPatches}

\* No hunk: what most hunks rewrite.
Plain == <<0, 0>>

VARIABLES
    pc,        \* "info", "cleanup", "fetch", "patches", "apply", "build",
               \* "refused", "killed" or "failed"
    trunk,     \* trunk's newest revision
    rev,       \* REV
    target,    \* the revision that the svn checkout under way asks for
    tries,     \* attempts made of the command at hand
    copy,      \* the revision of each part of the working copy, 0 if missing
    locked,    \* svn was interrupted in it
    cut,       \* history: how often the server or svn cleanup failed it
    rewrites,  \* the hunk whose lines a hunk rewrites, or Plain
    landed,    \* hunks that this revision of trunk has already
    drifted,   \* hunks whose lines it has changed otherwise
    tree,      \* the hunks in the source
    strict,    \* R_PATCH_STRICT
    at,        \* the patch it is at
    fixes,     \* it is in patches/
    misses,    \* n_already + n_failed
    torn,      \* history: patches in whose midst it was killed
    reruns

checkout == <<trunk, rev, target, tries, copy, locked, cut>>
revision == <<rewrites, landed, drifted, strict>>
series   == <<tree, at, fixes, misses, torn, reruns>>
vars     == <<pc, checkout, revision, series>>

Init ==
    /\ pc = "info"
    /\ trunk = 1 /\ rev = 0 /\ target = 0 /\ tries = 0
    /\ copy = [f \in Parts |-> 0]
    /\ locked = FALSE
    /\ cut = 0
    /\ rewrites = [h \in Hunks |-> Plain] /\ landed = {} /\ drifted = {}
    /\ strict \in BOOLEAN
    /\ tree = {} /\ at = 1 /\ fixes = TRUE /\ misses = 0 /\ torn = {} /\ reruns = 0

-----------------------------------------------------------------------------
(* checkout-r.sh *)

TrunkMoves ==
    /\ pc \in {"info", "cleanup", "fetch"}
    /\ trunk < MaxRevision
    /\ trunk' = trunk + 1
    /\ UNCHANGED <<pc, rev, target, tries, copy, locked, cut, revision, series>>

\* The function attempt: the command failed, and is tried again or not.
Again(command) ==
    /\ tries' = tries + 1
    /\ pc' = IF tries' < Attempts THEN command ELSE "failed"

Info ==
    /\ pc = "info"
    /\ rev' = trunk
    /\ tries' = 0 /\ cut' = 0
    /\ pc' = "cleanup"
    /\ UNCHANGED <<trunk, target, copy, locked, revision, series>>

InfoFails ==
    /\ pc = "info"
    /\ cut' = cut + 1
    /\ Again("info")
    /\ UNCHANGED <<trunk, rev, target, copy, locked, revision, series>>

\* A plausible checkout of whatever is newest.
ResumeNewest ==
    /\ pc = "cleanup"
    /\ locked' = FALSE
    /\ target' = trunk
    /\ pc' = "fetch"
    /\ UNCHANGED <<trunk, rev, tries, copy, cut, revision, series>>

\* A plausible retry without the clean-up.
ResumeLocked ==
    /\ pc = "cleanup"
    /\ target' = rev
    /\ pc' = "fetch"
    /\ UNCHANGED <<trunk, rev, tries, copy, locked, cut, revision, series>>

\* resume_checkout: svn cleanup where there is a working copy, and svn
\* checkout -r REV.
Resume ==
    /\ pc = "cleanup"
    /\ locked' = FALSE
    /\ target' = rev
    /\ pc' = "fetch"
    /\ UNCHANGED <<trunk, rev, tries, copy, cut, revision, series>>

\* The clean-up fails, unnoticed: errexit is off in what attempt runs.
CleanupFails ==
    /\ pc = "cleanup" /\ locked
    /\ cut' = cut + 1
    /\ target' = rev
    /\ pc' = "fetch"
    /\ UNCHANGED <<trunk, rev, tries, copy, locked, revision, series>>

\* svn brings what is missing or at another revision to the one asked for.
Fetch(f) ==
    /\ pc = "fetch" /\ ~locked
    /\ copy[f] # target
    /\ copy' = [copy EXCEPT ![f] = target]
    /\ UNCHANGED <<pc, trunk, rev, target, tries, locked, cut, revision, series>>

\* The server breaks off.
FetchCut ==
    /\ pc = "fetch" /\ ~locked
    /\ locked' = TRUE
    /\ cut' = cut + 1
    /\ Again("cleanup")
    /\ UNCHANGED <<trunk, rev, target, copy, revision, series>>

\* svn refuses a locked working copy.
FetchLocked ==
    /\ pc = "fetch" /\ locked
    /\ Again("cleanup")
    /\ UNCHANGED <<trunk, rev, target, copy, locked, cut, revision, series>>

\* It is complete, and the script's variables are gone with it.  What this
\* revision has of the patches, and has changed under them, is open; a hunk
\* that trunk took over took those below it along.
Fetched ==
    /\ pc = "fetch" /\ ~locked
    /\ \A f \in Parts : copy[f] = target
    /\ rewrites' \in {r \in [Hunks -> Hunks \cup {Plain}] : \A h \in Hunks : r[h][1] < h[1]}
    /\ landed' \in {l \in SUBSET Hunks : \A h \in l : rewrites'[h] \in l \cup {Plain}}
    /\ drifted' \in SUBSET (Hunks \ landed')
    /\ tree' = landed'
    /\ pc' = "patches"
    /\ tries' = 0 /\ cut' = 0 /\ target' = 0
    /\ UNCHANGED <<trunk, rev, copy, locked, strict, at, fixes, misses, torn, reruns>>

-----------------------------------------------------------------------------
(* apply_patch_dir of ossfuzz.sh, for one directory and then the other *)

Fits(t, h) == h \notin t \cup drifted /\ rewrites[h] \in t \cup {Plain}

\* patch --dry-run, and patch -R --dry-run.
Applies(t, k) == \A h \in HunksOf(k) : Fits(t, h)
Reverses(k)   == \A h \in HunksOf(k) : h \in tree /\ \A g \in tree : rewrites[g] # h

Last == IF fixes THEN NFixes ELSE NPatches

Trying == pc = "patches" /\ at <= Last

\* A plausible script that has no dry run: --force puts in the hunks that fit.
StartForced ==
    /\ Trying
    /\ \E h \in HunksOf(at) : Fits(tree, h)
    /\ pc' = "apply"
    /\ UNCHANGED <<checkout, revision, series>>

Start ==
    /\ Trying
    /\ Applies(tree, at)
    /\ pc' = "apply"
    /\ UNCHANGED <<checkout, revision, series>>

Left == {h \in HunksOf(at) : Fits(tree, h)}

\* patch proper, hunk by hunk ...
ApplyHunk ==
    /\ pc = "apply"
    /\ \E h \in Left : tree' = tree \cup {h}
    /\ UNCHANGED <<pc, checkout, revision, at, fixes, misses, torn, reruns>>

\* ... to the end.
Applied ==
    /\ pc = "apply"
    /\ Left = {}
    /\ at' = at + 1
    /\ pc' = "patches"
    /\ UNCHANGED <<checkout, revision, tree, fixes, misses, torn, reruns>>

\* A plausible test for "already applied" that lost its --dry-run.
AlreadyReversing ==
    /\ Trying
    /\ ~Applies(tree, at) /\ Reverses(at)
    /\ tree' = tree \ HunksOf(at)
    /\ at' = at + 1
    /\ misses' = misses + 1
    /\ UNCHANGED <<pc, checkout, revision, fixes, torn, reruns>>

Already ==
    /\ Trying
    /\ ~Applies(tree, at) /\ Reverses(at)
    /\ at' = at + 1
    /\ misses' = misses + 1
    /\ UNCHANGED <<pc, checkout, revision, tree, fixes, torn, reruns>>

Skip ==
    /\ Trying
    /\ ~Applies(tree, at) /\ ~Reverses(at)
    /\ at' = at + 1
    /\ misses' = misses + 1
    /\ UNCHANGED <<pc, checkout, revision, tree, fixes, torn, reruns>>

\* A plausible script that looks at the count once, at the end.
EndFixesUnchecked ==
    /\ pc = "patches" /\ fixes /\ at > Last
    /\ fixes' = FALSE
    /\ misses' = 0
    /\ UNCHANGED <<pc, checkout, revision, tree, at, torn, reruns>>

\* patches/ is done.
EndFixes ==
    /\ pc = "patches" /\ fixes /\ at > Last
    /\ IF strict /\ misses > 0
       THEN pc' = "refused" /\ UNCHANGED <<fixes, misses>>
       ELSE fixes' = FALSE /\ misses' = 0 /\ UNCHANGED pc
    /\ UNCHANGED <<checkout, revision, tree, at, torn, reruns>>

\* So is instrumentation/, and R is configured.
EndInstrumentation ==
    /\ pc = "patches" /\ ~fixes /\ at > Last
    /\ pc' = IF strict /\ misses > 0 THEN "refused" ELSE "build"
    /\ UNCHANGED <<checkout, revision, series>>

\* The script is stopped, in patch as elsewhere.
Killed ==
    /\ pc \in {"patches", "apply"}
    /\ pc' = "killed"
    /\ torn' = IF pc = "apply" /\ Left # {} /\ Left # HunksOf(at)
               THEN torn \cup {at} ELSE torn
    /\ UNCHANGED <<checkout, revision, tree, at, fixes, misses, reruns>>

Rerun ==
    /\ pc \in {"killed", "refused", "build"}
    /\ reruns < MaxReruns
    /\ reruns' = reruns + 1
    /\ at' = 1 /\ fixes' = TRUE /\ misses' = 0
    /\ pc' = "patches"
    /\ UNCHANGED <<checkout, revision, tree, torn>>

Next ==
    \/ TrunkMoves \/ Info \/ InfoFails \/ Resume \/ CleanupFails
    \/ \E f \in Parts : Fetch(f)
    \/ FetchCut \/ FetchLocked \/ Fetched
    \/ Start \/ ApplyHunk \/ Applied \/ Already \/ Skip
    \/ EndFixes \/ EndInstrumentation \/ Killed \/ Rerun

Spec == Init /\ [][Next]_vars

-----------------------------------------------------------------------------
(* Properties *)

\* The image build gives up only when server or clean-up failed as often as
\* there are attempts: none is lost to the lock that the one before left.
\* What it does not give up on is, whole, the revision it announced, however
\* trunk moved on between the attempts.
CheckoutResumed ==
    /\ pc = "failed" => cut >= Attempts
    /\ pc \in {"patches", "apply", "build"} => \A f \in Parts : copy[f] = rev

\* What one undisturbed run leaves of the first k patches.
After[k \in 0 .. NPatches] ==
    IF k = 0 THEN landed
    ELSE After[k - 1] \cup (IF Applies(After[k - 1], k) THEN HunksOf(k) ELSE {})

\* R is built with each patch whole or not at all, and running the script
\* again, after it finished or was killed between two patches, comes to the
\* tree that one undisturbed run comes to: what is in already is neither put
\* in twice nor taken out, also where a later patch rewrites the lines of an
\* earlier one so that neither test recognises it.
RerunAgrees == pc = "build" /\ torn = {} => tree = After[NPatches]

\* With R_PATCH_STRICT, R is only built from a tree that took every patch of
\* both directories, and of which trunk has nothing.
StrictTakesAll == pc = "build" /\ strict => tree = Hunks /\ landed = {}
=============================================================================
