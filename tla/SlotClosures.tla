---------------------------- MODULE SlotClosures ----------------------------
(***************************************************************************)
(* What the R closures of the harnesses leave behind.  A closure opens     *)
(* connections, changes R's palette or options, or extracts files, and     *)
(* registers with on.exit() what undoes it.  Any R call in it may fail, at *)
(* which point R leaves the closure and runs what on.exit() holds then: a  *)
(* plain on.exit() replaces what was registered before, add = TRUE appends *)
(* to it.  The process goes on to the next input, unless the input crashes *)
(* it: then AFL++'s forkserver goes on with a new child, in which R is as  *)
(* it was after fuzz_target_init and only files survive.                   *)
(*                                                                         *)
(* What on.exit() runs is R code that may fail too.  The extraction's is   *)
(* unlink() on what list.files() found, and unlink() takes each name for a *)
(* pattern first: a name removes the files it matches, or, if it matches   *)
(* none, the file of that very name.                                       *)
(*                                                                         *)
(* A closure is a sequence of the steps that can matter; what it reads and *)
(* computes in between is one "use" of the resources it needs.             *)
(***************************************************************************)
EXTENDS Naturals, Sequences, Functions

CONSTANTS
    Program,   \* the closures, each a sequence of steps
    Slots,     \* the ones run
    Eager,     \* those that register what undoes a step before the next can fail
    Matches    \* the names that an archive's entries can have, numbered as
               \* list.files() sorts them: which of them each matches

-----------------------------------------------------------------------------
(* Steps *)

\* res comes into being, or, if the call fails, does not.
Open(res) == <<[do |-> "open", res |-> res]>>

\* on.exit(<release res>), and with add = TRUE.
Defer(res)    == <<[do |-> "defer", res |-> res]>>
DeferAdd(res) == <<[do |-> "add", res |-> res]>>

\* R code that needs res alive.
Use(res) == <<[do |-> "use", res |-> res]>>

\* R code that needs nothing.
Compute == <<[do |-> "use", res |-> "none"]>>

Close(res) == <<[do |-> "close", res |-> res]>>

\* A change that a failure may leave half done.
Change(res) == <<[do |-> "change", res |-> res]>>

\* unzip() into the scratch directory.
Unzip == <<[do |-> "unzip", res |-> "exdir"]>>

-----------------------------------------------------------------------------
(* The closures *)

\* wrapper_lines, _chars, _scan, _compressed_bin, _compressed_text, _raw.
Reader == Open("con") \o Defer("con") \o Use("con")

\* wrapper_chunks: file() makes the connection, open() may fail after it.
Chunks == Open("con") \o Use("con") \o Defer("con") \o Use("con")

\* wrapper_gzcon: gzcon() takes over the connection of file(), or fails.
Gzcon == Open("con") \o Use("con") \o Defer("con") \o Use("con")

\* A plausible wrapper_pushback without add = TRUE.
PushbackReplacing ==
    Open("con") \o Defer("con") \o Use("con")
        \o Open("tc") \o Defer("tc") \o Use("tc")

Pushback ==
    Open("con") \o Defer("con") \o Use("con")
        \o Open("tc") \o DeferAdd("tc") \o Use("tc")

\* wrapper_write: three writers and a reader.
Write ==
    Open("rc") \o Use("rc") \o Close("rc")
        \o Open("out") \o Defer("out") \o Use("out")
        \o Open("tc") \o DeferAdd("tc") \o Use("tc")
        \o Open("gz") \o Use("gz") \o Close("gz")

\* The closures of io.c, readtable.c, dcf.c and rd.c that open a connection.
Text == Open("con") \o Defer("con") \o Use("con")

\* unserialize.c's last slot, through gzcon().
Unserialize == Open("con") \o Use("con") \o Defer("con") \o Use("con")

\* A plausible extraction that registers the removal when it is done.
ExtractLate == Unzip \o Defer("exdir")

\* zip.c: extraction, and reading the first entry.
Extract == Defer("exdir") \o Unzip

Unz == Compute \o Open("con") \o Defer("con") \o Use("con")

\* A plausible slot that registers the reset after the change.
PaletteLate == Compute \o Change("palette") \o Defer("palette") \o Use("palette")

\* colors.c: slot 2, and slot 15 after its charToRaw().
Palette == Compute \o Defer("palette") \o Change("palette") \o Use("palette")

\* format.c: options() sets three of them, one after the other.
Options == Compute \o Change("options") \o Defer("options") \o Use("options")

Closures ==
    [reader |-> Reader, chunks |-> Chunks, gzcon |-> Gzcon,
     pushback |-> Pushback, write |-> Write, text |-> Text,
     unserialize |-> Unserialize, extract |-> Extract, unz |-> Unz,
     palette |-> Palette, options |-> Options]

\* The names "[a]", "a", "a*" and "b", as the C locale sorts them.
Globs == <<{2}, {2}, {2, 3}, {4}>>

-----------------------------------------------------------------------------
(* What a closure must be like, by its steps alone, to leave nothing *)

Steps == [do : {"open", "defer", "add", "use", "close", "change", "unzip"}, res : STRING]

\* What the steps before step k pass to on.exit().
Registered(s, k) ==
    {Program[s][j].res : j \in {j \in DOMAIN Program[s] :
                                   j < k /\ Program[s][j].do \in {"defer", "add"}}}

\* Only the first on.exit() of a closure does without add = TRUE.
Appends(s) ==
    \A k \in DOMAIN Program[s] : Program[s][k].do = "defer" => Registered(s, k) = {}

\* What step k takes is registered by then, or, if it takes all or nothing, by
\* the next step at the latest.
Covered(s, k) ==
    CASE Program[s][k].do = "open" -> Program[s][k].res \in Registered(s, k + 2)
      [] Program[s][k].do \in {"change", "unzip"} ->
            Program[s][k].res \in Registered(s, k)
      [] OTHER -> TRUE

ASSUME SlotClosuresAssumption ==
    /\ Slots \subseteq DOMAIN Program
    /\ \A s \in Slots :
          /\ Program[s] \in Seq(Steps)
          /\ Appends(s)
          /\ \A k \in DOMAIN Program[s] :
                s \in Eager \/ Program[s][k].do = "unzip" => Covered(s, k)
          /\ \A k \in DOMAIN Program[s] :
                Program[s][k].do = "unzip" <=> Program[s][k].do \notin {"defer", "add"}
                                              /\ Program[s][k].res = "exdir"
    /\ DOMAIN Matches \subseteq Nat

Connections == {"con", "tc", "rc", "out", "gz"}

Names == DOMAIN Matches

-----------------------------------------------------------------------------

VARIABLES
    pc,       \* "idle", in the closure ("run"), leaving it ("exit") or, doing
              \* that, in unlink() ("unlink")
    slot,     \* the closure
    at,       \* its next step
    live,     \* what this run holds: open, or changed from its default
    onexit,   \* what on.exit() holds
    leaked,   \* what earlier runs left in the process and never tried to undo
    files,    \* the files in the scratch directory
    listed,   \* those that list.files() found and unlink() has still to turn to
    named,    \* history: what this run has passed to on.exit()
    failed,   \* history: what its on.exit() failed to undo
    torn      \* history: since unlink() last went through the directory it was
              \* broken off, or kept from running by a crash

directory == <<files, listed, torn>>
history == <<named, failed>>
vars == <<pc, slot, at, live, onexit, leaked, directory, history>>

Init ==
    /\ pc = "idle"
    /\ slot \in Slots
    /\ at = 1
    /\ live = {}
    /\ onexit = <<>>
    /\ leaked = {}
    /\ files = {}
    /\ listed = {}
    /\ named = {}
    /\ failed = {}
    /\ torn = FALSE

\* fuzz_eval_silent on the selected call.
Begin(s) ==
    /\ pc = "idle"
    /\ pc' = "run"
    /\ slot' = s
    /\ at' = 1
    /\ live' = {}
    /\ onexit' = <<>>
    /\ named' = {}
    /\ failed' = {}
    /\ UNCHANGED <<leaked, directory>>

\* A plausible extraction that registers the removal when it is done.
CodeUntidy == IF slot = "extract" THEN ExtractLate ELSE Program[slot]

\* A plausible wrapper_pushback without add = TRUE.
CodeReplacing == IF slot = "pushback" THEN PushbackReplacing ELSE Program[slot]

\* A plausible slot of colors.c that registers the reset after the change.
CodeLate == IF slot = "palette" THEN PaletteLate ELSE Program[slot]

\* The closure of the call that fuzz_eval_silent evaluates.
Code == Program[slot]

At(do) ==
    /\ pc = "run"
    /\ at \in DOMAIN Code
    /\ Code[at].do = do

Res == Code[at].res

StepOpen ==
    /\ At("open") \/ At("change")
    /\ live' = live \cup {Res}
    /\ at' = at + 1
    /\ UNCHANGED <<pc, slot, onexit, leaked, directory, history>>

StepDefer ==
    /\ At("defer")
    /\ onexit' = <<Res>>
    /\ named' = named \cup {Res}
    /\ at' = at + 1
    /\ UNCHANGED <<pc, slot, live, leaked, directory, failed>>

StepDeferAdd ==
    /\ At("add")
    /\ onexit' = Append(onexit, Res)
    /\ named' = named \cup {Res}
    /\ at' = at + 1
    /\ UNCHANGED <<pc, slot, live, leaked, directory, failed>>

StepUse ==
    /\ At("use")
    /\ at' = at + 1
    /\ UNCHANGED <<pc, slot, live, onexit, leaked, directory, history>>

StepClose ==
    /\ At("close")
    /\ live' = live \ {Res}
    /\ at' = at + 1
    /\ UNCHANGED <<pc, slot, onexit, leaked, directory, history>>

\* Entries with any of the names may come out of the archive.
StepUnzip ==
    /\ At("unzip")
    /\ \E extracted \in SUBSET Names : files' = files \cup extracted
    /\ at' = at + 1
    /\ UNCHANGED <<pc, slot, live, onexit, leaked, listed, torn, history>>

\* An R error: nothing more of the closure runs.  A failed change may have
\* been half made, and some entries may have been extracted.
Fails ==
    /\ \/ (At("open") \/ At("use")) /\ UNCHANGED <<live, files>>
       \/ At("change") /\ live' \in {live, live \cup {Res}} /\ UNCHANGED files
       \/ /\ At("unzip")
          /\ \E extracted \in SUBSET Names : files' = files \cup extracted
          /\ UNCHANGED live
    /\ pc' = "exit"
    /\ UNCHANGED <<slot, at, onexit, leaked, listed, torn, history>>

Returns ==
    /\ pc = "run"
    /\ at \notin DOMAIN Code
    /\ pc' = "exit"
    /\ UNCHANGED <<slot, at, live, onexit, leaked, directory, history>>

\* R turns to the next of the expressions that on.exit() holds.
OnExit(undone) ==
    /\ pc = "exit"
    /\ onexit # <<>>
    /\ undone = Head(onexit)
    /\ onexit' = Tail(onexit)

RunOnExit(undone) ==
    /\ OnExit(undone)
    /\ undone # "exdir"
    /\ live' = live \ {undone}
    /\ UNCHANGED <<pc, slot, at, leaked, directory, history>>

\* It fails, with or without effect; R goes on to the next.
OnExitFails(undone) ==
    /\ OnExit(undone)
    /\ live' \in {live, live \ {undone}}
    /\ failed' = failed \cup {undone}
    /\ torn' = (torn \/ undone = "exdir")
    /\ UNCHANGED <<pc, slot, at, leaked, files, listed, named>>

\* unlink(list.files(exdir, ...)): the names, as they are now...
ListFiles ==
    /\ OnExit("exdir")
    /\ pc' = "unlink"
    /\ listed' = files
    /\ UNCHANGED <<slot, at, live, leaked, files, torn, history>>

\* ... and what a name makes unlink() remove.
Unlinked(n) == IF Matches[n] \cap files = {} THEN {n} ELSE Matches[n]

Unlink(n) ==
    /\ pc = "unlink"
    /\ n \in listed
    /\ \A m \in listed : n <= m
    /\ files' = files \ Unlinked(n)
    /\ listed' = listed \ {n}
    /\ UNCHANGED <<pc, slot, at, live, onexit, leaked, torn, history>>

UnlinkReturns ==
    /\ pc = "unlink"
    /\ listed = {}
    /\ pc' = "exit"
    /\ torn' = FALSE
    /\ UNCHANGED <<slot, at, live, onexit, leaked, files, listed, history>>

\* An error between two names, for want of memory.
UnlinkFails ==
    /\ pc = "unlink"
    /\ pc' = "exit"
    /\ listed' = {}
    /\ torn' = TRUE
    /\ failed' = failed \cup {"exdir"}
    /\ UNCHANGED <<slot, at, live, onexit, leaked, files, named>>

\* Back in the harness; what is still live stays that way.
Leave ==
    /\ pc = "exit"
    /\ onexit = <<>>
    /\ pc' = "idle"
    /\ leaked' = leaked \cup (live \ failed)
    /\ live' = {}
    /\ UNCHANGED <<slot, at, onexit, directory, history>>

\* The process dies in the closure or is killed leaving it, and a new child
\* takes the next input.
Crash ==
    /\ pc # "idle"
    /\ pc' = "idle"
    /\ torn' = (torn \/ files # {})
    /\ leaked' = {}
    /\ live' = {}
    /\ onexit' = <<>>
    /\ listed' = {}
    /\ UNCHANGED <<slot, at, files, history>>

Next ==
    \/ \E s \in Slots : Begin(s)
    \/ StepOpen \/ StepDefer \/ StepDeferAdd \/ StepUse \/ StepClose \/ StepUnzip
    \/ Fails \/ Returns
    \/ \E undone \in Range(onexit) : RunOnExit(undone) \/ OnExitFails(undone)
    \/ ListFiles \/ (\E n \in listed : Unlink(n)) \/ UnlinkReturns \/ UnlinkFails
    \/ Leave \/ Crash

Spec == Init /\ [][Next]_vars

-----------------------------------------------------------------------------
(* Properties *)

\* Whichever step fails, an eager closure leaves no connection open and the
\* palette as it was, unless undoing that very thing was tried and failed.
EagerLeavesNothing == [][Leave /\ slot \in Eager => live \subseteq failed]_vars

\* connections.c:13, of every slot: "an R closure that closes its connection
\* on exit".
ClosesOnExit == leaked \cap Connections = {}

\* What was passed to on.exit() is released when the closure is left, at
\* whatever point, also when a second resource was passed after it, or its
\* release was tried and failed.
DeferredReleased == [][Leave => named \cap live \subseteq failed]_vars

\* zip.c:36: the wrapper empties the directory again on exit, error or not.
EmptiedOnExit == pc = "idle" /\ ~torn => files = {}

\* What is true of that: no file stays for the next extraction whose name
\* matches itself, as every name without wildcards does, unless a crash or a
\* failed unlink() left it.
PlainNamesRemoved ==
    pc = "idle" /\ ~torn => \A f \in files : f \notin Matches[f]

-----------------------------------------------------------------------------
(* The invariant behind them *)

TypeOK ==
    /\ pc \in {"idle", "run", "exit", "unlink"}
    /\ slot \in Slots
    /\ at \in Nat \ {0}
    /\ live \subseteq STRING \ {"exdir"}
    /\ onexit \in Seq(STRING)
    /\ leaked \subseteq STRING
    /\ files \subseteq Names
    /\ listed \subseteq Names
    /\ named \subseteq STRING
    /\ failed \ {"exdir"} \subseteq STRING
    /\ torn \in BOOLEAN

\* What on.exit() will release, now or after the next step.
Held == Range(onexit)
Soon == Registered(slot, at + 1)

\* While the closure runs nothing that was passed to on.exit() has been lost.
RunInv == pc = "run" => Held = Registered(slot, at) /\ named = Held

\* What an eager run holds will be released, or that has failed.
HeldInv ==
    slot \in Eager =>
        \A res \in live :
            \/ pc = "run" /\ res \in Soon
            \/ pc \in {"exit", "unlink"} /\ res \in Held \cup failed

ExitInv == pc \in {"exit", "unlink"} => named \cap live \subseteq Held \cup failed

\* A file whose name matches itself is one that a release of the directory
\* has still to come to.
FilesInv ==
    LET Plain == {f \in files : f \in Matches[f]}
    IN  /\ pc = "unlink" => Plain \subseteq listed
        /\ pc # "unlink" /\ ~torn /\ Plain # {} => pc # "idle" /\ "exdir" \in Held

IInv == TypeOK /\ RunInv /\ HeldInv /\ ExitInv /\ FilesInv
=============================================================================
