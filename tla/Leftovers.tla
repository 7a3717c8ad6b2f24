----------------------------- MODULE Leftovers ------------------------------
(***************************************************************************)
(* What an input leaves in the process for the next one, other than the R  *)
(* objects of its calls: what R closures open and change, or the LC_CTYPE  *)
(* of the datetime target.  A process runs one harness; a behaviour is one *)
(* of one of the two, the other being off.                                 *)
(***************************************************************************)
EXTENDS SlotClosures, Integers

CONSTANTS NCalls, FirstUtf8Call, MayFail

VARIABLES
    subject,
    phase, call, warm, startup, available, found, cView, rView, cached, missed

localeVars == <<phase, call, warm, startup, available, found, cView, rView, cached, missed>>

D == INSTANCE DatetimeLocale WITH pc <- phase, slot <- call

ASSUME LeftoversAssumption == D!DatetimeLimits

ClosuresOff ==
    /\ pc = "off" /\ slot = "none" /\ at = 0 /\ live = {} /\ onexit = <<>>
    /\ leaked = {} /\ files = {} /\ listed = {} /\ named = {} /\ failed = {}
    /\ torn = FALSE

LocaleOff ==
    /\ phase = "off" /\ call = 0 /\ warm = FALSE /\ startup = FALSE /\ available = FALSE
    /\ found = FALSE /\ cView = FALSE /\ rView = FALSE /\ cached = -1 /\ missed = FALSE

LeftoversInit ==
    \/ subject = "closures" /\ Init /\ LocaleOff
    \/ subject = "locale" /\ D!Init /\ ClosuresOff

LeftoversNext ==
    \/ subject = "closures" /\ Next /\ UNCHANGED <<subject, localeVars>>
    \/ subject = "locale" /\ D!Next /\ UNCHANGED <<subject, vars>>

LeftoversSpec == LeftoversInit /\ [][LeftoversNext]_<<subject, vars, localeVars>>

-----------------------------------------------------------------------------
(* The properties of the locale, each stated in its module *)

\* R and the C library agree on LC_CTYPE, unless the last switch failed.
ViewsAgree == subject = "locale" => D!ViewsAgree

\* A slot of the datetime target runs in the LC_CTYPE it asks for, unless the
\* last switch failed.
RightUnlessMissed == subject = "locale" => D!RightUnlessMissed
=============================================================================
