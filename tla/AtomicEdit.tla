----------------------------- MODULE AtomicEdit -----------------------------
(***************************************************************************)
(* What the rename journal promises to its callers: an operation changes   *)
(* the whole source from one version to the other, or not at all, and its  *)
(* answer tells which, whatever fails on the way.                          *)
(*                                                                         *)
(* `value` is the version every interruption ends in: the one the source   *)
(* holds, or the one recovery will bring back.                             *)
(***************************************************************************)
CONSTANTS
    Versions,   \* the versions of the source
    Unknown     \* answers that leave the outcome to recovery

VARIABLES
    value,      \* the version of the whole source
    phase,      \* "idle", "open", "committed" or "recovering"
    answer      \* what the last operation told its caller

vars == <<value, phase, answer>>

Init == value \in Versions /\ phase = "idle" /\ answer = "none"

Begin ==
    /\ phase = "idle"
    /\ phase' \in {"open", "recovering"} /\ answer' = "none"
    /\ UNCHANGED value

\* The one step that changes the source for good.
Commit ==
    /\ phase = "open" /\ phase' = "committed"
    /\ value' \in Versions \ {value}
    /\ UNCHANGED answer

\* An uncommitted operation never claims success and a committed one never
\* claims failure; recovery changes no version at all.
Answer ==
    /\ phase # "idle" /\ phase' = "idle"
    /\ answer' \in Unknown \cup
         CASE phase = "open"       -> {"error", "required"}
           [] phase = "committed"  -> {"ok"}
           [] phase = "recovering" -> {"ok", "error"}
    /\ UNCHANGED value

Next == Begin \/ Commit \/ Answer

Spec == Init /\ [][Next]_vars

=============================================================================
