------------------------------ MODULE Rollback ------------------------------
(***************************************************************************)
(* What a device with two app slots promises whoever updates it (README,   *)
(* "Rollback"): an update is staged beside the running firmware, takes     *)
(* over at a reset on probation, and is then either confirmed or, at the   *)
(* next reset, replaced by the firmware it took over from.  There is always*)
(* exactly one firmware in charge.                                         *)
(***************************************************************************)
CONSTANTS
    Firmware,       \* what can be in charge
    NoFirmware      \* the absence of one; not an element of Firmware

VARIABLES
    current,        \* the firmware in charge
    predecessor,    \* what a probation would fall back to, if there is one
    staged          \* what the next reset would start, if anything

vars == <<current, predecessor, staged>>

Trial == predecessor # NoFirmware

Init ==
    /\ current \in Firmware
    /\ predecessor = NoFirmware
    /\ staged = NoFirmware

\* A confirmed device may stage an update, or throw a staged one away.
Stage ==
    /\ ~Trial
    /\ staged' \in Firmware \cup {NoFirmware}
    /\ UNCHANGED <<current, predecessor>>

\* A reset starts the staged firmware on probation.
TakeOver ==
    /\ ~Trial
    /\ staged # NoFirmware
    /\ current' = staged
    /\ predecessor' = current
    /\ staged' = NoFirmware

Confirm ==
    /\ Trial
    /\ predecessor' = NoFirmware
    /\ UNCHANGED <<current, staged>>

\* A reset during the probation.
Revert ==
    /\ Trial
    /\ current' = predecessor
    /\ predecessor' = NoFirmware
    /\ UNCHANGED staged

Next == Stage \/ TakeOver \/ Confirm \/ Revert

Spec == Init /\ [][Next]_vars

============================================================================
