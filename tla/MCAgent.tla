------------------------------ MODULE MCAgent ------------------------------
(* Agent for TLC.  The device ships with `factory`; NervesHub deploys       *)
(* `release`, which works, or `broken`, which installs and cannot connect. *)
EXTENDS Agent

CONSTANTS factory, release, broken

Update(image, checksum, payload) ==
    [image |-> image, size |-> {FileLen}, checksum |-> checksum, payload |-> payload]

MCUpdates == {Update(release, TRUE, "Image"), Update(broken, FALSE, "Patch")}
MCRelease == {Update(release, TRUE, "Image")}
MCWorking == {factory, release}
MCBackoff == <<1, 2>>

============================================================================
