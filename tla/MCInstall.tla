----------------------------- MODULE MCInstall -----------------------------
(* Install for TLC: a file of three chunks, as an image and as a patch, with *)
(* and without a declared size and a checksum.                             *)
EXTENDS Install

CONSTANTS factory, release

MCUpdates == [image : {release}, size : {{}, {FileLen}},
              checksum : BOOLEAN, payload : Payloads]

============================================================================
