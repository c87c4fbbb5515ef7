-------------------------------- MODULE Ota --------------------------------
(***************************************************************************)
(* The flash side of an update: ota.rs, the two app slots it writes, and   *)
(* the bootloader that picks one of them after a reset.                    *)
(*                                                                         *)
(* OtaNext drives the writer the way any client of the ImageSink trait     *)
(* could: begin, write, commit, abort and mark_valid in any order, with    *)
(* every esp_ota_* call free to fail and a reset possible between any two  *)
(* calls.  Agent.tla then shows that the agent is one such client.         *)
(***************************************************************************)
EXTENDS Naturals

CONSTANT
    Images          \* the firmware images NervesHub may publish

Blank   == "blank"      \* never programmed
Partial == "partial"    \* being written, or left behind by a write that stopped
Corrupt == "corrupt"    \* accepted by esp_ota_end, and still not a published image

ASSUME ImagesAssumption == Images \cap {Blank, Partial, Corrupt} = {}

VARIABLES
    content,        \* what each slot holds
    otadata,        \* the bootloader's record of the image in each slot
    boot,           \* the slot otadata selects
    running,        \* the slot the device is executing
    slot,           \* OtaWriter.slot, or "None" when no writer exists
    mode            \* OtaWriter.mode

otaVars == <<content, otadata, boot, running, slot, mode>>

----------------------------------------------------------------------------

Slots == {0, 1}                             \* ota_0 and ota_1 of partitions.csv
Other(s) == 1 - s
Target_Mut == running                       \* asks for the running partition
Target == Other(running)                    \* esp_ota_get_next_update_partition

Contents == Images \cup {Blank, Partial, Corrupt}
ImgStates == {"Undefined", "New", "PendingVerify", "Valid", "Aborted"}
SlotStates == {"None", "Unopened", "Open", "Finished"}
Modes == {"Undecided", "Image", "Patch"}
Payloads == {"Image", "Patch"}              \* what classify answers

\* A device flashed over a cable: one image, no otadata, nothing on probation.
OtaInit ==
    /\ \E factory \in Images :
          content = [s \in Slots |-> IF s = 0 THEN factory ELSE Blank]
    /\ otadata = [s \in Slots |-> "Undefined"]
    /\ boot = 0
    /\ running = 0
    /\ slot = "None"
    /\ mode = "Undecided"

----------------------------------------------------------------------------
(* What the device asks about itself.                                      *)

pending_verify == otadata[running] = "PendingVerify"

auto_revert_detected == otadata[Target] = "Aborted"

----------------------------------------------------------------------------
(* OtaWriter.                                                              *)

\* As Begin, with the slot opened before the first chunk arrives.
Begin_Mut ==
    /\ ~pending_verify
    /\ otadata' = [otadata EXCEPT ![Target] = "Undefined"]
    /\ slot' = "Open"
    /\ mode' = "Undecided"
    /\ UNCHANGED <<content, boot, running>>

\* OtaWriter::begin only finds the slot; nothing in flash changes.
Begin ==
    /\ slot' = "Unopened"
    /\ mode' = "Undecided"
    /\ UNCHANGED <<content, otadata, boot, running>>

\* esp_ota_begin: refused while the running image is on probation, and
\* otherwise forgets the bootloader's record of the image in the slot.
EspOtaBegin ==
    /\ ~pending_verify
    /\ otadata' = [otadata EXCEPT ![Target] = "Undefined"]
    /\ boot' = running

\* The first chunk finds the slot unopened and esp_ota_begin says no.
WriteRefused ==
    /\ slot = "Unopened"
    /\ UNCHANGED otaVars

\* The slot opens, and applying a patch to it cannot be started.
WriteOpensOnly(payload) ==
    /\ slot = "Unopened"
    /\ mode = "Undecided"
    /\ payload = "Patch"
    /\ EspOtaBegin
    /\ slot' = "Open"
    /\ UNCHANGED <<content, running, mode>>

\* As WriteFirst, with the answer of esp_ota_begin not checked.
WriteFirst_Mut(payload) ==
    /\ slot = "Unopened"
    /\ mode = "Undecided"
    /\ slot' = "Open"
    /\ mode' = payload
    /\ content' = [content EXCEPT ![Target] = Partial]
    /\ UNCHANGED <<otadata, boot, running>>

\* The first chunk: the slot is opened, the payload classified, and the bytes
\* go to esp_ota_write or esp_delta_ota_feed_patch, which may write part of
\* the slot and then fail.  A patch can consume its first bytes before it has
\* any image to write.
WriteFirst(payload) ==
    /\ slot = "Unopened"
    /\ mode = "Undecided"
    /\ EspOtaBegin
    /\ slot' = "Open"
    /\ mode' = payload
    /\ \/ content' = [content EXCEPT ![Target] = Partial]
       \/ payload = "Patch" /\ UNCHANGED content
    /\ UNCHANGED running

\* Every later chunk.
WriteMore ==
    /\ slot = "Open"
    /\ mode # "Undecided"
    /\ \/ content' = [content EXCEPT ![Target] = Partial]
       \/ mode = "Patch" /\ UNCHANGED content
    /\ UNCHANGED <<otadata, boot, running, slot, mode>>

\* A chunk after the writer was finished reaches no handle.
WriteFinished(payload) ==
    /\ slot = "Finished"
    /\ mode' = IF mode = "Undecided" /\ payload = "Image" THEN "Image" ELSE mode
    /\ UNCHANGED <<content, otadata, boot, running, slot>>

\* A chunk after an open that could not start its patch: the slot is open and
\* the first byte of this chunk decides again.
WriteReclassify(payload) ==
    /\ slot = "Open"
    /\ mode = "Undecided"
    /\ mode' \in {payload} \cup (IF payload = "Patch" THEN {"Undecided"} ELSE {})
    /\ \/ content' = [content EXCEPT ![Target] = Partial] /\ mode' # "Undecided"
       \/ payload = "Patch" /\ UNCHANGED content
    /\ UNCHANGED <<otadata, boot, running, slot>>

\* commit, part one: a patch that cannot be finalized.  The delta handle is
\* released and the mode reset, and the OTA handle stays open.
CommitFinalizeFails ==
    /\ mode = "Patch"
    /\ slot = "Open"
    /\ mode' = "Image"
    /\ \/ content' = [content EXCEPT ![Target] = Partial]
       \/ UNCHANGED content
    /\ UNCHANGED <<otadata, boot, running, slot>>

\* The mode commit and abort leave: a patch's handle is released.
Released == IF mode = "Patch" THEN "Image" ELSE mode

\* commit with nothing to commit.
CommitNothing ==
    /\ slot \in {"Unopened", "Finished"}
    /\ slot' = "Finished"
    /\ UNCHANGED <<content, otadata, boot, running, mode>>

\* esp_ota_end finds the image invalid.
CommitEndFails ==
    /\ slot = "Open"
    /\ slot' = "Finished"
    /\ mode' = Released
    /\ content' = IF mode = "Undecided" THEN content
                                        ELSE [content EXCEPT ![Target] = Partial]
    /\ UNCHANGED <<otadata, boot, running>>

\* esp_ota_end accepts what the slot holds, and otadata cannot be written.
CommitSetBootFails(image) ==
    /\ slot = "Open"
    /\ mode # "Undecided"
    /\ slot' = "Finished"
    /\ mode' = Released
    /\ content' = [content EXCEPT ![Target] = image]
    /\ UNCHANGED <<otadata, boot, running>>

\* As Commit, with the image recorded as confirmed straight away.
Commit_Mut(image) ==
    /\ slot = "Open"
    /\ mode # "Undecided"
    /\ slot' = "Finished"
    /\ mode' = Released
    /\ content' = [content EXCEPT ![Target] = image]
    /\ otadata' = [otadata EXCEPT ![Target] = "Valid"]
    /\ boot' = Target
    /\ UNCHANGED running

\* The image is whole as far as the IDF can tell, and is what boots next.
Commit(image) ==
    /\ slot = "Open"
    /\ mode # "Undecided"
    /\ slot' = "Finished"
    /\ mode' = Released
    /\ content' = [content EXCEPT ![Target] = image]
    /\ otadata' = [otadata EXCEPT ![Target] = "New"]
    /\ boot' = Target
    /\ UNCHANGED running

Abort ==
    /\ slot # "None"
    /\ slot' = "Finished"
    /\ mode' = Released
    /\ UNCHANGED <<content, otadata, boot, running>>

mark_valid ==
    /\ otadata' = [otadata EXCEPT ![running] = "Valid"]
    /\ UNCHANGED <<content, boot, running, slot, mode>>

----------------------------------------------------------------------------
(* The bootloader.                                                         *)

\* An image that resets on probation is given up on.
Demoted == [s \in Slots |-> IF otadata[s] = "PendingVerify" THEN "Aborted"
                                                            ELSE otadata[s]]

\* Whether the bootloader would start slot s after a reset now.
Bootable(s) == content[s] \notin {Blank, Partial} /\ Demoted[s] # "Aborted"

\* The slot a reset would boot.
NextBoot == IF Bootable(boot) THEN boot ELSE Other(boot)

\* A restart, a power loss or a watchdog: the bootloader gives up on an image
\* on probation, picks a slot, and puts a newly installed image on probation.
Reset ==
    /\ Bootable(NextBoot)
    /\ running' = NextBoot
    /\ boot' = NextBoot
    /\ otadata' = [Demoted EXCEPT ![NextBoot] =
                      IF @ = "New" THEN "PendingVerify" ELSE @]
    /\ slot' = "None"
    /\ mode' = "Undecided"
    /\ UNCHANGED content

----------------------------------------------------------------------------

Write(payload) ==
    \/ WriteRefused
    \/ WriteOpensOnly(payload)
    \/ WriteFirst(payload)
    \/ WriteMore
    \/ WriteFinished(payload)
    \/ WriteReclassify(payload)

CommitFails ==
    \/ CommitFinalizeFails
    \/ CommitNothing
    \/ CommitEndFails
    \/ \E image \in Images \cup {Corrupt} : CommitSetBootFails(image)

WriterNext ==
    \/ Begin
    \/ \E payload \in Payloads : Write(payload)
    \/ CommitFails
    \/ \E image \in Images \cup {Corrupt} : Commit(image)
    \/ Abort

OtaNext == WriterNext \/ mark_valid \/ Reset

OtaSpec == OtaInit /\ [][OtaNext]_otaVars

----------------------------------------------------------------------------
(* Properties.                                                             *)

\* Every variable has its type.
OtaTypeOK ==
    /\ content \in [Slots -> Contents]
    /\ otadata \in [Slots -> ImgStates]
    /\ boot \in Slots
    /\ running \in Slots
    /\ slot \in SlotStates
    /\ mode \in Modes

\* Whatever the writer has done so far, and whichever call failed, a reset now
\* finds an image to start: write, commit and abort leave no moment at which
\* power loss bricks the device ("must leave the current image bootable").
AlwaysBootable == Bootable(NextBoot)

\* While the running image is on probation, its predecessor is intact in the
\* other slot and is what a reset would boot: no begin, write or commit made
\* during the probation can have touched it.
FallbackIntact == pending_verify => NextBoot = Target /\ Bootable(Target)

\* The device changes slots only to start a newly committed image on probation
\* or to fall back from one: commit and the bootloader never put an image in
\* charge that a reset could not take out again.
SlotSwitchIsGuarded ==
    [][running' # running => pending_verify' \/ pending_verify]_otaVars

\* A rollback stays visible to auto_revert_detected until a chunk of another
\* download opens the slot: a begin with no bytes after it, a commit or an
\* abort with nothing written, and a reset all leave it reported.
RevertStaysVisible ==
    [][auto_revert_detected /\ ~auto_revert_detected'
            => slot = "Unopened" /\ slot' = "Open"]_otaVars

\* The inductive invariant behind the properties above, in four parts.  The
\* running slot holds an image the bootloader has not given up on.
RunningSound ==
    /\ content[running] \notin {Blank, Partial}
    /\ otadata[running] \in {"Undefined", "Valid", "PendingVerify"}

\* The other slot is selected exactly while it holds a committed image that has
\* not run yet.
StagedSound ==
    /\ otadata[Target] # "PendingVerify"
    /\ boot = Target <=> otadata[Target] = "New"
    /\ otadata[Target] = "New" => content[Target] \notin {Blank, Partial}

\* An open slot has no record, and its writer is not on probation.
OpenSound == slot = "Open" => otadata[Target] = "Undefined" /\ ~pending_verify

\* A probation has a predecessor the bootloader would accept.
ProbationSound ==
    pending_verify =>
        /\ otadata[Target] \in {"Undefined", "Valid"}
        /\ content[Target] \notin {Blank, Partial}

OtaInv == OtaTypeOK /\ RunningSound /\ StagedSound /\ OpenSound /\ ProbationSound

\* What the slots implement: see Rollback.tla.
NewlyStaged == IF otadata[Target] = "New" THEN content[Target] ELSE Blank
Predecessor == IF pending_verify THEN content[Target] ELSE Blank

R == INSTANCE Rollback WITH
        Firmware    <- Images \cup {Corrupt},
        NoFirmware  <- Blank,
        current     <- content[running],
        predecessor <- Predecessor,
        staged      <- NewlyStaged

\* The writer, the slots and the bootloader together implement the rollback
\* protocol: stage, boot on probation, then confirm or revert.
ImplementsRollback == R!Spec

============================================================================
