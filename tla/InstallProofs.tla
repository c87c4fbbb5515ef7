--------------------------- MODULE InstallProofs ---------------------------
(***************************************************************************)
(* Theorems about Ota and Install.  Of the slots, for any set of images    *)
(* and any client of the writer: they stay bootable, a probation keeps its *)
(* fallback, and they implement the rollback protocol of Rollback.tla.     *)
(* Install is such a client, so the same holds while it runs; it retries   *)
(* only what has not begun; and what it stages is what was published.      *)
(***************************************************************************)
EXTENDS Install, TLAPS

----------------------------------------------------------------------------
(* The slots.                                                              *)

\* The arithmetic of two slots: the other of a slot is the slot that is not it.
LEMMA OtherSlot ==
    ASSUME NEW s \in Slots
    PROVE  /\ Other(s) \in Slots
           /\ Other(s) # s
           /\ Other(Other(s)) = s
           /\ \A t \in Slots : t = s \/ t = Other(s)
BY DEF Slots, Other

\* The cable-flashed device satisfies the invariant.
LEMMA OtaInvInit == OtaInit => OtaInv
<1> SUFFICES ASSUME OtaInit PROVE OtaInv
  OBVIOUS
<1>1. OtaTypeOK
  BY DEF OtaInit, OtaTypeOK, Slots, Contents, ImgStates, SlotStates, Modes
<1>2. running = 0 /\ Target = 1 /\ 0 \in Slots /\ 1 \in Slots
  BY DEF OtaInit, Target, Other, Slots
<1>3. content[0] \in Images
  BY <1>2 DEF OtaInit
<1>4. otadata[0] = "Undefined" /\ otadata[1] = "Undefined" /\ boot = 0 /\ slot = "None"
  BY <1>2 DEF OtaInit
<1>5. RunningSound
  BY <1>2, <1>3, <1>4, ImagesAssumption DEF RunningSound, Blank, Partial
<1>6. StagedSound /\ OpenSound /\ ProbationSound
  BY <1>2, <1>4 DEF StagedSound, OpenSound, ProbationSound, pending_verify
<1> QED
  BY <1>1, <1>5, <1>6 DEF OtaInv

\* A reset: the bootloader's choice satisfies the invariant again, whichever of
\* its three cases applies (nothing to do, a staged image, a probation).
LEMMA OtaInvReset == OtaInv /\ Reset => OtaInv'
<1> SUFFICES ASSUME OtaInv, Reset PROVE OtaInv'
  OBVIOUS
<1> DEFINE t == Target
<1>0. /\ running \in Slots /\ t \in Slots /\ t # running /\ Other(t) = running
      /\ Other(running) = t
      /\ \A s \in Slots : s = running \/ s = t
  BY OtherSlot DEF OtaInv, OtaTypeOK, Target
<1> HIDE DEF t
<1>1. /\ content \in [Slots -> Contents] /\ otadata \in [Slots -> ImgStates]
      /\ content' = content /\ slot' = "None" /\ mode' = "Undecided"
      /\ running' = NextBoot /\ boot' = NextBoot
      /\ otadata' = [Demoted EXCEPT ![NextBoot] =
                        IF @ = "New" THEN "PendingVerify" ELSE @]
      /\ Demoted = [s \in Slots |-> IF otadata[s] = "PendingVerify" THEN "Aborted"
                                                                   ELSE otadata[s]]
  BY DEF OtaInv, OtaTypeOK, Reset, Demoted
<1>2. CASE pending_verify
  <2>1. boot = running /\ otadata[running] = "PendingVerify"
    BY <1>0, <1>2 DEF OtaInv, OtaTypeOK, StagedSound, ProbationSound, pending_verify, t
  <2>2. otadata[t] \in {"Undefined", "Valid"} /\ content[t] \notin {Blank, Partial}
    BY <1>2 DEF OtaInv, ProbationSound, t
  <2>3. Demoted[running] = "Aborted" /\ Demoted[t] = otadata[t]
    BY <1>0, <1>1, <2>1, <2>2
  <2>4. NextBoot = t
    BY <1>0, <2>1, <2>3 DEF NextBoot, Bootable
  <2>5. /\ running' = t /\ boot' = t /\ otadata'[t] = otadata[t]
        /\ otadata'[running] = "Aborted"
        /\ otadata' \in [Slots -> ImgStates]
    BY <1>0, <1>1, <2>2, <2>3, <2>4 DEF ImgStates
  <2>6. Target' = running
    BY <1>0, <2>5 DEF Target
  <2> QED
    BY <1>0, <1>1, <2>2, <2>5, <2>6
       DEF OtaInv, OtaTypeOK, RunningSound, StagedSound, OpenSound, ProbationSound,
           pending_verify, SlotStates, Modes
<1>3. CASE ~pending_verify
  <2>1. /\ otadata[running] \in {"Undefined", "Valid"}
        /\ content[running] \notin {Blank, Partial}
        /\ otadata[t] # "PendingVerify"
    BY <1>3 DEF OtaInv, RunningSound, StagedSound, pending_verify, t
  <2>2. Demoted = otadata
    BY <1>0, <1>1, <2>1
  <2>3. CASE otadata[t] = "New"
    <3>1. boot = t /\ content[t] \notin {Blank, Partial}
      BY <2>3 DEF OtaInv, StagedSound, t
    <3>2. NextBoot = t
      BY <2>2, <2>3, <3>1 DEF NextBoot, Bootable
    <3>3. /\ running' = t /\ boot' = t /\ otadata'[t] = "PendingVerify"
          /\ otadata'[running] = otadata[running]
          /\ otadata' \in [Slots -> ImgStates]
      BY <1>0, <1>1, <2>2, <2>3, <3>2 DEF ImgStates
    <3>4. Target' = running
      BY <1>0, <3>3 DEF Target
    <3> QED
      BY <1>0, <1>1, <2>1, <3>1, <3>3, <3>4
         DEF OtaInv, OtaTypeOK, RunningSound, StagedSound, OpenSound, ProbationSound,
             pending_verify, SlotStates, Modes
  <2>4. CASE otadata[t] # "New"
    <3>1. boot = running
      BY <1>0, <2>4 DEF OtaInv, OtaTypeOK, StagedSound, t
    <3>2. NextBoot = running
      BY <2>1, <2>2, <3>1 DEF NextBoot, Bootable
    <3>3. /\ running' = running /\ boot' = running /\ otadata' = otadata
      BY <1>0, <1>1, <2>1, <2>2, <3>2
    <3>4. Target' = t
      BY <3>3 DEF Target, t
    <3>5. RunningSound' /\ StagedSound' /\ ProbationSound'
      BY <1>1, <3>1, <3>3, <3>4
         DEF OtaInv, RunningSound, StagedSound, ProbationSound, pending_verify, t
    <3> QED
      BY <1>1, <3>3, <3>5 DEF OtaInv, OtaTypeOK, OpenSound, SlotStates, Modes
  <2> QED BY <2>3, <2>4
<1> QED BY <1>2, <1>3

\* The facts every step of the writer starts from: two slots, the one that is
\* running and the one that is not, and a step that stays on the running one.
LEMMA TwoSlots ==
    ASSUME OtaInv, UNCHANGED running
    PROVE  /\ running \in Slots /\ Target \in Slots /\ Target # running
           /\ Target' = Target
           /\ content \in [Slots -> Contents] /\ otadata \in [Slots -> ImgStates]
BY OtherSlot DEF OtaInv, OtaTypeOK, Target

\* A chunk: esp_ota_begin is refused on probation, so nothing a write does can
\* touch a fallback, and it forgets the record before the first byte.
LEMMA OtaInvWrite ==
    ASSUME OtaInv, NEW payload \in Payloads, Write(payload)
    PROVE  OtaInv'
<1> USE DEF OtaInv, OtaTypeOK, RunningSound, StagedSound, OpenSound, ProbationSound,
            pending_verify
<1>0. UNCHANGED running
  BY DEF Write, WriteRefused, WriteOpensOnly, WriteFirst, WriteMore, WriteFinished,
         WriteReclassify, otaVars
<1>1. /\ running \in Slots /\ Target \in Slots /\ Target # running
      /\ Target' = Target
      /\ content \in [Slots -> Contents] /\ otadata \in [Slots -> ImgStates]
  BY <1>0, TwoSlots
<1>2. Partial \in Contents /\ "Undefined" \in ImgStates /\ payload \in Modes
  BY DEF Contents, ImgStates, Payloads, Modes
<1>3. CASE WriteRefused
  BY <1>3, <1>1 DEF WriteRefused, otaVars
<1>4. CASE WriteOpensOnly(payload)
  BY <1>4, <1>1, <1>2 DEF WriteOpensOnly, EspOtaBegin, SlotStates
<1>5. CASE WriteFirst(payload)
  BY <1>5, <1>1, <1>2 DEF WriteFirst, EspOtaBegin, SlotStates
<1>6. CASE WriteMore
  BY <1>6, <1>1, <1>2 DEF WriteMore
<1>7. CASE WriteFinished(payload)
  BY <1>7, <1>1, <1>2 DEF WriteFinished, Modes
<1>8. CASE WriteReclassify(payload)
  BY <1>8, <1>1, <1>2 DEF WriteReclassify, Modes
<1> QED
  BY <1>3, <1>4, <1>5, <1>6, <1>7, <1>8 DEF Write

\* A commit that fails, at any of its calls, leaves what boots next alone.
LEMMA OtaInvCommitFails == OtaInv /\ CommitFails => OtaInv'
<1> SUFFICES ASSUME OtaInv, CommitFails PROVE OtaInv'
  OBVIOUS
<1> USE DEF OtaInv, OtaTypeOK, RunningSound, StagedSound, OpenSound, ProbationSound,
            pending_verify
<1>0. UNCHANGED running
  BY DEF CommitFails, CommitFinalizeFails, CommitNothing, CommitEndFails, CommitSetBootFails
<1>1. /\ running \in Slots /\ Target \in Slots /\ Target # running
      /\ Target' = Target
      /\ content \in [Slots -> Contents] /\ otadata \in [Slots -> ImgStates]
  BY <1>0, TwoSlots
<1>2. Partial \in Contents /\ Released \in Modes /\ "Finished" \in SlotStates
  BY DEF Contents, Released, Modes, SlotStates
<1>3. CASE CommitFinalizeFails
  BY <1>3, <1>1, <1>2 DEF CommitFinalizeFails, Modes
<1>4. CASE CommitNothing
  BY <1>4, <1>1, <1>2 DEF CommitNothing
<1>5. CASE CommitEndFails
  BY <1>5, <1>1, <1>2 DEF CommitEndFails
<1>6. ASSUME NEW image \in Images \cup {Corrupt}, CommitSetBootFails(image)
      PROVE  OtaInv'
  <2>1. image \in Contents
    BY DEF Contents
  <2> QED
    BY <1>6, <1>1, <1>2, <2>1 DEF CommitSetBootFails
<1> QED
  BY <1>3, <1>4, <1>5, <1>6 DEF CommitFails

\* A commit that succeeds stages an image that is neither blank nor partial.
LEMMA OtaInvCommit ==
    ASSUME OtaInv, NEW image \in Images \cup {Corrupt}, Commit(image)
    PROVE  OtaInv'
<1> USE DEF OtaInv, OtaTypeOK, RunningSound, StagedSound, OpenSound, ProbationSound,
            pending_verify
<1>1. /\ running \in Slots /\ Target \in Slots /\ Target # running
      /\ Target' = Target
      /\ content \in [Slots -> Contents] /\ otadata \in [Slots -> ImgStates]
  BY TwoSlots DEF Commit
<1>2. /\ image \in Contents /\ Released \in Modes /\ "Finished" \in SlotStates
      /\ "New" \in ImgStates
  BY DEF Contents, Released, Modes, SlotStates, ImgStates
<1>3. image \notin {Blank, Partial}
  BY ImagesAssumption DEF Blank, Partial, Corrupt
<1> QED
  BY <1>1, <1>2, <1>3 DEF Commit

\* Every step of Ota preserves the invariant.
LEMMA OtaInvNext == OtaInv /\ [OtaNext]_otaVars => OtaInv'
<1> SUFFICES ASSUME OtaInv, [OtaNext]_otaVars PROVE OtaInv'
  OBVIOUS
<1> USE DEF OtaInv, OtaTypeOK, RunningSound, StagedSound, OpenSound, ProbationSound,
            pending_verify
<1>1. CASE Begin
  <2>1. Target' = Target
    BY <1>1 DEF Begin, Target
  <2> QED
    BY <1>1, <2>1 DEF Begin, SlotStates, Modes
<1>2. CASE Abort
  <2>1. Target' = Target /\ Released \in Modes
    BY <1>2 DEF Abort, Target, Released, Modes
  <2> QED
    BY <1>2, <2>1 DEF Abort, SlotStates
<1>3. CASE mark_valid
  <2>1. /\ running \in Slots /\ Target \in Slots /\ Target # running
        /\ Target' = Target
        /\ content \in [Slots -> Contents] /\ otadata \in [Slots -> ImgStates]
    BY <1>3, TwoSlots DEF mark_valid
  <2> QED
    BY <1>3, <2>1 DEF mark_valid, ImgStates
<1>4. CASE UNCHANGED otaVars
  <2>1. Target' = Target
    BY <1>4 DEF otaVars, Target
  <2> QED
    BY <1>4, <2>1 DEF otaVars
<1> QED
  BY <1>1, <1>2, <1>3, <1>4, OtaInvWrite, OtaInvCommitFails, OtaInvCommit, OtaInvReset
     DEF OtaNext, WriterNext

\* What the invariant says of the next reset.
LEMMA OtaInvImplies == OtaInv => OtaTypeOK /\ AlwaysBootable /\ FallbackIntact
<1> SUFFICES ASSUME OtaInv PROVE AlwaysBootable /\ FallbackIntact
  BY DEF OtaInv
<1> USE DEF OtaInv, OtaTypeOK, RunningSound, StagedSound, ProbationSound, pending_verify
<1>1. /\ running \in Slots /\ Target \in Slots /\ Target # running
      /\ Other(running) = Target /\ Other(Target) = running
      /\ boot = running \/ boot = Target
  BY OtherSlot DEF Target
<1>2. \A s \in Slots : Demoted[s] = IF otadata[s] = "PendingVerify" THEN "Aborted"
                                                                  ELSE otadata[s]
  BY DEF Demoted
<1>3. CASE pending_verify
  <2>1. boot = running /\ Demoted[running] = "Aborted" /\ Demoted[Target] # "Aborted"
    BY <1>1, <1>2, <1>3
  <2>2. NextBoot = Target /\ Bootable(Target)
    BY <1>1, <1>3, <2>1 DEF NextBoot, Bootable
  <2> QED
    BY <2>2 DEF AlwaysBootable, FallbackIntact
<1>4. CASE ~pending_verify
  <2>1. Bootable(running)
    BY <1>1, <1>2, <1>4 DEF Bootable
  <2>2. boot = Target => Bootable(Target)
    BY <1>1, <1>2 DEF Bootable
  <2>3. Bootable(NextBoot)
    BY <1>1, <2>1, <2>2 DEF NextBoot
  <2> QED
    BY <1>4, <2>3 DEF AlwaysBootable, FallbackIntact
<1> QED BY <1>3, <1>4

\* The invariant holds of every behaviour of the writer and the bootloader.
THEOREM OtaInvariant == OtaSpec => []OtaInv
BY OtaInvInit, OtaInvNext, PTL DEF OtaSpec

\* However the writer is driven and wherever power is lost, a reset finds an
\* image to boot.
THEOREM SlotsAlwaysBootable == OtaSpec => []AlwaysBootable
BY OtaInvariant, OtaInvImplies, PTL

\* However the writer is driven, an image on probation has its predecessor
\* intact beside it, and that is what a reset boots.
THEOREM ProbationHasFallback == OtaSpec => []FallbackIntact
BY OtaInvariant, OtaInvImplies, PTL

----------------------------------------------------------------------------
(* The bootloader's three cases, for the theorems about steps.             *)

\* What a reset does, case by case: revert, take over, or carry on.
LEMMA ResetCases ==
    ASSUME OtaInv, Reset
    PROVE  \/ /\ pending_verify /\ ~pending_verify'
              /\ running' = Target /\ Target' = running
              /\ otadata'[running] = "Aborted" /\ otadata'[Target] \in {"Undefined", "Valid"}
           \/ /\ ~pending_verify /\ pending_verify' /\ otadata[Target] = "New"
              /\ running' = Target /\ Target' = running
              /\ otadata'[running] \in {"Undefined", "Valid"}
           \/ /\ ~pending_verify /\ otadata[Target] # "New"
              /\ running' = running /\ Target' = Target /\ otadata' = otadata
<1> USE DEF OtaInv, OtaTypeOK, RunningSound, StagedSound, ProbationSound, pending_verify
<1>1. /\ running \in Slots /\ Target \in Slots /\ Target # running
      /\ Other(running) = Target /\ Other(Target) = running
      /\ boot = running \/ boot = Target
      /\ \A s \in Slots : s = running \/ s = Target
  BY OtherSlot DEF Target
<1>2. /\ Demoted \in [Slots -> ImgStates]
      /\ \A s \in Slots : Demoted[s] = IF otadata[s] = "PendingVerify" THEN "Aborted"
                                                                     ELSE otadata[s]
  BY DEF Demoted, ImgStates
<1>3. /\ running' = NextBoot
      /\ otadata' = [Demoted EXCEPT ![NextBoot] =
                        IF @ = "New" THEN "PendingVerify" ELSE @]
  BY DEF Reset
<1>4. CASE pending_verify
  <2>1. boot = running /\ Demoted[running] = "Aborted" /\ Demoted[Target] = otadata[Target]
    BY <1>1, <1>2, <1>4
  <2>2. NextBoot = Target
    BY <1>1, <2>1 DEF NextBoot, Bootable
  <2>3. running' = Target /\ Target' = running
    BY <1>1, <1>3, <2>2 DEF Target
  <2> QED
    BY <1>1, <1>2, <1>3, <1>4, <2>1, <2>2, <2>3
<1>5. CASE ~pending_verify /\ otadata[Target] = "New"
  <2>1. NextBoot = Target
    BY <1>1, <1>2, <1>5 DEF NextBoot, Bootable
  <2>2. running' = Target /\ Target' = running
    BY <1>1, <1>3, <2>1 DEF Target
  <2>3. Demoted[running] = otadata[running] /\ Demoted[Target] = "New"
    BY <1>1, <1>2, <1>5
  <2> QED
    BY <1>1, <1>2, <1>3, <1>5, <2>1, <2>2, <2>3
<1>6. CASE ~pending_verify /\ otadata[Target] # "New"
  <2>1. NextBoot = running
    BY <1>1, <1>2, <1>6 DEF NextBoot, Bootable
  <2>2. running' = running /\ Target' = Target
    BY <1>1, <1>3, <2>1 DEF Target
  <2>3. Demoted = otadata
    BY <1>1, <1>2, <1>6
  <2> QED
    BY <1>1, <1>2, <1>3, <1>6, <2>1, <2>2, <2>3
<1> QED BY <1>4, <1>5, <1>6

\* The device changes slots only into or out of a probation.
THEOREM SlotSwitchesGuarded == OtaSpec => SlotSwitchIsGuarded
<1>1. OtaInv /\ [OtaNext]_otaVars
          => [running' # running => pending_verify' \/ pending_verify]_otaVars
  <2> SUFFICES ASSUME OtaInv, OtaNext, running' # running
               PROVE  pending_verify' \/ pending_verify
    OBVIOUS
  <2>1. Reset
    BY DEF OtaNext, WriterNext, Begin, Write, WriteRefused, WriteOpensOnly, WriteFirst, WriteMore,
           WriteFinished, WriteReclassify, CommitFails, CommitFinalizeFails, CommitNothing,
           CommitEndFails, CommitSetBootFails, Commit, Abort, mark_valid, otaVars
  <2> QED
    BY <2>1, ResetCases
<1> QED
  BY <1>1, OtaInvariant, PTL DEF OtaSpec, SlotSwitchIsGuarded

\* A rollback is reported until a chunk of another download opens the slot.
THEOREM RevertReported == OtaSpec => RevertStaysVisible
<1>1. OtaInv /\ [OtaNext]_otaVars
          => [auto_revert_detected /\ ~auto_revert_detected'
                => slot = "Unopened" /\ slot' = "Open"]_otaVars
  <2> SUFFICES ASSUME OtaInv, OtaNext, auto_revert_detected, ~auto_revert_detected'
               PROVE  slot = "Unopened" /\ slot' = "Open"
    OBVIOUS
  <2>1. otadata[Target] = "Aborted" /\ otadata'[Target'] # "Aborted" /\ slot # "Open"
    BY DEF auto_revert_detected, OtaInv, OpenSound
  <2>2. ~Reset
    BY <2>1, ResetCases DEF OtaInv, ProbationSound
  <2>3. ~mark_valid
    <3> SUFFICES ASSUME mark_valid PROVE FALSE
      OBVIOUS
    <3>1. Target \in Slots /\ Target # running /\ Target' = Target
      BY TwoSlots DEF mark_valid
    <3> QED
      BY <2>1, <3>1 DEF mark_valid, OtaInv, OtaTypeOK
  <2>4. ASSUME NEW payload \in Payloads, Write(payload)
        PROVE  slot = "Unopened" /\ slot' = "Open"
    BY <2>1, <2>4 DEF Write, WriteRefused, WriteOpensOnly, WriteFirst, WriteMore,
                      WriteFinished, WriteReclassify, otaVars, Target
  <2> QED
    BY <2>1, <2>2, <2>3, <2>4
       DEF OtaNext, WriterNext, Begin, CommitFails, CommitFinalizeFails, CommitNothing,
           CommitEndFails, CommitSetBootFails, Commit, Abort, Target
<1> QED
  BY <1>1, OtaInvariant, PTL DEF OtaSpec, RevertStaysVisible

----------------------------------------------------------------------------
(* The slots implement Rollback.                                           *)

\* A step of the writer on a confirmed device stages, discards or stutters.
LEMMA StagingStep ==
    ASSUME OtaInv, OtaInv', ~pending_verify, ~pending_verify', UNCHANGED running,
           content'[running] = content[running]
    PROVE  R!Stage
<1>1. Predecessor = Blank /\ Predecessor' = Blank
  BY DEF Predecessor
<1>2. NewlyStaged' \in Images \cup {Corrupt} \cup {Blank}
  <2>1. CASE otadata'[Target'] = "New"
    <3>1. Target' \in Slots
      BY OtherSlot DEF OtaInv, OtaTypeOK, Target
    <3> QED
      BY <2>1, <3>1 DEF NewlyStaged, OtaInv, OtaTypeOK, StagedSound, Contents
  <2>2. CASE otadata'[Target'] # "New"
    BY <2>2 DEF NewlyStaged
  <2> QED BY <2>1, <2>2
<1> QED
  BY <1>1, <1>2 DEF R!Stage, R!Trial

\* A step that leaves the slots and the bootloader's record of them alone is a
\* stutter of the rollback protocol.
LEMMA FlashStutter ==
    ASSUME UNCHANGED <<content, otadata, running>>
    PROVE  UNCHANGED R!vars
BY DEF R!vars, Predecessor, NewlyStaged, pending_verify, Target

\* A step of the writer never changes the running slot, and on probation it
\* changes nothing at all.
LEMMA WriterStep ==
    ASSUME OtaInv, WriterNext
    PROVE  /\ UNCHANGED running
           /\ content'[running] = content[running]
           /\ pending_verify' = pending_verify
           /\ pending_verify => UNCHANGED <<content, otadata>>
<1>1. UNCHANGED running
  BY DEF WriterNext, Begin, Write, WriteRefused, WriteOpensOnly, WriteFirst, WriteMore,
         WriteFinished, WriteReclassify, CommitFails, CommitFinalizeFails, CommitNothing,
         CommitEndFails, CommitSetBootFails, Commit, Abort, otaVars
<1>2. /\ running \in Slots /\ Target \in Slots /\ Target # running
      /\ content \in [Slots -> Contents] /\ otadata \in [Slots -> ImgStates]
  BY <1>1, TwoSlots
<1> DEFINE Spared == \/ UNCHANGED <<content, otadata>>
                     \/ /\ ~pending_verify
                        /\ content'[running] = content[running]
                        /\ otadata'[running] = otadata[running]
<1>3. Spared
  <2> USE <1>2 DEF OtaInv, OpenSound
  <2>1. ASSUME NEW payload \in Payloads, Write(payload) PROVE Spared
    BY <2>1 DEF Write, WriteRefused, WriteOpensOnly, WriteFirst, WriteMore,
                WriteFinished, WriteReclassify, EspOtaBegin, otaVars
  <2>2. CASE CommitFails
    BY <2>2 DEF CommitFails, CommitFinalizeFails, CommitNothing, CommitEndFails,
                CommitSetBootFails
  <2>3. ASSUME NEW image \in Images \cup {Corrupt}, Commit(image) PROVE Spared
    BY <2>3 DEF Commit
  <2>4. CASE Begin \/ Abort
    BY <2>4 DEF Begin, Abort
  <2> QED
    BY <2>1, <2>2, <2>3, <2>4 DEF WriterNext
<1> QED
  BY <1>1, <1>3 DEF pending_verify

\* A slot whose content it changes has no record of a confirmed image left, and
\* it confirms nothing.
LEMMA WriterForgets ==
    ASSUME OtaInv, WriterNext
    PROVE  /\ content' # content => otadata'[Target] # "Valid"
           /\ \A s \in Slots : otadata'[s] = "Valid" => otadata[s] = "Valid"
<1>1. /\ running \in Slots /\ Target \in Slots /\ Target # running
      /\ content \in [Slots -> Contents] /\ otadata \in [Slots -> ImgStates]
  BY WriterStep, TwoSlots
<1> USE <1>1 DEF OtaInv, OpenSound
<1>2. ASSUME NEW payload \in Payloads, Write(payload)
      PROVE  /\ content' # content => otadata'[Target] # "Valid"
             /\ \A s \in Slots : otadata'[s] = "Valid" => otadata[s] = "Valid"
  BY <1>2 DEF Write, WriteRefused, WriteOpensOnly, WriteFirst, WriteMore,
              WriteFinished, WriteReclassify, EspOtaBegin, otaVars
<1>3. CASE CommitFails
  BY <1>3 DEF CommitFails, CommitFinalizeFails, CommitNothing, CommitEndFails,
              CommitSetBootFails
<1>4. ASSUME NEW image \in Images \cup {Corrupt}, Commit(image)
      PROVE  /\ content' # content => otadata'[Target] # "Valid"
             /\ \A s \in Slots : otadata'[s] = "Valid" => otadata[s] = "Valid"
  BY <1>4 DEF Commit
<1>5. CASE Begin \/ Abort
  BY <1>5 DEF Begin, Abort
<1> QED
  BY <1>2, <1>3, <1>4, <1>5 DEF WriterNext

\* Confirming an image is the protocol's Confirm, or nothing.
LEMMA ConfirmStep ==
    ASSUME OtaInv, mark_valid
    PROVE  R!Confirm \/ UNCHANGED R!vars
<1>1. /\ running \in Slots /\ Target \in Slots /\ Target # running
      /\ Target' = Target
      /\ content \in [Slots -> Contents] /\ otadata \in [Slots -> ImgStates]
  BY TwoSlots DEF mark_valid
<1>2. /\ ~pending_verify' /\ otadata'[Target] = otadata[Target]
      /\ content' = content /\ running' = running
  BY <1>1 DEF mark_valid, pending_verify
<1>3. Predecessor' = Blank /\ NewlyStaged' = NewlyStaged
  BY <1>1, <1>2 DEF Predecessor, NewlyStaged
<1>4. CASE pending_verify
  <2>1. Predecessor # Blank
    BY <1>4 DEF Predecessor, OtaInv, ProbationSound
  <2> QED
    BY <1>2, <1>3, <2>1 DEF R!Confirm, R!Trial
<1>5. CASE ~pending_verify
  BY <1>2, <1>3, <1>5 DEF R!vars, Predecessor
<1> QED BY <1>4, <1>5

\* A reset is the protocol's Revert, its TakeOver, or nothing.
LEMMA ResetStep ==
    ASSUME OtaInv, Reset
    PROVE  R!Revert \/ R!TakeOver \/ UNCHANGED R!vars
<1> USE DEF Predecessor, NewlyStaged
<1>0. content' = content
  BY DEF Reset
<1>1. CASE /\ pending_verify /\ ~pending_verify'
           /\ running' = Target /\ Target' = running
           /\ otadata'[running] = "Aborted" /\ otadata'[Target] \in {"Undefined", "Valid"}
  <2>1. Predecessor = content[Target] /\ Predecessor # Blank /\ Predecessor' = Blank
    BY <1>1 DEF OtaInv, ProbationSound
  <2>2. NewlyStaged = Blank /\ NewlyStaged' = Blank
    BY <1>1 DEF OtaInv, ProbationSound
  <2> QED
    BY <1>0, <1>1, <2>1, <2>2 DEF R!Revert, R!Trial
<1>2. CASE /\ ~pending_verify /\ pending_verify' /\ otadata[Target] = "New"
           /\ running' = Target /\ Target' = running
           /\ otadata'[running] \in {"Undefined", "Valid"}
  <2>1. NewlyStaged = content[Target] /\ NewlyStaged # Blank /\ NewlyStaged' = Blank
    BY <1>2 DEF OtaInv, StagedSound
  <2>2. Predecessor = Blank /\ Predecessor' = content[running]
    BY <1>0, <1>2
  <2> QED
    BY <1>0, <1>2, <2>1, <2>2 DEF R!TakeOver, R!Trial
<1>3. CASE /\ ~pending_verify /\ otadata[Target] # "New"
           /\ running' = running /\ Target' = Target /\ otadata' = otadata
  BY <1>0, <1>3, FlashStutter
<1> QED
  BY <1>1, <1>2, <1>3, ResetCases

\* Two slots, a writer and the bootloader implement the rollback protocol: the
\* firmware in charge changes only by taking over on probation or reverting.
THEOREM OtaImplementsRollback == OtaSpec => ImplementsRollback
<1>1. OtaInit => R!Init
  <2> SUFFICES ASSUME OtaInit PROVE R!Init
    OBVIOUS
  <2>1. Target = 1 /\ running = 0 /\ 0 \in Slots /\ 1 \in Slots
    BY DEF OtaInit, Target, Other, Slots
  <2>2. content[running] \in Images
    BY <2>1 DEF OtaInit
  <2>3. otadata[running] = "Undefined" /\ otadata[Target] = "Undefined"
    BY <2>1 DEF OtaInit
  <2> QED
    BY <2>2, <2>3 DEF R!Init, Predecessor, NewlyStaged, pending_verify
<1>2. OtaInv /\ OtaInv' /\ [OtaNext]_otaVars => [R!Next]_(R!vars)
  <2> SUFFICES ASSUME OtaInv, OtaInv', [OtaNext]_otaVars
               PROVE  R!Next \/ UNCHANGED R!vars
    OBVIOUS
  <2>1. CASE UNCHANGED otaVars
    BY <2>1, FlashStutter DEF otaVars
  <2>2. CASE mark_valid
    BY <2>2, ConfirmStep DEF R!Next
  <2>3. CASE Reset
    BY <2>3, ResetStep DEF R!Next
  <2>4. CASE WriterNext
    <3>1. CASE pending_verify
      BY <2>4, <3>1, WriterStep, FlashStutter
    <3>2. CASE ~pending_verify
      BY <2>4, <3>2, WriterStep, StagingStep DEF R!Next
    <3> QED BY <3>1, <3>2
  <2> QED BY <2>1, <2>2, <2>3, <2>4 DEF OtaNext
<1> QED
  BY <1>1, <1>2, OtaInvariant, PTL DEF OtaSpec, ImplementsRollback, R!Spec

----------------------------------------------------------------------------
(* The download.                                                           *)

\* What the assumptions say of one update.
LEMMA UpdateFields ==
    ASSUME NEW u \in Updates
    PROVE  /\ u.image \in Images
           /\ u.size \in {{}, {FileLen}}
           /\ u.payload \in Payloads
BY UpdatesAssumption

\* Whatever was downloaded, the slot then holds a published image or a corrupt
\* one.
LEMMA DeliveredType ==
    ASSUME upd \in Updates
    PROVE  Delivered \in Images \cup {Corrupt}
BY UpdateFields DEF Delivered

\* The payload classify sees is one of the two it knows.
LEMMA ClassifiedType ==
    ASSUME upd \in Updates, NEW bad
    PROVE  Classified(bad) \subseteq Payloads
BY UpdateFields DEF Classified

\* Every step of an install is a step of the OTA writer, or leaves it alone.
LEMMA InstallStepIsOta ==
    ASSUME upd \in Updates, NEW alive \in BOOLEAN, InstallStep(alive)
    PROVE  WriterNext \/ UNCHANGED otaVars
<1>1. CASE \/ \E content_length \in ContentLengths : OpenOk(content_length)
           \/ \E err \in OpenErrors : OpenRetry(err) \/ OpenFails(err)
           \/ WaitEnds(alive) \/ CopyReadFails \/ CopyEnds
  BY <1>1 DEF OpenOk, OpenRetry, OpenFails, WaitEnds, CopyReadFails, CopyEnds
<1>2. ASSUME NEW bad \in BOOLEAN, CopyChunk(bad, alive) \/ CopyWriteFails(bad)
      PROVE  \E payload \in Payloads : Write(payload)
  <2>1. SinkWrites(bad) \/ SinkWriteFails(bad)
    BY <1>2 DEF CopyChunk, CopyWriteFails
  <2>2. PICK payload \in Classified(bad) :
           WriteRefused \/ WriteOpensOnly(payload) \/ WriteFirst(payload) \/ WriteMore
    BY <2>1 DEF SinkWrites, SinkWriteFails
  <2>3. payload \in Payloads
    BY ClassifiedType
  <2> QED
    BY <2>2, <2>3 DEF Write
<1>3. CASE InstallCommits
  BY <1>3, DeliveredType DEF InstallCommits, WriterNext
<1>4. CASE InstallCommitFails
  BY <1>4, DeliveredType DEF InstallCommitFails, CommitFails, WriterNext
<1>5. CASE InstallAborts
  BY <1>5 DEF InstallAborts, WriterNext
<1> QED
  BY <1>1, <1>2, <1>3, <1>4, <1>5 DEF InstallStep, WriterNext

----------------------------------------------------------------------------
(* The variables of an install keep their types.                           *)

\* A retry waits for a number of seconds between its backoff and the cap.
LEMMA RetryWaitType ==
    ASSUME NEW err \in OpenErrors, tries \in 0..2
    PROVE  retry_wait(err) \in Nat
<1>1. RETRY_WAITS[tries + 1] \in Nat
  BY DEF RETRY_WAITS
<1>2. CASE err.kind = "DownloadStatus" /\ err.retry_after # {}
  <2>1. err.retry_after \in {{secs} : secs \in RetryAfters}
    BY <1>2 DEF OpenErrors
  <2>2. (CHOOSE secs \in err.retry_after : TRUE) \in Nat
    BY <2>1, StatusesAssumption
  <2> QED
    BY <1>1, <1>2, <2>2 DEF retry_wait, AtLeast, AtMost, RETRY_AFTER_MAX
<1>3. CASE ~(err.kind = "DownloadStatus" /\ err.retry_after # {})
  BY <1>1, <1>3 DEF retry_wait
<1> QED BY <1>2, <1>3

\* What is reported is a number.
LEMMA TakeType ==
    ASSUME NEW downloaded \in Nat, NEW total \in Nat
    PROVE  take(downloaded, total) \subseteq Int
<1>1. CASE total = 0
  BY <1>1 DEF take
<1>2. CASE total # 0
  <2>1. Percent(downloaded, total) \in Int
    BY <1>2 DEF Percent, AtMost
  <2> QED
    BY <2>1 DEF take
<1> QED BY <1>1, <1>2

\* The values an install starts from are in their types.
LEMMA FreshInstall ==
    {} \in ContentLengths /\ 0 \in 0..MaxLen /\ 0 \in 0..Len(RETRY_WAITS)
<1>1. Len(RETRY_WAITS) = 3
  BY DEF RETRY_WAITS
<1> QED
  BY <1>1, LengthsAssumption DEF ContentLengths

\* One step of an install leaves every variable in its type.
LEMMA InstallTypeStep ==
    ASSUME InstallTypeOK, OtaTypeOK', NEW alive \in BOOLEAN, InstallStep(alive)
    PROVE  InstallTypeOK'
<1> USE DEF InstallTypeOK, InstallPhases
<1>1. ASSUME NEW content_length \in ContentLengths, OpenOk(content_length)
      PROVE  InstallTypeOK'
  <2>1. upd.size \in ContentLengths
    BY UpdateFields DEF ContentLengths
  <2> QED
    BY <1>1, <2>1 DEF OpenOk
<1>2. ASSUME NEW err \in OpenErrors, OpenRetry(err)
      PROVE  InstallTypeOK'
  <2>1. tries \in 0..2 /\ Len(RETRY_WAITS) = 3
    BY <1>2 DEF OpenRetry, RETRY_WAITS
  <2>2. retry_wait(err) \in Nat
    BY <2>1, RetryWaitType
  <2> QED
    BY <1>2, <2>1, <2>2 DEF OpenRetry
<1>3. ASSUME NEW err \in OpenErrors, OpenFails(err)
      PROVE  InstallTypeOK'
  BY <1>3 DEF OpenFails
<1>4. ASSUME NEW bad \in BOOLEAN, CopyChunk(bad, alive)
      PROVE  InstallTypeOK'
  <2>1. written' \in 0..MaxLen
    BY <1>4, LengthsAssumption DEF CopyChunk, AtMost
  <2>2. reported' \subseteq Int
    <3>1. \A total \in expected : take(written + 1, total) \subseteq Int
      BY LengthsAssumption, TakeType DEF ContentLengths
    <3>2. Report(written + 1) \subseteq Int
      BY <3>1 DEF Report
    <3> QED
      BY <1>4, <3>2 DEF CopyChunk
  <2> QED
    BY <1>4, <2>1, <2>2 DEF CopyChunk
<1>5. ASSUME NEW bad \in BOOLEAN, CopyWriteFails(bad)
      PROVE  InstallTypeOK'
  BY <1>5 DEF CopyWriteFails
<1>6. CASE WaitEnds(alive) \/ CopyReadFails \/ CopyEnds
  BY <1>6 DEF WaitEnds, CopyReadFails, CopyEnds
<1>7. CASE InstallCommits \/ InstallCommitFails \/ InstallAborts
  BY <1>7 DEF InstallCommits, InstallCommitFails, InstallAborts
<1> QED
  BY <1>1, <1>2, <1>3, <1>4, <1>5, <1>6, <1>7 DEF InstallStep

----------------------------------------------------------------------------
(* Retries, verification and staging.                                      *)

\* Where a step of an install can leave it, for the three properties below.
LEMMA InstallPhaseStep ==
    ASSUME InstallInv, NEW alive \in BOOLEAN, InstallStep(alive)
    PROVE  /\ ipc' \in {"open", "wait"} =>
                 ipc \in {"open", "wait"} /\ UNCHANGED <<otaVars, written>>
           /\ ipc' = "commit" =>
                 Verified /\ UNCHANGED <<upd, expected, written, reported, wrong>>
           /\ ipc' = "done" => ipc = "commit" /\ Commit(Delivered) /\ UNCHANGED upd
<1>1. ASSUME NEW content_length \in ContentLengths, OpenOk(content_length)
      PROVE  ipc' = "copy"
  BY <1>1 DEF OpenOk
<1>2. ASSUME NEW err \in OpenErrors, OpenRetry(err)
      PROVE  ipc = "open" /\ ipc' = "wait" /\ UNCHANGED <<otaVars, written>>
  BY <1>2 DEF OpenRetry
<1>3. ASSUME NEW err \in OpenErrors, OpenFails(err)
      PROVE  ipc' = "abort"
  BY <1>3 DEF OpenFails
<1>4. CASE WaitEnds(alive)
  BY <1>4 DEF WaitEnds
<1>5. ASSUME NEW bad \in BOOLEAN, CopyChunk(bad, alive) \/ CopyWriteFails(bad)
      PROVE  ipc' \in {"copy", "abort"}
  BY <1>5 DEF CopyChunk, CopyWriteFails
<1>6. CASE CopyReadFails \/ CopyEnds
  BY <1>6 DEF CopyReadFails, CopyEnds
<1>7. CASE InstallCommits \/ InstallCommitFails \/ InstallAborts
  BY <1>7 DEF InstallCommits, InstallCommitFails, InstallAborts
<1> QED
  BY <1>1, <1>2, <1>3, <1>4, <1>5, <1>6, <1>7 DEF InstallStep

\* One step of an install preserves the invariant.
LEMMA InstallInvStep ==
    ASSUME InstallInv, NEW alive \in BOOLEAN, InstallStep(alive)
    PROVE  InstallInv'
<1>1. OtaInv'
  BY InstallStepIsOta, OtaInvNext DEF InstallInv, InstallTypeOK, OtaNext
<1>2. InstallTypeOK'
  BY <1>1, InstallTypeStep DEF InstallInv, OtaInv
<1>3. NoRetryAfterFirstByte'
  BY InstallPhaseStep DEF InstallInv, NoRetryAfterFirstByte, otaVars
<1>4. (ipc = "commit" => Verified)'
  BY InstallPhaseStep DEF Verified, Delivered
<1>5. StagedIsVerified'
  <2> SUFFICES ASSUME ipc' = "done", upd'.checksum
               PROVE  boot' = Target' /\ content'[boot'] = upd'.image
    BY DEF StagedIsVerified
  <2>1. Verified /\ Commit(Delivered) /\ upd' = upd
    BY InstallPhaseStep DEF InstallInv
  <2>2. Target \in Slots /\ Target' = Target /\ content \in [Slots -> Contents]
    BY <2>1, TwoSlots DEF InstallInv, Commit
  <2> QED
    BY <2>1, <2>2 DEF Commit, Verified
<1> QED
  BY <1>1, <1>2, <1>3, <1>4, <1>5 DEF InstallInv

\* So do the steps that fall between installs: a call of install, which begins
\* over whatever the previous one left,
LEMMA InstallInvStart ==
    ASSUME InstallInv, NEW u \in Updates, Start(u)
    PROVE  InstallInv'
<1>1. OtaInv'
  BY OtaInvNext DEF InstallInv, Start, OtaNext, WriterNext
<1>2. InstallTypeOK'
  BY <1>1, FreshInstall DEF Start, InstallTypeOK, InstallPhases, OtaInv
<1> QED
  BY <1>1, <1>2 DEF InstallInv, Start, Begin, NoRetryAfterFirstByte, StagedIsVerified

\* a confirmation,
LEMMA InstallInvConfirm ==
    ASSUME InstallInv, mark_valid,
           UNCHANGED <<ipc, upd, expected, written, reported, wrong, tries, waited>>
    PROVE  InstallInv'
<1>1. OtaInv'
  BY OtaInvNext DEF InstallInv, OtaNext
<1>2. InstallTypeOK'
  BY <1>1 DEF InstallInv, InstallTypeOK, OtaInv
<1>3. NoRetryAfterFirstByte' /\ (ipc = "commit" => Verified)' /\ StagedIsVerified'
  BY DEF InstallInv, mark_valid, NoRetryAfterFirstByte, StagedIsVerified, Target,
         Verified, Delivered
<1> QED
  BY <1>1, <1>2, <1>3 DEF InstallInv

\* a reset,
LEMMA InstallInvReset ==
    ASSUME InstallInv, Reset, InstallForgotten
    PROVE  InstallInv'
<1>1. OtaInv'
  BY OtaInvNext DEF InstallInv, OtaNext
<1>2. InstallTypeOK'
  BY <1>1, FreshInstall
     DEF InstallInv, InstallForgotten, InstallTypeOK, InstallPhases, OtaInv
<1> QED
  BY <1>1, <1>2 DEF InstallInv, InstallForgotten, NoRetryAfterFirstByte, StagedIsVerified

\* and whatever touches none of this.
LEMMA InstallInvStutter ==
    ASSUME InstallInv, UNCHANGED installVars
    PROVE  InstallInv'
<1>1. OtaInv'
  BY OtaInvNext DEF InstallInv, installVars
<1>2. InstallTypeOK'
  BY <1>1 DEF InstallInv, InstallTypeOK, OtaInv, installVars
<1>3. NoRetryAfterFirstByte' /\ (ipc = "commit" => Verified)' /\ StagedIsVerified'
  BY DEF InstallInv, installVars, otaVars, NoRetryAfterFirstByte, StagedIsVerified,
         Target, Verified, Delivered
<1> QED
  BY <1>1, <1>2, <1>3 DEF InstallInv

\* The invariant holds of the device as it is shipped.
LEMMA InstallInvInit == InstallInit => InstallInv
<1> SUFFICES ASSUME InstallInit PROVE InstallInv
  OBVIOUS
<1>1. OtaInv
  BY OtaInvInit DEF InstallInit
<1>2. InstallTypeOK
  BY <1>1, FreshInstall DEF InstallInit, InstallTypeOK, InstallPhases, OtaInv
<1> QED
  BY <1>1, <1>2 DEF InstallInit, InstallInv, NoRetryAfterFirstByte, StagedIsVerified

\* The invariant holds of every sequence of installs, confirmations and resets.
THEOREM InstallInvariant == InstallSpec => []InstallInv
<1>1. InstallInv /\ [InstallNext]_installVars => InstallInv'
  BY InstallInvStep, InstallInvStart, InstallInvConfirm, InstallInvReset, InstallInvStutter
     DEF InstallNext
<1> QED
  BY <1>1, InstallInvInit, PTL DEF InstallSpec

\* Whatever the network delivered, an update with a checksum that install
\* accepted is in the slot that boots next, and is the published image.
THEOREM InstallStagesWhatWasPublished == InstallSpec => []StagedIsVerified
<1>1. InstallInv => StagedIsVerified
  BY DEF InstallInv
<1> QED
  BY <1>1, InstallInvariant, PTL

----------------------------------------------------------------------------
(* The patience of a download that cannot start.                           *)

\* A retry waits for at least its backoff, and for no longer than the cap.
LEMMA RetryWaitBounds ==
    ASSUME NEW err \in OpenErrors, tries \in 0..2
    PROVE  /\ retry_wait(err) \in Nat
           /\ retry_wait(err) >= RETRY_WAITS[tries + 1]
           /\ retry_wait(err) <= RETRY_AFTER_MAX
<1>1. RETRY_WAITS[tries + 1] \in Nat /\ RETRY_WAITS[tries + 1] <= 45
  BY DEF RETRY_WAITS
<1>2. CASE err.kind = "DownloadStatus" /\ err.retry_after # {}
  <2>1. err.retry_after \in {{secs} : secs \in RetryAfters}
    BY <1>2 DEF OpenErrors
  <2>2. (CHOOSE secs \in err.retry_after : TRUE) \in Nat
    BY <2>1, StatusesAssumption
  <2> QED
    BY <1>1, <1>2, <2>2 DEF retry_wait, AtLeast, AtMost, RETRY_AFTER_MAX
<1>3. CASE ~(err.kind = "DownloadStatus" /\ err.retry_after # {})
  BY <1>1, <1>3 DEF retry_wait, RETRY_AFTER_MAX
<1> QED BY <1>2, <1>3

\* A step of an install that is not a retry waits for nothing.
LEMMA OnlyRetriesWait ==
    ASSUME NEW alive \in BOOLEAN, InstallStep(alive)
    PROVE  \/ UNCHANGED <<tries, waited>>
           \/ \E err \in OpenErrors : OpenRetry(err)
  BY DEF InstallStep, OpenOk, OpenFails, WaitEnds, CopyChunk, CopyWriteFails, CopyReadFails,
         CopyEnds, InstallCommits, InstallCommitFails, InstallAborts

\* What was waited for is between the sum of the backoffs and the caps.
LEMMA PatienceStep ==
    ASSUME InstallInv, PatienceBounded, NEW alive \in BOOLEAN, InstallStep(alive)
    PROVE  PatienceBounded'
<1>1. CASE UNCHANGED <<tries, waited>>
  BY <1>1 DEF PatienceBounded
<1>2. ASSUME NEW err \in OpenErrors, OpenRetry(err)
      PROVE  PatienceBounded'
  <2>1. Len(RETRY_WAITS) = 3
    BY DEF RETRY_WAITS
  <2>2. tries \in 0..2 /\ waited \in Nat
    BY <1>2, <2>1 DEF OpenRetry, InstallInv, InstallTypeOK
  <2> DEFINE wait == retry_wait(err)
  <2>3. /\ wait \in Nat /\ wait <= 120
        /\ wait >= (CASE tries = 0 -> 5 [] tries = 1 -> 15 [] tries = 2 -> 45)
    BY <2>2, RetryWaitBounds DEF RETRY_WAITS, RETRY_AFTER_MAX
  <2>4. tries' = tries + 1 /\ waited' = waited + wait
    BY <1>2 DEF OpenRetry
  <2> HIDE DEF wait
  <2>5. waited' <= tries' * RETRY_AFTER_MAX
    BY <2>2, <2>3, <2>4 DEF PatienceBounded, RETRY_AFTER_MAX
  <2>6. CASE tries = 0
    BY <2>2, <2>3, <2>4, <2>5, <2>6 DEF PatienceBounded
  <2>7. CASE tries = 1
    BY <2>2, <2>3, <2>4, <2>5, <2>7 DEF PatienceBounded
  <2>8. CASE tries = 2
    BY <2>2, <2>3, <2>4, <2>5, <2>8 DEF PatienceBounded
  <2> QED
    BY <2>2, <2>6, <2>7, <2>8
<1> QED
  BY <1>1, <1>2, OnlyRetriesWait

\* An install begins its waiting anew, and a reset forgets it.
LEMMA PatienceFresh == waited = 0 /\ tries = 0 => PatienceBounded
  BY DEF PatienceBounded, RETRY_AFTER_MAX

\* An attempt is repeated only before the slot has been opened, after the backoff
\* at least, and for six minutes at most, whatever the server asks for (open,
\* retry_wait).
THEOREM InstallRetriesCostTime == InstallSpec => []RetriesCostOnlyTime
<1>1. InstallInit => PatienceBounded
  BY PatienceFresh DEF InstallInit
<1>2. ASSUME InstallInv, PatienceBounded, [InstallNext]_installVars
      PROVE  PatienceBounded'
  <2>1. CASE \E alive \in BOOLEAN : InstallStep(alive)
    BY <1>2, <2>1, PatienceStep
  <2>2. CASE waited' = 0 /\ tries' = 0
    BY <2>2 DEF PatienceBounded, RETRY_AFTER_MAX
  <2>3. CASE UNCHANGED <<tries, waited>>
    BY <1>2, <2>3 DEF PatienceBounded
  <2> QED
    BY <1>2, <2>1, <2>2, <2>3 DEF InstallNext, Start, InstallForgotten, installVars
<1>3. InstallInv /\ PatienceBounded => RetriesCostOnlyTime
  BY DEF InstallInv, RetriesCostOnlyTime
<1> QED
  BY <1>1, <1>2, <1>3, InstallInvariant, PTL DEF InstallSpec

----------------------------------------------------------------------------
(* The progress of a download of known length.                             *)

\* A percentage is a number, grows with what was downloaded, and is a hundred
\* just at the end.
LEMMA PercentFacts ==
    ASSUME NEW downloaded \in Nat, NEW total \in Nat, downloaded < total
    PROVE  /\ Percent(downloaded, total) \in Nat
           /\ Percent(downloaded + 1, total) \in Nat
           /\ Percent(downloaded, total) <= Percent(downloaded + 1, total)
           /\ Percent(downloaded, total) < 100
           /\ Percent(downloaded + 1, total) = 100 <=> downloaded + 1 = total
<1>1. ASSUME NEW a \in Nat, NEW b \in Nat, a <= b
      PROVE  (a \div total) \in Nat /\ (a \div total) <= (b \div total)
  BY <1>1, SMTT(60)
<1>2. (total * 100) \div total = 100
  BY SMTT(60)
<1>3. ASSUME NEW d \in Nat, d < total
      PROVE  (d * 100) \div total < 100
  BY <1>3, SMTT(60)
<1>4. /\ Percent(downloaded, total) = (downloaded * 100) \div total
      /\ Percent(downloaded + 1, total) = ((downloaded + 1) * 100) \div total
  BY DEF Percent, AtMost
<1>5. /\ ((downloaded * 100) \div total) \in Nat
      /\ ((downloaded * 100) \div total) <= (((downloaded + 1) * 100) \div total)
  <2>1. /\ downloaded * 100 \in Nat /\ (downloaded + 1) * 100 \in Nat
        /\ downloaded * 100 <= (downloaded + 1) * 100
    OBVIOUS
  <2> QED
    BY <1>1, <2>1
<1>6. (((downloaded + 1) * 100) \div total) \in Nat
  <2>1. (downloaded + 1) * 100 \in Nat /\ (downloaded + 1) * 100 <= (downloaded + 1) * 100
    OBVIOUS
  <2> QED
    BY <1>1, <2>1
<1>7. CASE downloaded + 1 = total
  BY <1>2, <1>3, <1>4, <1>5, <1>6, <1>7
<1>8. CASE downloaded + 1 < total
  <2>1. ((downloaded + 1) * 100) \div total < 100
    BY <1>3, <1>8
  <2> QED
    BY <1>3, <1>4, <1>5, <1>6, <1>8, <2>1
<1> QED BY <1>7, <1>8

\* Nothing is reported before the first chunk, and then one percentage is kept.
ProgressInv ==
    /\ ipc \in {"open", "wait"} => reported = {}
    /\ ipc = "copy" /\ written = 0 => reported = {}
    /\ ipc = "copy" /\ written > 0 /\ expected # {} =>
          \E last \in Int : reported = {last}
    /\ ProgressTold

\* A chunk that completes neither the download nor a step leaves what was said
\* within a step of the truth; any other chunk is told of.
LEMMA ProgressChunk ==
    ASSUME InstallInv, ProgressInv, NEW alive \in BOOLEAN, NEW bad \in BOOLEAN,
           CopyChunk(bad, alive), ipc' = "copy"
    PROVE  ProgressInv'
<1>1. /\ ipc = "copy" /\ expected' = expected
      /\ written' = AtMost(written + 1, MaxLen) /\ written \in Nat
      /\ \A total \in expected : written + 1 <= total
      /\ reported' = IF Report(written + 1) # {} THEN Report(written + 1) ELSE reported
      /\ MaxLen \in Nat /\ written <= MaxLen
  BY LengthsAssumption DEF CopyChunk, InstallInv, InstallTypeOK
<1>2. CASE expected = {}
  <2>1. Report(written + 1) = {}
    BY <1>2 DEF Report
  <2>2. MaxLen >= 1
    BY LengthsAssumption
  <2>3. written' > 0
    BY <1>1, <2>2 DEF AtMost
  <2> QED
    BY <1>1, <1>2, <2>3 DEF ProgressInv, ProgressTold
<1>3. ASSUME NEW total \in Nat, expected = {total}, total + 1 <= MaxLen
      PROVE  ProgressInv'
  <2> DEFINE p == Percent(written, total)
  <2> DEFINE q == Percent(written + 1, total)
  <2> DEFINE step == AtLeast(1, progress_step_percent)
  <2>1. written < total /\ written' = written + 1 /\ total # 0
    BY <1>1, <1>3 DEF AtMost
  <2>2. /\ p \in Nat /\ q \in Nat /\ p <= q /\ p < 100
        /\ q = 100 <=> written + 1 = total
    BY <1>1, <1>3, <2>1, PercentFacts
  <2>3. step \in Nat /\ step >= 1
    BY LengthsAssumption DEF AtLeast
  <2>4. Report(written + 1) = take(written + 1, total)
    BY <1>3 DEF Report
  <2>5. CASE reported' = {q}
    <3>1. q - q = 0 /\ 0 \in 0..(step - 1)
      BY <2>2, <2>3
    <3>2. \E last \in reported' : q - last \in 0..(step - 1)
      BY <2>5, <3>1
    <3>3. 100 \in reported' <=> written + 1 = total
      BY <2>2, <2>5
    <3> QED
      BY <1>1, <1>3, <2>1, <2>2, <2>5, <3>2, <3>3 DEF ProgressInv, ProgressTold
  <2>6. CASE reported' # {q}
    <3>1. /\ reported' = reported /\ q # 100
          /\ \E last \in reported : ~(q >= last + step)
      BY <1>1, <2>1, <2>4, <2>6 DEF take
    <3>2. written > 0
      BY <1>1, <3>1 DEF ProgressInv
    <3>3. PICK last \in Int : reported = {last}
      BY <1>1, <1>3, <3>2 DEF ProgressInv
    <3>4. p - last \in 0..(step - 1) /\ last # 100
      BY <1>1, <1>3, <2>1, <3>2, <3>3 DEF ProgressInv, ProgressTold
    <3>5. q - last \in 0..(step - 1)
      BY <2>2, <2>3, <3>1, <3>3, <3>4
    <3>6. written + 1 # total
      BY <2>2, <3>1
    <3> HIDE DEF p, q, step
    <3>7. /\ \E last1 \in reported' : q - last1 \in 0..(step - 1)
          /\ 100 \in reported' <=> written + 1 = total
      BY <3>1, <3>3, <3>4, <3>5, <3>6
    <3> QED
      BY <1>1, <1>3, <2>1, <3>1, <3>3, <3>7 DEF ProgressInv, ProgressTold, p, q, step
  <2> QED BY <2>5, <2>6
<1>4. \/ expected = {}
      \/ \E total \in Nat : expected = {total} /\ total + 1 <= MaxLen
  BY LengthsAssumption DEF InstallInv, InstallTypeOK, ContentLengths
<1> QED
  BY <1>2, <1>3, <1>4

\* The steps of an install that leave it neither opening nor copying have nothing
\* to tell; an open that succeeds has written nothing.
LEMMA ProgressStep ==
    ASSUME InstallInv, ProgressInv, NEW alive \in BOOLEAN, InstallStep(alive)
    PROVE  ProgressInv'
<1>1. CASE ipc' \notin {"open", "wait", "copy"}
  BY <1>1 DEF ProgressInv, ProgressTold
<1>2. ASSUME NEW content_length \in ContentLengths, OpenOk(content_length)
      PROVE  ProgressInv'
  BY <1>2 DEF OpenOk, InstallInv, NoRetryAfterFirstByte, ProgressInv, ProgressTold
<1>3. ASSUME NEW err \in OpenErrors, OpenRetry(err)
      PROVE  ProgressInv'
  BY <1>3 DEF OpenRetry, ProgressInv, ProgressTold
<1>4. CASE WaitEnds(alive)
  BY <1>4 DEF WaitEnds, ProgressInv, ProgressTold
<1>5. ASSUME NEW bad \in BOOLEAN, CopyChunk(bad, alive), ipc' = "copy"
      PROVE  ProgressInv'
  BY <1>5, ProgressChunk
<1>6. ASSUME ipc' \in {"open", "wait", "copy"}
      PROVE  \/ \E content_length \in ContentLengths : OpenOk(content_length)
             \/ \E err \in OpenErrors : OpenRetry(err)
             \/ WaitEnds(alive)
             \/ ipc' = "copy" /\ \E bad \in BOOLEAN : CopyChunk(bad, alive)
  BY <1>6 DEF InstallStep, OpenFails, CopyChunk, CopyWriteFails, CopyReadFails, CopyEnds,
              InstallCommits, InstallCommitFails, InstallAborts
<1> QED
  BY <1>1, <1>2, <1>3, <1>4, <1>5, <1>6

\* NervesHub knows how far a download of known length is, to within a step, and
\* is told of 100 % with the last byte and not before (ProgressThrottle::take).
THEOREM InstallTellsProgress == InstallSpec => []ProgressTold
<1>1. InstallInit => ProgressInv
  BY DEF InstallInit, ProgressInv, ProgressTold
<1>2. ASSUME InstallInv, ProgressInv, [InstallNext]_installVars
      PROVE  ProgressInv'
  <2>1. CASE \E alive \in BOOLEAN : InstallStep(alive)
    BY <1>2, <2>1, ProgressStep
  <2>2. CASE reported' = {} /\ written' = 0
    BY <2>2 DEF ProgressInv, ProgressTold
  <2>3. CASE UNCHANGED <<ipc, expected, written, reported>>
    BY <1>2, <2>3 DEF ProgressInv, ProgressTold
  <2> QED
    BY <1>2, <2>1, <2>2, <2>3 DEF InstallNext, Start, InstallForgotten, installVars
<1>3. ProgressInv => ProgressTold
  BY DEF ProgressInv
<1> QED
  BY <1>1, <1>2, <1>3, InstallInvariant, PTL DEF InstallSpec

============================================================================
