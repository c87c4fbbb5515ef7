---------------------------- MODULE AgentProofs ----------------------------
(***************************************************************************)
(* Theorems about Agent: for any images, updates, backoff list and bounds, *)
(* an image is confirmed only on the strength of a join, the agent never   *)
(* restarts out of a probation, and the device always has firmware that    *)
(* can reach NervesHub.                                                    *)
(***************************************************************************)
EXTENDS Agent, InstallProofs

\* The backoff's position is a number.
LEMMA CountedType ==
    ASSUME NEW m \in Nat, NEW n \in Nat, m >= n
    PROVE  /\ Counted(m) \in Nat /\ Counted(n) \in Nat
           /\ Counted(m) >= Counted(n)
<1>1. Len(ReconnectBackoff) \in Nat
  BY BackoffAssumption
<1> QED
  BY <1>1 DEF Counted, MaxAttempt, AtMost

\* A step that touches neither the flash nor the install keeps what is known of
\* both.
LEMMA DeviceUntouched ==
    ASSUME AgentInv, UNCHANGED <<otaVars, dlVars>>
    PROVE  /\ InstallInv' /\ InstallTypeOK'
           /\ content' = content /\ otadata' = otadata /\ running' = running
           /\ Target' = Target
           /\ pending_verify' <=> pending_verify
<1>1. InstallInv'
  BY InstallInvStutter DEF AgentInv, dlVars, installVars
<1> QED
  BY <1>1 DEF InstallInv, otaVars, Target, pending_verify

\* The end of a session without a reboot.
LEMMA InvEndSession ==
    ASSUME AgentInv, EndSession, faults' \in Nat,
           UNCHANGED <<otaVars, dlVars, validated, proven>>
    PROVE  AgentInv'
<1>1. /\ InstallInv' /\ InstallTypeOK'
      /\ content' = content /\ otadata' = otadata /\ running' = running
      /\ Target' = Target
      /\ pending_verify' <=> pending_verify
  BY DeviceUntouched
<1>2. RunTypeOK' /\ NetTypeOK'
  <2>1. RunTypeOK'
    BY CountedType
       DEF AgentInv, EndSession, SessionForgotten, RunTypeOK, Places, BackoffKeepsUp
  <2>2. NetTypeOK'
    BY DEF EndSession, SessionForgotten, NetTypeOK
  <2> QED BY <2>1, <2>2
<1>3. ValidMeansJoined' /\ JoinSound' /\ AnswerFirst'
  BY <1>1 DEF AgentInv, EndSession, SessionForgotten, ValidMeansJoined, JoinSound, AnswerFirst
<1>4. ConfirmedSound' /\ WorkingSound'
  BY <1>1 DEF AgentInv, EndSession, SessionForgotten, ConfirmedSound, PastConfirmation, WorkingSound
<1>5. BackoffKeepsUp'
  BY CountedType DEF AgentInv, RunTypeOK, EndSession, BackoffKeepsUp, JoinSound
<1> QED
  BY <1>1, <1>2, <1>3, <1>4, <1>5 DEF AgentInv

\* Connecting.
LEMMA InvConnect ==
    ASSUME AgentInv, Connect \/ ConnectFails \/ ConnectRefused
    PROVE  AgentInv'
<1>1. /\ InstallInv' /\ InstallTypeOK'
      /\ content' = content /\ otadata' = otadata /\ running' = running
      /\ Target' = Target
      /\ pending_verify' <=> pending_verify
  BY DeviceUntouched DEF Connect, ConnectFails, ConnectRefused
<1>2. CASE Connect
  <2>1. RunTypeOK' /\ NetTypeOK'
    <3>1. RunTypeOK'
      BY <1>2 DEF AgentInv, Connect, RunTypeOK, Places, sessionVars
    <3>2. NetTypeOK'
      BY <1>2 DEF AgentInv, Connect, NetTypeOK
    <3> QED BY <3>1, <3>2
  <2>2. ValidMeansJoined' /\ JoinSound' /\ AnswerFirst' /\ BackoffKeepsUp'
    BY <1>1, <1>2 DEF AgentInv, Connect, ValidMeansJoined, JoinSound, AnswerFirst,
                      BackoffKeepsUp, sessionVars
  <2>3. ConfirmedSound' /\ WorkingSound'
    BY <1>1, <1>2 DEF AgentInv, Connect, ConfirmedSound, PastConfirmation, WorkingSound, sessionVars
  <2> QED
    BY <1>1, <2>1, <2>2, <2>3 DEF AgentInv
<1>3. CASE ConnectFails \/ ConnectRefused
  <2>1. RunTypeOK' /\ NetTypeOK' /\ BackoffKeepsUp'
    <3>1. RunTypeOK' /\ BackoffKeepsUp'
      BY <1>3, CountedType
         DEF AgentInv, ConnectFails, ConnectRefused, RunTypeOK, Places, sessionVars,
             BackoffKeepsUp, Fault
    <3>2. NetTypeOK'
      BY <1>3 DEF AgentInv, ConnectFails, ConnectRefused, NetTypeOK, netVars
    <3> QED BY <3>1, <3>2
  <2>2. ValidMeansJoined' /\ JoinSound' /\ AnswerFirst'
    BY <1>1, <1>3 DEF AgentInv, ConnectFails, ConnectRefused, ValidMeansJoined, JoinSound,
                      AnswerFirst, sessionVars, netVars
  <2>3. ConfirmedSound' /\ WorkingSound'
    BY <1>1, <1>3 DEF AgentInv, ConnectFails, ConnectRefused, ConfirmedSound, PastConfirmation, WorkingSound,
                      sessionVars
  <2> QED
    BY <1>1, <2>1, <2>2, <2>3 DEF AgentInv
<1> QED BY <1>2, <1>3

\* Sends and turns of the loop: steps that end the session, or else move pc
\* from one place of a session to another with the flash untouched.
LEMMA InvSends ==
    ASSUME AgentInv,
           SendJoin \/ SendFirmwareValidated \/ SessionDies \/ HandleEnd
             \/ SendCompleted \/ SendRebooting \/ SendFailed
    PROVE  AgentInv'
<1>1. /\ InstallInv' /\ InstallTypeOK'
      /\ content' = content /\ otadata' = otadata /\ running' = running
      /\ Target' = Target
      /\ pending_verify' <=> pending_verify
      /\ proven' = proven /\ faults' = faults /\ faults \in Nat
      /\ UNCHANGED <<otaVars, dlVars>>
  BY DeviceUntouched
     DEF SendJoin, SendFirmwareValidated, SessionDies, HandleEnd, SendCompleted,
         SendRebooting, SendFailed, AgentInv, RunTypeOK
<1>2. CASE EndSession /\ UNCHANGED validated
  BY <1>1, <1>2, InvEndSession
<1>3. CASE ~(EndSession /\ UNCHANGED validated)
  <2>1. ~SessionDies /\ ~HandleEnd
    BY <1>3 DEF SessionDies, HandleEnd
  <2>2. RunTypeOK' /\ BackoffKeepsUp'
    BY <1>1, <1>3, <2>1
       DEF AgentInv, RunTypeOK, Places, BackoffKeepsUp, sessionVars, SendJoin,
           SendFirmwareValidated, SendCompleted, SendRebooting, SendFailed
  <2>3. NetTypeOK'
    BY <1>1, <1>3, <2>1
       DEF AgentInv, NetTypeOK, netVars, SendJoin, SendFirmwareValidated, SendCompleted,
           SendRebooting, SendFailed
  <2>4. ValidMeansJoined' /\ JoinSound'
    BY <1>1, <1>3, <2>1
       DEF AgentInv, ValidMeansJoined, JoinSound, sessionVars, netVars, SendJoin,
           SendFirmwareValidated, SendCompleted, SendRebooting, SendFailed
  <2>5. AnswerFirst'
    BY <1>1, <1>3, <2>1
       DEF AgentInv, AnswerFirst, sessionVars, netVars, SendJoin,
           SendFirmwareValidated, SendCompleted, SendRebooting, SendFailed
  <2>6. ConfirmedSound' /\ WorkingSound'
    BY <1>1, <1>3, <2>1
       DEF AgentInv, ConfirmedSound, PastConfirmation, WorkingSound, sessionVars, SendJoin,
           SendFirmwareValidated, SendCompleted, SendRebooting, SendFailed
  <2> QED
    BY <1>1, <2>2, <2>3, <2>4, <2>5, <2>6 DEF AgentInv
<1> QED BY <1>2, <1>3

\* What Target and running are, from the flash's invariant.
LEMMA SlotFacts ==
    ASSUME AgentInv
    PROVE  /\ running \in Slots /\ Target \in Slots /\ Target # running
           /\ \A s \in Slots : s = running \/ s = Target
           /\ content \in [Slots -> Contents] /\ otadata \in [Slots -> ImgStates]
BY OtherSlot DEF AgentInv, InstallInv, OtaInv, OtaTypeOK, Target

\* The confirmation: only firmware with a session reaches it, and only after a
\* join from the running image.
LEMMA InvConfirm ==
    ASSUME AgentInv, Confirm \/ ConfirmFails
    PROVE  AgentInv'
<1>1. linkJoined /\ running \in proven /\ content[running] \in Working
  BY DEF AgentInv, Confirm, ConfirmFails, MustConfirm, JoinSound, WorkingSound
<1>2. CASE ConfirmFails \/ (Confirm /\ UNCHANGED otaVars)
  <2>1. /\ InstallInv' /\ InstallTypeOK'
        /\ content' = content /\ otadata' = otadata /\ running' = running
        /\ Target' = Target
        /\ pending_verify' <=> pending_verify
    BY <1>2, DeviceUntouched DEF Confirm, ConfirmFails
  <2>2. Confirm => ~pending_verify
    BY <1>2, SlotFacts DEF Confirm, ConfirmFails, mark_valid, pending_verify, otaVars
  <2>3. RunTypeOK' /\ BackoffKeepsUp'
    <3>1. CASE ConfirmFails
      BY <3>1 DEF AgentInv, RunTypeOK, Places, BackoffKeepsUp, ConfirmFails, Fault
    <3>2. CASE Confirm
      BY <3>2 DEF AgentInv, RunTypeOK, Places, BackoffKeepsUp, Confirm
    <3> QED BY <1>2, <3>1, <3>2
  <2>4. NetTypeOK'
    BY <1>2 DEF AgentInv, NetTypeOK, netVars, Confirm, ConfirmFails
  <2>5. ValidMeansJoined' /\ JoinSound' /\ AnswerFirst'
    BY <1>1, <1>2, <2>1 DEF AgentInv, ValidMeansJoined, JoinSound, AnswerFirst, netVars,
                            Confirm, ConfirmFails
  <2>6. ConfirmedSound' /\ WorkingSound'
    BY <1>2, <2>1, <2>2 DEF AgentInv, ConfirmedSound, PastConfirmation, WorkingSound, Confirm, ConfirmFails
  <2> QED
    BY <2>1, <2>3, <2>4, <2>5, <2>6 DEF AgentInv
<1>3. CASE Confirm /\ mark_valid
  <2>1. InstallInv'
    BY <1>3, InstallInvConfirm DEF AgentInv, Confirm, dlVars
  <2>2. /\ content' = content /\ running' = running /\ Target' = Target
        /\ otadata' = [otadata EXCEPT ![running] = "Valid"]
        /\ ~pending_verify'
    BY <1>3, SlotFacts DEF mark_valid, Target, pending_verify
  <2>3. RunTypeOK' /\ BackoffKeepsUp'
    BY <1>3 DEF AgentInv, RunTypeOK, Places, BackoffKeepsUp, Confirm
  <2>4. NetTypeOK'
    BY <1>3 DEF AgentInv, NetTypeOK, netVars, Confirm
  <2>5. ValidMeansJoined' /\ JoinSound' /\ AnswerFirst'
    BY <1>1, <1>3, <2>2, SlotFacts
       DEF AgentInv, ValidMeansJoined, JoinSound, AnswerFirst, netVars, Confirm
  <2>6. ConfirmedSound' /\ WorkingSound'
    BY <1>1, <1>3, <2>2 DEF AgentInv, ConfirmedSound, PastConfirmation, WorkingSound, Confirm
  <2> QED
    BY <2>1, <2>3, <2>4, <2>5, <2>6 DEF AgentInv
<1> QED
  BY <1>2, <1>3 DEF Confirm

----------------------------------------------------------------------------
(* Frames.                                                                 *)

\* The frame at the head of the inbox, and those behind it.
LEMMA InboxFacts ==
    ASSUME NetTypeOK, inbox # <<>>
    PROVE  /\ Head(inbox) = inbox[1] /\ inbox[1] \in Frames
           /\ Tail(inbox) \in Seq(Frames)
           /\ Len(Tail(inbox)) = Len(inbox) - 1 /\ Len(inbox) \in Nat \ {0}
           /\ \A i \in 1..Len(Tail(inbox)) : Tail(inbox)[i] = inbox[i + 1]
BY DEF NetTypeOK

\* Reading a frame that leaves the link joined keeps what is known of the
\* answers to the join.
LEMMA FrameTaken ==
    ASSUME AgentInv, inbox # <<>>, inbox' = Tail(inbox),
           \/ Head(inbox).event = "join_ok" /\ linkJoined'
           \/ Head(inbox).event \in {"update", "reboot"} /\ linkJoined' = linkJoined,
           UNCHANGED <<running, proven, sock, srv, joined>>, pc' # "connect"
    PROVE  linkJoined' /\ JoinSound' /\ AnswerFirst' /\ NetTypeOK'
<1>1. /\ Head(inbox) = inbox[1] /\ Tail(inbox) \in Seq(Frames)
      /\ Len(Tail(inbox)) = Len(inbox) - 1 /\ Len(inbox) \in Nat \ {0}
      /\ \A i \in 1..Len(Tail(inbox)) : Tail(inbox)[i] = inbox[i + 1]
  BY InboxFacts DEF AgentInv
<1>2. linkJoined' /\ running \in proven
  <2>1. CASE inbox[1].event = "join_ok"
    BY <1>1, <2>1 DEF AgentInv, JoinSound
  <2>2. CASE inbox[1].event \in {"update", "reboot"}
    BY <1>1, <2>2 DEF AgentInv, JoinSound, AnswerFirst
  <2> QED BY <1>1, <2>1, <2>2
<1>3. JoinSound' /\ AnswerFirst'
  BY <1>2 DEF JoinSound, AnswerFirst
<1>4. NetTypeOK'
  BY <1>1 DEF AgentInv, NetTypeOK
<1> QED BY <1>2, <1>3, <1>4

\* A frame read with the flash untouched and the session going on.
LEMMA InvFrame ==
    ASSUME AgentInv, inbox # <<>>, inbox' = Tail(inbox), pc = "loop",
           \/ Head(inbox).event = "join_ok" /\ linkJoined' = TRUE
           \/ Head(inbox).event \in {"update", "reboot"} /\ linkJoined' = linkJoined,
           pc' \in {"loop", "apply_failed"} \/ (pc' = "rebooting" /\ ~pending_verify),
           UNCHANGED <<otaVars, dlVars>>,
           UNCHANGED <<proven, sock, srv, joined, confirmed, validated, attempt, unjoined>>,
           faults' \in Nat
    PROVE  AgentInv'
<1>1. /\ InstallInv' /\ InstallTypeOK'
      /\ content' = content /\ otadata' = otadata /\ running' = running
      /\ Target' = Target
      /\ pending_verify' <=> pending_verify
  BY DeviceUntouched
<1>2. linkJoined' /\ JoinSound' /\ AnswerFirst' /\ NetTypeOK'
  BY <1>1, FrameTaken
<1>3. RunTypeOK' /\ BackoffKeepsUp'
  BY DEF AgentInv, RunTypeOK, Places, BackoffKeepsUp
<1>4. ValidMeansJoined' /\ ConfirmedSound' /\ WorkingSound'
  BY <1>1 DEF AgentInv, ValidMeansJoined, ConfirmedSound, PastConfirmation, WorkingSound
<1> QED
  BY <1>1, <1>2, <1>3, <1>4 DEF AgentInv

\* A frame whose update is applied: the install begins.
LEMMA InvApplies ==
    ASSUME AgentInv, inbox # <<>>, pc = "loop", NEW u \in Updates, Applies(u),
           \/ Head(inbox).event = "join_ok" /\ linkJoined' = TRUE
           \/ Head(inbox).event \in {"update", "reboot"} /\ linkJoined' = linkJoined,
           UNCHANGED <<proven, validated>>
    PROVE  AgentInv'
<1>1. InstallInv'
  BY InstallInvStart DEF Applies, AgentInv
<1>2. /\ content' = content /\ otadata' = otadata /\ running' = running
      /\ Target' = Target
      /\ pending_verify' <=> pending_verify
  BY DEF Applies, Start, Begin, Target, pending_verify
<1>3. linkJoined' /\ JoinSound' /\ AnswerFirst' /\ NetTypeOK'
  BY <1>2, FrameTaken DEF Applies
<1>4. RunTypeOK' /\ BackoffKeepsUp'
  BY DEF Applies, AgentInv, RunTypeOK, Places, BackoffKeepsUp
<1>5. ValidMeansJoined' /\ ConfirmedSound' /\ WorkingSound'
  BY <1>2 DEF Applies, AgentInv, ValidMeansJoined, ConfirmedSound, PastConfirmation, WorkingSound
<1> QED
  BY <1>1, <1>3, <1>4, <1>5 DEF AgentInv

\* The handlers of a join's answer and of a pushed update.
LEMMA InvHandleUpdate ==
    ASSUME AgentInv, HandleJoinOk \/ HandleUpdate
    PROVE  AgentInv'
<1>1. /\ pc = "loop" /\ inbox # <<>> /\ UNCHANGED <<proven, validated>>
      /\ Head(inbox).event \in {"join_ok", "update"}
      /\ faults \in Nat
  BY DEF HandleJoinOk, HandleUpdate, Handles, AgentInv, RunTypeOK
<1>2. \A u \in Head(inbox).offer : u \in Updates
  BY <1>1, InboxFacts DEF AgentInv, Frames, Offers
<1>3. CASE CannotDecline
  BY <1>1, <1>3, InvEndSession DEF CannotDecline
<1>4. CASE /\ HandleJoinOk /\ linkJoined' = TRUE /\ inbox' = Tail(inbox)
           /\ UNCHANGED <<otaVars, dlVars, pc, attempt, joined, confirmed, sock, srv,
                          unjoined, faults>>
  <2>1. Head(inbox).event = "join_ok"
    BY <1>4 DEF HandleJoinOk, Handles
  <2> QED
    BY <1>1, <1>4, <2>1, InvFrame
<1>5. ASSUME NEW u \in Head(inbox).offer, decide(u),
             \/ Head(inbox).event = "join_ok" /\ linkJoined' = TRUE
             \/ Head(inbox).event = "update" /\ linkJoined' = linkJoined
      PROVE  AgentInv'
  <2>1. CASE Applies(u)
    BY <1>1, <1>2, <1>5, <2>1, InvApplies
  <2>2. CASE ApplyFails
    <3>1. faults' \in Nat
      BY <1>1, <2>2 DEF ApplyFails, Fault
    <3> QED
      BY <1>1, <1>5, <2>2, <3>1, InvFrame DEF ApplyFails
  <2>3. CASE Declines
    BY <1>1, <1>5, <2>3, InvFrame DEF Declines
  <2> QED
    BY <1>5, <2>1, <2>2, <2>3 DEF decide
<1> QED
  BY <1>1, <1>3, <1>4, <1>5 DEF HandleJoinOk, HandleUpdate, Handles

\* An operator's reboot comes after the join's answer, so the turn of the loop
\* that reads it has confirmed the image.
LEMMA InvHandleReboot ==
    ASSUME AgentInv, HandleReboot
    PROVE  AgentInv'
<1>1. /\ pc = "loop" /\ inbox # <<>> /\ Head(inbox).event = "reboot" /\ ~MustConfirm
      /\ UNCHANGED <<otaVars, dlVars, validated, proven, faults>>
      /\ faults \in Nat
  BY DEF HandleReboot, Handles, AgentInv, RunTypeOK
<1>2. CASE EndSession
  BY <1>1, <1>2, InvEndSession
<1>3. CASE pc' = "rebooting" /\ inbox' = Tail(inbox)
           /\ UNCHANGED <<attempt, sessionVars, sock, srv, unjoined>>
  <2>1. linkJoined
    BY <1>1, InboxFacts DEF AgentInv, AnswerFirst
  <2>2. ~pending_verify
    BY <1>1, <2>1 DEF MustConfirm, AgentInv, ConfirmedSound, PastConfirmation
  <2> QED
    BY <1>1, <1>3, <2>2, InvFrame DEF sessionVars
<1> QED
  BY <1>2, <1>3 DEF HandleReboot

----------------------------------------------------------------------------
(* The download.                                                           *)

\* A step of the agent's download is a step of install.
LEMMA DownloadIsInstallStep ==
    ASSUME Download
    PROVE  \E alive \in BOOLEAN : InstallStep(alive)
<1>1. Alive \subseteq BOOLEAN
  BY DEF Alive
<1>2. {FileLen} \in ContentLengths
  BY DEF ContentLengths
<1>3. CASE InstallProceeds
  BY <1>1, <1>2, <1>3 DEF InstallProceeds, InstallStep
<1>4. CASE \E alive \in Alive : InstallStep(alive)
  BY <1>1, <1>4
<1> QED
  BY <1>3, <1>4 DEF Download

\* A download preserves the invariant: it cannot touch a fallback, and what it
\* overwrites is no longer recorded as confirmed.
LEMMA InvDownload ==
    ASSUME AgentInv, Download
    PROVE  AgentInv'
<1>1. PICK alive \in BOOLEAN : InstallStep(alive)
  BY DownloadIsInstallStep
<1>2. InstallInv'
  BY <1>1, InstallInvStep DEF AgentInv
<1>3. OtaInv /\ (WriterNext \/ UNCHANGED otaVars)
  BY <1>1, InstallStepIsOta DEF AgentInv, InstallInv, InstallTypeOK
<1>4. /\ running' = running /\ Target' = Target
      /\ content'[running] = content[running]
      /\ pending_verify' = pending_verify
      /\ pending_verify => content' = content
  BY <1>3, WriterStep DEF otaVars, Target, pending_verify
<1>5. /\ content' # content => otadata'[Target] # "Valid"
      /\ \A s \in Slots : otadata'[s] = "Valid" => otadata[s] = "Valid"
  BY <1>3, WriterForgets DEF otaVars
<1>6. /\ pc = "download" /\ pc' \in {"completed", "apply_failed", "download"}
      /\ proven' = StillProven /\ faults' \in Nat
      /\ UNCHANGED <<attempt, sessionVars, netVars, validated, unjoined>>
  BY DEF Download, AgentInv, RunTypeOK, Fault
<1>7. pc' = "completed" => ~pending_verify
  <2> SUFFICES ASSUME pc' = "completed" PROVE ~pending_verify
    OBVIOUS
  <2>1. ipc' = "done"
    BY DEF Download
  <2>2. Commit(Delivered)
    BY <1>1, <2>1, InstallPhaseStep DEF AgentInv
  <2> QED
    BY <1>3, <2>2 DEF Commit, OtaInv, OpenSound
<1>8. /\ \A s \in Slots : s \in proven /\ s # Target => s \in proven'
      /\ content' = content => proven' = proven
      /\ proven' \subseteq proven
  BY <1>6 DEF StillProven
<1>9. RunTypeOK' /\ BackoffKeepsUp'
  BY <1>6, <1>8 DEF AgentInv, RunTypeOK, Places, BackoffKeepsUp, sessionVars
<1>10. NetTypeOK' /\ AnswerFirst'
  BY <1>6 DEF AgentInv, NetTypeOK, AnswerFirst, netVars, sessionVars
<1>11. ValidMeansJoined'
  BY <1>5, <1>8 DEF AgentInv, ValidMeansJoined
<1>12. JoinSound'
  <2>1. running \in Slots /\ Target # running
    BY SlotFacts
  <2>2. running \in proven => running' \in proven'
    BY <1>4, <1>8, <2>1
  <2> QED
    BY <1>6, <2>2 DEF AgentInv, JoinSound, netVars, sessionVars
<1>13. ConfirmedSound' /\ WorkingSound'
  BY <1>4, <1>6, <1>7
     DEF AgentInv, ConfirmedSound, PastConfirmation, WorkingSound, sessionVars
<1> QED
  BY <1>2, <1>9, <1>10, <1>11, <1>12, <1>13 DEF AgentInv

----------------------------------------------------------------------------
(* Resets, NervesHub and the network.                                      *)

\* A reset: whichever slot comes up has firmware that works, or falls back to
\* firmware that does.
LEMMA InvBoots ==
    ASSUME AgentInv, Boots, faults' \in Nat
    PROVE  AgentInv'
<1>1. InstallInv' /\ OtaInv /\ Reset
  BY InstallInvReset DEF AgentInv, InstallInv, Boots
<1>2. content' = content
  BY <1>1 DEF Reset
<1>3. RunTypeOK' /\ BackoffKeepsUp'
  <2>1. /\ pc' = "connect" /\ attempt' = 0 /\ unjoined' = 0 /\ validated' = FALSE
        /\ joined' = FALSE /\ confirmed' = FALSE /\ linkJoined' = FALSE
        /\ proven' = proven /\ proven \subseteq Slots
    BY DEF Boots, SessionForgotten, AgentInv, RunTypeOK
  <2>2. RunTypeOK'
    BY <2>1 DEF RunTypeOK, Places
  <2>3. BackoffKeepsUp'
    BY <2>1 DEF BackoffKeepsUp
  <2> QED BY <2>2, <2>3
<1>4. NetTypeOK' /\ JoinSound' /\ AnswerFirst'
  <2>1. /\ inbox' = <<>> /\ sock' = "down" /\ srv' = "none"
        /\ joined' = FALSE /\ linkJoined' = FALSE
    BY DEF Boots, SessionForgotten
  <2>2. NetTypeOK'
    BY <2>1 DEF NetTypeOK
  <2>3. JoinSound' /\ AnswerFirst'
    BY <2>1 DEF JoinSound, AnswerFirst
  <2> QED BY <2>2, <2>3
<1>5. \A s \in Slots : otadata'[s] = "Valid" => otadata[s] = "Valid"
  <2>1. otadata' = [Demoted EXCEPT ![NextBoot] =
                       IF @ = "New" THEN "PendingVerify" ELSE @]
    BY <1>1 DEF Reset
  <2> QED
    BY <2>1 DEF Demoted
<1>6. ValidMeansJoined'
  BY <1>5 DEF Boots, AgentInv, ValidMeansJoined
<1>7. ConfirmedSound' /\ WorkingSound'
  <2>1. pc' = "connect" /\ confirmed' = FALSE /\ validated' = FALSE
    BY DEF Boots, SessionForgotten
  <2>2. /\ ~pending_verify' => content'[running'] \in Working
        /\ pending_verify' => content'[Target'] \in Working
    BY <1>1, <1>2, ResetCases DEF AgentInv, WorkingSound, pending_verify
  <2> QED
    BY <2>1, <2>2 DEF ConfirmedSound, PastConfirmation, WorkingSound
<1> QED
  BY <1>1, <1>3, <1>4, <1>6, <1>7 DEF AgentInv

\* A frame on its way to the device.
LEMMA InvPushes ==
    ASSUME AgentInv, NEW event \in Events, NEW offer \in Offers, Pushes(event, offer),
           faults' \in Nat,
           \/ srv = "joining" /\ event = "join_ok" /\ srv' = "joined"
                /\ proven' = proven \cup {running}
           \/ srv = "joining" /\ event = "join_refused" /\ srv' = "none" /\ proven' = proven
           \/ srv = "joined" /\ event \notin {"join_ok", "join_refused"}
                /\ srv' \in {"joined", "none"} /\ proven' = proven
    PROVE  AgentInv'
<1>1. /\ UNCHANGED <<otaVars, dlVars, pc, attempt, sessionVars, validated, unjoined, sock>>
      /\ inbox' = Append(inbox, Frame(event, offer))
  BY DEF Pushes, envVars
<1>2. /\ InstallInv' /\ InstallTypeOK'
      /\ content' = content /\ otadata' = otadata /\ running' = running
      /\ Target' = Target
      /\ pending_verify' <=> pending_verify
  BY <1>1, DeviceUntouched
<1>3. /\ Frame(event, offer) \in Frames /\ Frame(event, offer).event = event
      /\ inbox \in Seq(Frames) /\ inbox' \in Seq(Frames)
      /\ Len(inbox) \in Nat /\ Len(inbox') = Len(inbox) + 1
      /\ inbox'[Len(inbox) + 1] = Frame(event, offer)
      /\ \A i \in 1..Len(inbox) : inbox'[i] = inbox[i]
  BY <1>1 DEF AgentInv, NetTypeOK, Frame, Frames
<1>4. NetTypeOK'
  BY <1>1, <1>3 DEF AgentInv, NetTypeOK
<1>5. running \in Slots /\ proven \subseteq proven' /\ proven' \subseteq Slots
  BY SlotFacts DEF AgentInv, RunTypeOK
<1>6. RunTypeOK' /\ BackoffKeepsUp'
  BY <1>1, <1>5 DEF AgentInv, RunTypeOK, BackoffKeepsUp, sessionVars
<1>7. ValidMeansJoined' /\ ConfirmedSound' /\ WorkingSound'
  BY <1>1, <1>2, <1>5
     DEF AgentInv, ValidMeansJoined, ConfirmedSound, PastConfirmation, WorkingSound,
         sessionVars
<1>8. JoinSound'
  <2>1. ASSUME NEW i \in 1..Len(inbox'), inbox'[i].event = "join_ok"
        PROVE  running \in proven'
    <3>1. CASE i \in 1..Len(inbox)
      BY <1>3, <1>5, <2>1, <3>1 DEF AgentInv, JoinSound
    <3>2. CASE i = Len(inbox) + 1
      BY <1>3, <2>1, <3>2
    <3> QED BY <1>3, <3>1, <3>2
  <2> QED
    BY <1>1, <1>2, <1>5, <2>1 DEF AgentInv, JoinSound, sessionVars
<1>9. AnswerFirst'
  <2>1. inbox' # <<>>
    BY <1>3
  <2>2. CASE inbox = <<>>
    <3>1. inbox'[1].event = event
      BY <1>3, <2>2
    <3> QED
      BY <1>1, <2>1, <2>2, <3>1 DEF AgentInv, AnswerFirst, sessionVars
  <2>3. CASE inbox # <<>>
    <3>1. inbox'[1] = inbox[1]
      BY <1>3, <2>3
    <3> QED
      BY <1>1, <2>1, <2>3, <3>1 DEF AgentInv, AnswerFirst, sessionVars
  <2> QED BY <2>2, <2>3
<1> QED
  BY <1>2, <1>4, <1>6, <1>7, <1>8, <1>9 DEF AgentInv

\* Everything NervesHub does on the channel is such a frame.
LEMMA InvServer ==
    ASSUME AgentInv, ServerStep
    PROVE  AgentInv'
<1>1. faults' \in Nat
  BY DEF ServerStep, ServerAccepts, ServerRefuses, ServerPushesUpdate, OperatorReboots,
         ServerCloses, Fault, AgentInv, RunTypeOK
<1>2. {} \in Offers /\ \A u \in Deployable : {u} \in Offers
  BY DEF Offers, Deployable
<1>3. CASE ServerAccepts
  BY <1>1, <1>2, <1>3, InvPushes DEF ServerAccepts, Events
<1>4. CASE ServerRefuses
  BY <1>1, <1>2, <1>4, InvPushes DEF ServerRefuses, Events
<1>5. CASE ServerPushesUpdate
  BY <1>1, <1>2, <1>5, InvPushes DEF ServerPushesUpdate, Events
<1>6. CASE OperatorReboots \/ ServerCloses
  BY <1>1, <1>2, <1>6, InvPushes DEF OperatorReboots, ServerCloses, Events
<1> QED
  BY <1>3, <1>4, <1>5, <1>6 DEF ServerStep

\* A connection that is lost takes the frames behind some point with it.
LEMMA InvSocketDies ==
    ASSUME AgentInv, SocketDies
    PROVE  AgentInv'
<1>1. /\ UNCHANGED <<otaVars, dlVars, pc, attempt, sessionVars, validated, unjoined, proven>>
      /\ sock' \in {"deaf", "down"} /\ srv' = "none" /\ faults' \in Nat
  BY DEF SocketDies, envVars, Fault, AgentInv, RunTypeOK
<1>2. /\ InstallInv' /\ InstallTypeOK'
      /\ content' = content /\ otadata' = otadata /\ running' = running
      /\ Target' = Target
      /\ pending_verify' <=> pending_verify
  BY <1>1, DeviceUntouched
<1>3. PICK n \in 0..Len(inbox) : inbox' = SubSeq(inbox, 1, n)
  BY DEF SocketDies
<1>4. /\ inbox' \in Seq(Frames) /\ Len(inbox') = n
      /\ \A i \in 1..n : inbox'[i] = inbox[i]
      /\ inbox' # <<>> => inbox # <<>> /\ inbox'[1] = inbox[1]
  BY <1>3 DEF AgentInv, NetTypeOK
<1>5. NetTypeOK' /\ JoinSound' /\ AnswerFirst'
  BY <1>1, <1>2, <1>4 DEF AgentInv, NetTypeOK, JoinSound, AnswerFirst, sessionVars
<1>6. RunTypeOK' /\ BackoffKeepsUp'
  BY <1>1 DEF AgentInv, RunTypeOK, BackoffKeepsUp, sessionVars
<1>7. ValidMeansJoined' /\ ConfirmedSound' /\ WorkingSound'
  BY <1>1, <1>2
     DEF AgentInv, ValidMeansJoined, ConfirmedSound, PastConfirmation, WorkingSound,
         sessionVars
<1> QED
  BY <1>2, <1>5, <1>6, <1>7 DEF AgentInv

----------------------------------------------------------------------------
(* The theorems.                                                           *)

\* The invariant holds of the device as it is shipped.
LEMMA AgentInvInit == Init => AgentInv
<1> SUFFICES ASSUME Init PROVE AgentInv
  OBVIOUS
<1>1. InstallInv
  BY InstallInvInit DEF Init
<1>2. /\ running = 0 /\ 0 \in Slots /\ content[running] \in Working
      /\ \A s \in Slots : otadata[s] = "Undefined"
  BY DEF Init, InstallInit, OtaInit, Slots
<1>3. ~pending_verify
  BY <1>2 DEF pending_verify
<1>4. RunTypeOK /\ BackoffKeepsUp
  <2>1. /\ pc = "connect" /\ attempt = 0 /\ unjoined = 0 /\ faults = 0 /\ proven = {}
        /\ validated = FALSE /\ joined = FALSE /\ confirmed = FALSE /\ linkJoined = FALSE
    BY DEF Init
  <2>2. RunTypeOK
    BY <2>1 DEF RunTypeOK, Places
  <2>3. BackoffKeepsUp
    BY <2>1 DEF BackoffKeepsUp
  <2> QED BY <2>2, <2>3
<1>5. NetTypeOK
  BY DEF Init, NetTypeOK
<1>6. JoinSound /\ AnswerFirst
  BY DEF Init, JoinSound, AnswerFirst
<1>7. ValidMeansJoined /\ ConfirmedSound /\ WorkingSound
  BY <1>2, <1>3 DEF ValidMeansJoined, ConfirmedSound, WorkingSound
<1> QED
  BY <1>1, <1>4, <1>5, <1>6, <1>7 DEF AgentInv

\* A step that changes nothing.
LEMMA InvStutter ==
    ASSUME AgentInv, UNCHANGED vars
    PROVE  AgentInv'
<1>1. UNCHANGED <<otaVars, dlVars, pc, attempt, sessionVars, netVars, validated, proven,
                  unjoined, faults>>
  BY DEF vars
<1>2. /\ InstallInv'
      /\ content' = content /\ otadata' = otadata /\ running' = running
      /\ Target' = Target
      /\ pending_verify' <=> pending_verify
  BY <1>1, DeviceUntouched
<1>3. RunTypeOK' /\ BackoffKeepsUp'
  BY <1>1 DEF AgentInv, RunTypeOK, BackoffKeepsUp, sessionVars
<1>4. NetTypeOK' /\ JoinSound' /\ AnswerFirst'
  BY <1>1, <1>2 DEF AgentInv, NetTypeOK, JoinSound, AnswerFirst, sessionVars, netVars
<1>5. ValidMeansJoined' /\ ConfirmedSound' /\ WorkingSound'
  BY <1>1, <1>2
     DEF AgentInv, ValidMeansJoined, ConfirmedSound, PastConfirmation, WorkingSound,
         sessionVars
<1> QED
  BY <1>2, <1>3, <1>4, <1>5 DEF AgentInv

\* Every step of the agent, of NervesHub and of the network preserves it.
LEMMA AgentInvNext == AgentInv /\ [Next]_vars => AgentInv'
<1> SUFFICES ASSUME AgentInv, [Next]_vars PROVE AgentInv'
  OBVIOUS
<1>1. CASE AgentStep
  <2>1. CASE Restart
    BY <2>1, InvBoots DEF Restart, AgentInv, RunTypeOK
  <2> QED
    BY <1>1, <2>1, InvConnect, InvSends, InvConfirm, InvHandleUpdate, InvHandleReboot,
       InvDownload
       DEF AgentStep
<1>2. CASE PowerLoss
  <2>1. Boots /\ faults' \in Nat
    BY <1>2 DEF PowerLoss, Fault, AgentInv, RunTypeOK
  <2> QED
    BY <2>1, InvBoots
<1>3. CASE UNCHANGED vars \/ QuietTurn \/ Stopped
  BY <1>3, InvStutter DEF QuietTurn, Stopped
<1> QED
  BY <1>1, <1>2, <1>3, InvServer, InvSocketDies DEF Next

\* The agent's inductive invariant holds of every behaviour.
THEOREM AgentInvariant == Spec => []AgentInv
BY AgentInvInit, AgentInvNext, PTL DEF Spec

\* An image is recorded as good only if NervesHub accepted a join from it.
THEOREM OnlyJoinedIsConfirmed == Spec => []ValidMeansJoined
<1>1. AgentInv => ValidMeansJoined
  BY DEF AgentInv
<1> QED
  BY <1>1, AgentInvariant, PTL

\* The agent never restarts a device out of its own probation.
THEOREM NoRestartOnProbation == Spec => []RestartKeepsImage
<1>1. AgentInv => RestartKeepsImage
  BY DEF AgentInv, ConfirmedSound, PastConfirmation, RestartKeepsImage
<1> QED
  BY <1>1, AgentInvariant, PTL

\* NervesHub hears "validated" only of firmware that no reset takes away.
THEOREM ValidatedIsNeverReverted == Spec => []ValidatedIsTrue
<1>1. AgentInv => ValidatedIsTrue
  BY DEF AgentInv, ConfirmedSound, ValidatedIsTrue
<1> QED
  BY <1>1, AgentInvariant, PTL

\* However updates, faults, resets and messages interleave, firmware that
\* cannot reach NervesHub is on probation, with firmware that can next in line.
THEOREM NeverStranded == Spec => []Recoverable
<1>1. AgentInv => Recoverable
  <2> SUFFICES ASSUME AgentInv, content[running] \notin Working
               PROVE  pending_verify /\ NextBoot = Target /\ content[Target] \in Working
    BY DEF Recoverable
  <2>1. pending_verify /\ content[Target] \in Working
    BY DEF AgentInv, WorkingSound
  <2>2. FallbackIntact
    BY OtaInvImplies DEF AgentInv, InstallInv
  <2> QED
    BY <2>1, <2>2 DEF FallbackIntact
<1> QED
  BY <1>1, AgentInvariant, PTL

\* The backoff never falls behind the connections that got no join.
THEOREM BackoffNeverLags == Spec => []BackoffKeepsUp
<1>1. AgentInv => BackoffKeepsUp
  BY DEF AgentInv
<1> QED
  BY <1>1, AgentInvariant, PTL

\* The agent is one of the clients Ota allows: composed with the download, the
\* channel and the network, it takes only steps the OTA writer, the
\* confirmation and the bootloader take, so everything proved of OtaSpec
\* (AlwaysBootable, ImplementsRollback, ...) holds of the whole device.
THEOREM AgentImplementsOta == Spec => OtaSpec
<1>1. Init => OtaInit
  BY DEF Init, InstallInit
<1>2. AgentInv /\ [Next]_vars => [OtaNext]_otaVars
  <2> SUFFICES ASSUME AgentInv, [Next]_vars PROVE OtaNext \/ UNCHANGED otaVars
    OBVIOUS
  <2>1. CASE Download
    BY <2>1, DownloadIsInstallStep, InstallStepIsOta
       DEF AgentInv, InstallInv, InstallTypeOK, OtaNext
  <2>2. CASE Restart \/ PowerLoss
    BY <2>2 DEF Restart, PowerLoss, Boots, OtaNext
  <2>3. CASE Confirm
    BY <2>3 DEF Confirm, OtaNext
  <2>4. CASE HandleJoinOk \/ HandleUpdate
    BY <2>4 DEF HandleJoinOk, HandleUpdate, decide, Applies, ApplyFails, Declines,
                CannotDecline, Start, OtaNext, WriterNext
  <2>5. CASE \/ Connect \/ ConnectFails \/ ConnectRefused \/ SendJoin \/ ConfirmFails
             \/ SendFirmwareValidated \/ SessionDies \/ HandleEnd \/ HandleReboot
             \/ SendCompleted \/ SendRebooting \/ SendFailed
    BY <2>5 DEF Connect, ConnectFails, ConnectRefused, SendJoin, ConfirmFails,
                SendFirmwareValidated, SessionDies, HandleEnd, HandleReboot,
                SendCompleted, SendRebooting, SendFailed
  <2>6. CASE ServerStep \/ SocketDies
    BY <2>6 DEF ServerStep, ServerAccepts, ServerRefuses, ServerPushesUpdate,
                OperatorReboots, ServerCloses, SocketDies, Pushes, envVars
  <2>7. CASE UNCHANGED vars \/ QuietTurn \/ Stopped
    BY <2>7 DEF QuietTurn, Stopped, vars
  <2> QED
    BY <2>1, <2>2, <2>3, <2>4, <2>5, <2>6, <2>7 DEF Next, AgentStep
<1> QED
  BY <1>1, <1>2, AgentInvariant, PTL DEF Spec, OtaSpec

============================================================================
