------------------------------- MODULE Agent -------------------------------
(***************************************************************************)
(* The run loop of agent.rs, the channel state machine of link.rs it       *)
(* drives, the socket between them and NervesHub, and NervesHub's side of  *)
(* the "device" channel, composed with Install.tla and Ota.tla: everything *)
(* that decides which firmware the device runs.                            *)
(*                                                                         *)
(* A step is one call with an effect outside the agent (a flash operation, *)
(* a send, a receive), so a reset, a dying socket or a message from the    *)
(* server can fall between any two.  Time is left out: a heartbeat that is *)
(* not answered is the agent's step SessionDies on a socket that no longer *)
(* delivers.                                                               *)
(***************************************************************************)
EXTENDS Install

CONSTANTS
    Working,            \* the images that can reach NervesHub when they run
    ReconnectBackoff,   \* Config.reconnect_backoff_secs
    Decisions,          \* what the application's UpdateHandler may answer
    MaxInbox,           \* bound on frames waiting to be read
    MaxFaults           \* bound on failures and operator interventions

ASSUME WorkingAssumption == Working \subseteq Images

ASSUME DecisionsAssumption == Decisions \subseteq {"Apply", "Ignore", "Reschedule"}

ASSUME BackoffAssumption == ReconnectBackoff \in Seq(Nat)

ASSUME BoundsAssumption == MaxInbox \in Nat \ {0} /\ MaxFaults \in Nat

VARIABLES
    pc,             \* where run and session_within are
    attempt,        \* run's count of attempts since a join
    joined,         \* session_within's *joined, which run reads
    confirmed,      \* session_within's confirmed
    linkJoined,     \* Link.joined
    sock,           \* "up"; "deaf": takes writes and delivers nothing; "down"
    inbox,          \* frames received and not yet read
    srv,            \* NervesHub's side of the channel on this socket
    validated,      \* whether NervesHub was told this boot's image is good
    proven,         \* slots whose present image had a join accepted (history)
    unjoined,       \* connections in a row that got no join (history)
    faults          \* how many of MaxFaults have happened

sessionVars == <<joined, confirmed, linkJoined>>
netVars == <<sock, inbox, srv>>
dlVars == <<ipc, upd, expected, written, reported, wrong, tries, waited>>
vars == <<otaVars, dlVars, pc, attempt, sessionVars, netVars,
          validated, proven, unjoined, faults>>

----------------------------------------------------------------------------
(* Helpers.                                                                *)

\* The count of attempts saturates where backoff_for, which repeats the last
\* wait of the list, no longer depends on it.
MaxAttempt == Len(ReconnectBackoff)
Counted(n) == AtMost(n + 1, MaxAttempt)

Events == {"join_ok", "join_refused", "update", "reboot", "close"}
Offers == {{}} \cup {{u} : u \in Updates}
Frames == [event : Events, offer : Offers]
Frame(event, offer) == [event |-> event, offer |-> offer]

Fault == faults < MaxFaults /\ faults' = faults + 1

\* A send returns Ok unless the socket is known to be gone.
Sends == sock # "down"

\* The slots whose image stays proven across a step of the install.
StillProven == IF content' = content THEN proven ELSE proven \ {Target}

\* The top of the loop has an image to confirm before anything is read.
MustConfirm == linkJoined /\ ~confirmed

----------------------------------------------------------------------------

Init ==
    /\ InstallInit
    /\ content[0] \in Working           \* what the device was shipped with
    /\ pc = "connect"
    /\ attempt = 0
    /\ joined = FALSE
    /\ confirmed = FALSE
    /\ linkJoined = FALSE
    /\ sock = "down"
    /\ inbox = <<>>
    /\ srv = "none"
    /\ validated = FALSE
    /\ proven = {}
    /\ unjoined = 0
    /\ faults = 0

----------------------------------------------------------------------------
(* run.                                                                    *)

\* The connection and everything session_within kept for it are dropped.
SessionForgotten ==
    /\ joined' = FALSE
    /\ confirmed' = FALSE
    /\ linkJoined' = FALSE
    /\ sock' = "down"
    /\ inbox' = <<>>
    /\ srv' = "none"

\* As Connect, with the backoff reset by a socket that merely opened.
Connect_Mut ==
    /\ pc = "connect"
    /\ content[running] \in Working
    /\ pc' = "join"
    /\ sock' = "up"
    /\ inbox' = <<>>
    /\ attempt' = 0
    /\ UNCHANGED <<otaVars, dlVars, sessionVars, srv, validated, proven,
                   unjoined, faults>>

\* platform.connect succeeds, and a session starts.
Connect ==
    /\ pc = "connect"
    /\ content[running] \in Working
    /\ pc' = "join"
    /\ sock' = "up"
    /\ inbox' = <<>>
    /\ UNCHANGED <<otaVars, dlVars, attempt, sessionVars, srv, validated, proven,
                   unjoined, faults>>

\* It fails, always for an image that cannot reach NervesHub; run backs off.
ConnectFails ==
    /\ pc = "connect"
    /\ \/ content[running] \notin Working /\ UNCHANGED faults
       \/ content[running] \in Working /\ Fault
    /\ attempt' = Counted(attempt)
    /\ unjoined' = Counted(unjoined)
    /\ UNCHANGED <<otaVars, dlVars, pc, sessionVars, netVars, validated, proven>>

\* A bad or missing certificate ends run.
ConnectRefused ==
    /\ pc = "connect"
    /\ Fault
    /\ pc' = "stopped"
    /\ UNCHANGED <<otaVars, dlVars, attempt, sessionVars, netVars, validated,
                   proven, unjoined>>

\* The session is over without a reboot, by Ok(None) or Err(Transport): run
\* resets the backoff if the session joined, counts an attempt if it did not,
\* sleeps and connects again.
EndSession ==
    /\ pc' = "connect"
    /\ attempt' = IF joined THEN 0 ELSE Counted(attempt)
    /\ unjoined' = IF linkJoined THEN 0 ELSE Counted(unjoined)
    /\ SessionForgotten

----------------------------------------------------------------------------
(* session_within, up to the first frame.                                  *)

SendJoin ==
    /\ pc = "join"
    /\ IF Sends
       THEN /\ pc' = "loop"
            /\ srv' = IF sock = "up" THEN "joining" ELSE srv
            /\ UNCHANGED <<attempt, sessionVars, sock, inbox, unjoined>>
       ELSE EndSession
    /\ UNCHANGED <<otaVars, dlVars, validated, proven, faults>>

\* As Confirm, without waiting for the join to be accepted.
Confirm_Mut ==
    /\ pc = "loop"
    /\ ~confirmed
    /\ joined' = linkJoined
    /\ IF pending_verify THEN mark_valid ELSE UNCHANGED otaVars
    /\ pc' = "validated"
    /\ UNCHANGED <<dlVars, attempt, confirmed, linkJoined, netVars, validated,
                   proven, unjoined, faults>>

\* As Confirm, with the test of pending_verify the wrong way round.
Confirm_Inverted ==
    /\ pc = "loop"
    /\ MustConfirm
    /\ joined' = TRUE
    /\ IF pending_verify THEN UNCHANGED otaVars ELSE mark_valid
    /\ pc' = "validated"
    /\ UNCHANGED <<dlVars, attempt, confirmed, linkJoined, netVars, validated,
                   proven, unjoined, faults>>

\* confirm_running_image, first half: the rollback is cancelled.
Confirm ==
    /\ pc = "loop"
    /\ MustConfirm
    /\ joined' = TRUE
    /\ IF pending_verify THEN mark_valid ELSE UNCHANGED otaVars
    /\ pc' = "validated"
    /\ UNCHANGED <<dlVars, attempt, confirmed, linkJoined, netVars, validated,
                   proven, unjoined, faults>>

\* mark_valid fails, which is not a transport error: run returns it.
ConfirmFails ==
    /\ pc = "loop"
    /\ MustConfirm
    /\ pending_verify
    /\ Fault
    /\ pc' = "stopped"
    /\ joined' = TRUE
    /\ UNCHANGED <<otaVars, dlVars, attempt, confirmed, linkJoined, netVars,
                   validated, proven, unjoined>>

\* confirm_running_image, second half: NervesHub is told.
SendFirmwareValidated ==
    /\ pc = "validated"
    /\ IF Sends
       THEN /\ pc' = "loop"
            /\ confirmed' = TRUE
            /\ validated' = (validated \/ sock = "up")
            /\ UNCHANGED <<attempt, joined, linkJoined, netVars, unjoined>>
       ELSE EndSession /\ UNCHANGED validated
    /\ UNCHANGED <<otaVars, dlVars, proven, faults>>

\* A receive fails, a heartbeat or a log line cannot be sent, or a heartbeat
\* went unanswered for a whole interval.
SessionDies ==
    /\ pc = "loop"
    /\ ~MustConfirm
    /\ sock # "up"
    /\ EndSession
    /\ UNCHANGED <<otaVars, dlVars, validated, proven, faults>>

\* A turn of the loop on a healthy connection with nothing to read.
QuietTurn ==
    /\ pc = "loop"
    /\ ~MustConfirm
    /\ sock = "up"
    /\ inbox = <<>>
    /\ UNCHANGED vars

----------------------------------------------------------------------------
(* Handling one frame.                                                     *)

Handles(event) ==
    /\ pc = "loop"
    /\ ~MustConfirm
    /\ inbox # <<>>
    /\ Head(inbox).event = event

\* handler.update_available says Apply: apply gets an HTTP client and a
\* writer, and calls install.
Applies(u) ==
    /\ "Apply" \in Decisions
    /\ Start(u)
    /\ pc' = "download"
    /\ inbox' = Tail(inbox)
    /\ UNCHANGED <<attempt, joined, confirmed, sock, srv, unjoined, faults>>

\* Either of the two could not be had.
ApplyFails ==
    /\ "Apply" \in Decisions
    /\ Fault
    /\ pc' = "apply_failed"
    /\ inbox' = Tail(inbox)
    /\ UNCHANGED <<otaVars, dlVars, attempt, joined, confirmed, sock, srv, unjoined>>

\* It says Ignore or Reschedule, and NervesHub is told; a status that cannot be
\* sent makes handle fail, which ends the session.
Declines ==
    /\ Decisions # {"Apply"}
    /\ Sends
    /\ inbox' = Tail(inbox)
    /\ UNCHANGED <<otaVars, dlVars, pc, attempt, joined, confirmed, sock, srv,
                   unjoined, faults>>

decide(u) == Applies(u) \/ ApplyFails \/ Declines

CannotDecline ==
    /\ Decisions # {"Apply"}
    /\ ~Sends
    /\ EndSession
    /\ UNCHANGED <<otaVars, dlVars, faults>>

\* As HandleJoinOk, with the join's update dropped and the flag left alone.
HandleJoinOk_Mut ==
    /\ Handles("join_ok")
    /\ inbox' = Tail(inbox)
    /\ UNCHANGED <<otaVars, dlVars, pc, attempt, sessionVars, sock, srv,
                   validated, proven, unjoined, faults>>

\* The join's reply, which may carry an update: that update is applied in the
\* same turn of the loop, before the top of the loop comes round again.
HandleJoinOk ==
    /\ Handles("join_ok")
    /\ LET offer == Head(inbox).offer
       IN  \/ /\ offer = {}
              /\ linkJoined' = TRUE
              /\ inbox' = Tail(inbox)
              /\ UNCHANGED <<otaVars, dlVars, pc, attempt, joined, confirmed,
                             sock, srv, unjoined, faults>>
           \/ \E u \in offer : decide(u) /\ linkJoined' = TRUE
           \/ offer # {} /\ CannotDecline
    /\ UNCHANGED <<validated, proven>>

\* An "update" pushed to a joined device.
HandleUpdate ==
    /\ Handles("update")
    /\ \/ \E u \in Head(inbox).offer : decide(u) /\ UNCHANGED linkJoined
       \/ CannotDecline
    /\ UNCHANGED <<validated, proven>>

\* handle returns JoinRefused, or a phx_close or phx_error came: reconnect.
HandleEnd ==
    /\ Handles("join_refused") \/ Handles("close")
    /\ EndSession
    /\ UNCHANGED <<otaVars, dlVars, validated, proven, faults>>

\* As HandleReboot, served from whatever turn of the loop it is read in.
HandleReboot_Mut ==
    /\ pc = "loop"
    /\ inbox # <<>>
    /\ \E i \in 1..Len(inbox) : inbox[i].event = "reboot"
    /\ IF Sends
       THEN pc' = "rebooting" /\ UNCHANGED <<attempt, sessionVars, netVars, unjoined>>
       ELSE EndSession
    /\ UNCHANGED <<otaVars, dlVars, validated, proven, faults>>

\* An operator's reboot, answered before it is carried out.
HandleReboot ==
    /\ Handles("reboot")
    /\ IF Sends
       THEN /\ pc' = "rebooting"
            /\ inbox' = Tail(inbox)
            /\ UNCHANGED <<attempt, sessionVars, sock, srv, unjoined>>
       ELSE EndSession
    /\ UNCHANGED <<otaVars, dlVars, validated, proven, faults>>

----------------------------------------------------------------------------
(* apply, after install has started.                                       *)

\* What tick, report and wait may find: a socket known to be gone is noticed
\* when one of them has something to send, and only then.
Alive == IF sock = "down" THEN BOOLEAN ELSE {TRUE}

\* install with the network and the flash behaving; esp_ota_begin refuses an
\* image on probation without any fault.
InstallProceeds ==
    \E alive \in Alive :
        \/ OpenOk({FileLen})
        \/ WaitEnds(alive)
        \/ written < FileLen /\ ~pending_verify /\ CopyChunk(FALSE, alive)
        \/ written < FileLen /\ pending_verify /\ CopyWriteFails(FALSE)
        \/ written >= FileLen /\ CopyEnds
        \/ InstallCommits
        \/ InstallAborts

Download ==
    /\ pc = "download"
    /\ \/ InstallProceeds /\ UNCHANGED faults
       \/ Fault /\ \E alive \in Alive : InstallStep(alive)
    /\ pc' = CASE ipc' = "done"   -> "completed"
               [] ipc' = "failed" -> "apply_failed"
               [] OTHER           -> "download"
    /\ proven' = StillProven
    /\ UNCHANGED <<attempt, sessionVars, netVars, validated, unjoined>>

\* The update is committed.  Progress and "completed" are sent, then
\* "rebooting"; then, after a pause, the restart.  Each send is a `?`.
SendCompleted ==
    /\ pc = "completed"
    /\ IF Sends
       THEN pc' = "send_rebooting" /\ UNCHANGED <<attempt, sessionVars, netVars, unjoined>>
       ELSE EndSession
    /\ UNCHANGED <<otaVars, dlVars, validated, proven, faults>>

\* As SendRebooting, with the restart left to somebody else.
SendRebooting_Mut ==
    /\ pc = "send_rebooting"
    /\ pc' = "loop"
    /\ UNCHANGED <<otaVars, dlVars, attempt, sessionVars, netVars, unjoined,
                   validated, proven, faults>>

SendRebooting ==
    /\ pc = "send_rebooting"
    /\ IF Sends
       THEN pc' = "rebooting" /\ UNCHANGED <<attempt, sessionVars, netVars, unjoined>>
       ELSE EndSession
    /\ UNCHANGED <<otaVars, dlVars, validated, proven, faults>>

\* A failed update is reported, and the session goes on.
SendFailed ==
    /\ pc = "apply_failed"
    /\ IF Sends
       THEN pc' = "loop" /\ UNCHANGED <<attempt, sessionVars, netVars, unjoined>>
       ELSE EndSession
    /\ UNCHANGED <<otaVars, dlVars, validated, proven, faults>>

----------------------------------------------------------------------------
(* Resets.                                                                 *)

Boots ==
    /\ Reset
    /\ InstallForgotten
    /\ pc' = "connect"
    /\ attempt' = 0
    /\ unjoined' = 0
    /\ validated' = FALSE
    /\ SessionForgotten
    /\ UNCHANGED proven

\* platform.restart, for an update or an operator.
Restart == pc = "rebooting" /\ Boots /\ UNCHANGED faults

\* Power loss, a panic, a watchdog: at any point.
PowerLoss == Boots /\ Fault

----------------------------------------------------------------------------
(* NervesHub and the network.                                              *)

envVars == <<otaVars, dlVars, pc, attempt, sessionVars, validated, unjoined>>

Pushes(event, offer) ==
    /\ sock = "up"
    /\ Len(inbox) < MaxInbox
    /\ inbox' = Append(inbox, Frame(event, offer))
    /\ UNCHANGED <<envVars, sock>>

\* The updates NervesHub may offer the image it knows the device to be running.
Deployable == {u \in Updates : u.image # content[running]}

\* The join is accepted, with the update there is for the device, if any.
ServerAccepts ==
    /\ srv = "joining"
    /\ \E offer \in {{}} \cup {{u} : u \in Deployable} : Pushes("join_ok", offer)
    /\ srv' = "joined"
    /\ proven' = proven \cup {running}
    /\ UNCHANGED faults

ServerRefuses ==
    /\ srv = "joining"
    /\ Fault
    /\ Pushes("join_refused", {})
    /\ srv' = "none"
    /\ UNCHANGED proven

ServerPushesUpdate ==
    /\ srv = "joined"
    /\ \E u \in Deployable : Pushes("update", {u})
    /\ UNCHANGED <<srv, proven, faults>>

OperatorReboots ==
    /\ srv = "joined"
    /\ Fault
    /\ Pushes("reboot", {})
    /\ UNCHANGED <<srv, proven>>

ServerCloses ==
    /\ srv = "joined"
    /\ Fault
    /\ Pushes("close", {})
    /\ srv' = "none"
    /\ UNCHANGED proven

\* The connection is lost, noticed or not, and with it the frames on the way.
SocketDies ==
    /\ sock = "up"
    /\ Fault
    /\ sock' \in {"deaf", "down"}
    /\ \E n \in 0..Len(inbox) : inbox' = SubSeq(inbox, 1, n)
    /\ srv' = "none"
    /\ UNCHANGED <<envVars, proven>>

----------------------------------------------------------------------------

\* run has returned an error; what the application does next is its own.
Stopped == pc = "stopped" /\ UNCHANGED vars

AgentStep ==
    \/ Connect \/ ConnectFails \/ ConnectRefused
    \/ SendJoin \/ Confirm \/ ConfirmFails \/ SendFirmwareValidated
    \/ SessionDies
    \/ HandleJoinOk \/ HandleUpdate \/ HandleEnd \/ HandleReboot
    \/ Download
    \/ SendCompleted \/ SendRebooting \/ SendFailed
    \/ Restart

ServerStep ==
    \/ ServerAccepts \/ ServerRefuses
    \/ ServerPushesUpdate \/ OperatorReboots \/ ServerCloses

Next ==
    \/ AgentStep
    \/ ServerStep
    \/ SocketDies
    \/ PowerLoss
    \/ QuietTurn
    \/ Stopped

Spec == Init /\ [][Next]_vars

\* The agent's thread is scheduled, and NervesHub answers joins and deploys.
FairSpec ==
    /\ Spec
    /\ WF_vars(AgentStep)
    /\ WF_vars(ServerAccepts)
    /\ WF_vars(ServerPushesUpdate)

----------------------------------------------------------------------------
(* Properties.                                                             *)

Places == {"connect", "join", "loop", "validated", "download", "apply_failed",
           "completed", "send_rebooting", "rebooting", "stopped"}

\* Every variable has its type: those of the agent,
RunTypeOK ==
    /\ pc \in Places
    /\ attempt \in Nat
    /\ joined \in BOOLEAN
    /\ confirmed \in BOOLEAN
    /\ linkJoined \in BOOLEAN
    /\ validated \in BOOLEAN
    /\ proven \subseteq Slots
    /\ unjoined \in Nat
    /\ faults \in Nat

\* those of the connection,
NetTypeOK ==
    /\ sock \in {"up", "deaf", "down"}
    /\ inbox \in Seq(Frames)
    /\ srv \in {"none", "joining", "joined"}

\* and those below.
TypeOK == InstallTypeOK /\ RunTypeOK /\ NetTypeOK

\* An image is confirmed only after NervesHub accepted a join from it, in the
\* slot it is in: not at boot, not on the strength of an earlier install of the
\* same image, not because some other image joined.
ValidMeansJoined == \A s \in Slots : otadata[s] = "Valid" => s \in proven

\* A device is never stranded on firmware that cannot reach NervesHub: such
\* firmware is on probation, and the other slot holds firmware that can, which
\* is what the next reset boots.
Recoverable ==
    content[running] \notin Working =>
        /\ pending_verify
        /\ NextBoot = Target
        /\ content[Target] \in Working

\* The agent never restarts out of an image that is on probation, which would
\* make the bootloader give up on an image that has just joined: an update and
\* an operator's reboot both come after the confirmation.
RestartKeepsImage == pc = "rebooting" => ~pending_verify

\* NervesHub hears firmware_validated only of an image whose rollback has been
\* cancelled: it is never told "validated" by an image that a reset takes away.
ValidatedIsTrue == validated => ~pending_verify

\* A connection that gets no join counts against the backoff however far it
\* got: run's place in the list of waits never falls behind the number of
\* connections in a row that ended without one.
BackoffKeepsUp == attempt >= unjoined

\* The inductive invariant behind the properties above, in parts.  A join that
\* was accepted, read already or not, was accepted from the running image.
JoinSound ==
    /\ linkJoined => running \in proven
    /\ \A i \in 1..Len(inbox) : inbox[i].event = "join_ok" => running \in proven
    /\ joined => linkJoined

\* NervesHub answers the join before it says anything else.
AnswerFirst ==
    /\ pc = "connect" => srv = "none"
    /\ srv = "joined" => linkJoined \/ inbox # <<>>
    /\ ~linkJoined /\ inbox # <<>> => inbox[1].event \in {"join_ok", "join_refused"}

\* Past the confirmation, and past a commit, nothing is on probation.
PastConfirmation == pc \in {"validated", "completed", "send_rebooting", "rebooting"}

ConfirmedSound == confirmed \/ validated \/ PastConfirmation => ~pending_verify

\* Firmware that works is running, or is what the probation falls back to; and
\* only firmware that works has a session.
WorkingSound ==
    /\ ~pending_verify => content[running] \in Working
    /\ pending_verify => content[Target] \in Working
    /\ pc \notin {"connect", "stopped"} => content[running] \in Working

AgentInv ==
    /\ InstallInv /\ RunTypeOK /\ NetTypeOK
    /\ ValidMeansJoined /\ JoinSound /\ AnswerFirst /\ ConfirmedSound /\ WorkingSound
    /\ BackoffKeepsUp

\* An image that works does not stay on probation: given a server that answers
\* and failures that stop, it is confirmed (or, reset too early, replaced).
ProbationEnds ==
    pending_verify /\ content[running] \in Working
        ~> ~pending_verify \/ pc = "stopped"

\* Whatever happened along the way (a reset during the download or the
\* probation, a commit whose reboot never came, a failed or corrupted
\* download), the device ends up running the firmware NervesHub deploys.
UpdateConverges ==
    <>[](pc = "stopped" \/ \E u \in Updates : content[running] = u.image)

\* "the update is already applied, the device is going to reboot either way"
\* (agent.rs:991): once install has committed, the agent restarts without
\* opening another session first.
RebootsEitherWay == pc = "join" => otadata[Target] # "New"

============================================================================
