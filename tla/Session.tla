------------------------------ MODULE Session ------------------------------
(***************************************************************************)
(* One session against the clock: the turn of session_within's loop        *)
(* (agent.rs), the heartbeat, extensions and log state it drives (link.rs, *)
(* extensions.rs), and NervesHub at the other end.  Agent.tla has the      *)
(* firmware side of the same loop and leaves time out.                     *)
(*                                                                         *)
(* A tick is what recv_frame waits for.  Time passes there, in a callback  *)
(* of the application and in apply; the rest of a turn takes none.  MaxTime*)
(* ends the behaviours that are looked at, MaxInbox is how many frames     *)
(* NervesHub has on the way at once.                                       *)
(***************************************************************************)
EXTENDS Naturals, Sequences

CONSTANTS
    heartbeat_ms,                   \* Config.heartbeat_interval_secs, in ticks
    EXTENSIONS_INVITATION_WAIT_MS,  \* in ticks
    linger, limit,      \* a SessionWindow, in ticks
    Uses,               \* how the application may be using the agent
    CallbackMax,        \* the ticks a callback of the application may take
    CallMax,            \* the ticks one HTTP or flash call of a download may take
    MaxTime, MaxInbox

ASSUME ClockAssumption ==
    /\ heartbeat_ms \in Nat \ {0} /\ EXTENSIONS_INVITATION_WAIT_MS \in Nat
    /\ linger \in Nat /\ limit \in Nat
    /\ CallbackMax \in Nat /\ CallMax \in Nat
    /\ MaxTime \in Nat /\ MaxInbox \in Nat

\* A use of the agent: run_session with its window, or run and
\* run_session_until; Config.extensions; whether it supplied a health provider;
\* and what NervesHub may say of itself to such a device, each once.
ASSUME UsesAssumption ==
    Uses \subseteq [windowed : BOOLEAN,
                    extensions : SUBSET {"health", "logging"},
                    provider : BOOLEAN,
                    speaks : SUBSET {"extensions_get", "identify", "update", "close"}]

VARIABLES
    now,
    use,                \* the one of Uses this is
    pc,                 \* where the loop is
    outcome,            \* what session_within returned, once it has
    \* Locals of session_within.
    joined_at,          \* an Option, as a set; set with `confirmed`
    extensions_sent,    \* extensions_joined
    last_heartbeat,
    health_answered,
    busy,               \* ticks in the callback, or since the download's last pump
    \* Link and Extensions.
    joined,
    heartbeat_ref,      \* an Option, as a set
    ext,                \* [joined, invited, advertised, attached]
    declared,           \* the keys the extensions join offered
    beats,              \* heartbeats sent: the last one's ref
    backlog,            \* whether log lines are queued
    \* The connection and NervesHub.
    inbox,              \* frames received and not yet read
    owed,               \* what NervesHub has heard and not yet answered
    said,               \* what it says at most once and has said
    deafAt,             \* when the connection stopped delivering, as an Option
    quiet,              \* ticks since then spent waiting for frames (history)
    lastSent            \* when the device last sent anything (history)

localVars == <<joined_at, extensions_sent, last_heartbeat, health_answered, busy>>
linkVars == <<joined, heartbeat_ref, ext, declared, beats>>
netVars == <<inbox, owed, said, deafAt, quiet, lastSent>>
vars == <<now, use, pc, outcome, localVars, linkVars, backlog, netVars>>

----------------------------------------------------------------------------
(* Helpers.                                                                *)

Windowed == use.windowed
Enabled == use.extensions
Provider == use.provider
Speaks == use.speaks

Question(what) == [what |-> what, ref |-> 0]
Beat(ref) == [what |-> "heartbeat", ref |-> ref]

Event(event) == [event |-> event, ref |-> 0, at |-> now, has |-> {}]
Reply(ref) == [Event("heartbeat_reply") EXCEPT !.ref = ref]
Attaches(keys) == [Event("extensions_reply") EXCEPT !.has = keys]
Invites(versions) == [Event("extensions_get") EXCEPT !.has = versions]

\* The messages an action sends: they count as traffic, and leave NervesHub
\* owing the answers to them unless the connection is deaf.
Sends(answers) ==
    /\ lastSent' = now
    /\ owed' = IF deafAt = {} THEN owed \cup answers ELSE owed

SendsNothing == UNCHANGED <<lastSent, owed>>

Ends(how) == pc' = "over" /\ outcome' = how

\* Goes on to the next part of the turn.
GoesTo(place) == pc' = place /\ UNCHANGED outcome

\* Extensions::version for logging: what an invitation may say of it is that
\* there is none, one or two of the versions; before one arrives, or when it
\* names nothing, the oldest is declared.
Unnamed == {"unnamed"}
version ==
    CASE ext.advertised = Unnamed        -> "0.0.1"
      [] "0.1.0" \in ext.advertised      -> "0.1.0"
      [] ext.advertised = {"0.0.1"}      -> "0.0.1"
      [] OTHER                           -> "None"

Invitations == {Unnamed, {}, {"0.0.1"}, {"0.0.1", "0.1.0"}}

\* The keys the extensions join offers: those there is a version for.
join_params == {key \in Enabled : key = "logging" => version # "None"}

logging_attached == "logging" \in ext.attached

\* Extensions::on_event: what a frame on the extensions channel asks for.
on_event == IF "health" \in ext.attached THEN {"NeedHealth"} ELSE {}

----------------------------------------------------------------------------

\* send_join has been called.
Init ==
    /\ now = 0
    /\ use \in Uses
    /\ pc = "top"
    /\ outcome = "None"
    /\ joined_at = {} /\ extensions_sent = FALSE /\ last_heartbeat = 0
    /\ health_answered = FALSE /\ busy = 0
    /\ joined = FALSE
    /\ heartbeat_ref = {}
    /\ ext = [joined |-> FALSE, invited |-> FALSE, advertised |-> Unnamed, attached |-> {}]
    /\ declared = {}
    /\ beats = 0
    /\ backlog \in BOOLEAN /\ (backlog => "logging" \in Enabled)
    /\ inbox = <<>> /\ owed = {Question("join")} /\ said = {}
    /\ deafAt = {} /\ quiet = 0 /\ lastSent = 0

----------------------------------------------------------------------------
(* A turn of the loop, up to the receive.                                  *)

Confirm ==
    /\ pc = "top"
    /\ GoesTo("extensions")
    /\ IF joined /\ joined_at = {}
       THEN joined_at' = {now} /\ Sends({})         \* firmware_validated
       ELSE UNCHANGED joined_at /\ SendsNothing
    /\ UNCHANGED <<now, extensions_sent, last_heartbeat, health_answered, busy,
                   linkVars, backlog, inbox, said, deafAt, quiet>>

invitation_overdue ==
    \E at \in joined_at : now - at >= EXTENSIONS_INVITATION_WAIT_MS

JoinsExtensions ==
    joined /\ Enabled # {} /\ ~extensions_sent /\ (ext.invited \/ invitation_overdue)

SendExtensionsJoin ==
    /\ pc = "extensions"
    /\ GoesTo("heartbeat")
    /\ IF JoinsExtensions
       THEN /\ extensions_sent' = TRUE
            /\ declared' = join_params
            /\ Sends({Question("extensions")})
       ELSE UNCHANGED <<extensions_sent, declared>> /\ SendsNothing
    /\ UNCHANGED <<now, joined_at, last_heartbeat, health_answered, busy, joined,
                   heartbeat_ref, ext, beats, backlog, inbox, said, deafAt, quiet>>

\* link.send_heartbeat.
Beats ==
    /\ beats' = beats + 1
    /\ heartbeat_ref' = {beats + 1}
    /\ Sends({Beat(beats + 1)})

\* As heartbeat_unanswered, asked only of a session that joined.
heartbeat_unanswered_Mut == joined /\ heartbeat_ref # {}

heartbeat_unanswered == heartbeat_ref # {}

Heartbeat ==
    /\ pc = "heartbeat"
    /\ \/ /\ now - last_heartbeat < heartbeat_ms
          /\ GoesTo("logs")
          /\ SendsNothing
          /\ UNCHANGED <<last_heartbeat, heartbeat_ref, beats>>
       \/ /\ now - last_heartbeat >= heartbeat_ms
          /\ heartbeat_unanswered
          /\ Ends("Unanswered")
          /\ SendsNothing
          /\ UNCHANGED <<last_heartbeat, heartbeat_ref, beats>>
       \/ /\ now - last_heartbeat >= heartbeat_ms
          /\ ~heartbeat_unanswered
          /\ GoesTo("logs")
          /\ Beats
          /\ last_heartbeat' = now
    /\ UNCHANGED <<now, joined_at, extensions_sent, health_answered, busy, joined,
                   ext, declared, backlog, inbox, said, deafAt, quiet>>

\* send_logs, when lines are due: a batch a second is one every turn or two.
TakesLogs == backlog /\ logging_attached /\ backlog' = FALSE

SendLogs ==
    /\ pc = "logs"
    /\ GoesTo("window")
    /\ \/ TakesLogs /\ Sends({})
       \/ UNCHANGED backlog /\ SendsNothing
    /\ UNCHANGED <<now, localVars, linkVars, inbox, said, deafAt, quiet>>

\* As nothing_outstanding, with a health check left to come another time.
nothing_outstanding_Mut ==
    /\ Enabled # {} => ext.joined
    /\ logging_attached => ~backlog

\* As nothing_outstanding, waiting for a health check with no provider to answer it.
nothing_outstanding_Waits ==
    /\ Enabled # {} => ext.joined
    /\ "health" \in ext.attached => health_answered
    /\ logging_attached => ~backlog

nothing_outstanding ==
    /\ Enabled # {} => ext.joined
    /\ Provider /\ "health" \in ext.attached => health_answered
    /\ logging_attached => ~backlog

lingered == \E at \in joined_at : now - at >= linger

WindowLimit == Windowed /\ now >= limit

\* In a session without a window, control may ask for a health report; without
\* a provider that is nothing to do.
ControlReportsHealth ==
    /\ pc = "window"
    /\ ~Windowed
    /\ "health" \in ext.attached
    /\ GoesTo(IF Provider THEN "report" ELSE "recv")
    /\ busy' = 0
    /\ UNCHANGED <<now, joined_at, extensions_sent, last_heartbeat, health_answered,
                   linkVars, backlog, netVars>>

\* Or it has had enough.
ControlLeaves ==
    /\ pc = "window"
    /\ ~Windowed
    /\ Ends("Finished")
    /\ UNCHANGED <<now, localVars, linkVars, backlog, netVars>>

\* A session without a window goes on.
Window ==
    /\ pc = "window"
    /\ \/ WindowLimit /\ Ends(IF joined THEN "Finished" ELSE "NoJoin")
       \/ ~WindowLimit /\ Windowed /\ lingered /\ nothing_outstanding /\ Ends("Finished")
       \/ ~WindowLimit /\ ~(Windowed /\ lingered /\ nothing_outstanding) /\ GoesTo("recv")
    /\ UNCHANGED <<now, localVars, linkVars, backlog, netVars>>

----------------------------------------------------------------------------
(* Receiving, and what a frame leads to.                                   *)

\* Every step of time: it moves the clock, and the history of waiting.
Passes(waiting) ==
    /\ now < MaxTime
    /\ now' = now + 1
    /\ quiet' = IF waiting /\ deafAt # {} THEN quiet + 1 ELSE quiet

\* Nothing came in a whole wait.
RecvTimesOut ==
    /\ pc = "recv"
    /\ inbox = <<>>
    /\ Passes(TRUE)
    /\ GoesTo("top")
    /\ UNCHANGED <<localVars, linkVars, backlog, inbox, owed, said, deafAt, lastSent>>

Reads(event) ==
    /\ pc = "recv"
    /\ inbox # <<>>
    /\ Head(inbox).event = event
    /\ inbox' = Tail(inbox)
    /\ UNCHANGED <<now, backlog, said, deafAt, quiet>>

HandleJoinReply ==
    /\ Reads("join_reply")
    /\ joined' = TRUE
    /\ GoesTo("top")
    /\ SendsNothing
    /\ UNCHANGED <<localVars, heartbeat_ref, ext, declared, beats>>

\* Only the reply to the last heartbeat counts.
HandleHeartbeatReply ==
    /\ Reads("heartbeat_reply")
    /\ heartbeat_ref' = heartbeat_ref \ {Head(inbox).ref}
    /\ GoesTo("top")
    /\ SendsNothing
    /\ UNCHANGED <<localVars, joined, ext, declared, beats>>

on_invitation ==
    /\ Reads("extensions_get")
    /\ ext' = [ext EXCEPT !.invited = TRUE, !.advertised = Head(inbox).has]
    /\ GoesTo("top")
    /\ SendsNothing
    /\ UNCHANGED <<localVars, joined, heartbeat_ref, declared, beats>>

\* on_join_reply, and the confirmations it asks for: NervesHub asks for health
\* as soon as it hears that health is attached.
on_join_reply ==
    /\ Reads("extensions_reply")
    /\ ext' = [ext EXCEPT !.joined = TRUE, !.attached = Head(inbox).has]
    /\ GoesTo("top")
    /\ IF Head(inbox).has = {} THEN SendsNothing
       ELSE Sends({Question(key) : key \in Head(inbox).has \cap {"health"}})
    /\ UNCHANGED <<localVars, joined, heartbeat_ref, declared, beats>>

\* A health check, an Identify, a console command: the application's code runs.
\* A health check is answered by saying nothing where there is no provider.
HandleCallback ==
    /\ \/ /\ Reads("health_check")
          /\ health_answered' = (health_answered \/ "NeedHealth" \in on_event)
          /\ GoesTo(IF Provider /\ "NeedHealth" \in on_event THEN "callback" ELSE "top")
       \/ Reads("identify") /\ UNCHANGED health_answered /\ GoesTo("callback")
    /\ busy' = 0
    /\ SendsNothing
    /\ UNCHANGED <<joined_at, extensions_sent, last_heartbeat, linkVars>>

CallbackTakesTime ==
    /\ pc \in {"callback", "report"}
    /\ busy < CallbackMax
    /\ busy' = busy + 1
    /\ Passes(FALSE)
    /\ UNCHANGED <<pc, outcome, joined_at, extensions_sent, last_heartbeat,
                   health_answered, linkVars, backlog, inbox, owed, said, deafAt,
                   lastSent>>

\* A provider's report is sent; an Identify has nothing to send.
Answers == Sends({}) \/ SendsNothing

CallbackReturns ==
    /\ \/ pc = "callback" /\ GoesTo("top") /\ Answers
       \/ pc = "report" /\ GoesTo("recv") /\ Sends({})
    /\ UNCHANGED <<now, localVars, linkVars, backlog, inbox, said, deafAt, quiet>>

HandleClose ==
    /\ Reads("close")
    /\ Ends("Reconnect")
    /\ SendsNothing
    /\ UNCHANGED <<localVars, linkVars>>

----------------------------------------------------------------------------
(* apply, with the Pump in download.                                       *)

\* The download starts with a Pump whose last heartbeat is now.  What it sends
\* of its progress is left out: a download waiting to be retried sends none.
HandleUpdate ==
    /\ Reads("update")
    /\ GoesTo("apply")
    /\ last_heartbeat' = now
    /\ busy' = 0
    /\ SendsNothing
    /\ UNCHANGED <<joined_at, extensions_sent, health_answered, linkVars>>

\* Time passes inside one call of a download.
CallTakesTime ==
    /\ pc = "apply"
    /\ busy < CallMax
    /\ busy' = busy + 1
    /\ Passes(FALSE)
    /\ UNCHANGED <<pc, outcome, joined_at, extensions_sent, last_heartbeat,
                   health_answered, linkVars, backlog, inbox, owed, said, deafAt,
                   lastSent>>

\* As tick, with a heartbeat only in the session's own loop.
tick_Mut ==
    /\ pc = "apply"
    /\ busy > 0
    /\ busy' = 0
    /\ UNCHANGED <<now, pc, outcome, joined_at, extensions_sent, last_heartbeat,
                   health_answered, linkVars, backlog, netVars>>

\* Pump::tick, between two calls: nothing is read, and nothing asks whether the
\* last heartbeat was answered.
tick ==
    /\ pc = "apply"
    /\ busy > 0
    /\ busy' = 0
    /\ TakesLogs \/ UNCHANGED backlog
    /\ IF now - last_heartbeat >= heartbeat_ms
       THEN Beats /\ last_heartbeat' = now
       ELSE /\ UNCHANGED <<last_heartbeat, heartbeat_ref, beats>>
            /\ IF backlog' # backlog THEN Sends({}) ELSE SendsNothing
    /\ UNCHANGED <<now, pc, outcome, joined_at, extensions_sent, health_answered,
                   joined, ext, declared, inbox, said, deafAt, quiet>>

\* As ApplyFails, with no time given to read what came in meanwhile.
ApplyFails_Mut ==
    /\ pc = "apply"
    /\ GoesTo("top")
    /\ Sends({})
    /\ UNCHANGED <<now, localVars, linkVars, backlog, inbox, said, deafAt, quiet>>

\* The update fails, which is reported; the heartbeat starts over.
ApplyFails ==
    /\ pc = "apply"
    /\ GoesTo("top")
    /\ Sends({})
    /\ last_heartbeat' = now
    /\ UNCHANGED <<now, joined_at, extensions_sent, health_answered, busy, linkVars,
                   backlog, inbox, said, deafAt, quiet>>

\* Or it succeeds, and the device restarts.
ApplySucceeds ==
    /\ pc = "apply"
    /\ Ends("Rebooting")
    /\ Sends({})
    /\ UNCHANGED <<now, localVars, linkVars, backlog, inbox, said, deafAt, quiet>>

----------------------------------------------------------------------------
(* The world outside the loop.  The rest of a turn takes no time, so what   *)
(* happens during it happens at the receive that follows.                  *)

Waiting == pc \in {"recv", "callback", "report", "apply"}

\* A thread of the application logs a line.
LogLine ==
    /\ Waiting
    /\ "logging" \in Enabled
    /\ ~backlog
    /\ "logged" \notin said
    /\ backlog' = TRUE
    /\ said' = said \cup {"logged"}
    /\ UNCHANGED <<now, pc, outcome, localVars, linkVars, inbox, owed, deafAt,
                   quiet, lastSent>>

Delivers(frame) ==
    /\ Waiting
    /\ deafAt = {}
    /\ Len(inbox) < MaxInbox
    /\ inbox' = Append(inbox, frame)
    /\ UNCHANGED <<now, pc, outcome, localVars, linkVars, backlog, deafAt, quiet,
                   lastSent>>

\* NervesHub answers something it has heard, in any order and at any time.
ServerAnswers ==
    \E question \in owed :
        /\ \/ question.what = "join" /\ Delivers(Event("join_reply"))
           \/ question.what = "heartbeat" /\ Delivers(Reply(question.ref))
           \/ question.what = "health" /\ Delivers(Event("health_check"))
           \/ /\ question.what = "extensions"
              /\ \E keys \in SUBSET declared : Delivers(Attaches(keys))
        /\ owed' = owed \ {question}
        /\ UNCHANGED said

\* It speaks first only to a device it has let join.
ServerSpeaks ==
    /\ Question("join") \notin owed
    /\ \E what \in Speaks \ said :
        /\ \/ what = "extensions_get" /\ \E versions \in Invitations : Delivers(Invites(versions))
           \/ what # "extensions_get" /\ Delivers(Event(what))
        /\ said' = said \cup {what}
    /\ UNCHANGED owed

\* The path stops delivering, and keeps taking writes.
GoesDeaf ==
    /\ Waiting
    /\ deafAt = {}
    /\ deafAt' = {now}
    /\ UNCHANGED <<now, pc, outcome, localVars, linkVars, backlog, inbox, owed, said,
                   quiet, lastSent>>

\* A send or a receive fails: see Agent.tla for where.
ConnectionLost ==
    /\ Waiting
    /\ Ends("Transport")
    /\ UNCHANGED <<now, localVars, linkVars, backlog, netVars>>

\* The session is over, or what is looked at of it is.
Rests ==
    /\ pc = "over" \/ now = MaxTime
    /\ UNCHANGED vars

----------------------------------------------------------------------------

Turn ==
    \/ Confirm \/ SendExtensionsJoin \/ Heartbeat \/ SendLogs
    \/ ControlReportsHealth \/ ControlLeaves \/ Window

Handles ==
    \/ RecvTimesOut \/ HandleJoinReply \/ HandleHeartbeatReply
    \/ on_invitation \/ on_join_reply \/ HandleClose
    \/ HandleCallback \/ CallbackTakesTime \/ CallbackReturns

Applies == HandleUpdate \/ CallTakesTime \/ tick \/ ApplyFails \/ ApplySucceeds

Environment ==
    LogLine \/ ServerAnswers \/ ServerSpeaks \/ GoesDeaf \/ ConnectionLost \/ Rests

Next == (Turn \/ Handles \/ Applies \/ Environment) /\ UNCHANGED use

Spec == Init /\ [][Next]_vars

----------------------------------------------------------------------------
(* Properties.                                                             *)

\* The callbacks of one turn: that of a frame, and before it a report where
\* control may ask for one; and of as many turns as frames may have to wait.
ControlReports == "health" \in Enabled /\ Provider /\ ~Windowed
TurnMax == CallbackMax * (IF ControlReports THEN 2 ELSE 1)
Backed == MaxInbox * TurnMax

\* A session that ends for want of an answer to its heartbeat has not had one:
\* no reply to it has been waiting to be read, except for as long as callbacks
\* of the application kept the loop from it.  A download, which heartbeats
\* without reading, does not cost the session the replies it left unread: what
\* they waited for counts from when the loop had them and itself back, at which
\* the heartbeat starts over.
UnansweredMeansSilence ==
    outcome = "Unanswered" =>
        \A i \in 1..Len(inbox) :
            inbox[i].event = "heartbeat_reply" /\ inbox[i].ref \in heartbeat_ref =>
                \/ now - inbox[i].at <= Backed
                \/ now - last_heartbeat <= Backed

\* A connection that no longer delivers is noticed within two intervals of the
\* loop's own time, whatever was under way when it went: frames still to be
\* read, an update, a heartbeat just answered.
DeafnessNoticed == pc # "over" => quiet <= 2 * heartbeat_ms

\* The device is never silent for more than two intervals, and the call or the
\* callbacks of the turn it is in, however the session's heartbeats and a
\* download's follow one another.
SilenceBounded ==
    pc # "over" => now - lastSent <= 2 * heartbeat_ms + CallMax + TurnMax

Arrived(event) == \E i \in 1..Len(inbox) : inbox[i].event = event

\* Heard by NervesHub and not answered, or answered and not read.
OnItsWay(question, event) == Question(question) \in owed \/ Arrived(event)

\* What a bounded session may have left to do: lines to send, the extensions to
\* join, and the answer to that or the check that attaching health sets off to
\* read, which means nothing to a device that has no report to give.
StillComing ==
    \/ logging_attached /\ backlog
    \/ Enabled # {} /\ ~extensions_sent
    \/ OnItsWay("extensions", "extensions_reply")
    \/ Provider /\ OnItsWay("health", "health_check")

\* A bounded session is over by its limit and the one callback it may be in then,
\* whatever NervesHub answers and whatever is left to send; only an update takes
\* it further.  Before the limit it leaves with nothing left to do, the answers
\* that are still on their way when the linger runs out included; and past the
\* linger it waits for nothing that cannot come: the extensions have been joined
\* if they are to be, and something is left to do.  It cannot tell that of a
\* connection that has stopped delivering.
WindowKept ==
    Windowed =>
        /\ "update" \notin said => now <= limit + CallbackMax
        /\ outcome = "Finished" /\ now < limit => ~StillComing
        /\ pc = "recv" /\ lingered =>
              ~JoinsExtensions /\ (StillComing \/ deafAt # {})

============================================================================
