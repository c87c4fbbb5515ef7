--------------------------- MODULE SessionProofs ---------------------------
(***************************************************************************)
(* Theorems about Session, for any interval, window, lengths of callbacks  *)
(* and calls, and any number of frames on the way: silence and deafness    *)
(* are bounded, a heartbeat that was answered ends no session, and a       *)
(* bounded session keeps to its window and leaves nothing owed.            *)
(***************************************************************************)
EXTENDS Session, TLAPS

Places == {"top", "extensions", "heartbeat", "logs", "window", "report", "recv",
           "callback", "apply", "over"}

Questions == {"join", "heartbeat", "health", "extensions"}
Speech == {"extensions_get", "identify", "update", "close"}
Events == {"join_reply", "heartbeat_reply", "health_check", "extensions_reply"} \cup Speech
Keys == {"health", "logging"}
Versions == {"unnamed", "0.0.1", "0.1.0"}

Frames == [event : Events, ref : Nat, at : Nat, has : SUBSET (Keys \cup Versions)]

SessionTypeOK ==
    /\ now \in Nat /\ use \in Uses
    /\ pc \in Places
    /\ outcome \in {"None", "Unanswered", "Finished", "NoJoin", "Reconnect", "Rebooting",
                    "Transport"}
    /\ pc # "over" => outcome = "None"
    /\ joined_at \subseteq Nat /\ extensions_sent \in BOOLEAN
    /\ last_heartbeat \in Nat /\ health_answered \in BOOLEAN /\ busy \in Nat
    /\ joined \in BOOLEAN /\ heartbeat_ref \subseteq Nat /\ beats \in Nat
    /\ ext \in [joined : BOOLEAN, invited : BOOLEAN,
                advertised : SUBSET (Keys \cup Versions),
                attached : SUBSET (Keys \cup Versions)]
    /\ declared \subseteq Keys /\ backlog \in BOOLEAN
    /\ inbox \in Seq(Frames) /\ Len(inbox) <= MaxInbox
    /\ owed \subseteq [what : Questions, ref : Nat]
    /\ deafAt \subseteq Nat /\ quiet \in Nat /\ lastSent \in Nat

\* How long a report that control asked for may take.
Reporting == IF ControlReports THEN CallbackMax ELSE 0

BeforeCheck == {"top", "extensions", "heartbeat"}
AfterCheck == {"logs", "window", "report", "recv"}

\* Past the check of a turn the interval since the last heartbeat is not over,
\* but for what callbacks and calls have taken since.
TurnInv ==
    /\ last_heartbeat <= now /\ lastSent <= now
    /\ pc = "report" => ControlReports
    /\ pc \in {"report", "callback"} => busy <= CallbackMax
    /\ pc = "apply" => busy <= CallMax
    /\ pc \in BeforeCheck => now - last_heartbeat <= heartbeat_ms + TurnMax
    /\ pc \in {"logs", "window"} => now - last_heartbeat < heartbeat_ms
    /\ pc \in {"report", "apply"} => now - last_heartbeat < heartbeat_ms + busy
    /\ pc = "recv" => now - last_heartbeat < heartbeat_ms + Reporting
    /\ pc = "callback" => now - last_heartbeat < heartbeat_ms + Reporting + busy

\* The loop counts the interval from something it sent, a download from its own
\* start, which is at most an interval and a report later.
SentInv ==
    /\ pc \notin {"apply", "over"} => last_heartbeat <= lastSent
    /\ pc = "apply" => last_heartbeat < lastSent + heartbeat_ms + Reporting

\* On a connection that went deaf there is nothing more to read; the first
\* interval over sends a heartbeat, and the next one ends the session.
QuietInv ==
    /\ quiet > 0 => inbox = <<>> /\ deafAt # {} /\ pc \notin {"callback", "apply"}
    /\ pc # "over" /\ heartbeat_ref = {} =>
          /\ quiet <= now - last_heartbeat
          /\ pc \in BeforeCheck => quiet <= heartbeat_ms
          /\ pc \in AfterCheck => quiet < heartbeat_ms
    /\ pc # "over" /\ heartbeat_ref # {} =>
          /\ quiet <= heartbeat_ms + (now - last_heartbeat)
          /\ pc \in BeforeCheck => quiet <= 2 * heartbeat_ms
          /\ pc \in AfterCheck => quiet < 2 * heartbeat_ms

\* What the frames read since the i-th one came in may have taken, if none was
\* left then but its own.
Ahead(i) == (MaxInbox - i) * TurnMax

\* A frame has been unread, or the loop back from a download, for as long as
\* that and what the turn has taken.
Unread(i, ticks) == now - inbox[i].at <= ticks \/ now - last_heartbeat <= ticks

BackInv ==
    \A i \in 1..Len(inbox) :
        /\ inbox[i].at <= now
        /\ pc \in BeforeCheck \cup {"logs", "window"} => Unread(i, Ahead(i) + CallbackMax)
        /\ pc = "report" => Unread(i, Ahead(i) + CallbackMax + busy)
        /\ pc = "recv" => Unread(i, Ahead(i) + TurnMax)
        /\ pc = "callback" => Unread(i, Ahead(i) + busy)

Once == {"extensions_reply", "health_check"}

\* These two are on their way once, and what is attached was enabled.
InboxInv ==
    /\ declared \cup ext.attached \subseteq Enabled
    /\ \A i \in 1..Len(inbox) :
          inbox[i].event = "extensions_reply" => inbox[i].has \subseteq Enabled
    /\ \A i, j \in 1..Len(inbox) :
          inbox[i].event \in Once /\ inbox[i].event = inbox[j].event => i = j

\* The extensions join and, once health is attached by its answer, the health
\* check are on their way to NervesHub, on their way back, or dealt with, and
\* only one of these; or the connection has stopped delivering.
HandshakeInv ==
    /\ \A question \in owed : question.what # "heartbeat" => question = Question(question.what)
    /\ ext.joined => extensions_sent
    /\ Question("extensions") \in owed =>
          extensions_sent /\ ~ext.joined /\ ~Arrived("extensions_reply")
    /\ Arrived("extensions_reply") => extensions_sent /\ ~ext.joined
    /\ "health" \in ext.attached => ext.joined
    /\ health_answered => "health" \in ext.attached
    /\ Question("health") \in owed =>
          "health" \in ext.attached /\ ~health_answered /\ ~Arrived("health_check")
    /\ Arrived("health_check") => "health" \in ext.attached /\ ~health_answered
    /\ deafAt = {} /\ extensions_sent /\ ~ext.joined =>
          OnItsWay("extensions", "extensions_reply")
    /\ deafAt = {} /\ "health" \in ext.attached /\ ~health_answered =>
          OnItsWay("health", "health_check")

\* A bounded session has joined the extensions by the time it looks at its
\* window, if it is to, and comes past its limit by one wait or one callback; it
\* leaves before that with nothing outstanding, and else waits.
WindowInv ==
    /\ joined_at # {} => joined
    /\ extensions_sent => Enabled # {}
    /\ \A i \in 1..Len(inbox) : inbox[i].event = "update" => "update" \in said
    /\ pc = "apply" => "update" \in said
    /\ Windowed =>
          /\ pc \in {"heartbeat", "logs", "window", "recv"} => ~JoinsExtensions
          /\ pc = "recv" /\ lingered => ~nothing_outstanding
          /\ outcome = "Finished" /\ now < limit => nothing_outstanding
          /\ "update" \notin said =>
                /\ now <= limit + CallbackMax
                /\ pc = "recv" => now < limit
                /\ pc = "callback" => now < limit + busy

SessionInv ==
    /\ SessionTypeOK
    /\ TurnInv /\ SentInv /\ QuietInv /\ BackInv /\ InboxInv /\ HandshakeInv
    /\ WindowInv
    /\ UnansweredMeansSilence

----------------------------------------------------------------------------

\* What a turn's callbacks may take.
LEMMA TurnTicks ==
    /\ Reporting \in Nat /\ TurnMax \in Nat /\ CallbackMax \in Nat /\ CallMax \in Nat
    /\ TurnMax = Reporting + CallbackMax
    /\ ControlReports => Reporting = CallbackMax
    /\ heartbeat_ms \in Nat /\ heartbeat_ms >= 1 /\ MaxInbox \in Nat
  BY ClockAssumption DEF Reporting, TurnMax

\* The use of the agent does not change, nor does what depends on it only.
LEMMA UseFixed ==
    ASSUME Next
    PROVE  /\ use' = use /\ Reporting' = Reporting /\ TurnMax' = TurnMax
           /\ ControlReports' = ControlReports
  BY DEF Next, Reporting, TurnMax, ControlReports, Enabled, Windowed, Provider

\* What is in a frame the environment sends.
LEMMA FrameTypes ==
    ASSUME now \in Nat
    PROVE  /\ \A event \in Events : Event(event) \in Frames
           /\ \A ref \in Nat : Reply(ref) \in Frames
           /\ \A keys \in SUBSET (Keys \cup Versions) :
                 Attaches(keys) \in Frames /\ Invites(keys) \in Frames
  <1>1. ASSUME NEW event \in Events
      PROVE  Event(event) \in Frames
  BY <1>1 DEF Event, Frames, Events
<1>2. ASSUME NEW frame \in Frames, NEW ref \in Nat, NEW keys \in SUBSET (Keys \cup Versions)
      PROVE  [frame EXCEPT !.ref = ref] \in Frames /\ [frame EXCEPT !.has = keys] \in Frames
  BY DEF Frames
<1>3. /\ Event("heartbeat_reply") \in Frames /\ Event("extensions_reply") \in Frames
      /\ Event("extensions_get") \in Frames
  BY <1>1 DEF Events, Speech
<1>4. \A ref \in Nat : Reply(ref) \in Frames
  BY <1>2, <1>3 DEF Reply
<1>5. \A keys \in SUBSET (Keys \cup Versions) : Attaches(keys) \in Frames
  BY <1>2, <1>3 DEF Attaches
<1>6. \A keys \in SUBSET (Keys \cup Versions) : Invites(keys) \in Frames
  BY <1>2, <1>3 DEF Invites
<1> QED
  BY <1>1, <1>4, <1>5, <1>6

\* Every turn asks whether the interval is over, and takes no more than its
\* callbacks and its wait until it asks again.
LEMMA TurnStep ==
    ASSUME SessionInv, Next
    PROVE  TurnInv'
<1>0. /\ Reporting \in Nat /\ TurnMax \in Nat /\ CallbackMax \in Nat /\ CallMax \in Nat
      /\ TurnMax = Reporting + CallbackMax
      /\ ControlReports => Reporting = CallbackMax
      /\ heartbeat_ms \in Nat /\ heartbeat_ms >= 1
      /\ Reporting' = Reporting /\ TurnMax' = TurnMax /\ ControlReports' = ControlReports
      /\ now \in Nat /\ last_heartbeat \in Nat /\ lastSent \in Nat /\ busy \in Nat
      /\ pc \in Places /\ TurnInv
  BY TurnTicks, UseFixed DEF SessionInv, SessionTypeOK
<1>1. CASE Turn
  <2>1. CASE Heartbeat
    BY <2>1, <1>0 DEF Heartbeat, GoesTo, Sends, SendsNothing, Ends, Beats,
        heartbeat_unanswered, localVars, linkVars, netVars, TurnInv, Places, BeforeCheck
  <2>2. CASE ControlReportsHealth
    <3>1. Provider => ControlReports
      BY <2>2 DEF ControlReportsHealth, SessionInv, InboxInv, ControlReports, Enabled
    <3> QED
      BY <2>2, <1>0, <3>1 DEF ControlReportsHealth, GoesTo, netVars, localVars, TurnInv,
          BeforeCheck, Places
  <2>3. CASE Confirm \/ SendExtensionsJoin \/ SendLogs \/ ControlLeaves \/ Window
    BY <2>3, <1>0 DEF Confirm, SendExtensionsJoin, SendLogs, ControlLeaves, Window,
        GoesTo, Sends, SendsNothing, TakesLogs, Ends, WindowLimit, localVars, linkVars,
        netVars, TurnInv, Places, BeforeCheck
  <2> QED
    BY <1>1, <2>1, <2>2, <2>3 DEF Turn
<1>2. CASE Handles
  <2>1. CASE RecvTimesOut
    BY <2>1, <1>0 DEF RecvTimesOut, Passes, GoesTo, localVars, linkVars, netVars,
        TurnInv, Places, BeforeCheck
  <2>2. CASE HandleJoinReply
    BY <2>2, <1>0 DEF HandleJoinReply, Reads, GoesTo, SendsNothing, localVars, linkVars,
        netVars, TurnInv, Places, BeforeCheck
  <2>3. CASE HandleHeartbeatReply
    BY <2>3, <1>0 DEF HandleHeartbeatReply, Reads, GoesTo, SendsNothing, localVars,
        linkVars, netVars, TurnInv, Places, BeforeCheck
  <2>4. CASE on_invitation
    BY <2>4, <1>0 DEF on_invitation, Reads, GoesTo, SendsNothing, localVars, linkVars,
        netVars, TurnInv, Places, BeforeCheck
  <2>5. CASE on_join_reply
    BY <2>5, <1>0 DEF on_join_reply, Reads, GoesTo, Sends, SendsNothing, localVars,
        linkVars, netVars, TurnInv, Places, BeforeCheck
  <2>6. CASE HandleClose
    BY <2>6, <1>0 DEF HandleClose, Reads, Ends, SendsNothing, localVars, linkVars,
        netVars, TurnInv, Places, BeforeCheck
  <2>7. CASE HandleCallback
    BY <2>7, <1>0 DEF HandleCallback, Reads, GoesTo, SendsNothing, localVars, linkVars,
        netVars, TurnInv, Places, BeforeCheck
  <2>8. CASE CallbackTakesTime
    BY <2>8, <1>0 DEF CallbackTakesTime, Passes, localVars, linkVars, netVars, TurnInv,
        Places, BeforeCheck
  <2>9. CASE CallbackReturns
    BY <2>9, <1>0 DEF CallbackReturns, GoesTo, Answers, Sends, SendsNothing, localVars,
        linkVars, netVars, TurnInv, Places, BeforeCheck
  <2> QED
    BY <1>2, <2>1, <2>2, <2>3, <2>4, <2>5, <2>6, <2>7, <2>8, <2>9 DEF Handles
<1>3. CASE Applies
  <2>1. CASE HandleUpdate
    BY <2>1, <1>0 DEF HandleUpdate, Reads, GoesTo, SendsNothing, localVars, linkVars,
        netVars, TurnInv, Places, BeforeCheck
  <2>2. CASE CallTakesTime
    BY <2>2, <1>0 DEF CallTakesTime, Passes, localVars, linkVars, netVars, TurnInv,
        Places, BeforeCheck
  <2>3. CASE tick
    BY <2>3, <1>0 DEF tick, TakesLogs, Beats, Sends, SendsNothing, localVars, linkVars,
        netVars, TurnInv, Places, BeforeCheck
  <2>4. CASE ApplyFails
    BY <2>4, <1>0 DEF ApplyFails, GoesTo, Sends, localVars, linkVars, netVars, TurnInv,
        Places, BeforeCheck
  <2>5. CASE ApplySucceeds
    BY <2>5, <1>0 DEF ApplySucceeds, Ends, Sends, localVars, linkVars, netVars, TurnInv,
        Places, BeforeCheck
  <2> QED
    BY <1>3, <2>1, <2>2, <2>3, <2>4, <2>5 DEF Applies
<1>4. CASE Environment
  BY <1>4, <1>0 DEF Environment, LogLine, ServerAnswers, ServerSpeaks, GoesDeaf,
      ConnectionLost, Rests, Waiting, Delivers, Ends, vars, localVars, linkVars,
      netVars, TurnInv, Places, BeforeCheck
<1> QED
  BY <1>1, <1>2, <1>3, <1>4 DEF Next

\* What starts the interval over is sent, or a download, which reports itself in
\* the end.
LEMMA SentStep ==
    ASSUME SessionInv, Next
    PROVE  SentInv'
<1>0. /\ Reporting \in Nat /\ TurnMax \in Nat /\ CallbackMax \in Nat /\ CallMax \in Nat
      /\ TurnMax = Reporting + CallbackMax
      /\ ControlReports => Reporting = CallbackMax
      /\ heartbeat_ms \in Nat /\ heartbeat_ms >= 1
      /\ Reporting' = Reporting /\ TurnMax' = TurnMax /\ ControlReports' = ControlReports
      /\ now \in Nat /\ last_heartbeat \in Nat /\ lastSent \in Nat /\ busy \in Nat
      /\ pc \in Places /\ TurnInv /\ SentInv
  BY TurnTicks, UseFixed DEF SessionInv, SessionTypeOK
<1>1. CASE Turn
  <2>1. CASE Heartbeat
    BY <2>1, <1>0 DEF Heartbeat, GoesTo, Sends, SendsNothing, Ends, Beats,
        heartbeat_unanswered, localVars, linkVars, netVars, SentInv, TurnInv
  <2>2. CASE Confirm \/ SendExtensionsJoin \/ SendLogs \/ ControlReportsHealth \/
          ControlLeaves \/ Window
    BY <2>2, <1>0 DEF Confirm, SendExtensionsJoin, SendLogs, ControlReportsHealth,
        ControlLeaves, Window, GoesTo, Sends, SendsNothing, TakesLogs, Ends,
        WindowLimit, localVars, linkVars, netVars, SentInv, TurnInv
  <2> QED
    BY <1>1, <2>1, <2>2 DEF Turn
<1>2. CASE Handles
  BY <1>2, <1>0 DEF Handles, RecvTimesOut, HandleJoinReply, HandleHeartbeatReply,
      on_invitation, on_join_reply, HandleClose, HandleCallback, CallbackTakesTime,
      CallbackReturns, Passes, GoesTo, Reads, SendsNothing, Sends, Ends, Answers,
      localVars, linkVars, netVars, SentInv, TurnInv
<1>3. CASE Applies
  <2>1. CASE HandleUpdate
    BY <2>1, <1>0 DEF HandleUpdate, Reads, GoesTo, SendsNothing, localVars, linkVars,
        netVars, SentInv, TurnInv
  <2>2. CASE tick
    BY <2>2, <1>0 DEF tick, TakesLogs, Beats, Sends, SendsNothing, localVars, linkVars,
        netVars, SentInv, TurnInv
  <2>3. CASE ApplyFails
    BY <2>3, <1>0 DEF ApplyFails, GoesTo, Sends, localVars, linkVars, netVars, SentInv,
        TurnInv
  <2>4. CASE CallTakesTime \/ ApplySucceeds
    BY <2>4, <1>0 DEF CallTakesTime, ApplySucceeds, Passes, Ends, Sends, localVars,
        linkVars, netVars, SentInv, TurnInv
  <2> QED
    BY <1>3, <2>1, <2>2, <2>3, <2>4 DEF Applies
<1>4. CASE Environment
  BY <1>4, <1>0 DEF Environment, LogLine, ServerAnswers, ServerSpeaks, GoesDeaf,
      ConnectionLost, Rests, Waiting, Delivers, Ends, vars, localVars, linkVars,
      netVars, SentInv, TurnInv
<1> QED
  BY <1>1, <1>2, <1>3, <1>4 DEF Next

\* Nothing comes in on a deaf connection, and nothing but a reply ends the wait
\* for one.
LEMMA QuietStep ==
    ASSUME SessionInv, Next
    PROVE  QuietInv'
<1>0. /\ Reporting \in Nat /\ TurnMax \in Nat /\ CallbackMax \in Nat /\ CallMax \in Nat
      /\ TurnMax = Reporting + CallbackMax
      /\ ControlReports => Reporting = CallbackMax
      /\ heartbeat_ms \in Nat /\ heartbeat_ms >= 1
      /\ Reporting' = Reporting /\ TurnMax' = TurnMax /\ ControlReports' = ControlReports
      /\ now \in Nat /\ last_heartbeat \in Nat /\ lastSent \in Nat /\ busy \in Nat
      /\ pc \in Places /\ TurnInv /\ QuietInv /\ quiet \in Nat /\ deafAt \subseteq Nat
  BY TurnTicks, UseFixed DEF SessionInv, SessionTypeOK
<1>1. CASE Turn
  <2>1. CASE Heartbeat
    BY <2>1, <1>0 DEF Heartbeat, GoesTo, Sends, SendsNothing, Ends, Beats,
        heartbeat_unanswered, localVars, linkVars, netVars, QuietInv, TurnInv,
        BeforeCheck, AfterCheck, Places
  <2>2. CASE Confirm \/ SendExtensionsJoin \/ SendLogs \/ ControlReportsHealth \/
          ControlLeaves \/ Window
    BY <2>2, <1>0 DEF Confirm, SendExtensionsJoin, SendLogs, ControlReportsHealth,
        ControlLeaves, Window, GoesTo, Sends, SendsNothing, TakesLogs, Ends,
        WindowLimit, localVars, linkVars, netVars, QuietInv, TurnInv, BeforeCheck,
        AfterCheck, Places
  <2> QED
    BY <1>1, <2>1, <2>2 DEF Turn
<1>2. CASE Handles
  <2>1. CASE RecvTimesOut
    BY <2>1, <1>0 DEF RecvTimesOut, Passes, GoesTo, localVars, linkVars, netVars,
        QuietInv, TurnInv, BeforeCheck, AfterCheck, Places
  <2>2. CASE HandleJoinReply
    BY <2>2, <1>0 DEF HandleJoinReply, Reads, GoesTo, SendsNothing, localVars, linkVars,
        netVars, QuietInv, TurnInv, BeforeCheck, AfterCheck, Places
  <2>3. CASE HandleHeartbeatReply
    BY <2>3, <1>0 DEF HandleHeartbeatReply, Reads, GoesTo, SendsNothing, localVars,
        linkVars, netVars, QuietInv, TurnInv, BeforeCheck, AfterCheck, Places
  <2>4. CASE on_invitation
    BY <2>4, <1>0 DEF on_invitation, Reads, GoesTo, SendsNothing, localVars, linkVars,
        netVars, QuietInv, TurnInv, BeforeCheck, AfterCheck, Places
  <2>5. CASE on_join_reply
    BY <2>5, <1>0 DEF on_join_reply, Reads, GoesTo, Sends, SendsNothing, localVars,
        linkVars, netVars, QuietInv, TurnInv, BeforeCheck, AfterCheck, Places
  <2>6. CASE HandleCallback
    BY <2>6, <1>0 DEF HandleCallback, Reads, GoesTo, SendsNothing, localVars, linkVars,
        netVars, QuietInv, TurnInv, BeforeCheck, AfterCheck, Places
  <2>7. CASE CallbackTakesTime
    BY <2>7, <1>0 DEF CallbackTakesTime, Passes, localVars, linkVars, netVars, QuietInv,
        TurnInv, BeforeCheck, AfterCheck, Places
  <2>8. CASE CallbackReturns
    BY <2>8, <1>0 DEF CallbackReturns, GoesTo, Answers, Sends, SendsNothing, localVars,
        linkVars, netVars, QuietInv, TurnInv, BeforeCheck, AfterCheck, Places
  <2>9. CASE HandleClose
    BY <2>9, <1>0 DEF HandleClose, Reads, Ends, SendsNothing, localVars, linkVars,
        netVars, QuietInv, TurnInv, BeforeCheck, AfterCheck, Places
  <2> QED
    BY <1>2, <2>1, <2>2, <2>3, <2>4, <2>5, <2>6, <2>7, <2>8, <2>9 DEF Handles
<1>3. CASE Applies
  <2>1. CASE HandleUpdate
    BY <2>1, <1>0 DEF HandleUpdate, Reads, GoesTo, SendsNothing, localVars, linkVars,
        netVars, QuietInv, TurnInv, BeforeCheck, AfterCheck, Places
  <2>2. CASE CallTakesTime
    BY <2>2, <1>0 DEF CallTakesTime, Passes, localVars, linkVars, netVars, QuietInv,
        TurnInv, BeforeCheck, AfterCheck, Places
  <2>3. CASE tick
    BY <2>3, <1>0 DEF tick, TakesLogs, Beats, Sends, SendsNothing, localVars, linkVars,
        netVars, QuietInv, TurnInv, BeforeCheck, AfterCheck, Places
  <2>4. CASE ApplyFails
    BY <2>4, <1>0 DEF ApplyFails, GoesTo, Sends, localVars, linkVars, netVars, QuietInv,
        TurnInv, BeforeCheck, AfterCheck, Places
  <2>5. CASE ApplySucceeds
    BY <2>5, <1>0 DEF ApplySucceeds, Ends, Sends, localVars, linkVars, netVars,
        QuietInv, TurnInv, BeforeCheck, AfterCheck, Places
  <2> QED
    BY <1>3, <2>1, <2>2, <2>3, <2>4, <2>5 DEF Applies
<1>4. CASE Environment
  <2>1. CASE ServerAnswers
    BY <2>1, <1>0 DEF ServerAnswers, Delivers, Waiting, localVars, linkVars, netVars,
        QuietInv, TurnInv, BeforeCheck, AfterCheck, Places
  <2>2. CASE ServerSpeaks
    BY <2>2, <1>0 DEF ServerSpeaks, Delivers, Waiting, localVars, linkVars, netVars,
        QuietInv, TurnInv, BeforeCheck, AfterCheck, Places
  <2>3. CASE GoesDeaf
    BY <2>3, <1>0 DEF GoesDeaf, Waiting, localVars, linkVars, netVars, QuietInv,
        TurnInv, BeforeCheck, AfterCheck, Places
  <2>4. CASE LogLine \/ ConnectionLost \/ Rests
    BY <2>4, <1>0 DEF LogLine, ConnectionLost, Rests, Waiting, Ends, vars, localVars,
        linkVars, netVars, QuietInv, TurnInv, BeforeCheck, AfterCheck, Places
  <2> QED
    BY <1>4, <2>1, <2>2, <2>3, <2>4 DEF Environment
<1> QED
  BY <1>1, <1>2, <1>3, <1>4 DEF Next

\* What NervesHub says of itself.
LEMMA SpeechSaid ==
    ASSUME use \in Uses
    PROVE  Speaks \subseteq Speech /\ Invitations \subseteq SUBSET (Keys \cup Versions)
<1>1. use.speaks \subseteq {"extensions_get", "identify", "update", "close"}
  BY UsesAssumption
<1>2. Speaks \subseteq Speech
  BY <1>1 DEF Speaks, Speech
<1>3. Invitations \subseteq SUBSET (Keys \cup Versions)
  BY DEF Invitations, Unnamed, Versions
<1> QED
  BY <1>2, <1>3

\* What NervesHub says is one frame more, that has only come in.
LEMMA InboxGrows ==
    ASSUME SessionTypeOK, ServerAnswers \/ ServerSpeaks
    PROVE  \E frame \in Frames :
              Len(inbox) < MaxInbox /\ inbox' = Append(inbox, frame) /\ frame.at = now
<1> DEFINE Comes(frame) ==
        Len(inbox) < MaxInbox /\ inbox' = Append(inbox, frame) /\ frame.at = now
<1>1. ASSUME NEW frame \in Frames, Delivers(frame), frame.at = now
      PROVE  Comes(frame)
  BY <1>1 DEF Delivers
<1>2. CASE ServerAnswers
  <2>1. PICK question \in owed :
          \/ question.what = "join" /\ Delivers(Event("join_reply"))
          \/ question.what = "heartbeat" /\ Delivers(Reply(question.ref))
          \/ question.what = "health" /\ Delivers(Event("health_check"))
          \/ \E keys \in SUBSET declared : Delivers(Attaches(keys))
    BY <1>2 DEF ServerAnswers
  <2>2. question.ref \in Nat /\ SUBSET declared \subseteq SUBSET (Keys \cup Versions) /\ now \in Nat
    BY DEF SessionTypeOK, Keys
  <2>3. /\ Event("join_reply").at = now /\ Event("health_check").at = now
        /\ Reply(question.ref).at = now
        /\ \A keys \in SUBSET declared : Attaches(keys).at = now
    BY DEF Event, Reply, Attaches
  <2>4. /\ Event("join_reply") \in Frames /\ Event("health_check") \in Frames
        /\ Reply(question.ref) \in Frames
        /\ \A keys \in SUBSET declared : Attaches(keys) \in Frames
    <3>1. Event("join_reply") \in Frames /\ Event("health_check") \in Frames
      BY <2>2 DEF Event, Frames, Events
    <3> QED
      BY <2>2, <3>1, FrameTypes
  <2> HIDE DEF Comes
  <2>5. \E frame \in Frames : Comes(frame)
    BY <1>1, <2>1, <2>3, <2>4
  <2> QED
    BY <2>5 DEF Comes
<1>3. CASE ServerSpeaks
  <2>1. PICK what \in Speaks :
          \/ \E versions \in Invitations : Delivers(Invites(versions))
          \/ Delivers(Event(what))
    BY <1>3 DEF ServerSpeaks
  <2>2. what \in Events /\ Invitations \subseteq SUBSET (Keys \cup Versions) /\ now \in Nat
    BY <2>1, SpeechSaid DEF SessionTypeOK, Events
  <2>3. /\ Event(what).at = now
        /\ \A versions \in Invitations : Invites(versions).at = now
    BY DEF Event, Invites
  <2> QED
    BY <1>1, <2>1, <2>2, <2>3, FrameTypes
<1> QED
  BY <1>2, <1>3

\* The frames unread are the same, or the first has been read, or one more is there.
LEMMA InboxMoves ==
    ASSUME SessionTypeOK, Next
    PROVE  \/ inbox' = inbox
           \/ pc = "recv" /\ inbox # <<>> /\ inbox' = Tail(inbox)
           \/ \E frame \in Frames :
                 Len(inbox) < MaxInbox /\ inbox' = Append(inbox, frame) /\ frame.at = now
<1>1. CASE ServerAnswers \/ ServerSpeaks
  BY <1>1, InboxGrows
<1>2. CASE Turn
  BY <1>2 DEF Turn, Confirm, SendExtensionsJoin, Heartbeat, SendLogs,
      ControlReportsHealth, ControlLeaves, Window, netVars
<1>3. CASE Handles
  BY <1>3 DEF Handles, RecvTimesOut, HandleJoinReply, HandleHeartbeatReply,
      on_invitation, on_join_reply, HandleClose, HandleCallback, CallbackTakesTime,
      CallbackReturns, Reads, netVars
<1>4. CASE Applies
  BY <1>4 DEF Applies, HandleUpdate, CallTakesTime, tick, ApplyFails, ApplySucceeds,
      Reads, netVars
<1>5. CASE LogLine \/ GoesDeaf \/ ConnectionLost \/ Rests
  BY <1>5 DEF LogLine, GoesDeaf, ConnectionLost, Rests, vars, netVars
<1> QED
  BY <1>1, <1>2, <1>3, <1>4, <1>5 DEF Next, Environment

\* They stay frames, and no more than there is room for.
LEMMA InboxType ==
    ASSUME SessionTypeOK, Next
    PROVE  inbox' \in Seq(Frames) /\ Len(inbox') <= MaxInbox
<1> USE DEF SessionTypeOK
<1>1. CASE inbox' = inbox
  BY <1>1
<1>2. CASE inbox # <<>> /\ inbox' = Tail(inbox)
  BY <1>2, ClockAssumption
<1>3. ASSUME NEW frame \in Frames, Len(inbox) < MaxInbox, inbox' = Append(inbox, frame)
      PROVE  inbox' \in Seq(Frames) /\ Len(inbox') <= MaxInbox
  BY <1>3, ClockAssumption
<1> QED
  BY <1>1, <1>2, <1>3, InboxMoves

----------------------------------------------------------------------------
(* Frames left unread.                                                     *)

\* A frame fewer ahead is a turn less.
LEMMA AheadFacts ==
    ASSUME NEW i \in 1..MaxInbox
    PROVE  /\ Ahead(i) \in Nat
           /\ Ahead(i) + TurnMax <= Backed
           /\ i + 1 <= MaxInbox => Ahead(i) = Ahead(i + 1) + TurnMax
<1>1. ASSUME NEW m \in Nat, NEW t \in Nat
      PROVE  m * t \in Nat /\ (m + 1) * t = m * t + t
  BY SMTT(30)
<1>2. ASSUME NEW m \in Nat, NEW n \in Nat, NEW t \in Nat, m <= n
      PROVE  m * t <= n * t
  BY <1>2, SMTT(30)
<1>3. TurnMax \in Nat /\ MaxInbox \in Nat
  BY TurnTicks
<1>4. MaxInbox - i \in Nat /\ (MaxInbox - i) + 1 \in Nat /\ (MaxInbox - i) + 1 <= MaxInbox
  BY <1>3
<1>5. Ahead(i) \in Nat /\ Ahead(i) + TurnMax = ((MaxInbox - i) + 1) * TurnMax
  BY <1>1, <1>3, <1>4 DEF Ahead
<1>6. Ahead(i) + TurnMax <= Backed
  BY <1>2, <1>3, <1>4, <1>5 DEF Backed
<1>7. ASSUME i + 1 <= MaxInbox
      PROVE  Ahead(i) = Ahead(i + 1) + TurnMax
  <2>1. MaxInbox - (i + 1) \in Nat /\ MaxInbox - i = (MaxInbox - (i + 1)) + 1
    BY <1>3, <1>7
  <2> QED
    BY <1>1, <1>3, <2>1 DEF Ahead
<1> QED
  BY <1>5, <1>6, <1>7

\* A frame that comes in has waited for nothing; one that is read leaves the
\* others with one frame less ahead of them.
LEMMA BackArrives ==
    ASSUME SessionInv, Next,
           NEW frame \in Frames, Len(inbox) < MaxInbox, inbox' = Append(inbox, frame),
           frame.at = now, UNCHANGED <<now, pc, last_heartbeat, busy>>
    PROVE  BackInv'
<1>1. /\ inbox \in Seq(Frames) /\ now \in Nat /\ busy \in Nat
      /\ TurnMax \in Nat /\ CallbackMax \in Nat /\ MaxInbox \in Nat /\ TurnMax' = TurnMax
  BY TurnTicks, UseFixed DEF SessionInv, SessionTypeOK
<1>2. \A i \in 1..MaxInbox : Ahead(i) \in Nat /\ Ahead(i)' = Ahead(i)
  BY <1>1, AheadFacts DEF Ahead
<1>3. /\ Len(inbox') = Len(inbox) + 1
      /\ \A i \in 1..Len(inbox) : inbox'[i] = inbox[i]
      /\ inbox'[Len(inbox) + 1].at = now
  BY <1>1
<1>4. ASSUME NEW i \in 1..Len(inbox')
      PROVE  i \in 1..MaxInbox /\ (i \in 1..Len(inbox) \/ i = Len(inbox) + 1)
  BY <1>1, <1>3
<1>5. ASSUME NEW i \in 1..Len(inbox), NEW ticks \in Nat
      PROVE  Unread(i, ticks) => (now' - inbox'[i].at <= ticks \/ now' - last_heartbeat' <= ticks)
  BY <1>3 DEF Unread
<1>6. ASSUME NEW ticks \in Nat
      PROVE  now' - inbox'[Len(inbox) + 1].at <= ticks
  BY <1>1, <1>3
<1> QED
  BY <1>1, <1>2, <1>3, <1>4, <1>5, <1>6 DEF SessionInv, BackInv, Unread

LEMMA BackRead ==
    ASSUME SessionInv, Next,
           pc = "recv", inbox # <<>>, inbox' = Tail(inbox), now' = now,
           pc' \in {"top", "callback", "apply", "over"},
           pc' \in {"top", "callback"} => last_heartbeat' = last_heartbeat,
           pc' = "callback" => busy' = 0
    PROVE  BackInv'
<1>1. /\ inbox \in Seq(Frames) /\ now \in Nat /\ Len(inbox) <= MaxInbox
      /\ TurnMax \in Nat /\ CallbackMax \in Nat /\ MaxInbox \in Nat /\ TurnMax' = TurnMax
  BY TurnTicks, UseFixed DEF SessionInv, SessionTypeOK
<1>2. \A i \in 1..MaxInbox : Ahead(i) \in Nat /\ Ahead(i)' = Ahead(i)
  BY <1>1, AheadFacts DEF Ahead
<1>3. Len(inbox') = Len(inbox) - 1 /\ \A i \in 1..Len(inbox') : inbox'[i] = inbox[i + 1]
  BY <1>1
<1>4. ASSUME NEW i \in 1..Len(inbox')
      PROVE  /\ inbox'[i].at <= now'
             /\ pc' \in {"top", "callback"} =>
                   now' - inbox'[i].at <= Ahead(i)' \/ now' - last_heartbeat' <= Ahead(i)'
  <2>1. i \in 1..MaxInbox /\ i + 1 \in 1..MaxInbox /\ i + 1 \in 1..Len(inbox)
    BY <1>1, <1>3
  <2>2. Ahead(i) = Ahead(i + 1) + TurnMax
    BY <2>1, AheadFacts
  <2>3. inbox[i + 1].at <= now /\ Unread(i + 1, Ahead(i))
    BY <2>1, <2>2 DEF SessionInv, BackInv
  <2> QED
    BY <1>2, <1>3, <2>1, <2>3 DEF Unread
<1>5. \A i \in 1..Len(inbox') : Ahead(i)' \in Nat /\ inbox'[i].at \in Nat
  <2>1. \A i \in 1..Len(inbox') : inbox'[i] \in Frames /\ i \in 1..MaxInbox
    BY <1>1, <1>3
  <2> QED
    BY <1>2, <2>1 DEF Frames
<1>6. CASE pc' = "top"
  <2>1. last_heartbeat' \in Nat
    BY <1>6 DEF SessionInv, SessionTypeOK
  <2>2. ASSUME NEW i \in 1..Len(inbox')
        PROVE  \/ now' - inbox'[i].at <= Ahead(i)' + CallbackMax
               \/ now' - last_heartbeat' <= Ahead(i)' + CallbackMax
    <3>1. Ahead(i)' \in Nat /\ inbox'[i].at \in Nat /\ now' \in Nat /\ CallbackMax \in Nat
      BY <1>1, <1>5
    <3> QED
      BY <1>4, <1>6, <2>1, <3>1
  <2> QED
    BY <1>1, <1>4, <1>6, <2>2 DEF BackInv, Unread, BeforeCheck
<1>7. CASE pc' = "callback"
  <2>1. last_heartbeat' \in Nat /\ busy' = 0
    BY <1>7 DEF SessionInv, SessionTypeOK
  <2>2. ASSUME NEW i \in 1..Len(inbox')
        PROVE  \/ now' - inbox'[i].at <= Ahead(i)' + busy'
               \/ now' - last_heartbeat' <= Ahead(i)' + busy'
    <3>1. Ahead(i)' \in Nat /\ inbox'[i].at \in Nat /\ now' \in Nat
      BY <1>1, <1>5
    <3> QED
      BY <1>4, <1>7, <2>1, <3>1
  <2> QED
    BY <1>4, <1>7, <2>2 DEF BackInv, Unread, BeforeCheck
<1>8. CASE pc' \in {"apply", "over"}
  BY <1>4, <1>8 DEF BackInv, BeforeCheck
<1> QED BY <1>6, <1>7, <1>8

\* However callbacks and reports follow one another, a frame has its turn.
LEMMA BackStep ==
    ASSUME SessionInv, Next
    PROVE  BackInv'
<1>0. /\ TurnMax \in Nat /\ CallbackMax \in Nat /\ MaxInbox \in Nat
      /\ Reporting \in Nat /\ TurnMax = Reporting + CallbackMax
      /\ ControlReports => Reporting = CallbackMax
      /\ now \in Nat /\ last_heartbeat \in Nat /\ busy \in Nat /\ pc \in Places
      /\ pc \in {"report", "callback"} => busy <= CallbackMax
      /\ pc = "report" => ControlReports
      /\ \A i \in 1..Len(inbox) :
            Ahead(i) \in Nat /\ Ahead(i)' = Ahead(i) /\ inbox[i].at \in Nat
      /\ TurnMax' = TurnMax /\ BackInv
  <2>1. /\ inbox \in Seq(Frames) /\ Len(inbox) <= MaxInbox /\ MaxInbox \in Nat
    BY TurnTicks DEF SessionInv, SessionTypeOK
  <2>2. \A i \in 1..Len(inbox) : i \in 1..MaxInbox /\ inbox[i].at \in Nat
    <3>1. \A i \in 1..Len(inbox) : i \in 1..MaxInbox /\ inbox[i] \in Frames
      BY <2>1
    <3> QED
      BY <3>1 DEF Frames
  <2>3. \A i \in 1..Len(inbox) : Ahead(i) \in Nat /\ Ahead(i)' = Ahead(i)
    BY <2>2, AheadFacts, UseFixed DEF Ahead
  <2> QED
    BY <2>2, <2>3, TurnTicks, UseFixed DEF SessionInv, SessionTypeOK, TurnInv
<1>1. CASE Turn
  <2>1. CASE Heartbeat
    BY <2>1, <1>0 DEF Heartbeat, GoesTo, Sends, SendsNothing, Ends, Beats,
        heartbeat_unanswered, localVars, linkVars, netVars, BackInv, Unread,
        BeforeCheck, Places
  <2>2. CASE ControlReportsHealth
    BY <2>2, <1>0 DEF ControlReportsHealth, GoesTo, localVars, linkVars, netVars,
        BackInv, Unread, BeforeCheck, Places
  <2>3. CASE Window
    BY <2>3, <1>0 DEF Window, Ends, GoesTo, WindowLimit, localVars, linkVars, netVars,
        BackInv, Unread, BeforeCheck, Places
  <2>4. CASE Confirm \/ SendExtensionsJoin \/ SendLogs \/ ControlLeaves
    BY <2>4, <1>0 DEF Confirm, SendExtensionsJoin, SendLogs, ControlLeaves, GoesTo,
        Sends, SendsNothing, TakesLogs, Ends, localVars, linkVars, netVars, BackInv,
        Unread, BeforeCheck, Places
  <2> QED
    BY <1>1, <2>1, <2>2, <2>3, <2>4 DEF Turn
<1>2. CASE Handles
  <2>1. CASE RecvTimesOut
    BY <2>1, <1>0 DEF RecvTimesOut, Passes, GoesTo, localVars, linkVars, netVars,
        BackInv, Unread, BeforeCheck, Places
  <2>2. CASE HandleJoinReply
    <3>1. /\ pc = "recv" /\ inbox # <<>> /\ inbox' = Tail(inbox) /\ now' = now
          /\ pc' \in {"top", "callback", "apply", "over"}
          /\ pc' \in {"top", "callback"} => last_heartbeat' = last_heartbeat
          /\ pc' = "callback" => busy' = 0
      BY <2>2 DEF HandleJoinReply, Reads, GoesTo, SendsNothing, localVars
    <3> QED
      BY <3>1, BackRead
  <2>3. CASE HandleHeartbeatReply
    <3>1. /\ pc = "recv" /\ inbox # <<>> /\ inbox' = Tail(inbox) /\ now' = now
          /\ pc' \in {"top", "callback", "apply", "over"}
          /\ pc' \in {"top", "callback"} => last_heartbeat' = last_heartbeat
          /\ pc' = "callback" => busy' = 0
      BY <2>3 DEF HandleHeartbeatReply, Reads, GoesTo, SendsNothing, localVars
    <3> QED
      BY <3>1, BackRead
  <2>4. CASE on_invitation
    <3>1. /\ pc = "recv" /\ inbox # <<>> /\ inbox' = Tail(inbox) /\ now' = now
          /\ pc' \in {"top", "callback", "apply", "over"}
          /\ pc' \in {"top", "callback"} => last_heartbeat' = last_heartbeat
          /\ pc' = "callback" => busy' = 0
      BY <2>4 DEF on_invitation, Reads, GoesTo, SendsNothing, localVars
    <3> QED
      BY <3>1, BackRead
  <2>5. CASE on_join_reply
    <3>1. /\ pc = "recv" /\ inbox # <<>> /\ inbox' = Tail(inbox) /\ now' = now
          /\ pc' \in {"top", "callback", "apply", "over"}
          /\ pc' \in {"top", "callback"} => last_heartbeat' = last_heartbeat
          /\ pc' = "callback" => busy' = 0
      BY <2>5 DEF on_join_reply, Reads, GoesTo, Sends, SendsNothing, localVars
    <3> QED
      BY <3>1, BackRead
  <2>6. CASE HandleClose
    <3>1. /\ pc = "recv" /\ inbox # <<>> /\ inbox' = Tail(inbox) /\ now' = now
          /\ pc' \in {"top", "callback", "apply", "over"}
          /\ pc' \in {"top", "callback"} => last_heartbeat' = last_heartbeat
          /\ pc' = "callback" => busy' = 0
      BY <2>6 DEF HandleClose, Reads, Ends, SendsNothing, localVars
    <3> QED
      BY <3>1, BackRead
  <2>7. CASE HandleCallback
    <3>1. /\ pc = "recv" /\ inbox # <<>> /\ inbox' = Tail(inbox) /\ now' = now
          /\ pc' \in {"top", "callback", "apply", "over"}
          /\ pc' \in {"top", "callback"} => last_heartbeat' = last_heartbeat
          /\ pc' = "callback" => busy' = 0
      BY <2>7 DEF HandleCallback, Reads, GoesTo, SendsNothing, localVars
    <3> QED
      BY <3>1, BackRead
  <2>8. CASE CallbackTakesTime
    <3>1. /\ now' = now + 1 /\ busy' = busy + 1 /\ pc' = pc /\ pc \in {"callback", "report"}
          /\ inbox' = inbox /\ last_heartbeat' = last_heartbeat
      BY <2>8 DEF CallbackTakesTime, Passes
    <3>2. ASSUME NEW i \in 1..Len(inbox), NEW ticks \in Nat, Unread(i, ticks)
          PROVE  \/ now' - inbox'[i].at <= ticks + 1
                 \/ now' - last_heartbeat' <= ticks + 1
      BY <1>0, <3>1, <3>2 DEF Unread
    <3>3. ASSUME NEW i \in 1..Len(inbox)
          PROVE  /\ inbox'[i].at <= now'
                 /\ pc' = "callback" =>
                       \/ now' - inbox'[i].at <= Ahead(i)' + busy'
                       \/ now' - last_heartbeat' <= Ahead(i)' + busy'
                 /\ pc' = "report" =>
                       \/ now' - inbox'[i].at <= Ahead(i)' + CallbackMax + busy'
                       \/ now' - last_heartbeat' <= Ahead(i)' + CallbackMax + busy'
      <4>1. inbox[i].at <= now /\ inbox[i].at \in Nat /\ Ahead(i) \in Nat /\ Ahead(i)' = Ahead(i)
        BY <1>0 DEF BackInv
      <4>2. CASE pc = "callback"
        <5>1. Unread(i, Ahead(i) + busy)
          BY <1>0, <4>2 DEF BackInv
        <5> QED
          BY <1>0, <3>1, <3>2, <4>1, <4>2, <5>1
      <4>3. CASE pc = "report"
        <5>1. Unread(i, Ahead(i) + CallbackMax + busy)
          BY <1>0, <4>3 DEF BackInv
        <5> QED
          BY <1>0, <3>1, <3>2, <4>1, <4>3, <5>1
      <4> QED
        BY <3>1, <4>2, <4>3
    <3> QED
      BY <3>1, <3>3 DEF BackInv, Unread, BeforeCheck
  <2>9. CASE CallbackReturns
    BY <2>9, <1>0 DEF CallbackReturns, GoesTo, Answers, Sends, SendsNothing, localVars,
        linkVars, netVars, BackInv, Unread, BeforeCheck, Places
  <2> QED
    BY <1>2, <2>1, <2>2, <2>3, <2>4, <2>5, <2>6, <2>7, <2>8, <2>9 DEF Handles
<1>3. CASE Applies
  <2>1. CASE HandleUpdate
    <3>1. /\ pc = "recv" /\ inbox # <<>> /\ inbox' = Tail(inbox) /\ now' = now
          /\ pc' \in {"top", "callback", "apply", "over"}
          /\ pc' \in {"top", "callback"} => last_heartbeat' = last_heartbeat
          /\ pc' = "callback" => busy' = 0
      BY <2>1 DEF HandleUpdate, Reads, GoesTo, SendsNothing, localVars
    <3> QED
      BY <3>1, BackRead
  <2>2. CASE CallTakesTime
    BY <2>2, <1>0 DEF CallTakesTime, Passes, localVars, linkVars, netVars, BackInv,
        Unread, BeforeCheck, Places
  <2>3. CASE tick
    BY <2>3, <1>0 DEF tick, TakesLogs, Beats, Sends, SendsNothing, localVars, linkVars,
        netVars, BackInv, Unread, BeforeCheck, Places
  <2>4. CASE ApplyFails
    BY <2>4, <1>0 DEF ApplyFails, GoesTo, Sends, localVars, linkVars, netVars, BackInv,
        Unread, BeforeCheck, Places
  <2>5. CASE ApplySucceeds
    BY <2>5, <1>0 DEF ApplySucceeds, Ends, Sends, localVars, linkVars, netVars, BackInv,
        Unread, BeforeCheck, Places
  <2> QED
    BY <1>3, <2>1, <2>2, <2>3, <2>4, <2>5 DEF Applies
<1>4. CASE Environment
  <2>1. CASE ServerAnswers
    <3>1. UNCHANGED <<now, pc, last_heartbeat, busy>>
      BY <2>1 DEF ServerAnswers, ServerSpeaks, Delivers, localVars
    <3> QED
      BY <2>1, <3>1, InboxGrows, BackArrives DEF SessionInv
  <2>2. CASE ServerSpeaks
    <3>1. UNCHANGED <<now, pc, last_heartbeat, busy>>
      BY <2>2 DEF ServerAnswers, ServerSpeaks, Delivers, localVars
    <3> QED
      BY <2>2, <3>1, InboxGrows, BackArrives DEF SessionInv
  <2>3. CASE LogLine \/ GoesDeaf \/ ConnectionLost \/ Rests
    BY <2>3, <1>0 DEF LogLine, GoesDeaf, ConnectionLost, Rests, Waiting, Ends, vars,
        localVars, linkVars, netVars, BackInv, Unread, BeforeCheck, Places
  <2> QED
    BY <1>4, <2>1, <2>2, <2>3 DEF Environment
<1> QED
  BY <1>1, <1>2, <1>3, <1>4 DEF Next

----------------------------------------------------------------------------
(* What the variables range over.                                          *)

\* No step leaves a variable out of its type.
LEMMA TypeStep ==
    ASSUME SessionInv, Next
    PROVE  SessionTypeOK'
<1> USE DEF SessionTypeOK, Places
<1>0. /\ SessionTypeOK /\ use' = use /\ inbox' \in Seq(Frames) /\ Len(inbox') <= MaxInbox
      /\ (inbox # <<>> => /\ Head(inbox).has \subseteq Keys \cup Versions
                          /\ Head(inbox).ref \in Nat)
      /\ heartbeat_ms \in Nat
      /\ Enabled \subseteq Keys /\ join_params \subseteq Keys
  <2>1. SessionTypeOK
    BY DEF SessionInv
  <2>2. inbox # <<>> => Head(inbox) \in Frames
    BY <2>1
  <2>3. inbox # <<>> => Head(inbox).has \subseteq Keys \cup Versions /\ Head(inbox).ref \in Nat
    BY <2>2 DEF Frames
  <2>4. Enabled \subseteq Keys
    BY <2>1, UsesAssumption DEF Enabled, Keys
  <2> QED
    BY <2>1, <2>3, <2>4, InboxType, TurnTicks, UseFixed DEF join_params
<1>asks. /\ Question("extensions") \in [what : Questions, ref : Nat]
      /\ Question("health") \in [what : Questions, ref : Nat]
      /\ Beat(beats + 1) \in [what : Questions, ref : Nat] /\ beats + 1 \in Nat
  BY <1>0 DEF Question, Beat, Questions
<1>1. CASE Turn
  <2>1. CASE Confirm
    BY <2>1, <1>0, <1>asks DEF Confirm, GoesTo, Sends, SendsNothing, localVars,
        linkVars, netVars, SessionTypeOK, Places
  <2>2. CASE SendExtensionsJoin
    BY <2>2, <1>0, <1>asks DEF SendExtensionsJoin, GoesTo, Sends, SendsNothing,
        localVars, linkVars, netVars, SessionTypeOK, Places
  <2>3. CASE Heartbeat
    <3>1. Beats => /\ heartbeat_ref' \subseteq Nat /\ beats' \in Nat /\ lastSent' \in Nat
                   /\ owed' \subseteq [what : Questions, ref : Nat]
      BY <1>0, <1>asks DEF Beats, Sends
    <3> QED
      BY <2>3, <1>0, <3>1 DEF Heartbeat, GoesTo, Sends, SendsNothing, Ends,
          heartbeat_unanswered, localVars, linkVars, netVars, SessionTypeOK, Places
  <2>4. CASE ControlReportsHealth
    BY <2>4, <1>0, <1>asks DEF ControlReportsHealth, GoesTo, localVars, linkVars,
        netVars, SessionTypeOK, Places
  <2>5. CASE SendLogs \/ ControlLeaves \/ Window
    BY <2>5, <1>0, <1>asks DEF SendLogs, ControlLeaves, Window, GoesTo, Sends,
        SendsNothing, TakesLogs, Ends, WindowLimit, localVars, linkVars, netVars,
        SessionTypeOK, Places
  <2> QED
    BY <1>1, <2>1, <2>2, <2>3, <2>4, <2>5 DEF Turn
<1>2. CASE Handles
  <2>1. CASE RecvTimesOut
    BY <2>1, <1>0, <1>asks DEF RecvTimesOut, Passes, GoesTo, localVars, linkVars,
        netVars, SessionTypeOK, Places
  <2>2. CASE HandleHeartbeatReply
    BY <2>2, <1>0, <1>asks DEF HandleHeartbeatReply, Reads, GoesTo, SendsNothing,
        localVars, linkVars, netVars, SessionTypeOK, Places
  <2>3. CASE on_invitation
    BY <2>3, <1>0, <1>asks DEF on_invitation, Reads, GoesTo, SendsNothing, localVars,
        linkVars, netVars, SessionTypeOK, Places
  <2>4. CASE on_join_reply
    <3>1. /\ ext' = [ext EXCEPT !.joined = TRUE, !.attached = Head(inbox).has]
          /\ inbox # <<>>
          /\ \/ owed' = owed
             \/ \E had \in SUBSET {"health"} : owed' = owed \cup {Question(key) : key \in had}
          /\ lastSent' = now \/ lastSent' = lastSent
      BY <2>4 DEF on_join_reply, Reads, Sends, SendsNothing
    <3>2. owed' \subseteq [what : Questions, ref : Nat]
      BY <1>0, <1>asks, <3>1
    <3>3. ext' \in [joined : BOOLEAN, invited : BOOLEAN,
                    advertised : SUBSET (Keys \cup Versions),
                    attached : SUBSET (Keys \cup Versions)]
      BY <1>0, <3>1
    <3> QED
      BY <2>4, <1>0, <3>1, <3>2, <3>3 DEF on_join_reply, Reads, GoesTo, localVars
  <2>5. CASE HandleCallback
    BY <2>5, <1>0, <1>asks DEF HandleCallback, Reads, GoesTo, SendsNothing, localVars,
        linkVars, netVars, SessionTypeOK, Places
  <2>6. CASE CallbackTakesTime
    BY <2>6, <1>0, <1>asks DEF CallbackTakesTime, Passes, localVars, linkVars, netVars,
        SessionTypeOK, Places
  <2>7. CASE CallbackReturns
    BY <2>7, <1>0, <1>asks DEF CallbackReturns, GoesTo, Answers, Sends, SendsNothing,
        localVars, linkVars, netVars, SessionTypeOK, Places
  <2>8. CASE HandleJoinReply \/ HandleClose
    BY <2>8, <1>0, <1>asks DEF HandleJoinReply, HandleClose, Reads, GoesTo,
        SendsNothing, Ends, localVars, linkVars, netVars, SessionTypeOK, Places
  <2> QED
    BY <1>2, <2>1, <2>2, <2>3, <2>4, <2>5, <2>6, <2>7, <2>8 DEF Handles
<1>3. CASE Applies
  <2>1. CASE HandleUpdate
    BY <2>1, <1>0, <1>asks DEF HandleUpdate, Reads, GoesTo, SendsNothing, localVars,
        linkVars, netVars, SessionTypeOK, Places
  <2>2. CASE CallTakesTime
    BY <2>2, <1>0, <1>asks DEF CallTakesTime, Passes, localVars, linkVars, netVars,
        SessionTypeOK, Places
  <2>3. CASE tick
    <3>1. Beats => /\ heartbeat_ref' \subseteq Nat /\ beats' \in Nat /\ lastSent' \in Nat
                   /\ owed' \subseteq [what : Questions, ref : Nat]
      BY <1>0, <1>asks DEF Beats, Sends
    <3> QED
      BY <2>3, <1>0, <3>1 DEF tick, TakesLogs, Sends, SendsNothing, localVars, linkVars,
          netVars, SessionTypeOK, Places
  <2>4. CASE ApplyFails
    BY <2>4, <1>0, <1>asks DEF ApplyFails, GoesTo, Sends, localVars, linkVars, netVars,
        SessionTypeOK, Places
  <2>5. CASE ApplySucceeds
    BY <2>5, <1>0, <1>asks DEF ApplySucceeds, Ends, Sends, localVars, linkVars, netVars,
        SessionTypeOK, Places
  <2> QED
    BY <1>3, <2>1, <2>2, <2>3, <2>4, <2>5 DEF Applies
<1>4. CASE Environment
  <2>1. CASE ServerAnswers
    <3>1. UNCHANGED <<now, pc, outcome, localVars, linkVars, backlog, deafAt, quiet, lastSent>>
      BY <2>1 DEF ServerAnswers, ServerSpeaks, Delivers
    <3>2. owed' \subseteq owed
      BY <2>1 DEF ServerAnswers, ServerSpeaks
    <3> QED
      BY <1>0, <3>1, <3>2 DEF localVars, linkVars
  <2>2. CASE ServerSpeaks
    <3>1. UNCHANGED <<now, pc, outcome, localVars, linkVars, backlog, deafAt, quiet, lastSent>>
      BY <2>2 DEF ServerAnswers, ServerSpeaks, Delivers
    <3>2. owed' \subseteq owed
      BY <2>2 DEF ServerAnswers, ServerSpeaks
    <3> QED
      BY <1>0, <3>1, <3>2 DEF localVars, linkVars
  <2>3. CASE LogLine \/ GoesDeaf \/ ConnectionLost \/ Rests
    BY <2>3, <1>0, <1>asks DEF LogLine, GoesDeaf, ConnectionLost, Rests, Waiting, Ends,
        vars, localVars, linkVars, netVars, SessionTypeOK, Places
  <2> QED
    BY <1>4, <2>1, <2>2, <2>3 DEF Environment
<1> QED
  BY <1>1, <1>2, <1>3, <1>4 DEF Next

----------------------------------------------------------------------------
(* The extensions join and the health check.                               *)

\* What a read leaves is what it was, but for the first frame.
LEMMA InboxReads ==
    ASSUME SessionTypeOK, InboxInv, Next,
           inbox # <<>>, inbox' = Tail(inbox), declared' = declared,
           ext'.attached \subseteq Enabled
    PROVE  /\ InboxInv'
           /\ \A event \in Once : Arrived(event)' => Arrived(event)
           /\ \A event \in Once : Head(inbox).event = event => Arrived(event) /\ ~Arrived(event)'
           /\ \A event \in Once : Head(inbox).event # event => (Arrived(event) => Arrived(event)')
<1>1. /\ inbox \in Seq(Frames) /\ Len(inbox) >= 1 /\ Head(inbox) = inbox[1]
      /\ Len(inbox') = Len(inbox) - 1
      /\ \A i \in 1..Len(inbox') : i + 1 \in 1..Len(inbox) /\ inbox'[i] = inbox[i + 1]
      /\ Enabled' = Enabled
  BY UseFixed DEF SessionTypeOK, Enabled
<1>2. /\ \A i \in 1..Len(inbox') :
            inbox'[i].event = "extensions_reply" => inbox'[i].has \subseteq Enabled
      /\ declared \cup ext'.attached \subseteq Enabled
  BY <1>1 DEF InboxInv
<1>3. ASSUME NEW i \in 1..Len(inbox'), NEW j \in 1..Len(inbox'),
             inbox'[i].event \in Once, inbox'[i].event = inbox'[j].event
      PROVE  i = j
  <2>1. i + 1 = j + 1
    BY <1>1, <1>3 DEF InboxInv
  <2> QED
    BY <2>1
<1>4. ASSUME NEW event \in Once
      PROVE  Arrived(event)' => Arrived(event)
  BY <1>1 DEF Arrived
<1>5. ASSUME NEW event \in Once, Head(inbox).event = event
      PROVE  Arrived(event) /\ ~Arrived(event)'
  <2>1. 1 \in 1..Len(inbox) /\ inbox[1].event = event
    BY <1>1, <1>5
  <2>2. ASSUME NEW i \in 1..Len(inbox'), inbox'[i].event = event
        PROVE  FALSE
    <3>1. i + 1 = 1
      BY <1>1, <2>1, <2>2 DEF InboxInv
    <3> QED
      BY <3>1
  <2> QED
    BY <2>1, <2>2 DEF Arrived
<1>6. ASSUME NEW event \in Once, Head(inbox).event # event, Arrived(event)
      PROVE  Arrived(event)'
  <2>1. PICK i \in 1..Len(inbox) : inbox[i].event = event
    BY <1>6 DEF Arrived
  <2>2. i # 1 /\ i - 1 \in 1..Len(inbox') /\ inbox'[i - 1] = inbox[i]
    BY <1>1, <1>6, <2>1
  <2> QED
    BY <2>1, <2>2 DEF Arrived
<1> QED
  BY <1>1, <1>2, <1>3, <1>4, <1>5, <1>6 DEF InboxInv

\* What comes in is one frame more.
LEMMA InboxArrives ==
    ASSUME SessionTypeOK, InboxInv, Next,
           NEW frame \in Frames, inbox' = Append(inbox, frame),
           declared' = declared, ext' = ext,
           frame.event \in Once => ~Arrived(frame.event),
           frame.event = "extensions_reply" => frame.has \subseteq Enabled
    PROVE  /\ InboxInv'
           /\ \A event \in Once : Arrived(event)' <=> Arrived(event) \/ frame.event = event
<1>1. /\ inbox \in Seq(Frames) /\ Len(inbox') = Len(inbox) + 1
      /\ \A i \in 1..Len(inbox) : inbox'[i] = inbox[i]
      /\ inbox'[Len(inbox) + 1] = frame
      /\ \A i \in 1..Len(inbox') : i \in 1..Len(inbox) \/ i = Len(inbox) + 1
      /\ Len(inbox) + 1 \in 1..Len(inbox')
      /\ 1..Len(inbox) \subseteq 1..Len(inbox')
      /\ Enabled' = Enabled
  BY UseFixed DEF SessionTypeOK, Enabled
<1>2. /\ \A i \in 1..Len(inbox') :
            inbox'[i].event = "extensions_reply" => inbox'[i].has \subseteq Enabled
      /\ declared \cup ext.attached \subseteq Enabled
  BY <1>1 DEF InboxInv
<1>3. ASSUME NEW i \in 1..Len(inbox'), NEW j \in 1..Len(inbox'),
             inbox'[i].event \in Once, inbox'[i].event = inbox'[j].event
      PROVE  i = j
  BY <1>1, <1>3 DEF InboxInv, Arrived
<1>4. ASSUME NEW event \in Once
      PROVE  Arrived(event)' <=> Arrived(event) \/ frame.event = event
  BY <1>1 DEF Arrived
<1> QED
  BY <1>1, <1>2, <1>3, <1>4 DEF InboxInv

\* The join and the check are asked for once and answered once.
LEMMA HandshakeStep ==
    ASSUME SessionInv, Next
    PROVE  InboxInv' /\ HandshakeInv'
<1>0. /\ SessionTypeOK /\ InboxInv /\ HandshakeInv /\ Enabled' = Enabled
      /\ Question("extensions") # Question("health") /\ Question("join") # Question("health")
      /\ Question("extensions") # Question("join")
      /\ \A n \in Nat : Beat(n) # Question("extensions") /\ Beat(n) # Question("health")
      /\ \A n \in Nat : Beat(n).what = "heartbeat"
      /\ Question("extensions").what = "extensions" /\ Question("health").what = "health"
      /\ \A what : Question(what)' = Question(what)
  BY UseFixed DEF SessionInv, Question, Beat, Enabled
<1>stays. inbox' = inbox /\ declared' \subseteq Enabled /\ ext' = ext =>
          /\ InboxInv'
          /\ \A event : Arrived(event)' <=> Arrived(event)
  BY <1>0 DEF InboxInv, Arrived
<1>once. \A event : event \in Once <=> event = "extensions_reply" \/ event = "health_check"
  BY DEF Once
<1>reads. inbox # <<>> /\ inbox' = Tail(inbox) /\ declared' = declared
          /\ ext'.attached \subseteq Enabled =>
          /\ InboxInv'
          /\ \A event \in Once : Arrived(event)' => Arrived(event)
          /\ \A event \in Once : Head(inbox).event = event => Arrived(event) /\ ~Arrived(event)'
          /\ \A event \in Once : Head(inbox).event # event => (Arrived(event) => Arrived(event)')
  BY <1>0, InboxReads
<1>keys. /\ beats + 1 \in Nat /\ declared \subseteq Enabled
         /\ ext.attached \subseteq Enabled /\ join_params \subseteq Enabled
  BY <1>0 DEF SessionTypeOK, InboxInv, join_params
<1>1. CASE Turn
  <2>1. CASE Confirm
    BY <2>1, <1>0, <1>stays, <1>once, <1>reads, <1>keys DEF Confirm, GoesTo, Sends,
        SendsNothing, localVars, linkVars, netVars, HandshakeInv, OnItsWay
  <2>2. CASE SendExtensionsJoin
    <3>1. CASE JoinsExtensions
      <4>1. /\ ~extensions_sent /\ extensions_sent' = TRUE /\ declared' = join_params
            /\ owed' = IF deafAt = {} THEN owed \cup {Question("extensions")} ELSE owed
            /\ deafAt' = deafAt /\ inbox' = inbox /\ ext' = ext /\ health_answered' = health_answered
        BY <2>2, <3>1 DEF SendExtensionsJoin, JoinsExtensions, Sends
      <4> QED
        BY <1>0, <1>stays, <1>keys, <4>1 DEF HandshakeInv, OnItsWay
    <3>2. CASE ~JoinsExtensions
      BY <2>2, <1>0, <1>stays, <1>keys, <3>2
      DEF SendExtensionsJoin, SendsNothing, HandshakeInv, OnItsWay
    <3> QED
      BY <3>1, <3>2
  <2>3. CASE Heartbeat
    BY <2>3, <1>0, <1>stays, <1>once, <1>reads, <1>keys DEF Heartbeat, GoesTo, Sends,
        SendsNothing, Ends, Beats, heartbeat_unanswered, localVars, linkVars, netVars,
        HandshakeInv, OnItsWay
  <2>4. CASE SendLogs \/ ControlReportsHealth \/ ControlLeaves \/ Window
    BY <2>4, <1>0, <1>stays, <1>once, <1>reads, <1>keys DEF SendLogs,
        ControlReportsHealth, ControlLeaves, Window, GoesTo, Sends, SendsNothing,
        TakesLogs, Ends, WindowLimit, localVars, linkVars, netVars, HandshakeInv, OnItsWay
  <2> QED
    BY <1>1, <2>1, <2>2, <2>3, <2>4 DEF Turn
<1>2. CASE Handles
  <2>1. CASE HandleHeartbeatReply
    BY <2>1, <1>0, <1>stays, <1>once, <1>reads, <1>keys DEF HandleHeartbeatReply, Reads,
        GoesTo, SendsNothing, localVars, linkVars, netVars, HandshakeInv, OnItsWay
  <2>2. CASE on_invitation
    BY <2>2, <1>0, <1>stays, <1>once, <1>reads, <1>keys DEF on_invitation, Reads,
        GoesTo, SendsNothing, localVars, linkVars, netVars, HandshakeInv, OnItsWay
  <2>3. CASE on_join_reply
    <3>1. /\ inbox # <<>> /\ Head(inbox).event = "extensions_reply"
          /\ inbox' = Tail(inbox) /\ declared' = declared
          /\ extensions_sent' = extensions_sent /\ health_answered' = health_answered
          /\ ext' = [ext EXCEPT !.joined = TRUE, !.attached = Head(inbox).has]
          /\ \/ owed' = owed
             \/ owed' = owed \cup {Question(key) : key \in Head(inbox).has \cap {"health"}}
          /\ deafAt' = deafAt
          /\ deafAt = {} /\ Head(inbox).has # {} =>
                owed' = owed \cup {Question(key) : key \in Head(inbox).has \cap {"health"}}
      BY <2>3 DEF on_join_reply, Reads, Sends, SendsNothing, localVars
    <3>2. ext'.attached \subseteq Enabled /\ ext'.attached = Head(inbox).has /\ ext'.joined
      BY <1>0, <3>1 DEF SessionTypeOK, InboxInv
    <3>3. InboxInv' /\ ~Arrived("extensions_reply")' /\ Arrived("extensions_reply")
          /\ (Arrived("health_check")' => Arrived("health_check"))
      BY <1>once, <1>reads, <3>1, <3>2
    <3>4. /\ extensions_sent /\ ~ext.joined /\ Question("extensions") \notin owed
          /\ "health" \notin ext.attached /\ ~health_answered /\ ~Arrived("health_check")
          /\ Question("health") \notin owed
      BY <1>0, <3>3 DEF HandshakeInv, OnItsWay
    <3>5. \A question \in owed' :
              question \in owed \/ (question = Question("health") /\ "health" \in ext'.attached)
      <4>1. \A key \in Head(inbox).has \cap {"health"} :
                key = "health" /\ "health" \in ext'.attached
        BY <3>2
      <4> DEFINE Asked == {Question(key) : key \in Head(inbox).has \cap {"health"}}
      <4>2. \A question \in Asked : question = Question("health") /\ "health" \in ext'.attached
        BY <4>1
      <4> HIDE DEF Asked
      <4>3. owed' = owed \/ owed' = owed \cup Asked
        BY <3>1 DEF Asked
      <4> QED
        BY <4>2, <4>3
    <3>6. deafAt = {} /\ "health" \in ext'.attached => Question("health") \in owed'
      BY <3>1, <3>2
    <3> QED
      BY <1>0, <3>1, <3>2, <3>3, <3>4, <3>5, <3>6 DEF HandshakeInv, OnItsWay
  <2>4. CASE HandleCallback
    <3>1. /\ inbox # <<>> /\ inbox' = Tail(inbox) /\ declared' = declared /\ ext' = ext
          /\ extensions_sent' = extensions_sent /\ owed' = owed /\ deafAt' = deafAt
          /\ \/ /\ Head(inbox).event = "health_check"
                /\ health_answered' = (health_answered \/ "health" \in ext.attached)
             \/ Head(inbox).event = "identify" /\ health_answered' = health_answered
      <4>1. "NeedHealth" \in on_event <=> "health" \in ext.attached
        BY DEF on_event
      <4> QED
        BY <2>4, <4>1 DEF HandleCallback, Reads, SendsNothing, linkVars
    <3>2. /\ InboxInv'
          /\ \A event \in Once : Arrived(event)' => Arrived(event)
          /\ \A event \in Once : Head(inbox).event = event => Arrived(event) /\ ~Arrived(event)'
          /\ \A event \in Once : Head(inbox).event # event => (Arrived(event) => Arrived(event)')
      BY <1>keys, <1>reads, <3>1
    <3>3. CASE Head(inbox).event = "health_check"
      <4>1. /\ Arrived("health_check") /\ ~Arrived("health_check")'
            /\ Arrived("extensions_reply")' <=> Arrived("extensions_reply")
        BY <1>once, <3>2, <3>3
      <4>2. /\ "health" \in ext.attached /\ Question("health") \notin owed
            /\ health_answered' = TRUE
        BY <1>0, <3>1, <3>3, <4>1 DEF HandshakeInv
      <4> QED
        BY <1>0, <3>1, <3>2, <4>1, <4>2 DEF HandshakeInv, OnItsWay
    <3>4. CASE Head(inbox).event = "identify"
      <4>1. /\ Arrived("health_check")' <=> Arrived("health_check")
            /\ Arrived("extensions_reply")' <=> Arrived("extensions_reply")
            /\ health_answered' = health_answered
        BY <1>once, <3>1, <3>2, <3>4
      <4> QED
        BY <1>0, <3>1, <3>2, <4>1 DEF HandshakeInv, OnItsWay
    <3> QED
      BY <3>1, <3>3, <3>4
  <2>5. CASE CallbackReturns
    BY <2>5, <1>0, <1>stays, <1>once, <1>reads, <1>keys DEF CallbackReturns, GoesTo,
        Answers, Sends, SendsNothing, localVars, linkVars, netVars, HandshakeInv, OnItsWay
  <2>6. CASE RecvTimesOut \/ HandleJoinReply \/ HandleClose \/ CallbackTakesTime
    BY <2>6, <1>0, <1>stays, <1>once, <1>reads, <1>keys DEF RecvTimesOut,
        HandleJoinReply, HandleClose, CallbackTakesTime, Passes, GoesTo, Reads,
        SendsNothing, Ends, localVars, linkVars, netVars, HandshakeInv, OnItsWay
  <2> QED
    BY <1>2, <2>1, <2>2, <2>3, <2>4, <2>5, <2>6 DEF Handles
<1>3. CASE Applies
  <2>1. CASE tick
    BY <2>1, <1>0, <1>stays, <1>once, <1>reads, <1>keys DEF tick, TakesLogs, Beats,
        Sends, SendsNothing, localVars, linkVars, netVars, HandshakeInv, OnItsWay
  <2>2. CASE ApplyFails
    BY <2>2, <1>0, <1>stays, <1>once, <1>reads, <1>keys DEF ApplyFails, GoesTo, Sends,
        localVars, linkVars, netVars, HandshakeInv, OnItsWay
  <2>3. CASE HandleUpdate \/ CallTakesTime \/ ApplySucceeds
    BY <2>3, <1>0, <1>stays, <1>once, <1>reads, <1>keys DEF HandleUpdate, CallTakesTime,
        ApplySucceeds, Reads, GoesTo, SendsNothing, Passes, Ends, Sends, localVars,
        linkVars, netVars, HandshakeInv, OnItsWay
  <2> QED
    BY <1>3, <2>1, <2>2, <2>3 DEF Applies
<1>4. CASE Environment
  <2>1. CASE ServerAnswers
    <3>1. PICK question \in owed :
              /\ \/ question.what = "join" /\ Delivers(Event("join_reply"))
                 \/ question.what = "heartbeat" /\ Delivers(Reply(question.ref))
                 \/ question.what = "health" /\ Delivers(Event("health_check"))
                 \/ /\ question.what = "extensions"
                    /\ \E keys \in SUBSET declared : Delivers(Attaches(keys))
              /\ owed' = owed \ {question}
      BY <2>1 DEF ServerAnswers
    <3>2. /\ question.what = "extensions" => question = Question("extensions")
          /\ question.what = "health" => question = Question("health")
          /\ question.ref \in Nat /\ now \in Nat
      BY <1>0 DEF HandshakeInv, SessionTypeOK
    <3>3. PICK frame \in Frames :
              /\ Delivers(frame)
              /\ frame.event = "extensions_reply" =>
                    question = Question("extensions") /\ frame.has \subseteq Enabled
              /\ frame.event = "health_check" => question = Question("health")
              /\ question = Question("extensions") => frame.event = "extensions_reply"
              /\ question = Question("health") => frame.event = "health_check"
      <4>1. CASE question.what = "join" /\ Delivers(Event("join_reply"))
        <5>1. Event("join_reply") \in Frames /\ Event("join_reply").event = "join_reply"
          BY <3>2, FrameTypes DEF Event, Events
        <5> QED
          BY <1>0, <4>1, <5>1
      <4>2. CASE question.what = "heartbeat" /\ Delivers(Reply(question.ref))
        <5>1. Reply(question.ref) \in Frames /\ Reply(question.ref).event = "heartbeat_reply"
          BY <3>2, FrameTypes DEF Reply, Event
        <5> QED
          BY <1>0, <4>2, <5>1
      <4>3. CASE question.what = "health" /\ Delivers(Event("health_check"))
        <5>1. Event("health_check") \in Frames /\ Event("health_check").event = "health_check"
          BY <3>2, FrameTypes DEF Event, Events
        <5> QED
          BY <1>0, <3>2, <4>3, <5>1
      <4>4. ASSUME question.what = "extensions",
                   NEW keys \in SUBSET declared, Delivers(Attaches(keys))
            PROVE  \E frame \in Frames :
                      /\ Delivers(frame)
                      /\ frame.event = "extensions_reply" =>
                            question = Question("extensions") /\ frame.has \subseteq Enabled
                      /\ frame.event = "health_check" => question = Question("health")
                      /\ question = Question("extensions") => frame.event = "extensions_reply"
                      /\ question = Question("health") => frame.event = "health_check"
        <5>1. /\ Attaches(keys) \in Frames /\ Attaches(keys).event = "extensions_reply"
              /\ Attaches(keys).has = keys
          <6>1. keys \in SUBSET (Keys \cup Versions)
            BY <1>0 DEF SessionTypeOK
          <6> QED
            BY <3>2, <6>1, FrameTypes DEF Attaches, Event
        <5> QED
          BY <1>0, <1>keys, <3>2, <4>4, <5>1
      <4> QED
        BY <3>1, <4>1, <4>2, <4>3, <4>4
    <3>4. /\ inbox' = Append(inbox, frame) /\ declared' = declared /\ ext' = ext
          /\ extensions_sent' = extensions_sent /\ health_answered' = health_answered
          /\ deafAt' = deafAt
      BY <3>3 DEF Delivers, linkVars, localVars
    <3>5. /\ InboxInv'
          /\ \A event \in Once : Arrived(event)' <=> Arrived(event) \/ frame.event = event
      BY <1>0, <1>once, <3>1, <3>3, <3>4, InboxArrives DEF HandshakeInv, OnItsWay
    <3> QED
      BY <1>0, <1>once, <3>1, <3>3, <3>4, <3>5 DEF HandshakeInv, OnItsWay
  <2>2. CASE ServerSpeaks
    <3>1. PICK frame \in Frames : Delivers(frame) /\ frame.event \in Speech
      <4>1. PICK what \in Speaks :
              \/ \E versions \in Invitations : Delivers(Invites(versions))
              \/ Delivers(Event(what))
        BY <2>2 DEF ServerSpeaks
      <4>2. what \in Speech /\ Invitations \subseteq SUBSET (Keys \cup Versions) /\ now \in Nat
        BY <1>0, SpeechSaid DEF SessionTypeOK
      <4>3. Event(what) \in Frames /\ Event(what).event \in Speech
        BY <4>2, FrameTypes DEF Event, Events
      <4>4. \A versions \in Invitations :
                Invites(versions) \in Frames /\ Invites(versions).event \in Speech
        BY <4>2, FrameTypes DEF Invites, Event, Speech
      <4> QED
        BY <4>1, <4>3, <4>4
    <3>2. /\ inbox' = Append(inbox, frame) /\ declared' = declared /\ ext' = ext
          /\ extensions_sent' = extensions_sent /\ health_answered' = health_answered
          /\ owed' = owed /\ deafAt' = deafAt
      BY <2>2, <3>1 DEF ServerSpeaks, Delivers, linkVars, localVars
    <3>3. frame.event \notin Once
      BY <3>1 DEF Speech, Once
    <3>4. /\ InboxInv'
          /\ \A event \in Once : Arrived(event)' <=> Arrived(event)
      <4>1. frame.event # "extensions_reply"
        BY <1>once, <3>3
      <4> QED
        BY <1>0, <3>1, <3>2, <3>3, <4>1, InboxArrives
    <3> QED
      BY <1>0, <1>once, <3>2, <3>4 DEF HandshakeInv, OnItsWay
  <2>3. CASE LogLine \/ GoesDeaf \/ ConnectionLost \/ Rests
    BY <2>3, <1>0, <1>stays, <1>once, <1>reads, <1>keys DEF LogLine, GoesDeaf,
        ConnectionLost, Rests, Waiting, Ends, vars, localVars, linkVars, netVars,
        HandshakeInv, OnItsWay
  <2> QED
    BY <1>4, <2>1, <2>2, <2>3 DEF Environment
<1> QED
  BY <1>1, <1>2, <1>3, <1>4 DEF Next

----------------------------------------------------------------------------
(* How a session ends.                                                     *)

\* An update that has come in is one NervesHub sent.
LEMMA UpdateSaid ==
    ASSUME SessionInv, Next
    PROVE  /\ said \subseteq said'
           /\ \A i \in 1..Len(inbox') : inbox'[i].event = "update" => "update" \in said'
<1>0. /\ inbox \in Seq(Frames) /\ SessionTypeOK
      /\ \A i \in 1..Len(inbox) : inbox[i].event = "update" => "update" \in said
  BY DEF SessionInv, SessionTypeOK, WindowInv
<1>1. ASSUME said \subseteq said', inbox' = inbox \/ (inbox # <<>> /\ inbox' = Tail(inbox))
      PROVE  \A i \in 1..Len(inbox') : inbox'[i].event = "update" => "update" \in said'
  <2>1. CASE inbox' = inbox
    BY <1>0, <1>1, <2>1
  <2>2. CASE inbox # <<>> /\ inbox' = Tail(inbox)
    <3>1. \A i \in 1..Len(inbox') : i + 1 \in 1..Len(inbox) /\ inbox'[i] = inbox[i + 1]
      BY <1>0, <2>2
    <3> QED
      BY <1>0, <1>1, <3>1
  <2> QED
    BY <1>1, <2>1, <2>2
<1>2. ASSUME NEW frame, inbox' = Append(inbox, frame), said \subseteq said',
             frame.event = "update" => "update" \in said'
      PROVE  \A i \in 1..Len(inbox') : inbox'[i].event = "update" => "update" \in said'
  <2>1. /\ \A i \in 1..Len(inbox') : i \in 1..Len(inbox) \/ i = Len(inbox) + 1
        /\ \A i \in 1..Len(inbox) : inbox'[i] = inbox[i]
        /\ inbox'[Len(inbox) + 1] = frame
    BY <1>0, <1>2
  <2> QED
    BY <1>0, <1>2, <2>1
<1>3. CASE ServerAnswers
  <2>1. said' = said
    BY <1>3 DEF ServerAnswers
  <2>2. \E frame : inbox' = Append(inbox, frame) /\ frame.event # "update"
    <3>1. PICK question \in owed :
            \/ Delivers(Event("join_reply")) \/ Delivers(Reply(question.ref))
            \/ Delivers(Event("health_check"))
            \/ \E keys \in SUBSET declared : Delivers(Attaches(keys))
      BY <1>3 DEF ServerAnswers
    <3>2. /\ Event("join_reply").event = "join_reply"
          /\ Event("health_check").event = "health_check"
          /\ \A ref : Reply(ref).event = "heartbeat_reply"
          /\ \A keys : Attaches(keys).event = "extensions_reply"
      BY DEF Event, Reply, Attaches
    <3> QED
      BY <3>1, <3>2 DEF Delivers
  <2> QED
    BY <1>2, <2>1, <2>2
<1>4. CASE ServerSpeaks
  <2>1. PICK what \in Speaks \ said :
          /\ \/ \E versions \in Invitations : Delivers(Invites(versions))
             \/ Delivers(Event(what))
          /\ said' = said \cup {what}
    BY <1>4 DEF ServerSpeaks
  <2>2. /\ Event(what).event = what
        /\ \A versions : Invites(versions).event = "extensions_get"
    BY DEF Event, Invites
  <2>3. \E frame : /\ inbox' = Append(inbox, frame)
                   /\ frame.event = "update" => what = "update"
    BY <2>1, <2>2 DEF Delivers
  <2> QED
    BY <1>2, <2>1, <2>3
<1>5. CASE Turn
  BY <1>1, <1>5 DEF Turn, Confirm, SendExtensionsJoin, Heartbeat, SendLogs,
      ControlReportsHealth, ControlLeaves, Window, netVars
<1>6. CASE Handles
  BY <1>1, <1>6 DEF Handles, RecvTimesOut, HandleJoinReply, HandleHeartbeatReply,
      on_invitation, on_join_reply, HandleClose, HandleCallback, CallbackTakesTime,
      CallbackReturns, Reads, netVars
<1>7. CASE Applies
  BY <1>1, <1>7 DEF Applies, HandleUpdate, CallTakesTime, tick, ApplyFails,
      ApplySucceeds, Reads, netVars
<1>8. CASE LogLine \/ GoesDeaf \/ ConnectionLost \/ Rests
  BY <1>1, <1>8 DEF LogLine, GoesDeaf, ConnectionLost, Rests, vars, netVars
<1> QED
  BY <1>3, <1>4, <1>5, <1>6, <1>7, <1>8 DEF Next, Environment

\* Whatever a turn does, it looks at the window before it waits again.
LEMMA WindowStep ==
    ASSUME SessionInv, Next
    PROVE  WindowInv'
<1>0. /\ WindowInv /\ now \in Nat /\ busy \in Nat /\ limit \in Nat /\ CallbackMax \in Nat
      /\ Windowed' = Windowed /\ Enabled' = Enabled /\ joined_at \subseteq Nat
      /\ pc \in {"report", "callback"} => busy <= CallbackMax
      /\ pc = "report" => ~Windowed
      /\ joined \in BOOLEAN /\ Provider' = Provider
  BY ClockAssumption, UseFixed DEF SessionInv, SessionTypeOK, TurnInv, ControlReports,
      Windowed, Enabled, Provider
<1>said. /\ said \subseteq said'
         /\ \A i \in 1..Len(inbox') : inbox'[i].event = "update" => "update" \in said'
  BY UpdateSaid
<1>same. ASSUME UNCHANGED <<now, joined, joined_at, extensions_sent, ext>>
         PROVE  JoinsExtensions' <=> JoinsExtensions
  BY <1>0, <1>same DEF JoinsExtensions, invitation_overdue
<1>left. ASSUME UNCHANGED <<now, joined_at, ext, health_answered, backlog>>
         PROVE  /\ nothing_outstanding' <=> nothing_outstanding
                /\ lingered' <=> lingered
  BY <1>0, <1>left DEF nothing_outstanding, lingered, logging_attached
<1>over. pc # "over" => outcome = "None"
  BY DEF SessionInv, SessionTypeOK
<1> USE <1>over DEF WindowInv
<1>1. CASE Turn
  <2>1. CASE Confirm
    BY <2>1, <1>0, <1>said DEF Confirm, GoesTo, Sends, SendsNothing, linkVars
  <2>2. CASE SendExtensionsJoin
    <3>1. ~JoinsExtensions'
      BY <2>2, <1>0 DEF SendExtensionsJoin, JoinsExtensions, invitation_overdue
    <3>2. extensions_sent' => Enabled' # {}
      BY <2>2, <1>0 DEF SendExtensionsJoin, JoinsExtensions
    <3> QED
      BY <2>2, <1>0, <1>said, <3>1, <3>2 DEF SendExtensionsJoin, GoesTo
  <2>3. CASE Heartbeat
    BY <2>3, <1>0, <1>said, <1>same DEF Heartbeat, GoesTo, Ends, Beats
  <2>4. CASE SendLogs
    BY <2>4, <1>0, <1>said, <1>same DEF SendLogs, GoesTo, localVars, linkVars
  <2>5. CASE Window
    BY <2>5, <1>0, <1>said, <1>same, <1>left DEF Window, WindowLimit, GoesTo, Ends,
        localVars, linkVars
  <2>6. CASE ControlReportsHealth \/ ControlLeaves
    BY <2>6, <1>0, <1>said DEF ControlReportsHealth, ControlLeaves, GoesTo, Ends,
        localVars, linkVars
  <2> QED
    BY <1>1, <2>1, <2>2, <2>3, <2>4, <2>5, <2>6 DEF Turn
<1>2. CASE Handles
  <2>1. CASE RecvTimesOut
    BY <2>1, <1>0, <1>said DEF RecvTimesOut, Passes, GoesTo, localVars, linkVars
  <2>2. CASE CallbackTakesTime
    BY <2>2, <1>0, <1>said DEF CallbackTakesTime, Passes, linkVars
  <2>3. CASE CallbackReturns
    BY <2>3, <1>0, <1>said DEF CallbackReturns, GoesTo, localVars, linkVars
  <2>4. CASE HandleCallback
    BY <2>4, <1>0, <1>said DEF HandleCallback, Reads, GoesTo, linkVars
  <2>5. CASE HandleJoinReply \/ HandleHeartbeatReply \/ on_invitation \/ on_join_reply
               \/ HandleClose
    BY <2>5, <1>0, <1>said DEF HandleJoinReply, HandleHeartbeatReply, on_invitation,
        on_join_reply, HandleClose, Reads, GoesTo, Ends, localVars, linkVars
  <2> QED
    BY <1>2, <2>1, <2>2, <2>3, <2>4, <2>5 DEF Handles
<1>3. CASE Applies
  <2>1. CASE HandleUpdate
    <3>1. 1 \in 1..Len(inbox) /\ inbox[1].event = "update"
      BY <2>1 DEF HandleUpdate, Reads, SessionInv, SessionTypeOK
    <3>2. "update" \in said
      BY <1>0, <3>1
    <3> QED
      BY <2>1, <3>2, <1>0, <1>said DEF HandleUpdate, Reads, GoesTo, linkVars
  <2>2. CASE CallTakesTime \/ tick \/ ApplyFails \/ ApplySucceeds
    <3>1. pc = "apply" /\ joined' = joined /\ joined_at' = joined_at
      BY <2>2 DEF CallTakesTime, tick, ApplyFails, ApplySucceeds, localVars, linkVars
    <3>2. /\ pc' \in {"apply", "top", "over"} /\ outcome' \in {"None", "Rebooting"}
          /\ extensions_sent' = extensions_sent
      BY <2>2, <3>1 DEF CallTakesTime, tick, ApplyFails, ApplySucceeds, GoesTo, Ends,
          localVars
    <3> QED
      BY <3>1, <3>2, <1>0, <1>said
  <2> QED
    BY <1>3, <2>1, <2>2 DEF Applies
<1>4. CASE Environment
  <2>1. /\ UNCHANGED <<now, joined, joined_at, extensions_sent, ext, busy, health_answered>>
        /\ \/ UNCHANGED <<pc, outcome, backlog>>
           \/ UNCHANGED <<pc, outcome>> /\ pc # "over" /\ ~backlog /\ backlog' = TRUE
           \/ pc' = "over" /\ outcome' = "Transport"
    BY <1>4 DEF Environment, LogLine, ServerAnswers, ServerSpeaks, GoesDeaf, Waiting,
        ConnectionLost, Rests, Delivers, Ends, vars, localVars, linkVars
  <2>2. /\ lingered' <=> lingered
        /\ JoinsExtensions' <=> JoinsExtensions
    BY <1>same, <2>1 DEF lingered
  <2>3. backlog' = TRUE \/ backlog' = backlog => (nothing_outstanding' => nothing_outstanding)
    BY <1>0, <2>1 DEF nothing_outstanding, logging_attached
  <2>4. CASE UNCHANGED <<pc, outcome, backlog>>
    BY <1>0, <1>said, <1>left, <2>1, <2>2, <2>4
  <2>5. CASE UNCHANGED <<pc, outcome>> /\ pc # "over" /\ ~backlog /\ backlog' = TRUE
    BY <1>0, <1>said, <2>1, <2>2, <2>3, <2>5
  <2>6. CASE pc' = "over" /\ outcome' = "Transport"
    BY <1>0, <1>said, <2>1, <2>2, <2>6
  <2> QED
    BY <2>1, <2>4, <2>5, <2>6
<1> QED
  BY <1>1, <1>2, <1>3, <1>4 DEF Next

\* An unanswered heartbeat ends a session only as it may.
LEMMA EndStep ==
    ASSUME SessionInv, Next
    PROVE  UnansweredMeansSilence'
<1>0. /\ pc # "over" => outcome = "None"
      /\ Windowed' = Windowed /\ Enabled' = Enabled
      /\ pc = "report" => ControlReports
      /\ UnansweredMeansSilence /\ Backed' = Backed
  BY UseFixed DEF SessionInv, SessionTypeOK, TurnInv, Windowed, Enabled, Backed
<1>1. CASE Turn
  <2>1. CASE Heartbeat
    <3>1. CASE outcome' = "Unanswered"
      <4>1. pc = "heartbeat" /\ inbox' = inbox /\ now' = now /\ last_heartbeat' = last_heartbeat
            /\ pc' = "over"
        BY <2>1, <1>0, <3>1 DEF Heartbeat, GoesTo, Ends
      <4>2. ASSUME NEW i \in 1..Len(inbox)
            PROVE  now - inbox[i].at <= Backed \/ now - last_heartbeat <= Backed
        <5>1. /\ Unread(i, Ahead(i) + CallbackMax) /\ i \in 1..MaxInbox /\ inbox[i] \in Frames
              /\ now \in Nat /\ last_heartbeat \in Nat
          BY <4>1, TurnTicks DEF SessionInv, BackInv, BeforeCheck, SessionTypeOK
        <5>2. /\ Ahead(i) \in Nat /\ Ahead(i) + TurnMax <= Backed
              /\ CallbackMax \in Nat /\ TurnMax \in Nat /\ CallbackMax <= TurnMax
              /\ MaxInbox \in Nat
          BY <5>1, AheadFacts, TurnTicks
        <5>3. inbox[i].at \in Nat /\ Backed \in Nat
          <6>1. MaxInbox * TurnMax \in Nat
            BY <5>2, SMTT(30)
          <6> QED
            BY <5>1, <6>1 DEF Frames, Backed
        <5> QED
          BY <5>1, <5>2, <5>3 DEF Unread
      <4> QED
        BY <1>0, <3>1, <4>1, <4>2 DEF UnansweredMeansSilence
    <3>2. CASE outcome' # "Unanswered"
      BY <2>1, <1>0, <3>2 DEF Heartbeat, GoesTo, Ends, UnansweredMeansSilence
    <3> QED
      BY <3>1, <3>2
  <2>2. CASE ControlLeaves
    BY <2>2, <1>0 DEF ControlLeaves, Ends, localVars, linkVars, netVars, UnansweredMeansSilence
  <2>3. CASE Window
    <3>1. UNCHANGED <<now, inbox, heartbeat_ref, last_heartbeat>> /\ outcome' # "Unanswered"
      BY <2>3, <1>0 DEF Window, WindowLimit, Ends, GoesTo, netVars, localVars, linkVars
    <3> QED
      BY <3>1 DEF UnansweredMeansSilence
  <2>4. CASE Confirm \/ SendExtensionsJoin \/ SendLogs \/ ControlReportsHealth
    BY <2>4, <1>0 DEF Confirm, SendExtensionsJoin, SendLogs, ControlReportsHealth,
        GoesTo, Sends, SendsNothing, TakesLogs, localVars, linkVars, netVars,
        UnansweredMeansSilence
  <2> QED
    BY <1>1, <2>1, <2>2, <2>3, <2>4 DEF Turn
<1>2. CASE Handles
  <2>1. CASE RecvTimesOut
    BY <2>1, <1>0 DEF RecvTimesOut, Passes, GoesTo, localVars, linkVars, netVars,
        UnansweredMeansSilence
  <2>2. CASE CallbackReturns
    BY <2>2, <1>0 DEF CallbackReturns, ControlReports, GoesTo, Answers, Sends,
        SendsNothing, localVars, linkVars, netVars, UnansweredMeansSilence
  <2>3. CASE HandleJoinReply \/ HandleHeartbeatReply \/ on_invitation \/
          on_join_reply \/ HandleClose \/ HandleCallback \/ CallbackTakesTime
    BY <2>3, <1>0 DEF HandleJoinReply, HandleHeartbeatReply, on_invitation,
        on_join_reply, HandleClose, HandleCallback, CallbackTakesTime, Reads, GoesTo,
        SendsNothing, Sends, Ends, Passes, localVars, linkVars, netVars, UnansweredMeansSilence
  <2> QED
    BY <1>2, <2>1, <2>2, <2>3 DEF Handles
<1>3. CASE Applies
  BY <1>3, <1>0 DEF Applies, HandleUpdate, CallTakesTime, tick, ApplyFails,
      ApplySucceeds, Reads, GoesTo, SendsNothing, Passes, TakesLogs, Beats, Sends, Ends,
      localVars, linkVars, netVars, UnansweredMeansSilence
<1>4. CASE Environment
  <2>1. CASE LogLine
    BY <2>1, <1>0 DEF LogLine, Waiting, localVars, linkVars, netVars, UnansweredMeansSilence
  <2>2. CASE ServerAnswers
    <3>1. UNCHANGED <<now, pc, outcome>> /\ Waiting
      BY <2>2 DEF ServerAnswers, ServerSpeaks, Delivers
    <3>2. pc # "over"
      BY <3>1 DEF Waiting
    <3> QED
      BY <1>0, <3>1, <3>2 DEF UnansweredMeansSilence
  <2>3. CASE ServerSpeaks
    <3>1. UNCHANGED <<now, pc, outcome>> /\ Waiting
      BY <2>3 DEF ServerAnswers, ServerSpeaks, Delivers
    <3>2. pc # "over"
      BY <3>1 DEF Waiting
    <3> QED
      BY <1>0, <3>1, <3>2 DEF UnansweredMeansSilence
  <2>4. CASE GoesDeaf
    BY <2>4, <1>0 DEF GoesDeaf, Waiting, localVars, linkVars, netVars, UnansweredMeansSilence
  <2>5. CASE ConnectionLost
    BY <2>5, <1>0 DEF ConnectionLost, Waiting, Ends, localVars, linkVars, netVars,
        UnansweredMeansSilence
  <2>6. CASE Rests
    BY <2>6, <1>0 DEF Rests, vars, localVars, linkVars, netVars, UnansweredMeansSilence
  <2> QED
    BY <1>4, <2>1, <2>2, <2>3, <2>4, <2>5, <2>6 DEF Environment
<1> QED
  BY <1>1, <1>2, <1>3, <1>4 DEF Next

----------------------------------------------------------------------------
(* The theorems.                                                           *)

LEMMA SessionStarts ==
    ASSUME Init
    PROVE  SessionInv
<1> USE DEF Init
<1>1. SessionTypeOK
  <2>1. Question("join") \in [what : Questions, ref : Nat]
    BY DEF Question, Questions
  <2>2. inbox \in Seq(Frames) /\ Len(inbox) <= MaxInbox
    BY ClockAssumption
  <2>3. ext \in [joined : BOOLEAN, invited : BOOLEAN,
                 advertised : SUBSET (Keys \cup Versions),
                 attached : SUBSET (Keys \cup Versions)]
    BY DEF Unnamed, Versions
  <2>4. use \in Uses /\ backlog \in BOOLEAN /\ owed = {Question("join")}
    OBVIOUS
  <2>5. now = 0 /\ last_heartbeat = 0 /\ busy = 0 /\ beats = 0 /\ quiet = 0 /\ lastSent = 0
    OBVIOUS
  <2>6. /\ pc = "top" /\ outcome = "None" /\ joined_at = {} /\ extensions_sent = FALSE
        /\ health_answered = FALSE /\ joined = FALSE /\ heartbeat_ref = {} /\ declared = {}
        /\ deafAt = {}
    OBVIOUS
  <2> HIDE DEF Init
  <2> QED
    BY <2>1, <2>2, <2>3, <2>4, <2>5, <2>6 DEF SessionTypeOK, Places
<1>2. TurnInv /\ SentInv
  BY TurnTicks DEF TurnInv, SentInv, BeforeCheck
<1>3. QuietInv
  BY TurnTicks DEF QuietInv, BeforeCheck, AfterCheck
<1>4. BackInv /\ InboxInv
  BY DEF BackInv, InboxInv
<1>5. HandshakeInv
  BY DEF HandshakeInv, OnItsWay, Arrived, Question
<1>6. WindowInv /\ UnansweredMeansSilence
  BY ClockAssumption DEF WindowInv, UnansweredMeansSilence, JoinsExtensions
<1> QED
  BY <1>1, <1>2, <1>3, <1>4, <1>5, <1>6 DEF SessionInv

\* The invariant of a session.
THEOREM SessionInvariant == Spec => []SessionInv
<1>1. Init => SessionInv
  BY SessionStarts
<1>2. SessionInv /\ Next => SessionInv'
  BY TypeStep, TurnStep, SentStep, QuietStep, BackStep, HandshakeStep, WindowStep,
      EndStep DEF SessionInv
<1>3. SessionInv /\ UNCHANGED vars => SessionInv'
  <2> SUFFICES ASSUME SessionInv, UNCHANGED vars
               PROVE  SessionInv'
    OBVIOUS
  <2> USE DEF vars, localVars, linkVars, netVars
  <2>1. SessionTypeOK' /\ TurnInv' /\ SentInv' /\ QuietInv'
    BY DEF SessionInv, SessionTypeOK, TurnInv, SentInv, QuietInv, Reporting, TurnMax,
           ControlReports, Enabled, Windowed, Provider
  <2>2. BackInv'
    BY DEF SessionInv, BackInv, Unread, Ahead, TurnMax, ControlReports, Enabled, Windowed, Provider
  <2>3. InboxInv' /\ HandshakeInv'
    BY DEF SessionInv, InboxInv, HandshakeInv, OnItsWay, Arrived, Question, Enabled
  <2>4. WindowInv'
    BY DEF SessionInv, WindowInv, JoinsExtensions, invitation_overdue, lingered,
           nothing_outstanding, logging_attached, Enabled, Windowed, Provider
  <2>5. UnansweredMeansSilence'
    BY DEF SessionInv, UnansweredMeansSilence, Backed, TurnMax, ControlReports, Enabled,
           Windowed, Provider
  <2> QED
    BY <2>1, <2>2, <2>3, <2>4, <2>5 DEF SessionInv
<1> QED
  BY <1>1, <1>2, <1>3, PTL DEF Spec

\* Session.UnansweredMeansSilence: link.heartbeat_unanswered ends a session whose
\* last heartbeat was answered only while callbacks kept the loop from the answer,
\* for no longer than as many of them take as can be queued ahead of it.
THEOREM UnansweredIsSilence == Spec => []UnansweredMeansSilence
<1>1. SessionInv => UnansweredMeansSilence
  BY DEF SessionInv
<1> QED
  BY <1>1, SessionInvariant, PTL

\* Session.DeafnessNoticed: the heartbeat check of every turn ends a session on a
\* connection that delivers nothing after two intervals spent waiting for it.
THEOREM DeafnessIsNoticed == Spec => []DeafnessNoticed
<1>1. SessionInv => DeafnessNoticed
  <2>1. SUFFICES ASSUME SessionInv, pc # "over"
                 PROVE  quiet <= 2 * heartbeat_ms
    BY DEF DeafnessNoticed
  <2>2. /\ quiet \in Nat /\ heartbeat_ms \in Nat /\ pc \in Places /\ now \in Nat
        /\ last_heartbeat \in Nat /\ QuietInv
        /\ (quiet > 0 => pc \notin {"callback", "apply"})
    BY <2>1, TurnTicks DEF SessionInv, SessionTypeOK, QuietInv
  <2> QED
    BY <2>1, <2>2 DEF QuietInv, BeforeCheck, AfterCheck, Places
<1> QED
  BY <1>1, SessionInvariant, PTL

\* Session.SilenceBounded: session_within's heartbeats and those of Pump::tick,
\* one after the other, leave no gap of more than two intervals and what one call
\* or the callbacks of a turn take.
THEOREM SilenceIsBounded == Spec => []SilenceBounded
<1>1. SessionInv => SilenceBounded
  <2>1. SUFFICES ASSUME SessionInv, pc # "over"
                 PROVE  now - lastSent <= 2 * heartbeat_ms + CallMax + TurnMax
    BY DEF SilenceBounded
  <2>2. /\ now \in Nat /\ lastSent \in Nat /\ last_heartbeat \in Nat /\ busy \in Nat
        /\ pc \in Places /\ TurnInv /\ SentInv
    BY <2>1 DEF SessionInv, SessionTypeOK
  <2> QED
    BY <2>1, <2>2, TurnTicks DEF TurnInv, SentInv, BeforeCheck, Places
<1> QED
  BY <1>1, SessionInvariant, PTL

\* Session.WindowKept: session_within checks the limit of a window before every
\* receive, leaves before it only with nothing_outstanding, and past the linger
\* goes on only for what nothing_outstanding still counts and can still come.
THEOREM WindowIsKept == Spec => []WindowKept
<1>1. SessionInv => WindowKept
  <2>1. SUFFICES ASSUME SessionInv, Windowed
                 PROVE  /\ "update" \notin said => now <= limit + CallbackMax
                        /\ outcome = "Finished" /\ now < limit => ~StillComing
                        /\ pc = "recv" /\ lingered =>
                              ~JoinsExtensions /\ (StillComing \/ deafAt # {})
    BY DEF WindowKept
  <2>2. HandshakeInv /\ WindowInv
    BY <2>1 DEF SessionInv
  <2>3. nothing_outstanding => ~StillComing
    BY <2>2 DEF nothing_outstanding, StillComing, OnItsWay, HandshakeInv, WindowInv
  <2>4. ~nothing_outstanding => StillComing \/ deafAt # {}
    BY <2>2 DEF nothing_outstanding, StillComing, HandshakeInv
  <2> QED
    BY <2>1, <2>2, <2>3, <2>4 DEF WindowInv
<1> QED
  BY <1>1, SessionInvariant, PTL

============================================================================
