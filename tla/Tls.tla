-------------------------------- MODULE Tls --------------------------------
(***************************************************************************)
(* The TLS transport of tls.rs and the session slot of tls_session.rs, for *)
(* one websocket after another: the agent's thread puts the client together*)
(* (transport.rs), stops it and takes it apart; the client's task connects,*)
(* polls, reads and closes; other connections of the program take sockets  *)
(* of lwIP's and give them back.                                           *)
(*                                                                         *)
(* A step of the task ends where the Stopper could tell: at a load of      *)
(* `stopping`, at the mutex around the published socket, in select.  The   *)
(* task's own loop is ESP-IDF's: it connects, polls while connected, closes*)
(* what failed, and ends, closing, once it has been told to.               *)
(***************************************************************************)
EXTENDS Naturals, FiniteSets

CONSTANTS
    Fds,                \* the socket numbers lwIP hands out
    Protocols,          \* what a handshake may settle on
    Sleeps,             \* whether the device deep-sleeps between connections
    MaxConnects         \* bound on calls of connect

ASSUME TlsAssumption ==
    /\ IsFiniteSet(Fds)
    /\ Protocols \subseteq {"TLSv1.2", "TLSv1.3"}
    /\ Sleeps \in BOOLEAN
    /\ MaxConnects \in Nat

VARIABLES
    \* The pieces of a WebSocketTransport that exist: the transport of tls.rs,
    \* "base", ESP-IDF's "ws" over it, the "client" over that, its "events".
    parts,
    \* The client's task, and Context.
    task,               \* where it is, "none" without a client
    then,               \* where close returns to
    tls,                \* whether Context.tls is a connection
    sockfd,             \* an Option, as a set
    ticket_due,         \* an Option, as a set
    offered,            \* connect's local
    protocol,           \* of the connection
    \* Stop, and the thread that owns the client.
    stopping,
    socket,             \* what the mutex guards: the published socket, a set
    found,              \* the socket stop finds, a set; stop's local
    owner,              \* where the thread is
    \* TlsSession, and the application's copy in RTC memory.
    saved,              \* an Option, as a set, of the connect a session is from
    last,
    rtc,
    \* lwIP, and NervesHub.
    holder,             \* who has each socket: "free", "ours", "other"
    shut,               \* the open sockets that were shut down
    poisoned,           \* the sessions that make a handshake fail
    \* History.
    connects,           \* calls of connect
    exported,           \* sessions taken from this connection
    failed,             \* sessions offered in a handshake that failed
    failedBefore        \* the same, before the last sleep

contextVars == <<tls, sockfd, ticket_due, protocol, exported>>
stopVars == <<stopping, found, owner, parts>>
sessionVars == <<saved, last>>
worldVars == <<rtc, poisoned, failedBefore>>
vars == <<task, then, contextVars, offered, stopVars, socket, sessionVars,
          worldVars, holder, shut, connects, failed>>

----------------------------------------------------------------------------

Parts == {"base", "ws", "client", "events"}

\* The stopper holds the mutex around the published socket, and the task does
\* not get it.
Locked == owner = "shutdown"

\* No transport yet, and a slot that is empty or restored from RTC memory.
Init ==
    /\ parts = {}
    /\ task = "none" /\ then = "none"
    /\ tls = FALSE /\ sockfd = {} /\ ticket_due = {} /\ protocol = "none"
    /\ stopping = FALSE /\ socket = {} /\ found = {} /\ owner = "making"
    /\ offered = {}
    /\ rtc \in {{}, {0}}
    /\ saved = rtc
    /\ last = "None"
    /\ holder = [fd \in Fds |-> "free"]
    /\ shut = {}
    /\ poisoned \in SUBSET rtc
    /\ connects = 0 /\ exported = 0 /\ failed = {}
    /\ failedBefore = {}

----------------------------------------------------------------------------
(* The client's task: connect.                                             *)

\* The client connects, as long as it has not been told to end.
Connect ==
    /\ task = "idle"
    /\ ~tls
    /\ owner # "waiting"
    /\ connects < MaxConnects
    /\ connects' = connects + 1
    /\ task' = "close" /\ then' = "check"
    /\ UNCHANGED <<contextVars, offered, stopVars, socket, sessionVars, worldVars,
                   holder, shut, failed>>

\* As GiveUp, with an atomic for the socket where there is a mutex.
GiveUp_Mut ==
    /\ task = "close"
    /\ socket' = {}
    /\ task' = "destroy"
    /\ UNCHANGED <<then, contextVars, offered, stopVars, sessionVars, worldVars,
                   holder, shut, connects, failed>>

\* Context::close gives the socket up,
GiveUp ==
    /\ task = "close"
    /\ ~Locked
    /\ socket' = {}
    /\ task' = "destroy"
    /\ UNCHANGED <<then, contextVars, offered, stopVars, sessionVars, worldVars,
                   holder, shut, connects, failed>>

\* As Close, with the ticket still waited for.
Close_Mut ==
    /\ task = "destroy"
    /\ holder' = [fd \in Fds |-> IF fd \in sockfd THEN "free" ELSE holder[fd]]
    /\ shut' = shut \ sockfd
    /\ tls' = FALSE /\ sockfd' = {} /\ protocol' = "none" /\ exported' = 0
    /\ task' = then
    /\ UNCHANGED <<then, offered, ticket_due, stopVars, socket, sessionVars,
                   worldVars, connects, failed>>

\* and then destroys the connection.
ConnectionGoes ==
    /\ holder' = [fd \in Fds |-> IF fd \in sockfd THEN "free" ELSE holder[fd]]
    /\ shut' = shut \ sockfd
    /\ tls' = FALSE /\ sockfd' = {} /\ ticket_due' = {} /\ protocol' = "none"
    /\ exported' = 0

Close ==
    /\ task = "destroy"
    /\ ConnectionGoes
    /\ task' = then
    /\ UNCHANGED <<then, offered, stopVars, socket, sessionVars, worldVars,
                   connects, failed>>

\* A transport being destroyed starts no handshake, nor does one that gets no
\* memory for it; any other offers what is saved, if that can be loaded.
CheckStopping ==
    /\ task = "check"
    /\ \/ task' = "idle" /\ UNCHANGED offered
       \/ ~stopping /\ task' = "handshake" /\ offered' = saved
    /\ UNCHANGED <<then, contextVars, stopVars, socket, sessionVars, worldVars,
                   holder, shut, connects, failed>>

\* As HandshakeFails, with the session kept for another try.
HandshakeFails_Mut ==
    /\ task = "handshake"
    /\ failed' = failed \cup offered
    /\ task' = "idle"
    /\ UNCHANGED <<then, contextVars, offered, stopVars, socket, sessionVars,
                   worldVars, holder, shut, connects>>

\* esp_tls_conn_new_sync fails, for any reason: a session that was offered is
\* forgotten.
HandshakeFails ==
    /\ task = "handshake"
    /\ saved' = IF offered # {} THEN {} ELSE saved
    /\ failed' = failed \cup offered
    /\ task' = "idle"
    /\ UNCHANGED <<then, contextVars, offered, stopVars, socket, last, worldVars,
                   holder, shut, connects>>

\* It succeeds, and its socket cannot be had.
HandshakeLost ==
    /\ task = "handshake"
    /\ offered \cap poisoned = {}
    /\ task' = "idle"
    /\ UNCHANGED <<then, contextVars, offered, stopVars, socket, sessionVars,
                   worldVars, holder, shut, connects, failed>>

\* It succeeds, on a socket that nobody else has.
HandshakeDone ==
    /\ task = "handshake"
    /\ offered \cap poisoned = {}
    /\ \E fd \in Fds, p \in Protocols :
        /\ holder[fd] = "free"
        /\ holder' = [holder EXCEPT ![fd] = "ours"]
        /\ sockfd' = {fd}
        /\ protocol' = p
    /\ tls' = TRUE
    /\ task' = "publish"
    /\ UNCHANGED <<then, ticket_due, exported, offered, stopVars, socket,
                   sessionVars, worldVars, shut, connects, failed>>

Publish ==
    /\ task = "publish"
    /\ ~Locked
    /\ socket' = sockfd
    /\ task' = "record"
    /\ UNCHANGED <<then, contextVars, offered, stopVars, sessionVars, worldVars,
                   holder, shut, connects, failed>>

\* What the handshake can have been: a session that was not offered, or that
\* could not be loaded, is not resumed.
Handshakes == IF offered = {} THEN {"Full"} ELSE {"Full", "Resumed"}

\* TLS 1.3: the ticket comes later.
RecordTls13(handshake) ==
    /\ protocol = "TLSv1.3"
    /\ last' = handshake
    /\ ticket_due' = {handshake}
    /\ UNCHANGED <<saved, exported>>

\* TLS 1.2: the session is exported here, once, if there is memory for it.  A
\* resumed one is the session that was offered.
SaveTls12(handshake) ==
    /\ protocol = "TLSv1.2"
    /\ exported' = exported + 1
    /\ \/ /\ saved' = IF handshake = "Resumed" THEN offered ELSE {connects}
          /\ last' = handshake
       \/ UNCHANGED sessionVars
    /\ UNCHANGED ticket_due

Record ==
    /\ task = "record"
    /\ \E handshake \in Handshakes : RecordTls13(handshake) \/ SaveTls12(handshake)
    /\ task' = "idle"
    /\ UNCHANGED <<then, tls, sockfd, protocol, offered, stopVars, socket,
                   worldVars, holder, shut, connects, failed>>

----------------------------------------------------------------------------
(* The client's task: polls and reads.                                     *)

\* As Poll, with the flag looked at only after the wait.
Poll_Mut ==
    /\ task = "idle"
    /\ tls
    /\ owner # "waiting"
    /\ task' = "select"
    /\ UNCHANGED <<then, contextVars, offered, stopVars, socket, sessionVars,
                   worldVars, holder, shut, connects, failed>>

\* poll_read, to the select.  A stop that came before the wait ends it.
Poll ==
    /\ task = "idle"
    /\ tls
    /\ owner # "waiting"
    /\ ~stopping
    /\ task' = "select"
    /\ UNCHANGED <<then, contextVars, offered, stopVars, socket, sessionVars,
                   worldVars, holder, shut, connects, failed>>

\* select returns: for data, for the time, with a failure that makes the client
\* close, or since the socket was shut down.  A stop reads as a timeout.
SelectReturns ==
    /\ task = "select"
    /\ \/ task' = "idle" /\ UNCHANGED then
       \/ ~stopping /\ task' = "read" /\ UNCHANGED then
       \/ ~stopping /\ task' = "close" /\ then' = "idle"
    /\ UNCHANGED <<contextVars, offered, stopVars, socket, sessionVars,
                   worldVars, holder, shut, connects, failed>>

SelectWoken == sockfd \cap shut # {} /\ SelectReturns

\* Bytes mbedTLS already holds need no select.
PollBuffered ==
    /\ task = "idle"
    /\ tls
    /\ owner # "waiting"
    /\ task' = "read"
    /\ UNCHANGED <<then, contextVars, offered, stopVars, socket, sessionVars,
                   worldVars, holder, shut, connects, failed>>

\* A read brings in the ticket, or does not, and returns data or a failure,
\* which makes the client close.
Read ==
    /\ task = "read"
    /\ \/ /\ ticket_due # {}
          /\ saved' = {connects} /\ last' \in ticket_due
          /\ ticket_due' = {}
          /\ exported' = exported + 1
       \/ UNCHANGED <<sessionVars, ticket_due, exported>>
    /\ \/ task' = "idle" /\ UNCHANGED then
       \/ task' = "close" /\ then' = "idle"
    /\ UNCHANGED <<tls, sockfd, protocol, offered, stopVars, socket, worldVars,
                   holder, shut, connects, failed>>

\* Told to end, the task closes on its way out.
TaskEnds ==
    /\ task = "idle"
    /\ owner = "waiting"
    /\ task' = "close" /\ then' = "ended"
    /\ UNCHANGED <<contextVars, offered, stopVars, socket, sessionVars, worldVars,
                   holder, shut, connects, failed>>

----------------------------------------------------------------------------
(* The thread that owns the client: WebSocketTransport::connect.           *)

Makes(part) ==
    /\ parts' = parts \cup {part}
    /\ UNCHANGED <<task, then, contextVars, offered, stopping, found, owner, socket,
                   sessionVars, worldVars, holder, shut, connects, failed>>

MakesBase == owner = "making" /\ parts = {} /\ Makes("base")

MakesWs == owner = "making" /\ parts = {"base"} /\ Makes("ws")

\* Once the ws transport has its path and headers.
MakesClient == owner = "making" /\ parts = {"base", "ws"} /\ Makes("client")

MakesEvents == owner = "making" /\ parts = Parts \ {"events"} /\ Makes("events")

\* The events are registered and the client's task started: the pieces are the
\* WebSocketTransport's now.
StartsClient ==
    /\ owner = "making"
    /\ parts = Parts
    /\ owner' = "using"
    /\ task' = "idle" /\ then' = "idle"
    /\ UNCHANGED <<parts, contextVars, offered, stopping, found, socket, sessionVars,
                   worldVars, holder, shut, connects, failed>>

\* As MakingFails, with nobody left to release what was made.
MakingFails_Mut ==
    /\ owner = "making"
    /\ parts # Parts \ {"events"}
    /\ owner' = "gone"
    /\ UNCHANGED <<parts, task, then, contextVars, offered, stopping, found, socket,
                   sessionVars, worldVars, holder, shut, connects, failed>>

\* Any call of it but the box for the events fails, and Partial is dropped: a
\* client it has is destroyed, which has no task.
MakingFails ==
    /\ owner = "making"
    /\ parts # Parts \ {"events"}
    /\ parts' = parts \ {"client"}
    /\ owner' = "free ws"
    /\ UNCHANGED <<task, then, contextVars, offered, stopping, found, socket,
                   sessionVars, worldVars, holder, shut, connects, failed>>

----------------------------------------------------------------------------
(* The thread that owns the client: Drop for WebSocketTransport.           *)

\* The agent has done with it, or connect has waited long enough for it.
StopFlags ==
    /\ owner = "using"
    /\ stopping' = TRUE
    /\ owner' = "lock"
    /\ UNCHANGED <<task, then, contextVars, offered, found, parts, socket, sessionVars,
                   worldVars, holder, shut, connects, failed>>

StopLocks ==
    /\ owner = "lock"
    /\ found' = socket
    /\ owner' = "shutdown"
    /\ UNCHANGED <<task, then, contextVars, offered, stopping, parts, socket, sessionVars,
                   worldVars, holder, shut, connects, failed>>

\* lwip_shutdown of what it found, with the mutex held.
StopShutsDown ==
    /\ owner = "shutdown"
    /\ shut' = shut \cup found
    /\ found' = {}
    /\ owner' = "destroy"
    /\ UNCHANGED <<task, then, contextVars, offered, stopping, parts, socket, sessionVars,
                   worldVars, holder, connects, failed>>

\* esp_websocket_client_destroy tells the task to end, and waits for it.
DestroysClient ==
    /\ owner = "destroy"
    /\ owner' = "waiting"
    /\ UNCHANGED <<task, then, contextVars, offered, stopping, found, parts, socket,
                   sessionVars, worldVars, holder, shut, connects, failed>>

\* It has seen the task end.
Destroyed ==
    /\ owner = "waiting"
    /\ task = "ended"
    /\ parts' = parts \ {"client"}
    /\ owner' = "free ws"
    /\ UNCHANGED <<task, then, contextVars, offered, stopping, found, socket,
                   sessionVars, worldVars, holder, shut, connects, failed>>

\* The rest goes in an order both Drops share, as far as it was made.
Frees(part, next) ==
    /\ parts' = parts \ {part}
    /\ owner' = next
    /\ UNCHANGED <<task, then, offered, stopping, found, socket, sessionVars,
                   worldVars, connects, failed>>

FreesWs ==
    /\ owner = "free ws"
    /\ Frees("ws", "free base")
    /\ UNCHANGED <<contextVars, holder, shut>>

\* destroy, of tls.rs: the context closes what it may still have.
FreesBase ==
    /\ owner = "free base"
    /\ Frees("base", "free events")
    /\ ConnectionGoes

FreesEvents ==
    /\ owner = "free events"
    /\ Frees("events", "gone")
    /\ UNCHANGED <<contextVars, holder, shut>>

\* For another connection.
NewTransport ==
    /\ owner = "gone"
    /\ owner' = "making"
    /\ task' = "none" /\ then' = "none"
    /\ stopping' = FALSE
    /\ UNCHANGED <<parts, found, socket, contextVars, offered>>  \* as close left them

\* The agent connects again, with the same Config and so the same slot.
Again ==
    /\ NewTransport
    /\ UNCHANGED << sessionVars, worldVars, holder, shut,
                   connects, failed>>

----------------------------------------------------------------------------
(* The rest of the world.                                                  *)

\* A deep sleep between connections, as the documentation has the application
\* do it: what is saved goes to RTC memory, and is restored from there.
SleepAndWake ==
    /\ Sleeps
    /\ NewTransport
    /\ rtc' = IF saved # {} THEN saved ELSE rtc
    /\ saved' = rtc'
    /\ last' = "None"
    /\ failed' = {} /\ failedBefore' = failedBefore \cup failed
    /\ UNCHANGED <<poisoned, holder, shut, connects>>

\* Another connection of the program, an HTTP download say, comes and goes.
OtherOpens ==
    \E fd \in Fds :
        /\ holder[fd] = "free"
        /\ holder' = [holder EXCEPT ![fd] = "other"]
        /\ UNCHANGED <<task, then, contextVars, offered, stopVars, socket,
                       sessionVars, worldVars, shut, connects, failed>>

OtherCloses ==
    \E fd \in Fds :
        /\ holder[fd] = "other"
        /\ holder' = [holder EXCEPT ![fd] = "free"]
        /\ shut' = shut \ {fd}
        /\ UNCHANGED <<task, then, contextVars, offered, stopVars, socket,
                       sessionVars, worldVars, connects, failed>>

\* The server's certificate changes: what was saved no longer works.
Poison ==
    /\ saved # {}
    /\ poisoned' = poisoned \cup saved
    /\ UNCHANGED <<task, then, contextVars, offered, stopVars, socket, sessionVars,
                   rtc, failedBefore, holder, shut, connects, failed>>

----------------------------------------------------------------------------

TaskConnects ==
    \/ Connect \/ GiveUp \/ Close \/ CheckStopping
    \/ HandshakeFails \/ HandshakeLost \/ HandshakeDone
    \/ Publish \/ Record

TaskReads == Poll \/ SelectReturns \/ PollBuffered \/ Read \/ TaskEnds

OwnerMakes ==
    \/ MakesBase \/ MakesWs \/ MakesClient \/ MakesEvents
    \/ StartsClient \/ MakingFails

OwnerDrops ==
    \/ StopFlags \/ StopLocks \/ StopShutsDown \/ DestroysClient \/ Destroyed
    \/ FreesWs \/ FreesBase \/ FreesEvents

World == Again \/ SleepAndWake \/ OtherOpens \/ OtherCloses \/ Poison

Next == TaskConnects \/ TaskReads \/ OwnerMakes \/ OwnerDrops \/ World

Spec == Init /\ [][Next]_vars

\* The task and the thread are scheduled, and a handshake ends, within its
\* timeout.  Nothing is assumed of select but that it returns from a socket
\* that was shut down.
FairSpec ==
    /\ Spec
    /\ WF_vars(GiveUp \/ Close \/ CheckStopping \/ Publish \/ Record \/ Read)
    /\ WF_vars(HandshakeFails \/ HandshakeLost \/ HandshakeDone)
    /\ WF_vars(SelectWoken)
    /\ WF_vars(TaskEnds)
    /\ WF_vars(StopLocks \/ StopShutsDown \/ DestroysClient \/ Destroyed
                  \/ FreesWs \/ FreesBase \/ FreesEvents)

----------------------------------------------------------------------------
(* Properties.                                                             *)

\* Stopping a transport never shuts down somebody else's connection, although
\* lwIP hands a closed socket's number to the next one that asks.
OthersUntouched == \A fd \in Fds : holder[fd] = "other" => fd \notin shut

\* Dropping the websocket ends, without waiting for the server to say something
\* or for a poll's time to be up: whatever the client's task was doing when it
\* was stopped, it is not left in a select that nothing wakes.
DropEnds == owner = "lock" ~> owner = "gone"

\* However far putting a transport together gets and whenever it is dropped,
\* nothing goes that something over it still uses, the client's task above all,
\* and in the end everything is given back, the socket too: a device that fails
\* to connect for weeks loses no memory by it (Partial, its Drop and the
\* transport's).
NothingLostOrDangling ==
    /\ "client" \in parts => "ws" \in parts
    /\ "ws" \in parts => "base" \in parts
    /\ task \notin {"none", "ended"} => parts = Parts
    /\ owner = "gone" => parts = {} /\ \A fd \in Fds : holder[fd] # "ours"

\* A session that was offered in a handshake that failed is not offered again
\* in that boot, whatever connections and drops come in between.
NotOfferedAgain == task = "handshake" => offered \cap failed = {}

\* A TLS 1.2 connection's session is exported once, which is all mbedTLS
\* allows, whatever the connections before it left to be done.
ExportedOnce == protocol = "TLSv1.2" => exported <= 1

\* "the next attempt starts clean" (tls.rs:234): nor is it offered after a sleep.
StartsClean == task = "handshake" => offered \cap (failed \cup failedBefore) = {}

============================================================================
