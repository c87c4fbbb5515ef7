----------------------------- MODULE TlsProofs -----------------------------
(***************************************************************************)
(* Theorems about Tls: for any sockets, protocols and number of connects,  *)
(* a stop reaches no other connection, nothing a transport is made of is   *)
(* lost or freed too early, a session that failed is not offered again and *)
(* a TLS 1.2 session is exported once.                                     *)
(***************************************************************************)
EXTENDS Tls, TLAPS

TaskPlaces == {"none", "idle", "close", "destroy", "check", "handshake",
               "publish", "record", "select", "read", "ended"}

\* Where the thread is while the client's task exists.
WithTask == {"using", "lock", "shutdown", "destroy", "waiting"}

\* Nothing of a connection is left.
NoConnection ==
    /\ sockfd = {} /\ socket = {} /\ ticket_due = {}
    /\ protocol = "none" /\ exported = 0

TlsTypeOK ==
    /\ parts \subseteq Parts
    /\ task \in TaskPlaces
    /\ then \in {"none", "idle", "check", "ended"}
    /\ owner \in WithTask \cup {"making", "free ws", "free base", "free events", "gone"}
    /\ sockfd \subseteq Fds /\ socket \subseteq Fds /\ found \subseteq Fds
    /\ holder \in [Fds -> {"free", "ours", "other"}]
    /\ shut \subseteq Fds
    /\ saved \subseteq Nat /\ offered \subseteq Nat /\ failed \subseteq Nat
    /\ rtc \subseteq Nat
    /\ connects \in Nat /\ exported \in Nat

\* What is published, and what the stopper has found, is the connection's own
\* socket, and only that can have been shut down.
SocketInv ==
    /\ \A fd \in Fds : fd \in sockfd <=> holder[fd] = "ours"
    /\ socket \subseteq sockfd
    /\ found \subseteq socket
    /\ ~Locked => found = {}
    /\ shut \subseteq sockfd

\* Where the thread is tells what there is of the transport, and of the task.
PartsInv ==
    /\ owner \in WithTask => parts = Parts /\ task # "none"
    /\ owner \notin WithTask => task \in {"none", "ended"}
    /\ task = "ended" => owner \notin {"making", "using", "lock", "shutdown", "destroy"}
    /\ then = "ended" /\ task \in {"close", "destroy"} => owner = "waiting"
    /\ "client" \in parts => "ws" \in parts
    /\ "ws" \in parts => "base" \in parts
    /\ owner = "free ws" => "client" \notin parts
    /\ owner = "free base" => parts \subseteq {"base", "events"}
    /\ owner = "free events" => parts \subseteq {"events"}
    /\ owner = "gone" => parts = {}

\* Where the task is tells what there is of the connection.
ConnectionInv ==
    /\ task \in {"none", "check", "handshake", "ended"} => NoConnection
    /\ task \in {"destroy", "publish"} => socket = {}
    /\ task \in {"close", "destroy"} => then # "none"
    /\ task \in {"publish", "record"} => exported = 0 /\ ticket_due = {}
    /\ protocol = "TLSv1.2" => ticket_due = {} /\ exported <= 1

\* A session is named for the connect it is from, and one that failed was
\* offered by a later connect, so that no session saved since is the same.
SessionInv ==
    /\ \A s \in saved \cup rtc : s <= connects
    /\ task \in {"close", "destroy"} /\ then = "check" =>
          \A s \in saved : s < connects
    /\ task \in {"check", "handshake"} => \A s \in saved : s < connects
    /\ task \in {"handshake", "publish", "record"} => offered = saved
    /\ \A s \in failed : s < connects
    /\ saved \cap failed = {}

TlsInv == TlsTypeOK /\ SocketInv /\ PartsInv /\ ConnectionInv /\ SessionInv

\* No transport yet (Init).
LEMMA TlsInit == Init => TlsInv
  BY TlsAssumption
     DEF Init, TlsInv, TlsTypeOK, TaskPlaces, WithTask, Parts, SocketInv, Locked,
         PartsInv, ConnectionInv, NoConnection, SessionInv

\* Every variable keeps its type.
LEMMA TypeStep ==
    ASSUME TlsInv, [Next]_vars
    PROVE  TlsTypeOK'
<1> USE TlsAssumption
<1>1. CASE TaskConnects
  <2>1. CASE Connect
    <3>1. connects \in Nat /\ exported \in Nat
      BY DEF TlsInv, TlsTypeOK
    <3>2. connects' \in Nat /\ exported' \in Nat
      BY <2>1, <3>1 DEF Connect, contextVars
    <3>3. saved' \subseteq Nat /\ offered' \subseteq Nat /\ rtc' \subseteq Nat
      BY <2>1, <3>1 DEF Connect, contextVars, sessionVars, worldVars, TlsInv, TlsTypeOK
    <3> QED
      BY <2>1, <3>2, <3>3 DEF Connect, contextVars, stopVars, TlsInv, TlsTypeOK, TaskPlaces
  <2>2. CASE Close
    BY <2>2 DEF Close, ConnectionGoes, contextVars, stopVars, sessionVars, worldVars,
        TlsInv, TlsTypeOK, TaskPlaces, WithTask, Parts
  <2>3. CASE HandshakeDone
    BY <2>3 DEF HandshakeDone, contextVars, stopVars, sessionVars, worldVars, TlsInv,
        TlsTypeOK, TaskPlaces, WithTask, Parts
  <2>4. CASE Record
    <3>1. connects \in Nat /\ exported \in Nat
      BY DEF TlsInv, TlsTypeOK
    <3>2. connects' \in Nat /\ exported' \in Nat
      BY <2>4, <3>1 DEF Record, RecordTls13, SaveTls12, Handshakes, contextVars
    <3>3. saved' \subseteq Nat /\ offered' \subseteq Nat /\ rtc' \subseteq Nat
      BY <2>4, <3>1 DEF Record, RecordTls13, SaveTls12, Handshakes, contextVars,
                         sessionVars, worldVars, TlsInv, TlsTypeOK
    <3> QED
      BY <2>4, <3>2, <3>3 DEF Record, RecordTls13, SaveTls12, Handshakes, contextVars,
                               stopVars, TlsInv, TlsTypeOK, TaskPlaces
  <2>5. CASE GiveUp \/ CheckStopping \/ HandshakeFails \/ HandshakeLost \/ Publish
    BY <2>5 DEF GiveUp, CheckStopping, HandshakeFails, HandshakeLost, Publish,
        contextVars, stopVars, sessionVars, worldVars, TlsInv, TlsTypeOK, TaskPlaces,
        WithTask, Parts
  <2> QED
    BY <1>1, <2>1, <2>2, <2>3, <2>4, <2>5 DEF TaskConnects
<1>2. CASE TaskReads
  <2>1. CASE Read
    <3>1. connects \in Nat /\ exported \in Nat
      BY DEF TlsInv, TlsTypeOK
    <3>2. connects' \in Nat /\ exported' \in Nat
      BY <2>1, <3>1 DEF Read, contextVars
    <3>3. saved' \subseteq Nat /\ offered' \subseteq Nat /\ rtc' \subseteq Nat
      BY <2>1, <3>1 DEF Read, contextVars, sessionVars, worldVars, TlsInv, TlsTypeOK
    <3> QED
      BY <2>1, <3>2, <3>3 DEF Read, contextVars, stopVars, TlsInv, TlsTypeOK, TaskPlaces
  <2>2. CASE Poll \/ SelectReturns \/ PollBuffered \/ TaskEnds
    BY <2>2 DEF Poll, SelectReturns, PollBuffered, TaskEnds, contextVars, stopVars,
        sessionVars, worldVars, TlsInv, TlsTypeOK, TaskPlaces, WithTask, Parts
  <2> QED
    BY <1>2, <2>1, <2>2 DEF TaskReads
<1>3. CASE OwnerMakes
  BY <1>3 DEF OwnerMakes, MakesBase, MakesWs, MakesClient, MakesEvents, StartsClient,
      MakingFails, Makes, contextVars, stopVars, sessionVars, worldVars, TlsInv,
      TlsTypeOK, TaskPlaces, WithTask, Parts
<1>4. CASE OwnerDrops
  <2>1. CASE FreesBase
    BY <2>1 DEF FreesBase, ConnectionGoes, Frees, contextVars, stopVars, sessionVars,
        worldVars, TlsInv, TlsTypeOK, TaskPlaces, WithTask, Parts
  <2>2. CASE StopFlags \/ StopLocks \/ StopShutsDown \/ DestroysClient \/ Destroyed
          \/ FreesWs \/ FreesEvents
    BY <2>2 DEF StopFlags, StopLocks, StopShutsDown, DestroysClient, Destroyed, FreesWs,
        FreesEvents, Frees, contextVars, stopVars, sessionVars, worldVars, TlsInv,
        TlsTypeOK, TaskPlaces, WithTask, Parts
  <2> QED
    BY <1>4, <2>1, <2>2 DEF OwnerDrops
<1>5. CASE World
  <2>1. CASE SleepAndWake
    BY <2>1 DEF SleepAndWake, NewTransport, contextVars, stopVars, sessionVars,
        worldVars, TlsInv, TlsTypeOK, TaskPlaces, WithTask, Parts
  <2>2. CASE OtherOpens
    BY <2>2 DEF OtherOpens, contextVars, stopVars, sessionVars, worldVars, TlsInv,
        TlsTypeOK, TaskPlaces, WithTask, Parts
  <2>3. CASE OtherCloses
    BY <2>3 DEF OtherCloses, contextVars, stopVars, sessionVars, worldVars, TlsInv,
        TlsTypeOK, TaskPlaces, WithTask, Parts
  <2>4. CASE Again \/ Poison
    BY <2>4 DEF Again, Poison, NewTransport, contextVars, stopVars, sessionVars,
        worldVars, TlsInv, TlsTypeOK, TaskPlaces, WithTask, Parts
  <2> QED
    BY <1>5, <2>1, <2>2, <2>3, <2>4 DEF World
<1>6. CASE UNCHANGED vars
  BY <1>6 DEF vars, contextVars, stopVars, sessionVars, worldVars, TlsInv, TlsTypeOK,
      TaskPlaces, WithTask, Parts
<1> QED
  BY <1>1, <1>2, <1>3, <1>4, <1>5, <1>6 DEF Next

\* A socket is published only while it is open: the task gives it up under the
\* mutex before it closes it, and the stopper shuts it down under the same one.
LEMMA SocketStep ==
    ASSUME TlsInv, [Next]_vars
    PROVE  SocketInv'
<1>1. CASE TaskConnects
  <2>1. CASE GiveUp
    BY <2>1 DEF GiveUp, contextVars, stopVars, sessionVars, worldVars, TlsInv,
        TlsTypeOK, SocketInv, Locked, ConnectionInv, NoConnection
  <2>2. CASE Close
    BY <2>2 DEF Close, ConnectionGoes, contextVars, stopVars, sessionVars, worldVars,
        TlsInv, TlsTypeOK, SocketInv, Locked, ConnectionInv, NoConnection
  <2>3. CASE HandshakeDone
    BY <2>3 DEF HandshakeDone, contextVars, stopVars, sessionVars, worldVars, TlsInv,
        TlsTypeOK, SocketInv, Locked, ConnectionInv, NoConnection
  <2>4. CASE Publish
    BY <2>4 DEF Publish, contextVars, stopVars, sessionVars, worldVars, TlsInv,
        TlsTypeOK, SocketInv, Locked, ConnectionInv, NoConnection
  <2>5. CASE Connect \/ CheckStopping \/ HandshakeFails \/ HandshakeLost \/ Record
    BY <2>5 DEF Connect, CheckStopping, HandshakeFails, HandshakeLost, Record,
        Handshakes, RecordTls13, SaveTls12, contextVars, stopVars, sessionVars,
        worldVars, TlsInv, TlsTypeOK, SocketInv, Locked, ConnectionInv, NoConnection
  <2> QED
    BY <1>1, <2>1, <2>2, <2>3, <2>4, <2>5 DEF TaskConnects
<1>2. CASE TaskReads
  BY <1>2 DEF TaskReads, Poll, SelectReturns, PollBuffered, Read, TaskEnds, contextVars,
      stopVars, sessionVars, worldVars, TlsInv, TlsTypeOK, SocketInv, Locked,
      ConnectionInv, NoConnection
<1>3. CASE OwnerMakes
  BY <1>3 DEF OwnerMakes, MakesBase, MakesWs, MakesClient, MakesEvents, StartsClient,
      MakingFails, Makes, contextVars, stopVars, sessionVars, worldVars, TlsInv,
      TlsTypeOK, SocketInv, Locked, ConnectionInv, NoConnection
<1>4. CASE OwnerDrops
  <2>1. CASE StopLocks
    BY <2>1 DEF StopLocks, contextVars, stopVars, sessionVars, worldVars, TlsInv,
        TlsTypeOK, SocketInv, Locked, ConnectionInv, NoConnection
  <2>2. CASE StopShutsDown
    BY <2>2 DEF StopShutsDown, contextVars, stopVars, sessionVars, worldVars, TlsInv,
        TlsTypeOK, SocketInv, Locked, ConnectionInv, NoConnection
  <2>3. CASE FreesBase
    <3>1. /\ sockfd = {} /\ socket = {} /\ found = {} /\ shut = {}
          /\ sockfd' = {} /\ UNCHANGED <<socket, found>>
      BY <2>3 DEF FreesBase, Frees, ConnectionGoes, TlsInv, TlsTypeOK,
                   SocketInv, Locked, PartsInv, WithTask, ConnectionInv, NoConnection
    <3>2. holder' = [fd \in Fds |-> holder[fd]] /\ shut' = {}
      BY <2>3, <3>1 DEF FreesBase, ConnectionGoes
    <3> QED
      BY <3>1, <3>2 DEF TlsInv, SocketInv
  <2>4. CASE StopFlags \/ DestroysClient \/ Destroyed \/ FreesWs \/ FreesEvents
    BY <2>4 DEF StopFlags, DestroysClient, Destroyed, FreesWs, FreesEvents, Frees,
        contextVars, stopVars, sessionVars, worldVars, TlsInv, TlsTypeOK, SocketInv,
        Locked, ConnectionInv, NoConnection
  <2> QED
    BY <1>4, <2>1, <2>2, <2>3, <2>4 DEF OwnerDrops
<1>5. CASE World
  <2>1. CASE Again
    BY <2>1 DEF Again, NewTransport, contextVars, stopVars, sessionVars, worldVars,
        TlsInv, TlsTypeOK, SocketInv, Locked, ConnectionInv, NoConnection
  <2>2. CASE SleepAndWake
    BY <2>2 DEF SleepAndWake, NewTransport, contextVars, stopVars, sessionVars,
        worldVars, TlsInv, TlsTypeOK, SocketInv, Locked, ConnectionInv, NoConnection
  <2>3. CASE OtherOpens
    BY <2>3 DEF OtherOpens, contextVars, stopVars, sessionVars, worldVars, TlsInv,
        TlsTypeOK, SocketInv, Locked, ConnectionInv, NoConnection
  <2>4. CASE OtherCloses
    BY <2>4 DEF OtherCloses, contextVars, stopVars, sessionVars, worldVars, TlsInv,
        TlsTypeOK, SocketInv, Locked, ConnectionInv, NoConnection
  <2>5. CASE Poison
    BY <2>5 DEF Poison, contextVars, stopVars, sessionVars, worldVars, TlsInv,
        TlsTypeOK, SocketInv, Locked, ConnectionInv, NoConnection
  <2> QED
    BY <1>5, <2>1, <2>2, <2>3, <2>4, <2>5 DEF World
<1>6. CASE UNCHANGED vars
  BY <1>6 DEF vars, contextVars, stopVars, sessionVars, worldVars, TlsInv, TlsTypeOK,
      SocketInv, Locked, ConnectionInv, NoConnection
<1> QED
  BY <1>1, <1>2, <1>3, <1>4, <1>5, <1>6 DEF Next

\* The thread takes apart what it put together in the other order, and not before
\* the client's task has ended.
LEMMA PartsStep ==
    ASSUME TlsInv, [Next]_vars
    PROVE  PartsInv'
<1>1. CASE TaskConnects
  <2>1. CASE Close
    <3>1. /\ task = "destroy" /\ task' = then
          /\ then # "none"
          /\ UNCHANGED <<then, owner, parts>>
      BY <2>1 DEF Close, ConnectionGoes, stopVars, TlsInv, ConnectionInv
    <3> QED
      BY <3>1 DEF TlsInv, TlsTypeOK, PartsInv, WithTask
  <2>2. CASE Connect \/ GiveUp \/ CheckStopping \/ HandshakeFails \/ HandshakeLost
          \/ HandshakeDone \/ Publish \/ Record
    BY <2>2 DEF Connect, GiveUp, CheckStopping, HandshakeFails, HandshakeLost,
        HandshakeDone, Publish, Record, Handshakes, RecordTls13, SaveTls12, contextVars,
        stopVars, sessionVars, worldVars, TlsInv, TlsTypeOK, PartsInv, WithTask, Parts
  <2> QED
    BY <1>1, <2>1, <2>2 DEF TaskConnects
<1>2. CASE TaskReads
  <2>1. CASE TaskEnds
    BY <2>1 DEF TaskEnds, contextVars, stopVars, sessionVars, worldVars, TlsInv,
        TlsTypeOK, PartsInv, WithTask, Parts
  <2>2. CASE Poll \/ SelectReturns \/ PollBuffered \/ Read
    BY <2>2 DEF Poll, SelectReturns, PollBuffered, Read, contextVars, stopVars,
        sessionVars, worldVars, TlsInv, TlsTypeOK, PartsInv, WithTask, Parts
  <2> QED
    BY <1>2, <2>1, <2>2 DEF TaskReads
<1>3. CASE OwnerMakes
  <2>1. CASE MakesBase
    BY <2>1 DEF MakesBase, Makes, contextVars, stopVars, sessionVars, worldVars, TlsInv,
        TlsTypeOK, PartsInv, WithTask, Parts
  <2>2. CASE MakesWs
    BY <2>2 DEF MakesWs, Makes, contextVars, stopVars, sessionVars, worldVars, TlsInv,
        TlsTypeOK, PartsInv, WithTask, Parts
  <2>3. CASE MakesClient
    BY <2>3 DEF MakesClient, Makes, contextVars, stopVars, sessionVars, worldVars,
        TlsInv, TlsTypeOK, PartsInv, WithTask, Parts
  <2>4. CASE MakesEvents
    BY <2>4 DEF MakesEvents, Makes, contextVars, stopVars, sessionVars, worldVars,
        TlsInv, TlsTypeOK, PartsInv, WithTask, Parts
  <2>5. CASE StartsClient
    BY <2>5 DEF StartsClient, contextVars, stopVars, sessionVars, worldVars, TlsInv,
        TlsTypeOK, PartsInv, WithTask, Parts
  <2>6. CASE MakingFails
    BY <2>6 DEF MakingFails, contextVars, stopVars, sessionVars, worldVars, TlsInv,
        TlsTypeOK, PartsInv, WithTask, Parts
  <2> QED
    BY <1>3, <2>1, <2>2, <2>3, <2>4, <2>5, <2>6 DEF OwnerMakes
<1>4. CASE OwnerDrops
  <2>1. CASE DestroysClient
    BY <2>1 DEF DestroysClient, contextVars, stopVars, sessionVars, worldVars, TlsInv,
        TlsTypeOK, PartsInv, WithTask, Parts
  <2>2. CASE Destroyed
    BY <2>2 DEF Destroyed, contextVars, stopVars, sessionVars, worldVars, TlsInv,
        TlsTypeOK, PartsInv, WithTask, Parts
  <2>3. CASE FreesWs
    BY <2>3 DEF FreesWs, Frees, contextVars, stopVars, sessionVars, worldVars, TlsInv,
        TlsTypeOK, PartsInv, WithTask, Parts
  <2>4. CASE FreesBase
    BY <2>4 DEF FreesBase, ConnectionGoes, Frees, contextVars, stopVars, sessionVars,
        worldVars, TlsInv, TlsTypeOK, PartsInv, WithTask, Parts
  <2>5. CASE FreesEvents
    BY <2>5 DEF FreesEvents, Frees, contextVars, stopVars, sessionVars, worldVars,
        TlsInv, TlsTypeOK, PartsInv, WithTask, Parts
  <2>6. CASE StopFlags \/ StopLocks \/ StopShutsDown
    BY <2>6 DEF StopFlags, StopLocks, StopShutsDown, contextVars, stopVars, sessionVars,
        worldVars, TlsInv, TlsTypeOK, PartsInv, WithTask, Parts
  <2> QED
    BY <1>4, <2>1, <2>2, <2>3, <2>4, <2>5, <2>6 DEF OwnerDrops
<1>5. CASE World
  BY <1>5 DEF World, Again, SleepAndWake, OtherOpens, OtherCloses, Poison, NewTransport,
      contextVars, stopVars, sessionVars, worldVars, TlsInv, TlsTypeOK, PartsInv,
      WithTask, Parts
<1>6. CASE UNCHANGED vars
  BY <1>6 DEF vars, contextVars, stopVars, sessionVars, worldVars, TlsInv, TlsTypeOK,
      PartsInv, WithTask, Parts
<1> QED
  BY <1>1, <1>2, <1>3, <1>4, <1>5, <1>6 DEF Next

\* A handshake starts with nothing of the connection before it: its socket, what
\* was published of it, the ticket it waited for.
LEMMA ConnectionStep ==
    ASSUME TlsInv, [Next]_vars
    PROVE  ConnectionInv'
<1>1. CASE TaskConnects
  <2>1. CASE GiveUp
    BY <2>1 DEF GiveUp, contextVars, stopVars, sessionVars, worldVars, TlsInv,
        TlsTypeOK, ConnectionInv, NoConnection, PartsInv, SocketInv, WithTask
  <2>2. CASE Close
    BY <2>2 DEF Close, ConnectionGoes, contextVars, stopVars, sessionVars, worldVars,
        TlsInv, TlsTypeOK, ConnectionInv, NoConnection, PartsInv, SocketInv, WithTask
  <2>3. CASE HandshakeDone
    <3>1. /\ exported = 0 /\ ticket_due = {} /\ socket = {} /\ task' = "publish"
          /\ UNCHANGED <<exported, ticket_due, socket>>
      BY <2>3 DEF HandshakeDone, TlsInv, ConnectionInv, NoConnection
    <3> QED
      BY <3>1 DEF ConnectionInv
  <2>4. CASE Publish
    BY <2>4 DEF Publish, contextVars, stopVars, sessionVars, worldVars, TlsInv,
        TlsTypeOK, ConnectionInv, NoConnection, PartsInv, SocketInv, WithTask
  <2>5. CASE Record
    <3>1. /\ exported = 0 /\ ticket_due = {} /\ task' = "idle"
          /\ UNCHANGED protocol
      BY <2>5 DEF Record, TlsInv, ConnectionInv
    <3>2. CASE protocol = "TLSv1.2"
      BY <3>1, <3>2, <2>5 DEF Record, RecordTls13, SaveTls12, ConnectionInv
    <3>3. CASE protocol # "TLSv1.2"
      BY <3>1, <3>3 DEF ConnectionInv
    <3> QED
      BY <3>2, <3>3
  <2>6. CASE Connect \/ CheckStopping \/ HandshakeFails \/ HandshakeLost
    BY <2>6 DEF Connect, CheckStopping, HandshakeFails, HandshakeLost, contextVars,
        stopVars, sessionVars, worldVars, TlsInv, TlsTypeOK, ConnectionInv,
        NoConnection, PartsInv, SocketInv, WithTask
  <2> QED
    BY <1>1, <2>1, <2>2, <2>3, <2>4, <2>5, <2>6 DEF TaskConnects
<1>2. CASE TaskReads
  <2>1. CASE Read
    BY <2>1 DEF Read, contextVars, stopVars, sessionVars, worldVars, TlsInv, TlsTypeOK,
        ConnectionInv, NoConnection, PartsInv, SocketInv, WithTask
  <2>2. CASE Poll \/ SelectReturns \/ PollBuffered \/ TaskEnds
    BY <2>2 DEF Poll, SelectReturns, PollBuffered, TaskEnds, contextVars, stopVars,
        sessionVars, worldVars, TlsInv, TlsTypeOK, ConnectionInv, NoConnection,
        PartsInv, SocketInv, WithTask
  <2> QED
    BY <1>2, <2>1, <2>2 DEF TaskReads
<1>3. CASE OwnerMakes
  <2>1. CASE StartsClient
    BY <2>1 DEF StartsClient, contextVars, stopVars, sessionVars, worldVars, TlsInv,
        TlsTypeOK, ConnectionInv, NoConnection, PartsInv, SocketInv, WithTask
  <2>2. CASE MakesBase \/ MakesWs \/ MakesClient \/ MakesEvents \/ MakingFails
    BY <2>2 DEF MakesBase, MakesWs, MakesClient, MakesEvents, MakingFails, Makes,
        contextVars, stopVars, sessionVars, worldVars, TlsInv, TlsTypeOK, ConnectionInv,
        NoConnection, PartsInv, SocketInv, WithTask
  <2> QED
    BY <1>3, <2>1, <2>2 DEF OwnerMakes
<1>4. CASE OwnerDrops
  <2>1. CASE FreesBase
    BY <2>1 DEF FreesBase, ConnectionGoes, Frees, contextVars, stopVars, sessionVars,
        worldVars, TlsInv, TlsTypeOK, ConnectionInv, NoConnection, PartsInv, SocketInv,
        WithTask
  <2>2. CASE StopFlags \/ StopLocks \/ StopShutsDown \/ DestroysClient \/ Destroyed
          \/ FreesWs \/ FreesEvents
    BY <2>2 DEF StopFlags, StopLocks, StopShutsDown, DestroysClient, Destroyed, FreesWs,
        FreesEvents, Frees, contextVars, stopVars, sessionVars, worldVars, TlsInv,
        TlsTypeOK, ConnectionInv, NoConnection, PartsInv, SocketInv, WithTask
  <2> QED
    BY <1>4, <2>1, <2>2 DEF OwnerDrops
<1>5. CASE World
  <2>1. CASE Again
    BY <2>1 DEF Again, NewTransport, contextVars, stopVars, sessionVars, worldVars,
        TlsInv, TlsTypeOK, ConnectionInv, NoConnection, PartsInv, SocketInv, WithTask
  <2>2. CASE SleepAndWake
    BY <2>2 DEF SleepAndWake, NewTransport, contextVars, stopVars, sessionVars,
        worldVars, TlsInv, TlsTypeOK, ConnectionInv, NoConnection, PartsInv, SocketInv,
        WithTask
  <2>3. CASE OtherOpens \/ OtherCloses \/ Poison
    BY <2>3 DEF OtherOpens, OtherCloses, Poison, contextVars, stopVars, sessionVars,
        worldVars, TlsInv, TlsTypeOK, ConnectionInv, NoConnection, PartsInv, SocketInv,
        WithTask
  <2> QED
    BY <1>5, <2>1, <2>2, <2>3 DEF World
<1>6. CASE UNCHANGED vars
  BY <1>6 DEF vars, contextVars, stopVars, sessionVars, worldVars, TlsInv, TlsTypeOK,
      ConnectionInv, NoConnection, PartsInv, SocketInv, WithTask
<1> QED
  BY <1>1, <1>2, <1>3, <1>4, <1>5, <1>6 DEF Next

\* A session is forgotten when a handshake that offered it fails, and what is
\* saved from then on is from a later connection.
LEMMA SessionStep ==
    ASSUME TlsInv, [Next]_vars
    PROVE  SessionInv'
<1>1. CASE TaskConnects
  <2>1. CASE Connect
    <3>1. /\ connects' = connects + 1 /\ connects \in Nat
          /\ task = "idle" /\ task' = "close"
          /\ UNCHANGED <<saved, rtc, offered, failed>>
          /\ saved \subseteq Nat /\ rtc \subseteq Nat /\ failed \subseteq Nat
      BY <2>1 DEF Connect, sessionVars, worldVars, TlsInv, TlsTypeOK
    <3>2. /\ \A s \in saved \cup rtc : s < connects'
          /\ \A s \in failed : s < connects'
      BY <3>1 DEF TlsInv, SessionInv
    <3>3. \A s \in saved \cup rtc : s <= connects'
      BY <3>1, <3>2
    <3> QED
      BY <3>1, <3>2, <3>3 DEF TlsInv, SessionInv
  <2>2. CASE Close
    BY <2>2 DEF Close, ConnectionGoes, contextVars, stopVars, sessionVars, worldVars,
        TlsInv, TlsTypeOK, SessionInv, ConnectionInv, PartsInv, WithTask
  <2>3. CASE CheckStopping
    BY <2>3 DEF CheckStopping, contextVars, stopVars, sessionVars, worldVars, TlsInv,
        TlsTypeOK, SessionInv, ConnectionInv, PartsInv, WithTask
  <2>4. CASE HandshakeFails
    BY <2>4 DEF HandshakeFails, contextVars, stopVars, sessionVars, worldVars, TlsInv,
        TlsTypeOK, SessionInv, ConnectionInv, PartsInv, WithTask
  <2>5. CASE HandshakeDone
    BY <2>5 DEF HandshakeDone, contextVars, stopVars, sessionVars, worldVars, TlsInv,
        TlsTypeOK, SessionInv, ConnectionInv, PartsInv, WithTask
  <2>6. CASE Record
    <3>1. /\ saved' \in {saved, offered, {connects}}
          /\ task' \in {"idle"}
          /\ UNCHANGED <<rtc, connects, failed>>
      BY <2>6 DEF Record, RecordTls13, SaveTls12, sessionVars, worldVars
    <3>2. connects \in Nat /\ connects <= connects /\ connects \notin failed
      <4>1. connects \in Nat /\ \A s \in failed : s < connects
        BY DEF TlsInv, TlsTypeOK, SessionInv
      <4> QED
        BY <4>1
    <3>3. offered = saved
      BY <2>6 DEF Record, TlsInv, SessionInv
    <3> QED
      BY <3>1, <3>2, <3>3 DEF TlsInv, SessionInv
  <2>7. CASE GiveUp \/ HandshakeLost \/ Publish
    BY <2>7 DEF GiveUp, HandshakeLost, Publish, contextVars, stopVars, sessionVars,
        worldVars, TlsInv, TlsTypeOK, SessionInv, ConnectionInv, PartsInv, WithTask
  <2> QED
    BY <1>1, <2>1, <2>2, <2>3, <2>4, <2>5, <2>6, <2>7 DEF TaskConnects
<1>2. CASE TaskReads
  <2>1. CASE Read
    <3>1. /\ saved' \in {saved, {connects}}
          /\ task' \in {"idle", "close"}
          /\ task' = "close" => then' = "idle"
          /\ UNCHANGED <<rtc, connects, failed>>
      BY <2>1 DEF Read, sessionVars, worldVars
    <3>2. connects \in Nat /\ connects <= connects /\ connects \notin failed
      <4>1. connects \in Nat /\ \A s \in failed : s < connects
        BY DEF TlsInv, TlsTypeOK, SessionInv
      <4> QED
        BY <4>1
    <3> QED
      BY <3>1, <3>2 DEF TlsInv, SessionInv
  <2>2. CASE TaskEnds
    BY <2>2 DEF TaskEnds, contextVars, stopVars, sessionVars, worldVars, TlsInv,
        TlsTypeOK, SessionInv, ConnectionInv, PartsInv, WithTask
  <2>3. CASE Poll \/ SelectReturns \/ PollBuffered
    BY <2>3 DEF Poll, SelectReturns, PollBuffered, contextVars, stopVars, sessionVars,
        worldVars, TlsInv, TlsTypeOK, SessionInv, ConnectionInv, PartsInv, WithTask
  <2> QED
    BY <1>2, <2>1, <2>2, <2>3 DEF TaskReads
<1>3. CASE OwnerMakes
  <2>1. CASE StartsClient
    BY <2>1 DEF StartsClient, contextVars, stopVars, sessionVars, worldVars, TlsInv,
        TlsTypeOK, SessionInv, ConnectionInv, PartsInv, WithTask
  <2>2. CASE MakesBase \/ MakesWs \/ MakesClient \/ MakesEvents \/ MakingFails
    BY <2>2 DEF MakesBase, MakesWs, MakesClient, MakesEvents, MakingFails, Makes,
        contextVars, stopVars, sessionVars, worldVars, TlsInv, TlsTypeOK, SessionInv,
        ConnectionInv, PartsInv, WithTask
  <2> QED
    BY <1>3, <2>1, <2>2 DEF OwnerMakes
<1>4. CASE OwnerDrops
  BY <1>4 DEF OwnerDrops, StopFlags, StopLocks, StopShutsDown, DestroysClient,
      Destroyed, FreesWs, FreesBase, FreesEvents, ConnectionGoes, Frees, contextVars,
      stopVars, sessionVars, worldVars, TlsInv, TlsTypeOK, SessionInv, ConnectionInv,
      PartsInv, WithTask
<1>5. CASE World
  <2>1. CASE Again
    BY <2>1 DEF Again, NewTransport, contextVars, stopVars, sessionVars, worldVars,
        TlsInv, TlsTypeOK, SessionInv, ConnectionInv, PartsInv, WithTask
  <2>2. CASE SleepAndWake
    BY <2>2 DEF SleepAndWake, NewTransport, contextVars, stopVars, sessionVars,
        worldVars, TlsInv, TlsTypeOK, SessionInv, ConnectionInv, PartsInv, WithTask
  <2>3. CASE OtherOpens
    <3>1. UNCHANGED <<task, then, saved, rtc, offered, connects, failed>>
      BY <2>3 DEF OtherOpens, sessionVars, worldVars
    <3> QED
      BY <3>1 DEF TlsInv, SessionInv
  <2>4. CASE OtherCloses
    <3>1. UNCHANGED <<task, then, saved, rtc, offered, connects, failed>>
      BY <2>4 DEF OtherCloses, sessionVars, worldVars
    <3> QED
      BY <3>1 DEF TlsInv, SessionInv
  <2>5. CASE Poison
    BY <2>5 DEF Poison, contextVars, stopVars, sessionVars, worldVars, TlsInv,
        TlsTypeOK, SessionInv, ConnectionInv, PartsInv, WithTask
  <2> QED
    BY <1>5, <2>1, <2>2, <2>3, <2>4, <2>5 DEF World
<1>6. CASE UNCHANGED vars
  BY <1>6 DEF vars, contextVars, stopVars, sessionVars, worldVars, TlsInv, TlsTypeOK,
      SessionInv, ConnectionInv, PartsInv, WithTask
<1> QED
  BY <1>1, <1>2, <1>3, <1>4, <1>5, <1>6 DEF Next

\* The invariant holds whatever the task, the thread and other connections do.
THEOREM TlsInvariant == Spec => []TlsInv
<1>1. TlsInv /\ [Next]_vars => TlsInv'
  BY TypeStep, SocketStep, PartsStep, ConnectionStep, SessionStep DEF TlsInv
<1> QED
  BY <1>1, TlsInit, PTL DEF Spec

\* Stopping a transport shuts down no other connection (Stopper::stop,
\* Context::close).
THEOREM StopTouchesNoOther == Spec => []OthersUntouched
<1>1. TlsInv => OthersUntouched
  BY DEF TlsInv, TlsTypeOK, SocketInv, OthersUntouched
<1> QED
  BY <1>1, TlsInvariant, PTL

\* A transport is taken apart in order and wholly, however far it got
\* (Partial, Drop for WebSocketTransport).
THEOREM TransportReleased == Spec => []NothingLostOrDangling
<1>1. TlsInv => NothingLostOrDangling
  BY DEF TlsInv, TlsTypeOK, SocketInv, PartsInv, ConnectionInv, NoConnection, WithTask,
         NothingLostOrDangling
<1> QED
  BY <1>1, TlsInvariant, PTL

\* A session that was offered in a handshake that failed is not offered again
\* in that boot (connect, TlsSession::forget).
THEOREM FailedNotOffered == Spec => []NotOfferedAgain
<1>1. TlsInv => NotOfferedAgain
  BY DEF TlsInv, SessionInv, NotOfferedAgain
<1> QED
  BY <1>1, TlsInvariant, PTL

\* A TLS 1.2 connection's session is exported at most once (connect, read).
THEOREM OneExport == Spec => []ExportedOnce
<1>1. TlsInv => ExportedOnce
  BY DEF TlsInv, ConnectionInv, ExportedOnce
<1> QED
  BY <1>1, TlsInvariant, PTL

============================================================================
