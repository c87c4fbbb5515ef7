------------------------------- MODULE Clocks -------------------------------
(***************************************************************************)
(* The device's two clocks and what is dated by them.  mbedtls_ms_time     *)
(* counts from boot; the wall clock goes on through a deep sleep or a      *)
(* restart, reads 1970 after power-on, and is whatever it was last set to. *)
(* A TLS 1.3 ticket is dated by the first and saved with a date on the     *)
(* second (tls.rs, tls_session.rs), a log line by the second if it can be, *)
(* now or on its way out (logging.rs), and so is the signature a device    *)
(* with a shared secret connects with (shared_secret.rs).                  *)
(*                                                                         *)
(* One tick is what time passes by, in any unit.  Bytes are of BYTE values *)
(* and a signature's time has MS to the tick, so that every form of an     *)
(* encoded integer is met with small numbers.                              *)
(***************************************************************************)
EXTENDS Integers, SequencesExt

CONSTANTS
    EPOCH,          \* the time it is when the behaviour starts
    PLAUSIBLE,      \* unix_micros: before it the clock has not been set
    Errors,         \* how far off what sets the clock may be
    MICROS,         \* steps of a line's time to the tick
    max_lines,      \* of a batch
    BYTE, MS,
    MaxNow, MaxSets, MaxLines

ASSUME TimeAssumption ==
    /\ EPOCH \in Nat /\ PLAUSIBLE \in Nat /\ Errors \subseteq Int
    /\ MICROS \in Nat /\ max_lines \in Nat /\ max_lines < MICROS
    /\ BYTE \in Nat /\ BYTE > 1 /\ MS \in Nat
    /\ MaxNow \in Nat /\ MaxSets \in Nat /\ MaxLines \in Nat

VARIABLES
    now,            \* ticks since the start
    up,             \* mbedtls_ms_time()
    wall,           \* SystemTime::now(), since 1970
    sets,           \* times the wall clock was set, or lost
    \* Tickets.  The date is private_ticket_reception_time.
    ticket,         \* of the connection: an Option, as a set, of [date, taken]
    saved,          \* TlsSession.saved, or RTC memory: of [date, taken, sets, dated]
    offer,          \* the session offered: of [date, taken, kept]
    \* Log lines.
    backlog,        \* the times they were logged at, Options
    sent,           \* of [own, time, wall], the wall clock's when it went
    last_log,       \* when the last batch went
    setBack,        \* whether the wall clock has been set back (history)
    \* Credentials.
    signature,      \* the headers of the last connect, an Option
    use             \* which of the three this behaviour is about

clockVars == <<now, up, wall, sets>>
ticketVars == <<ticket, saved, offer>>
logVars == <<backlog, sent, last_log, setBack>>
vars == <<clockVars, ticketVars, logVars, signature, use>>

----------------------------------------------------------------------------
(* The clocks.                                                             *)

Init ==
    /\ now = 0 /\ up = 0 /\ wall = 0 /\ sets = 0
    /\ ticket = {} /\ saved = {} /\ offer = {}
    /\ backlog = <<>> /\ sent = <<>> /\ last_log = 0 /\ setBack = FALSE
    /\ signature = {}
    /\ use \in {"tickets", "lines", "signatures"}

Tick ==
    /\ now < MaxNow
    /\ now' = now + 1 /\ up' = up + 1 /\ wall' = wall + 1
    /\ UNCHANGED <<sets, ticketVars, logVars, signature>>

\* SNTP, or the application.
SetsClock ==
    /\ sets < MaxSets
    /\ \E error \in Errors : wall' = EPOCH + now + error
    /\ sets' = sets + 1
    /\ setBack' = (setBack \/ wall' < wall)
    /\ UNCHANGED <<now, up, ticketVars, backlog, sent, last_log, signature>>

\* RAM is gone: the connection, the lines, and what has been sent is over.
RamLost ==
    /\ up' = 0
    /\ ticket' = {} /\ offer' = {} /\ signature' = {}
    /\ backlog' = <<>> /\ sent' = <<>> /\ last_log' = now' /\ setBack' = FALSE

\* A deep sleep or a restart, of an application that keeps the session in RTC
\* memory or does not.
Sleeps ==
    /\ \E ticks \in 0..(MaxNow - now) : now' = now + ticks /\ wall' = wall + ticks
    /\ RamLost
    /\ saved' \in {saved, {}}
    /\ UNCHANGED sets

PowerCycles ==
    /\ sets < MaxSets
    /\ sets' = sets + 1
    /\ wall' = 0
    /\ UNCHANGED now
    /\ RamLost
    /\ saved' = {}

\* What now_secs, and redate_ticket, read from the wall clock: one that is
\* before 1970 says 1970.
since_1970 == IF wall >= 0 THEN wall ELSE 0

----------------------------------------------------------------------------
(* Tickets.                                                                *)

\* As rebase, for a date that the other clock could have given.
rebase_Mut(at, from_now, to_now) ==
    IF at <= to_now THEN at ELSE to_now

\* A date moved from one clock to the other, with its age, or none if it has
\* not come yet.
rebase(at, from_now, to_now) ==
    to_now - (IF from_now - at > 0 THEN from_now - at ELSE 0)

\* A read takes in the ticket, and mbedTLS dates it.
TakesTicket ==
    /\ ticket' = {[date |-> up, taken |-> now]}
    /\ UNCHANGED <<clockVars, saved, offer, logVars, signature>>

\* save_session, by that read or a later one, with redate_ticket(Wall).
save_session ==
    /\ \E t \in ticket :
          saved' = {[date |-> rebase(t.date, up, since_1970), taken |-> t.taken,
                     sets |-> sets, dated |-> wall >= 0]}
    /\ ticket' = {}
    /\ UNCHANGED <<clockVars, offer, logVars, signature>>

\* connect: LoadedSession::load, with redate_ticket(Mbedtls), and the offer.
load ==
    /\ \E s \in saved :
          offer' = {[date |-> rebase(s.date, since_1970, up), taken |-> s.taken,
                     kept |-> s.dated /\ s.sets = sets]}
    /\ UNCHANGED <<clockVars, ticket, saved, logVars, signature>>

\* The age an offered session has for mbedTLS, at any time of the handshake.
Age(o) == up - o.date

HandshakeOver ==
    /\ offer # {}
    /\ offer' = {}
    /\ UNCHANGED <<clockVars, ticket, saved, logVars, signature>>

----------------------------------------------------------------------------
(* Log lines.                                                              *)

unix_micros == IF wall >= PLAUSIBLE THEN {wall * MICROS} ELSE {}

\* Capture::log: stamped when it happened, if the clock can say.
LogLine ==
    /\ Len(backlog) + Len(sent) < MaxLines
    /\ backlog' = Append(backlog, unix_micros)
    /\ UNCHANGED <<clockVars, ticketVars, sent, last_log, setBack, signature>>

\* As stamp, on top of the time the line has.
stamp_Mut(own, i) == {t + i - 1 : t \in unix_micros}

\* stamp, for the i-th line of a batch.
stamp(own, i) == IF own # {} THEN own ELSE {t + i - 1 : t \in unix_micros}

\* send_logs with take_stamped, at its interval.
SendLogs ==
    /\ backlog # <<>>
    /\ last_log < now
    /\ \E n \in 1..Len(backlog) :
          /\ n <= max_lines
          /\ sent' = sent \o [i \in 1..n |-> [own |-> backlog[i], time |-> stamp(backlog[i], i),
                                              wall |-> wall]]
          /\ backlog' = SubSeq(backlog, n + 1, Len(backlog))
    /\ last_log' = now
    /\ UNCHANGED <<clockVars, ticketVars, setBack, signature>>

----------------------------------------------------------------------------
(* Credentials.                                                            *)

\* What is left of a number with its k low bytes gone.
Shifted(value, k) ==
    LET remaining[j \in 0..k] == IF j = 0 THEN value ELSE remaining[j - 1] \div BYTE
    IN  remaining[k]

\* The bytes of a number, the lowest first, until nothing remains.
Digits(value) ==
    LET count == CHOOSE k \in 0..value :
                    Shifted(value, k) = 0 /\ \A j \in 0..(k - 1) : Shifted(value, j) # 0
    IN  [i \in 1..count |-> Shifted(value, i - 1) % BYTE]

\* Four bytes, the highest first.
BigEndian(value) == [i \in 1..4 |-> Shifted(value, 4 - i) % BYTE]

Signed32 == (BYTE * BYTE * BYTE * BYTE) \div 2

\* As encode_integer, with four bytes for whatever fits four unsigned.
encode_integer_Mut(value) ==
    IF value < BYTE
    THEN [tag |-> "SMALL_INTEGER_EXT", bytes |-> <<value>>]
    ELSE IF value < 2 * Signed32
    THEN [tag |-> "INTEGER_EXT", bytes |-> BigEndian(value)]
    ELSE [tag |-> "SMALL_BIG_EXT", bytes |-> Digits(value)]

\* encode_integer, for the times that are not negative: now_secs never is.
encode_integer(value) ==
    IF value < BYTE
    THEN [tag |-> "SMALL_INTEGER_EXT", bytes |-> <<value>>]
    ELSE IF value < Signed32
    THEN [tag |-> "INTEGER_EXT", bytes |-> BigEndian(value)]
    ELSE [tag |-> "SMALL_BIG_EXT", bytes |-> Digits(value)]

\* SharedSecret::headers, signed once for a platform.connect: the header and
\* the payload come from the one reading.
headers(signed_at) ==
    [time |-> signed_at, payload |-> encode_integer(signed_at * MS)]

\* connect, with now_secs.
Signs ==
    /\ signature' = {headers(since_1970)}
    /\ UNCHANGED <<clockVars, ticketVars, logVars>>

----------------------------------------------------------------------------

\* The three share the clocks and nothing else, so that one at a time will do.
Next ==
    /\ \/ Tick \/ SetsClock \/ Sleeps \/ PowerCycles
       \/ use = "tickets" /\ (TakesTicket \/ save_session \/ load \/ HandshakeOver)
       \/ use = "lines" /\ (LogLine \/ SendLogs)
       \/ use = "signatures" /\ Signs
    /\ UNCHANGED use

Spec == Init /\ [][Next]_vars

----------------------------------------------------------------------------
(* What the dates are worth.                                               *)

\* A session is never offered with a date in the future, which mbedTLS would
\* drop; and one saved by a wall clock that was not before 1970 and has not been
\* set since is offered with the age it has, whatever sleeps and restarts came
\* between, so that it is used for its whole lifetime and no longer (rebase,
\* redate_ticket both ways).
TicketAgeKept ==
    \A o \in offer :
        /\ Age(o) >= 0
        /\ o.kept => Age(o) = now - o.taken

\* A line is sent with the time it was logged at if there was one; without, it
\* has none only if the clock is still not set, and two such lines keep their
\* order on the server, which sorts by time, unless the clock was set back
\* (stamp, take_stamped and the interval of send_logs).
LoggedTimesKept ==
    /\ \A i \in DOMAIN sent :
          /\ sent[i].own # {} => sent[i].time = sent[i].own
          /\ sent[i].time = {} => sent[i].wall < PLAUSIBLE
    /\ ~setBack => \A i, j \in DOMAIN sent :
          i < j /\ sent[i].own = {} /\ sent[j].own = {} =>
              \A s \in sent[i].time, t \in sent[j].time : s < t

\* What :erlang.binary_to_term makes of an encoded integer: four bytes come with
\* the highest first and a sign, any other number of them with the lowest first.
HighestFirst(e) ==
    IF e.tag = "INTEGER_EXT" THEN e.bytes ELSE Reverse(e.bytes)

Unsigned(bytes) ==
    LET value[n \in 0..Len(bytes)] ==
            IF n = 0 THEN 0 ELSE value[n - 1] * BYTE + bytes[n]
    IN  value[Len(bytes)]

Decoded(e) ==
    LET unsigned == Unsigned(HighestFirst(e))
    IN  IF e.tag = "INTEGER_EXT" /\ unsigned >= Signed32
        THEN unsigned - 2 * Signed32
        ELSE unsigned

\* The server reads from the payload the very time the header gives, whatever
\* the clock says, 1970 included (encode_integer in its three forms, headers).
SignatureReadable ==
    \A s \in signature :
        /\ Decoded(s.payload) = s.time * MS
        /\ \A i \in DOMAIN s.payload.bytes : s.payload.bytes[i] \in 0..(BYTE - 1)

============================================================================
