---------------------------- MODULE ClocksProofs ----------------------------
(***************************************************************************)
(* A saved session is offered with the age it has, log lines are sent with *)
(* their times and in their order, and what a device signs with can be     *)
(* read, for any clocks.                                                   *)
(***************************************************************************)
EXTENDS Clocks, WellFoundedInduction, TLAPS

\* Where a ticket goes, its date tells its age on the clock it is then on: on
\* the wall clock only while that has not been set, nor had been before 1970.
ClocksTypeOK ==
    /\ now \in Nat /\ up \in Int /\ wall \in Int /\ sets \in Nat
    /\ ticket \subseteq [date : Int, taken : Int]
    /\ saved \subseteq [date : Int, taken : Int, sets : Nat, dated : BOOLEAN]
    /\ offer \subseteq [date : Int, taken : Int, kept : BOOLEAN]

TicketInv ==
    /\ ClocksTypeOK
    /\ \A t \in ticket : t.taken <= now /\ up - t.date = now - t.taken
    /\ \A s \in saved :
          /\ s.taken <= now /\ s.sets <= sets
          /\ s.dated /\ s.sets = sets => wall >= 0 /\ wall - s.date = now - s.taken
    /\ TicketAgeKept

\* Moving a date keeps an age that is not negative, and makes one that is
\* negative zero (tls_session.rs rebase).
LEMMA RebaseAge ==
    ASSUME NEW at \in Int, NEW from_now \in Int, NEW to_now \in Int
    PROVE  /\ rebase(at, from_now, to_now) \in Int
           /\ to_now - rebase(at, from_now, to_now) >= 0
           /\ from_now - at >= 0 => to_now - rebase(at, from_now, to_now) = from_now - at
  BY DEF rebase

\* No ticket has been taken (Init).
LEMMA TicketInit == Init => TicketInv
  BY DEF Init, TicketInv, ClocksTypeOK, TicketAgeKept

\* Whatever the clocks, the server and the application do next.
LEMMA TicketStep == TicketInv /\ [Next]_vars => TicketInv'
<1> SUFFICES ASSUME TicketInv, [Next]_vars PROVE TicketInv'
  OBVIOUS
<1> USE TimeAssumption
<1>1. CASE Tick
  BY <1>1 DEF Tick, TicketInv, ClocksTypeOK, TicketAgeKept, Age, ticketVars
<1>2. CASE SetsClock
  <2>1. PICK error \in Errors : wall' = EPOCH + now + error
    BY <1>2 DEF SetsClock
  <2>2. wall' \in Int
    BY <2>1 DEF TicketInv, ClocksTypeOK
  <2> QED
    BY <1>2, <2>2 DEF SetsClock, TicketInv, ClocksTypeOK, TicketAgeKept, Age, ticketVars
<1>3. CASE Sleeps
  <2>1. PICK ticks \in 0..(MaxNow - now) : now' = now + ticks /\ wall' = wall + ticks
    BY <1>3 DEF Sleeps
  <2>2. ticks \in Nat
    BY <2>1
  <2> QED
    BY <1>3, <2>1, <2>2 DEF Sleeps, RamLost, TicketInv, ClocksTypeOK, TicketAgeKept, Age
<1>4. CASE PowerCycles
  BY <1>4 DEF PowerCycles, RamLost, TicketInv, ClocksTypeOK, TicketAgeKept, Age
<1>5. CASE TakesTicket
  BY <1>5 DEF TakesTicket, clockVars, TicketInv, ClocksTypeOK, TicketAgeKept, Age
<1>6. CASE save_session
  <2>1. PICK t \in ticket :
          saved' = {[date |-> rebase(t.date, up, since_1970), taken |-> t.taken,
                     sets |-> sets, dated |-> wall >= 0]}
    BY <1>6 DEF save_session
  <2>2. /\ t.date \in Int /\ t.taken \in Int
        /\ t.taken <= now /\ up - t.date = now - t.taken
    BY DEF TicketInv, ClocksTypeOK
  <2>a. /\ up \in Int /\ wall \in Int /\ now \in Int /\ up - t.date >= 0
        /\ since_1970 \in Int /\ (wall >= 0 => since_1970 = wall)
    BY <2>2 DEF TicketInv, ClocksTypeOK, since_1970
  <2>3. /\ rebase(t.date, up, since_1970) \in Int
        /\ since_1970 - rebase(t.date, up, since_1970) = now - t.taken
    BY <2>2, <2>a, RebaseAge
  <2> DEFINE d == wall >= 0
             s == [date |-> rebase(t.date, up, since_1970), taken |-> t.taken,
                   sets |-> sets, dated |-> d]
  <2>d. d \in BOOLEAN /\ (d => wall >= 0)
    OBVIOUS
  <2>5. saved' = {s} /\ ticket' = {} /\ UNCHANGED <<now, up, wall, sets, offer>>
    BY <1>6, <2>1 DEF save_session, clockVars
  <2> HIDE DEF d
  <2>4. /\ s \in [date : Int, taken : Int, sets : Nat, dated : BOOLEAN]
        /\ s.taken <= now /\ s.sets = sets /\ (s.dated => d)
        /\ wall >= 0 => wall - s.date = now - s.taken
    BY <2>2, <2>3, <2>a, <2>d DEF TicketInv, ClocksTypeOK
  <2> HIDE DEF s
  <2>6. ClocksTypeOK'
    BY <2>4, <2>5 DEF TicketInv, ClocksTypeOK
  <2>7. TicketAgeKept'
    BY <2>5 DEF TicketInv, TicketAgeKept, Age
  <2> QED
    BY <2>d, <2>4, <2>5, <2>6, <2>7 DEF TicketInv, ClocksTypeOK
<1>7. CASE load
  <2>1. PICK s \in saved :
          offer' = {[date |-> rebase(s.date, since_1970, up), taken |-> s.taken,
                     kept |-> s.dated /\ s.sets = sets]}
    BY <1>7 DEF load
  <2>2. /\ s.date \in Int /\ s.taken \in Int /\ s.sets \in Nat /\ s.taken <= now
        /\ s.dated /\ s.sets = sets => wall >= 0 /\ wall - s.date = now - s.taken
    BY DEF TicketInv, ClocksTypeOK
  <2> DEFINE k == s.dated /\ s.sets = sets
  <2>k. k \in BOOLEAN /\ (k => wall >= 0 /\ wall - s.date = now - s.taken)
    BY <2>2
  <2>5. /\ offer' = {[date |-> rebase(s.date, since_1970, up), taken |-> s.taken, kept |-> k]}
        /\ UNCHANGED <<now, up, wall, sets, ticket, saved>>
    BY <1>7, <2>1 DEF load, clockVars
  <2> HIDE DEF k
  <2>a. /\ up \in Int /\ wall \in Int /\ now \in Int
        /\ since_1970 \in Int
        /\ k => since_1970 = wall /\ since_1970 - s.date >= 0
    BY <2>2, <2>k DEF TicketInv, ClocksTypeOK, since_1970
  <2>3. /\ rebase(s.date, since_1970, up) \in Int
        /\ up - rebase(s.date, since_1970, up) >= 0
        /\ k => up - rebase(s.date, since_1970, up) = now - s.taken
    BY <2>2, <2>k, <2>a, RebaseAge
  <2> DEFINE o == [date |-> rebase(s.date, since_1970, up), taken |-> s.taken, kept |-> k]
  <2>4. /\ o \in [date : Int, taken : Int, kept : BOOLEAN]
        /\ up - o.date >= 0
        /\ o.kept => up - o.date = now - o.taken
    BY <2>2, <2>3, <2>k
  <2> HIDE DEF o
  <2>6. ClocksTypeOK'
    BY <2>4, <2>5 DEF TicketInv, ClocksTypeOK, o
  <2>7. TicketAgeKept'
    <3>1. offer' = {o} /\ now' = now /\ up' = up
      BY <2>5 DEF o
    <3> QED
      BY <2>4, <3>1 DEF TicketAgeKept, Age
  <2> QED
    BY <2>5, <2>6, <2>7 DEF TicketInv, ClocksTypeOK
<1>8. CASE HandshakeOver
  BY <1>8 DEF HandshakeOver, clockVars, TicketInv, ClocksTypeOK, TicketAgeKept, Age
<1>9. CASE UNCHANGED <<clockVars, ticketVars>>
  BY <1>9 DEF clockVars, ticketVars, TicketInv, ClocksTypeOK, TicketAgeKept, Age
<1> QED
  BY <1>1, <1>2, <1>3, <1>4, <1>5, <1>6, <1>7, <1>8, <1>9
  DEF Next, LogLine, SendLogs, Signs, vars

\* A session is never offered with a date to come, whatever sleeps, restarts and
\* settings of the clock there were, and with its age if the wall clock it was
\* saved by had a date to give and was left alone (redate_ticket).
THEOREM TicketAge == Spec => []TicketAgeKept
<1>1. TicketInv => TicketAgeKept
  BY DEF TicketInv
<1> QED
  BY <1>1, TicketInit, TicketStep, PTL DEF Spec

----------------------------------------------------------------------------
(* Log lines.                                                              *)

Lines == [own : SUBSET Int, time : SUBSET Int, wall : Int]

LinesTypeOK ==
    /\ now \in Nat /\ wall \in Int /\ last_log \in Nat /\ last_log <= now
    /\ setBack \in BOOLEAN
    /\ backlog \in Seq(SUBSET Int)
    /\ sent \in Seq(Lines)

\* A tick of the wall clock, in the steps of a line's time.
Micros(ticks) == ticks * MICROS

\* A line sent with the time it had, or with one of the tick it was sent in if
\* the clock could tell.
Stamped(line) ==
    /\ line.own # {} => line.time = line.own
    /\ line.time = {} => line.wall < PLAUSIBLE
    /\ line.own = {} => \A t \in line.time : t < Micros(line.wall) + MICROS

\* Two lines, one after the other, neither with a time of its own.
InTurn(first, second) ==
    first.own = {} /\ second.own = {} =>
        \A s \in first.time, t \in second.time : s < t

\* While the wall clock has not been set back it has moved on, since the last
\* batch went, by no less than the time that has passed.
LinesInv ==
    /\ LinesTypeOK
    /\ \A i \in 1..Len(sent) : Stamped(sent[i])
    /\ ~setBack =>
          /\ \A i \in 1..Len(sent) : sent[i].wall + (now - last_log) <= wall
          /\ \A i, j \in 1..Len(sent) : i < j => InTurn(sent[i], sent[j])

\* A later tick's times are later.
LEMMA LaterTick ==
    ASSUME NEW a \in Int, NEW b \in Int, a < b
    PROVE  Micros(a) \in Int /\ Micros(b) \in Int /\ Micros(a) + MICROS <= Micros(b)
<1>1. MICROS \in Nat
  BY TimeAssumption
<1>2. (a + 1) * MICROS = a * MICROS + MICROS /\ a * MICROS \in Int /\ b * MICROS \in Int
  BY <1>1, SMTT(30)
<1>3. ASSUME NEW n \in Int, NEW m \in Int, n <= m
      PROVE  n * MICROS <= m * MICROS
  BY <1>1, <1>3, SMTT(30)
<1> QED
  BY <1>2, <1>3 DEF Micros

\* stamp gives the i-th line of a batch its own time, or one within the tick.
LEMMA StampFacts ==
    ASSUME wall \in Int, NEW own \in SUBSET Int, NEW i \in 1..max_lines
    PROVE  /\ stamp(own, i) \in SUBSET Int
           /\ own # {} => stamp(own, i) = own
           /\ own = {} => \A t \in stamp(own, i) : t = Micros(wall) + (i - 1)
           /\ stamp(own, i) = {} => wall < PLAUSIBLE
<1>1. Micros(wall) \in Int /\ max_lines \in Nat /\ PLAUSIBLE \in Nat
  <2>1. MICROS \in Nat
    BY TimeAssumption
  <2> QED
    BY <2>1, TimeAssumption, SMTT(30) DEF Micros
<1>2. CASE own # {}
  BY <1>2 DEF stamp
<1>3. CASE own = {} /\ wall >= PLAUSIBLE
  <2>1. stamp(own, i) = {Micros(wall) + i - 1}
    BY <1>3 DEF stamp, unix_micros, Micros
  <2>2. Micros(wall) + i - 1 = Micros(wall) + (i - 1) /\ Micros(wall) + i - 1 \in Int
    BY <1>1
  <2> QED
    BY <1>3, <2>1, <2>2
<1>4. CASE own = {} /\ ~(wall >= PLAUSIBLE)
  <2>1. stamp(own, i) = {}
    BY <1>4 DEF stamp, unix_micros
  <2> QED
    BY <1>1, <1>4, <2>1
<1> QED
  BY <1>2, <1>3, <1>4

\* Where the elements of two sequences are in the one that has both.
LEMMA ConcatElements ==
    ASSUME NEW S, NEW s \in Seq(S), NEW t \in Seq(S)
    PROVE  /\ s \o t \in Seq(S) /\ Len(s \o t) = Len(s) + Len(t)
           /\ \A i \in 1..Len(s) : (s \o t)[i] = s[i]
           /\ \A i \in 1..Len(s \o t) : i \notin 1..Len(s) =>
                 i - Len(s) \in 1..Len(t) /\ (s \o t)[i] = t[i - Len(s)]
  OBVIOUS

\* A batch keeps its order, and follows those before it.
LEMMA LinesSent ==
    ASSUME LinesInv, SendLogs
    PROVE  LinesInv'
<1>1. PICK n \in 1..Len(backlog) :
          /\ n <= max_lines
          /\ sent' = sent \o [i \in 1..n |-> [own |-> backlog[i], time |-> stamp(backlog[i], i),
                                              wall |-> wall]]
          /\ backlog' = SubSeq(backlog, n + 1, Len(backlog))
  BY DEF SendLogs
<1>2. /\ now \in Nat /\ wall \in Int /\ last_log \in Nat /\ last_log < now
      /\ now' = now /\ wall' = wall /\ last_log' = now /\ setBack' = setBack
      /\ backlog \in Seq(SUBSET Int) /\ max_lines \in Nat /\ max_lines < MICROS /\ MICROS \in Nat
      /\ sent \in Seq(Lines)
  BY TimeAssumption DEF LinesInv, LinesTypeOK, SendLogs, clockVars
<1> DEFINE batch == [i \in 1..n |-> [own |-> backlog[i], time |-> stamp(backlog[i], i),
                                     wall |-> wall]]
<1>3. \A i \in 1..n :
          /\ i \in 1..max_lines /\ backlog[i] \in SUBSET Int
          /\ batch[i] = [own |-> backlog[i], time |-> stamp(backlog[i], i), wall |-> wall]
  BY <1>1, <1>2
<1>4. \A i \in 1..n :
          /\ batch[i] \in Lines
          /\ batch[i].wall = wall
          /\ batch[i].own # {} => batch[i].time = batch[i].own
          /\ batch[i].own = {} => \A t \in batch[i].time : t = Micros(wall) + (i - 1)
          /\ batch[i].time = {} => wall < PLAUSIBLE
  <2> HIDE DEF batch
  <2> TAKE i \in 1..n
  <2>1. i \in 1..max_lines /\ backlog[i] \in SUBSET Int /\ wall \in Int
    BY <1>2, <1>3
  <2>2. /\ stamp(backlog[i], i) \in SUBSET Int
        /\ backlog[i] # {} => stamp(backlog[i], i) = backlog[i]
        /\ backlog[i] = {} => \A t \in stamp(backlog[i], i) : t = Micros(wall) + (i - 1)
        /\ stamp(backlog[i], i) = {} => wall < PLAUSIBLE
    BY <2>1, StampFacts
  <2>3. batch[i] = [own |-> backlog[i], time |-> stamp(backlog[i], i), wall |-> wall]
    BY <1>3
  <2>4. /\ batch[i].own = backlog[i] /\ batch[i].time = stamp(backlog[i], i)
        /\ batch[i].wall = wall
    BY <2>3
  <2>5. batch[i] \in Lines
    BY <2>1, <2>2, <2>3 DEF Lines
  <2> QED
    BY <2>2, <2>4, <2>5
<1>5. /\ sent' = sent \o batch /\ n \in Nat
      /\ batch \in Seq(Lines) /\ Len(batch) = n
  <2>1. sent' = sent \o batch /\ n \in Nat
    BY <1>1, <1>2
  <2>2. batch = [i \in 1..n |-> batch[i]] /\ \A i \in 1..n : batch[i] \in Lines
    BY <1>4
  <2> HIDE DEF batch
  <2> QED
    BY <2>1, <2>2
<1>6. /\ sent' \in Seq(Lines)
      /\ Len(sent') = Len(sent) + n
      /\ \A i \in 1..Len(sent) : sent'[i] = sent[i]
      /\ \A i \in 1..Len(sent') : i \notin 1..Len(sent) =>
            i - Len(sent) \in 1..n /\ sent'[i] = batch[i - Len(sent)]
  <2> HIDE DEF batch
  <2>1. sent \in Seq(Lines) /\ batch \in Seq(Lines) /\ Len(batch) = n
    BY <1>2, <1>5
  <2>2. sent' = sent \o batch
    BY <1>5
  <2> QED
    BY <2>1, <2>2, ConcatElements
<1>7. Micros(wall) \in Int
  BY <1>2, SMTT(30) DEF Micros
<1> HIDE DEF batch
<1>8. LinesTypeOK'
  <2>1. backlog' \in Seq(SUBSET Int)
    BY <1>1, <1>2
  <2> QED
    BY <1>2, <1>6, <2>1 DEF LinesInv, LinesTypeOK
<1>9. \A i \in 1..Len(sent') : Stamped(sent'[i])
  <2> TAKE i \in 1..Len(sent')
  <2>1. CASE i \in 1..Len(sent)
    BY <1>6, <2>1 DEF LinesInv
  <2>2. CASE i \notin 1..Len(sent)
    <3> DEFINE k == i - Len(sent)
    <3>1. k \in 1..n /\ sent'[i] = batch[k] /\ k - 1 < MICROS /\ k - 1 \in Int
      BY <1>1, <1>2, <1>6, <2>2
    <3> HIDE DEF k
    <3>2. Micros(wall) + (k - 1) < Micros(wall) + MICROS
      BY <1>2, <1>7, <3>1
    <3>3. Stamped(batch[k])
      BY <1>4, <3>1, <3>2 DEF Stamped
    <3> QED
      BY <3>1, <3>3
  <2> QED
    BY <2>1, <2>2
<1>10. ASSUME ~setBack
       PROVE  /\ \A i \in 1..Len(sent') : sent'[i].wall + (now' - last_log') <= wall'
              /\ \A i, j \in 1..Len(sent') : i < j => InTurn(sent'[i], sent'[j])
  <2>1. \A i \in 1..Len(sent) : sent[i].wall \in Int /\ sent[i].wall < wall
    <3>1. \A i \in 1..Len(sent) : sent[i] \in Lines
      BY <1>2
    <3>2. \A i \in 1..Len(sent) : sent[i].wall \in Int
      BY <3>1 DEF Lines
    <3>3. \A i \in 1..Len(sent) : sent[i].wall + (now - last_log) <= wall
      BY <1>10 DEF LinesInv
    <3>4. now \in Nat /\ last_log \in Nat /\ last_log < now /\ wall \in Int
      BY <1>2
    <3> QED
      BY <3>2, <3>3, <3>4
  <2>2. \A i \in 1..Len(sent') : sent'[i].wall + (now' - last_log') <= wall'
    <3>1. \A i \in 1..Len(sent') : sent'[i].wall \in Int /\ sent'[i].wall <= wall
      <4> TAKE i \in 1..Len(sent')
      <4>1. CASE i \in 1..Len(sent)
        BY <1>2, <1>6, <2>1, <4>1
      <4>2. CASE i \notin 1..Len(sent)
        <5>1. sent'[i].wall = wall
          BY <1>4, <1>6, <4>2
        <5> QED
          BY <1>2, <5>1
      <4> QED
        BY <4>1, <4>2
    <3> QED
      BY <1>2, <3>1
  <2>3. ASSUME NEW i \in 1..Len(sent'), NEW j \in 1..Len(sent'), i < j,
               sent'[i].own = {}, sent'[j].own = {},
               NEW s \in sent'[i].time, NEW t \in sent'[j].time
        PROVE  s < t
    <3>1. CASE i \in 1..Len(sent) /\ j \in 1..Len(sent)
      BY <1>6, <1>10, <2>3, <3>1 DEF LinesInv, InTurn
    <3>2. CASE i \in 1..Len(sent) /\ j \notin 1..Len(sent)
      <4> DEFINE k == j - Len(sent)
      <4>1. k \in 1..n /\ sent'[j] = batch[k] /\ k - 1 \in Nat
        BY <1>2, <1>5, <1>6, <3>2
      <4> HIDE DEF k
      <4>2. t = Micros(wall) + (k - 1)
        BY <1>4, <2>3, <4>1
      <4>3. s \in Int /\ s < Micros(sent[i].wall) + MICROS
        <5>1. Stamped(sent[i]) /\ sent[i] \in Lines /\ sent'[i] = sent[i]
          BY <1>2, <1>6, <3>2 DEF LinesInv
        <5> QED
          BY <2>3, <5>1 DEF Lines, Stamped
      <4>4. Micros(sent[i].wall) + MICROS <= Micros(wall) /\ Micros(sent[i].wall) \in Int
        <5>1. sent[i].wall \in Int /\ sent[i].wall < wall /\ wall \in Int
          BY <1>2, <2>1, <3>2
        <5> QED
          BY <5>1, LaterTick
      <4> QED
        BY <1>2, <1>7, <4>1, <4>2, <4>3, <4>4
    <3>3. CASE i \notin 1..Len(sent)
      <4> DEFINE k == i - Len(sent)
                 l == j - Len(sent)
      <4>1. /\ k \in 1..n /\ sent'[i] = batch[k] /\ l \in 1..n /\ sent'[j] = batch[l]
            /\ k < l
        BY <1>2, <1>5, <1>6, <2>3, <3>3
      <4> HIDE DEF k, l
      <4>2. s = Micros(wall) + (k - 1) /\ t = Micros(wall) + (l - 1)
        BY <1>4, <2>3, <4>1
      <4> QED
        BY <1>7, <4>1, <4>2
    <3> QED
      BY <3>1, <3>2, <3>3
  <2> QED
    BY <2>2, <2>3 DEF InTurn
<1> QED
  BY <1>2, <1>8, <1>9, <1>10 DEF LinesInv

\* No line has been logged (Init).
LEMMA LinesInit == Init => LinesInv
<1> SUFFICES ASSUME Init
             PROVE  LinesInv
  OBVIOUS
<1>1. sent = <<>> /\ backlog = <<>> /\ now = 0 /\ wall = 0 /\ last_log = 0 /\ setBack = FALSE
  BY DEF Init
<1>2. LinesTypeOK
  <2>1. setBack \in BOOLEAN
    BY <1>1
  <2>2. sent \in Seq(Lines) /\ backlog \in Seq(SUBSET Int)
    BY <1>1
  <2> QED
    BY <1>1, <2>1, <2>2 DEF LinesTypeOK
<1> QED
  BY <1>1, <1>2 DEF LinesInv

\* A line, a batch, or a clock that moves.
LEMMA LinesStep == LinesInv /\ [Next]_vars => LinesInv'
<1> SUFFICES ASSUME LinesInv, [Next]_vars
             PROVE  LinesInv'
  OBVIOUS
<1>0. /\ now \in Nat /\ wall \in Int /\ last_log \in Nat /\ last_log <= now /\ EPOCH \in Nat
      /\ \A i \in 1..Len(sent) : sent[i].wall \in Int
      /\ backlog \in Seq(SUBSET Int)
      /\ sent \in Seq(Lines)
  <2>1. /\ now \in Nat /\ wall \in Int /\ last_log \in Nat /\ last_log <= now /\ EPOCH \in Nat
        /\ backlog \in Seq(SUBSET Int) /\ sent \in Seq(Lines)
    BY TimeAssumption DEF LinesInv, LinesTypeOK
  <2>2. \A i \in 1..Len(sent) : sent[i] \in Lines
    BY <2>1
  <2> QED
    BY <2>1, <2>2 DEF Lines
<1>1. ASSUME NEW ticks \in Int, ticks >= 0, now' = now + ticks, wall' >= wall + ticks,
             wall' \in Int, UNCHANGED <<sent, backlog, last_log, setBack>>
      PROVE  LinesInv'
  <2>1. \A i \in 1..Len(sent) :
            sent[i].wall + (now - last_log) <= wall => sent[i].wall + (now' - last_log) <= wall'
    BY <1>0, <1>1
  <2> QED
    BY <1>0, <1>1, <2>1 DEF LinesInv, LinesTypeOK
<1>2. CASE Tick
  BY <1>0, <1>1, <1>2 DEF Tick, logVars
<1>3. CASE SetsClock
  <2>1. PICK error \in Errors : wall' = EPOCH + now + error
    BY <1>3 DEF SetsClock
  <2>2. wall' \in Int
    BY <1>0, <2>1, TimeAssumption
  <2>3. CASE wall' >= wall
    <3>1. now' = now + 0 /\ wall' >= wall + 0 /\ UNCHANGED <<sent, backlog, last_log>>
      BY <1>0, <1>3, <2>2, <2>3 DEF SetsClock
    <3>2. ~(wall' < wall)
      BY <1>0, <2>2, <2>3
    <3>3. setBack' = setBack
      BY <1>3, <3>2, Zenon DEF SetsClock, LinesInv, LinesTypeOK
    <3> QED
      BY <1>1, <2>2, <3>1, <3>3
  <2>4. CASE ~(wall' >= wall)
    <3>1. setBack' = TRUE /\ UNCHANGED <<now, sent, backlog, last_log>>
      <4>1. wall' < wall
        BY <1>0, <2>2, <2>4
      <4> QED
        BY <1>3, <4>1, Zenon DEF SetsClock
    <3> QED
      BY <1>0, <2>2, <3>1 DEF LinesInv, LinesTypeOK
  <2> QED
    BY <2>3, <2>4
<1>4. CASE Sleeps \/ PowerCycles
  <2>1. now' \in Nat /\ wall' \in Int
    BY <1>0, <1>4, TimeAssumption DEF Sleeps, PowerCycles
  <2>2. sent' = <<>> /\ backlog' = <<>> /\ last_log' = now' /\ setBack' = FALSE
    BY <1>4 DEF Sleeps, PowerCycles, RamLost
  <2>3. LinesTypeOK'
    <3>1. setBack' \in BOOLEAN
      BY <2>2
    <3>2. sent' \in Seq(Lines) /\ backlog' \in Seq(SUBSET Int)
      BY <2>2
    <3> QED
      BY <2>1, <2>2, <3>1, <3>2 DEF LinesTypeOK
  <2> QED
    BY <2>2, <2>3 DEF LinesInv
<1>5. CASE LogLine
  <2>1. unix_micros \in SUBSET Int
    <3>1. wall * MICROS \in Int
      BY <1>0, TimeAssumption, SMTT(30)
    <3> QED
      BY <3>1 DEF unix_micros
  <2>2. backlog' \in Seq(SUBSET Int) /\ UNCHANGED <<now, wall, sent, last_log, setBack>>
    BY <1>0, <1>5, <2>1 DEF LogLine, clockVars
  <2> QED
    BY <1>0, <2>2 DEF LinesInv, LinesTypeOK
<1>6. CASE SendLogs
  BY <1>6, LinesSent
<1>7. CASE UNCHANGED <<clockVars, logVars>>
  BY <1>7 DEF clockVars, logVars, LinesInv, LinesTypeOK
<1> QED
  BY <1>2, <1>3, <1>4, <1>5, <1>6, <1>7
  DEF Next, TakesTicket, save_session, load, HandshakeOver, Signs, vars, clockVars

\* Clocks.LoggedTimesKept: stamp and take_stamped send a line with its own time,
\* and lines without one in the order they were logged.
THEOREM LoggedTimes == Spec => []LoggedTimesKept
<1>1. LinesInv => LoggedTimesKept
  <2> SUFFICES ASSUME LinesInv
               PROVE  LoggedTimesKept
    OBVIOUS
  <2>1. DOMAIN sent = 1..Len(sent)
    BY DEF LinesInv, LinesTypeOK
  <2> QED
    BY <2>1 DEF LinesInv, Stamped, InTurn, LoggedTimesKept
<1> QED
  BY <1>1, LinesInit, LinesStep, PTL DEF Spec

----------------------------------------------------------------------------
(* Signatures.                                                            *)

\* A set of numbers has a least one.
LEMMA LeastOne ==
    ASSUME NEW T, T \subseteq Nat, T # {}
    PROVE  \E x \in T : \A y \in T : x <= y
<1> DEFINE R == OpToRel(<, Nat)
<1>1. IsWellFoundedOn(R, Nat)
  BY NatLessThanWellFounded
<1>2. \A x, y \in Nat : <<y, x>> \in R <=> y < x
  BY DEF OpToRel
<1> HIDE DEF R
<1>3. PICK x \in T : \A y \in T : ~(<<y, x>> \in R)
  BY <1>1, WFMin
<1>4. \A y \in T : x \in Nat /\ y \in Nat /\ ~(y < x)
  BY <1>2, <1>3
<1> QED
  BY <1>3, <1>4

\* A set that has 0, and with each number the next, has all of them.
LEMMA Counting ==
    ASSUME NEW S, 0 \in S, \A n \in Nat : n \in S => n + 1 \in S
    PROVE  Nat \subseteq S
<1> DEFINE T == Nat \ S
<1>1. SUFFICES ASSUME T # {}
               PROVE  FALSE
  OBVIOUS
<1>2. PICK x \in T : \A y \in T : x <= y
  BY <1>1, LeastOne
<1>3. x \in Nat /\ x # 0 /\ x \notin S
  BY <1>2
<1>4. x - 1 \in Nat /\ ~(x <= x - 1) /\ (x - 1) + 1 = x
  BY <1>3
<1> QED
  BY <1>2, <1>3, <1>4

\* What a remainder is.
LEMMA Modulo ==
    ASSUME NEW n \in Nat, NEW b \in Nat, b > 1
    PROVE  /\ n \div b \in Nat /\ n % b \in 0..(b - 1)
           /\ n % b = n - b * (n \div b)
<1>1. n \div b \in Nat
  BY SMTT(30)
<1>2. n % b \in 0..(b - 1)
  BY SMTT(30)
<1>3. n % b = n - b * (n \div b)
  BY SMTT(60)
<1> QED
  BY <1>1, <1>2, <1>3

\* A quotient is less than what was divided.
LEMMA Quotient ==
    ASSUME NEW n \in Nat, NEW b \in Nat, b > 1, NEW q \in Nat, NEW r \in 0..(b - 1),
           r = n - b * q
    PROVE  q * b + r = n /\ (n > 0 => q < n)
<1>1. b * q = q * b /\ q * b \in Nat
  BY SMTT(30)
<1>2. q > 0 => q * b >= q * 2
  BY SMTT(30)
<1> QED
  BY <1>1, <1>2

Bytes == 0..(BYTE - 1)

\* A number's low byte, and the rest of it.
Low(n) == n % BYTE
Rest(n) == n \div BYTE

\* The rest is less, and the two make the number again.
LEMMA ByteOff ==
    ASSUME NEW n \in Nat
    PROVE  /\ Rest(n) \in Nat /\ Low(n) \in Bytes
           /\ n > 0 => Rest(n) < n
           /\ Rest(n) * BYTE + Low(n) = n
<1>1. BYTE \in Nat /\ BYTE > 1
  BY TimeAssumption
<1>2. /\ Rest(n) \in Nat /\ Low(n) \in 0..(BYTE - 1)
      /\ Low(n) = n - BYTE * Rest(n)
  BY <1>1, Modulo DEF Low, Rest
<1>3. Rest(n) * BYTE + Low(n) = n /\ (n > 0 => Rest(n) < n)
  BY <1>1, <1>2, Quotient
<1> QED
  BY <1>2, <1>3 DEF Bytes

\* What remains of a number as its bytes are taken off.
Remains(value, k, f) ==
    f[0] = value /\ \A j \in 1..k : f[j] = Rest(f[j - 1])

LEMMA RemainsExists ==
    ASSUME NEW value \in Nat, NEW k \in Nat
    PROVE  \E f \in [0..k -> Nat] : Remains(value, k, f)
<1> DEFINE S == {n \in Nat : \E f \in [0..n -> Nat] : Remains(value, n, f)}
<1>1. 0 \in S
  <2>1. [j \in 0..0 |-> value] \in [0..0 -> Nat] /\ Remains(value, 0, [j \in 0..0 |-> value])
    BY DEF Remains
  <2> QED
    BY <2>1
<1>2. ASSUME NEW n \in Nat, n \in S
      PROVE  n + 1 \in S
  <2>1. PICK f \in [0..n -> Nat] : Remains(value, n, f)
    BY <1>2
  <2> DEFINE g == [j \in 0..(n + 1) |-> IF j = n + 1 THEN Rest(f[n]) ELSE f[j]]
  <2>2. f[n] \in Nat /\ Rest(f[n]) \in Nat
    BY <2>1, ByteOff
  <2>3. /\ g \in [0..(n + 1) -> Nat] /\ g[n + 1] = Rest(f[n])
        /\ \A j \in 0..n : g[j] = f[j]
    BY <2>2
  <2> HIDE DEF g
  <2>4. ASSUME NEW j \in 1..(n + 1)
        PROVE  g[j] = Rest(g[j - 1])
    <3>1. CASE j = n + 1
      <4>1. j - 1 = n /\ n \in 0..n
        BY <3>1
      <4> QED
        BY <2>3, <3>1, <4>1
    <3>2. CASE j # n + 1
      <4>1. j \in 1..n /\ j \in 0..n /\ j - 1 \in 0..n
        BY <3>2
      <4> QED
        BY <2>1, <2>3, <4>1 DEF Remains
    <3> QED
      BY <3>1, <3>2
  <2>5. g[0] = value
    BY <2>1, <2>3 DEF Remains
  <2>6. n + 1 \in Nat /\ Remains(value, n + 1, g)
    BY <2>4, <2>5 DEF Remains
  <2> QED
    BY <2>3, <2>6
<1> HIDE DEF S
<1>3. k \in S
  BY <1>1, <1>2, Counting
<1> QED
  BY <1>3 DEF S

LEMMA RemainsAlike ==
    ASSUME NEW value, NEW k \in Nat, NEW m \in Nat, k <= m,
           NEW f, Remains(value, k, f), NEW g, Remains(value, m, g)
    PROVE  f[k] = g[k]
<1> DEFINE S == {j \in Nat : j <= k => f[j] = g[j]}
<1>1. 0 \in S
  BY DEF Remains
<1>2. ASSUME NEW j \in Nat, j \in S
      PROVE  j + 1 \in S
  <2>1. SUFFICES ASSUME j + 1 <= k
                 PROVE  f[j + 1] = g[j + 1]
    OBVIOUS
  <2>2. j + 1 \in 1..k /\ j + 1 \in 1..m /\ (j + 1) - 1 = j /\ f[j] = g[j]
    BY <1>2, <2>1
  <2> QED
    BY <2>2 DEF Remains
<1> HIDE DEF S
<1>3. k \in S
  BY <1>1, <1>2, Counting
<1> QED
  BY <1>3 DEF S

\* The definition of Shifted, as a run.
LEMMA ShiftedRemains ==
    ASSUME NEW value \in Nat, NEW k \in Nat, NEW f, Remains(value, k, f)
    PROVE  Shifted(value, k) = f[k]
<1> DEFINE Run(g) == g = [j \in 0..k |-> IF j = 0 THEN value ELSE Rest(g[j - 1])]
           remaining == CHOOSE g : Run(g)
<1>1. Shifted(value, k) = remaining[k]
  BY DEF Shifted, Rest
<1>2. PICK g \in [0..k -> Nat] : Remains(value, k, g)
  BY RemainsExists
<1>3. Run(g)
  <2>1. \A j \in 0..k : g[j] = IF j = 0 THEN value ELSE Rest(g[j - 1])
    BY <1>2 DEF Remains
  <2> QED
    BY <2>1
<1>4. Run(remaining)
  <2> HIDE DEF Run
  <2> QED
    BY <1>3, Zenon
<1> HIDE DEF remaining
<1>5. Remains(value, k, remaining)
  <2>1. \A j \in 0..k : remaining[j] = IF j = 0 THEN value ELSE Rest(remaining[j - 1])
    BY <1>4
  <2>2. 0 \in 0..k /\ \A j \in 1..k : j \in 0..k /\ j # 0
    OBVIOUS
  <2> QED
    BY <2>1, <2>2 DEF Remains
<1> QED
  BY <1>1, <1>5, RemainsAlike

\* A byte more is a division more (encode_integer's loop).
LEMMA ShiftedFacts ==
    ASSUME NEW value \in Nat
    PROVE  /\ Shifted(value, 0) = value
           /\ \A k \in Nat : /\ Shifted(value, k) \in Nat
                             /\ Shifted(value, k + 1) = Rest(Shifted(value, k))
<1>1. ASSUME NEW k \in Nat
      PROVE  /\ Shifted(value, k) \in Nat
             /\ Shifted(value, k + 1) = Rest(Shifted(value, k))
             /\ k = 0 => Shifted(value, k) = value
  <2>0. k + 1 \in Nat /\ k <= k + 1
    OBVIOUS
  <2>1. PICK f \in [0..(k + 1) -> Nat] : Remains(value, k + 1, f)
    BY <2>0, RemainsExists
  <2>2. k + 1 \in 1..(k + 1) /\ (k + 1) - 1 = k /\ k \in 0..(k + 1)
        /\ \A j \in 1..k : j \in 1..(k + 1)
    OBVIOUS
  <2>3. Remains(value, k, f)
    BY <2>1, <2>2 DEF Remains
  <2>4. Shifted(value, k) = f[k] /\ Shifted(value, k + 1) = f[k + 1]
    BY <2>0, <2>1, <2>3, ShiftedRemains
  <2>5. f[k + 1] = Rest(f[k]) /\ f[k] \in Nat /\ f[0] = value
    BY <2>1, <2>2 DEF Remains
  <2> QED
    BY <2>4, <2>5
<1> QED
  BY <1>1

\* Bytes in the order a number is read in, the highest first.
Readable(value, bytes) ==
    /\ Shifted(value, Len(bytes)) = 0
    /\ \A i \in 1..Len(bytes) : bytes[i] = Low(Shifted(value, Len(bytes) - i))

\* They make the number they were taken off.
LEMMA ReadsBack ==
    ASSUME NEW value \in Nat, NEW bytes, Len(bytes) \in Nat, Readable(value, bytes)
    PROVE  Unsigned(bytes) = value
<1> DEFINE L == Len(bytes)
           Run(g) == g = [n \in 0..L |-> IF n = 0 THEN 0 ELSE g[n - 1] * BYTE + bytes[n]]
           read == CHOOSE g : Run(g)
           known == [n \in 0..L |-> Shifted(value, L - n)]
<1>1. Unsigned(bytes) = read[L]
  BY DEF Unsigned
<1>2. L \in Nat /\ BYTE \in Nat
  BY TimeAssumption
<1>3. ASSUME NEW n \in 0..L
      PROVE  known[n] = IF n = 0 THEN 0 ELSE known[n - 1] * BYTE + bytes[n]
  <2>1. known[n] = Shifted(value, L - n)
    OBVIOUS
  <2>2. CASE n = 0
    BY <1>2, <2>1, <2>2 DEF Readable
  <2>3. CASE n # 0
    <3>1. /\ n - 1 \in 0..L /\ n \in 1..L /\ L - n \in Nat /\ L - (n - 1) = (L - n) + 1
      BY <1>2, <2>3
    <3>2. known[n - 1] = Shifted(value, (L - n) + 1)
      BY <3>1
    <3>3. bytes[n] = Low(Shifted(value, L - n))
      BY <3>1 DEF Readable
    <3> DEFINE s == Shifted(value, L - n)
    <3>4. s \in Nat /\ known[n - 1] = Rest(s) /\ known[n] = s /\ bytes[n] = Low(s)
      BY <2>1, <3>1, <3>2, <3>3, ShiftedFacts
    <3> HIDE DEF s, known
    <3>5. Rest(s) * BYTE + Low(s) = s
      BY <3>4, ByteOff
    <3> QED
      BY <2>3, <3>4, <3>5
  <2> QED
    BY <2>2, <2>3
<1>4. Run(known)
  BY <1>3
<1>5. Run(read)
  <2> HIDE DEF Run, known
  <2> QED
    BY <1>4, Zenon
<1>6. \A n \in 0..L : known[n] \in Int
  <2>1. ASSUME NEW n \in 0..L
        PROVE  known[n] \in Int
    <3>1. L - n \in Nat
      BY <1>2
    <3> QED
      BY <3>1, ShiftedFacts
  <2> QED
    BY <2>1
<1>7. known[L] = value
  <2>1. L - L = 0 /\ L \in 0..L
    BY <1>2
  <2> QED
    BY <2>1, ShiftedFacts
<1>8. \A n \in 0..L : read[n] = IF n = 0 THEN 0 ELSE read[n - 1] * BYTE + bytes[n]
  <2> HIDE DEF read
  <2> QED
    BY <1>5
<1> HIDE DEF read, known, Run
<1> DEFINE S == {n \in Nat : n <= L => read[n] = known[n]}
<1>9. 0 \in S
  BY <1>2, <1>3, <1>8
<1>10. ASSUME NEW n \in Nat, n \in S
       PROVE  n + 1 \in S
  <2>1. SUFFICES ASSUME n + 1 <= L
                 PROVE  read[n + 1] = known[n + 1]
    OBVIOUS
  <2>2. n + 1 \in 0..L /\ n + 1 # 0 /\ (n + 1) - 1 = n /\ read[n] = known[n]
    BY <1>2, <1>10, <2>1
  <2>3. read[n + 1] = read[n] * BYTE + bytes[n + 1]
    BY <1>8, <2>2
  <2>4. known[n + 1] = known[n] * BYTE + bytes[n + 1]
    BY <1>3, <2>2
  <2> QED
    BY <2>2, <2>3, <2>4
<1> HIDE DEF S
<1>11. L \in S
  BY <1>2, <1>9, <1>10, Counting
<1>12. read[L] = known[L]
  BY <1>2, <1>11 DEF S
<1> QED
  BY <1>1, <1>7, <1>12

\* A number below as many bytes' worth leaves nothing.
LEMMA DivBelow ==
    ASSUME NEW n \in Nat, NEW m \in Nat, n < m * BYTE
    PROVE  Rest(n) < m
<1> DEFINE q == Rest(n)
<1>1. BYTE \in Nat /\ q \in Nat /\ q * BYTE <= n
  <2>1. BYTE \in Nat /\ q \in Nat /\ Low(n) \in Nat /\ q * BYTE + Low(n) = n
    BY ByteOff, TimeAssumption DEF Bytes
  <2> HIDE DEF q
  <2>2. q * BYTE \in Int
    BY <2>1
  <2> QED
    BY <2>1, <2>2
<1> HIDE DEF q
<1>2. q < m
  <2>1. SUFFICES ASSUME q >= m
                 PROVE  FALSE
    BY <1>1
  <2>2. q * BYTE >= m * BYTE
    BY <1>1, <2>1, SMTT(30)
  <2>3. q * BYTE \in Nat /\ m * BYTE \in Nat
    BY <1>1
  <2> QED
    BY <1>1, <2>2, <2>3
<1> QED
  BY <1>2 DEF q

\* INTEGER_EXT reads back: four bytes hold what is below their worth.
LEMMA BigEndianReads ==
    ASSUME NEW value \in Nat, value < Signed32
    PROVE  /\ Len(BigEndian(value)) = 4
           /\ Readable(value, BigEndian(value))
           /\ \A i \in DOMAIN BigEndian(value) : BigEndian(value)[i] \in Bytes
<1>1. BYTE \in Nat /\ BYTE > 1
  BY TimeAssumption
<1> DEFINE P == BYTE * BYTE * BYTE * BYTE
<1>2. BYTE * BYTE \in Nat /\ BYTE * BYTE * BYTE \in Nat /\ P \in Nat
  BY <1>1
<1>3. value < P
  <2> HIDE DEF P
  <2>1. P \div 2 <= P /\ P \div 2 \in Nat
    BY <1>2
  <2>2. Signed32 = P \div 2
    BY DEF Signed32, P
  <2> QED
    BY <1>2, <2>1, <2>2
<1>4. /\ Shifted(value, 1) = Rest(value) /\ Shifted(value, 1) \in Nat
      /\ Shifted(value, 2) = Rest(Shifted(value, 1)) /\ Shifted(value, 2) \in Nat
      /\ Shifted(value, 3) = Rest(Shifted(value, 2)) /\ Shifted(value, 3) \in Nat
      /\ Shifted(value, 4) = Rest(Shifted(value, 3)) /\ Shifted(value, 4) \in Nat
  <2>1. 0 + 1 = 1 /\ 1 + 1 = 2 /\ 2 + 1 = 3 /\ 3 + 1 = 4
    OBVIOUS
  <2> QED
    BY <2>1, ShiftedFacts
<1>5. Shifted(value, 1) < BYTE * BYTE * BYTE
  BY <1>2, <1>3, <1>4, DivBelow
<1>6. Shifted(value, 2) < BYTE * BYTE
  BY <1>2, <1>4, <1>5, DivBelow
<1>7. Shifted(value, 3) < BYTE
  BY <1>1, <1>4, <1>6, DivBelow
<1>8. Shifted(value, 4) < 1
  <2>1. 1 * BYTE = BYTE /\ 1 \in Nat
    BY <1>1
  <2> QED
    BY <1>4, <1>7, <2>1, DivBelow
<1>9. BigEndian(value) = [i \in 1..4 |-> Low(Shifted(value, 4 - i))]
  BY DEF BigEndian, Low
<1>10. Len(BigEndian(value)) = 4 /\ DOMAIN BigEndian(value) = 1..4
  BY <1>9
<1>11. \A i \in 1..4 : BigEndian(value)[i] = Low(Shifted(value, 4 - i))
  BY <1>9
<1>12. ASSUME NEW i \in 1..4
       PROVE  Low(Shifted(value, 4 - i)) \in Bytes
  <2>1. 4 - i \in Nat
    OBVIOUS
  <2>2. Shifted(value, 4 - i) \in Nat
    BY <2>1, ShiftedFacts
  <2> QED
    BY <2>2, ByteOff DEF Bytes
<1>13. Shifted(value, 4) = 0
  BY <1>4, <1>8
<1> QED
  BY <1>10, <1>11, <1>12, <1>13 DEF Readable

\* SMALL_BIG_EXT reads back: the loop ends, and takes the lowest byte first.
LEMMA DigitsRead ==
    ASSUME NEW value \in Nat
    PROVE  /\ Len(Reverse(Digits(value))) \in Nat
           /\ Readable(value, Reverse(Digits(value)))
           /\ \A i \in DOMAIN Digits(value) : Digits(value)[i] \in Bytes
<1> DEFINE Ends(k) == Shifted(value, k) = 0 /\ \A j \in 0..(k - 1) : Shifted(value, j) # 0
           count == CHOOSE k \in 0..value : Ends(k)
           G == {k \in Nat : Shifted(value, k) = 0 \/ Shifted(value, k) + k <= value}
           Z == {k \in Nat : Shifted(value, k) = 0}
<1>1. 0 \in G
  BY ShiftedFacts
<1>2. ASSUME NEW k \in Nat, k \in G
      PROVE  k + 1 \in G
  <2> DEFINE s == Shifted(value, k)
             t == Shifted(value, k + 1)
  <2>1. s \in Nat /\ t = Rest(s)
    BY ShiftedFacts
  <2>2. t \in Nat /\ (s > 0 => t < s)
    BY <2>1, ByteOff
  <2>3. s = 0 => t = 0
    <3>2. s = 0 => t < 1
      <4>1. BYTE \in Nat /\ BYTE > 1 /\ 1 * BYTE = BYTE /\ 1 \in Nat
        BY TimeAssumption
      <4> QED
        BY <2>1, <4>1, DivBelow
    <3> QED
      BY <2>2, <3>2
  <2>4. s = 0 \/ s + k <= value
    BY <1>2
  <2> HIDE DEF s, t
  <2>5. t = 0 \/ t + (k + 1) <= value
    BY <2>1, <2>2, <2>3, <2>4
  <2> QED
    BY <2>5 DEF t
<1> HIDE DEF G
<1>3. value \in G
  BY <1>1, <1>2, Counting
<1>4. value \in Z
  <2>1. Shifted(value, value) \in Nat
    BY ShiftedFacts
  <2> QED
    BY <1>3, <2>1 DEF G
<1>5. PICK k \in Z : \A y \in Z : k <= y
  <2>1. Z \subseteq Nat /\ Z # {}
    BY <1>4
  <2> HIDE DEF Z
  <2> QED
    BY <2>1, LeastOne
<1>6. k \in 0..value /\ Ends(k)
  <2>1. k \in Nat /\ k <= value /\ Shifted(value, k) = 0
    BY <1>4, <1>5
  <2>2. ASSUME NEW j \in 0..(k - 1)
        PROVE  Shifted(value, j) # 0
    <3>1. j \in Nat /\ ~(k <= j)
      BY <2>1
    <3> QED
      BY <1>5, <3>1
  <2> QED
    BY <2>1, <2>2
<1>7. count \in 0..value /\ Ends(count)
  <2> HIDE DEF Ends
  <2> QED
    BY <1>6
<1>8. Digits(value) = [i \in 1..count |-> Low(Shifted(value, i - 1))]
  BY DEF Digits, Low
<1>9. count \in Nat /\ Shifted(value, count) = 0
  BY <1>7
<1> HIDE DEF count
<1>10. /\ Len(Digits(value)) = count /\ DOMAIN Digits(value) = 1..count
       /\ \A i \in 1..count : Digits(value)[i] = Low(Shifted(value, i - 1))
  BY <1>8, <1>9
<1>11. ASSUME NEW i \in 1..count
       PROVE  Low(Shifted(value, i - 1)) \in Bytes
  <2>1. i - 1 \in Nat
    BY <1>9
  <2>2. Shifted(value, i - 1) \in Nat
    BY <2>1, ShiftedFacts
  <2> QED
    BY <2>2, ByteOff DEF Bytes
<1>12. Reverse(Digits(value)) = [i \in 1..count |-> Digits(value)[(count - i) + 1]]
  BY <1>10 DEF Reverse
<1>13. Len(Reverse(Digits(value))) = count
  BY <1>9, <1>12
<1>14. ASSUME NEW i \in 1..count
       PROVE  Reverse(Digits(value))[i] = Low(Shifted(value, count - i))
  <2>1. (count - i) + 1 \in 1..count /\ ((count - i) + 1) - 1 = count - i
    BY <1>9
  <2> QED
    BY <1>10, <1>12, <2>1
<1> QED
  BY <1>9, <1>10, <1>11, <1>13, <1>14 DEF Readable

\* A time that is not negative reads back, in whichever form (encode_integer).
LEMMA EncodingReads ==
    ASSUME NEW value \in Nat
    PROVE  /\ Decoded(encode_integer(value)) = value
           /\ \A i \in DOMAIN encode_integer(value).bytes :
                 encode_integer(value).bytes[i] \in Bytes
<1> DEFINE e == encode_integer(value)
<1>1. BYTE \in Nat /\ BYTE > 1
  BY TimeAssumption
<1>2. CASE value < BYTE
  <2> DEFINE reading == Reverse(<<value>>)
  <2>1. e.tag = "SMALL_INTEGER_EXT" /\ e.bytes = <<value>>
    BY <1>2 DEF encode_integer
  <2>2. Len(reading) = 1 /\ reading[1] = value
    BY DEF Reverse
  <2>3. Rest(value) = 0 /\ Low(value) = value
    <3>1. 1 * BYTE = BYTE /\ 1 \in Nat
      BY <1>1
    <3>2. Rest(value) \in Nat /\ Rest(value) < 1
      BY <1>2, <3>1, ByteOff, DivBelow
    <3>3. Rest(value) * BYTE + Low(value) = value /\ Low(value) \in Int
      BY <1>1, ByteOff DEF Bytes
    <3>4. Rest(value) = 0 /\ 0 * BYTE = 0
      BY <1>1, <3>2
    <3> QED
      BY <3>3, <3>4
  <2>4. Shifted(value, 0) = value /\ Shifted(value, 1) = 0
    <3>1. 0 + 1 = 1
      OBVIOUS
    <3> QED
      BY <2>3, <3>1, ShiftedFacts
  <2> HIDE DEF reading
  <2>5. Readable(value, reading)
    <3>1. ASSUME NEW i \in 1..Len(reading)
          PROVE  reading[i] = Low(Shifted(value, Len(reading) - i))
      <4>1. i = 1 /\ Len(reading) - i = 0
        BY <2>2
      <4> QED
        BY <2>2, <2>3, <2>4, <4>1
    <3> QED
      BY <2>2, <2>4, <3>1 DEF Readable
  <2>6. Unsigned(reading) = value
    BY <2>2, <2>5, ReadsBack
  <2>7. Decoded(e) = Unsigned(reading)
    BY <2>1 DEF Decoded, HighestFirst, reading
  <2>8. value \in Bytes
    BY <1>1, <1>2 DEF Bytes
  <2> QED
    BY <2>1, <2>6, <2>7, <2>8
<1>3. CASE ~(value < BYTE) /\ value < Signed32
  <2>1. e.tag = "INTEGER_EXT" /\ e.bytes = BigEndian(value)
    BY <1>3 DEF encode_integer
  <2>2. Unsigned(BigEndian(value)) = value
    BY <1>3, BigEndianReads, ReadsBack
  <2>3. ~(value >= Signed32)
    <3>1. BYTE * BYTE * BYTE * BYTE \in Nat
      BY <1>1
    <3>2. Signed32 \in Int
      BY <3>1 DEF Signed32
    <3> QED
      BY <1>3, <3>2
  <2> HIDE DEF e
  <2>4. Decoded(e) = value
    BY <2>1, <2>2, <2>3 DEF Decoded, HighestFirst
  <2> QED
    BY <1>3, <2>1, <2>4, BigEndianReads DEF e
<1>4. CASE ~(value < BYTE) /\ ~(value < Signed32)
  <2>1. e.tag = "SMALL_BIG_EXT" /\ e.bytes = Digits(value)
    BY <1>4 DEF encode_integer
  <2>2. Unsigned(Reverse(Digits(value))) = value
    BY DigitsRead, ReadsBack
  <2> HIDE DEF e
  <2>3. Decoded(e) = value
    BY <2>1, <2>2 DEF Decoded, HighestFirst
  <2> QED
    BY <2>1, <2>3, DigitsRead DEF e
<1> QED
  BY <1>2, <1>3, <1>4

\* A signature's headers are made from one reading, which is not negative.
SignatureInv == \A s \in signature : \E t \in Nat : s = headers(t)

LEMMA SignatureStep == TicketInv /\ SignatureInv /\ [Next]_vars => SignatureInv'
<1> SUFFICES ASSUME TicketInv, SignatureInv, [Next]_vars
             PROVE  SignatureInv'
  OBVIOUS
<1>1. CASE signature' = signature
  BY <1>1 DEF SignatureInv
<1>2. CASE RamLost
  BY <1>2 DEF RamLost, SignatureInv
<1>3. CASE Signs
  <2>1. since_1970 \in Nat
    BY DEF since_1970, TicketInv, ClocksTypeOK
  <2> QED
    BY <1>3, <2>1 DEF Signs, SignatureInv
<1> QED
  BY <1>1, <1>2, <1>3
  DEF Next, Tick, SetsClock, Sleeps, PowerCycles, TakesTicket, save_session, load,
      HandshakeOver, LogLine, SendLogs, vars

LEMMA SignatureReads == SignatureInv => SignatureReadable
<1> SUFFICES ASSUME SignatureInv, NEW s \in signature
             PROVE  /\ Decoded(s.payload) = s.time * MS
                    /\ \A i \in DOMAIN s.payload.bytes : s.payload.bytes[i] \in 0..(BYTE - 1)
  BY DEF SignatureReadable
<1>1. PICK t \in Nat : s = headers(t)
  BY DEF SignatureInv
<1>2. t * MS \in Nat
  BY TimeAssumption
<1>3. s.time = t /\ s.payload = encode_integer(t * MS)
  BY <1>1 DEF headers
<1> QED
  BY <1>2, <1>3, EncodingReads DEF Bytes

\* NervesHub reads from a payload the very time that its header gives, in each
\* of the three forms an integer is encoded in, for bytes of any width and
\* whatever the clock says (SharedSecret::headers, encode_integer).
THEOREM SignaturesRead == Spec => []SignatureReadable
<1>1. Init => SignatureInv
  BY DEF Init, SignatureInv
<1> QED
  BY <1>1, TicketInit, TicketStep, SignatureStep, SignatureReads, PTL DEF Spec

============================================================================
