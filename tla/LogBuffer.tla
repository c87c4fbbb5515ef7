----------------------------- MODULE LogBuffer -----------------------------
(***************************************************************************)
(* logging.rs, and the part of agent.rs and link.rs that drains it: any    *)
(* number of threads log through Capture::log while the agent's thread     *)
(* takes batches and sends them.  A step is what happens under one hold of *)
(* the lock, or one atomic operation on the count of dropped lines.        *)
(*                                                                         *)
(* A lock is poisoned only by a panic, which resets an ESP32, so lock()    *)
(* always succeeds here.  A record below the forwarding level returns      *)
(* before it reaches any of this.  Times are left out.                     *)
(***************************************************************************)
EXTENDS Naturals, Sequences, FiniteSets

CONSTANTS
    Threads,        \* whoever logs
    Sizes,          \* the lengths a message may have
    LineSize,       \* size_of::<LogLine>()
    capacity,       \* LogBuffer.capacity
    max_bytes,      \* LogBuffer.max_bytes, of heap
    BatchLines,     \* LOG_BATCH_MAX_LINES
    BatchBytes,     \* LOG_BATCH_MAX_BYTES, of JSON
    MaxLogged,      \* bound on the lines a thread logs
    MaxLosses       \* bound on sessions that end

ASSUME ThreadsAssumption == IsFiniteSet(Threads)

ASSUME SizesAssumption == Sizes \subseteq Nat /\ LineSize \in Nat

ASSUME LimitsAssumption ==
    /\ capacity \in Nat /\ max_bytes \in Nat
    /\ BatchLines \in Nat \ {0} /\ BatchBytes \in Nat
    /\ MaxLogged \in Nat /\ MaxLosses \in Nat

VARIABLES
    lines,          \* Backlog.lines
    bytes,          \* Backlog.bytes
    dropped,        \* LogBuffer.dropped
    logging,        \* where each thread is in Capture::log: the line it is
                    \* building, or has been refused room for, as a sequence
    refused,        \* the threads told there is no room, the line not counted yet
    attached,       \* how logging is attached: "no", "single" or "batched"
    batch,          \* what take_stamped has gathered
    drain,          \* where the agent is: "idle", "note" or "send"
    \* History.
    logged,         \* lines logged, by thread
    sent,           \* what went out, in order
    unsent,         \* lines, and drops to tell of, in batches that were not sent
    losses          \* how many of MaxLosses have happened

queueVars == <<lines, bytes, dropped>>
loggerVars == <<logging, refused, logged>>
agentVars == <<attached, batch, drain, sent, unsent, losses>>
vars == <<queueVars, loggerVars, agentVars>>

----------------------------------------------------------------------------

Line(t, n, size) == [kind |-> "line", thread |-> t, n |-> n, size |-> size]
Note(n) == [kind |-> "note", count |-> n]

heap_cost(line) == LineSize + line.size
approximate_json_len(line) == line.size

\* The sum of what a function of numbers gives, each counted out.
Total(amounts) == Cardinality(UNION {{i} \X (1..amounts[i]) : i \in DOMAIN amounts})

Heap(items) == Total([i \in 1..Len(items) |-> heap_cost(items[i])])
Json(items) == Total([i \in 1..Len(items) |-> approximate_json_len(items[i])])

\* What is accounted for by an item that is sent: itself, or the drops it tells of.
Tells(item) == IF item.kind = "line" THEN 1 ELSE item.count
Told(items) == Total([i \in 1..Len(items) |-> Tells(items[i])])

----------------------------------------------------------------------------

Init ==
    /\ lines = <<>> /\ bytes = 0 /\ dropped = 0
    /\ logging = [t \in Threads |-> <<>>] /\ refused = {}
    /\ attached = "no" /\ batch = <<>> /\ drain = "idle"
    /\ logged = [t \in Threads |-> 0]
    /\ sent = <<>> /\ unsent = 0 /\ losses = 0

----------------------------------------------------------------------------
(* Capture::log, on any thread.                                            *)

\* As has_room, with a backlog that fits exactly called full.
has_room_Mut == Len(lines) < capacity /\ bytes + LineSize + 1 < max_bytes

has_room == Len(lines) < capacity /\ bytes + LineSize <= max_bytes

\* The logger asks for room before it builds the line.
AskRoom(t, size) ==
    /\ logging[t] = <<>>
    /\ logged[t] < MaxLogged
    /\ logged' = [logged EXCEPT ![t] = @ + 1]
    /\ logging' = [logging EXCEPT ![t] = <<Line(t, logged[t] + 1, size)>>]
    /\ refused' = IF has_room THEN refused ELSE refused \cup {t}
    /\ UNCHANGED <<queueVars, agentVars>>

\* has_room said no: the lock is released, then the line counted as lost.
CountRefused(t) ==
    /\ t \in refused
    /\ dropped' = dropped + 1
    /\ refused' = refused \ {t}
    /\ logging' = [logging EXCEPT ![t] = <<>>]
    /\ UNCHANGED <<lines, bytes, logged, agentVars>>

Fits(line) == Len(lines) < capacity /\ bytes + heap_cost(line) <= max_bytes

\* As push, with a line that finds no room not counted.
push_Silent(t) ==
    /\ logging[t] # <<>> /\ t \notin refused
    /\ IF Fits(logging[t][1])
       THEN /\ lines' = Append(lines, logging[t][1])
            /\ bytes' = bytes + heap_cost(logging[t][1])
       ELSE UNCHANGED <<lines, bytes>>
    /\ logging' = [logging EXCEPT ![t] = <<>>]
    /\ UNCHANGED <<dropped, refused, logged, agentVars>>

\* It said yes: the line is built, and the room may be gone by now.
push(t) ==
    /\ logging[t] # <<>> /\ t \notin refused
    /\ IF Fits(logging[t][1])
       THEN /\ lines' = Append(lines, logging[t][1])
            /\ bytes' = bytes + heap_cost(logging[t][1])
            /\ UNCHANGED dropped
       ELSE dropped' = dropped + 1 /\ UNCHANGED <<lines, bytes>>
    /\ logging' = [logging EXCEPT ![t] = <<>>]
    /\ UNCHANGED <<refused, logged, agentVars>>

----------------------------------------------------------------------------
(* send_logs, on the agent's thread.                                       *)

\* Logging is attached, at the version that batches or the one that does not.
Attach ==
    /\ attached = "no"
    /\ attached' \in {"single", "batched"}
    /\ UNCHANGED <<queueVars, loggerVars, batch, drain, sent, unsent, losses>>

Detach ==
    /\ attached # "no"
    /\ drain = "idle"
    /\ losses < MaxLosses
    /\ losses' = losses + 1
    /\ attached' = "no"
    /\ UNCHANGED <<queueVars, loggerVars, batch, drain, sent, unsent>>

max_lines == IF attached = "batched" THEN BatchLines ELSE 1

\* Whether a batch of the first n lines is one the loop would have gathered.
Gathers(n) ==
    /\ n <= Len(lines) /\ n <= max_lines
    /\ n > 1 => Json(SubSeq(lines, 1, n)) <= BatchBytes

\* The loop stops where the next line would pass a limit.
Gathered(n) == Gathers(n) /\ \A m \in 0..Len(lines) : Gathers(m) => m <= n

\* The first hold of the lock goes on to the second if it ran out of lines.
AfterTaking(n) == IF n = Len(lines) /\ n < max_lines THEN "note" ELSE "send"

\* As Takes, with the heap of the lines taken not given back.
Takes_Mut(n) ==
    /\ batch' = SubSeq(lines, 1, n)
    /\ lines' = SubSeq(lines, n + 1, Len(lines))
    /\ drain' = AfterTaking(n)
    /\ UNCHANGED bytes

\* As Takes, with the newest lines sent first.
Takes_Newest(n) ==
    /\ batch' = SubSeq(lines, Len(lines) - n + 1, Len(lines))
    /\ lines' = SubSeq(lines, 1, Len(lines) - n)
    /\ bytes' = Heap(lines')
    /\ drain' = AfterTaking(n)

\* As Takes, with an empty backlog taken to mean there is nothing to say.
Takes_Silent(n) ==
    /\ batch' = SubSeq(lines, 1, n)
    /\ lines' = SubSeq(lines, n + 1, Len(lines))
    /\ bytes' = bytes - Heap(batch')
    /\ drain' = IF lines = <<>> THEN "idle" ELSE AfterTaking(n)

Takes(n) ==
    /\ batch' = SubSeq(lines, 1, n)
    /\ lines' = SubSeq(lines, n + 1, Len(lines))
    /\ bytes' = bytes - Heap(batch')
    /\ drain' = AfterTaking(n)

\* The first hold of the lock: lines up to either limit.  A batch stopped by
\* its bytes goes as it is.
take_stamped ==
    /\ attached # "no" /\ drain = "idle"
    /\ \E n \in 0..Len(lines) : Gathered(n) /\ Takes(n)
    /\ UNCHANGED <<dropped, loggerVars, attached, sent, unsent, losses>>

\* The second hold, by pop: a line that came in meanwhile, or the note.
pop ==
    /\ drain = "note"
    /\ \/ /\ lines # <<>>
          /\ batch' = Append(batch, Head(lines))
          /\ lines' = Tail(lines)
          /\ bytes' = bytes - heap_cost(Head(lines))
          /\ UNCHANGED dropped
       \/ /\ lines = <<>>
          /\ batch' = IF dropped = 0 THEN batch ELSE Append(batch, Note(dropped))
          /\ dropped' = 0
          /\ UNCHANGED <<lines, bytes>>
    /\ drain' = IF batch' = <<>> THEN "idle" ELSE "send"
    /\ UNCHANGED <<loggerVars, attached, sent, unsent, losses>>

Send ==
    /\ drain = "send"
    /\ sent' = sent \o batch
    /\ batch' = <<>>
    /\ drain' = "idle"
    /\ UNCHANGED <<queueVars, loggerVars, attached, unsent, losses>>

\* As SendFails, with the error looked over and the session going on.
SendFails_Silent ==
    /\ drain = "send"
    /\ losses < MaxLosses
    /\ losses' = losses + 1
    /\ unsent' = unsent + Told(batch)
    /\ batch' = <<>>
    /\ drain' = "idle"
    /\ UNCHANGED <<queueVars, loggerVars, attached, sent>>

\* link.send_logs fails: `?` ends the session, and the batch goes with it.
SendFails ==
    /\ drain = "send"
    /\ losses < MaxLosses
    /\ losses' = losses + 1
    /\ unsent' = unsent + Told(batch)
    /\ batch' = <<>>
    /\ drain' = "idle"
    /\ attached' = "no"
    /\ UNCHANGED <<queueVars, loggerVars, sent>>

----------------------------------------------------------------------------

Logger(t) == CountRefused(t) \/ push(t)

AgentDrains == take_stamped \/ pop \/ Send

Next ==
    \/ \E t \in Threads : Logger(t) \/ \E size \in Sizes : AskRoom(t, size)
    \/ Attach \/ Detach
    \/ AgentDrains \/ SendFails

\* A thread inside a logging call goes on, so does the agent, and a lost
\* session is replaced by another that attaches logging.
Spec ==
    /\ Init /\ [][Next]_vars
    /\ \A t \in Threads : WF_vars(Logger(t))
    /\ WF_vars(AgentDrains)
    /\ WF_vars(Attach)

----------------------------------------------------------------------------
(* Properties.                                                             *)

\* The backlog stays inside both limits, although a thread asks for room in one
\* hold of the lock and pushes in another with other threads between them: the
\* heap is there for the TLS handshake.  The account of what it takes is exact,
\* however pushes and pops interleave.
WithinLimits ==
    /\ Len(lines) <= capacity /\ bytes <= max_bytes
    /\ bytes = Heap(lines)

\* The threads inside a logging call.
Busy == {t \in Threads : logging[t] # <<>>}

\* Every line logged is being built, waiting, on its way, delivered, counted as
\* dropped, or was in a batch whose send failed, and is so exactly once: pop
\* swaps the count out and misses no drop that races with it, and the line pop
\* takes between the two holds of the lock is neither lost nor sent twice.
Accounted ==
    Total(logged) =
        Cardinality(Busy) + Len(lines) + Told(batch) + Told(sent) + dropped + unsent

\* All that was sent, is about to be, or waits, oldest first.
Path == sent \o batch \o lines

\* Lines reach NervesHub in the order each thread logged them, across batches,
\* drops, and sessions that end; none is sent twice.
InOrder ==
    \A i, j \in 1..Len(Path) :
        /\ i < j /\ Path[i].kind = "line" /\ Path[j].kind = "line"
        /\ Path[i].thread = Path[j].thread
        => Path[i].n < Path[j].n

\* "It never refuses what push would take" (logging.rs:215): a line for which
\* has_room answers no is one that push would have dropped in the same state.
NeverRefusesWhatFits ==
    [][\A t \in Threads : t \in refused' \ refused => ~Fits(logging'[t][1])]_vars

\* The threads have paused for good, and a session with logging lasts: what the
\* drain needs to get to the note, which waits for an empty backlog.
Lasting == <>[](\A t \in Threads : logging[t] = <<>>) /\ <>[](attached # "no")

\* Once the threads pause and a session lasts, all that was logged has gone out, as
\* a line or in the number of a note, but for what was in a batch whose send
\* failed: nothing stays behind in the backlog or the count, in either version of
\* the protocol, whatever sessions ended before.  Without the pause nothing is
\* promised: a thread that logs as often as 0.0.1 sends, a line each 250 ms,
\* postpones the note for ever (logging.rs:280).  And a count that was in a batch
\* whose send failed (unsent) is told of by nobody: pop has swapped it out, and
\* nothing puts it back (agent.rs:1095).
DropsAreTold == Lasting => <>[](Told(sent) + unsent = Total(logged))

\* What the buffer and its drain implement: see LossyQueue.tla.
Q == INSTANCE LossyQueue WITH
        Lines   <- [kind : {"line"}, thread : Threads, n : 1..MaxLogged, size : Sizes],
        calls   <- logging,
        queue   <- batch \o lines,
        lost    <- dropped,
        session <- IF attached = "no" THEN "off" ELSE "on"

\* Though a line is asked for, pushed and counted in steps of its own, and drained
\* in two holds of the lock and a send, the log behaves as one queue: a line is
\* kept or counted in one step, the note takes its turn, and what was kept is
\* lost only with a session (push, has_room, take_stamped, pop, send_logs).
ImplementsLossyQueue == Q!Spec

============================================================================
