# A TLA+ verification of nerves-hub-link-esp32

The crate connects an ESP32 to NervesHub: it keeps a Phoenix channel open over
TLS, reports what the device runs, installs the firmware NervesHub offers into
the inactive flash slot, reboots into it, and confirms it once NervesHub has
accepted a join from it. Nobody can walk up to most of these devices, so what
matters is that no order of updates, failures, resets and messages leaves one
unbootable, unreachable, or deaf to the server. This directory holds TLA+ models
of that machinery, the TLC runs that check them, and TLAPS proofs of every safety
property the runs check: which firmware a device runs, how long it may be silent
or deaf, what it reads, what it loses of its log, what its terminal runs, and what
it does to its sockets and clocks.

Paths of the form `agent.rs:970` are under `src/src/`. `PROJECT.json` maps every
definition to the lines it models, and lists the runs, hazards and theorems.

    tlc -workers 2 -config MCAgent.cfg MCAgent      # one run
    tlapm AgentProofs.tla                           # one module of proofs

## 1. Inventory

Threads: the agent (the application's thread, in `run` or `run_session`), the
ESP-IDF websocket client's task, and any thread that logs. Outside: the
bootloader, NervesHub, the CDN that serves firmware, lwIP, and power.

| Part | State | Operations | Talks to |
|---|---|---|---|
| `ota.rs` | two slots, otadata, the writer's mode and open handle | begin, write, commit, abort, mark_valid; pending_verify, auto_revert_detected | ESP-IDF's `esp_ota_*`, the bootloader |
| `install.rs`, `checksum.rs` | expected size, bytes written, hash, retries used | open with retries, copy, check, commit or abort | `http.rs`, `ota.rs`, the agent's Pump for progress |
| `agent.rs` | attempt count, joined, confirmed, heartbeat times, the session window, the console's reader and commands | run, session_within, apply, confirm_running_image, send_logs, answer_console, the Pump | all of the others |
| `link.rs` | refs, joined, the outstanding heartbeat, extensions, the console's join | join, handle a frame, heartbeat, firmware_validated, status, progress, console output | `transport.rs`, `extensions.rs` |
| `extensions.rs` | invitation, join ref, attached extensions, report owed | on_invitation, version, join_params, on_join_reply, on_event, logs | `link.rs` |
| `inbound.rs`, `transport.rs` | partial message, unread bytes, closes counted, overflow; the client and what it runs over | connect, connected, closed, piece, read, ends_session, drop | client's task on one side, agent on the other |
| `logging.rs` | backlog and its bytes behind a mutex, an atomic drop count | has_room, push, take_stamped, pop, stamp | any thread, and the agent's drain |
| `tls.rs`, `tls_session.rs` | the connection, the published socket, stop flag, ticket due; one saved session | connect, poll, read, close, stop, destroy; load, save, re-date, forget | client's task, the agent dropping it, the application before and after sleep |
| `console.rs` | a half-typed line, the escape sequence it is in; a command's output so far | feed, parse, write_str | the session's console topic |
| `update.rs` | the last percentage reported | actionable, ProgressThrottle::take | `install.rs`, the agent |
| `shared_secret.rs` | none: a signature a connect | headers, encode_integer | the wall clock, NervesHub |
| `config.rs`, `message.rs`, `metadata.rs`, `health.rs`, `whenwhere.rs`, `identity.rs`, `esp.rs`, `error.rs` | data, encodings, readings, credentials | | |

What is hard here, and the property that says it goes right:

* **Resets.** Power can go between any two flash operations, and the first boot
  of a new image is itself only a trial. `AlwaysBootable`, `FallbackIntact`,
  `RevertStaysVisible`, `ImplementsRollback`.
* **A download from a server nobody controls.** `StagedIsVerified`,
  `RetriesCostOnlyTime`, `ProgressTold`, `InstallEnds`.
* **Confirmation and rollback against the network.** The decision to keep an
  image depends on a message, and the messages, an operator's reboot, the next
  update and a reset may come in any order. `ValidMeansJoined`, `Recoverable`,
  `RestartKeepsImage`, `ValidatedIsTrue`, `BackoffKeepsUp`, `ProbationEnds`,
  `UpdateConverges`.
* **A client that reconnects by itself.** `SessionIsItsSocket`,
  `WholeMessages`, `HeldBounded`, `DeafnessEnds`.
* **Threads that log while the agent drains.** `WithinLimits`, `Accounted`, `InOrder`,
  `NeverRefusesWhatFits`, `DropsAreTold`, and all together `ImplementsLossyQueue`.
* **Time.** Heartbeats change hands when a download starts, replies wait
  unread behind callbacks, and a bounded session must leave in time, not owing
  anything, and not wait for what cannot come. `UnansweredMeansSilence`, `DeafnessNoticed`, `SilenceBounded`,
  `WindowKept`.
* **A terminal with keys in chunks**, under sessions that come and go.
  `RunsWhatWasTyped`, `PromptThenLine`, `OutputMarked`.
* **Two clocks**, one that restarts at every boot and one that may be anything,
  by which tickets, log lines and signatures are dated. `TicketAgeKept`,
  `LoggedTimesKept`, `SignatureReadable`.
* **Stopping a task that sits in `select`**, on a socket number that lwIP may
  have given to somebody else. `DropEnds`, `OthersUntouched`, `ExportedOnce`,
  `NotOfferedAgain`; and taking apart what was made, all of it or as far as it
  got, while a task may still use it. `NothingLostOrDangling`.

## 2. Modules

    Rollback        the protocol the slots implement (abstract)
      ^ refined by
    Ota             ota.rs, slots, otadata, bootloader
      ^ extended by
    Install         install.rs over Ota
      ^ extended by
    Agent           agent.rs, link.rs, socket and NervesHub over Install

    Inbound         inbound.rs, the receiving half of transport.rs
    LossyQueue      what the log promises whoever reads it (abstract)
      ^ refined by
    LogBuffer       logging.rs, and the drain in agent.rs

    Session         one session of agent.rs, link.rs, extensions.rs, with time
    Tls             tls.rs, tls_session.rs, the making half of transport.rs
    Console         console.rs, and its sessions in agent.rs and link.rs
    Clocks          what tls_session.rs, logging.rs, shared_secret.rs date

`MC*.tla` give the constants values; `*Proofs.tla` hold the theorems. A
definition whose name ends in `_Mut` (or `_Silent`, `_Newest`, `_Erases`, `_Inverted`, `_Waits`) is a plausible
wrong version of the next one; nothing uses it except the entry under "mutants"
in `PROJECT.json`, which shows that the property notices the difference.

**Rollback** is what a reader would say OTA with rollback does: stage, take over
on probation, then confirm or revert.

**Ota** has the contents and otadata record of each slot, the selected and the
running slot, and the `OtaWriter` (its slot and its mode). Each `esp_ota_*` call
is a step that may fail, and `Reset` may come between any two; it models the
bootloader: demote an image that reset on probation, choose a slot, put a new
image on probation. The actions drive the writer in any order a client of
`ImageSink` could. A patch is an outcome (it feeds, finalizes, or fails), not a
format. `Corrupt` is what `esp_ota_end` accepts and is still not a published
image. Because `esp_ota_begin` is called on the first chunk (`ota.rs:104`), the
other slot's record survives a download that never starts.

**Install** adds the progress of `install`: where it is (`ipc`), the update, the
expected size, chunks written, the percentage last reported, whether a byte was
wrong, retries and seconds waited. Lengths are in chunks. A checksum is modelled by what matching one
establishes: the right length and no wrong byte. `sink.commit()?` returns without
an abort, as in the code. A connection that dies while `Progress` reports ends
the install as it does there.

**Agent** adds `run` and `session_within` (one `pc`), the `Link`, the socket, and
NervesHub's side of the channel. A step is one call with an effect outside the
agent, so a reset, a dying socket or a message can come between any two. An
accepted join may carry an update (`agent.rs:839`), read before the loop gets to
confirm the image. Faults of the network, the flash calls, the server and power,
and what an operator does, are counted against `MaxFaults`. `proven` and `unjoined` are history
variables. There is no clock: an unanswered heartbeat is the step `SessionDies`
on a socket that no longer delivers.

**Inbound** has the client's task, which loses its socket and connects again by
itself, calling `on_event` for every piece; NervesHub sending messages of several
frames and pieces; and the agent, which takes a frame from the channel in one step
and counts it off under the mutex in another. A message is the sequence of
`Headers` the client gives its pieces (opcode, final, offset, length), of which
`FramingAssumption` says what makes `Inbound::piece` able to put it together: its
first piece alone starts a frame with a kind, its last alone ends a final one.
`MCInbound` computes the headers from a message's frames. Every piece carries the
message and the socket it came on as history, every close the socket it is the
close of, 0 for an attempt that never connected. What is held is counted from the
frames themselves (`Bytes`), to be compared with `unread`.

`SessionIsItsSocket` is about what the agent takes from the queue: frames of the
socket it joined on (`joinSock`), and to end the session, unless it has stopped
reading, the close of that socket. The code makes one exception, which the property
states: `connect` looks every 50 ms whether there is a connection
(`transport.rs:245-251`), and where a socket is connected, reported and lost again
between two looks, and the next one connected too, it returns with the second; the
close of the first has a number past `closes_before_connecting`, so the session
reads it and ends on a good socket. That costs one more connection. The client
itself waits far longer than 50 ms before it tries again, so that it takes an agent
kept from running for seconds. A close of a failed attempt, or of a later socket,
never ends a session.

**LogBuffer** takes a step per hold of the lock and per atomic operation.
`take_stamped` and the `pop` for the note are two holds, and a thread's question
for room and its push are two more; other threads come in between. A failed send
loses its batch and ends the session.

**LossyQueue** is what that amounts to for whoever reads the log: a call keeps its
line at the end of one queue or counts it as lost, in one step; the note that tells
of the count waits its turn like a line; what was kept goes out from the front and
is lost only from the front, with the session. `Q` in `LogBuffer` maps the buffer to
it: the queue is the batch followed by the backlog, `lost` is `dropped`, and the
session is on while logging is attached. Asking for room and taking lines into a
batch are no steps of it. `ImplementsLossyQueue` states the refinement; there is no
fairness in it. What happens in the end is `DropsAreTold`, and only on two
conditions, which the formula names (`Lasting`): the threads pause for good, and a
session with logging lasts. The note waits for an empty backlog (`logging.rs:280`),
so a device that keeps logging as fast as it may send (a line each 250 ms at 0.0.1)
postpones it for ever. And `DropsAreTold` counts what was in a batch whose send
failed (`unsent`) apart, lines and counts of drops alike: nobody is told of those.

**Session** is the loop of `session_within` in ticks: time passes in
`recv_frame`, in callbacks, and inside the calls of a download, and nowhere else.
Both owners of the heartbeat (the loop and the Pump) are there, with the
extensions' handshake, health and log reports, bounded sessions with linger and
limit, and `control` asking to leave or to report health. What the application set
the agent up with is `use`: a window or none, the extensions it enabled, and whether
it has a health provider. Without one a health check is answered with nothing
(`agent.rs:535`) and `nothing_outstanding` does not wait for it (`agent.rs:911`).

`WindowKept` does not repeat `nothing_outstanding`: it asks, of the frames unread and
of the questions NervesHub has heard and not answered (`StillComing`), whether what
the device goes by was true. A session that leaves early leaves nothing on its way;
one that stays past the linger stays for something on its way, which it cannot
tell from silence only on a connection gone deaf; and the limit ends both.

A download's pump sends what the backlog holds between two calls, as the loop does.

**Tls** is one websocket after another on one saved session. A step of the
client's task ends where the `Stopper` could tell: at a load of `stopping`, at
the mutex, in `select`. Others in the program open and close sockets and take
numbers that are free. The stopper looks for the socket and shuts down what it
found in two steps, under the mutex. A deep sleep does what the documentation tells the
application to do. Around that is `WebSocketTransport::connect`: the base
transport, the websocket transport over it, the client over that and the box its
events are kept in are made one after the other, any step may fail, and what was
made is released by `Partial` or, once the client's task runs, by the transport's
own drop.

**Console** has the agent's `LineReader` (the line, the state of an escape
sequence, whether a CR was last), the lines a chunk completed and the reply being
put together, the `Output` of a running command, and at the other end the
operator's terminal, whose current line it keeps. The reader belongs to the
agent and the channel to a connection. Keys are typed one at a time and arrive in
chunks; a character has its width in UTF-8; what a command prints is pieces of
given widths. `Finals` are the characters from `@` to `~`, which end an escape
sequence. `typed` and `answered` are history: `RunsWhatWasTyped` compares what was
taken for a command with a definition of the lines in the whole text that does
not go by state machine. `SequenceAt` says which keys a sequence takes in,
`Escapes` where sequences begin, `Plain` which keys are outside them, `Enters`
which of these end a line, and `LineBefore` what such a line is.

**Clocks** has `mbedtls_ms_time`, which restarts at every boot, and the wall clock,
which goes on through a sleep, is 1970 after a power cycle, and is set by whoever
sets it, to the time give or take. Over them are a ticket's way from the connection
to the saved session and into the next handshake, the time stamps of log lines,
and the time a shared-secret signature is made for with `encode_integer`'s three
forms: `Shifted` is the loop that takes a byte off at a time, `Decoded` what
Erlang reads. `since_1970` is what the code makes of a wall clock before 1970,
which is zero. The three share nothing but the clocks, so a behaviour is about
one of them.

Parts that are external to the crate (the bootloader, ESP-IDF's client task,
lwIP, NervesHub) are modelled from how the crate uses them and are marked so in
the map.

## 3. Runs

| Run | States | What it shows |
|---|---|---|
| `ota` | 1 k | Any use of the writer, with failures and resets anywhere, keeps the device bootable, a probation's predecessor intact and a revert visible, and implements `Rollback`. |
| `install` | 382 k | Whatever length, status, `Retry-After` or bytes the server sends, a success with a checksum has staged what was published, nothing is retried after the first byte, waits are bounded, progress is told to within a step and 100 % exactly at the end, and the download ends. |
| `agent` | 347 k | With a firmware that works and one that cannot connect, and three faults: nothing unheard of is confirmed, the device is never stranded, a probation is not cut short by the agent, and the backoff keeps up. |
| `agent_live` | 38 k | Probations of working firmware end, and the device ends up on what NervesHub deploys. |
| `inbound` | 153 k | Three sockets, four shapes of message: messages are whole and of the session's own socket, memory is bounded and counted exactly, a session ends when its socket is gone and never by the close of a failed attempt or a later socket. |
| `log_buffer` | 52 k | Two threads and a lossy drain: both limits hold and the heap is counted exactly, every line is accounted for once, order is kept, nothing stays untold once the threads pause and a session lasts, and the whole implements `LossyQueue`. |
| `session` | 6.4 M | Six uses of the agent: a live server is not taken for dead, a dead one is noticed, silence is bounded, a bounded session keeps its limit, owes nothing when it leaves early, and waits for nothing that cannot come. |
| `tls` | 287 k | Three connects on two socket numbers, with assembly failing and stops anywhere: nothing is leaked or freed under its user, a drop ends, no stranger's socket is shut down, a session is exported once and not offered again in the boot it failed in. |
| `console` | 1.1 M | Up to four keys in chunks of up to three, with two restarts, uploads or lost connections: the lines that run are those typed, the terminal shows a prompt and the line that Enter would submit, and output that is not whole is marked. |
| `clocks` | 483 k | Two settings of the clock, one of them perhaps to before 1970, or losses of power over five ticks: a ticket is never from the future and keeps its age, a line keeps its time or order, a signed time reads back. |

Two runs show a disagreement between the code and what is written about it:

* `agent_reboots`: "the device is going to reboot either way" (`agent.rs:991`).
  Each of the sends after the commit is a `?`; if the socket died during the
  download the agent goes back to its old image and connects again. The update
  stays staged until something resets the device or the update is offered again
  (`UpdateConverges` holds all the same).
* `tls_starts_clean`: after a failed resumption "the next attempt starts clean"
  (`tls.rs:234`). In RAM it does (`NotOfferedAgain`); the copy in RTC memory is
  overwritten only when there is a session to save, so it comes back after a sleep.

### Bounds

* `ota`: three images, so that the staged, the running and an older one differ.
  No other bound; the state space is closed.
* `install`: a file of three chunks, so there is a first chunk, a middle one and
  a last, and with `Content-Length` 2, 3 and 4 a short, an exact and a long
  promise. A progress step of 50 is met exactly, passed, and not met, by their
  percentages. Status
  403 is final and 503 is retried; `Retry-After` 0 is below every backoff and 200
  above the cap of 120. All eight combinations of declared size, checksum and
  kind of payload. `MaxLen` is past every length a count is compared with.
* `agent`: three faults allow, for example, a failed download, a lost socket and
  a power loss in one history; two frames in the inbox allow a message behind an
  unread join reply. Two entries of backoff: the first and the repeated last.
  `broken` comes without a checksum and as a patch, so the worst staged image
  is reached. `agent_live` has only `release` and `Apply`: a handler that ignores
  updates, or a server that deploys broken firmware, does not converge.
* `inbound`: three sockets allow a loss before and after joining, and a socket
  behind the session's back; a limit of four pieces is reached with two messages
  unread. It may stop once the sockets are used up, hence no deadlock check.
* `log_buffer`: capacity two, where both limits can bind (a long line reaches the
  heap limit, short ones the line count); a batch limit of two lines and of
  bytes; two lines a thread.
* `session`: one device logs while it is updated, one stays connected with
  callbacks and updates, one reports its health of itself; and three come for a
  window: one with health and logging, one with health but no provider, one with no
  extensions. Each is spoken to by what matters to it. Ten ticks with an interval of three cover a heartbeat, its reply or
  its absence, a download across the next one, and the one after. Linger 2 and
  limit 5 put the limit on either side of the invitation wait and of a heartbeat.
* `tls`: two socket numbers force reuse; three connects allow save, failure, and
  the connection after it; both protocol versions.
* `console`: two letters, of one and two bytes, one of which ends an escape sequence, of which one line is a registered
  command, one `reboot` and one a built-in; a line limit of two bytes, met with
  room for half a character; four keys make a whole escape sequence and a line
  after it, or CRLF and a line; an output limit of five bytes met exactly and by
  a character too wide. One frame in the inbox: more only wait.
* `clocks`: a wall clock of 20 ticks past 1970, up to three ahead, or one before
  1970 that passes it within the five ticks, against a plausible one of 10; five ticks cover a ticket taken, saved, slept on and
  offered, with a setting at either end. Bytes of four values put the times that
  are signed in all three forms of an integer.

No symmetry is declared: the images of `Agent` differ in role, and with liveness
in most of the other runs it would not be sound.

### Fairness

* `install`: weak fairness of the running install: its thread is scheduled, and
  HTTP and flash calls return (they have timeouts). Nothing is assumed of what
  the server sends.
* `agent_live`: weak fairness of the agent's steps, of NervesHub accepting a
  join and of its offering the update it deploys. Faults are bounded by
  `MaxFaults`, so they stop. Without these, an unanswered device would be the
  counterexample.
* `inbound`: weak fairness of the agent: it comes back to reading, since no
  download lasts for ever (`InstallEnds`). Nothing of the client or the server.
* `log_buffer`: a thread inside a logging call goes on, the agent drains, and a
  lost session is replaced by one that attaches logging.
* `tls`: the task and the owner are scheduled, and a handshake ends within its
  timeout. Of `select` only that it returns from a socket that was shut down:
  `DropEnds` may not rely on data or on a poll running out.

`ota`, `agent`, `session`, `console` and `clocks` check safety and need none.

## 4. Proofs

All for arbitrary constants under the named assumptions, of three kinds: shapes
(`LengthsAssumption`, `StatusesAssumption`, `UpdatesAssumption`,
`WorkingAssumption`, `DecisionsAssumption`, `BackoffAssumption`,
`BoundsAssumption`, `SizesAssumption`, `MessagesAssumption`, `TimeAssumption`,
`CharactersAssumption` (a character takes one to four bytes), `VocabularyAssumption`
and `ThreadsAssumption` (finitely many threads log), and those of `Session` and
`Tls`); that an image is none of the three markers of slot
contents (`ImagesAssumption`); and that a message's pieces are framed as RFC 6455
has it (`FramingAssumption`). TLC evaluates each in the run of its module.

* **InstallProofs**, of the slots first. `OtaInv` has four parts besides types.
  `RunningSound`: the running slot holds an image the bootloader has not given up
  on. `StagedSound`: the other slot is selected exactly while it holds a committed
  image that has not run. `OpenSound`: an open slot has no record and its writer is
  not on probation. `ProbationSound`: a probation has a predecessor. None is
  inductive alone: that a commit cannot overwrite the predecessor needs
  `OpenSound`, which needs ESP-IDF's refusal to begin on a pending image, and that
  a reset lands on something bootable needs `StagedSound` and `ProbationSound`
  both. From it: `SlotsAlwaysBootable`, `ProbationHasFallback`,
  `SlotSwitchesGuarded`, `RevertReported`, and the refinement
  `OtaImplementsRollback`, in which staging is a `Commit`, and every other writer
  call stutters or, when the slot is opened over a staged image, unstages it.
  `InstallInv` adds to `OtaInv` that an install on its way to
  commit has passed its checks, and that nothing is open while it can still
  retry. From it `InstallStagesWhatWasPublished`.
  `PatienceBounded` is inductive with it (`RetryWaitBounds` is the lemma), and the
  two together give `InstallRetriesCostTime`; `InstallTellsProgress` needs `ProgressInv`, that one
  percentage is kept from the first chunk on, and `PercentFacts`, that a percentage
  never falls and is 100 only at the end, for every length. The
  invariants `OtaInv`, `InstallInv` and `AgentInv` themselves are theorems only
  (`OtaInvariant`, `InstallInvariant`, `AgentInvariant`), as is
  `SlotSwitchIsGuarded`: the runs check what follows from them.
* **AgentProofs.** `AgentInv` adds `ValidMeansJoined`; `JoinSound` (an accepted
  join, read or still in the inbox, is the running image's); `AnswerFirst` (the
  reply comes before anything else); `ConfirmedSound` (past the confirmation
  and past a commit nothing is on probation); `WorkingSound` (working firmware
  is running, or is what the probation falls back to); and `BackoffKeepsUp`.
  `JoinSound` has to speak of replies not yet read, since a reset, or a new
  socket, could come between acceptance and reading. From it:
  `OnlyJoinedIsConfirmed`, `NeverStranded`, `NoRestartOnProbation`,
  `ValidatedIsNeverReverted`, `BackoffNeverLags`. `AgentImplementsOta` says that
  every step of the whole system is a step of `OtaSpec` or leaves the slots
  alone, so what is proved of the slots alone holds under the agent.
* **TlsProofs.** `TlsInv` has four parts besides types. `SocketInv`: what is
  published, and what the stopper has found under the mutex, is the connection's
  own socket. `PartsInv`: where the thread is tells what there is of the
  transport, and that its task has ended by the time anything under it goes.
  `ConnectionInv`: a handshake starts with nothing of the connection before it.
  `SessionInv`: sessions are named for the connect they are from, and one that
  failed was offered by a later one, so nothing saved since is the same; it also
  needs that what was offered is still what is saved until the handshake has been
  recorded. The first rests on the third, since only a task that has given the
  socket up takes a new one. From it, under `TlsAssumption`:
  `StopTouchesNoOther`, `TransportReleased`, `FailedNotOffered`, `OneExport`.
* **ClocksProofs.** `TicketInv` says of a date, wherever it is, that on the clock
  it was made for it tells the ticket's age: on mbedTLS's while the connection
  has the ticket, and on the wall clock while the session is saved and as long as
  `sets` has not moved, if that clock was past 1970 when it was saved. `RebaseAge` is the lemma about `rebase`: an age that is
  not negative is kept, any other becomes zero. `TicketAge` is `TicketAgeKept`
  for every epoch, clock error and bound, under `TimeAssumption`.
  `LoggedTimes` is about log lines: `LinesInv` adds to `LoggedTimesKept` that the
  last line sent is no later than the wall clock less the time since it was
  logged, as long as nobody set the clock back; `StampFacts` keeps the
  microseconds that tell the lines of a batch apart within the tick.
  `SignaturesRead` is about `encode_integer`, for bytes of any width. `ByteOff`
  takes a number apart, `ShiftedFacts` says that the loop does so again and again,
  `ReadsBack` that bytes taken off until nothing was left make the number when
  they are read highest first, and `DigitsRead` and `BigEndianReads` that the two
  long forms are such bytes: that the loop ends, and that what is below
  `Signed32` fits four.
* **SessionProofs.** `SessionInv` is about time. `TurnInv`: past the check at the
  head of a turn the interval since `last_heartbeat` is not over, but for what
  callbacks and calls have taken since. `SentInv`: the loop counts the interval
  from something it sent, a download from its own start, which explains why the
  bound on silence is two intervals and not one. `QuietInv`: a deaf connection has
  nothing more to read, and its one outstanding heartbeat is what the next check
  finds. `BackInv`: a frame has been unread, or the loop back from a download, for
  no longer than the frames that can be ahead of it take, by its place in the
  inbox. `InboxInv` and `HandshakeInv` say of the extensions join and of the health
  check that sets in with it that each is owed, on its way back, or dealt with,
  only one of these and, on a connection that delivers, at least one. `WindowInv`
  says where a bounded session may be: it looks at its window with the extensions
  joined if they are to be, is past its limit by one wait or callback, and leaves
  early or stays as `nothing_outstanding` has it. `WindowKept` follows from these
  two: what the device takes for done or outstanding is done or on its way. From it `UnansweredIsSilence`, `DeafnessIsNoticed`,
  `SilenceIsBounded` and `WindowIsKept`, for every interval, window, and length of
  callbacks and calls.
* **InboundProofs.** `InboundInv` has, besides types: `ArrivingInv`, that what is
  on its way is the rest of one message and, unless the queue has overflowed,
  what is being put together is the part before; it is what a lost socket breaks
  and the first piece of the next message repairs, since `Gathered` then starts
  anew. `QueueInv`: queued frames are whole, and no close is numbered past the
  count. `HandInv`: a frame is in hand only between the two steps of reading one.
  `ConnectedInv`: it is known which closes are later ones as soon as there could
  be one. `SocketInv`: a session whose socket is gone has the close of it in the
  queue, ahead of every frame of another socket, and so of every later socket's
  close (`SessionStep`). `AccountInv`: what is counted is
  what is queued and in hand. `BytesAppend` and `BytesTail` are the lemmas about
  the count; `PieceFacts`, `Gathers` and `DataOutcome` say what the pieces of a
  framed message make of `Inbound::piece`. From it `WhatIsHeldIsBounded`,
  `FramesAreWhole` and `SessionsKeepToASocket`, for any number of sockets.
* **LogBufferProofs.** Sums are sizes of sets (`Total`: a cell for each unit of
  each number), so that no induction is needed: `TotalSplit` maps the cells of the
  second part of a sequence one to one onto those of the part by itself,
  `TotalOneMore` adds one cell, and `HeapFacts` and `ToldFacts` say what follows
  for appended and divided batches. `WithinLimits` and `Accounted` are inductive
  with the types and `HandInv`: a thread in a logging call has the last line it
  logged in hand, and an agent that is idle has no batch. `InOrder` also needs
  `OlderInv`, that what has left a thread's hands is older than what is in them.
  `DrainTakes` reduces both ways of taking lines to one, a front of the backlog
  that moves to the end of the batch, and `PathMoves` says what is left for
  `InOrder` to survive: one more at the end, or the batch lost out of the middle.
  From it `LimitsAreKept`, `EveryLineIsAccountedFor`, `LinesKeepTheirOrder` and
  `RefusalsAreRight`, which rests on a line costing `LineSize` at the least.
  `LogIsALossyQueue` proves the refinement, one step of the buffer at a time:
  `KeptOrLost` for a call that ends, `DrainAs` for the drain, where taking lines
  leaves batch and backlog together as they were, and `FrontApart` for a batch that
  is sent or lost off the front of the two. It needs `SendingInv`: lines are taken
  and sent only while logging is attached, whose end ends the drain too.

* **ConsoleProofs.** `ConsoleInv` has four parts besides types. `SessionOK`: there
  is nothing to answer between chunks, and a session that has not joined has read
  nothing. `DisplayOK`: a terminal that is not askew shows a prompt and the
  reader's line, or will once the reply being put together has been sent; while
  lines are being answered the reader's own line is empty. `ReadingOK`: reader and
  lines are where `FeedKeys` would have brought a new reader over all the keys as
  one text, which is what makes chunks of no account (`FeedConcat`, `FeedAlike`).
  `Marked`: an output that lacks anything says so. From the second and
  `EchoShows`, that the echo of a chunk does to the terminal what the chunk did to
  the line, comes `PromptShowsTheLine`; from the last and `WriteStr`, which follows
  `Output::write_str` for a piece of any widths, `OutputIsMarked`.
  `WhatRunsWasTyped` compares the reader's run with the definition that has no
  states: `EscapeTracks` says at each key which state the reader is in by where the
  latest sequence began, so that `EscapesAre`, `PlainAre` and `EntersAre` find
  the reader's own sequences and Enters, `LineTracks` its line, and `LinesTrack`
  counts the lines against the Enters.

Where the code goes over data key by key or byte by byte, induction is by least
counterexample: `Counting` says that a set of numbers that has 0, and with each
number the next, has all of them, from the library's `WFMin` and
`NatLessThanWellFounded`. A recursive function is shown to exist by building it up
to each length (`RunExists`, `RemainsExists`) and to be the only one that starts
and goes on as it does (`SameRun`, `RemainsAlike`).

Only model-checked: liveness (`InstallEnds`, `ProbationEnds`, `UpdateConverges`,
`DeafnessEnds`, `DropsAreTold`, `DropEnds`), which TLAPS does not reach under
fairness.

## 5. What the models leave out

* `Agent` has no time and `Session` no flash; the loop they share is in both.
  `Session` leaves out progress reports, which only make the device less silent,
  and the console, which is in `Console` without time.
* `UnansweredMeansSilence` allows a reply to have been waiting for as long as
  callbacks kept the loop from reading it: one for each frame, and one before it
  where `control` may report health. Callbacks longer than the interval do end a
  live session.
* `LogBuffer` leaves out levels and time stamps (`Clocks` has those), and the
  poisoning of locks, which takes a panic and so a reset.
* The uuid of the update being downloaded (`link.rs:113`) is set and cleared around
  a download inside one handler (`agent.rs:961`, `966`), and its `Link` goes with the
  session, so no join carries it and there is no behaviour of it to model.
* `Tls` leaves out writes, which run under the client's own lock, certificates
  and error codes. That `Box::new` fails is left out: it aborts.
* `Console` leaves out the device channel, updates, and what the device commands
  print; input that is not UTF-8 cannot arrive, as frames are text.
* `Clocks` has no widths: ages and times are far from the ends of `i64`. It has no
  negative integers either: what is signed is never negative.
* Not modelled: the encodings of messages, HMAC and key derivation, sensors, the
  location lookup (a request and its parsing, with nothing kept between two),
  metadata, the patch format; these are data, arithmetic on bytes or I/O.

Seen while modelling, and stated by no run:

* An update in the join reply of a pending image is handled before the image is
  confirmed (`agent.rs:839`), and `esp_ota_begin` refuses it; the update fails
  and has to be offered again.
* `run` learns of a join one turn of the loop late (`agent.rs:726`): a session
  lost right after the reply counts as one that never joined. It errs on the
  slow side, which is what `BackoffKeepsUp` says.
* A commit that fails is not followed by an abort (`install.rs:137`, as opposed
  to `install.rs:114`); `AlwaysBootable` holds all the same.
* Of dropped lines "the count of what was lost is reported once the backlog clears"
  (`logging.rs:50`). `pop` sets the counter to zero to write the note, and when the
  send of its batch fails (`agent.rs:1095`) the batch is gone and the count with it:
  the next session has nothing to report. `unsent` in `Accounted` and `DropsAreTold`
  is where such lines and counts go.
* A socket that comes and goes between two of `connect`'s looks ends the session
  that then joins on the next one (`inbound.rs:103`), as described under Inbound. The
  comment on `ends_session` says no more than the code does.
* The line `pop` takes between the two holds of the lock is not weighed against
  the batch's bytes (`logging.rs:273`).
* A connection that goes deaf during a download is noticed two intervals after
  the download, not two intervals after it went (`agent.rs:848`).
* A stop during a handshake waits for it (`tls.rs:192`).
* The version of logging is recomputed from the last invitation
  (`extensions.rs:389`). One that comes after the device joined uninvited,
  declaring 0.0.1, makes `logging_batched` true (`extensions.rs:402`), and batches
  go out on an attachment made at 0.0.1.
* The Pump takes the start of a download for the last heartbeat
  (`agent.rs:1046`), so a device can be silent for almost two intervals while a
  download waits to be retried, where the interval is documented to have to
  "stay under the server's socket timeout" (`config.rs:125`). What does hold is
  `SilenceBounded`.
* 100 % is reported when the last byte is written (`install.rs:246`), before the
  checksum has been compared: NervesHub is told of a complete download that may
  still fail.
* A line that has a time of its own keeps it, and one without gets the time it
  is sent at (`logging.rs:317`): what was logged before the clock was set sorts
  after what was logged just after. `LoggedTimesKept` orders lines of the second
  kind only.
* A wall clock before 1970 reads as 1970 (`tls.rs:610`), so a ticket saved by one
  and offered after it has passed 1970 looks younger than it is. `TicketAgeKept`
  gives such a session no age to keep, only a date that is not in the future.
* A write to an output that is exactly full marks it cut, an empty write too
  (`console.rs:80`).
* After a file is declined no prompt is sent (`link.rs:369`), and after a reconnect
  the terminal shows a prompt without the line half typed before: `askew` in
  `Console`.

## 6. Plan

Done: the chain Rollback, Ota, Install, Agent; Inbound, LogBuffer, Session, Tls,
Console and Clocks, all with their proofs. Left, in this order:

1. An abstract specification of the inbound queue (a session's messages and its
   end), refined by `Inbound` as `LossyQueue` is by `LogBuffer`. `Inbound` keeps no
   record of what was read, which such a refinement has to speak of.
2. The two hazards no property covers (see `PROJECT.json`): an invitation that
   comes after the device joined without one (`extensions.rs:379`), which needs the
   version an attachment was made at, and a download of unknown length
   (`install.rs:238`), which needs slots that have a size.
