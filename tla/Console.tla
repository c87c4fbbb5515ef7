------------------------------ MODULE Console ------------------------------
(***************************************************************************)
(* The debug terminal: console.rs's LineReader and Output, answer_console  *)
(* and Console.run of agent.rs, the console channel of link.rs, and the    *)
(* operator's terminal at the other end of it.                             *)
(*                                                                         *)
(* The reader belongs to the agent and the channel to one connection, so   *)
(* sessions come and go under a line half typed.  A step is one chunk read,*)
(* one write of a command, or one message sent.  What a line means is the  *)
(* constant Vocabulary; a character is itself or its width in UTF-8, and a *)
(* piece of text that no property tells apart is one token.                *)
(***************************************************************************)
EXTENDS Naturals, Sequences, FiniteSets

CONSTANTS
    Width,          \* the printable characters, and the bytes each takes
    Finals,         \* those from '@' to '~': they end an escape sequence
    Typeable,       \* what the operator's keyboard sends
    LineLimit,      \* 256, in bytes
    Vocabulary,     \* what some lines are: "registered", "reboot", "builtin"
    MAX_OUTPUT,     \* in bytes
    Pieces,         \* what a command may pass to one write_str, as widths
    MaxKeys, MaxChunk, MaxWrites, MaxInbox,
    MaxEvents       \* restarts, uploads and lost connections

Printable == DOMAIN Width
Controls == {"ESC", "CR", "LF", "BS", "CTRL"}
Keys == Printable \cup Controls

\* What goes to the terminal besides characters.
Marks == {"NEWLINE", "ERASE", "OUTPUT", "PROMPT"}

ASSUME CharactersAssumption ==
    /\ Width \in [Printable -> 1..4] /\ Printable \cap (Controls \cup Marks) = {}
    /\ "[" \in Finals /\ Finals \subseteq Printable
    /\ Typeable \subseteq Keys /\ LineLimit \in Nat
    /\ Pieces \subseteq Seq(1..4) /\ MAX_OUTPUT \in Nat

ASSUME VocabularyAssumption ==
    \A line \in DOMAIN Vocabulary :
        /\ line \in Seq(Printable) /\ line # <<>>
        /\ Vocabulary[line] \in {"registered", "reboot", "builtin"}

ASSUME BoundsAssumption ==
    {MaxKeys, MaxChunk, MaxWrites, MaxInbox, MaxEvents} \subseteq Nat

VARIABLES
    pc,             \* "off", "loop", "answering", "running", "rebooting"
    reader,         \* LineReader
    lines,          \* the chunk's completed lines still to be answered
    reply,          \* answer_console's reply
    out,            \* the Output of the command that runs
    joined,         \* session_within's console_joined
    \* The connection, NervesHub and the terminal.
    sock,           \* "up" or "lost"
    srv,            \* "none", "joining", "open": NervesHub's console channel
    inbox,          \* frames of the console channel not yet read
    screen,         \* the terminal's current line: [prompt, text]
    spent,          \* [keys, events], against the bounds
    \* History.
    typed,          \* the keys fed to this reader
    answered,       \* the lines answered, or lost with their session
    greeted,        \* the join's reply has been handled
    askew,          \* the screen is known not to show the reader's line
    wrote           \* all the command that runs has written

agentVars == <<pc, reader, lines, reply, out, joined>>
netVars == <<sock, srv, inbox, screen, spent>>
history == <<typed, answered, greeted, askew, wrote>>
vars == <<agentVars, netVars, history>>

----------------------------------------------------------------------------
(* Output.                                                                 *)

Bytes(widths) ==
    LET sum[n \in 0..Len(widths)] == IF n = 0 THEN 0 ELSE sum[n - 1] + widths[n]
    IN  sum[Len(widths)]

NoOutput == [text |-> <<>>, truncated |-> FALSE]

\* The longest start of s that fits: a cut on a character boundary.
Cut(s, room) ==
    LET fits == {n \in 0..Len(s) : Bytes(SubSeq(s, 1, n)) <= room}
    IN  SubSeq(s, 1, CHOOSE n \in fits : \A k \in fits : k <= n)

\* As write_str, with a piece that does not fit dropped and not noted.
write_str_Mut(o, s) ==
    LET room == MAX_OUTPUT - Bytes(o.text)
    IN  IF room = 0 THEN o ELSE [o EXCEPT !.text = @ \o Cut(s, room)]

write_str(o, s) ==
    LET room == MAX_OUTPUT - Bytes(o.text)
    IN  IF room = 0
        THEN [o EXCEPT !.truncated = TRUE]
        ELSE [text |-> o.text \o Cut(s, room),
              truncated |-> o.truncated \/ Bytes(s) > room]

----------------------------------------------------------------------------
(* LineReader.                                                             *)

NewReader == [line |-> <<>>, escape |-> "No", pending_newline |-> FALSE]

LineBytes(line) == Bytes([i \in DOMAIN line |-> Width[line[i]]])

WithoutLast(line) == SubSeq(line, 1, Len(line) - 1)

\* What a key outside escape sequences does to f, which is what feed has so far:
\* the reader, the echo and the lines.
Keeps(f, escape) ==
    [reader |-> [line |-> f.reader.line, escape |-> escape, pending_newline |-> FALSE],
     echo   |-> f.echo,
     lines  |-> f.lines]

Edits(f, line, token) ==
    [reader |-> [line |-> line, escape |-> "No", pending_newline |-> FALSE],
     echo   |-> Append(f.echo, token),
     lines  |-> f.lines]

Ends(f, key) ==
    [reader |-> [line |-> <<>>, escape |-> "No", pending_newline |-> (key = "CR")],
     echo   |-> Append(f.echo, "NEWLINE"),
     lines  |-> Append(f.lines, f.reader.line)]

TakeKey(f, key) ==
    LET line == f.reader.line
    IN  CASE key = "ESC" -> Keeps(f, "Started")
          [] key = "CR" \/ (key = "LF" /\ ~f.reader.pending_newline) -> Ends(f, key)
          [] key = "BS" /\ line # <<>> -> Edits(f, WithoutLast(line), "ERASE")
          [] key \in Printable /\ LineBytes(line) < LineLimit -> Edits(f, Append(line, key), key)
          [] OTHER -> Keeps(f, "No")

\* One character, in the state of the escape sequence it is met in.  '[' is a
\* final too, of a sequence it did not start.
FeedKey(f, key) ==
    CASE f.reader.escape = "Started" ->
            [f EXCEPT !.reader.escape = IF key = "[" THEN "Csi" ELSE "No"]
      [] f.reader.escape = "Csi" ->
            IF key \in Finals THEN [f EXCEPT !.reader.escape = "No"] ELSE f
      [] OTHER -> TakeKey(f, key)

FromHere(r) == [reader |-> r, echo |-> <<>>, lines |-> <<>>]

FeedKeys(f, chunk) ==
    LET fed[n \in 0..Len(chunk)] == IF n = 0 THEN f ELSE FeedKey(fed[n - 1], chunk[n])
    IN  fed[Len(chunk)]

\* As feed, with an escape sequence taken to end with its chunk.
feed_Mut(r, chunk) == FeedKeys(FromHere([r EXCEPT !.escape = "No"]), chunk)

\* As feed, with a backspace on an empty line erasing what is left of it.
feed_Erases(r, chunk) ==
    [FeedKeys(FromHere(r), chunk) EXCEPT !.echo = IF chunk = <<"BS">> THEN <<"ERASE">> ELSE @]

feed(r, chunk) == FeedKeys(FromHere(r), chunk)

\* What Console.run and answer_console take the line for.
parse(line) ==
    CASE line = <<>> -> "nothing"
      [] line \in DOMAIN Vocabulary -> Vocabulary[line]
      [] OTHER -> "unknown"

----------------------------------------------------------------------------
(* The terminal.                                                           *)

\* A backspace with nothing left to erase takes the prompt away.
Show(s, token) ==
    CASE token \in {"NEWLINE", "OUTPUT"} \/ (token = "ERASE" /\ s.text = <<>>) ->
            [prompt |-> FALSE, text |-> <<>>]
      [] token = "PROMPT" -> [prompt |-> TRUE, text |-> <<>>]
      [] token = "ERASE" /\ s.text # <<>> -> [s EXCEPT !.text = WithoutLast(@)]
      [] OTHER -> [s EXCEPT !.text = Append(@, token)]

Shown(s, tokens) ==
    LET shown[n \in 0..Len(tokens)] ==
            IF n = 0 THEN s ELSE Show(shown[n - 1], tokens[n])
    IN  shown[Len(tokens)]

\* send_console succeeds: an empty text is not sent, and a connection that is
\* lost may take what it will not deliver.
SendsConsole(tokens) ==
    screen' = IF sock = "up" /\ srv = "open" THEN Shown(screen, tokens) ELSE screen

\* It fails, and with it the session; the lines of the chunk go with it, the
\* reader stays.
ConsoleFails ==
    /\ sock = "lost"
    /\ pc' = "off"
    /\ answered' = answered \o lines
    /\ lines' = <<>> /\ reply' = <<>> /\ out' = NoOutput /\ wrote' = <<>>
    /\ joined' = FALSE /\ srv' = "none" /\ inbox' = <<>> /\ greeted' = FALSE
    /\ UNCHANGED <<reader, sock, screen, spent, typed, askew>>

----------------------------------------------------------------------------

Init ==
    /\ pc = "off"
    /\ reader = NewReader
    /\ lines = <<>> /\ reply = <<>> /\ out = NoOutput
    /\ joined = FALSE
    /\ sock = "lost" /\ srv = "none" /\ inbox = <<>>
    /\ screen = [prompt |-> FALSE, text |-> <<>>]
    /\ spent = [keys |-> 0, events |-> 0]
    /\ typed = <<>> /\ answered = <<>>
    /\ greeted = FALSE /\ askew = FALSE
    /\ wrote = <<>>

----------------------------------------------------------------------------
(* The session loop.                                                       *)

\* run has connected and the device channel is joined.
Connects ==
    /\ pc = "off"
    /\ pc' = "loop"
    /\ sock' = "up"
    /\ UNCHANGED <<reader, lines, reply, out, joined, srv, inbox, screen, spent, history>>

\* Once a session.
SendConsoleJoin ==
    /\ pc = "loop"
    /\ ~joined
    /\ joined' = TRUE
    /\ srv' = IF sock = "up" THEN "joining" ELSE srv
    /\ UNCHANGED <<pc, reader, lines, reply, out, sock, inbox, screen, spent, history>>

\* recv_frame returns with nothing.
QuietTurn == pc = "loop" /\ joined /\ inbox = <<>> /\ UNCHANGED vars

\* Any send or receive of the loop fails.
SessionEnds == pc \in {"loop", "answering"} /\ ConsoleFails

Reads(kind) ==
    /\ pc = "loop"
    /\ joined
    /\ inbox # <<>>
    /\ Head(inbox).kind = kind
    /\ inbox' = Tail(inbox)

\* The join's reply, whatever its status: the first prompt.
HandleJoinReply ==
    /\ Reads("reply")
    /\ SendsConsole(<<"PROMPT">>)
    /\ greeted' = TRUE
    /\ askew' = (reader.line # <<>>)
    /\ UNCHANGED <<agentVars, sock, srv, spent, typed, answered, wrote>>

\* dn: the whole chunk goes through the reader, and its echo is what the first
\* answer starts with.
HandleKeys ==
    /\ Reads("dn")
    /\ LET f == feed(reader, Head(inbox).keys)
       IN  /\ reader' = f.reader
           /\ lines' = f.lines
           /\ reply' = f.echo
           /\ askew' = IF f.lines = <<>> THEN askew ELSE f.reader.line # <<>>
    /\ typed' = typed \o Head(inbox).keys
    /\ pc' = "answering"
    /\ UNCHANGED <<out, joined, sock, srv, screen, spent, answered, greeted, wrote>>

\* The reader is another before the fresh prompt goes out.
HandleRestart ==
    /\ Reads("restart")
    /\ reader' = NewReader
    /\ typed' = <<>> /\ answered' = <<>>
    /\ reply' = <<"NEWLINE", "PROMPT">>
    /\ pc' = "answering"
    /\ askew' = FALSE
    /\ UNCHANGED <<lines, out, joined, sock, srv, screen, spent, greeted, wrote>>

\* file-data: declined, on a line of its own and with no prompt after it.
HandleFile ==
    /\ Reads("file")
    /\ SendsConsole(<<"NEWLINE", "OUTPUT">>)
    /\ askew' = TRUE
    /\ UNCHANGED <<agentVars, sock, srv, spent, typed, answered, greeted, wrote>>

----------------------------------------------------------------------------
(* answer_console, once the chunk has been fed.                            *)

Line == Head(lines)
Answering(what) == pc = "answering" /\ lines # <<>> /\ parse(Line) = what

\* The answer to a line goes out with the prompt after it.
Answers(output) ==
    /\ SendsConsole(reply \o output \o <<"PROMPT">>)
    /\ reply' = <<>>
    /\ answered' = Append(answered, Line)
    /\ lines' = Tail(lines)
    /\ pc' = "answering"

AnswerEmpty ==
    /\ Answering("nothing")
    /\ Answers(<<>>)
    /\ UNCHANGED <<reader, out, joined, sock, srv, inbox, spent, typed, greeted, askew, wrote>>

\* help, log and its four answers, and a name nobody registered.
AnswerBuiltin ==
    /\ Answering("builtin") \/ Answering("unknown")
    /\ Answers(<<"OUTPUT">>)
    /\ UNCHANGED <<reader, out, joined, sock, srv, inbox, spent, typed, greeted, askew, wrote>>

RunCommand ==
    /\ Answering("registered")
    /\ pc' = "running"
    /\ UNCHANGED <<reader, lines, reply, out, joined, netVars, history>>

CommandWrites ==
    /\ pc = "running"
    /\ \E s \in Pieces :
          /\ Len(wrote) + Len(s) <= MaxWrites
          /\ out' = write_str(out, s)
          /\ wrote' = wrote \o s
    /\ UNCHANGED <<pc, reader, lines, reply, joined, netVars, typed, answered, greeted, askew>>

\* It returns, with an error to add to its output or without; an output that is
\* empty is not shown.
CommandReturns ==
    /\ pc = "running"
    /\ \/ out # NoOutput /\ Answers(<<"OUTPUT">>)
       \/ out = NoOutput /\ \E output \in {<<>>, <<"OUTPUT">>} : Answers(output)
    /\ out' = NoOutput /\ wrote' = <<>>
    /\ UNCHANGED <<reader, joined, sock, srv, inbox, spent, typed, greeted, askew>>

CommandReturnFails == pc = "running" /\ ConsoleFails

\* reboot: said, then done; the lines after it are never looked at.
AnswerReboot ==
    /\ Answering("reboot")
    /\ SendsConsole(reply \o <<"OUTPUT">>)
    /\ pc' = "rebooting"
    /\ answered' = answered \o lines
    /\ lines' = <<>> /\ reply' = <<>>
    /\ UNCHANGED <<reader, out, joined, sock, srv, inbox, spent, typed, greeted, askew, wrote>>

\* Nothing left to answer: the echo that finished no line, or a fresh prompt.
AnswersEnd ==
    /\ pc = "answering"
    /\ lines = <<>>
    /\ SendsConsole(reply)
    /\ reply' = <<>>
    /\ pc' = "loop"
    /\ UNCHANGED <<reader, lines, out, joined, sock, srv, inbox, spent, history>>

----------------------------------------------------------------------------
(* The device, NervesHub, the operator and the network.                    *)

Restarts ==
    /\ pc = "rebooting"
    /\ pc' = "off"
    /\ reader' = NewReader
    /\ joined' = FALSE /\ sock' = "lost" /\ srv' = "none" /\ inbox' = <<>>
    /\ typed' = <<>> /\ answered' = <<>> /\ greeted' = FALSE
    /\ UNCHANGED <<lines, reply, out, screen, spent, askew, wrote>>

Queues(frame) ==
    /\ sock = "up"
    /\ Len(inbox) < MaxInbox
    /\ inbox' = Append(inbox, frame)
    /\ UNCHANGED <<agentVars, sock, screen, history>>

Event == spent.events < MaxEvents /\ spent' = [spent EXCEPT !.events = @ + 1]

ServerReplies ==
    /\ srv = "joining"
    /\ srv' \in {"open", "none"}
    /\ Queues([kind |-> "reply", keys |-> <<>>])
    /\ UNCHANGED spent

\* Keystrokes, in whatever chunks the browser and the transport make of them.
OperatorTypes ==
    /\ srv = "open"
    /\ \E n \in 1..MaxChunk : \E keys \in [1..n -> Typeable] :
          /\ spent.keys + n <= MaxKeys
          /\ Queues([kind |-> "dn", keys |-> keys])
          /\ spent' = [spent EXCEPT !.keys = @ + n]
    /\ UNCHANGED srv

OperatorRestarts ==
    /\ srv = "open"
    /\ Queues([kind |-> "restart", keys |-> <<>>])
    /\ Event
    /\ UNCHANGED srv

OperatorUploads ==
    /\ srv = "open"
    /\ Queues([kind |-> "file", keys |-> <<>>])
    /\ Event
    /\ UNCHANGED srv

ConnectionLost ==
    /\ sock = "up"
    /\ sock' = "lost"
    /\ Event
    /\ UNCHANGED <<agentVars, srv, inbox, screen, history>>

----------------------------------------------------------------------------

AgentNext ==
    \/ Connects \/ SendConsoleJoin \/ QuietTurn \/ SessionEnds
    \/ HandleJoinReply \/ HandleKeys \/ HandleRestart \/ HandleFile
    \/ AnswerEmpty \/ AnswerBuiltin \/ AnswerReboot \/ AnswersEnd
    \/ RunCommand \/ CommandWrites \/ CommandReturns \/ CommandReturnFails
    \/ Restarts

Next ==
    \/ AgentNext
    \/ ServerReplies
    \/ OperatorTypes \/ OperatorRestarts \/ OperatorUploads
    \/ ConnectionLost

Spec == Init /\ [][Next]_vars

----------------------------------------------------------------------------
(* What the terminal promises.                                             *)

\* The keys of the escape sequence that the ESC at i begins: the key after it,
\* and if that is '[' all up to the first that ends it, or as far as has been typed.
SequenceAt(keys, i) ==
    {k \in i..Len(keys) :
        \/ k <= i + 1
        \/ keys[i + 1] = "[" /\ \A n \in (i + 2)..(k - 1) : keys[n] \notin Finals}

\* A sequence begins at each ESC that is not inside another.
Escapes(keys) ==
    CHOOSE starts \in SUBSET DOMAIN keys :
        \A i \in DOMAIN keys :
            i \in starts <=>
                keys[i] = "ESC" /\ \A j \in starts : j < i => i \notin SequenceAt(keys, j)

Plain(keys) == {i \in DOMAIN keys : \A j \in Escapes(keys) : i \notin SequenceAt(keys, j)}

\* Where Enter was pressed: a CR and the LF after it are one.
Enters(keys) ==
    {i \in Plain(keys) :
        \/ keys[i] = "CR"
        \/ keys[i] = "LF" /\ ~(i - 1 \in Plain(keys) /\ keys[i - 1] = "CR")}

\* A line after one more key: backspaces take away, and there is a limit.
Edit(line, key) ==
    CASE key = "BS" /\ line # <<>> -> WithoutLast(line)
      [] key \in Printable /\ LineBytes(line) < LineLimit -> Append(line, key)
      [] OTHER -> line

\* What the plain keys from one Enter to another make.
LineBefore(keys, e) ==
    LET line[n \in 0..Len(keys)] ==
            IF n = 0 \/ n \in Enters(keys) THEN <<>>
            ELSE IF n \in Plain(keys) THEN Edit(line[n - 1], keys[n])
            ELSE line[n - 1]
    IN  line[e - 1]

\* However the keys were cut into chunks, and across sessions, the lines taken
\* for commands are those of the keys as one text: no line is split, doubled,
\* made of an escape sequence or left over from another reader (console.rs feed,
\* answer_console, and the reader's place in Agent).
RunsWhatWasTyped ==
    LET enters == Enters(typed)
        taken == answered \o lines
    IN  /\ Len(taken) = Cardinality(enters)
        /\ \A e \in enters :
              taken[Cardinality({d \in enters : d <= e})] = LineBefore(typed, e)

\* Between chunks the terminal shows a prompt and after it exactly the line that
\* Enter would submit, unless it is known to be askew: keys after an Enter in
\* the same chunk, a line from before a reconnect, a file declined (the echo of
\* feed, Show, and one prompt per answer).
PromptThenLine ==
    (pc = "loop" /\ sock = "up" /\ srv = "open" /\ greeted /\ ~askew) =>
        screen = [prompt |-> TRUE, text |-> reader.line]

\* A command's output stays within the limit, is marked if anything is missing
\* from it, and is cut only where less than a character's room was left
\* (Output::write_str and finish).
OutputMarked ==
    /\ Bytes(out.text) <= MAX_OUTPUT
    /\ out.text # wrote => out.truncated
    /\ out.truncated => MAX_OUTPUT - Bytes(out.text) < 4

============================================================================
