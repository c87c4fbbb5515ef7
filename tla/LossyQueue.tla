----------------------------- MODULE LossyQueue -----------------------------
(***************************************************************************)
(* What the log promises whoever reads it on NervesHub (logging.rs, "Losing*)
(* lines on purpose"): a call either keeps its line, behind all that was   *)
(* kept before, or counts it as lost; what was kept goes out from the      *)
(* front, the count in a note that waits its turn like a line; and what    *)
(* was kept is lost only from the front too, and only with a session.      *)
(***************************************************************************)
EXTENDS Naturals, Sequences

CONSTANTS
    Threads,        \* whoever logs
    Lines           \* what they may log, each of one thread

VARIABLES
    calls,          \* the line each thread is logging, as a sequence
    queue,          \* what was kept and has not gone out
    lost,           \* how many were not, that no note tells of
    session,        \* "on" or "off"
    sent            \* what went out

vars == <<calls, queue, lost, session, sent>>

Init ==
    /\ calls = [t \in Threads |-> <<>>]
    /\ queue = <<>> /\ lost = 0 /\ session = "off" /\ sent = <<>>

Calls(t) ==
    /\ calls[t] = <<>>
    /\ \E line \in Lines : line.thread = t /\ calls' = [calls EXCEPT ![t] = <<line>>]
    /\ UNCHANGED <<queue, lost, session, sent>>

Keeps(t) ==
    /\ calls[t] # <<>>
    /\ queue' = Append(queue, calls[t][1])
    /\ calls' = [calls EXCEPT ![t] = <<>>]
    /\ UNCHANGED <<lost, session, sent>>

Loses(t) ==
    /\ calls[t] # <<>>
    /\ lost' = lost + 1
    /\ calls' = [calls EXCEPT ![t] = <<>>]
    /\ UNCHANGED <<queue, session, sent>>

Tells ==
    /\ session = "on"
    /\ lost > 0
    /\ queue' = Append(queue, [kind |-> "note", count |-> lost])
    /\ lost' = 0
    /\ UNCHANGED <<calls, session, sent>>

Delivers ==
    /\ session = "on"
    /\ \E n \in 1..Len(queue) :
          /\ sent' = sent \o SubSeq(queue, 1, n)
          /\ queue' = SubSeq(queue, n + 1, Len(queue))
    /\ UNCHANGED <<calls, lost, session>>

Opens ==
    /\ session = "off"
    /\ session' = "on"
    /\ UNCHANGED <<calls, queue, lost, sent>>

\* What was on its way is lost.
Closes ==
    /\ session = "on"
    /\ session' = "off"
    /\ \E n \in 0..Len(queue) : queue' = SubSeq(queue, n + 1, Len(queue))
    /\ UNCHANGED <<calls, lost, sent>>

Next ==
    \/ \E t \in Threads : Calls(t) \/ Keeps(t) \/ Loses(t)
    \/ Tells \/ Delivers \/ Opens \/ Closes

Spec == Init /\ [][Next]_vars

=============================================================================
