------------------------------ MODULE Install ------------------------------
(***************************************************************************)
(* install.rs: open the firmware URL, with retries; copy it a chunk at a   *)
(* time into the inactive slot (Ota.tla); check length and checksum; then  *)
(* commit or abort.                                                        *)
(*                                                                         *)
(* Lengths are counted in chunks.  An Option is the set of the values it   *)
(* holds: {} for None, {v} for Some(v).  The counter of written chunks     *)
(* stops at MaxLen, which is past every length it is compared with.  What  *)
(* NervesHub is told of a download goes through update.rs's throttle.      *)
(***************************************************************************)
EXTENDS Ota, Integers, Sequences

CONSTANTS
    Updates,        \* the update payloads NervesHub may send
    FileLen,        \* the length of every published file
    Lengths,        \* the lengths a Content-Length header may give
    Statuses,       \* the HTTP statuses a failed open may carry
    RetryAfters,    \* the Retry-After values a failed open may carry, in seconds
    progress_step_percent,
    MaxLen          \* where the count of written chunks saturates

ASSUME LengthsAssumption ==
    /\ FileLen \in Nat \ {0}
    /\ MaxLen \in Nat /\ progress_step_percent \in Nat
    /\ Lengths \subseteq Nat
    /\ \A n \in Lengths \cup {FileLen} : n + 1 <= MaxLen

ASSUME StatusesAssumption == Statuses \subseteq Nat /\ RetryAfters \subseteq Nat

ASSUME UpdatesAssumption ==
    Updates \subseteq [image : Images, size : {{}, {FileLen}},
                       checksum : BOOLEAN, payload : Payloads]

VARIABLES
    ipc,            \* where install is
    upd,            \* the update being installed
    expected,       \* expected_size
    written,        \* chunks written
    reported,       \* ProgressThrottle.last_reported
    wrong,          \* whether a byte differs from the published file's
    tries,          \* how many of RETRY_WAITS are used up
    waited          \* seconds waited between attempts, in all

installVars == <<otaVars, ipc, upd, expected, written, reported, wrong, tries, waited>>

----------------------------------------------------------------------------

RETRY_WAITS == <<5, 15, 45>>
RETRY_AFTER_MAX == 120

AtLeast(m, n) == IF m > n THEN m ELSE n
AtMost(m, n) == IF m < n THEN m ELSE n

ContentLengths == {{}} \cup {{n} : n \in Lengths \cup {FileLen}}

OpenErrors ==
    [kind : {"Download"}]
        \cup [kind : {"DownloadStatus"}, status : Statuses,
              retry_after : {{}} \cup {{secs} : secs \in RetryAfters}]

worth_retrying(err) ==
    \/ err.kind = "Download"
    \/ err.kind = "DownloadStatus" /\ err.status \in {408, 429} \cup (500..599)

\* As retry_wait, with the server's Retry-After taken at its word.
retry_wait_Mut(err) ==
    LET backoff == RETRY_WAITS[tries + 1]
    IN  IF err.kind = "DownloadStatus" /\ err.retry_after # {}
        THEN AtLeast(backoff, CHOOSE secs \in err.retry_after : TRUE)
        ELSE backoff

\* The server's word as a minimum, capped, never instead of the backoff.
retry_wait(err) ==
    LET backoff == RETRY_WAITS[tries + 1]
    IN  IF err.kind = "DownloadStatus" /\ err.retry_after # {}
        THEN AtLeast(backoff, AtMost(CHOOSE secs \in err.retry_after : TRUE,
                                     RETRY_AFTER_MAX))
        ELSE backoff

\* What the slot holds once everything downloaded is in it.
Delivered == IF written = FileLen /\ ~wrong THEN upd.image ELSE Corrupt

\* As Verified, with the checksum compared only when the size is unknown.
Verified_Mut ==
    /\ \A total \in expected : written = total
    /\ written # 0
    /\ upd.checksum /\ expected = {} => Delivered = upd.image

Percent(downloaded, total) == (AtMost(downloaded, total) * 100) \div total

\* As take, with a step due only once it is passed.
take_Mut(downloaded, total) ==
    LET percent == Percent(downloaded, total)
        due == \/ percent = 100
               \/ \A last \in reported :
                     percent > last + AtLeast(1, progress_step_percent)
    IN  IF total # 0 /\ due /\ reported # {percent} THEN {percent} ELSE {}

\* ProgressThrottle::take: the percentage to report, an Option.
take(downloaded, total) ==
    LET percent == Percent(downloaded, total)
        due == \/ percent = 100
               \/ \A last \in reported :
                     percent >= last + AtLeast(1, progress_step_percent)
    IN  IF total # 0 /\ due /\ reported # {percent} THEN {percent} ELSE {}

\* Without a size there is nothing to report against.
Report(downloaded) == UNION {take(downloaded, total) : total \in expected}

\* The checks download makes before it lets install commit.
Verified ==
    /\ \A total \in expected : written = total
    /\ written # 0
    /\ upd.checksum => Delivered = upd.image

----------------------------------------------------------------------------

InstallInit ==
    /\ OtaInit
    /\ ipc = "idle"
    /\ upd \in Updates
    /\ expected = {}
    /\ written = 0 /\ reported = {}
    /\ wrong = FALSE
    /\ tries = 0
    /\ waited = 0

\* begin_update and the call of install.
Start(u) ==
    /\ Begin
    /\ ipc' = "open"
    /\ upd' = u
    /\ expected' = {}
    /\ written' = 0 /\ reported' = {}
    /\ wrong' = FALSE
    /\ tries' = 0
    /\ waited' = 0

\* http.open answers.  The deployment's size is preferred to the CDN's.
OpenOk(content_length) ==
    /\ ipc = "open"
    /\ ipc' = "copy"
    /\ expected' = IF upd.size # {} THEN upd.size ELSE content_length
    /\ UNCHANGED <<otaVars, upd, written, reported, wrong, tries, waited>>

\* As OpenRetry, with the waits not counted off.
OpenRetry_Mut(err) ==
    /\ ipc = "open"
    /\ worth_retrying(err)
    /\ ipc' = "wait"
    /\ UNCHANGED <<otaVars, upd, expected, written, reported, wrong, tries, waited>>

\* http.open fails for a reason that may pass, and a retry is left.
OpenRetry(err) ==
    /\ ipc = "open"
    /\ worth_retrying(err)
    /\ tries < Len(RETRY_WAITS)
    /\ ipc' = "wait"
    /\ tries' = tries + 1
    /\ waited' = waited + retry_wait(err)
    /\ UNCHANGED <<otaVars, upd, expected, written, reported, wrong>>

OpenFails(err) ==
    /\ ipc = "open"
    /\ ~worth_retrying(err) \/ tries = Len(RETRY_WAITS)
    /\ ipc' = "abort"
    /\ UNCHANGED <<otaVars, upd, expected, written, reported, wrong, tries, waited>>

\* Progress::wait returns; alive says whether the connection lasted it.
WaitEnds(alive) ==
    /\ ipc = "wait"
    /\ ipc' = IF alive THEN "open" ELSE "abort"
    /\ UNCHANGED <<otaVars, upd, expected, written, reported, wrong, tries, waited>>

\* The payload classify sees: only a wrong first byte can change it.
Classified(bad) == IF written = 0 /\ bad THEN Payloads ELSE {upd.payload}

SinkWrites(bad) ==
    \E payload \in Classified(bad) : WriteFirst(payload) \/ WriteMore

SinkWriteFails(bad) ==
    \E payload \in Classified(bad) :
        \/ WriteRefused
        \/ WriteOpensOnly(payload)
        \/ WriteFirst(payload)
        \/ WriteMore

\* A chunk is read, hashed and written, the connection is serviced (tick, and
\* a report when progress crosses a step: alive says whether both went out),
\* and a server sending more than it promised is stopped.
CopyChunk(bad, alive) ==
    /\ ipc = "copy"
    /\ SinkWrites(bad)
    /\ written' = AtMost(written + 1, MaxLen)
    /\ wrong' = (wrong \/ bad)
    /\ \/ /\ alive
          /\ \A total \in expected : written + 1 <= total
          /\ ipc' = "copy"
          /\ reported' = IF Report(written + 1) # {} THEN Report(written + 1) ELSE reported
       \/ /\ ~alive \/ \E total \in expected : written + 1 > total
          /\ ipc' = "abort"
          /\ UNCHANGED reported
    /\ UNCHANGED <<upd, expected, tries, waited>>

CopyWriteFails(bad) ==
    /\ ipc = "copy"
    /\ SinkWriteFails(bad)
    /\ ipc' = "abort"
    /\ UNCHANGED <<upd, expected, written, reported, wrong, tries, waited>>

\* As CopyReadFails, with a read that fails retried from the top.
CopyReadFails_Mut ==
    /\ ipc = "copy"
    /\ ipc' = "open"
    /\ UNCHANGED <<otaVars, upd, expected, written, reported, wrong, tries, waited>>

CopyReadFails ==
    /\ ipc = "copy"
    /\ ipc' = "abort"
    /\ UNCHANGED <<otaVars, upd, expected, written, reported, wrong, tries, waited>>

\* End of file: copy returns and download makes its checks.
CopyEnds ==
    /\ ipc = "copy"
    /\ ipc' = IF Verified THEN "commit" ELSE "abort"
    /\ UNCHANGED <<otaVars, upd, expected, written, reported, wrong, tries, waited>>

InstallCommits ==
    /\ ipc = "commit"
    /\ Commit(Delivered)
    /\ ipc' = "done"
    /\ UNCHANGED <<upd, expected, written, reported, wrong, tries, waited>>

\* sink.commit()? returns straight from install.
InstallCommitFails ==
    /\ ipc = "commit"
    /\ \/ CommitFinalizeFails
       \/ CommitEndFails
       \/ CommitSetBootFails(Delivered)
    /\ ipc' = "failed"
    /\ UNCHANGED <<upd, expected, written, reported, wrong, tries, waited>>

InstallAborts ==
    /\ ipc = "abort"
    /\ Abort
    /\ ipc' = "failed"
    /\ UNCHANGED <<upd, expected, written, reported, wrong, tries, waited>>

----------------------------------------------------------------------------

\* One step of a running install; alive is the connection's state.
InstallStep(alive) ==
    \/ \E content_length \in ContentLengths : OpenOk(content_length)
    \/ \E err \in OpenErrors : OpenRetry(err) \/ OpenFails(err)
    \/ WaitEnds(alive)
    \/ \E bad \in BOOLEAN : CopyChunk(bad, alive) \/ CopyWriteFails(bad)
    \/ CopyReadFails
    \/ CopyEnds
    \/ InstallCommits
    \/ InstallCommitFails
    \/ InstallAborts

\* What a reset leaves of an install: nothing.
InstallForgotten ==
    /\ ipc' = "idle"
    /\ expected' = {}
    /\ written' = 0 /\ reported' = {}
    /\ wrong' = FALSE
    /\ tries' = 0
    /\ waited' = 0
    /\ UNCHANGED upd

Idle == ipc \in {"idle", "done", "failed"}

\* On its own: installs follow one another, the image on probation may be
\* confirmed between them, and the device may be reset at any time.
InstallNext ==
    \/ \E alive \in BOOLEAN : InstallStep(alive)
    \/ Idle /\ \E u \in Updates : Start(u)
    \/ /\ Idle /\ mark_valid
       /\ UNCHANGED <<ipc, upd, expected, written, reported, wrong, tries, waited>>
    \/ Reset /\ InstallForgotten

\* The thread running install is scheduled.
InstallSpec ==
    /\ InstallInit
    /\ [][InstallNext]_installVars
    /\ WF_installVars(\E alive \in BOOLEAN : InstallStep(alive))

----------------------------------------------------------------------------
(* Properties.                                                             *)

InstallPhases == {"idle", "open", "wait", "copy", "commit", "abort", "done", "failed"}

\* Every variable has its type.
InstallTypeOK ==
    /\ OtaTypeOK
    /\ ipc \in InstallPhases
    /\ upd \in Updates
    /\ expected \in ContentLengths
    /\ written \in 0..MaxLen
    /\ reported \subseteq Int
    /\ wrong \in BOOLEAN
    /\ tries \in 0..Len(RETRY_WAITS)
    /\ waited \in Nat

\* Once install returns Ok for an update that came with a checksum, the slot
\* the bootloader is pointed at holds exactly that update's image, whatever
\* the network delivered: short, long, altered or misclassified.
StagedIsVerified ==
    ipc = "done" /\ upd.checksum => boot = Target /\ content[boot] = upd.image

\* open is retried only while nothing has been written: an attempt never starts
\* over a slot that a previous one has opened, and the image already in the
\* slot (with the bootloader's record of it) outlives a download that never
\* starts.
NoRetryAfterFirstByte ==
    ipc \in {"open", "wait"} => slot = "Unopened" /\ written = 0

\* The inductive invariant behind the properties here: an update is on its
\* way to commit only with its checks made.
InstallInv ==
    /\ InstallTypeOK
    /\ OtaInv
    /\ NoRetryAfterFirstByte
    /\ ipc = "commit" => Verified
    /\ StagedIsVerified

\* The time given to a download that cannot start: every retry waits at least
\* its backoff (65 s in all), and no Retry-After stretches three of them past
\* six minutes.
PatienceBounded ==
    /\ waited <= tries * RETRY_AFTER_MAX
    /\ waited >= (CASE tries = 0 -> 0 [] tries = 1 -> 5 [] tries = 2 -> 20 [] tries = 3 -> 65)

\* A download that cannot start costs time, so much and no more, and nothing
\* else: whatever the server answers, nothing is written over, and the slot and
\* its record are as they were (open, retry_wait, copy).
RetriesCostOnlyTime == NoRetryAfterFirstByte /\ PatienceBounded

\* NervesHub, and the application, have been told how far a download of known
\* length is to within a step: never more than there is, the first chunk at
\* once, and 100 just when the last byte is written, as that is what completes
\* the update (ProgressThrottle::take, copy).
ProgressTold ==
    ipc = "copy" /\ written > 0 =>
        \A total \in expected :
            /\ \E last \in reported :
                  Percent(written, total) - last \in 0..(AtLeast(1, progress_step_percent) - 1)
            /\ 100 \in reported <=> written = total

\* A download ends, whatever the server does: it cannot be kept opening for
\* ever, nor copying for ever when it knows how much to expect.
InstallEnds ==
    /\ ipc \in {"open", "wait"} ~> ipc \notin {"open", "wait"}
    /\ ipc = "copy" /\ expected # {} ~> ipc # "copy"

============================================================================
