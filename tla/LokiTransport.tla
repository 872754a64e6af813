--------------------------- MODULE LokiTransport ---------------------------
(***************************************************************************)
(* loki-transport.service: one buffer for every logger of the process, a   *)
(* timer that empties it every five seconds, and one POST per batch whose  *)
(* answer is only ever printed.  Who pushes is left to AuditEvents.        *)
(*                                                                         *)
(* Entries are numbered as they are pushed.  Several POSTs may be on their *)
(* way at once (a request has no deadline of its own: nothing listens to   *)
(* its timeout), and they arrive in any order.                             *)
(***************************************************************************)
EXTENDS Naturals, Sequences

CONSTANT
    MaxPushes           \* bound: entries ever pushed

ASSUME LokiAssumption == MaxPushes \in Nat

VARIABLES
    pushed,             \* entries pushed so far
    logBuffer,          \* entries waiting for the timer
    flushTimer,         \* whether the timer runs
    posts,              \* batches under way
    loki,               \* what Loki stored, in the order it did
    dropped             \* entries of batches that failed, or lost in a crash

lokiVars == <<pushed, logBuffer, flushTimer, posts, loki, dropped>>

LokiInit ==
    /\ pushed = 0
    /\ logBuffer = <<>>
    /\ flushTimer = FALSE
    /\ posts = {}
    /\ loki = <<>>
    /\ dropped = {}

Entries(batch) == {batch[n] : n \in 1 .. Len(batch)}

-----------------------------------------------------------------------------

\* Faulty: the timer is not started.
PushNoTimer ==
    /\ pushed < MaxPushes
    /\ pushed' = pushed + 1
    /\ logBuffer' = Append(logBuffer, pushed')
    /\ UNCHANGED <<flushTimer, posts, loki, dropped>>

\* Faulty: pushes what comes after the entry.
PushNext ==
    /\ pushed < MaxPushes
    /\ pushed' = pushed + 1
    /\ flushTimer' = TRUE
    /\ logBuffer' = Append(logBuffer, pushed' + 1)
    /\ UNCHANGED <<posts, loki, dropped>>

\* lokiFormat: the first entry starts the timer.
Push ==
    /\ pushed < MaxPushes
    /\ pushed' = pushed + 1
    /\ flushTimer' = TRUE
    /\ logBuffer' = Append(logBuffer, pushed')
    /\ UNCHANGED <<posts, loki, dropped>>

\* Faulty: the buffer is not emptied.
FlushLogsKept ==
    /\ flushTimer
    /\ logBuffer # <<>>
    /\ posts' = posts \cup {logBuffer}
    /\ UNCHANGED <<pushed, logBuffer, flushTimer, loki, dropped>>

\* flushLogs on the timer: the buffer is copied and emptied, then posted.
FlushLogs ==
    /\ flushTimer
    /\ logBuffer # <<>>
    /\ posts' = posts \cup {logBuffer}
    /\ logBuffer' = <<>>
    /\ UNCHANGED <<pushed, flushTimer, loki, dropped>>

Stored(batch) ==
    /\ posts' = posts \ {batch}
    /\ loki' = loki \o batch
    /\ UNCHANGED <<pushed, logBuffer, flushTimer, dropped>>

\* A status other than 200 and 204, or an error on the way: a line on the
\* console, and the batch is forgotten.
Refused(batch) ==
    /\ posts' = posts \ {batch}
    /\ dropped' = dropped \cup Entries(batch)
    /\ UNCHANGED <<pushed, logBuffer, flushTimer, loki>>

\* The process dies with its buffer and its requests; closeLokiLogger, which
\* would flush, is called by nothing.  What was posted may still be stored.
Crash ==
    /\ logBuffer' = <<>>
    /\ flushTimer' = FALSE
    /\ dropped' = dropped \cup Entries(logBuffer)
    /\ UNCHANGED <<pushed, posts, loki>>

LokiNext ==
    \/ Push
    \/ FlushLogs
    \/ \E batch \in posts : Stored(batch) \/ Refused(batch)
    \/ Crash

LokiSpec == LokiInit /\ [][LokiNext]_lokiVars

-----------------------------------------------------------------------------
LokiTypeOK ==
    /\ pushed \in 0 .. MaxPushes
    /\ logBuffer \in Seq(1 .. pushed)
    /\ flushTimer \in BOOLEAN
    /\ posts \subseteq Seq(1 .. pushed)
    /\ loki \in Seq(1 .. pushed)
    /\ dropped \subseteq 1 .. pushed

\* Every entry is in exactly one place: waiting, under way, stored or lost with
\* its batch.  None is sent in two batches and none falls between the copy of
\* the buffer and its emptying.
EachOnce ==
    LET under == UNION {Entries(batch) : batch \in posts}
    IN  /\ Entries(logBuffer) \cup under \cup Entries(loki) \cup dropped
               = 1 .. pushed
        /\ \A e \in 1 .. pushed :
               /\ e \in Entries(logBuffer) =>
                      e \notin under \cup Entries(loki) \cup dropped
               /\ e \in under => e \notin Entries(loki) \cup dropped
               /\ e \in Entries(loki) => e \notin dropped
               /\ \A m, n \in 1 .. Len(loki) : loki[m] = e /\ loki[n] = e => m = n

===========================================================================
