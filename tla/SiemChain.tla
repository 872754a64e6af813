----------------------------- MODULE SiemChain -----------------------------
(***************************************************************************)
(* SiemLoggerService: a hash chain over daily files, kept in memory and    *)
(* written through one append stream per day, and its verification.        *)
(*                                                                         *)
(* log() computes the entry and hands it to the stream of the day; the     *)
(* stream creates its file, then writes what it was handed in order, each  *)
(* of these some time later.  At midnight the old stream is ended but goes *)
(* on writing beside the new one.  The process may die, which loses what   *)
(* was not written and may cut the line that was being written; what was   *)
(* written is with the operating system and stays (a machine that goes     *)
(* down is not modelled).  A restart takes hash and sequence number from   *)
(* the last line of the last file, or starts over.                         *)
(*                                                                         *)
(* SHA-256 does not collide: the hash of an entry is a number drawn in     *)
(* order, Genesis for 'GENESIS'.  Nobody but the logger writes the files,  *)
(* so that the stored hash is always the one computed from the entry.      *)
(***************************************************************************)
EXTENDS Naturals, Sequences

CONSTANTS
    MaxDay,             \* bound: the last day
    MaxEntries,         \* bound: entries ever logged
    MaxCrashes          \* bound: deaths of the process

ASSUME SiemAssumption ==
    /\ MaxDay \in Nat \ {0}
    /\ MaxEntries \in Nat
    /\ MaxCrashes \in Nat

VARIABLES
    day,                \* today
    up,                 \* whether the service runs
    lastHash,           \* the two fields that continue the chain
    sequenceNumber,
    pending,            \* what each day's stream was handed and has not written
    files,              \* the lines of each day's file
    exists,             \* the days that have a file
    logged,             \* entries ever logged: the source of fresh hashes
    run,                \* the first entry this run of the service may log
    crashes             \* deaths of the process so far

memory == <<lastHash, sequenceNumber>>
disk == <<files, exists>>
siemVars == <<day, up, memory, pending, disk, logged, run, crashes>>

Genesis == 0

Days == 1 .. MaxDay

\* A line is a whole entry with its newline; a last line that still lacks its
\* newline, whole ("bare") or not to be parsed ("torn"); or one that has its
\* newline and does not parse, which a write after either of these leaves.
Line == [kind     : {"entry", "bare", "torn", "garbage"},
         seq      : Nat, previous : Nat, hash : Nat,
         run      : Nat]

Parses(line) == line.kind \in {"entry", "bare"}

SiemInit ==
    /\ day = 1
    /\ up = TRUE
    /\ lastHash = Genesis
    /\ sequenceNumber = 0
    /\ pending = [d \in Days |-> <<>>]
    /\ files = [d \in Days |-> <<>>]
    /\ exists = {}
    /\ logged = 0
    /\ run = 1
    /\ crashes = 0

-----------------------------------------------------------------------------

\* Faulty: counts every entry twice.
LogTwice ==
    /\ up
    /\ logged < MaxEntries
    /\ logged' = logged + 1
    /\ sequenceNumber' = sequenceNumber + 2
    /\ lastHash' = logged'
    /\ pending' = [pending EXCEPT ![day] =
                      Append(@, [kind |-> "entry", seq |-> sequenceNumber',
                                 previous |-> lastHash, hash |-> lastHash',
                                 run |-> run])]
    /\ UNCHANGED <<day, up, disk, run, crashes>>

\* Faulty: the first entry of a run opens the file of the day without 'a'.
LogTruncating ==
    /\ up
    /\ logged < MaxEntries
    /\ logged' = logged + 1
    /\ sequenceNumber' = sequenceNumber + 1
    /\ lastHash' = logged'
    /\ files' = IF run = logged' THEN [files EXCEPT ![day] = <<>>] ELSE files
    /\ pending' = [pending EXCEPT ![day] =
                      Append(@, [kind |-> "entry", seq |-> sequenceNumber',
                                 previous |-> lastHash, hash |-> lastHash',
                                 run |-> run])]
    /\ UNCHANGED <<day, up, exists, run, crashes>>

\* log and writeLog, up to the hand-over to the stream of the day, which
\* writeLog creates when the day has none.
Log ==
    /\ up
    /\ logged < MaxEntries
    /\ logged' = logged + 1
    /\ sequenceNumber' = sequenceNumber + 1
    /\ lastHash' = logged'
    /\ pending' = [pending EXCEPT ![day] =
                      Append(@, [kind |-> "entry", seq |-> sequenceNumber',
                                 previous |-> lastHash, hash |-> lastHash',
                                 run |-> run])]
    /\ UNCHANGED <<day, up, disk, run, crashes>>

\* Faulty: ending the old stream at midnight drops what it has not written.
OpenFileOfToday(d) ==
    /\ up
    /\ d = day
    /\ pending[d] # <<>>
    /\ d \notin exists
    /\ exists' = exists \cup {d}
    /\ UNCHANGED <<day, up, memory, pending, files, logged, run, crashes>>

\* The stream opens its file for appending, which creates it.
OpenFile(d) ==
    /\ up
    /\ pending[d] # <<>>
    /\ d \notin exists
    /\ exists' = exists \cup {d}
    /\ UNCHANGED <<day, up, memory, pending, files, logged, run, crashes>>

LastLine(lines) == lines[Len(lines)]

\* What is written after a line that lacks its newline spoils both; the line goes
\* on until a newline is written.
Spoiled(line, more) ==
    [line EXCEPT !.kind = IF more.kind = "entry" THEN "garbage" ELSE "torn"]

AppendTo(lines, line) ==
    IF lines # <<>> /\ LastLine(lines).kind \in {"bare", "torn"}
    THEN [lines EXCEPT ![Len(lines)] = Spoiled(@, line)]
    ELSE Append(lines, line)

\* Faulty: what was handed over last is written first.
FlushLastFirst(d) ==
    /\ up
    /\ pending[d] # <<>>
    /\ d \in exists
    /\ files' = [files EXCEPT ![d] = AppendTo(@, pending[d][Len(pending[d])])]
    /\ pending' = [pending EXCEPT ![d] = SubSeq(@, 1, Len(@) - 1)]
    /\ UNCHANGED <<day, up, memory, exists, logged, run, crashes>>

Flush(d) ==
    /\ up
    /\ pending[d] # <<>>
    /\ d \in exists
    /\ files' = [files EXCEPT ![d] = AppendTo(@, Head(pending[d]))]
    /\ pending' = [pending EXCEPT ![d] = Tail(@)]
    /\ UNCHANGED <<day, up, memory, exists, logged, run, crashes>>

Midnight ==
    /\ day < MaxDay
    /\ day' = day + 1
    /\ UNCHANGED <<up, memory, pending, disk, logged, run, crashes>>

\* What a file holds after the process died: the write in progress may have been
\* cut anywhere.
AfterCrash(d) ==
    IF d \in exists /\ pending[d] # <<>>
    THEN {files[d]} \cup
         {AppendTo(files[d], [Head(pending[d]) EXCEPT !.kind = cut]) :
              cut \in {"bare", "torn"}}
    ELSE {files[d]}

Down ==
    /\ up' = FALSE
    /\ lastHash' = Genesis
    /\ sequenceNumber' = 0
    /\ pending' = [d \in Days |-> <<>>]

\* The process dies.  A signal is a crash too: main.ts enables no shutdown hooks.
Crash ==
    /\ up
    /\ crashes < MaxCrashes
    /\ crashes' = crashes + 1
    /\ files' \in {f \in [Days -> UNION {AfterCrash(d) : d \in Days}] :
                       \A d \in Days : f[d] \in AfterCrash(d)}
    /\ Down
    /\ UNCHANGED <<day, exists, logged, run>>

\* onModuleDestroy ends the stream, and the process ends when it has drained.
Stop ==
    /\ up
    /\ \A d \in Days : pending[d] = <<>>
    /\ Down
    /\ UNCHANGED <<day, disk, logged, run, crashes>>

\* initializeFromLastLog: only the last file counts; an empty one, or one whose
\* last line does not parse, leaves the chain at its beginning.
Resumable(lines) == lines # <<>> /\ Parses(LastLine(lines))

\* Faulty: the first file for the last.
FirstFile == IF exists = {} THEN <<>>
             ELSE files[CHOOSE d \in exists : \A e \in exists : d <= e]

LastFile == IF exists = {} THEN <<>>
            ELSE files[CHOOSE d \in exists : \A e \in exists : e <= d]

\* Faulty: continues the numbers and not the hashes.
RestartFromGenesis ==
    /\ ~ up
    /\ up' = TRUE
    /\ run' = logged + 1
    /\ lastHash' = Genesis
    /\ sequenceNumber' = IF Resumable(LastFile) THEN LastLine(LastFile).seq ELSE 0
    /\ UNCHANGED <<day, pending, disk, logged, crashes>>

Restart ==
    /\ ~ up
    /\ up' = TRUE
    /\ run' = logged + 1
    /\ lastHash' = IF Resumable(LastFile) THEN LastLine(LastFile).hash ELSE Genesis
    /\ sequenceNumber' = IF Resumable(LastFile) THEN LastLine(LastFile).seq ELSE 0
    /\ UNCHANGED <<day, pending, disk, logged, crashes>>

SiemNext ==
    \/ Log
    \/ \E d \in Days : OpenFile(d) \/ Flush(d)
    \/ Midnight
    \/ Crash \/ Stop \/ Restart

SiemSpec == SiemInit /\ [][SiemNext]_siemVars

\* The event loop serves every stream that has something to write.
SiemFairSpec ==
    /\ SiemSpec
    /\ \A d \in Days : WF_siemVars(OpenFile(d) \/ Flush(d))

-----------------------------------------------------------------------------
(* verifyChainIntegrity(start, end).                                       *)

\* The lines of a file that are looked at: up to the first past the end, which
\* breaks out of that file only.
Considered(lines, start, end) ==
    LET past == {n \in 1 .. Len(lines) :
                     /\ Parses(lines[n])
                     /\ lines[n].seq >= start /\ lines[n].seq > end}
    IN  IF past = {} THEN lines
        ELSE SubSeq(lines, 1, (CHOOSE n \in past : \A m \in past : n <= m) - 1)

\* The files in the order of their names, one after the other.
Walk(lines, start, end) ==
    LET W[d \in 0 .. MaxDay] ==
            IF d = 0 THEN <<>>
            ELSE W[d - 1] \o Considered(lines[d], start, end)
    IN  W[MaxDay]

\* Faulty: looks at the numbers instead of the hashes.
FollowsInNumber(walk, n) ==
    IF n = 1 THEN walk[n].previous = Genesis ELSE walk[n].seq > walk[n - 1].seq

\* An entry carries the hash of the line before it.
Follows(walk, n) ==
    walk[n].previous = IF n = 1 THEN Genesis ELSE walk[n - 1].hash

\* Every line must parse, and every entry from start on follow the one before.
Verify(lines, start, end) ==
    LET walk == Walk(lines, start, end)
    IN  /\ \A n \in 1 .. Len(walk) : Parses(walk[n])
        /\ \A n \in 1 .. Len(walk) : walk[n].seq >= start => Follows(walk, n)

VerifyChain(start, end) == Verify(files, start, end)

-----------------------------------------------------------------------------
SiemTypeOK ==
    /\ day \in Days
    /\ up \in BOOLEAN
    /\ lastHash \in 0 .. logged
    /\ sequenceNumber \in 0 .. logged
    /\ pending \in [Days -> Seq(Line)]
    /\ files \in [Days -> Seq(Line)]
    /\ exists \subseteq Days
    /\ logged \in 0 .. MaxEntries
    /\ run \in 1 .. logged + 1
    /\ crashes \in 0 .. MaxCrashes

Drained == \A d \in Days : pending[d] = <<>>

\* "Verify chain integrity (should pass)" (siem-doc/TESTING.md:277): files only
\* the logger wrote, with nothing left to write, verify from the first entry to
\* the last.
UntouchedChainVerifies ==
    up /\ Drained => VerifyChain(1, sequenceNumber)

\* The old stream of a midnight has caught up before the new one writes.
InOrder == \A d, e \in Days : d < e /\ pending[d] # <<>> => files[e] = <<>>

\* Every range of the chain verifies at any moment, entries still being written
\* included, as long as the service is only ever stopped in order, across
\* midnights and restarts.  Only while the new day's stream has overtaken the
\* old one does verification see a gap; one crash can break the chain for good.
OrderlyChainVerifies ==
    crashes = 0 /\ up /\ InOrder =>
        \A start, end \in 1 .. sequenceNumber : VerifyChain(start, end)

Without(d, n) ==
    [files EXCEPT ![d] = SubSeq(@, 1, n - 1) \o SubSeq(@, n + 1, Len(@))]

\* Verification means something: when any line but the last of an intact chain is
\* missing, it fails, whichever day's file the line was in and although the files
\* are checked one after the other (verifyChainIntegrity).
LossDetected ==
    crashes = 0 /\ up /\ Drained =>
        \A d \in Days : \A n \in 1 .. Len(files[d]) :
            files[d][n].seq < sequenceNumber =>
                ~ Verify(Without(d, n), 1, sequenceNumber)

\* The entries of one run of the service, on disk and not yet.
Written(d) == files[d] \o pending[d]

\* Within a file two neighbouring entries of one run are linked, and numbered
\* one after the other: no interleaving of streams, midnights and crashes
\* reorders or skips entries inside a day's file of one run.
NeighboursLinked ==
    \A d \in Days : \A n \in 1 .. Len(Written(d)) - 1 :
        LET a == Written(d)[n]
            b == Written(d)[n + 1]
        IN  Parses(a) /\ Parses(b) /\ a.run = b.run
            => b.previous = a.hash /\ b.seq = a.seq + 1

\* A line that was written with its newline stays what and where it is,
\* whatever is appended after it when processes die and start again (writeLog;
\* of a machine that goes down with lines unsynced this says nothing).
EntriesDurable ==
    [][\A d \in Days : \A n \in 1 .. Len(files[d]) :
           files[d][n].kind = "entry" =>
               n <= Len(files'[d]) /\ files'[d][n] = files[d][n]]_siemVars

\* Without a crash no two entries share a sequence number or a predecessor: the
\* chain does not fork over midnights and orderly restarts.
NoFork ==
    \A d, e \in Days : \A m \in 1 .. Len(files[d]), n \in 1 .. Len(files[e]) :
        crashes = 0 /\ files[d][m].previous = files[e][n].previous
        => d = e /\ m = n

\* What a stream was handed is written, or the process dies first.
PendingWritten == \A d \in Days : pending[d] # <<>> ~> pending[d] = <<>>

=============================================================================
