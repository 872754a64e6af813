---------------------------- MODULE AuditProofs ----------------------------
(***************************************************************************)
(* Theorems about the Loki transport and AuditLogService.log over it, for  *)
(* any number of calls, entries, batches under way and deaths of the       *)
(* process.                                                                *)
(*                                                                         *)
(* The calls use the transport as it may be used (LokiUsed), so what is    *)
(* proved of the transport holds under them.                               *)
(***************************************************************************)
EXTENDS AuditEvents, FiniteSetTheorems, SequenceTheorems, TLAPS

USE DEF lokiVars, auditVars

-----------------------------------------------------------------------------
(* Sequences of entries.                                                   *)

\* No entry twice.
Distinct(seq) == \A m, n \in 1 .. Len(seq) : seq[m] = seq[n] => m = n

LEMMA EntriesAppend ==
    ASSUME NEW S, NEW seq \in Seq(S), NEW e \in S
    PROVE  Entries(Append(seq, e)) = Entries(seq) \cup {e}
<1>1. /\ Len(Append(seq, e)) = Len(seq) + 1
      /\ Append(seq, e)[Len(seq) + 1] = e
      /\ \A n \in 1 .. Len(seq) : Append(seq, e)[n] = seq[n]
      /\ Len(seq) \in Nat
    OBVIOUS
<1>2. ASSUME NEW x \in Entries(Append(seq, e)) PROVE x \in Entries(seq) \cup {e}
    <2>1. PICK n \in 1 .. Len(seq) + 1 : x = Append(seq, e)[n]
        BY <1>1 DEF Entries
    <2>2. n \in 1 .. Len(seq) \/ n = Len(seq) + 1
        BY <1>1
    <2> QED
        BY <1>1, <2>1, <2>2 DEF Entries
<1>3. ASSUME NEW x \in Entries(seq) \cup {e} PROVE x \in Entries(Append(seq, e))
    <2>1. PICK n \in 1 .. Len(seq) + 1 : x = Append(seq, e)[n]
        <3>1. CASE x = e
            BY <1>1, <3>1
        <3>2. CASE x \in Entries(seq)
            BY <1>1, <3>2 DEF Entries
        <3> QED
            BY <3>1, <3>2
    <2> QED
        BY <1>1, <2>1 DEF Entries
<1> QED
    BY <1>2, <1>3

LEMMA EntriesConcat ==
    ASSUME NEW S, NEW s \in Seq(S), NEW t \in Seq(S)
    PROVE  Entries(s \o t) = Entries(s) \cup Entries(t)
<1>1. /\ Len(s) \in Nat /\ Len(t) \in Nat
      /\ Len(s \o t) = Len(s) + Len(t)
      /\ \A n \in 1 .. Len(s) : (s \o t)[n] = s[n]
      /\ \A n \in 1 .. Len(t) : (s \o t)[Len(s) + n] = t[n]
    OBVIOUS
<1>2. ASSUME NEW x \in Entries(s \o t) PROVE x \in Entries(s) \cup Entries(t)
    <2>1. PICK n \in 1 .. Len(s) + Len(t) : x = (s \o t)[n]
        BY <1>1 DEF Entries
    <2>2. n \in 1 .. Len(s) \/ (n - Len(s) \in 1 .. Len(t) /\ n = Len(s) + (n - Len(s)))
        BY <1>1
    <2> QED
        BY <1>1, <2>1, <2>2 DEF Entries
<1>3. ASSUME NEW x \in Entries(s) \cup Entries(t) PROVE x \in Entries(s \o t)
    <2>1. PICK n \in 1 .. Len(s) + Len(t) : x = (s \o t)[n]
        <3>1. CASE x \in Entries(s)
            BY <1>1, <3>1 DEF Entries
        <3>2. CASE x \in Entries(t)
            <4>1. PICK n \in 1 .. Len(t) : x = t[n]
                BY <3>2 DEF Entries
            <4> QED
                BY <1>1, <4>1
        <3> QED
            BY <3>1, <3>2
    <2> QED
        BY <1>1, <2>1 DEF Entries
<1> QED
    BY <1>2, <1>3

LEMMA DistinctAppend ==
    ASSUME NEW S, NEW seq \in Seq(S), NEW e \in S, Distinct(seq), e \notin Entries(seq)
    PROVE  Distinct(Append(seq, e))
BY DEF Distinct, Entries

LEMMA DistinctConcat ==
    ASSUME NEW S, NEW s \in Seq(S), NEW t \in Seq(S), Distinct(s), Distinct(t),
           Entries(s) \cap Entries(t) = {}
    PROVE  Distinct(s \o t)
<1> SUFFICES ASSUME NEW m \in 1 .. Len(s \o t), NEW n \in 1 .. Len(s \o t),
                    (s \o t)[m] = (s \o t)[n]
             PROVE  m = n
    BY DEF Distinct
<1>1. /\ Len(s) \in Nat /\ Len(t) \in Nat
      /\ Len(s \o t) = Len(s) + Len(t)
      /\ \A k \in 1 .. Len(s) : (s \o t)[k] = s[k] /\ s[k] \in Entries(s)
      /\ \A k \in 1 .. Len(t) : (s \o t)[Len(s) + k] = t[k] /\ t[k] \in Entries(t)
    BY DEF Entries
<1>2. \A k \in 1 .. Len(s \o t) :
          \/ k \in 1 .. Len(s)
          \/ k - Len(s) \in 1 .. Len(t) /\ k = Len(s) + (k - Len(s))
    BY <1>1
<1>3. CASE m \in 1 .. Len(s) /\ n \in 1 .. Len(s)
    BY <1>1, <1>3 DEF Distinct
<1>4. CASE m - Len(s) \in 1 .. Len(t) /\ n - Len(s) \in 1 .. Len(t)
    <2>1. t[m - Len(s)] = t[n - Len(s)]
        BY <1>1, <1>2, <1>4
    <2>2. m - Len(s) = n - Len(s)
        BY <1>4, <2>1 DEF Distinct
    <2> QED
        BY <1>1, <2>2
<1>5. CASE m \in 1 .. Len(s) /\ n - Len(s) \in 1 .. Len(t)
    BY <1>1, <1>2, <1>5
<1>6. CASE n \in 1 .. Len(s) /\ m - Len(s) \in 1 .. Len(t)
    BY <1>1, <1>2, <1>6
<1> QED
    BY <1>2, <1>3, <1>4, <1>5, <1>6

-----------------------------------------------------------------------------
(* The transport.                                                          *)

\* The entries of all batches under way.
Under == UNION {Entries(batch) : batch \in posts}

\* The strengthening of EachOnce: batches share no entries, and nothing that will
\* be stored repeats one.
LokiInv ==
    /\ LokiTypeOK
    /\ Entries(logBuffer) \cup Under \cup Entries(loki) \cup dropped = 1 .. pushed
    /\ Entries(logBuffer) \cap (Under \cup Entries(loki) \cup dropped) = {}
    /\ Under \cap (Entries(loki) \cup dropped) = {}
    /\ Entries(loki) \cap dropped = {}
    /\ Distinct(logBuffer) /\ Distinct(loki)
    /\ \A b \in posts : Distinct(b)
    /\ \A b, c \in posts : b # c => Entries(b) \cap Entries(c) = {}

LEMMA LokiInitInv == LokiInit => LokiInv
<1> SUFFICES ASSUME LokiInit PROVE LokiInv
    OBVIOUS
<1>1. /\ pushed = 0 /\ logBuffer = <<>> /\ posts = {} /\ loki = <<>> /\ dropped = {}
      /\ flushTimer = FALSE
    BY DEF LokiInit
<1>2. LokiTypeOK
    <2>1. <<>> \in Seq(1 .. 0)
        BY EmptySeq
    <2>2. 0 \in 0 .. MaxPushes
        BY LokiAssumption
    <2> QED
        BY <1>1, <2>1, <2>2 DEF LokiTypeOK
<1>3. Entries(<<>>) = {} /\ Distinct(<<>>) /\ 1 .. 0 = {}
    BY DEF Entries, Distinct
<1>4. Under = {}
    BY <1>1 DEF Under
<1> QED
    BY <1>1, <1>2, <1>3, <1>4 DEF LokiInv

LEMMA LokiTypeNext == LokiTypeOK /\ [LokiNext]_lokiVars => LokiTypeOK'
<1> SUFFICES ASSUME LokiTypeOK, [LokiNext]_lokiVars PROVE LokiTypeOK'
    OBVIOUS
<1> USE DEF LokiTypeOK
<1>1. CASE Push
    <2>1. /\ pushed' = pushed + 1 /\ pushed' \in 0 .. MaxPushes
          /\ logBuffer' = Append(logBuffer, pushed')
          /\ flushTimer' \in BOOLEAN
          /\ UNCHANGED <<posts, loki, dropped>>
        BY <1>1, LokiAssumption DEF Push
    <2>2. 1 .. pushed \subseteq 1 .. pushed' /\ pushed' \in 1 .. pushed'
        BY <2>1
    <2>3. Seq(1 .. pushed) \subseteq Seq(1 .. pushed')
        BY <2>2, SeqMonotonic
    <2>4. logBuffer' \in Seq(1 .. pushed')
        BY <2>1, <2>2, <2>3, AppendProperties
    <2> QED
        BY <2>1, <2>2, <2>3, <2>4
<1>2. CASE FlushLogs
    BY <1>2 DEF FlushLogs
<1>3. ASSUME NEW batch \in posts, Stored(batch) PROVE LokiTypeOK'
    BY <1>3 DEF Stored
<1>4. ASSUME NEW batch \in posts, Refused(batch) PROVE LokiTypeOK'
    <2>1. Entries(batch) \subseteq 1 .. pushed
        BY DEF Entries
    <2> QED
        BY <1>4, <2>1 DEF Refused
<1>5. CASE Crash
    <2>1. Entries(logBuffer) \subseteq 1 .. pushed
        BY DEF Entries
    <2> QED
        BY <1>5, <2>1, EmptySeq DEF Crash
<1>6. CASE UNCHANGED lokiVars
    BY <1>6
<1> QED
    BY <1>1, <1>2, <1>3, <1>4, <1>5, <1>6 DEF LokiNext

LEMMA LokiNextInv == LokiInv /\ [LokiNext]_lokiVars => LokiInv'
<1> SUFFICES ASSUME LokiInv, [LokiNext]_lokiVars PROVE LokiInv'
    OBVIOUS
<1> USE DEF LokiInv
<1>0. LokiTypeOK'
    BY LokiTypeNext
<1>1. CASE Push
    <2> DEFINE e == pushed + 1
    <2>1. /\ pushed' = e /\ logBuffer' = Append(logBuffer, e)
          /\ UNCHANGED <<posts, loki, dropped>>
        BY <1>1 DEF Push
    <2>2. 1 .. e = (1 .. pushed) \cup {e} /\ e \notin 1 .. pushed /\ pushed \in Nat
        BY DEF LokiTypeOK
    <2>3. logBuffer \in Seq(1 .. e) /\ e \in 1 .. e
        BY <2>2, SeqMonotonic DEF LokiTypeOK
    <2>4. Entries(logBuffer)' = Entries(logBuffer) \cup {e}
        BY <2>1, <2>3, EntriesAppend
    <2>5. Distinct(logBuffer)'
        BY <2>1, <2>2, <2>3, DistinctAppend
    <2>6. Under' = Under
        BY <2>1 DEF Under
    <2> QED
        BY <1>0, <2>1, <2>2, <2>4, <2>5, <2>6
<1>2. CASE FlushLogs
    <2>1. /\ posts' = posts \cup {logBuffer} /\ logBuffer' = <<>>
          /\ UNCHANGED <<pushed, loki, dropped>>
        BY <1>2 DEF FlushLogs
    <2>2. Under' = Under \cup Entries(logBuffer)
        BY <2>1 DEF Under
    <2>3. Entries(logBuffer)' = {} /\ Distinct(logBuffer)'
        BY <2>1 DEF Entries, Distinct
    <2>4. \A b \in posts : Entries(b) \subseteq Under
        BY DEF Under
    <2> QED
        BY <1>0, <2>1, <2>2, <2>3, <2>4
<1>3. ASSUME NEW batch \in posts PROVE Under = Entries(batch) \cup UNION {Entries(b) : b \in posts \ {batch}}
    BY DEF Under
<1>4. ASSUME NEW batch \in posts, Stored(batch) PROVE LokiInv'
    <2>1. /\ posts' = posts \ {batch} /\ loki' = loki \o batch
          /\ UNCHANGED <<pushed, logBuffer, dropped>>
        BY <1>4 DEF Stored
    <2>2. Under' = UNION {Entries(b) : b \in posts \ {batch}}
        BY <2>1 DEF Under
    <2>3. Entries(loki)' = Entries(loki) \cup Entries(batch)
        BY <2>1, EntriesConcat DEF LokiTypeOK
    <2>4. Entries(batch) \cap Under' = {} /\ Entries(batch) \subseteq Under
        BY <1>3, <2>2
    <2>5. Distinct(loki)'
        BY <2>1, <2>4, DistinctConcat DEF LokiTypeOK
    <2>6. Under = Entries(batch) \cup Under'
        BY <1>3, <2>2
    <2> QED
        BY <1>0, <2>1, <2>3, <2>4, <2>5, <2>6
<1>5. ASSUME NEW batch \in posts, Refused(batch) PROVE LokiInv'
    <2>1. /\ posts' = posts \ {batch} /\ dropped' = dropped \cup Entries(batch)
          /\ UNCHANGED <<pushed, logBuffer, loki>>
        BY <1>5 DEF Refused
    <2>2. Under' = UNION {Entries(b) : b \in posts \ {batch}}
        BY <2>1 DEF Under
    <2>3. Entries(batch) \cap Under' = {}
        BY <1>3, <2>2
    <2>4. Under = Entries(batch) \cup Under'
        BY <1>3, <2>2
    <2> QED
        BY <1>0, <2>1, <2>3, <2>4
<1>6. CASE Crash
    <2>1. /\ logBuffer' = <<>> /\ dropped' = dropped \cup Entries(logBuffer)
          /\ UNCHANGED <<pushed, posts, loki>>
        BY <1>6 DEF Crash
    <2>2. Entries(logBuffer)' = {} /\ Distinct(logBuffer)'
        BY <2>1 DEF Entries, Distinct
    <2>3. Under' = Under
        BY <2>1 DEF Under
    <2> QED
        BY <1>0, <2>1, <2>2, <2>3
<1>7. CASE UNCHANGED lokiVars
    BY <1>0, <1>7 DEF Under
<1> QED
    BY <1>1, <1>2, <1>4, <1>5, <1>6, <1>7 DEF LokiNext

LEMMA LokiInvHolds == LokiSpec => []LokiInv
<1> QED
    BY LokiInitInv, LokiNextInv, PTL DEF LokiSpec

LEMMA LokiInvOnce == LokiInv => EachOnce
<1> SUFFICES ASSUME LokiInv PROVE EachOnce
    OBVIOUS
<1>1. \A e \in 1 .. pushed : \A m, n \in 1 .. Len(loki) :
          loki[m] = e /\ loki[n] = e => m = n
    BY DEF LokiInv, Distinct
<1> QED
    BY <1>1 DEF LokiInv, EachOnce, Under

-----------------------------------------------------------------------------
(* The calls over it.                                                      *)

LEMMA AuditUsesLoki == [AuditNext]_auditVars => [LokiNext]_lokiVars
BY DEF AuditNext, Save, Report, Announce, Transport, Die, LokiNext

LEMMA LokiUsed == AuditSpec => LokiSpec
<1>1. AuditInit => LokiInit
    BY DEF AuditInit
<1> QED
    BY <1>1, AuditUsesLoki, PTL DEF AuditSpec, LokiSpec

\* Whatever the calls, the timer, the answers of Loki and the deaths of the
\* process do, every entry is waiting, under way, stored or lost, in exactly one
\* of these ways and stored at most once (lokiFormat, flushLogs, sendToLoki).
THEOREM NoEntryTwice == AuditSpec => []EachOnce
<1> QED
    BY LokiUsed, LokiInvHolds, LokiInvOnce, PTL

\* What an entry may be about.
Subjects == {NoRow} \cup 1 .. Len(rows)

LEMMA AuditTypeNext == AuditTypeOK /\ [AuditNext]_auditVars => AuditTypeOK'
<1> SUFFICES ASSUME AuditTypeOK, [AuditNext]_auditVars PROVE AuditTypeOK'
    OBVIOUS
<1> USE DEF AuditTypeOK, Subjects
<1>0. LokiTypeOK'
    BY LokiTypeNext, AuditUsesLoki
<1>1. ASSUME NEW action \in Actions, Save(action) PROVE AuditTypeOK'
    <2>1. /\ rows' = Append(rows, action) /\ Len(rows') = Len(rows) + 1 /\ Len(rows) \in Nat
          /\ rows' \in Seq(Actions)
          /\ reporting' = reporting \cup {Len(rows')}
          /\ UNCHANGED <<lokiVars, source>>
        BY <1>1 DEF Save
    <2>2. 1 .. Len(rows) \subseteq 1 .. Len(rows') /\ Len(rows') \in 1 .. Len(rows')
        BY <2>1
    <2>4. Subjects \subseteq Subjects'
        BY <2>2
    <2>3. source' \in Seq(Subjects')
        <3>1. source \in Seq(Subjects) /\ source' = source
            BY <2>1
        <3> QED
            BY ONLY <2>4, <3>1, SeqMonotonic
    <2> QED
        BY <1>0, <2>1, <2>2, <2>3
<1>2. ASSUME NEW r \in reporting, Report(r) PROVE AuditTypeOK'
    <2>1. /\ source' = Append(source, r) /\ r \in 1 .. Len(rows)
          /\ pushed' = pushed + 1
          /\ reporting' = reporting \ {r} /\ rows' = rows
        BY <1>2 DEF Report, Push
    <2>2. source' \in Seq(Subjects) /\ Len(source') = Len(source) + 1
        BY <2>1
    <2> QED
        BY <1>0, <2>1, <2>2
<1>6. CASE Announce
    <2>1. /\ source' = Append(source, NoRow)
          /\ pushed' = pushed + 1
          /\ reporting' = reporting /\ rows' = rows
        BY <1>6 DEF Announce, Push
    <2>2. source' \in Seq(Subjects) /\ Len(source') = Len(source) + 1
        BY <2>1
    <2> QED
        BY <1>0, <2>1, <2>2
<1>3. CASE Transport /\ UNCHANGED <<rows, reporting, source>>
    BY <1>0, <1>3 DEF Transport, FlushLogs, Stored, Refused
<1>4. CASE Die
    BY <1>0, <1>4 DEF Die, Crash
<1>5. CASE UNCHANGED auditVars
    BY <1>0, <1>5
<1> QED
    BY <1>1, <1>2, <1>3, <1>4, <1>5, <1>6 DEF AuditNext

\* No two entries are about one row, and none is about a row whose call has yet to
\* push it.
OneEntryEach ==
    /\ \A d, e \in 1 .. Len(source) : source[d] = source[e] => d = e \/ source[d] = NoRow
    /\ reporting \cap Entries(source) = {}

AuditInv == LokiInv /\ AuditTypeOK /\ OneEntryEach

LEMMA AuditInitInv == AuditInit => AuditInv
<1> SUFFICES ASSUME AuditInit PROVE AuditInv
    OBVIOUS
<1>1. /\ rows = <<>> /\ reporting = {} /\ source = <<>> /\ pushed = 0
      /\ LokiInv /\ LokiTypeOK
    BY LokiInitInv DEF AuditInit, LokiInit, LokiInv
<1>2. <<>> \in Seq(Actions) /\ <<>> \in Seq({NoRow} \cup 1 .. 0) /\ Len(<<>>) = 0
    BY EmptySeq
<1> QED
    BY <1>1, <1>2 DEF AuditInv, AuditTypeOK, OneEntryEach

LEMMA OneEntryNext == AuditTypeOK /\ OneEntryEach /\ [AuditNext]_auditVars => OneEntryEach'
<1> SUFFICES ASSUME AuditTypeOK, OneEntryEach, [AuditNext]_auditVars PROVE OneEntryEach'
    OBVIOUS
<1> USE DEF OneEntryEach
<1>6. ASSUME NEW r \in Subjects, r \notin Entries(source) \/ r = NoRow,
             source' = Append(source, r), reporting' = reporting \ {r}
      PROVE  OneEntryEach'
    <2>1. source \in Seq(Subjects)
        BY DEF AuditTypeOK, Subjects
    <2>2. /\ Len(source') = Len(source) + 1 /\ Len(source) \in Nat
          /\ source'[Len(source) + 1] = r
          /\ \A d \in 1 .. Len(source) : source'[d] = source[d]
        BY ONLY <1>6, <2>1, AppendProperties
    <2>3. Entries(source') = Entries(source) \cup {r}
        BY ONLY <1>6, <2>1, EntriesAppend
    <2>4. r # NoRow => \A d \in 1 .. Len(source) : source[d] # r
        BY <1>6 DEF Entries
    <2>5. ASSUME NEW d \in 1 .. Len(source'), NEW e \in 1 .. Len(source'),
                 source'[d] = source'[e]
          PROVE  d = e \/ source'[d] = NoRow
        <3>1. /\ d \in 1 .. Len(source) \/ d = Len(source) + 1
              /\ e \in 1 .. Len(source) \/ e = Len(source) + 1
            BY <2>2
        <3> QED
            BY <2>2, <2>4, <2>5, <3>1
    <2> QED
        BY <1>6, <2>3, <2>5
<1>1. ASSUME NEW action \in Actions, Save(action) PROVE OneEntryEach'
    <2>0. Len(rows') = Len(rows) + 1 /\ Len(rows) \in Nat /\ source \in Seq(Subjects)
        BY <1>1 DEF Save, AuditTypeOK, Subjects
    <2>1. Len(rows') \notin Entries(source)
        <3>1. Entries(source) \subseteq Subjects
            BY <2>0, ElementOfSeq DEF Entries
        <3> QED
            BY <2>0, <3>1 DEF Subjects, NoRow
    <2> QED
        BY <1>1, <2>1 DEF Save
<1>2. ASSUME NEW r \in reporting, Report(r) PROVE OneEntryEach'
    <2>1. /\ source' = Append(source, r) /\ r \notin Entries(source) /\ r \in 1 .. Len(rows)
          /\ reporting' = reporting \ {r}
        BY <1>2 DEF Report, AuditTypeOK
    <2> QED
        BY <1>6, <2>1 DEF Subjects
<1>7. CASE Announce
    <2>1. source' = Append(source, NoRow) /\ reporting' = reporting
        BY <1>7 DEF Announce
    <2>2. NoRow \notin reporting \ {NoRow} /\ reporting \ {NoRow} = reporting
        BY DEF AuditTypeOK, NoRow
    <2> QED
        BY <1>6, <2>1, <2>2 DEF Subjects
<1>3. CASE Transport /\ UNCHANGED <<rows, reporting, source>>
    BY <1>3
<1>4. CASE Die
    BY <1>4 DEF Die
<1>5. CASE UNCHANGED auditVars
    BY <1>5
<1> QED
    BY <1>1, <1>2, <1>3, <1>4, <1>5, <1>7 DEF AuditNext

LEMMA AuditNextInv == AuditInv /\ [AuditNext]_auditVars => AuditInv'
BY AuditUsesLoki, LokiNextInv, AuditTypeNext, OneEntryNext DEF AuditInv

LEMMA AuditInvHolds == AuditSpec => []AuditInv
<1> QED
    BY AuditInitInv, AuditNextInv, PTL DEF AuditSpec

\* Each variable keeps its type; whatever calls, Nest and main.ts push, an entry that
\* is about a row is about one that exists.
THEOREM AuditTyped == AuditSpec => []AuditTypeOK
<1>1. AuditInv => AuditTypeOK
    BY DEF AuditInv
<1> QED
    BY <1>1, AuditInvHolds, PTL

-----------------------------------------------------------------------------
(* The calls over the transport implement Delivery.  Save is its SetOut, a *)
(* batch stored its Arrive, a batch refused and a death its Lose; an entry *)
(* pushed, about a row or not, and a buffer posted are stutters.           *)

LEMMA SeqOfFunction ==
    ASSUME NEW S, NEW k \in Nat, NEW f \in [1 .. k -> S]
    PROVE  f \in Seq(S) /\ Len(f) = k
<1>1. f \in Seq(S)
    BY SeqDef
<1>2. Len(f) \in Nat /\ DOMAIN f = 1 .. Len(f) /\ DOMAIN f = 1 .. k
    BY <1>1, LenProperties
<1> QED
    BY <1>1, <1>2

\* The rows on their way to the monitoring, and those it has heard of.
Way(calls, src, buffer, batches) ==
    calls \cup ({src[e] : e \in Entries(buffer) \cup UNION {Entries(b) : b \in batches}}
                   \ {NoRow})

Heard(src, stored) == [n \in 1 .. Len(stored) |-> src[stored[n]]]

LEMMA HeardType ==
    ASSUME NEW S, NEW src \in Seq(S), NEW stored \in Seq(1 .. Len(src))
    PROVE  /\ Heard(src, stored) \in Seq(S)
           /\ Len(Heard(src, stored)) = Len(stored)
           /\ \A n \in 1 .. Len(stored) : Heard(src, stored)[n] = src[stored[n]]
<1>1. \A n \in 1 .. Len(stored) : stored[n] \in 1 .. Len(src)
    OBVIOUS
<1>2. \A n \in 1 .. Len(stored) : src[stored[n]] \in S
    BY <1>1
<1>3. Len(stored) \in Nat /\ Heard(src, stored) \in [1 .. Len(stored) -> S]
    BY <1>2 DEF Heard
<1>4. \A n \in 1 .. Len(stored) : Heard(src, stored)[n] = src[stored[n]]
    BY DEF Heard
<1> QED
    BY <1>3, <1>4, SeqOfFunction

\* What is under way as module Delivery has it.
WayNow == Way(reporting, source, logBuffer, posts)
WayNext == Way(reporting', source', logBuffer', posts')

LEMMA WayIs ==
    /\ WayNow = reporting \cup Sources(logBuffer) \cup UNION {Sources(batch) : batch \in posts}
    /\ WayNext = (reporting \cup Sources(logBuffer) \cup UNION {Sources(batch) : batch \in posts})'
BY DEF WayNow, WayNext, Way, Sources, Entries

LEMMA TrailInitIs ==
    ASSUME Len(rows) = 0, WayNow = {}, Heard(source, loki) = <<>>
    PROVE  Trail!DeliveryInit
BY WayIs DEF Trail!DeliveryInit, Heard

LEMMA TrailSetOutIs ==
    ASSUME Len(rows') = Len(rows) + 1, WayNext = WayNow \cup {Len(rows')},
           Heard(source', loki') = Heard(source, loki)
    PROVE  Trail!SetOut
BY WayIs DEF Trail!SetOut, Heard

LEMMA TrailLoseIs ==
    ASSUME rows' = rows, WayNext \subseteq WayNow,
           Heard(source', loki') = Heard(source, loki)
    PROVE  Trail!Lose
BY WayIs DEF Trail!Lose, Heard

LEMMA TrailStutterIs ==
    ASSUME rows' = rows, WayNext = WayNow, Heard(source', loki') = Heard(source, loki)
    PROVE  UNCHANGED Trail!deliveryVars
BY WayIs DEF Trail!deliveryVars, Heard

LEMMA TrailArriveIs ==
    ASSUME NEW fresh, fresh = Trail!Fresh(Heard(source, loki), Heard(source', loki')),
           SubSeq(Heard(source', loki'), 1, Len(Heard(source, loki))) = Heard(source, loki),
           Trail!Reports(Heard(source', loki'), fresh) \subseteq WayNow,
           \A m, n \in fresh :
               Heard(source', loki')[m] = Heard(source', loki')[n]
                   => m = n \/ Heard(source', loki')[m] = NoRow,
           WayNext = WayNow \ Trail!Reports(Heard(source', loki'), fresh),
           rows' = rows
    PROVE  Trail!Arrive
<1>1. /\ [n \in 1 .. Len(loki) |-> source[loki[n]]] = Heard(source, loki)
      /\ [n \in 1 .. Len(loki) |-> source[loki[n]]]' = Heard(source', loki')
    BY DEF Heard
<1> QED
    BY <1>1, WayIs DEF Trail!Arrive, Trail!Other, NoRow

LEMMA TrailInit == AuditInit => Trail!DeliveryInit
<1> SUFFICES ASSUME AuditInit PROVE Trail!DeliveryInit
    OBVIOUS
<1>1. /\ rows = <<>> /\ reporting = {} /\ logBuffer = <<>> /\ posts = {} /\ loki = <<>>
      /\ source = <<>>
    BY DEF AuditInit, LokiInit
<1>2. WayNow = {} /\ Len(rows) = 0
    BY <1>1 DEF WayNow, Way, Entries
<1>3. Heard(source, loki) = <<>>
    BY <1>1 DEF Heard
<1> QED
    BY <1>2, <1>3, TrailInitIs

LEMMA TrailSave ==
    ASSUME AuditInv, NEW action \in Actions, Save(action)
    PROVE  Trail!SetOut
<1>1. /\ rows' = Append(rows, action) /\ Len(rows') = Len(rows) + 1
      /\ reporting' = reporting \cup {Len(rows')}
      /\ UNCHANGED <<logBuffer, posts, loki, source>>
    BY DEF Save, AuditInv, AuditTypeOK
<1>2. WayNext = WayNow \cup {Len(rows')}
    BY <1>1 DEF WayNow, WayNext, Way
<1> QED
    BY <1>1, <1>2, TrailSetOutIs

\* An entry is pushed, about a row in the hands of its call or about none.
LEMMA TrailPush ==
    ASSUME AuditInv, NEW r, r \in reporting \/ r = NoRow, Push,
           reporting' = reporting \ {r}, source' = Append(source, r), rows' = rows
    PROVE  UNCHANGED Trail!deliveryVars
<1> USE DEF AuditInv
<1> DEFINE e == pushed + 1
<1>1. /\ reporting' = reporting \ {r} /\ source' = Append(source, r)
      /\ logBuffer' = Append(logBuffer, e)
      /\ UNCHANGED <<rows, posts, loki>>
    BY DEF Push
<1>2. /\ pushed \in Nat /\ Len(source) = pushed
      /\ r \in Subjects /\ source \in Seq(Subjects) /\ NoRow \notin reporting
      /\ logBuffer \in Seq(1 .. pushed) /\ loki \in Seq(1 .. pushed)
    <2>1. /\ pushed \in Nat /\ Len(source) = pushed
          /\ logBuffer \in Seq(1 .. pushed) /\ loki \in Seq(1 .. pushed)
        BY DEF AuditTypeOK, LokiTypeOK
    <2>2. source \in Seq(Subjects)
        BY DEF AuditTypeOK, Subjects
    <2>3. NoRow \notin reporting
        BY DEF AuditTypeOK, NoRow
    <2>4. r \in Subjects
        BY DEF AuditTypeOK, Subjects
    <2> QED
        BY ONLY <2>1, <2>2, <2>3, <2>4
<1>3. source'[e] = r /\ \A d \in 1 .. pushed : source'[d] = source[d]
    BY ONLY <1>1, <1>2, AppendProperties
<1>4. Entries(logBuffer') = Entries(logBuffer) \cup {e}
    <2>1. 1 .. pushed \subseteq 1 .. e /\ e \in 1 .. e
        BY <1>2
    <2>2. logBuffer \in Seq(1 .. e)
        BY <1>2, <2>1, SeqMonotonic
    <2>3. Entries(Append(logBuffer, e)) = Entries(logBuffer) \cup {e}
        BY ONLY <2>1, <2>2, EntriesAppend
    <2> QED
        BY ONLY <1>1, <2>3
<1>5. Entries(logBuffer) \cup UNION {Entries(b) : b \in posts} \subseteq 1 .. pushed
    BY DEF LokiInv, Under
<1>6. WayNext = WayNow
    <2> DEFINE out == Entries(logBuffer) \cup UNION {Entries(b) : b \in posts}
               told == {source[d] : d \in out}
    <2>1. {source'[d] : d \in out \cup {e}} = told \cup {r}
        BY <1>3, <1>5
    <2>2. /\ WayNow = reporting \cup (told \ {NoRow})
          /\ WayNext = (reporting \ {r}) \cup ((told \cup {r}) \ {NoRow})
        <3>1. Entries(logBuffer') \cup UNION {Entries(b) : b \in posts'} = out \cup {e}
            BY <1>1, <1>4
        <3> QED
            BY <1>1, <2>1, <3>1 DEF WayNow, WayNext, Way
    <2> HIDE DEF told
    <2>3. CASE r = NoRow
        <3>1. (reporting \ {r}) \cup ((told \cup {r}) \ {NoRow})
                  = reporting \cup (told \ {NoRow})
            BY ONLY <1>2, <2>3
        <3> QED
            BY ONLY <2>2, <3>1
    <2>4. CASE r \in reporting
        <3>1. (reporting \ {r}) \cup ((told \cup {r}) \ {NoRow})
                  = reporting \cup (told \ {NoRow})
            BY ONLY <1>2, <2>4
        <3> QED
            BY ONLY <2>2, <3>1
    <2> QED
        BY ONLY <2>3, <2>4, r \in reporting \/ r = NoRow
<1>7. Heard(source', loki') = Heard(source, loki)
    <2>1. \A n \in 1 .. Len(loki) : source'[loki[n]] = source[loki[n]]
        BY <1>2, <1>3
    <2>2. loki' = loki
        BY ONLY <1>1
    <2> QED
        BY ONLY <2>1, <2>2 DEF Heard
<1> QED
    BY <1>1, <1>6, <1>7, TrailStutterIs

LEMMA TrailReport ==
    ASSUME AuditInv, NEW r \in reporting, Report(r)
    PROVE  UNCHANGED Trail!deliveryVars
BY TrailPush DEF Report

LEMMA TrailAnnounce ==
    ASSUME AuditInv, Announce
    PROVE  UNCHANGED Trail!deliveryVars
<1>1. reporting' = reporting \ {NoRow}
    BY DEF Announce, AuditInv, AuditTypeOK, NoRow
<1> QED
    BY <1>1, TrailPush DEF Announce

LEMMA TrailFlush ==
    ASSUME FlushLogs, UNCHANGED <<rows, reporting, source>>
    PROVE  UNCHANGED Trail!deliveryVars
<1>1. posts' = posts \cup {logBuffer} /\ logBuffer' = <<>> /\ loki' = loki
    BY DEF FlushLogs
<1>2. Entries(<<>>) = {}
    BY DEF Entries
<1>3. WayNext = WayNow
    BY <1>1, <1>2 DEF WayNow, WayNext, Way
<1> QED
    BY <1>1, <1>3, TrailStutterIs

LEMMA TrailRefused ==
    ASSUME NEW batch \in posts, Refused(batch), UNCHANGED <<rows, reporting, source>>
    PROVE  Trail!Lose
<1>1. posts' = posts \ {batch} /\ logBuffer' = logBuffer /\ loki' = loki
    BY DEF Refused
<1>2. WayNext \subseteq WayNow
    BY <1>1 DEF WayNow, WayNext, Way
<1> QED
    BY <1>1, <1>2, TrailLoseIs

LEMMA TrailDie == Die => Trail!Lose
<1> SUFFICES ASSUME Die PROVE Trail!Lose
    OBVIOUS
<1>1. /\ posts' = posts /\ logBuffer' = <<>> /\ loki' = loki
      /\ reporting' = {} /\ rows' = rows /\ source' = source
    BY DEF Die, Crash
<1>2. WayNext \subseteq WayNow
    BY <1>1 DEF WayNow, WayNext, Way, Entries
<1> QED
    BY <1>1, <1>2, TrailLoseIs

LEMMA TrailStored ==
    ASSUME AuditInv, AuditInv', NEW batch \in posts, Stored(batch),
           UNCHANGED <<rows, reporting, source>>
    PROVE  Trail!Arrive
<1> USE DEF AuditInv
<1> DEFINE k == Len(loki)
           old == Heard(source, loki)
           new == Heard(source, loki')
           fresh == (k + 1) .. Len(loki')
           set == {source[e] : e \in Entries(batch)} \ {NoRow}
<1>1. /\ loki' = loki \o batch /\ posts' = posts \ {batch} /\ logBuffer' = logBuffer
      /\ loki \in Seq(1 .. pushed) /\ batch \in Seq(1 .. pushed) /\ loki' \in Seq(1 .. pushed)
      /\ k \in Nat /\ Len(batch) \in Nat /\ Len(loki') = k + Len(batch)
      /\ \A n \in 1 .. k : loki'[n] = loki[n]
      /\ \A n \in 1 .. Len(batch) : loki'[k + n] = batch[n]
    BY DEF Stored, AuditTypeOK, LokiTypeOK
<1>2. /\ new \in Seq(Subjects) /\ Len(new) = k + Len(batch)
      /\ \A n \in 1 .. Len(loki') : new[n] = source[loki'[n]]
    <2>1. loki' \in Seq(1 .. Len(source)) /\ source \in Seq(Subjects)
        BY <1>1 DEF AuditTypeOK, Subjects
    <2>2. /\ new \in Seq(Subjects) /\ Len(new) = Len(loki')
          /\ \A n \in 1 .. Len(loki') : new[n] = source[loki'[n]]
        BY <2>1, HeardType
    <2> QED
        BY <1>1, <2>2
<1>3. /\ old \in Seq(Subjects) /\ Len(old) = k
      /\ \A n \in 1 .. k : old[n] = source[loki[n]]
    <2>1. loki \in Seq(1 .. Len(source)) /\ source \in Seq(Subjects)
        BY <1>1 DEF AuditTypeOK, Subjects
    <2>2. /\ old \in Seq(Subjects) /\ Len(old) = Len(loki)
          /\ \A n \in 1 .. Len(loki) : old[n] = source[loki[n]]
        BY ONLY <2>1, HeardType
    <2> QED
        BY ONLY <2>2
<1>4. SubSeq(new, 1, k) = old
    <2> HIDE DEF old, new
    <2>1. \A n \in 1 .. k : new[n] = old[n] /\ new[n] \in Subjects
        <3>1. \A n \in 1 .. k : n \in 1 .. Len(loki') /\ n \in 1 .. Len(new)
            BY <1>1, <1>2
        <3>2. \A n \in 1 .. k : new[n] \in Subjects
            BY <1>2, <3>1, ElementOfSeq
        <3>3. \A n \in 1 .. k : loki'[n] = loki[n]
            BY <1>1
        <3>4. ASSUME NEW n \in 1 .. k PROVE new[n] = old[n]
            <4>1. new[n] = source[loki'[n]]
                BY ONLY <1>2, <3>1, <3>4
            <4>2. old[n] = source[loki[n]] /\ loki'[n] = loki[n]
                BY ONLY <1>3, <3>3, <3>4
            <4> QED
                BY ONLY <4>1, <4>2
        <3> QED
            BY ONLY <3>2, <3>4
    <2>2. /\ SubSeq(new, 1, k) \in Seq(Subjects)
          /\ Len(SubSeq(new, 1, k)) = IF 1 <= k THEN k - 1 + 1 ELSE 0
          /\ \A n \in 1 .. k - 1 + 1 : SubSeq(new, 1, k)[n] = new[1 + n - 1]
        BY <1>1, <2>1, SubSeqProperties
    <2>3. /\ Len(SubSeq(new, 1, k)) = Len(old)
          /\ \A n \in 1 .. k : SubSeq(new, 1, k)[n] = old[n]
        BY <1>1, <1>3, <2>1, <2>2
    <2> QED
        BY <1>3, <2>2, <2>3, SeqEqual
<1>5. Trail!Reports(new, fresh) = set
    <2> HIDE DEF new
    <2>1. ASSUME NEW n \in fresh PROVE new[n] \in set \/ new[n] = NoRow
        <3>1. n - k \in 1 .. Len(batch) /\ n = k + (n - k) /\ n \in 1 .. Len(loki')
            BY <1>1
        <3>2. loki'[n] = batch[n - k] /\ batch[n - k] \in Entries(batch)
            BY <1>1, <3>1 DEF Entries
        <3> QED
            BY <1>2, <3>1, <3>2
    <2>2. ASSUME NEW x \in set PROVE x \in {new[n] : n \in fresh} /\ x # NoRow
        <3>1. PICK i \in 1 .. Len(batch) : x = source[batch[i]]
            BY DEF Entries
        <3>2. k + i \in fresh /\ k + i \in 1 .. Len(loki') /\ loki'[k + i] = batch[i]
            BY <1>1
        <3> QED
            BY <1>2, <3>1, <3>2
    <2> QED
        BY <2>1, <2>2 DEF Trail!Reports, Trail!Other, NoRow
<1>6. /\ \A d, e \in 1 .. pushed : source[d] = source[e] => d = e \/ source[d] = NoRow
      /\ \A e \in 1 .. pushed : source[e] \notin reporting
    BY DEF AuditTypeOK, OneEntryEach, Entries
<1>7. /\ Under = UNION {Entries(b) : b \in posts}
      /\ UNION {Entries(b) : b \in posts'} = UNION {Entries(b) : b \in posts \ {batch}}
      /\ Under = Entries(batch) \cup UNION {Entries(b) : b \in posts'}
      /\ Entries(batch) \cap UNION {Entries(b) : b \in posts'} = {}
      /\ Under \subseteq 1 .. pushed /\ Entries(logBuffer) \subseteq 1 .. pushed
      /\ Entries(batch) \cap Entries(logBuffer) = {}
    BY <1>1 DEF LokiInv, Under
<1>8. WayNext = WayNow \ set /\ set \subseteq WayNow
    <2>1. /\ WayNow = reporting
                     \cup ({source[e] : e \in Entries(logBuffer) \cup Under} \ {NoRow})
          /\ WayNext = reporting
                     \cup ({source[e] : e \in Entries(logBuffer)
                                             \cup UNION {Entries(b) : b \in posts'}} \ {NoRow})
        BY <1>1, <1>7 DEF WayNow, WayNext, Way
    <2>2. ASSUME NEW x \in WayNext PROVE x \notin set
        <3>1. CASE x \in reporting
            BY <1>6, <1>7, <3>1
        <3>2. CASE x \notin reporting
            <4>1. /\ x # NoRow
                  /\ \E d \in Entries(logBuffer) \cup UNION {Entries(b) : b \in posts'} :
                         x = source[d]
                BY <2>1, <3>2
            <4>3. PICK d \in Entries(logBuffer) \cup UNION {Entries(b) : b \in posts'} :
                      x = source[d]
                BY <4>1
            <4>2. d \in 1 .. pushed /\ d \notin Entries(batch) /\ Entries(batch) \subseteq 1 .. pushed
                BY <1>7
            <4> QED
                BY <1>6, <4>1, <4>2, <4>3
        <3> QED
            BY <3>1, <3>2
    <2> HIDE DEF WayNow, WayNext
    <2> QED
        BY <1>7, <2>1, <2>2
<1>9. ASSUME NEW m \in fresh, NEW n \in fresh, new[m] = new[n], new[m] # NoRow PROVE m = n
    <2>1. m \in 1 .. Len(loki') /\ n \in 1 .. Len(loki')
        BY <1>1
    <2>2. loki'[m] \in 1 .. pushed /\ loki'[n] \in 1 .. pushed
        BY <1>1, <2>1, ElementOfSeq
    <2>3. loki'[m] = loki'[n]
        BY <1>2, <1>6, <1>9, <2>1, <2>2
    <2> QED
        BY <2>1, <2>3 DEF LokiInv, Distinct
<1>10. fresh = Trail!Fresh(old, new)
    BY <1>1, <1>2, <1>3 DEF Trail!Fresh
<1> HIDE DEF fresh, set
<1> QED
    BY <1>3, <1>4, <1>5, <1>8, <1>9, <1>10, TrailArriveIs

LEMMA TrailNext ==
    AuditInv /\ AuditInv' /\ [AuditNext]_auditVars
        => [Trail!DeliveryNext]_Trail!deliveryVars
<1> SUFFICES ASSUME AuditInv, AuditInv', [AuditNext]_auditVars
             PROVE  Trail!DeliveryNext \/ UNCHANGED Trail!deliveryVars
    OBVIOUS
<1> USE DEF Trail!DeliveryNext
<1>1. ASSUME NEW action \in Actions, Save(action) PROVE Trail!DeliveryNext
    BY <1>1, TrailSave
<1>2. ASSUME NEW r \in reporting, Report(r) PROVE UNCHANGED Trail!deliveryVars
    BY <1>2, TrailReport
<1>8. CASE Announce
    BY <1>8, TrailAnnounce
<1>3. ASSUME FlushLogs, UNCHANGED <<rows, reporting, source>>
      PROVE  UNCHANGED Trail!deliveryVars
    BY <1>3, TrailFlush
<1>4. ASSUME NEW batch \in posts, Stored(batch), UNCHANGED <<rows, reporting, source>>
      PROVE  Trail!DeliveryNext
    BY <1>4, TrailStored
<1>5. ASSUME NEW batch \in posts, Refused(batch), UNCHANGED <<rows, reporting, source>>
      PROVE  Trail!DeliveryNext
    BY <1>5, TrailRefused
<1>6. CASE Die
    BY <1>6, TrailDie
<1>7. CASE UNCHANGED auditVars
    <2>1. WayNext = WayNow /\ Heard(source', loki') = Heard(source, loki) /\ rows' = rows
        BY <1>7 DEF WayNext, WayNow
    <2> QED
        BY <2>1, TrailStutterIs
<1> QED
    BY <1>1, <1>2, <1>3, <1>4, <1>5, <1>6, <1>7, <1>8 DEF AuditNext, Transport

\* The monitoring hears of every row at most once, whatever calls overlap, Nest and
\* main.ts log by the same way, batches are refused or late and processes die (log,
\* lokiFormat, flushLogs, sendToLoki): the calls over the transport implement
\* Delivery.
THEOREM TrailDelivers == AuditSpec => ImplementsDelivery
<1> QED
    BY TrailInit, TrailNext, AuditInvHolds, PTL DEF AuditSpec, ImplementsDelivery, Trail!DeliverySpec

-----------------------------------------------------------------------------
(* The alert for refused logins.                                           *)

\* An entry is called login_failed when, and only when, a login was refused.
LEMMA EventTypeRefusal ==
    ASSUME NEW action \in Actions
    PROVE  EventType(action) = "login_failed" <=> Refusal(action)
<1>1. action \in DOMAIN Words
    BY AuditAssumption
<1>2. Success[action] <=> ~ Refusal(action)
    BY <1>1 DEF Success, Refusal
<1>3. "login" \in Words[action] \/ ~ Refusal(action)
    BY DEF Words, Refusal
<1> QED
    BY <1>2, <1>3 DEF EventType

LEMMA AuditInvCounts == AuditInv => AlertCounts
<1> SUFFICES ASSUME AuditInv PROVE AlertCounts
    OBVIOUS
<1> USE DEF AuditInv
<1> DEFINE refused == {r \in 1 .. Len(rows) : Refusal(rows[r])}
           counted == Typed("login_failed")
           about == [n \in counted |-> source[loki[n]]]
<1>1. ASSUME NEW n \in 1 .. Len(loki), source[loki[n]] # NoRow
      PROVE  /\ loki[n] \in 1 .. Len(source)
             /\ source[loki[n]] \in 1 .. Len(rows)
             /\ rows[source[loki[n]]] \in Actions
    <2>1. loki[n] \in 1 .. Len(source)
        BY DEF AuditTypeOK, LokiTypeOK
    <2>2. source \in Seq(Subjects)
        BY DEF AuditTypeOK, Subjects
    <2>3. source[loki[n]] \in Subjects
        BY ONLY <2>1, <2>2, ElementOfSeq
    <2>4. source[loki[n]] \in 1 .. Len(rows)
        BY <1>1, <2>3 DEF Subjects
    <2> QED
        BY <2>1, <2>4 DEF AuditTypeOK
<1>2. \A n \in counted : /\ n \in 1 .. Len(loki) /\ source[loki[n]] # NoRow
                         /\ EventType(rows[source[loki[n]]]) = "login_failed"
    BY DEF Typed, About
<1>3. \A n \in counted : about[n] \in refused
    BY <1>1, <1>2, EventTypeRefusal
<1>4. \A m, n \in counted : about[m] = about[n] => m = n
    BY <1>1, <1>2 DEF LokiInv, OneEntryEach, Distinct
<1>5. about \in Injection(counted, refused)
    BY <1>3, <1>4 DEF Injection, IsInjective
<1>6. IsFiniteSet(refused)
    <2>1. Len(rows) \in Nat
        BY DEF AuditTypeOK
    <2>2. IsFiniteSet(1 .. Len(rows))
        BY <2>1, FS_Interval
    <2>3. refused \in SUBSET (1 .. Len(rows))
        OBVIOUS
    <2> HIDE DEF refused
    <2> QED
        BY <2>2, <2>3, FS_Subset
<1>7. Cardinality(counted) <= Cardinality(refused)
    <2> HIDE DEF refused, counted, about
    <2> QED
        BY <1>5, <1>6, FS_Injection
<1>8. About({"LOGIN_FAILED"}) \subseteq counted
    <2> SUFFICES ASSUME NEW n \in About({"LOGIN_FAILED"}) PROVE n \in counted
        OBVIOUS
    <2>1. /\ n \in 1 .. Len(loki) /\ source[loki[n]] # NoRow
          /\ rows[source[loki[n]]] = "LOGIN_FAILED"
        BY DEF About
    <2>2. rows[source[loki[n]]] \in Actions
        BY <1>1, <2>1
    <2>3. EventType(rows[source[loki[n]]]) = "login_failed"
        BY <2>1, <2>2, EventTypeRefusal DEF Refusal
    <2> QED
        BY <2>1, <2>2, <2>3 DEF Typed, About
<1> QED
    BY <1>7, <1>8 DEF AlertCounts

\* The alert for failed logins never counts more entries than logins were refused,
\* and counts every one refused for its password whose entry has arrived (log,
\* getEventType).
THEOREM AlertTrue == AuditSpec => []AlertCounts
<1> QED
    BY AuditInvHolds, AuditInvCounts, PTL

=============================================================================
