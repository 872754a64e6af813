----------------------------- MODULE SiemProofs -----------------------------
(***************************************************************************)
(* Theorems about the hash chain, for every number of days, entries and    *)
(* crashes.                                                                *)
(*                                                                         *)
(* What holds whatever crashes is SiemInv: each day's file followed by     *)
(* what its stream holds is one linked sequence (Linked), and the two      *)
(* fields continue its last entry if that is of this run (EndsIn).  What   *)
(* an orderly history has besides is Orderly: the days' sequences, one     *)
(* after the other, are the entries 1 to logged, each in one place.  So    *)
(* the last line of the last file is the last entry when the service       *)
(* starts again (LastFileCounts).  Verification is about Walk, a recursive *)
(* function over the days; WalkIs unfolds it and UpTo goes from one day to *)
(* the next, which takes the existence of the function and no induction    *)
(* over data but the well-foundedness of finite sets.                      *)
(***************************************************************************)
EXTENDS SiemChain, FiniteSetTheorems, SequenceTheorems, TLAPS

USE DEF memory, disk, siemVars

-----------------------------------------------------------------------------
(* Least and greatest numbers.                                             *)

LEMMA LeastNumber ==
    ASSUME NEW B, B \subseteq Nat, B # {}
    PROVE  \E n \in B : \A m \in B : n <= m
<1> DEFINE T == {1 .. n : n \in B}
<1>1. IsWellFoundedOn(StrictSubsetOrdering(Nat), FiniteSubsetsOf(Nat))
    BY FS_StrictSubsetOrderingWellFounded
<1>2. T \subseteq FiniteSubsetsOf(Nat)
    BY FS_Interval DEF FiniteSubsetsOf
<1>3. T # {}
    OBVIOUS
<1>4. PICK S \in T : \A R \in T : <<R, S>> \notin StrictSubsetOrdering(Nat)
    <2> HIDE DEF T
    <2> QED
        BY <1>1, <1>2, <1>3, WFMin
<1>5. PICK n \in B : S = 1 .. n
    OBVIOUS
<1>6. ASSUME NEW m \in B, m < n PROVE FALSE
    <2>1. 1 .. m \subseteq 1 .. n /\ n \in 1 .. n /\ n \notin 1 .. m /\ 1 .. n \subseteq Nat
        BY <1>6
    <2>2. <<1 .. m, 1 .. n>> \in StrictSubsetOrdering(Nat)
        BY <2>1 DEF StrictSubsetOrdering
    <2> QED
        BY <1>4, <1>5, <2>2
<1> QED
    BY <1>6

\* What holds of 0, and of the next number with each, holds up to the last.
LEMMA UpTo ==
    ASSUME NEW last \in Nat, NEW P, 0 \in P,
           \A n \in 0 .. last : n \in P /\ n < last => n + 1 \in P
    PROVE  \A n \in 0 .. last : n \in P
<1> DEFINE B == {n \in 0 .. last : n \notin P}
<1> SUFFICES ASSUME B # {} PROVE FALSE
    OBVIOUS
<1>1. B \subseteq Nat
    OBVIOUS
<1>2. PICK n \in B : \A m \in B : n <= m
    <2> HIDE DEF B
    <2> QED
        BY <1>1, LeastNumber
<1>3. n \in 1 .. last /\ n - 1 \in 0 .. last /\ n - 1 \in P
    BY <1>2
<1> QED
    BY <1>2, <1>3

LEMMA GreatestDay ==
    ASSUME NEW E, E \subseteq Days, E # {}
    PROVE  \E d \in E : \A e \in E : e <= d
<1> DEFINE B == {MaxDay - d : d \in E}
<1>0. MaxDay \in Nat /\ \A d \in E : d \in 1 .. MaxDay
    BY SiemAssumption DEF Days
<1>1. B \subseteq Nat /\ B # {}
    BY <1>0
<1>2. PICK n \in B : \A m \in B : n <= m
    <2> HIDE DEF B
    <2> QED
        BY <1>1, LeastNumber
<1>3. PICK d \in E : n = MaxDay - d
    BY <1>2
<1>4. \A e \in E : MaxDay - d <= MaxDay - e
    BY <1>2, <1>3
<1> QED
    BY <1>0, <1>4

-----------------------------------------------------------------------------
(* The operators, free of state.                                           *)

\* What two neighbouring lines must be to each other.
LinksTo(a, b) ==
    Parses(a) /\ Parses(b) /\ a.run = b.run => b.previous = a.hash /\ b.seq = a.seq + 1

Linked(w) == \A n \in 1 .. Len(w) - 1 : LinksTo(w[n], w[n + 1])

LEMMA LinkedAppend ==
    ASSUME NEW w \in Seq(Line), NEW e \in Line, Linked(w),
           w # <<>> => LinksTo(w[Len(w)], e)
    PROVE  Linked(Append(w, e))
<1>1. /\ Len(Append(w, e)) = Len(w) + 1 /\ Len(w) \in Nat
      /\ \A i \in 1 .. Len(w) : Append(w, e)[i] = w[i]
      /\ Append(w, e)[Len(w) + 1] = e
    BY AppendProperties
<1>2. Len(w) = 0 => w = <<>>
    OBVIOUS
<1> SUFFICES ASSUME NEW n \in 1 .. Len(w)
             PROVE  LinksTo(Append(w, e)[n], Append(w, e)[n + 1])
    BY <1>1 DEF Linked
<1>3. CASE n = Len(w)
    BY <1>1, <1>2, <1>3
<1>4. CASE n # Len(w)
    <2>1. n \in 1 .. Len(w) - 1 /\ n + 1 \in 1 .. Len(w)
        BY <1>1, <1>4
    <2> QED
        BY <1>1, <2>1 DEF Linked
<1> QED
    BY <1>3, <1>4

\* A file and what its stream still has to write.
LEMMA Whole ==
    ASSUME NEW f \in Seq(Line), NEW p \in Seq(Line)
    PROVE  /\ f \o p \in Seq(Line)
           /\ Len(f \o p) = Len(f) + Len(p) /\ Len(f) \in Nat /\ Len(p) \in Nat
           /\ \A i \in 1 .. Len(f) : (f \o p)[i] = f[i]
           /\ \A i \in 1 .. Len(p) : (f \o p)[Len(f) + i] = p[i]
<1>1. Len(f) \in Nat /\ Len(p) \in Nat
    OBVIOUS
<1>2. /\ f \o p \in Seq(Line)
      /\ Len(f \o p) = Len(f) + Len(p)
      /\ \A i \in 1 .. Len(f) + Len(p) :
             (f \o p)[i] = IF i <= Len(f) THEN f[i] ELSE p[i - Len(f)]
    BY ConcatProperties
<1>3. \A i \in 1 .. Len(f) : i \in 1 .. Len(f) + Len(p) /\ i <= Len(f)
    BY <1>1
<1>4. \A i \in 1 .. Len(p) : /\ Len(f) + i \in 1 .. Len(f) + Len(p)
                             /\ ~ Len(f) + i <= Len(f)
                             /\ Len(f) + i - Len(f) = i
    BY <1>1
<1> QED
    BY <1>1, <1>2, <1>3, <1>4

LEMMA HeadTail ==
    ASSUME NEW p \in Seq(Line), p # <<>>
    PROVE  /\ Head(p) = p[1] /\ Head(p) \in Line /\ Tail(p) \in Seq(Line)
           /\ Len(Tail(p)) = Len(p) - 1 /\ Len(p) \in Nat \ {0}
           /\ \A i \in 1 .. Len(p) - 1 : Tail(p)[i] = p[i + 1]
BY HeadTailProperties, EmptySeq

\* Handing over goes to the end of the whole, writing leaves it as it is.
LEMMA WholeMoves ==
    ASSUME NEW f \in Seq(Line), NEW p \in Seq(Line), NEW e \in Line
    PROVE  /\ f \o Append(p, e) = Append(f \o p, e)
           /\ p # <<>> => Append(f, Head(p)) \o Tail(p) = f \o p
<1>1. f \o Append(p, e) = Append(f \o p, e)
    <2>1. Append(p, e) = p \o <<e>> /\ Append(f \o p, e) = (f \o p) \o <<e>>
        BY Whole, AppendIsConcat
    <2>2. <<e>> \in Seq(Line)
        OBVIOUS
    <2> QED
        BY <2>1, <2>2, ConcatAssociative
<1>2. ASSUME p # <<>> PROVE Append(f, Head(p)) \o Tail(p) = f \o p
    <2>1. Head(p) \in Line /\ Tail(p) \in Seq(Line) /\ <<Head(p)>> \in Seq(Line)
        BY <1>2, HeadTail
    <2>2. Append(f, Head(p)) = f \o <<Head(p)>>
        BY <2>1, AppendIsConcat
    <2>3. (f \o <<Head(p)>>) \o Tail(p) = f \o (<<Head(p)>> \o Tail(p))
        BY <2>1, ConcatAssociative
    <2>4. <<Head(p)>> \o Tail(p) = p
        BY <1>2
    <2> QED
        BY <2>2, <2>3, <2>4
<1> QED
    BY <1>1, <1>2

\* A line without its newline takes in what is written after it.
Spoils(f) == f # <<>> /\ LastLine(f).kind \in {"bare", "torn"}

LEMMA AppendToSpoils ==
    ASSUME NEW f \in Seq(Line), NEW e, Spoils(f)
    PROVE  /\ AppendTo(f, e) \in Seq(Line)
           /\ Len(AppendTo(f, e)) = Len(f) /\ Len(f) \in Nat \ {0}
           /\ \A i \in 1 .. Len(f) - 1 : AppendTo(f, e)[i] = f[i]
           /\ AppendTo(f, e)[Len(f)] = Spoiled(f[Len(f)], e)
<1>1. Len(f) \in Nat \ {0} /\ Len(f) \in 1 .. Len(f)
    BY EmptySeq DEF Spoils
<1>2. f[Len(f)] \in Line
    BY <1>1, ElementOfSeq
<1> DEFINE line == Spoiled(f[Len(f)], e)
<1>3. line \in Line
    BY <1>2 DEF Line, Spoiled
<1>4. AppendTo(f, e) = [f EXCEPT ![Len(f)] = line]
    BY <1>1 DEF AppendTo, Spoils
<1> HIDE DEF line
<1>5. /\ [f EXCEPT ![Len(f)] = line] \in Seq(Line)
      /\ Len([f EXCEPT ![Len(f)] = line]) = Len(f)
      /\ \A j \in 1 .. Len(f) :
             [f EXCEPT ![Len(f)] = line][j] = IF j = Len(f) THEN line ELSE f[j]
    BY <1>1, <1>3, ExceptSeq
<1> QED
    BY <1>1, <1>4, <1>5 DEF line

LEMMA AppendToAppends ==
    ASSUME NEW f \in Seq(Line), NEW e \in Line, ~ Spoils(f)
    PROVE  /\ AppendTo(f, e) = Append(f, e)
           /\ AppendTo(f, e) \in Seq(Line)
BY DEF AppendTo, Spoils

\* Either way a line that has its newline stays where it is.
LEMMA AppendToKeeps ==
    ASSUME NEW f \in Seq(Line), NEW e \in Line, NEW n \in 1 .. Len(f), f[n].kind = "entry"
    PROVE  n <= Len(AppendTo(f, e)) /\ AppendTo(f, e)[n] = f[n]
<1>1. CASE Spoils(f)
    <2>1. n # Len(f)
        BY <1>1 DEF Spoils, LastLine
    <2>2. /\ Len(f) \in Nat /\ Len(AppendTo(f, e)) = Len(f)
          /\ \A i \in 1 .. Len(f) - 1 : AppendTo(f, e)[i] = f[i]
        BY <1>1, AppendToSpoils
    <2>3. n \in 1 .. Len(f) - 1 /\ n <= Len(f)
        BY <2>1, <2>2
    <2> QED
        BY <2>2, <2>3
<1>2. CASE ~ Spoils(f)
    <2>1. /\ AppendTo(f, e) = Append(f, e) /\ Len(f) \in Nat
          /\ Len(Append(f, e)) = Len(f) + 1
          /\ \A i \in 1 .. Len(f) : Append(f, e)[i] = f[i]
        <3>1. AppendTo(f, e) = Append(f, e)
            BY <1>2, AppendToAppends
        <3> QED
            BY <3>1, AppendProperties
    <2>2. n <= Len(f) + 1
        BY <2>1
    <2> QED
        BY <2>1, <2>2
<1> QED
    BY <1>1, <1>2

LEMMA LinkedFirst ==
    ASSUME NEW f \in Seq(Line), NEW p \in Seq(Line), Linked(f \o p)
    PROVE  Linked(f)
<1> SUFFICES ASSUME NEW n \in 1 .. Len(f) - 1 PROVE LinksTo(f[n], f[n + 1])
    BY DEF Linked
<1>1. Len(f \o p) = Len(f) + Len(p) /\ Len(f) \in Nat /\ Len(p) \in Nat
    BY Whole
<1>2. n \in 1 .. Len(f) /\ n + 1 \in 1 .. Len(f) /\ n \in 1 .. Len(f \o p) - 1
    BY <1>1
<1>3. (f \o p)[n] = f[n] /\ (f \o p)[n + 1] = f[n + 1]
    BY <1>2, Whole
<1> QED
    BY <1>2, <1>3 DEF Linked

\* A spoiled line parses no more, so nothing is asked of its neighbours.
LEMMA LinkedSpoiled ==
    ASSUME NEW f \in Seq(Line), NEW g \in Seq(Line), NEW p \in Seq(Line), Linked(f \o p),
           Len(g) = Len(f), Len(f) \in Nat \ {0},
           \A i \in 1 .. Len(f) - 1 : g[i] = f[i], ~ Parses(g[Len(f)]),
           p # <<>>
    PROVE  Linked(g \o Tail(p)) /\ Linked(g)
<1> DEFINE t == Tail(p)
<1>1. /\ t \in Seq(Line) /\ Len(t) = Len(p) - 1 /\ Len(p) \in Nat \ {0}
      /\ \A i \in 1 .. Len(p) - 1 : t[i] = p[i + 1]
    BY HeadTail
<1> HIDE DEF t
<1>2. Linked(g \o t)
    <2> SUFFICES ASSUME NEW n \in 1 .. Len(g \o t) - 1
                 PROVE  LinksTo((g \o t)[n], (g \o t)[n + 1])
        BY DEF Linked
    <2>1. /\ Len(g \o t) = Len(f) + Len(t)
          /\ Len(t) \in Nat
          /\ \A i \in 1 .. Len(f) : (g \o t)[i] = g[i]
          /\ \A i \in 1 .. Len(t) : (g \o t)[Len(f) + i] = t[i]
        <3>1. /\ Len(g \o t) = Len(g) + Len(t) /\ Len(t) \in Nat
              /\ \A i \in 1 .. Len(g) : (g \o t)[i] = g[i]
              /\ \A i \in 1 .. Len(t) : (g \o t)[Len(g) + i] = t[i]
            BY <1>1, Whole
        <3> QED
            BY <3>1
    <2>2. /\ Len(f \o p) = Len(f) + Len(p)
          /\ \A i \in 1 .. Len(f) : (f \o p)[i] = f[i]
          /\ \A i \in 1 .. Len(p) : (f \o p)[Len(f) + i] = p[i]
        BY Whole
    <2>3. CASE n < Len(f) - 1
        <3>1. /\ n \in 1 .. Len(f) - 1 /\ n + 1 \in 1 .. Len(f) - 1
              /\ n \in 1 .. Len(f \o p) - 1 /\ n \in 1 .. Len(f) /\ n + 1 \in 1 .. Len(f)
            BY <1>1, <2>2, <2>3
        <3>2. (g \o t)[n] = (f \o p)[n] /\ (g \o t)[n + 1] = (f \o p)[n + 1]
            BY <2>1, <2>2, <3>1
        <3> QED
            BY <3>1, <3>2 DEF Linked
    <2>4. CASE n = Len(f) - 1
        <3>1. (g \o t)[n + 1] = g[Len(f)]
            BY <2>1, <2>4
        <3> QED
            BY <3>1 DEF LinksTo
    <2>5. CASE n = Len(f)
        <3>1. (g \o t)[n] = g[Len(f)]
            BY <2>1, <2>5
        <3> QED
            BY <3>1 DEF LinksTo
    <2>6. CASE n > Len(f)
        <3> DEFINE k == n - Len(f)
        <3>1. /\ k \in 1 .. Len(t) /\ k + 1 \in 1 .. Len(t)
              /\ k + 1 \in 1 .. Len(p) /\ k + 2 \in 1 .. Len(p)
              /\ n = Len(f) + k /\ n + 1 = Len(f) + (k + 1)
              /\ k \in 1 .. Len(p) - 1 /\ k + 1 \in 1 .. Len(p) - 1 /\ (k + 1) + 1 = k + 2
            <4>1. /\ n \in Nat /\ n <= Len(f) + Len(t) - 1
                  /\ Len(f) \in Nat /\ Len(t) \in Nat /\ Len(p) = Len(t) + 1
                BY <1>1, <2>1
            <4>2. k \in Nat /\ k >= 1 /\ k + 1 <= Len(t)
                BY <2>6, <4>1
            <4> QED
                BY <4>1, <4>2
        <3> HIDE DEF k
        <3>2. (g \o t)[n] = t[k] /\ (g \o t)[n + 1] = t[k + 1]
            BY <2>1, <3>1
        <3>3. t[k] = p[k + 1] /\ t[k + 1] = p[k + 2]
            BY <1>1, <3>1
        <3>4. /\ Len(f) + (k + 1) \in 1 .. Len(f \o p) - 1
              /\ (Len(f) + (k + 1)) + 1 = Len(f) + (k + 2)
            BY <1>1, <2>2, <3>1
        <3>5. LinksTo((f \o p)[Len(f) + (k + 1)], (f \o p)[Len(f) + (k + 2)])
            BY <3>4 DEF Linked
        <3> QED
            BY <2>2, <3>1, <3>2, <3>3, <3>5
    <2> QED
        BY <2>1, <2>3, <2>4, <2>5, <2>6
<1> QED
    BY <1>1, <1>2, LinkedFirst DEF t

LEMMA LinkedFlush ==
    ASSUME NEW f \in Seq(Line), NEW p \in Seq(Line), p # <<>>, Linked(f \o p)
    PROVE  Linked(AppendTo(f, Head(p)) \o Tail(p))
<1>1. CASE Spoils(f)
    <2> DEFINE g == AppendTo(f, Head(p))
    <2>1. /\ g \in Seq(Line) /\ Len(g) = Len(f) /\ Len(f) \in Nat \ {0}
          /\ \A i \in 1 .. Len(f) - 1 : g[i] = f[i]
          /\ g[Len(f)] = Spoiled(f[Len(f)], Head(p))
        BY <1>1, AppendToSpoils
    <2>2. f[Len(f)] \in Line
        BY <2>1, ElementOfSeq
    <2>3. ~ Parses(g[Len(f)])
        BY <2>1, <2>2 DEF Parses, Line, Spoiled
    <2> QED
        BY <2>1, <2>3, LinkedSpoiled
<1>2. CASE ~ Spoils(f)
    <2>1. Head(p) \in Line
        BY HeadTail
    <2>2. AppendTo(f, Head(p)) = Append(f, Head(p))
        BY <1>2, <2>1, AppendToAppends
    <2>3. Append(f, Head(p)) \o Tail(p) = f \o p
        BY <2>1, WholeMoves
    <2> QED
        BY ONLY <2>2, <2>3, Linked(f \o p)
<1> QED
    BY <1>1, <1>2

LEMMA LinkedCut ==
    ASSUME NEW f \in Seq(Line), NEW p \in Seq(Line), p # <<>>, Linked(f \o p),
           Head(p).kind = "entry", NEW cut \in {"bare", "torn"}
    PROVE  Linked(AppendTo(f, [Head(p) EXCEPT !.kind = cut]))
<1> DEFINE e == [Head(p) EXCEPT !.kind = cut]
<1>1. Head(p) = p[1] /\ Head(p) \in Line /\ e \in Line /\ Len(p) \in Nat \ {0}
    BY HeadTail DEF Line
<1>2. CASE Spoils(f)
    <2> DEFINE g == AppendTo(f, e)
    <2>1. /\ g \in Seq(Line) /\ Len(g) = Len(f) /\ Len(f) \in Nat \ {0}
          /\ \A i \in 1 .. Len(f) - 1 : g[i] = f[i]
          /\ g[Len(f)] = Spoiled(f[Len(f)], e)
        BY <1>2, AppendToSpoils
    <2>2. f[Len(f)] \in Line
        BY <2>1, ElementOfSeq
    <2>3. ~ Parses(g[Len(f)])
        BY <2>1, <2>2 DEF Parses, Line, Spoiled
    <2> QED
        BY <2>1, <2>3, LinkedSpoiled
<1>3. CASE ~ Spoils(f)
    <2>1. Linked(f)
        BY LinkedFirst
    <2>2. ASSUME f # <<>> PROVE LinksTo(f[Len(f)], e)
        <3>1. Len(f) \in Nat \ {0} /\ Len(f \o p) = Len(f) + Len(p)
            BY <2>2, EmptySeq, Whole
        <3>2. Len(f) \in 1 .. Len(f \o p) - 1 /\ Len(f) \in 1 .. Len(f) /\ 1 \in 1 .. Len(p)
            BY <1>1, <3>1
        <3>3. (f \o p)[Len(f)] = f[Len(f)] /\ (f \o p)[Len(f) + 1] = p[1]
            BY <3>2, Whole
        <3>4. LinksTo(f[Len(f)], Head(p))
            BY <1>1, <3>2, <3>3 DEF Linked
        <3>5. /\ Parses(Head(p)) /\ e.run = Head(p).run
              /\ e.previous = Head(p).previous /\ e.seq = Head(p).seq
            BY <1>1 DEF Parses, Line
        <3> QED
            BY <3>4, <3>5 DEF LinksTo
    <2> QED
        BY <1>1, <1>3, <2>1, <2>2, LinkedAppend, AppendToAppends
<1> QED
    BY <1>2, <1>3

-----------------------------------------------------------------------------
(* The invariant, crashes included.                                        *)

\* A line is of a run that had begun, and of an entry that was logged.
Dated(line, top) == line.run <= line.hash /\ line.hash <= top /\ line.seq <= top

AllDated(w, top) == \A n \in 1 .. Len(w) : Dated(w[n], top)

AllEntries(w) == \A n \in 1 .. Len(w) : w[n].kind = "entry"

\* The last line of the run in progress is the one the two fields are of.
EndsIn(w, hash, number, r) ==
    w # <<>> /\ Parses(w[Len(w)]) /\ w[Len(w)].run = r
        => w[Len(w)].hash = hash /\ w[Len(w)].seq = number

DayOK(d) ==
    /\ AllDated(files[d], logged)
    /\ AllDated(pending[d], logged)
    /\ AllEntries(pending[d])
    /\ Linked(Written(d))
    /\ d > day => files[d] = <<>> /\ pending[d] = <<>>

SiemInv ==
    /\ SiemTypeOK
    /\ \A d \in Days : DayOK(d)
    /\ up => EndsIn(Written(day), lastHash, sequenceNumber, run)

LEMMA DatedLater ==
    ASSUME NEW w \in Seq(Line), NEW top \in Nat, AllDated(w, top)
    PROVE  AllDated(w, top + 1)
<1> SUFFICES ASSUME NEW n \in 1 .. Len(w) PROVE Dated(w[n], top + 1)
    BY DEF AllDated
<1>1. w[n] \in Line /\ Dated(w[n], top)
    BY ElementOfSeq DEF AllDated
<1>2. w[n].run \in Nat /\ w[n].hash \in Nat /\ w[n].seq \in Nat
    BY <1>1 DEF Line
<1> QED
    BY ONLY <1>1, <1>2, top \in Nat DEF Dated

LEMMA DatedAppend ==
    ASSUME NEW w \in Seq(Line), NEW top, NEW e \in Line, AllDated(w, top), Dated(e, top)
    PROVE  AllDated(Append(w, e), top)
<1>1. /\ Len(Append(w, e)) = Len(w) + 1 /\ Len(w) \in Nat
      /\ \A i \in 1 .. Len(w) : Append(w, e)[i] = w[i]
      /\ Append(w, e)[Len(w) + 1] = e
    BY AppendProperties
<1> SUFFICES ASSUME NEW n \in 1 .. Len(w) + 1 PROVE Dated(Append(w, e)[n], top)
    BY <1>1 DEF AllDated
<1>2. n \in 1 .. Len(w) \/ n = Len(w) + 1
    BY <1>1
<1> QED
    BY <1>1, <1>2 DEF AllDated

LEMMA DatedAppendTo ==
    ASSUME NEW f \in Seq(Line), NEW top, NEW e \in Line, AllDated(f, top), Dated(e, top)
    PROVE  AllDated(AppendTo(f, e), top) /\ AppendTo(f, e) \in Seq(Line)
<1>1. CASE Spoils(f)
    <2> DEFINE g == AppendTo(f, e)
    <2>1. /\ g \in Seq(Line) /\ Len(g) = Len(f) /\ Len(f) \in Nat \ {0}
          /\ \A i \in 1 .. Len(f) - 1 : g[i] = f[i]
          /\ g[Len(f)] = Spoiled(f[Len(f)], e)
        BY <1>1, AppendToSpoils
    <2>2. Len(f) \in 1 .. Len(f)
        BY <2>1
    <2>3. f[Len(f)] \in Line /\ Dated(f[Len(f)], top)
        BY <2>2, ElementOfSeq DEF AllDated
    <2>4. Dated(g[Len(f)], top)
        BY <2>1, <2>3 DEF Dated, Line, Spoiled
    <2>5. \A n \in 1 .. Len(f) : n \in 1 .. Len(f) - 1 \/ n = Len(f)
        BY <2>1
    <2> HIDE DEF g
    <2>6. AllDated(g, top)
        BY <2>1, <2>4, <2>5 DEF AllDated
    <2> QED
        BY <2>1, <2>6 DEF g
<1>2. CASE ~ Spoils(f)
    BY <1>2, AppendToAppends, DatedAppend
<1> QED
    BY <1>1, <1>2

LEMMA EntriesAppend ==
    ASSUME NEW w \in Seq(Line), NEW e \in Line, AllEntries(w), e.kind = "entry"
    PROVE  AllEntries(Append(w, e))
<1>1. /\ Len(Append(w, e)) = Len(w) + 1 /\ Len(w) \in Nat
      /\ \A i \in 1 .. Len(w) : Append(w, e)[i] = w[i]
      /\ Append(w, e)[Len(w) + 1] = e
    BY AppendProperties
<1>2. \A n \in 1 .. Len(w) + 1 : n \in 1 .. Len(w) \/ n = Len(w) + 1
    BY <1>1
<1> QED
    BY <1>1, <1>2 DEF AllEntries

LEMMA TailKeeps ==
    ASSUME NEW p \in Seq(Line), p # <<>>, NEW top, AllDated(p, top), AllEntries(p)
    PROVE  /\ AllDated(Tail(p), top) /\ AllEntries(Tail(p))
           /\ Dated(Head(p), top) /\ Head(p).kind = "entry"
<1>1. /\ Head(p) = p[1] /\ Len(Tail(p)) = Len(p) - 1 /\ Len(p) \in Nat \ {0}
      /\ \A i \in 1 .. Len(p) - 1 : Tail(p)[i] = p[i + 1]
    BY HeadTail
<1>2. 1 \in 1 .. Len(p) /\ \A i \in 1 .. Len(p) - 1 : i + 1 \in 1 .. Len(p)
    BY <1>1
<1>3. AllDated(Tail(p), top) /\ Dated(Head(p), top)
    BY <1>1, <1>2 DEF AllDated
<1>4. AllEntries(Tail(p)) /\ Head(p).kind = "entry"
    BY <1>1, <1>2 DEF AllEntries
<1> QED
    BY <1>3, <1>4

\* A write leaves the end of the whole as it is, or spoils it.
LEMMA FlushEnds ==
    ASSUME NEW f \in Seq(Line), NEW p \in Seq(Line), p # <<>>, NEW hash, NEW number, NEW r,
           EndsIn(f \o p, hash, number, r)
    PROVE  EndsIn(AppendTo(f, Head(p)) \o Tail(p), hash, number, r)
<1> DEFINE g == AppendTo(f, Head(p))
           t == Tail(p)
<1>0. /\ t \in Seq(Line) /\ Len(t) = Len(p) - 1 /\ Len(p) \in Nat \ {0}
      /\ \A i \in 1 .. Len(p) - 1 : t[i] = p[i + 1]
    BY HeadTail
<1>1. CASE ~ Spoils(f)
    <2>1. Head(p) \in Line
        BY HeadTail
    <2>2. AppendTo(f, Head(p)) = Append(f, Head(p))
        BY <1>1, <2>1, AppendToAppends
    <2>3. Append(f, Head(p)) \o Tail(p) = f \o p
        BY <2>1, WholeMoves
    <2> QED
        BY ONLY <2>2, <2>3, EndsIn(f \o p, hash, number, r)
<1>2. CASE Spoils(f)
    <2>1. /\ g \in Seq(Line) /\ Len(g) = Len(f) /\ Len(f) \in Nat \ {0}
          /\ g[Len(f)] = Spoiled(f[Len(f)], Head(p))
        BY <1>2, AppendToSpoils
    <2>2. f[Len(f)] \in Line
        BY <2>1, ElementOfSeq
    <2>3. ~ Parses(g[Len(f)])
        BY <2>1, <2>2 DEF Parses, Line, Spoiled
    <2> HIDE DEF g, t
    <2>4. /\ Len(g \o t) = Len(g) + Len(t) /\ Len(t) \in Nat
          /\ \A i \in 1 .. Len(g) : (g \o t)[i] = g[i]
          /\ \A i \in 1 .. Len(t) : (g \o t)[Len(g) + i] = t[i]
        <3>1. g \in Seq(Line) /\ t \in Seq(Line)
            BY <1>0, <2>1
        <3> QED
            BY ONLY <3>1, Whole
    <2>5. /\ Len(f \o p) = Len(f) + Len(p)
          /\ \A i \in 1 .. Len(p) : (f \o p)[Len(f) + i] = p[i]
        BY Whole
    <2>6. CASE Len(p) = 1
        <3>1. Len(g \o t) = Len(f) /\ Len(f) \in 1 .. Len(g)
            BY <1>0, <2>1, <2>4, <2>6
        <3> QED
            BY <2>3, <2>4, <3>1 DEF EndsIn, g, t
    <2>7. CASE Len(p) # 1
        <3>1. /\ Len(t) \in 1 .. Len(t) /\ Len(t) \in 1 .. Len(p) - 1 /\ Len(p) \in 1 .. Len(p)
              /\ Len(t) + 1 = Len(p)
            BY <1>0, <2>7
        <3>2. (g \o t)[Len(g \o t)] = p[Len(p)]
            <4>1. (g \o t)[Len(g) + Len(t)] = t[Len(t)] /\ t[Len(t)] = p[Len(t) + 1]
                BY <1>0, <2>4, <3>1
            <4> QED
                BY <2>4, <3>1, <4>1
        <3>3. (f \o p)[Len(f \o p)] = p[Len(p)] /\ f \o p # <<>>
            BY <2>5, <3>1, <2>1
        <3> QED
            BY <3>2, <3>3 DEF EndsIn, g, t
    <2> QED
        BY <2>6, <2>7
<1> QED
    BY <1>1, <1>2

-----------------------------------------------------------------------------
(* The steps.                                                              *)

LEMMA DayTypes ==
    ASSUME SiemTypeOK, NEW d \in Days
    PROVE  /\ files[d] \in Seq(Line) /\ pending[d] \in Seq(Line) /\ Written(d) \in Seq(Line)
           /\ logged \in Nat /\ d \in Nat /\ day \in Nat
BY SiemAssumption, Whole DEF SiemTypeOK, Written, Days

\* The entry a call of log makes.
Entry == [kind |-> "entry", seq |-> sequenceNumber', previous |-> lastHash,
          hash |-> lastHash', run |-> run]

LEMMA EntryIs ==
    ASSUME SiemTypeOK, Log
    PROVE  /\ Entry \in Line /\ Entry.kind = "entry" /\ Entry.run = run
           /\ Entry.hash = logged + 1 /\ Entry.seq = sequenceNumber + 1
           /\ Entry.previous = lastHash
           /\ lastHash' = logged + 1 /\ sequenceNumber' = sequenceNumber + 1
           /\ logged' = logged + 1 /\ logged \in Nat
           /\ Dated(Entry, logged + 1)
<1>1. /\ logged \in Nat /\ lastHash \in Nat /\ sequenceNumber \in Nat /\ run \in Nat
      /\ sequenceNumber <= logged /\ run <= logged + 1
    BY SiemAssumption DEF SiemTypeOK
<1>2. /\ lastHash' = logged + 1 /\ sequenceNumber' = sequenceNumber + 1
      /\ logged' = logged + 1
    BY DEF Log
<1> QED
    BY <1>1, <1>2 DEF Entry, Line, Dated

\* A step that leaves the streams and the files alone.
LEMMA DaySame ==
    ASSUME NEW d \in Days, DayOK(d), SiemTypeOK, UNCHANGED <<files, pending, logged>>,
           day' \in Nat, day' >= day
    PROVE  DayOK(d)'
<1>1. d > day' => d > day
    BY DayTypes
<1> QED
    BY <1>1 DEF DayOK, Written

LEMMA InvLog ==
    ASSUME SiemInv, Log
    PROVE  SiemInv'
<1>0. SiemTypeOK
    BY DEF SiemInv
<1>1. /\ pending' = [pending EXCEPT ![day] = Append(pending[day], Entry)]
      /\ UNCHANGED <<day, up, files, exists, run, crashes>> /\ up /\ logged < MaxEntries
    BY DEF Log, Entry
<1>2. PICK t \in Days : t = day
    BY <1>0 DEF SiemTypeOK
<1>3. /\ pending'[t] = Append(pending[t], Entry)
      /\ \A d \in Days \ {t} : pending'[d] = pending[d]
    BY <1>0, <1>1, <1>2 DEF SiemTypeOK
<1>4. Written(t)' = Append(Written(t), Entry)
    <2>1. Written(t)' = files[t] \o Append(pending[t], Entry)
        BY <1>1, <1>3 DEF Written
    <2>2. files[t] \o Append(pending[t], Entry) = Append(files[t] \o pending[t], Entry)
        BY <1>0, DayTypes, EntryIs, WholeMoves
    <2> QED
        BY <2>1, <2>2 DEF Written
<1>5. SiemTypeOK'
    <2>1. Append(pending[t], Entry) \in Seq(Line)
        BY <1>0, <1>2, DayTypes, EntryIs, AppendProperties
    <2>2. pending' \in [Days -> Seq(Line)]
        BY <1>0, <1>1, <1>2, <2>1 DEF SiemTypeOK
    <2>3. /\ lastHash' \in 0 .. logged' /\ sequenceNumber' \in 0 .. logged'
          /\ logged' \in 0 .. MaxEntries /\ run' \in 1 .. logged' + 1
        BY <1>0, <1>1, EntryIs, SiemAssumption DEF SiemTypeOK
    <2> QED
        BY <1>0, <1>1, <2>2, <2>3 DEF SiemTypeOK
<1>6. EndsIn(Written(t), lastHash, sequenceNumber, run)
    BY <1>1, <1>2 DEF SiemInv
<1>7. Written(t) # <<>> => LinksTo(Written(t)[Len(Written(t))], Entry)
    BY <1>0, <1>6, EntryIs DEF EndsIn, LinksTo
<1>8. DayOK(t)'
    <2>1. DayOK(t)
        BY <1>2 DEF SiemInv
    <2>2. AllDated(files[t], logged + 1) /\ AllDated(pending[t], logged + 1)
        BY <1>0, <1>2, <2>1, DayTypes, DatedLater DEF DayOK
    <2>3. AllDated(Append(pending[t], Entry), logged + 1)
        BY <1>0, <1>2, <2>2, DayTypes, EntryIs, DatedAppend
    <2>4. AllEntries(Append(pending[t], Entry))
        BY <1>0, <1>2, <2>1, DayTypes, EntryIs, EntriesAppend DEF DayOK
    <2>5. Linked(Append(Written(t), Entry))
        BY <1>0, <1>2, <1>7, <2>1, DayTypes, EntryIs, LinkedAppend DEF DayOK
    <2>6. ~ t > day /\ logged' = logged + 1
        BY <1>0, <1>2, DayTypes, EntryIs
    <2> QED
        BY <1>1, <1>3, <1>4, <2>2, <2>3, <2>4, <2>5, <2>6 DEF DayOK
<1>9. ASSUME NEW d \in Days \ {t} PROVE DayOK(d)'
    <2>1. DayOK(d)
        BY DEF SiemInv
    <2>2. AllDated(files[d], logged + 1) /\ AllDated(pending[d], logged + 1)
        BY <1>0, <2>1, DayTypes, DatedLater DEF DayOK
    <2>3. logged' = logged + 1 /\ Written(d)' = Written(d)
        BY <1>0, <1>1, <1>3, EntryIs DEF Written
    <2> QED
        BY <1>1, <1>3, <2>1, <2>2, <2>3 DEF DayOK
<1>10. EndsIn(Append(Written(t), Entry), logged + 1, sequenceNumber + 1, run)
    <2>1. /\ Len(Append(Written(t), Entry)) = Len(Written(t)) + 1
          /\ Append(Written(t), Entry)[Len(Written(t)) + 1] = Entry
        BY <1>0, <1>2, DayTypes, EntryIs, AppendProperties
    <2> QED
        BY <1>0, <2>1, EntryIs DEF EndsIn
<1>11. EndsIn(Written(day), lastHash, sequenceNumber, run)'
    BY <1>0, <1>1, <1>2, <1>4, <1>10, EntryIs
<1> QED
    BY <1>1, <1>5, <1>8, <1>9, <1>11 DEF SiemInv

LEMMA InvFlush ==
    ASSUME SiemInv, NEW d \in Days, Flush(d)
    PROVE  SiemInv'
<1>0. SiemTypeOK
    BY DEF SiemInv
<1> DEFINE f == files[d]
           p == pending[d]
<1>1. /\ p # <<>> /\ up
      /\ files' = [files EXCEPT ![d] = AppendTo(f, Head(p))]
      /\ pending' = [pending EXCEPT ![d] = Tail(p)]
      /\ UNCHANGED <<day, up, lastHash, sequenceNumber, exists, logged, run, crashes>>
    BY DEF Flush
<1>2. f \in Seq(Line) /\ p \in Seq(Line) /\ DayOK(d)
    BY <1>0, DayTypes DEF SiemInv
<1>3. /\ files'[d] = AppendTo(f, Head(p)) /\ pending'[d] = Tail(p)
      /\ \A e \in Days \ {d} : files'[e] = files[e] /\ pending'[e] = pending[e]
    BY <1>0, <1>1 DEF SiemTypeOK
<1>4. /\ AllDated(Tail(p), logged) /\ AllEntries(Tail(p)) /\ Dated(Head(p), logged)
      /\ Head(p) \in Line /\ Tail(p) \in Seq(Line)
    BY <1>1, <1>2, TailKeeps, HeadTail DEF DayOK
<1>5. AllDated(AppendTo(f, Head(p)), logged) /\ AppendTo(f, Head(p)) \in Seq(Line)
    BY <1>2, <1>4, DatedAppendTo DEF DayOK
<1>6. SiemTypeOK'
    BY <1>0, <1>1, <1>4, <1>5 DEF SiemTypeOK
<1>7. Written(d)' = AppendTo(f, Head(p)) \o Tail(p)
    BY <1>3 DEF Written
<1>8. DayOK(d)'
    <2>1. Linked(AppendTo(f, Head(p)) \o Tail(p))
        BY <1>1, <1>2, LinkedFlush DEF DayOK, Written
    <2>2. ~ d > day
        BY <1>1, <1>2 DEF DayOK
    <2> QED
        BY <1>1, <1>3, <1>4, <1>5, <1>7, <2>1, <2>2 DEF DayOK
<1>9. ASSUME NEW e \in Days \ {d} PROVE DayOK(e)'
    <2>1. DayOK(e) /\ Written(e)' = Written(e)
        BY <1>3 DEF SiemInv, Written
    <2> QED
        BY <1>1, <1>3, <2>1 DEF DayOK
<1>10. EndsIn(Written(day), lastHash, sequenceNumber, run)'
    <2>1. EndsIn(Written(day), lastHash, sequenceNumber, run)
        BY <1>1 DEF SiemInv
    <2>2. CASE d = day
        <3>1. EndsIn(AppendTo(f, Head(p)) \o Tail(p), lastHash, sequenceNumber, run)
            BY <1>1, <1>2, <2>1, <2>2, FlushEnds DEF Written
        <3> QED
            BY <1>1, <1>7, <2>2, <3>1
    <2>3. CASE d # day
        <3>1. day \in Days \ {d}
            BY <1>0, <2>3 DEF SiemTypeOK
        <3>2. Written(day)' = Written(day)
            BY <1>1, <1>3, <3>1 DEF Written
        <3> QED
            BY <1>1, <2>1, <3>2
    <2> QED
        BY <2>2, <2>3
<1> QED
    BY <1>6, <1>8, <1>9, <1>10 DEF SiemInv

\* A crash leaves on disk what was there, or one line more that was cut.
LEMMA CrashedDay ==
    ASSUME SiemInv, Crash, NEW d \in Days
    PROVE  files'[d] \in AfterCrash(d) /\ DayOK(d)' /\ files'[d] \in Seq(Line)
<1> DEFINE f == files[d]
           p == pending[d]
<1>0. SiemTypeOK
    BY DEF SiemInv
<1>1. /\ files'[d] \in AfterCrash(d) /\ pending' = [e \in Days |-> <<>>]
      /\ UNCHANGED <<day, logged>>
    BY DEF Crash, Down
<1>2. f \in Seq(Line) /\ p \in Seq(Line) /\ DayOK(d)
    BY <1>0, DayTypes DEF SiemInv
<1>3. /\ AllDated(<<>>, logged) /\ AllEntries(<<>>) /\ pending'[d] = <<>>
    BY <1>1 DEF AllDated, AllEntries
<1>4. ASSUME NEW g \in Seq(Line), files'[d] = g, AllDated(g, logged), Linked(g),
             d > day => g = <<>>
      PROVE  DayOK(d)'
    <2>1. Written(d)' = g \o <<>>
        BY <1>3, <1>4 DEF Written
    <2>2. Written(d)' = g
        BY <1>4, <2>1, ConcatEmptySeq
    <2> QED
        BY <1>1, <1>3, <1>4, <2>2 DEF DayOK
<1>5. CASE files'[d] = f
    <2>1. Linked(f)
        BY <1>2, LinkedFirst DEF DayOK, Written
    <2> QED
        BY <1>1, <1>2, <1>4, <1>5, <2>1 DEF DayOK
<1>6. ASSUME NEW cut \in {"bare", "torn"}, p # <<>>,
             files'[d] = AppendTo(f, [Head(p) EXCEPT !.kind = cut])
      PROVE  DayOK(d)' /\ files'[d] \in Seq(Line)
    <2> DEFINE e == [Head(p) EXCEPT !.kind = cut]
    <2>1. Dated(Head(p), logged) /\ Head(p) \in Line /\ Head(p).kind = "entry"
        BY <1>2, <1>6, TailKeeps, HeadTail DEF DayOK
    <2>2. Dated(e, logged) /\ e \in Line
        BY <2>1 DEF Dated, Line
    <2>3. AllDated(AppendTo(f, e), logged) /\ AppendTo(f, e) \in Seq(Line)
        BY <1>2, <2>2, DatedAppendTo DEF DayOK
    <2>4. Linked(AppendTo(f, e))
        BY <1>2, <1>6, <2>1, LinkedCut DEF DayOK, Written
    <2>5. ~ d > day
        BY <1>2, <1>6 DEF DayOK
    <2> QED
        BY <1>4, <1>6, <2>3, <2>4, <2>5
<1> QED
    BY <1>1, <1>2, <1>5, <1>6 DEF AfterCrash

LEMMA InvCrash ==
    ASSUME SiemInv, Crash
    PROVE  SiemInv'
<1>1. \A d \in Days : DayOK(d)' /\ files'[d] \in Seq(Line)
    BY CrashedDay
<1>2. files' \in [Days -> Seq(Line)]
    BY <1>1 DEF Crash
<1>3. pending' \in [Days -> Seq(Line)]
    BY EmptySeq DEF Crash, Down
<1>4. /\ up' = FALSE /\ lastHash' = 0 /\ sequenceNumber' = 0 /\ crashes' = crashes + 1
      /\ UNCHANGED <<day, exists, logged, run>> /\ crashes < MaxCrashes
    BY DEF Crash, Down, Genesis
<1>5. SiemTypeOK'
    <2>1. logged \in Nat /\ crashes \in Nat
        BY SiemAssumption DEF SiemInv, SiemTypeOK
    <2>2. 0 \in 0 .. logged /\ crashes + 1 \in 0 .. MaxCrashes
        BY <1>4, <2>1, SiemAssumption
    <2> QED
        BY <1>2, <1>3, <1>4, <2>2 DEF SiemInv, SiemTypeOK
<1> QED
    BY <1>1, <1>4, <1>5 DEF SiemInv

LEMMA LastFileIs ==
    ASSUME SiemTypeOK, exists # {}
    PROVE  \E d \in exists : (\A e \in exists : e <= d) /\ LastFile = files[d]
<1> DEFINE d == CHOOSE d \in exists : \A e \in exists : e <= d
<1>1. exists \subseteq Days
    BY DEF SiemTypeOK
<1>2. \E c \in exists : \A e \in exists : e <= c
    BY <1>1, GreatestDay
<1>3. d \in exists /\ \A e \in exists : e <= d
    BY <1>2
<1>4. LastFile = files[d]
    BY DEF LastFile
<1> QED
    BY <1>3, <1>4

LEMMA InvRestart ==
    ASSUME SiemInv, Restart
    PROVE  SiemInv'
<1>0. SiemTypeOK
    BY DEF SiemInv
<1>1. /\ run' = logged + 1
      /\ UNCHANGED <<day, pending, files, exists, logged, crashes>> /\ up' = TRUE
    BY DEF Restart
<1>2. day \in Days /\ logged \in Nat /\ logged \in 0 .. MaxEntries
    BY <1>0, SiemAssumption DEF SiemTypeOK
<1>3. ASSUME Resumable(LastFile)
      PROVE  LastLine(LastFile).hash \in 0 .. logged /\ LastLine(LastFile).seq \in 0 .. logged
    <2>1. exists # {}
        BY <1>3 DEF Resumable, LastFile
    <2>2. PICK d \in exists : LastFile = files[d]
        BY <1>0, <2>1, LastFileIs
    <2>3. d \in Days /\ files[d] # <<>>
        BY <1>0, <1>3, <2>2 DEF SiemTypeOK, Resumable
    <2>4. files[d] \in Seq(Line) /\ AllDated(files[d], logged)
        BY <1>0, <2>3, DayTypes DEF SiemInv, DayOK
    <2>5. Len(files[d]) \in 1 .. Len(files[d])
        BY <2>3, <2>4, EmptySeq
    <2>6. LastLine(files[d]) \in Line /\ Dated(LastLine(files[d]), logged)
        BY <2>4, <2>5, ElementOfSeq DEF AllDated, LastLine
    <2> QED
        BY <1>2, <2>2, <2>6 DEF Dated, Line
<1>4. SiemTypeOK'
    <2>1. lastHash' \in 0 .. logged /\ sequenceNumber' \in 0 .. logged
        BY <1>2, <1>3 DEF Restart, Genesis
    <2>2. run' \in 1 .. logged + 1
        BY <1>1, <1>2
    <2> QED
        BY <1>0, <1>1, <2>1, <2>2 DEF SiemTypeOK
<1>5. \A d \in Days : DayOK(d)'
    BY <1>1 DEF SiemInv, DayOK, Written
<1>6. EndsIn(Written(day), lastHash', sequenceNumber', logged + 1)
    <2> SUFFICES ASSUME Written(day) # <<>>
                 PROVE  Written(day)[Len(Written(day))].run # logged + 1
        BY DEF EndsIn
    <2> DEFINE f == files[day]
               p == pending[day]
    <2>1. /\ f \in Seq(Line) /\ p \in Seq(Line)
          /\ AllDated(f, logged) /\ AllDated(p, logged)
        BY <1>0, <1>2, DayTypes DEF SiemInv, DayOK
    <2>2. /\ Len(f \o p) = Len(f) + Len(p) /\ Len(f) \in Nat /\ Len(p) \in Nat
          /\ \A i \in 1 .. Len(f) : (f \o p)[i] = f[i]
          /\ \A i \in 1 .. Len(p) : (f \o p)[Len(f) + i] = p[i]
        BY <2>1, Whole
    <2>3. CASE Len(p) # 0
        <3>1. Len(p) \in 1 .. Len(p)
            BY <2>2, <2>3
        <3>2. (f \o p)[Len(f \o p)] = p[Len(p)] /\ p[Len(p)] \in Line
            BY <2>1, <2>2, <3>1, ElementOfSeq
        <3>3. Dated(p[Len(p)], logged)
            BY <2>1, <3>1 DEF AllDated
        <3> QED
            BY <1>2, <3>2, <3>3 DEF Written, Dated, Line
    <2>4. CASE Len(p) = 0
        <3>1. p = <<>> /\ f \o p = f /\ f # <<>>
            BY <2>1, <2>4, ConcatEmptySeq, EmptySeq DEF Written
        <3>2. Len(f) \in 1 .. Len(f)
            BY <2>1, <3>1, EmptySeq
        <3>3. f[Len(f)] \in Line /\ Dated(f[Len(f)], logged)
            BY <2>1, <3>2, ElementOfSeq DEF AllDated
        <3> QED
            BY <1>2, <3>1, <3>3 DEF Written, Dated, Line
    <2> QED
        BY <2>3, <2>4
<1>7. EndsIn(Written(day), lastHash, sequenceNumber, run)'
    BY <1>1, <1>6 DEF Written
<1> QED
    BY <1>4, <1>5, <1>7 DEF SiemInv

LEMMA InvInit == SiemInit => SiemInv
<1> SUFFICES ASSUME SiemInit PROVE SiemInv
    OBVIOUS
<1>1. /\ \A d \in Days : files[d] = <<>> /\ pending[d] = <<>>
      /\ day = 1 /\ up = TRUE /\ lastHash = 0 /\ sequenceNumber = 0 /\ exists = {}
      /\ logged = 0 /\ run = 1 /\ crashes = 0
    BY DEF SiemInit, Genesis
<1>2. files \in [Days -> Seq(Line)] /\ pending \in [Days -> Seq(Line)]
    BY EmptySeq DEF SiemInit
<1>3. SiemTypeOK
    BY <1>1, <1>2, SiemAssumption DEF SiemTypeOK, Days
<1>4. \A d \in Days : Written(d) = <<>>
    BY <1>1, EmptySeq, ConcatEmptySeq DEF Written
<1>5. \A d \in Days : DayOK(d)
    BY <1>1, <1>4 DEF DayOK, AllDated, AllEntries, Linked
<1>6. EndsIn(Written(day), lastHash, sequenceNumber, run)
    BY <1>3, <1>4 DEF EndsIn, SiemTypeOK
<1> QED
    BY <1>3, <1>5, <1>6 DEF SiemInv

LEMMA InvNext == SiemInv /\ [SiemNext]_siemVars => SiemInv'
<1> SUFFICES ASSUME SiemInv, [SiemNext]_siemVars PROVE SiemInv'
    OBVIOUS
<1>0. SiemTypeOK /\ \A d \in Days : DayOK(d)
    BY DEF SiemInv
<1>1. ASSUME NEW d \in Days, OpenFile(d) PROVE SiemInv'
    <2>1. SiemTypeOK'
        BY <1>0, <1>1 DEF OpenFile, SiemTypeOK
    <2> QED
        BY <1>1, <2>1 DEF OpenFile, SiemInv, DayOK, Written
<1>2. CASE Midnight
    <2>1. PICK t \in Days : t = day + 1
        BY <1>0, <1>2, SiemAssumption DEF Midnight, SiemTypeOK, Days
    <2>2. /\ day' = t /\ day \in Nat /\ t > day
          /\ UNCHANGED <<up, lastHash, sequenceNumber, pending, files, exists, logged, run, crashes>>
        BY <1>0, <1>2, <2>1, DayTypes DEF Midnight
    <2>3. SiemTypeOK'
        BY <1>0, <2>2 DEF SiemTypeOK
    <2>4. \A d \in Days : DayOK(d)'
        BY <1>0, <2>1, <2>2, DayTypes, DaySame
    <2>5. files[t] = <<>> /\ pending[t] = <<>>
        BY <1>0, <2>1, <2>2 DEF DayOK
    <2>6. Written(t)' = <<>>
        BY <2>2, <2>5, EmptySeq, ConcatEmptySeq DEF Written
    <2>7. EndsIn(Written(day), lastHash, sequenceNumber, run)'
        BY <2>2, <2>6 DEF EndsIn
    <2> QED
        BY <2>3, <2>4, <2>7 DEF SiemInv
<1>3. CASE Stop
    <2>1. /\ \A d \in Days : pending[d] = <<>> /\ pending'[d] = <<>>
          /\ up' = FALSE /\ lastHash' = 0 /\ sequenceNumber' = 0
          /\ UNCHANGED <<day, files, exists, logged, run, crashes>>
        BY <1>3 DEF Stop, Down, Genesis
    <2>2. pending' \in [Days -> Seq(Line)]
        BY <1>3, EmptySeq DEF Stop, Down
    <2>3. SiemTypeOK'
        <3>1. logged \in Nat /\ 0 \in 0 .. logged
            BY <1>0, SiemAssumption DEF SiemTypeOK
        <3> QED
            BY <1>0, <2>1, <2>2, <3>1 DEF SiemTypeOK
    <2>4. \A d \in Days : DayOK(d)'
        BY <1>0, <2>1 DEF DayOK, Written
    <2> QED
        BY <2>1, <2>3, <2>4 DEF SiemInv
<1>4. CASE UNCHANGED siemVars
    BY <1>0, <1>4 DEF SiemInv, SiemTypeOK, DayOK, Written
<1> QED
    BY <1>1, <1>2, <1>3, <1>4, InvLog, InvFlush, InvCrash, InvRestart DEF SiemNext

LEMMA SiemInvHolds == SiemSpec => []SiemInv
<1> QED
    BY InvInit, InvNext, PTL DEF SiemSpec

-----------------------------------------------------------------------------
(* What follows, crashes included.                                         *)

\* The fields of the chain never run ahead of the entries logged, and the files hold
\* lines only.
THEOREM SiemTyped == SiemSpec => []SiemTypeOK
<1>1. SiemInv => SiemTypeOK
    BY DEF SiemInv
<1> QED
    BY <1>1, SiemInvHolds, PTL

\* Within a file neighbouring entries of one run are linked, over every midnight,
\* crash, restart and interleaving of the streams (log, writeLog).
THEOREM SiemNeighbours == SiemSpec => []NeighboursLinked
<1>1. SiemInv => NeighboursLinked
    BY DEF SiemInv, DayOK, Linked, LinksTo, NeighboursLinked
<1> QED
    BY <1>1, SiemInvHolds, PTL

LEMMA LinesKept ==
    ASSUME SiemInv, [SiemNext]_siemVars, NEW d \in Days, NEW n \in 1 .. Len(files[d]),
           files[d][n].kind = "entry"
    PROVE  n <= Len(files'[d]) /\ files'[d][n] = files[d][n]
<1> DEFINE f == files[d]
           p == pending[d]
<1>0. /\ SiemTypeOK /\ f \in Seq(Line) /\ p \in Seq(Line) /\ DayOK(d)
      /\ n <= Len(f)
    <2>1. SiemTypeOK
        BY DEF SiemInv
    <2>2. f \in Seq(Line) /\ p \in Seq(Line) /\ DayOK(d)
        BY <2>1, DayTypes DEF SiemInv
    <2> QED
        BY <2>1, <2>2
<1>1. CASE files'[d] = f
    BY <1>0, <1>1
<1>2. ASSUME NEW e \in Line, files'[d] = AppendTo(f, e)
      PROVE  n <= Len(files'[d]) /\ files'[d][n] = files[d][n]
    BY <1>0, <1>2, AppendToKeeps
<1>3. ASSUME NEW c \in Days, Flush(c)
      PROVE  n <= Len(files'[d]) /\ files'[d][n] = files[d][n]
    <2>1. CASE c = d
        <3>1. p # <<>> /\ files'[d] = AppendTo(f, Head(p))
            BY <1>0, <1>3, <2>1 DEF Flush, SiemTypeOK
        <3> QED
            BY <1>0, <1>2, <3>1, HeadTail
    <2>2. CASE c # d
        BY <1>0, <1>1, <1>3, <2>2 DEF Flush, SiemTypeOK
    <2> QED
        BY <2>1, <2>2
<1>4. CASE Crash
    <2>1. files'[d] \in AfterCrash(d)
        BY <1>4 DEF Crash
    <2>2. ASSUME NEW cut \in {"bare", "torn"}, p # <<>>,
                 files'[d] = AppendTo(f, [Head(p) EXCEPT !.kind = cut])
          PROVE  n <= Len(files'[d]) /\ files'[d][n] = files[d][n]
        <3>1. [Head(p) EXCEPT !.kind = cut] \in Line
            BY <1>0, <2>2, HeadTail DEF Line
        <3> QED
            BY <1>2, <2>2, <3>1
    <2> QED
        BY <1>1, <2>1, <2>2 DEF AfterCrash
<1>5. (\E c \in Days : Flush(c)) \/ Crash \/ UNCHANGED files
    BY DEF SiemNext, Log, OpenFile, Midnight, Stop, Restart
<1> QED
    BY <1>1, <1>3, <1>4, <1>5

\* A line that was written with its newline is never changed, moved or lost, whatever
\* crashes and restarts do to the end of its file (the streams append).
THEOREM SiemDurable == SiemSpec => EntriesDurable
<1>1. SiemInv /\ [SiemNext]_siemVars
          => [\A d \in Days : \A n \in 1 .. Len(files[d]) :
                  files[d][n].kind = "entry" =>
                      n <= Len(files'[d]) /\ files'[d][n] = files[d][n]]_siemVars
    BY LinesKept
<1> QED
    BY <1>1, SiemInvHolds, PTL DEF SiemSpec, EntriesDurable

-----------------------------------------------------------------------------
(* Without a crash the files and what the streams hold are one sequence.   *)

\* The entry with number h of a chain nothing was lost of.
Nth(line, h) ==
    /\ line.kind = "entry" /\ line.hash = h /\ line.seq = h /\ line.previous = h - 1

AllNth(w, from) == \A n \in 1 .. Len(w) : Nth(w[n], from + n)

\* base[d] entries were logged up to the end of day d.
Counts(base, whole, total) ==
    /\ base \in [0 .. MaxDay -> Nat]
    /\ base[0] = 0 /\ base[MaxDay] = total
    /\ \A d, e \in 0 .. MaxDay : d <= e => base[d] <= base[e]
    /\ \A d \in Days : base[d] = base[d - 1] + Len(whole[d])
    /\ \A d \in Days : AllNth(whole[d], base[d - 1])

WholeDays == [d \in Days |-> Written(d)]

Orderly ==
    /\ \E base : Counts(base, WholeDays, logged)
    /\ IF up THEN lastHash = logged /\ sequenceNumber = logged ELSE Drained
    /\ \A d \in Days : d \in exists => Written(d) # <<>>
    /\ \A d \in Days : files[d] # <<>> => d \in exists

OrderlyInv == crashes = 0 => Orderly

LEMMA DaysAre ==
    /\ MaxDay \in Nat \ {0}
    /\ \A d \in Days : d \in 0 .. MaxDay /\ d - 1 \in 0 .. MaxDay /\ d \in Nat /\ d >= 1
BY SiemAssumption DEF Days

\* Every entry ever logged is in the day that had come to it.
LEMMA DayOf ==
    ASSUME NEW base, NEW whole, NEW total \in Nat, Counts(base, whole, total),
           NEW h \in 1 .. total
    PROVE  \E d \in Days : base[d - 1] < h /\ h <= base[d]
<1> DEFINE B == {d \in 0 .. MaxDay : h <= base[d]}
<1>1. B \subseteq Nat /\ MaxDay \in B
    BY DaysAre DEF Counts
<1>2. PICK d \in B : \A e \in B : d <= e
    <2> HIDE DEF B
    <2> QED
        BY <1>1, LeastNumber
<1>3. d \in 0 .. MaxDay /\ d # 0 /\ h <= base[d]
    BY <1>2 DEF Counts
<1>4. d \in Days /\ d - 1 \in 0 .. MaxDay /\ ~ d <= d - 1
    BY <1>3, DaysAre DEF Days
<1>5. ~ h <= base[d - 1]
    BY <1>2, <1>4
<1>6. base[d - 1] \in Nat
    BY <1>4 DEF Counts
<1> QED
    BY <1>3, <1>4, <1>5, <1>6

\* Where an entry is.
LEMMA PlaceOf ==
    ASSUME NEW base, NEW whole \in [Days -> Seq(Line)], NEW total \in Nat,
           Counts(base, whole, total), NEW h \in 1 .. total
    PROVE  \E d \in Days : \E n \in 1 .. Len(whole[d]) : Nth(whole[d][n], h)
<1>1. PICK d \in Days : base[d - 1] < h /\ h <= base[d]
    BY DayOf
<1>2. base[d - 1] \in Nat /\ base[d] = base[d - 1] + Len(whole[d]) /\ Len(whole[d]) \in Nat
    BY DaysAre DEF Counts
<1>3. h - base[d - 1] \in 1 .. Len(whole[d]) /\ base[d - 1] + (h - base[d - 1]) = h
    BY <1>1, <1>2
<1> QED
    BY <1>3 DEF Counts, AllNth

\* An entry is in one place.
LEMMA OnePlace ==
    ASSUME NEW base, NEW whole \in [Days -> Seq(Line)], NEW total, Counts(base, whole, total),
           NEW d \in Days, NEW e \in Days,
           NEW m \in 1 .. Len(whole[d]), NEW n \in 1 .. Len(whole[e]),
           whole[d][m].hash = whole[e][n].hash
    PROVE  d = e /\ m = n
<1>1. whole[d][m].hash = base[d - 1] + m /\ whole[e][n].hash = base[e - 1] + n
    BY DEF Counts, AllNth, Nth
<1>2. /\ base[d - 1] \in Nat /\ base[e - 1] \in Nat /\ m \in Nat \ {0} /\ n \in Nat \ {0}
      /\ base[d - 1] + m <= base[d] /\ base[e - 1] + n <= base[e]
      /\ base[d] \in Nat /\ base[e] \in Nat
    <2>1. ASSUME NEW c \in Days, NEW k \in 1 .. Len(whole[c])
          PROVE  /\ base[c - 1] \in Nat /\ base[c] \in Nat /\ k \in Nat \ {0}
                 /\ base[c - 1] + k <= base[c]
        <3>1. c \in 0 .. MaxDay /\ c - 1 \in 0 .. MaxDay
            BY DaysAre
        <3>2. base[c - 1] \in Nat /\ base[c] \in Nat /\ base[c] = base[c - 1] + Len(whole[c])
            BY <3>1 DEF Counts
        <3>3. Len(whole[c]) \in Nat
            OBVIOUS
        <3> QED
            BY <3>2, <3>3
    <2> QED
        BY <2>1
<1>3. ASSUME d < e PROVE FALSE
    <2>1. d <= e - 1 /\ d \in 0 .. MaxDay /\ e - 1 \in 0 .. MaxDay
        BY <1>3, DaysAre
    <2>2. base[d] <= base[e - 1]
        BY <2>1 DEF Counts
    <2>3. base[d - 1] + m = base[e - 1] + n
        BY <1>1
    <2> QED
        BY <1>2, <2>2, <2>3
<1>4. ASSUME e < d PROVE FALSE
    <2>1. e <= d - 1 /\ e \in 0 .. MaxDay /\ d - 1 \in 0 .. MaxDay
        BY <1>4, DaysAre
    <2>2. base[e] <= base[d - 1]
        BY <2>1 DEF Counts
    <2>3. base[d - 1] + m = base[e - 1] + n
        BY <1>1
    <2> QED
        BY <1>2, <2>2, <2>3
<1>5. d = e
    BY <1>3, <1>4, DaysAre
<1>6. base[d - 1] + m = base[d - 1] + n
    BY <1>1, <1>5
<1> QED
    BY <1>2, <1>5, <1>6

-----------------------------------------------------------------------------
(* The steps of a history without a crash.                                 *)

LEMMA WholeDaysType ==
    ASSUME SiemTypeOK
    PROVE  /\ WholeDays \in [Days -> Seq(Line)]
           /\ \A d \in Days : WholeDays[d] = Written(d) /\ Written(d) = files[d] \o pending[d]
BY DayTypes DEF WholeDays, Written

\* A step that neither logs nor changes what the days hold in all.
LEMMA OrderlyStays ==
    ASSUME Orderly, \A d \in Days : Written(d)' = Written(d),
           UNCHANGED <<logged, exists>>,
           \A d \in Days : files'[d] # <<>> => d \in exists,
           IF up' THEN lastHash' = logged /\ sequenceNumber' = logged ELSE Drained'
    PROVE  Orderly'
<1>1. WholeDays' = WholeDays
    BY DEF WholeDays
<1> QED
    BY <1>1 DEF Orderly

\* The day has come to the last entry logged.
LEMMA TodayCounts ==
    ASSUME SiemInv, NEW base, Counts(base, WholeDays, logged), NEW t \in Days, t = day
    PROVE  \A d \in 0 .. MaxDay : d >= t => base[d] = logged
<1>0. SiemTypeOK /\ logged \in Nat /\ base \in [0 .. MaxDay -> Nat]
    BY DayTypes DEF SiemInv, Counts
<1>1. t \in 0 .. MaxDay /\ MaxDay \in 0 .. MaxDay
    BY DaysAre
<1>2. \A d \in 0 .. MaxDay : d >= t => base[t] <= base[d] /\ base[d] <= logged
    BY <1>1 DEF Counts
<1>3. ASSUME base[t] < logged PROVE FALSE
    <2>1. logged \in 1 .. logged
        BY <1>0, <1>1, <1>3
    <2>2. PICK d \in Days : base[d - 1] < logged /\ logged <= base[d]
        BY <1>0, <2>1, DayOf
    <2>3. d \in 0 .. MaxDay /\ d - 1 \in 0 .. MaxDay
        BY DaysAre
    <2>4. base[d] = base[d - 1] + Len(Written(d)) /\ base[d] \in Nat /\ base[d - 1] \in Nat
        BY <1>0, <2>3, WholeDaysType DEF Counts
    <2>5. Written(d) # <<>>
        BY <1>0, <2>2, <2>4
    <2>6. ~ d > t
        <3>1. <<>> \o <<>> = <<>>
            BY EmptySeq, ConcatEmptySeq
        <3> QED
            BY <2>5, <3>1 DEF SiemInv, DayOK, Written
    <2>7. base[d] <= base[t]
        BY <1>1, <2>3, <2>6 DEF Counts
    <2>8. base[t] \in Nat
        BY <1>0, <1>1
    <2> QED
        BY ONLY <1>0, <1>3, <2>2, <2>4, <2>7, <2>8
<1> QED
    BY <1>0, <1>1, <1>2, <1>3

LEMMA OrderlyLog ==
    ASSUME SiemInv, SiemInv', Orderly, Log
    PROVE  Orderly'
<1>0. SiemTypeOK /\ logged \in Nat
    BY DayTypes DEF SiemInv, SiemTypeOK
<1>1. PICK base : Counts(base, WholeDays, logged)
    BY DEF Orderly
<1>2. PICK t \in Days : t = day
    BY <1>0 DEF SiemTypeOK
<1>3. /\ up /\ up' /\ lastHash = logged /\ sequenceNumber = logged
      /\ UNCHANGED <<day, files, exists>>
      /\ pending' = [pending EXCEPT ![t] = Append(pending[t], Entry)]
    BY <1>2 DEF Log, Orderly, Entry
<1>4. /\ Written(t)' = Append(Written(t), Entry)
      /\ \A d \in Days \ {t} : Written(d)' = Written(d)
    <2>1. /\ pending'[t] = Append(pending[t], Entry)
          /\ \A d \in Days \ {t} : pending'[d] = pending[d]
        BY <1>0, <1>3 DEF SiemTypeOK
    <2>2. files[t] \o Append(pending[t], Entry) = Append(files[t] \o pending[t], Entry)
        BY <1>0, DayTypes, EntryIs, WholeMoves
    <2> QED
        BY <1>3, <2>1, <2>2 DEF Written
<1>5. /\ Entry \in Line /\ Nth(Entry, logged + 1)
      /\ lastHash' = logged + 1 /\ sequenceNumber' = logged + 1 /\ logged' = logged + 1
    BY <1>0, <1>3, EntryIs DEF Nth
<1>6. /\ Len(Append(Written(t), Entry)) = Len(Written(t)) + 1 /\ Len(Written(t)) \in Nat
      /\ \A n \in 1 .. Len(Written(t)) : Append(Written(t), Entry)[n] = Written(t)[n]
      /\ Append(Written(t), Entry)[Len(Written(t)) + 1] = Entry
      /\ Append(Written(t), Entry) # <<>>
    BY <1>0, <1>5, DayTypes, AppendProperties
<1>7. \A d \in 0 .. MaxDay : d >= t => base[d] = logged
    BY <1>1, <1>2, TodayCounts
<1>8. \A d \in Days : d > t => Written(d) = <<>>
    <2>1. <<>> \o <<>> = <<>>
        BY EmptySeq, ConcatEmptySeq
    <2> QED
        BY <1>2, <2>1 DEF SiemInv, DayOK, Written
<1> DEFINE next == [d \in 0 .. MaxDay |-> IF d >= t THEN base[d] + 1 ELSE base[d]]
           whole == WholeDays
           wholeNext == WholeDays'
<1>9. /\ \A d \in Days : whole[d] = Written(d)
      /\ \A d \in Days : wholeNext[d] = IF d = t THEN Append(Written(t), Entry) ELSE whole[d]
    BY <1>4 DEF WholeDays
<1>10. /\ base \in [0 .. MaxDay -> Nat] /\ base[0] = 0
       /\ \A d, e \in 0 .. MaxDay : d <= e => base[d] <= base[e]
       /\ \A d \in Days : base[d] = base[d - 1] + Len(whole[d])
       /\ \A d \in Days : AllNth(whole[d], base[d - 1])
    BY <1>1 DEF Counts
<1>11. t \in Nat /\ t >= 1 /\ t \in 0 .. MaxDay /\ 0 \in 0 .. MaxDay /\ MaxDay \in 0 .. MaxDay
       /\ t <= MaxDay /\ MaxDay \in Nat
    BY DaysAre DEF Days
<1> HIDE DEF whole, wholeNext
<1>12. Counts(next, wholeNext, logged + 1)
    <2>1. next \in [0 .. MaxDay -> Nat] /\ next[0] = 0 /\ next[MaxDay] = logged + 1
        BY <1>7, <1>10, <1>11
    <2>2. ASSUME NEW d \in 0 .. MaxDay, NEW e \in 0 .. MaxDay, d <= e
          PROVE  next[d] <= next[e]
        <3>1. base[d] <= base[e] /\ base[d] \in Nat /\ base[e] \in Nat
            BY <1>10, <2>2
        <3> QED
            BY <1>11, <2>2, <3>1
    <2>3. ASSUME NEW d \in Days
          PROVE  /\ next[d] = next[d - 1] + Len(wholeNext[d])
                 /\ AllNth(wholeNext[d], next[d - 1])
        <3>1. /\ d \in 0 .. MaxDay /\ d - 1 \in 0 .. MaxDay
              /\ base[d] \in Nat /\ base[d - 1] \in Nat
              /\ base[d] = base[d - 1] + Len(whole[d]) /\ AllNth(whole[d], base[d - 1])
            BY <1>10, DaysAre
        <3>2. CASE d < t
            <4>1. next[d] = base[d] /\ next[d - 1] = base[d - 1] /\ wholeNext[d] = whole[d]
                BY <1>9, <1>11, <3>1, <3>2
            <4> QED
                BY <3>1, <4>1
        <3>3. CASE d > t
            <4>1. next[d] = base[d] + 1 /\ next[d - 1] = base[d - 1] + 1
                BY <1>11, <3>1, <3>3
            <4>2. wholeNext[d] = <<>> /\ whole[d] = <<>> /\ Len(<<>>) = 0
                BY <1>8, <1>9, <1>11, <3>3
            <4>3. AllNth(<<>>, next[d - 1])
                BY DEF AllNth
            <4> QED
                BY <3>1, <4>1, <4>2, <4>3
        <3>4. CASE d = t
            <4>1. next[d] = base[t] + 1 /\ next[d - 1] = base[t - 1]
                BY <1>11, <3>1, <3>4
            <4>2. /\ wholeNext[d] = Append(Written(t), Entry) /\ whole[t] = Written(t)
                  /\ base[t] = base[t - 1] + Len(Written(t)) /\ base[t] = logged
                  /\ base[t - 1] \in Nat
                <5>1. wholeNext[t] = Append(Written(t), Entry) /\ whole[t] = Written(t)
                    BY ONLY <1>2, <1>9
                <5>2. base[t] = base[t - 1] + Len(whole[t]) /\ base[t - 1] \in Nat
                    BY <3>1, <3>4
                <5>3. base[t] = logged
                    BY ONLY <1>7, <1>11
                <5> QED
                    BY ONLY <3>4, <5>1, <5>2, <5>3
            <4>3. next[d] = next[d - 1] + Len(wholeNext[d])
                <5>1. Len(wholeNext[d]) = Len(Written(t)) + 1 /\ Len(Written(t)) \in Nat
                    BY ONLY <1>6, <4>2
                <5> HIDE DEF next
                <5> QED
                    BY ONLY <4>1, <4>2, <5>1
            <4>4. AllNth(Append(Written(t), Entry), base[t - 1])
                <5> SUFFICES ASSUME NEW n \in 1 .. Len(Written(t)) + 1
                             PROVE  Nth(Append(Written(t), Entry)[n], base[t - 1] + n)
                    BY <1>6 DEF AllNth
                <5>1. CASE n = Len(Written(t)) + 1
                    <6>1. base[t - 1] + n = logged + 1
                        BY <1>6, <4>2, <5>1
                    <6> QED
                        BY <1>5, <1>6, <5>1, <6>1
                <5>2. CASE n # Len(Written(t)) + 1
                    <6>1. n \in 1 .. Len(Written(t))
                        BY <1>6, <5>2
                    <6> QED
                        BY <1>6, <1>9, <3>1, <3>4, <6>1 DEF AllNth
                <5> QED
                    BY <5>1, <5>2
            <4> QED
                BY <4>1, <4>2, <4>3, <4>4
        <3> QED
            BY <1>11, <3>1, <3>2, <3>3, <3>4
    <2> HIDE DEF next
    <2> QED
        BY <2>1, <2>2, <2>3 DEF Counts
<1>13. \E b : Counts(b, WholeDays', logged')
    BY <1>5, <1>12 DEF wholeNext
<1>14. \A d \in Days : d \in exists' => Written(d)' # <<>>
    BY <1>3, <1>4, <1>6 DEF Orderly
<1> QED
    BY <1>3, <1>5, <1>13, <1>14 DEF Orderly

LEMMA Within ==
    ASSUME NEW a \in Nat, NEW b \in Nat, NEW i \in 1 .. a
    PROVE  i \in 1 .. (a + b) /\ i \in Nat /\ i >= 1
OBVIOUS

LEMMA WholeLength ==
    ASSUME SiemTypeOK, NEW d \in Days
    PROVE  /\ Len(Written(d)) = Len(files[d]) + Len(pending[d])
           /\ Len(files[d]) \in Nat /\ Len(pending[d]) \in Nat
           /\ \A i \in 1 .. Len(files[d]) : Written(d)[i] = files[d][i]
           /\ \A i \in 1 .. Len(files[d]) : i \in 1 .. Len(Written(d)) /\ i \in Nat /\ i >= 1
           /\ pending[d] # <<>> => Written(d) # <<>>
           /\ pending[d] = <<>> => Written(d) = files[d]
<1>1. files[d] \in Seq(Line) /\ pending[d] \in Seq(Line)
    BY DayTypes
<1> DEFINE f == files[d]
           p == pending[d]
<1>2. Written(d) = f \o p
    BY DEF Written
<1> HIDE DEF f, p
<1>3. f \in Seq(Line) /\ p \in Seq(Line)
    BY <1>1 DEF f, p
<1>4. /\ Len(f \o p) = Len(f) + Len(p) /\ Len(f) \in Nat /\ Len(p) \in Nat
      /\ \A i \in 1 .. Len(f) : (f \o p)[i] = f[i]
    BY ONLY <1>3, Whole
<1>5. (Len(p) = 0 => p = <<>>) /\ Len(<<>>) = 0
    BY ONLY <1>3, EmptySeq
<1>6. \A i \in 1 .. Len(f) : i \in 1 .. Len(f \o p) /\ i \in Nat /\ i >= 1
    BY ONLY <1>4, Within
<1>7. p # <<>> => f \o p # <<>>
    <2>1. ASSUME p # <<>> PROVE Len(f \o p) # 0
        <3>1. Len(p) # 0
            BY <1>5, <2>1
        <3> QED
            BY ONLY <1>4, <3>1
    <2> QED
        BY <1>5, <2>1
<1>8. p = <<>> => f \o p = f
    BY ONLY <1>3, ConcatEmptySeq
<1> QED
    BY ONLY <1>2, <1>4, <1>6, <1>7, <1>8 DEF f, p

\* What a file holds are the first entries of its day, all of them whole.
LEMMA OrderlyFiles ==
    ASSUME SiemTypeOK, NEW base, Counts(base, WholeDays, logged), NEW d \in Days
    PROVE  /\ base[d] \in Nat /\ base[d - 1] \in Nat
           /\ base[d] = base[d - 1] + Len(Written(d))
           /\ Len(Written(d)) = Len(files[d]) + Len(pending[d])
           /\ Len(files[d]) \in Nat /\ Len(pending[d]) \in Nat
           /\ AllNth(Written(d), base[d - 1]) /\ AllNth(files[d], base[d - 1])
           /\ ~ Spoils(files[d])
<1>1. /\ files[d] \in Seq(Line) /\ pending[d] \in Seq(Line)
      /\ WholeDays[d] = Written(d) /\ Written(d) = files[d] \o pending[d]
    BY DayTypes, WholeDaysType
<1>2. /\ d \in 0 .. MaxDay /\ d - 1 \in 0 .. MaxDay
    BY DaysAre
<1>3. /\ base[d] \in Nat /\ base[d - 1] \in Nat
      /\ base[d] = base[d - 1] + Len(Written(d))
      /\ AllNth(Written(d), base[d - 1])
    BY <1>1, <1>2 DEF Counts
<1>4. /\ Len(Written(d)) = Len(files[d]) + Len(pending[d])
      /\ Len(files[d]) \in Nat /\ Len(pending[d]) \in Nat
      /\ \A i \in 1 .. Len(files[d]) : Written(d)[i] = files[d][i]
    BY SiemTypeOK, WholeLength
<1>5. AllNth(files[d], base[d - 1])
    <2> SUFFICES ASSUME NEW i \in 1 .. Len(files[d])
                 PROVE  Nth(files[d][i], base[d - 1] + i)
        BY DEF AllNth
    <2>1. i \in 1 .. Len(Written(d)) /\ Written(d)[i] = files[d][i]
        BY WholeLength
    <2> QED
        BY <1>3, <2>1 DEF AllNth
<1>6. ~ Spoils(files[d])
    <2> SUFFICES ASSUME files[d] # <<>> PROVE LastLine(files[d]).kind = "entry"
        BY DEF Spoils
    <2>1. Len(files[d]) \in 1 .. Len(files[d])
        BY <1>1, EmptySeq
    <2> QED
        BY <1>5, <2>1 DEF AllNth, Nth, LastLine
<1> QED
    BY <1>3, <1>4, <1>5, <1>6

LEMMA OrderlyFlush ==
    ASSUME SiemInv, Orderly, NEW d \in Days, Flush(d)
    PROVE  Orderly'
<1>0. SiemTypeOK
    BY DEF SiemInv
<1>1. /\ pending[d] # <<>> /\ d \in exists /\ up
      /\ files' = [files EXCEPT ![d] = AppendTo(files[d], Head(pending[d]))]
      /\ pending' = [pending EXCEPT ![d] = Tail(pending[d])]
      /\ UNCHANGED <<up, lastHash, sequenceNumber, exists, logged>>
    BY DEF Flush
<1>2. /\ files[d] \in Seq(Line) /\ pending[d] \in Seq(Line)
      /\ Head(pending[d]) \in Line
    BY <1>0, <1>1, DayTypes, HeadTail
<1>3. PICK base : Counts(base, WholeDays, logged)
    BY DEF Orderly
<1>4. AppendTo(files[d], Head(pending[d])) = Append(files[d], Head(pending[d]))
    <2>1. ~ Spoils(files[d])
        BY ONLY <1>0, <1>3, OrderlyFiles, d \in Days
    <2> QED
        BY ONLY <1>2, <2>1, AppendToAppends
<1>5. /\ files'[d] = Append(files[d], Head(pending[d])) /\ pending'[d] = Tail(pending[d])
      /\ \A e \in Days \ {d} : files'[e] = files[e] /\ pending'[e] = pending[e]
    BY <1>0, <1>1, <1>4 DEF SiemTypeOK
<1>6. \A e \in Days : Written(e)' = Written(e)
    <2>1. Written(d)' = Written(d)
        <3>1. Append(files[d], Head(pending[d])) \o Tail(pending[d]) = files[d] \o pending[d]
            BY ONLY <1>1, <1>2, WholeMoves
        <3> QED
            BY ONLY <1>5, <3>1 DEF Written
    <2>2. \A e \in Days \ {d} : Written(e)' = Written(e)
        BY <1>5 DEF Written
    <2> QED
        BY <2>1, <2>2
<1>7. \A e \in Days : files'[e] # <<>> => e \in exists
    BY <1>1, <1>5 DEF Orderly
<1>8. up' /\ lastHash' = logged /\ sequenceNumber' = logged
    BY <1>1 DEF Orderly
<1> QED
    BY <1>1, <1>6, <1>7, <1>8, OrderlyStays

LEMMA OrderlyOpenFile ==
    ASSUME SiemInv, Orderly, NEW d \in Days, OpenFile(d)
    PROVE  Orderly'
<1>0. SiemTypeOK
    BY DEF SiemInv
<1>1. /\ pending[d] # <<>> /\ exists' = exists \cup {d} /\ up
      /\ UNCHANGED <<up, lastHash, sequenceNumber, pending, files, logged>>
    BY DEF OpenFile
<1>2. Written(d) # <<>>
    BY <1>0, <1>1, WholeLength
<1>3. WholeDays' = WholeDays /\ \A e \in Days : Written(e)' = Written(e)
    BY <1>1 DEF WholeDays, Written
<1> QED
    BY <1>1, <1>2, <1>3 DEF Orderly

LEMMA OrderlyStop ==
    ASSUME SiemInv, Orderly, Stop
    PROVE  Orderly'
<1>1. /\ \A d \in Days : pending[d] = <<>> /\ pending'[d] = <<>>
      /\ ~ up' /\ UNCHANGED <<files, exists, logged>>
    BY DEF Stop, Down
<1>2. \A d \in Days : Written(d)' = Written(d)
    BY <1>1 DEF Written
<1>3. Drained'
    BY <1>1 DEF Drained
<1>4. \A d \in Days : files'[d] # <<>> => d \in exists
    BY <1>1 DEF Orderly
<1> QED
    BY <1>1, <1>2, <1>3, <1>4, OrderlyStays

\* After an orderly stop the last file ends with the last entry.
LEMMA LastFileCounts ==
    ASSUME SiemInv, Orderly, Drained
    PROVE  IF Resumable(LastFile)
           THEN LastLine(LastFile).hash = logged /\ LastLine(LastFile).seq = logged
           ELSE logged = 0
<1>0. SiemTypeOK /\ logged \in Nat
    BY DayTypes, DaysAre DEF SiemInv, SiemTypeOK
<1>1. PICK base : Counts(base, WholeDays, logged)
    BY DEF Orderly
<1>2. ASSUME NEW d \in Days
      PROVE  /\ files[d] \in Seq(Line) /\ base[d] \in Nat /\ base[d - 1] \in Nat
             /\ base[d] = base[d - 1] + Len(files[d]) /\ Len(files[d]) \in Nat
             /\ AllNth(files[d], base[d - 1])
             /\ d \in exists <=> files[d] # <<>>
    <2>1. files[d] \in Seq(Line) /\ pending[d] = <<>> /\ Len(<<>>) = 0
        BY <1>0, DayTypes DEF Drained
    <2>2. Written(d) = files[d]
        BY <2>1, ConcatEmptySeq DEF Written
    <2> QED
        BY <1>0, <1>1, <2>1, <2>2, OrderlyFiles DEF Orderly
<1>3. CASE exists = {}
    <2>1. ~ Resumable(LastFile)
        BY <1>3 DEF Resumable, LastFile
    <2>2. ASSUME logged # 0 PROVE FALSE
        <3>1. PICK d \in Days : base[d - 1] < logged /\ logged <= base[d]
            BY <1>0, <1>1, <2>2, DayOf
        <3>2. files[d] = <<>> /\ Len(<<>>) = 0
            BY <1>2, <1>3
        <3> QED
            BY <1>0, <1>2, <3>1, <3>2
    <2> QED
        BY <2>1, <2>2
<1>4. CASE exists # {}
    <2>1. PICK d \in exists : (\A e \in exists : e <= d) /\ LastFile = files[d]
        BY <1>0, <1>4, LastFileIs
    <2>2. d \in Days /\ files[d] # <<>>
        BY <1>0, <1>2, <2>1 DEF SiemTypeOK
    <2>3. Len(files[d]) \in 1 .. Len(files[d])
        BY <1>2, <2>2, EmptySeq
    <2>4. Nth(LastLine(files[d]), base[d])
        BY <1>2, <2>2, <2>3 DEF AllNth, LastLine
    <2>5. base[d] = logged
        <3>1. d \in 0 .. MaxDay /\ MaxDay \in 0 .. MaxDay /\ d <= MaxDay
            BY <2>2, DaysAre DEF Days
        <3>2. base[d] <= logged
            BY <1>1, <3>1 DEF Counts
        <3>3. ASSUME base[d] < logged PROVE FALSE
            <4>1. logged \in 1 .. logged
                BY <1>0, <1>2, <2>2, <3>3
            <4>2. PICK c \in Days : base[c - 1] < logged /\ logged <= base[c]
                BY <1>0, <1>1, <4>1, DayOf
            <4>3. files[c] # <<>>
                BY <1>0, <1>2, <4>2
            <4>4. c \in exists /\ c <= d
                BY <1>2, <2>1, <4>3
            <4>5. base[c] <= base[d]
                BY <1>1, <3>1, <4>4, DaysAre DEF Counts
            <4> QED
                BY <1>0, <1>2, <2>2, <3>3, <4>2, <4>5
        <3> QED
            BY <1>0, <1>2, <2>2, <3>2, <3>3
    <2>6. Resumable(LastFile)
        BY <2>1, <2>2, <2>4 DEF Resumable, Parses, Nth
    <2> QED
        BY <2>1, <2>4, <2>5, <2>6 DEF Nth
<1> QED
    BY <1>3, <1>4

LEMMA OrderlyRestart ==
    ASSUME SiemInv, Orderly, Restart
    PROVE  Orderly'
<1>1. ~ up /\ up' /\ UNCHANGED <<pending, files, exists, logged>>
    BY DEF Restart
<1>2. lastHash' = logged /\ sequenceNumber' = logged
    BY <1>1, LastFileCounts DEF Orderly, Restart, Genesis
<1>3. \A d \in Days : Written(d)' = Written(d)
    BY <1>1 DEF Written
<1>4. \A d \in Days : files'[d] # <<>> => d \in exists
    BY <1>1 DEF Orderly
<1> QED
    BY <1>1, <1>2, <1>3, <1>4, OrderlyStays

LEMMA OrderlyInit ==
    ASSUME SiemInit
    PROVE  Orderly
<1> DEFINE base == [d \in 0 .. MaxDay |-> 0]
<1>1. \A d \in Days : Written(d) = <<>> /\ files[d] = <<>>
    BY EmptySeq, ConcatEmptySeq DEF SiemInit, Written
<1>2. Counts(base, WholeDays, 0)
    <2>1. base \in [0 .. MaxDay -> Nat] /\ base[0] = 0 /\ base[MaxDay] = 0
        BY DaysAre
    <2>2. \A d, e \in 0 .. MaxDay : d <= e => base[d] <= base[e]
        OBVIOUS
    <2>3. ASSUME NEW d \in Days
          PROVE  base[d] = base[d - 1] + Len(WholeDays[d]) /\ AllNth(WholeDays[d], base[d - 1])
        <3>1. WholeDays[d] = <<>> /\ Len(<<>>) = 0
            BY <1>1 DEF WholeDays
        <3>2. base[d] = 0 /\ base[d - 1] = 0
            BY DaysAre
        <3>3. AllNth(<<>>, base[d - 1])
            BY DEF AllNth
        <3> HIDE DEF base
        <3> QED
            BY <3>1, <3>2, <3>3
    <2> HIDE DEF base
    <2> QED
        BY <2>1, <2>2, <2>3 DEF Counts
<1>3. logged = 0 /\ up /\ lastHash = 0 /\ sequenceNumber = 0 /\ exists = {}
    BY DEF SiemInit, Genesis
<1> QED
    BY <1>1, <1>2, <1>3 DEF Orderly

LEMMA OrderlyNext ==
    ASSUME SiemInv, SiemInv', OrderlyInv, [SiemNext]_siemVars
    PROVE  OrderlyInv'
<1> SUFFICES ASSUME crashes' = 0 PROVE Orderly'
    BY DEF OrderlyInv
<1>0. SiemTypeOK
    BY DEF SiemInv
<1>1. ~ Crash
    BY <1>0, SiemAssumption DEF Crash, SiemTypeOK
<1>2. crashes = 0
    BY <1>1 DEF SiemNext, Log, OpenFile, Flush, Midnight, Stop, Restart
<1>3. Orderly
    BY <1>2 DEF OrderlyInv
<1>4. CASE Log
    BY <1>3, <1>4, OrderlyLog
<1>5. ASSUME NEW d \in Days, OpenFile(d) PROVE Orderly'
    BY <1>3, <1>5, OrderlyOpenFile
<1>6. ASSUME NEW d \in Days, Flush(d) PROVE Orderly'
    BY <1>3, <1>6, OrderlyFlush
<1>7. ASSUME UNCHANGED <<up, memory, pending, disk, logged>> PROVE Orderly'
    <2>1. \A d \in Days : Written(d)' = Written(d)
        BY <1>7 DEF Written
    <2>2. Drained' = Drained
        BY <1>7 DEF Drained
    <2> QED
        BY <1>3, <1>7, <2>1, <2>2, OrderlyStays DEF Orderly
<1>8. CASE Stop
    BY <1>3, <1>8, OrderlyStop
<1>9. CASE Restart
    BY <1>3, <1>9, OrderlyRestart
<1> QED
    BY <1>1, <1>4, <1>5, <1>6, <1>7, <1>8, <1>9 DEF SiemNext, Midnight

LEMMA OrderlyHolds == SiemSpec => [](SiemInv /\ OrderlyInv)
<1>1. SiemInit => SiemInv /\ OrderlyInv
    BY InvInit, OrderlyInit DEF OrderlyInv
<1>2. SiemInv /\ OrderlyInv /\ [SiemNext]_siemVars => (SiemInv /\ OrderlyInv)'
    BY InvNext, OrderlyNext
<1> QED
    BY <1>1, <1>2, PTL DEF SiemSpec

-----------------------------------------------------------------------------
(* What follows from it.                                                   *)

\* Without a crash no two entries on disk share a predecessor: over midnights
\* and orderly restarts the chain of log() and initializeFromLastLog does not fork.
THEOREM SiemNoFork == SiemSpec => []NoFork
<1>1. ASSUME SiemInv, OrderlyInv PROVE NoFork
    <2> SUFFICES ASSUME NEW d \in Days, NEW e \in Days,
                        NEW m \in 1 .. Len(files[d]), NEW n \in 1 .. Len(files[e]),
                        crashes = 0, files[d][m].previous = files[e][n].previous
                 PROVE  d = e /\ m = n
        BY DEF NoFork
    <2>0. SiemTypeOK
        BY <1>1 DEF SiemInv
    <2>1. PICK base : Counts(base, WholeDays, logged)
        BY <1>1 DEF OrderlyInv, Orderly
    <2>2. ASSUME NEW c \in Days, NEW k \in 1 .. Len(files[c])
          PROVE  /\ k \in 1 .. Len(WholeDays[c])
                 /\ files[c][k].hash = base[c - 1] + k
                 /\ WholeDays[c][k].hash = base[c - 1] + k
                 /\ files[c][k].previous = (base[c - 1] + k) - 1
                 /\ base[c - 1] + k \in Nat
        <3>1. Written(c)[k] = files[c][k]
            BY <2>0, WholeLength
        <3>2. k \in 1 .. Len(Written(c)) /\ k \in Nat /\ k >= 1
            BY <2>0, WholeLength
        <3>3. base[c - 1] \in Nat /\ AllNth(files[c], base[c - 1])
            BY <2>0, <2>1, OrderlyFiles
        <3>4. Nth(files[c][k], base[c - 1] + k)
            BY <3>3 DEF AllNth
        <3>5. WholeDays[c] = Written(c)
            BY DEF WholeDays
        <3>6. base[c - 1] + k \in Nat
            BY <3>2, <3>3
        <3>7. files[c][k].hash = base[c - 1] + k /\ files[c][k].previous = (base[c - 1] + k) - 1
            BY ONLY <3>4 DEF Nth
        <3> HIDE DEF WholeDays
        <3>8. WholeDays[c][k] = files[c][k] /\ k \in 1 .. Len(WholeDays[c])
            BY ONLY <3>1, <3>2, <3>5
        <3> QED
            BY ONLY <3>6, <3>7, <3>8
    <2>3. /\ base[d - 1] + m \in Nat /\ base[e - 1] + n \in Nat
          /\ (base[d - 1] + m) - 1 = (base[e - 1] + n) - 1
        BY <2>2
    <2>4. base[d - 1] + m = base[e - 1] + n
        BY ONLY <2>3
    <2>5. /\ m \in 1 .. Len(WholeDays[d]) /\ n \in 1 .. Len(WholeDays[e])
          /\ WholeDays[d][m].hash = WholeDays[e][n].hash
        BY <2>2, <2>4
    <2>6. WholeDays \in [Days -> Seq(Line)]
        BY <2>0, WholeDaysType
    <2> HIDE DEF WholeDays
    <2>7. /\ WholeDays \in [Days -> Seq(Line)] /\ Counts(base, WholeDays, logged)
          /\ m \in 1 .. Len(WholeDays[d]) /\ n \in 1 .. Len(WholeDays[e])
          /\ WholeDays[d][m].hash = WholeDays[e][n].hash
        BY ONLY <2>1, <2>5, <2>6
    <2> QED
        BY ONLY <2>7, d \in Days, e \in Days, OnePlace
<1> QED
    BY <1>1, OrderlyHolds, PTL

-----------------------------------------------------------------------------
(* verifyChainIntegrity: the walk over the files.                          *)

\* A line that ends the reading of its file.
Past(line, start, end) == Parses(line) /\ line.seq >= start /\ line.seq > end

\* What is read of a file is its beginning, up to the first line past the end.
LEMMA ConsideredIs ==
    ASSUME NEW f \in Seq(Line), NEW start \in Nat, NEW end \in Nat
    PROVE  /\ Considered(f, start, end) \in Seq(Line)
           /\ \E k \in 0 .. Len(f) :
                  /\ Len(Considered(f, start, end)) = k
                  /\ \A i \in 1 .. k : Considered(f, start, end)[i] = f[i]
                  /\ \A i \in 1 .. k : ~ Past(f[i], start, end)
                  /\ k < Len(f) => Past(f[k + 1], start, end)
<1>0. Len(f) \in Nat
    OBVIOUS
<1> DEFINE past == {n \in 1 .. Len(f) : Past(f[n], start, end)}
           first == CHOOSE n \in past : \A m \in past : n <= m
<1>1. Considered(f, start, end) = IF past = {} THEN f ELSE SubSeq(f, 1, first - 1)
    BY DEF Considered, Past
<1>2. CASE past = {}
    <2>1. \A i \in 1 .. Len(f) : ~ Past(f[i], start, end)
        BY <1>2
    <2> QED
        BY <1>0, <1>1, <1>2, <2>1
<1>3. CASE past # {}
    <2>1. past \subseteq Nat /\ past \subseteq 1 .. Len(f)
        OBVIOUS
    <2>2. \E n \in past : \A m \in past : n <= m
        <3> HIDE DEF past
        <3> QED
            BY <1>3, <2>1, LeastNumber
    <2>3. first \in past /\ \A m \in past : first <= m
        BY <2>2
    <2>4. PICK j \in 1 .. Len(f) : /\ j = first /\ Past(f[j], start, end)
                                   /\ \A m \in past : j <= m
        BY <2>3
    <2>5. PICK k \in 0 .. Len(f) - 1 : k = j - 1
        BY <1>0
    <2>6. Considered(f, start, end) = SubSeq(f, 1, k)
        BY <1>1, <1>3, <2>4, <2>5
    <2>7. \A i \in 1 .. k : i \in 1 .. Len(f)
        BY <1>0
    <2>8. /\ SubSeq(f, 1, k) \in Seq(Line)
          /\ Len(SubSeq(f, 1, k)) = k
          /\ \A i \in 1 .. k : SubSeq(f, 1, k)[i] = f[i]
        <3>1. \A i \in 1 .. k : f[i] \in Line
            BY <2>7, ElementOfSeq
        <3>2. k \in Nat
            BY <1>0
        <3>3. /\ SubSeq(f, 1, k) \in Seq(Line)
              /\ Len(SubSeq(f, 1, k)) = IF 1 <= k THEN k - 1 + 1 ELSE 0
              /\ \A i \in 1 .. k - 1 + 1 : SubSeq(f, 1, k)[i] = f[1 + i - 1]
            BY ONLY <3>1, <3>2, SubSeqProperties
        <3> QED
            BY ONLY <3>2, <3>3
    <2>9. ASSUME NEW i \in 1 .. k PROVE ~ Past(f[i], start, end)
        <3>1. i \in 1 .. Len(f) /\ ~ j <= i
            BY <1>0, <2>5
        <3> QED
            BY <2>4, <3>1
    <2>10. Past(f[k + 1], start, end) /\ k \in 0 .. Len(f)
        <3>1. k + 1 = j
            BY <2>5
        <3>2. Past(f[j], start, end)
            BY ONLY <2>4
        <3>3. k \in 0 .. Len(f)
            BY ONLY <1>0
        <3> QED
            BY ONLY <3>1, <3>2, <3>3
    <2>11. /\ Considered(f, start, end) \in Seq(Line)
           /\ Len(Considered(f, start, end)) = k
           /\ \A i \in 1 .. k : Considered(f, start, end)[i] = f[i]
        BY ONLY <2>6, <2>8
    <2> HIDE DEF past, first
    <2> QED
        BY <2>9, <2>10, <2>11
<1> QED
    BY <1>2, <1>3

\* The walk, one file after the other: what verifyChainIntegrity has read when
\* it has come to the end of a day.
Walks(W, g, last) ==
    /\ W \in [0 .. last -> Seq(Line)]
    /\ W[0] = <<>>
    /\ \A d \in 1 .. last : W[d] = W[d - 1] \o g[d]

LEMMA WalkExists ==
    ASSUME NEW g \in [Days -> Seq(Line)]
    PROVE  \E W : Walks(W, g, MaxDay)
<1> DEFINE P == {n \in Nat : \E W : Walks(W, g, n)}
<1>1. 0 \in P
    <2>1. Walks([d \in 0 .. 0 |-> <<>>], g, 0)
        BY DEF Walks
    <2> QED
        BY <2>1
<1>2. ASSUME NEW n \in 0 .. MaxDay, n \in P, n < MaxDay PROVE n + 1 \in P
    <2>1. PICK W : Walks(W, g, n)
        BY <1>2
    <2>2. n \in Nat /\ n + 1 \in Days /\ g[n + 1] \in Seq(Line)
        BY <1>2, DaysAre DEF Days
    <2> DEFINE V == [d \in 0 .. n + 1 |-> IF d = n + 1 THEN W[n] \o g[n + 1] ELSE W[d]]
    <2>3. \A d \in 0 .. n : W[d] \in Seq(Line)
        BY <2>1 DEF Walks
    <2>4. W[n] \o g[n + 1] \in Seq(Line)
        BY <2>2, <2>3, ConcatProperties
    <2>5. \A d \in 0 .. n + 1 : V[d] \in Seq(Line)
        <3> SUFFICES ASSUME NEW d \in 0 .. n + 1 PROVE V[d] \in Seq(Line)
            OBVIOUS
        <3>1. CASE d = n + 1
            BY <2>4, <3>1
        <3>2. CASE d # n + 1
            <4>1. d \in 0 .. n
                BY <2>2, <3>2
            <4> QED
                BY <2>3, <3>2, <4>1
        <3> QED
            BY <3>1, <3>2
    <2>6. V[0] = <<>>
        BY <2>1, <2>2 DEF Walks
    <2>7. ASSUME NEW d \in 1 .. n + 1 PROVE V[d] = V[d - 1] \o g[d]
        <3>1. d \in 0 .. n + 1 /\ d - 1 \in 0 .. n /\ d - 1 \in 0 .. n + 1 /\ d - 1 # n + 1
            BY <2>2
        <3>2. V[d - 1] = W[d - 1]
            BY <3>1
        <3>3. CASE d = n + 1
            <4>1. V[d] = W[n] \o g[n + 1]
                BY <3>1, <3>3
            <4>2. d - 1 = n
                BY <2>2, <3>3
            <4> HIDE DEF V
            <4>3. V[n] = W[n]
                BY <3>2, <4>2
            <4> QED
                BY ONLY <3>3, <4>1, <4>2, <4>3
        <3>4. CASE d # n + 1
            <4>1. d \in 1 .. n
                BY <2>2, <3>4
            <4> QED
                BY <2>1, <3>1, <3>2, <3>4, <4>1 DEF Walks
        <3> HIDE DEF V
        <3> QED
            BY <3>3, <3>4
    <2>8. V \in [0 .. n + 1 -> Seq(Line)]
        BY <2>5
    <2>9. Walks(V, g, n + 1)
        <3> HIDE DEF V
        <3> QED
            BY <2>6, <2>7, <2>8 DEF Walks
    <2> QED
        BY <2>2, <2>9
<1>3. \A n \in 0 .. MaxDay : n \in P
    <2> HIDE DEF P
    <2> QED
        BY <1>1, <1>2, DaysAre, UpTo
<1>4. MaxDay \in P
    BY <1>3, DaysAre
<1> QED
    BY <1>4

LEMMA WalkIs ==
    ASSUME NEW lines \in [Days -> Seq(Line)], NEW start \in Nat, NEW end \in Nat,
           NEW g, g = [d \in Days |-> Considered(lines[d], start, end)]
    PROVE  /\ g \in [Days -> Seq(Line)]
           /\ \E W : Walks(W, g, MaxDay) /\ Walk(lines, start, end) = W[MaxDay]
<1>1. g \in [Days -> Seq(Line)]
    BY ConsideredIs
<1> DEFINE Step(W) == [d \in 0 .. MaxDay |->
                          IF d = 0 THEN <<>>
                          ELSE W[d - 1] \o Considered(lines[d], start, end)]
           V == CHOOSE W : W = Step(W)
<1>2. Walk(lines, start, end) = V[MaxDay]
    BY DEF Walk
<1>3. PICK W : Walks(W, g, MaxDay)
    BY <1>1, WalkExists
<1>4. W = Step(W)
    <2>1. ASSUME NEW d \in 0 .. MaxDay PROVE W[d] = Step(W)[d]
        <3>1. CASE d = 0
            BY <1>3, <3>1 DEF Walks
        <3>2. CASE d # 0
            <4>1. d \in 1 .. MaxDay /\ d \in Days
                BY <3>2, DaysAre DEF Days
            <4> QED
                BY <1>3, <3>2, <4>1 DEF Walks
        <3> QED
            BY <3>1, <3>2
    <2> QED
        BY <1>3, <2>1 DEF Walks
<1>5. V = Step(V)
    BY <1>4
<1>6. Walks(V, g, MaxDay)
    <2>0. MaxDay \in Nat /\ 0 \in 0 .. MaxDay
        BY DaysAre
    <2>1. V[0] = <<>>
        BY <1>5, <2>0
    <2>2. ASSUME NEW d \in 1 .. MaxDay PROVE V[d] = V[d - 1] \o g[d]
        <3>1. d \in 0 .. MaxDay /\ d # 0 /\ d \in Days
            BY <2>0 DEF Days
        <3> QED
            BY <1>5, <3>1
    <2>3. \A d \in 0 .. MaxDay : V[d] \in Seq(Line)
        <3> DEFINE P == {d \in Nat : V[d] \in Seq(Line)}
        <3>1. 0 \in P
            <4>1. <<>> \in Seq(Line)
                BY EmptySeq
            <4> HIDE DEF V
            <4> QED
                BY <2>1, <4>1
        <3>2. ASSUME NEW n \in 0 .. MaxDay, n \in P, n < MaxDay PROVE n + 1 \in P
            <4>1. n + 1 \in 1 .. MaxDay /\ n + 1 \in Days /\ (n + 1) - 1 = n /\ n + 1 \in Nat
                BY <2>0, <3>2 DEF Days
            <4>2. V[n + 1] = V[n] \o g[n + 1] /\ g[n + 1] \in Seq(Line) /\ V[n] \in Seq(Line)
                BY <1>1, <2>2, <3>2, <4>1
            <4> HIDE DEF V
            <4>3. V[n + 1] \in Seq(Line)
                BY <4>2, ConcatProperties
            <4> QED
                BY <4>1, <4>3
        <3>3. \A n \in 0 .. MaxDay : n \in P
            <4> HIDE DEF P
            <4> QED
                BY <2>0, <3>1, <3>2, UpTo
        <3> QED
            BY <3>3
    <2>4. V \in [0 .. MaxDay -> Seq(Line)]
        <3>1. V = [d \in 0 .. MaxDay |-> V[d]]
            BY <1>5
        <3> HIDE DEF V
        <3> QED
            BY <2>3, <3>1
    <2> HIDE DEF V
    <2> QED
        BY <2>1, <2>2, <2>4 DEF Walks
<1> QED
    BY <1>1, <1>2, <1>6

-----------------------------------------------------------------------------
(* What the walk finds in a chain that was only ever stopped in order.     *)

\* In a walk that has the first entries of the chain one after the other, every
\* line parses and follows.
LEMMA NthsVerify ==
    ASSUME NEW lines, NEW start, NEW end,
           Walk(lines, start, end) \in Seq(Line), AllNth(Walk(lines, start, end), 0)
    PROVE  Verify(lines, start, end)
<1> DEFINE walk == Walk(lines, start, end)
<1>1. Len(walk) \in Nat
    OBVIOUS
<1> HIDE DEF walk
<1>2. ASSUME NEW n \in 1 .. Len(walk)
      PROVE  Parses(walk[n]) /\ Follows(walk, n)
    <2>1. n \in Nat /\ Nth(walk[n], 0 + n) /\ 0 + n = n
        BY DEF AllNth, walk
    <2>2. CASE n = 1
        BY <2>1, <2>2 DEF Nth, Parses, Follows, Genesis
    <2>3. CASE n # 1
        <3>1. n - 1 \in 1 .. Len(walk) /\ 0 + (n - 1) = n - 1
            BY <1>1, <2>3
        <3>2. Nth(walk[n - 1], n - 1)
            BY <3>1 DEF AllNth, walk
        <3> QED
            BY <2>1, <2>3, <3>2 DEF Nth, Parses, Follows
    <2> QED
        BY <2>2, <2>3
<1> QED
    BY <1>2 DEF Verify, walk

LEMMA AllNthConcat ==
    ASSUME NEW a \in Seq(Line), NEW b \in Seq(Line), NEW from \in Nat,
           AllNth(a, from), AllNth(b, from + Len(a))
    PROVE  AllNth(a \o b, from)
<1>1. /\ Len(a \o b) = Len(a) + Len(b) /\ Len(a) \in Nat /\ Len(b) \in Nat
      /\ \A i \in 1 .. Len(a) : (a \o b)[i] = a[i]
      /\ \A i \in 1 .. Len(b) : (a \o b)[Len(a) + i] = b[i]
    BY Whole
<1> SUFFICES ASSUME NEW n \in 1 .. Len(a) + Len(b) PROVE Nth((a \o b)[n], from + n)
    BY <1>1 DEF AllNth
<1>2. CASE n <= Len(a)
    <2>1. n \in 1 .. Len(a)
        BY <1>1, <1>2
    <2> QED
        BY <1>1, <2>1 DEF AllNth
<1>3. CASE ~ n <= Len(a)
    <2>1. PICK i \in 1 .. Len(b) : n = Len(a) + i
        <3>1. n - Len(a) \in 1 .. Len(b) /\ n = Len(a) + (n - Len(a))
            BY <1>1, <1>3
        <3> QED
            BY <3>1
    <2>2. Nth(b[i], (from + Len(a)) + i)
        BY DEF AllNth
    <2>3. (from + Len(a)) + i = from + n
        BY <1>1, <2>1
    <2> QED
        BY <1>1, <2>1, <2>2, <2>3
<1> QED
    BY <1>2, <1>3

LEMMA EmptyIs ==
    ASSUME NEW f \in Seq(Line)
    PROVE  Len(f) \in Nat /\ (Len(f) = 0 <=> f = <<>>)
BY EmptySeq

LEMMA Sums ==
    ASSUME NEW from \in Nat, NEW to, NEW all, NEW a \in Nat, NEW b \in Nat,
           to = from + all, all = a + b, NEW i \in 1 .. a
    PROVE  from + i <= to
OBVIOUS

\* What is read of a day's file, when the files hold the chain with nothing missing
\* but entries still being written: all the day has, or nothing is read after it.
LEMMA DayRead ==
    ASSUME SiemTypeOK, InOrder, NEW base, Counts(base, WholeDays, logged),
           NEW start \in Nat, NEW end \in Nat, NEW d \in Days
    PROVE  /\ AllNth(Considered(files[d], start, end), base[d - 1])
           /\ \/ Len(Considered(files[d], start, end)) = Len(Written(d))
              \/ \A e \in Days : e > d => Considered(files[e], start, end) = <<>>
<1> DEFINE read(e) == Considered(files[e], start, end)
<1>0. \A e \in Days : files[e] \in Seq(Line) /\ pending[e] \in Seq(Line)
    BY DayTypes
<1>1. PICK k \in 0 .. Len(files[d]) :
          /\ Len(read(d)) = k
          /\ \A i \in 1 .. k : read(d)[i] = files[d][i]
          /\ \A i \in 1 .. k : ~ Past(files[d][i], start, end)
          /\ k < Len(files[d]) => Past(files[d][k + 1], start, end)
    BY <1>0, ConsideredIs
<1>2. ASSUME NEW e \in Days
      PROVE  /\ base[e] \in Nat /\ base[e - 1] \in Nat
             /\ base[e] = base[e - 1] + Len(Written(e))
             /\ Len(Written(e)) = Len(files[e]) + Len(pending[e])
             /\ Len(files[e]) \in Nat /\ Len(pending[e]) \in Nat
             /\ AllNth(files[e], base[e - 1])
    BY OrderlyFiles
<1>3. AllNth(read(d), base[d - 1])
    <2> SUFFICES ASSUME NEW i \in 1 .. k PROVE Nth(read(d)[i], base[d - 1] + i)
        BY <1>1 DEF AllNth
    <2>1. i \in 1 .. Len(files[d])
        BY <1>2
    <2> QED
        BY <1>1, <1>2, <2>1 DEF AllNth
<1>4. CASE k < Len(files[d])
    <2>1. Past(files[d][k + 1], start, end) /\ k + 1 \in 1 .. Len(files[d])
        BY <1>1, <1>2, <1>4
    <2>2. files[d][k + 1].seq = base[d - 1] + (k + 1)
        BY <1>2, <2>1 DEF AllNth, Nth
    <2>3. base[d - 1] + (k + 1) >= start /\ base[d - 1] + (k + 1) > end
        BY <2>1, <2>2 DEF Past
    <2>4. base[d - 1] + (k + 1) <= base[d]
        BY ONLY <1>2, <2>1, Sums
    <2>5. ASSUME NEW e \in Days, e > d, read(e) # <<>> PROVE FALSE
        <3>1. PICK j \in 0 .. Len(files[e]) :
                  /\ Len(read(e)) = j
                  /\ \A i \in 1 .. j : ~ Past(files[e][i], start, end)
            BY <1>0, ConsideredIs
        <3>2. read(e) \in Seq(Line)
            BY <1>0, ConsideredIs
        <3>3. j # 0 /\ Len(files[e]) \in Nat
            BY <1>2, <2>5, <3>1, <3>2, EmptyIs
        <3>4. 1 \in 1 .. j /\ 1 \in 1 .. Len(files[e])
            BY <3>3
        <3>5. ~ Past(files[e][1], start, end) /\ Nth(files[e][1], base[e - 1] + 1)
            BY <1>2, <3>1, <3>4 DEF AllNth
        <3>6. base[d] <= base[e - 1]
            <4>1. d \in 0 .. MaxDay /\ e - 1 \in 0 .. MaxDay /\ d <= e - 1
                BY <2>5, DaysAre
            <4> QED
                BY <4>1 DEF Counts
        <3>7. base[e - 1] + 1 >= start /\ base[e - 1] + 1 > end
            <4>1. base[d] \in Nat /\ base[d - 1] \in Nat /\ base[e - 1] \in Nat
                BY <1>2
            <4>2. k \in Nat
                <5>1. Len(files[d]) \in Nat
                    BY <1>2
                <5> QED
                    BY <5>1
            <4> QED
                BY ONLY <2>3, <2>4, <3>6, <4>1, <4>2
        <3> QED
            BY <3>5, <3>7 DEF Past, Nth, Parses
    <2> QED
        BY <1>3, <2>5
<1>5. CASE pending[d] # <<>>
    <2>1. ASSUME NEW e \in Days, e > d PROVE read(e) = <<>>
        <3>1. files[e] = <<>> /\ Len(files[e]) = 0
            <4>1. d < e
                BY <2>1, DaysAre
            <4> QED
                BY <1>5, <4>1, EmptySeq DEF InOrder
        <3>2. read(e) \in Seq(Line)
            BY <1>0, ConsideredIs
        <3>3. Len(read(e)) = 0
            <4>1. PICK j \in 0 .. Len(files[e]) :
                      /\ Len(read(e)) = j
                      /\ \A i \in 1 .. j : read(e)[i] = files[e][i]
                      /\ \A i \in 1 .. j : ~ Past(files[e][i], start, end)
                      /\ j < Len(files[e]) => Past(files[e][j + 1], start, end)
                BY <1>0, ConsideredIs
            <4>2. j \in 0 .. 0
                BY <3>1
            <4> QED
                BY <4>1, <4>2
        <3> QED
            BY <3>2, <3>3, EmptyIs
    <2> QED
        BY <1>3, <2>1
<1>6. CASE ~ k < Len(files[d]) /\ pending[d] = <<>>
    <2>1. Len(pending[d]) = 0
        BY <1>6, EmptySeq
    <2>2. k = Len(files[d])
        <3>1. Len(files[d]) \in Nat
            BY <1>2
        <3> QED
            BY <1>6, <3>1
    <2>3. Len(files[d]) = Len(Written(d))
        <3>1. Len(Written(d)) = Len(files[d]) + Len(pending[d]) /\ Len(files[d]) \in Nat
            BY ONLY <1>2
        <3> QED
            BY ONLY <2>1, <3>1
    <2> QED
        BY <1>1, <1>3, <2>2, <2>3
<1> QED
    BY <1>4, <1>5, <1>6

\* Every range verifies at every moment of an orderly history (verifyChainIntegrity
\* on files log() wrote), except while a new day's stream has overtaken the old one.
THEOREM SiemVerifies == SiemSpec => []OrderlyChainVerifies
<1>1. ASSUME SiemInv, OrderlyInv PROVE OrderlyChainVerifies
    <2> SUFFICES ASSUME crashes = 0, up, InOrder,
                        NEW start \in 1 .. sequenceNumber, NEW end \in 1 .. sequenceNumber
                 PROVE  Verify(files, start, end)
        BY DEF OrderlyChainVerifies, VerifyChain
    <2>0. SiemTypeOK /\ files \in [Days -> Seq(Line)] /\ start \in Nat /\ end \in Nat
        BY <1>1 DEF SiemInv, SiemTypeOK
    <2>1. PICK base : Counts(base, WholeDays, logged)
        BY <1>1 DEF OrderlyInv, Orderly
    <2> DEFINE g == [d \in Days |-> Considered(files[d], start, end)]
    <2>2. g \in [Days -> Seq(Line)]
        BY <2>0, WalkIs
    <2>3. PICK W : Walks(W, g, MaxDay) /\ Walk(files, start, end) = W[MaxDay]
        BY <2>0, WalkIs
    <2>4. ASSUME NEW d \in Days
          PROVE  /\ AllNth(g[d], base[d - 1])
                 /\ Len(g[d]) = Len(Written(d)) \/ \A e \in Days : e > d => g[e] = <<>>
                 /\ base[d] \in Nat /\ base[d - 1] \in Nat
                 /\ base[d] = base[d - 1] + Len(Written(d))
        BY <2>0, <2>1, DayRead, OrderlyFiles
    <2> HIDE DEF g
    <2> DEFINE P == {d \in 0 .. MaxDay :
                        /\ AllNth(W[d], 0)
                        /\ Len(W[d]) = base[d] \/ \A e \in Days : e > d => g[e] = <<>>}
    <2>5. 0 \in P
        <3>1. W[0] = <<>> /\ Len(<<>>) = 0 /\ base[0] = 0 /\ 0 \in 0 .. MaxDay
            BY <2>1, <2>3, DaysAre DEF Walks, Counts
        <3>2. AllNth(<<>>, 0)
            BY DEF AllNth
        <3> QED
            BY <3>1, <3>2
    <2>6. ASSUME NEW n \in 0 .. MaxDay, n \in P, n < MaxDay PROVE n + 1 \in P
        <3>1. PICK d \in Days : d = n + 1 /\ d - 1 = n /\ d \in 0 .. MaxDay
            BY <2>6, DaysAre DEF Days
        <3>2. W[d] = W[n] \o g[d] /\ W[n] \in Seq(Line) /\ g[d] \in Seq(Line)
            BY <2>2, <2>3, <3>1 DEF Walks, Days
        <3>3. AllNth(W[n], 0)
            BY <2>6
        <3>4. CASE Len(W[n]) = base[n]
            <4>1. 0 + Len(W[n]) = base[d - 1]
                BY <2>4, <3>1, <3>4
            <4>2. AllNth(g[d], 0 + Len(W[n]))
                BY <2>4, <4>1
            <4>3. AllNth(W[d], 0)
                BY <3>2, <3>3, <4>2, AllNthConcat
            <4>4. Len(W[d]) = Len(W[n]) + Len(g[d])
                BY <3>2, Whole
            <4>5. Len(g[d]) = Len(Written(d)) => Len(W[d]) = base[d]
                BY <2>4, <3>1, <3>4, <4>4
            <4> QED
                BY <2>4, <3>1, <4>3, <4>5
        <3>5. CASE \A e \in Days : e > n => g[e] = <<>>
            <4>1. d > n /\ \A e \in Days : e > d => e > n
                BY <3>1, DaysAre
            <4>2. W[d] = W[n]
                BY <3>2, <3>5, <4>1, ConcatEmptySeq
            <4> QED
                BY <3>1, <3>3, <3>5, <4>1, <4>2
        <3> QED
            BY <2>6, <3>4, <3>5
    <2>7. \A n \in 0 .. MaxDay : n \in P
        <3> HIDE DEF P
        <3> QED
            BY <2>5, <2>6, DaysAre, UpTo
    <2>8. W[MaxDay] \in Seq(Line) /\ AllNth(W[MaxDay], 0)
        BY <2>3, <2>7, DaysAre DEF Walks
    <2> QED
        BY <2>3, <2>8, NthsVerify
<1> QED
    BY <1>1, OrderlyHolds, PTL

-----------------------------------------------------------------------------
(* What the walk finds when a line is missing.                             *)

LinesOf(s) == {s[i] : i \in 1 .. Len(s)}

LEMMA LinesOfConcat ==
    ASSUME NEW a \in Seq(Line), NEW b \in Seq(Line)
    PROVE  LinesOf(a \o b) = LinesOf(a) \cup LinesOf(b)
<1>1. /\ Len(a \o b) = Len(a) + Len(b) /\ Len(a) \in Nat /\ Len(b) \in Nat
      /\ \A i \in 1 .. Len(a) : (a \o b)[i] = a[i]
      /\ \A i \in 1 .. Len(b) : (a \o b)[Len(a) + i] = b[i]
    BY Whole
<1>2. ASSUME NEW i \in 1 .. Len(a) + Len(b)
      PROVE  (a \o b)[i] \in LinesOf(a) \cup LinesOf(b)
    <2>1. CASE i <= Len(a)
        <3>1. i \in 1 .. Len(a)
            BY <1>1, <2>1
        <3> QED
            BY <1>1, <3>1 DEF LinesOf
    <2>2. CASE ~ i <= Len(a)
        <3>1. PICK j \in 1 .. Len(b) : i = Len(a) + j
            <4>1. i - Len(a) \in 1 .. Len(b) /\ i = Len(a) + (i - Len(a))
                BY <1>1, <2>2
            <4> QED
                BY <4>1
        <3> QED
            BY <1>1, <3>1 DEF LinesOf
    <2> QED
        BY <2>1, <2>2
<1>3. ASSUME NEW i \in 1 .. Len(a) PROVE a[i] \in LinesOf(a \o b)
    <2>1. i \in 1 .. Len(a \o b)
        BY <1>1, Within
    <2> QED
        BY <1>1, <2>1 DEF LinesOf
<1>4. ASSUME NEW i \in 1 .. Len(b) PROVE b[i] \in LinesOf(a \o b)
    <2>1. Len(a) + i \in 1 .. Len(a \o b)
        BY <1>1
    <2> QED
        BY <1>1, <2>1 DEF LinesOf
<1> QED
    BY <1>1, <1>2, <1>3, <1>4 DEF LinesOf

\* The walk has the lines of the files and no other.
LEMMA WalkHas ==
    ASSUME NEW g \in [Days -> Seq(Line)], NEW W, Walks(W, g, MaxDay)
    PROVE  /\ \A d \in Days : LinesOf(g[d]) \subseteq LinesOf(W[MaxDay])
           /\ \A line \in LinesOf(W[MaxDay]) : \E d \in Days : line \in LinesOf(g[d])
<1> DEFINE P == {n \in 0 .. MaxDay :
                    /\ \A d \in Days : d <= n => LinesOf(g[d]) \subseteq LinesOf(W[n])
                    /\ \A line \in LinesOf(W[n]) : \E d \in Days : line \in LinesOf(g[d])}
<1>1. 0 \in P
    <2>1. W[0] = <<>> /\ Len(<<>>) = 0 /\ 0 \in 0 .. MaxDay
        BY DaysAre DEF Walks
    <2>2. LinesOf(<<>>) = {}
        BY DEF LinesOf
    <2>3. \A d \in Days : ~ d <= 0
        BY DaysAre
    <2> QED
        BY <2>1, <2>2, <2>3
<1>2. ASSUME NEW n \in 0 .. MaxDay, n \in P, n < MaxDay PROVE n + 1 \in P
    <2>1. PICK e \in Days : e = n + 1 /\ e - 1 = n /\ e \in 0 .. MaxDay
        BY <1>2, DaysAre DEF Days
    <2>2. W[e] = W[n] \o g[e] /\ W[n] \in Seq(Line) /\ g[e] \in Seq(Line)
        BY <2>1 DEF Walks, Days
    <2>3. LinesOf(W[e]) = LinesOf(W[n]) \cup LinesOf(g[e])
        BY <2>2, LinesOfConcat
    <2>4. \A d \in Days : d <= e => d <= n \/ d = e
        BY <2>1, DaysAre
    <2>5. \A d \in Days : d <= e => LinesOf(g[d]) \subseteq LinesOf(W[e])
        BY <1>2, <2>3, <2>4
    <2>6. \A line \in LinesOf(W[e]) : \E d \in Days : line \in LinesOf(g[d])
        BY <1>2, <2>3
    <2> QED
        BY <2>1, <2>5, <2>6
<1>3. \A n \in 0 .. MaxDay : n \in P
    <2> HIDE DEF P
    <2> QED
        BY <1>1, <1>2, DaysAre, UpTo
<1>4. MaxDay \in P
    <2> HIDE DEF P
    <2> QED
        BY <1>3, DaysAre
<1>5. \A d \in Days : d <= MaxDay
    BY DaysAre DEF Days
<1> QED
    BY <1>4, <1>5

\* A file with one line taken out.
TakenOut(f, n) == SubSeq(f, 1, n - 1) \o SubSeq(f, n + 1, Len(f))

LEMMA LineTakenOut ==
    ASSUME NEW f \in Seq(Line), NEW n \in 1 .. Len(f)
    PROVE  /\ TakenOut(f, n) \in Seq(Line)
           /\ \A i \in 1 .. Len(f) : i # n => f[i] \in LinesOf(TakenOut(f, n))
           /\ \A line \in LinesOf(TakenOut(f, n)) : \E i \in 1 .. Len(f) : i # n /\ line = f[i]
<1>1. Len(f) \in Nat /\ n \in Nat /\ n >= 1 /\ n <= Len(f)
    OBVIOUS
<1> DEFINE a == SubSeq(f, 1, n - 1)
           b == SubSeq(f, n + 1, Len(f))
<1>2. /\ a \in Seq(Line) /\ Len(a) = n - 1
      /\ \A i \in 1 .. n - 1 : a[i] = f[i]
    <2>1. /\ \A i \in 1 .. n - 1 : f[i] \in Line
          /\ n - 1 \in Int /\ 1 \in Int /\ (n - 1) - 1 + 1 = n - 1
        BY <1>1
    <2>2. /\ a \in Seq(Line)
          /\ Len(a) = IF 1 <= n - 1 THEN ((n - 1) - 1) + 1 ELSE 0
          /\ \A i \in 1 .. ((n - 1) - 1) + 1 : a[i] = f[1 + (i - 1)]
        BY <2>1, SubSeqProperties
    <2>3. ((n - 1) - 1) + 1 = n - 1 /\ (~ 1 <= n - 1 => n - 1 = 0)
          /\ \A i \in 1 .. n - 1 : 1 + (i - 1) = i
        BY <1>1
    <2> HIDE DEF a
    <2> QED
        BY <2>2, <2>3
<1>3. /\ b \in Seq(Line) /\ Len(b) = Len(f) - n
      /\ \A i \in 1 .. Len(f) - n : b[i] = f[n + i]
    <2>1. /\ \A i \in n + 1 .. Len(f) : f[i] \in Line
          /\ n + 1 \in Int /\ Len(f) \in Int
        BY <1>1
    <2>2. /\ b \in Seq(Line)
          /\ Len(b) = IF n + 1 <= Len(f) THEN (Len(f) - (n + 1)) + 1 ELSE 0
          /\ \A i \in 1 .. (Len(f) - (n + 1)) + 1 : b[i] = f[(n + 1) + (i - 1)]
        BY <2>1, SubSeqProperties
    <2>3. (Len(f) - (n + 1)) + 1 = Len(f) - n /\ (~ n + 1 <= Len(f) => Len(f) - n = 0)
          /\ \A i \in 1 .. Len(f) - n : (n + 1) + (i - 1) = n + i
        BY <1>1
    <2> HIDE DEF b
    <2> QED
        BY <2>2, <2>3
<1> HIDE DEF a, b
<1>4. TakenOut(f, n) \in Seq(Line) /\ LinesOf(TakenOut(f, n)) = LinesOf(a) \cup LinesOf(b)
    <2>1. TakenOut(f, n) = a \o b
        BY DEF a, b, TakenOut
    <2>2. a \o b \in Seq(Line)
        BY <1>2, <1>3, Whole
    <2>3. LinesOf(a \o b) = LinesOf(a) \cup LinesOf(b)
        BY <1>2, <1>3, LinesOfConcat
    <2> QED
        BY ONLY <2>1, <2>2, <2>3
<1>5. ASSUME NEW i \in 1 .. Len(f), i # n PROVE f[i] \in LinesOf(TakenOut(f, n))
    <2>1. CASE i < n
        <3>1. i \in 1 .. n - 1
            BY <1>1, <2>1
        <3> QED
            BY <1>2, <1>4, <3>1 DEF LinesOf
    <2>2. CASE ~ i < n
        <3>1. i - n \in 1 .. Len(f) - n /\ n + (i - n) = i
            BY <1>1, <1>5, <2>2
        <3>2. b[i - n] = f[i] /\ i - n \in 1 .. Len(b)
            BY <1>3, <3>1
        <3> QED
            BY <1>4, <3>2 DEF LinesOf
    <2> QED
        BY <2>1, <2>2
<1>6. ASSUME NEW line \in LinesOf(TakenOut(f, n)) PROVE \E i \in 1 .. Len(f) : i # n /\ line = f[i]
    <2>1. CASE line \in LinesOf(a)
        <3>1. PICK i \in 1 .. n - 1 : line = f[i]
            BY <1>2, <2>1 DEF LinesOf
        <3>2. i \in 1 .. Len(f) /\ i # n
            BY <1>1
        <3> QED
            BY <3>1, <3>2
    <2>2. CASE line \in LinesOf(b)
        <3>1. PICK i \in 1 .. Len(f) - n : line = f[n + i]
            BY <1>3, <2>2 DEF LinesOf
        <3>2. n + i \in 1 .. Len(f) /\ n + i # n
            BY <1>1
        <3> QED
            BY <3>1, <3>2
    <2> QED
        BY <1>4, <2>1, <2>2
<1> QED
    BY <1>4, <1>5, <1>6

\* When no line is past the end, every file is read to its end.
LEMMA AllConsidered ==
    ASSUME NEW f \in Seq(Line), NEW start \in Nat, NEW end \in Nat,
           \A line \in LinesOf(f) : ~ line.seq > end
    PROVE  Considered(f, start, end) = f
BY DEF Considered, LinesOf

\* When any line but the last of an intact chain is missing, verifyChainIntegrity
\* fails: the entry after it carries a hash that no line read before it has.
THEOREM SiemLoss == SiemSpec => []LossDetected
<1>1. ASSUME SiemInv, OrderlyInv PROVE LossDetected
    <2> SUFFICES ASSUME crashes = 0, up, Drained,
                        NEW d \in Days, NEW n \in 1 .. Len(files[d]),
                        files[d][n].seq < sequenceNumber,
                        Verify(Without(d, n), 1, sequenceNumber)
                 PROVE  FALSE
        BY DEF LossDetected
    <2>0. /\ SiemTypeOK /\ files \in [Days -> Seq(Line)] /\ logged \in Nat
          /\ sequenceNumber = logged
        BY <1>1, DayTypes DEF SiemInv, SiemTypeOK, OrderlyInv, Orderly
    <2>1. PICK base : Counts(base, WholeDays, logged)
        BY <1>1 DEF OrderlyInv, Orderly
    <2>2. WholeDays = files
        <3>1. \A e \in Days : Written(e) = files[e]
            BY <2>0, WholeLength DEF Drained
        <3> QED
            BY <2>0, <3>1 DEF WholeDays
    <2>3. Counts(base, files, logged)
        BY <2>1, <2>2
    <2>4. ASSUME NEW e \in Days, NEW i \in 1 .. Len(files[e])
          PROVE  \E h \in 1 .. logged : Nth(files[e][i], h)
        <3>1. /\ base[e] \in Nat /\ base[e - 1] \in Nat /\ Len(files[e]) \in Nat
              /\ base[e] = base[e - 1] + Len(files[e]) /\ AllNth(files[e], base[e - 1])
            <4>1. Written(e) = files[e]
                BY <2>0, WholeLength DEF Drained
            <4> QED
                BY <2>0, <2>1, <4>1, OrderlyFiles
        <3>2. base[e] <= logged
            <4>1. e \in 0 .. MaxDay /\ MaxDay \in 0 .. MaxDay /\ e <= MaxDay
                BY DaysAre DEF Days
            <4> QED
                BY <2>1, <4>1 DEF Counts
        <3>3. Nth(files[e][i], base[e - 1] + i)
            BY <3>1 DEF AllNth
        <3>4. base[e - 1] + i \in 1 .. logged
            BY <2>0, <3>1, <3>2
        <3> QED
            BY <3>3, <3>4
    <2>5. PICK h \in 1 .. logged : Nth(files[d][n], h)
        BY <2>4
    <2>6. h < logged /\ h + 1 \in 1 .. logged /\ h \in Nat \ {0}
        BY <2>0, <2>5 DEF Nth
    <2>7. \E e \in Days : \E m \in 1 .. Len(files[e]) : Nth(files[e][m], h + 1)
        BY <2>0, <2>3, <2>6, PlaceOf
    <2>7a. PICK e \in Days : \E m \in 1 .. Len(files[e]) : Nth(files[e][m], h + 1)
        BY <2>7
    <2>7b. PICK m \in 1 .. Len(files[e]) : Nth(files[e][m], h + 1)
        BY <2>7a
    <2> DEFINE lines == Without(d, n)
    <2>8. /\ lines \in [Days -> Seq(Line)]
          /\ \A c \in Days \ {d} : lines[c] = files[c]
          /\ \A i \in 1 .. Len(files[d]) : i # n => files[d][i] \in LinesOf(lines[d])
          /\ \A line \in LinesOf(lines[d]) :
                 \E i \in 1 .. Len(files[d]) : i # n /\ line = files[d][i]
        <3>1. lines = [files EXCEPT ![d] = TakenOut(files[d], n)]
            BY DEF Without, TakenOut
        <3>2. PICK f \in Seq(Line) : f = files[d]
            BY <2>0
        <3>3. n \in 1 .. Len(f) /\ lines = [files EXCEPT ![d] = TakenOut(f, n)]
            BY ONLY <3>1, <3>2
        <3> HIDE DEF lines
        <3>4. /\ TakenOut(f, n) \in Seq(Line)
              /\ \A i \in 1 .. Len(f) : i # n => f[i] \in LinesOf(TakenOut(f, n))
              /\ \A line \in LinesOf(TakenOut(f, n)) :
                     \E i \in 1 .. Len(f) : i # n /\ line = f[i]
            BY <3>3, LineTakenOut
        <3>5. /\ lines \in [Days -> Seq(Line)] /\ lines[d] = TakenOut(f, n)
              /\ \A c \in Days \ {d} : lines[c] = files[c]
            BY <2>0, <3>3, <3>4
        <3> QED
            BY <3>2, <3>4, <3>5
    <2> HIDE DEF lines
    <2>9. \A c \in Days : \A line \in LinesOf(lines[c]) :
              \E i \in 1 .. Len(files[c]) : line = files[c][i] /\ (c = d => i # n)
        <3> SUFFICES ASSUME NEW c \in Days, NEW line \in LinesOf(lines[c])
                     PROVE  \E i \in 1 .. Len(files[c]) : line = files[c][i] /\ (c = d => i # n)
            OBVIOUS
        <3>1. CASE c = d
            <4>1. PICK i \in 1 .. Len(files[d]) : i # n /\ line = files[d][i]
                BY <2>8, <3>1
            <4> QED
                BY <3>1, <4>1
        <3>2. CASE c # d
            <4>1. line \in LinesOf(files[c])
                BY <2>8, <3>2
            <4> QED
                BY <3>2, <4>1 DEF LinesOf
        <3> QED
            BY <3>1, <3>2
    <2>10. lines = [c \in Days |-> Considered(lines[c], 1, sequenceNumber)]
        <3>1. ASSUME NEW c \in Days PROVE Considered(lines[c], 1, sequenceNumber) = lines[c]
            <4>1. ASSUME NEW line \in LinesOf(lines[c]) PROVE ~ line.seq > sequenceNumber
                <5>1. PICK i \in 1 .. Len(files[c]) : line = files[c][i]
                    BY <2>9
                <5>2. PICK k \in 1 .. logged : Nth(line, k)
                    BY <2>4, <5>1
                <5> QED
                    BY <2>0, <5>2 DEF Nth
            <4> QED
                BY <2>0, <2>8, <4>1, AllConsidered
        <3>2. lines = [c \in Days |-> lines[c]]
            BY <2>8
        <3> QED
            BY <3>1, <3>2
    <2>11. PICK W : Walks(W, lines, MaxDay) /\ Walk(lines, 1, sequenceNumber) = W[MaxDay]
        <3>1. lines \in [Days -> Seq(Line)] /\ 1 \in Nat /\ sequenceNumber \in Nat
            BY <2>0, <2>8
        <3> QED
            BY ONLY <2>10, <3>1, WalkIs
    <2> DEFINE walk == W[MaxDay]
    <2>12. walk \in Seq(Line) /\ Len(walk) \in Nat
        BY <2>11, DaysAre DEF Walks
    <2>13. files[e][m] \in LinesOf(walk)
        <3>1. ~ (e = d /\ m = n)
            BY <2>5, <2>6, <2>7b DEF Nth
        <3>2. files[e][m] \in LinesOf(lines[e])
            <4>1. CASE e = d
                <5>1. m # n /\ m \in 1 .. Len(files[d])
                    BY <3>1, <4>1
                <5>2. files[d][m] \in LinesOf(lines[d])
                    BY <2>8, <5>1
                <5> QED
                    BY <4>1, <5>2
            <4>2. CASE e # d
                <5>1. lines[e] = files[e]
                    BY <2>8, <4>2
                <5> QED
                    BY <5>1 DEF LinesOf
            <4> QED
                BY <4>1, <4>2
        <3>3. lines \in [Days -> Seq(Line)] /\ Walks(W, lines, MaxDay)
            BY <2>8, <2>11
        <3>4. LinesOf(lines[e]) \subseteq LinesOf(W[MaxDay])
            BY ONLY <3>3, WalkHas
        <3> QED
            BY <3>2, <3>4
    <2>14. PICK j \in 1 .. Len(walk) : Nth(walk[j], h + 1)
        BY <2>7b, <2>13 DEF LinesOf
    <2>15. Follows(walk, j)
        <3>1. walk[j].seq >= 1
            BY <2>6, <2>14 DEF Nth
        <3> QED
            BY <2>11, <3>1 DEF Verify, lines
    <2>16. walk[j].previous = h
        BY <2>6, <2>14 DEF Nth
    <2>17. j # 1 /\ walk[j - 1].hash = h
        BY <2>6, <2>15, <2>16 DEF Follows, Genesis
    <2>18. walk[j - 1] \in LinesOf(walk)
        <3>1. j - 1 \in 1 .. Len(walk)
            BY <2>12, <2>17
        <3> QED
            BY <3>1 DEF LinesOf
    <2>19. PICK c \in Days : walk[j - 1] \in LinesOf(lines[c])
        <3>1. lines \in [Days -> Seq(Line)] /\ Walks(W, lines, MaxDay)
            BY <2>8, <2>11
        <3>2. \A line \in LinesOf(W[MaxDay]) : \E c \in Days : line \in LinesOf(lines[c])
            BY ONLY <3>1, WalkHas
        <3> QED
            BY <2>18, <3>2
    <2>20. PICK i \in 1 .. Len(files[c]) : walk[j - 1] = files[c][i] /\ (c = d => i # n)
        BY <2>9, <2>19
    <2>21. files[c][i].hash = files[d][n].hash
        BY <2>5, <2>17, <2>20 DEF Nth
    <2>22. c = d /\ i = n
        BY <2>0, <2>3, <2>21, OnePlace
    <2> QED
        BY <2>20, <2>22
<1> QED
    BY <1>1, OrderlyHolds, PTL

=============================================================================
