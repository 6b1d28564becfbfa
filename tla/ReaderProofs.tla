---------------------------- MODULE ReaderProofs ----------------------------
(***************************************************************************)
(* What is read, of files of events and of JSON texts.                     *)
(*                                                                         *)
(* For any files, skips and depth of nested reads: which events a reader   *)
(* gives to its callbacks, where its pointer is, and what the documented   *)
(* loop of a consumer has read when it ends (IInv).                        *)
(*                                                                         *)
(* For any texts, values and widths of integers: what the lexer of json.h  *)
(* takes for a string or a number is one, and what its serializer writes   *)
(* is read as the same value (LexInv and DumpedOK).                        *)
(***************************************************************************)
EXTENDS EventReader, JsonLexer, FiniteSetTheorems, SequenceTheorems, WellFoundedInduction, TLAPS

TypeOK ==
  /\ doc \in EventFiles \cup {NoDoc, Partial}
  /\ cursor \in IF doc \in EventFiles THEN 0 .. Len(doc) ELSE {Null, Dangling}
  /\ reads \in Seq(Nat) /\ given \in Seq(Nat)
  /\ skipped \subseteq Nat /\ IsFiniteSet(skipped)
  /\ undefined \in BOOLEAN

\* As long as no callback loads a file, the pointer is past all that was skipped.
MovesOK ==
  doc \in EventFiles /\ "load" \notin nested /\ cursor > 0 =>
    /\ skipped \subseteq 1 .. cursor - 1
    /\ cursor = 1 + Cardinality(skipped) + Len(given) - Len(reads)

\* As long as no callback calls the reader, a read in progress is of the event
\* at the pointer, and only events that can be converted were given.
OrderOK ==
  doc \in EventFiles /\ nested = {} =>
    /\ reads = <<>> \/ (reads = <<cursor>> /\ cursor > 0)
    /\ \A i, j \in DOMAIN given : i < j => given[i] < given[j]
    /\ \A i \in Range(given) : doc[i] = "good"
    /\ Range(given) \cap skipped = {}
    /\ Accounted = IF cursor = Null THEN 1 .. Len(doc)
                   ELSE 1 .. (IF reads = <<>> THEN cursor - 1 ELSE cursor)

IInv == TypeOK /\ MovesOK /\ OrderOK
-----------------------------------------------------------------------------
\* A file is a sequence of its events, and no other document is one.
LEMMA Documents ==
  /\ NoDoc \notin EventFiles /\ Partial \notin EventFiles
  /\ \A d \in EventFiles : /\ d \in Seq({"good", "bad"}) /\ Len(d) \in Nat
                           /\ DOMAIN d = 1 .. Len(d) /\ (d = <<>> <=> Len(d) = 0)
                           /\ \A i \in 1 .. Len(d) : d[i] \in {"good", "bad"}
<1>1. /\ NoDoc \notin EventFiles /\ Partial \notin EventFiles
      /\ EventFiles \subseteq Seq({"good", "bad"})
  BY ReaderAssumption DEF ReaderAssumption
<1>2. ASSUME NEW d \in EventFiles
      PROVE  /\ d \in Seq({"good", "bad"}) /\ Len(d) \in Nat
             /\ DOMAIN d = 1 .. Len(d) /\ (d = <<>> <=> Len(d) = 0)
             /\ \A i \in 1 .. Len(d) : d[i] \in {"good", "bad"}
  <2>1. d \in Seq({"good", "bad"})
    BY <1>1
  <2>2. QED
    BY <2>1, LenProperties, EmptySeq, ElementOfSeq
<1>3. QED
  BY <1>1, <1>2

\* A call that only returns a status, or that crashes, keeps the invariant.
LEMMA StatusKeepsInv ==
  ASSUME IInv, UNCHANGED <<doc, cursor, reads, given, skipped, nested>>, undefined' \in BOOLEAN
  PROVE  IInv'
BY DEF IInv, TypeOK, MovesOK, OrderOK, Accounted

LEMMA CrashKeepsInv ==
  ASSUME IInv, Crashes
  PROVE  IInv'
<1>1. undefined' \in BOOLEAN /\ UNCHANGED <<doc, cursor, reads, given, skipped, nested>>
  BY DEF Crashes
<1>2. QED
  BY <1>1, StatusKeepsInv

\* A file that loads: the pointer is at its first event, if it has one.
LEMMA OpenDocumentKeepsInv ==
  ASSUME IInv, NEW d \in EventFiles, OpenDocument(d)
  PROVE  IInv'
<1>1. /\ doc' = d /\ cursor' = FirstEvent(d) /\ UNCHANGED <<reads, undefined>>
      /\ given' = <<>> /\ skipped' = {} /\ nested' = Nests("load")
  BY DEF OpenDocument, Forget, Returns
<1>2. Len(d) \in Nat /\ (d = <<>> <=> Len(d) = 0)
  BY Documents
<1>3. cursor' = IF Len(d) = 0 THEN 0 ELSE 1
  BY <1>1, <1>2 DEF FirstEvent, Null
<1>4. /\ given' \in Seq(Nat) /\ Len(given') = 0 /\ DOMAIN given' = {} /\ Range(given') = {}
      /\ IsFiniteSet(skipped') /\ Cardinality(skipped') = 0
  BY <1>1, EmptySeq, FS_EmptySet DEF Range
<1>5. TypeOK'
  <2>1. cursor' \in 0 .. Len(doc')
    BY <1>1, <1>2, <1>3
  <2>2. QED
    BY <1>1, <1>4, <2>1 DEF IInv, TypeOK
<1>6. "load" \notin nested' => reads = <<>> /\ nested' = {}
  BY <1>1 DEF Nests
<1>7. MovesOK'
  <2>1. SUFFICES ASSUME "load" \notin nested', cursor' > 0
                 PROVE  /\ skipped' \subseteq 1 .. cursor' - 1
                        /\ cursor' = 1 + Cardinality(skipped') + Len(given') - Len(reads')
    BY DEF MovesOK
  <2>2. cursor' = 1 /\ Len(reads') = 0
    BY <1>1, <1>2, <1>3, <1>6, <2>1, EmptySeq
  <2>3. QED
    BY <1>1, <1>4, <2>2
<1>8. OrderOK'
  <2>1. SUFFICES ASSUME nested' = {}
                 PROVE  /\ reads' = <<>>
                        /\ Accounted' = IF cursor' = Null THEN 1 .. Len(doc') ELSE 1 .. cursor' - 1
    BY <1>1, <1>4, <1>6 DEF OrderOK
  <2>2. reads' = <<>> /\ Accounted' = {}
    BY <1>1, <1>4, <1>6, <2>1 DEF Accounted
  <2>3. CASE Len(d) = 0
    <3>1. 1 .. Len(d) = {} /\ cursor' = Null
      BY <1>3, <2>3 DEF Null
    <3>2. QED
      BY <1>1, <2>2, <3>1
  <2>4. CASE Len(d) # 0
    <3>1. 1 .. cursor' - 1 = {} /\ cursor' # Null
      BY <1>3, <2>4 DEF Null
    <3>2. QED
      BY <2>2, <3>1
  <2>5. QED
    BY <2>3, <2>4
<1>9. QED
  BY <1>5, <1>7, <1>8 DEF IInv

\* A document that is closed, or that does not parse, leaves no pointer to use.
LEMMA UnloadKeepsInv ==
  ASSUME IInv, doc' \in {NoDoc, Partial}, cursor' = IF cursor = Null THEN Null ELSE Dangling,
         Forget("load"), UNCHANGED <<reads, undefined>>
  PROVE  IInv'
<1>1. doc' \notin EventFiles /\ cursor' \in {Null, Dangling}
  BY Documents
<1>2. given' \in Seq(Nat) /\ skipped' = {} /\ IsFiniteSet(skipped')
  BY EmptySeq, FS_EmptySet DEF Forget
<1>3. TypeOK'
  BY <1>1, <1>2 DEF IInv, TypeOK
<1>4. MovesOK' /\ OrderOK'
  BY <1>1 DEF MovesOK, OrderOK
<1>5. QED
  BY <1>3, <1>4 DEF IInv

LEMMA OpenKeepsInv ==
  ASSUME IInv, Open \/ Close
  PROVE  IInv'
<1>1. CASE \E d \in EventFiles : OpenDocument(d)
  BY <1>1, OpenDocumentKeepsInv
<1>2. CASE OpenMissing
  <2>1. undefined' \in BOOLEAN /\ UNCHANGED <<doc, cursor, reads, given, skipped, nested>>
    BY <1>2 DEF OpenMissing, Returns, IInv, TypeOK
  <2>2. QED
    BY <2>1, StatusKeepsInv
<1>3. CASE OpenMalformed
  BY <1>3, UnloadKeepsInv DEF OpenMalformed, Returns
<1>4. CASE OpenRootless
  BY <1>4, CrashKeepsInv DEF OpenRootless
<1>5. CASE Close
  BY <1>5, UnloadKeepsInv DEF Close, Returns
<1>6. QED
  BY <1>1, <1>2, <1>3, <1>4, <1>5 DEF Open

\* Where the pointer goes, and what it passes, when it moves n events forward.
LEMMA Skips ==
  ASSUME TypeOK, doc \in EventFiles, cursor > 0, NEW n \in Int, n # 0
  PROVE  LET to == SkipTo(n)
         IN  \/ to = Null /\ Passed(to) = cursor .. Len(doc)
             \/ /\ to \in cursor + 1 .. Len(doc) /\ Passed(to) = cursor .. to - 1
                /\ IsFiniteSet(Passed(to)) /\ Cardinality(Passed(to)) = to - cursor
<1>1. Len(doc) \in Nat /\ cursor \in 1 .. Len(doc)
  BY Documents DEF TypeOK
<1>2. CASE n < 0 \/ cursor + n > Len(doc)
  BY <1>2 DEF SkipTo, Passed, Null
<1>3. CASE ~(n < 0 \/ cursor + n > Len(doc))
  <2>1. PICK m \in cursor + 1 .. Len(doc) : m = cursor + n
    BY <1>1, <1>3
  <2>2. SkipTo(n) = m /\ m \in Int /\ m # Null
    BY <1>1, <1>3, <2>1 DEF SkipTo, Null
  <2>3. Passed(m) = cursor .. m - 1
    BY <2>2 DEF Passed
  <2>4. /\ IsFiniteSet(cursor .. m - 1)
        /\ Cardinality(cursor .. m - 1) = IF cursor <= m - 1 THEN (m - 1) - cursor + 1 ELSE 0
    <3>1. cursor \in Int /\ m - 1 \in Int
      BY <1>1, <2>2
    <3>2. QED
      BY <3>1, FS_Interval
  <2>5. (IF cursor <= m - 1 THEN (m - 1) - cursor + 1 ELSE 0) = m - cursor
    BY <1>1, <2>1
  <2>6. QED
    BY <2>1, <2>2, <2>3, <2>4, <2>5
<1>4. QED
  BY <1>2, <1>3

LEMMA SkipKeepsInv ==
  ASSUME IInv, NEW n \in Int, SkipNEvents(n)
  PROVE  IInv'
<1>1. CASE UNCHANGED <<doc, cursor, reads, given, skipped, nested>> /\ undefined' \in BOOLEAN
  BY <1>1, StatusKeepsInv
<1>2. CASE /\ n # 0 /\ cursor > 0 /\ cursor' = SkipTo(n)
           /\ skipped' = skipped \cup Passed(SkipTo(n))
           /\ nested' = nested \cup Nests("move")
           /\ UNCHANGED <<doc, reads, given, undefined>>
  <2> DEFINE to == SkipTo(n)
             P == Passed(to)
  <2>1. /\ TypeOK /\ MovesOK /\ OrderOK /\ doc \in EventFiles /\ Len(doc) \in Nat
        /\ cursor \in 1 .. Len(doc)
    BY <1>2, Documents DEF IInv, TypeOK, Null, Dangling
  <2>2. \/ to = Null /\ P = cursor .. Len(doc)
        \/ /\ to \in cursor + 1 .. Len(doc) /\ P = cursor .. to - 1
           /\ IsFiniteSet(P) /\ Cardinality(P) = to - cursor
    BY <1>2, <2>1, Skips
  <2> HIDE DEF to, P
  <2>3. cursor' = to /\ skipped' = skipped \cup P
    BY <1>2 DEF to, P
  <2>4. to \in 0 .. Len(doc) /\ P \subseteq Nat /\ IsFiniteSet(P)
    <3>1. IsFiniteSet(cursor .. Len(doc))
      BY <2>1, FS_Interval
    <3>2. QED
      BY <2>1, <2>2, <3>1 DEF Null
  <2>5. TypeOK'
    <3>1. skipped' \subseteq Nat /\ IsFiniteSet(skipped')
      BY <2>1, <2>3, <2>4, FS_Union DEF TypeOK
    <3>2. QED
      BY <1>2, <2>1, <2>3, <2>4, <3>1 DEF TypeOK
  <2>6. MovesOK'
    <3>1. SUFFICES ASSUME "load" \notin nested', cursor' > 0
                   PROVE  /\ skipped' \subseteq 1 .. cursor' - 1
                          /\ cursor' = 1 + Cardinality(skipped') + Len(given') - Len(reads')
      BY DEF MovesOK
    <3>2. /\ to \in cursor + 1 .. Len(doc) /\ P = cursor .. to - 1
          /\ IsFiniteSet(P) /\ Cardinality(P) = to - cursor
      BY <2>2, <2>3, <3>1 DEF Null
    <3>3. /\ skipped \subseteq 1 .. cursor - 1
          /\ cursor = 1 + Cardinality(skipped) + Len(given) - Len(reads)
      BY <1>2, <2>1, <3>1 DEF MovesOK
    <3>4. skipped \cap P = {}
      BY <2>1, <3>2, <3>3
    <3>5. /\ Cardinality(skipped \cap P) = 0 /\ IsFiniteSet(skipped)
          /\ Cardinality(skipped) \in Nat /\ Cardinality(P) \in Nat
      BY <2>1, <3>2, <3>4, FS_EmptySet, FS_CardinalityType DEF TypeOK
    <3>6. Cardinality(skipped') = Cardinality(skipped) + Cardinality(P)
      <4>1. /\ IsFiniteSet(skipped \union P)
            /\ Cardinality(skipped \union P)
                 = Cardinality(skipped) + Cardinality(P) - Cardinality(skipped \intersect P)
        BY <3>2, <3>5, FS_Union
      <4>2. skipped' = skipped \union P
        BY <2>3
      <4>3. QED
        BY <3>5, <4>1, <4>2
    <3>7. Len(given) \in Nat /\ Len(reads) \in Nat
      BY <2>1, LenProperties DEF TypeOK
    <3>8. cursor' = 1 + Cardinality(skipped') + Len(given') - Len(reads')
      <4>1. cursor' = to /\ Len(given') = Len(given) /\ Len(reads') = Len(reads)
        BY <1>2, <2>3
      <4>2. to = 1 + (Cardinality(skipped) + Cardinality(P)) + Len(given) - Len(reads)
        <5> DEFINE c == Cardinality(skipped)
                   p == Cardinality(P)
                   g == Len(given)
                   r == Len(reads)
        <5>1. /\ c \in Nat /\ p \in Nat /\ g \in Nat /\ r \in Nat /\ to \in Int /\ cursor \in Int
              /\ cursor = 1 + c + g - r /\ p = to - cursor
          BY <2>1, <3>2, <3>3, <3>5, <3>7
        <5> HIDE DEF c, p, g, r
        <5>2. to = 1 + (c + p) + g - r
          BY <5>1
        <5>3. QED
          BY <5>2 DEF c, p, g, r
      <4>3. QED
        BY <3>6, <4>1, <4>2
    <3>9. skipped' \subseteq 1 .. cursor' - 1
      <4>1. to \in Int /\ cursor \in Nat /\ cursor > 0 /\ to > cursor
        BY <2>1, <3>2
      <4>2. 1 .. cursor - 1 \subseteq 1 .. to - 1 /\ cursor .. to - 1 \subseteq 1 .. to - 1
        BY <4>1
      <4>3. QED
        BY <2>3, <3>2, <3>3, <4>2
    <3>10. QED
      BY <3>8, <3>9
  <2>7. OrderOK'
    <3>1. SUFFICES ASSUME nested' = {}
                   PROVE  /\ reads' = <<>>
                          /\ \A i, j \in DOMAIN given' : i < j => given'[i] < given'[j]
                          /\ \A i \in Range(given') : doc'[i] = "good"
                          /\ Range(given') \cap skipped' = {}
                          /\ Accounted' = IF cursor' = Null THEN 1 .. Len(doc') ELSE 1 .. cursor' - 1
      BY DEF OrderOK
    <3>2. reads = <<>> /\ nested = {}
      BY <1>2, <3>1 DEF Nests
    <3>3. /\ \A i, j \in DOMAIN given : i < j => given[i] < given[j]
          /\ \A i \in Range(given) : doc[i] = "good"
          /\ Range(given) \cap skipped = {}
          /\ Range(given) \cup skipped = 1 .. cursor - 1
      BY <2>1, <3>2 DEF OrderOK, Accounted, Null
    <3>4. P \cap (1 .. cursor - 1) = {}
      BY <2>1, <2>2
    <3>5. Range(given') \cap skipped' = {}
      BY <1>2, <2>3, <3>3, <3>4
    <3>6. Accounted' = (1 .. cursor - 1) \cup P
      BY <1>2, <2>3, <3>3 DEF Accounted
    <3>7. (1 .. cursor - 1) \cup P = IF to = Null THEN 1 .. Len(doc) ELSE 1 .. to - 1
      BY <2>1, <2>2 DEF Null
    <3>8. QED
      BY <1>2, <2>3, <3>2, <3>3, <3>5, <3>6, <3>7
  <2>8. QED
    BY <2>5, <2>6, <2>7 DEF IInv
<1>3. CASE n # 0 /\ cursor \in {Null, Dangling} /\ Crashes
  BY <1>3, CrashKeepsInv
<1>4. undefined \in BOOLEAN
  BY DEF IInv, TypeOK
<1>5. QED
  BY <1>1, <1>2, <1>3, <1>4 DEF SkipNEvents, Returns

\* The event at the pointer is given: it comes after all that was given before.
LEMMA ReadGoodKeepsInv ==
  ASSUME IInv, ReadGood
  PROVE  IInv'
<1>1. /\ cursor > 0 /\ doc[cursor] = "good"
      /\ reads' = Append(reads, cursor) /\ given' = Append(given, cursor)
      /\ nested' = nested \cup Nests("move")
      /\ UNCHANGED <<doc, cursor, skipped, undefined>>
  BY DEF ReadGood
<1>2. /\ TypeOK /\ MovesOK /\ OrderOK /\ doc \in EventFiles /\ Len(doc) \in Nat
      /\ cursor \in 1 .. Len(doc) /\ cursor \in Nat
  BY <1>1, Documents DEF IInv, TypeOK, Null, Dangling
<1>3. /\ reads \in Seq(Nat) /\ given \in Seq(Nat) /\ Len(reads) \in Nat /\ Len(given) \in Nat
      /\ DOMAIN given = 1 .. Len(given)
  BY <1>2, LenProperties DEF TypeOK
<1>4. /\ reads' \in Seq(Nat) /\ Len(reads') = Len(reads) + 1
      /\ given' \in Seq(Nat) /\ Len(given') = Len(given) + 1 /\ DOMAIN given' = 1 .. Len(given) + 1
      /\ \A i \in 1 .. Len(given) : given'[i] = given[i]
      /\ given'[Len(given) + 1] = cursor
  BY <1>1, <1>2, <1>3, AppendProperties, LenProperties
<1>5. Range(given') = Range(given) \cup {cursor}
  <2>1. \A i \in DOMAIN given' : i \in DOMAIN given \/ i = Len(given) + 1
    BY <1>3, <1>4
  <2>2. Len(given) + 1 \in DOMAIN given' /\ DOMAIN given \subseteq DOMAIN given'
    BY <1>3, <1>4
  <2>3. QED
    BY <1>3, <1>4, <2>1, <2>2 DEF Range
<1>6. TypeOK'
  BY <1>1, <1>2, <1>4 DEF TypeOK
<1>7. MovesOK'
  BY <1>1, <1>2, <1>3, <1>4 DEF MovesOK
<1>8. OrderOK'
  <2>1. SUFFICES ASSUME nested' = {}
                 PROVE  /\ reads' = <<cursor'>> /\ cursor' > 0
                        /\ \A i, j \in DOMAIN given' : i < j => given'[i] < given'[j]
                        /\ \A i \in Range(given') : doc'[i] = "good"
                        /\ Range(given') \cap skipped' = {}
                        /\ Accounted' = 1 .. cursor'
    BY <1>1, <1>2 DEF OrderOK, Null
  <2>2. reads = <<>> /\ nested = {}
    BY <1>1, <2>1 DEF Nests
  <2>3. reads' = <<cursor>>
    BY <1>1, <2>2
  <2>4. /\ \A i, j \in DOMAIN given : i < j => given[i] < given[j]
        /\ \A i \in Range(given) : doc[i] = "good"
        /\ Range(given) \cap skipped = {}
        /\ Range(given) \cup skipped = 1 .. cursor - 1
    BY <1>1, <1>2, <2>2 DEF OrderOK, Accounted, Null
  <2>5. cursor \notin 1 .. cursor - 1 /\ (1 .. cursor - 1) \cup {cursor} = 1 .. cursor
    BY <1>2
  <2>6. ASSUME NEW i \in DOMAIN given', NEW j \in DOMAIN given', i < j
        PROVE  given'[i] < given'[j]
    <3>1. i \in DOMAIN given /\ given'[i] = given[i]
      BY <1>3, <1>4, <2>6
    <3>2. given[i] \in 1 .. cursor - 1
      BY <2>4, <3>1 DEF Range
    <3>3. CASE j \in DOMAIN given
      BY <1>3, <1>4, <2>4, <2>6, <3>1, <3>3
    <3>4. CASE j = Len(given) + 1
      BY <1>2, <1>4, <3>1, <3>2, <3>4
    <3>5. QED
      BY <1>3, <1>4, <3>3, <3>4
  <2>7. Range(given') \cap skipped' = {} /\ Accounted' = 1 .. cursor
    BY <1>1, <1>5, <2>4, <2>5 DEF Accounted
  <2>8. QED
    BY <1>1, <1>5, <2>3, <2>4, <2>6, <2>7
<1>9. QED
  BY <1>6, <1>7, <1>8 DEF IInv

LEMMA EmissionEndsKeepsInv ==
  ASSUME IInv, EmissionEnds
  PROVE  IInv'
<1>1. CASE Crashes
  BY <1>1, CrashKeepsInv
<1>2. CASE /\ reads # <<>> /\ cursor > 0 /\ cursor' = Sibling(cursor)
           /\ reads' = SubSeq(reads, 1, Len(reads) - 1)
           /\ UNCHANGED <<doc, given, skipped, nested, undefined>>
  <2>1. /\ TypeOK /\ MovesOK /\ OrderOK /\ doc \in EventFiles /\ Len(doc) \in Nat
        /\ cursor \in 1 .. Len(doc)
    BY <1>2, Documents DEF IInv, TypeOK, Null, Dangling
  <2>2. reads \in Seq(Nat) /\ Len(reads) \in Nat \ {0} /\ Len(given) \in Nat
    BY <1>2, <2>1, LenProperties, EmptySeq DEF TypeOK
  <2>3. reads' \in Seq(Nat) /\ Len(reads') = Len(reads) - 1
    <3> DEFINE n == Len(reads)
    <3>1. n \in Nat /\ 1 \in 1 .. n + 1 /\ n - 1 \in 1 - 1 .. n
      BY <2>2
    <3>2. /\ SubSeq(reads, 1, n - 1) \in Seq(Nat)
          /\ Len(SubSeq(reads, 1, n - 1)) = IF 1 <= n - 1 THEN (n - 1) - 1 + 1 ELSE 0
      BY <2>2, <3>1, SubSeqProperties
    <3> HIDE DEF n
    <3>3. (IF 1 <= n - 1 THEN (n - 1) - 1 + 1 ELSE 0) = n - 1
      BY <3>1
    <3>4. QED
      BY <1>2, <3>2, <3>3 DEF n
  <2>4. cursor' = IF cursor < Len(doc) THEN cursor + 1 ELSE 0
    BY <1>2 DEF Sibling, Null
  <2>5. TypeOK'
    <3>1. cursor' \in 0 .. Len(doc)
      BY <2>1, <2>4
    <3>2. QED
      BY <1>2, <2>1, <2>3, <3>1 DEF TypeOK
  <2>6. MovesOK'
    <3>1. SUFFICES ASSUME "load" \notin nested, cursor' > 0
                   PROVE  /\ skipped \subseteq 1 .. cursor' - 1
                          /\ cursor' = 1 + Cardinality(skipped) + Len(given) - Len(reads')
      BY <1>2 DEF MovesOK
    <3>2. cursor' = cursor + 1
      BY <2>4, <3>1
    <3>3. /\ skipped \subseteq 1 .. cursor - 1
          /\ cursor = 1 + Cardinality(skipped) + Len(given) - Len(reads)
      BY <1>2, <2>1, <3>1 DEF MovesOK
    <3>4. Cardinality(skipped) \in Nat
      BY <2>1, FS_CardinalityType DEF TypeOK
    <3>5. skipped \subseteq 1 .. cursor' - 1
      BY <2>1, <3>2, <3>3
    <3>6. QED
      BY <2>1, <2>2, <2>3, <3>2, <3>3, <3>4, <3>5
  <2>7. OrderOK'
    <3>1. SUFFICES ASSUME nested = {}
                   PROVE  OrderOK'
      BY <1>2 DEF OrderOK
    <3>2. /\ reads = <<cursor>>
          /\ \A i, j \in DOMAIN given : i < j => given[i] < given[j]
          /\ \A i \in Range(given) : doc[i] = "good"
          /\ Range(given) \cap skipped = {}
          /\ Accounted = 1 .. cursor
      BY <1>2, <2>1, <3>1 DEF OrderOK, Null
    <3>3. reads' = <<>>
      <4>1. Len(reads) = 1
        BY <3>2
      <4>2. QED
        BY <2>3, <4>1, EmptySeq
    <3>4. Accounted' = IF cursor' = Null THEN 1 .. Len(doc) ELSE 1 .. cursor' - 1
      <4>1. Accounted' = 1 .. cursor
        BY <1>2, <3>2 DEF Accounted
      <4>2. 1 .. cursor = IF cursor' = 0 THEN 1 .. Len(doc) ELSE 1 .. cursor' - 1
        BY <2>1, <2>4
      <4>3. QED
        BY <4>1, <4>2 DEF Null
    <3>5. QED
      BY <1>2, <3>2, <3>3, <3>4 DEF OrderOK
  <2>8. QED
    BY <2>5, <2>6, <2>7 DEF IInv
<1>3. QED
  BY <1>1, <1>2 DEF EmissionEnds, Returns

LEMMA ReaderKeepsInv ==
  ASSUME IInv, ReaderNext
  PROVE  IInv'
<1> undefined \in BOOLEAN
  BY DEF IInv, TypeOK
<1>1. CASE Open \/ Close
  BY <1>1, OpenKeepsInv
<1>2. CASE RunInfo
  <2>1. CASE Crashes
    BY <2>1, CrashKeepsInv
  <2>2. CASE ~Crashes
    <3>1. undefined' \in BOOLEAN /\ UNCHANGED <<doc, cursor, reads, given, skipped, nested>>
      BY <1>2, <2>2 DEF RunInfo, Returns
    <3>2. QED
      BY <3>1, StatusKeepsInv
  <2>3. QED
    BY <2>1, <2>2
<1>3. CASE \E n \in SkipCounts : SkipNEvents(n)
  <2>1. SkipCounts \subseteq Int
    BY ReaderAssumption DEF ReaderAssumption
  <2>2. QED
    BY <1>3, <2>1, SkipKeepsInv
<1>4. CASE ReadNextEvent
  <2>1. CASE ReadAtEnd \/ ReadBad
    <3>1. undefined' \in BOOLEAN /\ UNCHANGED <<doc, cursor, reads, given, skipped, nested>>
      BY <2>1 DEF ReadAtEnd, ReadBad, Returns
    <3>2. QED
      BY <3>1, StatusKeepsInv
  <2>2. CASE ReadDangling
    BY <2>2, CrashKeepsInv DEF ReadDangling
  <2>3. CASE ReadGood
    BY <2>3, ReadGoodKeepsInv
  <2>4. QED
    BY <1>4, <2>1, <2>2, <2>3 DEF ReadNextEvent
<1>5. CASE EmissionEnds
  BY <1>5, EmissionEndsKeepsInv
<1>6. QED
  BY <1>1, <1>2, <1>3, <1>4, <1>5 DEF ReaderNext

LEMMA InvStutter ==
  ASSUME IInv, UNCHANGED readerVars
  PROVE  IInv'
<1>1. undefined' \in BOOLEAN /\ UNCHANGED <<doc, cursor, reads, given, skipped, nested>>
  BY DEF readerVars, IInv, TypeOK
<1>2. QED
  BY <1>1, StatusKeepsInv

LEMMA InitInv ==
  ASSUME ReaderInit
  PROVE  IInv
<1>1. doc = NoDoc /\ cursor = Null /\ reads = <<>> /\ given = <<>> /\ skipped = {} /\ undefined = FALSE
  BY DEF ReaderInit
<1>2. doc \notin EventFiles
  BY <1>1, Documents
<1>3. reads \in Seq(Nat) /\ given \in Seq(Nat) /\ IsFiniteSet(skipped) /\ skipped \subseteq Nat
  BY <1>1, EmptySeq, FS_EmptySet
<1>4. TypeOK
  BY <1>1, <1>2, <1>3 DEF TypeOK
<1>5. QED
  BY <1>2, <1>4 DEF IInv, MovesOK, OrderOK

LEMMA InvGivesProperties ==
  ASSUME IInv
  PROVE  EventsAreGivenInOrder /\ MovesMatchEvents
<1>1. MovesMatchEvents
  BY DEF IInv, MovesOK, MovesMatchEvents
<1>2. EventsAreGivenInOrder
  <2>1. SUFFICES ASSUME doc \in EventFiles, nested = {}
                 PROVE  /\ \A i, j \in DOMAIN given : i < j => given[i] < given[j]
                        /\ Range(given) \cap skipped = {}
                        /\ Accounted = IF cursor = Null THEN DOMAIN doc
                                       ELSE 1 .. (IF reads = <<>> THEN cursor - 1 ELSE cursor)
    BY DEF EventsAreGivenInOrder
  <2>2. DOMAIN doc = 1 .. Len(doc)
    BY <2>1, Documents
  <2>3. QED
    BY <2>1, <2>2 DEF IInv, OrderOK
<1>3. QED
  BY <1>1, <1>2
-----------------------------------------------------------------------------
\* The pointer of a reader never leaves its document, and what was given and
\* skipped is what it has passed, for any use of the reader by its callers and
\* by its callbacks (GenericEventXMLReader.cc:57-193).
THEOREM ReaderInvariant == ReaderSpec => []IInv
<1>1. ReaderInit => IInv
  BY InitInv
<1>2. IInv /\ [ReaderNext]_readerVars => IInv'
  BY ReaderKeepsInv, InvStutter
<1>3. QED
  BY <1>1, <1>2, PTL DEF ReaderSpec

\* For any files, as long as no callback calls the reader, each event is given
\* once and in the order of the file, or skipped (readNextEvent(), skipNEvents()).
THEOREM ReaderGivesInOrder == ReaderSpec => []EventsAreGivenInOrder
BY ReaderInvariant, InvGivesProperties, PTL

\* For any numbers of events to skip and any depth of reads nested in callbacks,
\* the pointer moves by one for each event given or skipped.
THEOREM ReaderMovesWithEvents == ReaderSpec => []MovesMatchEvents
BY ReaderInvariant, InvGivesProperties, PTL
-----------------------------------------------------------------------------
(* The documented loop.                                                    *)

\* The events between the pointer that open() left and where the reader stands.
Seen == opened .. (IF cursor = Null THEN Len(doc)
                   ELSE IF pc = "callbacks" THEN cursor ELSE cursor - 1)

GotOK ==
  /\ got \in Seq(Nat)
  /\ \A i, j \in DOMAIN got : i < j => got[i] < got[j]
  /\ \A i \in Range(got) : i \in Seen /\ doc[i] = "good"
  /\ Seen \ Range(got) \subseteq skipped

StandsAtAnEnd ==
  IF cursor = Null THEN status = "OUT_OF_RANGE"
                   ELSE status = "FAILURE" /\ doc[cursor] = "bad"

\* Once the loop has begun, a read is in progress exactly while callbacks run; a
\* pointer that open() left null or dangling stays so, and nothing is given; any
\* other one moves on over the events given and skipped.
LoopInv ==
  /\ pc \in {"free", "skip", "read", "callbacks", "done"}
  /\ pc = "free" => got = <<>>
  /\ pc # "free" /\ undefined => opened \in {Null, Dangling}
  /\ pc # "free" /\ ~undefined =>
       /\ IF pc = "callbacks" THEN reads = <<cursor>> /\ cursor > 0 ELSE reads = <<>>
       /\ pc = "skip" => cursor = opened /\ got = <<>>
       /\ pc = "done" => StandsAtAnEnd
       /\ \/ opened = Null /\ cursor = Null /\ got = <<>>
          \/ opened = Dangling /\ cursor = Dangling /\ pc # "done"
          \/ /\ doc \in EventFiles /\ opened \in 1 .. Len(doc) /\ GotOK
             /\ cursor = Null \/ opened <= cursor

LEMMA LoopStepIsReaderStep ==
  ASSUME [LoopNext]_loopVars
  PROVE  [ReaderNext]_readerVars
<1>1. CASE UsesFreely
  BY <1>1 DEF UsesFreely
<1>2. CASE ConsumerOpens
  BY <1>2 DEF ConsumerOpens, ReaderNext
<1>3. CASE InTheLoop
  BY <1>3 DEF InTheLoop, ConsumerSkips, ConsumerReads, CallbacksReturn, ReaderNext
<1>4. CASE UNCHANGED loopVars
  BY <1>4 DEF loopVars, readerVars
<1>5. QED
  BY <1>1, <1>2, <1>3, <1>4 DEF LoopNext

\* The pointer is null, dangling, or at an event of a file.
LEMMA Pointers ==
  ASSUME IInv
  PROVE  /\ \/ cursor = Null
            \/ cursor = Dangling /\ doc \notin EventFiles
            \/ doc \in EventFiles /\ cursor \in 1 .. Len(doc)
         /\ doc \in EventFiles => Len(doc) \in Nat
<1>1. cursor \in IF doc \in EventFiles THEN 0 .. Len(doc) ELSE {Null, Dangling}
  BY DEF IInv, TypeOK
<1>2. doc \in EventFiles => Len(doc) \in Nat
  BY Documents
<1>3. QED
  BY <1>1, <1>2 DEF Null, Dangling

LEMMA Increases ==
  ASSUME NEW s \in Seq(Nat), NEW m \in Nat, \A i \in Range(s) : i < m,
         \A i, j \in DOMAIN s : i < j => s[i] < s[j]
  PROVE  /\ Append(s, m) \in Seq(Nat) /\ Range(Append(s, m)) = Range(s) \union {m}
         /\ \A i, j \in DOMAIN Append(s, m) : i < j => Append(s, m)[i] < Append(s, m)[j]
<1> DEFINE t == Append(s, m)
<1>1. /\ t \in Seq(Nat) /\ Len(s) \in Nat /\ DOMAIN s = 1 .. Len(s)
      /\ DOMAIN t = 1 .. Len(s) + 1
      /\ \A i \in 1 .. Len(s) : t[i] = s[i]
      /\ t[Len(s) + 1] = m
  BY AppendProperties, LenProperties
<1> HIDE DEF t
<1>2. \A i \in 1 .. Len(s) : s[i] \in Range(s)
  BY <1>1 DEF Range
<1>3. Range(t) = Range(s) \union {m}
  <2>1. \A x \in Range(t) : x \in Range(s) \union {m}
    <3>1. \A i \in 1 .. Len(s) + 1 : i \in 1 .. Len(s) \/ i = Len(s) + 1
      BY <1>1
    <3>2. QED
      BY <1>1, <1>2, <3>1 DEF Range
  <2>2. \A x \in Range(s) : x \in Range(t)
    <3>1. \A i \in 1 .. Len(s) : i \in 1 .. Len(s) + 1
      BY <1>1
    <3>2. QED
      BY <1>1, <3>1 DEF Range
  <2>3. m \in Range(t)
    <3>1. Len(s) + 1 \in 1 .. Len(s) + 1
      BY <1>1
    <3>2. QED
      BY <1>1, <3>1 DEF Range
  <2>4. QED
    BY <2>1, <2>2, <2>3
<1>4. ASSUME NEW i \in 1 .. Len(s) + 1, NEW j \in 1 .. Len(s) + 1, i < j
      PROVE  t[i] < t[j]
  <2>1. i \in 1 .. Len(s)
    BY <1>1, <1>4
  <2>2. CASE j = Len(s) + 1
    BY <1>1, <1>2, <2>1, <2>2
  <2>3. CASE j \in 1 .. Len(s)
    BY <1>1, <1>4, <2>1, <2>3
  <2>4. QED
    BY <1>1, <2>2, <2>3
<1>5. QED
  BY <1>1, <1>3, <1>4 DEF t

LEMMA OpensStep ==
  ASSUME IInv, IInv', LoopInv, ConsumerOpens
  PROVE  LoopInv'
<1>1. /\ got = <<>> /\ got' = <<>> /\ opened' = cursor' /\ reads' = <<>>
      /\ pc' = IF undefined' THEN "free" ELSE "skip"
  BY DEF ConsumerOpens, LoopInv, Open, OpenDocument, OpenMissing, OpenMalformed,
     OpenRootless, Crashes
<1>2. \/ cursor' = Null
      \/ cursor' = Dangling
      \/ doc' \in EventFiles /\ cursor' \in 1 .. Len(doc') /\ Len(doc') \in Nat
  <2>1. /\ doc' \in EventFiles \cup {NoDoc, Partial}
        /\ cursor' \in IF doc' \in EventFiles THEN 0 .. Len(doc') ELSE {Null, Dangling}
    BY DEF IInv, TypeOK
  <2>2. doc' \in EventFiles => Len(doc') \in Nat
    BY Documents
  <2>3. QED
    BY <2>1, <2>2 DEF Null, Dangling
<1>3. ASSUME doc' \in EventFiles, cursor' \in 1 .. Len(doc'), Len(doc') \in Nat, pc' = "skip"
      PROVE  GotOK'
  <2>1. Seen' = {}
    BY <1>1, <1>3 DEF Seen, Null
  <2>2. Range(got') = {}
    BY <1>1 DEF Range
  <2>3. QED
    BY <1>1, <2>1, <2>2 DEF GotOK
<1>4. QED
  BY <1>1, <1>2, <1>3 DEF LoopInv

LEMMA SkipsStep ==
  ASSUME IInv, LoopInv, ~undefined, ConsumerSkips
  PROVE  LoopInv'
<1>1. PICK n \in SkipCounts : n >= 0 /\ SkipNEvents(n)
  BY DEF ConsumerSkips
<1>2. /\ pc = "skip" /\ pc' = "read" /\ opened' = opened /\ got' = got
      /\ cursor = opened /\ got = <<>> /\ reads = <<>> /\ n \in Int
  BY ReaderAssumption DEF ConsumerSkips, LoopInv, ReaderAssumption
<1>3. CASE n = 0
  <2>1. UNCHANGED <<doc, cursor, reads, skipped, undefined>>
    BY <1>1, <1>3 DEF SkipNEvents, Returns
  <2>2. Seen' = Seen
    BY <1>2, <2>1 DEF Seen
  <2>3. GotOK' <=> GotOK
    BY <1>2, <2>1, <2>2 DEF GotOK
  <2>4. QED
    BY <1>2, <2>1, <2>3 DEF LoopInv
<1>4. CASE n # 0 /\ cursor \in {Null, Dangling}
  <2>1. ~(cursor > 0)
    BY <1>4 DEF Null, Dangling
  <2>2. opened' \in {Null, Dangling} /\ undefined'
    BY <1>1, <1>2, <1>4, <2>1 DEF SkipNEvents, Crashes
  <2>3. QED
    BY <1>2, <2>2 DEF LoopInv
<1>5. CASE n # 0 /\ cursor \notin {Null, Dangling}
  <2>1. doc \in EventFiles /\ cursor \in 1 .. Len(doc) /\ Len(doc) \in Nat
    BY <1>5, Pointers
  <2>2. /\ cursor' = SkipTo(n) /\ skipped' = skipped \cup Passed(SkipTo(n))
        /\ UNCHANGED <<doc, reads, undefined>>
    BY <1>1, <1>5 DEF SkipNEvents, Returns
  <2>3. Seen' = Passed(SkipTo(n))
    BY <1>2, <2>2 DEF Seen, Passed
  <2>4. Range(got') = {}
    BY <1>2 DEF Range
  <2>5. GotOK'
    BY <1>2, <2>2, <2>3, <2>4 DEF GotOK
  <2>6. cursor' = Null \/ opened' <= cursor'
    BY <1>1, <1>2, <2>1, <2>2 DEF SkipTo
  <2>7. opened' \in 1 .. Len(doc')
    BY <1>2, <2>1, <2>2
  <2>8. QED
    BY <1>2, <2>1, <2>2, <2>5, <2>6, <2>7 DEF LoopInv
<1>6. QED
  BY <1>3, <1>4, <1>5

LEMMA ReadsStep ==
  ASSUME IInv, LoopInv, ~undefined, ConsumerReads
  PROVE  LoopInv'
<1>1. /\ pc = "read" /\ reads = <<>> /\ opened' = opened /\ ReadNextEvent
      /\ got' = IF reads' # <<>> THEN Append(got, cursor) ELSE got
      /\ pc' = IF reads' # <<>> THEN "callbacks"
               ELSE IF status' = "SUCCESS" THEN "read" ELSE "done"
  BY DEF ConsumerReads, LoopInv
<1>2. CASE ReadAtEnd
  <2>1. /\ status' = "OUT_OF_RANGE" /\ cursor = Null /\ cursor' = cursor
        /\ UNCHANGED <<doc, reads, skipped, undefined>>
    BY <1>2 DEF ReadAtEnd, Returns
  <2>2. pc' = "done" /\ got' = got /\ StandsAtAnEnd'
    BY <1>1, <2>1 DEF StandsAtAnEnd
  <2>3. Seen' = Seen
    BY <1>1, <2>1, <2>2 DEF Seen
  <2>4. GotOK' <=> GotOK
    BY <1>1, <2>1, <2>2, <2>3 DEF GotOK
  <2>5. cursor # Dangling
    BY <2>1 DEF Null, Dangling
  <2>6. QED
    BY <1>1, <2>1, <2>2, <2>4, <2>5 DEF LoopInv
<1>3. CASE ReadDangling
  <2>1. cursor = Dangling /\ undefined' /\ reads' = reads
    BY <1>3 DEF ReadDangling, Crashes
  <2>2. ~(doc \in EventFiles) /\ cursor # Null
    BY <2>1, Pointers DEF Dangling, Null
  <2>3. opened' \in {Null, Dangling} /\ pc' \in {"read", "done"}
    BY <1>1, <2>1, <2>2 DEF LoopInv
  <2>4. QED
    BY <2>1, <2>3 DEF LoopInv
<1>4. CASE ReadBad \/ ReadGood
  <2>1. cursor > 0
    BY <1>4 DEF ReadBad, ReadGood
  <2>2. cursor # Null /\ cursor # Dangling
    BY <2>1 DEF Null, Dangling
  <2>3. /\ doc \in EventFiles /\ opened \in 1 .. Len(doc) /\ GotOK
        /\ cursor \in 1 .. Len(doc) /\ Len(doc) \in Nat
    BY <1>1, <2>2, Pointers DEF LoopInv
  <2>4. Seen = opened .. cursor - 1
    BY <1>1, <2>2 DEF Seen
  <2>5. CASE ReadBad
    <3>1. /\ status' = "FAILURE" /\ doc[cursor] = "bad"
          /\ UNCHANGED <<doc, cursor, reads, skipped, undefined>>
      BY <2>5 DEF ReadBad, Returns
    <3>2. pc' = "done" /\ got' = got /\ StandsAtAnEnd'
      BY <1>1, <2>2, <3>1 DEF StandsAtAnEnd
    <3>3. Seen' = Seen
      BY <1>1, <3>1, <3>2 DEF Seen
    <3>4. GotOK'
      BY <2>3, <3>1, <3>2, <3>3 DEF GotOK
    <3>5. QED
      BY <1>1, <2>3, <3>1, <3>2, <3>4 DEF LoopInv
  <2>6. CASE ReadGood
    <3>1. /\ reads' = Append(reads, cursor) /\ doc[cursor] = "good"
          /\ UNCHANGED <<doc, cursor, skipped, undefined>>
      BY <2>6 DEF ReadGood
    <3>2. reads' = <<cursor>> /\ reads' # <<>>
      BY <1>1, <3>1
    <3>3. pc' = "callbacks" /\ got' = Append(got, cursor)
      BY <1>1, <3>2
    <3>4. Seen' = opened .. cursor
      BY <1>1, <2>2, <3>1, <3>3 DEF Seen
    <3>5. got \in Seq(Nat) /\ cursor \in Nat /\ \A i \in Range(got) : i < cursor
      BY <2>3, <2>4 DEF GotOK
    <3>6. /\ got' \in Seq(Nat) /\ Range(got') = Range(got) \union {cursor}
          /\ \A i, j \in DOMAIN got' : i < j => got'[i] < got'[j]
      BY <2>3, <3>3, <3>5, Increases DEF GotOK
    <3>7. opened <= cursor
      BY <1>1, <2>2 DEF LoopInv
    <3>8. /\ \A i \in Range(got') : i \in Seen' /\ doc'[i] = "good"
          /\ Seen' \ Range(got') \subseteq skipped'
      BY <2>3, <2>4, <3>1, <3>4, <3>6, <3>7 DEF GotOK
    <3>9. GotOK'
      BY <3>6, <3>8 DEF GotOK
    <3>10. QED
      BY <1>1, <2>1, <2>3, <3>1, <3>2, <3>3, <3>9 DEF LoopInv
  <2>7. QED
    BY <1>4, <2>5, <2>6
<1>5. QED
  BY <1>1, <1>2, <1>3, <1>4 DEF ReadNextEvent

LEMMA CallbacksReturnStep ==
  ASSUME IInv, LoopInv, ~undefined, CallbacksReturn
  PROVE  LoopInv'
<1>1. /\ pc = "callbacks" /\ pc' = "read" /\ opened' = opened /\ got' = got
      /\ reads = <<cursor>> /\ cursor > 0 /\ EmissionEnds
  BY DEF CallbacksReturn, LoopInv
<1>2. ~(cursor \in {Null, Dangling})
  BY <1>1 DEF Null, Dangling
<1>3. /\ cursor' = Sibling(cursor) /\ reads' = SubSeq(reads, 1, Len(reads) - 1)
      /\ UNCHANGED <<doc, skipped, undefined>>
  BY <1>1, <1>2 DEF EmissionEnds, Returns
<1>4. /\ doc \in EventFiles /\ opened \in 1 .. Len(doc) /\ GotOK
      /\ cursor \in 1 .. Len(doc) /\ Len(doc) \in Nat
  BY <1>1, <1>2, Pointers DEF LoopInv
<1>5. reads' = <<>>
  <2>1. Len(reads) - 1 < 1 /\ Len(reads) - 1 \in Int
    BY <1>1
  <2>2. QED
    BY <1>3, <2>1, SubSeqEmpty
<1>6. Seen' = Seen
  <2>1. Seen = opened .. cursor
    BY <1>1, <1>2 DEF Seen
  <2>2. Seen' = opened .. (IF Sibling(cursor) = Null THEN Len(doc) ELSE Sibling(cursor) - 1)
    BY <1>1, <1>3 DEF Seen
  <2>3. (IF Sibling(cursor) = Null THEN Len(doc) ELSE Sibling(cursor) - 1) = cursor
    BY <1>4 DEF Sibling, Null
  <2>4. QED
    BY <2>1, <2>2, <2>3
<1>7. GotOK'
  BY <1>1, <1>3, <1>4, <1>6 DEF GotOK
<1>8. cursor' = Null \/ opened' <= cursor'
  <2>1. opened <= cursor
    BY <1>1, <1>2 DEF LoopInv
  <2>2. QED
    BY <1>1, <1>3, <1>4, <2>1 DEF Sibling
<1>9. QED
  BY <1>1, <1>3, <1>4, <1>5, <1>7, <1>8 DEF LoopInv

LEMMA LoopStep ==
  ASSUME IInv, IInv', LoopInv, [LoopNext]_loopVars
  PROVE  LoopInv'
<1>1. CASE UsesFreely
  BY <1>1 DEF UsesFreely, consumer, LoopInv
<1>2. CASE ConsumerOpens
  BY <1>2, OpensStep
<1>3. CASE InTheLoop
  BY <1>3, SkipsStep, ReadsStep, CallbacksReturnStep DEF InTheLoop
<1>4. CASE UNCHANGED loopVars
  <2>1. UNCHANGED <<doc, cursor, reads, skipped, status, undefined, pc, opened, got>>
    BY <1>4 DEF loopVars, consumer
  <2>2. Seen' = Seen
    BY <2>1 DEF Seen
  <2>3. (GotOK' <=> GotOK) /\ (StandsAtAnEnd' <=> StandsAtAnEnd)
    BY <2>1, <2>2 DEF GotOK, StandsAtAnEnd
  <2>4. QED
    BY <2>1, <2>3 DEF LoopInv
<1>5. QED
  BY <1>1, <1>2, <1>3, <1>4 DEF LoopNext

LEMMA LoopInvariant == LoopSpec => [](IInv /\ LoopInv)
<1>1. LoopInit => IInv /\ LoopInv
  BY InitInv DEF LoopInit, LoopInv
<1>2. IInv /\ LoopInv /\ [LoopNext]_loopVars => IInv' /\ LoopInv'
  BY LoopStepIsReaderStep, LoopStep, ReaderKeepsInv, InvStutter
<1>3. QED
  BY <1>1, <1>2, PTL DEF LoopSpec

\* A consumer, in the documented loop or before it, does nothing that a caller of
\* the reader may not do: what holds of the reader holds of its consumer.
THEOREM ConsumersOnlyUseTheReader == LoopSpec => ReaderSpec
<1>1. LoopInit => ReaderInit
  BY DEF LoopInit
<1>2. [LoopNext]_loopVars => [ReaderNext]_readerVars
  BY LoopStepIsReaderStep
<1>3. QED
  BY <1>1, <1>2, PTL DEF LoopSpec, ReaderSpec

\* Whatever open() returned and the reader was used for before, when the
\* documented loop (EventReader.h:45-62) ends it has given in order, or skipped,
\* what was between the pointer that open() left and where the reader stands, the
\* end or an event that cannot be read; and it follows a null or dangling pointer
\* only if open() left one.
THEOREM LoopReadsEverything ==
  LoopSpec => [](pc = "done" \/ (pc # "free" /\ undefined) => LoopOutcome)
<1>1. ASSUME LoopInv, pc = "done" \/ (pc # "free" /\ undefined)
      PROVE  LoopOutcome
  <2>1. CASE undefined
    BY <1>1, <2>1 DEF LoopInv, LoopOutcome
  <2>2. CASE ~undefined
    <3>1. /\ pc = "done" /\ StandsAtAnEnd
          /\ \/ opened = Null /\ cursor = Null /\ got = <<>>
             \/ opened # Null /\ GotOK
      BY <1>1, <2>2 DEF LoopInv, Null
    <3>2. Seen = opened .. (IF cursor = Null THEN Len(doc) ELSE cursor - 1)
      BY <3>1 DEF Seen
    <3>3. ReadsEverything
      BY <3>1, <3>2 DEF ReadsEverything, StandsAtAnEnd, GotOK
    <3>4. QED
      BY <3>1, <3>3 DEF LoopOutcome
  <2>3. QED
    BY <2>1, <2>2
<1>2. QED
  BY <1>1, LoopInvariant, PTL
-----------------------------------------------------------------------------
(* The tokens of JSON texts.                                               *)

\* Induction, from the order of the natural numbers being well-founded.
LEMMA Induction ==
  ASSUME NEW S, 0 \in S, \A n \in Nat : n \in S => n + 1 \in S
  PROVE  Nat \subseteq S
<1> DEFINE T == Nat \ S
           R == OpToRel(<, Nat)
<1> SUFFICES ASSUME T # {} PROVE FALSE
  OBVIOUS
<1>1. IsWellFoundedOn(R, Nat)
  BY NatLessThanWellFounded
<1>2. T \in SUBSET Nat
  OBVIOUS
<1> HIDE DEF R, T
<1>3. PICK n \in T : \A m \in T : <<m, n>> \notin R
  BY <1>1, <1>2, WFMin
<1>4. n # 0 /\ n \in Nat
  BY DEF T
<1>5. n - 1 \in Nat /\ <<n - 1, n>> \in R
  BY <1>4 DEF R, OpToRel
<1>6. n - 1 \in S
  BY <1>3, <1>5 DEF T
<1>7. (n - 1) + 1 = n
  BY <1>4
<1> QED BY <1>5, <1>6, <1>7 DEF T

\* Strong induction.
LEMMA StrongInduction ==
  ASSUME NEW S, \A n \in Nat : (\A m \in 0 .. n - 1 : m \in S) => n \in S
  PROVE  Nat \subseteq S
<1> DEFINE T == {n \in Nat : \A m \in 0 .. n - 1 : m \in S}
<1>1. 0 \in T
  OBVIOUS
<1>2. ASSUME NEW n \in Nat, n \in T PROVE n + 1 \in T
  <2>1. n \in S
    BY <1>2
  <2>2. ASSUME NEW m \in 0 .. (n + 1) - 1 PROVE m \in S
    <3>1. m = n \/ m \in 0 .. n - 1
      OBVIOUS
    <3> QED BY <1>2, <2>1, <3>1
  <2> QED BY <2>2
<1>3. Nat \subseteq T
  BY <1>1, <1>2, Induction
<1> QED BY <1>3

\* What a recursive definition does to a function whose value at i it tells
\* from the values below i.
LooksBelow(step, n, Z) ==
  /\ n \in Nat /\ Z # {} /\ step \in [[0 .. n -> Z] -> [0 .. n -> Z]]
  /\ \A f, g \in [0 .. n -> Z], i \in 0 .. n :
       (\A j \in 0 .. i - 1 : f[j] = g[j]) => step[f][i] = step[g][i]
IsFixed(f, step, n, Z) == f \in [0 .. n -> Z] /\ f = step[f]

LEMMA RecursionExists ==
  ASSUME NEW step, NEW n, NEW Z, LooksBelow(step, n, Z)
  PROVE  \E f : IsFixed(f, step, n, Z)
<1>a. /\ n \in Nat /\ Z # {} /\ step \in [[0 .. n -> Z] -> [0 .. n -> Z]]
      /\ \A f, g \in [0 .. n -> Z], i \in 0 .. n :
           (\A j \in 0 .. i - 1 : f[j] = g[j]) => step[f][i] = step[g][i]
  BY DEF LooksBelow
<1>b. PICK z : z \in Z
  BY <1>a
<1> DEFINE F == [0 .. n -> Z]
           S == {m \in Nat : \E f \in F : \A i \in 0 .. n : i < m => f[i] = step[f][i]}
<1>1. 0 \in S
  <2>1. [i \in 0 .. n |-> z] \in F
    BY <1>b
  <2>2. \A i \in 0 .. n : ~(i < 0)
    BY <1>a
  <2> HIDE DEF F
  <2> QED BY <2>1, <2>2
<1>2. ASSUME NEW m \in Nat, m \in S PROVE m + 1 \in S
  <2>1. PICK f \in F : \A i \in 0 .. n : i < m => f[i] = step[f][i]
    BY <1>2
  <2> DEFINE g == [f EXCEPT ![m] = step[f][m]]
  <2>2. CASE m > n
    BY <1>a, <2>1, <2>2
  <2>3. CASE m <= n
    <3>1. m \in 0 .. n /\ step[f] \in F
      BY <1>a, <2>3
    <3>2. g \in F
      BY <1>a, <3>1
    <3>3. \A i \in 0 .. n : i # m => g[i] = f[i]
      OBVIOUS
    <3>4. g[m] = step[f][m]
      BY <1>a, <3>1
    <3> HIDE DEF g
    <3>5. ASSUME NEW i \in 0 .. n, i < m + 1 PROVE g[i] = step[g][i]
      <4>1. \A j \in 0 .. i - 1 : j \in 0 .. n /\ j # m
        BY <1>a, <3>1, <3>5
      <4>2. step[g][i] = step[f][i]
        BY <1>a, <3>2, <3>3, <4>1
      <4>3. CASE i = m
        BY <3>4, <4>2, <4>3
      <4>4. CASE i # m
        <5>1. i < m
          BY <1>a, <3>1, <3>5, <4>4
        <5> QED BY <2>1, <3>3, <4>2, <4>4, <5>1
      <4> QED BY <4>3, <4>4
    <3>6. \A i \in 0 .. n : i < m + 1 => g[i] = step[g][i]
      BY <3>5
    <3> HIDE DEF F
    <3> QED BY <3>2, <3>6
  <2> HIDE DEF S
  <2> QED BY <1>a, <2>2, <2>3
<1>3. n + 1 \in S
  <2>1. Nat \subseteq S
    <3> HIDE DEF S
    <3> QED BY <1>1, <1>2, Induction
  <2> HIDE DEF S
  <2> QED BY <1>a, <2>1
<1>4. PICK f \in F : \A i \in 0 .. n : i < n + 1 => f[i] = step[f][i]
  BY <1>3
<1>5. \A i \in 0 .. n : f[i] = step[f][i]
  BY <1>a, <1>4
<1>6. step[f] \in F
  BY <1>a, <1>4
<1> HIDE DEF S
<1>7. f = step[f]
  <2>1. PICK g : g = step[f]
    OBVIOUS
  <2>2. f \in F /\ g \in F /\ \A i \in 0 .. n : f[i] = g[i]
    BY <1>5, <1>6, <2>1
  <2>3. f = [i \in 0 .. n |-> f[i]] /\ g = [i \in 0 .. n |-> g[i]]
    BY <2>2
  <2>4. [i \in 0 .. n |-> f[i]] = [i \in 0 .. n |-> g[i]]
    BY <2>2
  <2>5. f = g
    BY <2>3, <2>4, Zenon
  <2> QED BY <2>1, <2>5
<1> QED BY <1>4, <1>7 DEF IsFixed

\* A least element.
LEMMA MinFacts ==
  ASSUME NEW S \in SUBSET Nat, S # {}
  PROVE  Min(S) \in S /\ \A y \in S : Min(S) <= y
<1> DEFINE R == OpToRel(<, Nat)
<1>1. IsWellFoundedOn(R, Nat)
  BY NatLessThanWellFounded
<1>2. S \in SUBSET Nat
  OBVIOUS
<1> HIDE DEF R
<1>3. PICK n \in S : \A m \in S : <<m, n>> \notin R
  BY <1>1, <1>2, WFMin
<1>4. \A m \in S : n <= m
  <2>1. ASSUME NEW m \in S PROVE n <= m
    <3>1. m \in Nat /\ n \in Nat /\ <<m, n>> \notin R
      BY <1>3
    <3>2. ~(m < n)
      BY <3>1 DEF R, OpToRel
    <3> QED BY <3>1, <3>2
  <2> QED BY <2>1
<1> QED BY <1>4 DEF Min

\* The parts of two sequences put together.
LEMMA JoinFacts ==
  ASSUME NEW S, NEW s \in Seq(S), NEW t \in Seq(S)
  PROVE  /\ s \o t \in Seq(S) /\ Len(s \o t) = Len(s) + Len(t)
         /\ \A i \in 1 .. Len(s) : (s \o t)[i] = s[i]
         /\ \A i \in 1 .. Len(t) : (s \o t)[Len(s) + i] = t[i]
<1>1. /\ s \o t \in Seq(S) /\ Len(s \o t) = Len(s) + Len(t)
      /\ \A i \in 1 .. Len(s) + Len(t) : (s \o t)[i] = IF i <= Len(s) THEN s[i] ELSE t[i - Len(s)]
  BY ConcatProperties
<1>2. PICK m, n : m = Len(s) /\ n = Len(t)
  OBVIOUS
<1>3. m \in Nat /\ n \in Nat
  BY <1>2
<1>4. \A i \in 1 .. m : i \in 1 .. m + n /\ i <= m
  BY <1>3
<1>5. \A i \in 1 .. n : m + i \in 1 .. m + n /\ ~(m + i <= m) /\ (m + i) - m = i
  BY <1>3
<1> QED BY <1>1, <1>2, <1>4, <1>5
-----------------------------------------------------------------------------
DumpStart == [state |-> Accept, codep |-> 0, out |-> <<>>]
DumpStates == [state : 0 .. 8, codep : Nat, out : Seq(Octet)]

LEMMA ByteTypes ==
  ASSUME NEW b \in Octet
  PROVE  /\ ByteType(b) \in 0 .. 11
         /\ ByteType(b) = 0 <=> b < 128
         /\ ByteType(b) = 1 <=> b \in 128 .. 143
         /\ ByteType(b) = 9 <=> b \in 144 .. 159
         /\ ByteType(b) = 7 <=> b \in 160 .. 191
         /\ ByteType(b) = 2 <=> b \in 194 .. 223
         /\ ByteType(b) = 10 <=> b = 224
         /\ ByteType(b) = 4 <=> b = 237
         /\ ByteType(b) = 3 <=> b \in 225 .. 239 \ {237}
         /\ ByteType(b) = 11 <=> b = 240
         /\ ByteType(b) = 6 <=> b \in 241 .. 243
         /\ ByteType(b) = 5 <=> b = 244
<1>t. PICK t : t = ByteType(b)
  OBVIOUS
<1>1. CASE b < 128
  <2>1. t = 0
    BY <1>t, <1>1 DEF Octet, ByteType
  <2> QED BY <1>t, <1>1, <2>1 DEF Octet
<1>2. CASE b \in 128 .. 143
  <2>1. t = 1
    BY <1>t, <1>2 DEF Octet, ByteType
  <2> QED BY <1>t, <1>2, <2>1 DEF Octet
<1>3. CASE b \in 144 .. 159
  <2>1. t = 9
    BY <1>t, <1>3 DEF Octet, ByteType
  <2> QED BY <1>t, <1>3, <2>1 DEF Octet
<1>4. CASE b \in 160 .. 191
  <2>1. t = 7
    BY <1>t, <1>4 DEF Octet, ByteType
  <2> QED BY <1>t, <1>4, <2>1 DEF Octet
<1>5. CASE b \in 192 .. 193 \union 245 .. 255
  <2>1. t = 8
    BY <1>t, <1>5 DEF Octet, ByteType
  <2> QED BY <1>t, <1>5, <2>1 DEF Octet
<1>6. CASE b \in 194 .. 223
  <2>1. t = 2
    BY <1>t, <1>6 DEF Octet, ByteType
  <2> QED BY <1>t, <1>6, <2>1 DEF Octet
<1>7. CASE b \in 225 .. 239 \ {237}
  <2>1. t = 3
    BY <1>t, <1>7 DEF Octet, ByteType
  <2> QED BY <1>t, <1>7, <2>1 DEF Octet
<1>8. CASE b = 224
  <2>1. t = 10
    BY <1>t, <1>8 DEF Octet, ByteType
  <2> QED BY <1>t, <1>8, <2>1 DEF Octet
<1>9. CASE b = 237
  <2>1. t = 4
    BY <1>t, <1>9 DEF Octet, ByteType
  <2> QED BY <1>t, <1>9, <2>1 DEF Octet
<1>10. CASE b = 240
  <2>1. t = 11
    BY <1>t, <1>10 DEF Octet, ByteType
  <2> QED BY <1>t, <1>10, <2>1 DEF Octet
<1>11. CASE b = 244
  <2>1. t = 5
    BY <1>t, <1>11 DEF Octet, ByteType
  <2> QED BY <1>t, <1>11, <2>1 DEF Octet
<1>12. CASE b \in 241 .. 243
  <2>1. t = 6
    BY <1>t, <1>12 DEF Octet, ByteType
  <2> QED BY <1>t, <1>12, <2>1 DEF Octet
<1> QED BY <1>1, <1>2, <1>3, <1>4, <1>5, <1>6, <1>7, <1>8, <1>9, <1>10, <1>11, <1>12 DEF Octet

\* The first byte of a character.
LEMMA FirstSteps ==
  ASSUME NEW t \in 0 .. 11
  PROVE  /\ t = 0 => StateAfter(0, t) = 0
         /\ t \in {1, 7, 8, 9} => StateAfter(0, t) = 1
         /\ t = 2 => StateAfter(0, t) = 2
         /\ t = 3 => StateAfter(0, t) = 3
         /\ t = 4 => StateAfter(0, t) = 5
         /\ t = 5 => StateAfter(0, t) = 8
         /\ t = 6 => StateAfter(0, t) = 7
         /\ t = 10 => StateAfter(0, t) = 4
         /\ t = 11 => StateAfter(0, t) = 6
  BY DEF StateAfter

\* The bytes after it.
LEMMA NextSteps ==
  ASSUME NEW s \in 2 .. 8, NEW t \in 0 .. 11
  PROVE  StateAfter(s, t) =
           CASE s = 2 /\ t \in {1, 7, 9} -> 0
             [] s = 3 /\ t \in {1, 7, 9} -> 2
             [] s = 7 /\ t \in {1, 7, 9} -> 3
             [] s = 4 /\ t = 7 -> 2
             [] s = 5 /\ t \in {1, 9} -> 2
             [] s = 6 /\ t \in {7, 9} -> 3
             [] s = 8 /\ t = 1 -> 3
             [] OTHER -> 1
<1>1. CASE s = 2
  BY <1>1 DEF StateAfter, Reject
<1>2. CASE s = 3
  BY <1>2 DEF StateAfter, Reject
<1>3. CASE s = 4
  BY <1>3 DEF StateAfter, Reject
<1>4. CASE s = 5
  BY <1>4 DEF StateAfter, Reject
<1>5. CASE s = 6
  BY <1>5 DEF StateAfter, Reject
<1>6. CASE s = 7
  BY <1>6 DEF StateAfter, Reject
<1>7. CASE s = 8
  BY <1>7 DEF StateAfter, Reject
<1> QED BY <1>1, <1>2, <1>3, <1>4, <1>5, <1>6, <1>7

\* The state after a byte, by the ranges of bytes.
After(s, b) ==
  CASE s = 0 /\ b < 128 -> 0
    [] s = 0 /\ b \in 194 .. 223 -> 2
    [] s = 0 /\ b = 224 -> 4
    [] s = 0 /\ b \in 225 .. 239 \ {237} -> 3
    [] s = 0 /\ b = 237 -> 5
    [] s = 0 /\ b = 240 -> 6
    [] s = 0 /\ b \in 241 .. 243 -> 7
    [] s = 0 /\ b = 244 -> 8
    [] s = 2 /\ b \in 128 .. 191 -> 0
    [] s = 3 /\ b \in 128 .. 191 -> 2
    [] s = 7 /\ b \in 128 .. 191 -> 3
    [] s = 4 /\ b \in 160 .. 191 -> 2
    [] s = 5 /\ b \in 128 .. 159 -> 2
    [] s = 6 /\ b \in 144 .. 191 -> 3
    [] s = 8 /\ b \in 128 .. 143 -> 3
    [] OTHER -> 1

LEMMA Steps ==
  ASSUME NEW s \in 0 .. 8 \ {1}, NEW b \in Octet
  PROVE  StateAfter(s, ByteType(b)) = After(s, b) /\ After(s, b) \in 0 .. 8
<1>1. PICK t \in 0 .. 11 : t = ByteType(b)
  BY ByteTypes
<1>2. t \in {1, 7, 9} <=> b \in 128 .. 191
  BY <1>1, ByteTypes
<1>3. CASE s = 0
  BY <1>1, <1>3, FirstSteps, ByteTypes DEF After, Octet
<1>4. CASE s = 2
  BY <1>1, <1>2, <1>4, NextSteps DEF After
<1>5. CASE s = 3
  BY <1>1, <1>2, <1>5, NextSteps DEF After
<1>6. CASE s = 7
  BY <1>1, <1>2, <1>6, NextSteps DEF After
<1>7. CASE s = 4
  BY <1>1, <1>7, NextSteps, ByteTypes DEF After
<1>8. CASE s = 5
  BY <1>1, <1>8, NextSteps, ByteTypes DEF After
<1>9. CASE s = 6
  BY <1>1, <1>9, NextSteps, ByteTypes DEF After
<1>10. CASE s = 8
  BY <1>1, <1>10, NextSteps, ByteTypes DEF After
<1> QED BY <1>3, <1>4, <1>5, <1>6, <1>7, <1>8, <1>9, <1>10

LEMMA BitsOfFirst ==
  ASSUME NEW b \in Octet
  PROVE  /\ FirstBits(b, ByteType(b)) \in Nat
         /\ b < 128 => FirstBits(b, ByteType(b)) = b
         /\ b \in 194 .. 223 => FirstBits(b, ByteType(b)) = b - 192
         /\ b \in 224 .. 239 => FirstBits(b, ByteType(b)) = b - 224
         /\ b \in 240 .. 244 => FirstBits(b, ByteType(b)) = b - 240
<1>1. PICK t \in 0 .. 11 : t = ByteType(b)
  BY ByteTypes
<1>2. t <= 8 => Power2(8 - t) \in Nat \ {0} /\ Power2(8 - t) = 
        CASE t = 0 -> 256 [] t = 1 -> 128 [] t = 2 -> 64 [] t = 3 -> 32 [] t = 4 -> 16 [] t = 5 -> 8 [] t = 6 -> 4
          [] t = 7 -> 2 [] t = 8 -> 1
  BY DEF Power2
<1>3. FirstBits(b, t) \in Nat
  <2>1. CASE t > 8
    BY <2>1 DEF FirstBits
  <2>2. CASE t <= 8
    <3>1. PICK p \in Nat \ {0} : p = Power2(8 - t)
      BY <1>2, <2>2
    <3>2. b % p \in Nat
      BY DEF Octet
    <3>3. FirstBits(b, t) = b % p
      BY <2>2, <3>1 DEF FirstBits
    <3> QED BY <3>2, <3>3
  <2> QED BY <2>1, <2>2
<1>4. CASE b < 128
  <2>1. t = 0 /\ FirstBits(b, t) = b % 256
    BY <1>1, <1>2, <1>4, ByteTypes DEF FirstBits
  <2> QED BY <1>1, <1>3, <1>4, <2>1 DEF Octet
<1>5. CASE b \in 194 .. 223
  <2>1. t = 2 /\ FirstBits(b, t) = b % 64
    BY <1>1, <1>2, <1>5, ByteTypes DEF FirstBits
  <2> QED BY <1>1, <1>3, <1>5, <2>1 DEF Octet
<1>6. CASE b \in 225 .. 239 \ {237}
  <2>1. t = 3 /\ FirstBits(b, t) = b % 32
    BY <1>1, <1>2, <1>6, ByteTypes DEF FirstBits
  <2> QED BY <1>1, <1>3, <1>6, <2>1 DEF Octet
<1>7. CASE b = 237
  <2>1. t = 4 /\ FirstBits(b, t) = b % 16
    BY <1>1, <1>2, <1>7, ByteTypes DEF FirstBits
  <2> QED BY <1>1, <1>3, <1>7, <2>1 DEF Octet
<1>8. CASE b = 224
  <2>1. t = 10 /\ FirstBits(b, t) = 0
    BY <1>1, <1>8, ByteTypes DEF FirstBits
  <2> QED BY <1>1, <1>8, <2>1
<1>9. CASE b = 240
  <2>1. t = 11 /\ FirstBits(b, t) = 0
    BY <1>1, <1>9, ByteTypes DEF FirstBits
  <2> QED BY <1>1, <1>9, <2>1
<1>10. CASE b \in 241 .. 243
  <2>1. t = 6 /\ FirstBits(b, t) = b % 4
    BY <1>1, <1>2, <1>10, ByteTypes DEF FirstBits
  <2> QED BY <1>1, <1>3, <1>10, <2>1 DEF Octet
<1>11. CASE b = 244
  <2>1. t = 5 /\ FirstBits(b, t) = b % 8
    BY <1>1, <1>2, <1>11, ByteTypes DEF FirstBits
  <2> QED BY <1>1, <1>3, <1>11, <2>1 DEF Octet
<1>12. CASE b \in 128 .. 193 \union 245 .. 255
  BY <1>1, <1>3, <1>12
<1> QED BY <1>4, <1>5, <1>6, <1>7, <1>8, <1>9, <1>10, <1>11, <1>12 DEF Octet
-----------------------------------------------------------------------------
LEMMA HexFacts ==
  ASSUME NEW d \in 0 .. 15
  PROVE  Hex(d) \in 48 .. 57 \union 97 .. 102 /\ HexValue(Hex(d)) = d
  BY DEF Hex, HexValue, Digit

\* An escape of four hex digits.
IsEscape(e, n, a, b, c, d) ==
  /\ a \in 0 .. 15 /\ b \in 0 .. 15 /\ c \in 0 .. 15 /\ d \in 0 .. 15
  /\ e = <<Backslash, U, Hex(a), Hex(b), Hex(c), Hex(d)>>
  /\ n = a * 4096 + b * 256 + c * 16 + d

LEMMA EscapeFacts ==
  ASSUME NEW n \in Nat, n < 65536
  PROVE  /\ Escape(n) \in Seq(Octet) /\ Len(Escape(n)) = 6
         /\ \E a, b, c, d \in Int : IsEscape(Escape(n), n, a, b, c, d)
<1>1. PICK a \in Int, b \in Int, c \in Int, d \in Int : a = n \div 4096 /\ b = (n \div 256) % 16 /\ c = (n \div 16) % 16 /\ d = n % 16
  OBVIOUS
<1>2. PICK p \in Int, q \in Int : p = n \div 256 /\ q = n \div 16
  OBVIOUS
<1>3. n = 16 * q + d /\ d \in 0 .. 15 /\ q \in 0 .. 4095
  BY <1>1, <1>2
<1>4. p = q \div 16
  BY <1>2
<1>5. q = 16 * p + c /\ c \in 0 .. 15 /\ p \in 0 .. 255
  <2>1. c = q % 16
    BY <1>1, <1>2
  <2> QED BY <1>3, <1>4, <2>1
<1>6. a = p \div 16
  BY <1>1, <1>2
<1>7. p = 16 * a + b /\ a \in 0 .. 15 /\ b \in 0 .. 15
  <2>1. b = p % 16
    BY <1>1, <1>2
  <2> QED BY <1>5, <1>6, <2>1
<1>8. n = a * 4096 + b * 256 + c * 16 + d
  <2> QED BY <1>3, <1>5, <1>7
<1>9. Escape(n) = <<Backslash, U, Hex(a), Hex(b), Hex(c), Hex(d)>>
  BY <1>1 DEF Escape
<1>11. \A x \in 0 .. 15 : Hex(x) \in Octet
  BY HexFacts DEF Octet
<1>10. Hex(a) \in Octet /\ Hex(b) \in Octet /\ Hex(c) \in Octet /\ Hex(d) \in Octet
  BY <1>3, <1>5, <1>7, <1>11
<1>12. Backslash \in Octet /\ U \in Octet
  BY DEF Backslash, U, Octet
<1> HIDE DEF Octet, Backslash, U
<1>13. Escape(n) \in Seq(Octet) /\ Len(Escape(n)) = 6
  BY <1>9, <1>10, <1>12
<1>14. a \in 0 .. 15 /\ b \in 0 .. 15 /\ c \in 0 .. 15 /\ d \in 0 .. 15
  BY <1>3, <1>5, <1>7
<1>15. IsEscape(Escape(n), n, a, b, c, d)
  BY <1>8, <1>9, <1>14 DEF IsEscape
<1> QED BY <1>13, <1>15

LEMMA EscapeType ==
  ASSUME NEW n \in Nat, n < 65536
  PROVE  Escape(n) \in Seq(Octet)
  BY EscapeFacts

LEMMA ShortFacts ==
  /\ DOMAIN Short = {8, 9, 10, 12, 13, 34, 92}
  /\ Short[8] = 98 /\ Short[9] = 116 /\ Short[10] = 110 /\ Short[12] = 102 /\ Short[13] = 114
  /\ Short[34] = 34 /\ Short[92] = 92
  BY DEF Short, Quote, Backslash

LEMMA EscapedType ==
  ASSUME NEW cp \in Nat, NEW b \in Octet, NEW ascii \in BOOLEAN
  PROVE  Escaped(cp, b, ascii) \in Seq(Octet)
<1>1. CASE cp \in DOMAIN Short
  <2>1. Short[cp] \in Octet /\ Backslash \in Octet
    BY <1>1, ShortFacts DEF Octet, Backslash
  <2>2. Escaped(cp, b, ascii) = <<Backslash, Short[cp]>>
    BY <1>1 DEF Escaped
  <2> QED BY <2>1, <2>2
<1>2. CASE cp \notin DOMAIN Short /\ (cp <= 31 \/ (ascii /\ cp >= 127)) /\ cp <= 65535
  <2>1. Escaped(cp, b, ascii) = Escape(cp)
    BY <1>2 DEF Escaped
  <2>2. cp < 65536
    BY <1>2
  <2> QED BY <2>1, <2>2, EscapeType
<1>3. CASE cp \notin DOMAIN Short /\ (cp <= 31 \/ (ascii /\ cp >= 127)) /\ ~(cp <= 65535)
  <2>1. PICK m, n : m = (55232 + cp \div 1024) % 65536 /\ n = 56320 + (cp % 1024)
    OBVIOUS
  <2>2. Escaped(cp, b, ascii) = Escape(m) \o Escape(n)
    BY <1>3, <2>1 DEF Escaped
  <2>3. m \in Nat /\ m < 65536
    <3>1. PICK k \in Nat : k = 55232 + cp \div 1024
      OBVIOUS
    <3> QED BY <2>1, <3>1
  <2>4. n \in Nat /\ n < 65536
    BY <2>1
  <2>5. Escape(m) \in Seq(Octet) /\ Escape(n) \in Seq(Octet)
    BY <2>3, <2>4, EscapeType
  <2> QED BY <2>2, <2>5, JoinFacts
<1>4. CASE cp \notin DOMAIN Short /\ ~(cp <= 31 \/ (ascii /\ cp >= 127))
  <2>1. Escaped(cp, b, ascii) = <<b>>
    BY <1>4 DEF Escaped
  <2> QED BY <2>1
<1> QED BY <1>1, <1>2, <1>3, <1>4

LEMMA DumpByteType ==
  ASSUME NEW d \in DumpStates, NEW b \in Octet, NEW ascii \in BOOLEAN
  PROVE  DumpByte(d, b, ascii) \in DumpStates
<1>0. d = [state |-> d.state, codep |-> d.codep, out |-> d.out] /\ d.state \in 0 .. 8 /\ d.codep \in Nat /\ d.out \in Seq(Octet)
  BY DEF DumpStates
<1>1. CASE d.state = Reject
  BY <1>1 DEF DumpByte
<1>2. CASE d.state # Reject
  <2>1. PICK e : e = Decode(d, b)
    OBVIOUS
  <2>2. e.state \in 0 .. 8
    <3>1. d.state \in 0 .. 8 \ {1}
      BY <1>0, <1>2 DEF Reject
    <3>2. e.state = StateAfter(d.state, ByteType(b))
      BY <2>1 DEF Decode
    <3> QED BY <3>1, <3>2, Steps
  <2>3. e.codep \in Nat
    <3>1. e.codep = IF d.state # Accept THEN (d.codep * 64) + (b % 64) ELSE FirstBits(b, ByteType(b))
      BY <2>1 DEF Decode
    <3>2. b % 64 \in Nat
      BY DEF Octet
    <3> QED BY <1>0, <3>1, <3>2, BitsOfFirst
  <2>4. Escaped(e.codep, b, ascii) \in Seq(Octet)
    BY <2>3, EscapedType
  <2>5. PICK o : o = CASE e.state = Accept -> d.out \o Escaped(e.codep, b, ascii)
                      [] e.state = Reject -> d.out
                      [] OTHER -> IF ascii THEN d.out ELSE Append(d.out, b)
    OBVIOUS
  <2>6. o \in Seq(Octet)
    <3>1. CASE e.state = Accept
      BY <1>0, <2>4, <2>5, <3>1, JoinFacts
    <3>2. CASE e.state = Reject
      BY <1>0, <2>5, <3>2 DEF Accept, Reject
    <3>3. CASE e.state # Accept /\ e.state # Reject
      <4>1. Append(d.out, b) \in Seq(Octet)
        BY <1>0
      <4> QED BY <1>0, <2>5, <3>3, <4>1
    <3> QED BY <3>1, <3>2, <3>3
  <2>7. DumpByte(d, b, ascii) = [state |-> e.state, codep |-> e.codep, out |-> o]
    BY <1>2, <2>1, <2>5 DEF DumpByte
  <2> QED BY <2>2, <2>3, <2>6, <2>7 DEF DumpStates
<1> QED BY <1>1, <1>2

IsDump(f, s, ascii) ==
  f = [i \in 0 .. Len(s) |-> IF i = 0 THEN [state |-> Accept, codep |-> 0, out |-> <<>>]
                             ELSE DumpByte(f[i - 1], s[i], ascii)]
DumpOf(s, ascii) == CHOOSE f : IsDump(f, s, ascii)

\* What was written of a string after each of its bytes.
LEMMA DumpFacts ==
  ASSUME NEW s \in Seq(Octet), NEW ascii \in BOOLEAN
  PROVE  /\ DumpEscaped(s, ascii) = DumpOf(s, ascii)[Len(s)]
         /\ DumpOf(s, ascii)[0] = DumpStart
         /\ \A i \in 1 .. Len(s) : DumpOf(s, ascii)[i] = DumpByte(DumpOf(s, ascii)[i - 1], s[i], ascii)
         /\ \A i \in 0 .. Len(s) : DumpOf(s, ascii)[i] \in DumpStates
<1>0. PICK n : n = Len(s)
  OBVIOUS
<1>n. n \in Nat
  BY <1>0
<1>s. \A i \in 1 .. n : s[i] \in Octet
  BY <1>0
<1>z. DumpStart \in DumpStates
  BY DEF DumpStart, DumpStates, Accept
<1> DEFINE F == [0 .. n -> DumpStates]
           body(f, i) == IF i = 0 THEN DumpStart ELSE DumpByte(f[i - 1], s[i], ascii)
           step == [f \in F |-> [i \in 0 .. n |-> body(f, i)]]
<1>1. ASSUME NEW f \in F, NEW i \in 0 .. n PROVE body(f, i) \in DumpStates
  <2>1. CASE i = 0
    BY <1>z, <2>1
  <2>2. CASE i # 0
    <3>1. i - 1 \in 0 .. n /\ i \in 1 .. n
      BY <1>n, <2>2
    <3>2. f[i - 1] \in DumpStates
      BY <3>1
    <3> QED BY <1>s, <2>2, <3>1, <3>2, DumpByteType
  <2> QED BY <2>1, <2>2
<1>2. step \in [F -> F]
  <2> HIDE DEF body
  <2> QED BY <1>1
<1>3. ASSUME NEW f \in F, NEW g \in F, NEW i \in 0 .. n, \A j \in 0 .. i - 1 : f[j] = g[j]
      PROVE  step[f][i] = step[g][i]
  <2>1. i # 0 => i - 1 \in 0 .. i - 1
    BY <1>n
  <2>2. body(f, i) = body(g, i)
    BY <1>3, <2>1
  <2> HIDE DEF body
  <2> QED BY <2>2
<1> HIDE DEF step, body
<1>4. PICK f \in F : f = step[f]
  <2>1. \A f, g \in F, i \in 0 .. n : (\A j \in 0 .. i - 1 : f[j] = g[j]) => step[f][i] = step[g][i]
    BY <1>3, Zenon
  <2>2. LooksBelow(step, n, DumpStates)
    BY <1>n, <1>z, <1>2, <2>1, Zenon DEF LooksBelow
  <2>3. \E f : IsFixed(f, step, n, DumpStates)
    BY <2>2, RecursionExists, Zenon
  <2> QED BY <2>3, Zenon DEF IsFixed
<1>5. f = [i \in 0 .. n |-> body(f, i)]
  BY <1>4 DEF step
<1>6. IsDump(f, s, ascii)
  BY <1>0, <1>5 DEF IsDump, DumpStart, body
<1>7. PICK h : h = DumpOf(s, ascii)
  OBVIOUS
<1>8. IsDump(h, s, ascii)
  BY <1>6, <1>7 DEF DumpOf
<1>9. DumpEscaped(s, ascii) = h[n]
  BY <1>0, <1>7, Zenon DEF DumpEscaped, DumpOf, IsDump
<1>10. h = [i \in 0 .. n |-> body(h, i)]
  BY <1>0, <1>8 DEF IsDump, DumpStart, body
<1>11. \A i \in 0 .. n : h[i] = body(h, i)
  BY <1>10
<1>12. h[0] = DumpStart
  <2>1. 0 \in 0 .. n
    BY <1>n
  <2> QED BY <1>11, <2>1 DEF body
<1>13. \A i \in 1 .. n : h[i] = DumpByte(h[i - 1], s[i], ascii)
  <2>1. \A i \in 1 .. n : i \in 0 .. n /\ i # 0
    BY <1>n
  <2> QED BY <1>11, <2>1 DEF body
<1>14. \A i \in 0 .. n : h[i] \in DumpStates
  <2> DEFINE T == {i \in Nat : i \in 0 .. n => h[i] \in DumpStates}
  <2>1. 0 \in T
    BY <1>12, <1>z
  <2>2. ASSUME NEW i \in Nat, i \in T PROVE i + 1 \in T
    <3>1. CASE i + 1 \in 0 .. n
      <4>1. i \in 0 .. n /\ i + 1 \in 1 .. n /\ (i + 1) - 1 = i
        BY <1>n, <3>1
      <4>2. h[i + 1] = DumpByte(h[i], s[i + 1], ascii)
        BY <1>13, <4>1
      <4> QED BY <1>s, <2>2, <4>1, <4>2, DumpByteType
    <3>2. CASE i + 1 \notin 0 .. n
      BY <3>2
    <3> QED BY <3>1, <3>2
  <2>3. Nat \subseteq T
    <3> HIDE DEF T
    <3> QED BY <2>1, <2>2, Induction
  <2> QED BY <1>n, <2>3
<1> QED BY <1>0, <1>7, <1>9, <1>12, <1>13, <1>14
-----------------------------------------------------------------------------
IsUpto(f, s) ==
  f = [i \in 0 .. Len(s) |->
         i = 0 \/ \E n \in {k \in 1 .. 4 : k <= i} : IsCharacter(SubSeq(s, i - n + 1, i)) /\ f[i - n]]
Upto(s) == CHOOSE f : IsUpto(f, s)

\* The n bytes before i are a character that is after characters.
EndsIn(s, i, n) == n \in 1 .. 4 /\ n <= i /\ IsCharacter(SubSeq(s, i - n + 1, i)) /\ Upto(s)[i - n]

LEMMA Utf8Facts ==
  ASSUME NEW s \in Seq(Octet)
  PROVE  /\ IsUtf8(s) = Upto(s)[Len(s)]
         /\ \A i \in 0 .. Len(s) : Upto(s)[i] \in BOOLEAN
         /\ Upto(s)[0]
         /\ \A i \in 1 .. Len(s) : Upto(s)[i] <=> \E n \in 1 .. 4 : EndsIn(s, i, n)
<1>0. PICK n : n = Len(s)
  OBVIOUS
<1>n. n \in Nat
  BY <1>0
<1> DEFINE F == [0 .. n -> BOOLEAN]
           body(f, i) == i = 0 \/ \E k \in {k \in 1 .. 4 : k <= i} : IsCharacter(SubSeq(s, i - k + 1, i)) /\ f[i - k]
           step == [f \in F |-> [i \in 0 .. n |-> body(f, i)]]
<1>1. ASSUME NEW f, NEW i PROVE body(f, i) \in BOOLEAN
  BY Zenon
<1>2. step \in [F -> F]
  <2> HIDE DEF body
  <2> QED BY <1>1
<1>3. ASSUME NEW f \in F, NEW g \in F, NEW i \in 0 .. n, \A j \in 0 .. i - 1 : f[j] = g[j]
      PROVE  step[f][i] = step[g][i]
  <2>1. \A k \in {k \in 1 .. 4 : k <= i} : i - k \in 0 .. i - 1
    BY <1>n
  <2>2. \A k \in {k \in 1 .. 4 : k <= i} : f[i - k] = g[i - k]
    BY <1>3, <2>1
  <2>3. body(f, i) <=> body(g, i)
    BY <2>2, Zenon
  <2>4. body(f, i) = body(g, i)
    BY <1>1, <2>3, Zenon
  <2> HIDE DEF body
  <2> QED BY <2>4
<1> HIDE DEF step, body
<1>4. PICK f \in F : f = step[f]
  <2>1. \A f, g \in F, i \in 0 .. n : (\A j \in 0 .. i - 1 : f[j] = g[j]) => step[f][i] = step[g][i]
    BY <1>3, Zenon
  <2>2. BOOLEAN # {}
    OBVIOUS
  <2>3. LooksBelow(step, n, BOOLEAN)
    BY <1>n, <1>2, <2>1, <2>2, Zenon DEF LooksBelow
  <2>4. \E f : IsFixed(f, step, n, BOOLEAN)
    BY <2>3, RecursionExists, Zenon
  <2> QED BY <2>4, Zenon DEF IsFixed
<1>5. f = [i \in 0 .. n |-> body(f, i)]
  BY <1>4 DEF step
<1>6. IsUpto(f, s)
  BY <1>0, <1>5, Zenon DEF IsUpto, body
<1>7. PICK h : h = Upto(s)
  OBVIOUS
<1>8. IsUpto(h, s)
  BY <1>6, <1>7 DEF Upto
<1>9. IsUtf8(s) = h[n]
  BY <1>0, <1>7, Zenon DEF IsUtf8, Upto, IsUpto
<1>10. h = [i \in 0 .. n |-> body(h, i)]
  BY <1>0, <1>8, Zenon DEF IsUpto, body
<1>11. \A i \in 0 .. n : h[i] = body(h, i)
  BY <1>10
<1>12. \A i \in 0 .. n : h[i] \in BOOLEAN
  BY <1>1, <1>11, Zenon
<1>13. h[0]
  <2>1. 0 \in 0 .. n
    BY <1>n
  <2>2. h[0] = body(h, 0) /\ body(h, 0)
    BY <1>11, <2>1, Zenon DEF body
  <2> QED BY <2>2, Zenon
<1>14. ASSUME NEW i \in 1 .. n PROVE h[i] <=> \E k \in 1 .. 4 : EndsIn(s, i, k)
  <2>1. i \in 0 .. n /\ i # 0
    BY <1>n
  <2>2. h[i] <=> body(h, i)
    BY <1>11, <2>1, Zenon
  <2>3. body(h, i) <=> \E k \in {k \in 1 .. 4 : k <= i} : IsCharacter(SubSeq(s, i - k + 1, i)) /\ h[i - k]
    BY <2>1, Zenon DEF body
  <2> QED BY <1>7, <2>2, <2>3, Zenon DEF EndsIn
<1> QED BY <1>0, <1>7, <1>9, <1>12, <1>13, <1>14, Zenon

IsValueTo(f, s) == f = [i \in 0 .. Len(s) |-> IF i = 0 THEN 0 ELSE 10 * f[i - 1] + (s[i] - Zero)]
ValueTo(s) == CHOOSE f : IsValueTo(f, s)

LEMMA DigitsFacts ==
  ASSUME NEW s \in Seq(Int)
  PROVE  /\ DigitsValue(s) = ValueTo(s)[Len(s)]
         /\ ValueTo(s)[0] = 0
         /\ \A i \in 0 .. Len(s) : ValueTo(s)[i] \in Int
         /\ \A i \in 1 .. Len(s) : ValueTo(s)[i] = 10 * ValueTo(s)[i - 1] + (s[i] - Zero)
<1>0. PICK n : n = Len(s)
  OBVIOUS
<1>n. n \in Nat
  BY <1>0
<1>s. \A i \in 1 .. n : s[i] \in Int
  BY <1>0
<1> DEFINE F == [0 .. n -> Int]
           body(f, i) == IF i = 0 THEN 0 ELSE 10 * f[i - 1] + (s[i] - Zero)
           step == [f \in F |-> [i \in 0 .. n |-> body(f, i)]]
<1>1. ASSUME NEW f \in F, NEW i \in 0 .. n PROVE body(f, i) \in Int
  <2>1. CASE i = 0
    BY <2>1
  <2>2. CASE i # 0
    <3>1. i - 1 \in 0 .. n /\ i \in 1 .. n
      BY <1>n, <2>2
    <3>2. f[i - 1] \in Int /\ s[i] \in Int
      BY <1>s, <3>1
    <3> QED BY <2>2, <3>2 DEF Zero
  <2> QED BY <2>1, <2>2
<1>2. step \in [F -> F]
  <2> HIDE DEF body
  <2> QED BY <1>1
<1>3. ASSUME NEW f \in F, NEW g \in F, NEW i \in 0 .. n, \A j \in 0 .. i - 1 : f[j] = g[j]
      PROVE  step[f][i] = step[g][i]
  <2>1. i # 0 => i - 1 \in 0 .. i - 1
    BY <1>n
  <2>2. body(f, i) = body(g, i)
    BY <1>3, <2>1, Zenon
  <2> HIDE DEF body
  <2> QED BY <2>2
<1> HIDE DEF step, body
<1>4. PICK f \in F : f = step[f]
  <2>1. \A f, g \in F, i \in 0 .. n : (\A j \in 0 .. i - 1 : f[j] = g[j]) => step[f][i] = step[g][i]
    BY <1>3, Zenon
  <2>2. Int # {}
    OBVIOUS
  <2>3. LooksBelow(step, n, Int)
    BY <1>n, <1>2, <2>1, <2>2, Zenon DEF LooksBelow
  <2>4. \E f : IsFixed(f, step, n, Int)
    BY <2>3, RecursionExists, Zenon
  <2> QED BY <2>4, Zenon DEF IsFixed
<1>5. f = [i \in 0 .. n |-> body(f, i)]
  BY <1>4 DEF step
<1>6. IsValueTo(f, s)
  BY <1>0, <1>5, Zenon DEF IsValueTo, body
<1>7. PICK h : h = ValueTo(s)
  OBVIOUS
<1>8. IsValueTo(h, s)
  BY <1>6, <1>7 DEF ValueTo
<1>9. DigitsValue(s) = h[n]
  BY <1>0, <1>7, Zenon DEF DigitsValue, ValueTo, IsValueTo
<1>10. h = [i \in 0 .. n |-> body(h, i)]
  BY <1>0, <1>8, Zenon DEF IsValueTo, body
<1>11. \A i \in 0 .. n : h[i] = body(h, i)
  BY <1>10
<1>12. h[0] = 0
  <2>1. 0 \in 0 .. n
    BY <1>n
  <2> QED BY <1>11, <2>1 DEF body
<1>13. \A i \in 1 .. n : h[i] = 10 * h[i - 1] + (s[i] - Zero)
  <2>1. \A i \in 1 .. n : i \in 0 .. n /\ i # 0
    BY <1>n
  <2> QED BY <1>11, <2>1, Zenon DEF body
<1>14. \A i \in 0 .. n : h[i] \in Int
  <2> DEFINE T == {i \in Nat : i \in 0 .. n => h[i] \in Int}
  <2>1. 0 \in T
    BY <1>12
  <2>2. ASSUME NEW i \in Nat, i \in T PROVE i + 1 \in T
    <3>1. CASE i + 1 \in 0 .. n
      <4>1. i \in 0 .. n /\ i + 1 \in 1 .. n /\ (i + 1) - 1 = i
        BY <1>n, <3>1
      <4>2. h[i + 1] = 10 * h[i] + (s[i + 1] - Zero)
        BY <1>13, <4>1
      <4>3. h[i] \in Int /\ s[i + 1] \in Int
        BY <1>s, <2>2, <4>1
      <4> QED BY <4>2, <4>3 DEF Zero
    <3>2. CASE i + 1 \notin 0 .. n
      BY <3>2
    <3> QED BY <3>1, <3>2
  <2>3. Nat \subseteq T
    <3> HIDE DEF T
    <3> QED BY <2>1, <2>2, Induction
  <2> QED BY <1>n, <2>3
<1> QED BY <1>0, <1>7, <1>9, <1>12, <1>13, <1>14

IsDigitsTo(f, m) == f = [n \in 0 .. m |-> IF n = 0 THEN <<>> ELSE Append(f[n \div 10], Zero + (n % 10))]
DigitsTo(m) == CHOOSE f : IsDigitsTo(f, m)

LEMMA DumpIntegerFacts ==
  ASSUME NEW m \in Nat
  PROVE  /\ DigitsTo(m)[0] = <<>>
         /\ \A n \in 0 .. m : DigitsTo(m)[n] \in Seq(Digit)
         /\ \A n \in 1 .. m : DigitsTo(m)[n] = Append(DigitsTo(m)[n \div 10], Zero + (n % 10))
<1> DEFINE Z == Seq(Digit)
           F == [0 .. m -> Z]
           body(f, i) == IF i = 0 THEN <<>> ELSE Append(f[i \div 10], Zero + (i % 10))
           step == [f \in F |-> [i \in 0 .. m |-> body(f, i)]]
<1>d. \A i \in Nat : Zero + (i % 10) \in Digit
  BY DEF Zero, Digit
<1>1. ASSUME NEW f \in F, NEW i \in 0 .. m PROVE body(f, i) \in Z
  <2>1. CASE i = 0
    BY <2>1
  <2>2. CASE i # 0
    <3>1. i \div 10 \in 0 .. m
      BY <2>2
    <3>2. f[i \div 10] \in Seq(Digit) /\ Zero + (i % 10) \in Digit
      BY <1>d, <3>1
    <3> QED BY <2>2, <3>2
  <2> QED BY <2>1, <2>2
<1>2. step \in [F -> F]
  <2> HIDE DEF body
  <2> QED BY <1>1
<1>3. ASSUME NEW f \in F, NEW g \in F, NEW i \in 0 .. m, \A j \in 0 .. i - 1 : f[j] = g[j]
      PROVE  step[f][i] = step[g][i]
  <2>1. i # 0 => i \div 10 \in 0 .. i - 1
    OBVIOUS
  <2>2. body(f, i) = body(g, i)
    BY <1>3, <2>1, Zenon
  <2> HIDE DEF body
  <2> QED BY <2>2
<1> HIDE DEF step, body, Z
<1>4. PICK f \in F : f = step[f]
  <2>1. \A f, g \in F, i \in 0 .. m : (\A j \in 0 .. i - 1 : f[j] = g[j]) => step[f][i] = step[g][i]
    BY <1>3, Zenon
  <2>2. Z # {}
    <3>1. <<>> \in Seq(Digit)
      OBVIOUS
    <3> QED BY <3>1 DEF Z
  <2>3. LooksBelow(step, m, Z)
    BY <1>2, <2>1, <2>2, Zenon DEF LooksBelow
  <2>4. \E f : IsFixed(f, step, m, Z)
    BY <2>3, RecursionExists, Zenon
  <2> QED BY <2>4, Zenon DEF IsFixed
<1>5. f = [i \in 0 .. m |-> body(f, i)]
  BY <1>4 DEF step
<1>6. IsDigitsTo(f, m)
  BY <1>5, Zenon DEF IsDigitsTo, body
<1>7. PICK h : h = DigitsTo(m)
  OBVIOUS
<1>8. IsDigitsTo(h, m)
  BY <1>6, <1>7 DEF DigitsTo
<1>10. h = [i \in 0 .. m |-> body(h, i)]
  BY <1>8, Zenon DEF IsDigitsTo, body
<1>11. \A i \in 0 .. m : h[i] = body(h, i)
  BY <1>10
<1>12. h[0] = <<>>
  <2>1. 0 \in 0 .. m
    OBVIOUS
  <2> QED BY <1>11, <2>1 DEF body
<1>13. \A i \in 1 .. m : h[i] = Append(h[i \div 10], Zero + (i % 10))
  <2>1. \A i \in 1 .. m : i \in 0 .. m /\ i # 0
    OBVIOUS
  <2> QED BY <1>11, <2>1, Zenon DEF body
<1>14. \A i \in 0 .. m : h[i] \in Seq(Digit)
  <2> DEFINE T == {i \in Nat : i \in 0 .. m => h[i] \in Seq(Digit)}
  <2>1. ASSUME NEW i \in Nat, \A j \in 0 .. i - 1 : j \in T PROVE i \in T
    <3>1. CASE i = 0
      <4>1. <<>> \in Seq(Digit)
        OBVIOUS
      <4>2. h[i] \in Seq(Digit)
        BY <1>12, <3>1, <4>1, Zenon
      <4> QED BY <4>2
    <3>2. CASE i # 0 /\ i \in 0 .. m
      <4>1. i \div 10 \in 0 .. i - 1 /\ i \div 10 \in 0 .. m /\ i \in 1 .. m
        BY <3>2
      <4>2. h[i \div 10] \in Seq(Digit)
        BY <2>1, <4>1
      <4>3. h[i] = Append(h[i \div 10], Zero + (i % 10))
        BY <1>13, <4>1
      <4>4. Append(h[i \div 10], Zero + (i % 10)) \in Seq(Digit)
        BY <1>d, <4>2
      <4>5. h[i] \in Seq(Digit)
        BY <4>3, <4>4, Zenon
      <4> QED BY <4>5
    <3>3. CASE i \notin 0 .. m
      BY <3>3
    <3> QED BY <3>1, <3>2, <3>3
  <2>2. Nat \subseteq T
    <3> HIDE DEF T
    <3> QED BY <2>1, StrongInduction
  <2> QED BY <2>2
<1> QED BY <1>7, <1>12, <1>13, <1>14
-----------------------------------------------------------------------------
\* The bytes of a character, by the table of the Unicode standard.
Tail1(b) == b \in 128 .. 191
Shape2(b1, b2) == b1 \in 194 .. 223 /\ Tail1(b2)
Shape3(b1, b2, b3) ==
  /\ b1 \in 224 .. 239 /\ Tail1(b2) /\ Tail1(b3)
  /\ b1 = 224 => b2 >= 160
  /\ b1 = 237 => b2 <= 159
Shape4(b1, b2, b3, b4) ==
  /\ b1 \in 240 .. 244 /\ Tail1(b2) /\ Tail1(b3) /\ Tail1(b4)
  /\ b1 = 240 => b2 >= 144
  /\ b1 = 244 => b2 <= 143

Code2(b1, b2) == (b1 - 192) * 64 + (b2 - 128)
Code3(b1, b2, b3) == (b1 - 224) * 4096 + (b2 - 128) * 64 + (b3 - 128)
Code4(b1, b2, b3, b4) == (b1 - 240) * 262144 + (b2 - 128) * 4096 + (b3 - 128) * 64 + (b4 - 128)

LEMMA Octets ==
  ASSUME NEW b \in Octet
  PROVE  b \in Int /\ 0 <= b /\ b < 256
  BY DEF Octet

LEMMA Value2 ==
  ASSUME NEW b \in Int, NEW c \in Int, b \in 192 .. 223, Tail1(c)
  PROVE  Code2(b, c) \in Int /\ Code2(b, c) < 2048 /\ (128 <= Code2(b, c) <=> b >= 194)
  BY DEF Code2, Tail1

LEMMA Value3 ==
  ASSUME NEW b \in Int, NEW c \in Int, NEW d \in Int, b \in 224 .. 239, Tail1(c), Tail1(d)
  PROVE  /\ Code3(b, c, d) \in Int /\ Code3(b, c, d) < 65536
         /\ 2048 <= Code3(b, c, d) <=> (b = 224 => c >= 160)
         /\ (55296 <= Code3(b, c, d) /\ Code3(b, c, d) < 57344) <=> (b = 237 /\ c >= 160)
<1>1. PICK v \in Int : v = (b - 224) * 4096 + (c - 128) * 64 + (d - 128)
  OBVIOUS
<1>2. 0 <= c - 128 /\ c - 128 < 64 /\ 0 <= d - 128 /\ d - 128 < 64
  BY DEF Tail1
<1>3. v < 65536
  BY <1>1, <1>2
<1>4. 2048 <= v <=> (b = 224 => c >= 160)
  BY <1>1, <1>2
<1>5. (55296 <= v /\ v < 57344) <=> (b = 237 /\ c >= 160)
  BY <1>1, <1>2
<1> QED BY <1>1, <1>3, <1>4, <1>5 DEF Code3

LEMMA Value4 ==
  ASSUME NEW b \in Int, NEW c \in Int, NEW d \in Int, NEW e \in Int, b \in 240 .. 247, Tail1(c), Tail1(d), Tail1(e)
  PROVE  /\ Code4(b, c, d, e) \in Int
         /\ 65536 <= Code4(b, c, d, e) <=> (b = 240 => c >= 144)
         /\ Code4(b, c, d, e) < 1114112 <=> (b < 244 \/ (b = 244 /\ c <= 143))
<1>1. PICK v \in Int : v = (b - 240) * 262144 + (c - 128) * 4096 + (d - 128) * 64 + (e - 128)
  OBVIOUS
<1>2. 0 <= c - 128 /\ c - 128 < 64 /\ 0 <= d - 128 /\ d - 128 < 64 /\ 0 <= e - 128 /\ e - 128 < 64
  BY DEF Tail1
<1>4. 65536 <= v <=> (b = 240 => c >= 144)
  BY <1>1, <1>2
<1>5. v < 1114112 <=> (b < 244 \/ (b = 244 /\ c <= 143))
  BY <1>1, <1>2
<1> QED BY <1>1, <1>4, <1>5 DEF Code4

LEMMA Characters ==
  ASSUME NEW s \in Seq(Octet)
  PROVE  /\ Len(s) = 1 => (IsCharacter(s) <=> s[1] < 128)
         /\ Len(s) = 2 => (IsCharacter(s) <=> Shape2(s[1], s[2]))
         /\ Len(s) = 3 => (IsCharacter(s) <=> Shape3(s[1], s[2], s[3]))
         /\ Len(s) = 4 => (IsCharacter(s) <=> Shape4(s[1], s[2], s[3], s[4]))
<1>0. PICK n : n = Len(s)
  OBVIOUS
<1>s. \A i \in 1 .. n : s[i] \in Int
  BY <1>0, Octets
<1>1. CASE n = 1
  BY <1>0, <1>1 DEF IsCharacter
<1>2. CASE n = 2
  <2>1. PICK b \in Int, c \in Int : b = s[1] /\ c = s[2]
    BY <1>s, <1>2
  <2>2. IsCharacter(s) <=> (Tail1(c) /\ b \in 192 .. 223 /\ 128 <= Code2(b, c) /\ Code2(b, c) < 2048)
    BY <1>0, <1>2, <2>1 DEF IsCharacter, Tail1, Code2
  <2>3. IsCharacter(s) <=> (Tail1(c) /\ b \in 192 .. 223 /\ b >= 194)
    BY <2>2, Value2
  <2>4. IsCharacter(s) <=> Shape2(b, c)
    BY <2>3 DEF Shape2
  <2> QED BY <1>0, <1>2, <2>1, <2>4
<1>3. CASE n = 3
  <2>1. PICK b \in Int, c \in Int, d \in Int : b = s[1] /\ c = s[2] /\ d = s[3]
    BY <1>s, <1>3
  <2>2. IsCharacter(s) <=>
          (/\ Tail1(c) /\ Tail1(d) /\ b \in 224 .. 239
           /\ 2048 <= Code3(b, c, d) /\ Code3(b, c, d) < 65536 /\ Code3(b, c, d) \notin High \union Low)
    BY <1>0, <1>3, <2>1 DEF IsCharacter, Tail1, Code3
  <2>3. ASSUME NEW v \in Int PROVE v \notin High \union Low <=> ~(55296 <= v /\ v < 57344)
    BY DEF High, Low
  <2>4. IsCharacter(s) <=>
          (/\ Tail1(c) /\ Tail1(d) /\ b \in 224 .. 239
           /\ b = 224 => c >= 160
           /\ ~(b = 237 /\ c >= 160))
    BY <2>2, <2>3, Value3
  <2>5. IsCharacter(s) <=> Shape3(b, c, d)
    BY <2>4 DEF Shape3
  <2> QED BY <1>0, <1>3, <2>1, <2>5
<1>4. CASE n = 4
  <2>1. PICK b \in Int, c \in Int, d \in Int, e \in Int : b = s[1] /\ c = s[2] /\ d = s[3] /\ e = s[4]
    BY <1>s, <1>4
  <2>2. IsCharacter(s) <=>
          (/\ Tail1(c) /\ Tail1(d) /\ Tail1(e) /\ b \in 240 .. 247
           /\ 65536 <= Code4(b, c, d, e) /\ Code4(b, c, d, e) < 1114112)
    BY <1>0, <1>4, <2>1 DEF IsCharacter, Tail1, Code4
  <2>3. IsCharacter(s) <=>
          (/\ Tail1(c) /\ Tail1(d) /\ Tail1(e) /\ b \in 240 .. 247
           /\ b = 240 => c >= 144
           /\ (b < 244 \/ (b = 244 /\ c <= 143)))
    BY <2>2, Value4
  <2>4. IsCharacter(s) <=> Shape4(b, c, d, e)
    BY <2>3 DEF Shape4
  <2> QED BY <1>0, <1>4, <2>1, <2>4
<1> QED BY <1>0, <1>1, <1>2, <1>3, <1>4

\* Parts of sequences.
LEMMA PartFacts ==
  ASSUME NEW S, NEW s \in Seq(S), NEW i \in 1 .. Len(s) + 1, NEW j \in Int, i - 1 <= j, j <= Len(s)
  PROVE  /\ SubSeq(s, i, j) \in Seq(S) /\ Len(SubSeq(s, i, j)) = j - i + 1
         /\ \A k \in 1 .. j - i + 1 : SubSeq(s, i, j)[k] = s[i + k - 1]
<1>1. j \in i - 1 .. Len(s)
  OBVIOUS
<1> QED BY <1>1, SubSeqProperties

LEMMA SameParts ==
  ASSUME NEW S, NEW s \in Seq(S), NEW t \in Seq(S), NEW i \in Nat \ {0}, NEW j \in Nat, i <= j,
         j <= Len(s), j <= Len(t), \A k \in i .. j : s[k] = t[k]
  PROVE  SubSeq(s, i, j) = SubSeq(t, i, j)
<1>1. PICK n \in Nat : n = j - i + 1
  OBVIOUS
<1>2. i \in 1 .. Len(s) + 1 /\ i \in 1 .. Len(t) + 1 /\ i - 1 <= j
  OBVIOUS
<1>3. /\ SubSeq(s, i, j) \in Seq(S) /\ Len(SubSeq(s, i, j)) = n
      /\ \A k \in 1 .. n : SubSeq(s, i, j)[k] = s[i + k - 1]
  BY <1>1, <1>2, PartFacts
<1>4. /\ SubSeq(t, i, j) \in Seq(S) /\ Len(SubSeq(t, i, j)) = n
      /\ \A k \in 1 .. n : SubSeq(t, i, j)[k] = t[i + k - 1]
  BY <1>1, <1>2, PartFacts
<1>5. \A k \in 1 .. n : s[i + k - 1] = t[i + k - 1]
  <2>1. \A k \in 1 .. n : i + k - 1 \in i .. j
    BY <1>1
  <2> QED BY <2>1
<1>6. PICK p, q : p = SubSeq(s, i, j) /\ q = SubSeq(t, i, j)
  OBVIOUS
<1>7. p \in Seq(S) /\ q \in Seq(S) /\ Len(p) = Len(q) /\ \A k \in 1 .. Len(p) : p[k] = q[k]
  BY <1>3, <1>4, <1>5, <1>6
<1>8. p = q
  BY <1>7, SeqEqual
<1> QED BY <1>6, <1>8

LEMMA UptoPrefix ==
  ASSUME NEW s \in Seq(Octet), NEW t \in Seq(Octet), NEW m \in Nat, m <= Len(s), m <= Len(t),
         \A k \in 1 .. m : s[k] = t[k], NEW i \in 0 .. m
  PROVE  Upto(s)[i] <=> Upto(t)[i]
<1> DEFINE T == {j \in Nat : j <= m => (Upto(s)[j] <=> Upto(t)[j])}
<1>1. ASSUME NEW j \in Nat, \A k \in 0 .. j - 1 : k \in T PROVE j \in T
  <2>1. CASE j = 0
    <3>1. Upto(s)[j] /\ Upto(t)[j]
      BY <2>1, Utf8Facts
    <3> QED BY <3>1
  <2>2. CASE j # 0 /\ j <= m
    <3>1. j \in 1 .. Len(s) /\ j \in 1 .. Len(t)
      BY <2>2
    <3>2. ASSUME NEW n \in 1 .. 4 PROVE EndsIn(s, j, n) <=> EndsIn(t, j, n)
      <4>1. CASE n <= j
        <5>1. j - n + 1 \in Nat \ {0} /\ j - n + 1 <= j /\ j - n \in 0 .. j - 1 /\ j - n \in Nat /\ j - n <= m
          BY <2>2, <4>1
        <5>2. \A k \in j - n + 1 .. j : s[k] = t[k]
          <6>1. \A k \in j - n + 1 .. j : k \in 1 .. m
            BY <2>2, <5>1
          <6> QED BY <6>1
        <5>3. SubSeq(s, j - n + 1, j) = SubSeq(t, j - n + 1, j)
          BY <3>1, <5>1, <5>2, SameParts
        <5>4. Upto(s)[j - n] <=> Upto(t)[j - n]
          BY <1>1, <5>1
        <5> QED BY <5>3, <5>4, Zenon DEF EndsIn
      <4>2. CASE ~(n <= j)
        BY <4>2, Zenon DEF EndsIn
      <4> QED BY <4>1, <4>2
    <3>3. (\E n \in 1 .. 4 : EndsIn(s, j, n)) <=> (\E n \in 1 .. 4 : EndsIn(t, j, n))
      BY <3>2, Zenon
    <3>4. Upto(s)[j] <=> Upto(t)[j]
      BY <3>1, <3>3, Utf8Facts
    <3> QED BY <3>4
  <2>3. CASE ~(j <= m)
    BY <2>3
  <2> QED BY <2>1, <2>2, <2>3
<1>2. Nat \subseteq T
  <2> HIDE DEF T
  <2> QED BY <1>1, StrongInduction
<1> QED BY <1>2

\* A character more keeps a string UTF-8.
LEMMA CharacterMore ==
  ASSUME NEW s \in Seq(Octet), NEW c \in Seq(Octet), Len(c) \in 1 .. 4, IsUtf8(s), IsCharacter(c)
  PROVE  s \o c \in Seq(Octet) /\ IsUtf8(s \o c)
<1>1. PICK m, n, t : m = Len(s) /\ n = Len(c) /\ t = s \o c
  OBVIOUS
<1>2. /\ m \in Nat /\ n \in 1 .. 4 /\ t \in Seq(Octet) /\ Len(t) = m + n
      /\ \A i \in 1 .. m : t[i] = s[i]
      /\ \A i \in 1 .. n : t[m + i] = c[i]
  BY <1>1, JoinFacts, SMTT(30)
<1>3. Upto(s)[m]
  BY <1>1, Utf8Facts
<1>4. Upto(t)[m]
  <2>1. m \in 0 .. m /\ m <= Len(s) /\ m <= Len(t)
    BY <1>1, <1>2
  <2> QED BY <1>2, <1>3, <2>1, UptoPrefix
<1>5. SubSeq(t, m + 1, m + n) = c
  <2>1. m + 1 \in 1 .. Len(t) + 1 /\ m + n \in Int /\ (m + 1) - 1 <= m + n /\ m + n <= Len(t) /\ m + n - (m + 1) + 1 = n
    BY <1>2
  <2>2. PICK p : p = SubSeq(t, m + 1, m + n)
    OBVIOUS
  <2>3. p \in Seq(Octet) /\ Len(p) = n /\ \A k \in 1 .. n : p[k] = t[m + 1 + k - 1]
    BY <1>2, <2>1, <2>2, PartFacts
  <2>4. \A k \in 1 .. n : m + 1 + k - 1 = m + k
    BY <1>2
  <2>5. \A k \in 1 .. n : p[k] = c[k]
    BY <1>2, <2>3, <2>4
  <2>6. p = c
    BY <1>1, <2>3, <2>5, SeqEqual
  <2> QED BY <2>2, <2>6
<1>6. EndsIn(t, m + n, n)
  <2>1. PICK k : k = m + n
    OBVIOUS
  <2>2. k - n + 1 = m + 1 /\ k - n = m /\ n <= k
    BY <1>2, <2>1
  <2>3. SubSeq(t, k - n + 1, k) = c
    BY <1>5, <2>1, <2>2, Zenon
  <2>4. Upto(t)[k - n]
    BY <1>4, <2>2, Zenon
  <2>5. IsCharacter(SubSeq(t, k - n + 1, k))
    BY <2>3, Zenon
  <2>6. EndsIn(t, k, n)
    BY <1>2, <2>2, <2>4, <2>5, Zenon DEF EndsIn
  <2> QED BY <2>1, <2>6, Zenon
<1>7. m + n \in 1 .. Len(t)
  BY <1>2
<1>8. Upto(t)[m + n]
  BY <1>2, <1>6, <1>7, Utf8Facts
<1>9. IsUtf8(t)
  BY <1>2, <1>8, Utf8Facts
<1> QED BY <1>1, <1>2, <1>9

LEMMA EmptyIsUtf8 == IsUtf8(<<>>)
<1>1. <<>> \in Seq(Octet) /\ Len(<<>>) = 0
  OBVIOUS
<1> QED BY <1>1, Utf8Facts

\* The bytes of a code point are a character.
LEMMA BytesFacts ==
  ASSUME NEW c \in Nat, c < 1114112, c \notin High \union Low
  PROVE  Bytes(c) \in Seq(Octet) /\ Len(Bytes(c)) \in 1 .. 4 /\ IsCharacter(Bytes(c))
<1>1. CASE c < 128
  <2>1. Bytes(c) = <<c>>
    BY <1>1 DEF Bytes
  <2>2. c \in Octet
    BY <1>1 DEF Octet
  <2>3. Bytes(c) \in Seq(Octet) /\ Len(Bytes(c)) = 1 /\ Bytes(c)[1] = c
    BY <2>1, <2>2
  <2> QED BY <1>1, <2>3, Characters
<1>2. CASE ~(c < 128) /\ c < 2048
  <2>1. PICK p \in Int, q \in Int : p = 192 + c \div 64 /\ q = 128 + (c % 64)
    OBVIOUS
  <2>2. Bytes(c) = <<p, q>>
    BY <1>2, <2>1 DEF Bytes
  <2>3. p \in Octet /\ q \in Octet /\ Shape2(p, q)
    BY <1>2, <2>1 DEF Octet, Shape2, Tail1
  <2>4. Bytes(c) \in Seq(Octet) /\ Len(Bytes(c)) = 2 /\ Bytes(c)[1] = p /\ Bytes(c)[2] = q
    BY <2>2, <2>3
  <2> QED BY <2>3, <2>4, Characters
<1>3. CASE ~(c < 2048) /\ c < 65536
  <2>1. PICK p \in Int, q \in Int, r \in Int : p = 224 + c \div 4096 /\ q = 128 + ((c \div 64) % 64) /\ r = 128 + (c % 64)
    OBVIOUS
  <2>2. Bytes(c) = <<p, q, r>>
    BY <1>3, <2>1 DEF Bytes
  <2>3. PICK k \in Int : k = c \div 64
    OBVIOUS
  <2>4. c = 64 * k + (r - 128) /\ 128 <= r /\ r <= 191
    BY <2>1, <2>3
  <2>5. k \div 64 = p - 224 /\ k % 64 = q - 128
    BY <2>1, <2>3
  <2>6. k = 64 * (p - 224) + (q - 128) /\ 128 <= q /\ q <= 191
    BY <2>5, <2>1
  <2>7. c = (p - 224) * 4096 + (q - 128) * 64 + (r - 128)
    BY <2>4, <2>6
  <2>8. p \in 224 .. 239 /\ Tail1(q) /\ Tail1(r)
    BY <1>3, <2>4, <2>6, <2>7 DEF Tail1
  <2>9. ~(55296 <= c /\ c < 57344)
    BY DEF High, Low
  <2>10. c = Code3(p, q, r)
    BY <2>7 DEF Code3
  <2>11. Shape3(p, q, r)
    BY <1>3, <2>8, <2>9, <2>10, Value3 DEF Shape3
  <2>12. p \in Octet /\ q \in Octet /\ r \in Octet
    BY <2>8 DEF Octet, Tail1
  <2>13. Bytes(c) \in Seq(Octet) /\ Len(Bytes(c)) = 3 /\ Bytes(c)[1] = p /\ Bytes(c)[2] = q /\ Bytes(c)[3] = r
    BY <2>2, <2>12
  <2> QED BY <2>11, <2>13, Characters
<1>4. CASE ~(c < 65536)
  <2>1. PICK p \in Int, q \in Int, r \in Int, s \in Int :
          /\ p = 240 + c \div 262144 /\ q = 128 + ((c \div 4096) % 64)
          /\ r = 128 + ((c \div 64) % 64) /\ s = 128 + (c % 64)
    OBVIOUS
  <2>2. Bytes(c) = <<p, q, r, s>>
    BY <1>4, <2>1 DEF Bytes
  <2>3. PICK k \in Int, l \in Int : k = c \div 64 /\ l = c \div 4096
    OBVIOUS
  <2>4. c = 64 * k + (s - 128) /\ 128 <= s /\ s <= 191
    BY <2>1, <2>3
  <2>5. k \div 64 = l /\ k % 64 = r - 128
    BY <2>1, <2>3
  <2>6. k = 64 * l + (r - 128) /\ 128 <= r /\ r <= 191
    BY <2>5, <2>1
  <2>7. l \div 64 = p - 240 /\ l % 64 = q - 128
    BY <2>1, <2>3
  <2>8. l = 64 * (p - 240) + (q - 128) /\ 128 <= q /\ q <= 191
    BY <2>7, <2>1
  <2>9. c = (p - 240) * 262144 + (q - 128) * 4096 + (r - 128) * 64 + (s - 128)
    BY <2>4, <2>6, <2>8
  <2>10. p \in 240 .. 244 /\ Tail1(q) /\ Tail1(r) /\ Tail1(s)
    BY <1>4, <2>4, <2>6, <2>8, <2>9 DEF Tail1
  <2>11. c = Code4(p, q, r, s)
    BY <2>9 DEF Code4
  <2>12. Shape4(p, q, r, s)
    BY <1>4, <2>10, <2>11, Value4 DEF Shape4
  <2>13. p \in Octet /\ q \in Octet /\ r \in Octet /\ s \in Octet
    BY <2>10 DEF Octet, Tail1
  <2>14. /\ Bytes(c) \in Seq(Octet) /\ Len(Bytes(c)) = 4
         /\ Bytes(c)[1] = p /\ Bytes(c)[2] = q /\ Bytes(c)[3] = r /\ Bytes(c)[4] = s
    BY <2>2, <2>13
  <2> QED BY <2>12, <2>14, Characters
<1> QED BY <1>1, <1>2, <1>3, <1>4

\* One turn of the loop that writes a string.
Turn(d, e, b, ascii) ==
  /\ d.state = 1 => e = d
  /\ d.state # 1 =>
       /\ e.state = After(d.state, b)
       /\ d.state = 0 => e.codep = FirstBits(b, ByteType(b))
       /\ d.state # 0 => e.codep = (d.codep * 64) + (b % 64)
       /\ e.state = 0 => e.out = d.out \o Escaped(e.codep, b, ascii)
       /\ e.state \notin {0, 1} => e.out = IF ascii THEN d.out ELSE Append(d.out, b)

LEMMA DumpTurns ==
  ASSUME NEW s \in Seq(Octet), NEW ascii \in BOOLEAN, NEW i \in 1 .. Len(s)
  PROVE  /\ DumpOf(s, ascii)[i - 1] \in DumpStates /\ DumpOf(s, ascii)[i] \in DumpStates /\ s[i] \in Octet
         /\ Turn(DumpOf(s, ascii)[i - 1], DumpOf(s, ascii)[i], s[i], ascii)
<1>0. PICK d, e : d = DumpOf(s, ascii)[i - 1] /\ e = DumpOf(s, ascii)[i]
  OBVIOUS
<1>1. d \in DumpStates /\ e \in DumpStates /\ s[i] \in Octet
  <2>1. i - 1 \in 0 .. Len(s) /\ i \in 0 .. Len(s)
    OBVIOUS
  <2> QED BY <1>0, <2>1, DumpFacts
<1>2. e = DumpByte(d, s[i], ascii)
  BY <1>0, DumpFacts
<1>3. d.state = 1 => e = d
  BY <1>2 DEF DumpByte, Reject
<1>4. ASSUME d.state # 1
      PROVE  /\ e.state = After(d.state, s[i])
             /\ d.state = 0 => e.codep = FirstBits(s[i], ByteType(s[i]))
             /\ d.state # 0 => e.codep = (d.codep * 64) + (s[i] % 64)
             /\ e.state = 0 => e.out = d.out \o Escaped(e.codep, s[i], ascii)
             /\ e.state \notin {0, 1} => e.out = IF ascii THEN d.out ELSE Append(d.out, s[i])
  <2>1. PICK c : c = Decode(d, s[i])
    OBVIOUS
  <2>2. /\ e.state = c.state /\ e.codep = c.codep
        /\ e.out = CASE c.state = Accept -> d.out \o Escaped(c.codep, s[i], ascii)
                     [] c.state = Reject -> d.out
                     [] OTHER -> IF ascii THEN d.out ELSE Append(d.out, s[i])
    BY <1>2, <1>4, <2>1 DEF DumpByte, Reject
  <2>3. d.state \in 0 .. 8 \ {1}
    BY <1>1, <1>4 DEF DumpStates
  <2>4. c.state = After(d.state, s[i])
    BY <1>1, <2>1, <2>3, Steps DEF Decode
  <2>5. c.codep = IF d.state # 0 THEN (d.codep * 64) + (s[i] % 64) ELSE FirstBits(s[i], ByteType(s[i]))
    BY <2>1 DEF Decode, Accept
  <2>6. e.state = 0 => e.out = d.out \o Escaped(e.codep, s[i], ascii)
    <3>1. PICK x, y : x = d.out \o Escaped(c.codep, s[i], ascii) /\ y = Append(d.out, s[i])
      OBVIOUS
    <3>2. PICK o : o = e.out
      OBVIOUS
    <3>3. o = CASE c.state = Accept -> x [] c.state = Reject -> d.out [] OTHER -> IF ascii THEN d.out ELSE y
      BY <2>2, <3>1, <3>2, Zenon
    <3>4. c.state = 0 => o = x
      BY <3>3 DEF Accept, Reject
    <3> QED BY <2>2, <3>1, <3>2, <3>4
  <2>7. e.state \notin {0, 1} => e.out = IF ascii THEN d.out ELSE Append(d.out, s[i])
    BY <2>2 DEF Accept, Reject
  <2> QED BY <2>2, <2>4, <2>5, <2>6, <2>7
<1> QED BY <1>0, <1>1, <1>3, <1>4, Zenon DEF Turn

StateAt(s, ascii, i) == DumpOf(s, ascii)[i].state

LEMMA StateSteps ==
  ASSUME NEW s \in Seq(Octet), NEW ascii \in BOOLEAN, NEW i \in 1 .. Len(s)
  PROVE  /\ StateAt(s, ascii, i - 1) = 1 => StateAt(s, ascii, i) = 1
         /\ StateAt(s, ascii, i - 1) # 1 => StateAt(s, ascii, i) = After(StateAt(s, ascii, i - 1), s[i])
<1>1. PICK d, e : d = DumpOf(s, ascii)[i - 1] /\ e = DumpOf(s, ascii)[i]
  OBVIOUS
<1>2. Turn(d, e, s[i], ascii)
  BY <1>1, DumpTurns
<1> QED BY <1>1, <1>2 DEF StateAt, Turn

LEMMA ShapesStep ==
  /\ \A b \in Int : b < 128 => After(0, b) = 0
  /\ \A b, c \in Int : Shape2(b, c) => After(0, b) = 2 /\ After(2, c) = 0
  /\ \A b, c, d \in Int :
       Shape3(b, c, d) => After(0, b) \in 3 .. 5 /\ After(After(0, b), c) = 2 /\ After(2, d) = 0
  /\ \A b, c, d, e \in Int :
       Shape4(b, c, d, e) => /\ After(0, b) \in 6 .. 8 /\ After(After(0, b), c) = 3
                             /\ After(3, d) = 2 /\ After(2, e) = 0
<1>1. ASSUME NEW b \in Int, b < 128 PROVE After(0, b) = 0
  BY <1>1 DEF After
<1>2. ASSUME NEW b \in Int, NEW c \in Int, Shape2(b, c) PROVE After(0, b) = 2 /\ After(2, c) = 0
  BY <1>2 DEF After, Shape2, Tail1
<1>3. ASSUME NEW c \in Int, Tail1(c) PROVE After(2, c) = 0 /\ After(3, c) = 2 /\ After(7, c) = 3
  BY <1>3 DEF After, Tail1
<1>4. ASSUME NEW b \in Int, NEW c \in Int, NEW d \in Int, Shape3(b, c, d)
      PROVE  After(0, b) \in 3 .. 5 /\ After(After(0, b), c) = 2 /\ After(2, d) = 0
  <2>1. After(2, d) = 0
    BY <1>3, <1>4 DEF Shape3
  <2>2. CASE b = 224
    <3>1. After(0, b) = 4
      BY <2>2 DEF After
    <3>2. After(4, c) = 2
      BY <1>4, <2>2 DEF After, Shape3, Tail1
    <3> QED BY <2>1, <3>1, <3>2
  <2>3. CASE b = 237
    <3>1. After(0, b) = 5
      BY <2>3 DEF After
    <3>2. After(5, c) = 2
      BY <1>4, <2>3 DEF After, Shape3, Tail1
    <3> QED BY <2>1, <3>1, <3>2
  <2>4. CASE b # 224 /\ b # 237
    <3>1. After(0, b) = 3
      BY <1>4, <2>4 DEF After, Shape3
    <3>2. After(3, c) = 2
      BY <1>3, <1>4 DEF Shape3
    <3> QED BY <2>1, <3>1, <3>2
  <2> QED BY <2>2, <2>3, <2>4
<1>5. ASSUME NEW b \in Int, NEW c \in Int, NEW d \in Int, NEW e \in Int, Shape4(b, c, d, e)
      PROVE  /\ After(0, b) \in 6 .. 8 /\ After(After(0, b), c) = 3
             /\ After(3, d) = 2 /\ After(2, e) = 0
  <2>1. After(3, d) = 2 /\ After(2, e) = 0
    BY <1>3, <1>5 DEF Shape4
  <2>2. CASE b = 240
    <3>1. After(0, b) = 6
      BY <2>2 DEF After
    <3>2. After(6, c) = 3
      BY <1>5, <2>2 DEF After, Shape4, Tail1
    <3> QED BY <2>1, <3>1, <3>2
  <2>3. CASE b = 244
    <3>1. After(0, b) = 8
      BY <2>3 DEF After
    <3>2. After(8, c) = 3
      BY <1>5, <2>3 DEF After, Shape4, Tail1
    <3> QED BY <2>1, <3>1, <3>2
  <2>4. CASE b # 240 /\ b # 244
    <3>1. After(0, b) = 7
      BY <1>5, <2>4 DEF After, Shape4
    <3>2. After(7, c) = 3
      BY <1>3, <1>5 DEF Shape4
    <3> QED BY <2>1, <3>1, <3>2
  <2> QED BY <2>2, <2>3, <2>4
<1> QED BY <1>1, <1>2, <1>4, <1>5

\* A string that is UTF-8 is not refused.
LEMMA Utf8IsWritten ==
  ASSUME NEW s \in Seq(Octet), NEW ascii \in BOOLEAN, IsUtf8(s)
  PROVE  DumpEscaped(s, ascii).state = Accept
<1>0. PICK n : n = Len(s)
  OBVIOUS
<1>n. n \in Nat
  BY <1>0
<1>s. \A i \in 1 .. n : s[i] \in Octet
  BY <1>0
<1> DEFINE T == {j \in Nat : j <= n /\ Upto(s)[j] => StateAt(s, ascii, j) = 0}
<1>1. ASSUME NEW j \in Nat, \A k \in 0 .. j - 1 : k \in T PROVE j \in T
  <2>1. CASE j = 0
    <3>1. StateAt(s, ascii, 0) = 0
      BY DumpFacts DEF StateAt, DumpStart, Accept
    <3> QED BY <2>1, <3>1
  <2>2. CASE j # 0 /\ j <= n /\ Upto(s)[j]
    <3>1. j \in 1 .. Len(s)
      BY <1>0, <1>n, <2>2
    <3>2. PICK k \in 1 .. 4 : EndsIn(s, j, k)
      BY <2>2, <3>1, Utf8Facts
    <3>3. k <= j /\ IsCharacter(SubSeq(s, j - k + 1, j)) /\ Upto(s)[j - k]
      BY <3>2 DEF EndsIn
    <3>4. StateAt(s, ascii, j - k) = 0
      <4>1. j - k \in 0 .. j - 1 /\ j - k <= n
        BY <1>n, <2>2, <3>3
      <4> QED BY <1>1, <3>3, <4>1
    <3>5. PICK c : c = SubSeq(s, j - k + 1, j)
      OBVIOUS
    <3>6. c \in Seq(Octet) /\ Len(c) = k /\ \A x \in 1 .. k : c[x] = s[j - k + x]
      <4>1. j - k + 1 \in 1 .. Len(s) + 1 /\ j \in Int /\ j - k + 1 - 1 <= j /\ j <= Len(s) /\ j - (j - k + 1) + 1 = k
        BY <3>1, <3>3
      <4>2. \A x \in 1 .. k : c[x] = s[j - k + 1 + x - 1]
        BY <3>5, <4>1, PartFacts
      <4>3. \A x \in 1 .. k : j - k + 1 + x - 1 = j - k + x
        OBVIOUS
      <4>4. c \in Seq(Octet) /\ Len(c) = k
        BY <3>5, <4>1, PartFacts
      <4> QED BY <4>2, <4>3, <4>4
    <3>7. \A x \in 1 .. k : j - k + x \in 1 .. Len(s) /\ s[j - k + x] \in Octet /\ j - k + x - 1 = j - k + (x - 1)
      BY <1>s, <1>0, <3>1, <3>3
    <3>8. CASE k = 1
      <4>1. IsCharacter(c) /\ c[1] = s[j] /\ c[1] < 128 /\ s[j] \in Int
        <5>1. j - k + 1 = j
          BY <3>8
        <5>2. c[1] = s[j] /\ s[j] \in Octet
          BY <3>6, <3>7, <3>8, <5>1
        <5>3. IsCharacter(c) /\ c \in Seq(Octet) /\ Len(c) = 1
          BY <3>3, <3>5, <3>6, <3>8
        <5>4. c[1] < 128
          BY <5>3, Characters
        <5>5. s[j] \in Int
          BY <5>2, Octets
        <5> QED BY <5>2, <5>3, <5>4, <5>5
      <4>2. After(0, s[j]) = 0
        BY <4>1, ShapesStep
      <4>3. StateAt(s, ascii, j) = 0
        BY <3>1, <3>4, <3>8, <4>2, StateSteps
      <4> QED BY <4>3
    <3>9. CASE k = 2
      <4>1. Shape2(s[j - 1], s[j]) /\ s[j - 1] \in Int /\ s[j] \in Int
        <5>1. j - k + 1 = j - 1 /\ j - k + 2 = j
          BY <3>9
        <5>2. c[1] = s[j - 1] /\ c[2] = s[j] /\ s[j - 1] \in Octet /\ s[j] \in Octet
          BY <3>6, <3>7, <3>9, <5>1
        <5>3. Shape2(c[1], c[2])
          BY <3>3, <3>5, <3>6, <3>9, Characters
        <5> QED BY <5>2, <5>3, Octets
      <4>2. After(0, s[j - 1]) = 2 /\ After(2, s[j]) = 0
        BY <4>1, ShapesStep
      <4>3. j - 1 \in 1 .. Len(s) /\ j - 1 - 1 = j - 2
        BY <3>1, <3>3, <3>9
      <4>4. StateAt(s, ascii, j - 1) = 2
        BY <3>4, <3>9, <4>2, <4>3, StateSteps
      <4>5. StateAt(s, ascii, j) = 0
        BY <3>1, <4>2, <4>4, StateSteps
      <4> QED BY <4>5
    <3>10. CASE k = 3
      <4>1. Shape3(s[j - 2], s[j - 1], s[j]) /\ s[j - 2] \in Int /\ s[j - 1] \in Int /\ s[j] \in Int
        <5>1. j - k + 1 = j - 2 /\ j - k + 2 = j - 1 /\ j - k + 3 = j
          BY <3>10
        <5>2. /\ c[1] = s[j - 2] /\ c[2] = s[j - 1] /\ c[3] = s[j]
              /\ s[j - 2] \in Octet /\ s[j - 1] \in Octet /\ s[j] \in Octet
          BY <3>6, <3>7, <3>10, <5>1
        <5>3. Shape3(c[1], c[2], c[3])
          BY <3>3, <3>5, <3>6, <3>10, Characters
        <5> QED BY <5>2, <5>3, Octets
      <4>2. PICK a : a = After(0, s[j - 2])
        OBVIOUS
      <4>3. a \in 3 .. 5 /\ After(a, s[j - 1]) = 2 /\ After(2, s[j]) = 0
        BY <4>1, <4>2, ShapesStep
      <4>4. /\ j - 2 \in 1 .. Len(s) /\ j - 2 - 1 = j - 3
            /\ j - 1 \in 1 .. Len(s) /\ j - 1 - 1 = j - 2
        BY <3>1, <3>3, <3>10
      <4>5. StateAt(s, ascii, j - 2) = a
        BY <3>4, <3>10, <4>2, <4>4, StateSteps
      <4>6. StateAt(s, ascii, j - 1) = 2
        BY <4>3, <4>4, <4>5, StateSteps
      <4>7. StateAt(s, ascii, j) = 0
        BY <3>1, <4>3, <4>6, StateSteps
      <4> QED BY <4>7
    <3>11. CASE k = 4
      <4>1. /\ Shape4(s[j - 3], s[j - 2], s[j - 1], s[j])
            /\ s[j - 3] \in Int /\ s[j - 2] \in Int /\ s[j - 1] \in Int /\ s[j] \in Int
        <5>1. j - k + 1 = j - 3 /\ j - k + 2 = j - 2 /\ j - k + 3 = j - 1 /\ j - k + 4 = j
          BY <3>11
        <5>2. /\ c[1] = s[j - 3] /\ c[2] = s[j - 2] /\ c[3] = s[j - 1] /\ c[4] = s[j]
              /\ s[j - 3] \in Octet /\ s[j - 2] \in Octet /\ s[j - 1] \in Octet /\ s[j] \in Octet
          BY <3>6, <3>7, <3>11, <5>1
        <5>3. Shape4(c[1], c[2], c[3], c[4])
          BY <3>3, <3>5, <3>6, <3>11, Characters
        <5> QED BY <5>2, <5>3, Octets
      <4>2. PICK a : a = After(0, s[j - 3])
        OBVIOUS
      <4>3. a \in 6 .. 8 /\ After(a, s[j - 2]) = 3 /\ After(3, s[j - 1]) = 2 /\ After(2, s[j]) = 0
        BY <4>1, <4>2, ShapesStep, SMTT(30)
      <4>4. /\ j - 3 \in 1 .. Len(s) /\ j - 3 - 1 = j - 4
            /\ j - 2 \in 1 .. Len(s) /\ j - 2 - 1 = j - 3
            /\ j - 1 \in 1 .. Len(s) /\ j - 1 - 1 = j - 2
        BY <3>1, <3>3, <3>11
      <4>5. StateAt(s, ascii, j - 3) = a
        BY <3>4, <3>11, <4>2, <4>4, StateSteps
      <4>6. StateAt(s, ascii, j - 2) = 3
        BY <4>3, <4>4, <4>5, StateSteps
      <4>7. StateAt(s, ascii, j - 1) = 2
        BY <4>3, <4>4, <4>6, StateSteps
      <4>8. StateAt(s, ascii, j) = 0
        BY <3>1, <4>3, <4>7, StateSteps
      <4> QED BY <4>8
    <3> QED BY <3>8, <3>9, <3>10, <3>11
  <2>3. CASE ~(j <= n /\ Upto(s)[j])
    BY <2>3
  <2> QED BY <2>1, <2>2, <2>3
<1>2. Nat \subseteq T
  <2> HIDE DEF T
  <2> QED BY <1>1, StrongInduction
<1>3. Upto(s)[n]
  BY <1>0, Utf8Facts
<1>4. StateAt(s, ascii, n) = 0
  BY <1>n, <1>2, <1>3
<1> QED BY <1>0, <1>4, DumpFacts DEF StateAt, Accept
-----------------------------------------------------------------------------
DigitsIn(t, a, b) == a < b /\ \A k \in a + 1 .. b : t[k] \in Digit
Integral(t, m, i) == (m = 1 => t[1] = Minus) /\ DigitsIn(t, m, i) /\ (t[m + 1] = Zero => i = m + 1)
Fractional(t, i, j) == i = j \/ (DigitsIn(t, i + 1, j) /\ t[i + 1] = Point)
Powered(t, j, n) ==
  /\ t[j + 1] \in Exponent
  /\ DigitsIn(t, j + 1, n) \/ (DigitsIn(t, j + 2, n) /\ t[j + 2] \in {Plus, Minus})

\* A number by its parts: m bytes of sign, the integer up to i, the fraction up to j.
Parse(t, m, i, j) ==
  /\ m \in {0, 1} /\ i \in 1 .. Len(t) /\ j \in 1 .. Len(t)
  /\ Integral(t, m, i) /\ Fractional(t, i, j) /\ (j = Len(t) \/ Powered(t, j, Len(t)))

LEMMA NumberParts ==
  ASSUME NEW t
  PROVE  IsNumber(t) <=> \E m, i, j : Parse(t, m, i, j)
<1>1. ASSUME IsNumber(t) PROVE \E m, i, j : Parse(t, m, i, j)
  <2>1. PICK n : n = Len(t)
    OBVIOUS
  <2>2. PICK m \in {0, 1}, i \in 1 .. n, j \in 1 .. n :
          /\ m = 1 => t[1] = Minus
          /\ DigitsIn(t, m, i) /\ (t[m + 1] = Zero => i = m + 1)
          /\ i = j \/ (DigitsIn(t, i + 1, j) /\ t[i + 1] = Point)
          /\ j = n \/ ((DigitsIn(t, j + 1, n) \/ (DigitsIn(t, j + 1 + 1, n) /\ t[j + 1 + 1] \in {Plus, Minus}))
                       /\ t[j + 1] \in Exponent)
    BY <1>1, <2>1, Zenon DEF IsNumber, DigitsIn
  <2>3. j \in Int => j + 1 + 1 = j + 2
    OBVIOUS
  <2>4. j \in Int
    BY <2>2
  <2>5. Parse(t, m, i, j)
    BY <2>1, <2>2, <2>3, <2>4, Zenon DEF Parse, Integral, Fractional, Powered
  <2> QED BY <2>5
<1>2. ASSUME NEW m, NEW i, NEW j, Parse(t, m, i, j) PROVE IsNumber(t)
  <2>1. PICK n : n = Len(t)
    OBVIOUS
  <2>2. j \in Int
    BY <1>2 DEF Parse
  <2>3. j + 1 + 1 = j + 2
    BY <2>2
  <2> QED BY <1>2, <2>1, <2>3, Zenon DEF Parse, Integral, Fractional, Powered, IsNumber, DigitsIn
<1> QED BY <1>1, <1>2
-----------------------------------------------------------------------------
\* The label of scan_number() after k bytes of a number.
LabelAt(t, m, i, j, k) ==
  IF k <= m THEN "minus"
  ELSE IF k <= i THEN (IF t[m + 1] = Zero THEN "zero" ELSE "any1")
  ELSE IF k <= j THEN (IF k = i + 1 THEN "decimal1" ELSE "decimal2")
  ELSE IF k = j + 1 THEN "exponent"
  ELSE IF k = j + 2 /\ t[k] \in {Plus, Minus} THEN "sign" ELSE "any2"

\* The labels one by one.
LEMMA Labels ==
  ASSUME NEW c \in Int
  PROVE  /\ c = Zero => NextLabel("init", c) = "zero" /\ NextLabel("minus", c) = "zero"
         /\ c \in Digit /\ c # Zero => NextLabel("init", c) = "any1" /\ NextLabel("minus", c) = "any1"
         /\ c = Minus => NextLabel("init", c) = "minus"
         /\ c \notin Digit => NextLabel("minus", c) = "error"
         /\ c \in Digit => NextLabel("any1", c) = "any1"
         /\ c = Point => NextLabel("any1", c) = "decimal1" /\ NextLabel("zero", c) = "decimal1"
         /\ c \in Exponent => /\ NextLabel("any1", c) = "exponent" /\ NextLabel("zero", c) = "exponent"
                              /\ NextLabel("decimal2", c) = "exponent"
         /\ c \notin Digit \union Exponent \union {Point} => NextLabel("any1", c) = "done"
         /\ c \notin Exponent \union {Point} => NextLabel("zero", c) = "done"
         /\ c \in Digit => NextLabel("decimal1", c) = "decimal2" /\ NextLabel("decimal2", c) = "decimal2"
         /\ c \notin Digit => NextLabel("decimal1", c) = "error"
         /\ c \notin Digit \union Exponent => NextLabel("decimal2", c) = "done"
         /\ c \in {Plus, Minus} => NextLabel("exponent", c) = "sign"
         /\ c \in Digit => /\ NextLabel("exponent", c) = "any2" /\ NextLabel("sign", c) = "any2"
                           /\ NextLabel("any2", c) = "any2"
         /\ c \notin Digit \union {Plus, Minus} => NextLabel("exponent", c) = "error"
         /\ c \notin Digit => NextLabel("sign", c) = "error" /\ NextLabel("any2", c) = "done"
<1> USE DEF Digit, Exponent, Plus, Minus, Point, Zero
<1>1. /\ c = Zero => NextLabel("init", c) = "zero" /\ NextLabel("minus", c) = "zero"
      /\ c \in Digit /\ c # Zero => NextLabel("init", c) = "any1" /\ NextLabel("minus", c) = "any1"
  BY DEF NextLabel
<1>2. c = Minus => NextLabel("init", c) = "minus"
  BY DEF NextLabel
<1>3. c \notin Digit => NextLabel("minus", c) = "error"
  BY DEF NextLabel
<1>4. c \in Digit => NextLabel("any1", c) = "any1"
  BY DEF NextLabel
<1>5. c = Point => NextLabel("any1", c) = "decimal1"
  BY DEF NextLabel
<1>6. c = Point => NextLabel("zero", c) = "decimal1"
  BY DEF NextLabel, AfterZero
<1>7. c \in Exponent => NextLabel("any1", c) = "exponent"
  BY DEF NextLabel
<1>8. c \in Exponent => NextLabel("zero", c) = "exponent"
  BY DEF NextLabel, AfterZero
<1>9. c \in Exponent => NextLabel("decimal2", c) = "exponent"
  BY DEF NextLabel
<1>10. c \notin Digit \union Exponent \union {Point} => NextLabel("any1", c) = "done"
  BY DEF NextLabel
<1>11. c \notin Exponent \union {Point} => NextLabel("zero", c) = "done"
  BY DEF NextLabel, AfterZero
<1>12. c \in Digit => NextLabel("decimal1", c) = "decimal2" /\ NextLabel("decimal2", c) = "decimal2"
  BY DEF NextLabel
<1>13. c \notin Digit => NextLabel("decimal1", c) = "error"
  BY DEF NextLabel
<1>14. c \notin Digit \union Exponent => NextLabel("decimal2", c) = "done"
  BY DEF NextLabel
<1>15. c \in {Plus, Minus} => NextLabel("exponent", c) = "sign"
  BY DEF NextLabel
<1>16. c \in Digit => NextLabel("exponent", c) = "any2" /\ NextLabel("sign", c) = "any2" /\ NextLabel("any2", c) = "any2"
  BY DEF NextLabel
<1>17. c \notin Digit \union {Plus, Minus} => NextLabel("exponent", c) = "error"
  BY DEF NextLabel
<1>18. c \notin Digit => NextLabel("sign", c) = "error" /\ NextLabel("any2", c) = "done"
  BY DEF NextLabel
<1> QED BY <1>1, <1>2, <1>3, <1>4, <1>5, <1>6, <1>7, <1>8, <1>9, <1>10, <1>11, <1>12, <1>13, <1>14, <1>15,
           <1>16, <1>17, <1>18

LEMMA PathFirst ==
  ASSUME NEW t \in Seq(Octet), NEW m, NEW i, NEW j, Parse(t, m, i, j)
  PROVE  t[1] \in Int /\ NextLabel("init", t[1]) = LabelAt(t, m, i, j, 1)
<1>1. m \in {0, 1} /\ i \in 1 .. Len(t) /\ j \in 1 .. Len(t) /\ Integral(t, m, i)
  BY DEF Parse
<1>2. t[1] \in Int
  BY <1>1, Octets
<1>3. CASE m = 1
  <2>1. t[1] = Minus
    BY <1>1, <1>3 DEF Integral
  <2> QED BY <1>2, <1>3, <2>1, Labels DEF LabelAt
<1>4. CASE m = 0
  <2>1. 0 < i /\ \A k \in 0 + 1 .. i : t[k] \in Digit
    BY <1>1, <1>4 DEF Integral, DigitsIn
  <2>2. t[1] \in Digit
    BY <2>1, <1>1
  <2> QED BY <1>1, <1>2, <1>4, <2>2, Labels DEF LabelAt
<1> QED BY <1>1, <1>2, <1>3, <1>4

LEMMA PathStep ==
  ASSUME NEW t \in Seq(Octet), NEW m, NEW i, NEW j, Parse(t, m, i, j), NEW k \in 1 .. Len(t) - 1
  PROVE  t[k + 1] \in Int /\ NextLabel(LabelAt(t, m, i, j, k), t[k + 1]) = LabelAt(t, m, i, j, k + 1)
<1>1. /\ m \in {0, 1} /\ i \in 1 .. Len(t) /\ j \in 1 .. Len(t)
      /\ Integral(t, m, i) /\ Fractional(t, i, j) /\ (j = Len(t) \/ Powered(t, j, Len(t)))
  BY DEF Parse
<1>2. PICK c : c = t[k + 1]
  OBVIOUS
<1>3. c \in Int
  BY <1>2, Octets
<1>n. PICK n \in Nat : n = Len(t)
  OBVIOUS
<1>4. m < i /\ (\A x \in m + 1 .. i : t[x] \in Digit) /\ (t[m + 1] = Zero => i = m + 1)
  BY <1>1 DEF Integral, DigitsIn
<1>5. i # j => i + 1 < j /\ (\A x \in i + 2 .. j : t[x] \in Digit) /\ t[i + 1] = Point
  BY <1>1 DEF Fractional, DigitsIn
<1>6. i <= j
  BY <1>1, <1>5
<1>7. j # n => /\ t[j + 1] \in Exponent
               /\ \/ j + 1 < n /\ \A x \in j + 2 .. n : t[x] \in Digit
                  \/ j + 2 < n /\ t[j + 2] \in {Plus, Minus} /\ \A x \in j + 3 .. n : t[x] \in Digit
  BY <1>1, <1>n DEF Powered, DigitsIn
<1>8. k \in 1 .. n - 1
  BY <1>n
<1>9. CASE k + 1 <= i
  <2>1. k + 1 \in m + 1 .. i /\ c \in Digit
    BY <1>1, <1>2, <1>4, <1>8, <1>9
  <2>2. CASE k = 1 /\ m = 1
    <3>1. LabelAt(t, m, i, j, k) = "minus" /\ LabelAt(t, m, i, j, k + 1) = IF c = Zero THEN "zero" ELSE "any1"
      BY <1>2, <1>9, <2>2 DEF LabelAt
    <3> QED BY <1>2, <1>3, <2>1, <3>1, Labels
  <2>3. CASE ~(k = 1 /\ m = 1)
    <3>1. t[m + 1] # Zero
      BY <1>1, <1>4, <1>8, <1>9, <2>3
    <3>2. LabelAt(t, m, i, j, k) = "any1" /\ LabelAt(t, m, i, j, k + 1) = "any1"
      BY <1>1, <1>8, <1>9, <2>3, <3>1 DEF LabelAt
    <3> QED BY <1>2, <1>3, <2>1, <3>2, Labels
  <2> QED BY <2>2, <2>3
<1>10. CASE k = i /\ k + 1 <= j
  <2>1. c = Point
    BY <1>2, <1>5, <1>8, <1>10
  <2>2. LabelAt(t, m, i, j, k) \in {"zero", "any1"} /\ LabelAt(t, m, i, j, k + 1) = "decimal1"
    BY <1>1, <1>4, <1>8, <1>10 DEF LabelAt
  <2> QED BY <1>2, <1>3, <2>1, <2>2, Labels
<1>11. CASE k > i /\ k + 1 <= j
  <2>1. k + 1 \in i + 2 .. j /\ i # j
    BY <1>1, <1>8, <1>11
  <2>2. c \in Digit
    BY <1>2, <1>5, <2>1
  <2>3. LabelAt(t, m, i, j, k) \in {"decimal1", "decimal2"} /\ LabelAt(t, m, i, j, k + 1) = "decimal2"
    BY <1>1, <1>4, <1>8, <1>11 DEF LabelAt
  <2> QED BY <1>2, <1>3, <2>2, <2>3, Labels
<1>12. CASE k = j
  <2>1. j # n /\ c \in Exponent
    BY <1>2, <1>7, <1>8, <1>12
  <2>2. LabelAt(t, m, i, j, k + 1) = "exponent"
    BY <1>1, <1>4, <1>6, <1>8, <1>12 DEF LabelAt
  <2>3. LabelAt(t, m, i, j, k) \in {"zero", "any1", "decimal2"}
    <3>1. CASE i = j
      BY <1>1, <1>4, <1>8, <1>12, <3>1 DEF LabelAt
    <3>2. CASE i # j
      BY <1>1, <1>4, <1>5, <1>8, <1>12, <3>2 DEF LabelAt
    <3> QED BY <3>1, <3>2
  <2> QED BY <1>2, <1>3, <2>1, <2>2, <2>3, Labels
<1>13. CASE k = j + 1
  <2>1. j # n /\ c = t[j + 2]
    BY <1>1, <1>2, <1>8, <1>13
  <2>2. c \in Digit \/ c \in {Plus, Minus}
    <3>1. j + 2 \in j + 2 .. n
      BY <1>1, <1>8, <1>13
    <3> QED BY <1>7, <2>1, <3>1
  <2>3. LabelAt(t, m, i, j, k) = "exponent"
    BY <1>1, <1>4, <1>6, <1>8, <1>13 DEF LabelAt
  <2>4. LabelAt(t, m, i, j, k + 1) = IF c \in {Plus, Minus} THEN "sign" ELSE "any2"
    <3>1. k + 1 = j + 2 /\ ~(k + 1 <= m) /\ ~(k + 1 <= i) /\ ~(k + 1 <= j) /\ k + 1 # j + 1
      BY <1>1, <1>4, <1>6, <1>8, <1>13
    <3> QED BY <1>2, <3>1, Zenon DEF LabelAt
  <2> QED BY <1>2, <1>3, <2>2, <2>3, <2>4, Labels
<1>14. CASE k > j + 1
  <2>1. j # n /\ k + 1 \in j + 3 .. n /\ k + 1 \in j + 2 .. n
    BY <1>1, <1>8, <1>14
  <2>2. c \in Digit
    BY <1>2, <1>7, <2>1
  <2>3. LabelAt(t, m, i, j, k) \in {"sign", "any2"} /\ LabelAt(t, m, i, j, k + 1) = "any2"
    <3>1. ~(k <= m) /\ ~(k <= i) /\ ~(k <= j) /\ k # j + 1
      BY <1>1, <1>4, <1>6, <1>8, <1>14
    <3>2. ~(k + 1 <= m) /\ ~(k + 1 <= i) /\ ~(k + 1 <= j) /\ k + 1 # j + 1 /\ k + 1 # j + 2
      BY <1>1, <1>4, <1>6, <1>8, <1>14
    <3> QED BY <3>1, <3>2 DEF LabelAt
  <2> QED BY <1>2, <1>3, <2>2, <2>3, Labels
<1> QED BY <1>1, <1>6, <1>8, <1>9, <1>10, <1>11, <1>12, <1>13, <1>14

LEMMA PathLast ==
  ASSUME NEW t \in Seq(Octet), NEW m, NEW i, NEW j, Parse(t, m, i, j)
  PROVE  LabelAt(t, m, i, j, Len(t)) \in {"zero", "any1", "decimal2", "any2"}
<1>n. PICK n \in Nat : n = Len(t)
  OBVIOUS
<1>1. /\ m \in {0, 1} /\ i \in 1 .. n /\ j \in 1 .. n
      /\ Integral(t, m, i) /\ Fractional(t, i, j) /\ (j = n \/ Powered(t, j, n))
  BY <1>n DEF Parse
<1>2. m < i
  BY <1>1 DEF Integral, DigitsIn
<1>3. i # j => i + 1 < j
  BY <1>1 DEF Fractional, DigitsIn
<1>4. j # n => j + 1 < n /\ (j + 2 = n => t[n] \in Digit)
  <2>1. CASE DigitsIn(t, j + 1, n)
    BY <1>1, <2>1 DEF DigitsIn
  <2>2. CASE DigitsIn(t, j + 2, n)
    BY <1>1, <2>2 DEF DigitsIn
  <2> QED BY <1>1, <2>1, <2>2 DEF Powered
<1>5. \A c \in Digit : c \notin {Plus, Minus}
  BY DEF Digit, Plus, Minus
<1>6. CASE j = n
  BY <1>1, <1>2, <1>3, <1>6, <1>n DEF LabelAt
<1>7. CASE j # n
  <2>1. ~(n <= m) /\ ~(n <= i) /\ ~(n <= j) /\ n # j + 1 /\ ~(n = j + 2 /\ t[n] \in {Plus, Minus})
    BY <1>1, <1>2, <1>3, <1>4, <1>5, <1>7
  <2> QED BY <1>n, <2>1 DEF LabelAt
<1> QED BY <1>6, <1>7
-----------------------------------------------------------------------------
IntegralTo(t, m, i) == m \in {0, 1} /\ i \in 1 .. Len(t) /\ Integral(t, m, i)
HeadTo(t, m, i, j) == IntegralTo(t, m, i) /\ j \in 1 .. Len(t) /\ Fractional(t, i, j)

\* What was read when scan_number() is at a label.
Reached(label, t) ==
  \/ label = "minus" /\ Len(t) = 1 /\ t[1] = Minus
  \/ label = "zero" /\ \E m : IntegralTo(t, m, Len(t)) /\ t[m + 1] = Zero
  \/ label = "any1" /\ \E m : IntegralTo(t, m, Len(t)) /\ t[m + 1] # Zero
  \/ label = "decimal1" /\ \E m : IntegralTo(t, m, Len(t) - 1) /\ t[Len(t)] = Point
  \/ label = "decimal2" /\ \E m, i : IntegralTo(t, m, i) /\ DigitsIn(t, i + 1, Len(t)) /\ t[i + 1] = Point
  \/ label = "exponent" /\ \E m, i : HeadTo(t, m, i, Len(t) - 1) /\ t[Len(t)] \in Exponent
  \/ label = "sign" /\ \E m, i : /\ HeadTo(t, m, i, Len(t) - 2) /\ t[Len(t) - 1] \in Exponent
                                 /\ t[Len(t)] \in {Plus, Minus}
  \/ label = "any2" /\ \E m, i, j : HeadTo(t, m, i, j) /\ Powered(t, j, Len(t))

LEMMA DigitsKept ==
  ASSUME NEW t \in Seq(Octet), NEW c \in Octet, NEW a \in Nat, NEW b \in Int, DigitsIn(t, a, b), b <= Len(t)
  PROVE  /\ DigitsIn(Append(t, c), a, b)
         /\ c \in Digit /\ b = Len(t) => DigitsIn(Append(t, c), a, Len(t) + 1)
<1> DEFINE u == Append(t, c)
<1>1. \A k \in 1 .. Len(t) : u[k] = t[k]
  OBVIOUS
<1>2. u[Len(t) + 1] = c
  OBVIOUS
<1> HIDE DEF u
<1>3. a < b /\ \A k \in a + 1 .. b : k \in 1 .. Len(t) /\ u[k] \in Digit
  BY <1>1 DEF DigitsIn
<1>4. DigitsIn(u, a, b)
  BY <1>3 DEF DigitsIn
<1>5. ASSUME c \in Digit, b = Len(t) PROVE DigitsIn(u, a, Len(t) + 1)
  <2>1. \A k \in a + 1 .. Len(t) + 1 : k \in a + 1 .. b \/ k = Len(t) + 1
    BY <1>5
  <2> QED BY <1>2, <1>3, <1>5, <2>1 DEF DigitsIn
<1> QED BY <1>4, <1>5 DEF u

LEMMA IntegralKept ==
  ASSUME NEW t \in Seq(Octet), NEW c \in Octet, NEW m, NEW i, IntegralTo(t, m, i)
  PROVE  /\ IntegralTo(Append(t, c), m, i)
         /\ Append(t, c)[m + 1] = t[m + 1]
<1>1. m \in {0, 1} /\ i \in 1 .. Len(t) /\ m < i /\ DigitsIn(t, m, i) /\ (m = 1 => t[1] = Minus) /\ (t[m + 1] = Zero => i = m + 1)
  BY DEF IntegralTo, Integral, DigitsIn
<1>2. \A k \in 1 .. Len(t) : Append(t, c)[k] = t[k]
  OBVIOUS
<1>3. m \in Nat /\ m + 1 \in 1 .. Len(t) /\ 1 \in 1 .. Len(t) /\ i <= Len(t) /\ i \in Int
  BY <1>1
<1>4. DigitsIn(Append(t, c), m, i)
  BY <1>1, <1>3, DigitsKept
<1>5. i \in 1 .. Len(Append(t, c))
  BY <1>1
<1> QED BY <1>1, <1>2, <1>3, <1>4, <1>5 DEF IntegralTo, Integral

LEMMA HeadKept ==
  ASSUME NEW t \in Seq(Octet), NEW c \in Octet, NEW m, NEW i, NEW j, HeadTo(t, m, i, j)
  PROVE  HeadTo(Append(t, c), m, i, j)
<1>1. IntegralTo(t, m, i) /\ i \in 1 .. Len(t) /\ j \in 1 .. Len(t)
      /\ (i # j => DigitsIn(t, i + 1, j) /\ t[i + 1] = Point)
  BY DEF HeadTo, IntegralTo, Fractional
<1>2. CASE i = j
  <2>1. j \in 1 .. Len(Append(t, c))
    BY <1>1
  <2> QED BY <1>1, <1>2, <2>1, IntegralKept DEF HeadTo, Fractional
<1>3. CASE i # j
  <2>1. i + 1 < j /\ i + 1 \in Nat /\ j \in Int /\ j <= Len(t) /\ i + 1 \in 1 .. Len(t) /\ j \in 1 .. Len(Append(t, c))
    BY <1>1, <1>3 DEF DigitsIn
  <2>2. DigitsIn(Append(t, c), i + 1, j)
    BY <1>1, <1>3, <2>1, DigitsKept
  <2>3. Append(t, c)[i + 1] = Point
    BY <1>1, <1>3, <2>1
  <2> QED BY <1>1, <2>1, <2>2, <2>3, IntegralKept DEF HeadTo, Fractional
<1> QED BY <1>2, <1>3

LEMMA LastDigit ==
  ASSUME NEW t \in Seq(Octet), NEW c \in Octet, c \in Digit
  PROVE  DigitsIn(Append(t, c), Len(t), Len(t) + 1)
<1>1. Append(t, c)[Len(t) + 1] = c /\ Len(t) \in Nat
  OBVIOUS
<1> QED BY <1>1 DEF DigitsIn

LEMMA ReachedFirst ==
  ASSUME NEW c \in Octet, c \in Digit \union {Minus}
  PROVE  Reached(NextLabel("init", c), <<c>>)
<1> DEFINE t == <<c>>
<1>1. t \in Seq(Octet) /\ Len(t) = 1 /\ t[1] = c /\ c \in Int
  BY Octets
<1> HIDE DEF t
<1>2. CASE c = Minus
  BY <1>1, <1>2, Labels DEF Reached, t
<1>3. CASE c \in Digit
  <2>1. DigitsIn(t, 0, 1)
    BY <1>1, <1>3 DEF DigitsIn
  <2>2. IntegralTo(t, 0, Len(t))
    BY <1>1, <2>1 DEF IntegralTo, Integral
  <2>3. t[0 + 1] = c
    BY <1>1
  <2>4. NextLabel("init", c) = IF c = Zero THEN "zero" ELSE "any1"
    BY <1>1, <1>3, Labels
  <2> QED BY <2>2, <2>3, <2>4 DEF Reached, t
<1> QED BY <1>2, <1>3

LEMMA ReachedStep ==
  ASSUME NEW t \in Seq(Octet), NEW c \in Octet, NEW label, Reached(label, t),
         NextLabel(label, c) \notin {"done", "error"}
  PROVE  Reached(NextLabel(label, c), Append(t, c))
<1> DEFINE u == Append(t, c)
<1>n. PICK n \in Nat : n = Len(t)
  OBVIOUS
<1>1. u \in Seq(Octet) /\ Len(u) = n + 1 /\ u[n + 1] = c /\ (\A k \in 1 .. n : u[k] = t[k]) /\ c \in Int
  BY <1>n, Octets
<1>2. c \in Digit => DigitsIn(u, n, n + 1)
  BY <1>n, LastDigit
<1>3. \A m, i : IntegralTo(t, m, i) => IntegralTo(u, m, i) /\ u[m + 1] = t[m + 1] /\ i \in 1 .. n
  BY <1>n, IntegralKept DEF IntegralTo
<1>4. \A m, i, j : HeadTo(t, m, i, j) => HeadTo(u, m, i, j) /\ j \in 1 .. n
  BY <1>n, HeadKept DEF HeadTo
<1>5. \A a \in Nat, b \in Int : DigitsIn(t, a, b) /\ b <= n => DigitsIn(u, a, b)
  BY <1>n, DigitsKept
<1>6. \A a \in Nat : DigitsIn(t, a, n) /\ c \in Digit => DigitsIn(u, a, n + 1)
  <2> SUFFICES ASSUME NEW a \in Nat, DigitsIn(t, a, Len(t)), c \in Digit PROVE DigitsIn(u, a, n + 1)
    BY <1>n
  <2>1. Len(t) \in Int /\ Len(t) <= Len(t)
    OBVIOUS
  <2> QED BY <1>n, <2>1, DigitsKept
<1> HIDE DEF u
<1>10. CASE label = "minus" /\ Len(t) = 1 /\ t[1] = Minus
  <2>1. c \in Digit
    BY <1>1, <1>10, Labels
  <2>2. n = 1 /\ n + 1 = 2 /\ u[1] = Minus
    BY <1>1, <1>10, <1>n
  <2>3. IntegralTo(u, 1, 2) /\ u[1 + 1] = c
    <3>1. DigitsIn(u, 1, 2)
      BY <1>2, <2>1, <2>2
    <3> QED BY <1>1, <2>2, <3>1 DEF IntegralTo, Integral
  <2>4. NextLabel(label, c) = IF c = Zero THEN "zero" ELSE "any1"
    BY <1>1, <1>10, <2>1, Labels
  <2> QED BY <1>1, <2>2, <2>3, <2>4 DEF Reached, u
<1>11. CASE label = "zero" /\ \E m : IntegralTo(t, m, Len(t)) /\ t[m + 1] = Zero
  <2>1. PICK m : IntegralTo(u, m, n) /\ n \in 1 .. n
    BY <1>3, <1>11, <1>n
  <2>2. Len(u) - 1 = n /\ Len(u) = n + 1
    BY <1>1
  <2>3. CASE c = Point
    <3>1. NextLabel(label, c) = "decimal1"
      BY <1>1, <1>11, <2>3, Labels
    <3> QED BY <1>1, <2>1, <2>2, <2>3, <3>1 DEF Reached, u
  <2>4. CASE c \in Exponent
    <3>1. NextLabel(label, c) = "exponent"
      BY <1>1, <1>11, <2>4, Labels
    <3>2. HeadTo(u, m, n, n)
      BY <2>1 DEF HeadTo, IntegralTo, Fractional
    <3> QED BY <1>1, <2>2, <2>4, <3>1, <3>2 DEF Reached, u
  <2> QED BY <1>1, <1>11, <2>3, <2>4, Labels
<1>12. CASE label = "any1" /\ \E m : IntegralTo(t, m, Len(t)) /\ t[m + 1] # Zero
  <2>1. PICK m : IntegralTo(u, m, n) /\ n \in 1 .. n /\ IntegralTo(t, m, n) /\ u[m + 1] # Zero
    BY <1>3, <1>12, <1>n
  <2>2. Len(u) - 1 = n /\ Len(u) = n + 1
    BY <1>1
  <2>3. CASE c = Point
    <3>1. NextLabel(label, c) = "decimal1"
      BY <1>1, <1>12, <2>3, Labels
    <3> QED BY <1>1, <2>1, <2>2, <2>3, <3>1 DEF Reached, u
  <2>4. CASE c \in Exponent
    <3>1. NextLabel(label, c) = "exponent"
      BY <1>1, <1>12, <2>4, Labels
    <3>2. HeadTo(u, m, n, n)
      BY <2>1 DEF HeadTo, IntegralTo, Fractional
    <3> QED BY <1>1, <2>2, <2>4, <3>1, <3>2 DEF Reached, u
  <2>5. CASE c \in Digit
    <3>1. NextLabel(label, c) = "any1"
      BY <1>1, <1>12, <2>5, Labels
    <3>2. m \in {0, 1} /\ (m = 1 => u[1] = Minus) /\ DigitsIn(t, m, n)
      BY <2>1 DEF IntegralTo, Integral
    <3>3. DigitsIn(u, m, n + 1)
      BY <1>6, <2>5, <3>2
    <3>4. IntegralTo(u, m, Len(u))
      BY <2>1, <2>2, <3>2, <3>3 DEF IntegralTo, Integral
    <3> QED BY <2>1, <3>1, <3>4 DEF Reached, u
  <2> QED BY <1>1, <1>12, <2>3, <2>4, <2>5, Labels
<1>13. CASE label = "decimal1" /\ \E m : IntegralTo(t, m, Len(t) - 1) /\ t[Len(t)] = Point
  <2>1. c \in Digit /\ NextLabel(label, c) = "decimal2"
    BY <1>1, <1>13, Labels
  <2>2. PICK m : IntegralTo(u, m, n - 1) /\ n - 1 \in 1 .. n /\ t[n] = Point
    BY <1>3, <1>13, <1>n
  <2>3. PICK i : i = n - 1
    OBVIOUS
  <2>4. i + 1 = n /\ n \in 1 .. n
    BY <2>2, <2>3
  <2>5. u[i + 1] = Point /\ DigitsIn(u, i + 1, Len(u))
    BY <1>1, <1>2, <2>1, <2>2, <2>4
  <2> QED BY <2>1, <2>2, <2>3, <2>5 DEF Reached, u
<1>14. CASE label = "decimal2" /\ \E m, i : IntegralTo(t, m, i) /\ DigitsIn(t, i + 1, Len(t)) /\ t[i + 1] = Point
  <2>1. PICK m, i : IntegralTo(u, m, i) /\ i \in 1 .. n /\ DigitsIn(t, i + 1, n) /\ t[i + 1] = Point
    BY <1>3, <1>14, <1>n
  <2>2. i + 1 \in 1 .. n /\ i + 1 \in Nat /\ n \in Int /\ n <= n
    BY <2>1 DEF DigitsIn
  <2>3. u[i + 1] = Point
    BY <1>1, <2>1, <2>2
  <2>4. CASE c \in Digit
    <3>1. NextLabel(label, c) = "decimal2"
      BY <1>1, <1>14, <2>4, Labels
    <3>2. DigitsIn(u, i + 1, Len(u))
      BY <1>1, <1>6, <2>1, <2>2, <2>4
    <3> QED BY <2>1, <2>3, <3>1, <3>2 DEF Reached, u
  <2>5. CASE c \in Exponent
    <3>1. NextLabel(label, c) = "exponent"
      BY <1>1, <1>14, <2>5, Labels
    <3>2. DigitsIn(u, i + 1, n)
      BY <1>5, <2>1, <2>2
    <3>3. Len(u) - 1 = n /\ n \in 1 .. Len(u)
      BY <1>1, <2>1
    <3>4. HeadTo(u, m, i, n)
      BY <2>1, <2>3, <3>2, <3>3 DEF HeadTo, Fractional
    <3> QED BY <1>1, <2>5, <3>1, <3>3, <3>4 DEF Reached, u
  <2> QED BY <1>1, <1>14, <2>4, <2>5, Labels
<1>15. CASE label = "exponent" /\ \E m, i : HeadTo(t, m, i, Len(t) - 1) /\ t[Len(t)] \in Exponent
  <2>1. PICK m, i : HeadTo(u, m, i, n - 1) /\ n - 1 \in 1 .. n /\ t[n] \in Exponent
    BY <1>4, <1>15, <1>n
  <2>2. PICK j \in Nat : j = n - 1
    BY <2>1
  <2>3. j + 1 = n /\ n \in 1 .. n /\ Len(u) - 2 = j /\ Len(u) - 1 = n
    BY <1>1, <2>1, <2>2
  <2>4. u[n] \in Exponent
    BY <1>1, <2>1, <2>3
  <2>5. CASE c \in Digit
    <3>1. NextLabel(label, c) = "any2"
      BY <1>1, <1>15, <2>5, Labels
    <3>2. Powered(u, j, Len(u))
      BY <1>1, <1>2, <2>3, <2>4, <2>5 DEF Powered
    <3> QED BY <2>1, <2>2, <3>1, <3>2 DEF Reached, u
  <2>6. CASE c \in {Plus, Minus}
    <3>1. NextLabel(label, c) = "sign"
      BY <1>1, <1>15, <2>6, Labels
    <3> QED BY <1>1, <2>1, <2>2, <2>3, <2>4, <2>6, <3>1 DEF Reached, u
  <2> QED BY <1>1, <1>15, <2>5, <2>6, Labels
<1>16. CASE label = "sign" /\ \E m, i : /\ HeadTo(t, m, i, Len(t) - 2) /\ t[Len(t) - 1] \in Exponent
                                        /\ t[Len(t)] \in {Plus, Minus}
  <2>1. PICK m, i : HeadTo(u, m, i, n - 2) /\ n - 2 \in 1 .. n /\ t[n - 1] \in Exponent /\ t[n] \in {Plus, Minus}
    BY <1>4, <1>16, <1>n
  <2>2. PICK j \in Nat : j = n - 2
    BY <2>1
  <2>3. j + 1 = n - 1 /\ j + 2 = n /\ n \in 1 .. n /\ n - 1 \in 1 .. n
    BY <2>1, <2>2
  <2>4. c \in Digit /\ NextLabel(label, c) = "any2"
    BY <1>1, <1>16, Labels
  <2>5. Powered(u, j, Len(u))
    BY <1>1, <1>2, <2>1, <2>3, <2>4 DEF Powered
  <2> QED BY <2>1, <2>2, <2>4, <2>5 DEF Reached, u
<1>17. CASE label = "any2" /\ \E m, i, j : HeadTo(t, m, i, j) /\ Powered(t, j, Len(t))
  <2>1. PICK m, i, j : HeadTo(u, m, i, j) /\ j \in 1 .. n /\ Powered(t, j, n)
    BY <1>4, <1>17, <1>n
  <2>2. c \in Digit /\ NextLabel(label, c) = "any2"
    BY <1>1, <1>17, Labels
  <2>3. CASE DigitsIn(t, j + 1, n)
    <3>1. j + 1 \in Nat /\ j + 1 \in 1 .. n
      BY <2>1, <2>3 DEF DigitsIn
    <3>2. DigitsIn(u, j + 1, Len(u)) /\ u[j + 1] \in Exponent
      BY <1>1, <1>6, <2>1, <2>2, <2>3, <3>1 DEF Powered
    <3> QED BY <2>1, <2>2, <3>2 DEF Reached, Powered, u
  <2>4. CASE DigitsIn(t, j + 2, n) /\ t[j + 2] \in {Plus, Minus}
    <3>1. j + 2 \in Nat /\ j + 2 \in 1 .. n /\ j + 1 \in 1 .. n
      BY <2>1, <2>4 DEF DigitsIn
    <3>2. DigitsIn(u, j + 2, Len(u)) /\ u[j + 1] \in Exponent /\ u[j + 2] \in {Plus, Minus}
      BY <1>1, <1>6, <2>1, <2>2, <2>4, <3>1 DEF Powered
    <3> QED BY <2>1, <2>2, <3>2 DEF Reached, Powered, u
  <2> QED BY <2>1, <2>3, <2>4 DEF Powered
<1> QED BY <1>10, <1>11, <1>12, <1>13, <1>14, <1>15, <1>16, <1>17 DEF Reached

LEMMA ReachedNumber ==
  ASSUME NEW t \in Seq(Octet), NEW label, Reached(label, t), NEW c \in Int,
         NextLabel(label, c) = "done" \/ label \in {"zero", "any1", "decimal2", "any2"}
  PROVE  IsNumber(t)
<1>n. PICK n \in Nat : n = Len(t)
  OBVIOUS
<1>1. label \in {"zero", "any1", "decimal2", "any2"}
  <2>1. label \notin {"minus", "decimal1", "exponent", "sign"} \/ NextLabel(label, c) # "done"
    BY Labels
  <2> QED BY <2>1 DEF Reached
<1>2. CASE \E m : IntegralTo(t, m, n)
  <2>1. PICK m : IntegralTo(t, m, n)
    BY <1>2
  <2>2. Parse(t, m, n, n)
    BY <1>n, <2>1 DEF IntegralTo, Parse, Fractional
  <2> QED BY <2>2, NumberParts
<1>3. CASE \E m, i : IntegralTo(t, m, i) /\ DigitsIn(t, i + 1, n) /\ t[i + 1] = Point
  <2>1. PICK m, i : IntegralTo(t, m, i) /\ DigitsIn(t, i + 1, n) /\ t[i + 1] = Point
    BY <1>3
  <2>2. i \in 1 .. n /\ n \in 1 .. n
    BY <1>n, <2>1 DEF IntegralTo
  <2>3. Parse(t, m, i, n)
    BY <1>n, <2>1, <2>2 DEF IntegralTo, Parse, Fractional
  <2> QED BY <2>3, NumberParts
<1>4. CASE \E m, i, j : HeadTo(t, m, i, j) /\ Powered(t, j, n)
  <2>1. PICK m, i, j : HeadTo(t, m, i, j) /\ Powered(t, j, n)
    BY <1>4
  <2>2. Parse(t, m, i, j)
    BY <1>n, <2>1 DEF IntegralTo, HeadTo, Parse
  <2> QED BY <2>2, NumberParts
<1> QED BY <1>1, <1>2, <1>3, <1>4, <1>n DEF Reached
-----------------------------------------------------------------------------
RunBytes == Digit \union Exponent \union {Plus, Minus, Point}

LEMMA Gets ==
  ASSUME input \in Seq(Octet), NEW i \in Nat \ {0}
  PROVE  /\ ByteAt(i) \in Int /\ -1 <= ByteAt(i) /\ ByteAt(i) < 256
         /\ i > Len(input) => ByteAt(i) = -1
         /\ i <= Len(input) => ByteAt(i) = input[i] /\ ByteAt(i) \in Octet
         /\ 0 <= ByteAt(i) => i <= Len(input)
<1>1. CASE i > Len(input)
  BY <1>1 DEF ByteAt, EOF
<1>2. CASE ~(i > Len(input))
  <2>1. i \in 1 .. Len(input) /\ ByteAt(i) = input[i] /\ i <= Len(input)
    BY <1>2 DEF ByteAt
  <2>2. input[i] \in Octet
    BY <2>1
  <2> QED BY <1>2, <2>1, <2>2, Octets
<1> QED BY <1>1, <1>2

LEMMA SkipFacts ==
  ASSUME input \in Seq(Octet), at \in Nat \ {0}, at <= Len(input) + 1
  PROVE  Skip \in Nat \ {0} /\ at <= Skip /\ Skip <= Len(input) + 1
<1> DEFINE S == {i \in at .. Len(input) + 1 : ByteAt(i) \notin White}
<1>1. Len(input) + 1 \in S
  <2>1. ByteAt(Len(input) + 1) = -1
    BY Gets
  <2> QED BY <2>1 DEF White
<1>2. S \in SUBSET Nat /\ S # {}
  BY <1>1
<1>3. Min(S) \in S
  BY <1>2, MinFacts
<1>4. Skip = Min(S)
  BY DEF Skip
<1> QED BY <1>3, <1>4

\* Where the run from i ends.
IsRunEnd(i, e) ==
  /\ e \in i .. Len(input) + 1 /\ RunFrom(i) = SubSeq(input, i, e - 1)
  /\ ByteAt(e) \notin RunBytes /\ \A k \in i .. e - 1 : ByteAt(k) \in RunBytes

LEMMA RunFacts ==
  ASSUME input \in Seq(Octet), NEW i \in Nat \ {0}, i <= Len(input) + 1
  PROVE  \E e : IsRunEnd(i, e)
<1> DEFINE S == {j \in i .. Len(input) + 1 : ByteAt(j) \notin Digit \union Exponent \union {Plus, Minus, Point}}
<1>1. Len(input) + 1 \in S
  <2>1. ByteAt(Len(input) + 1) = -1
    BY Gets
  <2> QED BY <2>1 DEF Digit, Exponent, Plus, Minus, Point
<1>2. S \in SUBSET Nat /\ S # {}
  BY <1>1
<1>3. PICK e : e = Min(S)
  OBVIOUS
<1>4. e \in S /\ \A y \in S : e <= y
  BY <1>2, <1>3, MinFacts
<1>5. RunFrom(i) = SubSeq(input, i, e - 1)
  BY <1>3 DEF RunFrom
<1>6. \A k \in i .. e - 1 : ByteAt(k) \in RunBytes
  <2> SUFFICES ASSUME NEW k \in i .. e - 1, ByteAt(k) \notin RunBytes PROVE FALSE
    OBVIOUS
  <2>1. k \in S /\ ~(e <= k)
    BY <1>4 DEF RunBytes
  <2> QED BY <1>4, <2>1
<1>7. e \in i .. Len(input) + 1 /\ ByteAt(e) \notin RunBytes
  BY <1>4 DEF RunBytes
<1> QED BY <1>5, <1>6, <1>7 DEF IsRunEnd

LEMMA SeqOfDigits ==
  ASSUME NEW s \in Seq(Octet), \A k \in 1 .. Len(s) : s[k] \in Digit
  PROVE  s \in Seq(Digit)
OBVIOUS

\* A number without "." and exponent is digits after the sign.
LEMMA WholeNumbers ==
  ASSUME NEW s \in Seq(Octet), IsNumber(s), \A i \in DOMAIN s : s[i] \in Digit \union {Minus}
  PROVE  /\ 1 \in DOMAIN s
         /\ s[1] = Minus => Tail(s) \in Seq(Digit) /\ Len(s) > 1
         /\ s[1] # Minus => s \in Seq(Digit)
<1>n. PICK n \in Nat : n = Len(s)
  OBVIOUS
<1>1. PICK m, i, j : Parse(s, m, i, j)
  BY NumberParts
<1>2. /\ m \in {0, 1} /\ i \in 1 .. n /\ j \in 1 .. n
      /\ Integral(s, m, i) /\ Fractional(s, i, j) /\ (j = n \/ Powered(s, j, n))
  BY <1>1, <1>n DEF Parse
<1>3. \A k \in 1 .. n : s[k] # Point /\ s[k] \notin Exponent
  BY <1>n DEF Digit, Minus, Point, Exponent
<1>4. i = j
  <2> SUFFICES ASSUME i # j PROVE FALSE
    OBVIOUS
  <2>1. i + 1 < j /\ s[i + 1] = Point
    BY <1>2 DEF Fractional, DigitsIn
  <2>2. i + 1 \in 1 .. n
    BY <1>2, <2>1
  <2> QED BY <1>3, <2>1, <2>2
<1>5. j = n
  <2> SUFFICES ASSUME j # n PROVE FALSE
    OBVIOUS
  <2>1. j + 1 \in 1 .. n
    BY <1>2
  <2> QED BY <1>2, <1>3, <2>1 DEF Powered
<1>6. m < n /\ (\A k \in m + 1 .. n : s[k] \in Digit) /\ (m = 1 => s[1] = Minus)
  BY <1>2, <1>4, <1>5 DEF Integral, DigitsIn
<1>7. Minus \notin Digit
  BY DEF Minus, Digit
<1>8. CASE m = 1
  <2>1. Len(Tail(s)) = n - 1 /\ \A k \in 1 .. n - 1 : Tail(s)[k] = s[k + 1]
    BY <1>n, <1>6, <1>8
  <2>2. \A k \in 1 .. n - 1 : Tail(s)[k] \in Digit
    BY <1>6, <1>8, <2>1
  <2>3. Tail(s) \in Seq(Octet)
    BY <1>n, <1>6, <1>8
  <2>4. Tail(s) \in Seq(Digit)
    <3>1. Len(Tail(s)) \in Nat /\ \A k \in 1 .. Len(Tail(s)) : Tail(s)[k] \in Digit
      BY <2>1, <2>2, <2>3
    <3> QED BY <2>3, <3>1, SeqOfDigits
  <2> QED BY <1>6, <1>7, <1>8, <1>n, <2>4
<1>9. CASE m = 0
  <2>1. \A k \in 1 .. n : s[k] \in Digit
    BY <1>6, <1>9
  <2>2. s \in Seq(Digit) /\ s[1] # Minus
    BY <1>6, <1>7, <1>9, <1>n, <2>1
  <2> QED BY <1>6, <1>9, <1>n, <2>2
<1> QED BY <1>2, <1>8, <1>9

LEMMA DigitsAreNatural ==
  ASSUME NEW s \in Seq(Digit)
  PROVE  s \in Seq(Int) /\ DigitsValue(s) \in Nat
<1>1. s \in Seq(Int)
  BY DEF Digit
<1> DEFINE T == {k \in Nat : k <= Len(s) => ValueTo(s)[k] \in Nat}
<1>2. 0 \in T
  BY <1>1, DigitsFacts
<1>3. ASSUME NEW k \in Nat, k \in T PROVE k + 1 \in T
  <2> SUFFICES ASSUME k + 1 <= Len(s) PROVE ValueTo(s)[k + 1] \in Nat
    OBVIOUS
  <2>1. k + 1 \in 1 .. Len(s) /\ k + 1 - 1 = k
    OBVIOUS
  <2>2. ValueTo(s)[k + 1] = 10 * ValueTo(s)[k] + (s[k + 1] - Zero)
    BY <1>1, <2>1, DigitsFacts
  <2>3. ValueTo(s)[k] \in Nat
    BY <1>3, <2>1
  <2>4. s[k + 1] \in Digit
    BY <2>1
  <2>5. PICK v \in Nat, d \in Digit : v = ValueTo(s)[k] /\ d = s[k + 1]
    BY <2>3, <2>4
  <2>6. 10 * v + (d - Zero) \in Nat
    BY DEF Digit, Zero
  <2> QED BY <2>2, <2>5, <2>6
<1>4. Nat \subseteq T
  <2> HIDE DEF T
  <2> QED BY <1>2, <1>3, Induction
<1>5. Len(s) \in Nat
  OBVIOUS
<1> QED BY <1>1, <1>4, <1>5, DigitsFacts

LEMMA NumberTokenType ==
  ASSUME NEW s \in Seq(Octet), IsNumber(s)
  PROVE  /\ TokenOK(NumberToken(s)) /\ NumberToken(s) = TokenOf(NumberToken(s).type, NumberToken(s).value)
         /\ NumberToken(s).type \in {"value_unsigned", "value_integer", "value_float"}
<1>0. MaxInteger \in Nat /\ MaxUnsigned = 2 * MaxInteger + 1
  BY WidthAssumption
<1>1. PICK n : n = DigitsValue(IF s[1] = Minus THEN Tail(s) ELSE s)
  OBVIOUS
<1>2. PICK whole \in BOOLEAN : whole <=> \A i \in DOMAIN s : s[i] \in Digit \union {Minus}
  OBVIOUS
<1>3. whole => n \in Nat
  BY <1>1, <1>2, WholeNumbers, DigitsAreNatural
<1>4. CASE whole /\ s[1] # Minus /\ n <= MaxUnsigned
  <2>1. NumberToken(s) = TokenOf("value_unsigned", n)
    BY <1>1, <1>2, <1>4 DEF NumberToken
  <2> QED BY <1>0, <1>3, <1>4, <2>1 DEF TokenOK, TokenOf
<1>5. CASE whole /\ s[1] = Minus /\ n <= MaxInteger + 1
  <2>1. NumberToken(s) = TokenOf("value_integer", -n)
    BY <1>1, <1>2, <1>5 DEF NumberToken
  <2>2. -n \in Int /\ -(MaxInteger + 1) <= -n /\ -n <= MaxInteger
    BY <1>0, <1>3, <1>5
  <2> QED BY <2>1, <2>2 DEF TokenOK, TokenOf
<1>6. CASE ~(whole /\ s[1] # Minus /\ n <= MaxUnsigned) /\ ~(whole /\ s[1] = Minus /\ n <= MaxInteger + 1)
  <2>1. NumberToken(s) = TokenOf("value_float", s)
    BY <1>1, <1>2, <1>6 DEF NumberToken
  <2> QED BY <2>1 DEF TokenOK, TokenOf
<1> QED BY <1>4, <1>5, <1>6
-----------------------------------------------------------------------------
LexTypeOK ==
  /\ input \in Seq(Octet) /\ at \in Nat \ {0} /\ start \in Nat \ {0} /\ token_buffer \in Seq(Octet)
  /\ lexing \in {"idle", "string", "number", "token", "thrown"}
  /\ TokenOK(token) /\ (dumped = <<>> \/ \E t : TokenOK(t) /\ IsValue(t) /\ dumped = <<t>>)

PlaceOK ==
  /\ lexing \in {"idle", "string", "number"} => at <= Len(input) + 1
  /\ lexing \in {"string", "number"} => start < at

StringOK == lexing = "string" => IsUtf8(token_buffer) /\ ByteAt(start) = Quote

NumberOK ==
  lexing = "number" =>
    /\ token_buffer = SubSeq(input, start, at - 1) /\ Reached(number, token_buffer)
    /\ \A k \in start .. at - 1 : ByteAt(k) \in RunBytes
    /\ \A m, i, j : Parse(RunFrom(start), m, i, j) => number = LabelAt(RunFrom(start), m, i, j, at - start)

\* Inductive: what the scanner has read is a prefix of a string or of a number.
LexInv == LexTypeOK /\ PlaceOK /\ StringOK /\ NumberOK /\ StringsAreUtf8 /\ NumbersFollowTheGrammar

LEMMA FoundKeeps ==
  ASSUME LexInv, NEW type, NEW value, NEW next, NEW from, Found(type, value, next),
         start' = from, from \in Nat \ {0}, next \in Nat \ {0}, token_buffer' \in Seq(Octet),
         TokenOK(TokenOf(type, value)), type = "value_string" => IsUtf8(value),
         ByteAt(from) \in Digit \union {Minus} =>
           IF type = "parse_error" THEN ~IsNumber(RunFrom(from)) ELSE IsNumber(SubSeq(input, from, next - 1))
  PROVE  LexInv'
<1>1. lexing' = "token" /\ token' = TokenOf(type, value) /\ at' = next /\ input' = input /\ dumped' = dumped
  BY DEF Found
<1>2. LexTypeOK'
  BY <1>1 DEF LexInv, LexTypeOK
<1>3. PlaceOK' /\ StringOK' /\ NumberOK'
  BY <1>1 DEF PlaceOK, StringOK, NumberOK
<1>4. StringsAreUtf8'
  BY <1>1 DEF StringsAreUtf8, TokenOf
<1>5. NumbersFollowTheGrammar'
  <2>1. ByteAt(start)' = ByteAt(from) /\ RunFrom(start)' = RunFrom(from)
    BY <1>1 DEF ByteAt, RunFrom
  <2> QED BY <1>1, <2>1 DEF NumbersFollowTheGrammar, TokenOf
<1> QED BY <1>2, <1>3, <1>4, <1>5 DEF LexInv

LEMMA AddKeeps ==
  ASSUME LexInv, lexing = "string", NEW bytes \in Seq(Octet), NEW next \in Nat, Add(bytes, next),
         Len(bytes) \in 1 .. 4, IsCharacter(bytes), at < next, next <= Len(input) + 1
  PROVE  LexInv'
<1>1. /\ token_buffer' = token_buffer \o bytes /\ at' = next /\ input' = input /\ lexing' = "string"
      /\ start' = start /\ number' = number /\ token' = token /\ dumped' = dumped
  BY DEF Add
<1>2. token_buffer \o bytes \in Seq(Octet) /\ IsUtf8(token_buffer \o bytes)
  BY CharacterMore DEF LexInv, LexTypeOK, StringOK
<1>3. LexTypeOK'
  BY <1>1, <1>2 DEF LexInv, LexTypeOK
<1>4. PlaceOK'
  BY <1>1 DEF LexInv, LexTypeOK, PlaceOK
<1>5. StringOK'
  <2>1. ByteAt(start)' = ByteAt(start)
    BY <1>1 DEF ByteAt
  <2> QED BY <1>1, <1>2, <2>1 DEF LexInv, StringOK
<1>6. NumberOK' /\ NumbersFollowTheGrammar'
  BY <1>1 DEF NumberOK, NumbersFollowTheGrammar
<1>7. StringsAreUtf8'
  BY <1>1 DEF LexInv, StringsAreUtf8
<1> QED BY <1>3, <1>4, <1>5, <1>6, <1>7 DEF LexInv

LEMMA ErrorInString ==
  ASSUME LexInv, lexing = "string", NEW next \in Nat \ {0}, ParseError(next), start' = start
  PROVE  LexInv'
<1>1. ByteAt(start) = Quote /\ start \in Nat \ {0} /\ token_buffer' \in Seq(Octet) /\ Found("parse_error", <<>>, next)
  BY DEF LexInv, StringOK, LexTypeOK, ParseError
<1>2. ByteAt(start) \notin Digit \union {Minus}
  BY <1>1 DEF Quote, Digit, Minus
<1>3. TokenOK(TokenOf("parse_error", <<>>))
  BY DEF TokenOK, TokenOf
<1> QED BY <1>1, <1>2, <1>3, FoundKeeps

LEMMA ScanOneKeeps ==
  ASSUME LexInv, ScanOne
  PROVE  LexInv'
<1>1. at \in Nat \ {0} /\ at <= Len(input) + 1 /\ input \in Seq(Octet) /\ token_buffer \in Seq(Octet)
  BY DEF LexInv, LexTypeOK, PlaceOK, ScanOne
<1>2. Skip \in Nat \ {0} /\ start' = Skip /\ token_buffer' = token_buffer
  BY <1>1, SkipFacts DEF ScanOne
<1>3. DOMAIN Structural = {91, 93, 123, 125, 58, 44} /\ DOMAIN Literal = {116, 102, 110}
  BY DEF Structural, Literal
<1>4. \A c \in {91, 93, 123, 125, 58, 44} :
        Structural[c] \in {"begin_array", "end_array", "begin_object", "end_object", "name_separator", "value_separator"}
  BY DEF Structural
<1>5. \A c \in {116, 102, 110} : Len(Literal[c]) \in Nat
  BY DEF Literal
<1>6. PICK c : c = ByteAt(Skip)
  OBVIOUS
<1>7. ASSUME NEW type, NEW value, NEW next \in Nat \ {0}, Found(type, value, next),
             type \notin {"value_string", "value_unsigned", "value_integer", "value_float"},
             c \notin Digit \union {Minus}
      PROVE  LexInv'
  <2>1. TokenOK(TokenOf(type, value))
    BY <1>7 DEF TokenOK, TokenOf
  <2> QED BY <1>1, <1>2, <1>6, <1>7, <2>1, FoundKeeps
<1>8. CASE c \in DOMAIN Structural /\ Found(Structural[c], <<>>, Skip + 1)
  <2>1. c \notin Digit \union {Minus}
    BY <1>3, <1>8 DEF Digit, Minus
  <2>2. Structural[c] \notin {"value_string", "value_unsigned", "value_integer", "value_float"}
    BY <1>3, <1>4, <1>8
  <2> QED BY <1>2, <1>7, <1>8, <2>1, <2>2
<1>9. CASE c \in DOMAIN Literal /\ \/ Found("literal", Literal[c], Skip + Len(Literal[c]))
                                   \/ Found("parse_error", <<>>, Skip + 1)
  <2>1. c \notin Digit \union {Minus}
    BY <1>3, <1>9 DEF Digit, Minus
  <2>2. Skip + 1 \in Nat \ {0} /\ Skip + Len(Literal[c]) \in Nat \ {0}
    BY <1>2, <1>3, <1>5, <1>9
  <2> QED BY <1>7, <1>9, <2>1, <2>2
<1>10. CASE c \in {EOF, 0} /\ Found("end_of_input", <<>>, Skip + 1)
  <2>1. c \notin Digit \union {Minus}
    BY <1>10 DEF Digit, Minus, EOF
  <2> QED BY <1>2, <1>7, <1>10, <2>1
<1>11. CASE /\ c \notin DOMAIN Structural \union DOMAIN Literal \union {EOF, 0, Quote, Minus} \union Digit
            /\ Found("parse_error", <<>>, Skip + 1)
  BY <1>2, <1>7, <1>11
<1> QED BY <1>6, <1>8, <1>9, <1>10, <1>11 DEF ScanOne

LEMMA BeginStringKeeps ==
  ASSUME LexInv, BeginString
  PROVE  LexInv'
<1>1. at \in Nat \ {0} /\ at <= Len(input) + 1 /\ input \in Seq(Octet)
  BY DEF LexInv, LexTypeOK, PlaceOK, BeginString
<1>2. Skip \in Nat \ {0}
  BY <1>1, SkipFacts
<1>3. ByteAt(Skip) = Quote /\ Quote = 34
  BY DEF BeginString, Quote
<1>4. Skip <= Len(input)
  BY <1>1, <1>2, <1>3, Gets
<1>5. /\ lexing' = "string" /\ start' = Skip /\ at' = Skip + 1 /\ token_buffer' = <<>>
      /\ input' = input /\ token' = token /\ dumped' = dumped
  BY DEF BeginString
<1>6. LexTypeOK'
  BY <1>2, <1>5 DEF LexInv, LexTypeOK
<1>7. PlaceOK'
  BY <1>1, <1>2, <1>4, <1>5 DEF PlaceOK
<1>8. StringOK'
  <2>1. ByteAt(start)' = ByteAt(Skip)
    BY <1>5 DEF ByteAt
  <2> QED BY <1>3, <1>5, <2>1, EmptyIsUtf8 DEF StringOK
<1>9. NumberOK' /\ NumbersFollowTheGrammar'
  BY <1>5 DEF NumberOK, NumbersFollowTheGrammar
<1>10. StringsAreUtf8'
  BY <1>5 DEF LexInv, StringsAreUtf8
<1> QED BY <1>6, <1>7, <1>8, <1>9, <1>10 DEF LexInv

LEMMA EndStringKeeps ==
  ASSUME LexInv, EndString
  PROVE  LexInv'
<1>1. /\ IsUtf8(token_buffer) /\ ByteAt(start) = Quote /\ start \in Nat \ {0} /\ at + 1 \in Nat \ {0}
      /\ token_buffer \in Seq(Octet)
  BY DEF LexInv, LexTypeOK, StringOK, EndString
<1>2. Found("value_string", token_buffer, at + 1) /\ start' = start /\ token_buffer' = token_buffer
  BY DEF EndString
<1>3. ByteAt(start) \notin Digit \union {Minus}
  BY <1>1 DEF Quote, Digit, Minus
<1>4. TokenOK(TokenOf("value_string", token_buffer))
  BY <1>1 DEF TokenOK, TokenOf
<1> QED BY <1>1, <1>2, <1>3, <1>4, FoundKeeps

LEMMA BadByteKeeps ==
  ASSUME LexInv, BadByte
  PROVE  LexInv'
<1>1. lexing = "string" /\ ParseError(at + 1) /\ start' = start /\ at + 1 \in Nat \ {0}
  BY DEF BadByte, LexInv, LexTypeOK
<1>2. PICK next \in Nat \ {0} : next = at + 1
  BY <1>1
<1> QED BY <1>1, <1>2, ErrorInString

LEMMA OneByteKeeps ==
  ASSUME LexInv, lexing = "string", NEW b \in Octet, b < 128, NEW next \in Nat, Add(<<b>>, next),
         at < next, next <= Len(input) + 1
  PROVE  LexInv'
<1>1. <<b>> \in Seq(Octet) /\ Len(<<b>>) = 1 /\ <<b>>[1] = b
  OBVIOUS
<1>2. IsCharacter(<<b>>)
  BY <1>1, Characters
<1>3. PICK bytes \in Seq(Octet) : bytes = <<b>>
  BY <1>1
<1>4. Add(bytes, next) /\ Len(bytes) \in 1 .. 4 /\ IsCharacter(bytes)
  BY <1>1, <1>2, <1>3
<1> HIDE <1>1, <1>2, <1>3
<1> QED BY <1>4, AddKeeps

LEMMA PlainByteKeeps ==
  ASSUME LexInv, PlainByte
  PROVE  LexInv'
<1>1. /\ lexing = "string" /\ Current \in 32 .. 127 /\ Add(<<Current>>, at + 1)
      /\ at \in Nat \ {0} /\ input \in Seq(Octet)
  BY DEF PlainByte, LexInv, LexTypeOK
<1>2. Current \in Octet /\ Current < 128 /\ at <= Len(input)
  <2>1. ByteAt(at) \in 32 .. 127
    BY <1>1 DEF Current
  <2>2. at <= Len(input)
    <3>1. PICK v : v = ByteAt(at)
      OBVIOUS
    <3>2. 0 <= v
      BY <2>1, <3>1
    <3> QED BY <1>1, <3>1, <3>2, Gets
  <2>3. ByteAt(at) \in Octet
    BY <1>1, <2>2, Gets
  <2>4. PICK v \in 32 .. 127 : v = ByteAt(at)
    BY <2>1
  <2>5. v < 128
    OBVIOUS
  <2> QED BY <2>2, <2>3, <2>4, <2>5 DEF Current
<1>3. at + 1 \in Nat /\ at < at + 1 /\ at + 1 <= Len(input) + 1
  BY <1>1, <1>2
<1> QED BY <1>1, <1>2, <1>3, OneByteKeeps

\* The ranges of the lexer, byte by byte.
LEMMA RangesTable ==
  ASSUME NEW b \in Int
  PROVE  /\ b \in 194 .. 223 => Ranges(b) = <<128 .. 191>>
         /\ b = 224 => Ranges(b) = <<160 .. 191, 128 .. 191>>
         /\ b = 237 => Ranges(b) = <<128 .. 159, 128 .. 191>>
         /\ b \in 225 .. 239 \ {237} => Ranges(b) = <<128 .. 191, 128 .. 191>>
         /\ b = 240 => Ranges(b) = <<144 .. 191, 128 .. 191, 128 .. 191>>
         /\ b \in 241 .. 243 => Ranges(b) = <<128 .. 191, 128 .. 191, 128 .. 191>>
         /\ b = 244 => Ranges(b) = <<128 .. 143, 128 .. 191, 128 .. 191>>
         /\ b \notin 194 .. 223 \union 225 .. 239 \union 241 .. 243 \union {224, 240, 244} =>
              Ranges(b) = <<>>
<1>1. ASSUME b \in 194 .. 223 PROVE Ranges(b) = <<128 .. 191>>
  <2>1. /\ b \in 194 .. 223
        /\ ~(b = 224)
        /\ ~(b = 237)
        /\ ~(b \in 225 .. 239 \ {237})
        /\ ~(b = 240)
        /\ ~(b \in 241 .. 243)
        /\ ~(b = 244)
    BY <1>1
  <2> QED BY <2>1, SMTT(60) DEF Ranges
<1>2. ASSUME b = 224 PROVE Ranges(b) = <<160 .. 191, 128 .. 191>>
  <2>1. /\ ~(b \in 194 .. 223)
        /\ b = 224
        /\ ~(b = 237)
        /\ ~(b \in 225 .. 239 \ {237})
        /\ ~(b = 240)
        /\ ~(b \in 241 .. 243)
        /\ ~(b = 244)
    BY <1>2
  <2> QED BY <2>1, SMTT(60) DEF Ranges
<1>3. ASSUME b = 237 PROVE Ranges(b) = <<128 .. 159, 128 .. 191>>
  <2>1. /\ ~(b \in 194 .. 223)
        /\ ~(b = 224)
        /\ b = 237
        /\ ~(b \in 225 .. 239 \ {237})
        /\ ~(b = 240)
        /\ ~(b \in 241 .. 243)
        /\ ~(b = 244)
    BY <1>3
  <2> QED BY <2>1, SMTT(60) DEF Ranges
<1>4. ASSUME b \in 225 .. 239 \ {237} PROVE Ranges(b) = <<128 .. 191, 128 .. 191>>
  <2>1. /\ ~(b \in 194 .. 223)
        /\ ~(b = 224)
        /\ ~(b = 237)
        /\ b \in 225 .. 239 \ {237}
        /\ ~(b = 240)
        /\ ~(b \in 241 .. 243)
        /\ ~(b = 244)
    BY <1>4
  <2> QED BY <2>1, SMTT(60) DEF Ranges
<1>5. ASSUME b = 240 PROVE Ranges(b) = <<144 .. 191, 128 .. 191, 128 .. 191>>
  <2>1. /\ ~(b \in 194 .. 223)
        /\ ~(b = 224)
        /\ ~(b = 237)
        /\ ~(b \in 225 .. 239 \ {237})
        /\ b = 240
        /\ ~(b \in 241 .. 243)
        /\ ~(b = 244)
    BY <1>5
  <2> QED BY <2>1, SMTT(60) DEF Ranges
<1>6. ASSUME b \in 241 .. 243 PROVE Ranges(b) = <<128 .. 191, 128 .. 191, 128 .. 191>>
  <2>1. /\ ~(b \in 194 .. 223)
        /\ ~(b = 224)
        /\ ~(b = 237)
        /\ ~(b \in 225 .. 239 \ {237})
        /\ ~(b = 240)
        /\ b \in 241 .. 243
        /\ ~(b = 244)
    BY <1>6
  <2>2. CASE b = 241
    BY <2>2, SMTT(60) DEF Ranges
  <2>3. CASE b = 242
    BY <2>3, SMTT(60) DEF Ranges
  <2>4. CASE b = 243
    BY <2>4, SMTT(60) DEF Ranges
  <2>5. b = 241 \/ b = 242 \/ b = 243
    BY <1>6
  <2> QED BY <2>2, <2>3, <2>4, <2>5, Zenon
<1>7. ASSUME b = 244 PROVE Ranges(b) = <<128 .. 143, 128 .. 191, 128 .. 191>>
  <2>1. /\ ~(b \in 194 .. 223)
        /\ ~(b = 224)
        /\ ~(b = 237)
        /\ ~(b \in 225 .. 239 \ {237})
        /\ ~(b = 240)
        /\ ~(b \in 241 .. 243)
        /\ b = 244
    BY <1>7
  <2> QED BY <2>1, SMTT(60) DEF Ranges
<1>8. ASSUME b \notin 194 .. 223 \union 225 .. 239 \union 241 .. 243 \union {224, 240, 244}
      PROVE  Ranges(b) = <<>>
  BY <1>8 DEF Ranges
<1> QED BY <1>1, <1>2, <1>3, <1>4, <1>5, <1>6, <1>7, <1>8

\* They are the shapes of characters.
LEMMA RangesFacts ==
  ASSUME NEW b \in Int, Ranges(b) # <<>>
  PROVE  \/ Len(Ranges(b)) = 1 /\ DOMAIN Ranges(b) = 1 .. 1 /\ \A c \in Ranges(b)[1] : Shape2(b, c)
         \/ /\ Len(Ranges(b)) = 2 /\ DOMAIN Ranges(b) = 1 .. 2
            /\ \A c \in Ranges(b)[1], d \in Ranges(b)[2] : Shape3(b, c, d)
         \/ /\ Len(Ranges(b)) = 3 /\ DOMAIN Ranges(b) = 1 .. 3
            /\ \A c \in Ranges(b)[1], d \in Ranges(b)[2], e \in Ranges(b)[3] : Shape4(b, c, d, e)
<1> DEFINE One   == Len(Ranges(b)) = 1 /\ DOMAIN Ranges(b) = 1 .. 1 /\ \A c \in Ranges(b)[1] : Shape2(b, c)
           Two   == /\ Len(Ranges(b)) = 2 /\ DOMAIN Ranges(b) = 1 .. 2
                    /\ \A c \in Ranges(b)[1], d \in Ranges(b)[2] : Shape3(b, c, d)
           Three == /\ Len(Ranges(b)) = 3 /\ DOMAIN Ranges(b) = 1 .. 3
                    /\ \A c \in Ranges(b)[1], d \in Ranges(b)[2], e \in Ranges(b)[3] : Shape4(b, c, d, e)
<1> SUFFICES One \/ Two \/ Three
  OBVIOUS
<1>1. ASSUME NEW P, Ranges(b) = <<P>>, \A c \in P : Shape2(b, c) PROVE One
  BY <1>1
<1>2. ASSUME NEW P, NEW Q, Ranges(b) = <<P, Q>>, \A c \in P, d \in Q : Shape3(b, c, d) PROVE Two
  BY <1>2
<1>3. ASSUME NEW P, NEW Q, NEW R, Ranges(b) = <<P, Q, R>>, \A c \in P, d \in Q, e \in R : Shape4(b, c, d, e)
      PROVE  Three
  BY <1>3
<1> HIDE DEF One, Two, Three
<1>4. CASE b \in 194 .. 223
  <2>1. Ranges(b) = <<128 .. 191>>
    BY <1>4, RangesTable, ZenonT(30)
  <2>2. \A c \in 128 .. 191 : Shape2(b, c)
    BY <1>4 DEF Shape2, Tail1
  <2> QED BY <1>1, <2>1, <2>2, ZenonT(30)
<1>5. CASE b = 224
  <2>1. Ranges(b) = <<160 .. 191, 128 .. 191>>
    BY <1>5, RangesTable, ZenonT(30)
  <2>2. \A c \in 160 .. 191, d \in 128 .. 191 : Shape3(b, c, d)
    BY <1>5 DEF Shape3, Tail1
  <2> QED BY <1>2, <2>1, <2>2, ZenonT(30)
<1>6. CASE b = 237
  <2>1. Ranges(b) = <<128 .. 159, 128 .. 191>>
    BY <1>6, RangesTable, ZenonT(30)
  <2>2. \A c \in 128 .. 159, d \in 128 .. 191 : Shape3(b, c, d)
    BY <1>6 DEF Shape3, Tail1
  <2> QED BY <1>2, <2>1, <2>2, ZenonT(30)
<1>7. CASE b \in 225 .. 239 \ {237}
  <2>1. Ranges(b) = <<128 .. 191, 128 .. 191>>
    BY <1>7, RangesTable, ZenonT(30)
  <2>2. \A c \in 128 .. 191, d \in 128 .. 191 : Shape3(b, c, d)
    BY <1>7 DEF Shape3, Tail1
  <2> QED BY <1>2, <2>1, <2>2, ZenonT(30)
<1>8. CASE b = 240
  <2>1. Ranges(b) = <<144 .. 191, 128 .. 191, 128 .. 191>>
    BY <1>8, RangesTable, ZenonT(30)
  <2>2. \A c \in 144 .. 191, d \in 128 .. 191, e \in 128 .. 191 : Shape4(b, c, d, e)
    BY <1>8 DEF Shape4, Tail1
  <2> QED BY <1>3, <2>1, <2>2, ZenonT(30)
<1>9. CASE b \in 241 .. 243
  <2>1. Ranges(b) = <<128 .. 191, 128 .. 191, 128 .. 191>>
    BY <1>9, RangesTable, ZenonT(30)
  <2>2. \A c \in 128 .. 191, d \in 128 .. 191, e \in 128 .. 191 : Shape4(b, c, d, e)
    BY <1>9 DEF Shape4, Tail1
  <2> QED BY <1>3, <2>1, <2>2, ZenonT(30)
<1>10. CASE b = 244
  <2>1. Ranges(b) = <<128 .. 143, 128 .. 191, 128 .. 191>>
    BY <1>10, RangesTable, ZenonT(30)
  <2>2. \A c \in 128 .. 143, d \in 128 .. 191, e \in 128 .. 191 : Shape4(b, c, d, e)
    BY <1>10 DEF Shape4, Tail1
  <2> QED BY <1>3, <2>1, <2>2, ZenonT(30)
<1>11. CASE b \notin 194 .. 223 \union 225 .. 239 \union 241 .. 243 \union {224, 240, 244}
  BY <1>11, RangesTable, ZenonT(30)
<1> QED BY <1>4, <1>5, <1>6, <1>7, <1>8, <1>9, <1>10, <1>11

LEMMA ShapesAreRanges ==
  ASSUME NEW b \in Int, NEW c \in Int, NEW d \in Int, NEW e \in Int
  PROVE  /\ Shape2(b, c) => Ranges(b) # <<>> /\ Len(Ranges(b)) = 1 /\ DOMAIN Ranges(b) = {1} /\ c \in Ranges(b)[1]
         /\ Shape3(b, c, d) => /\ Ranges(b) # <<>> /\ Len(Ranges(b)) = 2 /\ DOMAIN Ranges(b) = {1, 2}
                               /\ c \in Ranges(b)[1] /\ d \in Ranges(b)[2]
         /\ Shape4(b, c, d, e) => /\ Ranges(b) # <<>> /\ Len(Ranges(b)) = 3 /\ DOMAIN Ranges(b) = {1, 2, 3}
                                  /\ c \in Ranges(b)[1] /\ d \in Ranges(b)[2] /\ e \in Ranges(b)[3]
<1>1. ASSUME NEW P, Ranges(b) = <<P>>
      PROVE  Ranges(b) # <<>> /\ Len(Ranges(b)) = 1 /\ DOMAIN Ranges(b) = {1} /\ Ranges(b)[1] = P
  BY <1>1
<1>2. ASSUME NEW P, NEW Q, Ranges(b) = <<P, Q>>
      PROVE  /\ Ranges(b) # <<>> /\ Len(Ranges(b)) = 2 /\ DOMAIN Ranges(b) = {1, 2}
             /\ Ranges(b)[1] = P /\ Ranges(b)[2] = Q
  BY <1>2
<1>3. ASSUME NEW P, NEW Q, NEW R, Ranges(b) = <<P, Q, R>>
      PROVE  /\ Ranges(b) # <<>> /\ Len(Ranges(b)) = 3 /\ DOMAIN Ranges(b) = {1, 2, 3}
             /\ Ranges(b)[1] = P /\ Ranges(b)[2] = Q /\ Ranges(b)[3] = R
  BY <1>3
<1>4. ASSUME Shape2(b, c)
      PROVE  Ranges(b) # <<>> /\ Len(Ranges(b)) = 1 /\ DOMAIN Ranges(b) = {1} /\ c \in Ranges(b)[1]
  <2>1. CASE b \in 194 .. 223
    <3>1. Ranges(b) = <<128 .. 191>>
      BY <2>1, RangesTable, ZenonT(30)
    <3>2. c \in 128 .. 191
      BY <1>4, <2>1 DEF Shape2, Tail1
    <3> QED BY <1>1, <3>1, <3>2
  <2> QED BY <1>4, <2>1 DEF Shape2
<1>5. ASSUME Shape3(b, c, d)
      PROVE  /\ Ranges(b) # <<>> /\ Len(Ranges(b)) = 2 /\ DOMAIN Ranges(b) = {1, 2}
             /\ c \in Ranges(b)[1] /\ d \in Ranges(b)[2]
  <2>1. CASE b = 224
    <3>1. Ranges(b) = <<160 .. 191, 128 .. 191>>
      BY <2>1, RangesTable, ZenonT(30)
    <3>2. c \in 160 .. 191 /\ d \in 128 .. 191
      BY <1>5, <2>1 DEF Shape3, Tail1
    <3> QED BY <1>2, <3>1, <3>2
  <2>2. CASE b = 237
    <3>1. Ranges(b) = <<128 .. 159, 128 .. 191>>
      BY <2>2, RangesTable, ZenonT(30)
    <3>2. c \in 128 .. 159 /\ d \in 128 .. 191
      BY <1>5, <2>2 DEF Shape3, Tail1
    <3> QED BY <1>2, <3>1, <3>2
  <2>3. CASE b \in 225 .. 239 \ {237}
    <3>1. Ranges(b) = <<128 .. 191, 128 .. 191>>
      BY <2>3, RangesTable, ZenonT(30)
    <3>2. c \in 128 .. 191 /\ d \in 128 .. 191
      BY <1>5, <2>3 DEF Shape3, Tail1
    <3> QED BY <1>2, <3>1, <3>2
  <2> QED BY <1>5, <2>1, <2>2, <2>3 DEF Shape3
<1>6. ASSUME Shape4(b, c, d, e)
      PROVE  /\ Ranges(b) # <<>> /\ Len(Ranges(b)) = 3 /\ DOMAIN Ranges(b) = {1, 2, 3}
             /\ c \in Ranges(b)[1] /\ d \in Ranges(b)[2] /\ e \in Ranges(b)[3]
  <2>1. CASE b = 240
    <3>1. Ranges(b) = <<144 .. 191, 128 .. 191, 128 .. 191>>
      BY <2>1, RangesTable, ZenonT(30)
    <3>2. c \in 144 .. 191 /\ d \in 128 .. 191 /\ e \in 128 .. 191
      BY <1>6, <2>1 DEF Shape4, Tail1
    <3> QED BY <1>3, <3>1, <3>2
  <2>2. CASE b \in 241 .. 243
    <3>1. Ranges(b) = <<128 .. 191, 128 .. 191, 128 .. 191>>
      BY <2>2, RangesTable, ZenonT(30)
    <3>2. c \in 128 .. 191 /\ d \in 128 .. 191 /\ e \in 128 .. 191
      BY <1>6, <2>2 DEF Shape4, Tail1
    <3> QED BY <1>3, <3>1, <3>2
  <2>3. CASE b = 244
    <3>1. Ranges(b) = <<128 .. 143, 128 .. 191, 128 .. 191>>
      BY <2>3, RangesTable, ZenonT(30)
    <3>2. c \in 128 .. 143 /\ d \in 128 .. 191 /\ e \in 128 .. 191
      BY <1>6, <2>3 DEF Shape4, Tail1
    <3> QED BY <1>3, <3>1, <3>2
  <2> QED BY <1>6, <2>1, <2>2, <2>3 DEF Shape4
<1> QED BY <1>4, <1>5, <1>6

LEMMA RangesRead ==
  ASSUME input \in Seq(Octet), at \in Nat \ {0}, Current \in Int, Ranges(Current) # <<>>, Current >= 128,
         \A k \in DOMAIN Ranges(Current) : ByteAt(at + k) \in Ranges(Current)[k]
  PROVE  /\ Len(Ranges(Current)) \in 1 .. 3 /\ at + Len(Ranges(Current)) <= Len(input)
         /\ IsCharacter(SubSeq(input, at, at + Len(Ranges(Current))))
<1> DEFINE b == Current
           n == Len(Ranges(Current))
           s == SubSeq(input, at, at + n)
<1>1. b \in Int /\ b >= 128 /\ b = ByteAt(at)
  BY DEF Current
<1>2. \/ n = 1 /\ Shape2(b, ByteAt(at + 1))
      \/ n = 2 /\ Shape3(b, ByteAt(at + 1), ByteAt(at + 2))
      \/ n = 3 /\ Shape4(b, ByteAt(at + 1), ByteAt(at + 2), ByteAt(at + 3))
  <2>1. PICK r : r = Ranges(b)
    OBVIOUS
  <2>2. \A k \in DOMAIN r : ByteAt(at + k) \in r[k]
    BY <2>1
  <2>3. \/ Len(r) = 1 /\ DOMAIN r = 1 .. 1 /\ \A c \in r[1] : Shape2(b, c)
        \/ Len(r) = 2 /\ DOMAIN r = 1 .. 2 /\ \A c \in r[1], d \in r[2] : Shape3(b, c, d)
        \/ Len(r) = 3 /\ DOMAIN r = 1 .. 3 /\ \A c \in r[1], d \in r[2], e \in r[3] : Shape4(b, c, d, e)
    BY <1>1, <2>1, RangesFacts
  <2>4. n = Len(r)
    BY <2>1
  <2> HIDE DEF b, n
  <2>5. CASE Len(r) = 1 /\ DOMAIN r = 1 .. 1 /\ \A c \in r[1] : Shape2(b, c)
    BY <2>2, <2>4, <2>5
  <2>6. CASE Len(r) = 2 /\ DOMAIN r = 1 .. 2 /\ \A c \in r[1], d \in r[2] : Shape3(b, c, d)
    <3>1. ByteAt(at + 1) \in r[1] /\ ByteAt(at + 2) \in r[2]
      BY <2>2, <2>6
    <3> QED BY <2>4, <2>6, <3>1
  <2>7. CASE Len(r) = 3 /\ DOMAIN r = 1 .. 3 /\ \A c \in r[1], d \in r[2], e \in r[3] : Shape4(b, c, d, e)
    <3>1. ByteAt(at + 1) \in r[1] /\ ByteAt(at + 2) \in r[2] /\ ByteAt(at + 3) \in r[3]
      BY <2>2, <2>7
    <3> QED BY <2>4, <2>7, <3>1
  <2> QED BY <2>3, <2>5, <2>6, <2>7
<1> HIDE DEF b, n
<1>3. n \in 1 .. 3 /\ ByteAt(at + n) \in 128 .. 191
  <2>1. n \in 1 .. 3
    BY <1>2
  <2>2. CASE n = 1
    BY <1>2, <2>2 DEF Shape2, Tail1
  <2>3. CASE n = 2
    BY <1>2, <2>3 DEF Shape3, Tail1
  <2>4. CASE n = 3
    BY <1>2, <2>4 DEF Shape4, Tail1
  <2> QED BY <2>1, <2>2, <2>3, <2>4
<1>4. at + n <= Len(input) /\ at + n \in Nat \ {0}
  <2>1. PICK x \in Nat \ {0} : x = at + n
    BY <1>3
  <2>2. PICK v : v = ByteAt(x)
    OBVIOUS
  <2>3. v \in 128 .. 191
    BY <1>3, <2>1, <2>2, Zenon
  <2>4. 0 <= v
    BY <2>3
  <2>5. x <= Len(input)
    BY <2>2, <2>4, Gets
  <2> QED BY <2>1, <2>5
<1>5. \A k \in 0 .. n : at + k \in Nat \ {0} /\ at + k <= Len(input)
  BY <1>3, <1>4
<1>6. \A k \in 0 .. n : ByteAt(at + k) = input[at + k]
  BY <1>5, Gets
<1>7. at \in 1 .. Len(input) + 1 /\ at + n \in Int /\ at - 1 <= at + n /\ at + n - at + 1 = n + 1
  BY <1>3, <1>4
<1>8. s \in Seq(Octet) /\ Len(s) = n + 1 /\ \A k \in 1 .. n + 1 : s[k] = input[at + k - 1]
  <2>1. PICK x \in Int : x = at + n
    BY <1>7
  <2>2. SubSeq(input, at, x) \in Seq(Octet) /\ Len(SubSeq(input, at, x)) = x - at + 1
        /\ \A k \in 1 .. x - at + 1 : SubSeq(input, at, x)[k] = input[at + k - 1]
    BY <1>4, <1>7, <2>1, PartFacts
  <2>3. x - at + 1 = n + 1
    BY <1>3, <2>1
  <2> QED BY <2>1, <2>2, <2>3 DEF s
<1>9. \A k \in 1 .. n + 1 : s[k] = ByteAt(at + (k - 1))
  <2> SUFFICES ASSUME NEW k \in 1 .. n + 1 PROVE s[k] = ByteAt(at + (k - 1))
    OBVIOUS
  <2>1. k - 1 \in 0 .. n /\ at + k - 1 = at + (k - 1)
    BY <1>3
  <2> QED BY <1>6, <1>8, <2>1
<1>10. s[1] = b /\ (n >= 1 => s[2] = ByteAt(at + 1)) /\ (n >= 2 => s[3] = ByteAt(at + 2)) /\ (n >= 3 => s[4] = ByteAt(at + 3))
  <2>1. 1 \in 1 .. n + 1 /\ (n >= 1 => 2 \in 1 .. n + 1) /\ (n >= 2 => 3 \in 1 .. n + 1) /\ (n >= 3 => 4 \in 1 .. n + 1)
    BY <1>3
  <2>2. at + (1 - 1) = at /\ 2 - 1 = 1 /\ 3 - 1 = 2 /\ 4 - 1 = 3
    OBVIOUS
  <2> HIDE DEF b, s, n
  <2> QED BY <1>1, <1>9, <2>1, <2>2
<1> HIDE DEF b, s, n
<1>11. IsCharacter(s)
  <2>1. CASE n = 1
    BY <1>2, <1>8, <1>10, <2>1, Characters
  <2>2. CASE n = 2
    BY <1>2, <1>8, <1>10, <2>2, Characters
  <2>3. CASE n = 3
    BY <1>2, <1>8, <1>10, <2>3, Characters
  <2> QED BY <1>3, <2>1, <2>2, <2>3
<1> QED BY <1>3, <1>4, <1>11 DEF b, s, n

LEMMA ManyBytesKeeps ==
  ASSUME LexInv, ManyBytes
  PROVE  LexInv'
<1>1. /\ lexing = "string" /\ Current >= 128 /\ Ranges(Current) # <<>>
      /\ at \in Nat \ {0} /\ input \in Seq(Octet) /\ at + 1 \in Nat \ {0}
  BY DEF ManyBytes, LexInv, LexTypeOK
<1>2. PICK r : r = Ranges(Current)
  OBVIOUS
<1>3. CASE (\A k \in DOMAIN r : ByteAt(at + k) \in r[k]) /\ Add(SubSeq(input, at, at + Len(r)), at + Len(r) + 1)
  <2>1. Current \in Int
    BY <1>1, Gets DEF Current
  <2>2. Len(r) \in 1 .. 3 /\ at + Len(r) <= Len(input) /\ IsCharacter(SubSeq(input, at, at + Len(r)))
    BY <1>1, <1>2, <1>3, <2>1, RangesRead
  <2>3. PICK n \in 1 .. 3 : n = Len(r)
    BY <2>2
  <2>4. at \in 1 .. Len(input) + 1 /\ at + n \in Int /\ at - 1 <= at + n /\ at + n <= Len(input) /\ at + n - at + 1 = n + 1
    BY <1>1, <2>2, <2>3
  <2>5. SubSeq(input, at, at + n) \in Seq(Octet) /\ Len(SubSeq(input, at, at + n)) = n + 1
    BY <1>1, <2>4, PartFacts
  <2>6. at + n + 1 \in Nat /\ at < at + n + 1 /\ at + n + 1 <= Len(input) + 1 /\ n + 1 \in 1 .. 4
    BY <1>1, <2>4
  <2> QED BY <1>1, <1>3, <2>2, <2>3, <2>5, <2>6, AddKeeps
<1>4. CASE ParseError(at + 1) /\ start' = start
  BY <1>1, <1>4, ErrorInString
<1> QED BY <1>2, <1>3, <1>4 DEF ManyBytes

LEMMA ShortEscapeKeeps ==
  ASSUME LexInv, ShortEscape
  PROVE  LexInv'
<1>1. /\ lexing = "string" /\ at \in Nat \ {0} /\ input \in Seq(Octet) /\ at + 1 \in Nat \ {0} /\ at + 2 \in Nat \ {0}
  BY DEF ShortEscape, LexInv, LexTypeOK
<1> DEFINE meant == {c \in DOMAIN Short \union {Slash} :
                       ByteAt(at + 1) = IF c = Slash THEN Slash ELSE Short[c]}
<1>2. CASE meant # {} /\ Add(<<CHOOSE c \in meant : TRUE>>, at + 2)
  <2>1. PICK c : c = CHOOSE x \in meant : TRUE
    OBVIOUS
  <2>2. c \in meant
    BY <1>2, <2>1
  <2>3. c \in {8, 9, 10, 12, 13, 34, 92, 47} /\ ByteAt(at + 1) \in {98, 116, 110, 102, 114, 34, 92, 47}
    BY <2>2, ShortFacts DEF Slash
  <2>4. c \in Octet /\ c < 128
    BY <2>3 DEF Octet
  <2>5. at + 1 <= Len(input)
    <3>1. PICK v : v = ByteAt(at + 1)
      OBVIOUS
    <3>2. 0 <= v
      BY <2>3, <3>1
    <3> QED BY <1>1, <3>1, <3>2, Gets
  <2>6. at + 2 \in Nat /\ at < at + 2 /\ at + 2 <= Len(input) + 1
    BY <1>1, <2>5
  <2>7. PICK next \in Nat : next = at + 2 /\ at < next /\ next <= Len(input) + 1
    BY <2>6
  <2> HIDE DEF meant
  <2>8. Add(<<c>>, next)
    BY <1>2, <2>1, <2>7
  <2> QED BY <1>1, <2>4, <2>7, <2>8, OneByteKeeps
<1>3. CASE ParseError(at + 2) /\ start' = start
  BY <1>1, <1>3, ErrorInString
<1> QED BY <1>2, <1>3 DEF ShortEscape

LEMMA HexRange ==
  ASSUME NEW c \in Int
  PROVE  HexValue(c) \in -1 .. 15 /\ (c < 0 => HexValue(c) = -1)
  BY DEF HexValue, Digit

LEMMA CodePoints16 ==
  ASSUME input \in Seq(Octet), NEW i \in Nat \ {0}, CodePoint(i) # -1
  PROVE  /\ i + 3 <= Len(input) /\ CodePoint(i) \in Nat /\ CodePoint(i) < 65536
         /\ CodePoint(i) = HexValue(ByteAt(i)) * 4096 + HexValue(ByteAt(i + 1)) * 256
                           + HexValue(ByteAt(i + 2)) * 16 + HexValue(ByteAt(i + 3))
<1> DEFINE h == [k \in 0..3 |-> HexValue(ByteAt(i + k))]
<1>1. CodePoint(i) = IF \E k \in 0..3 : h[k] = -1 THEN -1 ELSE h[0] * 4096 + h[1] * 256 + h[2] * 16 + h[3]
  BY DEF CodePoint
<1>2. h[0] = HexValue(ByteAt(i + 0)) /\ h[1] = HexValue(ByteAt(i + 1)) /\ h[2] = HexValue(ByteAt(i + 2))
      /\ h[3] = HexValue(ByteAt(i + 3)) /\ i + 0 = i
  OBVIOUS
<1> HIDE DEF h
<1>3. ~ \E k \in 0..3 : h[k] = -1
  BY <1>1
<1>4. h[0] # -1 /\ h[1] # -1 /\ h[2] # -1 /\ h[3] # -1
  <2>1. 0 \in 0 .. 3 /\ 1 \in 0 .. 3 /\ 2 \in 0 .. 3 /\ 3 \in 0 .. 3
    OBVIOUS
  <2> QED BY <1>3, <2>1
<1>5. i + 1 \in Nat \ {0} /\ i + 2 \in Nat \ {0} /\ i + 3 \in Nat \ {0}
  OBVIOUS
<1>6. ByteAt(i) \in Int /\ ByteAt(i + 1) \in Int /\ ByteAt(i + 2) \in Int /\ ByteAt(i + 3) \in Int
  BY <1>5, Gets
<1>7. h[0] \in -1 .. 15 /\ h[1] \in -1 .. 15 /\ h[2] \in -1 .. 15 /\ h[3] \in -1 .. 15
  BY <1>2, <1>6, HexRange
<1>8. PICK a \in 0 .. 15, b \in 0 .. 15, c \in 0 .. 15, d \in 0 .. 15 : a = h[0] /\ b = h[1] /\ c = h[2] /\ d = h[3]
  <2>1. h[0] \in 0 .. 15 /\ h[1] \in 0 .. 15 /\ h[2] \in 0 .. 15 /\ h[3] \in 0 .. 15
    BY <1>4, <1>7
  <2> QED BY <2>1, Zenon
<1>9. CodePoint(i) = a * 4096 + b * 256 + c * 16 + d
  BY <1>1, <1>3, <1>8
<1>10. a * 4096 + b * 256 + c * 16 + d \in Nat /\ a * 4096 + b * 256 + c * 16 + d < 65536
  OBVIOUS
<1>11. i + 3 <= Len(input)
  <2>1. ~(ByteAt(i + 3) < 0)
    BY <1>2, <1>4, <1>6, HexRange
  <2>2. 0 <= ByteAt(i + 3)
    BY <1>6, <2>1
  <2> QED BY <1>5, <2>2, Gets
<1> QED BY <1>2, <1>8, <1>9, <1>10, <1>11

LEMMA UnicodeEscapeKeeps ==
  ASSUME LexInv, UnicodeEscape
  PROVE  LexInv'
<1>1. /\ lexing = "string" /\ at \in Nat \ {0} /\ input \in Seq(Octet) /\ at + 2 \in Nat \ {0} /\ at + 8 \in Nat \ {0}
  BY DEF UnicodeEscape, LexInv, LexTypeOK
<1>2. PICK first, second :
        /\ first = CodePoint(at + 2)
        /\ second = IF ByteAt(at + 6) = Backslash /\ ByteAt(at + 7) = U THEN CodePoint(at + 8) ELSE -1
  OBVIOUS
<1>3. ASSUME NEW c \in Nat, c < 1114112, c \notin High \union Low, NEW next \in Nat, Add(Bytes(c), next),
             at < next, next <= Len(input) + 1
      PROVE  LexInv'
  <2>1. PICK bytes \in Seq(Octet) : bytes = Bytes(c) /\ Len(bytes) \in 1 .. 4 /\ IsCharacter(bytes)
    BY <1>3, BytesFacts
  <2>2. Add(bytes, next)
    BY <1>3, <2>1
  <2> QED BY <1>1, <1>3, <2>1, <2>2, AddKeeps
<1>4. CASE first # -1 /\ first \notin High \union Low /\ Add(Bytes(first), at + 6)
  <2>1. at + 2 + 3 <= Len(input) /\ first \in Nat /\ first < 65536
    BY <1>1, <1>2, <1>4, CodePoints16
  <2>2. PICK next \in Nat : next = at + 6 /\ at < next /\ next <= Len(input) + 1
    BY <1>1, <2>1
  <2>3. first < 1114112 /\ Add(Bytes(first), next)
    BY <1>4, <2>1, <2>2
  <2> QED BY <1>3, <1>4, <2>1, <2>2, <2>3
<1>5. CASE first \in High /\ second \in Low /\ Add(Bytes((first - 55296) * 1024 + (second - 56320) + 65536), at + 12)
  <2>1. second # -1
    BY <1>5 DEF Low
  <2>2. second = CodePoint(at + 8)
    BY <1>2, <2>1
  <2>3. at + 8 + 3 <= Len(input)
    BY <1>1, <2>1, <2>2, CodePoints16
  <2>4. PICK next \in Nat : next = at + 12 /\ at < next /\ next <= Len(input) + 1
    BY <1>1, <2>3
  <2>5. PICK c : c = (first - 55296) * 1024 + (second - 56320) + 65536
    OBVIOUS
  <2>6. first \in Int /\ 55296 <= first /\ first <= 56319 /\ second \in Int /\ 56320 <= second /\ second <= 57343
    BY <1>5 DEF High, Low
  <2>7. c \in Nat /\ c < 1114112 /\ c >= 65536
    BY <2>5, <2>6
  <2>8. c \notin High \union Low
    BY <2>7 DEF High, Low
  <2>9. Add(Bytes(c), next)
    BY <1>5, <2>4, <2>5
  <2> QED BY <1>3, <2>4, <2>7, <2>8, <2>9
<1>6. CASE ParseError(at + 2) /\ start' = start
  BY <1>1, <1>6, ErrorInString
<1> QED BY <1>2, <1>4, <1>5, <1>6 DEF UnicodeEscape

LEMMA RunPart ==
  ASSUME input \in Seq(Octet), NEW i \in Nat \ {0}, i <= Len(input) + 1, NEW e, IsRunEnd(i, e)
  PROVE  /\ e \in Int /\ i <= e /\ RunFrom(i) \in Seq(Octet) /\ Len(RunFrom(i)) = e - i
         /\ \A k \in 1 .. e - i : RunFrom(i)[k] = ByteAt(i + k - 1)
<1>1. e \in i .. Len(input) + 1 /\ RunFrom(i) = SubSeq(input, i, e - 1)
  BY DEF IsRunEnd
<1>2. PICK j \in Int : j = e - 1
  BY <1>1
<1>3. i \in 1 .. Len(input) + 1 /\ i - 1 <= j /\ j <= Len(input) /\ j - i + 1 = e - i
  BY <1>1, <1>2
<1>4. /\ SubSeq(input, i, j) \in Seq(Octet) /\ Len(SubSeq(input, i, j)) = j - i + 1
      /\ \A k \in 1 .. j - i + 1 : SubSeq(input, i, j)[k] = input[i + k - 1]
  BY <1>3, PartFacts
<1>5. \A k \in 1 .. e - i : input[i + k - 1] = ByteAt(i + k - 1)
  <2> SUFFICES ASSUME NEW k \in 1 .. e - i PROVE input[i + k - 1] = ByteAt(i + k - 1)
    OBVIOUS
  <2>1. PICK x \in Nat \ {0} : x = i + k - 1 /\ x <= Len(input)
    BY <1>1
  <2> QED BY <2>1, Gets
<1> QED BY <1>1, <1>2, <1>3, <1>4, <1>5

LabelNames == {"minus", "zero", "any1", "decimal1", "decimal2", "exponent", "sign", "any2"}

LEMMA RunLabels ==
  ASSUME NEW label \in LabelNames, NEW c \in Int
  PROVE  /\ NextLabel(label, c) \notin {"done", "error"} => c \in RunBytes
         /\ label \in {"zero", "any1", "decimal2", "any2"} /\ c \notin RunBytes => NextLabel(label, c) = "done"
<1>1. c \notin RunBytes => c \notin Digit /\ c \notin Exponent /\ c # Plus /\ c # Minus /\ c # Point
  BY DEF RunBytes
<1>2. c \notin RunBytes =>
        /\ NextLabel("minus", c) = "error" /\ NextLabel("zero", c) = "done" /\ NextLabel("any1", c) = "done"
        /\ NextLabel("decimal1", c) = "error" /\ NextLabel("decimal2", c) = "done"
        /\ NextLabel("exponent", c) = "error" /\ NextLabel("sign", c) = "error" /\ NextLabel("any2", c) = "done"
  BY <1>1, Labels
<1> QED BY <1>2 DEF LabelNames

LEMMA ReachedNames ==
  ASSUME NEW label, NEW t, Reached(label, t)
  PROVE  label \in LabelNames
BY DEF Reached, LabelNames

LEMMA LabelAtNames ==
  ASSUME NEW t, NEW m, NEW i, NEW j, NEW k
  PROVE  LabelAt(t, m, i, j, k) \in LabelNames
BY DEF LabelAt, LabelNames

LEMMA PartMore ==
  ASSUME NEW s \in Seq(Octet), NEW i \in Nat \ {0}, NEW j \in Int, i - 1 <= j, j < Len(s)
  PROVE  Append(SubSeq(s, i, j), s[j + 1]) = SubSeq(s, i, j + 1)
<1>1. i \in 1 .. Len(s) + 1 /\ j + 1 \in Int /\ i - 1 <= j + 1 /\ j + 1 <= Len(s) /\ j <= Len(s)
  OBVIOUS
<1>2. /\ SubSeq(s, i, j) \in Seq(Octet) /\ Len(SubSeq(s, i, j)) = j - i + 1
      /\ \A k \in 1 .. j - i + 1 : SubSeq(s, i, j)[k] = s[i + k - 1]
  BY <1>1, PartFacts
<1>3. PICK n \in Int : n = j + 1
  OBVIOUS
<1>4. /\ SubSeq(s, i, n) \in Seq(Octet) /\ Len(SubSeq(s, i, n)) = n - i + 1
      /\ \A k \in 1 .. n - i + 1 : SubSeq(s, i, n)[k] = s[i + k - 1]
  BY <1>1, <1>3, PartFacts
<1>5. PICK u \in Seq(Octet) : u = SubSeq(s, i, j)
  BY <1>2
<1>6. PICK v \in Seq(Octet) : v = SubSeq(s, i, n)
  BY <1>4
<1>7. s[n] \in Octet
  BY <1>1, <1>3
<1>8. PICK w \in Seq(Octet) : w = Append(u, s[n])
  <2>1. \A b \in Octet : Append(u, b) \in Seq(Octet)
    OBVIOUS
  <2> QED BY <1>7, <2>1, Zenon
<1>9. Len(w) = n - i + 1 /\ \A k \in 1 .. n - i + 1 : w[k] = s[i + k - 1]
  <2>1. Len(u) = n - i
    BY <1>2, <1>3, <1>5
  <2>2. Len(w) = n - i + 1 /\ w[n - i + 1] = s[n] /\ \A k \in 1 .. n - i : w[k] = u[k]
    BY <1>8, <2>1
  <2>3. \A k \in 1 .. n - i : u[k] = s[i + k - 1]
    BY <1>2, <1>3, <1>5
  <2>4. i + (n - i + 1) - 1 = n
    OBVIOUS
  <2>5. \A k \in 1 .. n - i + 1 : k \in 1 .. n - i \/ k = n - i + 1
    OBVIOUS
  <2> QED BY <2>2, <2>3, <2>4, <2>5
<1>10. w = v
  <2>1. Len(w) = Len(v) /\ \A k \in 1 .. Len(w) : w[k] = v[k]
    BY <1>4, <1>6, <1>9
  <2> QED BY <2>1
<1> QED BY <1>3, <1>5, <1>6, <1>8, <1>10

LEMMA BeginNumberKeeps ==
  ASSUME LexInv, BeginNumber
  PROVE  LexInv'
<1>1. at \in Nat \ {0} /\ at <= Len(input) + 1 /\ input \in Seq(Octet)
  BY DEF LexInv, LexTypeOK, PlaceOK, BeginNumber
<1>2. PICK i \in Nat \ {0} : i = Skip
  BY <1>1, SkipFacts
<1>3. PICK b : b = ByteAt(i)
  OBVIOUS
<1>4. b \in Digit \union {Minus} /\ b \in RunBytes
  BY <1>2, <1>3 DEF BeginNumber, RunBytes
<1>5. 0 <= b /\ b # -1
  BY <1>4 DEF Digit, Minus
<1>6. i <= Len(input) /\ b \in Octet /\ b = input[i]
  BY <1>1, <1>3, <1>5, Gets
<1>7. /\ lexing' = "number" /\ start' = i /\ at' = i + 1 /\ token_buffer' = <<b>> /\ number' = NextLabel("init", b)
      /\ input' = input /\ token' = token /\ dumped' = dumped
  BY <1>2, <1>3 DEF BeginNumber
<1>8. LexTypeOK'
  <2>1. <<b>> \in Seq(Octet)
    BY <1>6
  <2> QED BY <1>7, <2>1 DEF LexInv, LexTypeOK
<1>9. PlaceOK'
  BY <1>1, <1>6, <1>7 DEF PlaceOK
<1>10. StringOK' /\ NumbersFollowTheGrammar'
  BY <1>7 DEF StringOK, NumbersFollowTheGrammar
<1>11. StringsAreUtf8'
  BY <1>7 DEF LexInv, StringsAreUtf8
<1>12. NumberOK'
  <2>1. <<b>> = SubSeq(input, i, i)
    BY <1>1, <1>6
  <2>2. Reached(NextLabel("init", b), <<b>>)
    BY <1>4, <1>6, ReachedFirst
  <2>3. \A k \in i .. i : ByteAt(k) \in RunBytes
    BY <1>3, <1>4
  <2>4. ASSUME NEW m, NEW x, NEW y, Parse(RunFrom(i), m, x, y)
        PROVE  NextLabel("init", b) = LabelAt(RunFrom(i), m, x, y, 1)
    <3>1. PICK e : IsRunEnd(i, e)
      BY <1>1, <1>6, RunFacts
    <3>2. i # e
      BY <1>3, <1>4, <3>1 DEF IsRunEnd
    <3>3. /\ e \in Int /\ i <= e /\ RunFrom(i) \in Seq(Octet)
          /\ \A k \in 1 .. e - i : RunFrom(i)[k] = ByteAt(i + k - 1)
      BY <1>1, <1>6, <3>1, RunPart
    <3>4. 1 \in 1 .. e - i /\ i + 1 - 1 = i
      BY <3>2, <3>3
    <3>5. RunFrom(i)[1] = b
      BY <1>3, <3>3, <3>4
    <3> QED BY <2>4, <3>3, <3>5, PathFirst
  <2>5. /\ RunFrom(start)' = RunFrom(i) /\ ((at - start)') = 1 /\ ((at - 1)') = i
        /\ (\A k \in start .. at - 1 : ByteAt(k) \in RunBytes)' <=> \A k \in i .. (at - 1)' : ByteAt(k) \in RunBytes
    <3>1. i + 1 - i = 1 /\ i + 1 - 1 = i
      OBVIOUS
    <3> QED BY <1>7, <3>1 DEF RunFrom, ByteAt
  <2> QED BY <1>7, <2>1, <2>2, <2>3, <2>4, <2>5 DEF NumberOK
<1> QED BY <1>8, <1>9, <1>10, <1>11, <1>12 DEF LexInv

\* The bytes read are in the run, and the grammar gives the label that follows.
LEMMA NumberPath ==
  ASSUME LexInv, lexing = "number"
  PROVE  /\ start \in Nat \ {0} /\ at \in Nat \ {0} /\ start < at /\ at <= Len(input) + 1 /\ input \in Seq(Octet)
         /\ Current \in Int /\ number \in LabelNames
         /\ Current \in RunBytes \/ NextLabel(number, Current) \notin {"done", "error"} =>
              \A m, i, j : Parse(RunFrom(start), m, i, j) =>
                NextLabel(number, Current) = LabelAt(RunFrom(start), m, i, j, at - start + 1)
         /\ Current \notin RunBytes /\ IsNumber(RunFrom(start)) => NextLabel(number, Current) = "done"
<1>1. start \in Nat \ {0} /\ at \in Nat \ {0} /\ start < at /\ at <= Len(input) + 1 /\ input \in Seq(Octet)
  BY DEF LexInv, LexTypeOK, PlaceOK
<1>2. /\ Reached(number, token_buffer) /\ \A k \in start .. at - 1 : ByteAt(k) \in RunBytes
      /\ \A m, i, j : Parse(RunFrom(start), m, i, j) => number = LabelAt(RunFrom(start), m, i, j, at - start)
  BY DEF LexInv, NumberOK
<1>3. Current \in Int /\ number \in LabelNames
  BY <1>1, <1>2, Gets, ReachedNames DEF Current
<1>4. PICK e : IsRunEnd(start, e)
  BY <1>1, RunFacts
<1>5. /\ e \in Int /\ start <= e /\ RunFrom(start) \in Seq(Octet) /\ Len(RunFrom(start)) = e - start
      /\ \A k \in 1 .. e - start : RunFrom(start)[k] = ByteAt(start + k - 1)
  BY <1>1, <1>4, RunPart
<1>6. /\ ByteAt(e) \notin RunBytes /\ \A k \in start .. e - 1 : ByteAt(k) \in RunBytes
  BY <1>4 DEF IsRunEnd
<1>7. at <= e
  <2>1. ~(e \in start .. at - 1)
    BY <1>2, <1>6
  <2> QED BY <1>1, <1>5, <2>1
<1>8. PICK k \in Nat \ {0} : k = at - start
  BY <1>1
<1>9. ASSUME Current \in RunBytes \/ NextLabel(number, Current) \notin {"done", "error"},
             NEW m, NEW i, NEW j, Parse(RunFrom(start), m, i, j)
      PROVE  NextLabel(number, Current) = LabelAt(RunFrom(start), m, i, j, at - start + 1)
  <2>1. Current \in RunBytes
    BY <1>3, <1>9, RunLabels
  <2>2. at # e
    BY <1>6, <2>1 DEF Current
  <2>3. k \in 1 .. Len(RunFrom(start)) - 1 /\ k + 1 \in 1 .. e - start /\ start + (k + 1) - 1 = at
    BY <1>1, <1>5, <1>7, <1>8, <2>2
  <2>4. RunFrom(start)[k + 1] = Current
    BY <1>5, <2>3 DEF Current
  <2>5. number = LabelAt(RunFrom(start), m, i, j, k)
    BY <1>2, <1>8, <1>9
  <2> QED BY <1>5, <1>8, <1>9, <2>3, <2>4, <2>5, PathStep
<1>10. ASSUME Current \notin RunBytes, IsNumber(RunFrom(start)) PROVE NextLabel(number, Current) = "done"
  <2>1. PICK m, i, j : Parse(RunFrom(start), m, i, j)
    BY <1>10, NumberParts
  <2>2. at = e
    <3>1. ~(at \in start .. e - 1)
      BY <1>6, <1>10 DEF Current
    <3> QED BY <1>1, <1>5, <1>7, <3>1
  <2>3. number = LabelAt(RunFrom(start), m, i, j, Len(RunFrom(start)))
    BY <1>2, <1>5, <2>1, <2>2
  <2>4. number \in {"zero", "any1", "decimal2", "any2"}
    BY <1>5, <2>1, <2>3, PathLast
  <2> QED BY <1>3, <1>10, <2>4, RunLabels
<1> QED BY <1>1, <1>3, <1>9, <1>10

LEMMA NumberByteKeeps ==
  ASSUME LexInv, NumberByte
  PROVE  LexInv'
<1>1. lexing = "number" /\ NextLabel(number, Current) \notin {"done", "error"}
  BY DEF NumberByte
<1>2. /\ start \in Nat \ {0} /\ at \in Nat \ {0} /\ start < at /\ at <= Len(input) + 1 /\ input \in Seq(Octet)
      /\ Current \in Int /\ number \in LabelNames
  BY <1>1, NumberPath
<1>3. \A m, i, j : Parse(RunFrom(start), m, i, j) =>
        NextLabel(number, Current) = LabelAt(RunFrom(start), m, i, j, at - start + 1)
  BY <1>1, NumberPath
<1>4. Current \in RunBytes /\ Current = ByteAt(at)
  BY <1>1, <1>2, RunLabels DEF Current
<1>5. 0 <= Current
  BY <1>4 DEF RunBytes, Digit, Exponent, Plus, Minus, Point
<1>6. at <= Len(input) /\ Current \in Octet /\ Current = input[at]
  BY <1>2, <1>4, <1>5, Gets
<1>7. /\ lexing' = "number" /\ start' = start /\ at' = at + 1 /\ token_buffer' = Append(token_buffer, Current)
      /\ number' = NextLabel(number, Current) /\ input' = input /\ token' = token /\ dumped' = dumped
  BY DEF NumberByte
<1>8. token_buffer \in Seq(Octet)
  BY DEF LexInv, LexTypeOK
<1>9. LexTypeOK'
  <2>1. Append(token_buffer, Current) \in Seq(Octet) /\ at + 1 \in Nat \ {0}
    BY <1>2, <1>6, <1>8
  <2> QED BY <1>7, <2>1 DEF LexInv, LexTypeOK
<1>10. PlaceOK'
  BY <1>2, <1>6, <1>7 DEF PlaceOK
<1>11. StringOK' /\ NumbersFollowTheGrammar'
  BY <1>7 DEF StringOK, NumbersFollowTheGrammar
<1>12. StringsAreUtf8'
  BY <1>7 DEF LexInv, StringsAreUtf8
<1>13. NumberOK'
  <2>1. /\ token_buffer = SubSeq(input, start, at - 1) /\ Reached(number, token_buffer)
        /\ \A k \in start .. at - 1 : ByteAt(k) \in RunBytes
    BY <1>1 DEF LexInv, NumberOK
  <2>2. Append(token_buffer, Current) = SubSeq(input, start, at)
    <3>1. PICK j \in Int : j = at - 1 /\ start - 1 <= j /\ j < Len(input) /\ j + 1 = at
      BY <1>2, <1>6
    <3> QED BY <1>2, <1>6, <2>1, <3>1, PartMore
  <2>3. Reached(NextLabel(number, Current), Append(token_buffer, Current))
    BY <1>1, <1>6, <1>8, <2>1, ReachedStep
  <2>4. \A k \in start .. at : ByteAt(k) \in RunBytes
    <3>1. \A k \in start .. at : k \in start .. at - 1 \/ k = at
      BY <1>2
    <3> QED BY <1>4, <2>1, <3>1
  <2>5. at + 1 - 1 = at /\ at + 1 - start = at - start + 1
    BY <1>2
  <2>6. /\ RunFrom(start)' = RunFrom(start)
        /\ (\A k \in start .. at - 1 : ByteAt(k) \in RunBytes)' <=> \A k \in start .. (at - 1)' : ByteAt(k) \in RunBytes
    BY <1>7 DEF RunFrom, ByteAt
  <2>7. (at - 1)' = at /\ (at - start)' = at - start + 1
    <3>1. at' = at + 1 /\ start' = start
      BY <1>7
    <3>2. at' - 1 = at /\ at' - start' = at - start + 1
      BY <1>2, <3>1
    <3> QED BY <3>2
  <2> QED BY <1>3, <1>7, <2>2, <2>3, <2>4, <2>6, <2>7 DEF NumberOK
<1> QED BY <1>9, <1>10, <1>11, <1>12, <1>13 DEF LexInv

LEMMA NumberErrors ==
  ASSUME LexInv, NumberError
  PROVE  ~IsNumber(RunFrom(start))
<1>e. lexing = "number" /\ NextLabel(number, Current) = "error"
  BY DEF NumberError
<1> SUFFICES ASSUME IsNumber(RunFrom(start)) PROVE FALSE
  OBVIOUS
<1>1. CASE Current \in RunBytes
  <2>1. PICK m, i, j : Parse(RunFrom(start), m, i, j)
    BY NumberParts
  <2>2. NextLabel(number, Current) = LabelAt(RunFrom(start), m, i, j, at - start + 1)
    BY <1>e, <1>1, <2>1, NumberPath
  <2> QED BY <1>e, <2>2, LabelAtNames DEF LabelNames
<1>2. CASE Current \notin RunBytes
  BY <1>e, <1>2, NumberPath
<1> QED BY <1>1, <1>2

LEMMA NumberErrorKeeps ==
  ASSUME LexInv, NumberError
  PROVE  LexInv'
<1>1. /\ lexing = "number" /\ NextLabel(number, Current) = "error" /\ Found("parse_error", <<>>, at + 1)
      /\ start' = start /\ token_buffer' = token_buffer
  BY DEF NumberError, ParseError
<1>2. ~IsNumber(RunFrom(start))
  BY NumberErrors
<1>3. start \in Nat \ {0} /\ at + 1 \in Nat \ {0} /\ token_buffer' \in Seq(Octet)
  BY <1>1 DEF LexInv, LexTypeOK
<1>4. TokenOK(TokenOf("parse_error", <<>>))
  BY DEF TokenOK, TokenOf
<1> QED BY <1>1, <1>2, <1>3, <1>4, FoundKeeps

LEMMA NumberDoneKeeps ==
  ASSUME LexInv, NumberDone
  PROVE  LexInv'
<1>1. PICK t : t = NumberToken(token_buffer)
  OBVIOUS
<1>2. /\ lexing = "number" /\ NextLabel(number, Current) = "done" /\ Found(t.type, t.value, at)
      /\ start' = start /\ token_buffer' = token_buffer
  BY <1>1 DEF NumberDone
<1>3. /\ token_buffer \in Seq(Octet) /\ token_buffer = SubSeq(input, start, at - 1) /\ Reached(number, token_buffer)
      /\ start \in Nat \ {0} /\ at \in Nat \ {0}
  BY <1>2 DEF LexInv, LexTypeOK, NumberOK
<1>4. Current \in Int
  BY <1>2, NumberPath
<1>5. IsNumber(token_buffer)
  BY <1>2, <1>3, <1>4, ReachedNumber
<1>6. TokenOK(TokenOf(t.type, t.value)) /\ t.type \in {"value_unsigned", "value_integer", "value_float"}
  BY <1>1, <1>3, <1>5, NumberTokenType
<1>7. PICK type, value : type = t.type /\ value = t.value
  OBVIOUS
<1> QED BY <1>2, <1>3, <1>5, <1>6, <1>7, FoundKeeps

LEMMA DumpedType ==
  ASSUME NEW t, TokenOK(t), IsValue(t), NEW ascii \in BOOLEAN
  PROVE  Dumped(t, ascii) \in Seq(Octet)
<1>1. Quote \in Octet /\ Zero \in Octet /\ Minus \in Octet /\ Point \in Octet /\ Digit \subseteq Octet
  BY DEF Quote, Zero, Minus, Point, Digit, Octet
<1>2. CASE t.type = "value_string"
  <2>1. t.value \in Seq(Octet)
    BY <1>2 DEF TokenOK
  <2>2. DumpEscaped(t.value, ascii) \in DumpStates
    BY <2>1, DumpFacts
  <2>3. DumpEscaped(t.value, ascii).out \in Seq(Octet)
    BY <2>2 DEF DumpStates
  <2>4. Dumped(t, ascii) = <<Quote>> \o DumpEscaped(t.value, ascii).out \o <<Quote>>
    BY <1>2 DEF Dumped
  <2> QED BY <1>1, <2>3, <2>4
<1>3. CASE t.type \in {"value_integer", "value_unsigned"}
  <2>1. t.value \in Int
    BY <1>3 DEF TokenOK
  <2>2. PICK m \in Nat : m = IF t.value < 0 THEN -t.value ELSE t.value
    BY <2>1
  <2>3. DumpInteger(t.value) = CASE t.value = 0 -> <<Zero>> [] t.value > 0 -> DigitsTo(m)[m]
                                 [] t.value < 0 -> <<Minus>> \o DigitsTo(m)[m]
    BY <2>2 DEF DumpInteger, DigitsTo, IsDigitsTo
  <2>4. DigitsTo(m)[m] \in Seq(Octet)
    BY <1>1, DumpIntegerFacts
  <2>5. Dumped(t, ascii) = DumpInteger(t.value)
    BY <1>3 DEF Dumped
  <2> QED BY <1>1, <2>1, <2>3, <2>4, <2>5
<1>4. CASE t.type = "value_float"
  <2>1. t.value \in Seq(Octet)
    BY <1>4 DEF TokenOK
  <2>2. Dumped(t, ascii) = DumpFloat(t.value)
    BY <1>4 DEF Dumped
  <2>3. <<Point, Zero>> \in Seq(Octet)
    BY <1>1
  <2> QED BY <2>1, <2>2, <2>3 DEF DumpFloat
<1> QED BY <1>2, <1>3, <1>4 DEF IsValue

LEMMA ScanNextKeeps ==
  ASSUME LexInv, ScanNext
  PROVE  LexInv'
<1>1. lexing' = "idle" /\ at <= Len(input) /\ UNCHANGED <<input, at, start, token_buffer, number, token, dumped>>
  BY DEF ScanNext
<1>2. LexTypeOK'
  BY <1>1 DEF LexInv, LexTypeOK
<1>3. PlaceOK'
  BY <1>1 DEF LexInv, LexTypeOK, PlaceOK
<1>4. StringOK' /\ NumberOK' /\ NumbersFollowTheGrammar'
  BY <1>1 DEF StringOK, NumberOK, NumbersFollowTheGrammar
<1>5. StringsAreUtf8'
  BY <1>1 DEF LexInv, StringsAreUtf8
<1> QED BY <1>2, <1>3, <1>4, <1>5 DEF LexInv

LEMMA DumpKeeps ==
  ASSUME LexInv, NEW ascii \in BOOLEAN, Dump(ascii)
  PROVE  LexInv'
<1>1. lexing = "token" /\ dumped = <<>> /\ IsValue(token) /\ UNCHANGED <<start, token_buffer, number, token>>
  BY DEF Dump
<1>2. TokenOK(token)
  BY DEF LexInv, LexTypeOK
<1>3. CASE /\ token.type = "value_string" /\ DumpEscaped(token.value, ascii).state # Accept
           /\ lexing' = "thrown" /\ UNCHANGED <<input, at, dumped>>
  <2>1. ~IsUtf8(token.value)
    BY <1>2, <1>3, Utf8IsWritten DEF TokenOK
  <2>2. LexTypeOK'
    BY <1>1, <1>3 DEF LexInv, LexTypeOK
  <2>3. PlaceOK' /\ StringOK' /\ NumberOK' /\ NumbersFollowTheGrammar'
    BY <1>3 DEF PlaceOK, StringOK, NumberOK, NumbersFollowTheGrammar
  <2>4. StringsAreUtf8'
    BY <1>1, <1>3, <2>1 DEF LexInv, StringsAreUtf8
  <2> QED BY <2>2, <2>3, <2>4 DEF LexInv
<1>4. CASE lexing' = "idle" /\ input' = Dumped(token, ascii) /\ at' = 1 /\ dumped' = <<token>>
  <2>1. Dumped(token, ascii) \in Seq(Octet)
    BY <1>1, <1>2, DumpedType
  <2>2. LexTypeOK'
    BY <1>1, <1>2, <1>4, <2>1 DEF LexInv, LexTypeOK
  <2>3. PlaceOK'
    <3>1. 1 <= Len(Dumped(token, ascii)) + 1
      BY <2>1
    <3> QED BY <1>4, <3>1 DEF PlaceOK
  <2>4. StringOK' /\ NumberOK' /\ NumbersFollowTheGrammar'
    BY <1>4 DEF StringOK, NumberOK, NumbersFollowTheGrammar
  <2>5. StringsAreUtf8'
    <3>1. dumped' # <<>> /\ lexing' # "thrown"
      BY <1>4
    <3> QED BY <3>1 DEF StringsAreUtf8
  <2> QED BY <2>2, <2>3, <2>4, <2>5 DEF LexInv
<1> QED BY <1>3, <1>4 DEF Dump

LEMMA LexStarts == LexInit => LexInv
<1> SUFFICES ASSUME LexInit PROVE LexInv
  OBVIOUS
<1>1. at = 1 /\ start = 1 /\ token_buffer = <<>> /\ number = "init" /\ dumped = <<>>
  BY DEF LexInit
<1>2. CASE input \in Texts /\ lexing = "idle" /\ token = Nothing
  <2>1. input \in Seq(Octet)
    BY <1>2, TextsAssumption
  <2>2. TokenOK(token) /\ token.type = "uninitialized"
    BY <1>2 DEF Nothing, TokenOK, TokenOf
  <2>3. LexTypeOK
    BY <1>1, <1>2, <2>1, <2>2 DEF LexTypeOK
  <2>4. PlaceOK
    BY <1>1, <1>2, <2>1 DEF PlaceOK
  <2>5. StringOK /\ NumberOK /\ NumbersFollowTheGrammar /\ StringsAreUtf8
    BY <1>2, <2>2 DEF StringOK, NumberOK, NumbersFollowTheGrammar, StringsAreUtf8
  <2> QED BY <2>3, <2>4, <2>5 DEF LexInv
<1>3. CASE input = <<>> /\ lexing = "token" /\ token \in Values
  <2>1. TokenOK(token)
    BY <1>3, ValuesAssumption
  <2>2. LexTypeOK
    BY <1>1, <1>3, <2>1 DEF LexTypeOK
  <2>3. PlaceOK /\ StringOK /\ NumberOK
    BY <1>3 DEF PlaceOK, StringOK, NumberOK
  <2>4. NumbersFollowTheGrammar /\ StringsAreUtf8
    BY <1>3 DEF NumbersFollowTheGrammar, StringsAreUtf8
  <2> QED BY <2>2, <2>3, <2>4 DEF LexInv
<1> QED BY <1>2, <1>3 DEF LexInit

LEMMA LexStutters ==
  ASSUME LexInv, UNCHANGED lexVars
  PROVE  LexInv'
<1>1. UNCHANGED <<input, at, lexing, start, token_buffer, number, token, dumped>>
  BY DEF lexVars
<1>2. LexTypeOK' /\ PlaceOK'
  BY <1>1 DEF LexInv, LexTypeOK, PlaceOK
<1>3. StringOK' /\ NumberOK'
  BY <1>1 DEF LexInv, StringOK, NumberOK, RunFrom, ByteAt
<1>4. StringsAreUtf8' /\ NumbersFollowTheGrammar'
  BY <1>1 DEF LexInv, StringsAreUtf8, NumbersFollowTheGrammar, RunFrom, ByteAt
<1> QED BY <1>2, <1>3, <1>4 DEF LexInv

LEMMA LexKeeps ==
  ASSUME LexInv, [LexNext]_lexVars
  PROVE  LexInv'
BY ScanOneKeeps, BeginStringKeeps, EndStringKeeps, BadByteKeeps, PlainByteKeeps, ManyBytesKeeps, ShortEscapeKeeps,
   UnicodeEscapeKeeps, BeginNumberKeeps, NumberByteKeeps, NumberErrorKeeps, NumberDoneKeeps, ScanNextKeeps,
   DumpKeeps, LexStutters DEF LexNext

LEMMA LexInvariant == LexSpec => []LexInv
<1>1. LexInv /\ [LexNext]_lexVars => LexInv'
  BY LexKeeps
<1> QED BY LexStarts, <1>1, PTL DEF LexSpec
-----------------------------------------------------------------------------
\* The inverse of ShapesStep.
LEMMA AfterShapes ==
  ASSUME NEW b \in Octet, NEW c \in Octet, NEW d \in Octet, NEW e \in Octet
  PROVE  /\ After(0, b) \in 0 .. 8
         /\ After(0, b) = 0 => b < 128
         /\ After(0, b) = 2 /\ After(2, c) # 1 => Shape2(b, c) /\ After(2, c) = 0
         /\ After(0, b) \in 3 .. 5 /\ After(After(0, b), c) # 1 /\ After(2, d) # 1 =>
              After(After(0, b), c) = 2 /\ After(2, d) = 0 /\ Shape3(b, c, d)
         /\ After(0, b) \in 6 .. 8 /\ After(After(0, b), c) # 1 /\ After(3, d) # 1 /\ After(2, e) # 1 =>
              After(After(0, b), c) = 3 /\ After(3, d) = 2 /\ After(2, e) = 0 /\ Shape4(b, c, d, e)
<1>0. b \in Int /\ c \in Int /\ d \in Int /\ e \in Int
  BY Octets
<1>1. After(0, b) \in 0 .. 8 /\ (After(0, b) = 0 => b < 128)
  BY <1>0 DEF After
<1>2. \A x \in Int : /\ After(2, x) # 1 => Tail1(x) /\ After(2, x) = 0
                     /\ After(3, x) # 1 => Tail1(x) /\ After(3, x) = 2
                     /\ After(7, x) # 1 => Tail1(x) /\ After(7, x) = 3
  BY DEF After, Tail1
<1>3. /\ After(4, c) # 1 => Tail1(c) /\ c >= 160 /\ After(4, c) = 2
      /\ After(5, c) # 1 => Tail1(c) /\ c <= 159 /\ After(5, c) = 2
  BY <1>0 DEF After, Tail1
<1>4. /\ After(6, c) # 1 => Tail1(c) /\ c >= 144 /\ After(6, c) = 3
      /\ After(8, c) # 1 => Tail1(c) /\ c <= 143 /\ After(8, c) = 3
  BY <1>0 DEF After, Tail1
<1>5. /\ After(0, b) = 2 => b \in 194 .. 223
      /\ After(0, b) = 3 => b \in 225 .. 239 \ {237}
      /\ After(0, b) = 4 => b = 224
      /\ After(0, b) = 5 => b = 237
  BY <1>0 DEF After
<1>6. /\ After(0, b) = 6 => b = 240
      /\ After(0, b) = 7 => b \in 241 .. 243
      /\ After(0, b) = 8 => b = 244
  BY <1>0 DEF After
<1>7. PICK a \in 0 .. 8 : a = After(0, b)
  BY <1>1
<1>8. ASSUME a = 2, After(2, c) # 1 PROVE Shape2(b, c) /\ After(2, c) = 0
  BY <1>0, <1>2, <1>5, <1>7, <1>8 DEF Shape2
<1>9. ASSUME a \in 3 .. 5, After(a, c) # 1, After(2, d) # 1
      PROVE  After(a, c) = 2 /\ After(2, d) = 0 /\ Shape3(b, c, d)
  <2>1. Tail1(d) /\ After(2, d) = 0
    BY <1>0, <1>2, <1>9
  <2>2. CASE a = 3
    BY <1>0, <1>2, <1>5, <1>7, <1>9, <2>1, <2>2 DEF Shape3
  <2>3. CASE a = 4
    BY <1>0, <1>3, <1>5, <1>7, <1>9, <2>1, <2>3 DEF Shape3
  <2>4. CASE a = 5
    BY <1>0, <1>3, <1>5, <1>7, <1>9, <2>1, <2>4 DEF Shape3
  <2> QED BY <1>9, <2>2, <2>3, <2>4
<1>10. ASSUME a \in 6 .. 8, After(a, c) # 1, After(3, d) # 1, After(2, e) # 1
       PROVE  After(a, c) = 3 /\ After(3, d) = 2 /\ After(2, e) = 0 /\ Shape4(b, c, d, e)
  <2>1. Tail1(d) /\ After(3, d) = 2 /\ Tail1(e) /\ After(2, e) = 0
    BY <1>0, <1>2, <1>10
  <2>2. CASE a = 6
    BY <1>0, <1>4, <1>6, <1>7, <1>10, <2>1, <2>2 DEF Shape4
  <2>3. CASE a = 7
    BY <1>0, <1>2, <1>6, <1>7, <1>10, <2>1, <2>3 DEF Shape4
  <2>4. CASE a = 8
    BY <1>0, <1>4, <1>6, <1>7, <1>10, <2>1, <2>4 DEF Shape4
  <2> QED BY <1>10, <2>2, <2>3, <2>4
<1> QED BY <1>1, <1>7, <1>8, <1>9, <1>10

\* The code points of the shapes, and their bytes again.
LEMMA BytesOfCodes ==
  ASSUME NEW b \in Int, NEW c \in Int, NEW d \in Int, NEW e \in Int
  PROVE  /\ Shape2(b, c) => /\ Code2(b, c) \in Int /\ 128 <= Code2(b, c) /\ Code2(b, c) < 2048
                            /\ Bytes(Code2(b, c)) = <<b, c>>
         /\ Shape3(b, c, d) => /\ Code3(b, c, d) \in Int /\ 2048 <= Code3(b, c, d) /\ Code3(b, c, d) < 65536
                               /\ Code3(b, c, d) \notin High \union Low /\ Bytes(Code3(b, c, d)) = <<b, c, d>>
         /\ Shape4(b, c, d, e) => /\ Code4(b, c, d, e) \in Int /\ 65536 <= Code4(b, c, d, e)
                                  /\ Code4(b, c, d, e) < 1114112 /\ Bytes(Code4(b, c, d, e)) = <<b, c, d, e>>
<1>1. ASSUME Shape2(b, c)
      PROVE  Code2(b, c) \in Int /\ 128 <= Code2(b, c) /\ Code2(b, c) < 2048 /\ Bytes(Code2(b, c)) = <<b, c>>
  <2>1. b \in 194 .. 223 /\ b \in 192 .. 223 /\ Tail1(c)
    BY <1>1 DEF Shape2
  <2>2. PICK v \in Int : v = Code2(b, c) /\ 128 <= v /\ v < 2048
    BY <2>1, Value2
  <2>3. 192 + v \div 64 = b /\ 128 + (v % 64) = c
    <3>1. v = (b - 192) * 64 + (c - 128) /\ c - 128 \in 0 .. 63
      BY <2>1, <2>2 DEF Code2, Tail1
    <3>2. v \div 64 = b - 192 /\ v % 64 = c - 128
      BY <2>1, <3>1
    <3> QED BY <3>2
  <2>4. Bytes(v) = <<192 + v \div 64, 128 + (v % 64)>>
    BY <2>2 DEF Bytes
  <2> QED BY <2>2, <2>3, <2>4
<1>2. ASSUME Shape3(b, c, d)
      PROVE  /\ Code3(b, c, d) \in Int /\ 2048 <= Code3(b, c, d) /\ Code3(b, c, d) < 65536
             /\ Code3(b, c, d) \notin High \union Low /\ Bytes(Code3(b, c, d)) = <<b, c, d>>
  <2>1. b \in 224 .. 239 /\ Tail1(c) /\ Tail1(d) /\ (b = 224 => c >= 160) /\ (b = 237 => c <= 159)
    BY <1>2 DEF Shape3
  <2>2. PICK v \in Int : v = Code3(b, c, d) /\ 2048 <= v /\ v < 65536 /\ ~(55296 <= v /\ v < 57344)
    <3>1. ~(b = 237 /\ c >= 160)
      BY <2>1 DEF Tail1
    <3> QED BY <2>1, <3>1, Value3
  <2>3. v \notin High \union Low
    BY <2>2 DEF High, Low
  <2>4. 224 + v \div 4096 = b /\ 128 + ((v \div 64) % 64) = c /\ 128 + (v % 64) = d
    <3>1. PICK x \in 0 .. 15, y \in 0 .. 63, z \in 0 .. 63 : x = b - 224 /\ y = c - 128 /\ z = d - 128
      <4>1. b - 224 \in 0 .. 15 /\ c - 128 \in 0 .. 63 /\ d - 128 \in 0 .. 63
        BY <2>1 DEF Tail1
      <4> QED BY <4>1, ZenonT(30)
    <3>2. v = x * 4096 + y * 64 + z
      BY <2>2, <3>1 DEF Code3
    <3>3. v \div 4096 = x /\ v % 64 = z
      BY <3>2
    <3>4. v \div 64 = x * 64 + y
      BY <3>2
    <3>5. (x * 64 + y) % 64 = y
      OBVIOUS
    <3> QED BY <3>1, <3>3, <3>4, <3>5
  <2>5. Bytes(v) = <<224 + v \div 4096, 128 + ((v \div 64) % 64), 128 + (v % 64)>>
    BY <2>2 DEF Bytes
  <2> QED BY <2>2, <2>3, <2>4, <2>5
<1>3. ASSUME Shape4(b, c, d, e)
      PROVE  /\ Code4(b, c, d, e) \in Int /\ 65536 <= Code4(b, c, d, e)
             /\ Code4(b, c, d, e) < 1114112 /\ Bytes(Code4(b, c, d, e)) = <<b, c, d, e>>
  <2>1. /\ b \in 240 .. 244 /\ b \in 240 .. 247 /\ Tail1(c) /\ Tail1(d) /\ Tail1(e)
        /\ (b = 240 => c >= 144) /\ (b = 244 => c <= 143)
    BY <1>3 DEF Shape4
  <2>2. PICK v \in Int : v = Code4(b, c, d, e) /\ 65536 <= v /\ v < 1114112
    <3>1. b < 244 \/ (b = 244 /\ c <= 143)
      BY <2>1
    <3>2. /\ Code4(b, c, d, e) \in Int /\ 65536 <= Code4(b, c, d, e)
          /\ Code4(b, c, d, e) < 1114112
      BY <2>1, <3>1, Value4
    <3> QED BY <3>2
  <2>3. 240 + v \div 262144 = b /\ 128 + ((v \div 4096) % 64) = c /\ 128 + ((v \div 64) % 64) = d /\ 128 + (v % 64) = e
    <3>1. PICK w \in 0 .. 4, x \in 0 .. 63, y \in 0 .. 63, z \in 0 .. 63 :
            w = b - 240 /\ x = c - 128 /\ y = d - 128 /\ z = e - 128
      <4>1. b - 240 \in 0 .. 4 /\ c - 128 \in 0 .. 63 /\ d - 128 \in 0 .. 63 /\ e - 128 \in 0 .. 63
        BY <2>1 DEF Tail1
      <4> QED BY <4>1, Zenon
    <3>2. v = w * 262144 + x * 4096 + y * 64 + z
      BY <2>2, <3>1 DEF Code4
    <3>3. v \div 262144 = w /\ v % 64 = z
      BY <3>2
    <3>4. v \div 4096 = w * 64 + x /\ v \div 64 = w * 4096 + x * 64 + y
      BY <3>2
    <3>5. (w * 64 + x) % 64 = x /\ (w * 4096 + x * 64 + y) % 64 = y
      OBVIOUS
    <3> QED BY <3>1, <3>3, <3>4, <3>5
  <2>4. Bytes(v) = <<240 + v \div 262144, 128 + ((v \div 4096) % 64), 128 + ((v \div 64) % 64), 128 + (v % 64)>>
    BY <2>2 DEF Bytes
  <2> QED BY <2>2, <2>3, <2>4
<1> QED BY <1>1, <1>2, <1>3
-----------------------------------------------------------------------------
LEMMA NeverRejected ==
  ASSUME NEW s \in Seq(Octet), NEW ascii \in BOOLEAN, StateAt(s, ascii, Len(s)) = 0, NEW i \in 0 .. Len(s)
  PROVE  StateAt(s, ascii, i) # 1
<1> SUFFICES ASSUME StateAt(s, ascii, i) = 1 PROVE FALSE
  OBVIOUS
<1> DEFINE T == {k \in Nat : i + k <= Len(s) => StateAt(s, ascii, i + k) = 1}
<1>1. 0 \in T
  <2>1. i + 0 = i
    OBVIOUS
  <2> QED BY <2>1
<1>2. ASSUME NEW k \in Nat, k \in T PROVE k + 1 \in T
  <2> SUFFICES ASSUME i + (k + 1) <= Len(s) PROVE StateAt(s, ascii, i + (k + 1)) = 1
    OBVIOUS
  <2>1. i + (k + 1) \in 1 .. Len(s) /\ i + (k + 1) - 1 = i + k /\ i + k <= Len(s)
    OBVIOUS
  <2> QED BY <1>2, <2>1, StateSteps
<1>3. Nat \subseteq T
  <2> HIDE DEF T
  <2> QED BY <1>1, <1>2, Induction
<1>4. Len(s) - i \in Nat /\ i + (Len(s) - i) = Len(s)
  OBVIOUS
<1>5. Len(s) - i \in T
  BY <1>3, <1>4
<1>6. StateAt(s, ascii, i + (Len(s) - i)) = 1
  BY <1>4, <1>5
<1> QED BY <1>4, <1>6

\* A turn of a string that is written to its end.
GoodTurn(d, e, b, ascii) ==
  /\ d \in DumpStates /\ e \in DumpStates /\ b \in Octet
  /\ e.state # 1 /\ e.state = After(d.state, b)
  /\ e.codep = IF d.state = 0 THEN FirstBits(b, ByteType(b)) ELSE (d.codep * 64) + (b % 64)
  /\ e.out = IF e.state = 0 THEN d.out \o Escaped(e.codep, b, ascii) ELSE IF ascii THEN d.out ELSE Append(d.out, b)

LEMMA GoodTurns ==
  ASSUME NEW s \in Seq(Octet), NEW ascii \in BOOLEAN, StateAt(s, ascii, Len(s)) = 0, NEW i \in 0 .. Len(s) - 1
  PROVE  GoodTurn(DumpOf(s, ascii)[i], DumpOf(s, ascii)[i + 1], s[i + 1], ascii)
<1>1. i + 1 \in 1 .. Len(s) /\ i + 1 - 1 = i /\ i \in 0 .. Len(s) /\ i + 1 \in 0 .. Len(s)
  OBVIOUS
<1>2. PICK d, e, b : d = DumpOf(s, ascii)[i] /\ e = DumpOf(s, ascii)[i + 1] /\ b = s[i + 1]
  OBVIOUS
<1>3. d \in DumpStates /\ e \in DumpStates /\ b \in Octet /\ Turn(d, e, b, ascii)
  <2>1. PICK j \in 1 .. Len(s) : j = i + 1 /\ j - 1 = i
    BY <1>1
  <2> QED BY <1>2, <2>1, DumpTurns
<1>4. d.state # 1 /\ e.state # 1
  BY <1>1, <1>2, NeverRejected DEF StateAt
<1>5. /\ e.state = After(d.state, b)
      /\ e.codep = IF d.state = 0 THEN FirstBits(b, ByteType(b)) ELSE (d.codep * 64) + (b % 64)
  BY <1>3, <1>4 DEF Turn
<1>6. e.out = IF e.state = 0 THEN d.out \o Escaped(e.codep, b, ascii) ELSE IF ascii THEN d.out ELSE Append(d.out, b)
  BY <1>3, <1>4, Zenon DEF Turn
<1> QED BY <1>2, <1>3, <1>4, <1>5, <1>6 DEF GoodTurn

\* What is written of a character c.
Writes(c, ascii, w) ==
  \/ \E b1 \in Octet : b1 < 128 /\ c = <<b1>> /\ w = Escaped(b1, b1, ascii)
  \/ \E b1, b2 \in Octet :
       Shape2(b1, b2) /\ c = <<b1, b2>> /\ w = IF ascii THEN Escaped(Code2(b1, b2), b2, TRUE) ELSE c
  \/ \E b1, b2, b3 \in Octet :
       /\ Shape3(b1, b2, b3) /\ c = <<b1, b2, b3>>
       /\ w = IF ascii THEN Escaped(Code3(b1, b2, b3), b3, TRUE) ELSE c
  \/ \E b1, b2, b3, b4 \in Octet :
       /\ Shape4(b1, b2, b3, b4) /\ c = <<b1, b2, b3, b4>>
       /\ w = IF ascii THEN Escaped(Code4(b1, b2, b3, b4), b4, TRUE) ELSE c

LEMMA EscapedRaw ==
  ASSUME NEW cp \in Int, 128 <= cp, NEW b
  PROVE  Escaped(cp, b, FALSE) = <<b>>
<1>1. cp \notin DOMAIN Short
  BY ShortFacts
<1> QED BY <1>1 DEF Escaped

LEMMA TailBits ==
  ASSUME NEW b \in Int, Tail1(b)
  PROVE  b % 64 = b - 128
BY DEF Tail1

LEMMA NextCodep ==
  ASSUME NEW d, NEW e, NEW b, NEW ascii, GoodTurn(d, e, b, ascii), d.state # 0, Tail1(b)
  PROVE  e.codep = (d.codep * 64) + (b - 128)
<1>1. e.codep = (d.codep * 64) + (b % 64)
  BY Zenon DEF GoodTurn
<1>2. b % 64 = b - 128
  BY TailBits, Octets DEF GoodTurn
<1> QED BY <1>1, <1>2, Zenon

LEMMA Appended ==
  ASSUME NEW a \in Octet, NEW b \in Octet, NEW c \in Octet, NEW d \in Octet
  PROVE  /\ Append(<<a>>, b) = <<a, b>> /\ Append(<<a, b>>, c) = <<a, b, c>>
         /\ Append(<<a, b, c>>, d) = <<a, b, c, d>>
<1>0. \A s \in Seq(Octet), x \in Octet : Append(s, x) \in Seq(Octet)
  OBVIOUS
<1>1. ASSUME NEW u \in Seq(Octet), NEW v \in Seq(Octet), Len(u) = Len(v), \A k \in 1 .. Len(u) : u[k] = v[k]
      PROVE  u = v
  BY <1>1
<1>2. Append(<<a>>, b) = <<a, b>>
  <2>1. PICK u, v \in Seq(Octet) : u = Append(<<a>>, b) /\ v = <<a, b>>
    <3>1. <<a>> \in Seq(Octet) /\ <<a, b>> \in Seq(Octet)
      OBVIOUS
    <3> QED BY <1>0, <3>1, Zenon
  <2>2. Len(u) = 2 /\ u[1] = a /\ u[2] = b /\ Len(v) = 2 /\ v[1] = a /\ v[2] = b
    BY <2>1
  <2>3. \A k \in 1 .. 2 : k = 1 \/ k = 2
    OBVIOUS
  <2>4. u = v
    BY <1>1, <2>2, <2>3
  <2> QED BY <2>1, <2>4
<1>3. Append(<<a, b>>, c) = <<a, b, c>>
  <2>1. PICK u, v \in Seq(Octet) : u = Append(<<a, b>>, c) /\ v = <<a, b, c>>
    <3>1. <<a, b>> \in Seq(Octet) /\ <<a, b, c>> \in Seq(Octet)
      OBVIOUS
    <3> QED BY <1>0, <3>1, Zenon
  <2>2. Len(u) = 3 /\ u[1] = a /\ u[2] = b /\ u[3] = c /\ Len(v) = 3 /\ v[1] = a /\ v[2] = b /\ v[3] = c
    BY <2>1
  <2>3. \A k \in 1 .. 3 : k = 1 \/ k = 2 \/ k = 3
    OBVIOUS
  <2>4. u = v
    BY <1>1, <2>2, <2>3
  <2> QED BY <2>1, <2>4
<1>4. Append(<<a, b, c>>, d) = <<a, b, c, d>>
  <2>1. PICK u, v \in Seq(Octet) : u = Append(<<a, b, c>>, d) /\ v = <<a, b, c, d>>
    <3>1. <<a, b, c>> \in Seq(Octet) /\ <<a, b, c, d>> \in Seq(Octet)
      OBVIOUS
    <3> QED BY <1>0, <3>1, Zenon
  <2>2. /\ Len(u) = 4 /\ u[1] = a /\ u[2] = b /\ u[3] = c /\ u[4] = d
        /\ Len(v) = 4 /\ v[1] = a /\ v[2] = b /\ v[3] = c /\ v[4] = d
    BY <2>1
  <2>3. \A k \in 1 .. 4 : k = 1 \/ k = 2 \/ k = 3 \/ k = 4
    OBVIOUS
  <2>4. u = v
    BY <1>1, <2>2, <2>3
  <2> QED BY <2>1, <2>4
<1> QED BY <1>2, <1>3, <1>4

LEMMA Parts14 ==
  ASSUME NEW s \in Seq(Octet), NEW i \in 0 .. Len(s)
  PROVE  /\ i + 1 <= Len(s) => SubSeq(s, i + 1, i + 1) = <<s[i + 1]>>
         /\ i + 2 <= Len(s) => SubSeq(s, i + 1, i + 2) = <<s[i + 1], s[i + 2]>>
         /\ i + 3 <= Len(s) => SubSeq(s, i + 1, i + 3) = <<s[i + 1], s[i + 2], s[i + 3]>>
         /\ i + 4 <= Len(s) => SubSeq(s, i + 1, i + 4) = <<s[i + 1], s[i + 2], s[i + 3], s[i + 4]>>
<1>1. i + 1 \in Nat \ {0} /\ i + 1 - 1 <= i
  OBVIOUS
<1>9. /\ i + 1 <= Len(s) => s[i + 1] \in Octet
      /\ i + 2 <= Len(s) => s[i + 1] \in Octet /\ s[i + 2] \in Octet
      /\ i + 3 <= Len(s) => s[i + 1] \in Octet /\ s[i + 2] \in Octet /\ s[i + 3] \in Octet
      /\ i + 4 <= Len(s) => s[i + 1] \in Octet /\ s[i + 2] \in Octet /\ s[i + 3] \in Octet /\ s[i + 4] \in Octet
  OBVIOUS
<1>2. ASSUME i + 1 <= Len(s) PROVE SubSeq(s, i + 1, i + 1) = <<s[i + 1]>>
  <2>1. PICK j \in Nat \ {0} : j = i + 1
    BY <1>1
  <2>2. j \in 1 .. Len(s) + 1 /\ j \in Int /\ j - 1 <= j /\ j <= Len(s) /\ j - j + 1 = 1
    BY <1>2, <2>1
  <2>3. SubSeq(s, j, j) \in Seq(Octet) /\ Len(SubSeq(s, j, j)) = 1 /\ \A k \in 1 .. 1 : SubSeq(s, j, j)[k] = s[j + k - 1]
    BY <2>2, PartFacts
  <2>4. PICK u \in Seq(Octet) : u = SubSeq(s, j, j)
    BY <2>3
  <2>5. j + 1 - 1 = j
    OBVIOUS
  <2>6. Len(u) = 1 /\ u[1] = s[j]
    BY <2>3, <2>4, <2>5
  <2>7. u = <<s[j]>>
    BY <2>6
  <2> QED BY <2>1, <2>4, <2>7
<1>3. ASSUME i + 2 <= Len(s) PROVE SubSeq(s, i + 1, i + 2) = <<s[i + 1], s[i + 2]>>
  <2>1. /\ i + 1 \in Int /\ i + 1 - 1 <= i + 1 /\ i + 1 < Len(s) /\ i + 1 + 1 = i + 2
    BY <1>3
  <2>2. PICK j \in Nat \ {0} : j = i + 1
    BY <1>1
  <2>3. Append(SubSeq(s, j, j), s[j + 1]) = SubSeq(s, j, j + 1)
    BY <2>1, <2>2, PartMore
  <2>4. SubSeq(s, j, j) = <<s[i + 1]>> /\ j + 1 = i + 2
    BY <1>2, <1>3, <2>2
  <2> QED BY <1>3, <1>9, <2>2, <2>3, <2>4, Appended, ZenonT(30)
<1>4. ASSUME i + 3 <= Len(s) PROVE SubSeq(s, i + 1, i + 3) = <<s[i + 1], s[i + 2], s[i + 3]>>
  <2>1. PICK j \in Nat \ {0} : j = i + 1
    BY <1>1
  <2>2. PICK k \in Int : k = i + 2 /\ k + 1 = i + 3 /\ j - 1 <= k /\ k < Len(s)
    BY <1>4, <2>1
  <2>3. Append(SubSeq(s, j, k), s[k + 1]) = SubSeq(s, j, k + 1)
    BY <2>2, PartMore
  <2>4. SubSeq(s, j, k) = <<s[i + 1], s[i + 2]>>
    BY <1>3, <1>4, <2>1, <2>2
  <2>5. SubSeq(s, i + 1, i + 3) = Append(<<s[i + 1], s[i + 2]>>, s[i + 3])
    BY <2>1, <2>2, <2>3, <2>4, Zenon
  <2> QED BY <1>4, <1>9, <2>5, Appended, Zenon
<1>5. ASSUME i + 4 <= Len(s) PROVE SubSeq(s, i + 1, i + 4) = <<s[i + 1], s[i + 2], s[i + 3], s[i + 4]>>
  <2>1. PICK j \in Nat \ {0} : j = i + 1
    BY <1>1
  <2>2. PICK k \in Int : k = i + 3 /\ k + 1 = i + 4 /\ j - 1 <= k /\ k < Len(s)
    BY <1>5, <2>1
  <2>3. Append(SubSeq(s, j, k), s[k + 1]) = SubSeq(s, j, k + 1)
    BY <2>2, PartMore
  <2>4. SubSeq(s, j, k) = <<s[i + 1], s[i + 2], s[i + 3]>>
    BY <1>4, <1>5, <2>1, <2>2
  <2>5. SubSeq(s, i + 1, i + 4) = Append(<<s[i + 1], s[i + 2], s[i + 3]>>, s[i + 4])
    BY <2>1, <2>2, <2>3, <2>4, Zenon
  <2> QED BY <1>5, <1>9, <2>5, Appended, ZenonT(30)
<1> QED BY <1>2, <1>3, <1>4, <1>5

LEMMA Joined ==
  ASSUME NEW o \in Seq(Octet), NEW a \in Octet, NEW b \in Octet, NEW c \in Octet, NEW d \in Octet
  PROVE  /\ Append(o, a) \o <<b>> = o \o <<a, b>>
         /\ Append(Append(o, a), b) \o <<c>> = o \o <<a, b, c>>
         /\ Append(Append(Append(o, a), b), c) \o <<d>> = o \o <<a, b, c, d>>
<1>1. \A s \in Seq(Octet), x \in Octet : Append(s, x) \in Seq(Octet) /\ <<x>> \in Seq(Octet) /\ s \o <<x>> = Append(s, x)
  OBVIOUS
<1>2. \A s, t \in Seq(Octet), x \in Octet : s \o Append(t, x) = Append(s \o t, x)
  <2> SUFFICES ASSUME NEW s \in Seq(Octet), NEW t \in Seq(Octet), NEW x \in Octet PROVE s \o Append(t, x) = Append(s \o t, x)
    OBVIOUS
  <2>1. PICK u \in Seq(Octet) : u = <<x>>
    BY <1>1, Zenon
  <2>2. (s \o t) \o u = s \o (t \o u)
    BY ConcatAssociative
  <2>3. s \o t \in Seq(Octet)
    OBVIOUS
  <2> QED BY <1>1, <2>1, <2>2, <2>3, Zenon
<1>3. /\ <<a>> \in Seq(Octet) /\ <<a, b>> \in Seq(Octet) /\ <<a, b, c>> \in Seq(Octet)
      /\ Append(<<a>>, b) = <<a, b>> /\ Append(<<a, b>>, c) = <<a, b, c>> /\ Append(<<a, b, c>>, d) = <<a, b, c, d>>
  <2>1. <<a>> \in Seq(Octet) /\ <<a, b>> \in Seq(Octet) /\ <<a, b, c>> \in Seq(Octet)
    OBVIOUS
  <2> QED BY <2>1, Appended
<1>4. o \o <<a>> = Append(o, a)
  BY <1>1
<1>5. o \o <<a, b>> = Append(Append(o, a), b)
  <2>1. o \o Append(<<a>>, b) = Append(o \o <<a>>, b)
    BY <1>2, <1>3, Zenon
  <2>2. Append(<<a>>, b) = <<a, b>>
    BY <1>3
  <2> QED BY <1>4, <2>1, <2>2, Zenon
<1>6. o \o <<a, b, c>> = Append(Append(Append(o, a), b), c)
  <2>1. o \o Append(<<a, b>>, c) = Append(o \o <<a, b>>, c)
    BY <1>2, <1>3, Zenon
  <2>2. Append(<<a, b>>, c) = <<a, b, c>>
    BY <1>3
  <2> QED BY <1>5, <2>1, <2>2, Zenon
<1>7. o \o <<a, b, c, d>> = Append(Append(Append(Append(o, a), b), c), d)
  <2>1. o \o Append(<<a, b, c>>, d) = Append(o \o <<a, b, c>>, d)
    BY <1>2, <1>3, Zenon
  <2>2. Append(<<a, b, c>>, d) = <<a, b, c, d>>
    BY <1>3
  <2> QED BY <1>6, <2>1, <2>2, Zenon
<1>8. PICK p \in Seq(Octet) : p = Append(o, a)
  BY <1>1, Zenon
<1>9. PICK q \in Seq(Octet) : q = Append(p, b)
  BY <1>1, Zenon
<1>10. PICK r \in Seq(Octet) : r = Append(q, c)
  BY <1>1, Zenon
<1>11. p \o <<b>> = Append(p, b) /\ q \o <<c>> = Append(q, c) /\ r \o <<d>> = Append(r, d)
  BY <1>1, Zenon
<1> QED BY <1>5, <1>6, <1>7, <1>8, <1>9, <1>10, <1>11, Zenon

Joined4(o, a, b, c, d) == Append(Append(Append(o, a), b), c) \o <<d>> = o \o <<a, b, c, d>>

LEMMA JoinedIn4 ==
  ASSUME NEW o \in Seq(Octet), NEW a \in Octet, NEW b \in Octet, NEW c \in Octet, NEW d \in Octet
  PROVE  Joined4(o, a, b, c, d)
<1>1. PICK u, v : u = Append(Append(Append(o, a), b), c) \o <<d>> /\ v = o \o <<a, b, c, d>>
  OBVIOUS
<1>2. u = v
  BY <1>1, Joined
<1> QED BY <1>1, <1>2 DEF Joined4

LEMMA Turns1 ==
  ASSUME NEW d, NEW e, NEW b1, NEW ascii \in BOOLEAN, GoodTurn(d, e, b1, ascii), d.state = 0, e.state = 0
  PROVE  b1 < 128 /\ b1 \in Octet /\ e.out = d.out \o Escaped(b1, b1, ascii)
<1>1. b1 \in Octet /\ After(0, b1) = 0
  BY DEF GoodTurn
<1>2. b1 < 128
  BY <1>1, AfterShapes
<1>3. e.codep = b1
  BY <1>1, <1>2, BitsOfFirst DEF GoodTurn
<1> QED BY <1>1, <1>2, <1>3 DEF GoodTurn

\* The bytes of a character, and what is written of them from d to the state at the end.
Wrote2(d, f, b1, b2, ascii) ==
  /\ f.state = 0 /\ Shape2(b1, b2) /\ b1 \in Octet /\ b2 \in Octet
  /\ f.out = d.out \o (IF ascii THEN Escaped(Code2(b1, b2), b2, TRUE) ELSE <<b1, b2>>)
Wrote3(d, g, b1, b2, b3, ascii) ==
  /\ g.state = 0 /\ Shape3(b1, b2, b3) /\ b1 \in Octet /\ b2 \in Octet /\ b3 \in Octet
  /\ g.out = d.out \o (IF ascii THEN Escaped(Code3(b1, b2, b3), b3, TRUE) ELSE <<b1, b2, b3>>)
Wrote4(d, h, b1, b2, b3, b4, ascii) ==
  /\ h.state = 0 /\ Shape4(b1, b2, b3, b4) /\ b1 \in Octet /\ b2 \in Octet /\ b3 \in Octet /\ b4 \in Octet
  /\ h.out = d.out \o (IF ascii THEN Escaped(Code4(b1, b2, b3, b4), b4, TRUE) ELSE <<b1, b2, b3, b4>>)

LEMMA Turns2 ==
  ASSUME NEW d, NEW e, NEW f, NEW b1, NEW b2, NEW ascii \in BOOLEAN,
         GoodTurn(d, e, b1, ascii), GoodTurn(e, f, b2, ascii), d.state = 0, e.state = 2
  PROVE  Wrote2(d, f, b1, b2, ascii)
<1> SUFFICES /\ f.state = 0 /\ Shape2(b1, b2) /\ b1 \in Octet /\ b2 \in Octet
               /\ f.out = d.out \o (IF ascii THEN Escaped(Code2(b1, b2), b2, TRUE) ELSE <<b1, b2>>)
  BY DEF Wrote2
<1>1. b1 \in Octet /\ b2 \in Octet /\ d.out \in Seq(Octet) /\ b1 \in Int /\ b2 \in Int
  BY Octets DEF GoodTurn, DumpStates
<1>2. After(0, b1) = 2 /\ After(2, b2) # 1 /\ f.state = After(2, b2)
  BY DEF GoodTurn
<1>3. Shape2(b1, b2) /\ f.state = 0
  BY <1>1, <1>2, AfterShapes
<1>4. b1 \in 194 .. 223 /\ Tail1(b2)
  BY <1>3 DEF Shape2
<1>5. e.codep = b1 - 192
  BY <1>1, <1>4, BitsOfFirst DEF GoodTurn
<1>6. f.codep = Code2(b1, b2)
  <2>1. f.codep = (e.codep * 64) + (b2 - 128)
    BY <1>4, NextCodep
  <2> QED BY <1>5, <2>1 DEF Code2
<1>7. /\ f.out = e.out \o Escaped(Code2(b1, b2), b2, ascii)
      /\ e.out = IF ascii THEN d.out ELSE Append(d.out, b1)
  <2>1. f.out = e.out \o Escaped(Code2(b1, b2), b2, ascii)
    BY <1>3, <1>6 DEF GoodTurn
  <2>2. e.state # 0
    OBVIOUS
  <2>3. e.out = IF ascii THEN d.out ELSE Append(d.out, b1)
    BY <2>2 DEF GoodTurn
  <2> QED BY <2>1, <2>3
<1>8. CASE ascii
  <2>1. ascii = TRUE
    BY <1>8
  <2> QED BY <1>1, <1>3, <1>7, <2>1, Zenon
<1>9. CASE ~ascii
  <2>1. ascii = FALSE
    BY <1>9
  <2>2. Escaped(Code2(b1, b2), b2, ascii) = <<b2>>
    <3>1. Code2(b1, b2) \in Int /\ 128 <= Code2(b1, b2)
      BY <1>1, <1>3, BytesOfCodes
    <3>2. PICK v \in Int : v = Code2(b1, b2) /\ 128 <= v
      BY <3>1
    <3> QED BY <2>1, <3>2, EscapedRaw
  <2>3. f.out = Append(d.out, b1) \o <<b2>>
    BY <1>7, <2>1, <2>2
  <2>4. f.out = d.out \o <<b1, b2>>
    BY <1>1, <2>3, Joined
  <2> QED BY <1>1, <1>3, <1>9, <2>4
<1> QED BY <1>8, <1>9

LEMMA Turns3 ==
  ASSUME NEW d, NEW e, NEW f, NEW g, NEW b1, NEW b2, NEW b3, NEW ascii \in BOOLEAN,
         GoodTurn(d, e, b1, ascii), GoodTurn(e, f, b2, ascii), GoodTurn(f, g, b3, ascii),
         d.state = 0, e.state \in 3 .. 5, f.state = 2
  PROVE  Wrote3(d, g, b1, b2, b3, ascii)
<1> SUFFICES /\ g.state = 0 /\ Shape3(b1, b2, b3) /\ b1 \in Octet /\ b2 \in Octet /\ b3 \in Octet
               /\ g.out = d.out \o (IF ascii THEN Escaped(Code3(b1, b2, b3), b3, TRUE) ELSE <<b1, b2, b3>>)
  BY DEF Wrote3
<1>1. /\ b1 \in Octet /\ b2 \in Octet /\ b3 \in Octet /\ d.out \in Seq(Octet)
      /\ b1 \in Int /\ b2 \in Int /\ b3 \in Int
  BY Octets DEF GoodTurn, DumpStates
<1>2. After(0, b1) \in 3 .. 5 /\ After(After(0, b1), b2) # 1 /\ After(2, b3) # 1 /\ g.state = After(2, b3)
  BY DEF GoodTurn
<1>3. Shape3(b1, b2, b3) /\ g.state = 0
  BY <1>1, <1>2, AfterShapes
<1>4. b1 \in 224 .. 239 /\ Tail1(b2) /\ Tail1(b3)
  BY <1>3 DEF Shape3
<1>5. e.codep = b1 - 224
  BY <1>1, <1>4, BitsOfFirst DEF GoodTurn
<1>6. f.codep = (b1 - 224) * 64 + (b2 - 128)
  <2>1. e.state # 0
    OBVIOUS
  <2>2. f.codep = (e.codep * 64) + (b2 - 128)
    BY <1>4, <2>1, NextCodep
  <2> QED BY <1>5, <2>2
<1>7. g.codep = Code3(b1, b2, b3)
  <2>1. g.codep = (f.codep * 64) + (b3 - 128)
    BY <1>4, NextCodep
  <2>2. ((b1 - 224) * 64 + (b2 - 128)) * 64 = (b1 - 224) * 4096 + (b2 - 128) * 64
    BY <1>1
  <2> QED BY <1>6, <2>1, <2>2 DEF Code3
<1>8. /\ g.out = f.out \o Escaped(Code3(b1, b2, b3), b3, ascii)
      /\ f.out = IF ascii THEN e.out ELSE Append(e.out, b2)
      /\ e.out = IF ascii THEN d.out ELSE Append(d.out, b1)
  <2>1. g.out = f.out \o Escaped(Code3(b1, b2, b3), b3, ascii)
    BY <1>3, <1>7 DEF GoodTurn
  <2>2. f.out = IF ascii THEN e.out ELSE Append(e.out, b2)
    BY DEF GoodTurn
  <2>3. e.state # 0
    OBVIOUS
  <2>4. e.out = IF ascii THEN d.out ELSE Append(d.out, b1)
    BY <2>3 DEF GoodTurn
  <2> QED BY <2>1, <2>2, <2>4
<1>9. CASE ascii
  <2>1. ascii = TRUE
    BY <1>9
  <2> QED BY <1>1, <1>3, <1>8, <2>1, Zenon
<1>10. CASE ~ascii
  <2>1. ascii = FALSE
    BY <1>10
  <2>2. Escaped(Code3(b1, b2, b3), b3, ascii) = <<b3>>
    <3>1. Code3(b1, b2, b3) \in Int /\ 2048 <= Code3(b1, b2, b3)
      BY <1>1, <1>3, BytesOfCodes
    <3>2. PICK v \in Int : v = Code3(b1, b2, b3) /\ 128 <= v
      BY <3>1
    <3> QED BY <2>1, <3>2, EscapedRaw
  <2>3. g.out = Append(Append(d.out, b1), b2) \o <<b3>>
    BY <1>8, <2>1, <2>2
  <2>4. g.out = d.out \o <<b1, b2, b3>>
    BY <1>1, <2>3, Joined
  <2> QED BY <1>1, <1>3, <1>10, <2>4
<1> QED BY <1>9, <1>10

LEMMA Turns4 ==
  ASSUME NEW d, NEW e, NEW f, NEW g, NEW h, NEW b1, NEW b2, NEW b3, NEW b4, NEW ascii \in BOOLEAN,
         GoodTurn(d, e, b1, ascii), GoodTurn(e, f, b2, ascii), GoodTurn(f, g, b3, ascii), GoodTurn(g, h, b4, ascii),
         d.state = 0, e.state \in 6 .. 8, f.state = 3, g.state = 2
  PROVE  Wrote4(d, h, b1, b2, b3, b4, ascii)
<1> SUFFICES /\ h.state = 0 /\ Shape4(b1, b2, b3, b4) /\ b1 \in Octet /\ b2 \in Octet /\ b3 \in Octet /\ b4 \in Octet
               /\ h.out = d.out \o (IF ascii THEN Escaped(Code4(b1, b2, b3, b4), b4, TRUE) ELSE <<b1, b2, b3, b4>>)
  BY DEF Wrote4
<1>1. /\ b1 \in Octet /\ b2 \in Octet /\ b3 \in Octet /\ b4 \in Octet /\ d.out \in Seq(Octet)
      /\ b1 \in Int /\ b2 \in Int /\ b3 \in Int /\ b4 \in Int
  BY Octets DEF GoodTurn, DumpStates
<1>2. /\ After(0, b1) \in 6 .. 8 /\ After(After(0, b1), b2) # 1 /\ After(3, b3) # 1 /\ After(2, b4) # 1
      /\ h.state = After(2, b4)
  BY DEF GoodTurn
<1>3. Shape4(b1, b2, b3, b4) /\ h.state = 0
  BY <1>1, <1>2, AfterShapes
<1>4. b1 \in 240 .. 244 /\ Tail1(b2) /\ Tail1(b3) /\ Tail1(b4)
  BY <1>3 DEF Shape4
<1>5. e.state # 0
  OBVIOUS
<1>6. e.codep = b1 - 240
  BY <1>1, <1>4, BitsOfFirst DEF GoodTurn
<1>7. f.codep = (b1 - 240) * 64 + (b2 - 128)
  <2>1. f.codep = (e.codep * 64) + (b2 - 128)
    BY <1>4, <1>5, NextCodep
  <2> QED BY <1>6, <2>1
<1>8. g.codep = (b1 - 240) * 4096 + (b2 - 128) * 64 + (b3 - 128)
  <2>1. g.codep = (f.codep * 64) + (b3 - 128)
    BY <1>4, NextCodep
  <2>2. ((b1 - 240) * 64 + (b2 - 128)) * 64 = (b1 - 240) * 4096 + (b2 - 128) * 64
    BY <1>1
  <2> QED BY <1>7, <2>1, <2>2
<1>9. h.codep = Code4(b1, b2, b3, b4)
  <2>1. h.codep = (g.codep * 64) + (b4 - 128)
    BY <1>4, NextCodep
  <2>2. ((b1 - 240) * 4096 + (b2 - 128) * 64 + (b3 - 128)) * 64 =
        (b1 - 240) * 262144 + (b2 - 128) * 4096 + (b3 - 128) * 64
    BY <1>1
  <2> QED BY <1>8, <2>1, <2>2 DEF Code4
<1>10. /\ h.out = g.out \o Escaped(Code4(b1, b2, b3, b4), b4, ascii)
       /\ g.out = IF ascii THEN f.out ELSE Append(f.out, b3)
       /\ f.out = IF ascii THEN e.out ELSE Append(e.out, b2)
       /\ e.out = IF ascii THEN d.out ELSE Append(d.out, b1)
  <2>1. h.out = g.out \o Escaped(Code4(b1, b2, b3, b4), b4, ascii)
    BY <1>3, <1>9 DEF GoodTurn
  <2>2. g.out = IF ascii THEN f.out ELSE Append(f.out, b3)
    BY DEF GoodTurn
  <2>3. f.out = IF ascii THEN e.out ELSE Append(e.out, b2)
    BY DEF GoodTurn
  <2>4. e.out = IF ascii THEN d.out ELSE Append(d.out, b1)
    BY <1>5 DEF GoodTurn
  <2> QED BY <2>1, <2>2, <2>3, <2>4
<1>11. CASE ascii
  <2>1. ascii = TRUE
    BY <1>11
  <2> QED BY <1>1, <1>3, <1>10, <2>1, Zenon
<1>12. CASE ~ascii
  <2>1. ascii = FALSE
    BY <1>12
  <2>2. Escaped(Code4(b1, b2, b3, b4), b4, ascii) = <<b4>>
    <3>1. Code4(b1, b2, b3, b4) \in Int /\ 65536 <= Code4(b1, b2, b3, b4)
      BY <1>1, <1>3, BytesOfCodes
    <3>2. PICK v \in Int : v = Code4(b1, b2, b3, b4) /\ 128 <= v
      BY <3>1
    <3> QED BY <2>1, <3>2, EscapedRaw
  <2>3. h.out = Append(Append(Append(d.out, b1), b2), b3) \o <<b4>>
    BY <1>10, <2>1, <2>2
  <2>4. h.out = d.out \o <<b1, b2, b3, b4>>
    <3>1. PICK o \in Seq(Octet) : o = d.out
      BY <1>1
    <3>2. Append(Append(Append(o, b1), b2), b3) \o <<b4>> = o \o <<b1, b2, b3, b4>>
      <4>1. Joined4(o, b1, b2, b3, b4)
        BY <1>1, JoinedIn4
      <4> QED BY <4>1 DEF Joined4
    <3> QED BY <2>3, <3>1, <3>2, Zenon
  <2> QED BY <1>1, <1>3, <1>12, <2>4
<1> QED BY <1>11, <1>12

\* The next k bytes of s from i on are a character, for which w is written.
NextWritten(s, ascii, i, k, w) ==
  /\ k \in 1 .. 4 /\ i + k <= Len(s) /\ StateAt(s, ascii, i + k) = 0
  /\ Writes(SubSeq(s, i + 1, i + k), ascii, w)
  /\ DumpOf(s, ascii)[i + k].out = DumpOf(s, ascii)[i].out \o w

LEMMA NextCharacter ==
  ASSUME NEW s \in Seq(Octet), NEW ascii \in BOOLEAN, StateAt(s, ascii, Len(s)) = 0,
         NEW i \in 0 .. Len(s) - 1, StateAt(s, ascii, i) = 0
  PROVE  \E k, w : NextWritten(s, ascii, i, k, w)
<1>n. PICK n \in Nat : n = Len(s)
  OBVIOUS
<1>0. i \in Nat /\ i < n /\ i \in 0 .. Len(s)
  BY <1>n
<1>1. PICK d, e, b1 : d = DumpOf(s, ascii)[i] /\ e = DumpOf(s, ascii)[i + 1] /\ b1 = s[i + 1]
  OBVIOUS
<1>2. GoodTurn(d, e, b1, ascii) /\ d.state = 0 /\ e.state = StateAt(s, ascii, i + 1)
  BY <1>1, GoodTurns DEF StateAt
<1>3. e.state = After(0, b1) /\ b1 \in Octet /\ e.state # 1 /\ e.state \in 0 .. 8
  BY <1>2 DEF GoodTurn, DumpStates
<1>4. CASE e.state = 0
  <2>1. b1 < 128 /\ b1 \in Octet /\ e.out = d.out \o Escaped(b1, b1, ascii)
    BY <1>2, <1>4, Turns1
  <2>2. SubSeq(s, i + 1, i + 1) = <<b1>>
    BY <1>0, <1>1, <1>n, Parts14
  <2>3. PICK w : w = Escaped(b1, b1, ascii)
    OBVIOUS
  <2>4. Writes(SubSeq(s, i + 1, i + 1), ascii, w)
    BY <2>1, <2>2, <2>3 DEF Writes
  <2>5. i + 1 <= Len(s)
    BY <1>0, <1>n
  <2>6. NextWritten(s, ascii, i, 1, w)
    BY <1>1, <1>2, <1>4, <2>1, <2>3, <2>4, <2>5 DEF NextWritten
  <2> QED BY <2>6
<1>5. ASSUME e.state # 0 PROVE i + 1 < n
  BY <1>0, <1>2, <1>5, <1>n
<1>6. ASSUME e.state # 0
      PROVE  \E f, b2 : /\ f = DumpOf(s, ascii)[i + 2] /\ b2 = s[i + 2] /\ GoodTurn(e, f, b2, ascii)
                        /\ f.state = StateAt(s, ascii, i + 2) /\ b2 \in Octet /\ f.state = After(e.state, b2)
                        /\ f.state # 1
  <2>1. PICK j \in 0 .. Len(s) - 1 : j = i + 1 /\ j + 1 = i + 2
    BY <1>0, <1>5, <1>6, <1>n
  <2>2. PICK f, b2 : f = DumpOf(s, ascii)[j + 1] /\ b2 = s[j + 1]
    OBVIOUS
  <2>3. GoodTurn(e, f, b2, ascii)
    BY <1>1, <2>1, <2>2, GoodTurns
  <2>4. b2 \in Octet /\ f.state = After(e.state, b2) /\ f.state # 1
    BY <2>3 DEF GoodTurn
  <2>5. f = DumpOf(s, ascii)[i + 2] /\ b2 = s[i + 2]
    BY <2>1, <2>2
  <2>6. f.state = StateAt(s, ascii, i + 2)
    BY <2>5 DEF StateAt
  <2> QED BY <2>3, <2>4, <2>5, <2>6
<1>7. CASE e.state = 2
  <2>1. PICK f, b2 : /\ f = DumpOf(s, ascii)[i + 2] /\ b2 = s[i + 2] /\ GoodTurn(e, f, b2, ascii)
                     /\ f.state = StateAt(s, ascii, i + 2) /\ b2 \in Octet /\ f.state = After(e.state, b2)
                     /\ f.state # 1
    BY <1>6, <1>7
  <2>2. Wrote2(d, f, b1, b2, ascii) /\ f.state = 0
    <3>1. Wrote2(d, f, b1, b2, ascii)
      BY <1>2, <1>7, <2>1, Turns2
    <3> QED BY <3>1 DEF Wrote2
  <2>3. i + 2 <= Len(s)
    BY <1>0, <1>5, <1>7, <1>n
  <2>4. SubSeq(s, i + 1, i + 2) = <<b1, b2>>
    BY <1>0, <1>1, <2>1, <2>3, Parts14
  <2>5. PICK c, w : c = <<b1, b2>> /\ w = IF ascii THEN Escaped(Code2(b1, b2), b2, TRUE) ELSE c
    OBVIOUS
  <2>6. Writes(c, ascii, w)
    BY <1>3, <2>1, <2>2, <2>5, Zenon DEF Writes, Wrote2
  <2>7. f.out = d.out \o w
    BY <2>2, <2>5 DEF Wrote2
  <2>8. NextWritten(s, ascii, i, 2, w)
    <3>1. StateAt(s, ascii, i + 2) = 0 /\ 2 \in 1 .. 4
      BY <2>1, <2>2
    <3>2. Writes(SubSeq(s, i + 1, i + 2), ascii, w)
      BY <2>4, <2>5, <2>6, Zenon
    <3>3. DumpOf(s, ascii)[i + 2].out = DumpOf(s, ascii)[i].out \o w
      BY <1>1, <2>1, <2>7, Zenon
    <3> QED BY <2>3, <3>1, <3>2, <3>3 DEF NextWritten
  <2> QED BY <2>8
<1>8. ASSUME NEW f, NEW b2, e.state # 0, f.state # 0,
             f = DumpOf(s, ascii)[i + 2], f.state = StateAt(s, ascii, i + 2)
      PROVE  \E g, b3 : /\ g = DumpOf(s, ascii)[i + 3] /\ b3 = s[i + 3] /\ GoodTurn(f, g, b3, ascii)
                        /\ g.state = StateAt(s, ascii, i + 3) /\ b3 \in Octet /\ g.state = After(f.state, b3)
                        /\ g.state # 1 /\ i + 3 <= n
  <2>0. i + 2 < n
    <3>1. i + 1 < n
      BY <1>5, <1>8
    <3>2. i + 2 # n
      BY <1>8, <1>n
    <3> QED BY <1>0, <3>1, <3>2
  <2>1. PICK j \in 0 .. Len(s) - 1 : j = i + 2 /\ j + 1 = i + 3
    BY <1>0, <2>0, <1>n
  <2>2. PICK g, b3 : g = DumpOf(s, ascii)[j + 1] /\ b3 = s[j + 1]
    OBVIOUS
  <2>3. GoodTurn(f, g, b3, ascii)
    BY <1>8, <2>1, <2>2, GoodTurns
  <2>4. b3 \in Octet /\ g.state = After(f.state, b3) /\ g.state # 1
    BY <2>3 DEF GoodTurn
  <2>5. g = DumpOf(s, ascii)[i + 3] /\ b3 = s[i + 3] /\ i + 3 <= n
    BY <1>0, <2>0, <2>1, <2>2
  <2>6. g.state = StateAt(s, ascii, i + 3)
    BY <2>5 DEF StateAt
  <2> QED BY <2>3, <2>4, <2>5, <2>6
<1>9. CASE e.state \in 3 .. 5
  <2>0. e.state # 0
    BY <1>9
  <2>1. PICK f, b2 : /\ f = DumpOf(s, ascii)[i + 2] /\ b2 = s[i + 2] /\ GoodTurn(e, f, b2, ascii)
                     /\ f.state = StateAt(s, ascii, i + 2) /\ b2 \in Octet /\ f.state = After(e.state, b2)
                     /\ f.state # 1
    BY <1>6, <2>0
  <2>2. f.state \in 0 .. 8 /\ f.state # 0
    <3>0. b2 \in Int
      BY <2>1, Octets
    <3>1. After(3, b2) # 0 /\ After(4, b2) # 0 /\ After(5, b2) # 0
      BY <3>0, SMTT(30) DEF After
    <3>2. f.state \in 0 .. 8
      BY <2>1 DEF GoodTurn, DumpStates
    <3>3. e.state = 3 \/ e.state = 4 \/ e.state = 5
      BY <1>9
    <3>4. f.state # 0
      BY <2>1, <3>1, <3>3
    <3> QED BY <3>2, <3>4
  <2>3. PICK g, b3 : /\ g = DumpOf(s, ascii)[i + 3] /\ b3 = s[i + 3] /\ GoodTurn(f, g, b3, ascii)
                     /\ g.state = StateAt(s, ascii, i + 3) /\ b3 \in Octet /\ g.state = After(f.state, b3)
                     /\ g.state # 1 /\ i + 3 <= n
    BY <1>8, <2>0, <2>1, <2>2
  <2>4. f.state = 2
    <3>0. b2 \in Int
      BY <2>1, Octets
    <3>1. After(3, b2) \in {1, 2} /\ After(4, b2) \in {1, 2} /\ After(5, b2) \in {1, 2}
      BY <3>0, SMTT(30) DEF After
    <3> QED BY <1>9, <2>1, <3>1
  <2>5. Wrote3(d, g, b1, b2, b3, ascii) /\ g.state = 0
    <3>1. Wrote3(d, g, b1, b2, b3, ascii)
      BY <1>2, <1>9, <2>1, <2>3, <2>4, Turns3
    <3> QED BY <3>1 DEF Wrote3
  <2>6. SubSeq(s, i + 1, i + 3) = <<b1, b2, b3>> /\ i + 3 <= Len(s)
    BY <1>0, <1>1, <1>n, <2>1, <2>3, Parts14
  <2>7. PICK c, w : c = <<b1, b2, b3>> /\ w = IF ascii THEN Escaped(Code3(b1, b2, b3), b3, TRUE) ELSE c
    OBVIOUS
  <2>8. Writes(c, ascii, w)
    BY <1>3, <2>1, <2>3, <2>5, <2>7, Zenon DEF Writes, Wrote3
  <2>9. g.out = d.out \o w
    BY <2>5, <2>7 DEF Wrote3
  <2>10. NextWritten(s, ascii, i, 3, w)
    <3>1. StateAt(s, ascii, i + 3) = 0 /\ 3 \in 1 .. 4
      BY <2>3, <2>5
    <3>2. Writes(SubSeq(s, i + 1, i + 3), ascii, w)
      BY <2>6, <2>7, <2>8, Zenon
    <3>3. DumpOf(s, ascii)[i + 3].out = DumpOf(s, ascii)[i].out \o w
      BY <1>1, <2>3, <2>9, Zenon
    <3> QED BY <2>6, <3>1, <3>2, <3>3 DEF NextWritten
  <2> QED BY <2>10
<1>10. CASE e.state \in 6 .. 8
  <2>0. e.state # 0
    BY <1>10
  <2>1. PICK f, b2 : /\ f = DumpOf(s, ascii)[i + 2] /\ b2 = s[i + 2] /\ GoodTurn(e, f, b2, ascii)
                     /\ f.state = StateAt(s, ascii, i + 2) /\ b2 \in Octet /\ f.state = After(e.state, b2)
                     /\ f.state # 1
    BY <1>6, <2>0
  <2>2. f.state = 3
    <3>1. After(6, b2) \in {1, 3}
      BY <2>1, Octets, SMTT(30) DEF After
    <3>2. After(7, b2) \in {1, 3}
      BY <2>1, Octets, SMTT(30) DEF After
    <3>3. After(8, b2) \in {1, 3}
      BY <2>1, Octets, SMTT(30) DEF After
    <3>4. e.state = 6 \/ e.state = 7 \/ e.state = 8
      BY <1>10
    <3> QED BY <2>1, <3>1, <3>2, <3>3, <3>4
  <2>3. PICK g, b3 : /\ g = DumpOf(s, ascii)[i + 3] /\ b3 = s[i + 3] /\ GoodTurn(f, g, b3, ascii)
                     /\ g.state = StateAt(s, ascii, i + 3) /\ b3 \in Octet /\ g.state = After(f.state, b3)
                     /\ g.state # 1 /\ i + 3 <= n
    BY <1>8, <2>0, <2>1, <2>2
  <2>4. g.state = 2
    <3>1. After(3, b3) \in {1, 2}
      BY <2>3, Octets, SMTT(30) DEF After
    <3> QED BY <2>2, <2>3, <3>1
  <2>5. i + 3 < n
    <3>1. i + 3 # n
      BY <2>3, <2>4, <1>n
    <3> QED BY <1>0, <2>3, <3>1
  <2>6. PICK j \in 0 .. Len(s) - 1 : j = i + 3 /\ j + 1 = i + 4
    BY <1>0, <2>5, <1>n
  <2>7. PICK h, b4 : h = DumpOf(s, ascii)[j + 1] /\ b4 = s[j + 1]
    OBVIOUS
  <2>8. GoodTurn(g, h, b4, ascii)
    BY <2>3, <2>6, <2>7, GoodTurns
  <2>9. Wrote4(d, h, b1, b2, b3, b4, ascii) /\ h.state = 0
    <3>1. Wrote4(d, h, b1, b2, b3, b4, ascii)
      BY <1>2, <1>10, <2>1, <2>2, <2>3, <2>4, <2>8, Turns4
    <3> QED BY <3>1 DEF Wrote4
  <2>10. h = DumpOf(s, ascii)[i + 4] /\ b4 = s[i + 4] /\ i + 4 <= Len(s)
    BY <1>0, <1>n, <2>5, <2>6, <2>7
  <2>11. SubSeq(s, i + 1, i + 4) = <<b1, b2, b3, b4>>
    BY <1>0, <1>1, <2>1, <2>3, <2>10, Parts14
  <2>12. PICK c, w : c = <<b1, b2, b3, b4>> /\ w = IF ascii THEN Escaped(Code4(b1, b2, b3, b4), b4, TRUE) ELSE c
    OBVIOUS
  <2>13. Writes(c, ascii, w)
    BY <1>3, <2>1, <2>3, <2>9, <2>12, Zenon DEF Writes, Wrote4
  <2>14. h.out = d.out \o w
    BY <2>9, <2>12 DEF Wrote4
  <2>15. StateAt(s, ascii, i + 4) = 0
    BY <2>9, <2>10 DEF StateAt
  <2>16. NextWritten(s, ascii, i, 4, w)
    <3>1. 4 \in 1 .. 4
      OBVIOUS
    <3>2. Writes(SubSeq(s, i + 1, i + 4), ascii, w)
      BY <2>11, <2>12, <2>13, Zenon
    <3>3. DumpOf(s, ascii)[i + 4].out = DumpOf(s, ascii)[i].out \o w
      BY <1>1, <2>10, <2>14, Zenon
    <3> QED BY <2>10, <2>15, <3>1, <3>2, <3>3 DEF NextWritten
  <2> QED BY <2>16
<1> QED BY <1>3, <1>4, <1>7, <1>9, <1>10

\* A text that starts with another.
Starts(p, q) == p \in Seq(Octet) /\ q \in Seq(Octet) /\ Len(p) <= Len(q) /\ \A k \in 1 .. Len(p) : q[k] = p[k]

LEMMA StartsOn ==
  /\ \A p \in Seq(Octet) : Starts(p, p)
  /\ \A p, q \in Seq(Octet) : Starts(p, p \o q)
  /\ \A p, q, r : Starts(p, q) /\ Starts(q, r) => Starts(p, r)
<1>1. \A p \in Seq(Octet) : Starts(p, p)
  BY DEF Starts
<1>2. ASSUME NEW p \in Seq(Octet), NEW q \in Seq(Octet) PROVE Starts(p, p \o q)
  BY JoinFacts DEF Starts
<1>3. ASSUME NEW p, NEW q, NEW r, Starts(p, q), Starts(q, r) PROVE Starts(p, r)
  <2>1. p \in Seq(Octet) /\ q \in Seq(Octet) /\ r \in Seq(Octet) /\ Len(p) <= Len(q) /\ Len(q) <= Len(r)
    BY <1>3 DEF Starts
  <2>2. ASSUME NEW k \in 1 .. Len(p) PROVE r[k] = p[k]
    <3>1. k \in 1 .. Len(q)
      BY <2>1
    <3> QED BY <1>3, <3>1 DEF Starts
  <2>3. Len(p) <= Len(r)
    BY <2>1
  <2> QED BY <2>1, <2>2, <2>3 DEF Starts
<1> QED BY <1>1, <1>2, <1>3

\* What was written of the first i bytes.
OutTo(s, ascii, i) == DumpOf(s, ascii)[i].out

LEMMA OutStep ==
  ASSUME NEW s \in Seq(Octet), NEW ascii \in BOOLEAN, StateAt(s, ascii, Len(s)) = 0, NEW i \in 1 .. Len(s)
  PROVE  Starts(OutTo(s, ascii, i - 1), OutTo(s, ascii, i))
<1>1. PICK d, e, b : d = DumpOf(s, ascii)[i - 1] /\ e = DumpOf(s, ascii)[i] /\ b = s[i]
  OBVIOUS
<1>2. d \in DumpStates /\ e \in DumpStates /\ b \in Octet /\ GoodTurn(d, e, b, ascii)
  <2>1. PICK j \in 0 .. Len(s) - 1 : j = i - 1 /\ j + 1 = i
    OBVIOUS
  <2>2. GoodTurn(d, e, b, ascii)
    BY <1>1, <2>1, GoodTurns
  <2> QED BY <2>2 DEF GoodTurn
<1>3. d.out \in Seq(Octet) /\ e.out \in Seq(Octet) /\ e.codep \in Nat
  BY <1>2 DEF DumpStates
<1>4. e.out = d.out \/ e.out = Append(d.out, b) \/ e.out = d.out \o Escaped(e.codep, b, ascii)
  <2>1. CASE e.state = 0
    BY <1>2, <2>1 DEF GoodTurn
  <2>2. CASE e.state # 0 /\ ascii
    BY <1>2, <2>2 DEF GoodTurn
  <2>3. CASE e.state # 0 /\ ~ascii
    BY <1>2, <2>3 DEF GoodTurn
  <2> QED BY <2>1, <2>2, <2>3
<1>5. Starts(d.out, Append(d.out, b))
  BY <1>2, <1>3 DEF Starts
<1>6. Starts(d.out, d.out \o Escaped(e.codep, b, ascii))
  BY <1>2, <1>3, EscapedType, StartsOn
<1>7. Starts(d.out, e.out)
  <2>1. Starts(d.out, d.out)
    BY <1>3, StartsOn
  <2> QED BY <1>4, <1>5, <1>6, <2>1, Zenon
<1> QED BY <1>1, <1>7, Zenon DEF OutTo

LEMMA OutStarts ==
  ASSUME NEW s \in Seq(Octet), NEW ascii \in BOOLEAN, StateAt(s, ascii, Len(s)) = 0, NEW i \in 0 .. Len(s)
  PROVE  Starts(OutTo(s, ascii, i), OutTo(s, ascii, Len(s)))
<1>0. DumpOf(s, ascii)[i] \in DumpStates
  BY DumpFacts
<1>1. OutTo(s, ascii, i) \in Seq(Octet)
  BY <1>0 DEF OutTo, DumpStates
<1> DEFINE T == {k \in Nat : i + k <= Len(s) => Starts(OutTo(s, ascii, i), OutTo(s, ascii, i + k))}
<1>2. 0 \in T
  <2>1. i + 0 = i
    OBVIOUS
  <2>2. Starts(OutTo(s, ascii, i), OutTo(s, ascii, i + 0))
    BY <1>1, <2>1, StartsOn
  <2> QED BY <2>2
<1>3. ASSUME NEW k \in Nat, k \in T PROVE k + 1 \in T
  <2> SUFFICES ASSUME i + (k + 1) <= Len(s) PROVE Starts(OutTo(s, ascii, i), OutTo(s, ascii, i + (k + 1)))
    OBVIOUS
  <2>1. PICK j \in 1 .. Len(s) : j = i + (k + 1) /\ j - 1 = i + k
    OBVIOUS
  <2>2. Starts(OutTo(s, ascii, j - 1), OutTo(s, ascii, j))
    BY OutStep
  <2>3. Starts(OutTo(s, ascii, i), OutTo(s, ascii, j - 1))
    BY <1>3, <2>1
  <2>4. Starts(OutTo(s, ascii, i), OutTo(s, ascii, j))
    BY <2>2, <2>3, StartsOn
  <2> QED BY <2>1, <2>4
<1>4. Nat \subseteq T
  <2> HIDE DEF T
  <2> QED BY <1>2, <1>3, Induction
<1>5. Len(s) - i \in Nat /\ i + (Len(s) - i) = Len(s)
  OBVIOUS
<1>6. Len(s) - i \in T
  BY <1>4, <1>5
<1>7. Starts(OutTo(s, ascii, i), OutTo(s, ascii, i + (Len(s) - i)))
  BY <1>5, <1>6
<1> QED BY <1>5, <1>7

\* The input holds the bytes w from a place on.
Holds(from, w) == \A x \in 1 .. Len(w) : ByteAt(from + x - 1) = w[x]

\* A string between quotes.
LEMMA QuotedHolds ==
  ASSUME NEW p \in Seq(Octet), input = <<Quote>> \o p \o <<Quote>>
  PROVE  /\ input \in Seq(Octet) /\ Len(input) = Len(p) + 2 /\ ByteAt(1) = Quote
         /\ ByteAt(Len(p) + 2) = Quote /\ \A k \in 1 .. Len(p) : ByteAt(k + 1) = p[k]
<1>1. PICK q \in Seq(Octet) : q = <<Quote>> /\ Len(q) = 1 /\ q[1] = Quote
  <2>1. Quote \in Octet
    BY DEF Quote, Octet
  <2>2. <<Quote>> \in Seq(Octet) /\ Len(<<Quote>>) = 1 /\ <<Quote>>[1] = Quote
    BY <2>1
  <2> QED BY <2>2
<1>2. PICK u : u = q \o p
  OBVIOUS
<1>3. /\ u \in Seq(Octet) /\ Len(u) = 1 + Len(p) /\ u[1] = Quote
      /\ \A k \in 1 .. Len(p) : u[1 + k] = p[k]
  <2>1. 1 \in 1 .. Len(q)
    BY <1>1
  <2> QED BY <1>1, <1>2, <2>1, JoinFacts
<1>4. /\ input \in Seq(Octet) /\ Len(input) = Len(u) + 1
      /\ \A k \in 1 .. Len(u) : input[k] = u[k]
      /\ input[Len(u) + 1] = Quote
  <2>1. input = u \o q
    BY <1>1, <1>2
  <2>2. 1 \in 1 .. Len(q)
    BY <1>1
  <2> QED BY <1>1, <1>3, <2>1, <2>2, JoinFacts
<1>n. PICK n \in Nat : n = Len(p)
  OBVIOUS
<1>5. Len(u) = n + 1 /\ Len(input) = n + 2 /\ input[n + 2] = Quote
  BY <1>3, <1>4, <1>n
<1>6. input[1] = Quote
  BY <1>3, <1>4, <1>5, <1>n
<1>7. ASSUME NEW k \in 1 .. n PROVE input[k + 1] = p[k]
  <2>1. k + 1 \in 1 .. Len(u) /\ k + 1 = 1 + k
    BY <1>5
  <2>2. input[k + 1] = u[k + 1]
    BY <1>4, <2>1
  <2>3. u[1 + k] = p[k]
    BY <1>3, <1>n
  <2> QED BY <2>1, <2>2, <2>3
<1>8. \A k \in 1 .. n + 2 : ByteAt(k) = input[k]
  BY <1>5 DEF ByteAt
<1>9. 1 \in 1 .. n + 2 /\ n + 2 \in 1 .. n + 2 /\ \A k \in 1 .. n : k + 1 \in 1 .. n + 2
  OBVIOUS
<1> QED BY <1>4, <1>5, <1>6, <1>7, <1>8, <1>9, <1>n

LEMMA NextHolds ==
  ASSUME NEW s \in Seq(Octet), NEW ascii \in BOOLEAN, NEW i \in 0 .. Len(s), NEW k, NEW w \in Seq(Octet),
         StateAt(s, ascii, Len(s)) = 0, NextWritten(s, ascii, i, k, w), input = <<Quote>> \o OutTo(s, ascii, Len(s)) \o <<Quote>>
  PROVE  /\ Holds(2 + Len(OutTo(s, ascii, i)), w)
         /\ Len(OutTo(s, ascii, i + k)) = Len(OutTo(s, ascii, i)) + Len(w)
<1>1. k \in 1 .. 4 /\ i + k \in 0 .. Len(s)
  BY DEF NextWritten
<1>2. PICK p, q, r : p = OutTo(s, ascii, i) /\ q = OutTo(s, ascii, i + k) /\ r = OutTo(s, ascii, Len(s))
  OBVIOUS
<1>3. Starts(q, r) /\ Starts(p, r)
  BY <1>1, <1>2, OutStarts
<1>4. q = p \o w
  BY <1>2, Zenon DEF NextWritten, OutTo
<1>5. p \in Seq(Octet) /\ q \in Seq(Octet) /\ r \in Seq(Octet) /\ Len(q) <= Len(r)
  BY <1>3 DEF Starts
<1>6. Len(q) = Len(p) + Len(w) /\ \A x \in 1 .. Len(w) : q[Len(p) + x] = w[x]
  BY <1>4, <1>5, JoinFacts
<1>m. PICK m \in Nat, n \in Nat : m = Len(p) /\ n = Len(w)
  BY <1>5
<1>7. ASSUME NEW x \in 1 .. n PROVE ByteAt((2 + m) + x - 1) = w[x]
  <2>h. PICK h \in Nat : h = Len(r)
    BY <1>5
  <2>0. Len(q) = m + n /\ m + n <= h
    <3>1. Len(q) = m + n
      BY <1>6, <1>m
    <3> QED BY <3>1, <2>h, <1>5
  <2>1. m + x \in 1 .. Len(q) /\ m + x \in 1 .. Len(r) /\ (2 + m) + x - 1 = (m + x) + 1
    BY <2>h, <2>0
  <2>2. q[m + x] = w[x]
    BY <1>6, <1>m
  <2>3. r[m + x] = q[m + x]
    BY <1>3, <2>1 DEF Starts
  <2>4. ByteAt((m + x) + 1) = r[m + x]
    BY <1>2, <1>5, <2>1, QuotedHolds
  <2> QED BY <2>1, <2>2, <2>3, <2>4
<1>8. Holds(2 + m, w)
  BY <1>7, <1>m DEF Holds
<1> QED BY <1>2, <1>6, <1>8, <1>m
-----------------------------------------------------------------------------
(* The forms in which dump() writes a character c as w.                    *)

PlainForm(c, w) == \E b \in Octet : 32 <= b /\ b < 128 /\ b # 34 /\ b # 92 /\ c = <<b>> /\ w = <<b>>

RawForm(c, w) ==
  /\ w = c
  /\ \/ \E b1, b2 \in Octet : Shape2(b1, b2) /\ c = <<b1, b2>>
     \/ \E b1, b2, b3 \in Octet : Shape3(b1, b2, b3) /\ c = <<b1, b2, b3>>
     \/ \E b1, b2, b3, b4 \in Octet : Shape4(b1, b2, b3, b4) /\ c = <<b1, b2, b3, b4>>

ShortForm(c, w) == \E b \in DOMAIN Short : c = <<b>> /\ w = <<Backslash, Short[b]>>

Basic(n) == n \in Nat /\ n < 65536 /\ n \notin High \union Low

OneForm(c, w) == \E n \in Nat : Basic(n) /\ c = Bytes(n) /\ w = Escape(n)

Paired(h, l) == (h - 55296) * 1024 + (l - 56320) + 65536

TwoForm(c, w) ==
  \E h \in High, l \in Low : c = Bytes(Paired(h, l)) /\ w = Escape(h) \o Escape(l)

Form(c, w) == PlainForm(c, w) \/ RawForm(c, w) \/ ShortForm(c, w) \/ OneForm(c, w) \/ TwoForm(c, w)

Coded(n) == n \in Int /\ 128 <= n /\ n < 1114112 /\ n \notin High \union Low

TwoParts(n, h, l) == h = (55232 + n \div 1024) % 65536 /\ l = 56320 + (n % 1024)
InTwo(n, b, h, l) == Escaped(n, b, TRUE) = Escape(h) \o Escape(l)
AboveBasic(n) == n \in Nat /\ n >= 127 /\ ~(n <= 65535) /\ n \notin DOMAIN Short

LEMMA EscapedInTwo ==
  ASSUME NEW n \in Nat, NEW b, AboveBasic(n)
  PROVE  \E h, l : TwoParts(n, h, l) /\ InTwo(n, b, h, l)
BY DEF Escaped, TwoParts, InTwo, AboveBasic

LEMMA CodeForms ==
  ASSUME NEW n \in Nat, Coded(n), NEW b
  PROVE  OneForm(Bytes(n), Escaped(n, b, TRUE)) \/ TwoForm(Bytes(n), Escaped(n, b, TRUE))
<1>0. n \in Int /\ 128 <= n /\ n < 1114112 /\ n \notin High \union Low
  BY DEF Coded
<1>1. n \notin DOMAIN Short
  BY <1>0, ShortFacts
<1>2. CASE Basic(n)
  <2>0. n <= 65535 /\ n \in Nat
    BY <1>2 DEF Basic
  <2>1. Escaped(n, b, TRUE) = Escape(n)
    BY <1>0, <1>1, <2>0 DEF Escaped
  <2>2. n \in Nat /\ Basic(n)
    BY <1>2, <2>0
  <2>3. OneForm(Bytes(n), Escaped(n, b, TRUE))
    BY <2>1, <2>2, Zenon DEF OneForm
  <2> QED BY <2>3
<1>3. CASE ~Basic(n)
  <2>0. ~(n <= 65535)
    BY <1>0, <1>3 DEF Basic
  <2>1. PICK k \in Int, r \in Int : k = n \div 1024 /\ r = n % 1024
    BY <1>0
  <2>2. n = 1024 * k + r /\ 0 <= r /\ r < 1024 /\ 64 <= k /\ k < 1088
    BY <1>0, <2>0, <2>1
  <2>3. (55232 + n \div 1024) % 65536 = 55232 + k /\ 56320 + (n % 1024) = 56320 + r
    BY <2>1, <2>2
  <2>4. PICK h \in Int, l \in Int : h = 55232 + k /\ l = 56320 + r
    OBVIOUS
  <2>5. h \in High /\ l \in Low
    BY <2>2, <2>4 DEF High, Low
  <2>6. Paired(h, l) = n
    BY <2>2, <2>4 DEF Paired
  <2>7. AboveBasic(n)
    BY <1>0, <1>1, <2>0 DEF AboveBasic
  <2>8. Escaped(n, b, TRUE) = Escape(h) \o Escape(l)
    <3>1. PICK u, v : TwoParts(n, u, v) /\ InTwo(n, b, u, v)
      BY <2>7, EscapedInTwo
    <3>2. u = h /\ v = l
      BY <2>3, <2>4, <3>1 DEF TwoParts
    <3>3. InTwo(n, b, h, l)
      BY <3>1, <3>2
    <3> QED BY <3>3, Zenon DEF InTwo
  <2>9. Bytes(Paired(h, l)) = Bytes(n)
    BY <2>6
  <2>10. TwoForm(Bytes(n), Escaped(n, b, TRUE))
    BY <2>5, <2>8, <2>9 DEF TwoForm
  <2> QED BY <2>10
<1> QED BY <1>2, <1>3

LEMMA OneByteForms ==
  ASSUME NEW b \in Octet, b < 128, NEW ascii \in BOOLEAN
  PROVE  Form(<<b>>, Escaped(b, b, ascii))
<1>0. b \in Int /\ 0 <= b
  BY Octets
<1>1. CASE b \in DOMAIN Short
  <2>1. Escaped(b, b, ascii) = <<Backslash, Short[b]>>
    BY <1>1 DEF Escaped
  <2>2. ShortForm(<<b>>, Escaped(b, b, ascii))
    BY <1>1, <2>1, Zenon DEF ShortForm
  <2> QED BY <2>2 DEF Form
<1>2. CASE b \notin DOMAIN Short /\ (b <= 31 \/ (ascii /\ b >= 127))
  <2>1. Escaped(b, b, ascii) = Escape(b)
    BY <1>0, <1>2 DEF Escaped
  <2>2. Bytes(b) = <<b>> /\ b \in Nat /\ Basic(b)
    BY <1>0 DEF Bytes, Basic, High, Low
  <2>3. OneForm(<<b>>, Escaped(b, b, ascii))
    BY <2>1, <2>2, Zenon DEF OneForm
  <2> QED BY <2>3 DEF Form
<1>3. CASE b \notin DOMAIN Short /\ ~(b <= 31 \/ (ascii /\ b >= 127))
  <2>1. Escaped(b, b, ascii) = <<b>>
    BY <1>3 DEF Escaped
  <2>2. 32 <= b /\ b # 34 /\ b # 92
    BY <1>0, <1>3, ShortFacts
  <2>3. PlainForm(<<b>>, Escaped(b, b, ascii))
    BY <2>1, <2>2 DEF PlainForm
  <2> QED BY <2>3 DEF Form
<1> QED BY <1>1, <1>2, <1>3

LEMMA WritesForms ==
  ASSUME NEW c, NEW w, NEW ascii \in BOOLEAN, Writes(c, ascii, w)
  PROVE  Form(c, w)
<1>1. ASSUME NEW b1 \in Octet, b1 < 128, c = <<b1>>, w = Escaped(b1, b1, ascii)
      PROVE  Form(c, w)
  BY <1>1, OneByteForms
<1>2. ASSUME NEW n \in Nat, Coded(n), NEW b,
             c = Bytes(n), w = Escaped(n, b, TRUE)
      PROVE  Form(c, w)
  <2>1. OneForm(Bytes(n), Escaped(n, b, TRUE)) \/ TwoForm(Bytes(n), Escaped(n, b, TRUE))
    BY <1>2, CodeForms
  <2>2. OneForm(c, w) \/ TwoForm(c, w)
    BY <1>2, <2>1, Zenon
  <2> QED BY <2>2 DEF Form
<1>3. ASSUME NEW b1 \in Octet, NEW b2 \in Octet, Shape2(b1, b2), c = <<b1, b2>>,
             w = IF ascii THEN Escaped(Code2(b1, b2), b2, TRUE) ELSE c
      PROVE  Form(c, w)
  <2>1. CASE ascii
    <3>1. b1 \in Int /\ b2 \in Int
      BY Octets
    <3>2. PICK n \in Nat : n = Code2(b1, b2) /\ 128 <= n /\ n < 2048 /\ Bytes(n) = <<b1, b2>>
      BY <1>3, <3>1, BytesOfCodes
    <3>3. Coded(n)
      BY <3>2 DEF High, Low, Coded
    <3>4. w = Escaped(n, b2, TRUE) /\ c = Bytes(n)
      BY <1>3, <2>1, <3>2
    <3> QED BY <1>2, <3>3, <3>4
  <2>2. CASE ~ascii
    <3>1. w = c
      BY <1>3, <2>2
    <3>2. RawForm(c, w)
      BY <1>3, <3>1, Zenon DEF RawForm
    <3> QED BY <3>2 DEF Form
  <2> QED BY <2>1, <2>2
<1>4. ASSUME NEW b1 \in Octet, NEW b2 \in Octet, NEW b3 \in Octet, Shape3(b1, b2, b3), c = <<b1, b2, b3>>,
             w = IF ascii THEN Escaped(Code3(b1, b2, b3), b3, TRUE) ELSE c
      PROVE  Form(c, w)
  <2>1. CASE ascii
    <3>1. b1 \in Int /\ b2 \in Int /\ b3 \in Int
      BY Octets
    <3>2. PICK n \in Nat : /\ n = Code3(b1, b2, b3) /\ 2048 <= n /\ n < 65536 /\ n \notin High \union Low
                           /\ Bytes(n) = <<b1, b2, b3>>
      BY <1>4, <3>1, BytesOfCodes
    <3>3. Coded(n)
      BY <3>2 DEF Coded
    <3>4. w = Escaped(n, b3, TRUE) /\ c = Bytes(n)
      BY <1>4, <2>1, <3>2
    <3> QED BY <1>2, <3>3, <3>4
  <2>2. CASE ~ascii
    <3>1. w = c
      BY <1>4, <2>2
    <3>2. RawForm(c, w)
      BY <1>4, <3>1, Zenon DEF RawForm
    <3> QED BY <3>2 DEF Form
  <2> QED BY <2>1, <2>2
<1>5. ASSUME NEW b1 \in Octet, NEW b2 \in Octet, NEW b3 \in Octet, NEW b4 \in Octet, Shape4(b1, b2, b3, b4),
             c = <<b1, b2, b3, b4>>,
             w = IF ascii THEN Escaped(Code4(b1, b2, b3, b4), b4, TRUE) ELSE c
      PROVE  Form(c, w)
  <2>1. CASE ascii
    <3>1. b1 \in Int /\ b2 \in Int /\ b3 \in Int /\ b4 \in Int
      BY Octets
    <3>2. PICK n \in Nat : /\ n = Code4(b1, b2, b3, b4) /\ 65536 <= n /\ n < 1114112
                           /\ Bytes(n) = <<b1, b2, b3, b4>>
      BY <1>5, <3>1, BytesOfCodes
    <3>3. Coded(n)
      BY <3>2 DEF High, Low, Coded
    <3>4. w = Escaped(n, b4, TRUE) /\ c = Bytes(n)
      BY <1>5, <2>1, <3>2
    <3> QED BY <1>2, <3>3, <3>4
  <2>2. CASE ~ascii
    <3>1. w = c
      BY <1>5, <2>2
    <3>2. RawForm(c, w)
      BY <1>5, <3>1, Zenon DEF RawForm
    <3> QED BY <3>2 DEF Form
  <2> QED BY <2>1, <2>2
<1> QED BY <1>1, <1>3, <1>4, <1>5 DEF Writes

Joins(p, q, r) ==
  /\ r \in Seq(Octet) /\ Len(r) = Len(p) + Len(q)
  /\ \A k \in 1 .. Len(p) : r[k] = p[k]
  /\ \A k \in 1 .. Len(q) : r[Len(p) + k] = q[k]

LEMMA JoinOctets ==
  ASSUME NEW p \in Seq(Octet), NEW q \in Seq(Octet)
  PROVE  Joins(p, q, p \o q)
BY JoinFacts DEF Joins

LEMMA FormTypes ==
  ASSUME NEW c, NEW w, Form(c, w)
  PROVE  w \in Seq(Octet) /\ Len(w) >= 1
<1>1. CASE PlainForm(c, w)
  <2>1. PICK b \in Octet : w = <<b>>
    BY <1>1 DEF PlainForm
  <2> QED BY <2>1
<1>2. CASE RawForm(c, w)
  <2>1. \/ \E b1, b2 \in Octet : w = <<b1, b2>>
        \/ \E b1, b2, b3 \in Octet : w = <<b1, b2, b3>>
        \/ \E b1, b2, b3, b4 \in Octet : w = <<b1, b2, b3, b4>>
    BY <1>2, Zenon DEF RawForm
  <2>2. \A b1, b2 \in Octet : <<b1, b2>> \in Seq(Octet) /\ Len(<<b1, b2>>) >= 1
    OBVIOUS
  <2>3. \A b1, b2, b3 \in Octet : <<b1, b2, b3>> \in Seq(Octet) /\ Len(<<b1, b2, b3>>) >= 1
    OBVIOUS
  <2>4. \A b1, b2, b3, b4 \in Octet : <<b1, b2, b3, b4>> \in Seq(Octet) /\ Len(<<b1, b2, b3, b4>>) >= 1
    OBVIOUS
  <2> QED BY <2>1, <2>2, <2>3, <2>4, Zenon
<1>3. CASE ShortForm(c, w)
  <2>1. PICK b \in DOMAIN Short : w = <<Backslash, Short[b]>>
    BY <1>3 DEF ShortForm
  <2>2. Short[b] \in Octet /\ Backslash \in Octet
    BY ShortFacts DEF Octet, Backslash
  <2> QED BY <2>1, <2>2
<1>4. CASE OneForm(c, w)
  <2>1. PICK n \in Nat : Basic(n) /\ w = Escape(n)
    BY <1>4 DEF OneForm
  <2>2. n < 65536
    BY <2>1 DEF Basic
  <2>3. Escape(n) \in Seq(Octet) /\ Len(Escape(n)) = 6
    BY <2>2, EscapeFacts
  <2>4. w \in Seq(Octet) /\ Len(w) = 6
    BY <2>1, <2>3, Zenon
  <2> QED BY <2>4
<1>5. CASE TwoForm(c, w)
  <2>1. PICK h \in High, l \in Low : w = Escape(h) \o Escape(l)
    BY <1>5 DEF TwoForm
  <2>2. h \in Nat /\ h < 65536 /\ l \in Nat /\ l < 65536
    BY DEF High, Low
  <2>3. Escape(h) \in Seq(Octet) /\ Escape(l) \in Seq(Octet) /\ Len(Escape(h)) = 6 /\ Len(Escape(l)) = 6
    BY <2>2, EscapeFacts
  <2>4. PICK p \in Seq(Octet), q \in Seq(Octet) : w = p \o q /\ Len(p) = 6 /\ Len(q) = 6
    BY <2>1, <2>3, Zenon
  <2>5. w \in Seq(Octet) /\ Len(w) = 12
    <3>1. Joins(p, q, w)
      BY <2>4, JoinOctets
    <3> QED BY <2>4, <3>1 DEF Joins
  <2> QED BY <2>5
<1> QED BY <1>1, <1>2, <1>3, <1>4, <1>5 DEF Form

\* Where the lexer is in a string, and what it does there.
InString == lexing = "string" /\ at \in Nat \ {0} /\ input \in Seq(Octet)
StringStep == EndString \/ BadByte \/ PlainByte \/ ManyBytes \/ ShortEscape \/ UnicodeEscape

LEMMA StringSteps ==
  ASSUME lexing = "string", LexNext
  PROVE  StringStep
BY DEF LexNext, StringStep, ScanOne, BeginString, BeginNumber, NumberByte, NumberError, NumberDone, ScanNext, Dump

LEMMA PlainStep ==
  ASSUME NEW c, NEW w, PlainForm(c, w), InString, Holds(at, w), StringStep
  PROVE  Add(c, at + Len(w))
<1>1. PICK b \in Octet : 32 <= b /\ b < 128 /\ b # 34 /\ b # 92 /\ c = <<b>> /\ w = <<b>>
  BY DEF PlainForm
<1>2. Len(w) = 1 /\ w[1] = b /\ at + 1 - 1 = at
  BY <1>1 DEF InString
<1>3. Current = b
  BY <1>2 DEF Holds, Current
<1>4. PICK v \in Int : v = Current /\ 32 <= v /\ v < 128 /\ v # 34 /\ v # 92
  BY <1>1, <1>3, Octets
<1>5. ~EndString /\ ~ShortEscape /\ ~UnicodeEscape
  BY <1>4 DEF EndString, ShortEscape, UnicodeEscape, Quote, Backslash
<1>6. ~BadByte /\ ~ManyBytes
  <2>1. ~(Current < 32) /\ ~(Current >= 128)
    BY <1>4
  <2> QED BY <2>1 DEF BadByte, ManyBytes
<1>7. PlainByte
  BY <1>5, <1>6 DEF StringStep
<1>8. Add(<<Current>>, at + 1)
  BY <1>7 DEF PlainByte
<1> QED BY <1>1, <1>2, <1>3, <1>8

LEMMA ShortStep ==
  ASSUME NEW c, NEW w, ShortForm(c, w), InString, Holds(at, w), StringStep
  PROVE  Add(c, at + Len(w))
<1>1. PICK b \in {8, 9, 10, 12, 13, 34, 92} : c = <<b>> /\ w = <<92, Short[b]>>
  BY ShortFacts DEF ShortForm, Backslash
<1>2. Len(w) = 2 /\ w[1] = 92 /\ w[2] = Short[b] /\ at + 1 - 1 = at /\ at + 2 - 1 = at + 1
  BY <1>1 DEF InString
<1>3. Current = 92 /\ ByteAt(at + 1) = Short[b]
  BY <1>2 DEF Holds, Current
<1>4. Short[b] # 117 /\ Short[b] # 47
  BY ShortFacts
<1>5. ~EndString /\ ~PlainByte /\ ~UnicodeEscape
  BY <1>3, <1>4 DEF EndString, PlainByte, UnicodeEscape, Quote, Backslash, U
<1>6. ~BadByte /\ ~ManyBytes
  <2>1. ~(Current < 32) /\ ~(Current >= 128)
    BY <1>3
  <2> QED BY <2>1 DEF BadByte, ManyBytes
<1>7. ShortEscape
  BY <1>5, <1>6 DEF StringStep
<1> DEFINE meant == {x \in DOMAIN Short \union {Slash} :
                       ByteAt(at + 1) = IF x = Slash THEN Slash ELSE Short[x]}
<1>8. \/ meant # {} /\ Add(<<CHOOSE x \in meant : TRUE>>, at + 2)
      \/ meant = {} /\ ParseError(at + 2) /\ UNCHANGED start
  BY <1>7 DEF ShortEscape
<1>9. \A x \in DOMAIN Short : Short[x] = Short[b] => x = b
  BY ShortFacts
<1>10. b \in meant /\ \A x \in meant : x = b
  <2>1. b \in meant
    BY <1>3, ShortFacts DEF Slash
  <2>2. ASSUME NEW x \in meant PROVE x = b
    <3>1. x # Slash
      BY <1>3, <1>4 DEF Slash
    <3>2. x \in DOMAIN Short /\ Short[x] = Short[b]
      BY <1>3, <3>1
    <3> QED BY <1>9, <3>2
  <2> QED BY <2>1, <2>2
<1>11. (CHOOSE x \in meant : TRUE) = b
  BY <1>10
<1> HIDE DEF meant
<1>12. Add(<<b>>, at + 2)
  BY <1>8, <1>10, <1>11
<1> QED BY <1>1, <1>2, <1>12

\* An escape that the input holds is read as its code point.
LEMMA EscapeHeld ==
  ASSUME NEW n \in Nat, n < 65536, NEW from \in Nat \ {0}, Holds(from, Escape(n))
  PROVE  ByteAt(from) = 92 /\ ByteAt(from + 1) = 117 /\ CodePoint(from + 2) = n
<1>1. PICK a, b, c, d : IsEscape(Escape(n), n, a, b, c, d)
  BY EscapeFacts
<1>2. /\ a \in 0 .. 15 /\ b \in 0 .. 15 /\ c \in 0 .. 15 /\ d \in 0 .. 15
      /\ Escape(n) = <<92, 117, Hex(a), Hex(b), Hex(c), Hex(d)>>
      /\ n = a * 4096 + b * 256 + c * 16 + d
  BY <1>1 DEF IsEscape, Backslash, U
<1>3. PICK e : e = Escape(n)
  OBVIOUS
<1>4. Len(e) = 6 /\ e[1] = 92 /\ e[2] = 117 /\ e[3] = Hex(a) /\ e[4] = Hex(b) /\ e[5] = Hex(c) /\ e[6] = Hex(d)
  BY <1>2, <1>3
<1>5. \A x \in 1 .. 6 : ByteAt(from + x - 1) = e[x]
  BY <1>3, <1>4 DEF Holds
<1>6. /\ from + 1 - 1 = from /\ from + 2 - 1 = from + 1
      /\ from + 3 - 1 = from + 2 + 0 /\ from + 4 - 1 = from + 2 + 1
      /\ from + 5 - 1 = from + 2 + 2 /\ from + 6 - 1 = from + 2 + 3
  OBVIOUS
<1>7. /\ ByteAt(from) = 92 /\ ByteAt(from + 1) = 117
      /\ ByteAt(from + 2 + 0) = Hex(a) /\ ByteAt(from + 2 + 1) = Hex(b)
      /\ ByteAt(from + 2 + 2) = Hex(c) /\ ByteAt(from + 2 + 3) = Hex(d)
  BY <1>4, <1>5, <1>6
<1>8. CodePoint(from + 2) = n
  <2> DEFINE h == [k \in 0 .. 3 |-> HexValue(ByteAt(from + 2 + k))]
  <2>1. h[0] = a /\ h[1] = b /\ h[2] = c /\ h[3] = d
    BY <1>2, <1>7, HexFacts
  <2>2. CodePoint(from + 2) =
          IF \E k \in 0 .. 3 : h[k] = -1 THEN -1 ELSE h[0] * 4096 + h[1] * 256 + h[2] * 16 + h[3]
    BY DEF CodePoint
  <2> HIDE DEF h
  <2>3. \A k \in 0 .. 3 : h[k] # -1
    <3>1. \A k \in 0 .. 3 : k = 0 \/ k = 1 \/ k = 2 \/ k = 3
      OBVIOUS
    <3> QED BY <1>2, <2>1, <3>1
  <2>4. CodePoint(from + 2) = h[0] * 4096 + h[1] * 256 + h[2] * 16 + h[3]
    BY <2>2, <2>3
  <2> QED BY <1>2, <2>1, <2>4
<1> QED BY <1>7, <1>8

LEMMA BackslashStep ==
  ASSUME InString, StringStep, ByteAt(at) = 92, ByteAt(at + 1) = 117
  PROVE  UnicodeEscape
<1>1. ~EndString /\ ~PlainByte /\ ~ShortEscape
  BY DEF EndString, PlainByte, ShortEscape, Quote, Backslash, U, Current
<1>2. ~BadByte /\ ~ManyBytes
  <2>1. ~(Current < 32) /\ ~(Current >= 128)
    BY DEF Current
  <2> QED BY <2>1 DEF BadByte, ManyBytes
<1> QED BY <1>1, <1>2 DEF StringStep

LEMMA OneStep ==
  ASSUME NEW c, NEW w, OneForm(c, w), InString, Holds(at, w), StringStep
  PROVE  Add(c, at + Len(w))
<1>1. PICK n \in Nat : Basic(n) /\ c = Bytes(n) /\ w = Escape(n)
  BY DEF OneForm
<1>2. n < 65536 /\ n \notin High \union Low
  BY <1>1 DEF Basic
<1>3. at \in Nat \ {0} /\ Holds(at, Escape(n))
  BY <1>1 DEF InString
<1>4. ByteAt(at) = 92 /\ ByteAt(at + 1) = 117 /\ CodePoint(at + 2) = n
  BY <1>2, <1>3, EscapeHeld
<1>5. UnicodeEscape
  BY <1>4, BackslashStep
<1>6. Add(Bytes(CodePoint(at + 2)), at + 6)
  <2>1. n # -1 /\ n \notin High /\ n \notin Low
    BY <1>2
  <2> QED BY <1>4, <1>5, <2>1 DEF UnicodeEscape
<1>7. Len(w) = 6
  BY <1>1, <1>2, EscapeFacts
<1> QED BY <1>1, <1>4, <1>6, <1>7

LEMMA TwoStep ==
  ASSUME NEW c, NEW w, TwoForm(c, w), InString, Holds(at, w), StringStep
  PROVE  Add(c, at + Len(w))
<1>1. PICK h \in High, l \in Low : c = Bytes(Paired(h, l)) /\ w = Escape(h) \o Escape(l)
  BY DEF TwoForm
<1>2. h \in Nat /\ h < 65536 /\ l \in Nat /\ l < 65536
  BY DEF High, Low
<1>3. PICK p, q : p = Escape(h) /\ q = Escape(l)
  OBVIOUS
<1>4. p \in Seq(Octet) /\ Len(p) = 6 /\ q \in Seq(Octet) /\ Len(q) = 6
  BY <1>2, <1>3, EscapeFacts
<1>5. /\ Len(w) = 12 /\ \A x \in 1 .. 6 : w[x] = p[x]
      /\ \A x \in 1 .. 6 : w[6 + x] = q[x]
  <2>1. w = p \o q
    BY <1>1, <1>3, Zenon
  <2>2. Joins(p, q, w)
    BY <1>4, <2>1, JoinOctets
  <2>3. 6 + 6 = 12
    OBVIOUS
  <2> QED BY <1>4, <2>2, <2>3 DEF Joins
<1>6. at \in Nat \ {0} /\ at + 6 \in Nat \ {0}
  BY DEF InString
<1>7. Holds(at, p)
  <2>1. \A x \in 1 .. 6 : x \in 1 .. 12
    OBVIOUS
  <2> QED BY <1>4, <1>5, <2>1 DEF Holds
<1>8. Holds(at + 6, q)
  <2>1. ASSUME NEW x \in 1 .. 6 PROVE ByteAt(at + 6 + x - 1) = q[x]
    <3>1. 6 + x \in 1 .. 12 /\ at + (6 + x) - 1 = at + 6 + x - 1
      BY <1>6
    <3>2. ByteAt(at + (6 + x) - 1) = w[6 + x]
      BY <1>5, <3>1 DEF Holds
    <3> QED BY <1>5, <3>1, <3>2
  <2> QED BY <1>4, <2>1 DEF Holds
<1>9. ByteAt(at) = 92 /\ ByteAt(at + 1) = 117 /\ CodePoint(at + 2) = h
  BY <1>2, <1>3, <1>6, <1>7, EscapeHeld
<1>10. ByteAt(at + 6) = 92 /\ ByteAt(at + 7) = 117 /\ CodePoint(at + 8) = l
  <2>1. ByteAt(at + 6) = 92 /\ ByteAt(at + 6 + 1) = 117 /\ CodePoint(at + 6 + 2) = l
    BY <1>2, <1>3, <1>6, <1>8, EscapeHeld
  <2>2. at + 6 + 1 = at + 7 /\ at + 6 + 2 = at + 8
    BY <1>6
  <2> QED BY <2>1, <2>2
<1>11. UnicodeEscape
  BY <1>9, BackslashStep
<1>12. Add(Bytes((h - 55296) * 1024 + (l - 56320) + 65536), at + 12)
  <2>1. h # -1 /\ h \notin Low /\ h \in High \union Low
    <3>1. h \in High
      BY <1>1
    <3>2. h \in Int /\ 55296 <= h /\ h <= 56319
      BY <3>1 DEF High
    <3>3. h # -1 /\ h \notin Low
      BY <3>2 DEF Low
    <3> QED BY <3>1, <3>3
  <2> QED BY <1>9, <1>10, <1>11, <2>1 DEF UnicodeEscape, Backslash, U
<1> QED BY <1>1, <1>5, <1>12 DEF Paired

LEMMA RawStep2 ==
  ASSUME NEW b1 \in Octet, NEW b2 \in Octet, Shape2(b1, b2), InString, Holds(at, <<b1, b2>>), StringStep
  PROVE  Add(<<b1, b2>>, at + 2)
<1>0. b1 \in Int /\ b2 \in Int
  BY Octets
<1>1. PICK w : w = <<b1, b2>>
  OBVIOUS
<1>2. Len(w) = 2 /\ w[1] = b1 /\ w[2] = b2
  BY <1>1
<1>3. \A x \in 1 .. 2 : ByteAt(at + x - 1) = w[x]
  BY <1>1, <1>2 DEF Holds
<1>4. at + 1 - 1 = at /\ at + 2 - 1 = at + 1
  BY DEF InString
<1>5. ByteAt(at) = b1 /\ ByteAt(at + 1) = b2
  BY <1>2, <1>3, <1>4
<1>6. /\ Ranges(b1) # <<>> /\ Len(Ranges(b1)) = 1 /\ DOMAIN Ranges(b1) = {1}
      /\ b2 \in Ranges(b1)[1]
  BY <1>0, ShapesAreRanges
<1>7. Current = b1 /\ b1 >= 128
  BY <1>0, <1>5 DEF Current, Shape2
<1>8. PICK v \in Int : v = Current /\ v >= 128
  BY <1>0, <1>7
<1>9. ~EndString /\ ~PlainByte /\ ~ShortEscape /\ ~UnicodeEscape
  BY <1>8 DEF EndString, PlainByte, ShortEscape, UnicodeEscape, Quote, Backslash
<1>10. ~BadByte
  <2>1. ~(Current < 32) /\ Ranges(Current) # <<>>
    BY <1>6, <1>7, <1>8
  <2> QED BY <2>1 DEF BadByte
<1>11. ManyBytes
  BY <1>9, <1>10 DEF StringStep
<1>12. PICK r : r = Ranges(Current)
  OBVIOUS
<1>13. \A k \in DOMAIN r : ByteAt(at + k) \in r[k]
  <2>1. r = Ranges(b1)
    BY <1>7, <1>12
  <2>2. \A k \in DOMAIN r : k = 1
    BY <1>6, <2>1
  <2> QED BY <1>5, <1>6, <2>1, <2>2
<1>14. Add(SubSeq(input, at, at + Len(r)), at + Len(r) + 1)
  BY <1>11, <1>12, <1>13 DEF ManyBytes
<1>15. Len(r) = 1
  BY <1>6, <1>7, <1>12
<1>16. SubSeq(input, at, at + 1) = <<b1, b2>>
  <2>1. PICK i \in Nat : i = at - 1 /\ i + 1 = at /\ i + 2 = at + 1
    BY DEF InString
  <2>2. PICK x \in Int : x = ByteAt(at + 1) /\ 0 <= x
    BY <1>0, <1>5, Octets
  <2>3. at + 1 \in Nat \ {0}
    BY DEF InString
  <2>4. at + 1 <= Len(input)
    BY <2>2, <2>3, Gets DEF InString
  <2>5. i \in 0 .. Len(input) /\ i + 2 <= Len(input)
    BY <2>1, <2>4 DEF InString
  <2>6. SubSeq(input, i + 1, i + 2) = <<input[i + 1], input[i + 2]>>
    BY <2>5, Parts14 DEF InString
  <2>7. \A y \in 1 .. Len(input) : ByteAt(y) = input[y]
    BY DEF InString, ByteAt
  <2>8. i + 1 \in 1 .. Len(input) /\ i + 2 \in 1 .. Len(input)
    BY <2>1, <2>5 DEF InString
  <2>9. input[i + 1] = b1 /\ input[i + 2] = b2
    BY <1>5, <2>1, <2>7, <2>8
  <2> QED BY <2>1, <2>6, <2>9
<1>17. at + 1 + 1 = at + 2
  BY DEF InString
<1>18. Add(SubSeq(input, at, at + 1), at + 1 + 1)
  BY <1>14, <1>15
<1> QED BY <1>16, <1>17, <1>18

LEMMA RawStep3 ==
  ASSUME NEW b1 \in Octet, NEW b2 \in Octet, NEW b3 \in Octet, Shape3(b1, b2, b3), InString, Holds(at, <<b1, b2, b3>>), StringStep
  PROVE  Add(<<b1, b2, b3>>, at + 3)
<1>0. b1 \in Int /\ b2 \in Int /\ b3 \in Int
  BY Octets
<1>1. PICK w : w = <<b1, b2, b3>>
  OBVIOUS
<1>2. Len(w) = 3 /\ w[1] = b1 /\ w[2] = b2 /\ w[3] = b3
  BY <1>1
<1>3. \A x \in 1 .. 3 : ByteAt(at + x - 1) = w[x]
  BY <1>1, <1>2 DEF Holds
<1>4. at + 1 - 1 = at /\ at + 2 - 1 = at + 1 /\ at + 3 - 1 = at + 2
  BY DEF InString
<1>5. ByteAt(at) = b1 /\ ByteAt(at + 1) = b2 /\ ByteAt(at + 2) = b3
  BY <1>2, <1>3, <1>4
<1>6. /\ Ranges(b1) # <<>> /\ Len(Ranges(b1)) = 2 /\ DOMAIN Ranges(b1) = {1, 2}
      /\ b2 \in Ranges(b1)[1] /\ b3 \in Ranges(b1)[2]
  BY <1>0, ShapesAreRanges
<1>7. Current = b1 /\ b1 >= 128
  BY <1>0, <1>5 DEF Current, Shape3
<1>8. PICK v \in Int : v = Current /\ v >= 128
  BY <1>0, <1>7
<1>9. ~EndString /\ ~PlainByte /\ ~ShortEscape /\ ~UnicodeEscape
  BY <1>8 DEF EndString, PlainByte, ShortEscape, UnicodeEscape, Quote, Backslash
<1>10. ~BadByte
  <2>1. ~(Current < 32) /\ Ranges(Current) # <<>>
    BY <1>6, <1>7, <1>8
  <2> QED BY <2>1 DEF BadByte
<1>11. ManyBytes
  BY <1>9, <1>10 DEF StringStep
<1>12. PICK r : r = Ranges(Current)
  OBVIOUS
<1>13. \A k \in DOMAIN r : ByteAt(at + k) \in r[k]
  <2>1. r = Ranges(b1)
    BY <1>7, <1>12
  <2>2. \A k \in DOMAIN r : k = 1 \/ k = 2
    BY <1>6, <2>1
  <2> QED BY <1>5, <1>6, <2>1, <2>2
<1>14. Add(SubSeq(input, at, at + Len(r)), at + Len(r) + 1)
  BY <1>11, <1>12, <1>13 DEF ManyBytes
<1>15. Len(r) = 2
  BY <1>6, <1>7, <1>12
<1>16. SubSeq(input, at, at + 2) = <<b1, b2, b3>>
  <2>1. PICK i \in Nat : i = at - 1 /\ i + 1 = at /\ i + 2 = at + 1 /\ i + 3 = at + 2
    BY DEF InString
  <2>2. PICK x \in Int : x = ByteAt(at + 2) /\ 0 <= x
    BY <1>0, <1>5, Octets
  <2>3. at + 2 \in Nat \ {0}
    BY DEF InString
  <2>4. at + 2 <= Len(input)
    BY <2>2, <2>3, Gets DEF InString
  <2>5. i \in 0 .. Len(input) /\ i + 3 <= Len(input)
    BY <2>1, <2>4 DEF InString
  <2>6. SubSeq(input, i + 1, i + 3) = <<input[i + 1], input[i + 2], input[i + 3]>>
    BY <2>5, Parts14 DEF InString
  <2>7. \A y \in 1 .. Len(input) : ByteAt(y) = input[y]
    BY DEF InString, ByteAt
  <2>8. i + 1 \in 1 .. Len(input) /\ i + 2 \in 1 .. Len(input) /\ i + 3 \in 1 .. Len(input)
    BY <2>1, <2>5 DEF InString
  <2>9. input[i + 1] = b1 /\ input[i + 2] = b2 /\ input[i + 3] = b3
    BY <1>5, <2>1, <2>7, <2>8
  <2> QED BY <2>1, <2>6, <2>9
<1>17. at + 2 + 1 = at + 3
  BY DEF InString
<1>18. Add(SubSeq(input, at, at + 2), at + 2 + 1)
  BY <1>14, <1>15
<1> QED BY <1>16, <1>17, <1>18

LEMMA RawStep4 ==
  ASSUME NEW b1 \in Octet, NEW b2 \in Octet, NEW b3 \in Octet, NEW b4 \in Octet, Shape4(b1, b2, b3, b4), InString, Holds(at, <<b1, b2, b3, b4>>), StringStep
  PROVE  Add(<<b1, b2, b3, b4>>, at + 4)
<1>0. b1 \in Int /\ b2 \in Int /\ b3 \in Int /\ b4 \in Int
  BY Octets
<1>1. PICK w : w = <<b1, b2, b3, b4>>
  OBVIOUS
<1>2. Len(w) = 4 /\ w[1] = b1 /\ w[2] = b2 /\ w[3] = b3 /\ w[4] = b4
  BY <1>1
<1>3. \A x \in 1 .. 4 : ByteAt(at + x - 1) = w[x]
  BY <1>1, <1>2 DEF Holds
<1>4. at + 1 - 1 = at /\ at + 2 - 1 = at + 1 /\ at + 3 - 1 = at + 2 /\ at + 4 - 1 = at + 3
  BY DEF InString
<1>5. ByteAt(at) = b1 /\ ByteAt(at + 1) = b2 /\ ByteAt(at + 2) = b3 /\ ByteAt(at + 3) = b4
  BY <1>2, <1>3, <1>4
<1>6. /\ Ranges(b1) # <<>> /\ Len(Ranges(b1)) = 3 /\ DOMAIN Ranges(b1) = {1, 2, 3}
      /\ b2 \in Ranges(b1)[1] /\ b3 \in Ranges(b1)[2] /\ b4 \in Ranges(b1)[3]
  BY <1>0, ShapesAreRanges
<1>7. Current = b1 /\ b1 >= 128
  BY <1>0, <1>5 DEF Current, Shape4
<1>8. PICK v \in Int : v = Current /\ v >= 128
  BY <1>0, <1>7
<1>9. ~EndString /\ ~PlainByte /\ ~ShortEscape /\ ~UnicodeEscape
  BY <1>8 DEF EndString, PlainByte, ShortEscape, UnicodeEscape, Quote, Backslash
<1>10. ~BadByte
  <2>1. ~(Current < 32) /\ Ranges(Current) # <<>>
    BY <1>6, <1>7, <1>8
  <2> QED BY <2>1 DEF BadByte
<1>11. ManyBytes
  BY <1>9, <1>10 DEF StringStep
<1>12. PICK r : r = Ranges(Current)
  OBVIOUS
<1>13. \A k \in DOMAIN r : ByteAt(at + k) \in r[k]
  <2>1. r = Ranges(b1)
    BY <1>7, <1>12
  <2>2. \A k \in DOMAIN r : k = 1 \/ k = 2 \/ k = 3
    BY <1>6, <2>1
  <2> QED BY <1>5, <1>6, <2>1, <2>2
<1>14. Add(SubSeq(input, at, at + Len(r)), at + Len(r) + 1)
  BY <1>11, <1>12, <1>13 DEF ManyBytes
<1>15. Len(r) = 3
  BY <1>6, <1>7, <1>12
<1>16. SubSeq(input, at, at + 3) = <<b1, b2, b3, b4>>
  <2>1. PICK i \in Nat : i = at - 1 /\ i + 1 = at /\ i + 2 = at + 1 /\ i + 3 = at + 2 /\ i + 4 = at + 3
    BY DEF InString
  <2>2. PICK x \in Int : x = ByteAt(at + 3) /\ 0 <= x
    BY <1>0, <1>5, Octets
  <2>3. at + 3 \in Nat \ {0}
    BY DEF InString
  <2>4. at + 3 <= Len(input)
    BY <2>2, <2>3, Gets DEF InString
  <2>5. i \in 0 .. Len(input) /\ i + 4 <= Len(input)
    BY <2>1, <2>4 DEF InString
  <2>6. SubSeq(input, i + 1, i + 4) = <<input[i + 1], input[i + 2], input[i + 3], input[i + 4]>>
    BY <2>5, Parts14 DEF InString
  <2>7. \A y \in 1 .. Len(input) : ByteAt(y) = input[y]
    BY DEF InString, ByteAt
  <2>8. i + 1 \in 1 .. Len(input) /\ i + 2 \in 1 .. Len(input) /\ i + 3 \in 1 .. Len(input) /\ i + 4 \in 1 .. Len(input)
    BY <2>1, <2>5 DEF InString
  <2>9. input[i + 1] = b1 /\ input[i + 2] = b2 /\ input[i + 3] = b3 /\ input[i + 4] = b4
    BY <1>5, <2>1, <2>7, <2>8
  <2> QED BY <2>1, <2>6, <2>9
<1>17. at + 3 + 1 = at + 4
  BY DEF InString
<1>18. Add(SubSeq(input, at, at + 3), at + 3 + 1)
  BY <1>14, <1>15
<1> QED BY <1>16, <1>17, <1>18

LEMMA RawStep ==
  ASSUME NEW c, NEW w, RawForm(c, w), InString, Holds(at, w), StringStep
  PROVE  Add(c, at + Len(w))
<1>0. w = c
  BY DEF RawForm
<1>2. ASSUME NEW b1 \in Octet, NEW b2 \in Octet, Shape2(b1, b2), c = <<b1, b2>>
      PROVE  Add(c, at + Len(w))
  <2>1. Holds(at, <<b1, b2>>) /\ Len(w) = 2
    BY <1>0, <1>2
  <2>2. Add(<<b1, b2>>, at + 2)
    BY <1>2, <2>1, RawStep2
  <2> QED BY <1>2, <2>1, <2>2
<1>3. ASSUME NEW b1 \in Octet, NEW b2 \in Octet, NEW b3 \in Octet, Shape3(b1, b2, b3), c = <<b1, b2, b3>>
      PROVE  Add(c, at + Len(w))
  <2>1. Holds(at, <<b1, b2, b3>>) /\ Len(w) = 3
    BY <1>0, <1>3
  <2>2. Add(<<b1, b2, b3>>, at + 3)
    BY <1>3, <2>1, RawStep3
  <2> QED BY <1>3, <2>1, <2>2
<1>4. ASSUME NEW b1 \in Octet, NEW b2 \in Octet, NEW b3 \in Octet, NEW b4 \in Octet, Shape4(b1, b2, b3, b4), c = <<b1, b2, b3, b4>>
      PROVE  Add(c, at + Len(w))
  <2>1. Holds(at, <<b1, b2, b3, b4>>) /\ Len(w) = 4
    BY <1>0, <1>4
  <2>2. Add(<<b1, b2, b3, b4>>, at + 4)
    BY <1>4, <2>1, RawStep4
  <2> QED BY <1>4, <2>1, <2>2
<1> QED BY <1>2, <1>3, <1>4 DEF RawForm

\* In a dumped string the lexer goes from character to character.
LEMMA FormStep ==
  ASSUME NEW c, NEW w, Form(c, w), InString, Holds(at, w), LexNext
  PROVE  Add(c, at + Len(w))
<1>1. StringStep
  BY StringSteps DEF InString
<1> QED BY <1>1, PlainStep, RawStep, ShortStep, OneStep, TwoStep DEF Form
-----------------------------------------------------------------------------
(* Numbers, as dump() writes them and as they are read again.              *)

LEMMA ValueKept ==
  ASSUME NEW s \in Seq(Int), NEW t \in Seq(Int), Len(s) <= Len(t), \A k \in 1 .. Len(s) : t[k] = s[k]
  PROVE  \A k \in 0 .. Len(s) : ValueTo(t)[k] = ValueTo(s)[k]
<1> DEFINE T == {k \in Nat : k <= Len(s) => ValueTo(t)[k] = ValueTo(s)[k]}
<1>1. 0 \in T
  <2>1. ValueTo(t)[0] = 0 /\ ValueTo(s)[0] = 0
    BY DigitsFacts
  <2> QED BY <2>1
<1>2. ASSUME NEW k \in Nat, k \in T PROVE k + 1 \in T
  <2> SUFFICES ASSUME k + 1 <= Len(s) PROVE ValueTo(t)[k + 1] = ValueTo(s)[k + 1]
    OBVIOUS
  <2>1. k + 1 \in 1 .. Len(s) /\ k + 1 \in 1 .. Len(t) /\ k + 1 - 1 = k
    OBVIOUS
  <2>2. ValueTo(s)[k + 1] = 10 * ValueTo(s)[k] + (s[k + 1] - Zero)
    BY <2>1, DigitsFacts
  <2>3. ValueTo(t)[k + 1] = 10 * ValueTo(t)[k] + (t[k + 1] - Zero)
    BY <2>1, DigitsFacts
  <2>4. ValueTo(t)[k] = ValueTo(s)[k] /\ t[k + 1] = s[k + 1]
    BY <1>2, <2>1
  <2> QED BY <2>2, <2>3, <2>4
<1>3. Nat \subseteq T
  <2> HIDE DEF T
  <2> QED BY <1>1, <1>2, Induction
<1> QED BY <1>3

LEMMA ValueMore ==
  ASSUME NEW s \in Seq(Int), NEW c \in Int
  PROVE  DigitsValue(Append(s, c)) = 10 * DigitsValue(s) + (c - Zero)
<1>n. PICK n \in Nat : n = Len(s)
  OBVIOUS
<1>1. PICK t \in Seq(Int) : /\ t = Append(s, c) /\ Len(t) = n + 1 /\ t[n + 1] = c
                            /\ \A k \in 1 .. n : t[k] = s[k]
  <2>1. Append(s, c) \in Seq(Int) /\ Len(Append(s, c)) = n + 1 /\ Append(s, c)[n + 1] = c
    BY <1>n
  <2>2. \A k \in 1 .. n : Append(s, c)[k] = s[k]
    BY <1>n
  <2> QED BY <2>1, <2>2
<1>2. n \in 0 .. n /\ n + 1 \in 1 .. n + 1 /\ n + 1 - 1 = n /\ n <= n + 1
  OBVIOUS
<1>3. ValueTo(t)[n] = ValueTo(s)[n]
  BY <1>1, <1>2, <1>n, ValueKept
<1>4. ValueTo(t)[n + 1] = 10 * ValueTo(t)[n] + (t[n + 1] - Zero)
  <2>1. PICK k \in 1 .. Len(t) : k = n + 1 /\ k - 1 = n
    BY <1>1, <1>2
  <2>2. ValueTo(t)[k] = 10 * ValueTo(t)[k - 1] + (t[k] - Zero)
    BY DigitsFacts
  <2> QED BY <2>1, <2>2
<1>5. DigitsValue(t) = ValueTo(t)[n + 1]
  BY <1>1, DigitsFacts
<1>6. DigitsValue(s) = ValueTo(s)[n]
  BY <1>n, DigitsFacts
<1> QED BY <1>1, <1>3, <1>4, <1>5, <1>6

\* The digits of n, without a zero in front.
Written(d, n) == d \in Seq(Digit) /\ DigitsValue(d) = n /\ Len(d) >= 1 /\ d[1] # Zero

LEMMA DigitsWritten ==
  ASSUME NEW m \in Nat, NEW n \in 1 .. m
  PROVE  Written(DigitsTo(m)[n], n)
<1> DEFINE T == {k \in Nat : k \in 1 .. m => Written(DigitsTo(m)[k], k)}
<1>1. ASSUME NEW k \in Nat, \A j \in 0 .. k - 1 : j \in T PROVE k \in T
  <2> SUFFICES ASSUME k \in 1 .. m PROVE Written(DigitsTo(m)[k], k)
    OBVIOUS
  <2>1. PICK q \in Nat, r \in 0 .. 9 : q = k \div 10 /\ r = k % 10 /\ k = 10 * q + r
    <3>1. k \div 10 \in Nat /\ k % 10 \in 0 .. 9 /\ k = 10 * (k \div 10) + (k % 10)
      OBVIOUS
    <3> QED BY <3>1
  <2>2. q \in 0 .. k - 1 /\ q \in 0 .. m
    BY <2>1
  <2>3. PICK d, e, c : d = DigitsTo(m)[q] /\ e = DigitsTo(m)[k] /\ c = Zero + r
    OBVIOUS
  <2>4. d \in Seq(Digit) /\ e \in Seq(Digit) /\ c \in Digit /\ c \in Int
    <3>1. c \in Digit /\ c \in Int
      BY <2>3 DEF Zero, Digit
    <3>2. k \in 0 .. m
      OBVIOUS
    <3> QED BY <2>2, <2>3, <3>1, <3>2, DumpIntegerFacts
  <2>5. e = Append(d, c)
    <3>1. DigitsTo(m)[k] = Append(DigitsTo(m)[k \div 10], Zero + (k % 10))
      BY DumpIntegerFacts
    <3> QED BY <2>1, <2>3, <3>1
  <2>6. Digit \subseteq Int /\ d \in Seq(Int)
    BY <2>4 DEF Digit
  <2>7. DigitsValue(e) = 10 * DigitsValue(d) + (c - Zero)
    BY <2>4, <2>5, <2>6, ValueMore
  <2>8. Len(e) = Len(d) + 1 /\ e[Len(d) + 1] = c /\ \A x \in 1 .. Len(d) : e[x] = d[x]
    BY <2>4, <2>5
  <2>9. c - Zero = r /\ (c = Zero <=> r = 0)
    BY <2>3 DEF Zero
  <2>10. CASE q = 0
    <3>1. d = <<>>
      BY <2>3, <2>10, DumpIntegerFacts
    <3>2. DigitsValue(d) = 0
      <4>1. <<>> \in Seq(Int) /\ Len(<<>>) = 0
        OBVIOUS
      <4> QED BY <3>1, <4>1, DigitsFacts
    <3>3. DigitsValue(e) = k
      BY <2>1, <2>7, <2>9, <2>10, <3>2
    <3>4. Len(e) = 1 /\ e[1] = c
      BY <2>8, <3>1
    <3>5. c # Zero
      BY <2>1, <2>9, <2>10
    <3> QED BY <2>3, <2>4, <3>3, <3>4, <3>5 DEF Written
  <2>11. CASE q # 0
    <3>1. q \in 1 .. m /\ q \in T
      BY <1>1, <2>2, <2>11
    <3>2. Written(d, q)
      BY <2>3, <3>1
    <3>3. DigitsValue(e) = k
      BY <2>1, <2>7, <2>9, <3>2 DEF Written
    <3>4. Len(e) >= 1 /\ e[1] = d[1]
      BY <2>4, <2>8, <3>2 DEF Written
    <3> QED BY <2>3, <2>4, <3>2, <3>3, <3>4 DEF Written
  <2> QED BY <2>10, <2>11
<1>2. Nat \subseteq T
  <2> HIDE DEF T
  <2> QED BY <1>1, StrongInduction
<1>3. n \in T
  BY <1>2
<1> QED BY <1>3

\* The same value, as DumpedTokensAreScanned has it.
SameToken(t, u) ==
  \/ t = u
  \/ {t.type, u.type} \subseteq {"value_integer", "value_unsigned"} /\ t.value = u.value
  \/ t.type = "value_float" /\ u = TokenOf("value_float", DumpFloat(t.value))

NumberText(t, text) == text \in Seq(Octet) /\ IsNumber(text) /\ SameToken(t, NumberToken(text))

LEMMA DigitOctets ==
  ASSUME NEW d \in Seq(Digit)
  PROVE  d \in Seq(Octet) /\ \A k \in 1 .. Len(d) : d[k] \in Digit
<1>1. Digit \subseteq Octet
  BY DEF Digit, Octet
<1> QED BY <1>1

LEMMA DigitsAreNumbers ==
  ASSUME NEW d \in Seq(Digit), Len(d) >= 1, d[1] # Zero \/ Len(d) = 1
  PROVE  IsNumber(d)
<1>1. PICK n \in Nat : n = Len(d) /\ n >= 1
  OBVIOUS
<1>2. \A k \in 0 + 1 .. n : d[k] \in Digit
  BY <1>1, DigitOctets
<1>3. DigitsIn(d, 0, n)
  BY <1>1, <1>2 DEF DigitsIn
<1>4. Integral(d, 0, n)
  <2>1. d[0 + 1] = Zero => n = 0 + 1
    BY <1>1
  <2> QED BY <1>3, <2>1 DEF Integral
<1>5. Parse(d, 0, n, n)
  BY <1>1, <1>4 DEF Parse, Fractional
<1> QED BY <1>5, NumberParts

LEMMA SignedAreNumbers ==
  ASSUME NEW d \in Seq(Digit), Len(d) >= 1, d[1] # Zero, NEW s, s = <<Minus>> \o d
  PROVE  /\ s \in Seq(Octet) /\ IsNumber(s) /\ s[1] = Minus /\ Tail(s) = d
         /\ \A k \in DOMAIN s : s[k] \in Digit \union {Minus}
<1>0. d \in Seq(Octet) /\ \A k \in 1 .. Len(d) : d[k] \in Digit
  BY DigitOctets
<1>1. PICK n \in Nat : n = Len(d) /\ n >= 1
  OBVIOUS
<1>2. PICK q \in Seq(Octet) : q = <<Minus>> /\ Len(q) = 1 /\ q[1] = Minus
  <2>1. Minus \in Octet
    BY DEF Minus, Octet
  <2>2. <<Minus>> \in Seq(Octet) /\ Len(<<Minus>>) = 1 /\ <<Minus>>[1] = Minus
    BY <2>1
  <2> QED BY <2>2
<1>3. Joins(q, d, s)
  BY <1>0, <1>2, JoinOctets
<1>4. /\ s \in Seq(Octet) /\ Len(s) = n + 1 /\ s[1] = Minus
      /\ \A k \in 1 .. n : s[1 + k] = d[k]
  <2>1. 1 \in 1 .. Len(q)
    BY <1>2
  <2> QED BY <1>1, <1>2, <1>3, <2>1 DEF Joins
<1>5. ASSUME NEW k \in 2 .. n + 1 PROVE s[k] = d[k - 1] /\ s[k] \in Digit
  <2>1. PICK j \in 1 .. n : j = k - 1 /\ 1 + j = k
    BY <1>1
  <2>2. s[1 + j] = d[j] /\ d[j] \in Digit
    BY <1>0, <1>1, <1>4
  <2> QED BY <2>1, <2>2
<1>6. DigitsIn(s, 1, n + 1)
  <2>1. \A k \in 1 + 1 .. n + 1 : s[k] \in Digit
    <3>1. 1 + 1 = 2
      OBVIOUS
    <3> QED BY <1>5, <3>1
  <2> QED BY <1>1, <2>1 DEF DigitsIn
<1>7. s[1 + 1] = d[1]
  <2>1. 1 \in 1 .. n
    BY <1>1
  <2> QED BY <1>4, <2>1
<1>8. Integral(s, 1, n + 1)
  BY <1>4, <1>6, <1>7 DEF Integral
<1>9. Parse(s, 1, n + 1, n + 1)
  BY <1>1, <1>4, <1>8 DEF Parse, Fractional
<1>10. IsNumber(s)
  BY <1>9, NumberParts
<1>11. Tail(s) = d
  <2>1. PICK u \in Seq(Octet) : u = Tail(s) /\ Len(u) = n /\ \A k \in 1 .. n : u[k] = s[k + 1]
    <3>1. s # <<>>
      BY <1>4
    <3>2. Tail(s) \in Seq(Octet) /\ Len(Tail(s)) = n /\ \A k \in 1 .. n : Tail(s)[k] = s[k + 1]
      BY <1>1, <1>4, <3>1
    <3> QED BY <3>2
  <2>2. \A k \in 1 .. n : u[k] = d[k]
    <3>1. \A k \in 1 .. n : 1 + k = k + 1
      OBVIOUS
    <3> QED BY <1>4, <2>1, <3>1
  <2> QED BY <1>0, <1>1, <2>1, <2>2
<1>12. \A k \in DOMAIN s : s[k] \in Digit \union {Minus}
  <2>1. \A k \in 1 .. n + 1 : k = 1 \/ k \in 2 .. n + 1
    OBVIOUS
  <2>2. DOMAIN s = 1 .. n + 1
    BY <1>4
  <2> QED BY <1>4, <1>5, <2>1, <2>2
<1> QED BY <1>4, <1>10, <1>11, <1>12

LEMMA IntegersAreRead ==
  ASSUME NEW t, TokenOK(t), t.type \in {"value_integer", "value_unsigned"}
  PROVE  NumberText(t, DumpInteger(t.value))
<1>0. MaxInteger \in Nat /\ MaxUnsigned = 2 * MaxInteger + 1
  BY WidthAssumption
<1>1. PICK x \in Int : x = t.value /\ -(MaxInteger + 1) <= x /\ x <= MaxUnsigned
  BY <1>0 DEF TokenOK
<1>2. PICK m \in Nat : m = IF x < 0 THEN -x ELSE x
  OBVIOUS
<1>3. DumpInteger(x) = CASE x = 0 -> <<Zero>> [] x > 0 -> DigitsTo(m)[m] [] x < 0 -> <<Minus>> \o DigitsTo(m)[m]
  BY <1>2 DEF DumpInteger, DigitsTo, IsDigitsTo
<1>4. Minus \notin Digit
  BY DEF Minus, Digit
<1>5. ASSUME NEW d \in Seq(Digit), Len(d) >= 1, d[1] # Zero \/ Len(d) = 1, DigitsValue(d) = x, x >= 0
      PROVE  NumberText(t, d)
  <2>1. d \in Seq(Octet) /\ \A k \in 1 .. Len(d) : d[k] \in Digit
    BY DigitOctets
  <2>2. IsNumber(d)
    BY <1>5, DigitsAreNumbers
  <2>3. \A k \in DOMAIN d : d[k] \in Digit \union {Minus}
    BY <2>1
  <2>4. d[1] # Minus
    <3>1. 1 \in 1 .. Len(d)
      BY <1>5
    <3> QED BY <1>4, <2>1, <3>1
  <2>5. NumberToken(d) = TokenOf("value_unsigned", x)
    BY <1>1, <1>5, <2>3, <2>4 DEF NumberToken
  <2>6. NumberToken(d).type = "value_unsigned" /\ NumberToken(d).value = t.value
    BY <1>1, <2>5 DEF TokenOf
  <2>7. SameToken(t, NumberToken(d))
    BY <2>6 DEF SameToken
  <2> QED BY <2>1, <2>2, <2>7 DEF NumberText
<1>6. CASE x = 0
  <2>1. PICK d : d = <<Zero>>
    OBVIOUS
  <2>2. d \in Seq(Digit) /\ Len(d) = 1 /\ d[1] = Zero /\ d \in Seq(Int)
    BY <2>1 DEF Zero, Digit
  <2>3. DigitsValue(d) = 0
    <3>1. DigitsValue(d) = ValueTo(d)[1]
      BY <2>2, DigitsFacts
    <3>2. PICK k \in 1 .. Len(d) : k = 1 /\ k - 1 = 0
      BY <2>2
    <3>3. ValueTo(d)[k] = 10 * ValueTo(d)[k - 1] + (d[k] - Zero)
      BY <2>2, DigitsFacts
    <3>4. ValueTo(d)[0] = 0
      BY <2>2, DigitsFacts
    <3> QED BY <2>2, <3>1, <3>2, <3>3, <3>4 DEF Zero
  <2>4. NumberText(t, d)
    BY <1>5, <1>6, <2>2, <2>3
  <2> QED BY <1>1, <1>3, <1>6, <2>1, <2>4
<1>7. CASE x > 0
  <2>1. PICK d : d = DigitsTo(m)[m]
    OBVIOUS
  <2>2. Written(d, m) /\ m = x
    BY <1>2, <1>7, <2>1, DigitsWritten
  <2>3. NumberText(t, d)
    BY <1>5, <1>7, <2>2 DEF Written
  <2> QED BY <1>1, <1>3, <1>7, <2>1, <2>3
<1>8. CASE x < 0
  <2>1. PICK d : d = DigitsTo(m)[m]
    OBVIOUS
  <2>2. m \in 1 .. m /\ m = -x
    BY <1>2, <1>8
  <2>3. d \in Seq(Digit) /\ DigitsValue(d) = m /\ Len(d) >= 1 /\ d[1] # Zero
    BY <2>1, <2>2, DigitsWritten DEF Written
  <2>4. PICK s : s = <<Minus>> \o d
    OBVIOUS
  <2>5. /\ s \in Seq(Octet) /\ IsNumber(s) /\ s[1] = Minus /\ Tail(s) = d
        /\ \A k \in DOMAIN s : s[k] \in Digit \union {Minus}
    BY <2>3, <2>4, SignedAreNumbers
  <2>6. NumberToken(s) = TokenOf("value_integer", -m)
    <3>1. m <= MaxInteger + 1
      BY <1>0, <1>1, <2>2
    <3> QED BY <2>3, <2>5, <3>1 DEF NumberToken
  <2>7. NumberToken(s).type = "value_integer" /\ NumberToken(s).value = t.value
    <3>1. -m = x
      BY <2>2
    <3> QED BY <1>1, <2>6, <3>1 DEF TokenOf
  <2>8. SameToken(t, NumberToken(s))
    BY <2>7 DEF SameToken
  <2>9. NumberText(t, s)
    BY <2>5, <2>8 DEF NumberText
  <2> QED BY <1>1, <1>3, <1>8, <2>1, <2>4, <2>9
<1> QED BY <1>6, <1>7, <1>8

LEMMA FloatsAreRead ==
  ASSUME NEW t, TokenOK(t), t.type = "value_float"
  PROVE  NumberText(t, DumpFloat(t.value))
<1>1. PICK s \in Seq(Octet) : s = t.value /\ IsNumber(s) /\ t = TokenOf("value_float", s)
  BY DEF TokenOK
<1>2. Point \notin Digit \union {Minus} /\ Point \in Octet /\ Zero \in Octet /\ Zero \in Digit
      /\ \A c \in Exponent : c \notin Digit \union {Minus}
  BY DEF Point, Digit, Minus, Octet, Zero, Exponent
<1>3. ASSUME NEW u \in Seq(Octet), NEW k \in DOMAIN u, u[k] \notin Digit \union {Minus}
      PROVE  NumberToken(u) = TokenOf("value_float", u)
  BY <1>3 DEF NumberToken
<1>4. CASE \E k \in DOMAIN s : s[k] \in Exponent \union {Point}
  <2>1. DumpFloat(s) = s
    BY <1>4 DEF DumpFloat
  <2>2. PICK k \in DOMAIN s : s[k] \in Exponent \union {Point}
    BY <1>4
  <2>3. NumberToken(s) = TokenOf("value_float", s)
    BY <1>2, <1>3, <2>2
  <2>4. SameToken(t, NumberToken(s))
    BY <1>1, <2>3 DEF SameToken
  <2> QED BY <1>1, <2>1, <2>4 DEF NumberText
<1>5. CASE ~\E k \in DOMAIN s : s[k] \in Exponent \union {Point}
  <2>1. PICK u : u = s \o <<Point, Zero>>
    OBVIOUS
  <2>2. DumpFloat(s) = u
    BY <1>5, <2>1 DEF DumpFloat
  <2>3. PICK n \in Nat : n = Len(s)
    OBVIOUS
  <2>4. PICK q \in Seq(Octet) : q = <<Point, Zero>> /\ Len(q) = 2 /\ q[1] = Point /\ q[2] = Zero
    <3>1. <<Point, Zero>> \in Seq(Octet) /\ Len(<<Point, Zero>>) = 2
          /\ <<Point, Zero>>[1] = Point /\ <<Point, Zero>>[2] = Zero
      BY <1>2
    <3> QED BY <3>1
  <2>5. Joins(s, q, u)
    BY <2>1, <2>4, JoinOctets
  <2>6. /\ u \in Seq(Octet) /\ Len(u) = n + 2 /\ \A k \in 1 .. n : u[k] = s[k]
        /\ u[n + 1] = Point /\ u[n + 2] = Zero
    <3>1. 1 \in 1 .. Len(q) /\ 2 \in 1 .. Len(q)
      BY <2>4
    <3> QED BY <2>3, <2>4, <2>5, <3>1 DEF Joins
  <2>7. PICK m, i, j : Parse(s, m, i, j)
    BY <1>1, NumberParts
  <2>8. /\ m \in {0, 1} /\ i \in 1 .. n /\ j \in 1 .. n
        /\ Integral(s, m, i) /\ Fractional(s, i, j) /\ (j = n \/ Powered(s, j, n))
    BY <2>3, <2>7 DEF Parse
  <2>9. \A k \in 1 .. n : s[k] # Point /\ s[k] \notin Exponent
    BY <1>5, <2>3
  <2>10. i = j
    <3> SUFFICES ASSUME i # j PROVE FALSE
      OBVIOUS
    <3>1. i + 1 < j /\ s[i + 1] = Point
      BY <2>8 DEF Fractional, DigitsIn
    <3>2. i + 1 \in 1 .. n
      BY <2>8, <3>1
    <3> QED BY <2>9, <3>1, <3>2
  <2>11. j = n
    <3> SUFFICES ASSUME j # n PROVE FALSE
      OBVIOUS
    <3>1. j + 1 \in 1 .. n
      BY <2>8
    <3> QED BY <2>8, <2>9, <3>1 DEF Powered
  <2>12. m < n /\ (\A k \in m + 1 .. n : s[k] \in Digit) /\ (m = 1 => s[1] = Minus) /\ (s[m + 1] = Zero => n = m + 1)
    BY <2>8, <2>10, <2>11 DEF Integral, DigitsIn
  <2>13. Integral(u, m, n)
    <3>1. \A k \in m + 1 .. n : k \in 1 .. n
      BY <2>8
    <3>2. m + 1 \in 1 .. n /\ 1 \in 1 .. n
      BY <2>8, <2>12
    <3>3. DigitsIn(u, m, n)
      BY <2>6, <2>12, <3>1 DEF DigitsIn
    <3> QED BY <2>6, <2>12, <3>2, <3>3 DEF Integral
  <2>14. Fractional(u, n, n + 2)
    <3>1. \A k \in n + 1 + 1 .. n + 2 : k = n + 2
      OBVIOUS
    <3>2. DigitsIn(u, n + 1, n + 2)
      BY <1>2, <2>6, <3>1 DEF DigitsIn
    <3> QED BY <2>6, <3>2 DEF Fractional
  <2>15. Parse(u, m, n, n + 2)
    <3>1. n \in 1 .. n + 2 /\ n + 2 \in 1 .. n + 2
      BY <2>8
    <3> QED BY <2>6, <2>8, <2>13, <2>14, <3>1 DEF Parse
  <2>16. IsNumber(u)
    BY <2>15, NumberParts
  <2>17. NumberToken(u) = TokenOf("value_float", u)
    <3>1. n + 1 \in DOMAIN u
      BY <2>6
    <3> QED BY <1>2, <1>3, <2>6, <3>1
  <2>18. SameToken(t, NumberToken(u))
    BY <1>1, <2>2, <2>17 DEF SameToken
  <2> QED BY <1>1, <2>2, <2>6, <2>16, <2>18 DEF NumberText
<1> QED BY <1>4, <1>5
-----------------------------------------------------------------------------
(* What was dumped is read to its end, and gives the token that was dumped. *)

LEMMA PartsJoin ==
  ASSUME NEW s \in Seq(Octet), NEW i \in Nat, NEW j \in Nat, i <= j, j <= Len(s)
  PROVE  SubSeq(s, 1, i) \o SubSeq(s, i + 1, j) = SubSeq(s, 1, j)
<1>1. 1 \in 1 .. Len(s) + 1 /\ i + 1 \in 1 .. Len(s) + 1 /\ i <= Len(s)
  OBVIOUS
<1>2. PICK p \in Seq(Octet) : p = SubSeq(s, 1, i) /\ Len(p) = i /\ \A k \in 1 .. i : p[k] = s[k]
  <2>1. /\ SubSeq(s, 1, i) \in Seq(Octet) /\ Len(SubSeq(s, 1, i)) = i - 1 + 1
        /\ \A k \in 1 .. i - 1 + 1 : SubSeq(s, 1, i)[k] = s[1 + k - 1]
    BY <1>1, PartFacts
  <2>2. i - 1 + 1 = i /\ \A k \in 1 .. i : 1 + k - 1 = k
    OBVIOUS
  <2>3. Len(SubSeq(s, 1, i)) = i /\ \A k \in 1 .. i : SubSeq(s, 1, i)[k] = s[k]
    BY <2>1, <2>2
  <2> QED BY <2>1, <2>3, Zenon
<1>h. PICK h \in Nat \ {0} : h = i + 1
  OBVIOUS
<1>3. PICK q \in Seq(Octet) : q = SubSeq(s, h, j) /\ Len(q) = j - i /\ \A k \in 1 .. j - i : q[k] = s[i + k]
  <2>1. h \in 1 .. Len(s) + 1 /\ h - 1 <= j
    BY <1>1, <1>h
  <2>2. /\ SubSeq(s, h, j) \in Seq(Octet) /\ Len(SubSeq(s, h, j)) = j - h + 1
        /\ \A k \in 1 .. j - h + 1 : SubSeq(s, h, j)[k] = s[h + k - 1]
    BY <2>1, PartFacts
  <2>3. j - h + 1 = j - i /\ \A k \in 1 .. j - i : h + k - 1 = i + k
    BY <1>h
  <2>4. Len(SubSeq(s, h, j)) = j - i /\ \A k \in 1 .. j - i : SubSeq(s, h, j)[k] = s[i + k]
    BY <2>2, <2>3
  <2> QED BY <2>2, <2>4, Zenon
<1>4. PICK r \in Seq(Octet) : r = SubSeq(s, 1, j) /\ Len(r) = j /\ \A k \in 1 .. j : r[k] = s[k]
  <2>1. /\ SubSeq(s, 1, j) \in Seq(Octet) /\ Len(SubSeq(s, 1, j)) = j - 1 + 1
        /\ \A k \in 1 .. j - 1 + 1 : SubSeq(s, 1, j)[k] = s[1 + k - 1]
    BY <1>1, PartFacts
  <2>2. j - 1 + 1 = j /\ \A k \in 1 .. j : 1 + k - 1 = k
    OBVIOUS
  <2>3. Len(SubSeq(s, 1, j)) = j /\ \A k \in 1 .. j : SubSeq(s, 1, j)[k] = s[k]
    BY <2>1, <2>2
  <2> QED BY <2>1, <2>3, Zenon
<1>5. PICK u : u = p \o q
  OBVIOUS
<1>6. Joins(p, q, u)
  BY <1>5, JoinOctets
<1>7. u \in Seq(Octet) /\ Len(u) = j
  BY <1>2, <1>3, <1>6 DEF Joins
<1>8. ASSUME NEW k \in 1 .. j PROVE u[k] = r[k]
  <2>1. CASE k \in 1 .. i
    BY <1>2, <1>4, <1>6, <2>1 DEF Joins
  <2>2. CASE ~(k \in 1 .. i)
    <3>1. PICK x \in 1 .. j - i : x = k - i /\ i + x = k
      BY <2>2
    <3>2. u[i + x] = q[x]
      BY <1>2, <1>3, <1>6, <3>1 DEF Joins
    <3> QED BY <1>3, <1>4, <3>1, <3>2
  <2> QED BY <2>1, <2>2
<1>9. u = r
  BY <1>4, <1>7, <1>8, SeqEqual
<1> QED BY <1>2, <1>3, <1>4, <1>5, <1>9, <1>h

LEMMA SkipHere ==
  ASSUME input \in Seq(Octet), at \in Nat \ {0}, at <= Len(input) + 1, ByteAt(at) \notin White
  PROVE  Skip = at
<1> DEFINE S == {i \in at .. Len(input) + 1 : ByteAt(i) \notin White}
<1>1. at \in S /\ S \in SUBSET Nat /\ S # {}
  OBVIOUS
<1>2. Min(S) \in S /\ Min(S) <= at
  BY <1>1, MinFacts
<1>3. Skip = Min(S)
  BY DEF Skip
<1>4. PICK m : m = Min(S)
  OBVIOUS
<1>5. m \in Nat /\ at <= m /\ m <= at
  BY <1>2, <1>4
<1> QED BY <1>3, <1>4, <1>5

LEMMA NumberBytes ==
  ASSUME NEW t \in Seq(Octet), IsNumber(t)
  PROVE  Len(t) >= 1 /\ t[1] \in Digit \union {Minus} /\ \A k \in 1 .. Len(t) : t[k] \in RunBytes
<1>1. PICK m, i, j : Parse(t, m, i, j)
  BY NumberParts
<1>2. Len(t) >= 1
  BY <1>1 DEF Parse
<1>3. t[1] \in Digit \union {Minus}
  <2>1. m \in {0, 1} /\ i \in 1 .. Len(t) /\ Integral(t, m, i)
    BY <1>1 DEF Parse
  <2>2. m = 1 => t[1] = Minus
    BY <2>1 DEF Integral
  <2>3. ASSUME m = 0 PROVE t[1] \in Digit
    <3>1. 0 < i /\ \A k \in 0 + 1 .. i : t[k] \in Digit
      BY <2>1, <2>3 DEF Integral, DigitsIn
    <3> QED BY <3>1, <2>1
  <2> QED BY <2>1, <2>2, <2>3
<1>4. ASSUME NEW k \in 1 .. Len(t) - 1 PROVE t[k + 1] \in RunBytes
  <2>1. PICK c \in Int : c = t[k + 1]
    BY <1>1, PathStep
  <2>2. PICK l : l = LabelAt(t, m, i, j, k)
    OBVIOUS
  <2>3. l \in LabelNames
    BY <2>2, LabelAtNames
  <2>4. NextLabel(l, c) \in LabelNames
    BY <1>1, <2>1, <2>2, PathStep, LabelAtNames
  <2>5. NextLabel(l, c) \notin {"done", "error"}
    BY <2>4 DEF LabelNames
  <2> QED BY <2>1, <2>3, <2>5, RunLabels
<1>5. t[1] \in RunBytes
  BY <1>3 DEF RunBytes
<1>6. ASSUME NEW k \in 1 .. Len(t) PROVE t[k] \in RunBytes
  <2>1. CASE k = 1
    BY <1>5, <2>1
  <2>2. CASE k # 1
    <3>1. PICK x \in 1 .. Len(t) - 1 : x = k - 1 /\ x + 1 = k
      BY <2>2
    <3> QED BY <3>1, <1>4
  <2> QED BY <2>1, <2>2
<1> QED BY <1>2, <1>3, <1>6

LEMMA RunOfAll ==
  ASSUME input \in Seq(Octet), \A k \in 1 .. Len(input) : input[k] \in RunBytes
  PROVE  RunFrom(1) = input
<1>1. PICK e : IsRunEnd(1, e)
  BY RunFacts
<1>2. e \in 1 .. Len(input) + 1 /\ RunFrom(1) = SubSeq(input, 1, e - 1) /\ ByteAt(e) \notin RunBytes
  BY <1>1 DEF IsRunEnd
<1>3. e = Len(input) + 1
  <2> SUFFICES ASSUME e \in 1 .. Len(input) PROVE FALSE
    BY <1>2
  <2>1. ByteAt(e) = input[e]
    BY DEF ByteAt
  <2> QED BY <1>2, <2>1
<1>4. e - 1 = Len(input)
  BY <1>3
<1>5. SubSeq(input, 1, Len(input)) = input
  OBVIOUS
<1> QED BY <1>2, <1>4, <1>5

\* The text of a string, and how much of it was read.
StringText(s, ascii) ==
  StateAt(s, ascii, Len(s)) = 0 /\ input = <<Quote>> \o OutTo(s, ascii, Len(s)) \o <<Quote>>

ReadTo(s, ascii, i) ==
  /\ i \in 0 .. Len(s) /\ StateAt(s, ascii, i) = 0
  /\ at = 2 + Len(OutTo(s, ascii, i)) /\ token_buffer = SubSeq(s, 1, i)

StringPlace(t, ascii) ==
  \/ lexing = "idle" /\ at = 1
  \/ lexing = "string" /\ \E i : ReadTo(t.value, ascii, i)
  \/ lexing = "token" /\ token = t /\ at = Len(input) + 1

StringRead(t) == \E ascii \in BOOLEAN : StringText(t.value, ascii) /\ StringPlace(t, ascii)

NumberRead(t) ==
  /\ NumberText(t, input)
  /\ \/ lexing = "idle" /\ at = 1
     \/ lexing = "number" /\ start = 1
     \/ lexing = "token" /\ SameToken(t, token) /\ at = Len(input) + 1

\* Inductive, with LexInv: what was dumped is read up to the end of a character.
DumpedOK == \A t : dumped = <<t>> => IF t.type = "value_string" THEN StringRead(t) ELSE NumberRead(t)

LEMMA DumpedTokens ==
  ASSUME LexInv, NEW t, dumped = <<t>>
  PROVE  TokenOK(t) /\ IsValue(t)
<1>1. dumped = <<>> \/ \E u : TokenOK(u) /\ IsValue(u) /\ dumped = <<u>>
  BY DEF LexInv, LexTypeOK
<1>2. \A u : dumped = <<u>> => u = t
  OBVIOUS
<1>3. dumped # <<>>
  OBVIOUS
<1> QED BY <1>1, <1>2, <1>3, Zenon

LEMMA ReadFromStart ==
  ASSUME NEW s \in Seq(Octet), NEW ascii \in BOOLEAN
  PROVE  StateAt(s, ascii, 0) = 0 /\ OutTo(s, ascii, 0) = <<>> /\ SubSeq(s, 1, 0) = <<>> /\ SubSeq(s, 1, Len(s)) = s
<1>1. DumpOf(s, ascii)[0] = DumpStart
  BY DumpFacts
<1>2. StateAt(s, ascii, 0) = 0 /\ OutTo(s, ascii, 0) = <<>>
  BY <1>1 DEF StateAt, OutTo, DumpStart, Accept
<1>3. SubSeq(s, 1, 0) = <<>> /\ SubSeq(s, 1, Len(s)) = s
  OBVIOUS
<1> QED BY <1>2, <1>3

LEMMA IdleSteps ==
  ASSUME lexing = "idle", LexNext
  PROVE  ScanOne \/ BeginString \/ BeginNumber
BY DEF LexNext, EndString, BadByte, PlainByte, ManyBytes, ShortEscape, UnicodeEscape, NumberByte, NumberError,
       NumberDone, ScanNext, Dump

LEMMA NumberSteps ==
  ASSUME lexing = "number", LexNext
  PROVE  NumberByte \/ NumberError \/ NumberDone
BY DEF LexNext, ScanOne, BeginString, EndString, BadByte, PlainByte, ManyBytes, ShortEscape, UnicodeEscape,
       BeginNumber, ScanNext, Dump

LEMMA TokenSteps ==
  ASSUME lexing = "token", LexNext
  PROVE  dumped = <<>>
BY DEF LexNext, ScanOne, BeginString, EndString, BadByte, PlainByte, ManyBytes, ShortEscape, UnicodeEscape,
       BeginNumber, NumberByte, NumberError, NumberDone, ScanNext, Dump

LEMMA OpeningQuote ==
  ASSUME lexing = "idle", LexNext, Skip = 1, ByteAt(1) = Quote
  PROVE  lexing' = "string" /\ at' = 2 /\ token_buffer' = <<>> /\ input' = input /\ dumped' = dumped
<1>1. ~BeginNumber
  BY DEF BeginNumber, Quote, Digit, Minus
<1>2. ~ScanOne
  <2>1. Quote \notin DOMAIN Structural /\ Quote \notin DOMAIN Literal /\ Quote \notin {EOF, 0}
    BY DEF Quote, Structural, Literal, EOF
  <2> QED BY <2>1 DEF ScanOne
<1>3. BeginString
  BY <1>1, <1>2, IdleSteps
<1> QED BY <1>3 DEF BeginString

LEMMA ClosingQuote ==
  ASSUME lexing = "string", LexNext, Current = Quote
  PROVE  /\ lexing' = "token" /\ token' = TokenOf("value_string", token_buffer) /\ at' = at + 1
         /\ input' = input /\ dumped' = dumped
<1>1. StringStep
  BY StringSteps
<1>2. ~BadByte /\ ~PlainByte /\ ~ManyBytes /\ ~ShortEscape /\ ~UnicodeEscape
  BY DEF BadByte, PlainByte, ManyBytes, ShortEscape, UnicodeEscape, Quote, Backslash
<1>3. EndString
  BY <1>1, <1>2 DEF StringStep
<1> QED BY <1>3 DEF EndString, Found

LEMMA ReadsOn ==
  ASSUME NEW s \in Seq(Octet), NEW ascii \in BOOLEAN, NEW i, StringText(s, ascii), ReadTo(s, ascii, i),
         i # Len(s), lexing = "string", LexNext, at \in Nat \ {0}, input \in Seq(Octet)
  PROVE  lexing' = "string" /\ input' = input /\ dumped' = dumped /\ \E j : ReadTo(s, ascii, j)'
<1>1. i \in 0 .. Len(s) - 1 /\ i \in 0 .. Len(s) /\ StateAt(s, ascii, i) = 0 /\ StateAt(s, ascii, Len(s)) = 0
  BY DEF ReadTo, StringText
<1>2. PICK k, w : NextWritten(s, ascii, i, k, w)
  BY <1>1, NextCharacter
<1>3. PICK c : c = SubSeq(s, i + 1, i + k)
  OBVIOUS
<1>4. Form(c, w)
  <2>1. Writes(c, ascii, w)
    BY <1>2, <1>3 DEF NextWritten
  <2> QED BY <2>1, WritesForms
<1>5. w \in Seq(Octet) /\ Len(w) >= 1
  BY <1>4, FormTypes
<1>6. Holds(2 + Len(OutTo(s, ascii, i)), w) /\ Len(OutTo(s, ascii, i + k)) = Len(OutTo(s, ascii, i)) + Len(w)
  <2>1. input = <<Quote>> \o OutTo(s, ascii, Len(s)) \o <<Quote>>
    BY DEF StringText
  <2>2. i \in 0 .. Len(s) /\ StateAt(s, ascii, Len(s)) = 0 /\ w \in Seq(Octet)
    BY <1>1, <1>5
  <2>3. NextWritten(s, ascii, i, k, w)
    BY <1>2
  <2>4. Holds(2 + Len(OutTo(s, ascii, i)), w)
    BY <2>1, <2>2, <2>3, NextHolds
  <2>5. OutTo(s, ascii, i + k) = OutTo(s, ascii, i) \o w
    BY <2>3, Zenon DEF NextWritten, OutTo
  <2>6. PICK p \in Seq(Octet) : p = OutTo(s, ascii, i)
    <3>1. DumpOf(s, ascii)[i] \in DumpStates
      BY <1>1, DumpFacts
    <3> QED BY <3>1 DEF OutTo, DumpStates
  <2>7. Len(p \o w) = Len(p) + Len(w)
    BY <2>2
  <2> QED BY <2>4, <2>5, <2>6, <2>7
<1>7. at = 2 + Len(OutTo(s, ascii, i)) /\ token_buffer = SubSeq(s, 1, i)
  BY DEF ReadTo
<1>8. Holds(at, w)
  BY <1>6, <1>7
<1>9. Add(c, at + Len(w))
  BY <1>4, <1>8, FormStep DEF InString
<1>10. PICK j \in 0 .. Len(s) : j = i + k /\ i <= j /\ j <= Len(s)
  BY <1>1, <1>2 DEF NextWritten
<1>11. token_buffer' = SubSeq(s, 1, j)
  <2>1. token_buffer' = token_buffer \o c
    BY <1>9 DEF Add
  <2>2. SubSeq(s, 1, i) \o SubSeq(s, i + 1, j) = SubSeq(s, 1, j)
    BY <1>1, <1>10, PartsJoin
  <2> QED BY <1>3, <1>7, <1>10, <2>1, <2>2, Zenon
<1>12. at' = 2 + Len(OutTo(s, ascii, j))
  <2>1. at' = at + Len(w)
    BY <1>9 DEF Add
  <2>2. PICK a \in Nat, b \in Nat : a = Len(OutTo(s, ascii, i)) /\ b = Len(w)
    <3>1. DumpOf(s, ascii)[i] \in DumpStates
      BY <1>1, DumpFacts
    <3>2. OutTo(s, ascii, i) \in Seq(Octet)
      BY <3>1 DEF OutTo, DumpStates
    <3> QED BY <1>5, <3>2
  <2> QED BY <1>6, <1>7, <1>10, <2>1, <2>2
<1>13. StateAt(s, ascii, j) = 0
  BY <1>2, <1>10 DEF NextWritten
<1>14. lexing' = "string" /\ input' = input /\ dumped' = dumped
  BY <1>9 DEF Add
<1>15. ReadTo(s, ascii, j)'
  BY <1>10, <1>11, <1>12, <1>13 DEF ReadTo
<1> QED BY <1>14, <1>15

LEMMA StringReadKept ==
  ASSUME LexInv, NEW t, dumped = <<t>>, t.type = "value_string", StringRead(t), LexNext
  PROVE  dumped' = dumped /\ StringRead(t)'
<1>1. PICK ascii \in BOOLEAN : StringText(t.value, ascii) /\ StringPlace(t, ascii)
  BY DEF StringRead
<1>2. PICK s \in Seq(Octet) : s = t.value /\ t = TokenOf("value_string", s)
  <2>1. TokenOK(t)
    BY DumpedTokens
  <2> QED BY <2>1 DEF TokenOK
<1>3. PICK p \in Seq(Octet) : p = OutTo(s, ascii, Len(s))
  <2>1. DumpOf(s, ascii)[Len(s)] \in DumpStates
    BY DumpFacts
  <2> QED BY <2>1 DEF OutTo, DumpStates
<1>4. input = <<Quote>> \o p \o <<Quote>>
  BY <1>1, <1>2, <1>3 DEF StringText
<1>5. /\ input \in Seq(Octet) /\ Len(input) = Len(p) + 2 /\ ByteAt(1) = Quote
      /\ ByteAt(Len(p) + 2) = Quote
  BY <1>4, QuotedHolds
<1>6. at \in Nat \ {0}
  BY DEF LexInv, LexTypeOK
<1>7. ASSUME input' = input, StringPlace(t, ascii)' PROVE StringRead(t)'
  <2>1. StringText(t.value, ascii)'
    BY <1>1, <1>7 DEF StringText
  <2> QED BY <1>7, <2>1 DEF StringRead
<1>8. CASE lexing = "idle" /\ at = 1
  <2>1. Skip = 1
    <3>1. ByteAt(at) \notin White /\ at <= Len(input) + 1
      BY <1>5, <1>8 DEF White, Quote
    <3> QED BY <1>5, <1>6, <1>8, <3>1, SkipHere
  <2>2. lexing' = "string" /\ at' = 2 /\ token_buffer' = <<>> /\ input' = input /\ dumped' = dumped
    BY <1>5, <1>8, <2>1, OpeningQuote
  <2>3. ReadTo(s, ascii, 0)'
    <3>1. StateAt(s, ascii, 0) = 0 /\ OutTo(s, ascii, 0) = <<>> /\ SubSeq(s, 1, 0) = <<>>
      BY ReadFromStart
    <3>2. Len(OutTo(s, ascii, 0)) = 0 /\ 0 \in 0 .. Len(s)
      BY <3>1
    <3> QED BY <2>2, <3>1, <3>2 DEF ReadTo
  <2>4. StringPlace(t, ascii)'
    BY <1>2, <2>2, <2>3 DEF StringPlace
  <2> QED BY <1>7, <2>2, <2>4
<1>9. ASSUME lexing = "string", NEW i, ReadTo(s, ascii, i), i # Len(s) PROVE dumped' = dumped /\ StringRead(t)'
  <2>1. lexing' = "string" /\ input' = input /\ dumped' = dumped /\ \E j : ReadTo(s, ascii, j)'
    BY <1>1, <1>2, <1>5, <1>6, <1>9, ReadsOn
  <2>2. StringPlace(t, ascii)'
    BY <1>2, <2>1 DEF StringPlace
  <2> QED BY <1>7, <2>1, <2>2
<1>10. ASSUME lexing = "string", ReadTo(s, ascii, Len(s)) PROVE dumped' = dumped /\ StringRead(t)'
  <2>1. at = 2 + Len(p) /\ token_buffer = SubSeq(s, 1, Len(s))
    BY <1>3, <1>10 DEF ReadTo
  <2>2. at = Len(p) + 2 /\ Len(input) = at
    BY <1>3, <1>5, <2>1
  <2>3. token_buffer = s
    BY <2>1, ReadFromStart
  <2>4. Current = Quote
    BY <1>5, <2>2 DEF Current
  <2>5. /\ lexing' = "token" /\ token' = TokenOf("value_string", token_buffer) /\ at' = at + 1
        /\ input' = input /\ dumped' = dumped
    BY <1>10, <2>4, ClosingQuote
  <2>6. token' = t /\ at' = Len(input') + 1
    BY <1>2, <2>2, <2>3, <2>5
  <2>7. StringPlace(t, ascii)'
    BY <2>5, <2>6 DEF StringPlace
  <2> QED BY <1>7, <2>5, <2>7
<1>11. lexing # "token"
  <2>1. dumped # <<>>
    OBVIOUS
  <2> QED BY <2>1, TokenSteps
<1> QED BY <1>1, <1>2, <1>8, <1>9, <1>10, <1>11 DEF StringPlace

LEMMA NumberReadKept ==
  ASSUME LexInv, NEW t, dumped = <<t>>, NumberRead(t), LexNext
  PROVE  dumped' = dumped /\ NumberRead(t)'
<1>1. NumberText(t, input) /\ input \in Seq(Octet) /\ IsNumber(input) /\ SameToken(t, NumberToken(input))
  BY DEF NumberRead, NumberText
<1>2. at \in Nat \ {0}
  BY DEF LexInv, LexTypeOK
<1>3. Len(input) >= 1 /\ input[1] \in Digit \union {Minus} /\ \A k \in 1 .. Len(input) : input[k] \in RunBytes
  BY <1>1, NumberBytes
<1>4. RunFrom(1) = input
  BY <1>1, <1>3, RunOfAll
<1>5. lexing # "token"
  <2>1. dumped # <<>>
    OBVIOUS
  <2> QED BY <2>1, TokenSteps
<1>6. CASE lexing = "idle" /\ at = 1
  <2>1. PICK b \in Int : b = ByteAt(1) /\ b = input[1]
    <3>1. ByteAt(1) = input[1]
      BY <1>3 DEF ByteAt
    <3> QED BY <1>1, <3>1, Gets
  <2>2. b \in Digit \union {Minus}
    BY <1>3, <2>1
  <2>3. Skip = 1
    <3>1. b \notin White
      BY <2>2 DEF White, Digit, Minus
    <3>2. ByteAt(at) \notin White /\ at <= Len(input) + 1
      BY <1>3, <1>6, <2>1, <3>1
    <3> QED BY <1>1, <1>2, <1>6, <3>2, SkipHere
  <2>4. ~BeginString
    <3>1. b # Quote
      BY <2>2 DEF Quote, Digit, Minus
    <3> QED BY <2>1, <2>3, <3>1 DEF BeginString
  <2>5. ~ScanOne
    <3>1. b \notin DOMAIN Structural /\ b \notin DOMAIN Literal /\ b \notin {EOF, 0}
      BY <2>2 DEF Structural, Literal, EOF, Digit, Minus
    <3> QED BY <2>1, <2>2, <2>3, <3>1 DEF ScanOne
  <2>6. BeginNumber
    BY <1>6, <2>4, <2>5, IdleSteps
  <2>7. lexing' = "number" /\ start' = 1 /\ input' = input /\ dumped' = dumped
    BY <2>3, <2>6 DEF BeginNumber
  <2> QED BY <1>1, <2>7 DEF NumberRead
<1>7. CASE lexing = "number" /\ start = 1
  <2>1. CASE NumberByte
    BY <1>1, <1>7, <2>1 DEF NumberByte, NumberRead
  <2>2. ~NumberError
    BY <1>1, <1>4, <1>7, NumberErrors
  <2>3. CASE NumberDone
    <3>1. lexing' = "token" /\ token' = TokenOf(NumberToken(token_buffer).type, NumberToken(token_buffer).value)
      BY <2>3 DEF NumberDone, Found
    <3>2. at' = at /\ input' = input /\ dumped' = dumped
      BY <2>3 DEF NumberDone, Found
    <3>3. at <= Len(input) + 1
      BY <1>7, NumberPath
    <3>4. Current \notin RunBytes
      <4> SUFFICES ASSUME Current \in RunBytes PROVE FALSE
        OBVIOUS
      <4>1. PICK m, i, j : Parse(RunFrom(start), m, i, j)
        BY <1>1, <1>4, <1>7, NumberParts
      <4>2. NextLabel(number, Current) \in LabelNames
        BY <1>7, <4>1, NumberPath, LabelAtNames
      <4>3. NextLabel(number, Current) = "done"
        BY <2>3 DEF NumberDone
      <4> QED BY <4>2, <4>3 DEF LabelNames
    <3>5. at = Len(input) + 1
      <4> SUFFICES ASSUME at \in 1 .. Len(input) PROVE FALSE
        BY <1>1, <1>2, <3>3
      <4>1. Current = input[at]
        BY DEF Current, ByteAt
      <4> QED BY <1>3, <3>4, <4>1
    <3>6. token_buffer = input
      <4>1. token_buffer = SubSeq(input, 1, at - 1)
        BY <1>7 DEF LexInv, NumberOK
      <4>2. at - 1 = Len(input) /\ SubSeq(input, 1, Len(input)) = input
        BY <1>1, <3>5
      <4> QED BY <4>1, <4>2
    <3>7. NumberToken(input) = TokenOf(NumberToken(input).type, NumberToken(input).value)
      BY <1>1, NumberTokenType DEF TokenOK
    <3>8. SameToken(t, token') /\ at' = Len(input') + 1
      BY <1>1, <3>1, <3>2, <3>5, <3>6, <3>7
    <3>9. SameToken(t, token)'
      BY <3>8 DEF SameToken
    <3> QED BY <1>1, <3>1, <3>2, <3>8, <3>9 DEF NumberRead
  <2> QED BY <1>7, <2>1, <2>2, <2>3, NumberSteps
<1> QED BY <1>5, <1>6, <1>7 DEF NumberRead

LEMMA DumpReads ==
  ASSUME LexInv, NEW ascii \in BOOLEAN, Dump(ascii)
  PROVE  DumpedOK'
<1>1. dumped = <<>> /\ token' = token /\ TokenOK(token) /\ IsValue(token)
  BY DEF Dump, LexInv, LexTypeOK
<1>2. CASE lexing' = "thrown" /\ UNCHANGED <<input, at, dumped>>
  <2>1. dumped' = <<>>
    BY <1>1, <1>2
  <2> QED BY <2>1 DEF DumpedOK
<1>3. CASE /\ token.type = "value_string" => DumpEscaped(token.value, ascii).state = Accept
           /\ lexing' = "idle" /\ input' = Dumped(token, ascii) /\ at' = 1 /\ dumped' = <<token>>
  <2>1. ASSUME token.type = "value_string" PROVE StringRead(token)'
    <3>1. PICK s \in Seq(Octet) : s = token.value
      BY <1>1, <2>1 DEF TokenOK
    <3>2. DumpEscaped(s, ascii) = DumpOf(s, ascii)[Len(s)]
      BY DumpFacts
    <3>3. StateAt(s, ascii, Len(s)) = 0
      BY <1>3, <2>1, <3>1, <3>2 DEF StateAt, Accept
    <3>4. Dumped(token, ascii) = <<Quote>> \o OutTo(s, ascii, Len(s)) \o <<Quote>>
      BY <2>1, <3>1, <3>2 DEF Dumped, OutTo
    <3>5. StringText(token.value, ascii)' /\ StringPlace(token, ascii)'
      BY <1>1, <1>3, <3>1, <3>3, <3>4 DEF StringText, StringPlace
    <3> QED BY <3>5 DEF StringRead
  <2>2. ASSUME token.type # "value_string" PROVE NumberRead(token)'
    <3>1. NumberText(token, Dumped(token, ascii))
      <4>1. CASE token.type = "value_float"
        <5>1. Dumped(token, ascii) = DumpFloat(token.value)
          BY <4>1 DEF Dumped
        <5> QED BY <1>1, <4>1, <5>1, FloatsAreRead
      <4>2. CASE token.type \in {"value_integer", "value_unsigned"}
        <5>1. Dumped(token, ascii) = DumpInteger(token.value)
          BY <4>2 DEF Dumped
        <5> QED BY <1>1, <4>2, <5>1, IntegersAreRead
      <4> QED BY <1>1, <2>2, <4>1, <4>2 DEF IsValue
    <3>2. NumberText(token, input)'
      BY <1>1, <1>3, <3>1 DEF NumberText, SameToken
    <3> QED BY <1>3, <3>2 DEF NumberRead
  <2>3. ASSUME NEW t, dumped' = <<t>>
        PROVE  IF t.type = "value_string" THEN StringRead(t)' ELSE NumberRead(t)'
    <3>1. t = token
      BY <1>3, <2>3
    <3>2. CASE t.type = "value_string"
      BY <1>1, <2>1, <3>1, <3>2 DEF StringRead, StringText, StringPlace
    <3>3. CASE t.type # "value_string"
      BY <1>1, <2>2, <3>1, <3>3 DEF NumberRead, NumberText, SameToken
    <3> QED BY <3>2, <3>3
  <2> QED BY <2>3 DEF DumpedOK
<1> QED BY <1>2, <1>3 DEF Dump

LEMMA DumpedKept ==
  ASSUME LexInv, DumpedOK, [LexNext]_lexVars
  PROVE  DumpedOK'
<1>1. CASE UNCHANGED lexVars
  <2>1. UNCHANGED <<input, at, lexing, start, token_buffer, token, dumped>>
    BY <1>1 DEF lexVars
  <2> QED BY <2>1 DEF DumpedOK, StringRead, StringText, StringPlace, ReadTo, NumberRead, NumberText
<1>2. ASSUME LexNext, dumped = <<>> PROVE DumpedOK'
  <2>1. (\E ascii \in BOOLEAN : Dump(ascii)) \/ dumped' = dumped
    BY <1>2 DEF LexNext, ScanOne, BeginString, EndString, BadByte, PlainByte, ManyBytes, ShortEscape, UnicodeEscape,
                BeginNumber, NumberByte, NumberError, NumberDone, ScanNext, ParseError, Found, Add
  <2>2. ASSUME dumped' = dumped PROVE DumpedOK'
    BY <1>2, <2>2 DEF DumpedOK
  <2> QED BY <2>1, <2>2, DumpReads
<1>3. ASSUME LexNext, NEW t, dumped = <<t>> PROVE DumpedOK'
  <2>1. CASE t.type = "value_string"
    <3>1. StringRead(t)
      BY <1>3, <2>1 DEF DumpedOK
    <3>2. dumped' = <<t>> /\ StringRead(t)'
      BY <1>3, <2>1, <3>1, StringReadKept
    <3>3. ASSUME NEW u, dumped' = <<u>> PROVE u = t
      BY <3>2, <3>3
    <3> QED BY <2>1, <3>2, <3>3 DEF DumpedOK
  <2>2. CASE t.type # "value_string"
    <3>1. NumberRead(t)
      BY <1>3, <2>2 DEF DumpedOK
    <3>2. dumped' = <<t>> /\ NumberRead(t)'
      BY <1>3, <3>1, NumberReadKept
    <3>3. ASSUME NEW u, dumped' = <<u>> PROVE u = t
      BY <3>2, <3>3
    <3> QED BY <2>2, <3>2, <3>3 DEF DumpedOK
  <2> QED BY <2>1, <2>2
<1>4. dumped = <<>> \/ \E t : dumped = <<t>>
  BY DEF LexInv, LexTypeOK
<1> QED BY <1>1, <1>2, <1>3, <1>4

LEMMA ReadTokens ==
  ASSUME LexInv, DumpedOK
  PROVE  TokensAreScanned
<1>1. StringsAreUtf8 /\ NumbersFollowTheGrammar
  BY DEF LexInv
<1>2. ASSUME lexing = "token", NEW t, dumped = <<t>> PROVE SameToken(t, token) /\ at = Len(input) + 1
  <2>1. CASE t.type = "value_string"
    <3>1. PICK ascii \in BOOLEAN : StringPlace(t, ascii)
      BY <1>2, <2>1 DEF DumpedOK, StringRead
    <3> QED BY <1>2, <3>1 DEF StringPlace, SameToken
  <2>2. CASE t.type # "value_string"
    <3>1. NumberRead(t)
      BY <1>2, <2>2 DEF DumpedOK
    <3> QED BY <1>2, <3>1 DEF NumberRead
  <2> QED BY <2>1, <2>2
<1>3. DumpedTokensAreScanned
  <2> SUFFICES ASSUME lexing = "token", dumped # <<>>
               PROVE  SameToken(dumped[1], token) /\ at = Len(input) + 1
    BY DEF DumpedTokensAreScanned, SameToken
  <2>1. PICK t : dumped = <<t>>
    BY DEF LexInv, LexTypeOK
  <2>2. dumped[1] = t
    BY <2>1
  <2> QED BY <1>2, <2>1, <2>2
<1> QED BY <1>1, <1>3 DEF TokensAreScanned

\* json.h's lexer and serializer agree, for every text and every value and whatever the
\* width of integers: a string token is UTF-8 and dump() refuses none that is (:2052 to
\* :2292, :7788), numbers are scanned by the grammar of RFC 7159 (:2340), and what dump()
\* writes of a string or a number is read to its end as the same value (:7444, :13472).
THEOREM TokensAreAlwaysScanned == LexSpec => []TokensAreScanned
<1>1. LexInit => DumpedOK
  BY DEF LexInit, DumpedOK
<1>2. LexInv /\ DumpedOK /\ [LexNext]_lexVars => DumpedOK'
  BY DumpedKept
<1>3. LexInv /\ DumpedOK => TokensAreScanned
  BY ReadTokens
<1> QED BY LexInvariant, <1>1, <1>2, <1>3, PTL DEF LexSpec
=============================================================================
